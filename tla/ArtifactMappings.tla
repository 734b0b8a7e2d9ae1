------------------------- MODULE ArtifactMappings -------------------------
(***************************************************************************)
(* The in-memory artifact map (class ArtifactMappings of                   *)
(* saml/binding/impl/ArtifactMap.cpp): a map from message handles to       *)
(* mappings and a multimap from expiration times to handles, both guarded  *)
(* by a mutex that storeContent and retrieveContent hold for their whole   *)
(* body.  getRelyingParty takes no lock: it finds the mapping and reads it *)
(* in two steps, and other threads run in between.                         *)
(*                                                                         *)
(* The XML content is a C++ object with one owner.  owner and deletes      *)
(* follow it through the map, as the destructor of Mapping and the sweep   *)
(* of storeContent delete it.                                              *)
(***************************************************************************)
EXTENDS Naturals, FiniteSets

CONSTANTS
    Thread,         \* threads that call getRelyingParty
    Handle,         \* hexed message handles
    Content,        \* XML objects callers store
    Party,          \* entityIDs
    NoParty,        \* null relyingParty, and the empty m_relying
    Null,           \* null XMLObject*, and the key of no iterator
    TTL,            \* m_artifactTTL, in seconds
    MaxTime,        \* bound on the clock, for TLC only
    Reusable        \* handles that may be stored more than once (they are random)

ASSUME NoneAssumption == NoParty \notin Party /\ Null \notin Content \union Handle
ASSUME NumberAssumption == TTL \in Nat /\ MaxTime \in Nat
ASSUME ReusableAssumption == Reusable \subseteq Handle

VARIABLES
    now,        \* time(nullptr)
    artMap,     \* m_artMap; a handle that is not a key maps to NoMapping
    expMap,     \* m_expMap; "by" tells equal multimap entries apart
    used,       \* handles some artifact was created with (history)
    owner,      \* owner[c]: who owns the object c
    deletes,    \* deletes[c]: how often operator delete ran on c
    issued,     \* issued[c]: party and deadline c was stored with (history)
    recipient,  \* recipient[c]: to whom c was returned (history)
    cursor      \* cursor[t]: t's iterator inside getRelyingParty

vars == <<now, artMap, expMap, used, owner, deletes, issued, recipient, cursor>>

Requester == Party \union {NoParty}
Owner == {"caller", "map", "resolver", "freed", "leaked"}

Mapping == [xml : Content \union {Null}, relying : Requester, expires : Nat]
ExpEntry == [expires : Nat, handle : Handle, by : Content]
Cursor == [handle : Handle, live : BOOLEAN]
NoCursor == [handle |-> Null, live |-> TRUE]

\* The state of a default-constructed Mapping.
NoMapping == [xml |-> Null, relying |-> NoParty, expires |-> 0]
Mapped == {h \in Handle : artMap[h].xml # Null}

Init ==
    /\ now = 0
    /\ artMap = [h \in Handle |-> NoMapping]
    /\ expMap = {}
    /\ used = {}
    /\ owner = [c \in Content |-> "caller"]
    /\ deletes = [c \in Content |-> 0]
    /\ issued = [c \in Content |-> [party |-> NoParty, deadline |-> 0]]
    /\ recipient = [c \in Content |-> NoParty]
    /\ cursor = [t \in Thread |-> NoCursor]

-----------------------------------------------------------------------------
(* The decisions of the code, each with a variant that a plausible slip     *)
(* would give; the specification does not use the variants.                *)

\* removeMapping drops one index entry that has the mapping's time and handle.
IndexOf(h) == {el \in expMap : el.expires = artMap[h].expires /\ el.handle = h}

Unindexed(h) ==
    IF IndexOf(h) = {} THEN expMap ELSE expMap \ {CHOOSE el \in IndexOf(h) : TRUE}

\* The sweep of storeContent takes every index entry up to upper_bound(now).
\* Variants: one second early; lower_bound instead.
Expired_Early(el) == el.expires <= now + 1
Expired_Lower(el) == el.expires < now
Expired(el) == el.expires <= now

\* The index entries the sweep takes, their handles, and their contents.
Stale == {el \in expMap : Expired(el)}
Gone == {el.handle : el \in Stale}
Victims == {artMap[g].xml : g \in Gone} \ {Null}

\* The sweep erases the mapping of every handle it met.  Variant: it does not.
Swept_Deleted(H) == artMap
Swept(H) == [h \in Handle |-> IF h \in H THEN NoMapping ELSE artMap[h]]

\* m_relying of a mapping stored for p, in the place of the mapping m, which may
\* be another one of the same handle.  Variant: the first party named stays.
StoredParty_First(m, p) == IF m.relying = NoParty THEN p ELSE m.relying
StoredParty(m, p) == IF p = NoParty THEN m.relying ELSE p

\* m_expires of a mapping stored now.
Expiry(ttl) == now + ttl

\* A mapping that names a relying party is only for a requester of that name.
Authorized(h, p) == artMap[h].relying \in {NoParty, p}

\* A mapping dies at the second it expires.
TooLate(h) == now >= artMap[h].expires

\* How often the mapping's destructor deletes the content that retrieveContent
\* returns: m_xml was cleared before.
ReturnDeletes == 0

\* Erasing the keys in H invalidates the iterators that point to them.
Invalidated(H) ==
    [t \in Thread |-> IF cursor[t].handle \in H
                      THEN [cursor[t] EXCEPT !.live = FALSE] ELSE cursor[t]]
-----------------------------------------------------------------------------

\* storeContent: sweep what has expired, then map the handle to the content.
\* The sweep deletes m_xml itself and erases the mapping, whose destructor
\* deletes m_xml again.  Overwriting a mapping loses its old content, and
\* keeps its relying party when the caller names none.
StoreContent(c, h, p) ==
    /\ owner[c] = "caller"
    /\ h \in used => h \in Reusable
    /\ artMap' = [Swept(Gone) EXCEPT ![h] =
         [xml |-> c,
          relying |-> StoredParty(Swept(Gone)[h], p),
          expires |-> Expiry(TTL)]]
    /\ expMap' = (expMap \ Stale) \union {[expires |-> Expiry(TTL), handle |-> h, by |-> c]}
    /\ owner' = [d \in Content |->
         CASE d = c -> "map"
           [] d # c /\ d \in Victims -> "freed"
           [] d # c /\ d \notin Victims /\ d = Swept(Gone)[h].xml -> "leaked"
           [] OTHER -> owner[d]]
    /\ deletes' = [d \in Content |->
         IF d \in Victims THEN deletes[d] + 2 ELSE deletes[d]]
    /\ cursor' = Invalidated(Gone)
    /\ used' = used \union {h}
    /\ issued' = [issued EXCEPT ![c] = [party |-> p, deadline |-> now + TTL]]
    /\ UNCHANGED <<now, recipient>>

\* The mapping of h is erased and its destructor deletes the content.
Discard(h) ==
    /\ artMap' = [artMap EXCEPT ![h] = NoMapping]
    /\ expMap' = Unindexed(h)
    /\ owner' = [owner EXCEPT ![artMap[h].xml] = "freed"]
    /\ deletes' = [deletes EXCEPT ![artMap[h].xml] = @ + 1]
    /\ cursor' = Invalidated({h})
    /\ UNCHANGED <<now, used, issued, recipient>>

\* retrieveContent by the wrong party: the mapping goes, the caller gets an
\* exception.
RetrieveUnauthorized(h, p) ==
    /\ h \in Mapped
    /\ ~Authorized(h, p)
    /\ Discard(h)

\* retrieveContent after the expiration time.
RetrieveExpired(h, p) ==
    /\ h \in Mapped
    /\ Authorized(h, p)
    /\ TooLate(h)
    /\ Discard(h)

\* retrieveContent that succeeds: the caller becomes the owner of the content.
RetrieveContent(h, p) ==
    /\ h \in Mapped
    /\ Authorized(h, p)
    /\ ~TooLate(h)
    /\ artMap' = [artMap EXCEPT ![h] = NoMapping]
    /\ expMap' = Unindexed(h)
    /\ owner' = [owner EXCEPT ![artMap[h].xml] = "resolver"]
    /\ deletes' = [deletes EXCEPT ![artMap[h].xml] = @ + ReturnDeletes]
    /\ recipient' = [recipient EXCEPT ![artMap[h].xml] = p]
    /\ cursor' = Invalidated({h})
    /\ UNCHANGED <<now, used, issued>>

\* getRelyingParty: find the mapping ...
FindRelyingParty(t, h) ==
    /\ cursor[t] = NoCursor
    /\ h \in Mapped
    /\ cursor' = [cursor EXCEPT ![t] = [handle |-> h, live |-> TRUE]]
    /\ UNCHANGED <<now, artMap, expMap, used, owner, deletes, issued, recipient>>

\* ... then copy its m_relying and return.
ReadRelyingParty(t) ==
    /\ cursor[t] # NoCursor
    /\ cursor' = [cursor EXCEPT ![t] = NoCursor]
    /\ UNCHANGED <<now, artMap, expMap, used, owner, deletes, issued, recipient>>

Tick ==
    /\ now < MaxTime
    /\ now' = now + 1
    /\ UNCHANGED <<artMap, expMap, used, owner, deletes, issued, recipient, cursor>>

Next ==
    \/ Tick
    \/ \E h \in Handle, p \in Requester :
        \/ \E c \in Content : StoreContent(c, h, p)
        \/ RetrieveUnauthorized(h, p)
        \/ RetrieveExpired(h, p)
        \/ RetrieveContent(h, p)
    \/ \E t \in Thread :
        \/ \E h \in Handle : FindRelyingParty(t, h)
        \/ ReadRelyingParty(t)

Spec == Init /\ [][Next]_vars
-----------------------------------------------------------------------------
(* Properties *)

\* Every variable of the map and of its callers has its type.
TypeOK ==
    /\ now \in Nat
    /\ artMap \in [Handle -> Mapping]
    /\ expMap \subseteq ExpEntry
    /\ used \subseteq Handle
    /\ owner \in [Content -> Owner]
    /\ deletes \in [Content -> Nat]
    /\ issued \in [Content -> [party : Requester, deadline : Nat]]
    /\ recipient \in [Content -> Requester]
    /\ cursor \in [Thread -> Cursor \union {NoCursor}]

\* Every mapping is in the expiration index under its own time, so the sweep
\* of a later storeContent will find it: no mapping is kept for ever.
EveryMappingIndexed ==
    \A h \in Mapped : IndexOf(h) # {}

\* Every index entry of a handle that is not stored twice belongs to a mapping
\* that is still there and has that very time, so the sweep removes only what
\* has really expired.
IndexFollowsMap ==
    \A el \in expMap : el.handle \notin Reusable =>
        /\ artMap[el.handle].xml = el.by
        /\ artMap[el.handle].expires = el.expires
        /\ el.handle \in used

\* The map owns exactly the contents it maps, each under one handle, and
\* none of them has been deleted.
MapOwnsWhatItMaps ==
    /\ \A h \in Mapped : /\ owner[artMap[h].xml] = "map"
                         /\ deletes[artMap[h].xml] = 0
    /\ \A g, h \in Mapped : artMap[g].xml = artMap[h].xml => g = h
    /\ \A c \in Content : owner[c] = "map" => \E h \in Mapped : artMap[h].xml = c

\* A content handed to a resolver is never deleted by the map.
ResolverOwnsAlone ==
    \A c \in Content : owner[c] \in {"caller", "resolver"} => deletes[c] = 0

\* A mapping has the deadline its content was stored with, and names a party
\* whenever its content was stored for one: the terms of a mapping are never
\* those of another content, and are never relaxed.
MappingKeepsItsTerms ==
    \A h \in Mapped :
        /\ artMap[h].expires = issued[artMap[h].xml].deadline
        /\ issued[artMap[h].xml].party \in {NoParty, artMap[h].relying}

\* No content is deleted twice.
DeletedOnce == \A c \in Content : deletes[c] <= 1

\* getRelyingParty reads a mapping that is still in the map.  The code does not
\* keep this: see the README.
ReadsLiveMapping == \A t \in Thread : cursor[t].live

\* Storing one content never deletes another one, under a handle that is not
\* stored twice, before the time to live it was stored with is over: storeContent
\* sweeps by time alone.
StoreFreesOnlyExpired ==
    [][\A c, d \in Content, h \in Handle \ Reusable :
         (owner[c] = "caller" /\ owner'[c] = "map" /\ artMap[h].xml = d /\ owner'[d] = "freed")
            => now >= issued[d].deadline]_vars

\* After storeContent nothing that had expired before it is left in the map.
StoreSweeps ==
    [][(\E c \in Content : owner[c] = "caller" /\ owner'[c] = "map")
         => \A h \in Handle : artMap'[h] = artMap[h] /\ artMap[h].xml # Null
                                => now < artMap[h].expires]_vars

\* The inductive invariant of the map: it owns what it maps and nothing else,
\* under the terms each content was stored with, and finds every mapping again
\* when its time is over, even when handles are reused.
IInv ==
    /\ TypeOK
    /\ MapOwnsWhatItMaps
    /\ ResolverOwnsAlone
    /\ MappingKeepsItsTerms
    /\ EveryMappingIndexed
    /\ IndexFollowsMap

\* The map is a one-time artifact map.
Stage(o) ==
    CASE o = "caller" -> "fresh"
      [] o = "map" -> "pending"
      [] o = "resolver" -> "delivered"
      [] o \in {"freed", "leaked"} -> "dropped"

OneTime == INSTANCE OneTimeArtifacts
    WITH clock <- now, stage <- [c \in Content |-> Stage(owner[c])]

OneTimeSpec == OneTime!Spec
=============================================================================
