------------------------- MODULE ArtifactStorage -------------------------
(***************************************************************************)
(* The artifact map on top of a StorageService (class ArtifactMap of       *)
(* saml/binding/impl/ArtifactMap.cpp with m_storage set).  No lock is held:*)
(* retrieveContent reads the record, deletes it, and only then looks at    *)
(* the relying party; other threads, and other processes that share the    *)
(* storage, run between these calls.  Each storage call is atomic, and     *)
(* each may fail with an exception.  A process may die between two calls   *)
(* while the storage keeps its records.                                    *)
(***************************************************************************)
EXTENDS Naturals, FiniteSets

CONSTANTS
    Thread,         \* threads, of any process, that resolve artifacts
    Handle,         \* message handles
    Content,        \* XML objects callers store
    Party,          \* entityIDs
    NoParty,        \* null relyingParty, no Mapping element around the content
    None,           \* no record, no buffer
    TTL,            \* m_artifactTTL
    MaxTime         \* bound on the clock, for TLC only

ASSUME NoneAssumption ==
    /\ NoParty \notin Party
    /\ None \notin [relying : Party \union {NoParty}, expires : Nat]
ASSUME NumberAssumption == TTL \in Nat /\ MaxTime \in Nat

VARIABLES
    now,        \* time(nullptr)
    records,    \* records[h]: the record under the key of h, or None
    stored,     \* stored[c]: the terms c was stored with, or None (history)
    call,       \* call[t]: where t is in retrieveContent
    outcome     \* outcome[c]: set of <<thread, party, result>> of c (history)

vars == <<now, records, stored, call, outcome>>

Requester == Party \union {NoParty}
Record == [xml : Content, relying : Requester, expires : Nat]
Idle == [pc |-> "idle"]
Call == [pc : {"start"}, handle : Handle, party : Requester]
          \union [pc : {"delete", "parse"}, handle : Handle, party : Requester, xmlbuf : Record]

Init ==
    /\ now = 0
    /\ records = [h \in Handle |-> None]
    /\ stored = [c \in Content |-> None]
    /\ call = [t \in Thread |-> Idle]
    /\ outcome = [c \in Content |-> {}]

-----------------------------------------------------------------------------
(* The decisions of the code, each with a variant that a plausible slip     *)
(* would give; the specification does not use the variants.                *)

\* The storage service does not show a record that has expired.
Visible(h) == records[h] # None /\ now < records[h].expires

\* createText refuses to overwrite a live record.
MayCreate(h) == ~Visible(h)

\* When a record made now expires.  Variant: the sign is wrong.
Expiry_Minus(ttl) == now - ttl
Expiry(ttl) == now + ttl

\* The relying party of the Mapping element against the requester.
\* Variant: an unknown requester passes.
Authorized_Unknown(r, p) == r.relying \in {NoParty, p} \/ p = NoParty
Authorized(r, p) == r.relying \in {NoParty, p}

\* Where retrieveContent goes after a successful read.  Variant: it looks at
\* the party first and deletes only afterwards, never for a refused party.
AfterRead_CheckFirst(r, p) == IF Authorized(r, p) THEN "delete" ELSE "parse"
AfterRead(r, p) == "delete"

\* What is left under a key after deleteText.  Variant: nothing was deleted.
AfterDelete_Ignored(h) == records
AfterDelete(h) == [records EXCEPT ![h] = None]
-----------------------------------------------------------------------------

\* storeContent: one createText, after which the content lives in the record
\* only.  A live record under the same key makes the call throw.
StoreContent(c, h, p) ==
    /\ stored[c] = None
    /\ MayCreate(h)
    /\ records' = [records EXCEPT ![h] = [xml |-> c, relying |-> p, expires |-> Expiry(TTL)]]
    /\ stored' = [stored EXCEPT ![c] = [relying |-> p, expires |-> Expiry(TTL)]]
    /\ UNCHANGED <<now, call, outcome>>

\* retrieveContent is called.
Call_retrieveContent(t, h, p) ==
    /\ call[t] = Idle
    /\ call' = [call EXCEPT ![t] = [pc |-> "start", handle |-> h, party |-> p]]
    /\ UNCHANGED <<now, records, stored, outcome>>

\* readText finds the record: its text is now in xmlbuf.
ReadText(t) ==
    /\ call[t].pc = "start"
    /\ Visible(call[t].handle)
    /\ LET r == records[call[t].handle]
       IN call' = [call EXCEPT ![t] =
              [pc |-> AfterRead(r, call[t].party), handle |-> call[t].handle,
               party |-> call[t].party, xmlbuf |-> r]]
    /\ UNCHANGED <<now, records, stored, outcome>>

\* readText finds nothing, or any storage call throws: so does the caller.
ReadNothing(t) ==
    /\ call[t].pc = "start"
    /\ ~Visible(call[t].handle)
    /\ call' = [call EXCEPT ![t] = Idle]
    /\ UNCHANGED <<now, records, stored, outcome>>

StorageFails(t) ==
    /\ call[t].pc \in {"start", "delete"}
    /\ call' = [call EXCEPT ![t] = Idle]
    /\ UNCHANGED <<now, records, stored, outcome>>

\* deleteText removes whatever is under the key now; its result is ignored.
DeleteText(t) ==
    /\ call[t].pc = "delete"
    /\ records' = AfterDelete(call[t].handle)
    /\ call' = [call EXCEPT ![t].pc = "parse"]
    /\ UNCHANGED <<now, stored, outcome>>

Ended(t, result) ==
    /\ outcome' = [outcome EXCEPT ![call[t].xmlbuf.xml] =
                      @ \union {[by |-> t, party |-> call[t].party, result |-> result]}]
    /\ call' = [call EXCEPT ![t] = Idle]
    /\ UNCHANGED <<now, records, stored>>

\* The record names another party: exception.
Refuse(t) ==
    /\ call[t].pc = "parse"
    /\ ~Authorized(call[t].xmlbuf, call[t].party)
    /\ Ended(t, "refused")

\* The content is rebuilt from the text and handed to the caller.
Return(t) ==
    /\ call[t].pc = "parse"
    /\ Authorized(call[t].xmlbuf, call[t].party)
    /\ Ended(t, "delivered")

\* The threads of a process die wherever they are; the storage survives.
Crash(T) ==
    /\ T # {}
    /\ call' = [t \in Thread |-> IF t \in T THEN Idle ELSE call[t]]
    /\ UNCHANGED <<now, records, stored, outcome>>

Tick ==
    /\ now < MaxTime
    /\ now' = now + 1
    /\ UNCHANGED <<records, stored, call, outcome>>

Step(t) ==
    \/ ReadText(t) \/ ReadNothing(t) \/ StorageFails(t)
    \/ DeleteText(t) \/ Refuse(t) \/ Return(t)

Next ==
    \/ Tick
    \/ \E h \in Handle, p \in Requester :
        \/ \E c \in Content : StoreContent(c, h, p)
        \/ \E t \in Thread : Call_retrieveContent(t, h, p)
    \/ \E t \in Thread : Step(t)
    \/ \E T \in SUBSET Thread : Crash(T)

Spec == Init /\ [][Next]_vars
-----------------------------------------------------------------------------
(* Properties *)

\* Every variable has its type.
TypeOK ==
    /\ now \in Nat
    /\ records \in [Handle -> Record \union {None}]
    /\ stored \in [Content -> [relying : Requester, expires : Nat] \union {None}]
    /\ call \in [Thread -> Call \union {Idle}]
    /\ outcome \in [Content -> SUBSET
           [by : Thread, party : Requester, result : {"delivered", "refused"}]]

\* A content is handed only to the party it was stored for, whatever other
\* threads store and delete between the read and the return.
DeliveredAsStored ==
    \A c \in Content : \A o \in outcome[c] :
        o.result = "delivered" => stored[c].relying \in {NoParty, o.party}

\* Once some call has delivered a content or refused it, its record is gone
\* from the storage for good: no later call can find it.
EndedIsGone ==
    \A c \in Content : outcome[c] # {} => \A h \in Handle : records[h] # None => records[h].xml # c

\* A content is delivered at most once: the first attempt that reads a mapping
\* takes it.  The code does not keep this: see the README.
DeliveredOnce ==
    \A c \in Content : Cardinality({o \in outcome[c] : o.result = "delivered"}) <= 1
=============================================================================
