--------------------- MODULE ArtifactMappings_proofs ---------------------
(* Proofs about the in-memory artifact map, for any handles, contents,     *)
(* parties, threads and time to live.                                      *)
EXTENDS ArtifactMappings, TLAPS

-----------------------------------------------------------------------------
(* Types *)

LEMMA UnindexedSubset == ASSUME NEW h \in Handle PROVE Unindexed(h) \subseteq expMap
BY DEF Unindexed

LEMMA InvalidatedType ==
    ASSUME cursor \in [Thread -> Cursor \union {NoCursor}], NEW H \in SUBSET Handle
    PROVE  Invalidated(H) \in [Thread -> Cursor \union {NoCursor}]
<1>1. ASSUME NEW t \in Thread, cursor[t].handle \in H
      PROVE  [cursor[t] EXCEPT !.live = FALSE] \in Cursor
  <2>1. cursor[t] # NoCursor
    BY <1>1, NoneAssumption DEF NoCursor
  <2>. QED
    BY <2>1 DEF Cursor
<1>. QED
  BY <1>1 DEF Invalidated

LEMMA GoneType == ASSUME TypeOK PROVE Gone \in SUBSET Handle
BY DEF TypeOK, Gone, Stale, ExpEntry

LEMMA SweptType ==
    ASSUME TypeOK, NEW H PROVE Swept(H) \in [Handle -> Mapping]
BY DEF TypeOK, Swept, NoMapping, Mapping, Requester

LEMMA StoreType ==
    ASSUME TypeOK, NEW c \in Content, NEW h \in Handle, NEW p \in Requester,
           StoreContent(c, h, p)
    PROVE  TypeOK'
<1>1. now' \in Nat /\ recipient' \in [Content -> Requester]
  BY DEF StoreContent, TypeOK
<1>2. Expiry(TTL) \in Nat /\ now + TTL \in Nat
  BY NumberAssumption DEF TypeOK, Expiry
<1>3. artMap' \in [Handle -> Mapping]
  <2>1. Swept(Gone) \in [Handle -> Mapping]
    BY SweptType
  <2>2. Swept(Gone)[h].relying \in Requester
    BY <2>1 DEF Mapping
  <2>. QED
    BY <1>2, <2>1, <2>2 DEF StoreContent, StoredParty, Mapping, Requester
<1>4. expMap' \subseteq ExpEntry
  BY <1>2 DEF StoreContent, TypeOK, ExpEntry
<1>5. used' \subseteq Handle
  BY DEF StoreContent, TypeOK
<1>6. owner' \in [Content -> Owner]
  BY DEF StoreContent, TypeOK, Owner
<1>7. deletes' \in [Content -> Nat]
  BY DEF StoreContent, TypeOK
<1>8. issued' \in [Content -> [party : Requester, deadline : Nat]]
  BY <1>2 DEF StoreContent, TypeOK
<1>9. cursor' \in [Thread -> Cursor \union {NoCursor}]
  BY InvalidatedType, GoneType DEF StoreContent, TypeOK
<1>. QED
  BY <1>1, <1>3, <1>4, <1>5, <1>6, <1>7, <1>8, <1>9 DEF TypeOK

LEMMA DiscardType ==
    ASSUME TypeOK, NEW h \in Mapped, Discard(h) PROVE TypeOK'
<1>1. h \in Handle /\ artMap[h].xml \in Content
  BY DEF Mapped, TypeOK, Mapping
<1>2. artMap' \in [Handle -> Mapping]
  BY <1>1 DEF Discard, TypeOK, Mapping, NoMapping, Requester
<1>3. expMap' \subseteq ExpEntry
  BY <1>1, UnindexedSubset DEF Discard, TypeOK
<1>4. cursor' \in [Thread -> Cursor \union {NoCursor}]
  BY InvalidatedType, <1>1 DEF Discard, TypeOK
<1>5. owner' \in [Content -> Owner] /\ deletes' \in [Content -> Nat]
  BY <1>1 DEF Discard, TypeOK, Owner
<1>. QED
  BY <1>2, <1>3, <1>4, <1>5 DEF Discard, TypeOK

LEMMA RetrieveType ==
    ASSUME TypeOK, NEW h \in Handle, NEW p \in Requester, RetrieveContent(h, p)
    PROVE  TypeOK'
<1>1. h \in Mapped /\ artMap[h].xml \in Content
  BY DEF RetrieveContent, Mapped, TypeOK, Mapping
<1>2. artMap' \in [Handle -> Mapping]
  BY <1>1 DEF RetrieveContent, TypeOK, Mapping, NoMapping, Requester
<1>3. expMap' \subseteq ExpEntry
  BY <1>1, UnindexedSubset DEF RetrieveContent, TypeOK
<1>4. cursor' \in [Thread -> Cursor \union {NoCursor}]
  BY InvalidatedType, <1>1 DEF RetrieveContent, TypeOK
<1>5. owner' \in [Content -> Owner] /\ recipient' \in [Content -> Requester]
  BY <1>1 DEF RetrieveContent, TypeOK, Owner
<1>6. deletes' \in [Content -> Nat]
  BY <1>1 DEF RetrieveContent, TypeOK, ReturnDeletes
<1>. QED
  BY <1>2, <1>3, <1>4, <1>5, <1>6 DEF RetrieveContent, TypeOK

LEMMA NextType == TypeOK /\ [Next]_vars => TypeOK'
<1>. SUFFICES ASSUME TypeOK, [Next]_vars PROVE TypeOK'
  OBVIOUS
<1>1. CASE Tick
  BY <1>1 DEF Tick, TypeOK
<1>2. ASSUME NEW c \in Content, NEW h \in Handle, NEW p \in Requester, StoreContent(c, h, p)
      PROVE  TypeOK'
  BY <1>2, StoreType
<1>3. ASSUME NEW h \in Handle, NEW p \in Requester,
             RetrieveUnauthorized(h, p) \/ RetrieveExpired(h, p)
      PROVE  TypeOK'
  BY <1>3, DiscardType DEF RetrieveUnauthorized, RetrieveExpired
<1>4. ASSUME NEW h \in Handle, NEW p \in Requester, RetrieveContent(h, p)
      PROVE  TypeOK'
  BY <1>4, RetrieveType
<1>5. ASSUME NEW t \in Thread, NEW h \in Handle, FindRelyingParty(t, h)
      PROVE  TypeOK'
  BY <1>5 DEF FindRelyingParty, TypeOK, Cursor
<1>6. ASSUME NEW t \in Thread, ReadRelyingParty(t)
      PROVE  TypeOK'
  BY <1>6 DEF ReadRelyingParty, TypeOK
<1>7. CASE UNCHANGED vars
  BY <1>7 DEF vars, TypeOK
<1>. QED
  BY <1>1, <1>2, <1>3, <1>4, <1>5, <1>6, <1>7 DEF Next

\* Every variable keeps its type, whatever the interleaving of the threads.
THEOREM TypeCorrect == Spec => []TypeOK
<1>1. Init => TypeOK
  BY NumberAssumption DEF Init, TypeOK, Mapping, NoMapping, Requester, Owner, Cursor, NoCursor
<1>. QED
  BY <1>1, NextType, PTL DEF Spec

-----------------------------------------------------------------------------
(* The inductive invariant, action by action *)

\* A step that leaves the map, its index and the contents' fate alone keeps
\* the invariant.
LEMMA IInvFrame ==
    ASSUME IInv, TypeOK', UNCHANGED <<artMap, expMap, used, owner, deletes, issued>>
    PROVE  IInv'
BY DEF IInv, TypeOK, MapOwnsWhatItMaps, ResolverOwnsAlone, MappingKeepsItsTerms,
       EveryMappingIndexed, IndexFollowsMap, IndexOf, Mapped

\* What storeContent leaves of the other handles.
LEMMA StoreOthers ==
    ASSUME IInv, NEW c \in Content, NEW h \in Handle, NEW p \in Requester,
           StoreContent(c, h, p), NEW g \in Handle, g # h, artMap'[g].xml # Null
    PROVE  /\ g \in Mapped /\ g \notin Gone
           /\ artMap'[g] = artMap[g]
           /\ artMap[g].xml \in Content \ {c}
           /\ artMap[g].xml \notin Victims
           /\ owner'[artMap[g].xml] = "map"
<1>1. artMap'[g] = Swept(Gone)[g]
  BY SweptType DEF StoreContent, IInv
<1>2. g \notin Gone /\ artMap'[g] = artMap[g]
  BY <1>1 DEF Swept, NoMapping
<1>3. g \in Mapped /\ artMap[g].xml \in Content
  BY <1>2 DEF Mapped, IInv, TypeOK, Mapping
<1>4. artMap[g].xml # c
  BY <1>3 DEF IInv, MapOwnsWhatItMaps, StoreContent
<1>5. artMap[g].xml \notin Victims
  BY <1>2, <1>3, GoneType DEF Victims, IInv, MapOwnsWhatItMaps, Mapped
<1>6. artMap[g].xml # Swept(Gone)[h].xml
  BY <1>3 DEF Swept, NoMapping, IInv, MapOwnsWhatItMaps, Mapped
<1>7. owner'[artMap[g].xml] = owner[artMap[g].xml]
  BY <1>3, <1>4, <1>5, <1>6 DEF StoreContent
<1>. QED
  BY <1>2, <1>3, <1>4, <1>5, <1>7 DEF IInv, MapOwnsWhatItMaps

\* What the sweep deletes, and what storeContent overwrites, is mapped.
LEMMA VictimsMapped ==
    ASSUME IInv, NEW d \in Victims
    PROVE  d \in Content /\ owner[d] = "map"
BY GoneType DEF Victims, IInv, TypeOK, Mapping, MapOwnsWhatItMaps, Mapped

LEMMA StoreInv ==
    ASSUME IInv, NEW c \in Content, NEW h \in Handle, NEW p \in Requester,
           StoreContent(c, h, p)
    PROVE  IInv'
<1>1. TypeOK'
  BY StoreType DEF IInv
<1>2. artMap'[h] = [xml |-> c, relying |-> StoredParty(Swept(Gone)[h], p), expires |-> now + TTL]
  BY SweptType DEF StoreContent, IInv, Expiry
<1>3. c # Null /\ owner[c] = "caller" /\ owner'[c] = "map"
  BY NoneAssumption DEF StoreContent
<1>4. MapOwnsWhatItMaps'
  <2>1. deletes'[c] = 0
    BY <1>3, VictimsMapped DEF StoreContent, IInv, ResolverOwnsAlone
  <2>2. ASSUME NEW g \in Handle, g # h, artMap'[g].xml # Null
        PROVE  owner'[artMap'[g].xml] = "map" /\ deletes'[artMap'[g].xml] = 0
    <3>1. /\ g \in Mapped /\ artMap'[g] = artMap[g] /\ owner'[artMap[g].xml] = "map"
          /\ artMap[g].xml \in Content /\ artMap[g].xml \notin Victims
      BY <2>2, StoreOthers
    <3>2. deletes'[artMap[g].xml] = deletes[artMap[g].xml]
      BY <3>1 DEF StoreContent
    <3>. QED
      BY <3>1, <3>2 DEF IInv, MapOwnsWhatItMaps
  <2>3. ASSUME NEW f \in Handle, NEW g \in Handle, artMap'[f].xml # Null,
               artMap'[f].xml = artMap'[g].xml
        PROVE  f = g
    <3>1. CASE f = h \/ g = h
      BY <1>2, <2>3, <3>1, StoreOthers
    <3>2. CASE f # h /\ g # h
      BY <2>3, <3>2, StoreOthers DEF IInv, MapOwnsWhatItMaps
    <3>. QED
      BY <3>1, <3>2
  <2>4. ASSUME NEW d \in Content, owner'[d] = "map", d # c
        PROVE  \E g \in Handle : artMap'[g].xml # Null /\ artMap'[g].xml = d
    <3>1. owner[d] = "map" /\ d \notin Victims /\ d # Swept(Gone)[h].xml
      BY <2>4 DEF StoreContent
    <3>2. PICK g \in Mapped : artMap[g].xml = d
      BY <3>1 DEF IInv, MapOwnsWhatItMaps
    <3>3. g \in Handle /\ g \notin Gone
      BY <3>1, <3>2 DEF Victims, Mapped
    <3>4. g # h
      BY <3>1, <3>2, <3>3 DEF Swept
    <3>5. artMap'[g] = artMap[g]
      BY <3>3, <3>4, SweptType DEF StoreContent, Swept, IInv
    <3>. QED
      BY <3>2, <3>3, <3>5 DEF Mapped
  <2>. QED
    BY <1>2, <1>3, <2>1, <2>2, <2>3, <2>4 DEF MapOwnsWhatItMaps, Mapped
<1>5. ResolverOwnsAlone'
  <2>. SUFFICES ASSUME NEW d \in Content, owner'[d] \in {"caller", "resolver"}
                PROVE  deletes'[d] = 0
    BY DEF ResolverOwnsAlone
  <2>1. owner'[d] = owner[d] /\ d \notin Victims
    BY DEF StoreContent
  <2>. QED
    BY <2>1 DEF StoreContent, IInv, ResolverOwnsAlone
<1>6. MappingKeepsItsTerms'
  <2>1. issued'[c] = [party |-> p, deadline |-> now + TTL]
    BY DEF StoreContent, IInv, TypeOK
  <2>2. p \in {NoParty, artMap'[h].relying}
    BY <1>2 DEF StoredParty
  <2>3. ASSUME NEW g \in Handle, g # h, artMap'[g].xml # Null
        PROVE  /\ artMap'[g].expires = issued'[artMap'[g].xml].deadline
               /\ issued'[artMap'[g].xml].party \in {NoParty, artMap'[g].relying}
    <3>1. /\ g \in Mapped /\ artMap'[g] = artMap[g]
          /\ artMap[g].xml \in Content /\ artMap[g].xml # c
      BY <2>3, StoreOthers
    <3>2. issued'[artMap[g].xml] = issued[artMap[g].xml]
      BY <3>1 DEF StoreContent, IInv, TypeOK
    <3>. QED
      BY <3>1, <3>2 DEF IInv, MappingKeepsItsTerms
  <2>. QED
    BY <1>2, <2>1, <2>2, <2>3 DEF MappingKeepsItsTerms, Mapped
<1>7. EveryMappingIndexed'
  <2>1. [expires |-> now + TTL, handle |-> h, by |-> c] \in expMap'
    BY DEF StoreContent, Expiry
  <2>2. ASSUME NEW g \in Handle, g # h, artMap'[g].xml # Null
        PROVE  \E el \in expMap' : el.expires = artMap'[g].expires /\ el.handle = g
    <3>1. PICK el \in expMap : el.expires = artMap[g].expires /\ el.handle = g
      BY <2>2, StoreOthers DEF IInv, EveryMappingIndexed, IndexOf
    <3>2. el \notin Stale
      BY <2>2, <3>1, StoreOthers DEF Gone
    <3>3. artMap'[g] = artMap[g]
      BY <2>2, StoreOthers
    <3>4. el \in expMap'
      BY <3>1, <3>2 DEF StoreContent
    <3>. QED
      BY <3>1, <3>3, <3>4
  <2>. QED
    BY <1>2, <2>1, <2>2 DEF EveryMappingIndexed, IndexOf, Mapped
<1>8. IndexFollowsMap'
  <2>. SUFFICES ASSUME NEW el \in expMap', el.handle \notin Reusable
                PROVE  /\ artMap'[el.handle].xml = el.by
                       /\ artMap'[el.handle].expires = el.expires
                       /\ el.handle \in used'
    BY DEF IndexFollowsMap
  <2>1. CASE el = [expires |-> now + TTL, handle |-> h, by |-> c]
    BY <1>2, <2>1 DEF StoreContent
  <2>2. CASE el \in expMap \ Stale
    <3>1. el.handle \in Handle /\ el.by \in Content
      BY <2>2 DEF IInv, TypeOK, ExpEntry
    <3>2. /\ artMap[el.handle].xml = el.by
          /\ artMap[el.handle].expires = el.expires
          /\ el.handle \in used
      BY <2>2 DEF IInv, IndexFollowsMap
    <3>3. el.handle # h
      BY <3>2 DEF StoreContent
    <3>4. el.handle \notin Gone
      <4>. SUFFICES ASSUME NEW s \in Stale, s.handle = el.handle PROVE FALSE
        BY DEF Gone
      <4>1. s \in expMap /\ Expired(s) /\ artMap[s.handle].expires = s.expires
        BY DEF Stale, IInv, IndexFollowsMap
      <4>. QED
        BY <2>2, <3>2, <4>1 DEF Stale, Expired
    <3>5. artMap'[el.handle] = artMap[el.handle]
      BY <3>1, <3>3, <3>4, SweptType DEF StoreContent, Swept, IInv
    <3>. QED
      BY <3>2, <3>5 DEF StoreContent
  <2>. QED
    BY <2>1, <2>2 DEF StoreContent, Expiry
<1>. QED
  BY <1>1, <1>4, <1>5, <1>6, <1>7, <1>8 DEF IInv

\* Erasing one mapping, with its index entry, keeps the invariant; what becomes
\* of its content is left open, as long as the map does not keep it and does
\* not delete what a resolver owns.
LEMMA EraseInv ==
    ASSUME IInv, TypeOK', NEW h \in Mapped, NEW o \in {"freed", "resolver"}, NEW n \in Nat,
           o = "resolver" => n = 0,
           artMap' = [artMap EXCEPT ![h] = NoMapping],
           expMap' = Unindexed(h),
           owner' = [owner EXCEPT ![artMap[h].xml] = o],
           deletes' = [deletes EXCEPT ![artMap[h].xml] = @ + n],
           UNCHANGED <<used, issued>>
    PROVE  IInv'
<1>1. h \in Handle /\ artMap[h].xml \in Content
  BY DEF Mapped, IInv, TypeOK, Mapping
<1>2. artMap'[h].xml = Null
  BY <1>1 DEF NoMapping, IInv, TypeOK
<1>3. ASSUME NEW g \in Handle, artMap'[g].xml # Null
      PROVE  /\ g \in Mapped /\ g # h /\ artMap'[g] = artMap[g]
             /\ artMap[g].xml \in Content /\ artMap[g].xml # artMap[h].xml
  <2>1. g # h /\ artMap'[g] = artMap[g] /\ g \in Mapped
    BY <1>2, <1>3 DEF Mapped, IInv, TypeOK
  <2>. QED
    BY <2>1 DEF Mapped, IInv, TypeOK, Mapping, MapOwnsWhatItMaps
<1>4. MapOwnsWhatItMaps'
  <2>1. ASSUME NEW d \in Content, owner'[d] = "map"
        PROVE  \E g \in Handle : artMap'[g].xml # Null /\ artMap'[g].xml = d
    <3>1. owner[d] = "map" /\ d # artMap[h].xml
      BY <1>1, <2>1 DEF IInv, TypeOK
    <3>2. PICK g \in Mapped : artMap[g].xml = d
      BY <3>1 DEF IInv, MapOwnsWhatItMaps
    <3>. QED
      BY <3>1, <3>2 DEF Mapped, IInv, TypeOK
  <2>2. ASSUME NEW g \in Handle, artMap'[g].xml # Null
        PROVE  owner'[artMap'[g].xml] = "map" /\ deletes'[artMap'[g].xml] = 0
    BY <1>3, <2>2 DEF IInv, TypeOK, MapOwnsWhatItMaps
  <2>3. ASSUME NEW f \in Handle, NEW g \in Handle, artMap'[f].xml # Null,
               artMap'[f].xml = artMap'[g].xml
        PROVE  f = g
    BY <1>3, <2>3 DEF IInv, MapOwnsWhatItMaps
  <2>. QED
    BY <2>1, <2>2, <2>3 DEF MapOwnsWhatItMaps, Mapped
<1>5. ResolverOwnsAlone'
  <2>. SUFFICES ASSUME NEW d \in Content, owner'[d] \in {"caller", "resolver"}
                PROVE  deletes'[d] = 0
    BY DEF ResolverOwnsAlone
  <2>1. CASE d = artMap[h].xml
    <3>1. owner'[d] = o /\ deletes'[d] = deletes[d] + n
      BY <1>1, <2>1 DEF IInv, TypeOK
    <3>. QED
      BY <2>1, <3>1 DEF IInv, MapOwnsWhatItMaps
  <2>2. CASE d # artMap[h].xml
    BY <2>2 DEF IInv, TypeOK, ResolverOwnsAlone
  <2>. QED
    BY <2>1, <2>2
<1>6. MappingKeepsItsTerms'
  BY <1>3 DEF IInv, MappingKeepsItsTerms, Mapped
<1>7. \A el \in expMap : el \in expMap' \/ el.handle = h
  BY DEF Unindexed, IndexOf
<1>8. EveryMappingIndexed'
  <2>. SUFFICES ASSUME NEW g \in Handle, artMap'[g].xml # Null
                PROVE  \E el \in expMap' : el.expires = artMap'[g].expires /\ el.handle = g
    BY DEF EveryMappingIndexed, IndexOf, Mapped
  <2>1. PICK el \in expMap : el.expires = artMap[g].expires /\ el.handle = g
    BY <1>3 DEF IInv, EveryMappingIndexed, IndexOf
  <2>. QED
    BY <1>3, <1>7, <2>1
<1>9. IndexFollowsMap'
  <2>. SUFFICES ASSUME NEW el \in expMap', el.handle \notin Reusable
                PROVE  /\ artMap'[el.handle].xml = el.by
                       /\ artMap'[el.handle].expires = el.expires
                       /\ el.handle \in used'
    BY DEF IndexFollowsMap
  <2>1. /\ el \in expMap /\ el.handle \in Handle
        /\ artMap[el.handle].xml = el.by
        /\ artMap[el.handle].expires = el.expires
        /\ el.handle \in used
    BY UnindexedSubset DEF IInv, TypeOK, ExpEntry, IndexFollowsMap
  <2>2. el.handle # h
    <3>. SUFFICES ASSUME el.handle = h PROVE FALSE
      OBVIOUS
    <3>1. \A s \in IndexOf(h) : s = el
      BY <2>1 DEF IndexOf, IInv, TypeOK, ExpEntry, IndexFollowsMap
    <3>2. el \in IndexOf(h)
      BY <2>1 DEF IndexOf
    <3>3. (CHOOSE s \in IndexOf(h) : TRUE) = el
      BY <3>1, <3>2
    <3>. QED
      BY <3>2, <3>3 DEF Unindexed
  <2>. QED
    BY <2>1, <2>2 DEF IInv, TypeOK
<1>. QED
  BY <1>4, <1>5, <1>6, <1>8, <1>9 DEF IInv

LEMMA DiscardInv ==
    ASSUME IInv, NEW h \in Mapped, Discard(h) PROVE IInv'
BY DiscardType, EraseInv DEF Discard, IInv

LEMMA RetrieveInv ==
    ASSUME IInv, NEW h \in Handle, NEW p \in Requester, RetrieveContent(h, p)
    PROVE  IInv'
BY RetrieveType, EraseInv DEF RetrieveContent, ReturnDeletes, IInv

\* The map, its index and the owners of the contents agree, in every reachable
\* state, whatever the callers store, retrieve and let expire.
THEOREM InvariantCorrect == Spec => []IInv
<1>1. Init => IInv
  <2>. SUFFICES ASSUME Init PROVE IInv
    OBVIOUS
  <2>1. Mapped = {}
    BY DEF Init, Mapped, NoMapping
  <2>2. TypeOK
    BY NumberAssumption DEF Init, TypeOK, Mapping, NoMapping, Requester, Owner, Cursor, NoCursor
  <2>. QED
    BY <2>1, <2>2 DEF Init, IInv, MapOwnsWhatItMaps, ResolverOwnsAlone, MappingKeepsItsTerms,
       EveryMappingIndexed, IndexFollowsMap
<1>2. IInv /\ [Next]_vars => IInv'
  <2>. SUFFICES ASSUME IInv, TypeOK', [Next]_vars PROVE IInv'
    BY NextType DEF IInv
  <2>1. CASE Tick
    BY <2>1, IInvFrame DEF Tick
  <2>2. ASSUME NEW c \in Content, NEW h \in Handle, NEW p \in Requester, StoreContent(c, h, p)
        PROVE  IInv'
    BY <2>2, StoreInv
  <2>3. ASSUME NEW h \in Handle, NEW p \in Requester,
               RetrieveUnauthorized(h, p) \/ RetrieveExpired(h, p)
        PROVE  IInv'
    BY <2>3, DiscardInv DEF RetrieveUnauthorized, RetrieveExpired
  <2>4. ASSUME NEW h \in Handle, NEW p \in Requester, RetrieveContent(h, p)
        PROVE  IInv'
    BY <2>4, RetrieveInv
  <2>5. ASSUME NEW t \in Thread, NEW h \in Handle, FindRelyingParty(t, h)
        PROVE  IInv'
    BY <2>5, IInvFrame DEF FindRelyingParty
  <2>6. ASSUME NEW t \in Thread, ReadRelyingParty(t)
        PROVE  IInv'
    BY <2>6, IInvFrame DEF ReadRelyingParty
  <2>7. CASE UNCHANGED vars
    BY <2>7, IInvFrame DEF vars
  <2>. QED
    BY <2>1, <2>2, <2>3, <2>4, <2>5, <2>6, <2>7 DEF Next
<1>. QED
  BY <1>1, <1>2, PTL DEF Spec

-----------------------------------------------------------------------------
(* Action property and refinement *)

LEMMA OtherStepsStoreNothing ==
    ASSUME IInv, [Next]_vars,
           ~ \E c \in Content, h \in Handle, p \in Requester : StoreContent(c, h, p),
           NEW c \in Content, owner[c] = "caller"
    PROVE  owner'[c] = "caller"
<1>. USE DEF IInv, TypeOK
<1>1. ASSUME NEW h \in Mapped PROVE artMap[h].xml # c
  BY <1>1 DEF MapOwnsWhatItMaps
<1>2. CASE Tick
  BY <1>2 DEF Tick
<1>3. ASSUME NEW h \in Handle, NEW p \in Requester,
             \/ RetrieveUnauthorized(h, p) \/ RetrieveExpired(h, p)
             \/ RetrieveContent(h, p)
      PROVE  owner'[c] = "caller"
  BY <1>1, <1>3 DEF RetrieveUnauthorized, RetrieveExpired, RetrieveContent, Discard
<1>4. ASSUME NEW t \in Thread, (\E h \in Handle : FindRelyingParty(t, h)) \/ ReadRelyingParty(t)
      PROVE  owner'[c] = "caller"
  BY <1>4 DEF FindRelyingParty, ReadRelyingParty
<1>5. CASE UNCHANGED vars
  BY <1>5 DEF vars
<1>. QED
  BY <1>2, <1>3, <1>4, <1>5 DEF Next

LEMMA StoreFreesStep ==
    ASSUME IInv, NEW c \in Content, NEW h \in Handle, NEW p \in Requester, StoreContent(c, h, p),
           NEW d \in Content, NEW g \in Handle \ Reusable, artMap[g].xml = d, owner'[d] = "freed"
    PROVE  now >= issued[d].deadline
<1>1. d \in Victims
  <2>1. owner[d] = "map"
    BY NoneAssumption DEF IInv, MapOwnsWhatItMaps, Mapped
  <2>. QED
    BY <2>1 DEF StoreContent
<1>2. PICK el \in Stale : artMap[el.handle].xml = d /\ d # Null
  BY <1>1 DEF Victims, Gone
<1>3. el \in expMap /\ el.handle \in Mapped
  BY <1>2 DEF Stale, IInv, TypeOK, ExpEntry, Mapped
<1>4. el.handle = g
  BY <1>2, <1>3 DEF IInv, MapOwnsWhatItMaps, Mapped
<1>5. el.expires = issued[d].deadline
  BY <1>2, <1>3, <1>4 DEF IInv, IndexFollowsMap, MappingKeepsItsTerms
<1>6. el.expires <= now
  BY DEF Stale, Expired
<1>. QED
  BY <1>3, <1>5, <1>6 DEF IInv, TypeOK, ExpEntry

\* storeContent deletes no content under a handle that is not stored twice
\* before the content's time to live is over.
THEOREM FreesOnlyExpired == Spec => StoreFreesOnlyExpired
<1>1. IInv /\ [Next]_vars =>
        [\A c, d \in Content, h \in Handle \ Reusable :
           (owner[c] = "caller" /\ owner'[c] = "map" /\ artMap[h].xml = d /\ owner'[d] = "freed")
              => now >= issued[d].deadline]_vars
  BY StoreFreesStep, OtherStepsStoreNothing
<1>. QED
  BY <1>1, InvariantCorrect, PTL DEF Spec, StoreFreesOnlyExpired

\* What one store leaves behind is either new or not over yet.
LEMMA StoreSweepsStep ==
    ASSUME IInv, NEW c \in Content, NEW h \in Handle, NEW p \in Requester,
           StoreContent(c, h, p), NEW g \in Handle,
           artMap'[g] = artMap[g], artMap[g].xml # Null
    PROVE  now < artMap[g].expires
<1>1. owner[c] = "caller" /\ owner[artMap[g].xml] = "map"
  BY DEF StoreContent, IInv, MapOwnsWhatItMaps, Mapped
<1>2. g # h
  <2>1. SUFFICES ASSUME g = h PROVE artMap'[g].xml = c
    BY <1>1
  <2>. QED
    BY <2>1 DEF StoreContent, Swept
<1>3. g \notin Gone
  <2>1. SUFFICES ASSUME g \in Gone PROVE artMap'[g] = NoMapping
    BY DEF NoMapping
  <2>. QED
    BY <1>2, <2>1 DEF StoreContent, Swept
<1>4. PICK el \in expMap : el.handle = g /\ el.expires = artMap[g].expires
  BY DEF IInv, EveryMappingIndexed, IndexOf, Mapped
<1>5. ~(el.expires <= now)
  BY <1>3, <1>4 DEF Gone, Stale, Expired
<1>. QED
  BY <1>4, <1>5 DEF IInv, TypeOK, ExpEntry

\* After storeContent nothing that had expired before it is left in the map,
\* even when handles are stored twice.
THEOREM StoringSweeps == Spec => StoreSweeps
<1>1. ASSUME IInv, [Next]_vars, NEW c \in Content, owner[c] = "caller", owner'[c] = "map",
             NEW g \in Handle, artMap'[g] = artMap[g], artMap[g].xml # Null
      PROVE  now < artMap[g].expires
  <2>1. \E d \in Content, h \in Handle, p \in Requester : StoreContent(d, h, p)
    BY <1>1, OtherStepsStoreNothing
  <2>. QED
    BY <1>1, <2>1, StoreSweepsStep
<1>2. IInv /\ [Next]_vars =>
        [(\E c \in Content : owner[c] = "caller" /\ owner'[c] = "map")
           => \A h \in Handle : artMap'[h] = artMap[h] /\ artMap[h].xml # Null
                                  => now < artMap[h].expires]_vars
  BY <1>1
<1>. QED
  BY <1>2, InvariantCorrect, PTL DEF Spec, StoreSweeps

LEMMA StoreImplements ==
    ASSUME IInv, NEW c \in Content, NEW h \in Handle, NEW p \in Requester,
           StoreContent(c, h, p)
    PROVE  OneTime!Step
<1>1. now' >= now
  BY DEF StoreContent, IInv, TypeOK
<1>2. OneTime!Issue(c)
  <2>1. owner[c] = "caller" /\ owner'[c] = "map" /\ recipient' = recipient
    BY DEF StoreContent
  <2>2. issued'[c].deadline >= now
    BY NumberAssumption DEF StoreContent, IInv, TypeOK
  <2>. QED
    BY <2>1, <2>2 DEF OneTime!Issue, Stage
<1>3. ASSUME NEW d \in Content, d # c
      PROVE  OneTime!Idle(d) \/ OneTime!Drop(d)
  <2>1. issued'[d] = issued[d] /\ recipient'[d] = recipient[d]
    BY <1>3 DEF StoreContent, IInv, TypeOK
  <2>2. CASE owner'[d] = owner[d]
    BY <2>1, <2>2 DEF OneTime!Idle
  <2>3. CASE owner'[d] # owner[d]
    <3>1. owner'[d] \in {"freed", "leaked"}
      BY <1>3, <2>3 DEF StoreContent
    <3>2. d \in Victims \/ d = Swept(Gone)[h].xml
      BY <1>3, <2>3 DEF StoreContent
    <3>3. owner[d] = "map"
      <4>1. CASE d \in Victims
        BY <4>1, VictimsMapped
      <4>2. CASE d = Swept(Gone)[h].xml
        BY <4>2, NoneAssumption DEF Swept, NoMapping, IInv, MapOwnsWhatItMaps, Mapped
      <4>. QED
        BY <3>2, <4>1, <4>2
    <3>. QED
      BY <2>1, <3>1, <3>3 DEF OneTime!Drop, Stage
  <2>. QED
    BY <2>2, <2>3
<1>. QED
  BY <1>1, <1>2, <1>3 DEF OneTime!Step

\* Only the content of one mapping moves.
LEMMA EraseImplements ==
    ASSUME IInv, NEW h \in Mapped, NEW o \in Owner,
           now' = now, issued' = issued,
           owner' = [owner EXCEPT ![artMap[h].xml] = o],
           \A c \in Content : c # artMap[h].xml => recipient'[c] = recipient[c],
           \/ o = "freed" /\ recipient' = recipient
           \/ /\ o = "resolver"
              /\ now < artMap[h].expires
              /\ artMap[h].relying \in {NoParty, recipient'[artMap[h].xml]}
    PROVE  OneTime!Step
<1>. DEFINE c == artMap[h].xml
<1>1. c \in Content /\ owner[c] = "map" /\ owner'[c] = o
  BY DEF Mapped, IInv, TypeOK, Mapping, MapOwnsWhatItMaps
<1>2. issued[c].deadline = artMap[h].expires /\ issued[c].party \in {NoParty, artMap[h].relying}
  BY DEF IInv, MappingKeepsItsTerms
<1>3. OneTime!Deliver(c) \/ OneTime!Drop(c)
  BY <1>1, <1>2 DEF OneTime!Deliver, OneTime!Drop, Stage
<1>4. ASSUME NEW d \in Content, d # c PROVE OneTime!Idle(d)
  BY <1>4 DEF OneTime!Idle, IInv, TypeOK
<1>. QED
  BY <1>3, <1>4 DEF OneTime!Step, IInv, TypeOK

\* The in-memory map implements the one-time artifact specification: a content
\* leaves it once, and only an authorized party gets it, before its deadline.
THEOREM Implements == Spec => OneTimeSpec
<1>1. Init => OneTime!Init
  BY DEF Init, OneTime!Init, Stage
<1>2. IInv /\ [Next]_vars => [OneTime!Step]_OneTime!absVars
  <2>. SUFFICES ASSUME IInv, [Next]_vars PROVE [OneTime!Step]_OneTime!absVars
    OBVIOUS
  <2>1. CASE Tick
    <3>1. \A c \in Content : OneTime!Idle(c)
      BY <2>1 DEF Tick, OneTime!Idle, Stage
    <3>. QED
      BY <2>1, <3>1 DEF Tick, OneTime!Step, IInv, TypeOK
  <2>2. ASSUME NEW c \in Content, NEW h \in Handle, NEW p \in Requester, StoreContent(c, h, p)
        PROVE  OneTime!Step
    BY <2>2, StoreImplements
  <2>3. ASSUME NEW h \in Handle, NEW p \in Requester,
               RetrieveUnauthorized(h, p) \/ RetrieveExpired(h, p)
        PROVE  OneTime!Step
    BY <2>3, EraseImplements DEF RetrieveUnauthorized, RetrieveExpired, Discard, Owner
  <2>4. ASSUME NEW h \in Handle, NEW p \in Requester, RetrieveContent(h, p)
        PROVE  OneTime!Step
    <3>1. artMap[h].xml \in Content
      BY <2>4 DEF RetrieveContent, Mapped, IInv, TypeOK, Mapping
    <3>2. recipient'[artMap[h].xml] = p
          /\ \A c \in Content : c # artMap[h].xml => recipient'[c] = recipient[c]
      BY <2>4, <3>1 DEF RetrieveContent, IInv, TypeOK
    <3>3. now < artMap[h].expires
      BY <2>4 DEF RetrieveContent, TooLate, IInv, TypeOK, Mapping
    <3>. QED
      BY <2>4, <3>2, <3>3, EraseImplements DEF RetrieveContent, Authorized, Owner
  <2>5. ASSUME owner' = owner, UNCHANGED <<now, issued, recipient>>
        PROVE  UNCHANGED OneTime!absVars
    BY <2>5 DEF OneTime!absVars, Stage
  <2>6. ASSUME NEW t \in Thread, (\E h \in Handle : FindRelyingParty(t, h)) \/ ReadRelyingParty(t)
        PROVE  UNCHANGED OneTime!absVars
    BY <2>5, <2>6 DEF FindRelyingParty, ReadRelyingParty
  <2>7. CASE UNCHANGED vars
    BY <2>5, <2>7 DEF vars
  <2>. QED
    BY <2>1, <2>2, <2>3, <2>4, <2>6, <2>7 DEF Next
<1>. QED
  BY <1>1, <1>2, InvariantCorrect, PTL DEF Spec, OneTimeSpec, OneTime!Spec
=============================================================================
