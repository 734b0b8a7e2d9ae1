----------------------- MODULE ArtifactStorage_proofs -----------------------
(* Proofs about the storage-backed artifact map, for any threads, handles, *)
(* contents and parties, with storage failures and crashes at every point. *)
EXTENDS ArtifactStorage, TLAPS

-----------------------------------------------------------------------------
(* The inductive invariant *)

\* A record, or what a thread has read of one, was stored with its terms.
AsStored(r) == stored[r.xml] # None /\ stored[r.xml].relying = r.relying

Reading == {"delete", "parse"}
Live == {h \in Handle : records[h] # None}

RecordsAsStored == \A h \in Live : AsStored(records[h])
BuffersAsStored == \A t \in Thread : call[t].pc \in Reading => AsStored(call[t].xmlbuf)

\* A content is under one key only.
OneRecordEach == \A h, k \in Live : records[h].xml = records[k].xml => h = k

\* Until a thread deletes, what it has read can only be under the key it read;
\* afterwards it is nowhere.
BuffersTaken ==
    \A t \in Thread, h \in Live :
        call[t].pc \in Reading /\ records[h].xml = call[t].xmlbuf.xml =>
            call[t].pc = "delete" /\ call[t].handle = h

OutcomesStored == \A c \in Content : outcome[c] # {} => stored[c] # None

IInv ==
    /\ TypeOK
    /\ RecordsAsStored /\ BuffersAsStored /\ OneRecordEach /\ BuffersTaken
    /\ OutcomesStored /\ DeliveredAsStored /\ EndedIsGone

-----------------------------------------------------------------------------
(* Lemmas *)

LEMMA CallFacts ==
    ASSUME TypeOK, NEW t \in Thread
    PROVE  /\ call[t].pc \in {"idle", "start", "delete", "parse"}
           /\ call[t].pc \in {"start", "delete", "parse"} => call[t].handle \in Handle
           /\ call[t].pc \in {"start", "delete", "parse"} => call[t].party \in Requester
           /\ call[t].pc \in Reading => call[t].xmlbuf \in Record
BY DEF TypeOK, Call, Idle, Reading

\* A call whose threads become idle, or whose thread only calls, holds no buffer.
LEMMA FewerBuffers ==
    ASSUME IInv, UNCHANGED <<now, records, stored, outcome>>,
           call' \in [Thread -> Call \union {Idle}],
           \A t \in Thread : call'[t] = call[t] \/ call'[t].pc \in {"idle", "start"}
    PROVE  IInv'
<1>1. TypeOK' /\ RecordsAsStored' /\ OneRecordEach' /\ OutcomesStored'
      /\ DeliveredAsStored' /\ EndedIsGone'
  BY DEF IInv, TypeOK, RecordsAsStored, AsStored, OneRecordEach, OutcomesStored,
         DeliveredAsStored, EndedIsGone, Live
<1>2. BuffersAsStored'
  BY DEF IInv, BuffersAsStored, AsStored, Reading
<1>3. BuffersTaken'
  BY DEF IInv, BuffersTaken, Reading, Live
<1>. QED
  BY <1>1, <1>2, <1>3 DEF IInv

LEMMA StoreIInv ==
    ASSUME IInv, NEW c \in Content, NEW h \in Handle, NEW p \in Requester, StoreContent(c, h, p)
    PROVE  IInv'
<1>. DEFINE r == [xml |-> c, relying |-> p, expires |-> Expiry(TTL)]
            s == [relying |-> p, expires |-> Expiry(TTL)]
<1>0. TypeOK /\ Expiry(TTL) \in Nat
  BY NumberAssumption DEF IInv, TypeOK, Expiry
<1>1. /\ stored[c] = None
      /\ records' = [records EXCEPT ![h] = r] /\ stored' = [stored EXCEPT ![c] = s]
      /\ UNCHANGED <<now, call, outcome>>
      /\ r \in Record /\ s \in [relying : Requester, expires : Nat]
  BY <1>0 DEF StoreContent, Record
<1>2. TypeOK'
  BY <1>0, <1>1 DEF TypeOK
<1>3. s # None
  BY <1>1, NoneAssumption DEF Requester
<1>4. \A k \in Live : records[k].xml # c
  BY <1>1 DEF IInv, RecordsAsStored, AsStored
<1>5. \A t \in Thread : call[t].pc \in Reading => call[t].xmlbuf.xml # c
  BY <1>1 DEF IInv, BuffersAsStored, AsStored
<1>6. outcome[c] = {}
  BY <1>1 DEF IInv, OutcomesStored
<1>7. /\ Live' \subseteq Live \union {h}
      /\ \A k \in Live' : k # h => k \in Live /\ records'[k] = records[k]
      /\ records'[h] = r /\ stored'[c] = s
      /\ \A d \in Content \ {c} : stored'[d] = stored[d]
  BY <1>0, <1>1 DEF Live, TypeOK
<1>8. RecordsAsStored'
  <2>. SUFFICES ASSUME NEW k \in Live'
                PROVE  /\ stored'[records'[k].xml] # None
                       /\ stored'[records'[k].xml].relying = records'[k].relying
    BY DEF RecordsAsStored, AsStored
  <2>1. CASE k = h
    BY <1>3, <1>7, <2>1
  <2>2. CASE k # h
    <3>1. k \in Live /\ records'[k] = records[k] /\ records[k].xml \in Content \ {c}
      BY <1>0, <1>4, <1>7, <2>2 DEF TypeOK, Live, Record
    <3>. QED
      BY <1>7, <3>1 DEF IInv, RecordsAsStored, AsStored
  <2>. QED
    BY <2>1, <2>2
<1>9. BuffersAsStored'
  <2>. SUFFICES ASSUME NEW t \in Thread, call[t].pc \in Reading PROVE AsStored(call[t].xmlbuf)'
    BY <1>1 DEF BuffersAsStored
  <2>1. call[t].xmlbuf.xml \in Content \ {c}
    BY <1>0, <1>5, CallFacts DEF Record
  <2>. QED
    BY <1>1, <1>7, <2>1 DEF IInv, BuffersAsStored, AsStored
<1>10. OneRecordEach'
  BY <1>4, <1>7 DEF IInv, OneRecordEach
<1>11. BuffersTaken'
  BY <1>1, <1>5, <1>7 DEF IInv, BuffersTaken
<1>12. OutcomesStored' /\ DeliveredAsStored'
  BY <1>1, <1>6, <1>7 DEF IInv, OutcomesStored, DeliveredAsStored
<1>13. EndedIsGone'
  <2>. SUFFICES ASSUME NEW d \in Content, outcome[d] # {}, NEW k \in Handle, records'[k] # None
                PROVE  records'[k].xml # d
    BY <1>1 DEF EndedIsGone
  <2>1. CASE k = h
    BY <1>6, <1>7, <2>1
  <2>2. CASE k # h
    BY <1>0, <1>1, <2>2 DEF IInv, EndedIsGone, TypeOK
  <2>. QED
    BY <2>1, <2>2
<1>. QED
  BY <1>2, <1>8, <1>9, <1>10, <1>11, <1>12, <1>13 DEF IInv

LEMMA ReadIInv ==
    ASSUME IInv, NEW t \in Thread, ReadText(t) PROVE IInv'
<1>. DEFINE h == call[t].handle
<1>0. TypeOK /\ call[t].pc = "start" /\ UNCHANGED <<now, records, stored, outcome>>
  BY DEF IInv, ReadText
<1>1. h \in Live /\ h \in Handle /\ call[t].party \in Requester /\ records[h] \in Record
  BY <1>0, CallFacts DEF ReadText, Visible, Live, TypeOK
<1>2. PICK n \in Call : /\ call' = [call EXCEPT ![t] = n]
                       /\ n.pc = "delete" /\ n.handle = h /\ n.xmlbuf = records[h]
  <2>. DEFINE n == [pc |-> "delete", handle |-> h, party |-> call[t].party, xmlbuf |-> records[h]]
  <2>1. n \in Call
    BY <1>1 DEF Call
  <2>. QED
    BY <2>1 DEF ReadText, AfterRead
<1>3. TypeOK' /\ call'[t] = n /\ \A u \in Thread \ {t} : call'[u] = call[u]
  BY <1>0, <1>2 DEF TypeOK
<1>4. RecordsAsStored' /\ OneRecordEach' /\ OutcomesStored' /\ DeliveredAsStored' /\ EndedIsGone'
  BY <1>0 DEF IInv, RecordsAsStored, AsStored, OneRecordEach, OutcomesStored,
              DeliveredAsStored, EndedIsGone, Live
<1>5. BuffersAsStored'
  BY <1>0, <1>1, <1>2, <1>3 DEF IInv, BuffersAsStored, RecordsAsStored, AsStored
<1>6. BuffersTaken'
  BY <1>0, <1>1, <1>2, <1>3 DEF IInv, BuffersTaken, OneRecordEach, Live
<1>. QED
  BY <1>3, <1>4, <1>5, <1>6 DEF IInv

LEMMA DeleteIInv ==
    ASSUME IInv, NEW t \in Thread, DeleteText(t) PROVE IInv'
<1>. DEFINE h == call[t].handle
<1>0. /\ TypeOK /\ call[t].pc = "delete" /\ UNCHANGED <<now, stored, outcome>>
      /\ records' = [records EXCEPT ![h] = None]
  BY DEF IInv, DeleteText, AfterDelete
<1>1. h \in Handle /\ call[t].party \in Requester /\ call[t].xmlbuf \in Record
  BY <1>0, CallFacts DEF Reading
<1>2. PICK n \in Call : /\ call' = [call EXCEPT ![t] = n]
                       /\ n.pc = "parse" /\ n.handle = h /\ n.xmlbuf = call[t].xmlbuf
  <2>. DEFINE n == [call[t] EXCEPT !.pc = "parse"]
  <2>1. n \in Call /\ n.pc = "parse" /\ n.handle = h /\ n.xmlbuf = call[t].xmlbuf
    BY <1>0, <1>1 DEF Call, TypeOK, Idle
  <2>. QED
    BY <2>1 DEF DeleteText
<1>3. /\ TypeOK' /\ call'[t] = n /\ \A u \in Thread \ {t} : call'[u] = call[u]
      /\ Live' \subseteq Live \ {h} /\ \A k \in Handle \ {h} : records'[k] = records[k]
  BY <1>0, <1>1, <1>2 DEF TypeOK, Live
<1>4. RecordsAsStored' /\ OneRecordEach' /\ OutcomesStored' /\ DeliveredAsStored'
  BY <1>0, <1>3 DEF IInv, RecordsAsStored, AsStored, OneRecordEach, OutcomesStored,
                    DeliveredAsStored, Live
<1>5. EndedIsGone'
  BY <1>0, <1>1, <1>3 DEF IInv, EndedIsGone, Live
<1>6. BuffersAsStored'
  BY <1>0, <1>2, <1>3 DEF IInv, BuffersAsStored, AsStored, Reading
<1>7. BuffersTaken'
  BY <1>0, <1>1, <1>2, <1>3 DEF IInv, BuffersTaken, Reading, Live
<1>. QED
  BY <1>3, <1>4, <1>5, <1>6, <1>7 DEF IInv

\* A call ends: its content is handed out only if the parties agree.
LEMMA EndIInv ==
    ASSUME IInv, NEW t \in Thread, Refuse(t) \/ Return(t) PROVE IInv'
<1>. DEFINE b == call[t].xmlbuf
<1>0. TypeOK /\ call[t].pc = "parse" /\ b \in Record /\ call[t].party \in Requester
      /\ call' = [call EXCEPT ![t] = Idle] /\ UNCHANGED <<now, records, stored>>
  BY CallFacts DEF IInv, Refuse, Return, Ended, Reading
<1>1. PICK o \in [by : Thread, party : Requester, result : {"delivered", "refused"}] :
         /\ outcome' = [outcome EXCEPT ![b.xml] = outcome[b.xml] \union {o}]
         /\ o.party = call[t].party
         /\ o.result = "delivered" => Authorized(b, call[t].party)
  <2>1. CASE Refuse(t)
    <3>1. [by |-> t, party |-> call[t].party, result |-> "refused"]
             \in [by : Thread, party : Requester, result : {"delivered", "refused"}]
      BY <1>0
    <3>. QED
      BY <2>1, <3>1 DEF Refuse, Ended
  <2>2. CASE Return(t)
    <3>1. [by |-> t, party |-> call[t].party, result |-> "delivered"]
             \in [by : Thread, party : Requester, result : {"delivered", "refused"}]
      BY <1>0
    <3>. QED
      BY <2>2, <3>1 DEF Return, Ended
  <2>. QED
    BY <2>1, <2>2
<1>2. b.xml \in Content /\ AsStored(b)
  BY <1>0 DEF IInv, BuffersAsStored, Record, Reading
<1>3. outcome'[b.xml] = outcome[b.xml] \union {o}
      /\ \A c \in Content \ {b.xml} : outcome'[c] = outcome[c]
  BY <1>0, <1>1, <1>2 DEF TypeOK
<1>4. TypeOK'
  BY <1>0, <1>1, <1>2 DEF TypeOK
<1>5. \A u \in Thread : call'[u].pc \in Reading => u # t /\ call'[u] = call[u]
  BY <1>0 DEF TypeOK, Idle, Reading
<1>6. RecordsAsStored' /\ OneRecordEach'
  BY <1>0 DEF IInv, RecordsAsStored, AsStored, OneRecordEach, Live
<1>7. BuffersAsStored' /\ BuffersTaken'
  BY <1>0, <1>5 DEF IInv, BuffersAsStored, AsStored, BuffersTaken, Live
<1>8. OutcomesStored'
  BY <1>0, <1>2, <1>3 DEF IInv, OutcomesStored, AsStored
<1>9. DeliveredAsStored'
  BY <1>0, <1>1, <1>2, <1>3 DEF IInv, DeliveredAsStored, AsStored, Authorized
<1>10. EndedIsGone'
  <2>1. \A h \in Live : records[h].xml # b.xml
    BY <1>0 DEF IInv, BuffersTaken, Reading
  <2>. QED
    BY <1>0, <1>3, <2>1 DEF IInv, EndedIsGone, Live
<1>. QED
  BY <1>4, <1>6, <1>7, <1>8, <1>9, <1>10 DEF IInv

LEMMA InitIInv == Init => IInv
BY DEF Init, IInv, TypeOK, Idle, Reading, RecordsAsStored, BuffersAsStored, OneRecordEach, BuffersTaken,
       OutcomesStored, DeliveredAsStored, EndedIsGone, Live

LEMMA NextIInv == IInv /\ [Next]_vars => IInv'
<1>. SUFFICES ASSUME IInv, [Next]_vars PROVE IInv'
  OBVIOUS
<1>0. TypeOK
  BY DEF IInv
<1>1. CASE UNCHANGED vars
  BY <1>1 DEF vars, IInv, TypeOK, RecordsAsStored, BuffersAsStored, AsStored, OneRecordEach,
              BuffersTaken, OutcomesStored, DeliveredAsStored, EndedIsGone, Live
<1>2. CASE Tick
  BY <1>2 DEF Tick, IInv, TypeOK, RecordsAsStored, BuffersAsStored, AsStored, OneRecordEach,
              BuffersTaken, OutcomesStored, DeliveredAsStored, EndedIsGone, Live
<1>3. ASSUME NEW h \in Handle, NEW p \in Requester, NEW c \in Content, StoreContent(c, h, p)
      PROVE  IInv'
  BY <1>3, StoreIInv
<1>4. ASSUME NEW h \in Handle, NEW p \in Requester, NEW t \in Thread, Call_retrieveContent(t, h, p)
      PROVE  IInv'
  <2>1. [pc |-> "start", handle |-> h, party |-> p] \in Call
    BY DEF Call
  <2>2. /\ UNCHANGED <<now, records, stored, outcome>>
        /\ call' \in [Thread -> Call \union {Idle}]
        /\ \A u \in Thread : call'[u] = call[u] \/ call'[u].pc \in {"idle", "start"}
    BY <1>0, <1>4, <2>1 DEF Call_retrieveContent, TypeOK
  <2>. QED
    BY <2>2, FewerBuffers
<1>5. ASSUME NEW t \in Thread, ReadNothing(t) \/ StorageFails(t) PROVE IInv'
  <2>1. /\ UNCHANGED <<now, records, stored, outcome>>
        /\ call' \in [Thread -> Call \union {Idle}]
        /\ \A u \in Thread : call'[u] = call[u] \/ call'[u].pc \in {"idle", "start"}
    BY <1>0, <1>5 DEF ReadNothing, StorageFails, TypeOK, Idle
  <2>. QED
    BY <2>1, FewerBuffers
<1>6. ASSUME NEW T \in SUBSET Thread, Crash(T) PROVE IInv'
  <2>1. /\ UNCHANGED <<now, records, stored, outcome>>
        /\ call' \in [Thread -> Call \union {Idle}]
        /\ \A u \in Thread : call'[u] = call[u] \/ call'[u].pc \in {"idle", "start"}
    BY <1>0, <1>6 DEF Crash, TypeOK, Idle
  <2>. QED
    BY <2>1, FewerBuffers
<1>7. ASSUME NEW t \in Thread, ReadText(t) PROVE IInv'
  BY <1>7, ReadIInv
<1>8. ASSUME NEW t \in Thread, DeleteText(t) PROVE IInv'
  BY <1>8, DeleteIInv
<1>9. ASSUME NEW t \in Thread, Refuse(t) \/ Return(t) PROVE IInv'
  BY <1>9, EndIInv
<1>. QED
  BY <1>1, <1>2, <1>3, <1>4, <1>5, <1>6, <1>7, <1>8, <1>9 DEF Next, Step

-----------------------------------------------------------------------------
(* The theorems *)

\* The inductive invariant holds in every reachable state.
THEOREM InvariantCorrect == Spec => []IInv
BY InitIInv, NextIInv, PTL DEF Spec

\* Every variable of the storage-backed map keeps its type.
THEOREM TypeCorrect == Spec => []TypeOK
<1>1. IInv => TypeOK
  BY DEF IInv
<1>. QED
  BY <1>1, InvariantCorrect, PTL

\* Whatever happens between the read of a record and the return of its content,
\* only the party it was stored for gets it.
THEOREM DeliveredRight == Spec => []DeliveredAsStored
<1>1. IInv => DeliveredAsStored
  BY DEF IInv
<1>. QED
  BY <1>1, InvariantCorrect, PTL

\* A content that was delivered or refused is gone from the storage for good,
\* although the record may be replaced between the read and the deletion.
THEOREM GoneForGood == Spec => []EndedIsGone
<1>1. IInv => EndedIsGone
  BY DEF IInv
<1>. QED
  BY <1>1, InvariantCorrect, PTL
=============================================================================
