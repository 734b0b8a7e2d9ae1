------------------ MODULE ChainingMetadataProvider_proofs ------------------
(* Proofs about the locks of the chaining metadata provider and about what *)
(* its searches answer, for any threads, any chain of children and either  *)
(* match policy.                                                           *)
EXTENDS ChainingMetadataProvider, Integers, SequenceTheorems, TLAPS

-----------------------------------------------------------------------------
(* The inductive invariant *)

InChild == {"ask", "upgrade", "install", "again", "answer"}

\* The child asked is a child of the chain, and the best match so far comes from
\* an earlier one; outside a search there is neither.
SearchInOrder ==
    \A t \in Thread :
        /\ pc[t] \in InChild => pos[t] <= Len(Chain)
        /\ held[t] # None => \E i \in DOMAIN Chain : i < pos[t] /\ Chain[i] = held[t]
        /\ pc[t] = "session" => held[t] = None

\* What a thread was given lives in children its tracker has locked.
GivenTracked ==
    \A t \in Thread : \A g \in given[t] : g[2] \in locked[t]

\* A child that is written is locked by the thread that writes it and by no other.
Exclusive ==
    \A p \in Children : writer[p] # None =>
        /\ holds[writer[p]][p] > 0
        /\ \A u \in Thread : u # writer[p] => holds[u][p] = 0

IInv ==
    /\ TypeOK
    /\ Exclusive
    /\ SearchInOrder
    /\ LockBalance
    /\ CredentialsReachable
    /\ GivenTracked

-----------------------------------------------------------------------------
(* The chain *)

LEMMA ChainFacts ==
    /\ Len(Chain) \in Nat
    /\ DOMAIN Chain = 1..Len(Chain)
    /\ \A i \in DOMAIN Chain : Chain[i] \in Children
    /\ \A i, j \in DOMAIN Chain : Chain[i] = Chain[j] => i = j
BY ChainAssumption

\* The child asked is not the child of the best match so far.
LEMMA AskedIsNew ==
    ASSUME TypeOK, SearchInOrder, NEW t \in Thread, pos[t] <= Len(Chain)
    PROVE  Asked(t) \in Children /\ Asked(t) # held[t] /\ pos[t] \in DOMAIN Chain
<1>1. pos[t] \in DOMAIN Chain
  BY ChainFacts DEF TypeOK
<1>2. Asked(t) \in Children
  BY <1>1, ChainFacts DEF Asked
<1>3. ASSUME Asked(t) = held[t] PROVE FALSE
  <2>1. held[t] # None
    BY <1>2, <1>3, NoneAssumption
  <2>2. PICK i \in DOMAIN Chain : i < pos[t] /\ Chain[i] = held[t]
    BY <2>1 DEF SearchInOrder
  <2>3. i = pos[t]
    BY <1>1, <1>3, <2>2, ChainFacts DEF Asked
  <2>. QED
    BY <1>1, <2>2, <2>3, ChainFacts
<1>. QED
  BY <1>1, <1>2, <1>3

-----------------------------------------------------------------------------
(* Steps that change the locks *)

PCs == {"session", "next", "ask", "upgrade", "install", "again", "answer"}

\* A step of t leaves every other thread's part of the state alone.
Others(t) ==
    \A u \in Thread \ {t} :
        /\ holds'[u] = holds[u] /\ lost'[u] = lost[u] /\ locked'[u] = locked[u]
        /\ objectMap'[u] = objectMap[u] /\ given'[u] = given[u]
        /\ pc'[u] = pc[u] /\ pos'[u] = pos[u] /\ held'[u] = held[u]

\* LockBalance of one thread.
Balanced(t) ==
    \A p \in Children : holds[t][p] = (IF Due(t, p) THEN 1 ELSE 0) + lost[t][p]

LEMMA BalanceOfOne ==
    ASSUME LockBalance, NEW t \in Thread, Others(t), Balanced(t)'
    PROVE  LockBalance'
<1>1. ASSUME NEW u \in Thread \ {t}, NEW p \in Children
      PROVE  holds'[u][p] = (IF Due(u, p)' THEN 1 ELSE 0) + lost'[u][p]
  <2>1. Due(u, p)' <=> Due(u, p)
    BY DEF Others, Due, BetweenLocks, Asked
  <2>. QED
    BY <2>1 DEF Others, LockBalance
<1>. QED
  BY <1>1 DEF LockBalance, Balanced

LEMMA OrderOfOne ==
    ASSUME SearchInOrder, NEW t \in Thread, Others(t),
           pc'[t] \in InChild => pos'[t] <= Len(Chain),
           held'[t] # None => \E i \in DOMAIN Chain : i < pos'[t] /\ Chain[i] = held'[t],
           pc'[t] = "session" => held'[t] = None
    PROVE  SearchInOrder'
BY DEF SearchInOrder, Others

\* A thread that only gives up locks leaves every child with one writer at most,
\* and every writer with its lock.
LEMMA ReleaseExclusive ==
    ASSUME TypeOK, Exclusive, NEW t \in Thread,
           holds' \in [Thread -> [Children -> Nat]],
           \A u \in Thread \ {t} : holds'[u] = holds[u],
           \A p \in Children : holds'[t][p] <= holds[t][p],
           writer' = StillWriting(holds')
    PROVE  Exclusive' /\ writer' \in [Children -> Thread \union {None}]
<1>1. ASSUME NEW p \in Children
      PROVE  /\ writer'[p] = IF writer[p] # None /\ holds'[writer[p]][p] > 0 THEN writer[p] ELSE None
             /\ writer'[p] \in Thread \union {None}
  BY DEF StillWriting, TypeOK
<1>2. ASSUME NEW p \in Children, writer'[p] # None
      PROVE  /\ holds'[writer'[p]][p] > 0
             /\ \A u \in Thread : u # writer'[p] => holds'[u][p] = 0
  <2>1. writer[p] # None /\ writer'[p] = writer[p] /\ holds'[writer[p]][p] > 0
    BY <1>1, <1>2
  <2>2. ASSUME NEW u \in Thread, u # writer[p] PROVE holds'[u][p] = 0
    <3>1. holds[u][p] = 0
      BY <2>1, <2>2 DEF Exclusive
    <3>2. holds'[u][p] = holds[u][p] \/ holds'[u][p] <= holds[u][p]
      OBVIOUS
    <3>3. holds'[u][p] \in Nat
      OBVIOUS
    <3>. QED
      BY <3>1, <3>2, <3>3
  <2>. QED
    BY <2>1, <2>2
<1>3. writer' \in [Children -> Thread \union {None}]
  BY <1>1 DEF StillWriting
<1>. QED
  BY <1>2, <1>3 DEF Exclusive

\* Locking a child that nobody writes leaves it without a writer.
LEMMA ReadExclusive ==
    ASSUME TypeOK, Exclusive, NEW t \in Thread, NEW a \in Children, writer[a] = None,
           holds' = [holds EXCEPT ![t][a] = @ + 1], writer' = writer
    PROVE  Exclusive'
BY DEF TypeOK, Exclusive

LEMMA LockNextIInv ==
    ASSUME IInv, NEW t \in Thread, LockNext(t) PROVE IInv'
<1>. DEFINE a == Asked(t)
<1>0. TypeOK /\ SearchInOrder /\ LockBalance
  BY DEF IInv
<1>1. a \in Children /\ a # held[t] /\ pc[t] = "next" /\ pc'[t] = "ask"
      /\ pos' = pos /\ held' = held /\ locked' = locked /\ lost' = lost
  BY <1>0, AskedIsNew DEF LockNext, search, tracker, TypeOK
<1>2. Lock_If(t, a) \in {0, 1} /\ holds' = [holds EXCEPT ![t][a] = @ + Lock_If(t, a)]
  BY DEF LockNext, Lock_If
<1>3. TypeOK'
  BY <1>0, <1>1, <1>2 DEF LockNext, TypeOK, search, tracker
<1>4. Others(t)
  BY <1>0 DEF LockNext, Others, TypeOK, search, tracker
<1>5. Balanced(t)'
  <2>. SUFFICES ASSUME NEW p \in Children
                PROVE  holds'[t][p] = (IF Due(t, p)' THEN 1 ELSE 0) + lost'[t][p]
    BY DEF Balanced
  <2>1. holds[t][p] = (IF Due(t, p) THEN 1 ELSE 0) + lost[t][p] /\ lost[t][p] \in Nat
    BY <1>0 DEF LockBalance, TypeOK
  <2>2. CASE p = a
    <3>1. Due(t, p)' /\ (Due(t, p) <=> a \in locked[t])
      BY <1>1, <2>2 DEF Due, BetweenLocks, Asked
    <3>2. holds'[t][p] = holds[t][p] + Lock_If(t, a)
      BY <1>0, <1>1, <1>2, <2>2 DEF TypeOK
    <3>. QED
      BY <1>1, <2>1, <2>2, <3>1, <3>2 DEF Lock_If
  <2>3. CASE p # a
    <3>1. Due(t, p)' <=> Due(t, p)
      BY <1>1, <2>3 DEF Due, BetweenLocks, Asked
    <3>. QED
      BY <1>0, <1>1, <1>2, <2>1, <2>3, <3>1 DEF TypeOK
  <2>. QED
    BY <2>2, <2>3
<1>6. SearchInOrder'
  BY <1>0, <1>1, <1>4, OrderOfOne DEF LockNext, SearchInOrder, search
<1>8. Exclusive'
  <2>1. CASE Lock_If(t, a) = 0
    <3>1. holds' = holds /\ writer' = writer
      BY <1>0, <1>1, <1>2, <2>1 DEF LockNext, TypeOK
    <3>. QED
      BY <3>1 DEF IInv, Exclusive
  <2>2. CASE Lock_If(t, a) = 1
    <3>1. writer[a] = None /\ writer' = writer /\ holds' = [holds EXCEPT ![t][a] = @ + 1]
      BY <1>2, <2>2 DEF LockNext, MayRead
    <3>. QED
      BY <1>0, <1>1, <3>1, ReadExclusive DEF IInv
  <2>. QED
    BY <1>2, <2>1, <2>2
<1>7. CredentialsReachable' /\ GivenTracked'
  BY DEF IInv, LockNext, tracker, CredentialsReachable, GivenTracked
<1>. QED
  BY <1>0, <1>3, <1>4, <1>5, <1>6, <1>7, <1>8, BalanceOfOne DEF IInv

\* A child that writes gives up the lock of the thread that asks it, and takes
\* it again, unless an observer throws.
LEMMA ChildIInv ==
    ASSUME IInv, NEW t \in Thread,
           \/ ChildGivesUp(t) \/ ChildWrites(t) \/ ChildInstalls(t)
           \/ ObserverThrows(t) \/ ChildReads(t)
    PROVE  IInv'
<1>. USE DEF tracker, search
<1>0. TypeOK /\ SearchInOrder /\ LockBalance /\ Exclusive
  BY DEF IInv
<1>1. /\ pc[t] \in InChild /\ pc'[t] \in InChild
      /\ pos' = pos /\ held' = held /\ locked' = locked /\ lost' = lost
      /\ objectMap' = objectMap /\ given' = given
  BY <1>0 DEF ChildGivesUp, ChildWrites, ChildInstalls, ObserverThrows, ChildReads, InChild, TypeOK
<1>2. PICK a \in Children : a = Asked(t) /\ a # held[t]
  BY <1>0, <1>1, AskedIsNew DEF SearchInOrder
<1>3. Others(t)
  BY <1>0 DEF ChildGivesUp, ChildWrites, ChildInstalls, ObserverThrows, ChildReads, Others, TypeOK
<1>4. \A p \in Children :
         /\ holds[t][p] = (IF Due(t, p) THEN 1 ELSE 0) + lost[t][p]
         /\ lost[t][p] \in Nat /\ holds[t][p] \in Nat
  BY <1>0 DEF LockBalance, TypeOK
<1>5. \A p \in Children \ {a} : (Due(t, p)' <=> Due(t, p))
  BY <1>1, <1>2 DEF Due, BetweenLocks, Asked, InChild
<1>6. Due(t, a) <=> pc[t] \in {"ask", "install", "answer"}
  BY <1>1, <1>2 DEF Due, BetweenLocks, InChild, Asked
<1>7. Due(t, a)' <=> pc'[t] \in {"ask", "install", "answer"}
  BY <1>1, <1>2 DEF Due, BetweenLocks, InChild, Asked
<1>8. ASSUME \A p \in Children \ {a} : holds'[t][p] = holds[t][p],
             holds'[t][a] = (IF Due(t, a)' THEN 1 ELSE 0) + lost[t][a]
       PROVE  Balanced(t)'
  <2>. SUFFICES ASSUME NEW p \in Children
                PROVE  holds'[t][p] = (IF Due(t, p)' THEN 1 ELSE 0) + lost'[t][p]
    BY DEF Balanced
  <2>1. CASE p = a
    BY <1>1, <1>8, <2>1
  <2>2. CASE p # a
    <3>1. Due(t, p)' <=> Due(t, p)
      BY <1>5, <2>2
    <3>. QED
      BY <1>1, <1>4, <1>8, <2>2, <3>1
  <2>. QED
    BY <2>1, <2>2
<1>9. ASSUME ChildGivesUp(t) \/ ChildInstalls(t) PROVE TypeOK' /\ Balanced(t)' /\ Exclusive'
  <2>1. /\ pc[t] \in {"ask", "install"} /\ pc'[t] \in {"upgrade", "again"}
        /\ pc' \in [Thread -> PCs] /\ holds' = [holds EXCEPT ![t][a] = @ - 1]
        /\ writer' = StillWriting(holds')
    BY <1>0, <1>2, <1>9 DEF ChildGivesUp, ChildInstalls, TypeOK, PCs
  <2>2. holds[t][a] - 1 = lost[t][a]
    BY <1>2, <1>4, <1>6, <2>1
  <2>3. holds' \in [Thread -> [Children -> Nat]] /\ holds'[t][a] = lost[t][a]
        /\ \A p \in Children \ {a} : holds'[t][p] = holds[t][p]
    BY <1>0, <1>2, <1>4, <2>1, <2>2 DEF TypeOK
  <2>4. Exclusive' /\ writer' \in [Children -> Thread \union {None}]
    <3>1. \A p \in Children : holds'[t][p] <= holds[t][p]
      BY <1>4, <2>2, <2>3
    <3>2. \A u \in Thread \ {t} : holds'[u] = holds[u]
      BY <1>3 DEF Others
    <3>. QED
      BY <1>0, <2>1, <2>3, <3>1, <3>2, ReleaseExclusive
  <2>5. TypeOK'
    BY <1>0, <1>9, <2>1, <2>3, <2>4 DEF ChildGivesUp, ChildInstalls, TypeOK, PCs
  <2>6. Balanced(t)'
    <3>1. ~Due(t, a)'
      BY <1>7, <2>1
    <3>2. holds'[t][a] = (IF Due(t, a)' THEN 1 ELSE 0) + lost[t][a]
      BY <1>2, <1>4, <2>3, <3>1
    <3>. QED
      BY <1>8, <2>3, <3>2
  <2>. QED
    BY <2>4, <2>5, <2>6
<1>10. ASSUME ChildWrites(t) \/ ChildReads(t) PROVE TypeOK' /\ Balanced(t)' /\ Exclusive'
  <2>1. /\ pc[t] \in {"upgrade", "again"} /\ pc'[t] \in {"install", "answer"}
        /\ pc' \in [Thread -> PCs] /\ holds' = [holds EXCEPT ![t][a] = @ + 1]
    BY <1>0, <1>2, <1>10 DEF ChildWrites, ChildReads, TypeOK, PCs
  <2>2. holds[t][a] = lost[t][a]
    BY <1>2, <1>4, <1>6, <2>1
  <2>3. holds' \in [Thread -> [Children -> Nat]] /\ holds'[t][a] = 1 + lost[t][a]
        /\ \A p \in Children \ {a} : holds'[t][p] = holds[t][p]
    BY <1>0, <1>2, <1>4, <2>1, <2>2 DEF TypeOK
  <2>4. Exclusive' /\ writer' \in [Children -> Thread \union {None}]
    <3>1. CASE ChildReads(t)
      <4>1. writer[a] = None /\ writer' = writer
        BY <1>2, <3>1 DEF ChildReads, MayRead
      <4>2. Exclusive'
        BY <1>0, <1>2, <2>1, <4>1, ReadExclusive
      <4>. QED
        BY <1>0, <4>1, <4>2 DEF TypeOK
    <3>2. CASE ChildWrites(t)
      <4>1. writer' = [writer EXCEPT ![a] = t] /\ \A u \in Thread : holds[u][a] = 0
        BY <1>2, <3>2 DEF ChildWrites, MayWrite
      <4>2. writer' \in [Children -> Thread \union {None}] /\ writer'[a] = t
            /\ \A p \in Children \ {a} : writer'[p] = writer[p]
        BY <1>0, <1>2, <4>1 DEF TypeOK
      <4>3. \A u \in Thread \ {t} : holds'[u] = holds[u]
        BY <1>3 DEF Others
      <4>4. holds'[t][a] = 1 /\ \A u \in Thread \ {t} : holds'[u][a] = 0
        BY <1>0, <1>2, <2>1, <4>1, <4>3 DEF TypeOK
      <4>5. \A u \in Thread, p \in Children \ {a} : holds'[u][p] = holds[u][p]
        BY <2>3, <4>3
      <4>6. Exclusive'
        <5>. SUFFICES ASSUME NEW p \in Children, writer'[p] # None
                      PROVE  /\ holds'[writer'[p]][p] > 0
                             /\ \A u \in Thread : u # writer'[p] => holds'[u][p] = 0
          BY DEF Exclusive
        <5>1. CASE p = a
          BY <4>2, <4>4, <5>1
        <5>2. CASE p # a
          <6>1. writer'[p] = writer[p] /\ writer[p] \in Thread
            BY <1>0, <4>2, <5>2 DEF TypeOK
          <6>. QED
            BY <1>0, <4>5, <5>2, <6>1 DEF Exclusive
        <5>. QED
          BY <5>1, <5>2
      <4>. QED
        BY <4>2, <4>6
    <3>. QED
      BY <1>10, <3>1, <3>2
  <2>5. TypeOK'
    BY <1>0, <1>10, <2>1, <2>3, <2>4 DEF ChildWrites, ChildReads, TypeOK, PCs
  <2>6. Balanced(t)'
    <3>1. Due(t, a)'
      BY <1>7, <2>1
    <3>2. holds'[t][a] = (IF Due(t, a)' THEN 1 ELSE 0) + lost[t][a]
      BY <1>2, <1>4, <2>3, <3>1
    <3>. QED
      BY <1>8, <2>3, <3>2
  <2>. QED
    BY <2>4, <2>5, <2>6
<1>11. ASSUME ObserverThrows(t) PROVE TypeOK' /\ Balanced(t)' /\ Exclusive'
  <2>1. /\ holds' = holds /\ writer' = writer /\ pc' \in [Thread -> PCs]
        /\ pc[t] = "install" /\ pc'[t] = "answer"
    BY <1>0, <1>11 DEF ObserverThrows, TypeOK, PCs
  <2>2. TypeOK' /\ Exclusive'
    BY <1>0, <1>11, <2>1 DEF ObserverThrows, TypeOK, PCs, Exclusive
  <2>3. Due(t, a)' <=> Due(t, a)
    BY <1>6, <1>7, <2>1
  <2>4. Balanced(t)'
    <3>1. holds'[t][a] = (IF Due(t, a)' THEN 1 ELSE 0) + lost[t][a]
      BY <1>2, <1>4, <2>1, <2>3
    <3>. QED
      BY <1>8, <2>1, <3>1
  <2>. QED
    BY <2>2, <2>4
<1>12. TypeOK' /\ Balanced(t)' /\ Exclusive'
  BY <1>9, <1>10, <1>11
<1>13. SearchInOrder'
  BY <1>0, <1>1, <1>3, OrderOfOne DEF SearchInOrder, InChild
<1>14. CredentialsReachable' /\ GivenTracked'
  BY <1>1 DEF IInv, CredentialsReachable, GivenTracked
<1>. QED
  BY <1>0, <1>3, <1>12, <1>13, <1>14, BalanceOfOne DEF IInv

\* An answer drops a lock the search no longer needs: d is the child that is let
\* go, b the one that is kept.
LEMMA AnswerBalance ==
    ASSUME IInv, NEW t \in Thread, pc[t] \in {"ask", "answer"}, pc'[t] = "next",
           NEW d \in Children \union {None}, NEW b \in Children \union {None},
           {d, b} = {held[t], Asked(t)},
           holds' = Unheld(t, {d} \ {None}), held'[t] = b,
           locked' = locked, lost' = lost
    PROVE  /\ Balanced(t)' /\ holds' \in [Thread -> [Children -> Nat]]
           /\ \A p \in Children : holds'[t][p] <= holds[t][p]
<1>. DEFINE a == Asked(t)
<1>0. TypeOK /\ SearchInOrder /\ LockBalance
  BY DEF IInv
<1>1. a \in Children /\ a # held[t]
  BY <1>0, AskedIsNew DEF SearchInOrder, InChild
<1>2. d # b
  BY <1>1
<1>3. \A p \in Children :
         /\ holds[t][p] = (IF Due(t, p) THEN 1 ELSE 0) + lost[t][p]
         /\ lost[t][p] \in Nat /\ holds[t][p] \in Nat
  BY <1>0 DEF LockBalance, TypeOK
<1>4. ASSUME NEW p \in Children
      PROVE  /\ holds'[t][p] = (IF Due(t, p)' THEN 1 ELSE 0) + lost'[t][p]
             /\ holds'[t][p] \in Nat /\ holds'[t][p] <= holds[t][p]
  <2>1. Due(t, p) <=> p \in locked[t] \/ p \in {d, b}
    BY <1>1, <1>2 DEF Due, BetweenLocks, Asked
  <2>2. Due(t, p)' <=> p \in locked[t] \/ p = b
    BY DEF Due, BetweenLocks, Asked
  <2>3. holds'[t][p] = IF p = d THEN holds[t][p] - Unlock_If(t, p) ELSE holds[t][p]
    BY <1>0, NoneAssumption DEF Unheld, TypeOK
  <2>. QED
    BY <1>2, <1>3, <2>1, <2>2, <2>3 DEF Unlock_If
<1>5. \A u \in Thread \ {t} : holds'[u] = holds[u]
  BY <1>0 DEF Unheld, TypeOK
<1>6. holds' \in [Thread -> [Children -> Nat]]
  <2>1. \E f \in [Children -> Int] : holds' = [holds EXCEPT ![t] = f]
    <3>1. [p \in Children |-> IF p \in {d} \ {None} THEN holds[t][p] - Unlock_If(t, p)
                                                    ELSE holds[t][p]] \in [Children -> Int]
      BY <1>3 DEF Unlock_If
    <3>2. holds' = [holds EXCEPT ![t] = [p \in Children |->
             IF p \in {d} \ {None} THEN holds[t][p] - Unlock_If(t, p) ELSE holds[t][p]]]
      BY <1>0 DEF Unheld, TypeOK
    <3>. QED
      BY <3>1, <3>2
  <2>2. PICK f \in [Children -> Int] : holds' = [holds EXCEPT ![t] = f]
    BY <2>1
  <2>3. f \in [Children -> Nat]
    BY <1>0, <1>4, <2>2 DEF TypeOK
  <2>. QED
    BY <1>0, <2>2, <2>3 DEF TypeOK
<1>. QED
  BY <1>4, <1>6 DEF Balanced

LEMMA AnswerIInv ==
    ASSUME IInv, NEW t \in Thread, NEW a \in Answer(wants[t]), EndSearch(t, a) \/ GoOn(t, a)
    PROVE  IInv'
<1>. USE DEF tracker, search
<1>0. TypeOK /\ SearchInOrder /\ LockBalance
  BY DEF IInv
<1>1. /\ pc[t] \in {"ask", "answer"} /\ pc' = [pc EXCEPT ![t] = "next"]
      /\ UNCHANGED <<m_firstMatch, locked, objectMap, wants, given, lost>>
      /\ writer' = StillWriting(holds')
      /\ answers' = [answers EXCEPT ![t] = Append(@, a)]
  BY DEF EndSearch, GoOn
<1>2. Asked(t) \in Children /\ Asked(t) # held[t] /\ pos[t] \in DOMAIN Chain
      /\ held[t] \in Children \union {None}
  BY <1>0, <1>1, AskedIsNew DEF SearchInOrder, InChild, TypeOK
<1>3. PICK d \in Children \union {None}, b \in Children \union {None} :
         /\ {d, b} = {held[t], Asked(t)}
         /\ holds' = Unheld(t, {d} \ {None})
         /\ held' = [held EXCEPT ![t] = b]
  <2>1. CASE EndSearch(t, a)
    <3>1. [p \in Children |-> IF p \in {held[t]} THEN holds[t][p] - Unlock_If(t, p) ELSE holds[t][p]]
          = [p \in Children |-> IF p \in {held[t]} \ {None} THEN holds[t][p] - Unlock_If(t, p)
                                                           ELSE holds[t][p]]
      BY NoneAssumption
    <3>2. Unheld(t, {held[t]}) = Unheld(t, {held[t]} \ {None})
      BY <1>0, <3>1 DEF Unheld, TypeOK
    <3>. QED
      BY <1>2, <2>1, <3>2 DEF EndSearch
  <2>2. CASE GoOn(t, a) /\ Better(ret[t], a)
    BY <1>0, <1>2, <2>2 DEF GoOn, Dropped, TypeOK
  <2>3. CASE GoOn(t, a) /\ ~Better(ret[t], a)
    <3>1. {Asked(t)} = {Asked(t)} \ {None}
      BY <1>2, NoneAssumption
    <3>2. held' = [held EXCEPT ![t] = held[t]]
      BY <2>3 DEF GoOn
    <3>3. holds' = Unheld(t, {Asked(t)} \ {None})
      BY <2>3, <3>1 DEF GoOn, Dropped
    <3>. QED
      BY <1>2, <3>2, <3>3
  <2>. QED
    BY <2>1, <2>2, <2>3
<1>4. /\ Balanced(t)' /\ holds' \in [Thread -> [Children -> Nat]]
      /\ \A p \in Children : holds'[t][p] <= holds[t][p]
  BY <1>0, <1>1, <1>3, AnswerBalance DEF TypeOK
<1>10. Exclusive' /\ writer' \in [Children -> Thread \union {None}]
  <2>1. \A u \in Thread \ {t} : holds'[u] = holds[u]
    BY <1>0, <1>3 DEF Unheld, TypeOK
  <2>. QED
    BY <1>0, <1>1, <1>4, <2>1, ReleaseExclusive DEF IInv
<1>5. /\ pos' \in [Thread -> 1..(Len(Chain) + 1)]
      /\ pos'[t] > pos[t]
      /\ \A u \in Thread \ {t} : pos'[u] = pos[u]
  <2>1. pos[t] \in 1..Len(Chain)
    BY <1>2, ChainFacts
  <2>2. pos' = [pos EXCEPT ![t] = Len(Chain) + 1] \/ pos' = [pos EXCEPT ![t] = pos[t] + 1]
    BY DEF EndSearch, GoOn
  <2>. QED
    <3>1. PICK n \in {Len(Chain) + 1, pos[t] + 1} : pos' = [pos EXCEPT ![t] = n]
      BY <2>2
    <3>2. n \in 1..(Len(Chain) + 1) /\ n > pos[t]
      BY <2>1, <3>1, ChainFacts
    <3>. QED
      BY <1>0, <3>1, <3>2 DEF TypeOK
<1>6. TypeOK'
  <2>1. a \in Answer("role")
    BY DEF Answer
  <2>2. answers' \in [Thread -> Seq(Answer("role"))]
    BY <1>0, <1>1, <2>1 DEF TypeOK
  <2>3. ret' \in [Thread -> Answer("role")]
    <3>1. ret' = [ret EXCEPT ![t] = a] \/ ret' = [ret EXCEPT ![t] = ret[t]]
      BY DEF EndSearch, GoOn
    <3>. QED
      BY <1>0, <2>1, <3>1 DEF TypeOK
  <2>4. held' \in [Thread -> Children \union {None}] /\ pc' \in [Thread -> PCs]
    BY <1>0, <1>1, <1>3 DEF TypeOK, PCs
  <2>. QED
    BY <1>0, <1>1, <1>4, <1>5, <1>10, <2>2, <2>3, <2>4 DEF TypeOK, PCs
<1>7. Others(t)
  BY <1>0, <1>1, <1>3, <1>5 DEF Others, Unheld, TypeOK
<1>8. SearchInOrder'
  <2>1. held'[t] = b
    BY <1>0, <1>3 DEF TypeOK
  <2>2. ASSUME held'[t] # None PROVE \E i \in DOMAIN Chain : i < pos'[t] /\ Chain[i] = held'[t]
    <3>1. CASE b = Asked(t)
      BY <1>2, <1>5, <2>1, <3>1 DEF Asked
    <3>2. CASE b = held[t]
      <4>1. PICK i \in DOMAIN Chain : i < pos[t] /\ Chain[i] = held[t]
        BY <1>0, <2>1, <2>2, <3>2 DEF SearchInOrder
      <4>2. i < pos'[t]
        BY <1>0, <1>5, <4>1, ChainFacts DEF TypeOK
      <4>. QED
        BY <2>1, <3>2, <4>1, <4>2
    <3>. QED
      BY <1>3, <3>1, <3>2
  <2>3. pc'[t] = "next"
    BY <1>0, <1>1 DEF TypeOK
  <2>. QED
    BY <1>0, <1>7, <2>2, <2>3, OrderOfOne DEF InChild
<1>9. CredentialsReachable' /\ GivenTracked'
  BY <1>1 DEF IInv, CredentialsReachable, GivenTracked
<1>. QED
  BY <1>0, <1>4, <1>6, <1>7, <1>8, <1>9, <1>10, BalanceOfOne DEF IInv

LEMMA SearchIInv ==
    ASSUME IInv, NEW t \in Thread, NEW w \in Want, Search(t, w) PROVE IInv'
<1>. USE DEF tracker
<1>0. TypeOK /\ SearchInOrder /\ LockBalance
  BY DEF IInv
<1>1. /\ pc[t] = "session" /\ pc' = [pc EXCEPT ![t] = "next"] /\ held[t] = None
      /\ UNCHANGED <<m_firstMatch, holds, writer, locked, objectMap, pos, held, ret, answers, given, lost>>
      /\ wants' = [wants EXCEPT ![t] = w]
  BY <1>0 DEF Search, SearchInOrder
<1>2. TypeOK'
  BY <1>0, <1>1 DEF TypeOK
<1>3. Others(t) /\ pc'[t] = "next"
  BY <1>0, <1>1 DEF Others, TypeOK
<1>4. Balanced(t)'
  <2>. SUFFICES ASSUME NEW p \in Children
                PROVE  holds'[t][p] = (IF Due(t, p)' THEN 1 ELSE 0) + lost'[t][p]
    BY DEF Balanced
  <2>1. Due(t, p)' <=> Due(t, p)
    BY <1>1, <1>3, NoneAssumption DEF Due, BetweenLocks, Asked
  <2>. QED
    BY <1>0, <1>1, <2>1 DEF LockBalance
<1>5. SearchInOrder'
  BY <1>0, <1>1, <1>3, OrderOfOne DEF InChild
<1>6. CredentialsReachable' /\ GivenTracked' /\ Exclusive'
  BY <1>1 DEF IInv, CredentialsReachable, GivenTracked, Exclusive
<1>. QED
  BY <1>0, <1>2, <1>3, <1>4, <1>5, <1>6, BalanceOfOne DEF IInv

\* A thread that ends its search has a well-typed, empty search.
LEMMA NoSearchFacts ==
    ASSUME TypeOK, NEW t \in Thread, NoSearch(t)
    PROVE  /\ wants' \in [Thread -> Want \union {"entity"}]
           /\ pos' \in [Thread -> 1..(Len(Chain) + 1)]
           /\ held' \in [Thread -> Children \union {None}]
           /\ ret' \in [Thread -> Answer("role")]
           /\ answers' \in [Thread -> Seq(Answer("role"))]
           /\ held'[t] = None
           /\ \A u \in Thread \ {t} : pos'[u] = pos[u] /\ held'[u] = held[u]
<1>1. 1 \in 1..(Len(Chain) + 1)
  BY ChainFacts
<1>2. "nothing" \in Answer("role")
  BY DEF Answer
<1>. QED
  BY <1>1, <1>2 DEF NoSearch, TypeOK

\* The child of the best match becomes one the tracker keeps locked.
LEMMA ReturnIInv ==
    ASSUME IInv, NEW t \in Thread, Return(t) PROVE IInv'
<1>0. TypeOK /\ SearchInOrder /\ LockBalance
  BY DEF IInv
<1>1. /\ pc[t] = "next" /\ pc' = [pc EXCEPT ![t] = "session"]
      /\ NoSearch(t) /\ UNCHANGED <<m_firstMatch, holds, writer, lost>>
  BY DEF Return
<1>2. PICK p \in SUBSET Children, k \in {"group", "entity"} :
         /\ p = {held[t]} \ {None}
         /\ locked' = [locked EXCEPT ![t] = locked[t] \union p]
         /\ objectMap' = [objectMap EXCEPT ![t] =
               objectMap[t] \union (IF k = "group" THEN {} ELSE p)]
         /\ given' = [given EXCEPT ![t] = given[t] \union ({k} \X p)]
  <2>1. {held[t]} \ {None} \in SUBSET Children
    BY <1>0 DEF TypeOK
  <2>2. UNION {Mapped(wants[t], q) : q \in {held[t]} \ {None}}
        = IF wants[t] = "group" THEN {} ELSE {held[t]} \ {None}
    BY DEF Mapped
  <2>. QED
    BY <2>1, <2>2 DEF Return
<1>3. /\ locked' \in [Thread -> SUBSET Children] /\ objectMap' \in [Thread -> SUBSET Children]
      /\ given' \in [Thread -> SUBSET ({"group", "entity"} \X Children)]
      /\ locked'[t] = locked[t] \union p
      /\ objectMap'[t] = objectMap[t] \union (IF k = "group" THEN {} ELSE p)
      /\ given'[t] = given[t] \union ({k} \X p)
  BY <1>0, <1>2 DEF TypeOK
<1>4. TypeOK' /\ pc'[t] = "session" /\ held'[t] = None
  BY <1>0, <1>1, <1>3, NoSearchFacts DEF TypeOK
<1>5. Others(t)
  BY <1>0, <1>1, <1>2, NoSearchFacts DEF Others, TypeOK
<1>6. Balanced(t)'
  <2>. SUFFICES ASSUME NEW q \in Children
                PROVE  holds'[t][q] = (IF Due(t, q)' THEN 1 ELSE 0) + lost'[t][q]
    BY DEF Balanced
  <2>1. Due(t, q)' <=> q \in locked'[t]
    BY <1>4, NoneAssumption DEF Due, BetweenLocks
  <2>2. Due(t, q) <=> q \in locked[t] \/ q = held[t]
    BY <1>1 DEF Due, BetweenLocks
  <2>3. Due(t, q)' <=> Due(t, q)
    BY <1>2, <1>3, <2>1, <2>2, NoneAssumption
  <2>. QED
    BY <1>0, <1>1, <2>3 DEF LockBalance
<1>7. SearchInOrder'
  BY <1>0, <1>4, <1>5, OrderOfOne DEF InChild
<1>8. CredentialsReachable' /\ GivenTracked'
  <2>1. ASSUME NEW u \in Thread
        PROVE  /\ objectMap'[u] \subseteq locked'[u]
               /\ \A g \in given'[u] : /\ g[1] = "entity" => g[2] \in objectMap'[u]
                                       /\ g[2] \in locked'[u]
    <3>1. CASE u = t
      BY <1>3, <3>1 DEF IInv, CredentialsReachable, GivenTracked
    <3>2. CASE u # t
      BY <1>5, <3>2 DEF IInv, CredentialsReachable, GivenTracked, Others
    <3>. QED
      BY <3>1, <3>2
  <2>. QED
    BY <2>1 DEF CredentialsReachable, GivenTracked
<1>9. Exclusive'
  BY <1>1 DEF IInv, Exclusive
<1>. QED
  BY <1>0, <1>4, <1>5, <1>6, <1>7, <1>8, <1>9, BalanceOfOne DEF IInv

\* An exception leaves its locks behind, and they are counted as lost.
LEMMA ChildThrowsIInv ==
    ASSUME IInv, NEW t \in Thread, ChildThrows(t) PROVE IInv'
<1>. USE DEF tracker
<1>0. TypeOK /\ SearchInOrder /\ LockBalance
  BY DEF IInv
<1>1. /\ pc[t] \in {"ask", "install", "answer"} /\ pc' = [pc EXCEPT ![t] = "session"]
      /\ NoSearch(t)
      /\ UNCHANGED <<m_firstMatch, holds, writer, locked, objectMap, given>>
  BY DEF ChildThrows
<1>2. PICK f \in [Children -> Nat] :
         /\ lost' = [lost EXCEPT ![t] = f]
         /\ \A p \in Children :
               f[p] = IF p \in {Asked(t), held[t]} THEN lost[t][p] + Lock_If(t, p) ELSE lost[t][p]
  <2>. DEFINE g == [p \in Children |->
                  IF p \in {Asked(t), held[t]} THEN lost[t][p] + Lock_If(t, p) ELSE lost[t][p]]
  <2>1. g \in [Children -> Nat]
    BY <1>0 DEF TypeOK, Lock_If
  <2>2. lost' = [lost EXCEPT ![t] = g]
    BY <1>0 DEF ChildThrows, TypeOK
  <2>. QED
    BY <2>1, <2>2
<1>3. TypeOK' /\ pc'[t] = "session" /\ held'[t] = None /\ lost'[t] = f
  BY <1>0, <1>1, <1>2, NoSearchFacts DEF TypeOK
<1>4. Others(t)
  BY <1>0, <1>1, <1>2, NoSearchFacts DEF Others, TypeOK
<1>5. Balanced(t)'
  <2>. SUFFICES ASSUME NEW p \in Children
                PROVE  holds'[t][p] = (IF Due(t, p)' THEN 1 ELSE 0) + lost'[t][p]
    BY DEF Balanced
  <2>1. Due(t, p)' <=> p \in locked[t]
    BY <1>1, <1>3 DEF Due, BetweenLocks
  <2>2. Due(t, p) <=> p \in locked[t] \/ p \in {Asked(t), held[t]}
    BY <1>1 DEF Due, BetweenLocks
  <2>3. holds[t][p] = (IF Due(t, p) THEN 1 ELSE 0) + lost[t][p] /\ lost[t][p] \in Nat
    BY <1>0 DEF LockBalance, TypeOK
  <2>. QED
    BY <1>1, <1>2, <1>3, <2>1, <2>2, <2>3 DEF Lock_If
<1>6. SearchInOrder'
  BY <1>0, <1>3, <1>4, OrderOfOne DEF InChild
<1>7. CredentialsReachable' /\ GivenTracked' /\ Exclusive'
  BY <1>1 DEF IInv, CredentialsReachable, GivenTracked, Exclusive
<1>. QED
  BY <1>0, <1>3, <1>4, <1>5, <1>6, <1>7, BalanceOfOne DEF IInv

LEMMA UnlockIInv ==
    ASSUME IInv, NEW t \in Thread, Unlock(t) PROVE IInv'
<1>. USE DEF search
<1>0. TypeOK /\ SearchInOrder /\ LockBalance
  BY DEF IInv
<1>1. /\ pc[t] = "session" /\ held[t] = None
      /\ UNCHANGED <<m_firstMatch, pc, wants, pos, held, ret, answers, lost>>
      /\ writer' = StillWriting(holds')
      /\ locked' = [locked EXCEPT ![t] = {}] /\ objectMap' = [objectMap EXCEPT ![t] = {}]
      /\ given' = [given EXCEPT ![t] = {}]
  BY <1>0 DEF Unlock, SearchInOrder
<1>2. \A p \in Children :
         /\ Due(t, p) <=> p \in locked[t]
         /\ holds[t][p] = (IF Due(t, p) THEN 1 ELSE 0) + lost[t][p]
         /\ lost[t][p] \in Nat
  <2>1. \A p \in Children : Due(t, p) <=> p \in locked[t]
    BY <1>1, NoneAssumption DEF Due, BetweenLocks
  <2>2. \A p \in Children : holds[t][p] = (IF Due(t, p) THEN 1 ELSE 0) + lost[t][p]
    BY <1>0 DEF LockBalance
  <2>3. \A p \in Children : lost[t][p] \in Nat
    BY <1>0 DEF TypeOK
  <2>. QED
    BY <2>1, <2>2, <2>3
<1>3. holds' = [holds EXCEPT ![t] = lost[t]]
  <2>1. [p \in Children |-> IF p \in locked[t] THEN holds[t][p] - 1 ELSE holds[t][p]]
        = [p \in Children |-> lost[t][p]]
    BY <1>2
  <2>2. lost[t] = [p \in Children |-> lost[t][p]]
    BY <1>0 DEF TypeOK
  <2>3. holds' = [holds EXCEPT ![t] =
                    [p \in Children |-> IF p \in locked[t] THEN holds[t][p] - 1 ELSE holds[t][p]]]
    BY <1>0 DEF Unlock, Released, TypeOK
  <2>. QED
    BY <2>1, <2>2, <2>3
<1>9. Exclusive' /\ writer' \in [Children -> Thread \union {None}]
  <2>1. holds' \in [Thread -> [Children -> Nat]] /\ holds'[t] = lost[t]
        /\ \A u \in Thread \ {t} : holds'[u] = holds[u]
    BY <1>0, <1>3 DEF TypeOK
  <2>2. \A p \in Children : holds'[t][p] <= holds[t][p]
    BY <1>2, <2>1
  <2>. QED
    BY <1>0, <1>1, <2>1, <2>2, ReleaseExclusive DEF IInv
<1>4. TypeOK'
  BY <1>0, <1>1, <1>3, <1>9 DEF TypeOK
<1>5. Others(t)
  BY <1>0, <1>1, <1>3 DEF Others, TypeOK
<1>6. Balanced(t)'
  <2>1. \A p \in Children : ~Due(t, p)'
    BY <1>0, <1>1, NoneAssumption DEF Due, BetweenLocks, TypeOK
  <2>2. holds'[t] = lost[t] /\ lost'[t] = lost[t]
    BY <1>0, <1>1, <1>3 DEF TypeOK
  <2>. QED
    BY <1>2, <2>1, <2>2 DEF Balanced
<1>7. SearchInOrder'
  BY <1>0, <1>1 DEF SearchInOrder
<1>8. CredentialsReachable' /\ GivenTracked'
  BY <1>0, <1>1 DEF IInv, CredentialsReachable, GivenTracked, TypeOK
<1>. QED
  BY <1>0, <1>4, <1>5, <1>6, <1>7, <1>8, <1>9, BalanceOfOne DEF IInv

LEMMA InitIInv == Init => IInv
<1>. SUFFICES ASSUME Init PROVE IInv
  OBVIOUS
<1>1. 1 \in 1..(Len(Chain) + 1) /\ "nothing" \in Answer("role")
  BY ChainFacts DEF Answer
<1>2. TypeOK
  BY <1>1, PolicyAssumption DEF Init, TypeOK, NoLocks
<1>3. LockBalance
  BY NoneAssumption DEF Init, LockBalance, Due, BetweenLocks, NoLocks
<1>4. SearchInOrder /\ CredentialsReachable /\ GivenTracked /\ Exclusive
  BY DEF Init, SearchInOrder, InChild, CredentialsReachable, GivenTracked, Exclusive
<1>. QED
  BY <1>2, <1>3, <1>4 DEF IInv

LEMMA NextIInv == IInv /\ [Next]_vars => IInv'
<1>. SUFFICES ASSUME IInv, [Next]_vars PROVE IInv'
  OBVIOUS
<1>1. CASE UNCHANGED vars
  BY <1>1 DEF vars, IInv, TypeOK, SearchInOrder, LockBalance, Due, BetweenLocks, Asked,
              CredentialsReachable, GivenTracked, Exclusive
<1>2. ASSUME NEW t \in Thread, NEW w \in Want, Search(t, w) PROVE IInv'
  BY <1>2, SearchIInv
<1>3. ASSUME NEW t \in Thread, Unlock(t) PROVE IInv'
  BY <1>3, UnlockIInv
<1>4. ASSUME NEW t \in Thread, LockNext(t) PROVE IInv'
  BY <1>4, LockNextIInv
<1>5. ASSUME NEW t \in Thread,
             \/ ChildGivesUp(t) \/ ChildWrites(t) \/ ChildInstalls(t)
             \/ ObserverThrows(t) \/ ChildReads(t)
      PROVE  IInv'
  BY <1>5, ChildIInv
<1>6. ASSUME NEW t \in Thread, NEW a \in Answer(wants[t]), EndSearch(t, a) \/ GoOn(t, a)
      PROVE  IInv'
  BY <1>6, AnswerIInv
<1>7. ASSUME NEW t \in Thread, Return(t) PROVE IInv'
  BY <1>7, ReturnIInv
<1>8. ASSUME NEW t \in Thread, ChildThrows(t) PROVE IInv'
  BY <1>8, ChildThrowsIInv
<1>. QED
  BY <1>1, <1>2, <1>3, <1>4, <1>5, <1>6, <1>7, <1>8 DEF Next, Proceed

-----------------------------------------------------------------------------
(* The theorems *)

\* The inductive invariant holds in every reachable state.
THEOREM InvariantCorrect == Spec => []IInv
BY InitIInv, NextIInv, PTL DEF Spec

\* Every variable of the chaining provider keeps its type.
THEOREM TypeCorrect == Spec => []TypeOK
<1>1. IInv => TypeOK
  BY DEF IInv
<1>. QED
  BY <1>1, InvariantCorrect, PTL

\* Through searches, upgrades inside a child, exceptions and unlocking, a thread
\* holds exactly one lock on each child it needs and none on any other,
\* except for what an exception has left behind.
THEOREM LocksBalance == Spec => []LockBalance
<1>1. IInv => LockBalance
  BY DEF IInv
<1>. QED
  BY <1>1, InvariantCorrect, PTL

\* Until it unlocks the chain, a thread has a lock on every child it was given
\* something from, and no other thread writes that child, whatever the thread
\* searches for in between; only while that very child fetches for the same
\* thread is the lock let go.
THEOREM GivenStays == Spec => []GivenStaysLocked
<1>1. IInv => GivenStaysLocked
  <2>. SUFFICES ASSUME IInv, NEW t \in Thread, NEW g \in given[t], ~BetweenLocks(t, g[2])
                PROVE  holds[t][g[2]] > 0 /\ writer[g[2]] \in {None, t}
    BY DEF GivenStaysLocked
  <2>1. g[2] \in Children /\ g[2] \in locked[t]
    BY DEF IInv, TypeOK, GivenTracked
  <2>2. Due(t, g[2])
    BY <2>1 DEF Due
  <2>3. holds[t][g[2]] = 1 + lost[t][g[2]] /\ lost[t][g[2]] \in Nat
    BY <2>1, <2>2 DEF IInv, LockBalance, TypeOK
  <2>. QED
    BY <2>1, <2>3 DEF IInv, Exclusive
<1>. QED
  BY <1>1, InvariantCorrect, PTL

\* Credentials of every entity a thread was given can be resolved, through a
\* child the thread's tracker keeps locked.
THEOREM CredentialsReach == Spec => []CredentialsReachable
<1>1. IInv => CredentialsReachable
  BY DEF IInv
<1>. QED
  BY <1>1, InvariantCorrect, PTL

-----------------------------------------------------------------------------
(* The first-match policy *)

\* Under that policy, a search that wants no role and has a match is over.
FirstMatchEnds ==
    \A t \in Thread :
        m_firstMatch /\ wants[t] # "role" /\ held[t] # None =>
            pc[t] = "next" /\ pos[t] > Len(Chain)

LEMMA NextFirstMatch == IInv /\ FirstMatchEnds /\ [Next]_vars => FirstMatchEnds'
<1>. SUFFICES ASSUME IInv, FirstMatchEnds, [Next]_vars PROVE FirstMatchEnds'
  OBVIOUS
<1>. USE DEF tracker, search
<1>0. TypeOK /\ SearchInOrder /\ Len(Chain) \in Nat
  BY ChainFacts DEF IInv
<1>1. CASE UNCHANGED vars
  BY <1>1 DEF vars, FirstMatchEnds
<1>2. ASSUME NEW t \in Thread, NEW w \in Want, Search(t, w) PROVE FirstMatchEnds'
  BY <1>0, <1>2 DEF Search, FirstMatchEnds, SearchInOrder, TypeOK
<1>3. ASSUME NEW t \in Thread, Unlock(t) PROVE FirstMatchEnds'
  BY <1>3 DEF Unlock, FirstMatchEnds
<1>4. ASSUME NEW t \in Thread,
             \/ LockNext(t) \/ ChildGivesUp(t) \/ ChildWrites(t) \/ ChildInstalls(t)
             \/ ObserverThrows(t) \/ ChildReads(t)
      PROVE  FirstMatchEnds'
  <2>1. /\ UNCHANGED <<m_firstMatch, wants, held, pos>>
        /\ pc[t] # "next" \/ pos[t] <= Len(Chain)
        /\ \A u \in Thread \ {t} : pc'[u] = pc[u]
    BY <1>0, <1>4
       DEF LockNext, ChildGivesUp, ChildWrites, ChildInstalls, ObserverThrows, ChildReads, TypeOK
  <2>2. ~(pc[t] = "next" /\ pos[t] > Len(Chain))
    BY <1>0, <2>1 DEF TypeOK
  <2>. QED
    BY <2>1, <2>2 DEF FirstMatchEnds
<1>5. ASSUME NEW t \in Thread, NEW a \in Answer(wants[t]), EndSearch(t, a) PROVE FirstMatchEnds'
  BY <1>0, <1>5 DEF EndSearch, FirstMatchEnds, TypeOK
<1>6. ASSUME NEW t \in Thread, NEW a \in Answer(wants[t]), GoOn(t, a) PROVE FirstMatchEnds'
  <2>1. ASSUME m_firstMatch, wants[t] # "role" PROVE held[t] = None /\ held' = held
    <3>1. a = "nothing"
      BY <1>6, <2>1 DEF GoOn, Final, Answer
    <3>2. held[t] = None
      BY <1>6, <2>1 DEF GoOn, FirstMatchEnds
    <3>. QED
      BY <1>0, <1>6, <3>1, <3>2 DEF GoOn, Better, TypeOK
  <2>2. /\ UNCHANGED <<m_firstMatch, wants>>
        /\ \A u \in Thread \ {t} : held'[u] = held[u] /\ pc'[u] = pc[u] /\ pos'[u] = pos[u]
    BY <1>0, <1>6 DEF GoOn, TypeOK
  <2>. QED
    BY <2>1, <2>2 DEF FirstMatchEnds
<1>7. ASSUME NEW t \in Thread, Return(t) \/ ChildThrows(t) PROVE FirstMatchEnds'
  <2>1. /\ m_firstMatch' = m_firstMatch /\ NoSearch(t)
        /\ \A u \in Thread \ {t} : pc'[u] = pc[u]
    BY <1>0, <1>7 DEF Return, ChildThrows, TypeOK
  <2>2. held'[t] = None
    BY <1>0, <2>1, NoSearchFacts
  <2>3. \A u \in Thread \ {t} : held'[u] = held[u] /\ pos'[u] = pos[u] /\ wants'[u] = wants[u]
    BY <1>0, <2>1 DEF NoSearch, TypeOK
  <2>. QED
    BY <2>1, <2>2, <2>3 DEF FirstMatchEnds
<1>. QED
  BY <1>1, <1>2, <1>3, <1>4, <1>5, <1>6, <1>7 DEF Next, Proceed

\* A search that wants no role asks no further child once it has a match under
\* the first-match policy, so it never has one left over to give up.
THEOREM NothingLeftOver == Spec => []NoMatchLeftOver
<1>1. Init => FirstMatchEnds
  BY DEF Init, FirstMatchEnds
<1>2. FirstMatchEnds => NoMatchLeftOver
  BY DEF FirstMatchEnds, NoMatchLeftOver
<1>. QED
  BY <1>1, <1>2, NextFirstMatch, InvariantCorrect, PTL DEF Spec

-----------------------------------------------------------------------------
(* The match policy *)

\* The children that had all that was asked for, and those that had an entity.
FullIn(w, got) == {i \in DOMAIN got : got[i] = IF w = "role" THEN "role" ELSE "entity"}
PartIn(got) == {i \in DOMAIN got : got[i] = "entity"}
LastOf(S) == CHOOSE i \in S : \A j \in S : j <= i
FirstOf(S) == CHOOSE i \in S : \A j \in S : i <= j

BestOf(first, w, got) ==
    IF FullIn(w, got) # {}
    THEN Chain[IF first THEN FirstOf(FullIn(w, got)) ELSE LastOf(FullIn(w, got))]
    ELSE IF PartIn(got) # {} THEN Chain[LastOf(PartIn(got))] ELSE None

LEMMA BestParts ==
    ASSUME NEW w, NEW got
    PROVE  Best(w, got) = BestOf(m_firstMatch, w, got)
BY DEF Best, BestOf, FullIn, PartIn, LastOf, FirstOf

\* Nothing after n: n is the last.
LEMMA NewIsLast ==
    ASSUME NEW n \in Nat, NEW S \in SUBSET Nat, \A i \in S : i < n
    PROVE  LastOf(S \union {n}) = n
<1>1. n \in S \union {n} /\ \A j \in S \union {n} : j <= n
  OBVIOUS
<1>2. ASSUME NEW i \in S \union {n}, \A j \in S \union {n} : j <= i
      PROVE  i = n
  BY <1>2
<1>3. LastOf(S \union {n}) \in S \union {n} /\ \A j \in S \union {n} : j <= LastOf(S \union {n})
  BY <1>1 DEF LastOf
<1>. QED
  BY <1>2, <1>3

\* One more answer comes last.
LEMMA AnswerAppended ==
    ASSUME NEW S, NEW got \in Seq(S), NEW a \in S
    PROVE  /\ Len(got) \in Nat /\ Len(got) + 1 \in Nat /\ Len(got) + 1 \notin DOMAIN got
           /\ DOMAIN got \in SUBSET Nat /\ \A i \in DOMAIN got : i < Len(got) + 1
           /\ Append(got, a) \in Seq(S) /\ Len(Append(got, a)) = Len(got) + 1
           /\ DOMAIN Append(got, a) = DOMAIN got \union {Len(got) + 1}
           /\ Append(got, a)[Len(got) + 1] = a
           /\ \A i \in DOMAIN got : Append(got, a)[i] = got[i]
<1>1. Len(got) \in Nat /\ DOMAIN got = 1..Len(got)
  BY LenProperties
<1>2. /\ Append(got, a) \in Seq(S) /\ Len(Append(got, a)) = Len(got) + 1
      /\ Append(got, a)[Len(got) + 1] = a
      /\ \A i \in 1..Len(got) : Append(got, a)[i] = got[i]
  BY AppendProperties
<1>3. DOMAIN Append(got, a) = 1..(Len(got) + 1)
  BY <1>2, LenProperties
<1>4. \A n \in Nat : 1..(n + 1) = 1..n \union {n + 1}
  OBVIOUS
<1>. QED
  BY <1>1, <1>2, <1>3, <1>4

\* What one more answer does to the best match: it becomes it if it has all that
\* was asked for, or is an entity when none before had all.
LEMMA BestAppended ==
    ASSUME NEW w \in {"group", "entity", "role"}, NEW got \in Seq(Answer("role")),
           NEW a \in Answer(w), NEW first \in BOOLEAN,
           first => FullIn(w, got) = {}
    PROVE  BestOf(first, w, Append(got, a)) =
             IF a # "nothing" /\ (FullIn(w, got) = {} \/ a # "entity" \/ w # "role")
             THEN Chain[Len(got) + 1] ELSE BestOf(first, w, got)
<1>. DEFINE n == Len(got) + 1
            bs == Append(got, a)
            full == IF w = "role" THEN "role" ELSE "entity"
<1>0. a \in Answer("role")
  BY DEF Answer
<1>1. /\ n \in Nat /\ n \notin DOMAIN got /\ DOMAIN got \in SUBSET Nat
      /\ \A i \in DOMAIN got : i < n
      /\ DOMAIN bs = DOMAIN got \union {n} /\ bs[n] = a /\ \A i \in DOMAIN got : bs[i] = got[i]
  <2>. PICK S : S = Answer("role")
    OBVIOUS
  <2>1. got \in Seq(S) /\ a \in S
    BY <1>0
  <2>. QED
    BY <2>1, AnswerAppended
<1>. HIDE DEF n, bs
<1>2. /\ FullIn(w, bs) = IF a = full THEN FullIn(w, got) \union {n} ELSE FullIn(w, got)
      /\ FullIn(w, got) \in SUBSET Nat /\ \A i \in FullIn(w, got) : i < n
  BY <1>1 DEF FullIn
<1>3. /\ PartIn(bs) = IF a = "entity" THEN PartIn(got) \union {n} ELSE PartIn(got)
      /\ PartIn(got) \in SUBSET Nat /\ \A i \in PartIn(got) : i < n
  BY <1>1 DEF PartIn
<1>4. CASE a = full
  <2>1. FullIn(w, bs) # {} /\ LastOf(FullIn(w, bs)) = n
    BY <1>1, <1>2, <1>4, NewIsLast
  <2>2. first => FirstOf(FullIn(w, bs)) = n
    <3>1. ASSUME first PROVE FullIn(w, bs) = {n}
      BY <1>2, <1>4, <3>1
    <3>2. FirstOf({n}) = n
      BY <1>1 DEF FirstOf
    <3>. QED
      BY <3>1, <3>2
  <2>3. BestOf(first, w, bs) = Chain[n]
    BY <2>1, <2>2 DEF BestOf
  <2>. QED
    BY <1>4, <2>3 DEF n, bs
<1>5. CASE a # full /\ a = "entity"
  <2>1. w = "role" /\ FullIn(w, bs) = FullIn(w, got)
    BY <1>2, <1>5
  <2>2. PartIn(bs) # {} /\ LastOf(PartIn(bs)) = n
    BY <1>1, <1>3, <1>5, NewIsLast
  <2>3. CASE FullIn(w, got) = {}
    <3>1. BestOf(first, w, bs) = Chain[n]
      BY <2>1, <2>2, <2>3 DEF BestOf
    <3>. QED
      BY <1>5, <2>3, <3>1 DEF n, bs
  <2>4. CASE FullIn(w, got) # {}
    <3>1. BestOf(first, w, bs) = BestOf(first, w, got)
      BY <2>1, <2>4 DEF BestOf
    <3>. QED
      BY <1>5, <2>1, <2>4, <3>1 DEF bs
  <2>. QED
    BY <2>3, <2>4
<1>6. CASE a # full /\ a # "entity"
  <2>1. a = "nothing"
    BY <1>6 DEF Answer
  <2>2. BestOf(first, w, bs) = BestOf(first, w, got)
    BY <1>2, <1>3, <1>6 DEF BestOf
  <2>. QED
    BY <2>1, <2>2 DEF bs
<1>. QED
  BY <1>4, <1>5, <1>6

\* While a thread searches, its answers are those of the children before the one
\* it asks, its best match is that of the answers, and how good that is tells
\* whether one of them was a role; a match that is final ends the search.
SearchOf(t) ==
    /\ wants[t] \in {"group", "entity", "role"}
    /\ pc[t] = "session" =>
         answers[t] = <<>> /\ pos[t] = 1 /\ held[t] = None /\ ret[t] = "nothing"
    /\ pos[t] <= Len(Chain) => Len(answers[t]) = pos[t] - 1
    /\ \A i \in DOMAIN answers[t] : answers[t][i] \in Answer(wants[t])
    /\ m_firstMatch /\ pos[t] <= Len(Chain) => FullIn(wants[t], answers[t]) = {}
    /\ ret[t] = "role" <=> wants[t] = "role" /\ FullIn(wants[t], answers[t]) # {}
    /\ held[t] = BestOf(m_firstMatch, wants[t], answers[t])
SearchesKeepTheBest == \A t \in Thread : SearchOf(t)

\* A search that has not begun.
LEMMA NoAnswersYet ==
    ASSUME NEW first, NEW w
    PROVE  BestOf(first, w, <<>>) = None /\ FullIn(w, <<>>) = {}
BY DEF FullIn, PartIn, BestOf

\* One more answer, of a child of the chain.
LEMMA AnswerKeepsTheBest ==
    ASSUME IInv, SearchesKeepTheBest, NEW t \in Thread, NEW a \in Answer(wants[t]),
           EndSearch(t, a) \/ GoOn(t, a)
    PROVE  SearchOf(t)'
<1>1. /\ TypeOK /\ SearchOf(t) /\ Len(Chain) \in Nat /\ pos[t] <= Len(Chain)
  BY ChainFacts DEF IInv, SearchesKeepTheBest, SearchInOrder, InChild, EndSearch, GoOn
<1>2. /\ m_firstMatch' = m_firstMatch /\ wants' = wants /\ pc'[t] = "next"
      /\ answers'[t] = Append(answers[t], a)
  BY <1>1 DEF EndSearch, GoOn, TypeOK
<1>. PICK w : w = wants[t]
  OBVIOUS
<1>. PICK got : got = answers[t]
  OBVIOUS
<1>. PICK bs : bs = Append(got, a)
  OBVIOUS
<1>3. /\ w \in {"group", "entity", "role"} /\ a \in Answer(w) /\ a \in Answer("role")
      /\ got \in Seq(Answer("role")) /\ m_firstMatch \in BOOLEAN /\ pos[t] \in Nat
      /\ \A i \in DOMAIN got : got[i] \in Answer(w)
  BY <1>1 DEF SearchOf, TypeOK, Answer
<1>4. /\ Len(got) = pos[t] - 1 /\ (m_firstMatch => FullIn(w, got) = {})
      /\ ret[t] = "role" <=> w = "role" /\ FullIn(w, got) # {}
      /\ held[t] = BestOf(m_firstMatch, w, got)
  BY <1>1 DEF SearchOf
<1>5. /\ DOMAIN bs = DOMAIN got \union {Len(got) + 1} /\ bs[Len(got) + 1] = a
      /\ \A i \in DOMAIN got : bs[i] = got[i]
      /\ Len(bs) = Len(got) + 1
  BY <1>3, AnswerAppended
<1>6. \A i \in DOMAIN bs : bs[i] \in Answer(w)
  BY <1>3, <1>5
<1>7. FullIn(w, bs) # {} <=>
        FullIn(w, got) # {} \/ a = IF w = "role" THEN "role" ELSE "entity"
  BY <1>5 DEF FullIn
<1>8. BestOf(m_firstMatch, w, bs) =
        IF a # "nothing" /\ (FullIn(w, got) = {} \/ a # "entity" \/ w # "role")
        THEN Asked(t) ELSE held[t]
  <2>1. Len(got) + 1 = pos[t]
    BY <1>3, <1>4
  <2>. QED
    BY <1>3, <1>4, <2>1, BestAppended DEF Asked
<1>9. /\ m_firstMatch' \in BOOLEAN /\ wants'[t] = w /\ answers'[t] = bs /\ pc'[t] # "session"
      /\ m_firstMatch' = m_firstMatch
  BY <1>2, <1>3
<1>10. ASSUME held'[t] = BestOf(m_firstMatch, w, bs),
              ret'[t] = "role" <=> w = "role" /\ FullIn(w, bs) # {},
              pos'[t] <= Len(Chain) => Len(bs) = pos'[t] - 1,
              m_firstMatch /\ pos'[t] <= Len(Chain) => FullIn(w, bs) = {}
       PROVE  SearchOf(t)'
  BY <1>3, <1>6, <1>9, <1>10 DEF SearchOf
<1>11. CASE EndSearch(t, a)
  <2>1. held'[t] = Asked(t) /\ ret'[t] = a /\ pos'[t] = Len(Chain) + 1
    BY <1>1, <1>11 DEF EndSearch, TypeOK
  <2>2. a = IF w = "role" THEN "role" ELSE "entity"
    BY <1>11 DEF EndSearch, Final
  <2>3. ~(Len(Chain) + 1 <= Len(Chain))
    BY <1>1
  <2>. QED
    BY <1>3, <1>7, <1>8, <1>10, <2>1, <2>2, <2>3
<1>12. CASE GoOn(t, a)
  <2>1. /\ held'[t] = IF Better(ret[t], a) THEN Asked(t) ELSE held[t]
        /\ ret'[t] = IF Better(ret[t], a) THEN a ELSE ret[t]
        /\ pos'[t] = pos[t] + 1
    BY <1>1, <1>12 DEF GoOn, TypeOK
  <2>2. m_firstMatch => a # IF w = "role" THEN "role" ELSE "entity"
    BY <1>12 DEF GoOn, Final
  <2>3. Better(ret[t], a) <=>
          a # "nothing" /\ (FullIn(w, got) = {} \/ a # "entity" \/ w # "role")
    BY <1>3, <1>4 DEF Better, Answer
  <2>4. held'[t] = BestOf(m_firstMatch, w, bs)
    BY <1>8, <2>1, <2>3
  <2>5. ret'[t] = "role" <=> w = "role" /\ FullIn(w, bs) # {}
    BY <1>3, <1>4, <1>7, <2>1 DEF Better, Answer
  <2>6. m_firstMatch => FullIn(w, bs) = {}
    BY <1>4, <1>7, <2>2
  <2>7. Len(bs) = pos'[t] - 1
    BY <1>3, <1>4, <1>5, <2>1
  <2>. QED
    BY <1>10, <2>4, <2>5, <2>6, <2>7
<1>. QED
  BY <1>11, <1>12

LEMMA NextKeepsTheBest == IInv /\ SearchesKeepTheBest /\ [Next]_vars => SearchesKeepTheBest'
<1>. SUFFICES ASSUME IInv, SearchesKeepTheBest, [Next]_vars PROVE SearchesKeepTheBest'
  OBVIOUS
<1>. USE DEF tracker, search
<1>0. TypeOK /\ m_firstMatch' = m_firstMatch /\ 1 \in Nat /\ Len(Chain) \in Nat
  BY ChainFacts DEF IInv, Next, vars, Search, Unlock, LockNext, ChildWrites, ChildReads, Proceed,
     ChildGivesUp, ChildInstalls, ObserverThrows, Return, ChildThrows, EndSearch, GoOn
\* A thread whose search does not move.
<1>1. ASSUME NEW u \in Thread, wants'[u] = wants[u], pos'[u] = pos[u], held'[u] = held[u],
             ret'[u] = ret[u], answers'[u] = answers[u], pc[u] = "session" \/ pc'[u] # "session"
      PROVE  SearchOf(u)'
  BY <1>0, <1>1 DEF SearchesKeepTheBest, SearchOf
\* One that is over.
<1>2. ASSUME NEW u \in Thread, NoSearch(u)
      PROVE  SearchOf(u)'
  <2>1. /\ wants'[u] = "entity" /\ pos'[u] = 1 /\ held'[u] = None /\ ret'[u] = "nothing"
        /\ answers'[u] = <<>>
    BY <1>0, <1>2 DEF NoSearch, TypeOK
  <2>2. BestOf(m_firstMatch, "entity", <<>>) = None /\ FullIn("entity", <<>>) = {}
    BY NoAnswersYet
  <2>. QED
    BY <1>0, <2>1, <2>2 DEF SearchOf
<1>3. CASE UNCHANGED vars
  BY <1>1, <1>3 DEF vars, SearchesKeepTheBest
<1>4. ASSUME NEW t \in Thread, NEW w \in Want, Search(t, w) PROVE SearchesKeepTheBest'
  <2>1. /\ wants'[t] = w /\ pc'[t] = "next" /\ w \in {"group", "entity", "role"}
        /\ UNCHANGED <<pos, held, ret, answers>>
        /\ answers[t] = <<>> /\ pos[t] = 1 /\ held[t] = None /\ ret[t] = "nothing"
        /\ \A u \in Thread \ {t} : wants'[u] = wants[u] /\ pc'[u] = pc[u]
    BY <1>0, <1>4, WantAssumption DEF Search, TypeOK, SearchesKeepTheBest, SearchOf
  <2>2. BestOf(m_firstMatch, w, <<>>) = None /\ FullIn(w, <<>>) = {}
    BY NoAnswersYet
  <2>3. SearchOf(t)'
    BY <1>0, <2>1, <2>2 DEF SearchOf
  <2>4. \A u \in Thread \ {t} : SearchOf(u)'
    BY <1>1, <2>1
  <2>. QED
    BY <2>3, <2>4 DEF SearchesKeepTheBest
<1>5. ASSUME NEW t \in Thread, Unlock(t) PROVE SearchesKeepTheBest'
  BY <1>1, <1>5 DEF Unlock, SearchesKeepTheBest
<1>6. ASSUME NEW t \in Thread,
             \/ LockNext(t) \/ ChildGivesUp(t) \/ ChildWrites(t) \/ ChildInstalls(t)
             \/ ObserverThrows(t) \/ ChildReads(t)
      PROVE  SearchesKeepTheBest'
  <2>1. UNCHANGED search /\ \A u \in Thread : pc[u] = "session" \/ pc'[u] # "session"
    BY <1>0, <1>6
       DEF LockNext, ChildGivesUp, ChildWrites, ChildInstalls, ObserverThrows, ChildReads, TypeOK
  <2>. QED
    BY <1>1, <2>1 DEF SearchesKeepTheBest
<1>7. ASSUME NEW t \in Thread, NEW a \in Answer(wants[t]), EndSearch(t, a) \/ GoOn(t, a)
      PROVE  SearchesKeepTheBest'
  <2>1. SearchOf(t)'
    BY <1>7, AnswerKeepsTheBest
  <2>2. \A u \in Thread \ {t} : /\ wants'[u] = wants[u] /\ pos'[u] = pos[u] /\ held'[u] = held[u]
                                /\ ret'[u] = ret[u] /\ answers'[u] = answers[u] /\ pc'[u] = pc[u]
    BY <1>0, <1>7 DEF EndSearch, GoOn, TypeOK
  <2>3. \A u \in Thread \ {t} : SearchOf(u)'
    BY <1>1, <2>2
  <2>. QED
    BY <2>1, <2>3 DEF SearchesKeepTheBest
<1>8. ASSUME NEW t \in Thread, Return(t) \/ ChildThrows(t) PROVE SearchesKeepTheBest'
  <2>1. NoSearch(t) /\ \A u \in Thread \ {t} : pc'[u] = pc[u]
    BY <1>0, <1>8 DEF Return, ChildThrows, TypeOK
  <2>2. \A u \in Thread \ {t} : /\ wants'[u] = wants[u] /\ pos'[u] = pos[u] /\ held'[u] = held[u]
                                /\ ret'[u] = ret[u] /\ answers'[u] = answers[u]
    BY <1>0, <2>1 DEF NoSearch, TypeOK
  <2>3. \A u \in Thread \ {t} : SearchOf(u)'
    BY <1>1, <2>1, <2>2
  <2>. QED
    BY <1>2, <2>1, <2>3 DEF SearchesKeepTheBest
<1>. QED
  BY <1>3, <1>4, <1>5, <1>6, <1>7, <1>8 DEF Next, Proceed

\* A search gives its caller the match that the policy prescribes: of the first
\* (or last) child that has all that was asked for, or else of the last child
\* with an entity.
THEOREM BestReturned == Spec => []ReturnsBest
<1>1. Init => SearchesKeepTheBest
  <2>. SUFFICES ASSUME Init PROVE SearchesKeepTheBest
    OBVIOUS
  <2>1. BestOf(m_firstMatch, "entity", <<>>) = None /\ FullIn("entity", <<>>) = {}
    BY NoAnswersYet
  <2>. QED
    BY <2>1, ChainFacts DEF Init, SearchesKeepTheBest, SearchOf
<1>2. SearchesKeepTheBest => ReturnsBest
  BY BestParts DEF SearchesKeepTheBest, SearchOf, ReturnsBest
<1>. QED
  BY <1>1, <1>2, NextKeepsTheBest, InvariantCorrect, PTL DEF Spec
=============================================================================
