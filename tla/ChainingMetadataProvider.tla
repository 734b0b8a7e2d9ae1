--------------------- MODULE ChainingMetadataProvider ---------------------
(***************************************************************************)
(* The provider that searches a sequence of other providers                *)
(* (saml/saml2/metadata/impl/ChainingMetadataProvider.cpp).  Locking it    *)
(* does nothing: a per-thread tracker remembers which children the thread  *)
(* has kept locked, because an entity it was given lives in them, and      *)
(* unlocking releases them all.  During a search the thread also holds the *)
(* child it is asking and the child of the best match so far.              *)
(*                                                                         *)
(* Children keep the lock protocol of ProviderLock; a child that resolves  *)
(* dynamically may, while it is asked, give up the one lock the thread     *)
(* holds on it, write, and read again.  If an observer of the change       *)
(* throws, the child answers with the write lock still held.               *)
(***************************************************************************)
EXTENDS Naturals, Sequences, FiniteSets

CONSTANTS
    Thread,     \* threads, each with its own tracker
    Chain,      \* m_providers, in order; the children are all different
    Dynamic,    \* the children that may write while they are asked
    Policies,   \* values m_firstMatch may be configured with
    Want,       \* what callers search for: a group, an entity, an entity with a role
    None,       \* no child, no match
    MaxThrows   \* bound on the locks exceptions leave behind; when it is reached,
                \* nothing throws any more

Children == {Chain[i] : i \in DOMAIN Chain}

ASSUME ChainAssumption ==
    /\ Chain \in Seq(Children)
    /\ \A i, j \in DOMAIN Chain : Chain[i] = Chain[j] => i = j
    /\ Dynamic \subseteq Children
ASSUME NoneAssumption == None \notin Children
ASSUME PolicyAssumption == Policies \subseteq BOOLEAN /\ MaxThrows \in Nat
ASSUME WantAssumption == Want \subseteq {"group", "entity", "role"}

VARIABLES
    m_firstMatch,   \* the first match wins; set by the constructor
    holds,      \* holds[t][p]: how many locks t holds on p, the write lock among them
    writer,     \* writer[p]: the thread that holds the write lock of p, or None
    locked,     \* locked[t]: m_locked of t's tracker
    objectMap,  \* objectMap[t]: the children whose entities m_objectMap lists
    pc,         \* pc[t]: where t is
    wants,      \* wants[t]: what t's search is for
    pos,        \* pos[t]: the index of the child t is asking
    held,       \* held[t]: the child of the best match so far
    ret,        \* ret[t]: how good that match is
    answers,    \* answers[t]: what each child asked so far answered (history)
    given,      \* given[t]: what t was given and uses, and by which child
    lost        \* lost[t]: a bag of locks exceptions have left behind (history)

vars == <<m_firstMatch, holds, writer, locked, objectMap, pc, wants, pos, held, ret, answers, given, lost>>
tracker == <<locked, objectMap>>
search == <<wants, pos, held, ret, answers>>

\* An answer of a child: nothing, an entity (or group), an entity with the role.
Answer(w) == IF w = "role" THEN {"nothing", "entity", "role"} ELSE {"nothing", "entity"}
NoLocks == [p \in Children |-> 0]

Init ==
    /\ m_firstMatch \in Policies
    /\ holds = [t \in Thread |-> NoLocks]
    /\ writer = [p \in Children |-> None]
    /\ locked = [t \in Thread |-> {}]
    /\ objectMap = [t \in Thread |-> {}]
    /\ pc = [t \in Thread |-> "session"]
    /\ wants = [t \in Thread |-> "entity"]
    /\ pos = [t \in Thread |-> 1]
    /\ held = [t \in Thread |-> None]
    /\ ret = [t \in Thread |-> "nothing"]
    /\ answers = [t \in Thread |-> <<>>]
    /\ given = [t \in Thread |-> {}]
    /\ lost = [t \in Thread |-> NoLocks]

-----------------------------------------------------------------------------
(* The decisions of the code, each with a variant that a plausible slip     *)
(* would give; the specification does not use the variants.                *)

Asked(t) == Chain[pos[t]]

\* lock_if and unlock_if leave the children of the tracker alone.  Variants:
\* they do not.
Lock_Always(t, p) == 1
Lock_If(t, p) == IF p \in locked[t] THEN 0 ELSE 1
Unlock_Always(t, p) == 1
Unlock_If(t, p) == IF p \in locked[t] THEN 0 ELSE 1

\* A match of the asked child ends the search at once.  Variant: a role is
\* always waited for.
Final_RoleOnly(w, a) == m_firstMatch /\ a = "role"
Final(w, a) == m_firstMatch /\ (IF w = "role" THEN a = "role" ELSE a = "entity")

\* The asked child's match becomes the best so far.  Variant: an entity without
\* the role replaces one that has it.
Better_Latest(r, a) == a # "nothing"
Better(r, a) == a = "role" \/ (a = "entity" /\ r # "role")

\* The locks a search gives up after an answer: the asked child's, if it has
\* nothing better; the old best match's, if it has.  Variant: the old best match
\* stays locked.
Dropped_AskedOnly(t, a) == IF Better(ret[t], a) THEN {} ELSE {Asked(t)}
Dropped(t, a) == IF Better(ret[t], a) THEN {held[t]} \ {None} ELSE {Asked(t)}

\* What remember adds to m_objectMap: the entity, but not a group.  Variant:
\* nothing.
Mapped_Never(w, p) == {}
Mapped(w, p) == IF w = "group" THEN {} ELSE {p}

\* What unlock releases.  Variant: the tracker keeps its locks.
Released_None(t) == {}
Released(t) == locked[t]

\* unlock_if on the children in S.
Unheld(t, S) ==
    [holds EXCEPT ![t] = [p \in Children |-> IF p \in S THEN @[p] - Unlock_If(t, p) ELSE @[p]]]

\* The writers that remain when the locks are h: a write lock is given up with
\* the last lock of its holder, who has no other on that child.
StillWriting(h) ==
    [p \in Children |-> IF writer[p] # None /\ h[writer[p]][p] > 0 THEN writer[p] ELSE None]

\* A thread outside a search.
NoSearch(t) ==
    /\ wants' = [wants EXCEPT ![t] = "entity"]
    /\ pos' = [pos EXCEPT ![t] = 1]
    /\ held' = [held EXCEPT ![t] = None]
    /\ ret' = [ret EXCEPT ![t] = "nothing"]
    /\ answers' = [answers EXCEPT ![t] = <<>>]
-----------------------------------------------------------------------------

\* A thread that waits for a child it has kept the write lock of waits for itself.
MayRead(p) == writer[p] = None
MayWrite(p) == writer[p] = None /\ \A u \in Thread : holds[u][p] = 0

\* getEntitiesDescriptor ("group") or getEntityDescriptor is called.
Search(t, w) ==
    /\ pc[t] = "session"
    /\ wants' = [wants EXCEPT ![t] = w]
    /\ pc' = [pc EXCEPT ![t] = "next"]
    /\ UNCHANGED <<m_firstMatch, holds, writer, tracker, pos, held, ret, answers, given, lost>>

\* lock_if on the next child, which may have to wait for a writer.
LockNext(t) ==
    /\ pc[t] = "next" /\ pos[t] <= Len(Chain)
    /\ MayRead(Asked(t)) \/ Lock_If(t, Asked(t)) = 0
    /\ holds' = [holds EXCEPT ![t][Asked(t)] = @ + Lock_If(t, Asked(t))]
    /\ pc' = [pc EXCEPT ![t] = "ask"]
    /\ UNCHANGED <<m_firstMatch, writer, tracker, search, given, lost>>

\* Not too much has been left behind by exceptions yet.
MayThrow == \A u \in Thread, p \in Children : lost[u][p] < MaxThrows

\* A dynamic child fetches the entity: it gives up one lock ...
ChildGivesUp(t) ==
    /\ pc[t] = "ask" /\ wants[t] # "group" /\ Asked(t) \in Dynamic
    /\ holds' = [holds EXCEPT ![t][Asked(t)] = @ - 1]
    /\ writer' = StillWriting(holds')
    /\ pc' = [pc EXCEPT ![t] = "upgrade"]
    /\ UNCHANGED <<m_firstMatch, tracker, search, given, lost>>

\* ... writes alone ...
ChildWrites(t) ==
    /\ pc[t] = "upgrade" /\ MayWrite(Asked(t))
    /\ holds' = [holds EXCEPT ![t][Asked(t)] = @ + 1]
    /\ writer' = [writer EXCEPT ![Asked(t)] = t]
    /\ pc' = [pc EXCEPT ![t] = "install"]
    /\ UNCHANGED <<m_firstMatch, tracker, search, given, lost>>

ChildInstalls(t) ==
    /\ pc[t] = "install"
    /\ holds' = [holds EXCEPT ![t][Asked(t)] = @ - 1]
    /\ writer' = StillWriting(holds')
    /\ pc' = [pc EXCEPT ![t] = "again"]
    /\ UNCHANGED <<m_firstMatch, tracker, search, given, lost>>

\* ... or answers from what it had, still writing, because an observer threw ...
ObserverThrows(t) ==
    /\ pc[t] = "install" /\ MayThrow
    /\ pc' = [pc EXCEPT ![t] = "answer"]
    /\ UNCHANGED <<m_firstMatch, holds, writer, tracker, search, given, lost>>

\* ... and reads again.
ChildReads(t) ==
    /\ pc[t] = "again" /\ MayRead(Asked(t))
    /\ holds' = [holds EXCEPT ![t][Asked(t)] = @ + 1]
    /\ pc' = [pc EXCEPT ![t] = "answer"]
    /\ UNCHANGED <<m_firstMatch, writer, tracker, search, given, lost>>

\* First match: the search ends here, and an entity-only match from earlier is
\* let go.
EndSearch(t, a) ==
    /\ pc[t] \in {"ask", "answer"}
    /\ Final(wants[t], a)
    /\ answers' = [answers EXCEPT ![t] = Append(@, a)]
    /\ holds' = Unheld(t, {held[t]})
    /\ writer' = StillWriting(holds')
    /\ held' = [held EXCEPT ![t] = Asked(t)]
    /\ ret' = [ret EXCEPT ![t] = a]
    /\ pos' = [pos EXCEPT ![t] = Len(Chain) + 1]
    /\ pc' = [pc EXCEPT ![t] = "next"]
    /\ UNCHANGED <<m_firstMatch, tracker, wants, given, lost>>

\* Otherwise the better of the two matches is kept and the other let go.
GoOn(t, a) ==
    /\ pc[t] \in {"ask", "answer"}
    /\ ~Final(wants[t], a)
    /\ answers' = [answers EXCEPT ![t] = Append(@, a)]
    /\ holds' = Unheld(t, Dropped(t, a))
    /\ writer' = StillWriting(holds')
    /\ held' = [held EXCEPT ![t] = IF Better(ret[t], a) THEN Asked(t) ELSE @]
    /\ ret' = [ret EXCEPT ![t] = IF Better(@, a) THEN a ELSE @]
    /\ pos' = [pos EXCEPT ![t] = @ + 1]
    /\ pc' = [pc EXCEPT ![t] = "next"]
    /\ UNCHANGED <<m_firstMatch, tracker, wants, given, lost>>

\* The search is over: the tracker remembers the child of the best match, if
\* any, and the caller gets the match.
Return(t) ==
    /\ pc[t] = "next" /\ pos[t] > Len(Chain)
    /\ LET p == {held[t]} \ {None}
       IN /\ locked' = [locked EXCEPT ![t] = @ \union p]
          /\ objectMap' = [objectMap EXCEPT ![t] =
               @ \union UNION {Mapped(wants[t], q) : q \in p}]
          /\ given' = [given EXCEPT ![t] =
               @ \union ({IF wants[t] = "group" THEN "group" ELSE "entity"} \X p)]
    /\ pc' = [pc EXCEPT ![t] = "session"]
    /\ NoSearch(t)
    /\ UNCHANGED <<m_firstMatch, holds, writer, lost>>

\* A child throws, perhaps while it writes: the exception leaves the search, and
\* the locks it took on the asked child and on the best match so far are not
\* undone.
ChildThrows(t) ==
    /\ pc[t] \in {"ask", "install", "answer"} /\ MayThrow
    /\ lost' = [lost EXCEPT ![t] = [p \in Children |->
          IF p \in {Asked(t), held[t]} THEN @[p] + Lock_If(t, p) ELSE @[p]]]
    /\ pc' = [pc EXCEPT ![t] = "session"]
    /\ NoSearch(t)
    /\ UNCHANGED <<m_firstMatch, holds, writer, tracker, given>>

\* unlock(): every child of the tracker is unlocked and the tracker emptied.
Unlock(t) ==
    /\ pc[t] = "session"
    /\ holds' = [holds EXCEPT ![t] = [p \in Children |-> IF p \in Released(t) THEN @[p] - 1 ELSE @[p]]]
    /\ writer' = StillWriting(holds')
    /\ locked' = [locked EXCEPT ![t] = {}]
    /\ objectMap' = [objectMap EXCEPT ![t] = {}]
    /\ given' = [given EXCEPT ![t] = {}]
    /\ UNCHANGED <<m_firstMatch, pc, search, lost>>

Proceed(t) ==
    \/ ChildGivesUp(t) \/ ChildInstalls(t) \/ ObserverThrows(t) \/ Return(t) \/ ChildThrows(t)
    \/ \E a \in Answer(wants[t]) : EndSearch(t, a) \/ GoOn(t, a)

Next ==
    \E t \in Thread :
        \/ \E w \in Want : Search(t, w)
        \/ Unlock(t)
        \/ LockNext(t) \/ ChildWrites(t) \/ ChildReads(t)
        \/ Proceed(t)

Spec == Init /\ [][Next]_vars

\* Threads are scheduled, callers unlock in the end, and a thread that waits for
\* a lock gets it if it is free again and again.
Fairness ==
    \A t \in Thread :
        /\ WF_vars(Proceed(t)) /\ SF_vars(Unlock(t))
        /\ SF_vars(LockNext(t)) /\ SF_vars(ChildWrites(t)) /\ SF_vars(ChildReads(t))

FairSpec == Spec /\ Fairness
-----------------------------------------------------------------------------
(* Properties *)

\* Every variable has its type.
TypeOK ==
    /\ m_firstMatch \in BOOLEAN
    /\ holds \in [Thread -> [Children -> Nat]]
    /\ writer \in [Children -> Thread \union {None}]
    /\ locked \in [Thread -> SUBSET Children]
    /\ objectMap \in [Thread -> SUBSET Children]
    /\ pc \in [Thread -> {"session", "next", "ask", "upgrade", "install", "again", "answer"}]
    /\ wants \in [Thread -> Want \union {"entity"}]
    /\ pos \in [Thread -> 1..(Len(Chain) + 1)]
    /\ held \in [Thread -> Children \union {None}]
    /\ ret \in [Thread -> Answer("role")]
    /\ answers \in [Thread -> Seq(Answer("role"))]
    /\ given \in [Thread -> SUBSET ({"group", "entity"} \X Children)]
    /\ lost \in [Thread -> [Children -> Nat]]

\* A thread holds one lock on each child of its tracker, on the child it asks,
\* and on the child of its best match, except that a child that fetches has none
\* of the thread's before it writes and before it reads again; there is no other
\* lock but those an exception left behind.
BetweenLocks(t, p) == pc[t] \in {"upgrade", "again"} /\ p = Asked(t)
Due(t, p) ==
    \/ p \in locked[t] /\ ~BetweenLocks(t, p)
    \/ pc[t] # "session" /\ p = held[t]
    \/ pc[t] \in {"ask", "install", "answer"} /\ p = Asked(t)
LockBalance ==
    \A t \in Thread, p \in Children :
        holds[t][p] = (IF Due(t, p) THEN 1 ELSE 0) + lost[t][p]

\* A child that a thread was given something from is one the thread has a lock
\* on, and no other thread writes, in every state until the unlock, but for one
\* window: a later search of the same thread asks that very child, which is
\* dynamic and gives up the lock to fetch (EntityStaysLocked is about that).
GivenStaysLocked ==
    \A t \in Thread : \A g \in given[t] :
        ~BetweenLocks(t, g[2]) => holds[t][g[2]] > 0 /\ writer[g[2]] \in {None, t}

\* MetadataProvider.h:245-247: once an entity is returned the provider is left
\* locked until the caller unlocks it, so no other thread may be writing a child
\* an entity came from. The code does not keep this in the window above.
EntityStaysLocked ==
    \A t \in Thread : \A g \in given[t] : g[1] = "entity" => writer[g[2]] \in {None, t}

\* Credentials can be resolved for every entity a thread was given, by the child
\* it came from, and that child is one the tracker keeps locked.
CredentialsReachable ==
    \A t \in Thread :
        /\ objectMap[t] \subseteq locked[t]
        /\ \A g \in given[t] : g[1] = "entity" => g[2] \in objectMap[t]

\* A search that wants no role has no earlier match when it asks a child under
\* the first-match policy: that match would have ended it.
NoMatchLeftOver ==
    \A t \in Thread : m_firstMatch /\ wants[t] # "role" /\ pc[t] \in {"ask", "answer"} => held[t] = None

\* The result is the one the match policy prescribes: the first (last) child
\* that has all that was asked for; otherwise the last child with an entity.
Best(w, as) ==
    LET full == {i \in DOMAIN as : as[i] = IF w = "role" THEN "role" ELSE "entity"}
        part == {i \in DOMAIN as : as[i] = "entity"}
        last(S) == CHOOSE i \in S : \A j \in S : j <= i
        first(S) == CHOOSE i \in S : \A j \in S : i <= j
    IN IF full # {} THEN Chain[IF m_firstMatch THEN first(full) ELSE last(full)]
       ELSE IF part # {} THEN Chain[last(part)] ELSE None
ReturnsBest ==
    \A t \in Thread : pc[t] = "next" /\ pos[t] > Len(Chain) => held[t] = Best(wants[t], answers[t])

\* Every search ends.
SearchesEnd == \A t \in Thread : pc[t] = "next" ~> pc[t] = "session"
=============================================================================
