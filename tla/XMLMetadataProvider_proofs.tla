--------------------- MODULE XMLMetadataProvider_proofs ---------------------
(* Proofs about the reloading provider, for any threads, versions, contents, *)
(* filters and delays.                                                       *)
EXTENDS XMLMetadataProvider, MetadataTree_proofs, TLAPS

-----------------------------------------------------------------------------
(* The inductive invariant *)

\* No version is known before it is published.
NoneUnpublished ==
    /\ m_object # None => m_object <= published
    /\ m_backing \in Version => m_backing <= published

\* What is being committed or installed is at least as new as what is offered.
Forward ==
    /\ loading \in Version /\ loading <= published
    /\ m_object # None => m_object <= loading

\* What the loading thread has reached at each of its steps.
LoaderKnows ==
    /\ pc \in {"remove", "rename", "tag", "upgrade"} => Forward
    /\ pc # "upgrade" => ~backup
    /\ pc \in {"tag", "upgrade"} /\ (backup \/ ~faulty) => m_backing = loading
    /\ pc = "loadBackup" => m_object = None
    /\ pc \in {"remove", "rename"} => temp \in {loading, Cut}

\* A version that could be loaded at some time: it is well-formed, and no filter
\* rejected it then.
WasLoadable(v) == \E at \in 0 .. MaxTime : <<v, at>> \in LoadableAt
LoadsTheLoadable ==
    pc \in {"remove", "rename", "tag", "upgrade"} => WasLoadable(loading)

\* Object, index, feed and credentials are always of the same version.
FeedsOf(v) ==
    IF FeedConfig.discoveryFeed
    THEN {[tag |-> v, entries |-> FeedOf(FeedConfig, Tree[v], at)] : at \in 0 .. MaxTime}
    ELSE {NoFeed}
OfferedTogether ==
    IF m_object = None
    THEN index = NoIndex /\ feed = NoFeed /\ credentials = {}
    ELSE /\ WasLoadable(m_object)
         /\ index = IndexOf(Tree[m_object], m_object)
         /\ feed \in FeedsOf(m_object)
         /\ lastValidUntil = Soonest(Tree[m_object])
         /\ credentials \subseteq {m_object}

IInv ==
    /\ TypeOK
    /\ LoadsTheLoadable
    /\ OfferedTogether
    /\ NoneUnpublished
    /\ LoaderKnows
    /\ BackupCurrent
    /\ ReloadsInTime

-----------------------------------------------------------------------------
(* The trees that are offered *)

\* A version that could be loaded is offered as the tree that the filters leave
\* of it: its entities are those that every filter admits, under their names,
\* on the paths they had.
LEMMA OfferedTree ==
    ASSUME NEW v, WasLoadable(v)
    PROVE  /\ v \in Version /\ Shape(Tree[v])
           /\ Tree[v].sites = Admitted[v] /\ Tree[v].name = Content(v).name
           /\ Soonest(Tree[v]) \in Int
<1>1. PICK at \in 0 .. MaxTime : <<v, at>> \in LoadableAt
  BY DEF WasLoadable
<1>2. v \in Version /\ Filterable(Filters, Content(v), at)
  BY <1>1 DEF LoadableAt
<1>3. WellFormed(Content(v))
  BY <1>2, ContentAssumption
<1>4. Len(Filters) \in Nat /\ DOMAIN Filters = 1 .. Len(Filters)
  BY FilterAssumption
<1>5. /\ FilteredBy(Filters, Content(v), Len(Filters), doFilters(Filters, Content(v))[Len(Filters)])
      /\ doFilters(Filters, Content(v))[Len(Filters)].sites = AdmittedBy(Filters, Content(v))
  <2>1. Len(Filters) \in 0 .. Len(Filters)
    BY <1>4
  <2>. QED
    BY <1>2, <1>3, <1>4, <2>1, FiltersLeaveTheAdmitted
<1>6. Tree[v] = doFilters(Filters, Content(v))[Len(Filters)] /\ Admitted[v] = AdmittedBy(Filters, Content(v))
  BY <1>2 DEF Tree, Admitted
<1>7. Shape(Tree[v]) /\ Tree[v].name = Content(v).name
  BY <1>5, <1>6 DEF FilteredBy
<1>8. Soonest(Tree[v]) \in Int
  BY <1>7, SoonestIsFirstEnd, LimitAssumption
<1>. QED
  BY <1>2, <1>5, <1>6, <1>7, <1>8

\* What is loadable now was loadable.
LEMMA LoadableVersion ==
    ASSUME NEW v, Loadable(v)
    PROVE  v \in Version /\ WasLoadable(v)
BY DEF Loadable, LoadableAt, WasLoadable

-----------------------------------------------------------------------------
(* The refresh interval *)

\* A proper fraction of a duration is no longer than the duration.
LEMMA Fraction ==
    ASSUME NEW a \in Nat
    PROVE  /\ (a * FactorNum) \div FactorDen \in Nat
           /\ (a * FactorNum) \div FactorDen <= a
<1>. DEFINE q == (a * FactorNum) \div FactorDen
<1>0. FactorNum \in Nat /\ FactorDen \in Nat \ {0} /\ FactorNum < FactorDen
  BY DelayAssumption
<1>1. q \in Nat /\ FactorDen * q <= a * FactorNum
  BY <1>0
<1>2. a * FactorNum <= a * FactorDen
  BY <1>0
<1>3. FactorDen * q <= FactorDen * a
  BY <1>0, <1>1, <1>2
<1>4. q <= a
  BY <1>0, <1>1, <1>3
<1>. QED
  BY <1>1, <1>4

\* The interval after a load keeps to its bounds, and is over before the
\* metadata expire unless that is sooner than the minimum.
LEMMA RefreshBounds ==
    ASSUME NEW v \in Version \union {None}, NEW until \in Int, now \in Nat
    PROVE  /\ computeNextRefresh(v, until) \in m_minRefreshDelay .. m_maxRefreshDelay
           /\ \/ now + computeNextRefresh(v, until) <= until
              \/ computeNextRefresh(v, until) = m_minRefreshDelay
<1>1. m_minRefreshDelay \in Nat /\ m_maxRefreshDelay \in Nat /\ m_minRefreshDelay <= m_maxRefreshDelay
  BY DelayAssumption
<1>2. CASE until < now
  BY <1>1, <1>2 DEF computeNextRefresh
<1>3. CASE ~(until < now)
  <2>. DEFINE left == IF v # None THEN Sooner(until - now, CacheDuration(v)) ELSE until - now
              delay == (left * FactorNum) \div FactorDen
  <2>1. left \in Nat /\ left <= until - now
    BY <1>3, TimeAssumption DEF Sooner
  <2>2. delay \in Nat /\ delay <= until - now
    <3>1. delay \in Nat /\ delay <= left
      BY <2>1, Fraction
    <3>. QED
      BY <2>1, <3>1
  <2>3. computeNextRefresh(v, until) = Bounded(delay)
    BY <1>3 DEF computeNextRefresh
  <2>. HIDE DEF delay
  <2>. QED
    BY <1>1, <2>2, <2>3 DEF Bounded
<1>. QED
  BY <1>2, <1>3

\* The interval after a failure keeps to its bounds.
LEMMA BackoffBounds ==
    ASSUME backoffFactor \in 1 .. MaxBackoff
    PROVE  Backoff \in m_minRefreshDelay .. m_maxRefreshDelay
<1>1. m_minRefreshDelay \in Nat /\ m_maxRefreshDelay \in Nat /\ m_minRefreshDelay <= m_maxRefreshDelay
      /\ backoffFactor \in Nat /\ backoffFactor >= 1
  BY DelayAssumption
<1>2. m_minRefreshDelay * backoffFactor \in Nat /\ m_minRefreshDelay <= m_minRefreshDelay * backoffFactor
  BY <1>1
<1>. QED
  BY <1>1, <1>2 DEF Backoff, Sooner

-----------------------------------------------------------------------------
(* Types *)

\* A thread that waits again does so for a bounded time.
LEMMA RestType ==
    ASSUME TypeOK, NEW interval \in m_minRefreshDelay .. m_maxRefreshDelay, Rest(interval)
    PROVE  /\ reloadInterval' \in m_minRefreshDelay .. m_maxRefreshDelay /\ due' \in Nat
           /\ pc' = "idle" /\ loading' = 0 /\ backup' = FALSE /\ temp' = None /\ started'
<1>1. now \in Nat /\ interval \in Nat
  BY DelayAssumption DEF TypeOK
<1>. QED
  BY <1>1 DEF Rest

\* A failure, or nothing new, leaves everything but the delays and the step.
LEMMA RestOrLoadBackupType ==
    ASSUME TypeOK, NEW interval \in m_minRefreshDelay .. m_maxRefreshDelay,
           NEW outcome \in Nat \union {None}, RestOrLoadBackup(interval, outcome)
    PROVE  /\ reloadInterval' \in m_minRefreshDelay .. m_maxRefreshDelay /\ due' \in Nat
           /\ lastGood' = outcome
           /\ pc' \in {"idle", "loadBackup"} /\ loading' \in {0, loading}
           /\ backup' \in {FALSE, backup} /\ temp' \in {None, temp}
           /\ started' \in {TRUE, started}
<1>1. CASE NeedsBackup
  BY <1>1 DEF RestOrLoadBackup, TypeOK
<1>2. CASE ~NeedsBackup
  BY <1>2, RestType DEF RestOrLoadBackup
<1>. QED
  BY <1>1, <1>2

LEMMA BackOffType ==
    ASSUME TypeOK, BackOff
    PROVE  backoffFactor' \in 1 .. MaxBackoff
BY DelayAssumption DEF BackOff, TypeOK, Sooner

\* The new tree is that of the version being loaded.
LEMMA SwapType ==
    ASSUME TypeOK, WasLoadable(loading), Swap
    PROVE  /\ m_object' = loading /\ lastValidUntil' \in Int
           /\ \A site \in index'.sites : site[2] \in Version
           /\ credentials' \subseteq Version
<1>1. loading \in Version /\ Soonest(Tree[loading]) \in Int
  BY OfferedTree
<1>2. index'.sites = {<<Tree[loading].name[s], loading, s>> : s \in Tree[loading].sites}
  BY DEF Swap, IndexOf
<1>3. \A site \in index'.sites : site[2] \in Version
  BY <1>1, <1>2
<1>. QED
  BY <1>1, <1>3 DEF Swap, TypeOK

LEMMA TypeStep ==
    ASSUME IInv, [Next]_vars
    PROVE  TypeOK'
<1>0. /\ TypeOK /\ Version \subseteq Nat \ {0} /\ MaxTime \in Nat
      /\ now \in Nat /\ now \in 0 .. MaxTime
      /\ m_minRefreshDelay \in Nat /\ m_maxRefreshDelay \in Nat
      /\ m_minRefreshDelay <= m_maxRefreshDelay /\ MaxBackoff \in Nat \ {0}
  BY VersionAssumption, DelayAssumption DEF IInv, TypeOK
<1>1. CASE \E v \in Version : Publish(v)
  BY <1>0, <1>1 DEF Publish, TypeOK, clock, disk, loader, delays, offered, readers
<1>2. CASE SourceChanges
  BY <1>0, <1>2 DEF SourceChanges, TypeOK, clock, disk, loader, delays, offered, readers
<1>3. CASE Settle
  BY <1>0, <1>3 DEF Settle, TypeOK, remote, disk, loader, delays, offered, readers
<1>4. CASE Tick
  BY <1>0, <1>4 DEF Tick, TypeOK, remote, disk, loader, delays, offered, readers
<1>5. CASE Crash
  <2>1. lastValidUntil' \in Int
    BY <1>5, LimitAssumption DEF Crash
  <2>2. \A site \in index'.sites : site[2] \in Version
    BY <1>5 DEF Crash, NoIndex
  <2>3. reloadInterval' \in m_minRefreshDelay .. m_maxRefreshDelay /\ backoffFactor' \in 1 .. MaxBackoff
    BY <1>0, <1>5 DEF Crash
  <2>. QED
    BY <1>0, <1>5, <2>1, <2>2, <2>3 DEF Crash, TypeOK, clock, remote, disk, Steps
<1>6. CASE Wake
  BY <1>0, <1>6 DEF Wake, TypeOK, clock, remote, disk, delays, offered, readers, Steps
<1>7. CASE LoadNew
  <2>1. /\ source \in Version /\ UNCHANGED <<clock, remote, m_backing, backupTag, offered, readers>>
        /\ loading' = source /\ cacheTag' = source /\ reloadInterval' = m_minRefreshDelay
        /\ UNCHANGED <<backup, started, backoffFactor, due, lastGood>>
    BY <1>7, LoadableVersion DEF LoadNew
  <2>2. pc' \in {"remove", "upgrade"} /\ temp' \in {source, Cut, None} /\ faulty' \in {faulty, TRUE}
    BY <1>7 DEF LoadNew, NextToCommit
  <2>3. /\ m_backing' \in Version \union {Cut, None} /\ backupTag' \in Version \union {0}
        /\ faulty' \in BOOLEAN /\ backup' \in BOOLEAN /\ started' \in BOOLEAN
        /\ pc' \in Steps /\ loading' \in Version \union {0}
        /\ temp' \in Version \union {Cut, None} /\ cacheTag' \in Version \union {0}
    BY <1>0, <2>1, <2>2 DEF TypeOK, Steps
  <2>4. /\ reloadInterval' \in m_minRefreshDelay .. m_maxRefreshDelay
        /\ backoffFactor' \in 1 .. MaxBackoff /\ due' \in Nat /\ lastGood' \in Nat \union {None}
    BY <1>0, <2>1 DEF TypeOK
  <2>. QED
    BY <1>0, <2>1, <2>3, <2>4 DEF TypeOK, clock, remote, offered, readers
<1>8. CASE LoadFails
  <2>1. Backoff \in m_minRefreshDelay .. m_maxRefreshDelay
    BY <1>0, BackoffBounds DEF TypeOK
  <2>. QED
    BY <1>0, <1>8, <2>1, BackOffType, RestOrLoadBackupType
       DEF LoadFails, TypeOK, clock, remote, disk, offered, readers, Steps
<1>9. CASE NotModified
  <2>1. computeNextRefresh(m_object, lastValidUntil) \in m_minRefreshDelay .. m_maxRefreshDelay
    BY <1>0, RefreshBounds DEF TypeOK
  <2>. QED
    BY <1>0, <1>9, <2>1, RestOrLoadBackupType
       DEF NotModified, TypeOK, clock, remote, disk, offered, readers, Steps
<1>10. CASE LoadBackup
  BY <1>0, <1>10, LoadableVersion
     DEF LoadBackup, TypeOK, clock, remote, disk, delays, offered, readers, Steps
<1>11. CASE LoadBackupFails
  BY <1>0, <1>11, RestType
     DEF LoadBackupFails, TypeOK, clock, remote, disk, offered, readers, Steps
<1>12. CASE RemoveOld \/ RenameNew \/ preserveCacheTag
  BY <1>0, <1>12 DEF RemoveOld, RenameNew, preserveCacheTag, NextToCommit, TypeOK, clock,
     remote, delays, offered, readers, Steps
<1>13. CASE Install \/ ObserverThrows
  <2>1. /\ Swap /\ WasLoadable(loading) /\ loading \in Version
        /\ UNCHANGED <<clock, remote, disk, cacheTag, reading>>
    BY <1>13 DEF Install, ObserverThrows, Swap, IInv, LoaderKnows, Forward, LoadsTheLoadable
  <2>2. /\ m_object' = loading /\ lastValidUntil' \in Int
        /\ \A site \in index'.sites : site[2] \in Version
        /\ credentials' \subseteq Version
    BY <1>0, <2>1, SwapType
  <2>3. Backoff \in m_minRefreshDelay .. m_maxRefreshDelay
    BY <1>0, BackoffBounds DEF TypeOK
  <2>4. computeNextRefresh(loading, lastValidUntil') \in m_minRefreshDelay .. m_maxRefreshDelay
    BY <1>0, <2>1, <2>2, RefreshBounds
  <2>5. CASE Install /\ backup
    BY <1>0, <2>1, <2>2, <2>5, RestType DEF Install, TypeOK, clock, remote, disk, Steps
  <2>6. CASE Install /\ ~backup
    <3>1. Rest(computeNextRefresh(loading, lastValidUntil')) /\ backoffFactor' = 1 /\ lastGood' = now
      BY <2>6 DEF Install
    <3>2. /\ reloadInterval' \in m_minRefreshDelay .. m_maxRefreshDelay /\ due' \in Nat
          /\ pc' = "idle" /\ loading' = 0 /\ backup' = FALSE /\ temp' = None /\ started'
      BY <1>0, <2>4, <3>1, RestType
    <3>3. backoffFactor' \in 1 .. MaxBackoff /\ lastGood' \in Nat \union {None} /\ started' = TRUE
      BY <1>0, <3>1 DEF Rest
    <3>. QED
      BY <1>0, <2>1, <2>2, <3>2, <3>3 DEF TypeOK, clock, remote, disk, Steps
  <2>7. CASE ObserverThrows
    BY <1>0, <2>1, <2>2, <2>3, <2>7, RestType, BackOffType
       DEF ObserverThrows, TypeOK, clock, remote, disk, Steps
  <2>. QED
    BY <1>13, <2>5, <2>6, <2>7
<1>14. CASE \E r \in Reader : Lock(r) \/ Unlock(r) \/ resolve(r)
  BY <1>0, <1>14 DEF Lock, Unlock, resolve, TypeOK, clock, remote, disk, loader, delays, offered
<1>15. CASE UNCHANGED vars
  BY <1>0, <1>15 DEF TypeOK, vars, clock, remote, disk, loader, delays, offered, readers
<1>. QED
  BY <1>1, <1>2, <1>3, <1>4, <1>5, <1>6, <1>7, <1>8, <1>9, <1>10, <1>11, <1>12, <1>13, <1>14, <1>15
     DEF Next, Loader

-----------------------------------------------------------------------------
(* What is offered is of one version *)

\* The swap replaces everything that is offered at once.
LEMMA SwapTogether ==
    ASSUME IInv, Swap
    PROVE  OfferedTogether'
<1>1. /\ WasLoadable(loading) /\ loading \in Version /\ loading # None /\ now \in 0 .. MaxTime
  BY VersionAssumption DEF IInv, LoadsTheLoadable, LoaderKnows, Forward, Swap, TypeOK
<1>2. /\ m_object' = loading /\ index' = IndexOf(Tree[loading], loading)
      /\ lastValidUntil' = Soonest(Tree[loading])
  BY DEF Swap
<1>3. feed' \in FeedsOf(loading)
  <2>1. CASE FeedConfig.discoveryFeed
    BY <1>1, <2>1 DEF Swap, FeedsOf
  <2>2. CASE ~FeedConfig.discoveryFeed
    <3>1. feed' = feed /\ feed = NoFeed
      BY <2>2 DEF Swap, IInv, OfferedTogether, FeedsOf
    <3>. QED
      BY <2>2, <3>1 DEF FeedsOf
  <2>. QED
    BY <2>1, <2>2
<1>4. credentials' = {}
  BY DEF Swap, IInv, OfferedTogether
<1>. QED
  BY <1>1, <1>2, <1>3, <1>4 DEF OfferedTogether, WasLoadable

LEMMA TogetherStep ==
    ASSUME IInv, [Next]_vars
    PROVE  LoadsTheLoadable' /\ OfferedTogether'
<1>0. LoadsTheLoadable /\ OfferedTogether /\ None \notin Version /\ pc \in Steps
  BY VersionAssumption DEF IInv, TypeOK
<1>1. ASSUME UNCHANGED <<offered, credentials>>
      PROVE  OfferedTogether'
  BY <1>0, <1>1 DEF OfferedTogether, offered, WasLoadable
<1>2. ASSUME pc' \in {"load", "idle", "loadBackup"} \/ (UNCHANGED loading /\ pc' \in {pc, "idle", "load"})
      PROVE  LoadsTheLoadable'
  BY <1>0, <1>2 DEF LoadsTheLoadable, WasLoadable
<1>3. CASE \/ \E v \in Version : Publish(v)
           \/ SourceChanges \/ Settle \/ Tick \/ Wake
           \/ \E r \in Reader : Lock(r) \/ Unlock(r)
           \/ UNCHANGED vars
  <2>1. UNCHANGED <<offered, credentials, loading>> /\ pc' \in {pc, "load"}
    BY <1>3 DEF Publish, SourceChanges, Settle, Tick, Wake, Lock, Unlock, vars, loader, readers
  <2>. QED
    BY <1>1, <1>2, <2>1
<1>4. CASE Crash
  <2>1. m_object' = None /\ index' = NoIndex /\ feed' = NoFeed /\ credentials' = {} /\ pc' = "load"
    BY <1>4 DEF Crash
  <2>. QED
    BY <1>2, <2>1 DEF OfferedTogether
<1>5. CASE LoadNew
  <2>1. WasLoadable(source) /\ loading' = source /\ UNCHANGED <<offered, credentials>>
    BY <1>5, LoadableVersion DEF LoadNew, readers
  <2>2. LoadsTheLoadable'
    BY <2>1 DEF LoadsTheLoadable, WasLoadable
  <2>. QED
    BY <1>1, <2>1, <2>2
<1>6. CASE LoadFails \/ NotModified \/ LoadBackupFails
  <2>1. UNCHANGED <<offered, credentials>> /\ pc' \in {"idle", "loadBackup"}
    BY <1>6 DEF LoadFails, NotModified, LoadBackupFails, RestOrLoadBackup, Rest, readers
  <2>. QED
    BY <1>1, <1>2, <2>1
<1>7. CASE LoadBackup
  <2>1. WasLoadable(m_backing) /\ loading' = m_backing /\ UNCHANGED <<offered, credentials>>
    BY <1>7, LoadableVersion DEF LoadBackup, readers
  <2>2. LoadsTheLoadable'
    BY <2>1 DEF LoadsTheLoadable, WasLoadable
  <2>. QED
    BY <1>1, <2>1, <2>2
<1>8. CASE RemoveOld \/ RenameNew \/ preserveCacheTag
  <2>1. UNCHANGED <<offered, credentials, loading>> /\ pc \in {"remove", "rename", "tag"}
    BY <1>8 DEF RemoveOld, RenameNew, preserveCacheTag, readers
  <2>2. LoadsTheLoadable'
    BY <1>0, <2>1 DEF LoadsTheLoadable, WasLoadable
  <2>. QED
    BY <1>1, <2>1, <2>2
<1>9. CASE Install \/ ObserverThrows
  <2>1. Swap /\ pc' = "idle"
    BY <1>9 DEF Install, ObserverThrows, Rest
  <2>. QED
    BY <1>2, <2>1, SwapTogether
<1>10. CASE \E r \in Reader : resolve(r)
  <2>1. /\ UNCHANGED <<offered, loading, pc>>
        /\ \E site \in index.sites : credentials' = credentials \union {site[2]}
    BY <1>10 DEF resolve, loader
  <2>2. OfferedTogether'
    <3>1. CASE m_object = None
      BY <1>0, <2>1, <3>1 DEF OfferedTogether, NoIndex
    <3>2. CASE m_object # None
      <4>1. index = IndexOf(Tree[m_object], m_object)
        BY <1>0, <3>2 DEF OfferedTogether
      <4>2. index.sites = {<<Tree[m_object].name[s], m_object, s>> : s \in Tree[m_object].sites}
        BY <4>1 DEF IndexOf
      <4>3. \A site \in index.sites : site[2] = m_object
        BY <4>2
      <4>4. credentials' \subseteq {m_object}
        BY <1>0, <2>1, <3>2, <4>3 DEF OfferedTogether
      <4>. QED
        BY <1>0, <2>1, <3>2, <4>4 DEF OfferedTogether, offered, WasLoadable
    <3>. QED
      BY <3>1, <3>2
  <2>. QED
    BY <1>2, <2>1, <2>2
<1>. QED
  BY <1>3, <1>4, <1>5, <1>6, <1>7, <1>8, <1>9, <1>10 DEF Next, Loader

-----------------------------------------------------------------------------
(* The backup and the interval *)

\* A step of the loading thread before the swap changes nothing that is offered.
LEMMA Kept ==
    ASSUME IInv,
           \/ \E v \in Version : Publish(v)
           \/ SourceChanges \/ Settle \/ Tick \/ Wake
           \/ \E r \in Reader : Lock(r) \/ Unlock(r) \/ resolve(r)
           \/ UNCHANGED vars
    PROVE  /\ m_object' = m_object /\ m_backing' = m_backing /\ faulty' = faulty
           /\ loading' = loading /\ backup' = backup /\ lastValidUntil' = lastValidUntil
           /\ due' = due /\ lastGood' = lastGood /\ published <= published' /\ temp' = temp
           /\ pc' = pc \/ (pc = "idle" /\ pc' = "load")
<1>1. published \in Nat /\ \A v \in Version : v \in Nat
  BY VersionAssumption DEF IInv, TypeOK
<1>. QED
  BY <1>1 DEF Publish, SourceChanges, Settle, Tick, Wake, Lock, Unlock, resolve, vars,
     clock, remote, disk, loader, delays, offered, readers

\* The rest of the invariant, through steps that leave the backup, what is
\* offered and what is loaded alone.
LEMMA KeptInvariant ==
    ASSUME IInv, TypeOK', LoadsTheLoadable', OfferedTogether', m_object' = m_object, m_backing' = m_backing, faulty' = faulty,
           loading' = loading, backup' = backup, lastValidUntil' = lastValidUntil,
           due' = due, lastGood' = lastGood, published <= published', temp' = temp,
           pc' = pc \/ (pc = "idle" /\ pc' = "load")
    PROVE  IInv'
<1>1. /\ published \in Nat /\ published' \in Nat /\ \A v \in Version : v \in Nat
      /\ m_object # None => m_object \in Version
  BY VersionAssumption DEF IInv, TypeOK
<1>2. NoneUnpublished'
  BY <1>1 DEF IInv, NoneUnpublished
<1>3. LoaderKnows'
  BY <1>1 DEF IInv, LoaderKnows, Forward
<1>4. BackupCurrent'
  BY DEF IInv, BackupCurrent
<1>5. ReloadsInTime'
  BY DEF IInv, ReloadsInTime, InTime
<1>. QED
  BY <1>2, <1>3, <1>4, <1>5 DEF IInv

\* A load that fails or finds nothing new leaves the invariant alone; of a
\* failed one ReloadsInTime says nothing.
LEMMA RestInvariant ==
    ASSUME IInv, TypeOK', LoadsTheLoadable', OfferedTogether', UNCHANGED <<remote, disk, offered>>,
           pc \in {"load", "loadBackup"}, pc' \in {"idle", "loadBackup"},
           pc' = "loadBackup" => m_object = None, backup' \in {FALSE, backup},
           pc' = "idle" /\ lastGood' # None /\ m_object # None
             => due' <= lastValidUntil \/ due' <= lastGood' + m_minRefreshDelay
    PROVE  IInv'
<1>1. NoneUnpublished'
  BY DEF IInv, NoneUnpublished, remote, disk, offered
<1>2. LoaderKnows'
  <2>1. ~backup' /\ m_object' = m_object
    BY DEF IInv, LoaderKnows, offered, TypeOK
  <2>. QED
    BY <2>1 DEF LoaderKnows
<1>3. BackupCurrent'
  BY DEF IInv, BackupCurrent, disk, offered
<1>4. ReloadsInTime'
  BY DEF ReloadsInTime, InTime, offered
<1>. QED
  BY <1>1, <1>2, <1>3, <1>4 DEF IInv

\* The swap offers what was committed, or the backup.
LEMMA InstallInvariant ==
    ASSUME IInv, TypeOK', LoadsTheLoadable', OfferedTogether', Install \/ ObserverThrows
    PROVE  IInv'
<1>1. /\ Swap /\ m_object' = loading /\ Forward /\ pc = "upgrade" /\ pc' = "idle"
      /\ UNCHANGED <<clock, remote, disk>> /\ TypeOK
      /\ backup \/ ~faulty => m_backing = loading
  BY DEF Install, ObserverThrows, Swap, Rest, IInv, LoaderKnows
<1>2. now \in Nat /\ \A v \in Version : v \in Nat
  BY <1>1, DelayAssumption, VersionAssumption DEF TypeOK
<1>3. NoneUnpublished'
  BY <1>1, <1>2 DEF IInv, NoneUnpublished, Forward, remote, disk
<1>4. LoaderKnows'
  <2>1. backup' = FALSE
    BY DEF Install, ObserverThrows, Rest
  <2>. QED
    BY <1>1, <2>1 DEF LoaderKnows
<1>5. BackupCurrent'
  BY <1>1, <1>2 DEF BackupCurrent, Forward, disk
<1>6. ReloadsInTime'
  <2>1. CASE lastGood' = None
    BY <2>1 DEF ReloadsInTime
  <2>2. CASE lastGood' # None
    <3>1. lastGood' = now /\ Rest(computeNextRefresh(loading, lastValidUntil'))
      BY <2>2 DEF Install, ObserverThrows
    <3>2. due' = now + computeNextRefresh(loading, lastValidUntil')
      BY <3>1 DEF Rest
    <3>3. \/ due' <= lastValidUntil'
          \/ due' = now + m_minRefreshDelay
      BY <1>1, <1>2, <3>2, RefreshBounds DEF TypeOK, Forward
    <3>. QED
      BY <1>2, <3>1, <3>3, DelayAssumption DEF ReloadsInTime, InTime
  <2>. QED
    BY <2>1, <2>2
<1>. QED
  BY <1>3, <1>4, <1>5, <1>6 DEF IInv

LEMMA InvariantStep ==
    ASSUME IInv, [Next]_vars
    PROVE  IInv'
<1>0. /\ TypeOK' /\ LoadsTheLoadable' /\ OfferedTogether'
      /\ TypeOK /\ None \notin Version /\ Cut \notin Version /\ now \in Nat
      /\ published \in Nat /\ \A v \in Version : v \in Nat
  <2>1. TypeOK'
    BY TypeStep
  <2>2. now \in Nat /\ published \in Version /\ TypeOK
    BY DelayAssumption DEF IInv, TypeOK
  <2>. QED
    BY <2>1, <2>2, VersionAssumption, TogetherStep
<1>1. CASE \/ \E v \in Version : Publish(v)
           \/ SourceChanges \/ Settle \/ Tick \/ Wake
           \/ \E r \in Reader : Lock(r) \/ Unlock(r) \/ resolve(r)
           \/ UNCHANGED vars
  BY <1>0, <1>1, Kept, KeptInvariant
<1>2. CASE Crash
  BY <1>0, <1>2 DEF Crash, IInv, NoneUnpublished, LoaderKnows, BackupCurrent, ReloadsInTime, remote, disk
<1>3. CASE LoadNew
  <2>1. /\ loading' = source /\ pc = "load" /\ backup' = backup /\ m_backing' = m_backing
        /\ UNCHANGED <<remote, offered>> /\ source \in Version /\ source = published
        /\ \/ pc' = "remove" /\ faulty' = faulty /\ temp' \in {source, Cut}
           \/ pc' = "upgrade" /\ faulty'
    BY <1>0, <1>3, LoadableVersion DEF LoadNew, NextToCommit, TypeOK
  <2>2. NoneUnpublished'
    BY <2>1 DEF IInv, NoneUnpublished, remote, offered
  <2>3. LoaderKnows'
    <3>1. Forward' /\ backup' = FALSE
      BY <1>0, <1>3, <2>1 DEF IInv, NoneUnpublished, Forward, remote, offered, LoadNew, TypeOK, LoaderKnows
    <3>. QED
      BY <2>1, <3>1 DEF LoaderKnows
  <2>4. BackupCurrent'
    BY <2>1 DEF IInv, BackupCurrent, offered
  <2>. QED
    BY <1>0, <2>1, <2>2, <2>3, <2>4 DEF IInv, ReloadsInTime
<1>4. CASE LoadFails
  <2>1. /\ pc = "load" /\ UNCHANGED <<remote, disk, offered>> /\ lastGood' = None
        /\ pc' \in {"idle", "loadBackup"} /\ (pc' = "loadBackup" => m_object = None)
        /\ backup' \in {FALSE, backup}
    BY <1>4 DEF LoadFails, RestOrLoadBackup, Rest, NeedsBackup
  <2>. QED
    BY <1>0, <2>1, RestInvariant
<1>5. CASE NotModified
  <2>1. /\ pc = "load" /\ UNCHANGED <<remote, disk, offered>>
        /\ pc' \in {"idle", "loadBackup"} /\ (pc' = "loadBackup" => m_object = None)
        /\ lastGood' = now /\ backup' \in {FALSE, backup}
        /\ pc' = "idle" => due' = now + computeNextRefresh(m_object, lastValidUntil)
    BY <1>5 DEF NotModified, RestOrLoadBackup, Rest, NeedsBackup
  <2>2. \/ now + computeNextRefresh(m_object, lastValidUntil) <= lastValidUntil
        \/ computeNextRefresh(m_object, lastValidUntil) = m_minRefreshDelay
    BY <1>0, RefreshBounds DEF TypeOK
  <2>3. pc' = "idle" => due' <= lastValidUntil \/ due' <= lastGood' + m_minRefreshDelay
    BY <1>0, <2>1, <2>2, DelayAssumption
  <2>. QED
    BY <1>0, <2>1, <2>3, RestInvariant
<1>6. CASE LoadBackup
  <2>1. /\ loading' = m_backing /\ m_backing \in Version /\ pc' = "upgrade" /\ pc = "loadBackup"
        /\ UNCHANGED <<remote, disk, offered>>
    BY <1>6, LoadableVersion DEF LoadBackup
  <2>2. NoneUnpublished'
    BY <2>1 DEF IInv, NoneUnpublished, remote, disk, offered
  <2>3. LoaderKnows'
    BY <2>1 DEF IInv, NoneUnpublished, LoaderKnows, Forward, remote, disk, offered
  <2>4. BackupCurrent'
    BY <2>1 DEF IInv, BackupCurrent, disk, offered
  <2>. QED
    BY <1>0, <2>1, <2>2, <2>3, <2>4 DEF IInv, ReloadsInTime
<1>7. CASE LoadBackupFails
  <2>1. /\ pc = "loadBackup" /\ UNCHANGED <<remote, disk, offered>> /\ pc' = "idle" /\ m_object = None
        /\ backup' \in {FALSE, backup}
    BY <1>7 DEF LoadBackupFails, Rest, IInv, LoaderKnows
  <2>. QED
    BY <1>0, <2>1, RestInvariant
<1>8. CASE RemoveOld
  <2>1. /\ pc = "remove" /\ pc' = "rename" /\ m_backing' = None /\ UNCHANGED <<remote, offered, loading, backup, temp>>
    BY <1>8 DEF RemoveOld, NextToCommit
  <2>. QED
    BY <1>0, <2>1 DEF IInv, NoneUnpublished, LoaderKnows, Forward, BackupCurrent, ReloadsInTime, remote, offered
<1>9. CASE RenameNew
  <2>1. /\ pc = "rename" /\ pc' = "tag" /\ faulty' = (m_backing' # loading)
        /\ UNCHANGED <<remote, offered, loading, backup>> /\ ~backup
        /\ loading \in Version /\ loading <= published
        /\ m_object # None => m_object <= loading
    BY <1>9 DEF RenameNew, NextToCommit, IInv, LoaderKnows, Forward
  <2>2. m_backing' \in Version => m_backing' <= published
    <3>1. m_backing' \in {loading, Cut, None}
      BY <1>9 DEF RenameNew, IInv, LoaderKnows
    <3>. QED
      BY <1>0, <2>1, <3>1
  <2>3. NoneUnpublished'
    BY <2>1, <2>2 DEF IInv, NoneUnpublished, remote, offered
  <2>4. LoaderKnows'
    BY <2>1 DEF LoaderKnows, Forward, remote, offered
  <2>5. BackupCurrent'
    BY <1>0, <2>1 DEF BackupCurrent, offered
  <2>. QED
    BY <1>0, <2>1, <2>3, <2>4, <2>5 DEF IInv, ReloadsInTime
<1>10. CASE preserveCacheTag
  <2>1. /\ pc = "tag" /\ pc' = "upgrade" /\ m_backing' = m_backing /\ faulty' = faulty
        /\ UNCHANGED <<remote, offered, loading, backup>>
    BY <1>10 DEF preserveCacheTag, NextToCommit
  <2>. QED
    BY <1>0, <2>1 DEF IInv, NoneUnpublished, LoaderKnows, Forward, BackupCurrent, ReloadsInTime, remote, offered
<1>11. CASE Install \/ ObserverThrows
  BY <1>0, <1>11, InstallInvariant
<1>. QED
  BY <1>1, <1>2, <1>3, <1>4, <1>5, <1>6, <1>7, <1>8, <1>9, <1>10, <1>11 DEF Next, Loader

LEMMA InvariantInit == Init => IInv
<1>. SUFFICES ASSUME Init
     PROVE  IInv
  OBVIOUS
<1>1. TypeOK
  <2>1. lastValidUntil \in Int /\ now \in 0 .. MaxTime /\ backoffFactor \in 1 .. MaxBackoff
    BY DelayAssumption, LimitAssumption DEF Init
  <2>2. reloadInterval \in m_minRefreshDelay .. m_maxRefreshDelay
    BY DelayAssumption DEF Init
  <2>3. \A site \in index.sites : site[2] \in Version
    BY DEF Init, NoIndex
  <2>. QED
    BY <2>1, <2>2, <2>3 DEF Init, TypeOK, Steps
<1>2. LoadsTheLoadable /\ OfferedTogether
  BY DEF Init, LoadsTheLoadable, OfferedTogether
<1>. QED
  BY <1>1, <1>2, VersionAssumption DEF Init, IInv, NoneUnpublished, LoaderKnows, BackupCurrent, ReloadsInTime

-----------------------------------------------------------------------------
(* The theorems *)

\* Whatever the source publishes and however the disk and the process fail,
\* the loading thread never commits or installs a version that is older than
\* what is offered, and holds no backup of a version not published.
THEOREM InvariantCorrect == Spec => []IInv
<1>1. IInv /\ [Next]_vars => IInv'
  BY InvariantStep
<1>. QED
  BY InvariantInit, <1>1, PTL DEF Spec

\* The interval stays between the configured delays, in every load, backoff
\* and restart, and every other variable has its type.
THEOREM TypeCorrect == Spec => []TypeOK
<1>1. IInv => TypeOK
  BY DEF IInv
<1>. QED
  BY InvariantCorrect, <1>1, PTL

\* What is offered has a backup that is at least as new, unless the disk
\* failed: a process that crashes never comes back with older metadata.
THEOREM BackupKept == Spec => []BackupCurrent
<1>1. IInv => BackupCurrent
  BY DEF IInv
<1>. QED
  BY InvariantCorrect, <1>1, PTL

\* After a load that worked the next one is due before anything expires, or
\* after the minimum delay.
THEOREM ReloadedInTime == Spec => []ReloadsInTime
<1>1. IInv => ReloadsInTime
  BY DEF IInv
<1>. QED
  BY InvariantCorrect, <1>1, PTL

\* Readers find the entities of one version, those and only those that every
\* filter by itself admits; the feed and the credentials are of that version.
THEOREM AdmittedOffered == Spec => []OffersTheAdmitted
<1>1. IInv => OffersTheAdmitted
  <2>. SUFFICES ASSUME IInv, m_object # None
       PROVE  /\ index.sites = {<<Content(m_object).name[s], m_object, s>> : s \in Admitted[m_object]}
              /\ FeedConfig.discoveryFeed => feed.tag = m_object
              /\ \A s \in DOMAIN feed.entries : <<feed.entries[s].entityID, feed.tag, s>> \in index.sites
              /\ credentials \subseteq {m_object}
    BY DEF OffersTheAdmitted
  <2>. DEFINE t == Tree[m_object]
  <2>1. /\ WasLoadable(m_object) /\ index = IndexOf(t, m_object)
        /\ feed \in FeedsOf(m_object) /\ credentials \subseteq {m_object}
    BY DEF IInv, OfferedTogether
  <2>2. index.sites = {<<t.name[s], m_object, s>> : s \in t.sites}
    BY <2>1 DEF IndexOf
  <2>3. t.sites = Admitted[m_object] /\ t.name = Content(m_object).name
    BY <2>1, OfferedTree
  <2>4. CASE FeedConfig.discoveryFeed
    <3>1. PICK at \in 0 .. MaxTime : feed = [tag |-> m_object, entries |-> FeedOf(FeedConfig, t, at)]
      BY <2>1, <2>4 DEF FeedsOf
    <3>2. \A s \in DOMAIN feed.entries : s \in t.sites /\ feed.entries[s].entityID = t.name[s]
      BY <3>1 DEF FeedOf
    <3>. QED
      BY <2>1, <2>2, <2>3, <3>1, <3>2
  <2>5. CASE ~FeedConfig.discoveryFeed
    <3>1. feed.entries = <<>>
      BY <2>1, <2>5 DEF FeedsOf, NoFeed
    <3>. QED
      BY <2>1, <2>2, <2>3, <2>5, <3>1
  <2>. QED
    BY <2>4, <2>5
<1>. QED
  BY InvariantCorrect, <1>1, PTL

\* An entity is offered until the first end of validity among its own and those
\* of its groups, and the interval reckons with the first in the whole tree.
THEOREM EndsInherited == Spec => []NothingOutlivesItsGroup
<1>1. IInv => NothingOutlivesItsGroup
  <2>. SUFFICES ASSUME IInv, m_object # None
       PROVE  NothingOutlivesItsGroup
    BY DEF NothingOutlivesItsGroup
  <2>. DEFINE t == Tree[m_object]
  <2>1. /\ WasLoadable(m_object) /\ index = IndexOf(t, m_object) /\ lastValidUntil = Soonest(t)
    BY DEF IInv, OfferedTogether
  <2>2. Shape(t)
    BY <2>1, OfferedTree
  <2>3. IsLeast(lastValidUntil, Ends(t, Nodes(t)))
    BY <2>1, <2>2, SoonestIsFirstEnd
  <2>4. index.sites = {<<t.name[s], m_object, s>> : s \in t.sites} /\ index.until = Fences(t)
    BY <2>1 DEF IndexOf
  <2>5. ASSUME NEW site \in index.sites
        PROVE  IsLeast(index.until[site[3]], Ends(t, Path(t, site[3])))
    <3>1. site[3] \in Nodes(t)
      BY <2>4 DEF Nodes
    <3>. QED
      BY <2>2, <2>4, <3>1, FencesAreFirstEnds
  <2>. QED
    BY <2>3, <2>5 DEF NothingOutlivesItsGroup, IsLeast, Ends
<1>. QED
  BY InvariantCorrect, <1>1, PTL
=============================================================================
