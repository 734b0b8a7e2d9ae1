------------------------- MODULE XMLMetadataProvider -------------------------
(***************************************************************************)
(* The provider of a metadata file kept at a remote source                 *)
(* (saml/saml2/metadata/impl/XMLMetadataProvider.cpp).  A thread of its    *)
(* own loads the file again and again, at intervals it works out itself;   *)
(* what it has loaded and filtered it keeps on disk, to start from when    *)
(* the source cannot be reached; then it takes the write lock and puts the *)
(* new tree in the place of the old.  Readers hold the read lock while     *)
(* they use what they find.  The process may crash between any two steps.  *)
(*                                                                         *)
(* Versions of the file are numbered in the order they are published.  Of  *)
(* the base class ReloadableXMLFile, which is not part of the repository,  *)
(* the model has what the code relies on: a thread that calls              *)
(* background_load when the interval is over, the read lock of lock(), and *)
(* the cache tag, which a response sets, preserveCacheTag writes beside    *)
(* the backup, and the next process starts with.                           *)
(***************************************************************************)
EXTENDS MetadataTree

CONSTANTS
    Reader,             \* threads that use the metadata
    Version,            \* 1 .. n
    Content(_),         \* the tree of a version
    Acceptable(_),      \* whether it parses and passes the schema validators
    CacheDuration(_),   \* its cacheDuration, SAMLTIME_MAX if it has none
    Filters,            \* m_filters
    FeedConfig,         \* the settings of the discovery feed
    m_minRefreshDelay,
    m_maxRefreshDelay,
    FactorNum,          \* m_refreshDelayFactor is FactorNum / FactorDen
    FactorDen,
    Cut,                \* a file that is not complete
    Faults,             \* of "write" and "rename", those the disk may show
    MaxBackoff,         \* bound on m_backoffFactor, for TLC only
    MaxTime             \* bound on the clock, for TLC only

\* The constructor lowers the minimum to the maximum and rejects a factor that
\* is not strictly between 0 and 1.  Past the bound on the backoff factor the
\* interval is the maximum anyway, or always 0.
ASSUME DelayAssumption ==
    /\ m_minRefreshDelay \in Nat /\ m_maxRefreshDelay \in Nat \ {0}
    /\ m_minRefreshDelay <= m_maxRefreshDelay
    /\ FactorNum \in Nat \ {0} /\ FactorDen \in Nat \ {0} /\ FactorNum < FactorDen
    /\ MaxBackoff \in Nat \ {0}
    /\ m_minRefreshDelay = 0 \/ m_minRefreshDelay * MaxBackoff >= m_maxRefreshDelay
    /\ MaxTime \in Nat
ASSUME VersionAssumption == Version \subseteq Nat \ {0} /\ None \notin Nat /\ Cut \notin Nat
ASSUME FilterAssumption == Len(Filters) \in Nat /\ DOMAIN Filters = 1 .. Len(Filters)
ASSUME FaultAssumption == Faults \subseteq {"write", "rename"}

VARIABLES
    now,
    settled,        \* the world stops changing: no fault, no crash, no new version
    source,         \* the version the source serves, 0 while it cannot be reached
    published,      \* the newest version so far
    m_backing,      \* the backup on disk: a version, Cut, or None
    backupTag,      \* the cache tag on disk, 0 if there is none
    faulty,         \* the last backup of this process met a fault (history)
    pc,             \* where the loading thread is
    loading,        \* the version it is working on
    backup,         \* whether that comes from the backup
    temp,           \* what it has written to the temporary file
    cacheTag,       \* the tag it sends to the source
    started,        \* init() is over: the provider can be used
    reloadInterval, backoffFactor,
    due,            \* when it loads again
    lastGood,       \* when the last load ended, None if it failed (history)
    m_object,       \* the version readers find
    index, feed, lastValidUntil,
    reading,        \* readers that hold the lock
    credentials     \* the versions whose roles have cached credentials

clock == <<now, settled>>
remote == <<source, published>>
disk == <<m_backing, backupTag, faulty>>
loader == <<pc, loading, backup, temp, cacheTag, started>>
delays == <<reloadInterval, backoffFactor, due, lastGood>>
offered == <<m_object, index, feed, lastValidUntil>>
readers == <<reading, credentials>>
vars == <<clock, remote, disk, loader, delays, offered, readers>>

\* What the builders and the schema validators let through.
ASSUME ContentAssumption == \A v \in Version : WellFormed(Content(v))

\* The tree of each version after the filters, and when it can be loaded: while
\* it is valid and no filter rejects it.
Tree == [v \in Version |-> doFilters(Filters, Content(v))[Len(Filters)]]
LoadableAt ==
    {at \in Version \X (0 .. MaxTime) :
        /\ Acceptable(at[1])
        /\ at[2] <= Content(at[1]).validUntil[Content(at[1]).root]
        /\ Filterable(Filters, Content(at[1]), at[2])}
Loadable(v) == <<v, now>> \in LoadableAt
\* Times are whole seconds.
ASSUME TimeAssumption == \A v \in Version : CacheDuration(v) \in Nat

Steps == {"load", "remove", "rename", "tag", "loadBackup", "upgrade", "idle"}
NoIndex == [sites |-> {}, sources |-> {}, groups |-> {}, until |-> <<>>]
NoFeed == [tag |-> None, entries |-> <<>>]

Init ==
    /\ now = 0 /\ settled = FALSE
    /\ published \in Version /\ source \in {0, published}
    /\ m_backing = None /\ backupTag = 0 /\ faulty = FALSE
    /\ pc = "load" /\ loading = 0 /\ backup = FALSE /\ temp = None /\ cacheTag = 0
    /\ started = FALSE
    /\ reloadInterval = m_maxRefreshDelay /\ backoffFactor = 1 /\ due = 0 /\ lastGood = None
    /\ m_object = None /\ index = NoIndex /\ feed = NoFeed /\ lastValidUntil = SAMLTIME_MAX
    /\ reading = {} /\ credentials = {}
-----------------------------------------------------------------------------
(* The decisions of the code, each with a variant that a plausible slip     *)
(* would give; the specification does not use the variants.                *)

\* Variant: only the maximum counts.
Bounded_Max(delay) == Sooner(delay, m_maxRefreshDelay)
Bounded(delay) ==
    IF delay > m_maxRefreshDelay THEN m_maxRefreshDelay
    ELSE IF delay < m_minRefreshDelay THEN m_minRefreshDelay ELSE delay

\* computeNextRefresh, for a tree that is good until the given time.  Variant:
\* the larger of the two constraints.
computeNextRefresh_Later(v, until) ==
    IF until < now THEN m_minRefreshDelay
    ELSE Bounded(((IF v # None /\ CacheDuration(v) > until - now
                   THEN CacheDuration(v) ELSE until - now) * FactorNum) \div FactorDen)
computeNextRefresh(v, until) ==
    IF until < now THEN m_minRefreshDelay
    ELSE Bounded(((IF v # None THEN Sooner(until - now, CacheDuration(v)) ELSE until - now)
                  * FactorNum) \div FactorDen)

\* The interval after a failure.
Backoff == Sooner(m_minRefreshDelay * backoffFactor, m_maxRefreshDelay)

\* The tag is kept on disk only when the backup is in place, and the backup
\* before the metadata are offered.  Variants: first the tag, then the backup;
\* the metadata before the backup.
NextToCommit_Never(step) == "upgrade"
NextToCommit_TagFirst(step) ==
    CASE step = "filtered" -> "tag" [] step = "tag" -> "remove"
      [] step = "remove" -> "rename" [] step = "rename" -> "upgrade"
NextToCommit(step) ==
    CASE step = "filtered" -> "remove" [] step = "remove" -> "rename"
      [] step = "rename" -> "tag" [] step = "tag" -> "upgrade"

\* The backup is for a process that has loaded nothing yet.
NeedsBackup == m_object = None

\* The write lock waits for the readers.
MaySwap == reading = {}
-----------------------------------------------------------------------------
(* The world *)

Publish(v) ==
    /\ ~settled /\ v > published
    /\ published' = v /\ source' = v
    /\ UNCHANGED <<clock, disk, loader, delays, offered, readers>>

\* The source fails, or can be reached again.
SourceChanges ==
    /\ ~settled /\ source' \in {0, published} \ {source}
    /\ UNCHANGED <<clock, published, disk, loader, delays, offered, readers>>

Settle ==
    /\ ~settled /\ settled' = TRUE
    /\ UNCHANGED <<now, remote, disk, loader, delays, offered, readers>>

Tick ==
    /\ now < MaxTime /\ now' = now + 1
    /\ UNCHANGED <<settled, remote, disk, loader, delays, offered, readers>>

\* The process ends, and another is started on the same disk.
Crash ==
    /\ ~settled
    /\ pc' = "load" /\ loading' = 0 /\ backup' = FALSE /\ temp' = None /\ cacheTag' = backupTag
    /\ started' = FALSE
    /\ reloadInterval' = m_maxRefreshDelay /\ backoffFactor' = 1 /\ due' = 0 /\ lastGood' = None
    /\ m_object' = None /\ index' = NoIndex /\ feed' = NoFeed /\ lastValidUntil' = SAMLTIME_MAX
    /\ reading' = {} /\ credentials' = {} /\ faulty' = FALSE
    /\ UNCHANGED <<clock, remote, m_backing, backupTag>>
-----------------------------------------------------------------------------
(* The loading thread *)

Disk(fault) == fault \in Faults /\ ~settled

\* The wait of the interval is over; a wait on a condition may also end early.
Wake ==
    /\ pc = "idle" /\ pc' = "load"
    /\ UNCHANGED <<clock, remote, disk, loading, backup, temp, cacheTag, started, delays, offered, readers>>

\* The load is over, whether it worked or not, and with the first one init();
\* the thread waits.
Rest(interval) ==
    /\ reloadInterval' = interval /\ due' = now + interval /\ started' = TRUE
    /\ pc' = "idle" /\ loading' = 0 /\ backup' = FALSE /\ temp' = None

\* A load that fails, or finds nothing new, in a process that has nothing to
\* offer goes on with the backup.
RestOrLoadBackup(interval, outcome) ==
    /\ lastGood' = outcome
    /\ IF NeedsBackup
       THEN /\ pc' = "loadBackup" /\ reloadInterval' = interval
            /\ UNCHANGED <<due, loading, backup, temp, started>>
       ELSE Rest(interval)
BackOff ==
    /\ backoffFactor' = Sooner(backoffFactor + 1, MaxBackoff)

\* load(false): a version that is new and good, and a copy of it as it came.
\* The stream reports no error when the copy is cut short; an exception on the
\* way is logged, and the load goes on with nothing to commit.
LoadNew ==
    /\ pc = "load" /\ source \notin {0, cacheTag} /\ Loadable(source)
    /\ loading' = source /\ cacheTag' = source
    /\ reloadInterval' = m_minRefreshDelay
    /\ \/ /\ temp' \in {source} \union (IF Disk("write") THEN {Cut} ELSE {})
          /\ pc' = NextToCommit("filtered") /\ UNCHANGED faulty
       \/ /\ Disk("write") /\ temp' = None
          /\ pc' = "upgrade" /\ faulty' = TRUE
    /\ UNCHANGED <<clock, remote, m_backing, backupTag, backup, started, backoffFactor, due, lastGood, offered, readers>>

\* No answer, or a version that is not good.
LoadFails ==
    /\ pc = "load"
    /\ source = 0 \/ (source # cacheTag /\ ~Loadable(source))
    /\ cacheTag' = IF source # 0 THEN source ELSE cacheTag
    /\ BackOff /\ RestOrLoadBackup(Backoff, None)
    /\ UNCHANGED <<clock, remote, disk, offered, readers>>

\* The source answers that the version has not changed.
NotModified ==
    /\ pc = "load" /\ source # 0 /\ source = cacheTag
    /\ RestOrLoadBackup(computeNextRefresh(m_object, lastValidUntil), now)
    /\ UNCHANGED <<clock, remote, disk, cacheTag, backoffFactor, offered, readers>>

\* load(true).
LoadBackup ==
    /\ pc = "loadBackup" /\ Loadable(m_backing)
    /\ loading' = m_backing /\ backup' = TRUE
    /\ pc' = "upgrade"
    /\ UNCHANGED <<clock, remote, disk, temp, cacheTag, started, delays, offered, readers>>

LoadBackupFails ==
    /\ pc = "loadBackup" /\ ~Loadable(m_backing)
    /\ Rest(reloadInterval)
    /\ UNCHANGED <<clock, remote, disk, cacheTag, backoffFactor, lastGood, offered, readers>>

\* The backup is committed: the old file is removed, the new one renamed, and
\* the tag kept.  An error of rename is logged and no more; nothing looks at
\* the temporary file again.
RemoveOld ==
    /\ pc = "remove" /\ m_backing' = None
    /\ pc' = NextToCommit(pc)
    /\ UNCHANGED <<clock, remote, backupTag, faulty, loading, backup, temp, cacheTag, started, delays, offered, readers>>

RenameNew ==
    /\ pc = "rename"
    /\ m_backing' \in {temp} \union (IF Disk("rename") THEN {None} ELSE {})
    /\ faulty' = (m_backing' # loading)
    /\ pc' = NextToCommit(pc) /\ temp' = None
    /\ UNCHANGED <<clock, remote, backupTag, loading, backup, cacheTag, started, delays, offered, readers>>

preserveCacheTag ==
    /\ pc = "tag" /\ backupTag' = cacheTag
    /\ pc' = NextToCommit(pc)
    /\ UNCHANGED <<clock, remote, m_backing, faulty, loading, backup, temp, cacheTag, started, delays, offered, readers>>

\* The write lock is taken; object, index and feed are replaced, the cached
\* credentials dropped and the observers told, and the lock is released.  The
\* tag of the feed is random; here it is the version.
Swap ==
    /\ pc = "upgrade" /\ MaySwap
    /\ m_object' = loading
    /\ index' = IndexOf(Tree[loading], loading)
    /\ lastValidUntil' = Soonest(Tree[loading])
    /\ feed' = IF FeedConfig.discoveryFeed
               THEN [tag |-> loading, entries |-> FeedOf(FeedConfig, Tree[loading], now)]
               ELSE feed
    /\ credentials' = IF m_object # None THEN {} ELSE credentials

\* The end of load().
Install ==
    /\ Swap
    /\ IF backup THEN Rest(reloadInterval) /\ UNCHANGED backoffFactor /\ lastGood' = None
       ELSE /\ Rest(computeNextRefresh(loading, lastValidUntil'))
            /\ backoffFactor' = 1 /\ lastGood' = now
    /\ UNCHANGED <<clock, remote, disk, cacheTag, reading>>

\* An observer throws: the new tree stays, but the load counts as failed.
ObserverThrows ==
    /\ Swap /\ m_object # None
    /\ BackOff /\ Rest(Backoff) /\ lastGood' = None
    /\ UNCHANGED <<clock, remote, disk, cacheTag, reading>>
-----------------------------------------------------------------------------
(* Readers *)

Lock(r) ==
    /\ started /\ r \notin reading /\ reading' = reading \union {r}
    /\ UNCHANGED <<clock, remote, disk, loader, delays, offered, credentials>>

Unlock(r) ==
    /\ r \in reading /\ reading' = reading \ {r}
    /\ UNCHANGED <<clock, remote, disk, loader, delays, offered, credentials>>

\* A reader looks an entity up and resolves the credentials of its role, which
\* are cached under the role.
resolve(r) ==
    /\ r \in reading
    /\ \E site \in index.sites : credentials' = credentials \union {site[2]}
    /\ UNCHANGED <<clock, remote, disk, loader, delays, offered, reading>>

Loader ==
    \/ Wake \/ LoadNew \/ LoadFails \/ NotModified \/ LoadBackup \/ LoadBackupFails
    \/ RemoveOld \/ RenameNew \/ preserveCacheTag \/ Install \/ ObserverThrows
Next ==
    \/ \E v \in Version : Publish(v)
    \/ SourceChanges \/ Settle \/ Tick \/ Crash \/ Loader
    \/ \E r \in Reader : Lock(r) \/ Unlock(r) \/ resolve(r)

Spec == Init /\ [][Next]_vars

\* Time passes, and the loading thread runs: it wakes up, it stays at no step
\* that it can always leave, it gets the write lock if that is free again and
\* again, and readers unlock.
Leaves(step) == pc = step /\ pc' \in Steps \ {step}
Fairness ==
    /\ WF_vars(Tick) /\ WF_vars(Wake) /\ SF_vars(Install \/ ObserverThrows)
    /\ \A step \in Steps \ {"idle", "upgrade"} : WF_pc(Leaves(step))
    /\ \A r \in Reader : WF_vars(Unlock(r))
FairSpec == Spec /\ Fairness
-----------------------------------------------------------------------------
(* Properties *)

\* Every variable has its type; the interval keeps to its bounds through every
\* load, failure and restart.
TypeOK ==
    /\ now \in 0 .. MaxTime /\ settled \in BOOLEAN
    /\ published \in Version /\ source \in {0, published}
    /\ m_backing \in Version \union {Cut, None} /\ backupTag \in Version \union {0}
    /\ faulty \in BOOLEAN /\ backup \in BOOLEAN /\ started \in BOOLEAN
    /\ pc \in Steps /\ loading \in Version \union {0}
    /\ temp \in Version \union {Cut, None} /\ cacheTag \in Version \union {0}
    /\ reloadInterval \in m_minRefreshDelay .. m_maxRefreshDelay
    /\ backoffFactor \in 1 .. MaxBackoff /\ due \in Nat /\ lastGood \in Nat \union {None}
    /\ m_object \in Version \union {None} /\ lastValidUntil \in Int
    /\ \A site \in index.sites : site[2] \in Version
    /\ reading \subseteq Reader /\ credentials \subseteq Version

\* What every filter by itself admits, of the entities of a version.
Admitted == [v \in Version |-> AdmittedBy(Filters, Content(v))]

\* Readers find the entities of one version, those and only those that every
\* filter by itself admits; the feed lists no others, and no credential of
\* another version is cached.
OffersTheAdmitted ==
    m_object # None =>
        /\ index.sites = {<<Content(m_object).name[s], m_object, s>> : s \in Admitted[m_object]}
        /\ FeedConfig.discoveryFeed => feed.tag = m_object
        /\ \A s \in DOMAIN feed.entries : <<feed.entries[s].entityID, feed.tag, s>> \in index.sites
        /\ credentials \subseteq {m_object}

\* An entity is offered until the end of its validity or that of a group it is
\* in, whichever comes first, and the whole tree is as good as the first of
\* its parts to expire.
NothingOutlivesItsGroup ==
    m_object # None =>
        LET t == Tree[m_object]
            Ends(nodes) == {t.validUntil[n] : n \in nodes}
            IsFirst(time, times) == time \in times /\ \A other \in times : time <= other
        IN /\ \A site \in index.sites :
                 IsFirst(index.until[site[3]], Ends(Path(t, site[3])))
           /\ IsFirst(lastValidUntil, Ends(Nodes(t)))

\* After a load that worked, the next is made before the first of the metadata
\* expires, or after the minimum delay.
InTime(at) == due <= lastValidUntil \/ due <= at + m_minRefreshDelay
ReloadsInTime == pc = "idle" /\ m_object # None /\ lastGood # None => InTime(lastGood)

\* The same after a first load that found nothing new and went on with the
\* backup: the interval of the unchanged document is established again.  The
\* code does not keep this: see the README.
IntervalReestablished ==
    pc = "idle" /\ m_object # None /\ backoffFactor = 1 => InTime(due - reloadInterval)

\* A filter that is told to retain roles of a type leaves them alone.
RetainedRolesStay ==
    m_object # None =>
        \A i \in DOMAIN Filters : Filters[i].kind = "EntityRole" =>
            \A s \in Tree[m_object].sites : \A r \in Content(m_object).roles[s] :
                r.type \in Filters[i].roles => r \in Tree[m_object].roles[s]

\* What is offered could be offered again after a crash: unless the disk has
\* failed, the backup is at least as new, but for the moment between the
\* removal of the old file and the renaming of the new one.
BackupCurrent ==
    m_object # None /\ pc # "rename" /\ ~faulty =>
        m_backing \in Version /\ m_backing >= m_object

\* Once the world settles, the provider offers what the source serves, if that
\* is good.  Excepted is a disk whose backup was lost but whose tag says that
\* there is nothing new.
SourceServed ==
    settled /\ source # 0 ~>
        \/ m_object = source
        \/ ~Loadable(source)
        \/ m_backing \notin Version /\ backupTag = source
=============================================================================
