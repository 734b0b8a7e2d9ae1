------------------- MODULE DynamicMetadataProvider_proofs -------------------
(* Proofs about the dynamic metadata provider, for any threads, entities,  *)
(* documents and caching durations.                                        *)
EXTENDS DynamicMetadataProvider, TLAPS

-----------------------------------------------------------------------------
(* The inductive invariant *)

\* A lookup has criteria, and a thread on its way to install has something to
\* install, due in time.
InCall ==
    /\ now <= MaxTime
    /\ \A t \in Thread : pc[t] \notin {"idle", "session"} => crit[t] \in Criteria
    /\ \A t \in Thread : pc[t] \in {"upgrade", "install"} =>
         /\ fetched[t] \in [site : Site, refresh : Nat]
         /\ InTime(fetched[t].site, fetched[t].refresh)

\* A key whose fetch failed has a refresh time no earlier than the caching
\* interval allows, or that time is over.
FailureKept ==
    \A k \in Key : lastTry[k].how = "failed" =>
        IF cacheMap[k] # None THEN cacheMap[k] >= lastTry[k].at + minCacheDuration
                              ELSE now > lastTry[k].at + minCacheDuration

IInv ==
    /\ TypeOK
    /\ InCall
    /\ InstallsAlone
    /\ OneEntityPerID
    /\ RefreshedInTime
    /\ FailureKept

-----------------------------------------------------------------------------
(* The caching duration *)

\* A proper fraction of a duration is not longer than the duration.
LEMMA Fraction ==
    ASSUME NEW a \in Nat, NEW n \in Nat, NEW d \in Nat \ {0}, n < d
    PROVE  (a * n) \div d \in Nat /\ (a * n) \div d <= a
<1>. DEFINE q == (a * n) \div d
<1>1. q \in Nat /\ d * q <= a * n
  OBVIOUS
<1>2. a * n <= a * d
  OBVIOUS
<1>3. d * q <= d * a
  BY <1>1, <1>2
<1>4. q <= a
  BY <1>1, <1>3
<1>. QED
  BY <1>1, <1>4

\* A document is kept no longer than it lives, unless the minimum says so, and
\* never longer than the maximum.
LEMMA CacheForBounds ==
    ASSUME NEW d \in Documents
    PROVE  /\ CacheFor(d) \in Nat
           /\ CacheFor(d) <= d.life \/ CacheFor(d) <= minCacheDuration
           /\ CacheFor(d) <= maxCacheDuration
<1>. DEFINE l == Lesser(d.life, d.cacheDuration)
<1>1. d.life \in Nat /\ d.cacheDuration \in Nat
  BY DocumentAssumption
<1>2. l \in Nat /\ l <= d.life
  BY <1>1 DEF Lesser
<1>3. (l * FactorNum) \div FactorDen \in Nat /\ (l * FactorNum) \div FactorDen <= l
  BY <1>2, Fraction, ConfigAssumption
<1>. QED
  BY <1>1, <1>2, <1>3, ConfigAssumption DEF CacheFor

-----------------------------------------------------------------------------
(* Types *)

LEMMA KeyTypes ==
    ASSUME TypeOK
    PROVE  /\ \A s \in Site : EntityKey(s) \in Key
           /\ \A c \in Criteria : KeyOf(c) \in Key /\ Offers(c) \subseteq Site \union {None}
           /\ \A t \in Thread : crit[t] \in Criteria => KeyOfLookup(t) \in Key
<1>1. \A s \in Site : EntityKey(s) \in Key
  BY DEF EntityKey, Key, Site
<1>2. ASSUME NEW c \in Criteria PROVE KeyOf(c) \in Key /\ Offers(c) \subseteq Site \union {None}
  <2>1. KeyOf(c) \in Key
    BY DEF KeyOf, Key, Criteria
  <2>2. Indexed(c) \subseteq Site
    BY DEF Indexed, TypeOK
  <2>. QED
    BY <2>1, <2>2 DEF Offers
<1>3. ASSUME NEW t \in Thread, crit[t] \in Criteria PROVE KeyOfLookup(t) \in Key
  BY <1>1, <1>2, <1>3 DEF KeyOfLookup, TypeOK
<1>. QED
  BY <1>1, <1>2, <1>3

LEMMA RecoverType ==
    ASSUME TypeOK, NEW t \in Thread, crit[t] \in Criteria, Recover(t)
    PROVE  /\ cacheMap' \in [Key -> Nat \union {None}]
           /\ lastTry' \in [Key -> [how : {"none", "failed", "mismatch"}, at : Nat]]
           /\ pc' = [pc EXCEPT ![t] = "session"]
           /\ pc' \in [Thread -> {"idle", "session", "lookup", "check", "resolve", "upgrade", "install", "again"}]
<1>1. KeyOfLookup(t) \in Key
  BY KeyTypes
<1>2. RetryAfter \in Nat
  BY ConfigAssumption DEF RetryAfter, TypeOK
<1>. QED
  BY <1>1, <1>2 DEF Recover, TypeOK

LEMMA FreedType == TypeOK => Freed \in [Thread -> {"none", "live", "freed"}]
BY DEF Freed, TypeOK

LEMMA ResolveType ==
    ASSUME TypeOK, NEW t \in Thread, NEW d \in Documents, crit[t] \in Criteria,
           ResolveSucceeds(t, d)
    PROVE  TypeOK' /\ fetched'[t] \in [site : Site, refresh : Nat]
<1>1. d.life \in Nat /\ CacheFor(d) \in Nat
  BY CacheForBounds, DocumentAssumption
<1>2. crit[t].id \in Entity
  BY DEF Criteria
<1>3. [site |-> [id |-> crit[t].id,
                 validUntil |-> IF d.life = SAMLTIME_MAX THEN d.life ELSE now + d.life],
       refresh |-> now + CacheFor(d)] \in [site : Site, refresh : Nat]
  BY <1>1, <1>2 DEF Site, TypeOK
<1>4. fetched' \in [Thread -> [site : Site, refresh : Nat] \union {None}]
      /\ fetched'[t] \in [site : Site, refresh : Nat]
  BY <1>3 DEF ResolveSucceeds, TypeOK
<1>5. mode' \in [Thread -> {"none", "read", "write"}]
      /\ pc' \in [Thread -> {"idle", "session", "lookup", "check", "resolve", "upgrade", "install", "again"}]
  BY DEF ResolveSucceeds, TypeOK, WaitingMode
<1>. QED
  BY <1>4, <1>5 DEF ResolveSucceeds, TypeOK, shared

LEMMA InstallType ==
    ASSUME TypeOK, NEW t \in Thread, fetched[t] \in [site : Site, refresh : Nat], Install(t)
    PROVE  TypeOK'
<1>. DEFINE s == fetched[t].site
<1>1. s \in Site /\ EntityKey(s) \in Key /\ fetched[t].refresh \in Nat
  BY KeyTypes
<1>2. sites' \subseteq Site /\ sources' \subseteq Site
  BY <1>1 DEF Install, KeptSites, KeptSources, TypeOK
<1>3. cacheMap' \in [Key -> Nat \union {None}]
  BY <1>1 DEF Install, TypeOK
<1>4. lastTry' \in [Key -> [how : {"none", "failed", "mismatch"}, at : Nat]]
  BY <1>1 DEF Install, TypeOK, NoTry
<1>5. cred' \in [Thread -> {"none", "live", "freed"}]
  BY FreedType DEF Install
<1>6. fetched' \in [Thread -> [site : Site, refresh : Nat] \union {None}]
  BY DEF Install, TypeOK
<1>7. mode' \in [Thread -> {"none", "read", "write"}]
      /\ pc' \in [Thread -> {"idle", "session", "lookup", "check", "resolve", "upgrade", "install", "again"}]
  BY DEF Install, TypeOK
<1>. QED
  BY <1>2, <1>3, <1>4, <1>5, <1>6, <1>7 DEF Install, TypeOK

LEMMA NextType == TypeOK /\ InCall /\ [Next]_vars => TypeOK'
<1>. SUFFICES ASSUME TypeOK, InCall, [Next]_vars PROVE TypeOK'
  OBVIOUS
<1>. USE DEF shared
<1>1. CASE Tick
  BY <1>1 DEF Tick, TypeOK
<1>2. ASSUME NEW t \in Thread, Lock(t) \/ Unlock(t) \/ ResolveCredentials(t)
      PROVE  TypeOK'
  BY <1>2 DEF Lock, Unlock, ResolveCredentials, TypeOK
<1>3. ASSUME NEW t \in Thread, NEW c \in Criteria, Call_getEntityDescriptor(t, c)
      PROVE  TypeOK'
  BY <1>3 DEF Call_getEntityDescriptor, TypeOK
<1>4. ASSUME NEW t \in Thread, Lookup(t) PROVE TypeOK'
  <2>1. crit[t] \in Criteria
    BY <1>4 DEF Lookup, InCall
  <2>2. PICK s \in Offers(crit[t]) :
           /\ entity' = [entity EXCEPT ![t] = s]
           /\ pc' = [pc EXCEPT ![t] =
                IF cacheMap[IF s # None THEN EntityKey(s) ELSE KeyOf(crit[t])] # None
                THEN "check" ELSE "resolve"]
    BY <1>4 DEF Lookup
  <2>3. s \in Site \union {None}
    BY <2>1, KeyTypes
  <2>4. entity' \in [Thread -> Site \union {None}]
    BY <2>2, <2>3 DEF TypeOK
  <2>5. pc' \in [Thread -> {"idle", "session", "lookup", "check", "resolve", "upgrade", "install", "again"}]
    BY <2>2 DEF TypeOK
  <2>. QED
    BY <1>4, <2>4, <2>5 DEF Lookup, TypeOK
<1>5. ASSUME NEW t \in Thread, WithinInterval(t) PROVE TypeOK'
  BY <1>5 DEF WithinInterval, TypeOK
<1>6. ASSUME NEW t \in Thread, BeyondInterval(t) PROVE TypeOK'
  <2>1. KeyOfLookup(t) \in Key
    BY <1>6, KeyTypes DEF BeyondInterval, InCall
  <2>2. cacheMap' \in [Key -> Nat \union {None}] /\ dangling' \subseteq Thread
    BY <1>6, <2>1 DEF BeyondInterval, TypeOK
  <2>. QED
    BY <1>6, <2>2 DEF BeyondInterval, TypeOK
<1>7. ASSUME NEW t \in Thread, ResolveMismatch(t) PROVE TypeOK'
  <2>1. KeyOfLookup(t) \in Key
    BY <1>7, KeyTypes DEF ResolveMismatch, InCall
  <2>2. lastTry' \in [Key -> [how : {"none", "failed", "mismatch"}, at : Nat]]
    BY <1>7, <2>1 DEF ResolveMismatch, TypeOK
  <2>. QED
    BY <1>7, <2>2 DEF ResolveMismatch, TypeOK
<1>8. ASSUME NEW t \in Thread, ResolveFails(t) PROVE TypeOK'
  <2>1. crit[t] \in Criteria
    BY <1>8 DEF ResolveFails, InCall
  <2>. QED
    BY <1>8, <2>1, RecoverType DEF ResolveFails, Recover, TypeOK
<1>9. ASSUME NEW t \in Thread, NEW d \in Documents, ResolveSucceeds(t, d) PROVE TypeOK'
  BY <1>9, ResolveType DEF ResolveSucceeds, InCall
<1>10. ASSUME NEW t \in Thread, Install(t) PROVE TypeOK'
  BY <1>10, InstallType DEF Install, InCall
<1>11. ASSUME NEW t \in Thread, ObserverThrows(t) PROVE TypeOK'
  <2>1. crit[t] \in Criteria
    BY <1>11 DEF ObserverThrows, InCall
  <2>2. cred' \in [Thread -> {"none", "live", "freed"}]
        /\ fetched' \in [Thread -> [site : Site, refresh : Nat] \union {None}]
    BY <1>11, FreedType DEF ObserverThrows, TypeOK
  <2>. QED
    BY <1>11, <2>1, <2>2, RecoverType DEF ObserverThrows, Recover, TypeOK
<1>12. ASSUME NEW t \in Thread, AcquireWrite(t) \/ AcquireRead(t) PROVE TypeOK'
  BY <1>12 DEF AcquireWrite, AcquireRead, InstallMode, AgainMode, TypeOK
<1>13. CASE UNCHANGED vars
  BY <1>13 DEF vars, TypeOK
<1>. QED
  BY <1>1, <1>2, <1>3, <1>4, <1>5, <1>6, <1>7, <1>8, <1>9, <1>10, <1>11, <1>12, <1>13
     DEF Next, Proceed

\* Steps that leave the index, the refresh times and the records of failures
\* alone.
Quiet == UNCHANGED <<sites, sources, cacheMap, lastTry>> /\ now <= now'

-----------------------------------------------------------------------------
(* A lookup knows what it is about *)

LEMMA ResolveInTime ==
    ASSUME TypeOK, InCall, NEW t \in Thread, NEW d \in Documents, ResolveSucceeds(t, d)
    PROVE  InTime(fetched'[t].site, fetched'[t].refresh)
<1>. DEFINE s == [id |-> crit[t].id,
                  validUntil |-> IF d.life = SAMLTIME_MAX THEN d.life ELSE now + d.life]
<1>1. fetched'[t] = [site |-> s, refresh |-> now + CacheFor(d)]
  BY DEF ResolveSucceeds, TypeOK
<1>2. now \in Nat /\ now <= MaxTime /\ d.life \in Nat
  BY DocumentAssumption DEF TypeOK, InCall
<1>3. CASE d.life = SAMLTIME_MAX
  BY <1>1, <1>2, <1>3, CacheForBounds, ConfigAssumption, HorizonAssumption DEF InTime
<1>4. CASE d.life # SAMLTIME_MAX
  BY <1>1, <1>2, <1>4, CacheForBounds, ConfigAssumption DEF InTime
<1>. QED
  BY <1>3, <1>4

\* What is in time stays in time.
LEMMA Monotone ==
    ASSUME NEW a \in Nat, NEW b \in Nat, NEW c \in Nat, NEW m \in Nat, a <= b, c <= a + m
    PROVE  c <= b + m
OBVIOUS

LEMMA StaysInTime ==
    ASSUME now \in Nat, now' \in Nat, now <= now', NEW s \in Site, NEW at \in Nat, InTime(s, at)
    PROVE  at <= s.validUntil \/ at <= now' + minCacheDuration
BY Monotone, ConfigAssumption DEF InTime

LEMMA NextInCall == TypeOK /\ InCall /\ [Next]_vars => InCall'
<1>. SUFFICES ASSUME TypeOK, InCall, [Next]_vars PROVE InCall'
  OBVIOUS
<1>. USE DEF shared
<1>1. CASE Tick
  <2>1. now' \in Nat /\ now <= now' /\ now' <= MaxTime
    BY <1>1, ConfigAssumption DEF Tick, TypeOK
  <2>2. ASSUME NEW t \in Thread, pc[t] \in {"upgrade", "install"}
        PROVE  InTime(fetched[t].site, fetched[t].refresh)'
    BY <1>1, <2>1, <2>2, StaysInTime DEF Tick, InCall, TypeOK, InTime
  <2>. QED
    BY <1>1, <2>1, <2>2 DEF Tick, InCall
<1>2. ASSUME NEW t \in Thread,
             \/ Lock(t) \/ Unlock(t) \/ ResolveCredentials(t) \/ Lookup(t)
             \/ WithinInterval(t) \/ BeyondInterval(t) \/ ResolveMismatch(t) \/ ResolveFails(t)
             \/ AcquireWrite(t) \/ AcquireRead(t)
      PROVE  InCall'
  BY <1>2 DEF Lock, Unlock, ResolveCredentials, Lookup, WithinInterval, BeyondInterval,
     ResolveMismatch, ResolveFails, Recover, AcquireWrite, AcquireRead, InCall, InTime, TypeOK
<1>3. ASSUME NEW t \in Thread, NEW c \in Criteria, Call_getEntityDescriptor(t, c)
      PROVE  InCall'
  BY <1>3 DEF Call_getEntityDescriptor, InCall, InTime, TypeOK
<1>4. ASSUME NEW t \in Thread, NEW d \in Documents, ResolveSucceeds(t, d) PROVE InCall'
  <2>1. fetched'[t] \in [site : Site, refresh : Nat] /\ InTime(fetched'[t].site, fetched'[t].refresh)
    BY <1>4, ResolveType, ResolveInTime DEF ResolveSucceeds, InCall
  <2>2. now' = now
    BY <1>4 DEF ResolveSucceeds
  <2>3. \A u \in Thread \ {t} : pc'[u] = pc[u] /\ fetched'[u] = fetched[u] /\ crit'[u] = crit[u]
    BY <1>4 DEF ResolveSucceeds, TypeOK
  <2>4. crit'[t] \in Criteria
    BY <1>4 DEF ResolveSucceeds, InCall
  <2>. QED
    BY <2>1, <2>2, <2>3, <2>4 DEF InCall, InTime
<1>5. ASSUME NEW t \in Thread, Install(t) \/ ObserverThrows(t) PROVE InCall'
  BY <1>5 DEF Install, ObserverThrows, Recover, InCall, InTime, TypeOK
<1>6. CASE UNCHANGED vars
  BY <1>6 DEF vars, InCall, InTime
<1>. QED
  BY <1>1, <1>2, <1>3, <1>4, <1>5, <1>6 DEF Next, Proceed

-----------------------------------------------------------------------------
(* The lock *)

\* Nobody gets in while a thread installs.
LEMMA NextInstallsAlone == TypeOK /\ InstallsAlone /\ [Next]_vars => InstallsAlone'
<1>. SUFFICES ASSUME TypeOK, InstallsAlone, [Next]_vars PROVE InstallsAlone'
  OBVIOUS
<1>. USE DEF shared
<1>1. CASE Tick
  BY <1>1 DEF Tick, InstallsAlone
<1>2. ASSUME NEW t \in Thread, Lock(t) \/ AcquireRead(t) PROVE InstallsAlone'
  BY <1>2 DEF Lock, AcquireRead, AgainMode, MayEnter, InstallsAlone, TypeOK
<1>3. ASSUME NEW t \in Thread, AcquireWrite(t) PROVE InstallsAlone'
  BY <1>3 DEF AcquireWrite, InstallMode, MayEnter, InstallsAlone, TypeOK
<1>4. ASSUME NEW t \in Thread, Unlock(t) \/ Install(t) PROVE InstallsAlone'
  BY <1>4 DEF Unlock, Install, InstallsAlone, TypeOK
<1>5. ASSUME NEW t \in Thread, NEW d \in Documents, ResolveSucceeds(t, d) PROVE InstallsAlone'
  BY <1>5 DEF ResolveSucceeds, WaitingMode, InstallsAlone, TypeOK
<1>6. ASSUME NEW t \in Thread,
             \/ ResolveCredentials(t) \/ Lookup(t) \/ WithinInterval(t) \/ BeyondInterval(t)
             \/ ResolveMismatch(t) \/ ResolveFails(t) \/ ObserverThrows(t)
             \/ \E c \in Criteria : Call_getEntityDescriptor(t, c)
      PROVE  InstallsAlone'
  BY <1>6 DEF ResolveCredentials, Lookup, WithinInterval, BeyondInterval, ResolveMismatch,
     ResolveFails, ObserverThrows, Recover, Call_getEntityDescriptor, InstallsAlone, TypeOK
<1>7. CASE UNCHANGED vars
  BY <1>7 DEF vars, InstallsAlone
<1>. QED
  BY <1>1, <1>2, <1>3, <1>4, <1>5, <1>6, <1>7 DEF Next, Proceed

-----------------------------------------------------------------------------
(* The index and the refresh times *)

LEMMA InstallKeepsIndex ==
    ASSUME TypeOK, InCall, OneEntityPerID, RefreshedInTime, FailureKept,
           NEW t \in Thread, Install(t)
    PROVE  OneEntityPerID' /\ RefreshedInTime' /\ FailureKept'
<1>. DEFINE s == fetched[t].site
            k == EntityKey(s)
<1>1. s \in Site /\ k \in Key /\ fetched[t].refresh \in Nat /\ InTime(s, fetched[t].refresh)
  BY KeyTypes DEF Install, InCall
<1>2. /\ sites' = KeptSites(s.id) \union {s} /\ sources' = KeptSources(s.id) \union {s}
      /\ cacheMap' = [cacheMap EXCEPT ![k] = fetched[t].refresh]
      /\ lastTry' = [lastTry EXCEPT ![k] = NoTry]
      /\ now' = now
  BY DEF Install
<1>3. OneEntityPerID'
  BY <1>2 DEF OneEntityPerID, KeptSites, KeptSources
<1>4. ASSUME NEW r \in sites', cacheMap'[EntityKey(r)] # None
      PROVE  InTime(r, cacheMap'[EntityKey(r)])
  <2>1. CASE r = s
    BY <1>1, <1>2, <2>1 DEF TypeOK, InTime
  <2>2. CASE r # s
    <3>1. r \in sites /\ EntityKey(r) # k
      BY <1>2, <2>2 DEF KeptSites, EntityKey
    <3>2. cacheMap'[EntityKey(r)] = cacheMap[EntityKey(r)]
      BY <1>2, <3>1, KeyTypes DEF TypeOK
    <3>. QED
      BY <1>2, <1>4, <3>1, <3>2 DEF RefreshedInTime, InTime
  <2>. QED
    BY <2>1, <2>2
<1>5. FailureKept'
  BY <1>1, <1>2 DEF FailureKept, TypeOK, NoTry
<1>. QED
  BY <1>2, <1>3, <1>4, <1>5 DEF RefreshedInTime, InTime

LEMMA RecoverKeepsIndex ==
    ASSUME TypeOK, OneEntityPerID, RefreshedInTime, FailureKept,
           NEW t \in Thread, crit[t] \in Criteria, Recover(t)
    PROVE  OneEntityPerID' /\ RefreshedInTime' /\ FailureKept'
<1>. DEFINE k == KeyOfLookup(t)
<1>1. k \in Key
  BY KeyTypes
<1>2. /\ sites' = sites /\ sources' = sources /\ now' = now
      /\ cacheMap' = [cacheMap EXCEPT ![k] = now + minCacheDuration]
      /\ lastTry' = [lastTry EXCEPT ![k] = [how |-> "failed", at |-> now]]
  BY DEF Recover, RetryAfter
<1>3. now + minCacheDuration \in Nat
  BY ConfigAssumption DEF TypeOK
<1>4. ASSUME NEW r \in sites, cacheMap'[EntityKey(r)] # None
      PROVE  InTime(r, cacheMap'[EntityKey(r)])
  <2>0. EntityKey(r) \in Key
    BY KeyTypes DEF TypeOK
  <2>1. CASE EntityKey(r) = k
    BY <1>1, <1>2, <1>3, <2>1 DEF TypeOK, InTime
  <2>2. CASE EntityKey(r) # k
    BY <1>2, <1>4, <2>0, <2>2 DEF TypeOK, RefreshedInTime
  <2>. QED
    BY <2>1, <2>2
<1>5. RefreshedInTime'
  BY <1>2, <1>4 DEF RefreshedInTime, InTime
<1>6. None \notin Nat
  BY DocumentAssumption
<1>7. FailureKept'
  BY <1>1, <1>2, <1>3, <1>6 DEF FailureKept, TypeOK
<1>. QED
  BY <1>2, <1>5, <1>7 DEF OneEntityPerID

LEMMA ErasureKeepsIndex ==
    ASSUME TypeOK, OneEntityPerID, RefreshedInTime, FailureKept,
           NEW t \in Thread, crit[t] \in Criteria, BeyondInterval(t)
    PROVE  OneEntityPerID' /\ RefreshedInTime' /\ FailureKept'
<1>. DEFINE k == KeyOfLookup(t)
<1>1. k \in Key /\ sites' = sites /\ sources' = sources /\ now' = now /\ lastTry' = lastTry
  BY KeyTypes DEF BeyondInterval
<1>2. CASE cacheMap' = cacheMap
  BY <1>1, <1>2 DEF OneEntityPerID, RefreshedInTime, InTime, FailureKept
<1>3. CASE now > cacheMap[k] /\ cacheMap' = [cacheMap EXCEPT ![k] = None]
  <2>1. RefreshedInTime'
    BY <1>1, <1>3, KeyTypes DEF RefreshedInTime, InTime, TypeOK
  <2>2. ASSUME NEW j \in Key, lastTry'[j].how = "failed", j = k
        PROVE  now' > lastTry'[j].at + minCacheDuration
    <3>1. lastTry[j].at \in Nat /\ cacheMap[j] \in Nat \union {None}
      BY DEF TypeOK
    <3>. QED
      BY <1>1, <1>3, <2>2, <3>1, ConfigAssumption DEF FailureKept, TypeOK
  <2>3. FailureKept'
    BY <1>1, <1>3, <2>2 DEF FailureKept, TypeOK
  <2>. QED
    BY <1>1, <2>1, <2>3 DEF OneEntityPerID
<1>. QED
  BY <1>2, <1>3 DEF BeyondInterval

LEMMA MismatchKeepsIndex ==
    ASSUME TypeOK, OneEntityPerID, RefreshedInTime, FailureKept,
           NEW t \in Thread, crit[t] \in Criteria, ResolveMismatch(t)
    PROVE  OneEntityPerID' /\ RefreshedInTime' /\ FailureKept'
<1>1. KeyOfLookup(t) \in Key
  BY KeyTypes
<1>. QED
  BY <1>1 DEF ResolveMismatch, OneEntityPerID, RefreshedInTime, InTime, FailureKept, TypeOK

LEMMA QuietKeepsIndex ==
    ASSUME TypeOK, TypeOK', OneEntityPerID, RefreshedInTime, FailureKept, Quiet
    PROVE  OneEntityPerID' /\ RefreshedInTime' /\ FailureKept'
<1>1. OneEntityPerID'
  BY DEF Quiet, OneEntityPerID
<1>2. RefreshedInTime'
  <2>1. ASSUME NEW s \in sites, cacheMap[EntityKey(s)] # None
        PROVE  InTime(s, cacheMap[EntityKey(s)])'
    <3>1. s \in Site /\ cacheMap[EntityKey(s)] \in Nat
      BY <2>1, KeyTypes DEF TypeOK
    <3>. QED
      BY <2>1, <3>1, StaysInTime DEF TypeOK, RefreshedInTime, Quiet, InTime
  <2>. QED
    BY <2>1 DEF Quiet, RefreshedInTime, InTime
<1>3. FailureKept'
  <2>1. \A k \in Key : lastTry[k].at + minCacheDuration \in Nat
    BY ConfigAssumption DEF TypeOK
  <2>. QED
    BY <2>1 DEF Quiet, FailureKept, TypeOK
<1>. QED
  BY <1>1, <1>2, <1>3

LEMMA NextKeepsIndex ==
    ASSUME TypeOK, TypeOK', InCall, OneEntityPerID, RefreshedInTime, FailureKept, [Next]_vars
    PROVE  OneEntityPerID' /\ RefreshedInTime' /\ FailureKept'
<1>. USE DEF shared
<1>1. CASE Tick
  BY <1>1, QuietKeepsIndex DEF Tick, Quiet, TypeOK
<1>2. ASSUME NEW t \in Thread,
             \/ Lock(t) \/ Unlock(t) \/ ResolveCredentials(t) \/ Lookup(t) \/ WithinInterval(t)
             \/ AcquireWrite(t) \/ AcquireRead(t)
             \/ \E c \in Criteria : Call_getEntityDescriptor(t, c)
             \/ \E d \in Documents : ResolveSucceeds(t, d)
      PROVE  Quiet
  BY <1>2 DEF Lock, Unlock, ResolveCredentials, Lookup, WithinInterval, AcquireWrite, AcquireRead,
     Call_getEntityDescriptor, ResolveSucceeds, Quiet, TypeOK
<1>3. ASSUME NEW t \in Thread, BeyondInterval(t)
      PROVE  OneEntityPerID' /\ RefreshedInTime' /\ FailureKept'
  BY <1>3, ErasureKeepsIndex DEF BeyondInterval, InCall
<1>4. ASSUME NEW t \in Thread, ResolveMismatch(t)
      PROVE  OneEntityPerID' /\ RefreshedInTime' /\ FailureKept'
  BY <1>4, MismatchKeepsIndex DEF ResolveMismatch, InCall
<1>5. ASSUME NEW t \in Thread, ResolveFails(t) \/ ObserverThrows(t)
      PROVE  OneEntityPerID' /\ RefreshedInTime' /\ FailureKept'
  BY <1>5, RecoverKeepsIndex DEF ResolveFails, ObserverThrows, InCall
<1>6. ASSUME NEW t \in Thread, Install(t)
      PROVE  OneEntityPerID' /\ RefreshedInTime' /\ FailureKept'
  BY <1>6, InstallKeepsIndex
<1>7. CASE UNCHANGED vars
  BY <1>7, QuietKeepsIndex DEF vars, Quiet, TypeOK
<1>. QED
  BY <1>1, <1>2, <1>3, <1>4, <1>5, <1>6, <1>7, QuietKeepsIndex DEF Next, Proceed

-----------------------------------------------------------------------------
(* The theorems *)

LEMMA InitIInv == Init => IInv
<1>1. Init => TypeOK
  BY DEF Init, TypeOK, NoTry
<1>2. Init => InCall /\ InstallsAlone
  BY ConfigAssumption DEF Init, InCall, InstallsAlone
<1>3. Init => OneEntityPerID /\ RefreshedInTime /\ FailureKept
  BY DEF Init, OneEntityPerID, RefreshedInTime, FailureKept, NoTry
<1>. QED
  BY <1>1, <1>2, <1>3 DEF IInv

LEMMA NextIInv == IInv /\ [Next]_vars => IInv'
<1>. SUFFICES ASSUME IInv, [Next]_vars PROVE IInv'
  OBVIOUS
<1>1. TypeOK' /\ InCall' /\ InstallsAlone'
  BY NextType, NextInCall, NextInstallsAlone DEF IInv
<1>2. OneEntityPerID' /\ RefreshedInTime' /\ FailureKept'
  BY <1>1, NextKeepsIndex DEF IInv
<1>. QED
  BY <1>1, <1>2 DEF IInv

\* In every reachable state: the types, the lock, the index and the refresh times.
THEOREM InvariantCorrect == Spec => []IInv
BY InitIInv, NextIInv, PTL DEF Spec

\* Every variable keeps its type.
THEOREM TypeCorrect == Spec => []TypeOK
<1>1. IInv => TypeOK
  BY DEF IInv
<1>. QED
  BY <1>1, InvariantCorrect, PTL

\* An entityID and its artifacts lead to one entity, through any number of
\* concurrent fetches and replacements.
THEOREM IndexUnambiguous == Spec => []OneEntityPerID
<1>1. IInv => OneEntityPerID
  BY DEF IInv
<1>. QED
  BY <1>1, InvariantCorrect, PTL

\* An entity outlives its validity in the cache by the minimum caching duration
\* at most.
THEOREM RefreshTimely == Spec => []RefreshedInTime
<1>1. IInv => RefreshedInTime
  BY DEF IInv
<1>. QED
  BY <1>1, InvariantCorrect, PTL

\* A thread loses a credential only while it has given up the lock or installs.
THEOREM CredentialsSafe == Spec => CredentialsFreedUnlocked
<1>1. IInv /\ [Next]_vars => [\A t \in Thread : cred[t] = "live" /\ cred'[t] = "freed"
                                => mode[t] = "none" \/ pc[t] = "install"]_vars
  <2>. SUFFICES ASSUME IInv, Next, NEW t \in Thread, cred[t] = "live", cred'[t] = "freed"
                PROVE  mode[t] = "none" \/ pc[t] = "install"
    OBVIOUS
  <2>1. PICK u \in Thread : Install(u) \/ ObserverThrows(u)
    BY DEF Next, Proceed, shared, Tick, Lock, Unlock, ResolveCredentials, Lookup, WithinInterval,
       BeyondInterval, ResolveMismatch, ResolveFails, AcquireWrite, AcquireRead,
       Call_getEntityDescriptor, ResolveSucceeds, IInv, TypeOK
  <2>2. pc[u] = "install"
    BY <2>1 DEF Install, ObserverThrows
  <2>. QED
    BY <2>2 DEF IInv, InstallsAlone
<1>. QED
  BY <1>1, InvariantCorrect, PTL DEF Spec, CredentialsFreedUnlocked

LEMMA FetchAgainLate ==
    ASSUME IInv, NEW t \in Thread, [Next]_vars PROVE FetchAgain(t, {"failed"})
<1>. SUFFICES ASSUME pc[t] # "resolve", pc'[t] = "resolve", t \notin dangling,
                     lastTry[KeyOfLookup(t)'].how = "failed"
              PROVE  now > lastTry[KeyOfLookup(t)'].at + minCacheDuration
  BY DEF FetchAgain
<1>. USE DEF shared
<1>1. Lookup(t) \/ BeyondInterval(t)
  BY DEF Next, Proceed, vars, Tick, Lock, Unlock, ResolveCredentials, Lookup, WithinInterval,
     BeyondInterval, ResolveMismatch, ResolveFails, ObserverThrows, Recover, Install,
     AcquireWrite, AcquireRead, Call_getEntityDescriptor, ResolveSucceeds, IInv, TypeOK
<1>2. CASE Lookup(t)
  <2>1. crit[t] \in Criteria /\ crit' = crit
    BY <1>2 DEF Lookup, IInv, InCall
  <2>2. PICK s \in Offers(crit[t]) :
           /\ entity' = [entity EXCEPT ![t] = s]
           /\ pc' = [pc EXCEPT ![t] =
                IF cacheMap[IF s # None THEN EntityKey(s) ELSE KeyOf(crit[t])] # None
                THEN "check" ELSE "resolve"]
    BY <1>2 DEF Lookup
  <2>3. entity'[t] = s
    BY <2>2 DEF IInv, TypeOK
  <2>4. KeyOfLookup(t)' = IF s # None THEN EntityKey(s) ELSE KeyOf(crit[t])
    BY <2>1, <2>3 DEF KeyOfLookup, EntityKey, KeyOf
  <2>5. cacheMap[KeyOfLookup(t)'] = None
    BY <2>2, <2>4 DEF IInv, TypeOK
  <2>6. KeyOfLookup(t)' \in Key
    BY <2>1, <2>2, <2>4, KeyTypes DEF IInv
  <2>. QED
    BY <2>5, <2>6 DEF IInv, FailureKept
<1>3. CASE BeyondInterval(t)
  <2>1. KeyOfLookup(t)' = KeyOfLookup(t) /\ KeyOfLookup(t) \in Key
    BY <1>3, KeyTypes DEF BeyondInterval, KeyOfLookup, IInv, InCall
  <2>2. now > cacheMap[KeyOfLookup(t)]
    BY <1>3 DEF BeyondInterval
  <2>3. lastTry[KeyOfLookup(t)].at \in Nat /\ cacheMap[KeyOfLookup(t)] \in Nat \union {None}
    BY <2>1 DEF IInv, TypeOK
  <2>. QED
    BY <2>1, <2>2, <2>3, ConfigAssumption DEF IInv, FailureKept, TypeOK
<1>. QED
  BY <1>1, <1>2, <1>3

\* A key whose fetch failed is left alone for the minimum caching duration.
THEOREM FailuresLeftAlone == Spec => FailuresThrottled
<1>1. IInv /\ [Next]_vars => [\A t \in Thread : FetchAgain(t, {"failed"})]_vars
  BY FetchAgainLate
<1>. QED
  BY <1>1, InvariantCorrect, PTL DEF Spec, FailuresThrottled

-----------------------------------------------------------------------------
(* The provider keeps the protocol of ProviderLock *)

stageOf == [t \in Thread |-> Stage(pc[t])]

\* A step of one thread to q moves that thread to the stage of q.
LEMMA StageMoves ==
    ASSUME TypeOK, NEW t \in Thread, NEW q, pc' = [pc EXCEPT ![t] = q]
    PROVE  stageOf' = [stageOf EXCEPT ![t] = Stage(q)]
BY DEF stageOf, TypeOK

LEMMA Stages ==
    /\ Stage("idle") = "out" /\ Stage("session") = "in"
    /\ Stage("lookup") = "asking" /\ Stage("check") = "asking" /\ Stage("resolve") = "asking"
    /\ Stage("upgrade") = "waiting" /\ Stage("again") = "waiting" /\ Stage("install") = "writing"
BY DEF Stage

LEMMA GoMoves ==
    ASSUME TypeOK, NEW t \in Thread, NEW q, NEW m,
           pc' = [pc EXCEPT ![t] = q], mode' = [mode EXCEPT ![t] = m]
    PROVE  Provider!Go(t, Stage(pc[t]), Stage(q), m)
BY StageMoves DEF Provider!Go, stageOf

LEMMA StepsStutter ==
    ASSUME TypeOK, UNCHANGED <<mode, sites, sources>>,
           \/ pc' = pc
           \/ \E t \in Thread, q \in {"check", "resolve"} :
                 pc[t] \in {"lookup", "check"} /\ pc' = [pc EXCEPT ![t] = q]
    PROVE  UNCHANGED Provider!lockVars
<1>1. stageOf' = stageOf
  <2>1. ASSUME NEW t \in Thread, NEW q \in {"check", "resolve"},
               pc[t] \in {"lookup", "check"}, pc' = [pc EXCEPT ![t] = q]
        PROVE  stageOf' = stageOf
    <3>1. Stage(q) = stageOf[t]
      BY <2>1, Stages DEF stageOf
    <3>. QED
      BY <2>1, <3>1, StageMoves DEF stageOf
  <2>. QED
    BY <2>1 DEF stageOf
<1>. QED
  BY <1>1 DEF Provider!lockVars, stageOf

\* The lock protocol holds of every provider that resolves dynamically: readers
\* never see the metadata change, and a lookup gives back the lock it was called
\* with.
THEOREM KeepsLockProtocol == Spec => ProviderLockSpec
<1>1. Init => Provider!Init
  BY Stages DEF Init, Provider!Init
<1>2. IInv /\ [Next]_vars => [Provider!Step]_Provider!lockVars
  <2>. SUFFICES ASSUME IInv, [Next]_vars PROVE [Provider!Step]_Provider!lockVars
    OBVIOUS
  <2>. USE DEF shared
  <2>0. TypeOK
    BY DEF IInv
  <2>1. ASSUME NEW t \in Thread, Lock(t) \/ AcquireRead(t) PROVE Provider!Enter(t)
    <3>1. CASE Lock(t)
      <4>1. Provider!Go(t, "out", "in", "read")
        BY <2>0, <3>1, GoMoves, Stages DEF Lock
      <4>. QED
        BY <3>1, <4>1 DEF Lock, MayEnter, Provider!Enter
    <3>2. CASE AcquireRead(t)
      <4>1. Provider!Go(t, "waiting", "asking", "read")
        BY <2>0, <3>2, GoMoves, Stages DEF AcquireRead, AgainMode
      <4>. QED
        BY <3>2, <4>1 DEF AcquireRead, AgainMode, MayEnter, Provider!Enter
    <3>. QED
      BY <2>1, <3>1, <3>2
  <2>2. ASSUME NEW t \in Thread, Unlock(t) PROVE Provider!Leave(t)
    BY <2>0, <2>2, GoMoves, Stages DEF Unlock, Provider!Leave
  <2>3. ASSUME NEW t \in Thread, NEW c \in Criteria, Call_getEntityDescriptor(t, c)
        PROVE  Provider!Ask(t)
    <3>1. mode' = [mode EXCEPT ![t] = mode[t]]
      BY <2>0, <2>3 DEF Call_getEntityDescriptor, TypeOK
    <3>. QED
      BY <2>0, <2>3, <3>1, GoMoves, Stages DEF Call_getEntityDescriptor, Provider!Ask
  <2>4. ASSUME NEW t \in Thread, WithinInterval(t) \/ ResolveMismatch(t) \/ ResolveFails(t)
        PROVE  Provider!Answer(t)
    <3>1. mode' = [mode EXCEPT ![t] = mode[t]] /\ pc' = [pc EXCEPT ![t] = "session"]
          /\ pc[t] \in {"check", "resolve"} /\ UNCHANGED <<sites, sources>>
      BY <2>0, <2>4 DEF WithinInterval, ResolveMismatch, ResolveFails, Recover, TypeOK
    <3>2. Stage(pc[t]) = "asking"
      BY <3>1, Stages
    <3>3. Provider!Go(t, "asking", "in", mode[t])
      BY <2>0, <3>1, <3>2, GoMoves, Stages
    <3>. QED
      BY <3>1, <3>3 DEF Provider!Answer
  <2>5. ASSUME NEW t \in Thread, NEW d \in Documents, ResolveSucceeds(t, d) PROVE Provider!GiveUp(t)
    BY <2>0, <2>5, GoMoves, Stages DEF ResolveSucceeds, WaitingMode, Provider!GiveUp
  <2>6. ASSUME NEW t \in Thread, AcquireWrite(t) PROVE Provider!Write(t)
    <3>1. Provider!Go(t, "waiting", "writing", "write")
      BY <2>0, <2>6, GoMoves, Stages DEF AcquireWrite, InstallMode
    <3>. QED
      BY <2>6, <3>1 DEF AcquireWrite, InstallMode, MayEnter, Provider!Write
  <2>7. ASSUME NEW t \in Thread, Install(t) PROVE Provider!Change(t)
    <3>1. Provider!Go(t, "writing", "waiting", "none")
      BY <2>0, <2>7, GoMoves, Stages DEF Install
    <3>. QED
      BY <2>7, <3>1 DEF Install, IInv, InstallsAlone, Provider!Change
  <2>8. ASSUME NEW t \in Thread, ObserverThrows(t) PROVE Provider!Abandon(t)
    <3>1. mode[t] = "write" /\ mode' = [mode EXCEPT ![t] = "write"]
      BY <2>8 DEF ObserverThrows, Recover, IInv, InstallsAlone, TypeOK
    <3>2. Provider!Go(t, "writing", "in", "write")
      BY <2>0, <2>8, <3>1, GoMoves, Stages DEF ObserverThrows, Recover
    <3>. QED
      BY <2>8, <3>2 DEF ObserverThrows, Recover, Provider!Abandon
  <2>9. ASSUME NEW t \in Thread, ResolveCredentials(t) \/ Lookup(t) \/ BeyondInterval(t)
        PROVE  UNCHANGED Provider!lockVars
    BY <2>0, <2>9, StepsStutter DEF ResolveCredentials, Lookup, BeyondInterval
  <2>10. CASE Tick \/ UNCHANGED vars
    BY <2>0, <2>10, StepsStutter DEF Tick, vars
  <2>. QED
    BY <2>1, <2>2, <2>3, <2>4, <2>5, <2>6, <2>7, <2>8, <2>9, <2>10
       DEF Next, Proceed, Provider!Step
<1>. QED
  BY <1>1, <1>2, InvariantCorrect, PTL DEF Spec, ProviderLockSpec, Provider!Spec
=============================================================================
