---------------------- MODULE DynamicMetadataProvider ----------------------
(***************************************************************************)
(* The caching metadata provider that resolves entities on demand          *)
(* (saml/saml2/metadata/impl/DynamicMetadataProvider.cpp) with the index   *)
(* and the credential cache it inherits (AbstractMetadataProvider.cpp).    *)
(*                                                                         *)
(* A thread locks the provider for reading, makes one or more lookups,     *)
(* uses what they return, and unlocks.  A lookup that has to fetch an      *)
(* entity runs under the caller's read lock until the document has come    *)
(* in; it then gives that lock up, takes the write lock, installs the      *)
(* entity, and reads again.  The refresh times (m_cacheMap) are read,      *)
(* erased and written under the read lock, so other readers run between a  *)
(* thread's find and its use of the iterator.                              *)
(***************************************************************************)
EXTENDS Naturals, FiniteSets

CONSTANTS
    Thread,             \* threads that look entities up
    Entity,             \* entityIDs; an entity's artifact source is tagged by it
    None,               \* no entity, no refresh time
    Documents,          \* what a source may return: life and cacheDuration
    minCacheDuration,   \* m_minCacheDuration
    maxCacheDuration,   \* m_maxCacheDuration
    FactorNum,          \* m_refreshDelayFactor is FactorNum / FactorDen
    FactorDen,
    Grace,              \* 60 seconds in the code
    SAMLTIME_MAX,       \* the validity of an entity without validUntil
    MaxTime             \* bound on the clock, for TLC only

\* The constructor lowers the minimum to the maximum and rejects a factor that
\* is not strictly between 0 and 1.
ASSUME ConfigAssumption ==
    /\ minCacheDuration \in Nat /\ maxCacheDuration \in Nat
    /\ minCacheDuration <= maxCacheDuration
    /\ FactorNum \in Nat \ {0} /\ FactorDen \in Nat \ {0} /\ FactorNum < FactorDen
    /\ Grace \in Nat /\ SAMLTIME_MAX \in Nat /\ MaxTime \in Nat
\* The clock stays clear of the end of time.
ASSUME HorizonAssumption == MaxTime + maxCacheDuration <= SAMLTIME_MAX
ASSUME DocumentAssumption ==
    Documents \subseteq [life : Nat, cacheDuration : Nat] /\ None \notin Nat

VARIABLES
    now,        \* time(nullptr)
    sites,      \* m_sites, as the set of installed entities
    sources,    \* m_sources, as the set of entities an artifact can lead to
    cacheMap,   \* m_cacheMap: when each key may next be fetched
    mode,       \* mode[t]: the lock t holds
    pc,         \* pc[t]: where t is
    crit,       \* crit[t]: the criteria of t's current lookup
    entity,     \* entity[t]: the entity t's lookup has found so far
    fetched,    \* fetched[t]: the resolved entity and its refresh time
    dangling,   \* threads whose iterator into m_cacheMap has been erased
    cred,       \* cred[t]: the credential t was given in this session
    lastTry     \* lastTry[k]: how and when the last fetch of k ended (history)

vars == <<now, sites, sources, cacheMap, mode, pc, crit, entity, fetched, dangling, cred, lastTry>>
shared == <<sites, sources, cacheMap, dangling, lastTry>>

Site == [id : Entity, validUntil : Nat]
Criteria == [by : {"entityID", "artifact"}, id : Entity, validOnly : BOOLEAN]
Key == {"entityID", "artifact"} \X Entity
KeyOf(c) == <<c.by, c.id>>
EntityKey(s) == <<"entityID", s.id>>
NoTry == [how |-> "none", at |-> 0]

Init ==
    /\ now = 0
    /\ sites = {} /\ sources = {}
    /\ cacheMap = [k \in Key |-> None]
    /\ mode = [t \in Thread |-> "none"]
    /\ pc = [t \in Thread |-> "idle"]
    /\ crit = [t \in Thread |-> None]
    /\ entity = [t \in Thread |-> None]
    /\ fetched = [t \in Thread |-> None]
    /\ dangling = {}
    /\ cred = [t \in Thread |-> "none"]
    /\ lastTry = [k \in Key |-> NoTry]

-----------------------------------------------------------------------------
(* The decisions of the code, each with a variant that a plausible slip     *)
(* would give; the specification does not use the variants.                *)

Lesser(a, b) == IF a < b THEN a ELSE b

\* How long a document that is valid for life seconds is kept before it is
\* fetched again.  Variants: the larger of the two constraints; no upper bound.
CacheFor_Larger(d) ==
    LET exp == ((IF d.life > d.cacheDuration THEN d.life ELSE d.cacheDuration) * FactorNum) \div FactorDen
    IN IF exp > maxCacheDuration THEN maxCacheDuration
       ELSE IF exp < minCacheDuration THEN minCacheDuration ELSE exp
CacheFor(d) ==
    LET exp == (Lesser(d.life, d.cacheDuration) * FactorNum) \div FactorDen
    IN IF exp > maxCacheDuration THEN maxCacheDuration
       ELSE IF exp < minCacheDuration THEN minCacheDuration ELSE exp

\* A document about to expire is not installed.
TooShort(d) == d.life < Grace

ValidAt(s, time) == time < s.validUntil

\* What the index offers for the criteria: a valid entity if there is one, an
\* expired one only if the caller accepts it.
Indexed(c) == {s \in (IF c.by = "entityID" THEN sites ELSE sources) : s.id = c.id}
Offers(c) ==
    LET valid == {s \in Indexed(c) : ValidAt(s, now)}
    IN IF valid # {} THEN valid
       ELSE IF c.validOnly \/ Indexed(c) = {} THEN {None} ELSE Indexed(c)

\* Entities indexEntity keeps when it installs a new one for id.  Variants: it
\* does not replace; it replaces in m_sites only.
KeptSites_All(id) == sites
KeptSites(id) == {s \in sites : s.id # id}
KeptSources_All(id) == sources
KeptSources(id) == {s \in sources : s.id # id}

\* What is left of the read lock while a thread waits for the write lock.
\* Variant: it is not given up.
WaitingMode_Read == "read"
WaitingMode == "none"

\* The lock an installing thread waits for.  Variant: it stays a reader.
InstallMode_Read == "read"
InstallMode == "write"

\* The lock held when a lookup that has installed an entity starts over.
\* Variant: it forgets to take the read lock again.
AgainMode_None == "none"
AgainMode == "read"

\* Until when a key that could not be fetched is left alone.  Variants: the
\* failure is not recorded; the sign is wrong.
RetryAfter_Never == now
RetryAfter_Minus == now - minCacheDuration
RetryAfter == now + minCacheDuration

\* emitChangeEvent destroys every cached credential.
Freed == [t \in Thread |-> IF cred[t] = "live" THEN "freed" ELSE cred[t]]

\* A reader may enter when nobody writes, a writer when nobody is in.
MayEnter(t, m) ==
    IF m = "read" THEN \A u \in Thread : mode[u] # "write"
                  ELSE \A u \in Thread : mode[u] = "none"

KeyOfLookup(t) == IF entity[t] # None THEN EntityKey(entity[t]) ELSE KeyOf(crit[t])
-----------------------------------------------------------------------------

\* lock().
Lock(t) ==
    /\ pc[t] = "idle"
    /\ MayEnter(t, "read")
    /\ mode' = [mode EXCEPT ![t] = "read"]
    /\ pc' = [pc EXCEPT ![t] = "session"]
    /\ UNCHANGED <<now, shared, crit, entity, fetched, cred>>

\* unlock(): the caller is done with what it was given.
Unlock(t) ==
    /\ pc[t] = "session"
    /\ mode' = [mode EXCEPT ![t] = "none"]
    /\ pc' = [pc EXCEPT ![t] = "idle"]
    /\ entity' = [entity EXCEPT ![t] = None]
    /\ crit' = [crit EXCEPT ![t] = None]
    /\ cred' = [cred EXCEPT ![t] = "none"]
    /\ UNCHANGED <<now, shared, fetched>>

\* resolve(CredentialCriteria) for a role of the entity the lookup returned.
ResolveCredentials(t) ==
    /\ pc[t] = "session"
    /\ entity[t] # None
    /\ cred' = [cred EXCEPT ![t] = "live"]
    /\ UNCHANGED <<now, shared, mode, pc, crit, entity, fetched>>

\* getEntityDescriptor is called.
Call_getEntityDescriptor(t, c) ==
    /\ pc[t] = "session"
    /\ crit' = [crit EXCEPT ![t] = c]
    /\ pc' = [pc EXCEPT ![t] = "lookup"]
    /\ UNCHANGED <<now, shared, mode, entity, fetched, cred>>

\* The index is asked and the refresh time is found; without one the entity is
\* fetched at once.
Lookup(t) ==
    /\ pc[t] = "lookup"
    /\ \E s \in Offers(crit[t]) :
        /\ entity' = [entity EXCEPT ![t] = s]
        /\ pc' = [pc EXCEPT ![t] =
             IF cacheMap[IF s # None THEN EntityKey(s) ELSE KeyOf(crit[t])] # None
             THEN "check" ELSE "resolve"]
    /\ UNCHANGED <<now, shared, mode, crit, fetched, cred>>

\* Within the caching interval: the lookup returns what the index had.  An
\* iterator that another reader has erased may read as anything.
WithinInterval(t) ==
    /\ pc[t] = "check"
    /\ t \in dangling \/ (t \notin dangling /\ now <= cacheMap[KeyOfLookup(t)])
    /\ pc' = [pc EXCEPT ![t] = "session"]
    /\ dangling' = dangling \ {t}
    /\ UNCHANGED <<now, sites, sources, cacheMap, mode, crit, entity, fetched, cred, lastTry>>

\* Beyond it: the entry is erased, which invalidates the iterators of the other
\* readers that have found it.
BeyondInterval(t) ==
    /\ pc[t] = "check"
    /\ \/ /\ t \in dangling
          /\ dangling' = dangling \ {t}
          /\ UNCHANGED cacheMap
       \/ /\ t \notin dangling
          /\ now > cacheMap[KeyOfLookup(t)]
          /\ cacheMap' = [cacheMap EXCEPT ![KeyOfLookup(t)] = None]
          /\ dangling' = dangling \union
               {u \in Thread \ {t} : pc[u] = "check" /\ KeyOfLookup(u) = KeyOfLookup(t)}
    /\ pc' = [pc EXCEPT ![t] = "resolve"]
    /\ UNCHANGED <<now, sites, sources, mode, crit, entity, fetched, cred, lastTry>>

\* A document with the right entityID arrives, is valid against the schema,
\* passes the filters and is not about to expire; the read lock is given up.
\* Nothing is fetched for an artifact.
ResolveSucceeds(t, d) ==
    /\ pc[t] = "resolve"
    /\ crit[t].by = "entityID"
    /\ ~TooShort(d)
    /\ fetched' = [fetched EXCEPT ![t] =
         [site |-> [id |-> crit[t].id,
                    validUntil |-> IF d.life = SAMLTIME_MAX THEN d.life ELSE now + d.life],
          refresh |-> now + CacheFor(d)]]
    /\ mode' = [mode EXCEPT ![t] = WaitingMode]
    /\ pc' = [pc EXCEPT ![t] = "upgrade"]
    /\ UNCHANGED <<now, shared, crit, entity, cred>>

\* The document has another entityID: the lookup returns what the index had.
ResolveMismatch(t) ==
    /\ pc[t] = "resolve"
    /\ crit[t].by = "entityID"
    /\ pc' = [pc EXCEPT ![t] = "session"]
    /\ lastTry' = [lastTry EXCEPT ![KeyOfLookup(t)] = [how |-> "mismatch", at |-> now]]
    /\ UNCHANGED <<now, sites, sources, cacheMap, dangling, mode, crit, entity, fetched, cred>>

\* The catch clause: the key is left alone for a while, and the lookup returns
\* what the index had.
Recover(t) ==
    /\ cacheMap' = [cacheMap EXCEPT ![KeyOfLookup(t)] = RetryAfter]
    /\ pc' = [pc EXCEPT ![t] = "session"]
    /\ lastTry' = [lastTry EXCEPT ![KeyOfLookup(t)] = [how |-> "failed", at |-> now]]
    /\ UNCHANGED <<now, sites, sources, dangling, mode, crit, entity>>

\* No document, an invalid or filtered one, one about to expire, or an artifact.
ResolveFails(t) ==
    /\ pc[t] = "resolve"
    /\ Recover(t)
    /\ UNCHANGED <<fetched, cred>>

AcquireWrite(t) ==
    /\ pc[t] = "upgrade"
    /\ MayEnter(t, InstallMode)
    /\ mode' = [mode EXCEPT ![t] = InstallMode]
    /\ pc' = [pc EXCEPT ![t] = "install"]
    /\ UNCHANGED <<now, shared, crit, entity, fetched, cred>>

\* emitChangeEvent, the refresh time, the index; then the lock is given up.
Install(t) ==
    /\ pc[t] = "install"
    /\ LET s == fetched[t].site
       IN /\ sites' = KeptSites(s.id) \union {s}
          /\ sources' = KeptSources(s.id) \union {s}
          /\ cacheMap' = [cacheMap EXCEPT ![EntityKey(s)] = fetched[t].refresh]
          /\ lastTry' = [lastTry EXCEPT ![EntityKey(s)] = NoTry]
    /\ cred' = Freed
    /\ fetched' = [fetched EXCEPT ![t] = None]
    /\ mode' = [mode EXCEPT ![t] = "none"]
    /\ pc' = [pc EXCEPT ![t] = "again"]
    /\ UNCHANGED <<now, dangling, crit, entity>>

\* An observer throws: the catch clause returns with the write lock held.
ObserverThrows(t) ==
    /\ pc[t] = "install"
    /\ Recover(t)
    /\ cred' = Freed
    /\ fetched' = [fetched EXCEPT ![t] = None]

\* The read lock is taken again and the lookup starts over.
AcquireRead(t) ==
    /\ pc[t] = "again"
    /\ MayEnter(t, AgainMode)
    /\ mode' = [mode EXCEPT ![t] = AgainMode]
    /\ pc' = [pc EXCEPT ![t] = "lookup"]
    /\ UNCHANGED <<now, shared, crit, entity, fetched, cred>>

Tick ==
    /\ now < MaxTime
    /\ now' = now + 1
    /\ UNCHANGED <<shared, mode, pc, crit, entity, fetched, cred>>

Proceed(t) ==
    \/ Lookup(t) \/ WithinInterval(t) \/ BeyondInterval(t)
    \/ ResolveMismatch(t) \/ ResolveFails(t) \/ \E d \in Documents : ResolveSucceeds(t, d)
    \/ Install(t) \/ ObserverThrows(t)

Next ==
    \/ Tick
    \/ \E t \in Thread :
        \/ Lock(t) \/ Unlock(t) \/ ResolveCredentials(t)
        \/ \E c \in Criteria : Call_getEntityDescriptor(t, c)
        \/ Proceed(t) \/ AcquireWrite(t) \/ AcquireRead(t)

Spec == Init /\ [][Next]_vars

\* Threads are scheduled, sources answer or time out, callers unlock, and a
\* thread that waits for the lock gets it if it is free again and again.
Fairness ==
    \A t \in Thread :
        /\ WF_vars(Proceed(t)) /\ SF_vars(Unlock(t))
        /\ SF_vars(AcquireWrite(t)) /\ SF_vars(AcquireRead(t))

FairSpec == Spec /\ Fairness
-----------------------------------------------------------------------------
(* Properties *)

\* Every variable has its type.
TypeOK ==
    /\ now \in Nat
    /\ sites \subseteq Site /\ sources \subseteq Site
    /\ cacheMap \in [Key -> Nat \union {None}]
    /\ mode \in [Thread -> {"none", "read", "write"}]
    /\ pc \in [Thread -> {"idle", "session", "lookup", "check", "resolve", "upgrade", "install", "again"}]
    /\ crit \in [Thread -> Criteria \union {None}]
    /\ entity \in [Thread -> Site \union {None}]
    /\ fetched \in [Thread -> [site : Site, refresh : Nat] \union {None}]
    /\ dangling \subseteq Thread
    /\ cred \in [Thread -> {"none", "live", "freed"}]
    /\ lastTry \in [Key -> [how : {"none", "failed", "mismatch"}, at : Nat]]

\* Whoever installs holds the write lock and is alone.
InstallsAlone ==
    \A t \in Thread : pc[t] = "install" =>
        mode[t] = "write" /\ \A u \in Thread \ {t} : mode[u] = "none"

\* An entityID has one entity in the index, and an artifact leads to the one
\* its entityID leads to, never to a replaced one.
OneEntityPerID ==
    /\ \A r, s \in sites : r.id = s.id => r = s
    /\ sources = sites

\* An entity is not kept past its validity for longer than the minimum caching
\* duration before a new document is fetched.
InTime(s, at) == at <= s.validUntil \/ at <= now + minCacheDuration
RefreshedInTime ==
    \A s \in sites : cacheMap[EntityKey(s)] # None => InTime(s, cacheMap[EntityKey(s)])

\* A credential is destroyed only while the thread that uses it has given up
\* the lock, or is itself the one that installs.
CredentialsFreedUnlocked ==
    [][\A t \in Thread : cred[t] = "live" /\ cred'[t] = "freed"
         => mode[t] = "none" \/ pc[t] = "install"]_vars

\* What a thread was given in a session stays in use only under the lock: no
\* thread holds a destroyed credential while it works in its session.  The code
\* does not keep this: see the README.
CredentialsLive ==
    \A t \in Thread : pc[t] = "session" => cred[t] # "freed"

\* After a fetch that failed with an exception the key is left alone for the
\* minimum caching duration, by every thread whose iterator is still good.
FetchAgain(t, outcomes) ==
    pc[t] # "resolve" /\ pc'[t] = "resolve" /\ t \notin dangling /\ lastTry[KeyOfLookup(t)'].how \in outcomes
        => now > lastTry[KeyOfLookup(t)'].at + minCacheDuration
FailuresThrottled == [][\A t \in Thread : FetchAgain(t, {"failed"})]_vars

\* The same of every fetch that brought nothing.  The code does not keep this:
\* see the README.
AttemptsThrottled == [][\A t \in Thread : FetchAgain(t, {"failed", "mismatch"})]_vars

\* A lookup that asked for valid metadata and could not refresh what it had
\* returns no expired entity.
ReturnsValid ==
    [][\A t \in Thread :
         pc[t] \in {"resolve", "install"} /\ pc'[t] = "session"
            /\ crit[t].validOnly /\ entity[t] # None => ValidAt(entity[t], now)]_vars

\* The provider keeps the lock protocol every metadata provider promises.
Stage(p) ==
    CASE p = "idle" -> "out"
      [] p = "session" -> "in"
      [] p \in {"lookup", "check", "resolve"} -> "asking"
      [] p \in {"upgrade", "again"} -> "waiting"
      [] p = "install" -> "writing"

Provider == INSTANCE ProviderLock
    WITH stage <- [t \in Thread |-> Stage(pc[t])], metadata <- <<sites, sources>>

ProviderLockSpec == Provider!Spec

\* Every lookup ends.
LookupsEnd == \A t \in Thread : pc[t] = "lookup" ~> pc[t] = "session"
=============================================================================
