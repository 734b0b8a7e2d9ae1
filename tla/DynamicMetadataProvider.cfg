\* Two threads that look one entity up.
CONSTANTS
    Thread = {t1, t2}
    Entity = {e1}
    None = None
    Documents <- MCDocuments
    minCacheDuration = 1
    maxCacheDuration = 3
    FactorNum = 3
    FactorDen = 4
    Grace = 1
    SAMLTIME_MAX = 99
    MaxTime = 3
SYMMETRY Symmetric
SPECIFICATION Spec
INVARIANTS TypeOK OneEntityPerID RefreshedInTime
PROPERTIES FailuresThrottled CredentialsFreedUnlocked ProviderLockSpec
