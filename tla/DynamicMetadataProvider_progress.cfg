\* Lookups of two threads end.
CONSTANTS
    Thread = {t1, t2}
    Entity = {e1}
    None = None
    Documents <- LongLived
    minCacheDuration = 0
    maxCacheDuration = 0
    FactorNum = 3
    FactorDen = 4
    Grace = 1
    SAMLTIME_MAX = 99
    MaxTime = 1
SPECIFICATION FairSpec
PROPERTIES LookupsEnd
