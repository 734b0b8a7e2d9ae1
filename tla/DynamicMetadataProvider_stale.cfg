\* A lookup whose refresh fails late.
CONSTANTS
    Thread = {t1}
    Entity = {e1}
    None = None
    Documents <- MCDocuments
    minCacheDuration = 1
    maxCacheDuration = 3
    FactorNum = 3
    FactorDen = 4
    Grace = 1
    SAMLTIME_MAX = 99
    MaxTime = 4
SYMMETRY Symmetric
SPECIFICATION Spec
PROPERTIES ReturnsValid
