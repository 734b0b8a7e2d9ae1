\* A filter that retains the roles of an extension type.
CONSTANTS
    None = None
    Cut = Cut
    SAMLTIME_MAX = 99
    Reader = {r1}
    Version = {1, 2, 3}
    Content <- MCContent
    Acceptable <- MCAcceptable
    CacheDuration <- MCCacheDuration
    Filters <- RetainingFilters
    FeedConfig <- MCFeedConfig
    m_minRefreshDelay = 1
    m_maxRefreshDelay = 3
    FactorNum = 3
    FactorDen = 4
    Faults = {"write", "rename"}
    MaxBackoff = 3
    MaxTime = 3
SPECIFICATION Spec
INVARIANT RetainedRolesStay
