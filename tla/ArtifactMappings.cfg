\* In-memory artifact map; one of two handles may be stored again.
CONSTANTS
    Thread = {t1}
    Handle = {h1, h2}
    Content = {c1, c2, c3}
    Party = {sp1, sp2}
    NoParty = NoParty
    Null = Null
    TTL = 2
    MaxTime = 4
    Reusable <- OneReusable
SYMMETRY Symmetric
SPECIFICATION Spec
INVARIANTS IInv
PROPERTIES StoreFreesOnlyExpired StoreSweeps OneTimeSpec
CHECK_DEADLOCK FALSE
