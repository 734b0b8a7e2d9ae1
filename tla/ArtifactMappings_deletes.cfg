\* The sweep of storeContent and the destructor of Mapping.
CONSTANTS
    Thread = {t1}
    Handle = {h1, h2}
    Content = {c1, c2}
    Party = {sp1}
    NoParty = NoParty
    Null = Null
    TTL = 1
    MaxTime = 2
    Reusable = {}
SPECIFICATION Spec
INVARIANTS DeletedOnce
CHECK_DEADLOCK FALSE
