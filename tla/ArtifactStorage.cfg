\* Two resolvers that race on two handles.
CONSTANTS
    Thread = {t1, t2}
    Handle = {h1, h2}
    Content = {c1, c2}
    Party = {sp1, sp2}
    NoParty = NoParty
    None = None
    TTL = 1
    MaxTime = 2
SYMMETRY Symmetric
SPECIFICATION Spec
INVARIANTS TypeOK DeliveredAsStored EndedIsGone
CHECK_DEADLOCK FALSE
