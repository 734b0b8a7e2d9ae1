\* The first or the last match wins; two children, both dynamic, which can deadlock; one exception.
\* A group is what a search without a role finds; entities without a role are searched for in the
\* progress run.
CONSTANTS
    p1 = p1
    p2 = p2
    Thread = {t1, t2}
    Chain <- TwoChildren
    Dynamic = {p1, p2}
    Policies = {TRUE, FALSE}
    Want = {"group", "role"}
    None = None
    MaxThrows = 1
SYMMETRY Symmetric
SPECIFICATION Spec
INVARIANTS TypeOK LockBalance GivenStaysLocked CredentialsReachable ReturnsBest NoMatchLeftOver
CHECK_DEADLOCK FALSE
