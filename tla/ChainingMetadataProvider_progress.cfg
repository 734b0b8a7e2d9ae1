\* Searches end when only the first child is dynamic and nothing throws.
CONSTANTS
    p1 = p1
    p2 = p2
    Thread = {t1, t2}
    Chain <- TwoChildren
    Dynamic = {p1}
    Policies = {TRUE}
    Want = {"entity", "role"}
    None = None
    MaxThrows = 0
SPECIFICATION FairSpec
PROPERTIES SearchesEnd
