CONSTANTS
    idp = idp  stranger = stranger  m1 = m1  m2 = m2  q1 = q1  art = art  art2 = art2
    p1 = p1 p2 = p2
    Entities = {idp, stranger}
    Known = {idp}
    IDs = {m1, m2, q1}
    Artifacts = {art, art2}
    Policies = {p1, p2}
    NoEntity = NoEntity  NoID = NoID  NoIssuer = NoIssuer  NoMessage = NoMessage
    NoRequest = NoRequest
    Messages <- mcMessages
    Requests <- mcRequests
    Replies <- mcReplies
    Traffics <- mcTraffics
    Rules <- mcRules
    ErrorFatal <- mcErrorFatal
    EntityOnly = TRUE
    CheckReplay = TRUE
    Skew = 1
    Expires = 0
    MaxTime = 3
SPECIFICATION Spec
SYMMETRY Threads
INVARIANTS TypeOK RulesJudgeTheIssuer AuthenticatedByIssuer NoTimelyReplay
CHECK_DEADLOCK FALSE
