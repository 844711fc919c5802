SPECIFICATION FairSpec
CONSTANTS
    r1 = r1
    a1 = a1
    a2 = a2
    g1 = g1
    g2 = g2
    Requests = {r1}
    GatewayCode = "GW"
    CallerCodes = {"APP"}
    Apis = {a1, a2}
    Groups = {g1, g2}
    GroupOf <- MCGroupOf
    NoApi = NoApi
    Hosted = {a1}
    MaxEdits = 1
INVARIANTS
    TypeOK
    ForwardedIsApproved
    AnswerIsTraced
    LoggedAsAnswered
    TrailComplete
PROPERTIES
    EveryRequestEnds
CHECK_DEADLOCK FALSE
