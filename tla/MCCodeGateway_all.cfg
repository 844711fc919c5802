SPECIFICATION MCFairSpec
CONSTANTS
    Routes <- AllRoutes
    UpstreamFails = TRUE
    Hours = {0, 23}
    Minutes = {0}
    Seconds = {0, 59}
    Dates <- MCDates
    CodePaths <- MCCodePaths
    YamlRoutes <- MCYamlRoutes
    Requests <- MCRequests
    Digits = {"7"}
INVARIANTS
    TypeOK
    AnsweredOnce
    ForwardedIsChecked
    DeclaredIsWhole
    SessionIsForwarded
    SubstitutedAtOnce
PROPERTIES
    ImplementsExchange
    AllEnds
CHECK_DEADLOCK FALSE
