SPECIFICATION MCSpec
CONSTANTS
    Routes <- AllRoutes
    UpstreamFails = FALSE
    Hours = {0, 23}
    Minutes = {0}
    Seconds = {0, 59}
    Dates <- MCDates
    CodePaths <- MCCodePaths
    YamlRoutes <- MCYamlRoutes
    Requests <- MCRequests
    Digits = {"7"}
INVARIANTS
    AckedIsProxied
CHECK_DEADLOCK FALSE
