SPECIFICATION AlgorithmSpec
CONSTANTS
    Hours = {0, 20, 23}
    Minutes = {0, 25}
    Seconds = {0, 11, 59}
    Dates <- MCDates
    CodePaths <- MCCodePaths
    YamlRoutes <- MCYamlRoutes
    Requests <- MCRequests
    Digits = {"7"}
INVARIANTS
    RefusedInWindow
CHECK_DEADLOCK FALSE
