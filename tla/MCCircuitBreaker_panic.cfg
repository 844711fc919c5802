SPECIFICATION FairSpec
CONSTANTS
    Requests = {r1, r2}
    ThresholdArg = 2
    OpenTimeout = 1
    MaxPanics = 1
PROPERTIES
    Recovery
