SPECIFICATION MCSpec
CONSTANTS
    Handlers = {h1, h2}
    Capacity = 1
    MaxCalls = 2
    PatternLists <- MCPatternLists
    ReadTimeout = 5
    WriteTimeout = 5
    DynamicTimeout = 5
    Margin = 2
    MaxTime = 20
INVARIANTS
    PublishIsHarmless
CHECK_DEADLOCK FALSE
