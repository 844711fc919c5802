SPECIFICATION FairSpec
CONSTANTS
    Handlers = {h1, h2}
    Capacity = 2
    MaxCalls = 3
INVARIANTS
    TypeOK
    HandlerOrder
    EveryEventAccounted
    WriterClosedLast
PROPERTIES
    HandlersFinish
    CloseReturns
    BacklogMoves
    ImplementsLossyLog
CHECK_DEADLOCK FALSE
