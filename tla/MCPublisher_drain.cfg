SPECIFICATION Spec
CONSTANTS
    Handlers = {h1, h2}
    Capacity = 2
    MaxCalls = 3
INVARIANT CloseDrainsBacklog
CHECK_DEADLOCK FALSE
