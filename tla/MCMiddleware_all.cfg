SPECIFICATION MCSpec
CONSTANTS
    Requests = {r1, r2, r3}
    ThresholdArg = 0
    OpenTimeout = 3
    MaxPanics = 1
    Clients = {c1, c2, c3, c4}
    Interval = 2
    Burst = 2
    MaxWait = 4
    Late = 1
INVARIANTS
    TypeOK
    BreakerInv
    ProbeAlive
    LimiterTypeOK
    RateBound
    QueueBound
    RefusalIsJust
PROPERTIES
    ImplementsGate
    RecoveryUnlessPanic
    WaitEnds
