CONSTANTS
    W = 8
    Half = 4
    MaxTicks = 2
    MaxIdle = 2
    MaxRun = 2
    StartTick = 6
    StartIdle = 2
    c1 = c1
    c2 = c2
    c3 = c3
    e1 = e1
    e2 = e2
    e3 = e3
    Clients <- MCClients
    Events <- MCEvents
    Null = Null

SPECIFICATION FairSpec

INVARIANTS
    TypeOK
    PointersOwned
    QueueOnTime
    CounterReachesNoEvent
    StopRespected

PROPERTIES
    OnlyTheLoopMovesTime
    DispatchEnds
    ImplementsTimerWheel
