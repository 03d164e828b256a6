CONSTANTS
    m1 = m1
    w1 = w1
    Clients <- MCClients
    Workers <- MCWorkers
    Delays <- MCDelays
    Quantum = 2
    LastRequest = 2
    MaxTime = 6
    MaxRequests = 3
    Never = Never
    Null = Null

SPECIFICATION FairSpec

INVARIANTS
    ArmedInTime

CHECK_DEADLOCK FALSE
