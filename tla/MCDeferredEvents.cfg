CONSTANTS
    e1 = e1
    e2 = e2
    e3 = e3
    Events <- MCEvents
    Null = Null

SPECIFICATION FairSpec

INVARIANTS
    TypeOK
    QueueMatchesPending
    CallsLiveEvents

PROPERTIES
    EveryRequestIsNotified
    InOrder

CHECK_DEADLOCK FALSE
