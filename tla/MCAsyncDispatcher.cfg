CONSTANTS
    m1 = m1
    m2 = m2
    w1 = w1
    w2 = w2
    Clients <- MCClients
    MainClients <- MCMainClients
    Tokenless <- MCTokenless
    Main = Main
    MaxRequests = 4
    Null = Null

SPECIFICATION FairSpec

INVARIANTS
    TypeOK
    TokensLeadToRequests
    NoLostWakeup

PROPERTIES
    EveryRequestRuns
    ImplementsQueue
