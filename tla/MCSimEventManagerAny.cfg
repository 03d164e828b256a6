CONSTANTS
    g1 = g1
    g2 = g2
    c1 = c1
    c2 = c2
    c3 = c3
    Globals <- MCGlobals
    Clients <- MCClients
    Events <- MCEvents
    Generations = 2
    MaxDepth = 1
    RemoveBehind = TRUE
    Null = Null

SPECIFICATION FairSpec

INVARIANTS
    GlobalPassesOnTrack
