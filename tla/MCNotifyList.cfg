CONSTANTS
    a = a
    b = b
    Listeners <- MCListeners
    Tags <- MCTags
    MaxDepth = 2
    AnyRemoval = FALSE

SPECIFICATION FairSpec

INVARIANTS
    TypeOK
    PassesSeeTheirEntries

PROPERTIES
    InnermostPassEnds
