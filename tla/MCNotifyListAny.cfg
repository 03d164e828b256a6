CONSTANTS
    a = a
    b = b
    Listeners <- MCListeners
    Tags <- MCTags
    MaxDepth = 1
    AnyRemoval = TRUE

SPECIFICATION FairSpec

INVARIANTS
    AssertionsHold
