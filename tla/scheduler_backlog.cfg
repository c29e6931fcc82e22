SPECIFICATION FairSpec

CONSTANTS
    N = 4
    MaxConcurrent = 2
    MaxQueued = 1
    Backlogged = TRUE

INVARIANTS
    FairShare

PROPERTIES
    EveryGeneratorServed
