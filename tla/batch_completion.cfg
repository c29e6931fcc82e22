SPECIFICATION FairSpec

CONSTANTS
    Total = 3
    MaxRestarts = 1
    MaxRetries = 1
    Scenarios <- OverlapOrFaults

INVARIANTS
    TypeOK
    OutputsAreKept
    SetMatchesAsset
PROPERTIES
    AnnouncedWhenSettled
    EveryBatchAnnounced

CHECK_DEADLOCK FALSE
