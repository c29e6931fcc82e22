SPECIFICATION FairSpec

CONSTANTS
    NumAssets = 2
    NumMedia = 3
    Content = {"x", "y", "z"}
    None = "none"
    Scenarios <- Circumstances

INVARIANTS
    TypeOK
    OwnedBytesKept
    BytesAccountedFor
    BarredRowIsInHand
    CompletedIsGone
    CountsAddUp
PROPERTIES
    StrangersUntouched
    EveryOperationEnds

CHECK_DEADLOCK FALSE
