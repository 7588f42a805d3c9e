CONSTANTS
    Versions = {1, 2}
    Refs = {"a", "x"}
    Bad = {"x"}
    Pinned = {2}
    StartUp <- MCStartUp
    StartContent <- MCStartContent
    NoRef = "none"
    NoFail = "nofail"
    NoRow = NoRow
    Settings <- MCSettings
    Grace = 2
    DeleteMode = FALSE
    RefreshEvery = 2
    Depth = 0
SPECIFICATION FairSpec
INVARIANTS
    TypeOK
    OneListingKind
PROPERTIES
    DeletionEarnedByRow
    QuarantineHolds
    Converges
