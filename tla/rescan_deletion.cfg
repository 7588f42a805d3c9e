CONSTANTS
    Versions = {1, 2, 3}
    Refs = {"a", "x"}
    Bad = {"x"}
    Pinned = {1}
    StartUp <- MCWindowStartUp
    StartContent <- MCStartContent
    NoRef = "none"
    NoFail = "nofail"
    NoRow = NoRow
    Settings <- MCWindowSettings
    Grace = 2
    DeleteMode = FALSE
    RefreshEvery = 2
    Depth = 2
SPECIFICATION Spec
PROPERTY DeletionEarned
