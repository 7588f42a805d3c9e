CONSTANTS
    Subjects = {"life", "documents"}
    Lives <- MCLives
    Releases = {2, 4}
    Trees = {g, p}
    GoTrees = {g}
    ComposerTrees = {p}
    NoRow = NoRow
    NotFound = NotFound
    Nothing = Nothing
    FeedSize = 2
    DocSettings <- MCDocSettings
SPECIFICATION ProcessSpec
INVARIANTS
    OpenInUse
    OrderlyExit
PROPERTIES
    SignalEnds
    TriggersServed
    CacheRefreshes
CHECK_DEADLOCK FALSE
