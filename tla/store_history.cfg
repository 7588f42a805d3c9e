CONSTANTS
    k1 = k1
    k2 = k2
    v1 = v1
    t1 = t1
    t2 = t2
    t3 = t3
    b1 = b1
    b2 = b2
    p1 = p1
    p2 = p2
    NoTree = NoTree
    NoBlob = NoBlob
    NoJob = NoJob
    Keys = {k1}
    Names = {v1}
    MaxHist = 1
    BrotherTags = {}
    Trees = {t1, t2}
    Blobs = {b1, b2}
    Paths = {p1, p2}
    TreeAt <- MCTreeAt
    HistoryMode = TRUE
    Crashes = TRUE
    CleanupFails = FALSE
SPECIFICATION FairSpec
INVARIANTS
    TypeOK
    NoDangling
    RefsExact
    IncomingIntact
    HistTagFree
PROPERTIES
    HistoryPreserved
    TagsIssuedOnce
    ImplementsCatalog
    OrphansReclaimed
