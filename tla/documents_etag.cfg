CONSTANTS
    Subjects = {"documents"}
    dGlobal = dGlobal
    dKey = dKey
    dVersion = dVersion
    k1 = k1
    v1 = v1
    NoUrl = NoUrl
    NoRemoteKey = NoRemoteKey
    NoStats = NoStats
    NoContent = NoContent
    NoKey = NoKey
    NoVersion = NoVersion
    NoRecord = NoRecord
    Keys = {k1}
    Urls = {u1}
    RemoteKeys = {r1}
    Stats = {s1}
    Contents = {c1}
    Diags = {dGlobal, dKey, dVersion}
    KeyOf <- MCKeyOf
    VersionOf <- MCVersionOf
    Reasons = {w1}
    MaxDiagnostics = 2
    permanentAt = 2
    MaxScan = 3
    MaxDropped = 1
    Releases = {2, 4}
    Trees = {g, p}
    GoTrees = {g}
    ComposerTrees = {p}
    NoRow = NoRow
    NotFound = NotFound
    Nothing = Nothing
    FeedSize = 2
    DocSettings <- MCEtagSettings
    Tags = {1, 2, 3}
    TreeContents <- MCContents
    SizeOf <- MCSizeOf
    Gone = Gone
    LinkSettings <- MCLinkSettings
    Top = "k-1"
    Unhygienic = {"/"}
    Reserved = {"con"}
    Headers <- MCHeaders
    ArchiveSettings <- MCArchiveSettings
    PathBytes = {"m", "/", "h", "k"}
    ZipTrees <- MCZipTrees
    ZipSettings <- MCZipSettings
    Fetches = {f1, f2}
    NoSpool = NoSpool
    NoValidator = NoValidator
    DownloadSettings <- MCDownloadSettings
    Requests <- MCRequests
    BlobsOf <- MCBlobsOf
    BytesOf <- MCBytesOf
    PageSize = 2
    FirstHistorical = 100
    MaxCommits = 4
    NoRequest = NoRequest
    QuotaSettings <- MCQuotaSettings
SPECIFICATION AllSpec
INVARIANTS
    EtagIsCurrent
CHECK_DEADLOCK FALSE
