SPECIFICATION DesktopSpec
CONSTANTS
    w1 = w1
    w2 = w2
    o1 = o1
    alice = alice
    None = None
    Windows <- MCWindows
    Ops <- MCOps
    Operators <- MCOperators
    Policy <- MCPolicy
    MaxGeneration = 2
    MaxEpoch = 2
    MaxIssued = 1
    MaxAsks = 2
    MaxRequests = 1
    NoOne = NoOne
    RingSize = 2
    ContextTail = 1
    MaxOutput = 2
    MaxTerminalEpoch = 2
    MaxSessions = 1
    NoRoute = NoRoute
    RouteIds = {r1, r2}
    MaxEntries = 1
    MaxAttach = 2
    BackendCallIds = {k1, k2}
    CallForms = {"gateway", "session", "download"}
    MaxOwnerEpoch = 2
    MaxLinks = 2
    Dirs <- MCDirs
    Contents <- MCContents
    Names <- MCNames
    NameCost <- MCNameCost
    PageEntries = 2
    PageBytes = 4
    ScanLimit = 3
    MaxFileRead = 3
    FileSize = 5
    MaxOutside = 3
    StagingContexts = {x1, x2}
    FileNames = {n1, n2}
    MaxHandle = 4
    MaxSession = 2
    UploadLimit = 2
    DownloadLimit = 2
INVARIANTS
    HandoffSafe
    TerminalSafe
    BackendSafe
    WorkspaceSafe
    StagingSafe
PROPERTIES
    StaleSelectionNeverOpens
    FencedStaysFenced
SYMMETRY DesktopSymmetry
CHECK_DEADLOCK FALSE
