SPECIFICATION NorthboundSpec
CONSTANTS
    Owners = {alice, bob}
    Contexts = {x1, x2}
    ContextCalls = {k1, k2}
    Menus <- ContextMenus
    MaxGeneration = 2
    MaxDocument = 2
    RefLimit = 3
    ContextLimit = 1
    Clients = {amy, ben}
    Starts = {j1, t1}
    Tests = {t1}
    Runs = {p1}
    Uses = {u1}
    MaxGen = 2
    RefsPerOwner = 1
    NoWork = NoWork
    Capacity = 3
    InlineMax = 1
    RetainedMax = 4
    Written = 6
    ReadMax = 4
    ToolTimeout = 30000
    PolicyTextLimit = 700
    ToolRequests <- MCToolRequests
    Policies <- GrantMenus
    Adverts <- AdvertMenus
    Operations = {o1}
    BrowserAsks <- MCBrowserAsks
    MaxWindows = 2
    MaxElements = 2
    MaxTypes = 1
    MaxPage = 2
    CommandsAsked <- MCCommandsAsked
    Modes = {"proxy", "oidc", "introspection"}
    Calls = {c1, c2}
    Peers = {p1}
    Keys = {key1, key2}
    JwksTtl = 1
    KidInterval = 1
    HttpTimeout = 1
    RateWindow = 1
    GlobalSlots = 2
    GlobalRate = 1
    PeerSlots = 1
    PeerRate = 1
INVARIANTS
    ContextsSafe
    RefsSafe
    PagingSafe
    ToolsSafe
    CatalogueSafe
    BrowserSafe
    CompletedHasItsEvidence
    AccessSafe
SYMMETRY NorthboundSymmetry
CHECK_DEADLOCK FALSE
