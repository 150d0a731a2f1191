\* Callers present two ids again after pruning, archiving and rotation, and
\* transient gestures are retired offline and accepted on screen; two hellos and
\* challenges, two frames and two ticks; three Hub processes over one directory
\* that keeps one checkpoint, with and without failing reads, failing syncs and
\* machine crashes.
SPECIFICATION TrustAndReuseSpec
CONSTANTS
    Device = {d1}
    OpId = {a, b}
    NoOp = NoOp
    MaxGeneration = 2
    MaxGlobalActive = 1
    MaxQueuedPerDevice = 1
    MaxTombstones = 2
    Capabilities = {"Observe", "Scroll", "Other"}
    CallersReuseIds = TRUE
    MaxRetirementRecords = 1
    MaxAutoResolutions = 1
    MaxArchive = 1
    HubRotations <- MCHubRotations
    DeviceRotations <- MCDeviceRotations
    FirstHubKey = "h1"
    FirstDeviceKey = "d1"
    GrantKeys <- MCGrantKeys
    SignerAllows <- MCSignerAllows
    GrantedCapabilities <- MCCapabilities
    Anchors <- MCAnchors
    Scenarios <- MCScenarios
    GrantTtl = 3
    IssuedAtSafety = 1
    MaxSessions = 2
    MaxFrames = 2
    MaxTicks = 2
    MaxHubStarts = 1
    MaxAgentStarts = 2
    Hub = {h1, h2, h3}
    Mutation = {m1}
    MaxRevision = 3
    MaxRetained = 1
INVARIANTS
    SessionsSafe
    LocalCrashSafe
PROPERTIES
    RetiredStaysUnknown
    ImplementsContract
\* The generation bound stops a behaviour whose checkpoint no longer restores.
CHECK_DEADLOCK FALSE
SYMMETRY TrustAndReuseSymmetry
