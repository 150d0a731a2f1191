\* One refused commit.
SPECIFICATION DeliverySpec
CONSTANTS
    d1 = d1
    o1 = o1
    o2 = o2
    Device = {d1}
    Desktop = d1
    OpId = {o1, o2}
    BackendOps = {o2}
    NoOp = NoOp
    MaxGeneration = 1
    MaxGlobalActive = 1
    MaxQueuedPerDevice = 1
    MaxTombstones = 0
    MaxJournal = 1
    MaxCancels = 0
    MaxHubCrashes = 0
    MaxStoreFailures = 1
INVARIANTS
    InFlightHasSession
CHECK_DEADLOCK FALSE
