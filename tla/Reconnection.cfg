\* Two reconnections, so that three sessions overlap and evidence ages, and
\* one refused commit; both operations run in the backend.
SPECIFICATION DeliverySpec
CONSTANTS
    d1 = d1
    o1 = o1
    o2 = o2
    Device = {d1}
    Desktop = d1
    OpId = {o1, o2}
    BackendOps = {o1, o2}
    NoOp = NoOp
    MaxGeneration = 3
    MaxGlobalActive = 1
    MaxQueuedPerDevice = 1
    MaxTombstones = 0
    MaxJournal = 1
    MaxCancels = 0
    MaxHubCrashes = 0
    MaxStoreFailures = 1
SYMMETRY OpSymmetry
INVARIANT ReconnectionSafe
PROPERTY EvidenceOutlivesNeed
CHECK_DEADLOCK FALSE
