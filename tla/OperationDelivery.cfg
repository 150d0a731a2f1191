\* One reconnection, one cancellation and one restart of the Hub.
SPECIFICATION DeliverySpec
CONSTANTS
    d1 = d1
    o1 = o1
    o2 = o2
    Device = {d1}
    Desktop = d1
    OpId = {o1, o2}
    BackendOps = {o2}
    NoOp = NoOp
    MaxGeneration = 2
    MaxGlobalActive = 1
    MaxQueuedPerDevice = 1
    MaxTombstones = 0
    MaxJournal = 1
    MaxCancels = 1
    MaxHubCrashes = 1
    MaxStoreFailures = 0
INVARIANT DeliverySafe
PROPERTY SlotIsReleased
CHECK_DEADLOCK FALSE
