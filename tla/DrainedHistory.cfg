\* Two commands that were never sent and a history with room for one of them.
SPECIFICATION SafetySpec
CONSTANTS
    Device = {d1}
    OpId = {a, b}
    NoOp = NoOp
    MaxGeneration = 1
    MaxGlobalActive = 1
    MaxQueuedPerDevice = 1
    MaxTombstones = 1
    Capabilities = {"PointerClick"}
    CallersReuseIds = FALSE
    MaxRetirementRecords = 1
    MaxAutoResolutions = 1
    MaxArchive = 1
INVARIANT CheckpointKeepsHistory
