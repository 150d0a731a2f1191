\* An evidence read in flight behind a mutation-resume barrier.
CONSTANTS
    Device = {d1}
    OpId = {a, b}
    NoOp = NoOp
    MaxGeneration = 2
    MaxGlobalActive = 1
    MaxQueuedPerDevice = 1
    MaxTombstones = 2
    Capabilities = {"EvidenceRead", "PointerClick"}
    CallersReuseIds = FALSE
    MaxRetirementRecords = 1
    MaxAutoResolutions = 2
    MaxArchive = 1
SPECIFICATION SafetySpec
INVARIANT CheckpointKeepsBarriers
