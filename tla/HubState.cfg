\* One desktop, as the Hub serves, under clicks and evidence reads; three Hub
\* processes over one record; checkpoints of five releases; an installation with
\* at most one fault and two changes while it is looked at.
SPECIFICATION HubStateSpec
CONSTANTS
    Device = {d1}
    OpId = {a, b, c}
    NoOp = NoOp
    MaxGeneration = 3
    MaxGlobalActive = 1
    MaxQueuedPerDevice = 1
    MaxTombstones = 2
    Capabilities = {"EvidenceRead", "PointerClick"}
    CallersReuseIds = FALSE
    MaxRetirementRecords = 1
    MaxAutoResolutions = 1
    MaxArchive = 1
    Hub = {h1, h2, h3}
    Mutation = {m1}
    MaxRevision = 4
    SourceStates <- MCSourceStates
    MaxSequence = 4
    Advertised <- MCAdvertised
    MaxChanges = 2
INVARIANTS
    ControllerSafe
    StoreSafe
    MaintenanceSafe
    ReportsSafe
PROPERTY QuarantineEndsOnlyWithProof
SYMMETRY HubStateSymmetry
CHECK_DEADLOCK FALSE
