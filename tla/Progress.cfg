\* Two desktops with one global slot, a click and a gesture to
\* recover, two processes, a Hub with two streams and two operations.
SPECIFICATION ProgressSpec
CONSTANTS
    Device = {d1, d2}
    OpId = {a, b, c}
    NoOp = NoOp
    MaxGeneration = 2
    MaxGlobalActive = 1
    MaxQueuedPerDevice = 2
    MaxTombstones = 1
    click = click
    drag = drag
    Ops = {click, drag}
    Clis = {c1}
    None = None
    Confirmations = {"completed"}
    PolicyOf <- MCPolicyOf
    MaxGen = 2
    MaxNonce = 3
    MaxReq = 2
    Runs = {p1, p2}
    NoRun = NoRun
    Bases <- MCBases
    Edits <- MCEdits
    Streams = {s1, s2}
    Works = {o1, o2}
INVARIANTS
    AdmissionSafe
    RecoverySafe
    AnsweredMeansOver
    LifecycleSafe
PROPERTIES
    OutcomeIsFinal
    ChallengeReachesThePerson
    ContainedRunsAnswer
    StopsWhenAsked
CHECK_DEADLOCK FALSE
