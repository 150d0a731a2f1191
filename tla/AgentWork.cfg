\* A backend operation with an effect and a backend read over two generations with room for one journal entry; a job and
\* a test over a capacity of one;
\* three Hub processes over one row.
SPECIFICATION WorkSpec
CONSTANTS
    o1 = o1
    o2 = o2
    OpId = {o1, o2}
    BackendOps = {o1, o2}
    ReadOps = {o2}
    NoOp = NoOp
    MaxGeneration = 2
    MaxJournal = 1
    Jobs = {g1, t1}
    Tests = {t1}
    MaxConcurrent = 1
    Hub = {h1, h2, h3}
    NoHub = NoHub
    Mutation = {m1, m2}
    MaxRevision = 3
INVARIANTS
    AgentSafe
    JobsSafe
PROPERTIES
    DeadlineEndsJobs
    PostgresImplementsContract
CHECK_DEADLOCK FALSE
