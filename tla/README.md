# Verification of computer-use-mcp-gateway (V2)

TLA+ models of the V2 Hub and Agent of this repository, the TLC runs that check
them on small instances, and TLAPS proofs about the parts on which the rest
depends. Paths below are relative to the repository root; `ES` is
`src/v2_execution_safety.rs`, `ADM` is `src/v2_m0_execution.rs`, `HUB` is
`src/v2_m1_hub.rs`, `AGENT` is `src/v2_m1_agent.rs` and `NB` is
`src/v2_m1_northbound.rs`.

    tlc -workers 2 -config Progress.cfg MCProgress     # any run: see section 3
    tlapm AdmissionProofs.tla                          # any module *Proofs

## 1. The system

An MCP client asks the **Hub** to do something on a desktop. The Hub admits the
operation, persists the admission, signs a command and sends it over a mutually
authenticated stream to the **Agent** of that desktop, which runs it through a
backend, a process executor or a job manager and answers. The desktop is a
physical, unrepeatable resource: a click that may or may not have happened
cannot be retried. The design turns on one promise: *an operation runs at most
once, and when its outcome is unknown the desktop is quarantined until somebody
proves what happened.* Around that promise stand the people who take a desktop
over, who recover a quarantine at the device or offline, and who read reports;
the files, jobs and browser tabs that commands leave behind; and the checks in
front of the Hub.

### Components

`PROJECT.json` lists 38 components with their sources, what is modelled of each
and what is not. The ones that carry the system's logic:

| Part | State it keeps | Modelled in |
|---|---|---|
| Admission ledger (`HubAdmissionController`, ADM) | operation states, one slot per device, bounded queues, blocks, retired ids | `Admission` |
| Execution-safety controller (ES) | the ledger, records, receipts, quarantines, barriers, retirements, archive, checkpoint | `ExecutionSafety` |
| Hub writer and state-store contract (HUB, `src/v2_hub_state_store.rs`) | committed and live state, lease, fence; one record with revision and epoch | `HubWriter`, `HubStateStore` |
| Local and PostgreSQL stores | checkpoint files; one row and its lock | `LocalCheckpointStore`, `PostgresStateStore` |
| Agent gate and session (ADM, AGENT) | replay gate, evidence journal, checkpoint, the one worker | `AgentExecution` |
| Hub sessions (HUB `run_session`) | a task per generation, pending operations, the dispatch in progress | `OperationDelivery` |
| Handshake, frames, grants, rotations (`src/v2_m0_trust.rs`, `src/v2_m0_transport.rs`, `src/v2_grant_signer.rs`) | registry, session, clocks, consumed grants | `TrustedSessions` |
| Online and guided recovery | challenge, authorization, receipt; files shared with a tool | `OnlineRecovery` |
| Offline maintenance | checkpoints and locks of a stopped or running installation | `OfflineMaintenance` |
| Diagnostics and status | readings of a live system, taken one after another | `OperatorReports` |
| Hub process | configuration, streams, drain, exit | `HubLifecycle` |
| Human handoff, terminal, hosted routes | selection, permit, epoch; output ring and cursors; leases | `HumanHandoff`, `TerminalHandoff`, `HandoffRouting` |
| Mutation authority and backend link | owner file and lock, provider processes, calls | `BackendCalls` |
| Managed jobs and test sandboxes | records, supervisors, containers, the fail-closed mark | `ManagedJobs` |
| One-shot processes | control group, watch, reader threads | `ProcessExecution` |
| Workspace files, browser staging | targets and staging files; handles of contexts | `WorkspaceFiles`, `BrowserStaging` |
| Contexts, refs, reference tables, output | contexts and their refs; job and output refs; ranges | `InteractionContexts`, `HubReferences`, `OutputPaging` |
| Northbound access | rate windows, key cache, fetches | `NorthboundAccess` |
| Tools, browser commands, results, catalogue | tables and conversions between the layers | `ToolContracts`, `BrowserContracts`, `CommandResults`, `ToolCatalogue` |

### Interactions

* A handler of the Hub takes the `persistent` mutex, calls the controller, and
  calls `persist_locked` before it releases the mutex; a refused commit restores
  the previously committed registry and controller.
* The controller owns an admission ledger and calls it; both hold a state per
  operation, so the two copies can drift.
* Hub and Agent talk over one stream per *generation*, the number the registry
  advances at each authentication. Sessions overlap: the task of a superseded
  generation runs on until it notices.
* The Agent's first message on a stream is its whole evidence journal, from
  which the Hub reconciles operations whose results were lost.
* Several Hub processes may run over one state key; the writer lease decides.
* The V1 gateway and the V2 Agent of one device share the owner file, and each
  starts provider processes of its own for the same desktop.
* The recovery tool and the Agent share a directory without a lock; the offline
  tools read the directories of a Hub and an Agent that may be running.

### What is hard

Sessions of different generations working on one ledger; evidence that arrives
before the operation is known to be indeterminate; crashes on both sides of
every durability point; commits that time out and land later; refs checked when
a call is prepared and spent when it runs; a provider that goes on after its
caller gave up; jobs whose deadline, exit and stop race; bounded histories on
which a later restore still depends; callers that present old ids again.
`PROJECT.json` lists 40 such hazards at their lines, with the properties that
cover them.

## 2. Modules

    Admission  <-- ExecutionSafety              (EXTENDS: the controller calls the ledger)
    Admission  <-- OperationDelivery --> AgentExecution   (EXTENDS; INSTANCE as Agent)
    HubWriter  <-- HubStateStore, LocalCheckpointStore, PostgresStateStore
    HubStateStore  is implemented by LocalCheckpointStore and PostgresStateStore
    <M>Proofs  EXTENDS M with the theorems of section 5
    ExecutionSafetyProofs  also LocalCheckpointStore, OfflineMaintenance, TrustedSessions
    DesktopProofs     HandoffRouting, BackendCalls, BrowserStaging, TerminalHandoff,
                      HumanHandoff, WorkspaceFiles
    ServiceProofs     ProcessExecution, HubLifecycle, ManagedJobs, PostgresStateStore,
                      OnlineRecovery
    NorthboundProofs  HubReferences, OutputPaging, NorthboundAccess, InteractionContexts

Every other component module stands alone. `MC*` modules give constants their
values and put components together into one run. The components of
`MCHubState`, `MCTrustAndReuse`, `MCAgentWork`, `MCProgress`, `MCDesktop` and
`MCNorthbound` share no state: their `part` variable, fixed by the initial
state, says which one a behaviour is about, and the others rest in an initial
state. This is one TLC run in place of several and says nothing about
interactions between those components; interactions are in `OperationDelivery`
(Hub sessions, ledger, Agent, transport), `ExecutionSafety` (controller and
ledger), `HubStateStore` (several Hubs and a store), `OnlineRecovery` (Hub,
Agent, directory, tool), `BackendCalls` (two gateways, two providers),
`HumanHandoff` (Hub, Agent, operators), `TrustedSessions` (two peers and a
network) and `ManagedJobs` (Agent, job manager, sandbox runner, containers).

A definition whose comment begins with "Mutant:" is a deliberately wrong variant
of the definition that follows it; no specification uses it. Each shows that
some property notices that mistake.

### The Hub's durable decisions

**Admission.** One action per public method of `HubAdmissionController`.
`state` merges the operation table (an id without an entry is `Absent`),
`active`, `queue` and `blocked` the per-device maps, `retired` the replay-deny
index, `recoveryReads` the evidence lane. `StartNextForAvailableCapacity` is
part of every action whose method ends with it; the code looks at devices in
`HashMap` order, so the device that gets the freed slot is any eligible one.

**ExecutionSafety.** One action per state-changing method of
`AuthoritativeOperationController`; calls the Hub makes together under one lock
are one action. It extends `Admission` and calls its operators as the code calls
the ledger's methods, then updates the controller's own records, so that drift
between the two is expressible. `SnapshotRecord` and `SnapshotQuarantine` are
`snapshot_for_restart`, the `RestoreAccepts...` operators the cross-reference
checks of `restore_after_restart`. Capabilities are the classes the controller
distinguishes. With `CallersReuseIds` effectful ids are presented again after
pruning.

**HubWriter, HubStateStore, LocalCheckpointStore, PostgresStateStore.**
`HubWriter` is a Hub process as a client of the store: start-up acquires a
strictly newer epoch, each persist offers `revision + 1` on the lease held,
errors roll back and, if `fences_current_writer` says so, fence. A persistent
state is the set of transitions applied to it. `HubStateStore` is the contract:
a candidate in flight is published at most once, at any moment at which the
durable record is still the one it was based on, even after its caller gave up.
`Unavailable` promises that it will never be published,
`ReadAfterCommitMismatch` promises nothing. The two stores model each
file-system call, respectively each database statement, as a step of its own.
`OnTheirWay` of `PostgresStateStore` is the mapping of its transactions to the
contract's candidates. In `LocalCheckpointStore` a behaviour whose `faulty` is
set has failing reads, failing syncs and machine crashes. A fenced Hub's
existing sessions may still try to persist, as in the code.

**OfflineMaintenance, OperatorReports.** Tools that read a Hub's and an Agent's
checkpoint one after the other while both may run: the reconciliation audit,
inspection, resolve, accept, retire and downgrade under the state locks; the
checks, lanes and overall state of `v2_doctor`, `v2_status` and `cumg_status`.
Every reading is a step; the world changes between them. `room` of a checkpoint
says whether the ledger has a tombstone left, without which a retirement is
refused (ADM:659). An inspection reports eligibility and room side by side, and
an operator may act on it much later.

### Hub and Agent

**AgentExecution.** The session loop of the Agent around `AgentExecutionGate`.
An arm of the `select!` is one action, or two where it crosses a durability
point: `AgentBegin` writes the checkpoint with the id spent, `AgentSpawn` starts
the worker; `AgentComplete` writes the evidence, `AgentSend` sends. `AgentCrash`
may come anywhere. `ReadOps` are the ids whose commands only observe: a result
of theirs goes out without evidence (AGENT:2491), so what is said about evidence
before results is about operations with effects. `started` and `proved` are
history variables. On its own the
module is checked against a Hub that sends any id at any time and may reopen a
generation but never goes back.

**OperationDelivery.** The Hub's sessions between `Admission` and
`AgentExecution`: per generation a session task, its pending operations, the
operation its loop is dispatching, two FIFO channels and a link that may break.
A handler is one action, since it runs under the lock and commits before it
returns. `HubStoreFails` is a handler whose commit is refused. `HubCleanup` is
`cleanup_session`, which may run long after newer sessions have opened.

**TrustedSessions.** Hello, challenge, proof and acceptance; frames of an open
session under the transcript both signed; grants judged on the Hub's clock;
restarts, restored backups and rotations of Hub, device and grant keys. The
network keeps every frame and delivers any of them to anyone. A signature is
what it covers.

**OnlineRecovery.** Challenge, review, authorization, relay, application and
receipt, each file operation of the Agent and of the tool a step of its own;
sessions drop, either side restarts, challenges expire.

**HubLifecycle.** Which settings `v2_hub` accepts and what it builds from them,
and the planned shutdown: gate, drain, close, stop. A stream is open before its
hello has come; `next_agent` (HUB:4583) waits for that message without a
timeout.

### On the device

**HumanHandoff, TerminalHandoff, HandoffRouting.** A window handed to a person:
observation, selection, handle, permit and both admissions; a PTY with its ring,
two cursors, fence and writes of both sides; the hosted route registry with its
viewer and transport leases. The native operator runtime is external.

**BackendCalls.** The owner file and its OS lock, `CuaBackend` with its
operation lock, provider processes that are lost, timed out, cancelled and
replaced, and how an answer or its absence becomes the outcome the Hub is told.
A provider acts on what it received whether or not anyone waits.

**ManagedJobs, ProcessExecution.** Jobs with one supervisor each, the sandbox
runner with its container, artifact entries, provider-aware stops and monitors,
the durable fail-closed mark and the end of a session. The runner's entries and
the manager's records are two tables: a record may be pruned while its entry is
kept, and then a stop finds an unknown job (`TestStopUnknown`). One-shot processes inside or outside
a control group, with failing set-up, watch, join and clean-up.

**WorkspaceFiles, BrowserStaging.** Atomic create and replace beside another
program and machine crashes, reads and directory pages; upload and download
handles of contexts, their capacity, use and cleanup. Every removal of a staging
directory is best effort, as in the code: the record goes in any case, and
`strays` remembers the directories that stayed or whose set-up ended early.

### Towards the client

**InteractionContexts, HubReferences, OutputPaging.** Contexts and the refs of
windows, tabs, pages, elements, dialogs and staged files: a call prepares under
one lock, runs without it and publishes under it again, so two calls interleave
with each other and with reconnection. Job, test and output refs with
reservation, binding, capacity and expiry. Ranges of rolling and retained
output.

**NorthboundAccess.** The router's layers, per-peer and global windows, and the
token verifier with its key cache, whose fetch is a span during which keys are
rotated, clients leave and other calls wait. Introspection is a span as well:
the provider decides about the token (`ProviderIntrospects`), its answer is read
later (`IntrospectionAnswers`), and the token may be revoked in between.

**ToolContracts, BrowserContracts, CommandResults, ToolCatalogue.** The hand-kept
tables and conversions between client, Hub, Agent and provider: which calls each
layer accepts, which provider calls they become, what their answers conclude and
what the caller is told and can look up. One behaviour takes one request through
all layers; the requests are combinations of every field two layers tell apart,
with sizes on both sides of each limit.

## 3. Runs

| Run | Module and config | Checks | Bounds |
|---|---|---|---|
| `hub_state` | `MCHubState`, `HubState.cfg` | `ControllerSafe`: the two ledgers agree, no mutation behind a barrier, receipts match outcomes, rotation strands nothing, every checkpoint can be restored (but for findings 1 and 4); `QuarantineEndsOnlyWithProof`; `StoreSafe`: the contract; `MaintenanceSafe`: audits never guess, checkpoints stay readable, offline decisions are about the checkpoint they replace, what an inspection called eligible stays so; `ReportsSafe`: ready and healthy are earned | 3 ids, 3 generations, histories of 1 (2 tombstones); 3 Hubs, 1 transition, 4 revisions; checkpoints of 5 schemas with and without room; one fault and two changes while a report is made |
| `trust_and_reuse` | `MCTrustAndReuse`, `TrustAndReuse.cfg` | `SessionsSafe`: frames act only in their session, peers agree, grants are spent once, latency is tolerated, rotations apply once; `RetiredStaysUnknown`; `ImplementsContract` (a directory without faults) and `LocalCrashSafe` (with them) | 2 sessions, 2 frames, 2 ticks, a Hub restart, 2 Agent restarts where keys rotate and 1 elsewhere; 2 ids presented again; 3 Hubs, 3 revisions, 1 checkpoint kept |
| `agent_work` | `MCAgentWork`, `AgentWork.cfg` | `AgentSafe`; `JobsSafe`: reported completed or stopped is over, nothing outlives a session that ended in order; `DeadlineEndsJobs` (liveness); `PostgresImplementsContract` | an operation with effects and a read, 2 generations, journal of 1; a job and a test; 3 Hubs, 3 revisions |
| `delivery` | `MCOperationDelivery`, `OperationDelivery.cfg` | `DeliverySafe`: no command the Agent would refuse, what is in flight has a session, receipts are true; `SlotIsReleased` (liveness) | 2 generations, 1 cancellation, 1 Hub restart |
| `reconnection` | `MCOperationDelivery`, `Reconnection.cfg` | `ReconnectionSafe`: nothing runs twice, a declared gap is real; `EvidenceOutlivesNeed` | 3 generations, 1 refused commit |
| `progress` | `MCProgress`, `Progress.cfg` | `AdmissionSafe`, `OutcomeIsFinal`; `RecoverySafe` and `ChallengeReachesThePerson`; `AnsweredMeansOver` and `ContainedRunsAnswer`; `LifecycleSafe` and `StopsWhenAsked` (three of them liveness) | 2 devices, 3 ids, queue 2; a click and a gesture, 2 generations, 3 challenges, 2 requests; 2 processes; 6 configurations with up to 2 settings changed, 2 streams, 2 operations |
| `desktop` | `MCDesktop`, `Desktop.cfg` | `HandoffSafe`, `StaleSelectionNeverOpens`; `TerminalSafe`; `FencedStaysFenced`; `BackendSafe`; `WorkspaceSafe`; `StagingSafe` | 2 windows, 2 epochs; ring of 2, 2 bytes of output; 2 routes; 2 calls of 3 forms, 2 provider processes per role; 2 directories, pages of 2; 2 contexts, 4 handles |
| `northbound` | `MCNorthbound`, `Northbound.cfg` | `ContextsSafe`, `RefsSafe`, `PagingSafe`, `ToolsSafe`, `CatalogueSafe`, `BrowserSafe`, `CompletedHasItsEvidence`, `AccessSafe` | 2 concurrent calls; 2 people or 1, with 2 or 3 refs (4 where one page continues another) and 5 or 6 tools at a time; limits of 1 to 4 |
| `barrier_checkpoint` | `ExecutionSafety`, `BarrierCheckpoint.cfg` | **violated**: finding 1 | 2 ids, 2 generations |
| `orphaned_dispatch` | `MCOperationDelivery`, `OrphanedDispatch.cfg` | **violated**: finding 2 | 1 generation, 1 refused commit |
| `job_answers` | `MCCommandResults`, `JobAnswers.cfg` | **violated**: finding 3 | one command of each name |
| `drained_history` | `ExecutionSafety`, `DrainedHistory.cfg` | **violated**: finding 4 | 2 ids, 1 generation, a history of 1 |

### Bounds, and why they are enough

* The code's limits are scaled, not removed: histories (`MaxAutoResolutions`,
  64; `MaxArchive`, 8; `MaxTombstones`, 4096), `MaxRetained` (64), `MaxJournal`
  (64), queues, rings, tables and pages become 1 to 4, so that every eviction
  and every refusal happens. `MaxRevision` stands for `u64::MAX` (local) and
  `i64::MAX` (PostgreSQL); reaching it exercises the overflow path.
* Two ids, calls, people or contexts give every two-party race; the third id of
  `hub_state` and `progress` lets a successor exist while histories rotate and
  while another desktop competes for the global slot. Three generations are the
  least at which evidence can be two sessions old and three session tasks
  overlap. Three Hubs let a writer be superseded by one that is itself
  superseded while the first one's candidate is still on its way.
* One desktop in `hub_state`: a Hub serves one (`SingleDeviceHub`). What two
  desktops could do to each other through the shared retirement history is the
  theorem `RotationIsSafe`, for any number of them up to the size of that
  history.
* `agent_work` has one operation with effects from the backend and one read; that
  it makes no difference how many there are and of which form is `AgentIsSafe`.
* `MaxCancels`, `MaxHubCrashes`, `MaxStoreFailures`, `MaxTicks`, `MaxSessions`,
  `MaxAgentStarts`, `MaxGen`, `MaxNonce`, `MaxReq`, `MaxLinks`, `MaxOwnerEpoch`
  and `MaxOutside` bound how often the environment interferes; without them
  channels and counters would grow for ever. `CutOff` of `OnlineRecovery` takes
  out of the liveness property exactly the states in which a bound forbids the
  next session or challenge.
* The calls of `desktop` are V1 calls, V2 calls behind a session start and
  downloads, which between them take every step of `BackendCalls`; that the
  other forms are no different is the theorem `BackendIsSafe`.
* Symmetry is used only in runs without liveness and only over sets whose
  members the model treats alike. Where a run has several such sets in parts
  that share no state, one simultaneous exchange serves all of them.

`CHECK_DEADLOCK FALSE` appears where the bound itself, or the finished work of a
one-request model, stops the system.

### Fairness

All of it concerns threads the code itself runs; nothing is assumed of callers,
people, providers or the network.

* `DeliveryFairness`: a session loop that is dispatching goes on (it awaits only
  the signer, the store and the outbound channel), ends (`session_hard_deadline`)
  and runs its cleanup. A send into a full channel of 16 frames and a refused
  commit (finding 2; store failures are 0 in this run) can defeat it.
* `RecoveryFairness`: the Hub's and the Agent's loops and the Agent's
  reconnection keep running. That a person comes is not assumed.
* `JobsFairness`: the worker of a start and the supervisor thread of a job run.
* `RunsFairness`: a worker that has taken a process goes on, and its timeout
  comes.
* `HubFairness`: `main` takes its own steps; a session's loop is not starved of
  its end (strong fairness: the end is disabled while it is inside a handler).
  Nothing is assumed of a peer in its handshake. `StopsWhenAsked` therefore has
  that as its hypothesis, stream by stream: if none stays in its handshake for
  ever, a Hub that is asked to stop stops. A peer that opens a stream and never
  finishes its handshake does keep the process from stopping: `next_agent` has no
  timeout, the server (`src/bin/v2_hub.rs:654`) no keepalive, and
  `serve_with_shutdown` waits for open streams.

## 4. Where the code disagrees with its documentation

Four disagreements have a run of their own and an entry under `findings`:

1. **`barrier_checkpoint`** (ES:3745). A read dispatched behind a
   mutation-resume barrier is snapshotted as a quarantine; restore rejects a
   desktop that has both, so a Hub that stops then cannot load its checkpoint.
   The property is `CheckpointKeepsBarriers`, the part of
   `SafetyRestoreAccepts` that `CheckpointRestores` leaves out.
2. **`orphaned_dispatch`** (HUB:3029). When the store refuses the commit of
   `cleanup_session`, the operation stays `Dispatched` without a session and
   holds the slot until the Hub restarts. The `delivery` run shows that
   `InFlightHasSession` holds when commits succeed.
3. **`job_answers`** (`src/v2_m0.rs:2072`, HUB:2011).
   `DeviceResult::matches_command` has no arm for the answers to job and test
   commands, so the Hub ends the session when the Agent answers one, against
   `docs/v2/V2_MANAGED_JOBS.md:18`.
4. **`drained_history`** (ES:1881). `auto_resolutions` is drained to 64 entries
   while restore demands an entry for every operation recorded as resolved
   automatically (ES:3797), and those records stay until a later generation
   prunes them: the 65th undelivered or reconciled command that is still on
   record makes the checkpoint unrestorable, against
   `docs/v2/V2_CLOUD_RUN_HUB.md:100` and the comment at ES:2488. The property is `CheckpointKeepsHistory`. `CheckpointRestores`, which
   `hub_state` checks with a history of one entry for three ids, asks for a complete history
   only while it is not full, and for everything else restore looks at always.

These claims of the documentation are stated in the modules as well, each beside
the properties of its component; TLC refutes them when they are put into a
config as invariants. They have no run:

| Definition | The claim | What the code does |
|---|---|---|
| `DesktopNeedsAContext` | `docs/v2/V2_INTERACTION_CONTEXT.md:96` | NB:1582: the check names the plain command forms only |
| `ToldWhatToLookUp` | `docs/v2/V2_OPERATION_RECOVERY.md:43` | NB:4747: the error does not name an id the Hub generated |
| `LiveReadyIsOpen` | `docs/v2/V2_SINGLE_MAC_PRODUCTION.md:167` | `src/v2_operator_status.rs:456`: the live overlay looks at the quarantine, not at restored or barred states |
| `FailedDidNothing` | `docs/v2/V2_GUI_SEMANTIC_CAPABILITIES.md:162` | `src/backend/cua.rs:403`: a call that failed may have acted |
| `SwitchWaitsForWork` | `src/mutation_authority.rs:197` | `src/backend/cua.rs:391`: the permit of a cancelled call is released while the provider works on it |
| `ExpiredTestIsOver` | `docs/v2/V2_MANAGED_JOBS.md:26` | `src/v2_playwright_sandbox.rs:720`: the answer rests on the container's proof; the client process may still run |
| `PagesDieWithNavigation` | `docs/v2/V2_BROWSER_SEMANTIC_CAPABILITIES.md:132` | NB:2334, NB:2440: a snapshot under way publishes refs of the earlier document |
| `RefsRunInTheirSession` | the same document, line 277 | NB:2894: a ref checked in one session is used in the next: the start of a command has no session fence, and `ContextsSafe` promises only that a call carries refs of its own context and of the session it was checked in |

More were met on the way:

* ES:2749. `docs/v2/V2_OPERATION_RECOVERY.md:55` calls the id of an undelivered
  command "a terminal replay tombstone"; the next connect prunes the record and
  the id is admitted again (a behaviour of `trust_and_reuse`).
* `src/v2_hub_state_store.rs:281`. A failing read after a successful publication
  is returned as `Persistence`, which does not fence: the Hub serves from the
  rolled-back state while its candidate is the latest checkpoint. The contract
  (line 129) asks for `ReadAfterCommitMismatch`.
* `src/v2_playwright_sandbox.rs:412`. An orderly end of a session asks for a stop
  of every artifact entry. The record of a finished test is dropped after five
  minutes while its entry stays until the next start, so its stop fails with
  `UnknownJob`, the clean-up is reported as failed and the Agent marks itself
  fail-closed (AGENT:826), although nothing is left running.
  `docs/v2/V2_MANAGED_JOBS.md:41` has that mark for clean-ups that could not be
  proven.
* NB:4183. A process that ran out of time is `Failed` in the ledger and answered
  to its caller as a success whose body says `timed_out`. `AnswersAgree` of
  `ToolCatalogue` is about that body too.
* `src/v2_browser_execute.rs:1070`, 1203. A result in the closed or in the earlier
  form names neither the tab nor the route it was carried out on, so it is
  accepted whatever the provider did; `DoneIsWhatWasAsked` speaks of what the
  form of the answer names.

The passing runs avoid these by their constants or by the behaviours they speak
of, never by a changed definition: `CheckpointRestores` leaves out what findings 1
and 4 refute, `ImplementsContract` speaks of behaviours whose `faulty` is not set, and
`delivery` sets `MaxStoreFailures` to 0. `trust_and_reuse` has behaviours that
end at an unrestorable checkpoint, so it does not check deadlock.

## 5. What is proved

Each theorem holds for every value of the constants that satisfies the named
assumption of its component, which TLC evaluates in every run that extends the
module. Each safety theorem states the conjunction a run checks, so that the run
is an instance of the theorem.

| Module | Theorem | States | Assumption |
|---|---|---|---|
| `AdmissionProofs` | `AdmissionIsSafe`, `OutcomesAreFinal` and one theorem per conjunct | `AdmissionSafe`, `OutcomeIsFinal` | `AdmissionConstants` |
| `AgentExecutionProofs` | `AgentIsSafe` and one per conjunct | `AgentSafe` | `AgentConstants` |
| `HubStateStoreProofs` | `StoreIsSafe`, `StoreMovesForward` and one per conjunct | `StoreSafe`, `DurableMovesForward` | `HubWriterConstants` |
| `ExecutionSafetyProofs` | `QuarantineNeedsProof`, `RetiredIsUnknownForever`, `ControllerKeepsSchedule`, `LedgersNeverDrift`, `BarrierHolds`, `ReceiptsFit`, `RotationIsSafe`, `SafetyTypeCorrect`; `LocalIsCrashSafe`, `LocalImplements`; `MaintenanceIsSafe`; `SessionsAreSafe` | `QuarantineEndsOnlyWithProof`, `RetiredStaysUnknown`, `AdmissionSafe`, four conjuncts of `ControllerSafe`; `LocalCrashSafe`, `ImplementsContract`; `MaintenanceSafe`; `SessionsSafe` | `AdmissionConstants`, `SafetyConstants`; `HubWriterConstants`, `LocalConstants`; `SourceAssumption`; `TrustConstants` |
| `DesktopProofs` | `RoutingFencesForGood`; `BackendIsSafe`; `StagingIsSafe`; `TerminalIsSafe`; `HandoffIsSafe`, `StaleSelectionsNeverOpen`; `WritesAreHonest`, `RangesAlwaysJoin` | `FencedStaysFenced`; `BackendSafe`; `StagingSafe`; `TerminalSafe`; `HandoffSafe`, `StaleSelectionNeverOpens`; the parts of `WorkspaceSafe` about writes and ranges | `RoutingConstants`; `BackendConstants`; `StagingConstants`; `TerminalConstants`; none; `FilesConstants` |
| `ServiceProofs` | `RunsAnswersMeanOver`, `RunsOneAtATime`, `RunsNotStartedPoisoned`; `LifecycleIsSafe`; `JobsAreSafe`; `PostgresImplements`, `PostgresIsSafe`; `RecoveryIsSafe` | `AnsweredMeansOver`; `LifecycleSafe`; `JobsSafe`; `PostgresImplementsContract`, `StoreSafe` of the row; `RecoverySafe` | `RunsConstants`; none; `JobConstants`; `PostgresConstants`, `HubWriterConstants`; `RecoveryConstants` |
| `NorthboundProofs` | `RefsAreSafe`; `PagingIsSafe`; `AccessIsSafe`; `ContextsAreSafe` | `RefsSafe`; `PagingSafe`; `AccessSafe`; `ContextsSafe` | `RefConstants`; `PagingConstants`; `AccessConstants`; `ContextConstants` |
| `OperationDeliveryProofs` | `ReconnectionIsSafe`, `EvidenceIsKept`, `ReceiptsAreTrue`, `AgentNeverRefuses`, `DeliveryIsSafe` | `ReconnectionSafe`, `EvidenceOutlivesNeed`, parts of `DeliverySafe`, `DeliverySafe` | `AdmissionConstants`, `DeliveryConstants`; `DeliveryIsSafe` also `MaxStoreFailures = 0` |

### The admission ledger

A method settles an operation and then starts the next eligible one within the
same call, so the invariants have to hold of the ledger in the middle of an
action too. The inductive invariant `Ledger` is therefore a predicate of values,
not of variables: types, `Refs` (a known operation has a device), `Slots`,
`Queues` (exact, without duplicates), `Blocks`, `Excludes`, `Lane` and
`Capacity`. `Lane` is the strengthening no run states: the recovery lane holds
only running operations, and outside it nothing unsettled is retired; without
it, an operation already retired could become indeterminate and block a desktop
that nothing would unblock. One lemma per kind of change (`StartKeepsLedger`,
`FreeSlotKeepsLedger`, `CancelQueuedKeepsLedger`, `MarkIndeterminateKeepsLedger`,
`UnblockKeepsLedger`, `RetireAndCancelQueuedKeepsLedger`, `ForgetKeepsLedger`,
`RestartKeepsLedger`, and `StartNextKeepsLedger` for the successor) shows
that it is kept; `NextKeepsLedger` assembles them per action. `OutcomeIsFinal`
follows from lemmas that say which ids each of those changes may touch.

### The execution-safety controller

`AuthoritativeOperationController` keeps a record of every operation beside the
ledger it drives, and changes both in most of its methods: the ledger settles an
operation and starts the next, then the method copies what was started into its
records. `SafetyIInv` is the ledger's invariant with `BookTypes` and `RecordsOK`
(every record fits its state: a receipt exactly when it is terminal, dispatched
when in flight or unknown, a recovery read never queued nor unknown), `Agrees`
(the two copies of states and lanes are one), `Quarantines` (a quarantine has the
operation, generation and reason of the block), `Bars` (what is unsettled behind
a barrier only observes) and `Undecided` (a retired id is absent or unknown).
All but the first are operators of the books they relate, so that they can be
stated of the books between the two changes of one method; `ActivateKeeps` is the
lemma that closes each method. `MarkIndeterminateKeeps`, `RetireKeeps` (whichever
details its rotation drops, with the barrier of an accepted click raised or not)
and `RestartKeeps` are the long ones. `SafetyNextKeeps` also shows the two action
properties: every method but reconciliation, operator resolution and retirement
is `Steady`, and those three end the quarantine of their own operation only, with
the outcome or the retirement recorded in the same step. `LedgersNeverDrift`,
`BarrierHolds` and `ReceiptsFit` are three of the conjuncts of `ControllerSafe`.

`RotationIsSafe` is the fourth, `RotationNeverStrands`: when a retirement fills
the bounded history, some detail can be compacted, and none that a barrier still
needs is. It has an invariant of its own on top of `SafetyIInv`. `RotationIInv`
says that a kept detail is of a retired, ambiguous operation
(`DetailsAreRetired`), that the detail of an accepted click belongs to a barrier
or to its resume (`ClicksAreBacked`), that a barrier has the detail it was raised
for (`BarriersAreBacked`), that there are no more details than the bound
(`DetailsFit`), and that behind a barrier only a read can have become ambiguous
(`BehindBarriers`): so no retirement begins on a barred desktop, the others are
fewer than the bound, and one of the details is free. That is where the
assumption enters that desktops are no more than `MaxRetirementRecords`; the code
has one desktop and 64. The last conjunct, `CheckpointRestores`, is left to
TLC.

### The Agent

That an id does not run again is not inductive: after a crash the gate is gone
and only the checkpoint remains. The invariant adds where the loop stands and
what the gate and the worker then hold (`Control`), that the checkpoint is of
the gate's generation and already contains the active id (`Barrier`), that
whatever was started in the checkpoint's generation is spent on disk and, while
the process lives, in memory (`Spent`), and that evidence comes from a worker or
a refusal and, of an operation with effects, is on disk once sent (`Witnessed`).
`AgentReadsLeaveNothing` is the other side of it: reads, which are answered
without evidence, never take a place in the bounded journal. A command that has begun but
not been spawned was not started yet; that conjunct is what makes `AgentSpawn`
safe after `AgentBegin` was cut off by a crash.

### An operation's way to the Agent and back

`OperationDeliveryProofs` is about the composition: the ledger, any number of
overlapping Hub sessions, the transport and the Agent. It uses the ledger's
invariant and, through an instance of `AgentExecutionProofs`, the Agent's; what
it adds is what neither side knows alone. The Agent remembers spent ids for one
generation only, so that an operation never runs twice in *different*
generations cannot come from the gate; it comes from the Hub never sending a
command a second time. The argument follows an operation as a token that moves
from the ledger (`Unsent`) into one frame (`Framed`), from there into the gate,
and from there into the journal, the pending answer or a frame to the Hub
(`Done`); each place excludes the earlier ones (`Tokens`), and while it is in a
frame or in the gate the Hub still reckons with it (`Open`: in flight or
indeterminate). The ledger has one open operation at a time (`OneOpen`), which
is why no command meets another at the Agent, and why the entry the journal drops
while it settles one operation is never one the Hub still needs.

`DeliveryIInv` is `SessionTypes`, `LedgerSound`, the Agent's `AgentIInv`,
`StreamsSound` (only the newest generation has a stream; the Agent has spoken
only on streams its checkpoint has reached), `LoopsSound` (a loop dispatches the
operation in the slot, and its own), `ReceiptsSound`, `Tokens`, `Truths` (what is
answered, reported or settled on a report was established by a worker) and
`EvidenceSound` (a report on its way still holds every earlier entry of the
journal, so a gap declared on it is a gap). A step of the Hub is reduced to what
it does to each operation (`HubMove`: it stays, is admitted, advances, is
dropped, concluded, quarantined, judged or pruned) and to the sessions
(`HubShifts`); a step of the Agent to `AgentMoves` and `AgentShifts`.
`HubMovesKeep` and `AgentMovesKeep` show that such steps keep the invariant, and
one lemma per handler (`ResultKeeps`, `ReportKeeps`, `CleanupKeeps`, ...) that
the handler makes such a step. `DeliveryIsSafe` has the hypothesis that the store
refuses no commit, for the sake of `InFlightHasSession` alone: without it that
conjunct is false (`orphaned_dispatch`), while `ReceiptsAreTrue`,
`AgentNeverRefuses`, `ReconnectionIsSafe` and `EvidenceIsKept` hold with any
number of refused commits. The parts of `DeliveryIInv` were checked by TLC under
the constants of both runs before they were proved.

### The state-store contract

Hubs and candidates on their way hold copies of the record of different ages.
`Copies` and `Candidates` say that no copy is ahead of the durable record, that
a copy with its revision equals it, and that a candidate based on it drops
nothing. `Origins` says which transitions any copy may contain. `Fresh` says
that a transition a Hub is trying to persist is in its one candidate and nowhere
else, so withdrawing that candidate really refuses it. `Epochs` says that all
who may speak for an epoch (its running Hub, its commits on their way, an
acquisition published but not yet returned) are one process. `Calls` says that
an unfenced Hub has nothing in flight but its current call: this is where
fencing enters, since a Hub that went on after an uncertain commit could be
overtaken by its own earlier candidate. The interesting step is `PublishStep`: a
candidate that keeps the epoch belongs to the epoch's holder by `Epochs` and is
its current call by `Calls`.

### The PostgreSQL store

`PostgresImplements` is a refinement proof: `PostgresSpec` implies the contract
under the mapping that keeps the Hub's variables and takes as candidates on
their way (`OnTheirWay`) the transactions that could still commit. A statement
of a transaction is a stutter of the contract; the commit is its publication; a
connection that dies makes a candidate detached or withdraws it, depending on
whether the server received the commit. `PostgresIInv` carries it: `RowSound`
(a detached commit is based on the row as it is), `CallOpen` (a transaction
belongs to a call, and every candidate is a new revision), `RowHeld` (whoever
may still write the row holds its lock and read it as it is, and the lock
excludes a detached commit; an acquisition without the lock read the missing
row) and `Apart` (a detached commit is told from a later call of its Hub by its
tag), so that no two transactions publish over the same base. The
temporal step is one line, since the mapping commutes with each action;
`PostgresIsSafe` then takes `StoreIsSafe` through the mapping by an instance of
`HubStateStoreProofs`.

### The checkpoint directory

Several Hubs may work on one directory, each between listing it, linking its
candidate, syncing and reading back, so a Hub acts on a listing that others have
overtaken. `LocalIInv` says of each Hub where its copy stands: a running Hub is
behind the latest record or equal to it (`RunsBehind`); whoever looked and may
still link at the end of the directory built on the latest record, and whoever
would link below it meets a name that exists or was pruned behind a synced one,
so a name reused after pruning never becomes the latest (`LooksAhead`); what was
linked at the end stays the latest record until another follows, and is synced
before it is verified (`LinkHolds`). `HubsApart` adds that two Hubs do not have one
epoch and are not about to, and `AckedHeld` that the newest *synced* name, and
every name above it, holds everything acknowledged: that is what a crash leaves.
TLC checked `LocalIInv` with 3 Hubs and 4 revisions before it was proved. `LocalImplements` maps the directory to the contract with the latest file
as its record and, as candidates that may still be published, the calls whose
link did not land at the end. A link at the end is the publication, every other
step of the call a stutter; `PendingAfter` computes the candidates after a step
of one Hub. The mapping is claimed for behaviours without a failing read or a
machine crash, since the code breaks the contract there (section 4);
`LocalIsCrashSafe` covers those.

### Offline maintenance

`MaintIInv` says that the checkpoint on disk and the one a tool has in hand hold
only what their schema knows (`CheckpointsHold`) and that what the Agent's own
directory says of this dispatch is what happened (`EvidenceIsTrue`). That an
offline decision is about the checkpoint it replaces rests on the state lock,
which the tool holds from loading to publication (`DecisionsAreCurrent`), and that
an inspection's verdict stands on generations and settlements only going forward
while the operation is in quarantine (`VerdictsStand`). That a
checkpoint written for an older schema stays readable rests on the refusals of
that schema's writer (`PartialIsRefused`). `SourceAssumption` says that the
checkpoints a run begins with are ones their own schema can hold.

### Trusted sessions

No part of `SessionsSafe` is inductive, because it speaks of two parties that
know each other only through a carrier which repeats, delays and crosses frames.
`TrustIInv` says what every frame on the wire proves: it carries in its signature
the session it was made for, an acceptance and a command come from a connection
the Hub accepted, with its generation, and a grant's id belongs to one command
(`WireHonest`); connections are numbered by the Hub's nonces and each answers one
hello (`ConnsInOrder`). From this the Agent's open session is one the Hub accepted
(`AgentAgrees`) and a connection the Hub holds open was proved (`OpenIsProved`).
`SpentIsRemembered` is why a grant is spent once: in the session of its command
it is in the ledger or has expired there, and in another session the command does
not verify.

### Recovery, handoff and contexts

`RecoveryIInv` says that every authorization kept, on its way, being handled or
applied is one of those signed, and that a number is drawn once among them
(`Signed`), and that a receipt is sent, stored or repeated only for what the
ledger has applied (`ReceiptsAreDurable`). `HandoffIInv` follows a handle from the
selection through the request to the runtime (`SelectionsFit`, `RequestsFit`) and
says that while the Agent's loop is inside a control request no command runs and
the request is of the live session (`ChecksAreFenced`). `ContextIInv` orders refs
by the counter that numbers them (`RefsInOrder`), says that pages and
continuations belong to the context and generation of their tab (`TabsFit`) and
that a single-use ref carried by a call is no longer live (`CallFine`), which
makes `SpentOnce` and `OneSnapshotPerTab` inductive for any number of calls. The
session of a call is the one it was checked in; that it also runs in that session
is `RefsRunInTheirSession`, which is refuted (section 4).

### Workspace files

`FilesIInv` says what each step of a write has established: nothing is staged
before `StageBytes` and nothing displaced before publication (`StepFits`), and
between the last inspection and the rename, and from publication to the receipt,
the target is what the call left there unless another process touched it
(`TargetFits`), in memory and, after the sync, on disk. `ReadSoFar` says that what
a ranged read returned is the file up to its cursor.

### Calls to the backend

`BackendSafe` says that an effectful call holds the permit of the owner file for
as long as it is sent or waited for, that a command whose provider acted and
stayed silent is not called failed, and that a provider with one call before it
may still be working only on one that was cancelled. None of it is inductive,
because a call crosses three exclusions: the owner file's lock, the operation
lock of `CuaBackend` and the link to the provider process. `BackendIInv` adds
`LockHeld` (who is being sent or waited for has the operation lock),
`UnsentIsBlank`, `LinksGrow` (the number of the provider process only grows, so
a call of an old process is never that of the live one), `WorkIsLive`,
`LeftIsCancelled`, `FailureIsAnswered` and `CancelledIsOpen`. The heart of it is
`LeftIsCancelled`: a call that timed out or was lost takes its link down before
it gives up the operation lock, so the live process has none of them left. The theorem covers every form of
call; the run has three of them.

### One-shot processes

`RunsIInv` is the types with `AnsweredOnce`, `ProcessesWatched` (processes exist
only under a worker that watches them, or after an answer that says they may)
and `LockHeld` (the lock covers an operation from its control group to its
answer, and a group nobody holds the lock for has poisoned the containment).
`RunsOneAtATime` and `RunsNotStartedPoisoned` follow
from the same invariant.

### Hosted routes

`RoutingIInv` is `RoutingTypes`, `DrawnOnce` (a route's id is drawn once) and
`LeasesBehind` (every lease handed out is at or behind its route). The action
property follows from `Advances`: under one id generations do not go back, and a
route is switched on only under a new one.

### Staged files and the terminal

`StagingIInv` adds to `StagingSafe` that a handle is drawn once and is in one
table or none (`HandlesAreDistinct`) and that the running download is still pending and,
unless it may replace one, the only one of its name
(`RunningDownloadIsPending`): without it a finished download could overwrite the
file another record answers for. What `StagingSafe` says of directories is what
the code can promise while every removal may fail: each record has its directory,
and one without a record was left by a failed set-up or removal, is used by no
call and goes with the next process. `TerminalIInv` adds that what the operation
holding the gate was allowed by is still so (`GateKeepsItsAnswer`) and that
nothing written in a person's time is unread once the Agent may read or an
acknowledgement will soon let it (`NothingHiddenUnread`).

### The Hub process and managed jobs

`LifecycleIInv` says what a closed gate no longer lets through: a clean drain
found nothing past the gate, and nothing gets past it afterwards (`DrainIInv`);
and that what was loaded was validated and what was configured is in force. It
needs no assumption on constants. `JobsIInv` reduces every step of the
supervisor, its timers and the sandbox to what may happen to a record
(`Evolves`: no process comes back, a dropped record stays dropped, a terminal one
is at most dropped), with `RecordOK` (a settled record has no process),
`NothingUnderWay` where no session runs, and `ProofsAreFinal`. What is new with
the runner's own table is in `TestsAreFound` (a test has an entry, or has ended
and left no container), `ClosingStops` (in a closing session a test that no stop
is due for has ended and left no container) and `LeftByTheLost` (only a test
whose record was lost may have a container between sessions): a record pruned
behind its entry makes
the session end fail closed, never quietly.

### Refs, output and access

`RefsIInv` says that every ref and every use of one is its call's own, which
needs that a call that has begun keeps its client and generation (`Advancing`).
`PagingIInv` says that the buffer is the tail of the stream and the retained
parts are prefixes (`BufferIsTail`, `KeptIsPrefix`), and that the reader has
everything below its offset unless it was told of a gap. `AccessIInv` says of
every request which flaws can no longer be there at the layer it has reached
(`FlawsAreFound`), that the key set's lock is held by one call and a withdrawn
key is known no longer than the cache allows (`LockIsHeld`, `KeysAreRecent`), that
an introspection under way that was answered "active" was so no longer ago than
the exchange has lasted (`InquiryRecent`), and counts slots and charges per peer (`PeerBudgets`, `Charged`).

### Out of the prover's reach

Liveness under fairness (`SlotIsReleased`, `DeadlineEndsJobs`,
`ChallengeReachesThePerson`, `ContainedRunsAnswer`, `StopsWhenAsked`),
`ENABLED`, and induction over recursively defined data.

## 6. Only model-checked

* `CheckpointRestores` of `ControllerSafe`. It relates every bounded history to
  every record, and half of it is refuted by findings 1 and 4.
* The directory listing of `PagingIsComplete`: its page is cut from a sorted
  sequence by folds, whose properties need induction over data.
* `ReportsSafe`: the doctor's readings are a finite table of facts and faults,
  which the run enumerates.
* Every liveness property, which is out of the prover's reach.

The tables and conversions of
`ToolContracts`, `BrowserContracts`, `CommandResults` and `ToolCatalogue` have
finitely many cases, all of which their run enumerates; a proof would repeat it.

## 7. Grain and abstractions to keep in mind

* `ExecutionSafety` takes one controller call (or the calls one handler makes
  under the lock) as a step; `prepare` may use a superseded generation, as the
  Execute arm does not check it again.
* A checkpoint of the Agent that cannot be written ends the process, so it is
  a crash before the step.
* `ControllerSafe` is about callers whose effectful ids are new, as the Hub's own
  are; what happens when they are presented again is `trust_and_reuse`.
* All operations of `OperationDelivery` have effects: its Agent is
  `AgentExecution` with no `ReadOps`.
* The global rate window and slot are charged before a token is verified
  (`src/v2_limits.rs:412`), so in the two token modes refused requests do take
  them from others; that they do not is claimed, and holds, only of the layer
  behind a trusted proxy.
* In `OperationDelivery` commands are authentic and carry unused grants:
  signature, grant and expiry checks are in `TrustedSessions`.
* Timers are nondeterminism: whatever a deadline does may happen at any time.
  Where two deadlines are compared, a clock ticks.
* Hashes and signatures are what they cover and cannot be guessed.
* The arms of every `CASE` are disjoint: TLA+ gives overlapping arms no order,
  so a `match` whose later arms are meant for what the earlier ones left is
  written with guards that say so, and TLC and the provers read one definition.
* Payloads, audit events, metrics and wording are left out; a receipt keeps
  its outcome and its kind of evidence, a result the fields a later step reads.
* External parts (the container runtime, the CUA provider, the native operator
  runtime, the identity provider, the file system and PostgreSQL) do whatever
  the code in the repository allows for: they answer, fail, stay silent or
  answer late.

## 8. Known gaps

* Readers of older checkpoint schemas are modelled in `OfflineMaintenance` by
  the fields they lack; the migration of each field is not.
* Backpressure of the 16-frame outbound channel and byte limits of frames and
  checkpoints.
* Evidence reads inside overlapping sessions (HUB:2316).
* Sessions run over `Admission`, not over the whole of `ExecutionSafety`; a Hub
  takeover during a session is covered by `HubStateStore` only through the
  transitions a Hub loses.
* The components listed as `not_modelled` in `PROJECT.json`: key files and TLS,
  enrolment, hosted ingress, the device directory, packaging, metrics, the V1
  gateway apart from its use of the owner file and the provider, and the
  acceptance harnesses.

## 9. Plan

* Prove the part of `CheckpointRestores` that findings 1 and 4 leave.
