------------------------- MODULE OfflineMaintenance -------------------------
(***************************************************************************)
(* The offline maintenance tool (v2_maintenance.rs) beside the Hub it      *)
(* serves.  Inspections and the reconciliation audit read the Hub's and an *)
(* Agent's checkpoint without any lock, one after the other; resolve and   *)
(* retire hold the state directory's lock (v2_state_lock.rs), restore the  *)
(* checkpoint, apply one transition and publish the next checkpoint, in    *)
(* the schema it was written with (v2_execution_safety.rs).                *)
(*                                                                         *)
(* One operation is in quarantine.  It was dispatched in generation        *)
(* OpGeneration of its device; what the device really did is in truth.  A  *)
(* checkpoint has room for the tombstone of one more retired operation, or *)
(* none (MAX_RETIRED_OPERATION_TOMBSTONES).                                *)
(* A schema is the set of features its checkpoints can hold: feature n is  *)
(* the state that schema version n added.                                  *)
(***************************************************************************)
EXTENDS Integers, FiniteSets

CONSTANTS
    SourceStates,  \* [schema, features] of the checkpoints a run begins with
    MaxSequence    \* bound: checkpoints published

CurrentSchema == 15       \* EXECUTION_SAFETY_SCHEMA_VERSION
RetirementSource == 4     \* MIN_RETIREMENT_SOURCE_EXECUTION_SCHEMA_VERSION
BindingFeature == 4
PartialFeature == 6
OpGeneration == 1

OpCapabilities == {"scroll", "pointer_click", "type_text"}
AgentDirectories == {"own", "other"}
UnsettledOps == {"operator_required", "evidence_gap"}

\* A checkpoint holds no state newer than the schema of the release that wrote it.
ASSUME SourceAssumption ==
    \A s \in SourceStates : s.schema \in 1..CurrentSchema /\ s.features \subseteq 1..s.schema

VARIABLES
    disk,      \* the Hub's latest checkpoint
    stateLock, \* holder of .cumg-v2-state.lock: "free", "hub" or "tool"
    hubFence,  \* the revision the running Hub publishes next to, 0 when it is down
    tool,      \* the maintenance command in progress
    agentDisk, \* the Agent checkpoints an operator may name
    truth,     \* what the device did: "nothing", "completed" or "failed"
    audit      \* the audit or inspection in progress and its report

maintVars == <<disk, stateLock, hubFence, tool, agentDisk, truth, audit>>

NoTool == [at |-> "idle"]
NoAudit == [at |-> "idle"]

-----------------------------------------------------------------------------
(* Schemas                                                                 *)

\* restore_after_restart: no state newer than the snapshot's schema.
Readable(schema, features) == \A f \in features : f <= schema

\* What the arms of snapshot_for_restart_compatible_with refuse beyond v15 state; the
\* recovery target of v14 is only looked for by the arms of v12 and v13.
RefusedByRecent(schema) == IF schema >= 12 THEN (schema + 1)..14 ELSE (schema + 1)..13
RefusedByMiddle(schema) == (schema + 1)..13
\* v1 and v2: newer audit and recovery state is refused record by record.
RefusedByOldest(schema) == (schema + 1)..10 \cup (IF schema = 3 THEN 11..13 ELSE {13})

RefusedSince(schema) ==
    CASE schema = CurrentSchema -> {}
      [] schema \in 8..14 -> RefusedByRecent(schema)
      [] schema \in 4..7 -> RefusedByMiddle(schema)
      [] OTHER -> RefusedByOldest(schema)

\* snapshot_for_restart_compatible_with(schema)
Writable(schema, features) ==
    /\ schema < CurrentSchema => CurrentSchema \notin features
    /\ schema \in 1..CurrentSchema
    /\ features \cap RefusedSince(schema) = {}

-----------------------------------------------------------------------------
(* Inspection                                                              *)

OfflinePolicy(capability) == capability = "scroll"
AcceptancePolicy(capability) == capability \in {"scroll", "pointer_click"}

\* inspect_quarantines_read_only: retirement_eligibility.
Eligibility(d) ==
    IF ~OfflinePolicy(d.capability) THEN "ineligible_policy"
    ELSE IF d.status \notin UnsettledOps THEN "await_reconciliation"
    ELSE IF ~d.dispatched THEN "ineligible_missing_dispatch_record"
    ELSE IF d.generation <= OpGeneration THEN "requires_newer_generation"
    ELSE "eligible"

\* The report is read by the operator, who acts on it later; it names the room for
\* tombstones beside the eligibility, which does not depend on it.
Inspect ==
    /\ audit.at = "idle"
    /\ disk.op = "quarantined"
    /\ audit' = [at |-> "inspected", eligibility |-> Eligibility(disk), room |-> disk.room]
    /\ UNCHANGED <<disk, stateLock, hubFence, tool, agentDisk, truth>>

-----------------------------------------------------------------------------
(* The audit                                                               *)

\* audit_reconciliation_read_only: the Hub's half, read first.
AuditHub(dir) ==
    /\ audit.at = "idle"
    /\ disk.op = "quarantined"
    /\ audit' = [at |-> "agent", dir |-> dir, seen |-> disk]
    /\ UNCHANGED <<disk, stateLock, hubFence, tool, agentDisk, truth>>

Report(ready, authority) == [at |-> "told", ready |-> ready, authority |-> authority]
Mismatch == Report("state_mismatch", "mismatch")

\* Mutant: the devices are not compared, the evidence of any Agent will do.
JudgeAnyDevice(seen, dir) ==
    LET matching == dir.evidence IN
    IF ~dir.present THEN Report("evidence_gap", "missing")
    ELSE IF dir.marker /\ dir.replayGeneration # OpGeneration THEN Mismatch
    ELSE IF matching = {} THEN Report("insufficient", "missing")
    ELSE IF BindingFeature \notin seen.features THEN Report("insufficient", "unverifiable")
    ELSE IF \E e \in matching : e.generation # OpGeneration \/ seen.status # "auto_reconciling"
    THEN Mismatch
    ELSE IF \E e \in matching : e.state = "completed" THEN Report("confirmed_completed", "terminal")
    ELSE Report("settlement_supported", "terminal")

\* The Agent's half: device, marker generation, then the one matching terminal evidence.
Judge(seen, dir) ==
    LET matching == dir.evidence IN
    IF ~dir.present THEN Report("evidence_gap", "missing")
    ELSE IF \/ dir.device # "own"
            \/ dir.marker /\ dir.replayGeneration # OpGeneration
            \/ Cardinality(matching) > 1
            \/ \E e \in matching : e.generation # OpGeneration
    THEN Mismatch
    ELSE IF matching # {} /\ BindingFeature \notin seen.features THEN Report("insufficient", "unverifiable")
    ELSE IF matching # {} /\ seen.status # "auto_reconciling" THEN Mismatch
    ELSE IF \E e \in matching : e.state = "completed" THEN Report("confirmed_completed", "terminal")
    ELSE IF matching # {} THEN Report("settlement_supported", "terminal")
    ELSE IF seen.status = "evidence_gap" THEN Report("evidence_gap", "missing")
    ELSE Report("insufficient", IF dir.marker THEN "legacy_marker" ELSE "missing")

AuditAgent ==
    /\ audit.at = "agent"
    /\ audit' = Judge(audit.seen, agentDisk[audit.dir])
    /\ UNCHANGED <<disk, stateLock, hubFence, tool, agentDisk, truth>>

AuditDone ==
    /\ audit.at \in {"told", "inspected"}
    /\ audit' = NoAudit
    /\ UNCHANGED <<disk, stateLock, hubFence, tool, agentDisk, truth>>

-----------------------------------------------------------------------------
(* Resolve and retire                                                      *)

\* retire_indeterminate_with_disposition for LocalMaintenanceOperator, down to the
\* ledger's own check, which refuses a retirement it has no tombstone left for.
MayRetireOffline(d) ==
    /\ d.op = "quarantined"
    /\ d.dispatched
    /\ d.generation > OpGeneration
    /\ d.status \in UnsettledOps
    /\ OfflinePolicy(d.capability)
    /\ d.room > 0

\* next_offline_maintenance_fence: the epoch stays, the revision advances.
NextFence(d) == IF d.fenced THEN d.revision + 1 ELSE d.revision

\* StateDirectoryLock::acquire, load_latest, restore and the writability preflight.
ToolTakes(command) ==
    /\ tool.at = "idle"
    /\ stateLock = "free"
    /\ Readable(disk.schema, disk.features)
    /\ Writable(disk.schema, disk.features)
    /\ stateLock' = "tool"
    /\ tool' = [at |-> "loaded", command |-> command, source |-> disk]
    /\ UNCHANGED <<disk, hubFence, agentDisk, truth, audit>>

\* resolve_indeterminate_offline_at: the candidate keeps the schema of its source.
Resolved(d, decision) ==
    [d EXCEPT !.op = IF decision = "not_executed" THEN "cancelled" ELSE "completed",
              !.status = "settled",
              !.features = @ \cup (IF decision = "partial" THEN {PartialFeature} ELSE {}),
              !.revision = NextFence(d)]

ResolveCandidate ==
    /\ tool.at = "loaded"
    /\ tool.command \in {"completed", "not_executed", "partial"}
    /\ tool.source.op = "quarantined"
    /\ tool.command = "partial" => tool.source.capability = "type_text"
    /\ LET next == Resolved(tool.source, tool.command) IN
          /\ Writable(next.schema, next.features)
          /\ tool' = [tool EXCEPT !.at = "candidate", !.source = next]
    /\ UNCHANGED <<disk, stateLock, hubFence, agentDisk, truth, audit>>

\* retire_indeterminate_offline_at_with_commit: only from the current state schema and a
\* reconciling execution schema; the candidate is written in the current one.
RetireCandidate ==
    /\ tool.at = "loaded"
    /\ tool.command = "retire"
    /\ tool.source.fenced
    /\ tool.source.schema >= RetirementSource
    /\ MayRetireOffline(tool.source)
    /\ tool' = [tool EXCEPT !.at = "candidate",
                    !.source = [tool.source EXCEPT !.op = "retired", !.status = "settled",
                        !.schema = CurrentSchema, !.revision = NextFence(tool.source),
                        !.room = @ - 1]]
    /\ UNCHANGED <<disk, stateLock, hubFence, agentDisk, truth, audit>>

\* commit_offline_hub_candidate: the candidate is restored once more, its fence must be
\* the successor of the checkpoint on disk, and the sequence is compared on publication.
ToolCommits ==
    /\ tool.at = "candidate"
    /\ disk.seq < MaxSequence
    /\ Readable(tool.source.schema, tool.source.features)
    /\ tool.source.fenced = disk.fenced
    /\ disk.fenced => tool.source.revision = disk.revision + 1
    /\ disk' = [tool.source EXCEPT !.seq = disk.seq + 1]
    /\ stateLock' = "free"
    /\ tool' = NoTool
    /\ UNCHANGED <<hubFence, agentDisk, truth, audit>>

\* Any error, or the end of the process: the lock is released, nothing is published.
ToolStops ==
    /\ tool.at \in {"loaded", "candidate"}
    /\ stateLock' = "free"
    /\ tool' = NoTool
    /\ UNCHANGED <<disk, hubFence, agentDisk, truth, audit>>

-----------------------------------------------------------------------------
(* The Hub and the Agent                                                   *)

PublishCheckpoint(next) == disk' = [next EXCEPT !.seq = disk.seq + 1]

\* The Hub takes the lock and the writer epoch, and publishes in its own schema.
HubStarts ==
    /\ stateLock = "free"
    /\ disk.seq < MaxSequence
    /\ Readable(disk.schema, disk.features)
    /\ stateLock' = "hub"
    /\ hubFence' = disk.revision + 1
    /\ PublishCheckpoint([disk EXCEPT !.schema = CurrentSchema, !.fenced = TRUE, !.revision = @ + 1])
    /\ UNCHANGED <<tool, agentDisk, truth, audit>>

HubStops ==
    /\ stateLock = "hub"
    /\ stateLock' = "free"
    /\ hubFence' = 0
    /\ UNCHANGED <<disk, tool, agentDisk, truth, audit>>

\* The Agent reconnects in a new generation.
HubReconnects ==
    /\ stateLock = "hub"
    /\ disk.seq < MaxSequence
    /\ hubFence' = hubFence + 1
    /\ PublishCheckpoint([disk EXCEPT !.generation = @ + 1, !.revision = @ + 1])
    /\ UNCHANGED <<stateLock, tool, agentDisk, truth, audit>>

\* Reconciliation: the Agent's own evidence settles the operation, or its absence is noted.
HubReconciles ==
    /\ stateLock = "hub"
    /\ disk.seq < MaxSequence
    /\ disk.op = "quarantined" /\ disk.status = "auto_reconciling"
    /\ hubFence' = hubFence + 1
    /\ IF \E e \in agentDisk["own"].evidence : e.generation = OpGeneration
       THEN PublishCheckpoint([disk EXCEPT !.op = truth, !.status = "settled", !.revision = @ + 1])
       ELSE PublishCheckpoint([disk EXCEPT !.status = "evidence_gap", !.revision = @ + 1])
    /\ UNCHANGED <<stateLock, tool, agentDisk, truth, audit>>

\* The device finishes the command it was given and journals it with its marker.
AgentFinishes(ending) ==
    /\ truth = "nothing"
    /\ truth' = ending
    /\ agentDisk' = [agentDisk EXCEPT !["own"].marker = TRUE, !["own"].replayGeneration = OpGeneration,
                        !["own"].evidence = @ \cup {[generation |-> OpGeneration, state |-> ending]}]
    /\ UNCHANGED <<disk, stateLock, hubFence, tool, audit>>

-----------------------------------------------------------------------------
OldEvidence == [generation : {0}, state : {"completed"}]

MaintInit ==
    /\ \E s \in SourceStates, c \in OpCapabilities, fenced \in BOOLEAN, room \in 0..1 :
          /\ fenced => s.schema >= 11
          /\ disk = [seq |-> 1, revision |-> 1, fenced |-> fenced, schema |-> s.schema,
                     features |-> s.features, op |-> "quarantined", capability |-> c,
                     generation |-> OpGeneration, dispatched |-> TRUE, room |-> room,
                     status |-> IF BindingFeature \in s.features THEN "auto_reconciling"
                                ELSE "operator_required"]
    /\ stateLock = "free"
    /\ hubFence = 0
    /\ tool = NoTool
    /\ agentDisk \in {[d \in AgentDirectories |->
          [present |-> d = "other" \/ here, device |-> d, marker |-> d = "other",
           replayGeneration |-> IF d = "other" THEN OpGeneration ELSE 0,
           evidence |-> IF d = "other" THEN {[generation |-> OpGeneration, state |-> "completed"]}
                        ELSE old]] :
              here \in BOOLEAN, old \in {{}, OldEvidence}}
    /\ truth = "nothing"
    /\ audit = NoAudit

MaintNext ==
    \/ \E dir \in AgentDirectories : AuditHub(dir)
    \/ AuditAgent \/ Inspect \/ AuditDone
    \/ \E command \in {"completed", "not_executed", "partial", "retire"} : ToolTakes(command)
    \/ ResolveCandidate \/ RetireCandidate \/ ToolCommits \/ ToolStops
    \/ HubStarts \/ HubStops \/ HubReconnects \/ HubReconciles
    \/ \E ending \in {"completed", "failed"} : AgentFinishes(ending)

MaintSpec == MaintInit /\ [][MaintNext]_maintVars

-----------------------------------------------------------------------------
(* Properties                                                              *)

\* The audit never lets an operator confirm what the device did not do: its "confirmed
\* completed" is true although the two checkpoints were read at different times, without
\* a lock, and possibly of another device's Agent.
AuditNeverGuesses == audit.at = "told" /\ audit.ready = "confirmed_completed" => truth = "completed"

\* Every checkpoint on disk can be restored by the release whose schema it carries: an
\* offline decision that schema cannot hold is refused before anything is published.
CheckpointsStayReadable ==
    /\ Readable(disk.schema, disk.features)
    /\ tool.at = "candidate" => Readable(tool.source.schema, tool.source.features)

\* A decision made offline is one about the checkpoint it replaces: from the moment the
\* tool has loaded it nobody else settles the operation, moves the generation it was
\* judged in or publishes in between, a starting Hub included.
DecisionsAreCurrent ==
    tool.at = "candidate" =>
        /\ disk.op = "quarantined" /\ tool.source.op # "quarantined"
        /\ disk.generation = tool.source.generation
        /\ disk.fenced => tool.source.revision = disk.revision + 1

\* An operator may act on an inspection however old it is: what it called eligible stays
\* so as long as the operation is in quarantine, through restarts, reconnections and
\* reconciliation, so a retirement never takes an outcome away that was still to come.
VerdictsStand ==
    audit.at = "inspected" /\ audit.eligibility = "eligible" /\ disk.op = "quarantined" =>
        Eligibility(disk) = "eligible"

\* Offline tools may be trusted with a live directory: an audit confirms only what
\* happened, every checkpoint stays readable by its own release, decisions are about the
\* checkpoint they replace, and a verdict given to an operator stands.
MaintenanceSafe ==
    AuditNeverGuesses /\ CheckpointsStayReadable /\ DecisionsAreCurrent /\ VerdictsStand
=============================================================================
