------------------------------ MODULE Admission ------------------------------
(***************************************************************************)
(* The Hub's per-desktop admission ledger: HubAdmissionController in       *)
(* src/v2_m0_execution.rs.  Each controller method is one action.  A       *)
(* method that returns an error changes nothing, so an action is enabled   *)
(* exactly when the method returns Ok and changes the ledger.              *)
(*                                                                         *)
(* Abstractions: an operation id is an element of OpId and a device id an  *)
(* element of Device (the non-empty-string checks always pass); an absent  *)
(* HashMap entry is the value NoOp, the state "Absent" or the empty queue. *)
(***************************************************************************)
EXTENDS Naturals, Sequences, FiniteSets, SequencesExt

CONSTANTS
    Device,              \* interactive desktops, each owned by one Agent
    OpId,                \* operation ids
    NoOp,                \* "no operation": an absent HashMap entry
    MaxGeneration,       \* bound on the authenticated device generation
    MaxGlobalActive,     \* AdmissionLimits.max_global_active
    MaxQueuedPerDevice,  \* AdmissionLimits.max_queued_per_device
    MaxTombstones        \* MAX_RETIRED_OPERATION_TOMBSTONES (4096 in the code)

ASSUME AdmissionConstants ==
    /\ IsFiniteSet(Device)
    /\ NoOp \notin OpId
    /\ MaxGeneration \in Nat
    /\ MaxGlobalActive \in Nat \ {0}
    /\ MaxQueuedPerDevice \in Nat
    /\ MaxTombstones \in Nat

VARIABLES
    state,          \* operations[id].state, or "Absent"
    ref,            \* operations[id].operation: device and generation
    active,         \* active_by_device
    queue,          \* queued_by_device
    blocked,        \* blocked_by_indeterminate
    retired,        \* retired_indeterminate: the exact replay-deny index
    recoveryReads   \* recovery_read_only_operations

admissionVars == <<state, ref, active, queue, blocked, retired, recoveryReads>>

Generation == 1..MaxGeneration

InFlight == {"Dispatched", "CancelRequested"}
Running == {"ActiveNotDispatched"} \cup InFlight
Unsettled == {"Queued"} \cup Running
Terminal == {"Completed", "Failed", "Cancelled"}
HubOperationState == Unsettled \cup Terminal \cup {"Indeterminate"}

OperationRef == [device : Device, generation : Generation]
NoRef == [device |-> NoOp, generation |-> 0]

Known(id) == state[id] # "Absent"
Of(id) == ref[id].device

AdmissionTypeOK ==
    /\ state \in [OpId -> HubOperationState \cup {"Absent"}]
    /\ ref \in [OpId -> OperationRef \cup {NoRef}]
    /\ active \in [Device -> OpId \cup {NoOp}]
    /\ queue \in [Device -> Seq(OpId)]
    /\ blocked \in [Device -> OpId \cup {NoOp}]
    /\ retired \subseteq OpId
    /\ recoveryReads \subseteq OpId

AdmissionInit ==
    /\ state = [id \in OpId |-> "Absent"]
    /\ ref = [id \in OpId |-> NoRef]
    /\ active = [d \in Device |-> NoOp]
    /\ queue = [d \in Device |-> << >>]
    /\ blocked = [d \in Device |-> NoOp]
    /\ retired = {}
    /\ recoveryReads = {}

-----------------------------------------------------------------------------
(* Slots and queues.  `act' and `blk' are the values active and blocked    *)
(* have when the helper runs in the middle of a method.                    *)

BusyDevices(act) == {d \in Device : act[d] # NoOp}
GlobalBusy(act) == Cardinality(BusyDevices(act)) >= MaxGlobalActive

\* Mutant: a blocked desktop may pop its queue.
CanPopIgnoringBlock(d, act, blk) == act[d] = NoOp /\ queue[d] # << >>

CanPop(d, act, blk) == act[d] = NoOp /\ blk[d] = NoOp /\ queue[d] # << >>

\* The devices whose oldest queued operation start_next_for_available_capacity
\* may start: the preferred one if it can, otherwise any (HashMap key order).
Startable(preferred, act, blk) ==
    IF GlobalBusy(act) THEN {}
    ELSE IF CanPop(preferred, act, blk) THEN {preferred}
    ELSE {d \in Device : CanPop(d, act, blk)}

StartNothing(preferred, st, act, blk) ==
    /\ Startable(preferred, act, blk) = {}
    /\ state' = st
    /\ active' = act
    /\ queue' = queue

StartOne(preferred, st, act, blk) ==
    \E d \in Startable(preferred, act, blk) :
        /\ state' = [st EXCEPT ![Head(queue[d])] = "ActiveNotDispatched"]
        /\ active' = [act EXCEPT ![d] = Head(queue[d])]
        /\ queue' = [queue EXCEPT ![d] = Tail(@)]

StartNextForAvailableCapacity(preferred, st, act, blk) ==
    \/ StartNothing(preferred, st, act, blk)
    \/ StartOne(preferred, st, act, blk)

\* Settling a running operation frees its slot and starts a successor.
FreeSlot(id, terminal) ==
    /\ StartNextForAvailableCapacity(
           Of(id), [state EXCEPT ![id] = terminal],
           [active EXCEPT ![Of(id)] = NoOp], blocked)
    /\ recoveryReads' = recoveryReads \ {id}

DropQueued(id) ==
    LET d == Of(id)
        at == {i \in DOMAIN queue[d] : queue[d][i] = id}
    IN  IF at = {} THEN queue
        ELSE [queue EXCEPT ![d] = RemoveAt(@, CHOOSE i \in at : \A j \in at : i <= j)]

-----------------------------------------------------------------------------
(* Admission *)

Start(id, d, g) ==
    /\ active' = [active EXCEPT ![d] = id]
    /\ state' = [state EXCEPT ![id] = "ActiveNotDispatched"]
    /\ ref' = [ref EXCEPT ![id] = [device |-> d, generation |-> g]]

\* Mutant: replay is only looked up among the live operations.
AdmitNowIgnoringTombstones(id, d, g) ==
    /\ ~ Known(id)
    /\ blocked[d] = NoOp
    /\ active[d] = NoOp /\ ~ GlobalBusy(active)
    /\ Start(id, d, g)
    /\ UNCHANGED <<queue, blocked, retired, recoveryReads>>

AdmitNow(id, d, g) ==
    /\ ~ Known(id) /\ id \notin retired
    /\ blocked[d] = NoOp
    /\ active[d] = NoOp /\ ~ GlobalBusy(active)
    /\ Start(id, d, g)
    /\ UNCHANGED <<queue, blocked, retired, recoveryReads>>

AdmitQueued(id, d, g) ==
    /\ ~ Known(id) /\ id \notin retired
    /\ blocked[d] = NoOp
    /\ active[d] # NoOp \/ GlobalBusy(active)
    /\ Len(queue[d]) < MaxQueuedPerDevice
    /\ queue' = [queue EXCEPT ![d] = Append(@, id)]
    /\ state' = [state EXCEPT ![id] = "Queued"]
    /\ ref' = [ref EXCEPT ![id] = [device |-> d, generation |-> g]]
    /\ UNCHANGED <<active, blocked, retired, recoveryReads>>

Admit(id, d, g) == AdmitNow(id, d, g) \/ AdmitQueued(id, d, g)

\* Only `operations' is consulted for a replay here, not `retired': the Hub
\* gives every read a fresh random id.
AdmitRecoveryReadOnly(id, d, g) ==
    /\ ~ Known(id)
    /\ blocked[d] # NoOp
    /\ active[d] = NoOp /\ ~ GlobalBusy(active)
    /\ Start(id, d, g)
    /\ recoveryReads' = recoveryReads \cup {id}
    /\ UNCHANGED <<queue, blocked, retired>>

-----------------------------------------------------------------------------
(* Dispatch, cancellation, settlement *)

AdmissionMarkDispatched(id) ==
    /\ state[id] = "ActiveNotDispatched"
    /\ state' = [state EXCEPT ![id] = "Dispatched"]
    /\ UNCHANGED <<ref, active, queue, blocked, retired, recoveryReads>>

CancelQueued(id) ==
    /\ state[id] = "Queued"
    /\ queue' = DropQueued(id)
    /\ state' = [state EXCEPT ![id] = "Cancelled"]
    /\ UNCHANGED <<ref, active, blocked, retired, recoveryReads>>

CancelActive(id) ==
    /\ state[id] = "ActiveNotDispatched"
    /\ FreeSlot(id, "Cancelled")
    /\ UNCHANGED <<ref, blocked, retired>>

CancelDispatched(id) ==
    /\ state[id] = "Dispatched"
    /\ state' = [state EXCEPT ![id] = "CancelRequested"]
    /\ UNCHANGED <<ref, active, queue, blocked, retired, recoveryReads>>

Cancel(id) == CancelQueued(id) \/ CancelActive(id) \/ CancelDispatched(id)

\* Mutant: a late result settles an operation twice.
FinalizeLate(id, terminal) ==
    /\ terminal \in Terminal
    /\ state[id] \in InFlight \cup Terminal
    /\ state' = [state EXCEPT ![id] = terminal]
    /\ active' = [active EXCEPT ![Of(id)] = IF @ = id THEN NoOp ELSE @]
    /\ recoveryReads' = recoveryReads \ {id}
    /\ UNCHANGED <<ref, queue, blocked, retired>>

FinalizeTerminal(id, terminal) ==
    /\ terminal \in Terminal
    /\ state[id] \in InFlight
    /\ FreeSlot(id, terminal)
    /\ UNCHANGED <<ref, blocked, retired>>

FailRecoveryReadOnly(id) ==
    /\ id \in recoveryReads
    /\ state[id] \in InFlight
    /\ FreeSlot(id, "Failed")
    /\ UNCHANGED <<ref, blocked, retired>>

\* The slot is freed but no successor is started, on this or another device.
AdmissionMarkIndeterminate(id) ==
    /\ id \notin recoveryReads
    /\ state[id] \in InFlight
    /\ state' = [state EXCEPT ![id] = "Indeterminate"]
    /\ active' = [active EXCEPT ![Of(id)] = NoOp]
    /\ blocked' = [blocked EXCEPT ![Of(id)] = id]
    /\ UNCHANGED <<ref, queue, retired, recoveryReads>>

-----------------------------------------------------------------------------
(* Leaving Indeterminate *)

IsBlocking(id) == state[id] = "Indeterminate" /\ blocked[Of(id)] = id

Unblock(id, outcome) ==
    LET blk == [blocked EXCEPT ![Of(id)] = NoOp] IN
    /\ blocked' = blk
    /\ StartNextForAvailableCapacity(
           Of(id), [state EXCEPT ![id] = outcome], active, blk)

AdmissionResolveIndeterminate(id, outcome) ==
    /\ outcome \in {"Completed", "Cancelled"}
    /\ IsBlocking(id)
    /\ Unblock(id, outcome)
    /\ UNCHANGED <<ref, retired, recoveryReads>>

ReconcileIndeterminateTerminal(id, terminal) ==
    /\ terminal \in Terminal
    /\ IsBlocking(id)
    /\ Unblock(id, terminal)
    /\ UNCHANGED <<ref, retired, recoveryReads>>

MayRetire(id) ==
    /\ IsBlocking(id)
    /\ id \notin retired
    /\ Cardinality(retired) < MaxTombstones

AdmissionRetireIndeterminate(id) ==
    /\ MayRetire(id)
    /\ retired' = retired \cup {id}
    /\ Unblock(id, "Indeterminate")
    /\ UNCHANGED <<ref, recoveryReads>>

RetireIndeterminateAndCancelQueued(id) ==
    LET d == Of(id)
        queued == {queue[d][i] : i \in DOMAIN queue[d]}
    IN  /\ MayRetire(id)
        /\ \A q \in queued : state[q] = "Queued"
        /\ retired' = retired \cup {id}
        /\ blocked' = [blocked EXCEPT ![d] = NoOp]
        /\ queue' = [queue EXCEPT ![d] = << >>]
        /\ state' = [q \in OpId |-> IF q \in queued THEN "Cancelled" ELSE state[q]]
        /\ UNCHANGED <<ref, active, recoveryReads>>

CompactRetiredIndeterminateDetail(id) ==
    /\ id \in retired
    /\ state[id] = "Indeterminate"
    /\ \A d \in Device : blocked[d] # id
    /\ state' = [state EXCEPT ![id] = "Absent"]
    /\ ref' = [ref EXCEPT ![id] = NoRef]
    /\ recoveryReads' = recoveryReads \ {id}
    /\ UNCHANGED <<active, queue, blocked, retired>>

Prunable(d, g) ==
    {id \in OpId : /\ state[id] \in Terminal
                   /\ Of(id) = d
                   /\ ref[id].generation < g}

AdmissionPruneTerminalBeforeGeneration(d, g) ==
    LET gone == Prunable(d, g) IN
    /\ state' = [id \in OpId |-> IF id \in gone THEN "Absent" ELSE state[id]]
    /\ ref' = [id \in OpId |-> IF id \in gone THEN NoRef ELSE ref[id]]
    /\ recoveryReads' = recoveryReads \ gone
    /\ UNCHANGED <<active, queue, blocked, retired>>

-----------------------------------------------------------------------------
(* snapshot_for_restart followed by restore_after_restart *)

SnapshotState(id) ==
    CASE state[id] \in {"Queued", "ActiveNotDispatched"} -> "Cancelled"
      [] state[id] \in InFlight /\ id \in recoveryReads -> "Failed"
      [] state[id] \in InFlight /\ id \notin recoveryReads -> "Indeterminate"
      [] OTHER -> state[id]

\* The ids a restored ledger would let block device d.
RestoredBlockers(d) ==
    {id \in OpId : /\ SnapshotState(id) = "Indeterminate"
                   /\ id \notin retired
                   /\ Of(id) = d}

AdmissionRestoreAccepts ==
    /\ Cardinality(retired) <= MaxTombstones
    /\ \A d \in Device : \A id, other \in RestoredBlockers(d) : id = other
    /\ \A id \in retired : SnapshotState(id) \in {"Absent", "Indeterminate"}

AdmissionRestart ==
    /\ AdmissionRestoreAccepts
    /\ state' = [id \in OpId |-> SnapshotState(id)]
    /\ active' = [d \in Device |-> NoOp]
    /\ queue' = [d \in Device |-> << >>]
    /\ blocked' = [d \in Device |->
                     IF RestoredBlockers(d) = {} THEN NoOp
                     ELSE CHOOSE id \in RestoredBlockers(d) : TRUE]
    /\ recoveryReads' = {}
    /\ UNCHANGED <<ref, retired>>

-----------------------------------------------------------------------------
AdmissionNext ==
    \/ \E id \in OpId, d \in Device, g \in Generation :
          \/ AdmitNow(id, d, g)
          \/ AdmitQueued(id, d, g)
          \/ AdmitRecoveryReadOnly(id, d, g)
    \/ \E id \in OpId :
          \/ AdmissionMarkDispatched(id)
          \/ CancelQueued(id)
          \/ CancelActive(id)
          \/ CancelDispatched(id)
          \/ FailRecoveryReadOnly(id)
          \/ AdmissionMarkIndeterminate(id)
          \/ AdmissionRetireIndeterminate(id)
          \/ RetireIndeterminateAndCancelQueued(id)
          \/ CompactRetiredIndeterminateDetail(id)
    \/ \E id \in OpId, terminal \in Terminal :
          \/ FinalizeTerminal(id, terminal)
          \/ ReconcileIndeterminateTerminal(id, terminal)
          \/ AdmissionResolveIndeterminate(id, terminal)
    \/ \E d \in Device, g \in Generation :
          AdmissionPruneTerminalBeforeGeneration(d, g)
    \/ AdmissionRestart

AdmissionSpec == AdmissionInit /\ [][AdmissionNext]_admissionVars

-----------------------------------------------------------------------------
(* Properties *)

\* active_by_device names, for each device, exactly the operation that is
\* running there: a slot is never leaked by a settlement and never shared.
SlotsMatchRunning ==
    /\ \A d \in Device : active[d] # NoOp =>
          state[active[d]] \in Running /\ Of(active[d]) = d
    /\ \A id \in OpId : state[id] \in Running => active[Of(id)] = id

\* queued_by_device holds exactly the Queued operations of the device, once
\* each: cancel, pop and retirement never leave a settled id behind to start.
QueuesMatchQueued ==
    /\ \A d \in Device : \A i \in 1..Len(queue[d]) :
          state[queue[d][i]] = "Queued" /\ Of(queue[d][i]) = d
    /\ \A d \in Device : \A i, j \in 1..Len(queue[d]) :
          queue[d][i] = queue[d][j] => i = j
    /\ \A id \in OpId : state[id] = "Queued" =>
          \E i \in 1..Len(queue[Of(id)]) : queue[Of(id)][i] = id

\* A device is blocked by exactly its one unretired indeterminate operation,
\* so a second ambiguity can neither overwrite nor outlive the first.
BlockedMatchesIndeterminate ==
    /\ \A d \in Device : blocked[d] # NoOp =>
          /\ state[blocked[d]] = "Indeterminate"
          /\ Of(blocked[d]) = d
          /\ blocked[d] \notin retired
    /\ \A id \in OpId : state[id] = "Indeterminate" /\ id \notin retired =>
          blocked[Of(id)] = id

\* While a desktop is blocked by an ambiguous operation the only work that
\* holds its slot is a recovery evidence read (admit, start_next and
\* admit_recovery_read_only check `blocked_by_indeterminate' separately).
QuarantineExcludesMutation ==
    \A d \in Device : blocked[d] # NoOp /\ active[d] # NoOp =>
        active[d] \in recoveryReads

\* max_global_active bounds the running operations of all devices together.
GlobalCapacityRespected ==
    Cardinality(BusyDevices(active)) <= MaxGlobalActive

\* A proved outcome is final: a terminal record is only ever pruned, and
\* ambiguity ends only in a resolution or, once retired, in compaction; no
\* settlement, restart or reuse of an id rewrites either.
OutcomeFinalStep ==
    \A id \in OpId :
        /\ state[id] \in Terminal => state'[id] \in {state[id], "Absent"}
        /\ state[id] = "Indeterminate" =>
              \/ state'[id] \in Terminal \cup {"Indeterminate"}
              \/ state'[id] = "Absent" /\ id \in retired

OutcomeIsFinal == [][OutcomeFinalStep]_admissionVars

\* The scheduler's bookkeeping is exact after any sequence of calls, reconnections and
\* restarts: every slot has its running operation, every queue entry its queued
\* operation, every block its unresolved one, no mutation runs on a blocked desktop
\* and the global limit holds.
AdmissionSafe ==
    /\ AdmissionTypeOK
    /\ SlotsMatchRunning
    /\ QueuesMatchQueued
    /\ BlockedMatchesIndeterminate
    /\ QuarantineExcludesMutation
    /\ GlobalCapacityRespected
=============================================================================
