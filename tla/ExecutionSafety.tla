--------------------------- MODULE ExecutionSafety ---------------------------
(***************************************************************************)
(* The Hub's AuthoritativeOperationController (src/v2_execution_safety.rs): *)
(* one record per operation above the admission ledger, desktop            *)
(* quarantines, reconciliation with the Agent's terminal evidence,         *)
(* retirement of unknowable outcomes, the mutation-resume barrier, the     *)
(* recovery archive, and the restart snapshot.                             *)
(*                                                                         *)
(* The controller keeps its own copy of every operation's state next to    *)
(* the ledger's; the copy is rec[id].state here and is written separately, *)
(* as in the code.  Each action is one controller call (or the two calls   *)
(* the Hub makes under one lock, where noted) that returns Ok.             *)
(*                                                                         *)
(* Abstractions: the OperationRef of a record is the ledger's ref[id]; a   *)
(* caller holds the owner and generation that `checked' compares, since a  *)
(* mismatch changes nothing; timestamps and audit labels are left out.     *)
(***************************************************************************)
EXTENDS Admission

CONSTANTS
    Capabilities,          \* the capability classes this instance exercises
    CallersReuseIds,       \* callers may present the id of a pruned operation
    MaxRetirementRecords,  \* MAX_RETIREMENT_RECORDS (64)
    MaxAutoResolutions,    \* MAX_AUTO_RESOLUTION_RECORDS (64)
    MaxArchive             \* MAX_RECOVERY_ARCHIVE_ENTRIES (8)

\* DeviceCapability up to what the controller tells apart: evidence reads
\* (admitted during a quarantine), the other Observe capabilities, transient
\* UI gestures (Scroll, MovePointer), PointerClick, and every other mutation.
DeviceCapability == {"EvidenceRead", "Observe", "Scroll", "PointerClick", "Other"}

ASSUME SafetyConstants ==
    /\ Capabilities \subseteq DeviceCapability
    /\ CallersReuseIds \in BOOLEAN
    /\ MaxRetirementRecords \in Nat \ {0}
    \* 64 details, and a Hub serves one desktop: every desktop may have a barrier.
    /\ Cardinality(Device) <= MaxRetirementRecords
    /\ MaxAutoResolutions \in Nat \ {0}
    /\ MaxArchive \in Nat

VARIABLES
    rec,              \* operations: one SafetyOperation, or NoRecord
    archive,          \* recovery_archive: ids with an archived result
    quarantine,       \* quarantines
    resolutions,      \* ids in `resolutions' (the Vec is only ever searched)
    autoResolutions,  \* auto_resolutions, oldest first
    retirement,       \* retirements, by operation id
    barrier,          \* mutation_resume_barriers
    resume,           \* mutation_resumes, by source operation
    generation        \* the registry's current generation of each device

safetyVars == <<rec, archive, quarantine, resolutions, autoResolutions,
                retirement, barrier, resume, generation>>
vars == <<admissionVars, safetyVars>>

ObserveClass == {"EvidenceRead", "Observe"}
IndeterminateReason == {"ConnectionLost", "HubRestartAfterDispatch",
                        "BackendOutcomeUnproven"}
NonDelivery == {"HubEncodeFailedBeforeEnqueue", "HubOutboundClosedBeforeEnqueue"}
ExecutionEvidence == {"VerifiedAgentResult", "VerifiedRemoteError",
    "ProvenProcessTermination", "CancelledBeforeDispatch", "OperatorResolution",
    "RecoveryReadInterrupted"} \cup NonDelivery
ReconciliationStatus == {"AutoReconciling", "OperatorRequired",
                         "UnrecoverableEvidenceGap", "AutoResolved"}

SafetyOperation ==
    [cap : DeviceCapability, lane : {"Normal", "RecoveryEvidenceRead"},
     state : HubOperationState, dispatched : BOOLEAN,
     reason : IndeterminateReason \cup {"None"},
     evidence : ExecutionEvidence \cup {"None"}, result : BOOLEAN,
     binding : BOOLEAN, recon : ReconciliationStatus \cup {"None"}]
NoRecord == [state |-> "Absent"]

NoQuarantine == [op |-> NoOp]
NoRetirement == [authorized |-> 0]
NoBarrier == [source |-> NoOp]
NoResume == [resumed |-> 0]

SafetyTypeOK ==
    /\ rec \in [OpId -> SafetyOperation \cup {NoRecord}]
    /\ archive \subseteq OpId
    /\ quarantine \in [Device ->
          [op : OpId, generation : Generation, reason : IndeterminateReason]
          \cup {NoQuarantine}]
    /\ resolutions \subseteq OpId
    /\ autoResolutions \in Seq([op : OpId, ref : OperationRef, cap : DeviceCapability,
                                state : Terminal, evidence : ExecutionEvidence])
    /\ retirement \in [OpId ->
          [ref : OperationRef, cap : {"Scroll", "PointerClick"},
           disposition : {"Retired", "CurrentStateAccepted"},
           reason : IndeterminateReason,
           prior : {"OperatorRequired", "UnrecoverableEvidenceGap"},
           authorized : Generation] \cup {NoRetirement}]
    /\ barrier \in [Device ->
          [source : OpId, sourceGeneration : Generation, accepted : Generation]
          \cup {NoBarrier}]
    /\ resume \in [OpId ->
          [device : Device, accepted : Generation, resumed : Generation]
          \cup {NoResume}]
    /\ generation \in [Device -> 0..MaxGeneration]

SafetyInit ==
    /\ AdmissionInit
    /\ rec = [id \in OpId |-> NoRecord]
    /\ archive = {}
    /\ quarantine = [d \in Device |-> NoQuarantine]
    /\ resolutions = {}
    /\ autoResolutions = << >>
    /\ retirement = [id \in OpId |-> NoRetirement]
    /\ barrier = [d \in Device |-> NoBarrier]
    /\ resume = [id \in OpId |-> NoResume]
    /\ generation = [d \in Device |-> 0]

-----------------------------------------------------------------------------
(* Records *)

Quarantined(d) == quarantine[d] # NoQuarantine
Barred(d) == barrier[d] # NoBarrier
Detailed(id) == retirement[id] # NoRetirement
Recorded(id) == rec[id] # NoRecord
AutoResolvedIds == {autoResolutions[i].op : i \in DOMAIN autoResolutions}

\* Reads get a random id from the Hub, which therefore occurs nowhere in its
\* state; an effectful call may bring an id of the caller's choosing.
FreshId(id) ==
    /\ ~ Recorded(id) /\ ~ Detailed(id)
    /\ id \notin archive \cup retired \cup resolutions \cup AutoResolvedIds

\* activate_next on records `r': the operation the ledger just started.
ActivateNext(r) ==
    [q \in OpId |->
        IF state[q] = "Queued" /\ state'[q] = "ActiveNotDispatched"
        THEN [r[q] EXCEPT !.state = "ActiveNotDispatched"] ELSE r[q]]

CancelRecords(r, ids) ==
    [q \in OpId |->
        IF q \in ids
        THEN [r[q] EXCEPT !.state = "Cancelled", !.evidence = "CancelledBeforeDispatch"]
        ELSE r[q]]

\* The (state, evidence) pairs that prove a terminal outcome.
AuthoritativeTerminal ==
    {<<"Completed", "VerifiedAgentResult">>, <<"Failed", "VerifiedRemoteError">>,
     <<"Failed", "ProvenProcessTermination">>,
     <<"Cancelled", "ProvenProcessTermination">>}

\* terminal_evidence_for_device_result: only a process or shell result (of an
\* "Other" capability) reports a proven termination.
TerminalEvidenceForDeviceResult(cap) ==
    {pair \in AuthoritativeTerminal :
        cap # "Other" => pair[2] # "ProvenProcessTermination"}

DefaultReconciliationStatus(reason, binding) ==
    IF binding /\ reason \in {"ConnectionLost", "HubRestartAfterDispatch"}
    THEN "AutoReconciling" ELSE "OperatorRequired"

\* auto_resolutions.push and the drain of the oldest entries.
PushAutoResolution(id, terminal, evidence) ==
    LET pushed == Append(autoResolutions,
                    [op |-> id, ref |-> ref[id], cap |-> rec[id].cap,
                     state |-> terminal, evidence |-> evidence])
    IN  IF Len(pushed) > MaxAutoResolutions
        THEN SubSeq(pushed, 1 + Len(pushed) - MaxAutoResolutions, Len(pushed))
        ELSE pushed

-----------------------------------------------------------------------------
(* Preparation, dispatch, cancellation, settlement *)

\* Any session up to the current one may prepare: a superseded session is not
\* fenced until its loop sees the supersede signal.
Prepare(id, d, g, cap) ==
    /\ ~ Recorded(id) /\ id \notin archive /\ ~ Detailed(id)
    /\ FreshId(id) \/ (CallersReuseIds /\ cap \notin ObserveClass)
    /\ g <= generation[d]
    /\ Barred(d) => cap \in ObserveClass
    /\ Quarantined(d) => cap = "EvidenceRead"
    /\ IF Quarantined(d) THEN AdmitRecoveryReadOnly(id, d, g) ELSE Admit(id, d, g)
    /\ rec' = [rec EXCEPT ![id] =
                 [cap |-> cap,
                  lane |-> IF Quarantined(d) THEN "RecoveryEvidenceRead" ELSE "Normal",
                  state |-> state'[id], dispatched |-> FALSE, reason |-> "None",
                  evidence |-> "None", result |-> FALSE, binding |-> FALSE,
                  recon |-> "None"]]
    /\ UNCHANGED <<archive, quarantine, resolutions, autoResolutions, retirement,
                   barrier, resume, generation>>

\* A read-only command carries no dispatch binding; a few commands of mutating
\* capabilities (a browser bind, a dialog inspection) are read-only too.
BindingChoices(cap) ==
    CASE cap \in ObserveClass -> {FALSE}
      [] cap = "Other" -> BOOLEAN
      [] OTHER -> {TRUE}

MarkDispatchedWithBinding(id, binding) ==
    /\ rec[id].state = "ActiveNotDispatched"
    /\ binding \in BindingChoices(rec[id].cap)
    /\ AdmissionMarkDispatched(id)
    /\ rec' = [rec EXCEPT ![id].state = "Dispatched", ![id].dispatched = TRUE,
                          ![id].binding = binding, ![id].recon = "None"]
    /\ UNCHANGED <<archive, quarantine, resolutions, autoResolutions, retirement,
                   barrier, resume, generation>>

RequestCancel(id) ==
    /\ Recorded(id)
    /\ \/ /\ CancelQueued(id) \/ CancelActive(id)
          /\ rec' = ActivateNext(CancelRecords(rec, {id}))
       \/ /\ CancelDispatched(id)
          /\ rec' = [rec EXCEPT ![id].state = "CancelRequested"]
    /\ UNCHANGED <<archive, quarantine, resolutions, autoResolutions, retirement,
                   barrier, resume, generation>>

\* finalize and, under the same lock in handle_result, the recoverable result
\* that every capability but the Observe ones gets attached.
Finalize(id, pair) ==
    /\ rec[id].state \in InFlight
    /\ pair \in TerminalEvidenceForDeviceResult(rec[id].cap)
    /\ FinalizeTerminal(id, pair[1])
    /\ rec' = ActivateNext([rec EXCEPT
                 ![id].state = pair[1], ![id].reason = "None",
                 ![id].evidence = pair[2],
                 ![id].result = rec[id].cap \notin ObserveClass])
    /\ UNCHANGED <<archive, quarantine, resolutions, autoResolutions, retirement,
                   barrier, resume, generation>>

\* The encoder or the session channel refused the frame: nothing was sent.
ResolveHubPreEnqueueNonDelivery(id, evidence) ==
    /\ evidence \in NonDelivery
    /\ rec[id].state = "Dispatched"
    /\ rec[id].lane = "Normal" /\ rec[id].binding /\ rec[id].recon = "None"
    /\ ~ Quarantined(Of(id))
    /\ FinalizeTerminal(id, "Cancelled")
    /\ rec' = ActivateNext([rec EXCEPT
                 ![id].state = "Cancelled", ![id].reason = "None",
                 ![id].recon = "AutoResolved", ![id].result = FALSE,
                 ![id].evidence = evidence])
    /\ autoResolutions' = PushAutoResolution(id, "Cancelled", evidence)
    /\ UNCHANGED <<archive, quarantine, resolutions, retirement, barrier, resume,
                   generation>>

MarkRecoveryReadInterrupted(id) ==
    /\ rec[id].state \in InFlight
    /\ rec[id].lane = "RecoveryEvidenceRead"
    /\ FailRecoveryReadOnly(id)
    /\ rec' = ActivateNext([rec EXCEPT
                 ![id].state = "Failed", ![id].reason = "None", ![id].result = FALSE,
                 ![id].recon = "None", ![id].evidence = "RecoveryReadInterrupted"])
    /\ UNCHANGED <<archive, quarantine, resolutions, autoResolutions, retirement,
                   barrier, resume, generation>>

\* mark_indeterminate_internal: one ledger transition for the ambiguous
\* operation and one cancel for each queued operation of the same desktop.
QueuedRecords(d, id) ==
    {q \in OpId \ {id} : rec[q].state = "Queued" /\ Of(q) = d}

\* What the cancels leave of the queue, which is nothing if they name all of it.
QueueWithout(d, ids) ==
    IF \A i \in DOMAIN queue[d] : queue[d][i] \in ids THEN << >>
    ELSE SelectSeq(queue[d], LAMBDA q : q \notin ids)

MarkIndeterminate(id, reason) ==
    LET d == Of(id)
        queued == QueuedRecords(d, id)
    IN  /\ rec[id].state \in InFlight
        /\ rec[id].lane = "Normal" /\ id \notin recoveryReads
        /\ Quarantined(d) => quarantine[d].op = id
        /\ state[id] \in InFlight
        /\ \A q \in queued : state[q] = "Queued"
        /\ state' = [q \in OpId |-> IF q = id THEN "Indeterminate"
                                    ELSE IF q \in queued THEN "Cancelled"
                                    ELSE state[q]]
        /\ active' = [active EXCEPT ![d] = NoOp]
        /\ blocked' = [blocked EXCEPT ![d] = id]
        /\ queue' = [queue EXCEPT ![d] = QueueWithout(d, queued)]
        /\ rec' = [CancelRecords(rec, queued) EXCEPT
                     ![id].state = "Indeterminate", ![id].reason = reason,
                     ![id].evidence = "None", ![id].result = FALSE,
                     ![id].recon = DefaultReconciliationStatus(reason, rec[id].binding)]
        /\ quarantine' = [quarantine EXCEPT ![d] =
                            [op |-> id, generation |-> ref[id].generation,
                             reason |-> reason]]
        /\ UNCHANGED <<ref, retired, recoveryReads, archive, resolutions,
                       autoResolutions, retirement, barrier, resume, generation>>

-----------------------------------------------------------------------------
(* Leaving a quarantine *)

\* No exact proof in the Agent's complete journal.
MarkReconciliationEvidenceGap(id) ==
    /\ rec[id].state = "Indeterminate"
    /\ rec[id].recon = "AutoReconciling"
    /\ rec' = [rec EXCEPT ![id].recon = "UnrecoverableEvidenceGap"]
    /\ UNCHANGED <<admissionVars, archive, quarantine, resolutions, autoResolutions,
                   retirement, barrier, resume, generation>>

MarkReconciliationOperatorRequired(id) ==
    /\ rec[id].state = "Indeterminate"
    /\ rec' = [rec EXCEPT ![id].recon = "OperatorRequired"]
    /\ UNCHANGED <<admissionVars, archive, quarantine, resolutions, autoResolutions,
                   retirement, barrier, resume, generation>>

HoldsQuarantine(id) ==
    /\ quarantine[Of(id)] # NoQuarantine
    /\ quarantine[Of(id)].op = id
    /\ quarantine[Of(id)].generation = ref[id].generation

\* Mutant: the reconciled desktop stays quarantined.
ReconcileKeepingQuarantine(id, pair) ==
    /\ rec[id].state = "Indeterminate"
    /\ rec[id].recon = "AutoReconciling" /\ rec[id].binding
    /\ pair \in TerminalEvidenceForDeviceResult(rec[id].cap)
    /\ HoldsQuarantine(id)
    /\ ReconcileIndeterminateTerminal(id, pair[1])
    /\ rec' = ActivateNext([rec EXCEPT
                 ![id].state = pair[1], ![id].reason = "None",
                 ![id].recon = "AutoResolved", ![id].evidence = pair[2],
                 ![id].result = FALSE])
    /\ autoResolutions' = PushAutoResolution(id, pair[1], pair[2])
    /\ UNCHANGED <<archive, quarantine, resolutions, retirement, barrier, resume,
                   generation>>

ReconcileAuthoritativeTerminal(id, pair) ==
    /\ rec[id].state = "Indeterminate"
    /\ rec[id].recon = "AutoReconciling" /\ rec[id].binding
    /\ pair \in TerminalEvidenceForDeviceResult(rec[id].cap)
    /\ HoldsQuarantine(id)
    /\ ReconcileIndeterminateTerminal(id, pair[1])
    /\ rec' = ActivateNext([rec EXCEPT
                 ![id].state = pair[1], ![id].reason = "None",
                 ![id].recon = "AutoResolved", ![id].evidence = pair[2],
                 ![id].result = FALSE])
    /\ quarantine' = [quarantine EXCEPT ![Of(id)] = NoQuarantine]
    /\ autoResolutions' = PushAutoResolution(id, pair[1], pair[2])
    /\ UNCHANGED <<archive, resolutions, retirement, barrier, resume, generation>>

\* Mutant: an operator's resolution leaves no audit record.
ResolveWithoutAudit(id, outcome) ==
    /\ rec[id].state = "Indeterminate"
    /\ HoldsQuarantine(id)
    /\ AdmissionResolveIndeterminate(id, outcome)
    /\ rec' = ActivateNext([rec EXCEPT
                 ![id].state = outcome, ![id].reason = "None", ![id].recon = "None",
                 ![id].evidence = "OperatorResolution"])
    /\ quarantine' = [quarantine EXCEPT ![Of(id)] = NoQuarantine]
    /\ UNCHANGED <<archive, resolutions, autoResolutions, retirement, barrier, resume,
                   generation>>

ResolveIndeterminate(id, outcome) ==
    /\ rec[id].state = "Indeterminate"
    /\ HoldsQuarantine(id)
    /\ AdmissionResolveIndeterminate(id, outcome)
    /\ rec' = ActivateNext([rec EXCEPT
                 ![id].state = outcome, ![id].reason = "None", ![id].recon = "None",
                 ![id].evidence = "OperatorResolution"])
    /\ quarantine' = [quarantine EXCEPT ![Of(id)] = NoQuarantine]
    /\ resolutions' = resolutions \cup {id}
    /\ UNCHANGED <<archive, autoResolutions, retirement, barrier, resume, generation>>

-----------------------------------------------------------------------------
(* Retirement of an unknowable outcome *)

\* retirement_policy_for_capability, offline and for the accepted desktop.
Eligible(disposition) ==
    IF disposition = "Retired" THEN {"Scroll"} ELSE {"Scroll", "PointerClick"}

MayRetireRecord(id, disposition, authorized) ==
    /\ ~ Detailed(id)
    /\ rec[id].state = "Indeterminate" /\ rec[id].dispatched
    /\ rec[id].evidence = "None" /\ ~ rec[id].result
    /\ authorized > ref[id].generation
    /\ rec[id].recon \in {"None", "OperatorRequired", "UnrecoverableEvidenceGap"}
    /\ rec[id].cap \in Eligible(disposition)
    /\ HoldsQuarantine(id) /\ quarantine[Of(id)].reason = rec[id].reason

RetirementOf(id, disposition, authorized) ==
    [ref |-> ref[id], cap |-> rec[id].cap, disposition |-> disposition,
     reason |-> rec[id].reason,
     prior |-> IF rec[id].recon = "None" THEN "OperatorRequired" ELSE rec[id].recon,
     authorized |-> authorized]

DetailedIds(rt) == {q \in OpId : rt[q] # NoRetirement}

\* rotate_retirement_history: which details may be compacted once `rt' and
\* `br' are in place.  The code takes the oldest by wall clock, which may be
\* set back, so any source of no active barrier is possible.
RotationVictims(rt, br) ==
    IF Cardinality(DetailedIds(rt)) <= MaxRetirementRecords THEN {{}}
    ELSE {{q} : q \in {q \in DetailedIds(rt) : \A d \in Device : br[d].source # q}}

\* What compacting q needs: its resume if it is a click, and its ledger entry.
CanCompact(q, rt, blk) ==
    /\ rt[q].cap = "PointerClick" =>
          resume[q] # NoResume /\ resume[q].accepted = rt[q].authorized
    /\ Recorded(q) /\ state[q] = "Indeterminate"
    /\ \A d \in Device : blk[d] # q

\* The ledger after the details `gone' are compacted out of `st'.
Compacted(st, gone) == [q \in OpId |-> IF q \in gone THEN "Absent" ELSE st[q]]

\* An accepted PointerClick raises the barrier and cancels the queue; any other
\* retirement frees the desktop for the next queued operation.
RetireIndeterminateWithDisposition(id, disposition, authorized) ==
    LET d == Of(id)
        blk == [blocked EXCEPT ![d] = NoOp]
        rt == [retirement EXCEPT ![id] = RetirementOf(id, disposition, authorized)]
        raise == disposition = "CurrentStateAccepted" /\ rec[id].cap = "PointerClick"
        br == IF raise
              THEN [barrier EXCEPT ![d] =
                     [source |-> id, sourceGeneration |-> ref[id].generation,
                      accepted |-> authorized]]
              ELSE barrier
        queued == {queue[d][i] : i \in DOMAIN queue[d]}
    IN  /\ MayRetireRecord(id, disposition, authorized)
        /\ MayRetire(id)
        /\ raise => ~ Barred(d)
        /\ \E gone \in RotationVictims(rt, br) :
             /\ \A q \in gone : CanCompact(q, rt, blk)
             /\ IF raise
                THEN /\ \A q \in queued : state[q] = "Queued" /\ rec[q].state = "Queued"
                     /\ state' = Compacted([q \in OpId |->
                          IF q \in queued THEN "Cancelled" ELSE state[q]], gone)
                     /\ queue' = [queue EXCEPT ![d] = << >>]
                     /\ active' = active
                ELSE StartNextForAvailableCapacity(
                          d, Compacted(state, gone), active, blk)
             /\ ref' = [q \in OpId |-> IF q \in gone THEN NoRef ELSE ref[q]]
             /\ rec' = LET kept == [q \in OpId |->
                                      IF q \in gone THEN NoRecord ELSE rec[q]]
                       IN  IF raise THEN CancelRecords(kept, queued)
                           ELSE ActivateNext(kept)
             /\ retirement' = [q \in OpId |-> IF q \in gone THEN NoRetirement ELSE rt[q]]
             /\ resume' = [q \in OpId |-> IF q \in gone THEN NoResume ELSE resume[q]]
        /\ blocked' = blk
        /\ retired' = retired \cup {id}
        /\ barrier' = br
        /\ quarantine' = [quarantine EXCEPT ![d] = NoQuarantine]
        /\ UNCHANGED <<recoveryReads, archive, resolutions, autoResolutions, generation>>

\* The desktop's user accepts what is on screen, at the current generation.
AcceptCurrentState(id) ==
    RetireIndeterminateWithDisposition(id, "CurrentStateAccepted", generation[Of(id)])

\* Offline maintenance works on the restored checkpoint of a stopped Hub, so
\* nothing is running or queued.
RetireIndeterminate(id) ==
    /\ \A q \in OpId : rec[q].state \notin Unsettled
    /\ RetireIndeterminateWithDisposition(id, "Retired", generation[Of(id)])

\* handle_recovery_authorization passes the generation of its own session.
ResumeMutations(d, g) ==
    /\ Barred(d)
    /\ g <= generation[d] /\ g > barrier[d].accepted
    /\ Cardinality({q \in OpId : resume[q] # NoResume}) < MaxRetirementRecords
    /\ resume' = [resume EXCEPT ![barrier[d].source] =
                    [device |-> d, accepted |-> barrier[d].accepted, resumed |-> g]]
    /\ barrier' = [barrier EXCEPT ![d] = NoBarrier]
    /\ UNCHANGED <<admissionVars, rec, archive, quarantine, resolutions,
                   autoResolutions, retirement, generation>>

-----------------------------------------------------------------------------
(* A new authenticated session: the registry advances the generation and,   *)
(* under the same lock, prunes the terminal records of earlier ones.        *)

\* bound_recovery_archive evicts until both the count and the encoded size fit.
KeptArchives(all) == {kept \in SUBSET all : Cardinality(kept) <= MaxArchive}

Connect(d) ==
    LET g == generation[d] + 1
        gone == {q \in OpId : /\ rec[q].state \in Terminal
                              /\ Of(q) = d /\ ref[q].generation < g}
    IN  /\ g <= MaxGeneration
        /\ generation' = [generation EXCEPT ![d] = g]
        /\ archive' \in KeptArchives(archive \cup {q \in gone : rec[q].result})
        /\ AdmissionPruneTerminalBeforeGeneration(d, g)
        /\ rec' = [q \in OpId |-> IF q \in gone THEN NoRecord ELSE rec[q]]
        /\ UNCHANGED <<quarantine, resolutions, autoResolutions, retirement,
                       barrier, resume>>

-----------------------------------------------------------------------------
(* snapshot_for_restart followed by restore_after_restart *)

SnapshotRecord(id) ==
    LET r == rec[id] IN
    CASE r.state \in {"Queued", "ActiveNotDispatched"} ->
           [r EXCEPT !.state = "Cancelled", !.evidence = "CancelledBeforeDispatch",
                     !.result = FALSE]
      [] r.state \in InFlight /\ r.lane = "RecoveryEvidenceRead" ->
           [r EXCEPT !.state = "Failed", !.reason = "None",
                     !.evidence = "RecoveryReadInterrupted", !.result = FALSE]
      [] r.state \in InFlight /\ r.lane = "Normal" ->
           [r EXCEPT !.state = "Indeterminate", !.reason = "HubRestartAfterDispatch",
                     !.evidence = "None", !.result = FALSE,
                     !.recon = IF @ # "None" THEN @
                               ELSE DefaultReconciliationStatus(
                                      "HubRestartAfterDispatch", r.binding)]
      [] OTHER -> r

\* The in-flight normal operation of d, which the snapshot quarantines.
SnapshotDispatched(d) ==
    {q \in OpId : /\ rec[q].state \in InFlight /\ rec[q].lane = "Normal"
                  /\ Of(q) = d}

SnapshotQuarantine(d) ==
    IF SnapshotDispatched(d) = {} THEN quarantine[d]
    ELSE LET q == CHOOSE q \in SnapshotDispatched(d) : TRUE
         IN  [op |-> q, generation |-> ref[q].generation,
              reason |-> "HubRestartAfterDispatch"]

\* valid_reconciliation_state
ValidReconciliationState(r) ==
    \/ r.recon = "None"
    \/ r.state = "Indeterminate" /\ r.recon = "AutoReconciling" /\ r.binding
    \/ r.state = "Indeterminate" /\ r.recon \in {"OperatorRequired",
                                                 "UnrecoverableEvidenceGap"}
    \/ r.state \in Terminal /\ r.recon = "AutoResolved" /\ r.binding

RestoreAcceptsRecords ==
    \A id \in OpId : Recorded(id) =>
        LET r == SnapshotRecord(id) IN
        /\ ValidReconciliationState(r)
        /\ r.result => r.evidence # "None" /\ r.state # "Indeterminate"
        /\ r.lane = "RecoveryEvidenceRead" =>
              /\ r.cap = "EvidenceRead" /\ r.state # "Indeterminate"
              /\ ~ r.binding /\ r.recon = "None"
        /\ r.evidence = "RecoveryReadInterrupted" =>
              r.lane = "RecoveryEvidenceRead" /\ r.state = "Failed"
        /\ r.evidence \in NonDelivery =>
              /\ r.lane = "Normal" /\ r.state = "Cancelled"
              /\ r.recon = "AutoResolved" /\ r.binding

RestoreAcceptsLedger ==
    /\ AdmissionRestoreAccepts
    /\ \A id \in OpId : SnapshotRecord(id).state = SnapshotState(id)
    /\ \A id \in archive : ~ Recorded(id)
    /\ Cardinality(archive) <= MaxArchive

RestoreAcceptsQuarantines ==
    /\ \A d \in Device : SnapshotQuarantine(d) # NoQuarantine =>
          LET q == SnapshotQuarantine(d) IN
          /\ Recorded(q.op) /\ SnapshotRecord(q.op).state = "Indeterminate"
          /\ ref[q.op] = [device |-> d, generation |-> q.generation]
    /\ \A id \in OpId : SnapshotRecord(id).state = "Indeterminate" =>
          LET q == SnapshotQuarantine(Of(id))
              matching == /\ q # NoQuarantine /\ q.op = id
                          /\ q.generation = ref[id].generation
          IN  (id \in retired) # matching

RestoreAcceptsRetirements ==
    /\ Cardinality(DetailedIds(retirement)) <= MaxRetirementRecords
    /\ \A id \in DetailedIds(retirement) :
          LET t == retirement[id]
              r == SnapshotRecord(id)
          IN  /\ id \in retired /\ id \notin resolutions \cup AutoResolvedIds
              /\ t.cap \in Eligible(t.disposition) /\ t.authorized > t.ref.generation
              /\ r.state = "Indeterminate" /\ ref[id] = t.ref /\ r.cap = t.cap
              /\ r.reason = t.reason
              /\ (IF r.recon = "None" THEN "OperatorRequired" ELSE r.recon) = t.prior
              /\ r.evidence = "None" /\ ~ r.result
              /\ \A d \in Device : SnapshotQuarantine(d).op # id

\* The retirement a barrier or a resume must be backed by.
BackedBy(source, d, accepted) ==
    /\ Detailed(source)
    /\ retirement[source].cap = "PointerClick"
    /\ retirement[source].disposition = "CurrentStateAccepted"
    /\ retirement[source].ref.device = d
    /\ retirement[source].authorized = accepted

RestoreAcceptsBarrierProofs ==
    /\ \A d \in Device : Barred(d) =>
          LET b == barrier[d] IN
          /\ BackedBy(b.source, d, b.accepted)
          /\ retirement[b.source].ref.generation = b.sourceGeneration
          /\ b.accepted > b.sourceGeneration
          /\ \A e \in Device \ {d} : barrier[e].source # b.source
    /\ \A id \in OpId : resume[id] # NoResume =>
          LET m == resume[id] IN
          /\ BackedBy(id, m.device, m.accepted) /\ m.resumed > m.accepted
          /\ \A d \in Device : barrier[d].source # id
    /\ Cardinality({q \in OpId : resume[q] # NoResume}) <= MaxRetirementRecords
    /\ \A id \in DetailedIds(retirement) : retirement[id].cap = "PointerClick" =>
          resume[id] # NoResume \/ \E d \in Device : barrier[d].source = id

RestoreAcceptsBarrierDevices ==
    \A d \in Device : Barred(d) => SnapshotQuarantine(d) = NoQuarantine

\* An AutoResolved record and its history entry describe the same outcome.
HistoryMatches(id, h) ==
    /\ h.op = id /\ h.ref = ref[id] /\ h.cap = rec[id].cap
    /\ h.state = SnapshotRecord(id).state /\ h.evidence = SnapshotRecord(id).evidence

RestoreAcceptsHistory ==
    /\ Len(autoResolutions) <= MaxAutoResolutions
    /\ \A i, j \in DOMAIN autoResolutions :
          autoResolutions[i].op = autoResolutions[j].op => i = j
    /\ \A i \in DOMAIN autoResolutions :
          LET h == autoResolutions[i] IN
          Recorded(h.op) => rec[h.op].recon = "AutoResolved" /\ HistoryMatches(h.op, h)

HistoryIsComplete ==
    \A id \in OpId : Recorded(id) /\ rec[id].recon = "AutoResolved" =>
        \E i \in DOMAIN autoResolutions : HistoryMatches(id, autoResolutions[i])

RestoreAcceptsAutoResolutions == RestoreAcceptsHistory /\ HistoryIsComplete

SafetyRestoreAccepts ==
    /\ RestoreAcceptsRecords
    /\ RestoreAcceptsLedger
    /\ RestoreAcceptsQuarantines
    /\ RestoreAcceptsRetirements
    /\ RestoreAcceptsBarrierProofs
    /\ RestoreAcceptsBarrierDevices
    /\ RestoreAcceptsAutoResolutions

SafetyRestart ==
    /\ SafetyRestoreAccepts
    /\ AdmissionRestart
    /\ rec' = [id \in OpId |-> SnapshotRecord(id)]
    /\ quarantine' = [d \in Device |-> SnapshotQuarantine(d)]
    /\ UNCHANGED <<archive, resolutions, autoResolutions, retirement, barrier,
                   resume, generation>>

-----------------------------------------------------------------------------
\* An Agent settles its journal before it reports, so evidence never arrives
\* for an operation that an earlier complete report left without any.
SafetyNext ==
    \/ \E id \in OpId, d \in Device, g \in Generation, cap \in Capabilities :
          Prepare(id, d, g, cap)
    \/ \E id \in OpId, binding \in BOOLEAN : MarkDispatchedWithBinding(id, binding)
    \/ \E id \in OpId :
          \/ RequestCancel(id)
          \/ MarkRecoveryReadInterrupted(id)
          \/ MarkReconciliationEvidenceGap(id)
          \/ /\ rec[id].state = "Indeterminate"
             /\ rec[id].recon # "UnrecoverableEvidenceGap"
             /\ MarkReconciliationOperatorRequired(id)
          \/ AcceptCurrentState(id)
          \/ RetireIndeterminate(id)
    \/ \E id \in OpId, pair \in AuthoritativeTerminal :
          \/ Finalize(id, pair)
          \/ ReconcileAuthoritativeTerminal(id, pair)
    \/ \E id \in OpId, evidence \in NonDelivery :
          ResolveHubPreEnqueueNonDelivery(id, evidence)
    \/ \E id \in OpId, reason \in {"ConnectionLost", "BackendOutcomeUnproven"} :
          MarkIndeterminate(id, reason)
    \/ \E id \in OpId, outcome \in {"Completed", "Cancelled"} :
          ResolveIndeterminate(id, outcome)
    \/ \E d \in Device, g \in Generation : ResumeMutations(d, g)
    \/ \E d \in Device : Connect(d)
    \/ SafetyRestart

SafetySpec == SafetyInit /\ [][SafetyNext]_vars
-----------------------------------------------------------------------------
(* Properties *)

\* Every call updates the controller's records and the admission ledger, in two
\* places, and they never drift apart.  An operation has one state, and a
\* running read is exempt from quarantine in one exactly when it is in the
\* other.  A desktop is quarantined by the operation that blocks it in the
\* ledger, with that operation's generation and reason (quarantine_inspections
\* fails closed when they differ, hiding the quarantine from its owner).
LedgersAgree ==
    /\ \A id \in OpId : rec[id].state = state[id]
    /\ \A id \in recoveryReads : rec[id].lane = "RecoveryEvidenceRead"
    /\ \A id \in OpId : state[id] \in Running /\ id \notin recoveryReads =>
          rec[id].lane = "Normal"
    /\ \A d \in Device :
          /\ quarantine[d].op = blocked[d]
          /\ Quarantined(d) =>
                /\ quarantine[d].generation = ref[blocked[d]].generation
                /\ quarantine[d].reason = rec[blocked[d]].reason

\* While an accepted click awaits the Human's separate resume, no mutation of
\* that desktop is queued, running or in flight, whenever it was admitted.
BarrierStopsMutation ==
    \A id \in OpId : rec[id].state \in Unsettled /\ Barred(Of(id)) =>
        rec[id].cap \in ObserveClass

\* The evidence of a receipt fits how far the operation got: work that reached
\* the effect boundary is never recorded as cancelled before dispatch, only an
\* undelivered or proved-terminated command is Cancelled after it, and an
\* undecided operation has no receipt, across settlement and restart.
ReceiptsMatchOutcome ==
    \A id \in OpId : Recorded(id) =>
        LET r == rec[id] IN
        /\ (r.evidence # "None") <=> r.state \in Terminal
        /\ r.evidence = "CancelledBeforeDispatch" <=>
              r.state = "Cancelled" /\ ~ r.dispatched
        /\ r.state = "Completed" =>
              r.evidence \in {"VerifiedAgentResult", "OperatorResolution"}
        /\ r.state = "Cancelled" /\ r.dispatched =>
              r.evidence \in {"ProvenProcessTermination", "OperatorResolution"}
                              \cup NonDelivery

\* Retiring never fails half-way: whenever a retirement may start, its rotation
\* finds a detail to compact, and each candidate has the resume and the ledger
\* entry that compaction needs (the code has already changed the ledger by
\* the time rotate_retirement_history can return an error).
RotationNeverStrands ==
    \A id \in OpId, disposition \in {"Retired", "CurrentStateAccepted"} :
        MayRetireRecord(id, disposition, generation[Of(id)]) /\ MayRetire(id) =>
            LET rt == [retirement EXCEPT ![id] =
                         RetirementOf(id, disposition, generation[Of(id)])]
                br == IF disposition = "CurrentStateAccepted"
                         /\ rec[id].cap = "PointerClick"
                      THEN [barrier EXCEPT ![Of(id)] = [source |-> id]] ELSE barrier
                victims == RotationVictims(rt, br)
            IN  /\ victims # {}
                /\ \A gone \in victims, q \in OpId : q \in gone =>
                      CanCompact(q, rt, [blocked EXCEPT ![Of(id)] = NoOp])

\* Every state the Hub persists is one restore_after_restart accepts, up to two of its
\* checks: records, ledger and quarantines agree, retirements, barriers and resumes still
\* prove one another (rotating history never cuts the proof of a barrier), the history of
\* automatic resolutions fits its limit and its records, and until the first entry is
\* drained it is complete.  The two checks that a checkpoint of the Hub can fail are
\* CheckpointKeepsBarriers and CheckpointKeepsHistory.
CheckpointRestores ==
    /\ RestoreAcceptsRecords /\ RestoreAcceptsLedger /\ RestoreAcceptsQuarantines
    /\ RestoreAcceptsRetirements /\ RestoreAcceptsBarrierProofs
    /\ RestoreAcceptsHistory
    /\ Len(autoResolutions) < MaxAutoResolutions => HistoryIsComplete

\* "so every persisted checkpoint remains self-consistent": a desktop behind a
\* mutation-resume barrier can always be restored after a restart.
CheckpointKeepsBarriers == RestoreAcceptsBarrierDevices

\* The same claim of the bounded history: an operation recorded as resolved automatically
\* still has the history entry without which restore_after_restart refuses the checkpoint.
CheckpointKeepsHistory == HistoryIsComplete

\* How a step may change a desktop's quarantine.
QuarantineStep ==
    \A d \in Device : Quarantined(d) /\ quarantine'[d] # quarantine[d] =>
        LET id == quarantine[d].op IN
        /\ quarantine'[d] = NoQuarantine
        /\ \/ id \in retired' \ retired
           \/ id \in resolutions' /\ rec'[id].evidence = "OperatorResolution"
           \/ /\ rec'[id].recon = "AutoResolved"
              /\ <<rec'[id].state, rec'[id].evidence>> \in AuthoritativeTerminal

\* Reconnect, restart, pruning and other operations never lift a quarantine:
\* it ends only with the outcome of its own operation being proved by the
\* Agent, decided by an operator, or retired as unknown.
QuarantineEndsOnlyWithProof == [][QuarantineStep]_vars

\* What a step may do to the record of a retired operation.
RetiredStep ==
    \A id \in retired : rec'[id].state \in {rec[id].state, "Absent"}

\* A retired outcome stays unknown for ever: the operation is never given an
\* outcome afterwards and its id never runs again, even after its detail has
\* been rotated away and its caller presents the id once more.
RetiredStaysUnknown == [][RetiredStep]_vars

\* What ExecutionSafetyController keeps true of its records, whatever order calls, reports,
\* decisions and restarts come in: they agree with the ledger, stop mutation behind a
\* barrier, carry only receipts that fit, never strand a rotation and can be restored.
ControllerSafe ==
    /\ SafetyTypeOK
    /\ LedgersAgree
    /\ BarrierStopsMutation
    /\ ReceiptsMatchOutcome
    /\ RotationNeverStrands
    /\ CheckpointRestores
=============================================================================
