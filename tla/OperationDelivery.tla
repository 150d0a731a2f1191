-------------------------- MODULE OperationDelivery --------------------------
(***************************************************************************)
(* An operation's way from the Hub to one Agent and back.  The Hub's       *)
(* admission ledger (Admission) and the Agent process (AgentExecution) are *)
(* composed through the sessions of src/v2_m1_hub.rs: one Hub session and  *)
(* one pair of channels per generation, any number of which may overlap.   *)
(*                                                                         *)
(* Each Hub handler runs under the state lock and commits before it        *)
(* returns: it is one action, and a failed commit leaves the ledger as it  *)
(* was (persist_locked) and ends the session.  Operations are effectful    *)
(* and their ids fresh; evidence reads, operator recovery and the reuse of *)
(* ids are the subject of ExecutionSafety.                                 *)
(***************************************************************************)
EXTENDS Admission

CONSTANTS
    Desktop,          \* the one device of a SingleDeviceHub
    BackendOps,       \* operations run by the computer-use backend
    MaxJournal,       \* MAX_AGENT_TERMINAL_EVIDENCE_ENTRIES
    MaxCancels,       \* bound on the callers' cancellation requests
    MaxHubCrashes,    \* bound on the restarts of the Hub
    MaxStoreFailures  \* bound on the commits the state store may refuse

ASSUME DeliveryConstants ==
    /\ Device = {Desktop}
    /\ BackendOps \subseteq OpId
    /\ MaxJournal \in Nat \ {0}
    /\ MaxCancels \in Nat
    /\ MaxHubCrashes \in Nat
    /\ MaxStoreFailures \in Nat

VARIABLES
    \* the Agent
    process, session, step, gate, running, worker, reply, journal, disk,
    started, proved,
    \* the Hub
    registered,     \* the registry's generation of the desktop
    hub,            \* the session task of each generation
    pending,        \* its pending operations
    dispatching,    \* the operation its loop is dispatching, or NoOp
    proof,          \* what an operation was settled on (its receipt's evidence)
    recon,          \* reconciliation_status of an indeterminate operation
    budget,         \* the cancellations, crashes and store failures so far
    \* the transport
    link, toAgent, toHub

\* Every operation here has an effect.
Agent == INSTANCE AgentExecution WITH ReadOps <- {}

agentState == <<process, session, step, gate, running, worker, reply, journal,
                disk, started, proved>>
sessions == <<registered, hub, pending, dispatching>>
settlement == <<proof, recon>>
transport == <<link, toAgent, toHub>>
deliveryVars == <<admissionVars, agentState, sessions, settlement, budget, transport>>

Proof == {"None", "BeforeDispatch", "NotDelivered", "Result", "Reconciled"}

DeliveryTypeOK ==
    /\ AdmissionTypeOK
    /\ Agent!AgentTypeOK
    /\ registered \in 0..MaxGeneration
    /\ hub \in [Generation -> {"None", "Accepted", "Open", "Closing", "Ended"}]
    /\ pending \in [Generation -> SUBSET OpId]
    /\ dispatching \in [Generation -> OpId \cup {NoOp}]
    /\ proof \in [OpId -> Proof]
    /\ recon \in [OpId -> {"None", "Auto", "Gap", "Operator"}]
    /\ budget \in [cancels : 0..MaxCancels, crashes : 0..MaxHubCrashes,
                   failures : 0..MaxStoreFailures]
    /\ link \in [Generation -> {"Up", "Down"}]

DeliveryInit ==
    /\ AdmissionInit
    /\ Agent!AgentInit
    /\ registered = 0
    /\ hub = [g \in Generation |-> "None"]
    /\ pending = [g \in Generation |-> {}]
    /\ dispatching = [g \in Generation |-> NoOp]
    /\ proof = [op \in OpId |-> "None"]
    /\ recon = [op \in OpId |-> "None"]
    /\ budget = [cancels |-> 0, crashes |-> 0, failures |-> 0]
    /\ link = [g \in Generation |-> "Down"]
    /\ toAgent = [g \in Generation |-> << >>]
    /\ toHub = [g \in Generation |-> << >>]

-----------------------------------------------------------------------------
(* The transport *)

\* A broken connection loses what is sent on it; nobody reads for a session
\* whose loop has ended.
SendToHub(g, message) ==
    toHub' = IF link[g] = "Up" /\ hub[g] \in {"Accepted", "Open"}
             THEN [toHub EXCEPT ![g] = Append(@, message)] ELSE toHub

SendToAgent(g, message) ==
    toAgent' = IF link[g] = "Up" THEN [toAgent EXCEPT ![g] = Append(@, message)]
               ELSE toAgent

LinkBreaks(g) ==
    /\ link[g] = "Up"
    /\ link' = [link EXCEPT ![g] = "Down"]
    /\ UNCHANGED <<admissionVars, agentState, sessions, settlement, budget, toAgent,
                   toHub>>

\* The Agent's stream, and what it has not read, go with its session.
LinkFollowsAgent(unread) ==
    IF process' = "Session" THEN link' = link /\ toAgent' = unread
    ELSE /\ link' = [g \in Generation |-> "Down"]
         /\ toAgent' = [g \in Generation |-> << >>]

-----------------------------------------------------------------------------
(* Connecting *)

\* The Agent dials; the Hub verifies it, advances the generation, prunes and
\* commits.  A process has one stream, so any earlier one is dead.
HubAuthenticate ==
    LET g == registered + 1 IN
    /\ process = "Idle"
    /\ g \in Generation
    /\ registered' = g
    /\ hub' = [hub EXCEPT ![g] = "Accepted"]
    /\ link' = [x \in Generation |-> IF x = g THEN "Up" ELSE "Down"]
    /\ AdmissionPruneTerminalBeforeGeneration(Desktop, g)
    /\ UNCHANGED <<agentState, pending, dispatching, settlement, budget, toAgent, toHub>>

\* The session becomes the live one: callers reach its loop from now on.
HubInstall(g) ==
    /\ hub[g] = "Accepted"
    /\ hub' = [hub EXCEPT ![g] = "Open"]
    /\ UNCHANGED <<admissionVars, agentState, registered, pending, dispatching,
                   settlement, budget, transport>>

\* The acceptance or the recovery challenge cannot be sent: no loop, no cleanup.
HubAcceptFails(g) ==
    /\ hub[g] = "Accepted" /\ link[g] = "Down"
    /\ hub' = [hub EXCEPT ![g] = "Ended"]
    /\ toHub' = [toHub EXCEPT ![g] = << >>]
    /\ UNCHANGED <<admissionVars, agentState, registered, pending, dispatching,
                   settlement, budget, link, toAgent>>

\* The first message of a session is the Agent's complete journal.
AgentAccepted(g) ==
    /\ link[g] = "Up"
    /\ Agent!AgentConnect(g)
    /\ SendToHub(g, [type |-> "Report", evidence |-> journal])
    /\ UNCHANGED <<admissionVars, sessions, settlement, budget, link, toAgent>>

-----------------------------------------------------------------------------
(* The Agent's steps, with their messages *)

AgentInternal ==
    \/ Agent!AgentRestart
    \/ Agent!AgentDeny
    \/ Agent!AgentSpawn
    \/ \E op \in OpId, out \in Agent!Outcome : Agent!WorkerFinishes(op, out)
    \/ \E out \in Agent!Outcome :
          Agent!AgentComplete(out) \/ Agent!AgentCompleteReconnecting(out)
    \/ Agent!AgentCompleteCancelled
    \/ Agent!AgentReceiptRejected
    \/ Agent!AgentTerminated
    \/ Agent!AgentTerminatedExit
    \/ Agent!AgentTerminationTimeout
    \/ Agent!AgentCrash

AgentLocal ==
    /\ AgentInternal
    /\ LinkFollowsAgent(toAgent)
    /\ UNCHANGED <<admissionVars, sessions, settlement, budget, toHub>>

\* A broken stream is worth a reconnect; a session the Hub closes with an error
\* of its own (failed_precondition) ends the process.
AgentLosesLink ==
    /\ process = "Session"
    /\ \/ /\ link[session] = "Down"
          /\ Agent!AgentStreamEnds("EndReconnect") \/ Agent!AgentSendFails
       \/ /\ hub[session] \in {"Closing", "Ended"}
          /\ Agent!AgentStreamEnds("EndExit")
    /\ LinkFollowsAgent(toAgent)
    /\ UNCHANGED <<admissionVars, sessions, settlement, budget, toHub>>

\* The result of an operation, or the acknowledgement of its timeout.
AgentSends ==
    /\ Agent!AgentSend
    /\ SendToHub(session,
           [type |-> IF reply.outcome = "TimedOut" THEN "IndeterminateAck" ELSE "Result",
            op |-> reply.op, outcome |-> reply.outcome])
    /\ LinkFollowsAgent(toAgent)
    /\ UNCHANGED <<admissionVars, sessions, settlement, budget>>

AgentReceives(type, op) ==
    /\ process = "Session"
    /\ toAgent[session] # << >>
    /\ Head(toAgent[session]) = [type |-> type, op |-> op]

AgentHandled ==
    /\ LinkFollowsAgent([toAgent EXCEPT ![session] = Tail(@)])
    /\ UNCHANGED <<admissionVars, sessions, settlement, budget>>

AgentCommand(op) ==
    /\ AgentReceives("Command", op)
    /\ Agent!AgentBegin(op) \/ Agent!AgentRefuse(op)
    /\ AgentHandled
    /\ UNCHANGED toHub

\* A backend cancellation is acknowledged as unproven at once.
AgentCancels(op) ==
    /\ AgentReceives("Cancel", op)
    /\ \/ /\ Agent!AgentCancel(op)
          /\ SendToHub(session, [type |-> "CancellationAck", op |-> op,
                                 unproven |-> op \in BackendOps])
       \/ /\ Agent!AgentCancelMismatch(op)
          /\ UNCHANGED toHub
    /\ AgentHandled

-----------------------------------------------------------------------------
(* The Hub's session loop: admission and dispatch *)

LoopFree(g) == hub[g] = "Open" /\ dispatching[g] = NoOp

\* The loop returns; the handler that made it has committed nothing.
Close(g) ==
    /\ hub' = [hub EXCEPT ![g] = "Closing"]
    /\ dispatching' = [dispatching EXCEPT ![g] = NoOp]

\* HubRequest::Execute; a superseded loop may still take one.
HubExecute(g, op) ==
    /\ LoopFree(g)
    /\ proof[op] = "None" /\ recon[op] = "None"
    /\ \/ /\ AdmitNow(op, Desktop, g)
          /\ dispatching' = [dispatching EXCEPT ![g] = op]
       \/ /\ AdmitQueued(op, Desktop, g)
          /\ UNCHANGED dispatching
    /\ pending' = [pending EXCEPT ![g] = @ \cup {op}]
    /\ UNCHANGED <<agentState, registered, hub, settlement, budget, transport>>

\* dispatch_next, after a step that removed `done' from the session's pending:
\* a successor that another session admitted ends this one.
DispatchNext(g, done) ==
    LET next == IF active' = active THEN NoOp ELSE active'[Desktop] IN
    /\ pending' = [pending EXCEPT ![g] = @ \ done]
    /\ IF next \in (pending[g] \ done) \cup {NoOp}
       THEN hub' = hub /\ dispatching' = [dispatching EXCEPT ![g] = next]
       ELSE Close(g)

Settled(op, by) == proof' = [proof EXCEPT ![op] = by]

\* The grant signer, the semantic constraint or the shutdown drain refuses.
HubRejectDispatch(g) ==
    LET op == dispatching[g] IN
    /\ hub[g] = "Open" /\ op # NoOp
    /\ CancelActive(op)
    /\ Settled(op, "BeforeDispatch")
    /\ DispatchNext(g, {op})
    /\ UNCHANGED <<agentState, registered, recon, budget, transport>>

HubMarkDispatched(g) ==
    /\ hub[g] = "Open" /\ dispatching[g] # NoOp
    /\ AdmissionMarkDispatched(dispatching[g])
    /\ UNCHANGED <<agentState, sessions, settlement, budget, transport>>

MayEnqueue(g) ==
    /\ hub[g] = "Open" /\ dispatching[g] # NoOp
    /\ state[dispatching[g]] \in InFlight

HubSendCommand(g) ==
    /\ MayEnqueue(g)
    /\ SendToAgent(g, [type |-> "Command", op |-> dispatching[g]])
    /\ dispatching' = [dispatching EXCEPT ![g] = NoOp]
    /\ UNCHANGED <<admissionVars, agentState, registered, hub, pending, settlement,
                   budget, link, toHub>>

\* The frame was never accepted by the outbound path: proof of non-execution.
HubNotDelivered(g) ==
    LET op == dispatching[g] IN
    /\ MayEnqueue(g)
    /\ FinalizeTerminal(op, "Cancelled")
    /\ Settled(op, "NotDelivered")
    /\ UNCHANGED <<agentState, registered, recon, budget, transport>>

HubEncodeFails(g) == HubNotDelivered(g) /\ DispatchNext(g, {dispatching[g]})

HubOutboundClosed(g) ==
    /\ link[g] = "Down"
    /\ HubNotDelivered(g)
    /\ Close(g)
    /\ pending' = [pending EXCEPT ![g] = @ \ {dispatching[g]}]

-----------------------------------------------------------------------------
(* The Hub's session loop: messages and cancellation *)

\* Every message passes ensure_current_generation first.
HubReceives(g, type) ==
    /\ LoopFree(g)
    /\ registered = g
    /\ toHub[g] # << >> /\ Head(toHub[g]).type = type
    /\ toHub' = [toHub EXCEPT ![g] = Tail(@)]
    /\ UNCHANGED <<agentState, registered, budget, link, toAgent>>

HubIgnores == UNCHANGED <<admissionVars, hub, pending, dispatching, settlement>>

HubRefuses(g) == Close(g) /\ UNCHANGED <<admissionVars, pending, settlement>>

\* Mutant: the desktop is not blocked.
QuarantineWithoutBlock(op, status) ==
    /\ state' = [state EXCEPT ![op] = "Indeterminate"]
    /\ active' = [active EXCEPT ![Desktop] = NoOp]
    /\ recon' = [recon EXCEPT ![op] = status]
    /\ UNCHANGED <<ref, queue, blocked, retired, recoveryReads, proof>>

\* mark_indeterminate: the desktop is quarantined and its queue cancelled, also
\* what other sessions have queued; only this session's callers are told.
Quarantine(op, status) ==
    LET queued == {q \in OpId : state[q] = "Queued"} IN
    /\ state' = [q \in OpId |-> IF q = op THEN "Indeterminate"
                                ELSE IF q \in queued THEN "Cancelled" ELSE state[q]]
    /\ active' = [active EXCEPT ![Desktop] = NoOp]
    /\ queue' = [queue EXCEPT ![Desktop] = << >>]
    /\ blocked' = [blocked EXCEPT ![Desktop] = op]
    /\ proof' = [q \in OpId |-> IF q \in queued THEN "BeforeDispatch" ELSE proof[q]]
    /\ recon' = [recon EXCEPT ![op] = status]
    /\ UNCHANGED <<ref, retired, recoveryReads>>

QuarantineInLoop(g, op) ==
    /\ Quarantine(op, "Operator")
    /\ pending' = [pending EXCEPT ![g] = {q \in @ : q # op /\ state'[q] # "Cancelled"}]
    /\ UNCHANGED <<hub, dispatching>>

\* Mutant: a result without proof counts as a failure.
HubResultUnprovenFails(g) ==
    LET result == Head(toHub[g])
        outcome == IF result.outcome = "Unproven" THEN "Failed" ELSE result.outcome
    IN  /\ HubReceives(g, "Result")
        /\ IF result.op \in pending[g]
           THEN /\ FinalizeTerminal(result.op, outcome)
                /\ Settled(result.op, "Result")
                /\ DispatchNext(g, {result.op})
                /\ UNCHANGED recon
           ELSE HubRefuses(g)

\* handle_result
HubResult(g) ==
    LET result == Head(toHub[g]) IN
    /\ HubReceives(g, "Result")
    /\ IF result.op \notin pending[g] THEN HubRefuses(g)
       ELSE IF result.outcome = "Unproven"
       THEN QuarantineInLoop(g, result.op)
       ELSE /\ FinalizeTerminal(result.op, result.outcome)
            /\ Settled(result.op, "Result")
            /\ DispatchNext(g, {result.op})
            /\ UNCHANGED recon

\* What a late acknowledgement can no longer change.
IsSettled(op) == state[op] \in Terminal \cup {"Indeterminate"}

\* handle_indeterminate_ack
HubIndeterminateAck(g) ==
    LET op == Head(toHub[g]).op IN
    /\ HubReceives(g, "IndeterminateAck")
    /\ IF IsSettled(op) THEN HubIgnores
       ELSE IF op \in pending[g]
       THEN QuarantineInLoop(g, op)
       ELSE HubRefuses(g)

\* handle_cancellation_ack
HubCancellationAck(g) ==
    LET ack == Head(toHub[g]) IN
    /\ HubReceives(g, "CancellationAck")
    /\ IF ~ ack.unproven \/ (ack.op \notin pending[g] /\ IsSettled(ack.op))
       THEN HubIgnores
       ELSE IF ack.op \in pending[g]
       THEN QuarantineInLoop(g, ack.op)
       ELSE HubRefuses(g)

\* Mutant: only the evidence of the session just before is looked at.
EvidenceForLastSession(g, op, evidence) ==
    {e \in Range(evidence) : e.op = op /\ e.generation + 1 = g}

EvidenceFor(g, op, evidence) == {e \in Range(evidence) : e.op = op}

\* handle_reconciliation_report.  Only the operation that blocks the desktop
\* is indeterminate; entries for any other are stale duplicates.
HubReport(g) ==
    LET op == blocked[Desktop]
        found == EvidenceFor(g, op, Head(toHub[g]).evidence)
    IN  /\ HubReceives(g, "Report")
        /\ UNCHANGED <<hub, pending, dispatching>>
        /\ \/ /\ op = NoOp
              /\ UNCHANGED <<admissionVars, settlement>>
           \/ /\ op # NoOp /\ found = {}
              /\ recon' = [recon EXCEPT ![op] = IF @ = "Auto" THEN "Gap" ELSE @]
              /\ UNCHANGED <<admissionVars, proof>>
           \/ /\ op # NoOp /\ found # {}
              /\ \E e \in found :
                    IF recon[op] = "Auto" /\ e.generation = ref[op].generation
                                          /\ e.generation < g
                    THEN /\ ReconcileIndeterminateTerminal(op, e.outcome)
                         /\ Settled(op, "Reconciled")
                         /\ recon' = [recon EXCEPT ![op] = "None"]
                    ELSE /\ recon' = [recon EXCEPT ![op] = "Operator"]
                         /\ UNCHANGED <<admissionVars, proof>>

\* HubRequest::Cancel by the owner, for an operation of this generation.
HubCancel(g, op) ==
    /\ LoopFree(g)
    /\ ref[op].generation = g
    /\ budget.cancels < MaxCancels
    /\ budget' = [budget EXCEPT !.cancels = @ + 1]
    /\ \/ /\ CancelQueued(op) \/ CancelActive(op)
          /\ Settled(op, "BeforeDispatch")
          /\ DispatchNext(g, {op})
          /\ UNCHANGED toAgent
       \/ /\ CancelDispatched(op) \/ (state[op] = "CancelRequested" /\ UNCHANGED admissionVars)
          /\ SendToAgent(g, [type |-> "Cancel", op |-> op])
          /\ UNCHANGED <<hub, pending, dispatching, proof>>
    /\ UNCHANGED <<agentState, registered, recon, link, toHub>>

-----------------------------------------------------------------------------
(* The end of a Hub session *)

\* The stream has ended, a newer session or the heartbeat or lifetime deadline
\* ends this one, a drain has completed, or a message is of a stale generation.
HubLoopEnds(g) ==
    /\ LoopFree(g)
    /\ Close(g)
    /\ toHub' = [toHub EXCEPT ![g] = << >>]
    /\ UNCHANGED <<admissionVars, agentState, registered, pending, settlement, budget,
                   link, toAgent>>

\* A handler's commit is refused: persist_locked restores the committed state.
HubStoreFails(g) ==
    /\ hub[g] = "Open"
    /\ budget.failures < MaxStoreFailures
    /\ budget' = [budget EXCEPT !.failures = @ + 1]
    /\ Close(g)
    /\ toHub' = [toHub EXCEPT ![g] = << >>]
    /\ UNCHANGED <<admissionVars, agentState, registered, pending, settlement, link,
                   toAgent>>

SessionGone(g) ==
    /\ hub' = [hub EXCEPT ![g] = "Ended"]
    /\ pending' = [pending EXCEPT ![g] = {}]
    /\ link' = [link EXCEPT ![g] = "Down"]
    /\ toHub' = [toHub EXCEPT ![g] = << >>]
    /\ UNCHANGED <<agentState, registered, dispatching, toAgent>>

\* Mutant: a superseded session leaves its operations alone.
OfSessionIfCurrent(g) ==
    {op \in OpId : state[op] \in Unsettled /\ ref[op].generation = g /\ g = registered}

OfSession(g) == {op \in OpId : state[op] \in Unsettled /\ ref[op].generation = g}

\* What is left of a queue without the operations in `own', in its order.
Rest(waiting, own) ==
    {left \in SeqOf(Range(waiting) \ own, Len(waiting)) :
        /\ Range(waiting) \ own \subseteq Range(left)
        /\ \A i, j \in DOMAIN left : \A k, l \in DOMAIN waiting :
              left[i] = waiting[k] /\ left[j] = waiting[l] => (i < j <=> k < l)}

\* Without an operation in flight: cancel all, and a freed slot goes to the
\* first queued operation of another session.
CancelUndispatched(own) ==
    \E left \in Rest(queue[Desktop], own) :
    LET starts == active[Desktop] \in own /\ left # << >>
    IN  /\ state' = [q \in OpId |->
                       IF q \in own THEN "Cancelled"
                       ELSE IF starts /\ q = Head(left) THEN "ActiveNotDispatched"
                       ELSE state[q]]
        /\ active' = [active EXCEPT ![Desktop] =
                        IF starts THEN Head(left) ELSE IF @ \in own THEN NoOp ELSE @]
        /\ queue' = [queue EXCEPT ![Desktop] = IF starts THEN Tail(left) ELSE left]
        /\ proof' = [q \in OpId |-> IF q \in own THEN "BeforeDispatch" ELSE proof[q]]
        /\ UNCHANGED <<ref, blocked, retired, recoveryReads, recon>>

\* cleanup_session
HubCleanup(g) ==
    LET own == OfSession(g)
        inFlight == {op \in own : state[op] \in InFlight}
    IN  /\ hub[g] = "Closing"
        /\ IF inFlight = {} THEN CancelUndispatched(own) /\ SessionGone(g)
           ELSE \E op \in inFlight :
                   /\ Quarantine(op, "Auto")
                   /\ SessionGone(g)
        /\ UNCHANGED budget

HubCleanupFails(g) ==
    /\ hub[g] = "Closing"
    /\ budget.failures < MaxStoreFailures
    /\ budget' = [budget EXCEPT !.failures = @ + 1]
    /\ SessionGone(g)
    /\ UNCHANGED <<admissionVars, settlement>>

\* The Hub stops and a new process restores the committed state.
HubCrash ==
    /\ budget.crashes < MaxHubCrashes
    /\ budget' = [budget EXCEPT !.crashes = @ + 1]
    /\ AdmissionRestart
    /\ hub' = [g \in Generation |-> IF hub[g] = "None" THEN "None" ELSE "Ended"]
    /\ pending' = [g \in Generation |-> {}]
    /\ dispatching' = [g \in Generation |-> NoOp]
    /\ proof' = [op \in OpId |-> IF state[op] \in {"Queued", "ActiveNotDispatched"}
                                 THEN "BeforeDispatch" ELSE proof[op]]
    /\ recon' = [op \in OpId |-> IF state[op] \in InFlight THEN "Auto" ELSE recon[op]]
    /\ link' = [g \in Generation |-> "Down"]
    /\ toHub' = [g \in Generation |-> << >>]
    /\ UNCHANGED <<agentState, registered, toAgent>>

-----------------------------------------------------------------------------
HubSteps(g) ==
    \/ HubInstall(g)
    \/ HubAcceptFails(g)
    \/ HubRejectDispatch(g)
    \/ HubMarkDispatched(g)
    \/ HubSendCommand(g)
    \/ HubEncodeFails(g)
    \/ HubOutboundClosed(g)
    \/ HubResult(g)
    \/ HubIndeterminateAck(g)
    \/ HubCancellationAck(g)
    \/ HubReport(g)
    \/ \E op \in OpId : HubExecute(g, op) \/ HubCancel(g, op)
    \/ HubLoopEnds(g)
    \/ HubStoreFails(g)
    \/ HubCleanup(g)
    \/ HubCleanupFails(g)

DeliveryNext ==
    \/ HubAuthenticate
    \/ \E g \in Generation : AgentAccepted(g) \/ LinkBreaks(g) \/ HubSteps(g)
    \/ AgentLocal
    \/ AgentLosesLink
    \/ AgentSends
    \/ \E op \in OpId : AgentCommand(op) \/ AgentCancels(op)
    \/ HubCrash

\* A session's loop is never stuck in a dispatch and always ends: its hard
\* lifetime deadline fires.  Its task then runs the cleanup.
DeliveryFairness ==
    \A g \in Generation :
        /\ WF_deliveryVars(HubMarkDispatched(g) \/ HubRejectDispatch(g))
        /\ WF_deliveryVars(HubSendCommand(g) \/ HubEncodeFails(g) \/ HubOutboundClosed(g))
        /\ WF_deliveryVars(HubLoopEnds(g))
        /\ WF_deliveryVars(HubCleanup(g))

DeliverySpec == DeliveryInit /\ [][DeliveryNext]_deliveryVars /\ DeliveryFairness

-----------------------------------------------------------------------------
(* Properties *)

\* Cancellation, disconnection, restart of either side or an ambiguous outcome
\* never makes an operation run again, in whatever session.
AtMostOnce ==
    \A op \in OpId : \A g, h \in Generation :
        /\ started[op][g] <= 1
        /\ started[op][g] = 1 /\ started[op][h] = 1 => g = h

\* Every receipt of the Hub is true of the Agent.  A result or a reconciled
\* report states an outcome a worker established; an operation settled as
\* never dispatched or never delivered was not started and no command for it
\* is on its way.
HubOutcomeTruthful ==
    \A op \in OpId :
        /\ proof[op] \in {"Result", "Reconciled"} /\ state[op] \in Terminal =>
              \E g \in Generation : state[op] \in proved[op][g]
        /\ proof[op] \in {"BeforeDispatch", "NotDelivered"} =>
              \A g \in Generation :
                  /\ started[op][g] = 0
                  /\ [type |-> "Command", op |-> op] \notin Range(toAgent[g])

\* The Agent answers a replayed id, or a second command, by exiting: the Hub
\* never sends it one, across reconnections, cancellations and restarts.
CommandsAreFresh ==
    Agent!InLoop /\ toAgent[session] # << >> =>
        LET message == Head(toAgent[session]) IN
        message.type = "Command" => running = NoOp /\ message.op \notin gate.terminal

\* An evidence gap is only declared for an operation the Agent really has no
\* evidence for, and never will have.
GapIsHonest ==
    \A op \in OpId : recon[op] = "Gap" =>
        op \notin Agent!JournalIds(journal) \cup Agent!JournalIds(disk.journal)

\* The bounded journal drops the evidence of an operation only once the Hub no
\* longer needs it to reconcile.
EvidenceOutlivesNeed ==
    [][\A op \in Agent!JournalIds(disk.journal) \ Agent!JournalIds(disk'.journal) :
          state[op] \notin InFlight /\ recon[op] # "Auto"]_deliveryVars

\* cleanup_session "always" settles what its generation dispatched: nothing in
\* flight is left without a session that will settle it.
InFlightHasSession ==
    \A op \in OpId : state[op] \in InFlight =>
        hub[ref[op].generation] \in {"Open", "Closing"}

\* No started operation holds its desktop for ever: neither one that was
\* dispatched and got no answer, nor one that was started by another session's
\* cleanup or rejection and that its own session never heard of.
SlotIsReleased ==
    \A op \in OpId : state[op] \in Running ~> state[op] \notin Running

\* Hub and Agent together, while the store accepts commits: receipts are true of the Agent,
\* the Agent gets no command it must refuse, and what is in flight has a session that will
\* settle it, over one reconnection, one cancellation and one restart of the Hub.
DeliverySafe ==
    /\ DeliveryTypeOK
    /\ CommandsAreFresh
    /\ InFlightHasSession
    /\ HubOutcomeTruthful

\* Also when commits are refused and three sessions overlap, no operation runs twice and no
\* evidence is declared missing that the Agent has.
ReconnectionSafe == AtMostOnce /\ GapIsHonest
=============================================================================
