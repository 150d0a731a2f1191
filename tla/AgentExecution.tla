--------------------------- MODULE AgentExecution ---------------------------
(***************************************************************************)
(* The Agent process: the replay gate (AgentExecutionGate in               *)
(* src/v2_m0_execution.rs), the terminal-evidence journal, the checkpoint  *)
(* and the session loop around them (src/v2_m1_agent.rs).                  *)
(*                                                                         *)
(* One arm of the loop's select! is one or two actions: a second action    *)
(* only where the arm crosses a durability point, so that the process can  *)
(* stop between the checkpoint and what follows it.  A checkpoint that     *)
(* cannot be written ends the process, which is AgentCrash before the      *)
(* step.  Every command is authentic, of this session's generation and     *)
(* carries an unused grant (checked in front of the gate).                 *)
(***************************************************************************)
EXTENDS Naturals, Sequences, SequencesExt, FiniteSets

CONSTANTS
    OpId,            \* operation ids the Hub may send
    NoOp,            \* None
    BackendOps,      \* the operations run by the computer-use backend
    ReadOps,         \* the operations of a capability of class Observe
    MaxGeneration,   \* bound on the authenticated device generation
    MaxJournal       \* MAX_AGENT_TERMINAL_EVIDENCE_ENTRIES (64 in the code)

ASSUME AgentConstants ==
    /\ NoOp \notin OpId
    /\ BackendOps \subseteq OpId
    /\ ReadOps \subseteq OpId
    /\ MaxGeneration \in Nat
    /\ MaxJournal \in Nat \ {0}

VARIABLES
    process,    \* "Down", "Idle" (between sessions) or "Session"
    session,    \* the generation of the session, 0 outside one
    step,       \* where the session loop stands
    gate,       \* AgentExecutionGate
    running,    \* the loop's `active' operation
    worker,     \* the spawned task of each operation
    reply,      \* the settled outcome still to be sent
    journal,    \* terminal_evidence, oldest first
    disk,       \* the latest checkpoint
    started,    \* history: how often the backend was started, capped at 2
    proved      \* history: the outcomes established for an operation

agentVars == <<process, session, step, gate, running, worker, reply, journal,
               disk, started, proved>>

AgentGeneration == 1..MaxGeneration

\* What a finished worker hands back (AgentOperationOutcome).
Results == {"Completed", "Failed", "Cancelled"}
Receipts == {"ReceiptCommitted", "ReceiptNotExecuted"}
Ambiguous == {"Unproven", "TimedOut", "CancelPropagated", "ProcessUnproven"}
Outcome == Results \cup Receipts \cup Ambiguous

\* terminal_evidence_for_device_result and as_terminal_evidence.
TerminalState(out) ==
    IF out \in Results THEN out
    ELSE IF out = "ReceiptCommitted" THEN "Completed"
    ELSE IF out = "ReceiptNotExecuted" THEN "Failed" ELSE "None"

Steps == {"Loop", "Begun", "Settled", "EndReconnect", "EndExit"}

NoReply == [op |-> NoOp, outcome |-> "None"]
Evidence == [op : OpId, generation : AgentGeneration, outcome : Results]
NoGate == [active |-> NoOp, generation |-> 0, terminal |-> {}]

Gate == [active : OpId \cup {NoOp}, generation : 0..MaxGeneration,
         terminal : SUBSET OpId]

AgentTypeOK ==
    /\ process \in {"Down", "Idle", "Session"}
    /\ session \in 0..MaxGeneration
    /\ step \in Steps
    /\ gate \in Gate
    /\ running \in OpId \cup {NoOp}
    /\ worker \in [OpId -> {"None", "Running", "Cancelling"} \cup Outcome]
    /\ reply \in [op : OpId, outcome : Outcome] \cup {NoReply}
    /\ journal \in Seq(Evidence) /\ Len(journal) <= MaxJournal
    /\ disk.generation \in 0..MaxGeneration
    /\ disk.terminal \subseteq OpId
    /\ disk.journal \in Seq(Evidence) /\ Len(disk.journal) <= MaxJournal
    /\ started \in [OpId -> [AgentGeneration -> 0..2]]
    /\ proved \in [OpId -> [AgentGeneration -> SUBSET Results]]

AgentInit ==
    /\ process = "Down" /\ session = 0 /\ step = "Loop"
    /\ gate = NoGate /\ running = NoOp
    /\ worker = [op \in OpId |-> "None"]
    /\ reply = NoReply /\ journal = << >>
    /\ disk = [generation |-> 0, terminal |-> {}, journal |-> << >>]
    /\ started = [op \in OpId |-> [g \in AgentGeneration |-> 0]]
    /\ proved = [op \in OpId |-> [g \in AgentGeneration |-> {}]]

-----------------------------------------------------------------------------
(* The gate, the journal and the checkpoint *)

\* snapshot_for_restart: the running operation counts as terminal.
Snapshot(g, j) ==
    [generation |-> g.generation,
     terminal |-> g.terminal \cup ({g.active} \ {NoOp}),
     journal |-> j]

\* prepare_generation, with no operation active.
PrepareGeneration(g) ==
    [gate EXCEPT !.generation = g,
                 !.terminal = IF gate.generation = g THEN @ ELSE {}]

Finish(op) == [gate EXCEPT !.active = NoOp, !.terminal = @ \cup {op}]

JournalIds(j) == {j[i].op : i \in DOMAIN j}

\* Nothing is recorded for a read (CapabilityClass::Observe), nor without proof.
LeavesEvidence(op, out) == op \notin ReadOps /\ TerminalState(out) # "None"

\* record_terminal_evidence and record_backend_execution_receipt: one entry
\* per id, the oldest dropped beyond the limit.
RecordEvidence(op, out) ==
    LET entry == [op |-> op, generation |-> session, outcome |-> TerminalState(out)]
        pushed == Append(journal, entry)
    IN  IF ~ LeavesEvidence(op, out) \/ op \in JournalIds(journal) THEN journal
        ELSE IF Len(pushed) > MaxJournal THEN Tail(pushed) ELSE pushed

\* The state an exited process leaves in memory: none.
ProcessGone ==
    /\ process' = "Down" /\ session' = 0 /\ step' = "Loop"
    /\ gate' = NoGate /\ running' = NoOp
    /\ worker' = [op \in OpId |-> "None"]
    /\ reply' = NoReply /\ journal' = << >>

\* The session is over and its operation settled.
LeaveSession == process' = "Idle" /\ session' = 0 /\ step' = "Loop"

-----------------------------------------------------------------------------
(* Starting up and connecting *)

AgentRestart ==
    /\ process = "Down"
    /\ process' = "Idle"
    /\ gate' = [active |-> NoOp, generation |-> disk.generation,
                terminal |-> disk.terminal]
    /\ journal' = disk.journal
    /\ UNCHANGED <<session, step, running, worker, reply, disk, started, proved>>

\* The session is accepted and the rollover of the generation is durable
\* before any command is read.
AgentConnect(g) ==
    /\ process = "Idle"
    /\ gate.active = NoOp
    /\ process' = "Session" /\ session' = g /\ step' = "Loop"
    /\ gate' = PrepareGeneration(g)
    /\ disk' = Snapshot(gate', journal)
    /\ UNCHANGED <<running, worker, reply, journal, started, proved>>

-----------------------------------------------------------------------------
(* A command *)

InLoop == process = "Session" /\ step = "Loop"

\* Mutant: the replay barrier is only written once the operation settles.
AgentBeginInMemory(op) ==
    /\ InLoop
    /\ running = NoOp
    /\ op \notin gate.terminal
    /\ gate' = [gate EXCEPT !.active = op]
    /\ step' = "Begun"
    /\ UNCHANGED <<process, session, running, worker, reply, journal, disk,
                   started, proved>>

\* begin, then the checkpoint, before any backend is consulted.
AgentBegin(op) ==
    /\ InLoop
    /\ running = NoOp
    /\ op \notin gate.terminal
    /\ gate' = [gate EXCEPT !.active = op]
    /\ disk' = Snapshot(gate', journal)
    /\ step' = "Begun"
    /\ UNCHANGED <<process, session, running, worker, reply, journal, started, proved>>

\* The handoff authority refuses: the operation settles without running.
AgentDeny ==
    LET op == gate.active IN
    /\ process = "Session" /\ step = "Begun"
    /\ gate' = Finish(op)
    /\ journal' = RecordEvidence(op, "Failed")
    /\ disk' = Snapshot(gate', journal')
    /\ proved' = [proved EXCEPT ![op][session] = @ \cup {"Failed"}]
    /\ reply' = [op |-> op, outcome |-> "Failed"]
    /\ step' = "Settled"
    /\ UNCHANGED <<process, session, running, worker, started>>

AgentSpawn ==
    LET op == gate.active IN
    /\ process = "Session" /\ step = "Begun"
    /\ running' = op
    /\ worker' = [worker EXCEPT ![op] = "Running"]
    /\ started' = [started EXCEPT ![op][session] = IF @ < 2 THEN @ + 1 ELSE @]
    /\ step' = "Loop"
    /\ UNCHANGED <<process, session, gate, reply, journal, disk, proved>>

\* What the worker of an operation may report.  Only a cancelled one reports a
\* cancellation, and no receipt is asked for a read.
PossibleOutcomes(op) ==
    {"Completed", "Failed"}
    \cup (IF op \notin BackendOps THEN {"ProcessUnproven"}
          ELSE {"Unproven", "TimedOut"} \cup (IF op \in ReadOps THEN {} ELSE Receipts))
    \cup (IF worker[op] # "Cancelling" THEN {}
          ELSE IF op \in BackendOps THEN {"CancelPropagated"} ELSE {"Cancelled"})

WorkerFinishes(op, out) ==
    /\ worker[op] \in {"Running", "Cancelling"}
    /\ out \in PossibleOutcomes(op)
    /\ worker' = [worker EXCEPT ![op] = out]
    /\ proved' = [proved EXCEPT ![op][session] = @ \cup ({TerminalState(out)} \ {"None"})]
    /\ UNCHANGED <<process, session, step, gate, running, reply, journal, disk, started>>

-----------------------------------------------------------------------------
(* Settlement *)

\* The gate, the evidence and the checkpoint, in that order.
AgentSettle(op, out) ==
    /\ gate' = Finish(op)
    /\ journal' = RecordEvidence(op, out)
    /\ disk' = Snapshot(gate', journal')

WorkerTaken ==
    /\ running' = NoOp
    /\ worker' = [worker EXCEPT ![running] = "None"]
    /\ UNCHANGED <<started, proved>>

Finished(out) == running # NoOp /\ worker[running] = out

\* A result, or a timeout to be acknowledged: sent in a later step.
AgentComplete(out) ==
    /\ InLoop /\ Finished(out)
    /\ out \in Results \cup {"Unproven", "TimedOut"}
    /\ AgentSettle(running, out)
    /\ reply' = [op |-> running, outcome |-> out]
    /\ step' = "Settled"
    /\ WorkerTaken
    /\ UNCHANGED <<process, session>>

\* The acknowledgement of the cancellation was already sent.
AgentCompleteCancelled ==
    /\ InLoop /\ Finished("CancelPropagated")
    /\ AgentSettle(running, "CancelPropagated")
    /\ WorkerTaken
    /\ UNCHANGED <<process, session, step, reply>>

\* A receipt or an unproven process outcome is never sent: reconnect.
AgentCompleteReconnecting(out) ==
    /\ InLoop /\ Finished(out)
    /\ out \in Receipts \cup {"ProcessUnproven"}
    /\ AgentSettle(running, out)
    /\ LeaveSession
    /\ WorkerTaken
    /\ UNCHANGED reply

\* A receipt out of sequence is refused before the checkpoint.
AgentReceiptRejected ==
    /\ InLoop
    /\ \E out \in Receipts : Finished(out)
    /\ ProcessGone
    /\ UNCHANGED <<disk, started, proved>>

AgentSend ==
    /\ process = "Session" /\ step = "Settled"
    /\ reply' = NoReply
    /\ IF reply.outcome = "TimedOut" THEN LeaveSession
       ELSE step' = "Loop" /\ UNCHANGED <<process, session>>
    /\ UNCHANGED <<gate, running, worker, journal, disk, started, proved>>

AgentSendFails ==
    /\ process = "Session" /\ step = "Settled"
    /\ reply' = NoReply
    /\ LeaveSession
    /\ UNCHANGED <<gate, running, worker, journal, disk, started, proved>>

-----------------------------------------------------------------------------
(* Cancellation and the end of a session *)

CancelWorker(op) ==
    worker' = [worker EXCEPT ![op] = IF @ = "Running" THEN "Cancelling" ELSE @]

AgentCancel(op) ==
    /\ InLoop /\ running = op
    /\ CancelWorker(op)
    /\ UNCHANGED <<process, session, step, gate, running, reply, journal, disk,
                   started, proved>>

\* Leave the loop; a running operation is cancelled and awaited first.
EndSession(ending) ==
    /\ InLoop
    /\ \/ /\ running # NoOp
          /\ step' = ending
          /\ CancelWorker(running)
          /\ UNCHANGED <<process, session, gate, running, reply, journal>>
       \/ /\ running = NoOp /\ ending = "EndReconnect"
          /\ LeaveSession
          /\ UNCHANGED <<gate, running, worker, reply, journal>>
       \/ /\ running = NoOp /\ ending = "EndExit"
          /\ ProcessGone
    /\ UNCHANGED <<disk, started, proved>>

\* A replayed id or a second command: an error no reconnect repairs.
AgentRefuse(op) ==
    /\ running # NoOp \/ op \in gate.terminal
    /\ EndSession("EndExit")

AgentCancelMismatch(op) == running # op /\ EndSession("EndExit")

AgentStreamEnds(ending) == ending \in {"EndReconnect", "EndExit"} /\ EndSession(ending)

\* terminate_active: the worker's outcome is journalled, never sent.
AgentTerminated ==
    /\ process = "Session" /\ step = "EndReconnect"
    /\ worker[running] \in Outcome
    /\ AgentSettle(running, worker[running])
    /\ LeaveSession
    /\ WorkerTaken
    /\ UNCHANGED reply

AgentTerminatedExit ==
    /\ process = "Session" /\ step = "EndExit"
    /\ worker[running] \in Outcome
    /\ disk' = Snapshot(Finish(running), RecordEvidence(running, worker[running]))
    /\ ProcessGone
    /\ UNCHANGED <<started, proved>>

\* OperationTerminationTimeout: the process gives up without a checkpoint.
AgentTerminationTimeout ==
    /\ process = "Session" /\ step \in {"EndReconnect", "EndExit"}
    /\ worker[running] \notin Outcome
    /\ ProcessGone
    /\ UNCHANGED <<disk, started, proved>>

AgentCrash ==
    /\ process # "Down"
    /\ ProcessGone
    /\ UNCHANGED <<disk, started, proved>>

-----------------------------------------------------------------------------
\* On its own the Agent meets any Hub that never moves the generation back (the
\* Agent does not compare it): it may reopen the same generation and send any
\* id at any time, repeated within a generation and across generations.
AgentNext ==
    \/ AgentRestart
    \/ \E g \in AgentGeneration : g >= gate.generation /\ AgentConnect(g)
    \/ \E op \in OpId :
          \/ AgentBegin(op)
          \/ AgentRefuse(op)
          \/ AgentCancel(op)
          \/ AgentCancelMismatch(op)
    \/ \E op \in OpId, out \in Outcome : WorkerFinishes(op, out)
    \/ \E out \in Outcome : AgentComplete(out) \/ AgentCompleteReconnecting(out)
    \/ AgentDeny
    \/ AgentSpawn
    \/ AgentCompleteCancelled
    \/ AgentReceiptRejected
    \/ AgentSend
    \/ AgentSendFails
    \/ \E ending \in {"EndReconnect", "EndExit"} : AgentStreamEnds(ending)
    \/ AgentTerminated
    \/ AgentTerminatedExit
    \/ AgentTerminationTimeout
    \/ AgentCrash

AgentSpec == AgentInit /\ [][AgentNext]_agentVars

-----------------------------------------------------------------------------
(* Properties *)

\* However often the Hub repeats an id, and wherever the process stops and
\* restarts, one generation runs the id at most once (AgentExecutionGate::begin
\* together with the checkpoint that precedes the backend call).
RunsOncePerGeneration ==
    \A op \in OpId, g \in AgentGeneration : started[op][g] <= 1

\* While a worker exists its id is already on disk as spent, under the
\* session's generation: a crash at any moment cannot make it runnable.
ReplayBarrierDurable ==
    \A op \in OpId : worker[op] # "None" =>
        op \in disk.terminal /\ disk.generation = session

\* Evidence is never manufactured: each journal entry, in memory or on disk,
\* was established by a worker, or by a refusal, of that very generation, also
\* when the outcome arrives while the session is being torn down.
JournalTruthful ==
    \A j \in {journal, disk.journal} : \A i \in DOMAIN j :
        j[i].outcome \in proved[j[i].op][j[i].generation]

\* The proved outcome of an operation with an effect is on disk before the result
\* that carries it is sent, so a lost result can still be reconciled.  A read leaves
\* no evidence: its lost result cannot.  (An id of an earlier generation that is
\* still in the journal keeps its first entry.)
EvidencePrecedesResult ==
    reply.op \notin ReadOps /\ TerminalState(reply.outcome) # "None" =>
        reply.op \in JournalIds(disk.journal)

\* The journal's few places are for effects: whatever reads the Hub sends, none
\* takes one, so none drops the evidence of an effect.
ReadsLeaveNoEvidence ==
    \A j \in {journal, disk.journal} : JournalIds(j) \cap ReadOps = {}

\* No path out of a session leaves work behind: between sessions the gate is
\* free and no worker lives, and at no time do two.
NoWorkOutlivesSession ==
    /\ \A op, other \in OpId :
          worker[op] # "None" /\ worker[other] # "None" => op = other
    /\ process # "Session" => /\ gate.active = NoOp
                              /\ \A op \in OpId : worker[op] = "None"

\* What the Agent keeps true through crashes between any two of its steps: an operation
\* runs once per generation, the barrier against its replay and the evidence of its effect are
\* durable before they are acted on, the journal is true, it is not spent on reads, and no work
\* outlives its session.
AgentSafe ==
    /\ AgentTypeOK
    /\ RunsOncePerGeneration
    /\ ReplayBarrierDurable
    /\ JournalTruthful
    /\ EvidencePrecedesResult
    /\ ReadsLeaveNoEvidence
    /\ NoWorkOutlivesSession
=============================================================================
