------------------------ MODULE AgentExecutionProofs ------------------------
(***************************************************************************)
(* Machine-checked proofs about the Agent, for every set of operation ids, *)
(* every number of generations and every journal limit.                    *)
(*                                                                         *)
(* RunsOncePerGeneration is not inductive: that an id does not run again   *)
(* rests on where the loop stands (Control), on what the checkpoint        *)
(* records of it at that place (Barrier), and on the started ids being     *)
(* spent both in memory and on disk (Spent).                               *)
(***************************************************************************)
EXTENDS AgentExecution, SequenceTheorems, TLAPS

\* Where the loop stands fixes what the gate and the worker hold.
Control ==
    /\ process # "Session" =>
          session = 0 /\ step = "Loop" /\ gate.active = NoOp /\ running = NoOp
    /\ process = "Session" => session \in AgentGeneration
    /\ process = "Session" /\ step \in {"Loop", "EndReconnect", "EndExit"} =>
          gate.active = running
    /\ step \in {"EndReconnect", "EndExit"} => running # NoOp
    /\ step = "Begun" => gate.active # NoOp /\ running = NoOp
    /\ step = "Settled" => gate.active = NoOp /\ running = NoOp
    /\ \A op \in OpId : worker[op] # "None" => op = running
    /\ running # NoOp => worker[running] # "None"
    /\ step # "Settled" => reply = NoReply
    /\ step = "Settled" => reply # NoReply

\* The checkpoint is of the gate's generation and holds the active id.
Barrier ==
    /\ process = "Session" => gate.generation = session
    /\ process # "Down" => gate.generation = disk.generation
    /\ process # "Down" => gate.terminal \subseteq disk.terminal
    /\ gate.active # NoOp => gate.active \in disk.terminal

\* What was started is spent; a command that has begun was not started yet.
Spent ==
    /\ \A op \in OpId, g \in AgentGeneration : started[op][g] <= 1
    /\ \A op \in OpId, g \in AgentGeneration :
          g > disk.generation => started[op][g] = 0
    /\ \A op \in OpId, g \in AgentGeneration :
          g = disk.generation /\ started[op][g] # 0 => op \in disk.terminal
    /\ process # "Down" =>
          \A op \in OpId, g \in AgentGeneration :
              g = gate.generation /\ started[op][g] # 0 =>
                  op \in gate.terminal \/ op = gate.active
    /\ step = "Begun" => started[gate.active][session] = 0

\* Evidence comes from a worker or a refusal, and is on disk once it is sent.
Witnessed ==
    /\ JournalTruthful
    /\ \A op \in OpId :
          worker[op] \in Outcome /\ TerminalState(worker[op]) # "None" =>
              TerminalState(worker[op]) \in proved[op][session]
    /\ EvidencePrecedesResult

\* The inductive invariant.
AgentIInv == AgentTypeOK /\ Control /\ Barrier /\ Spent /\ Witnessed

-----------------------------------------------------------------------------
(* Outcomes and the journal *)

\* terminal_evidence_for_device_result proves an outcome or nothing.
LEMMA TerminalStateFacts ==
    /\ \A out : TerminalState(out) \in Results \cup {"None"}
    /\ \A out \in Results : TerminalState(out) = out
    /\ TerminalState("None") = "None"
    /\ TerminalState("CancelPropagated") = "None"
    BY DEF TerminalState, Results, Receipts, Ambiguous

\* What record_terminal_evidence leaves in the journal: at most the limit, only
\* entries it found or the proved outcome of this operation, and an entry for
\* the operation whenever it has an effect and its outcome is proved.
LEMMA RecordFacts ==
    ASSUME NEW op \in OpId, NEW out, AgentTypeOK, session \in AgentGeneration
    PROVE  LET r == RecordEvidence(op, out) IN
           /\ r \in Seq(Evidence)
           /\ Len(r) <= MaxJournal
           /\ \A i \in DOMAIN r :
                 \/ \E k \in DOMAIN journal : r[i] = journal[k]
                 \/ /\ r[i] = [op |-> op, generation |-> session,
                               outcome |-> TerminalState(out)]
                    /\ LeavesEvidence(op, out)
           /\ LeavesEvidence(op, out) => op \in JournalIds(r)
<1> DEFINE entry == [op |-> op, generation |-> session, outcome |-> TerminalState(out)]
           pushed == Append(journal, entry)
<1>1. journal \in Seq(Evidence) /\ Len(journal) \in Nat /\ Len(journal) <= MaxJournal
      /\ MaxJournal \in Nat /\ MaxJournal >= 1
    BY AgentConstants DEF AgentTypeOK
<1>2. CASE ~ LeavesEvidence(op, out) \/ op \in JournalIds(journal)
    BY <1>1, <1>2 DEF RecordEvidence
<1>3. CASE ~ (~ LeavesEvidence(op, out) \/ op \in JournalIds(journal))
    <2>1. entry \in Evidence
        BY <1>3, TerminalStateFacts DEF Evidence, LeavesEvidence
    <2>2. /\ pushed \in Seq(Evidence)
          /\ Len(pushed) = Len(journal) + 1
          /\ \A i \in 1..Len(journal) : pushed[i] = journal[i]
          /\ pushed[Len(journal) + 1] = entry
        BY <1>1, <2>1
    <2>3. CASE Len(pushed) > MaxJournal
        <3>1. RecordEvidence(op, out) = Tail(pushed)
            BY <1>3, <2>3 DEF RecordEvidence
        <3>2. /\ Tail(pushed) \in Seq(Evidence)
              /\ Len(Tail(pushed)) = Len(journal)
              /\ \A i \in 1..Len(journal) : Tail(pushed)[i] = pushed[i + 1]
            BY <1>1, <2>2
        <3>3. \A i \in 1..Len(journal) :
                 \/ i + 1 \in 1..Len(journal)
                 \/ i + 1 = Len(journal) + 1
            BY <1>1
        <3>4. \A i \in DOMAIN Tail(pushed) :
                 \/ \E k \in DOMAIN journal : Tail(pushed)[i] = journal[k]
                 \/ Tail(pushed)[i] = entry
            BY <1>1, <2>2, <3>2, <3>3
        <3>5. Len(journal) \in DOMAIN Tail(pushed) /\ Tail(pushed)[Len(journal)] = entry
            BY <1>1, <2>2, <2>3, <3>2
        <3>6. op \in JournalIds(Tail(pushed))
            BY <3>5 DEF JournalIds
        <3> QED BY <1>1, <1>3, <3>1, <3>2, <3>4, <3>6
    <2>4. CASE ~ (Len(pushed) > MaxJournal)
        <3>1. RecordEvidence(op, out) = pushed
            BY <1>3, <2>4 DEF RecordEvidence
        <3>2. \A i \in DOMAIN pushed :
                 (\E k \in DOMAIN journal : pushed[i] = journal[k]) \/ pushed[i] = entry
            BY <1>1, <2>2
        <3>3. op \in JournalIds(pushed)
            BY <1>1, <2>2 DEF JournalIds
        <3> QED BY <1>1, <1>3, <2>2, <2>4, <3>1, <3>2, <3>3
    <2> QED BY <2>3, <2>4
<1> QED BY <1>2, <1>3
-----------------------------------------------------------------------------
(* Steps *)

\* A process that is gone leaves nothing but its checkpoint, which holds every
\* id it had started in its generation: crash, give-up and rejected receipt.
LEMMA GoneKeepsInvariant ==
    ASSUME AgentIInv, ProcessGone, UNCHANGED <<disk, started, proved>>
    PROVE  AgentIInv'
<1> USE DEF AgentIInv, ProcessGone
<1>1. AgentTypeOK'
    <2>1. NoGate \in Gate /\ "Loop" \in Steps
        BY AgentConstants DEF Gate, NoGate, Steps
    <2>2. << >> \in Seq(Evidence) /\ Len(<< >>) <= MaxJournal
        BY AgentConstants
    <2> QED BY <2>1, <2>2, AgentConstants DEF AgentTypeOK
<1>2. Control'
    BY DEF Control, NoGate
<1>3. Barrier'
    BY DEF Barrier, NoGate
<1>4. Spent'
    BY DEF Spent, NoGate
<1>5. Witnessed'
    <2>1. JournalTruthful'
        BY DEF Witnessed, JournalTruthful
    <2>2. EvidencePrecedesResult'
        BY TerminalStateFacts DEF EvidencePrecedesResult, NoReply
    <2>3. \A op \in OpId : worker'[op] \notin Outcome
        BY DEF Outcome, Results, Receipts, Ambiguous
    <2> QED BY <2>1, <2>2, <2>3 DEF Witnessed
<1> QED BY <1>1, <1>2, <1>3, <1>4, <1>5

\* The checkpoint a settlement writes: the id is spent, the generation is the
\* session's, and the journal is the one RecordFacts describes.
LEMMA SettledCheckpoint ==
    ASSUME AgentIInv, process = "Session", NEW op \in OpId, NEW out,
           gate.active = op,
           TerminalState(out) # "None" => TerminalState(out) \in proved'[op][session],
           \A o \in OpId, g \in AgentGeneration : proved[o][g] \subseteq proved'[o][g],
           NEW j, j = RecordEvidence(op, out),
           NEW d, d = Snapshot(Finish(op), j)
    PROVE  /\ Finish(op) \in Gate
           /\ Finish(op).active = NoOp
           /\ Finish(op).generation = session
           /\ Finish(op).terminal = gate.terminal \cup {op}
           /\ d.generation = session
           /\ d.terminal = gate.terminal \cup {op}
           /\ d.journal = j
           /\ j \in Seq(Evidence) /\ Len(j) <= MaxJournal
           /\ \A i \in DOMAIN j : j[i].outcome \in proved'[j[i].op][j[i].generation]
           /\ LeavesEvidence(op, out) => op \in JournalIds(j)
<1>1. session \in AgentGeneration /\ gate.generation = session
    BY DEF AgentIInv, Control, Barrier
<1>2. /\ gate \in Gate
      /\ Finish(op) = [gate EXCEPT !.active = NoOp, !.terminal = @ \cup {op}]
    BY DEF AgentIInv, AgentTypeOK, Finish
<1>3. /\ Finish(op) \in Gate
      /\ Finish(op).active = NoOp
      /\ Finish(op).generation = session
      /\ Finish(op).terminal = gate.terminal \cup {op}
    <2>1. gate = [active |-> gate.active, generation |-> gate.generation,
                  terminal |-> gate.terminal]
        BY <1>2 DEF Gate
    <2>2. Finish(op) = [active |-> NoOp, generation |-> gate.generation,
                        terminal |-> gate.terminal \cup {op}]
        BY <1>2, <2>1
    <2> QED BY <1>1, <1>2, <2>2 DEF Gate
<1>4. d.generation = session /\ d.terminal = gate.terminal \cup {op} /\ d.journal = j
    BY <1>3 DEF Snapshot
<1>5. /\ j \in Seq(Evidence) /\ Len(j) <= MaxJournal
      /\ \A i \in DOMAIN j :
            \/ \E k \in DOMAIN journal : j[i] = journal[k]
            \/ /\ j[i] = [op |-> op, generation |-> session,
                          outcome |-> TerminalState(out)]
               /\ LeavesEvidence(op, out)
      /\ LeavesEvidence(op, out) => op \in JournalIds(j)
    BY <1>1, RecordFacts DEF AgentIInv
<1>6. ASSUME NEW i \in DOMAIN j
      PROVE  j[i].outcome \in proved'[j[i].op][j[i].generation]
    <2>1. CASE \E k \in DOMAIN journal : j[i] = journal[k]
        <3>1. PICK k \in DOMAIN journal : j[i] = journal[k]
            BY <2>1
        <3>2. journal[k] \in Evidence
            BY DEF AgentIInv, AgentTypeOK
        <3>3. journal[k].outcome \in proved[journal[k].op][journal[k].generation]
            BY DEF AgentIInv, Witnessed, JournalTruthful
        <3> QED BY <3>1, <3>2, <3>3 DEF Evidence
    <2>2. CASE /\ j[i] = [op |-> op, generation |-> session,
                          outcome |-> TerminalState(out)]
               /\ LeavesEvidence(op, out)
        BY <2>2 DEF LeavesEvidence
    <2> QED BY <1>5, <2>1, <2>2
<1> QED BY <1>3, <1>4, <1>5, <1>6

\* A worker's outcome is settled, whether the session goes on or ends.
LEMMA SettleKeepsInvariant ==
    ASSUME AgentIInv, process = "Session", step \in {"Loop", "EndReconnect"},
           running # NoOp, worker[running] \in Outcome,
           AgentSettle(running, worker[running]), WorkerTaken,
           \/ UNCHANGED <<process, session, reply>> /\ step' = "Loop"
           \/ LeaveSession /\ UNCHANGED reply
           \/ /\ UNCHANGED <<process, session>> /\ step' = "Settled"
              /\ reply' = [op |-> running, outcome |-> worker[running]]
    PROVE  AgentIInv'
<1> DEFINE op == running
           out == worker[running]
<1>1. /\ op \in OpId /\ gate.active = op /\ session \in AgentGeneration
      /\ reply = NoReply /\ step # "Settled"
    BY DEF AgentIInv, AgentTypeOK, Control
<1>2. /\ gate' \in Gate /\ gate'.active = NoOp /\ gate'.generation = session
      /\ gate'.terminal = gate.terminal \cup {op}
      /\ disk'.generation = session /\ disk'.terminal = gate.terminal \cup {op}
      /\ disk'.journal = journal'
      /\ journal' \in Seq(Evidence) /\ Len(journal') <= MaxJournal
      /\ \A i \in DOMAIN journal' :
            journal'[i].outcome \in proved'[journal'[i].op][journal'[i].generation]
      /\ LeavesEvidence(op, out) => op \in JournalIds(journal')
    <2>1. proved' = proved
        BY DEF WorkerTaken
    <2>2. TerminalState(out) # "None" => TerminalState(out) \in proved'[op][session]
        BY <1>1, <2>1 DEF AgentIInv, Witnessed
    <2>3. gate' = Finish(op) /\ journal' = RecordEvidence(op, out)
          /\ disk' = Snapshot(Finish(op), journal')
        BY DEF AgentSettle
    <2> QED BY <1>1, <2>1, <2>2, <2>3, SettledCheckpoint
<1>3. /\ running' = NoOp /\ started' = started /\ proved' = proved
      /\ worker' = [worker EXCEPT ![op] = "None"]
    BY DEF WorkerTaken
<1>4. \A o \in OpId : worker'[o] = "None"
    BY <1>1, <1>3 DEF AgentIInv, AgentTypeOK, Control
<1>5. AgentTypeOK'
    <2>1. reply' \in [op : OpId, outcome : Outcome] \cup {NoReply}
        BY <1>1
    <2>2. process' \in {"Idle", "Session"} /\ session' \in 0..MaxGeneration
          /\ step' \in Steps
        BY <1>1, AgentConstants DEF LeaveSession, Steps, AgentGeneration
    <2>3. worker' \in [OpId -> {"None", "Running", "Cancelling"} \cup Outcome]
        BY <1>3 DEF AgentIInv, AgentTypeOK
    <2>4. disk'.generation \in 0..MaxGeneration /\ disk'.terminal \subseteq OpId
        BY <1>1, <1>2, AgentConstants DEF AgentIInv, AgentTypeOK, AgentGeneration, Gate
    <2> QED BY <1>2, <1>3, <2>1, <2>2, <2>3, <2>4 DEF AgentIInv, AgentTypeOK
<1>6. Control'
    <2>1. step' = "Settled" => reply'.op # NoOp
        BY <1>1 DEF LeaveSession
    <2>2. NoReply.op = NoOp
        BY DEF NoReply
    <2> QED BY <1>1, <1>2, <1>3, <1>4, <2>1, <2>2 DEF Control, LeaveSession
<1>7. Barrier'
    BY <1>1, <1>2 DEF Barrier, LeaveSession
<1>8. Spent'
    <2>1. disk.generation = session /\ gate.generation = session
        BY DEF AgentIInv, Barrier
    <2>2. step' # "Begun"
        BY DEF LeaveSession
    <2> QED BY <1>1, <1>2, <1>3, <2>1, <2>2 DEF AgentIInv, Spent
<1>9. Witnessed'
    <2>1. JournalTruthful'
        BY <1>2 DEF JournalTruthful
    <2>2. \A o \in OpId : worker'[o] \notin Outcome
        BY <1>4 DEF Outcome, Results, Receipts, Ambiguous
    <2>3. EvidencePrecedesResult'
        BY <1>1, <1>2, TerminalStateFacts DEF EvidencePrecedesResult, LeavesEvidence, NoReply
    <2> QED BY <2>1, <2>2, <2>3 DEF Witnessed
<1> QED BY <1>5, <1>6, <1>7, <1>8, <1>9 DEF AgentIInv

\* The handoff authority refuses the command that has just begun.
LEMMA DenyKeepsInvariant ==
    ASSUME AgentIInv, AgentDeny
    PROVE  AgentIInv'
<1> DEFINE op == gate.active
<1>1. /\ op \in OpId /\ process = "Session" /\ session \in AgentGeneration
      /\ running = NoOp
      /\ UNCHANGED <<process, session, running, worker, started>>
      /\ step' = "Settled" /\ reply' = [op |-> op, outcome |-> "Failed"]
      /\ disk.generation = session /\ gate.generation = session
      /\ \A o \in OpId : worker[o] = "None"
    <2>1. /\ process = "Session" /\ step = "Begun"
          /\ UNCHANGED <<process, session, running, worker, started>>
          /\ step' = "Settled" /\ reply' = [op |-> op, outcome |-> "Failed"]
        BY DEF AgentDeny
    <2>2. op \in OpId
        BY <2>1 DEF AgentIInv, AgentTypeOK, Control, Gate
    <2>3. /\ session \in AgentGeneration /\ running = NoOp
          /\ disk.generation = session /\ gate.generation = session
        BY <2>1 DEF AgentIInv, Control, Barrier
    <2>4. \A o \in OpId : worker[o] = "None"
        BY <2>3, AgentConstants DEF AgentIInv, Control
    <2> QED BY <2>1, <2>2, <2>3, <2>4
<1>2. TerminalState("Failed") = "Failed" /\ "Failed" \in Outcome
    BY TerminalStateFacts DEF Results, Outcome
<1>3. /\ proved' \in [OpId -> [AgentGeneration -> SUBSET Results]]
      /\ "Failed" \in proved'[op][session]
      /\ \A o \in OpId, g \in AgentGeneration : proved[o][g] \subseteq proved'[o][g]
    <2>1. proved \in [OpId -> [AgentGeneration -> SUBSET Results]]
        BY DEF AgentIInv, AgentTypeOK
    <2>2. proved' = [proved EXCEPT ![op][session] = @ \cup {"Failed"}]
        BY DEF AgentDeny
    <2>3. "Failed" \in Results
        BY DEF Results
    <2> QED BY <1>1, <2>1, <2>2, <2>3
<1>4. /\ gate' \in Gate /\ gate'.active = NoOp /\ gate'.generation = session
      /\ gate'.terminal = gate.terminal \cup {op}
      /\ disk'.generation = session /\ disk'.terminal = gate.terminal \cup {op}
      /\ disk'.journal = journal'
      /\ journal' \in Seq(Evidence) /\ Len(journal') <= MaxJournal
      /\ \A i \in DOMAIN journal' :
            journal'[i].outcome \in proved'[journal'[i].op][journal'[i].generation]
      /\ LeavesEvidence(op, "Failed") => op \in JournalIds(journal')
    <2>1. gate' = Finish(op) /\ journal' = RecordEvidence(op, "Failed")
          /\ disk' = Snapshot(Finish(op), journal')
        BY DEF AgentDeny
    <2> QED BY <1>1, <1>2, <1>3, <2>1, SettledCheckpoint
<1>5. AgentTypeOK'
    <2>1. disk'.generation \in 0..MaxGeneration /\ disk'.terminal \subseteq OpId
        BY <1>1, <1>4, AgentConstants DEF AgentIInv, AgentTypeOK, AgentGeneration, Gate
    <2>2. step' \in Steps /\ reply' \in [op : OpId, outcome : Outcome]
        BY <1>1, <1>2 DEF Steps
    <2> QED BY <1>1, <1>3, <1>4, <2>1, <2>2 DEF AgentIInv, AgentTypeOK
<1>6. Control'
    <2>1. reply'.op # NoOp /\ NoReply.op = NoOp
        BY <1>1, AgentConstants DEF NoReply
    <2> QED BY <1>1, <1>4, <2>1 DEF AgentIInv, Control
<1>7. Barrier'
    BY <1>1, <1>4 DEF Barrier
<1>8. Spent'
    BY <1>1, <1>4 DEF AgentIInv, Spent
<1>9. Witnessed'
    <2>1. JournalTruthful'
        BY <1>4 DEF JournalTruthful
    <2>2. \A o \in OpId : worker'[o] \notin Outcome
        BY <1>1 DEF Outcome, Results, Receipts, Ambiguous
    <2>3. EvidencePrecedesResult'
        BY <1>1, <1>4 DEF EvidencePrecedesResult, LeavesEvidence
    <2> QED BY <2>1, <2>2, <2>3 DEF Witnessed
<1> QED BY <1>5, <1>6, <1>7, <1>8, <1>9 DEF AgentIInv

\* terminate_active settles the worker and the process exits.
LEMMA TerminatedExitKeepsInvariant ==
    ASSUME AgentIInv, AgentTerminatedExit
    PROVE  AgentIInv'
<1> DEFINE op == running
           out == worker[running]
           j == RecordEvidence(op, out)
<1>1. /\ op \in OpId /\ gate.active = op /\ process = "Session"
      /\ session \in AgentGeneration /\ out \in Outcome
      /\ disk.generation = session /\ gate.generation = session
    BY DEF AgentTerminatedExit, AgentIInv, AgentTypeOK, Control, Barrier
<1>2. ProcessGone /\ started' = started /\ proved' = proved
      /\ disk' = Snapshot(Finish(op), j)
    BY DEF AgentTerminatedExit
<1>3. /\ disk'.generation = session /\ disk'.terminal = gate.terminal \cup {op}
      /\ disk'.journal = j /\ j \in Seq(Evidence) /\ Len(j) <= MaxJournal
      /\ \A i \in DOMAIN j : j[i].outcome \in proved'[j[i].op][j[i].generation]
    <2>1. TerminalState(out) # "None" => TerminalState(out) \in proved'[op][session]
        BY <1>1, <1>2 DEF AgentIInv, Witnessed
    <2> QED BY <1>1, <1>2, <2>1, SettledCheckpoint
<1>4. AgentTypeOK'
    <2>1. NoGate \in Gate /\ "Loop" \in Steps
        BY AgentConstants DEF Gate, NoGate, Steps
    <2>2. << >> \in Seq(Evidence) /\ Len(<< >>) <= MaxJournal
        BY AgentConstants
    <2>3. disk'.generation \in 0..MaxGeneration /\ disk'.terminal \subseteq OpId
        BY <1>1, <1>3, AgentConstants DEF AgentIInv, AgentTypeOK, AgentGeneration, Gate
    <2> QED BY <1>2, <1>3, <2>1, <2>2, <2>3, AgentConstants
            DEF AgentIInv, AgentTypeOK, ProcessGone
<1>5. Control'
    BY <1>2 DEF Control, ProcessGone, NoGate
<1>6. Barrier'
    BY <1>2 DEF Barrier, ProcessGone, NoGate
<1>7. Spent'
    BY <1>1, <1>2, <1>3 DEF AgentIInv, Spent, ProcessGone
<1>8. Witnessed'
    <2>1. JournalTruthful'
        BY <1>2, <1>3 DEF JournalTruthful, ProcessGone
    <2>2. \A o \in OpId : worker'[o] \notin Outcome
        BY <1>2 DEF ProcessGone, Outcome, Results, Receipts, Ambiguous
    <2>3. EvidencePrecedesResult'
        BY <1>2, TerminalStateFacts DEF EvidencePrecedesResult, ProcessGone, NoReply
    <2> QED BY <2>1, <2>2, <2>3 DEF Witnessed
<1> QED BY <1>4, <1>5, <1>6, <1>7, <1>8 DEF AgentIInv

\* Opening a session: the same generation keeps what is spent, a newer one has
\* started nothing yet.
LEMMA ConnectKeepsInvariant ==
    ASSUME AgentIInv, NEW g \in AgentGeneration, g >= gate.generation, AgentConnect(g)
    PROVE  AgentIInv'
<1>1. /\ process = "Idle" /\ gate.active = NoOp /\ running = NoOp /\ reply = NoReply
      /\ process' = "Session" /\ session' = g /\ step' = "Loop"
      /\ UNCHANGED <<running, worker, reply, journal, started, proved>>
      /\ gate \in Gate /\ gate.generation = disk.generation
      /\ g \in Nat /\ gate.generation \in Nat /\ g \in 0..MaxGeneration
    BY AgentConstants DEF AgentConnect, AgentIInv, AgentTypeOK, Control, Barrier, Gate,
       AgentGeneration
<1>2. \A op \in OpId : worker[op] = "None"
    BY <1>1, AgentConstants DEF AgentIInv, Control
<1>3. /\ gate' \in Gate /\ gate'.active = NoOp /\ gate'.generation = g
      /\ gate'.terminal = IF gate.generation = g THEN gate.terminal ELSE {}
    <2>1. gate' = [gate EXCEPT !.generation = g,
                     !.terminal = IF gate.generation = g THEN @ ELSE {}]
        BY DEF AgentConnect, PrepareGeneration
    <2>2. gate = [active |-> gate.active, generation |-> gate.generation,
                  terminal |-> gate.terminal]
        BY <1>1 DEF Gate
    <2>3. gate' = [active |-> NoOp, generation |-> g,
                   terminal |-> IF gate.generation = g THEN gate.terminal ELSE {}]
        BY <1>1, <2>1, <2>2
    <2> QED BY <1>1, <2>3 DEF Gate
<1>4. disk'.generation = g /\ disk'.terminal = gate'.terminal /\ disk'.journal = journal
    BY <1>3 DEF AgentConnect, Snapshot
<1>5. AgentTypeOK'
    <2>1. disk'.terminal \subseteq OpId /\ step' \in Steps
        BY <1>1, <1>3, <1>4 DEF Gate, Steps
    <2> QED BY <1>1, <1>3, <1>4, <2>1 DEF AgentIInv, AgentTypeOK
<1>6. Control'
    BY <1>1, <1>2, <1>3 DEF Control
<1>7. Barrier'
    BY <1>1, <1>3, <1>4 DEF Barrier
<1>8. Spent'
    <2>1. ASSUME NEW op \in OpId, NEW h \in AgentGeneration
          PROVE  /\ started[op][h] <= 1
                 /\ h > g => started[op][h] = 0
                 /\ h = g /\ started[op][h] # 0 => op \in gate'.terminal
        <3>1. h \in Nat
            BY DEF AgentGeneration
        <3>2. /\ started[op][h] <= 1
              /\ h > disk.generation => started[op][h] = 0
              /\ h = gate.generation /\ started[op][h] # 0 =>
                    op \in gate.terminal \/ op = gate.active
            BY <1>1 DEF AgentIInv, Spent
        <3>3. op # NoOp
            BY AgentConstants
        <3> QED BY <1>1, <1>3, <3>1, <3>2, <3>3
    <2> QED BY <1>1, <1>3, <1>4, <2>1 DEF Spent
<1>9. Witnessed'
    <2>1. JournalTruthful'
        BY <1>1, <1>4 DEF AgentIInv, Witnessed, JournalTruthful
    <2>2. \A o \in OpId : worker'[o] \notin Outcome
        BY <1>1, <1>2 DEF Outcome, Results, Receipts, Ambiguous
    <2>3. EvidencePrecedesResult'
        BY <1>1, TerminalStateFacts DEF EvidencePrecedesResult, NoReply
    <2> QED BY <2>1, <2>2, <2>3 DEF Witnessed
<1> QED BY <1>5, <1>6, <1>7, <1>8, <1>9 DEF AgentIInv

\* A fresh command: its id reaches the checkpoint before anything runs.
LEMMA BeginKeepsInvariant ==
    ASSUME AgentIInv, NEW op \in OpId, AgentBegin(op)
    PROVE  AgentIInv'
<1>1. /\ process = "Session" /\ step = "Loop" /\ running = NoOp /\ reply = NoReply
      /\ op \notin gate.terminal /\ gate.active = NoOp
      /\ step' = "Begun"
      /\ UNCHANGED <<process, session, running, worker, reply, journal, started, proved>>
      /\ session \in AgentGeneration /\ gate.generation = session
      /\ disk.generation = session /\ gate \in Gate /\ op # NoOp
    BY AgentConstants DEF AgentBegin, InLoop, AgentIInv, AgentTypeOK, Control, Barrier
<1>2. \A o \in OpId : worker[o] = "None"
    BY <1>1, AgentConstants DEF AgentIInv, Control
<1>3. /\ gate' \in Gate /\ gate'.active = op /\ gate'.generation = session
      /\ gate'.terminal = gate.terminal
    BY <1>1 DEF AgentBegin, Gate
<1>4. /\ disk'.generation = session /\ disk'.terminal = gate.terminal \cup {op}
      /\ disk'.journal = journal
    BY <1>1, <1>3 DEF AgentBegin, Snapshot
<1>5. AgentTypeOK'
    <2>1. disk'.terminal \subseteq OpId /\ step' \in Steps
          /\ disk'.generation \in 0..MaxGeneration
        BY <1>1, <1>4, AgentConstants DEF Gate, Steps, AgentGeneration
    <2> QED BY <1>1, <1>3, <1>4, <2>1 DEF AgentIInv, AgentTypeOK
<1>6. Control'
    BY <1>1, <1>2, <1>3 DEF Control
<1>7. Barrier'
    BY <1>1, <1>3, <1>4 DEF Barrier
<1>8. Spent'
    <2>1. ASSUME NEW o \in OpId, NEW h \in AgentGeneration
          PROVE  /\ started[o][h] <= 1
                 /\ h > session => started[o][h] = 0
                 /\ h = session /\ started[o][h] # 0 => o \in gate.terminal
        <3>1. o # NoOp
            BY AgentConstants
        <3> QED BY <1>1, <3>1 DEF AgentIInv, Spent
    <2>2. started[op][session] = 0
        BY <1>1, <2>1
    <2> QED BY <1>1, <1>3, <1>4, <2>1, <2>2 DEF Spent
<1>9. Witnessed'
    <2>1. JournalTruthful'
        BY <1>1, <1>4 DEF AgentIInv, Witnessed, JournalTruthful
    <2>2. \A o \in OpId : worker'[o] \notin Outcome
        BY <1>1, <1>2 DEF Outcome, Results, Receipts, Ambiguous
    <2>3. EvidencePrecedesResult'
        BY <1>1, TerminalStateFacts DEF EvidencePrecedesResult, NoReply
    <2> QED BY <2>1, <2>2, <2>3 DEF Witnessed
<1> QED BY <1>5, <1>6, <1>7, <1>8, <1>9 DEF AgentIInv

\* The one step that starts a backend: the id was not started before.
LEMMA SpawnKeepsInvariant ==
    ASSUME AgentIInv, AgentSpawn
    PROVE  AgentIInv'
<1> DEFINE op == gate.active
<1>1. /\ process = "Session" /\ step = "Begun" /\ reply = NoReply
      /\ running' = op /\ step' = "Loop"
      /\ worker' = [worker EXCEPT ![op] = "Running"]
      /\ started' = [started EXCEPT ![op][session] = IF @ < 2 THEN @ + 1 ELSE @]
      /\ UNCHANGED <<process, session, gate, reply, journal, disk, proved>>
      /\ running = NoOp /\ op # NoOp /\ session \in AgentGeneration
      /\ gate.generation = session /\ disk.generation = session
      /\ op \in disk.terminal /\ started[op][session] = 0
    BY DEF AgentSpawn, AgentIInv, Control, Barrier, Spent
<1>2. op \in OpId
    BY <1>1 DEF AgentIInv, AgentTypeOK, Gate
<1>3. /\ started' \in [OpId -> [AgentGeneration -> 0..2]]
      /\ started'[op][session] = 1
      /\ \A o \in OpId, g \in AgentGeneration :
            o # op \/ g # session => started'[o][g] = started[o][g]
    <2>1. started \in [OpId -> [AgentGeneration -> 0..2]]
        BY DEF AgentIInv, AgentTypeOK
    <2> QED BY <1>1, <1>2, <2>1
<1>4. /\ worker' \in [OpId -> {"None", "Running", "Cancelling"} \cup Outcome]
      /\ worker'[op] = "Running"
      /\ \A o \in OpId : o # op => worker'[o] = "None"
    BY <1>1, <1>2, AgentConstants DEF AgentIInv, AgentTypeOK, Control
<1>5. AgentTypeOK'
    BY <1>1, <1>2, <1>3, <1>4 DEF AgentIInv, AgentTypeOK, Steps
<1>6. Control'
    BY <1>1, <1>2, <1>4 DEF Control
<1>7. Barrier'
    BY <1>1 DEF AgentIInv, Barrier
<1>8. Spent'
    <2>1. \A o \in OpId, g \in AgentGeneration :
             /\ g \in Nat /\ session \in Nat
             /\ started'[o][g] <= 1
             /\ g > session => started'[o][g] = 0
             /\ g = session /\ started'[o][g] # 0 => o \in disk.terminal
             /\ g = session /\ started'[o][g] # 0 => o \in gate.terminal \/ o = op
        BY <1>1, <1>3 DEF AgentIInv, Spent, AgentGeneration
    <2> QED BY <1>1, <2>1 DEF Spent
<1>9. Witnessed'
    <2>1. \A o \in OpId : worker'[o] \notin Outcome
        BY <1>4 DEF Outcome, Results, Receipts, Ambiguous
    <2> QED BY <1>1, <2>1 DEF AgentIInv, Witnessed, JournalTruthful, EvidencePrecedesResult
<1> QED BY <1>5, <1>6, <1>7, <1>8, <1>9 DEF AgentIInv

\* A worker ends: what it reports is from then on established.
LEMMA WorkerKeepsInvariant ==
    ASSUME AgentIInv, NEW op \in OpId, NEW out \in Outcome, WorkerFinishes(op, out)
    PROVE  AgentIInv'
<1>1. /\ worker' = [worker EXCEPT ![op] = out]
      /\ worker[op] # "None" /\ out # "None"
      /\ proved' = [proved EXCEPT ![op][session] = @ \cup ({TerminalState(out)} \ {"None"})]
      /\ UNCHANGED <<process, session, step, gate, running, reply, journal, disk, started>>
    BY DEF WorkerFinishes, Outcome, Results, Receipts, Ambiguous
<1>2. op = running /\ process = "Session" /\ session \in AgentGeneration
    BY <1>1, AgentConstants DEF AgentIInv, AgentTypeOK, Control
<1>3. /\ proved' \in [OpId -> [AgentGeneration -> SUBSET Results]]
      /\ TerminalState(out) # "None" => TerminalState(out) \in proved'[op][session]
      /\ \A o \in OpId, g \in AgentGeneration : proved[o][g] \subseteq proved'[o][g]
    <2>1. proved \in [OpId -> [AgentGeneration -> SUBSET Results]]
        BY DEF AgentIInv, AgentTypeOK
    <2>2. {TerminalState(out)} \ {"None"} \subseteq Results
        BY TerminalStateFacts
    <2> QED BY <1>1, <1>2, <2>1, <2>2
<1>4. /\ worker' \in [OpId -> {"None", "Running", "Cancelling"} \cup Outcome]
      /\ worker'[op] = out
      /\ \A o \in OpId : o # op => worker'[o] = worker[o]
    BY <1>1 DEF AgentIInv, AgentTypeOK
<1>5. AgentTypeOK'
    BY <1>1, <1>3, <1>4 DEF AgentIInv, AgentTypeOK
<1>6. Control'
    BY <1>1, <1>2, <1>4 DEF AgentIInv, Control
<1>7. Barrier' /\ Spent'
    BY <1>1 DEF AgentIInv, Barrier, Spent
<1>8. Witnessed'
    <2>1. ASSUME NEW j \in {journal, disk.journal}, NEW i \in DOMAIN j
          PROVE  j[i].outcome \in proved'[j[i].op][j[i].generation]
        <3>1. j[i] \in Evidence
            BY DEF AgentIInv, AgentTypeOK
        <3>2. j[i].outcome \in proved[j[i].op][j[i].generation]
            BY DEF AgentIInv, Witnessed, JournalTruthful
        <3> QED BY <1>3, <3>1, <3>2 DEF Evidence
    <2>2. JournalTruthful'
        BY <1>1, <2>1 DEF JournalTruthful
    <2>3. \A o \in OpId : o # op => worker'[o] \notin Outcome
        BY <1>2, <1>4 DEF AgentIInv, Control, Outcome, Results, Receipts, Ambiguous
    <2>4. EvidencePrecedesResult'
        BY <1>1 DEF AgentIInv, Witnessed, EvidencePrecedesResult
    <2> QED BY <1>1, <1>3, <1>4, <2>2, <2>3, <2>4 DEF Witnessed
<1> QED BY <1>5, <1>6, <1>7, <1>8 DEF AgentIInv

\* Cancelling a running worker, in the loop or while the session ends.
LEMMA CancelKeepsInvariant ==
    ASSUME AgentIInv, InLoop, running # NoOp, CancelWorker(running),
           step' \in {"Loop", "EndReconnect", "EndExit"},
           UNCHANGED <<process, session, gate, running, reply, journal, disk, started,
                       proved>>
    PROVE  AgentIInv'
<1>1. running \in OpId
    BY DEF AgentIInv, AgentTypeOK
<1>2. /\ worker' \in [OpId -> {"None", "Running", "Cancelling"} \cup Outcome]
      /\ \A o \in OpId : worker'[o] # worker[o] =>
            worker[o] = "Running" /\ worker'[o] = "Cancelling"
    BY <1>1 DEF CancelWorker, AgentIInv, AgentTypeOK
<1>3. AgentTypeOK'
    BY <1>2 DEF AgentIInv, AgentTypeOK, Steps
<1>4. Control'
    BY <1>1, <1>2 DEF AgentIInv, Control, InLoop
<1>5. Barrier' /\ Spent'
    BY DEF AgentIInv, Barrier, Spent, InLoop
<1>6. Witnessed'
    <2>1. "Cancelling" \notin Outcome
        BY DEF Outcome, Results, Receipts, Ambiguous
    <2>2. \A o \in OpId : worker'[o] \in Outcome => worker'[o] = worker[o]
        BY <1>2, <2>1
    <2> QED BY <2>2 DEF AgentIInv, Witnessed, JournalTruthful, EvidencePrecedesResult
<1> QED BY <1>3, <1>4, <1>5, <1>6 DEF AgentIInv

\* The session goes on or ends with nothing running.
LEMMA IdleKeepsInvariant ==
    ASSUME AgentIInv, process = "Session", step \in {"Loop", "Settled"}, running = NoOp,
           reply' = NoReply,
           LeaveSession \/ (step' = "Loop" /\ UNCHANGED <<process, session>>),
           UNCHANGED <<gate, running, worker, journal, disk, started, proved>>
    PROVE  AgentIInv'
<1>1. gate.active = NoOp /\ \A o \in OpId : worker[o] = "None"
    BY AgentConstants DEF AgentIInv, Control
<1>2. AgentTypeOK'
    BY AgentConstants DEF AgentIInv, AgentTypeOK, LeaveSession, Steps
<1>3. Control'
    BY <1>1 DEF AgentIInv, Control, LeaveSession
<1>4. Barrier' /\ Spent'
    BY DEF AgentIInv, Barrier, Spent, LeaveSession
<1>5. Witnessed'
    <2>1. EvidencePrecedesResult'
        BY TerminalStateFacts DEF EvidencePrecedesResult, NoReply
    <2>2. \A o \in OpId : worker'[o] \notin Outcome
        BY <1>1 DEF Outcome, Results, Receipts, Ambiguous
    <2> QED BY <2>1, <2>2 DEF AgentIInv, Witnessed, JournalTruthful
<1> QED BY <1>2, <1>3, <1>4, <1>5 DEF AgentIInv

\* The stream ends, or the Agent refuses a message.
LEMMA EndKeepsInvariant ==
    ASSUME AgentIInv, NEW ending \in {"EndReconnect", "EndExit"}, EndSession(ending)
    PROVE  AgentIInv'
<1>1. CASE running # NoOp
    BY <1>1, CancelKeepsInvariant DEF EndSession
<1>2. CASE running = NoOp /\ ending = "EndReconnect"
    <2>1. reply = NoReply
        BY DEF EndSession, InLoop, AgentIInv, Control
    <2> QED BY <1>2, <2>1, IdleKeepsInvariant DEF EndSession, InLoop
<1>3. CASE running = NoOp /\ ending = "EndExit"
    BY <1>3, GoneKeepsInvariant DEF EndSession
<1> QED BY <1>1, <1>2, <1>3

\* A new process takes the spent ids from its checkpoint.
LEMMA RestartKeepsInvariant ==
    ASSUME AgentIInv, AgentRestart
    PROVE  AgentIInv'
<1>1. /\ process = "Down" /\ process' = "Idle" /\ running = NoOp
      /\ gate' = [active |-> NoOp, generation |-> disk.generation,
                  terminal |-> disk.terminal]
      /\ journal' = disk.journal
      /\ UNCHANGED <<session, step, running, worker, reply, disk, started, proved>>
      /\ session = 0 /\ step = "Loop" /\ reply = NoReply
    BY DEF AgentRestart, AgentIInv, Control
<1>2. AgentTypeOK'
    BY <1>1 DEF AgentIInv, AgentTypeOK, Gate
<1>3. Control'
    BY <1>1 DEF AgentIInv, Control
<1>4. Barrier' /\ Spent'
    BY <1>1 DEF AgentIInv, Barrier, Spent
<1>5. Witnessed'
    BY <1>1 DEF AgentIInv, Witnessed, JournalTruthful, EvidencePrecedesResult
<1> QED BY <1>2, <1>3, <1>4, <1>5 DEF AgentIInv

LEMMA InitInvariant == AgentInit => AgentIInv
<1> SUFFICES ASSUME AgentInit PROVE AgentIInv
    OBVIOUS
<1> USE DEF AgentInit
<1>1. AgentTypeOK
    <2>1. NoGate \in Gate /\ "Loop" \in Steps
        BY AgentConstants DEF Gate, NoGate, Steps
    <2>2. << >> \in Seq(Evidence) /\ Len(<< >>) <= MaxJournal
        BY AgentConstants
    <2> QED BY <2>1, <2>2, AgentConstants DEF AgentTypeOK
<1>2. Control
    BY DEF Control, NoGate
<1>3. Barrier
    BY DEF Barrier, NoGate
<1>4. Spent
    BY DEF Spent, NoGate
<1>5. Witnessed
    <2>1. \A op \in OpId : worker[op] \notin Outcome
        BY DEF Outcome, Results, Receipts, Ambiguous
    <2>2. EvidencePrecedesResult
        BY TerminalStateFacts DEF EvidencePrecedesResult, NoReply
    <2> QED BY <2>1, <2>2 DEF Witnessed, JournalTruthful
<1> QED BY <1>1, <1>2, <1>3, <1>4, <1>5 DEF AgentIInv

LEMMA NextKeepsInvariant ==
    ASSUME AgentIInv, [AgentNext]_agentVars
    PROVE  AgentIInv'
<1>1. CASE AgentRestart
    BY <1>1, RestartKeepsInvariant
<1>2. ASSUME NEW g \in AgentGeneration, g >= gate.generation, AgentConnect(g)
      PROVE  AgentIInv'
    BY <1>2, ConnectKeepsInvariant
<1>3. ASSUME NEW op \in OpId, AgentBegin(op) PROVE AgentIInv'
    BY <1>3, BeginKeepsInvariant
<1>4. ASSUME NEW op \in OpId, AgentRefuse(op) \/ AgentCancelMismatch(op)
      PROVE  AgentIInv'
    BY <1>4, EndKeepsInvariant DEF AgentRefuse, AgentCancelMismatch
<1>5. ASSUME NEW op \in OpId, AgentCancel(op) PROVE AgentIInv'
    <2>1. op # NoOp
        BY AgentConstants
    <2> QED BY <1>5, <2>1, CancelKeepsInvariant DEF AgentCancel, InLoop
<1>6. ASSUME NEW op \in OpId, NEW out \in Outcome, WorkerFinishes(op, out)
      PROVE  AgentIInv'
    BY <1>6, WorkerKeepsInvariant
<1>7. ASSUME NEW out \in Outcome, AgentComplete(out) \/ AgentCompleteReconnecting(out)
      PROVE  AgentIInv'
    BY <1>7, SettleKeepsInvariant
       DEF AgentComplete, AgentCompleteReconnecting, Finished, InLoop
<1>8. CASE AgentDeny
    BY <1>8, DenyKeepsInvariant
<1>9. CASE AgentSpawn
    BY <1>9, SpawnKeepsInvariant
<1>10. CASE AgentCompleteCancelled
    <2>1. "CancelPropagated" \in Outcome
        BY DEF Outcome, Ambiguous
    <2> QED BY <1>10, <2>1, SettleKeepsInvariant
            DEF AgentCompleteCancelled, Finished, InLoop
<1>11. CASE AgentReceiptRejected \/ AgentTerminationTimeout \/ AgentCrash
    BY <1>11, GoneKeepsInvariant
       DEF AgentReceiptRejected, AgentTerminationTimeout, AgentCrash
<1>12. CASE AgentSend \/ AgentSendFails
    <2>1. running = NoOp
        BY <1>12 DEF AgentSend, AgentSendFails, AgentIInv, Control
    <2> QED BY <1>12, <2>1, IdleKeepsInvariant DEF AgentSend, AgentSendFails
<1>13. ASSUME NEW ending \in {"EndReconnect", "EndExit"}, AgentStreamEnds(ending)
       PROVE  AgentIInv'
    BY <1>13, EndKeepsInvariant DEF AgentStreamEnds
<1>14. CASE AgentTerminated
    <2>1. running # NoOp
        BY <1>14 DEF AgentTerminated, AgentIInv, Control
    <2> QED BY <1>14, <2>1, SettleKeepsInvariant DEF AgentTerminated
<1>15. CASE AgentTerminatedExit
    BY <1>15, TerminatedExitKeepsInvariant
<1>16. CASE UNCHANGED agentVars
    BY <1>16 DEF agentVars, AgentIInv, AgentTypeOK, Control, Barrier, Spent, Witnessed,
       JournalTruthful, EvidencePrecedesResult
<1> QED BY <1>1, <1>2, <1>3, <1>4, <1>5, <1>6, <1>7, <1>8, <1>9, <1>10, <1>11, <1>12,
        <1>13, <1>14, <1>15, <1>16 DEF AgentNext

-----------------------------------------------------------------------------
(* Theorems *)

\* The inductive invariant holds throughout.
THEOREM AgentInvariant == AgentSpec => []AgentIInv
    BY InitInvariant, NextKeepsInvariant, PTL DEF AgentSpec

\* The Agent's state stays well typed and its journal within its limit.
THEOREM AgentTypeCorrect == AgentSpec => []AgentTypeOK
<1>1. AgentIInv => AgentTypeOK
    BY DEF AgentIInv
<1> QED BY <1>1, AgentInvariant, PTL

\* Whatever ids the Hub repeats and wherever the process stops, the backend is
\* started at most once for an id in a generation (AgentExecutionGate::begin
\* and the checkpoint before the backend call).
THEOREM AgentRunsOnce == AgentSpec => []RunsOncePerGeneration
<1>1. AgentIInv => RunsOncePerGeneration
    BY DEF AgentIInv, Spent, RunsOncePerGeneration
<1> QED BY <1>1, AgentInvariant, PTL

\* While a worker exists, the checkpoint already holds its id as spent.
THEOREM AgentBarrierIsDurable == AgentSpec => []ReplayBarrierDurable
<1>1. AgentIInv => ReplayBarrierDurable
    <2> SUFFICES ASSUME AgentIInv, NEW op \in OpId, worker[op] # "None"
                 PROVE  op \in disk.terminal /\ disk.generation = session
        BY DEF ReplayBarrierDurable
    <2>1. op = running /\ running # NoOp
        BY AgentConstants DEF AgentIInv, Control
    <2>2. process = "Session" /\ step \in {"Loop", "EndReconnect", "EndExit"}
        BY <2>1 DEF AgentIInv, AgentTypeOK, Control, Steps
    <2> QED BY <2>1, <2>2 DEF AgentIInv, Control, Barrier
<1> QED BY <1>1, AgentInvariant, PTL

\* Every journal entry, in memory or on disk, was established in its generation.
THEOREM AgentJournalIsTruthful == AgentSpec => []JournalTruthful
<1>1. AgentIInv => JournalTruthful
    BY DEF AgentIInv, Witnessed
<1> QED BY <1>1, AgentInvariant, PTL

\* The proved outcome of an operation with an effect is on disk before the result
\* that carries it is sent (record_terminal_evidence and the checkpoint after it).
\* A read is recorded nowhere, so nothing is claimed of it.
THEOREM AgentEvidenceIsDurable == AgentSpec => []EvidencePrecedesResult
<1>1. AgentIInv => EvidencePrecedesResult
    BY DEF AgentIInv, Witnessed
<1> QED BY <1>1, AgentInvariant, PTL

\* There is at most one worker, and none between sessions.
THEOREM AgentWorkEnds == AgentSpec => []NoWorkOutlivesSession
<1>1. AgentIInv => NoWorkOutlivesSession
    BY AgentConstants DEF AgentIInv, Control, NoWorkOutlivesSession
<1> QED BY <1>1, AgentInvariant, PTL

\* No journal without reads gets one from the recording of an outcome.
LEMMA RecordLeavesReadsOut ==
    ASSUME AgentIInv, process = "Session", NEW op \in OpId, NEW out, ReadsLeaveNoEvidence
    PROVE  JournalIds(RecordEvidence(op, out)) \cap ReadOps = {}
<1> DEFINE r == RecordEvidence(op, out)
<1>1. \A i \in DOMAIN r : \/ \E k \in DOMAIN journal : r[i] = journal[k]
                          \/ r[i].op = op /\ op \notin ReadOps
    <2>1. session \in AgentGeneration
        BY DEF AgentIInv, Control
    <2> QED BY <2>1, RecordFacts DEF AgentIInv, LeavesEvidence
<1>2. \A k \in DOMAIN journal : journal[k].op \notin ReadOps
    BY DEF ReadsLeaveNoEvidence, JournalIds
<1> QED BY <1>1, <1>2 DEF JournalIds

\* Reads never take a place in the journal, in memory or on disk: it is the effects
\* the Hub may have to ask about that fill it (CapabilityClass::Observe in
\* record_terminal_evidence).
THEOREM AgentReadsLeaveNothing == AgentSpec => []ReadsLeaveNoEvidence
<1>1. AgentInit => ReadsLeaveNoEvidence
    BY DEF AgentInit, ReadsLeaveNoEvidence, JournalIds
<1>2. ASSUME AgentIInv, ReadsLeaveNoEvidence, [AgentNext]_agentVars
      PROVE  ReadsLeaveNoEvidence'
    <2>1. JournalIds(<< >>) = {}
        BY DEF JournalIds
    <2>2. ASSUME journal' \in {journal, disk.journal, << >>}, disk' = disk
          PROVE  ReadsLeaveNoEvidence'
        BY <1>2, <2>1, <2>2 DEF ReadsLeaveNoEvidence
    <2>3. ASSUME NEW op \in OpId, NEW out, process = "Session",
                 disk'.journal = RecordEvidence(op, out),
                 journal' \in {disk'.journal, << >>}
          PROVE  ReadsLeaveNoEvidence'
        BY <1>2, <2>1, <2>3, RecordLeavesReadsOut DEF ReadsLeaveNoEvidence
    <2>4. ASSUME journal' = journal, disk'.journal = journal
          PROVE  ReadsLeaveNoEvidence'
        BY <1>2, <2>4 DEF ReadsLeaveNoEvidence
    <2>5. ASSUME process = "Session", running # NoOp, NEW out, AgentSettle(running, out)
          PROVE  ReadsLeaveNoEvidence'
        <3>1. running \in OpId
            BY <1>2, <2>5 DEF AgentIInv, AgentTypeOK
        <3>2. disk'.journal = journal' /\ journal' = RecordEvidence(running, out)
            BY <2>5 DEF AgentSettle, Snapshot
        <3> QED BY <2>3, <2>5, <3>1, <3>2
    <2>6. CASE AgentRestart
        BY <2>2, <2>6 DEF AgentRestart
    <2>7. ASSUME NEW g, AgentConnect(g) PROVE ReadsLeaveNoEvidence'
        BY <2>4, <2>7 DEF AgentConnect, Snapshot
    <2>8. ASSUME NEW op \in OpId, AgentBegin(op) PROVE ReadsLeaveNoEvidence'
        BY <2>4, <2>8 DEF AgentBegin, Snapshot
    <2>9. ASSUME NEW ending, EndSession(ending) PROVE ReadsLeaveNoEvidence'
        BY <2>2, <2>9 DEF EndSession, ProcessGone
    <2>10. ASSUME NEW op \in OpId, AgentCancel(op) PROVE ReadsLeaveNoEvidence'
        BY <2>2, <2>10 DEF AgentCancel
    <2>11. ASSUME NEW op \in OpId, NEW out \in Outcome, WorkerFinishes(op, out)
           PROVE  ReadsLeaveNoEvidence'
        BY <2>2, <2>11 DEF WorkerFinishes
    <2>12. ASSUME NEW out \in Outcome, AgentComplete(out) \/ AgentCompleteReconnecting(out)
           PROVE  ReadsLeaveNoEvidence'
        BY <2>5, <2>12 DEF AgentComplete, AgentCompleteReconnecting, InLoop, Finished
    <2>13. CASE AgentDeny
        <3>1. process = "Session" /\ gate.active \in OpId
            BY <1>2, <2>13 DEF AgentDeny, AgentIInv, AgentTypeOK, Control, Gate
        <3>2. disk'.journal = journal' /\ journal' = RecordEvidence(gate.active, "Failed")
            BY <2>13 DEF AgentDeny, Snapshot
        <3> QED BY <2>3, <3>1, <3>2
    <2>14. CASE AgentSpawn
        BY <2>2, <2>14 DEF AgentSpawn
    <2>15. CASE AgentCompleteCancelled
        BY <2>5, <2>15 DEF AgentCompleteCancelled, InLoop, Finished
    <2>16. CASE AgentReceiptRejected \/ AgentTerminationTimeout \/ AgentCrash
        BY <2>2, <2>16 DEF AgentReceiptRejected, AgentTerminationTimeout, AgentCrash, ProcessGone
    <2>17. CASE AgentSend \/ AgentSendFails
        BY <2>2, <2>17 DEF AgentSend, AgentSendFails
    <2>18. CASE AgentTerminated
        <3>1. running # NoOp
            BY <1>2, <2>18 DEF AgentTerminated, AgentIInv, Control
        <3> QED BY <2>5, <2>18, <3>1 DEF AgentTerminated
    <2>19. CASE AgentTerminatedExit
        <3>1. process = "Session" /\ running \in OpId
            BY <1>2, <2>19 DEF AgentTerminatedExit, AgentIInv, AgentTypeOK, Control
        <3>2. disk'.journal = RecordEvidence(running, worker[running]) /\ journal' = << >>
            BY <2>19 DEF AgentTerminatedExit, Snapshot, ProcessGone
        <3> QED BY <2>3, <3>1, <3>2
    <2>20. CASE UNCHANGED agentVars
        BY <2>2, <2>20 DEF agentVars
    <2> QED
        BY <1>2, <2>6, <2>7, <2>8, <2>9, <2>10, <2>11, <2>12, <2>13, <2>14, <2>15, <2>16,
           <2>17, <2>18, <2>19, <2>20
        DEF AgentNext, AgentRefuse, AgentCancelMismatch, AgentStreamEnds
<1> QED BY <1>1, <1>2, AgentInvariant, PTL DEF AgentSpec

\* What the Agent keeps true through crashes between any two of its steps, all of it
\* together, as the run checks it.
THEOREM AgentIsSafe == AgentSpec => []AgentSafe
    BY AgentTypeCorrect, AgentRunsOnce, AgentBarrierIsDurable, AgentJournalIsTruthful,
       AgentEvidenceIsDurable, AgentReadsLeaveNothing, AgentWorkEnds, PTL DEF AgentSafe
=============================================================================
