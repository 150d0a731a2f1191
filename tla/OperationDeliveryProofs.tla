----------------------- MODULE OperationDeliveryProofs -----------------------
(***************************************************************************)
(* Machine-checked proofs about an operation's way from the Hub to the     *)
(* Agent and back, for every set of operation ids, every number of         *)
(* generations, cancellations, Hub restarts and refused commits.           *)
(*                                                                         *)
(* The argument follows one operation.  It is a token that moves from the  *)
(* ledger (Unsent) into one frame, from there into the Agent's gate, and   *)
(* from there into the journal and the answers; each place excludes the    *)
(* earlier ones (Tokens).  As long as it is in a frame or in the gate the  *)
(* Hub still reckons with it (Open), and the ledger has one such operation *)
(* at a time, which is why no two of them ever meet at the Agent.          *)
(***************************************************************************)
EXTENDS OperationDelivery, AdmissionProofs

Agents == INSTANCE AgentExecutionProofs WITH ReadOps <- {}

CommandOf(op) == [type |-> "Command", op |-> op]

AgentFrame == [type : {"Command", "Cancel"}, op : OpId]
HubFrame ==
    [type : {"Report"}, evidence : Seq(Agent!Evidence)]
    \cup [type : {"Result", "IndeterminateAck"}, op : OpId, outcome : Agent!Outcome]
    \cup [type : {"CancellationAck"}, op : OpId, unproven : BOOLEAN]

\* What DeliveryTypeOK says of the Hub and the transport, and the frames.
SessionTypes ==
    /\ registered \in 0..MaxGeneration
    /\ hub \in [Generation -> {"None", "Accepted", "Open", "Closing", "Ended"}]
    /\ pending \in [Generation -> SUBSET OpId]
    /\ dispatching \in [Generation -> OpId \cup {NoOp}]
    /\ proof \in [OpId -> Proof]
    /\ recon \in [OpId -> {"None", "Auto", "Gap", "Operator"}]
    /\ budget \in [cancels : 0..MaxCancels, crashes : 0..MaxHubCrashes,
                   failures : 0..MaxStoreFailures]
    /\ link \in [Generation -> {"Up", "Down"}]
    /\ toAgent \in [Generation -> Seq(AgentFrame)]
    /\ toHub \in [Generation -> Seq(HubFrame)]

\* The ledger of one desktop without evidence reads or retirements.
LedgerSound == AdmissionIInv /\ recoveryReads = {} /\ retired = {}

\* Only the newest generation has a stream, and the Agent has spoken on a stream only
\* after its checkpoint was of that generation.
StreamsSound ==
    /\ \A g \in Generation : link[g] = "Up" => g = registered
    /\ \A g \in Generation : hub[g] # "None" => g <= registered
    /\ disk.generation <= registered
    /\ \A g \in Generation : toHub[g] # << >> => g <= disk.generation

\* What a session's loop holds is its own: it dispatches the operation in the
\* slot, and its pending operations are unsettled or were cancelled for it.
LoopsSound ==
    /\ \A g \in Generation : dispatching[g] # NoOp =>
          /\ hub[g] = "Open" /\ active[Desktop] = dispatching[g]
          /\ ref[dispatching[g]].generation = g
    /\ \A g \in Generation : \A op \in pending[g] :
          \/ state[op] \in Unsettled /\ ref[op].generation = g
          \/ proof[op] = "BeforeDispatch"
    /\ \A op \in OpId : state[op] \in Unsettled => hub[ref[op].generation] # "None"

\* Receipts and reconciliation follow the ledger.
ReceiptsSound ==
    \A op \in OpId :
        /\ state[op] \in Unsettled \cup {"Indeterminate"} => proof[op] = "None"
        /\ state[op] \in Terminal => proof[op] # "None"
        /\ recon[op] # "None" <=> state[op] = "Indeterminate"
        /\ recon[op] = "Auto" => hub[ref[op].generation] = "Ended"

-----------------------------------------------------------------------------
(* Where an operation is *)

\* The Hub still reckons with it.
Open(op) == state[op] \in InFlight \cup {"Indeterminate"}

\* It has not been handed to the transport.
Unsent(op) == \/ state[op] = "Absent" /\ proof[op] = "None"
              \/ state[op] \in {"Queued", "ActiveNotDispatched"}
              \/ \E g \in Generation : dispatching[g] = op

Framed(op, g) == CommandOf(op) \in Range(toAgent[g])

\* An answer or a report on its way to the Hub is about it.
Reported(op) ==
    \E g \in Generation : \E m \in Range(toHub[g]) :
        IF m.type = "Report" THEN op \in Agent!JournalIds(m.evidence)
        ELSE m.type # "CancellationAck" /\ m.op = op
Acknowledged(op) ==
    \E g \in Generation : \E m \in Range(toHub[g]) :
        m.type = "CancellationAck" /\ m.op = op

\* The Agent is done with it.
Done(op) == Reported(op) \/ op \in Agent!JournalIds(disk.journal) \/ reply.op = op

\* The Agent has received it.
Seen(op) ==
    \/ Done(op) \/ Acknowledged(op)
    \/ op \in gate.terminal \cup disk.terminal \cup {gate.active}
    \/ \E g \in Generation : started[op][g] # 0

\* One command frame at most is the same.
Solo(frames) ==
    \A i, j \in DOMAIN frames : frames[i].type = "Command" /\ frames[i] = frames[j] => i = j

\* Every place an operation moves to excludes the earlier ones.
Tokens ==
    /\ \A g \in Generation : Solo(toAgent[g])
    /\ \A op \in OpId : \A g \in Generation :
          Framed(op, g) => Open(op) /\ ref[op].generation = g /\ ~ Seen(op)
    /\ \A op \in OpId : Unsent(op) \/ proof[op] \in {"BeforeDispatch", "NotDelivered"} =>
          ~ Seen(op) /\ \A g \in Generation : ~ Framed(op, g)
    /\ \A op \in OpId : gate.active = op =>
          Open(op) /\ ref[op].generation = disk.generation /\ ~ Done(op)
    /\ step = "Begun" => \A g \in Generation : started[gate.active][g] = 0
    /\ \A op \in OpId : \A g, h \in Generation :
          started[op][g] # 0 /\ started[op][h] # 0 => g = h

\* Answers, reports and receipts state what a worker established.
Established(op, outcome) == \E g \in Generation : outcome \in proved[op][g]
Truths ==
    /\ reply.outcome \in Agent!Results => Established(reply.op, reply.outcome)
    /\ \A g \in Generation : \A m \in Range(toHub[g]) :
          /\ m.type = "Result" /\ m.outcome \in Agent!Results => Established(m.op, m.outcome)
          /\ m.type = "Report" => \A i \in DOMAIN m.evidence :
                Established(m.evidence[i].op, m.evidence[i].outcome)
    /\ \A op \in OpId : state[op] \in Terminal /\ proof[op] \in {"Result", "Reconciled"} =>
          Established(op, state[op])

\* The journal in memory is the one on disk, its entries are of the generation
\* their operation was admitted in, a report holds all earlier ones, and an
\* operation with a gap has none and is of an earlier generation.
EvidenceSound ==
    /\ journal = IF process = "Down" THEN << >> ELSE disk.journal
    /\ \A e \in Range(disk.journal) :
          state[e.op] # "Absent" => ref[e.op].generation = e.generation
    /\ \A g \in Generation : \A m \in Range(toHub[g]) :
          m.type = "Report" =>
             \A e \in Range(disk.journal) : e.generation < g => e.op \in Agent!JournalIds(m.evidence)
    /\ \A op \in OpId : recon[op] = "Gap" =>
          /\ op \notin Agent!JournalIds(disk.journal)
          /\ ref[op].generation < disk.generation

\* The inductive invariant.
DeliveryIInv ==
    /\ SessionTypes /\ LedgerSound /\ Agents!AgentIInv /\ StreamsSound /\ LoopsSound
    /\ ReceiptsSound /\ Tokens /\ Truths /\ EvidenceSound

USE DEF HubOperationState, Unsettled, Running, InFlight, Terminal

-----------------------------------------------------------------------------
(* Frames *)

\* A frame is appended at the end.
LEMMA AppendFrame ==
    ASSUME NEW S, NEW s \in Seq(S), NEW m \in S
    PROVE  /\ Append(s, m) \in Seq(S)
           /\ Range(Append(s, m)) = Range(s) \cup {m}
           /\ Append(s, m) # << >>
<1>1. /\ Append(s, m) \in Seq(S) /\ Len(Append(s, m)) = Len(s) + 1 /\ Len(s) \in Nat
      /\ DOMAIN s = 1..Len(s) /\ DOMAIN Append(s, m) = 1..(Len(s) + 1)
      /\ Append(s, m)[Len(s) + 1] = m
      /\ \A i \in 1..Len(s) : Append(s, m)[i] = s[i]
    BY AppendProperties, LenProperties
<1>2. Len(s) + 1 \in 1..(Len(s) + 1) /\ \A i \in 1..(Len(s) + 1) : i \in 1..Len(s) \/ i = Len(s) + 1
    BY <1>1
<1>3. Range(Append(s, m)) = Range(s) \cup {m}
    BY <1>1, <1>2 DEF Range
<1> QED BY <1>1, <1>3, EmptySeq

\* A frame is taken from the front.
LEMMA TakeFrame ==
    ASSUME NEW S, NEW s \in Seq(S), s # << >>
    PROVE  /\ Tail(s) \in Seq(S) /\ Head(s) \in Range(s) /\ Head(s) \in S
           /\ Range(Tail(s)) \subseteq Range(s)
           /\ DOMAIN s = 1..Len(s) /\ Len(s) \in Nat /\ Len(s) >= 1
           /\ DOMAIN Tail(s) = 1..(Len(s) - 1)
           /\ \A i \in 1..(Len(s) - 1) : Tail(s)[i] = s[i + 1]
           /\ Head(s) = s[1]
<1>1. /\ Tail(s) \in Seq(S) /\ Len(Tail(s)) = Len(s) - 1 /\ Len(s) \in Nat /\ Len(s) >= 1
      /\ DOMAIN s = 1..Len(s) /\ DOMAIN Tail(s) = 1..(Len(s) - 1)
      /\ Head(s) = s[1] /\ Head(s) \in S
      /\ \A i \in 1..(Len(s) - 1) : Tail(s)[i] = s[i + 1]
    BY HeadTailProperties, LenProperties, EmptySeq
<1>2. Head(s) \in Range(s) /\ Range(Tail(s)) \subseteq Range(s)
    BY <1>1 DEF Range
<1> QED BY <1>1, <1>2

LEMMA NoFrame == Range(<< >>) = {} /\ Solo(<< >>)
BY DEF Range, Solo

\* What a sequence holds is of its type.
LEMMA FrameTypes ==
    ASSUME NEW S, NEW s \in Seq(S)
    PROVE  Range(s) \subseteq S /\ (s = << >> <=> Range(s) = {})
<1>1. DOMAIN s = 1..Len(s) /\ Len(s) \in Nat /\ \A i \in 1..Len(s) : s[i] \in S
    BY LenProperties, ElementOfSeq
<1>2. s # << >> => 1 \in 1..Len(s)
    BY <1>1, EmptySeq
<1> QED BY <1>1, <1>2, NoFrame DEF Range

\* A command that is not among the frames may be added.
LEMMA SoloAppend ==
    ASSUME NEW s \in Seq(AgentFrame), NEW m \in AgentFrame, Solo(s),
           m.type # "Command" \/ m \notin Range(s)
    PROVE  Solo(Append(s, m))
<1>1. /\ DOMAIN s = 1..Len(s) /\ DOMAIN Append(s, m) = 1..(Len(s) + 1)
      /\ Len(s) \in Nat
      /\ Append(s, m)[Len(s) + 1] = m
      /\ \A i \in 1..Len(s) : Append(s, m)[i] = s[i]
    BY AppendProperties, LenProperties
<1>2. \A i \in 1..(Len(s) + 1) : i \in 1..Len(s) \/ i = Len(s) + 1
    BY <1>1
<1>3. \A i \in 1..Len(s) : s[i] \in Range(s)
    BY <1>1 DEF Range
<1> QED BY <1>1, <1>2, <1>3 DEF Solo

\* A command taken from the front is not among the rest.
LEMMA SoloTake ==
    ASSUME NEW s \in Seq(AgentFrame), s # << >>, Solo(s)
    PROVE  Solo(Tail(s)) /\ (Head(s).type = "Command" => Head(s) \notin Range(Tail(s)))
<1>1. /\ DOMAIN s = 1..Len(s) /\ Len(s) \in Nat /\ Len(s) >= 1
      /\ DOMAIN Tail(s) = 1..(Len(s) - 1)
      /\ \A i \in 1..(Len(s) - 1) : Tail(s)[i] = s[i + 1]
      /\ Head(s) = s[1]
    BY TakeFrame
<1>2. Solo(Tail(s))
    BY <1>1 DEF Solo
<1>3. ASSUME Head(s).type = "Command", NEW i \in 1..(Len(s) - 1), Tail(s)[i] = Head(s) PROVE FALSE
    <2>1. 1 \in DOMAIN s /\ i + 1 \in DOMAIN s /\ s[1].type = "Command" /\ s[1] = s[i + 1] /\ 1 # i + 1
        BY <1>1, <1>3
    <2> QED BY <2>1 DEF Solo
<1> QED BY <1>1, <1>2, <1>3 DEF Range

-----------------------------------------------------------------------------
(* What the parts say together *)

\* The Agent's invariant, in the words of this module.
LEMMA AgentFacts ==
    ASSUME Agents!AgentIInv
    PROVE  /\ process \in {"Down", "Idle", "Session"} /\ session \in 0..MaxGeneration
           /\ gate.active \in OpId \cup {NoOp} /\ gate.terminal \subseteq OpId
           /\ gate.generation \in 0..MaxGeneration
           /\ running \in OpId \cup {NoOp}
           /\ disk.generation \in 0..MaxGeneration /\ disk.terminal \subseteq OpId
           /\ disk.journal \in Seq(Agent!Evidence) /\ journal \in Seq(Agent!Evidence)
           /\ worker \in [OpId -> {"None", "Running", "Cancelling"} \cup Agent!Outcome]
           /\ reply \in [op : OpId, outcome : Agent!Outcome] \cup {Agent!NoReply}
           /\ started \in [OpId -> [Generation -> 0..2]]
           /\ proved \in [OpId -> [Generation -> SUBSET Agent!Results]]
           /\ process = "Session" => session \in Generation /\ gate.generation = session
           /\ process # "Session" =>
                 session = 0 /\ step = "Loop" /\ gate.active = NoOp /\ running = NoOp
           /\ process # "Down" => gate.generation = disk.generation
           /\ process # "Down" => gate.terminal \subseteq disk.terminal
           /\ gate.active # NoOp => gate.active \in disk.terminal
           /\ process = "Session" /\ step \in {"Loop", "EndReconnect", "EndExit"} =>
                 gate.active = running
           /\ step \in {"EndReconnect", "EndExit"} => running # NoOp
           /\ step = "Begun" => gate.active # NoOp /\ running = NoOp
           /\ step = "Settled" => gate.active = NoOp /\ running = NoOp
           /\ step # "Settled" => reply = Agent!NoReply
           /\ \A op \in OpId, g \in Generation : started[op][g] <= 1
<1>1. /\ Agents!AgentGeneration = Generation
      /\ Agents!Evidence = Agent!Evidence /\ Agents!Outcome = Agent!Outcome
      /\ Agents!Results = Agent!Results /\ Agents!NoReply = Agent!NoReply
    BY DEF Generation, Agents!AgentGeneration, Agent!AgentGeneration,
           Agents!Evidence, Agent!Evidence, Agents!Outcome, Agent!Outcome,
           Agents!Results, Agent!Results, Agents!Receipts, Agent!Receipts,
           Agents!Ambiguous, Agent!Ambiguous, Agents!NoReply, Agent!NoReply
<1>2. Agents!AgentTypeOK /\ Agents!Control /\ Agents!Barrier /\ Agents!Spent
    BY DEF Agents!AgentIInv
<1> HIDE DEF Generation
<1>3. /\ process \in {"Down", "Idle", "Session"} /\ session \in 0..MaxGeneration
      /\ gate.active \in OpId \cup {NoOp} /\ gate.terminal \subseteq OpId
      /\ gate.generation \in 0..MaxGeneration
      /\ running \in OpId \cup {NoOp}
      /\ disk.generation \in 0..MaxGeneration /\ disk.terminal \subseteq OpId
    BY <1>2 DEF Agents!AgentTypeOK, Agents!Gate
<1>4. /\ disk.journal \in Seq(Agent!Evidence) /\ journal \in Seq(Agent!Evidence)
      /\ worker \in [OpId -> {"None", "Running", "Cancelling"} \cup Agent!Outcome]
      /\ reply \in [op : OpId, outcome : Agent!Outcome] \cup {Agent!NoReply}
      /\ started \in [OpId -> [Generation -> 0..2]]
      /\ proved \in [OpId -> [Generation -> SUBSET Agent!Results]]
    BY <1>1, <1>2 DEF Agents!AgentTypeOK
<1>5. /\ process = "Session" => session \in Generation /\ gate.generation = session
      /\ process # "Session" =>
            session = 0 /\ step = "Loop" /\ gate.active = NoOp /\ running = NoOp
      /\ process # "Down" => gate.generation = disk.generation
      /\ process # "Down" => gate.terminal \subseteq disk.terminal
      /\ gate.active # NoOp => gate.active \in disk.terminal
      /\ process = "Session" /\ step \in {"Loop", "EndReconnect", "EndExit"} =>
            gate.active = running
    BY <1>1, <1>2 DEF Agents!Control, Agents!Barrier
<1>6. /\ step \in {"EndReconnect", "EndExit"} => running # NoOp
      /\ step = "Begun" => gate.active # NoOp /\ running = NoOp
      /\ step = "Settled" => gate.active = NoOp /\ running = NoOp
      /\ step # "Settled" => reply = Agent!NoReply
    BY <1>1, <1>2 DEF Agents!Control
<1>7. \A op \in OpId, g \in Generation : started[op][g] <= 1
    BY <1>1, <1>2 DEF Agents!Spent
<1> QED BY <1>3, <1>4, <1>5, <1>6, <1>7

\* The ledger has one desktop: its slot, its block and the references to it.
LEMMA LedgerFacts ==
    ASSUME LedgerSound
    PROVE  /\ Desktop \in Device /\ \A d \in Device : d = Desktop
           /\ state \in [OpId -> HubOperationState \cup {"Absent"}]
           /\ ref \in [OpId -> OperationRef \cup {NoRef}]
           /\ active \in [Device -> OpId \cup {NoOp}] /\ queue \in [Device -> Seq(OpId)]
           /\ blocked \in [Device -> OpId \cup {NoOp}]
           /\ \A op \in OpId : state[op] # "Absent" =>
                 ref[op].device = Desktop /\ ref[op].generation \in Generation
           /\ active[Desktop] # NoOp => state[active[Desktop]] \in Running
           /\ \A op \in OpId : state[op] \in Running => active[Desktop] = op
           /\ blocked[Desktop] # NoOp => state[blocked[Desktop]] = "Indeterminate"
           /\ \A op \in OpId : state[op] = "Indeterminate" => blocked[Desktop] = op
           /\ ~ (blocked[Desktop] # NoOp /\ active[Desktop] # NoOp)
<1>1. /\ Types(state, ref, active, queue, blocked, retired, recoveryReads)
      /\ Refs(state, ref) /\ Slots(state, ref, active)
      /\ Blocks(state, ref, blocked, retired) /\ Excludes(active, blocked, recoveryReads)
      /\ retired = {} /\ recoveryReads = {}
    BY LedgerParts DEF LedgerSound
<1>2. Desktop \in Device /\ \A d \in Device : d = Desktop
    BY DeliveryConstants
<1>3. \A op \in OpId : state[op] # "Absent" =>
          ref[op].device = Desktop /\ ref[op].generation \in Generation
    BY <1>1, <1>2 DEF Refs, OperationRef
<1> QED BY <1>1, <1>2, <1>3 DEF Types, Slots, Blocks, Excludes

\* The Hub reckons with one operation at a time.
LEMMA OneOpen ==
    ASSUME LedgerSound, NEW a \in OpId, NEW b \in OpId, Open(a),
           Open(b) \/ state[b] \in Running
    PROVE  a = b
BY LedgerFacts, AdmissionConstants DEF Open

-----------------------------------------------------------------------------
(* What a step of the Hub does to an operation *)

Kept(op) == ref'[op] = ref[op] /\ recon'[op] = recon[op]
Stays(op) == state'[op] = state[op] /\ Kept(op) /\ proof'[op] = proof[op]
Admitted(op) ==
    /\ state[op] = "Absent" /\ proof[op] = "None" /\ recon[op] = "None"
    /\ state'[op] \in {"Queued", "ActiveNotDispatched"}
    /\ proof'[op] = "None" /\ recon'[op] = "None"
    /\ ref'[op].generation \in Generation /\ hub[ref'[op].generation] = "Open"
Advanced(op) ==
    /\ \/ state[op] = "Queued" /\ state'[op] = "ActiveNotDispatched"
       \/ state[op] \in Running /\ state'[op] \in InFlight
    /\ Kept(op) /\ proof'[op] = proof[op]
Dropped(op) ==
    /\ Unsent(op) /\ state[op] \in Unsettled /\ state'[op] = "Cancelled"
    /\ proof'[op] \in {"BeforeDispatch", "NotDelivered"} /\ Kept(op)
Concluded(op) ==
    /\ Open(op) /\ Done(op) /\ state'[op] \in Terminal /\ Established(op, state'[op])
    /\ proof'[op] \in {"Result", "Reconciled"} /\ recon'[op] = "None" /\ ref'[op] = ref[op]
Quarantined(op) ==
    /\ state[op] \in InFlight /\ state'[op] = "Indeterminate"
    /\ proof'[op] = proof[op] /\ ref'[op] = ref[op]
    /\ \/ recon'[op] = "Operator"
       \/ recon'[op] = "Auto" /\ hub'[ref[op].generation] = "Ended"
Judged(op) ==
    /\ state[op] = "Indeterminate" /\ state'[op] = "Indeterminate"
    /\ proof'[op] = proof[op] /\ ref'[op] = ref[op]
    /\ \/ recon'[op] = "Operator"
       \/ recon'[op] = "Gap" /\ op \notin Agent!JournalIds(disk.journal)
                             /\ ref[op].generation < disk.generation
Pruned(op) ==
    /\ state[op] \in Terminal /\ state'[op] = "Absent"
    /\ proof'[op] = proof[op] /\ recon'[op] = recon[op]

HubMove(op) ==
    \/ Stays(op) \/ Admitted(op) \/ Advanced(op) \/ Dropped(op) \/ Concluded(op)
    \/ Quarantined(op) \/ Judged(op) \/ Pruned(op)

\* What it may do to the sessions and to the transport.
HubShifts ==
    /\ UNCHANGED agentState
    /\ \A g \in Generation : hub[g] # "None" => hub'[g] # "None"
    /\ \A g \in Generation : hub[g] = "Ended" => hub'[g] = "Ended"
    /\ \A g \in Generation : Range(toHub'[g]) \subseteq Range(toHub[g])
    /\ \A g \in Generation : Solo(toAgent'[g])
    /\ \A op \in OpId, g \in Generation : Framed(op, g)' => Framed(op, g)
    /\ \A g \in Generation :
          \/ dispatching'[g] \in {NoOp, dispatching[g]}
          \/ state'[dispatching'[g]] = "ActiveNotDispatched"
    /\ \A g \in Generation : \A op \in pending'[g] :
          /\ op \in pending[g] \/ (state'[op] \in Unsettled /\ ref'[op].generation = g)
          /\ state'[op] \in Unsettled \/ proof'[op] = "BeforeDispatch"

\* Fewer frames to the Hub are about fewer operations.
LEMMA LessHeard ==
    ASSUME UNCHANGED agentState, NEW op \in OpId,
           \A g \in Generation : Range(toHub'[g]) \subseteq Range(toHub[g])
    PROVE  (Done(op)' => Done(op)) /\ (Seen(op)' => Seen(op))
<1>1. /\ disk' = disk /\ reply' = reply /\ gate' = gate /\ started' = started
    BY DEF agentState
<1>2. (Reported(op)' => Reported(op)) /\ (Acknowledged(op)' => Acknowledged(op))
    BY DEF Reported, Acknowledged
<1>3. Done(op)' => Done(op)
    BY <1>1, <1>2 DEF Done
<1> QED BY <1>1, <1>2, <1>3 DEF Seen

\* Such a step keeps everything but the ledger and the loops' own operation.
LEMMA HubMovesKeep ==
    ASSUME DeliveryIInv, LedgerSound', HubShifts, \A op \in OpId : HubMove(op),
           dispatching' \in [Generation -> OpId \cup {NoOp}],
           pending' \in [Generation -> SUBSET OpId]
    PROVE  /\ ReceiptsSound' /\ Tokens' /\ Truths' /\ EvidenceSound'
           /\ \A g \in Generation : \A op \in pending'[g] :
                 \/ state'[op] \in Unsettled /\ ref'[op].generation = g
                 \/ proof'[op] = "BeforeDispatch"
           /\ \A op \in OpId : state'[op] \in Unsettled => hub'[ref'[op].generation] # "None"
<1>1. /\ disk' = disk /\ reply' = reply /\ gate' = gate /\ started' = started
      /\ proved' = proved /\ step' = step /\ journal' = journal /\ process' = process
    BY DEF HubShifts, agentState
<1>2. \A op \in OpId : (Done(op)' => Done(op)) /\ (Seen(op)' => Seen(op))
    BY LessHeard DEF HubShifts
<1>3. \A op \in OpId : state[op] # "Absent" => ref[op].generation \in Generation
    BY LedgerFacts DEF DeliveryIInv
<1>4. \A op \in OpId : state[op] \in HubOperationState \cup {"Absent"}
    BY LedgerFacts DEF DeliveryIInv
<1>5. ReceiptsSound'
    <2> SUFFICES ASSUME NEW op \in OpId
                 PROVE  /\ state'[op] \in Unsettled \cup {"Indeterminate"} => proof'[op] = "None"
                        /\ state'[op] \in Terminal => proof'[op] # "None"
                        /\ (recon'[op] # "None") <=> (state'[op] = "Indeterminate")
                        /\ recon'[op] = "Auto" => hub'[ref'[op].generation] = "Ended"
        BY DEF ReceiptsSound
    <2>1. /\ state[op] \in Unsettled \cup {"Indeterminate"} => proof[op] = "None"
          /\ state[op] \in Terminal => proof[op] # "None"
          /\ (recon[op] # "None") <=> (state[op] = "Indeterminate")
          /\ recon[op] = "Auto" => hub[ref[op].generation] = "Ended"
        BY DEF DeliveryIInv, ReceiptsSound
    <2>2. recon[op] = "Auto" => hub'[ref[op].generation] = "Ended"
        BY <2>1, <1>3 DEF HubShifts
    <2> QED BY <2>1, <2>2 DEF HubMove, Stays, Admitted, Advanced, Dropped, Concluded,
               Quarantined, Judged, Pruned, Kept, Open
<1>6. Truths'
    <2>1. \A op, outcome : Established(op, outcome)' <=> Established(op, outcome)
        BY <1>1 DEF Established
    <2>2. ASSUME NEW op \in OpId, state'[op] \in Terminal, proof'[op] \in {"Result", "Reconciled"}
          PROVE  Established(op, state'[op])
        BY <2>2 DEF HubMove, Stays, Admitted, Advanced, Dropped, Concluded, Quarantined,
                    Judged, Pruned, DeliveryIInv, Truths
    <2>3. /\ reply'.outcome \in Agent!Results => Established(reply'.op, reply'.outcome)
          /\ \A g \in Generation : \A m \in Range(toHub'[g]) :
                /\ m.type = "Result" /\ m.outcome \in Agent!Results => Established(m.op, m.outcome)
                /\ m.type = "Report" => \A i \in DOMAIN m.evidence :
                      Established(m.evidence[i].op, m.evidence[i].outcome)
        BY <1>1 DEF HubShifts, DeliveryIInv, Truths
    <2> QED BY <2>1, <2>2, <2>3 DEF Truths
<1>7. ASSUME NEW op \in OpId
      PROVE  /\ Unsent(op)' => Unsent(op) \/ proof[op] \in {"BeforeDispatch", "NotDelivered"}
             /\ proof'[op] \in {"BeforeDispatch", "NotDelivered"} =>
                   Unsent(op) \/ proof[op] \in {"BeforeDispatch", "NotDelivered"}
    <2>1. state[op] \in Terminal => proof[op] # "None"
        BY DEF DeliveryIInv, ReceiptsSound
    <2>2. ASSUME NEW g \in Generation, dispatching'[g] = op
          PROVE  dispatching[g] = op \/ state'[op] = "ActiveNotDispatched"
        BY <2>2, AdmissionConstants DEF HubShifts
    <2>3. (\E g \in Generation : dispatching'[g] = op) =>
             (\E g \in Generation : dispatching[g] = op) \/ state'[op] = "ActiveNotDispatched"
        BY <2>2
    <2>4. /\ proof'[op] \in {"BeforeDispatch", "NotDelivered"} =>
                Unsent(op) \/ proof[op] \in {"BeforeDispatch", "NotDelivered"}
          /\ state'[op] \in {"Queued", "ActiveNotDispatched"} => Unsent(op)
          /\ state'[op] = "Absent" /\ proof'[op] = "None" => Unsent(op)
        BY <2>1 DEF HubMove, Stays, Admitted, Advanced, Dropped, Concluded, Quarantined,
                    Judged, Pruned, Unsent
    <2> QED BY <2>3, <2>4 DEF Unsent
<1>8. Tokens'
    <2> USE DEF DeliveryIInv, Tokens
    <2>1. \A g \in Generation : Solo(toAgent'[g])
        BY DEF HubShifts
    <2>2. ASSUME NEW op \in OpId, Open(op), ~ Done(op), ~ Unsent(op)
          PROVE  Open(op)' /\ ref'[op] = ref[op]
        BY <2>2 DEF HubMove, Stays, Admitted, Advanced, Dropped, Concluded, Quarantined,
                    Judged, Pruned, Kept, Open
    <2>3. ASSUME NEW op \in OpId, NEW g \in Generation, Framed(op, g)'
          PROVE  Open(op)' /\ ref'[op].generation = g /\ ~ Seen(op)'
        <3>1. Framed(op, g)
            BY <2>3 DEF HubShifts
        <3>2. Open(op) /\ ref[op].generation = g /\ ~ Seen(op) /\ ~ Unsent(op)
            BY <3>1
        <3>3. ~ Done(op)
            BY <3>2 DEF Seen
        <3> QED BY <3>2, <3>3, <2>2, <1>2
    <2>4. ASSUME NEW op \in OpId, Unsent(op)' \/ proof'[op] \in {"BeforeDispatch", "NotDelivered"}
          PROVE  ~ Seen(op)' /\ \A g \in Generation : ~ Framed(op, g)'
        BY <2>4, <1>7, <1>2 DEF HubShifts
    <2>5. ASSUME NEW op \in OpId, gate.active = op
          PROVE  Open(op)' /\ ref'[op].generation = disk.generation /\ ~ Done(op)'
        <3>1. Seen(op) /\ ~ Done(op) /\ Open(op) /\ ref[op].generation = disk.generation
            BY <2>5 DEF Seen
        <3>2. ~ Unsent(op)
            BY <3>1
        <3> QED BY <3>1, <3>2, <2>2, <1>2
    <2> QED BY <2>1, <2>3, <2>4, <2>5, <1>1
<1>9. EvidenceSound'
    <2> USE DEF DeliveryIInv, EvidenceSound
    <2>1. ASSUME NEW e \in Range(disk.journal), state'[e.op] # "Absent"
          PROVE  ref'[e.op].generation = e.generation
        <3>1. e \in Agent!Evidence /\ e.op \in OpId /\ e.op \in Agent!JournalIds(disk.journal)
            <4>1. disk.journal \in Seq(Agent!Evidence)
                BY AgentFacts
            <4>2. Range(disk.journal) \subseteq Agent!Evidence
                BY <4>1, FrameTypes
            <4>3. \A x \in Agent!Evidence : x.op \in OpId
                BY DEF Agent!Evidence
            <4> QED BY <4>2, <4>3 DEF Agent!JournalIds, Range
        <3>2. ~ Unsent(e.op)
            BY <3>1 DEF Tokens, Seen, Done
        <3>3. state[e.op] # "Absent" => ref[e.op].generation = e.generation
            OBVIOUS
        <3> QED BY <2>1, <3>1, <3>2, <3>3 DEF HubMove, Stays, Admitted, Advanced, Dropped,
                   Concluded, Quarantined, Judged, Pruned, Kept, Unsent, Open
    <2>2. ASSUME NEW op \in OpId, recon'[op] = "Gap"
          PROVE  op \notin Agent!JournalIds(disk.journal) /\ ref'[op].generation < disk.generation
        BY <2>2 DEF HubMove, Stays, Admitted, Advanced, Dropped, Concluded, Quarantined,
                    Judged, Pruned, Kept, ReceiptsSound
    <2>3. \A g \in Generation : \A m \in Range(toHub'[g]) : m.type = "Report" =>
             \A e \in Range(disk.journal) : e.generation < g => e.op \in Agent!JournalIds(m.evidence)
        BY DEF HubShifts
    <2> QED BY <1>1, <2>1, <2>2, <2>3
<1>10. ASSUME NEW g \in Generation, NEW op \in pending'[g]
       PROVE  \/ state'[op] \in Unsettled /\ ref'[op].generation = g
              \/ proof'[op] = "BeforeDispatch"
    <2>0. op \in OpId
        OBVIOUS
    <2>1. CASE op \in pending[g] /\ state'[op] \in Unsettled
        <3>1. \/ state[op] \in Unsettled /\ ref[op].generation = g
              \/ proof[op] = "BeforeDispatch"
            BY <2>1 DEF DeliveryIInv, LoopsSound
        <3>2. state[op] \in Unsettled => proof[op] = "None"
            BY <2>0 DEF DeliveryIInv, ReceiptsSound
        <3> QED BY <2>0, <2>1, <3>1, <3>2 DEF HubMove, Stays, Admitted, Advanced, Dropped,
                   Concluded, Quarantined, Judged, Pruned, Kept
    <2> QED BY <2>1 DEF HubShifts
<1>11. ASSUME NEW op \in OpId, state'[op] \in Unsettled
       PROVE  hub'[ref'[op].generation] # "None"
    <2>1. state[op] \in Unsettled => hub'[ref[op].generation] # "None"
        BY <1>3 DEF DeliveryIInv, LoopsSound, HubShifts
    <2> QED BY <2>1, <1>11 DEF HubMove, Stays, Admitted, Advanced, Dropped, Concluded,
               Quarantined, Judged, Pruned, Kept, HubShifts
<1> QED BY <1>5, <1>6, <1>8, <1>9, <1>10, <1>11

-----------------------------------------------------------------------------
(* The Hub's steps *)

\* The Agent's own invariant holds while the Agent does nothing.
LEMMA AgentRests ==
    ASSUME Agents!AgentIInv, UNCHANGED agentState
    PROVE  Agents!AgentIInv'
<1>1. /\ NoOp \notin OpId /\ BackendOps \subseteq OpId /\ {} \subseteq OpId
      /\ MaxGeneration \in Nat /\ MaxJournal \in Nat \ {0}
    BY AdmissionConstants, DeliveryConstants
<1>2. UNCHANGED Agents!agentVars
    BY DEF agentState, Agents!agentVars
<1> QED BY <1>1, <1>2, Agents!NextKeepsInvariant

\* What a step of the Hub must see to besides: the types, the loops' own
\* operation, and that it opens no stream.
HubSeesTo ==
    /\ SessionTypes' /\ LedgerSound'
    /\ registered' = registered
    /\ \A g \in Generation : link'[g] = "Up" => link[g] = "Up"
    /\ \A g \in Generation : hub'[g] # "None" => hub[g] # "None"
    /\ \A g \in Generation : dispatching'[g] # NoOp =>
          /\ hub'[g] = "Open" /\ active'[Desktop] = dispatching'[g]
          /\ ref'[dispatching'[g]].generation = g

LEMMA HubStepKeeps ==
    ASSUME DeliveryIInv, HubShifts, HubSeesTo, \A op \in OpId : HubMove(op)
    PROVE  DeliveryIInv'
<1>1. /\ ReceiptsSound' /\ Tokens' /\ Truths' /\ EvidenceSound'
      /\ \A g \in Generation : \A op \in pending'[g] :
            \/ state'[op] \in Unsettled /\ ref'[op].generation = g
            \/ proof'[op] = "BeforeDispatch"
      /\ \A op \in OpId : state'[op] \in Unsettled => hub'[ref'[op].generation] # "None"
    BY HubMovesKeep DEF HubSeesTo, SessionTypes
<1>2. LoopsSound'
    BY <1>1 DEF LoopsSound, HubSeesTo
<1>3. Agents!AgentIInv'
    BY AgentRests DEF DeliveryIInv, HubShifts
<1>4. StreamsSound'
    <2>1. disk' = disk
        BY DEF HubShifts, agentState
    <2>2. ASSUME NEW g \in Generation, toHub'[g] # << >> PROVE g <= disk.generation
        <3>1. toHub[g] # << >>
            BY <2>2, FrameTypes DEF HubShifts, HubSeesTo, SessionTypes, DeliveryIInv
        <3> QED BY <3>1 DEF DeliveryIInv, StreamsSound
    <2> QED BY <2>1, <2>2 DEF HubSeesTo, DeliveryIInv, StreamsSound
<1> QED BY <1>1, <1>2, <1>3, <1>4 DEF DeliveryIInv, HubSeesTo

\* A freed slot stays free or goes to one queued operation.
LEMMA StartNextMoves ==
    ASSUME LedgerSound, NEW st \in [OpId -> HubOperationState \cup {"Absent"}],
           NEW act \in [Device -> OpId \cup {NoOp}], NEW blk,
           \A o \in OpId : state[o] = "Queued" => st[o] = "Queued",
           act[Desktop] = NoOp,
           StartNextForAvailableCapacity(Desktop, st, act, blk)
    PROVE  \/ state' = st /\ active'[Desktop] = NoOp
           \/ \E o \in OpId :
                 /\ st[o] = "Queued" /\ active'[Desktop] = o
                 /\ state' = [st EXCEPT ![o] = "ActiveNotDispatched"]
<1>1. CASE StartNothing(Desktop, st, act, blk)
    BY <1>1 DEF StartNothing
<1>2. CASE StartOne(Desktop, st, act, blk)
    <2>1. PICK d \in Startable(Desktop, act, blk) :
            /\ state' = [st EXCEPT ![Head(queue[d])] = "ActiveNotDispatched"]
            /\ active' = [act EXCEPT ![d] = Head(queue[d])]
        BY <1>2 DEF StartOne
    <2>2. d \in Device /\ queue[d] # << >>
        BY <2>1, DeliveryConstants DEF Startable, CanPop
    <2>3. d = Desktop /\ queue[d] \in Seq(OpId)
        BY <2>2, LedgerFacts
    <2>4. 1 \in 1..Len(queue[d]) /\ Head(queue[d]) = queue[d][1] /\ Head(queue[d]) \in OpId
        BY <2>2, <2>3, TakeFrame
    <2>5. state[Head(queue[d])] = "Queued"
        BY <2>2, <2>4, LedgerParts DEF LedgerSound, Queues
    <2> QED BY <2>1, <2>2, <2>3, <2>4, <2>5
<1> QED BY <1>1, <1>2 DEF StartNextForAvailableCapacity

\* Only the slot's operation is settled, and only a queued one takes its place.
Succession(id, to) ==
    /\ LedgerSound' /\ ref' = ref
    /\ state'[id] = to
    /\ \/ /\ active'[Desktop] = NoOp
          /\ \A o \in OpId : o # id => state'[o] = state[o]
       \/ \E next \in OpId :
             /\ active'[Desktop] = next /\ next # id
             /\ state[next] = "Queued" /\ state'[next] = "ActiveNotDispatched"
             /\ \A o \in OpId : o \notin {id, next} => state'[o] = state[o]

LEMMA FreeSlotSucceeds ==
    ASSUME LedgerSound, NEW id \in OpId, NEW terminal \in Terminal, state[id] \in Running,
           FreeSlot(id, terminal), UNCHANGED <<ref, blocked, retired>>
    PROVE  Succession(id, terminal) /\ active[Desktop] = id
<1> DEFINE st == [state EXCEPT ![id] = terminal]
           act == [active EXCEPT ![Desktop] = NoOp]
<1>1. AdmissionIInv' /\ recoveryReads' = {} /\ retired' = {}
    BY FreeSlotKeepsLedger DEF LedgerSound, FreeSlot
<1>2. /\ ref[id].device = Desktop /\ active[Desktop] = id /\ Desktop \in Device
      /\ state \in [OpId -> HubOperationState \cup {"Absent"}]
      /\ active \in [Device -> OpId \cup {NoOp}]
    BY LedgerFacts
<1>3. st \in [OpId -> HubOperationState \cup {"Absent"}] /\ act \in [Device -> OpId \cup {NoOp}]
      /\ act[Desktop] = NoOp /\ \A o \in OpId : state[o] = "Queued" => st[o] = "Queued"
    BY <1>2
<1>4. StartNextForAvailableCapacity(Desktop, st, act, blocked)
    BY <1>2 DEF FreeSlot, Of
<1>5. \/ state' = st /\ active'[Desktop] = NoOp
      \/ \E o \in OpId : /\ st[o] = "Queued" /\ active'[Desktop] = o
                         /\ state' = [st EXCEPT ![o] = "ActiveNotDispatched"]
    BY <1>3, <1>4, StartNextMoves
<1>6. CASE state' = st /\ active'[Desktop] = NoOp
    BY <1>1, <1>2, <1>6 DEF Succession, LedgerSound
<1>7. ASSUME NEW o \in OpId, st[o] = "Queued", active'[Desktop] = o,
             state' = [st EXCEPT ![o] = "ActiveNotDispatched"]
      PROVE  Succession(id, terminal)
    <2>1. o # id /\ state[o] = "Queued" /\ state'[id] = terminal /\ state'[o] = "ActiveNotDispatched"
          /\ \A x \in OpId : x \notin {id, o} => state'[x] = state[x]
        BY <1>2, <1>7
    <2> QED BY <1>1, <1>7, <2>1 DEF Succession, LedgerSound
<1> QED BY <1>2, <1>5, <1>6, <1>7

LEMMA UnblockSucceeds ==
    ASSUME LedgerSound, NEW id \in OpId, NEW terminal \in Terminal,
           ReconcileIndeterminateTerminal(id, terminal)
    PROVE  Succession(id, terminal) /\ active[Desktop] = NoOp /\ state[id] = "Indeterminate"
<1> DEFINE st == [state EXCEPT ![id] = terminal]
           blk == [blocked EXCEPT ![Desktop] = NoOp]
<1>0. /\ IsBlocking(id) /\ Unblock(id, terminal) /\ ref' = ref /\ retired' = retired
      /\ recoveryReads' = recoveryReads
    BY DEF ReconcileIndeterminateTerminal
<1>1. AdmissionIInv' /\ recoveryReads' = {} /\ retired' = {}
    BY <1>0, UnblockKeepsLedger DEF LedgerSound
<1>2. /\ state[id] = "Indeterminate" /\ ref[id].device = Desktop /\ Desktop \in Device
      /\ active[Desktop] = NoOp
      /\ state \in [OpId -> HubOperationState \cup {"Absent"}]
      /\ active \in [Device -> OpId \cup {NoOp}]
    BY <1>0, LedgerFacts, AdmissionConstants DEF IsBlocking
<1>3. st \in [OpId -> HubOperationState \cup {"Absent"}]
      /\ \A o \in OpId : state[o] = "Queued" => st[o] = "Queued"
    BY <1>2
<1>4. StartNextForAvailableCapacity(Desktop, st, active, blk)
    BY <1>0, <1>2 DEF Unblock, Of
<1>5. \/ state' = st /\ active'[Desktop] = NoOp
      \/ \E o \in OpId : /\ st[o] = "Queued" /\ active'[Desktop] = o
                         /\ state' = [st EXCEPT ![o] = "ActiveNotDispatched"]
    BY <1>2, <1>3, <1>4, StartNextMoves
<1>6. CASE state' = st /\ active'[Desktop] = NoOp
    BY <1>0, <1>1, <1>2, <1>6 DEF Succession, LedgerSound
<1>7. ASSUME NEW o \in OpId, st[o] = "Queued", active'[Desktop] = o,
             state' = [st EXCEPT ![o] = "ActiveNotDispatched"]
      PROVE  Succession(id, terminal)
    <2>1. o # id /\ state[o] = "Queued" /\ state'[id] = terminal /\ state'[o] = "ActiveNotDispatched"
          /\ \A x \in OpId : x \notin {id, o} => state'[x] = state[x]
        BY <1>2, <1>7
    <2> QED BY <1>0, <1>1, <1>7, <2>1 DEF Succession, LedgerSound
<1> QED BY <1>2, <1>5, <1>6, <1>7

\* A step that says nothing to the Agent and takes at most what it has heard.
Listens ==
    /\ UNCHANGED <<agentState, registered, link, toAgent>>
    /\ toHub' \in [Generation -> Seq(HubFrame)]
    /\ \A g \in Generation : Range(toHub'[g]) \subseteq Range(toHub[g])
    /\ budget' \in [cancels : 0..MaxCancels, crashes : 0..MaxHubCrashes,
                    failures : 0..MaxStoreFailures]

\* What is unsettled in a session's pending operations is of its generation.
LEMMA PendingFacts ==
    ASSUME DeliveryIInv, NEW g \in Generation, NEW op \in pending[g], state[op] \in Unsettled
    PROVE  op \in OpId /\ ref[op].generation = g /\ proof[op] = "None"
<1>1. op \in OpId
    BY DEF DeliveryIInv, SessionTypes
<1> QED BY <1>1 DEF DeliveryIInv, LoopsSound, ReceiptsSound

\* The operation in the slot is settled by its session, which dispatches the
\* successor if it is its own, and otherwise ends.
LEMMA SuccessorKeeps ==
    ASSUME DeliveryIInv, NEW g \in Generation, NEW id \in OpId, NEW by \in Proof, NEW to,
           hub[g] = "Open", Succession(id, to), active[Desktop] = id, ref[id].generation = g,
           Settled(id, by), recon' = recon, Listens,
           DispatchNext(g, {id}) \/ (Close(g) /\ pending' = [pending EXCEPT ![g] = @ \ {id}]),
           Dropped(id) \/ Concluded(id)
    PROVE  DeliveryIInv'
<1> USE DEF DeliveryIInv
<1>1. /\ hub \in [Generation -> {"None", "Accepted", "Open", "Closing", "Ended"}]
      /\ pending \in [Generation -> SUBSET OpId]
      /\ dispatching \in [Generation -> OpId \cup {NoOp}]
      /\ proof \in [OpId -> Proof]
    BY DEF SessionTypes
<1>2. state[id] \in Running /\ state[id] \in Unsettled /\ proof[id] = "None"
    BY LedgerFacts, AdmissionConstants DEF ReceiptsSound
<1>3. /\ registered' = registered /\ link' = link /\ toAgent' = toAgent /\ UNCHANGED agentState
      /\ ref' = ref /\ proof' = [proof EXCEPT ![id] = by]
    BY DEF Listens, Succession, Settled
<1>4. active'[Desktop] # id /\ (active'[Desktop] # NoOp =>
          /\ active'[Desktop] \in OpId /\ state[active'[Desktop]] = "Queued"
          /\ state'[active'[Desktop]] = "ActiveNotDispatched")
    BY AdmissionConstants DEF Succession
<1> DEFINE next == active'[Desktop]
<1>5. /\ pending' = [pending EXCEPT ![g] = pending[g] \ {id}]
      /\ \/ /\ next \in (pending[g] \ {id}) \cup {NoOp}
            /\ hub' = hub /\ dispatching' = [dispatching EXCEPT ![g] = next]
         \/ /\ hub' = [hub EXCEPT ![g] = "Closing"]
            /\ dispatching' = [dispatching EXCEPT ![g] = NoOp]
    BY <1>4 DEF DispatchNext, Close
<1>6. \A h \in Generation : h # g => dispatching[h] = NoOp
    BY DEF LoopsSound
<1>7. ASSUME NEW o \in OpId PROVE HubMove(o)
    <2>1. CASE o = id
        BY <2>1 DEF HubMove
    <2>2. CASE o # id /\ state'[o] = state[o]
        BY <2>2, <1>1, <1>3 DEF HubMove, Stays, Kept
    <2>3. CASE o # id /\ state'[o] # state[o]
        BY <2>3, <1>1, <1>3 DEF HubMove, Advanced, Kept, Succession
    <2> QED BY <2>1, <2>2, <2>3
<1>8. \A o \in OpId : o # id /\ state[o] \in Unsettled => state'[o] \in Unsettled
    BY DEF Succession
<1>9. \A h \in Generation : dispatching'[h] # NoOp =>
          /\ h = g /\ hub' = hub /\ dispatching'[h] = next /\ next \in pending[g]
          /\ state'[next] = "ActiveNotDispatched" /\ ref[next].generation = g
    <2>1. next # NoOp /\ next \in pending[g] => ref[next].generation = g
        BY <1>4, PendingFacts
    <2> QED BY <1>1, <1>4, <1>5, <1>6, <2>1
<1>10. ASSUME NEW h \in Generation, NEW o \in pending'[h]
       PROVE  o \in pending[h] /\ (state'[o] \in Unsettled \/ proof'[o] = "BeforeDispatch")
    <2>1. o \in pending[h] /\ (h = g => o # id) /\ o \in OpId
        BY <1>1, <1>5
    <2>2. o # id
        BY <2>1, <1>2, PendingFacts
    <2>3. state[o] \in Unsettled \/ proof[o] = "BeforeDispatch"
        BY <2>1 DEF LoopsSound
    <2> QED BY <2>1, <2>2, <2>3, <1>8, <1>3, <1>1
<1>11. HubShifts
    <2>1. \A h \in Generation : /\ hub[h] # "None" => hub'[h] # "None"
                                /\ hub[h] = "Ended" => hub'[h] = "Ended"
        BY <1>1, <1>5
    <2>2. \A h \in Generation : Solo(toAgent'[h])
        BY <1>3 DEF Tokens
    <2>3. \A o \in OpId, h \in Generation : Framed(o, h)' => Framed(o, h)
        BY <1>3 DEF Framed
    <2>4. \A h \in Generation : \/ dispatching'[h] \in {NoOp, dispatching[h]}
                                \/ state'[dispatching'[h]] = "ActiveNotDispatched"
        BY <1>9
    <2> QED BY <2>1, <2>2, <2>3, <2>4, <1>3, <1>10 DEF HubShifts, Listens
<1>12. HubSeesTo
    <2>1. SessionTypes'
        <3>1. /\ hub' \in [Generation -> {"None", "Accepted", "Open", "Closing", "Ended"}]
              /\ pending' \in [Generation -> SUBSET OpId]
              /\ dispatching' \in [Generation -> OpId \cup {NoOp}]
              /\ proof' \in [OpId -> Proof]
            BY <1>1, <1>3, <1>5
        <3> QED BY <3>1, <1>3 DEF SessionTypes, Listens
    <2>2. \A h \in Generation : hub'[h] # "None" => hub[h] # "None"
        BY <1>1, <1>5
    <2> QED BY <2>1, <2>2, <1>3, <1>9 DEF HubSeesTo, Succession
<1> QED BY <1>7, <1>11, <1>12, HubStepKeeps

\* A loop's dispatching operation is in the slot and was never sent.
LEMMA DispatchingFacts ==
    ASSUME DeliveryIInv, NEW g \in Generation, dispatching[g] # NoOp
    PROVE  /\ dispatching[g] \in OpId /\ hub[g] = "Open" /\ active[Desktop] = dispatching[g]
           /\ ref[dispatching[g]].generation = g /\ Unsent(dispatching[g])
           /\ state[dispatching[g]] \in Running
<1>1. dispatching[g] \in OpId
    BY DEF DeliveryIInv, SessionTypes
<1> QED BY <1>1, LedgerFacts DEF DeliveryIInv, LoopsSound, Unsent

\* Nothing is heard.
LEMMA Deaf ==
    ASSUME DeliveryIInv, UNCHANGED <<agentState, registered, budget, link, toAgent, toHub>>
    PROVE  Listens
BY DEF Listens, DeliveryIInv, SessionTypes

LEMMA RejectDispatchKeeps ==
    ASSUME DeliveryIInv, NEW g \in Generation, HubRejectDispatch(g)
    PROVE  DeliveryIInv'
<1> DEFINE op == dispatching[g]
<1>1. /\ op # NoOp /\ CancelActive(op) /\ Settled(op, "BeforeDispatch") /\ DispatchNext(g, {op})
      /\ recon' = recon
    BY DEF HubRejectDispatch
<1>2. Listens
    BY Deaf DEF HubRejectDispatch, transport
<1>3. /\ op \in OpId /\ hub[g] = "Open" /\ active[Desktop] = op /\ ref[op].generation = g
      /\ Unsent(op) /\ state[op] \in Running
    BY <1>1, DispatchingFacts
<1>4. FreeSlot(op, "Cancelled") /\ UNCHANGED <<ref, blocked, retired>>
    BY <1>1 DEF CancelActive
<1> HIDE DEF op
<1>5. Succession(op, "Cancelled")
    BY <1>3, <1>4, FreeSlotSucceeds DEF DeliveryIInv
<1>6. Dropped(op)
    <2>1. proof'[op] = "BeforeDispatch" /\ ref' = ref
        BY <1>1, <1>3, <1>4 DEF Settled, DeliveryIInv, SessionTypes
    <2> QED BY <2>1, <1>1, <1>3, <1>5 DEF Dropped, Kept, Succession
<1> QED BY <1>1, <1>2, <1>3, <1>5, <1>6, SuccessorKeeps DEF Proof

LEMMA NotDeliveredKeeps ==
    ASSUME DeliveryIInv, NEW g \in Generation, HubEncodeFails(g) \/ HubOutboundClosed(g)
    PROVE  DeliveryIInv'
<1> DEFINE op == dispatching[g]
<1>1. /\ op # NoOp /\ FinalizeTerminal(op, "Cancelled") /\ Settled(op, "NotDelivered")
      /\ recon' = recon
    BY DEF HubEncodeFails, HubOutboundClosed, HubNotDelivered, MayEnqueue
<1>2. Listens
    BY Deaf DEF HubEncodeFails, HubOutboundClosed, HubNotDelivered, transport
<1>3. /\ op \in OpId /\ hub[g] = "Open" /\ active[Desktop] = op /\ ref[op].generation = g
      /\ Unsent(op) /\ state[op] \in Running
    BY <1>1, DispatchingFacts
<1>4. FreeSlot(op, "Cancelled") /\ UNCHANGED <<ref, blocked, retired>>
    BY <1>1 DEF FinalizeTerminal
<1>5. DispatchNext(g, {op}) \/ (Close(g) /\ pending' = [pending EXCEPT ![g] = @ \ {op}])
    BY DEF HubEncodeFails, HubOutboundClosed
<1> HIDE DEF op
<1>6. Succession(op, "Cancelled")
    BY <1>3, <1>4, FreeSlotSucceeds DEF DeliveryIInv
<1>7. Dropped(op)
    <2>1. proof'[op] = "NotDelivered" /\ ref' = ref
        BY <1>1, <1>3, <1>4 DEF Settled, DeliveryIInv, SessionTypes
    <2> QED BY <2>1, <1>1, <1>3, <1>6 DEF Dropped, Kept, Succession
<1> QED BY <1>1, <1>2, <1>3, <1>5, <1>6, <1>7, SuccessorKeeps DEF Proof

\* What the session loop takes from its stream.
LEMMA ReceivesFacts ==
    ASSUME DeliveryIInv, NEW g \in Generation, NEW type, HubReceives(g, type)
    PROVE  /\ Listens /\ hub[g] = "Open" /\ dispatching[g] = NoOp /\ registered = g
           /\ Head(toHub[g]) \in Range(toHub[g]) /\ Head(toHub[g]) \in HubFrame
           /\ Head(toHub[g]).type = type
           /\ toHub[g] # << >>
<1>1. /\ toHub[g] # << >> /\ Head(toHub[g]).type = type
      /\ toHub' = [toHub EXCEPT ![g] = Tail(toHub[g])]
      /\ UNCHANGED <<agentState, registered, budget, link, toAgent>>
      /\ hub[g] = "Open" /\ dispatching[g] = NoOp /\ registered = g
    BY DEF HubReceives, LoopFree
<1>2. /\ toHub \in [Generation -> Seq(HubFrame)]
      /\ budget \in [cancels : 0..MaxCancels, crashes : 0..MaxHubCrashes,
                     failures : 0..MaxStoreFailures]
    BY DEF DeliveryIInv, SessionTypes
<1>3. /\ Tail(toHub[g]) \in Seq(HubFrame) /\ Head(toHub[g]) \in Range(toHub[g])
      /\ Head(toHub[g]) \in HubFrame /\ Range(Tail(toHub[g])) \subseteq Range(toHub[g])
    BY <1>1, <1>2, TakeFrame
<1>4. /\ toHub' \in [Generation -> Seq(HubFrame)]
      /\ \A h \in Generation : Range(toHub'[h]) \subseteq Range(toHub[h])
    BY <1>1, <1>2, <1>3
<1> QED BY <1>1, <1>2, <1>3, <1>4 DEF Listens

\* Each kind of message has its fields.
LEMMA MessageFields ==
    ASSUME NEW m \in HubFrame
    PROVE  /\ m.type \in {"Result", "IndeterminateAck"} => m.op \in OpId /\ m.outcome \in Agent!Outcome
           /\ m.type = "CancellationAck" => m.op \in OpId /\ m.unproven \in BOOLEAN
           /\ m.type = "Report" => m.evidence \in Seq(Agent!Evidence)
BY DEF HubFrame

\* Conversely, this is all that the ledger of one desktop must keep.
OneDesktop(st, rf, act, qu, blk) ==
    /\ Types(st, rf, act, qu, blk, {}, {})
    /\ Refs(st, rf)
    /\ act[Desktop] # NoOp => st[act[Desktop]] \in Running
    /\ \A op \in OpId : st[op] \in Running => act[Desktop] = op
    /\ \A i \in 1..Len(qu[Desktop]) : st[qu[Desktop][i]] = "Queued"
    /\ \A i, j \in 1..Len(qu[Desktop]) : qu[Desktop][i] = qu[Desktop][j] => i = j
    /\ \A op \in OpId : st[op] = "Queued" =>
          \E i \in 1..Len(qu[Desktop]) : qu[Desktop][i] = op
    /\ blk[Desktop] # NoOp => st[blk[Desktop]] = "Indeterminate"
    /\ \A op \in OpId : st[op] = "Indeterminate" => blk[Desktop] = op
    /\ ~ (blk[Desktop] # NoOp /\ act[Desktop] # NoOp)

LEMMA OneDesktopLedger ==
    ASSUME NEW st, NEW rf, NEW act, NEW qu, NEW blk, OneDesktop(st, rf, act, qu, blk)
    PROVE  Ledger(st, rf, act, qu, blk, {}, {})
<1> USE DEF OneDesktop
<1>1. Desktop \in Device /\ \A d \in Device : d = Desktop
    BY DeliveryConstants
<1>2. \A op \in OpId : st[op] # "Absent" => rf[op].device = Desktop
    BY <1>1 DEF Refs, OperationRef
<1>3. Slots(st, rf, act)
    BY <1>1, <1>2 DEF Slots, Types
<1>4. Queues(st, rf, qu)
    <2>1. \A i \in 1..Len(qu[Desktop]) : qu[Desktop][i] \in OpId
        BY <1>1, ElementOfSeq DEF Types
    <2> QED BY <1>1, <1>2, <2>1 DEF Queues
<1>5. Blocks(st, rf, blk, {})
    BY <1>1, <1>2 DEF Blocks, Types
<1>6. Excludes(act, blk, {}) /\ Lane(st, {}, {})
    BY <1>1 DEF Excludes, Lane
<1>7. Capacity(act)
    <2>1. BusyDevices(act) = {} \/ BusyDevices(act) = {Desktop}
        BY <1>1 DEF BusyDevices
    <2>2. Cardinality({}) = 0 /\ Cardinality({Desktop}) = 1
        BY FS_EmptySet, FS_Singleton
    <2>3. Cardinality(BusyDevices(act)) = 0 \/ Cardinality(BusyDevices(act)) = 1
        BY <2>1, <2>2
    <2>4. MaxGlobalActive \in Nat /\ MaxGlobalActive # 0
        BY AdmissionConstants
    <2> HIDE DEF OneDesktop
    <2> QED BY <2>3, <2>4, SMT DEF Capacity
<1> QED BY <1>3, <1>4, <1>5, <1>6, <1>7 DEF Ledger

\* A quarantine cancels what is queued and blocks the desktop.
LEMMA QuarantineLedger ==
    ASSUME LedgerSound, NEW op \in OpId, state[op] \in InFlight, NEW status,
           Quarantine(op, status)
    PROVE  /\ LedgerSound' /\ ref' = ref /\ active'[Desktop] = NoOp
           /\ state'[op] = "Indeterminate"
           /\ \A q \in OpId : q # op =>
                 state'[q] = IF state[q] = "Queued" THEN "Cancelled" ELSE state[q]
           /\ \A q \in OpId :
                 proof'[q] = IF state[q] = "Queued" THEN "BeforeDispatch" ELSE proof[q]
<1>1. /\ state' = [q \in OpId |-> IF q = op THEN "Indeterminate"
                                  ELSE IF state[q] = "Queued" THEN "Cancelled" ELSE state[q]]
      /\ active' = [active EXCEPT ![Desktop] = NoOp]
      /\ queue' = [queue EXCEPT ![Desktop] = << >>]
      /\ blocked' = [blocked EXCEPT ![Desktop] = op]
      /\ proof' = [q \in OpId |-> IF state[q] = "Queued" THEN "BeforeDispatch" ELSE proof[q]]
      /\ ref' = ref /\ retired' = retired /\ recoveryReads' = recoveryReads
    BY DEF Quarantine
<1>2. /\ Desktop \in Device
      /\ Types(state, ref, active, queue, blocked, {}, {}) /\ Refs(state, ref)
      /\ retired = {} /\ recoveryReads = {}
    BY LedgerParts, LedgerFacts DEF LedgerSound
<1>3. active[Desktop] = op /\ blocked[Desktop] = NoOp
    BY LedgerFacts, AdmissionConstants
<1>4. \A q \in OpId : state[q] \in Running => q = op
    BY <1>3, LedgerFacts
<1>5. \A q \in OpId : state[q] # "Indeterminate"
    BY <1>3, LedgerFacts, AdmissionConstants
<1>6. Types(state', ref', active', queue', blocked', {}, {})
    BY <1>1, <1>2 DEF Types
<1>7. Refs(state', ref')
    BY <1>1, <1>2 DEF Refs, Types
<1>8. queue'[Desktop] = << >> /\ active'[Desktop] = NoOp /\ blocked'[Desktop] = op
    BY <1>1, <1>2 DEF Types
<1>9. \A q \in OpId : /\ state'[q] \notin Running /\ state'[q] # "Queued"
                      /\ state'[q] = "Indeterminate" => q = op
    BY <1>1, <1>4, <1>5
<1>10. OneDesktop(state', ref', active', queue', blocked')
    BY <1>1, <1>6, <1>7, <1>8, <1>9 DEF OneDesktop
<1>11. LedgerSound'
    BY <1>1, <1>2, <1>10, OneDesktopLedger DEF LedgerSound, AdmissionIInv
<1> QED BY <1>1, <1>8, <1>11

-----------------------------------------------------------------------------
(* Steps in which sessions only lose: streams, messages, pending operations *)

Recedes ==
    /\ UNCHANGED <<agentState, registered, toAgent>>
    /\ hub' \in [Generation -> {"None", "Accepted", "Open", "Closing", "Ended"}]
    /\ pending' \in [Generation -> SUBSET OpId]
    /\ dispatching' \in [Generation -> OpId \cup {NoOp}]
    /\ link' \in [Generation -> {"Up", "Down"}]
    /\ toHub' \in [Generation -> Seq(HubFrame)]
    /\ budget' \in [cancels : 0..MaxCancels, crashes : 0..MaxHubCrashes,
                    failures : 0..MaxStoreFailures]
    /\ \A g \in Generation :
          /\ hub'[g] = "None" <=> hub[g] = "None"
          /\ hub[g] = "Ended" => hub'[g] = "Ended"
          /\ pending'[g] \subseteq pending[g]
          /\ dispatching'[g] \in {NoOp, dispatching[g]}
          /\ link'[g] = "Up" => link[g] = "Up"
          /\ Range(toHub'[g]) \subseteq Range(toHub[g])

\* What a loop still dispatches and what is still pending is as it should be.
LoopsAgree ==
    /\ \A g \in Generation : dispatching'[g] # NoOp =>
          /\ hub'[g] = "Open" /\ active'[Desktop] = dispatching'[g]
          /\ ref'[dispatching'[g]] = ref[dispatching'[g]]
    /\ \A g \in Generation : \A op \in pending'[g] :
          state'[op] \in Unsettled \/ proof'[op] = "BeforeDispatch"

LEMMA RecedesKeeps ==
    ASSUME DeliveryIInv, Recedes, LoopsAgree, LedgerSound', \A op \in OpId : HubMove(op),
           proof' \in [OpId -> Proof],
           recon' \in [OpId -> {"None", "Auto", "Gap", "Operator"}]
    PROVE  DeliveryIInv'
<1> USE DEF DeliveryIInv
<1>1. HubShifts
    <2>1. \A h \in Generation : Solo(toAgent'[h])
        BY DEF Tokens, Recedes
    <2>2. \A o \in OpId, h \in Generation : Framed(o, h)' => Framed(o, h)
        BY DEF Framed, Recedes
    <2>3. \A g \in Generation : \A op \in pending'[g] :
              op \in pending[g] /\ (state'[op] \in Unsettled \/ proof'[op] = "BeforeDispatch")
        BY DEF Recedes, LoopsAgree
    <2>4. /\ UNCHANGED agentState
          /\ \A g \in Generation :
                /\ hub[g] # "None" => hub'[g] # "None"
                /\ hub[g] = "Ended" => hub'[g] = "Ended"
                /\ dispatching'[g] \in {NoOp, dispatching[g]}
                /\ Range(toHub'[g]) \subseteq Range(toHub[g])
        BY DEF Recedes
    <2> QED BY <2>1, <2>2, <2>3, <2>4 DEF HubShifts
<1>2. HubSeesTo
    <2>1. SessionTypes'
        BY DEF SessionTypes, Recedes
    <2>2. ASSUME NEW g \in Generation, dispatching'[g] # NoOp
          PROVE  /\ hub'[g] = "Open" /\ active'[Desktop] = dispatching'[g]
                 /\ ref'[dispatching'[g]].generation = g
        <3>1. dispatching'[g] = dispatching[g]
            BY <2>2 DEF Recedes
        <3>2. ref[dispatching[g]].generation = g
            BY <2>2, <3>1 DEF LoopsSound
        <3> QED BY <2>2, <3>1, <3>2 DEF LoopsAgree
    <2>3. \A g \in Generation : link'[g] = "Up" => link[g] = "Up"
        BY DEF Recedes
    <2>4. registered' = registered /\ \A g \in Generation : hub'[g] # "None" => hub[g] # "None"
        BY DEF Recedes
    <2> QED BY <2>1, <2>2, <2>3, <2>4 DEF HubSeesTo
<1> QED BY <1>1, <1>2, HubStepKeeps

\* An operation in flight loses its session or its proof: the desktop is
\* quarantined, and what was queued is cancelled, whichever session queued it.
LEMMA QuarantineKeeps ==
    ASSUME DeliveryIInv, Recedes, dispatching' = dispatching,
           NEW op \in OpId, NEW status \in {"Operator", "Auto"}, Quarantine(op, status),
           state[op] \in InFlight, dispatching[ref[op].generation] = NoOp,
           status = "Auto" => hub'[ref[op].generation] = "Ended",
           op \notin pending'[ref[op].generation]
    PROVE  DeliveryIInv'
<1> USE DEF DeliveryIInv
<1>1. /\ LedgerSound' /\ ref' = ref /\ active'[Desktop] = NoOp
      /\ state'[op] = "Indeterminate"
      /\ \A q \in OpId : q # op =>
            state'[q] = IF state[q] = "Queued" THEN "Cancelled" ELSE state[q]
      /\ \A q \in OpId :
            proof'[q] = IF state[q] = "Queued" THEN "BeforeDispatch" ELSE proof[q]
    BY QuarantineLedger
<1>2. /\ proof \in [OpId -> Proof] /\ recon \in [OpId -> {"None", "Auto", "Gap", "Operator"}]
      /\ recon' = [recon EXCEPT ![op] = status]
      /\ proof' = [q \in OpId |-> IF state[q] = "Queued" THEN "BeforeDispatch" ELSE proof[q]]
    BY DEF SessionTypes, Quarantine
<1>3. active[Desktop] = op /\ ref[op].generation \in Generation
    BY LedgerFacts
<1>4. \A g \in Generation : dispatching'[g] = NoOp
    BY <1>3 DEF LoopsSound
<1>5. ASSUME NEW q \in OpId PROVE HubMove(q)
    <2>1. CASE q = op
        BY <2>1, <1>1, <1>2 DEF HubMove, Quarantined
    <2>2. CASE q # op /\ state[q] = "Queued"
        BY <2>2, <1>1, <1>2 DEF HubMove, Dropped, Unsent, Kept
    <2>3. CASE q # op /\ state[q] # "Queued"
        BY <2>3, <1>1, <1>2 DEF HubMove, Stays, Kept
    <2> QED BY <2>1, <2>2, <2>3
<1>6. ASSUME NEW g \in Generation, NEW q \in pending'[g]
      PROVE  state'[q] \in Unsettled \/ proof'[q] = "BeforeDispatch"
    <2>1. q \in pending[g] /\ q \in OpId
        BY DEF Recedes
    <2>2. q # op
        <3>1. q = op => ref[op].generation = g
            BY <2>1, PendingFacts
        <3> QED BY <3>1
    <2>3. (state[q] \in Unsettled) \/ proof[q] = "BeforeDispatch"
        BY <2>1 DEF LoopsSound
    <2> QED BY <2>1, <2>2, <2>3, <1>1
<1>7. LoopsAgree
    BY <1>4, <1>6 DEF LoopsAgree
<1>8. /\ proof' \in [OpId -> Proof] /\ recon' \in [OpId -> {"None", "Auto", "Gap", "Operator"}]
    BY <1>2 DEF Proof
<1> QED BY <1>1, <1>5, <1>7, <1>8, RecedesKeeps

\* An answer of the Agent proves that the operation was in flight.
LEMMA AnsweredInFlight ==
    ASSUME DeliveryIInv, NEW g \in Generation, NEW op \in pending[g], Seen(op)
    PROVE  op \in OpId /\ state[op] \in InFlight /\ ref[op].generation = g
<1>1. op \in OpId
    BY DEF DeliveryIInv, SessionTypes
<1>2. ~ Unsent(op) /\ proof[op] \notin {"BeforeDispatch", "NotDelivered"}
    BY <1>1 DEF DeliveryIInv, Tokens
<1>3. state[op] \in Unsettled /\ ref[op].generation = g
    BY <1>2 DEF DeliveryIInv, LoopsSound
<1> QED BY <1>1, <1>2, <1>3 DEF Unsent

\* What is spent of the bounds of the model.
LEMMA BudgetSpent ==
    ASSUME NEW b \in [cancels : 0..MaxCancels, crashes : 0..MaxHubCrashes,
                      failures : 0..MaxStoreFailures]
    PROVE  /\ b.cancels < MaxCancels => [b EXCEPT !.cancels = @ + 1] \in
                 [cancels : 0..MaxCancels, crashes : 0..MaxHubCrashes, failures : 0..MaxStoreFailures]
           /\ b.crashes < MaxHubCrashes => [b EXCEPT !.crashes = @ + 1] \in
                 [cancels : 0..MaxCancels, crashes : 0..MaxHubCrashes, failures : 0..MaxStoreFailures]
           /\ b.failures < MaxStoreFailures => [b EXCEPT !.failures = @ + 1] \in
                 [cancels : 0..MaxCancels, crashes : 0..MaxHubCrashes, failures : 0..MaxStoreFailures]
<1>1. /\ MaxCancels \in Nat /\ MaxHubCrashes \in Nat /\ MaxStoreFailures \in Nat
    BY DeliveryConstants
<1>2. /\ b.cancels \in 0..MaxCancels /\ b.crashes \in 0..MaxHubCrashes
      /\ b.failures \in 0..MaxStoreFailures
    OBVIOUS
<1>3. /\ b.cancels < MaxCancels => b.cancels + 1 \in 0..MaxCancels
      /\ b.crashes < MaxHubCrashes => b.crashes + 1 \in 0..MaxHubCrashes
      /\ b.failures < MaxStoreFailures => b.failures + 1 \in 0..MaxStoreFailures
    BY <1>1, <1>2
<1> QED BY <1>2, <1>3

\* A step that changes sessions only.
LEMMA SessionStepKeeps ==
    ASSUME DeliveryIInv, Recedes, UNCHANGED <<admissionVars, settlement>>,
           \A g \in Generation : dispatching'[g] # NoOp => hub'[g] = "Open"
    PROVE  DeliveryIInv'
<1> USE DEF DeliveryIInv
<1>1. /\ state' = state /\ ref' = ref /\ active' = active /\ queue' = queue /\ blocked' = blocked
      /\ retired' = retired /\ recoveryReads' = recoveryReads
      /\ proof' = proof /\ recon' = recon
    BY DEF admissionVars, settlement
<1>2. LedgerSound'
    BY <1>1 DEF LedgerSound, AdmissionIInv
<1>3. \A op \in OpId : HubMove(op)
    BY <1>1 DEF HubMove, Stays, Kept
<1>4. LoopsAgree
    <2>1. ASSUME NEW g \in Generation, dispatching'[g] # NoOp
          PROVE  active'[Desktop] = dispatching'[g]
        <3>1. dispatching'[g] = dispatching[g]
            BY <2>1 DEF Recedes
        <3> QED BY <1>1, <2>1, <3>1 DEF LoopsSound
    <2>2. \A g \in Generation : \A op \in pending'[g] :
              state'[op] \in Unsettled \/ proof'[op] = "BeforeDispatch"
        BY <1>1 DEF Recedes, LoopsSound
    <2> QED BY <1>1, <2>1, <2>2 DEF LoopsAgree
<1> QED BY <1>1, <1>2, <1>3, <1>4, RecedesKeeps DEF SessionTypes

\* Each of the steps that end, open or break a session.
LEMMA InstallKeeps ==
    ASSUME DeliveryIInv, NEW g \in Generation, HubInstall(g)
    PROVE  DeliveryIInv'
<1>1. /\ hub[g] = "Accepted" /\ hub' = [hub EXCEPT ![g] = "Open"]
      /\ UNCHANGED <<admissionVars, agentState, registered, pending, dispatching,
                     settlement, budget, link, toAgent, toHub>>
    BY DEF HubInstall, transport
<1>2. Recedes
    BY <1>1 DEF Recedes, DeliveryIInv, SessionTypes
<1>3. \A h \in Generation : dispatching'[h] # NoOp => hub'[h] = "Open"
    BY <1>1 DEF DeliveryIInv, SessionTypes, LoopsSound
<1> QED BY <1>1, <1>2, <1>3, SessionStepKeeps

LEMMA AcceptFailsKeeps ==
    ASSUME DeliveryIInv, NEW g \in Generation, HubAcceptFails(g)
    PROVE  DeliveryIInv'
<1>1. /\ hub[g] = "Accepted" /\ hub' = [hub EXCEPT ![g] = "Ended"]
      /\ toHub' = [toHub EXCEPT ![g] = << >>]
      /\ UNCHANGED <<admissionVars, agentState, registered, pending, dispatching,
                     settlement, budget, link, toAgent>>
    BY DEF HubAcceptFails
<1>2. Recedes
    BY <1>1, NoFrame, EmptySeq DEF Recedes, DeliveryIInv, SessionTypes
<1>3. \A h \in Generation : dispatching'[h] # NoOp => hub'[h] = "Open"
    BY <1>1 DEF DeliveryIInv, SessionTypes, LoopsSound
<1> QED BY <1>1, <1>2, <1>3, SessionStepKeeps

LEMMA LinkBreaksKeeps ==
    ASSUME DeliveryIInv, NEW g \in Generation, LinkBreaks(g)
    PROVE  DeliveryIInv'
<1>1. /\ link' = [link EXCEPT ![g] = "Down"]
      /\ UNCHANGED <<admissionVars, agentState, registered, hub, pending, dispatching,
                     settlement, budget, toAgent, toHub>>
    BY DEF LinkBreaks, sessions
<1>2. Recedes
    BY <1>1 DEF Recedes, DeliveryIInv, SessionTypes
<1>3. \A h \in Generation : dispatching'[h] # NoOp => hub'[h] = "Open"
    BY <1>1 DEF DeliveryIInv, LoopsSound
<1> QED BY <1>1, <1>2, <1>3, SessionStepKeeps

\* The loop returns without a commit: it ends, a message is refused, or the
\* store refuses.
LEMMA CloseKeeps ==
    ASSUME DeliveryIInv, NEW g \in Generation, hub[g] = "Open", Close(g), Listens,
           UNCHANGED <<admissionVars, pending, settlement>>
    PROVE  DeliveryIInv'
<1>1. /\ hub' = [hub EXCEPT ![g] = "Closing"]
      /\ dispatching' = [dispatching EXCEPT ![g] = NoOp]
    BY DEF Close
<1>2. Recedes
    BY <1>1 DEF Recedes, Listens, DeliveryIInv, SessionTypes
<1>3. \A h \in Generation : dispatching'[h] # NoOp => hub'[h] = "Open"
    BY <1>1 DEF DeliveryIInv, SessionTypes, LoopsSound
<1> QED BY <1>2, <1>3, SessionStepKeeps

LEMMA LoopEndsKeeps ==
    ASSUME DeliveryIInv, NEW g \in Generation, HubLoopEnds(g) \/ HubStoreFails(g)
    PROVE  DeliveryIInv'
<1>1. /\ hub[g] = "Open" /\ Close(g) /\ toHub' = [toHub EXCEPT ![g] = << >>]
      /\ UNCHANGED <<admissionVars, agentState, registered, pending, settlement, link, toAgent>>
      /\ \/ budget' = budget
         \/ budget.failures < MaxStoreFailures /\ budget' = [budget EXCEPT !.failures = @ + 1]
    BY DEF HubLoopEnds, HubStoreFails, LoopFree
<1>2. budget' \in [cancels : 0..MaxCancels, crashes : 0..MaxHubCrashes,
                   failures : 0..MaxStoreFailures]
    BY <1>1, BudgetSpent DEF DeliveryIInv, SessionTypes
<1>3. Listens
    BY <1>1, <1>2, NoFrame, EmptySeq DEF Listens, DeliveryIInv, SessionTypes
<1> QED BY <1>1, <1>3, CloseKeeps

LEMMA CleanupFailsKeeps ==
    ASSUME DeliveryIInv, NEW g \in Generation, HubCleanupFails(g)
    PROVE  DeliveryIInv'
<1>1. /\ hub[g] = "Closing" /\ hub' = [hub EXCEPT ![g] = "Ended"]
      /\ budget.failures < MaxStoreFailures /\ budget' = [budget EXCEPT !.failures = @ + 1]
      /\ pending' = [pending EXCEPT ![g] = {}] /\ link' = [link EXCEPT ![g] = "Down"]
      /\ toHub' = [toHub EXCEPT ![g] = << >>]
      /\ UNCHANGED <<admissionVars, settlement, agentState, registered, dispatching, toAgent>>
    BY DEF HubCleanupFails, SessionGone
<1>2. budget' \in [cancels : 0..MaxCancels, crashes : 0..MaxHubCrashes,
                   failures : 0..MaxStoreFailures]
    BY <1>1, BudgetSpent DEF DeliveryIInv, SessionTypes
<1>3. Recedes
    BY <1>1, <1>2, NoFrame, EmptySeq DEF Recedes, DeliveryIInv, SessionTypes
<1>4. \A h \in Generation : dispatching'[h] # NoOp => hub'[h] = "Open"
    BY <1>1 DEF DeliveryIInv, SessionTypes, LoopsSound
<1> QED BY <1>1, <1>3, <1>4, SessionStepKeeps

-----------------------------------------------------------------------------
(* Messages from the Agent *)

\* The answer of a pending operation is not proof: mark_indeterminate.
LEMMA LoopQuarantineKeeps ==
    ASSUME DeliveryIInv, NEW g \in Generation, NEW op \in pending[g], Seen(op),
           dispatching[g] = NoOp, QuarantineInLoop(g, op), Listens
    PROVE  DeliveryIInv'
<1>1. op \in OpId /\ state[op] \in InFlight /\ ref[op].generation = g
    BY AnsweredInFlight
<1>2. /\ Quarantine(op, "Operator") /\ hub' = hub /\ dispatching' = dispatching
      /\ pending' = [pending EXCEPT ![g] = {q \in pending[g] : q # op /\ state'[q] # "Cancelled"}]
    BY DEF QuarantineInLoop
<1>3. Recedes /\ op \notin pending'[g]
    BY <1>2 DEF Recedes, Listens, DeliveryIInv, SessionTypes
<1> QED BY <1>1, <1>2, <1>3, QuarantineKeeps

\* A message that is refused, or has nothing to say.
LEMMA RefusedKeeps ==
    ASSUME DeliveryIInv, NEW g \in Generation, hub[g] = "Open", Listens,
           HubRefuses(g) \/ HubIgnores
    PROVE  DeliveryIInv'
<1>1. CASE HubRefuses(g)
    BY <1>1, CloseKeeps DEF HubRefuses
<1>2. CASE HubIgnores
    <2>1. UNCHANGED <<admissionVars, hub, pending, dispatching, settlement>>
        BY <1>2 DEF HubIgnores
    <2>2. Recedes
        BY <2>1 DEF Recedes, Listens, DeliveryIInv, SessionTypes
    <2>3. \A h \in Generation : dispatching'[h] # NoOp => hub'[h] = "Open"
        BY <2>1 DEF DeliveryIInv, LoopsSound
    <2> QED BY <2>1, <2>2, <2>3, SessionStepKeeps
<1> QED BY <1>1, <1>2

LEMMA ResultKeeps ==
    ASSUME DeliveryIInv, NEW g \in Generation, HubResult(g)
    PROVE  DeliveryIInv'
<1> DEFINE m == Head(toHub[g])
           op == m.op
<1>1. /\ Listens /\ hub[g] = "Open" /\ dispatching[g] = NoOp
      /\ m \in Range(toHub[g]) /\ m \in HubFrame /\ m.type = "Result"
    BY ReceivesFacts DEF HubResult
<1>2. op \in OpId /\ m.outcome \in Agent!Outcome
    BY <1>1, MessageFields
<1>3. Reported(op) /\ Done(op) /\ Seen(op)
    BY <1>1 DEF Reported, Done, Seen
<1>4. m.outcome \in Agent!Results => Established(op, m.outcome)
    BY <1>1 DEF DeliveryIInv, Truths
<1>5. CASE op \notin pending[g]
    BY <1>1, <1>5, RefusedKeeps DEF HubResult
<1>6. CASE op \in pending[g] /\ m.outcome = "Unproven"
    BY <1>1, <1>3, <1>6, LoopQuarantineKeeps DEF HubResult
<1>7. CASE op \in pending[g] /\ m.outcome # "Unproven"
    <2>1. /\ FinalizeTerminal(op, m.outcome) /\ Settled(op, "Result")
          /\ DispatchNext(g, {op}) /\ recon' = recon
        BY <1>7 DEF HubResult
    <2>2. state[op] \in InFlight /\ ref[op].generation = g
        BY <1>3, <1>7, AnsweredInFlight
    <2>3. /\ m.outcome \in Terminal /\ FreeSlot(op, m.outcome) /\ UNCHANGED <<ref, blocked, retired>>
        BY <2>1 DEF FinalizeTerminal
    <2> HIDE DEF op, m
    <2>4. Succession(op, m.outcome) /\ active[Desktop] = op
        BY <1>2, <2>2, <2>3, FreeSlotSucceeds DEF DeliveryIInv
    <2>5. Concluded(op)
        <3>1. proof'[op] = "Result" /\ ref' = ref /\ recon'[op] = recon[op]
            BY <1>2, <2>1, <2>3 DEF Settled, DeliveryIInv, SessionTypes
        <3>2. recon[op] = "None"
            BY <1>2, <2>2 DEF DeliveryIInv, ReceiptsSound
        <3>3. Established(op, m.outcome)
            BY <1>4, <2>3 DEF Agent!Results
        <3> QED BY <3>1, <3>2, <3>3, <1>3, <2>2, <2>3, <2>4 DEF Concluded, Succession, Open
    <2> QED BY <1>1, <1>2, <2>1, <2>2, <2>4, <2>5, SuccessorKeeps DEF Proof
<1> QED BY <1>5, <1>6, <1>7

LEMMA IndeterminateAckKeeps ==
    ASSUME DeliveryIInv, NEW g \in Generation, HubIndeterminateAck(g)
    PROVE  DeliveryIInv'
<1> DEFINE m == Head(toHub[g])
           op == m.op
<1>1. /\ Listens /\ hub[g] = "Open" /\ dispatching[g] = NoOp
      /\ m \in Range(toHub[g]) /\ m \in HubFrame /\ m.type = "IndeterminateAck"
    BY ReceivesFacts DEF HubIndeterminateAck
<1>2. Seen(op)
    BY <1>1 DEF Reported, Done, Seen
<1>3. CASE HubIgnores \/ HubRefuses(g)
    BY <1>1, <1>3, RefusedKeeps
<1>4. CASE op \in pending[g] /\ QuarantineInLoop(g, op)
    BY <1>1, <1>2, <1>4, LoopQuarantineKeeps
<1> QED BY <1>3, <1>4 DEF HubIndeterminateAck

LEMMA CancellationAckKeeps ==
    ASSUME DeliveryIInv, NEW g \in Generation, HubCancellationAck(g)
    PROVE  DeliveryIInv'
<1> DEFINE m == Head(toHub[g])
           op == m.op
<1>1. /\ Listens /\ hub[g] = "Open" /\ dispatching[g] = NoOp
      /\ m \in Range(toHub[g]) /\ m \in HubFrame /\ m.type = "CancellationAck"
    BY ReceivesFacts DEF HubCancellationAck
<1>2. Seen(op)
    BY <1>1 DEF Acknowledged, Seen
<1>3. CASE HubIgnores \/ HubRefuses(g)
    BY <1>1, <1>3, RefusedKeeps
<1>4. CASE op \in pending[g] /\ QuarantineInLoop(g, op)
    BY <1>1, <1>2, <1>4, LoopQuarantineKeeps
<1> QED BY <1>3, <1>4 DEF HubCancellationAck

\* The blocking operation is looked at again: no evidence, or none that counts.
LEMMA JudgedKeeps ==
    ASSUME DeliveryIInv, Listens, NEW op \in OpId, NEW status \in {"Auto", "Gap", "Operator"},
           UNCHANGED <<admissionVars, hub, pending, dispatching, proof>>,
           recon' = [recon EXCEPT ![op] = status], state[op] = "Indeterminate",
           status = recon[op] \/ Judged(op)
    PROVE  DeliveryIInv'
<1> USE DEF DeliveryIInv
<1>1. /\ state' = state /\ ref' = ref /\ active' = active /\ queue' = queue /\ blocked' = blocked
      /\ retired' = retired /\ recoveryReads' = recoveryReads
      /\ proof' = proof /\ hub' = hub /\ pending' = pending /\ dispatching' = dispatching
    BY DEF admissionVars
<1>2. recon \in [OpId -> {"None", "Auto", "Gap", "Operator"}]
    BY DEF SessionTypes
<1>3. \A o \in OpId : HubMove(o)
    <2>1. ASSUME NEW o \in OpId, o # op PROVE Stays(o)
        BY <2>1, <1>1, <1>2 DEF Stays, Kept
    <2>2. Stays(op) \/ Judged(op)
        BY <1>1, <1>2 DEF Stays, Kept
    <2> QED BY <2>1, <2>2 DEF HubMove
<1>4. LedgerSound'
    BY <1>1 DEF LedgerSound, AdmissionIInv
<1>5. Recedes
    BY <1>1 DEF Recedes, Listens, SessionTypes
<1>6. LoopsAgree
    BY <1>1 DEF LoopsAgree, LoopsSound
<1>7. /\ proof' \in [OpId -> Proof] /\ recon' \in [OpId -> {"None", "Auto", "Gap", "Operator"}]
    BY <1>1, <1>2 DEF SessionTypes
<1> QED BY <1>3, <1>4, <1>5, <1>6, <1>7, RecedesKeeps

\* The evidence settles the blocking operation, and the desktop's queue moves.
LEMMA ReconciledKeeps ==
    ASSUME DeliveryIInv, Listens, NEW op \in OpId, NEW outcome \in Terminal,
           ReconcileIndeterminateTerminal(op, outcome), Settled(op, "Reconciled"),
           recon' = [recon EXCEPT ![op] = "None"], UNCHANGED <<hub, pending, dispatching>>,
           Done(op), Established(op, outcome)
    PROVE  DeliveryIInv'
<1> USE DEF DeliveryIInv
<1>1. Succession(op, outcome) /\ active[Desktop] = NoOp /\ state[op] = "Indeterminate"
    BY UnblockSucceeds
<1>2. /\ recon \in [OpId -> {"None", "Auto", "Gap", "Operator"}] /\ proof \in [OpId -> Proof]
      /\ proof' = [proof EXCEPT ![op] = "Reconciled"] /\ ref' = ref
      /\ hub' = hub /\ pending' = pending /\ dispatching' = dispatching
    BY <1>1 DEF SessionTypes, Settled, Succession
<1>3. \A g \in Generation : dispatching[g] = NoOp
    BY <1>1 DEF LoopsSound
<1>4. ASSUME NEW o \in OpId PROVE HubMove(o)
    <2>1. CASE o = op
        BY <2>1, <1>1, <1>2 DEF HubMove, Concluded, Open, Succession
    <2>2. CASE o # op /\ state'[o] = state[o]
        BY <2>2, <1>2 DEF HubMove, Stays, Kept
    <2>3. CASE o # op /\ state'[o] # state[o]
        BY <2>3, <1>1, <1>2 DEF HubMove, Advanced, Kept, Succession
    <2> QED BY <2>1, <2>2, <2>3
<1>5. Recedes
    BY <1>2 DEF Recedes, Listens, SessionTypes
<1>6. LoopsAgree
    <2>1. ASSUME NEW g \in Generation, NEW o \in pending[g]
          PROVE  state'[o] \in Unsettled \/ proof'[o] = "BeforeDispatch"
        <3>1. o \in OpId /\ (state[o] \in Unsettled \/ proof[o] = "BeforeDispatch")
            BY DEF SessionTypes, LoopsSound
        <3>2. state[o] \in Unsettled => state'[o] \in Unsettled
            BY <3>1, <1>1 DEF Succession
        <3>3. proof[op] = "None"
            BY <1>1 DEF ReceiptsSound
        <3> QED BY <3>1, <3>2, <3>3, <1>2
    <2> QED BY <2>1, <1>2, <1>3 DEF LoopsAgree
<1>7. /\ proof' \in [OpId -> Proof] /\ recon' \in [OpId -> {"None", "Auto", "Gap", "Operator"}]
    BY <1>2 DEF Proof
<1> QED BY <1>1, <1>4, <1>5, <1>6, <1>7, RecedesKeeps DEF Succession

LEMMA ReportKeeps ==
    ASSUME DeliveryIInv, NEW g \in Generation, HubReport(g)
    PROVE  DeliveryIInv'
<1> USE DEF DeliveryIInv
<1> DEFINE m == Head(toHub[g])
           op == blocked[Desktop]
           found == {e \in Range(m.evidence) : e.op = op}
<1>1. /\ Listens /\ hub[g] = "Open" /\ registered = g /\ toHub[g] # << >>
      /\ m \in Range(toHub[g]) /\ m \in HubFrame /\ m.type = "Report"
    BY ReceivesFacts DEF HubReport
<1>2. m.evidence \in Seq(Agent!Evidence)
    BY <1>1, MessageFields
<1>3. /\ UNCHANGED <<hub, pending, dispatching>>
      /\ \/ /\ op = NoOp
            /\ UNCHANGED <<admissionVars, settlement>>
         \/ /\ op # NoOp /\ found = {}
            /\ recon' = [recon EXCEPT ![op] = IF recon[op] = "Auto" THEN "Gap" ELSE recon[op]]
            /\ UNCHANGED <<admissionVars, proof>>
         \/ /\ op # NoOp /\ found # {}
            /\ \E e \in found :
                  IF recon[op] = "Auto" /\ e.generation = ref[op].generation
                                        /\ e.generation < g
                  THEN /\ ReconcileIndeterminateTerminal(op, e.outcome)
                       /\ Settled(op, "Reconciled")
                       /\ recon' = [recon EXCEPT ![op] = "None"]
                  ELSE /\ recon' = [recon EXCEPT ![op] = "Operator"]
                       /\ UNCHANGED <<admissionVars, proof>>
    BY DEF HubReport, EvidenceFor
<1>4. op # NoOp => op \in OpId /\ state[op] = "Indeterminate" /\ ref[op].generation \in Generation
    BY LedgerFacts
<1>5. ASSUME op # NoOp PROVE recon[op] \in {"Auto", "Gap", "Operator"}
    BY <1>4, <1>5 DEF ReceiptsSound, SessionTypes
<1>6. CASE op = NoOp
    BY <1>1, <1>3, <1>6, RefusedKeeps DEF HubIgnores
<1>7. CASE op # NoOp /\ found = {}
    <2>1. /\ recon' = [recon EXCEPT ![op] = IF recon[op] = "Auto" THEN "Gap" ELSE recon[op]]
          /\ UNCHANGED <<admissionVars, proof>>
        BY <1>3, <1>7
    <2>2. ASSUME recon[op] = "Auto"
          PROVE  op \notin Agent!JournalIds(disk.journal) /\ ref[op].generation < disk.generation
        <3>1. hub[ref[op].generation] = "Ended"
            BY <1>4, <1>7, <2>2 DEF ReceiptsSound
        <3>2. ref[op].generation < g /\ g <= disk.generation
            BY <3>1, <1>1, <1>4, <1>7, AdmissionConstants DEF StreamsSound, Generation
        <3>3. disk.generation \in Nat /\ g \in Nat /\ ref[op].generation \in Nat
            BY AgentFacts, <1>4, <1>7, AdmissionConstants DEF Generation
        <3>4. ASSUME op \in Agent!JournalIds(disk.journal) PROVE FALSE
            <4>1. PICK e \in Range(disk.journal) : e.op = op
                BY <3>4 DEF Agent!JournalIds, Range
            <4>2. e.generation = ref[op].generation
                BY <4>1, <1>4, <1>7 DEF EvidenceSound
            <4>3. op \in Agent!JournalIds(m.evidence)
                BY <4>1, <4>2, <3>2, <1>1 DEF EvidenceSound
            <4> QED BY <4>3, <1>7 DEF Agent!JournalIds, Range
        <3> QED BY <3>2, <3>3, <3>4
    <2>3. state' = state /\ ref' = ref /\ proof' = proof
        BY <2>1 DEF admissionVars
    <2>4. recon[op] = "Auto" => Judged(op)
        BY <2>1, <2>2, <2>3, <1>4, <1>7 DEF Judged, SessionTypes
    <2> DEFINE status == IF recon[op] = "Auto" THEN "Gap" ELSE recon[op]
    <2>5. status \in {"Auto", "Gap", "Operator"} /\ (status = recon[op] \/ Judged(op))
        BY <1>5, <1>7, <2>4
    <2> HIDE DEF op, m, found
    <2> QED BY <1>1, <1>3, <1>4, <1>7, <2>1, <2>5, JudgedKeeps
<1>8. ASSUME op # NoOp, NEW e \in found,
             ReconcileIndeterminateTerminal(op, e.outcome), Settled(op, "Reconciled"),
             recon' = [recon EXCEPT ![op] = "None"]
      PROVE  DeliveryIInv'
    <2>1. PICK i \in DOMAIN m.evidence : m.evidence[i] = e /\ e.op = op
        BY DEF Range
    <2>2. Established(op, e.outcome)
        BY <2>1, <1>1 DEF Truths
    <2>3. op \in Agent!JournalIds(m.evidence)
        BY <2>1 DEF Agent!JournalIds
    <2>4. Done(op)
        BY <2>3, <1>1 DEF Done, Reported
    <2>5. e.outcome \in Terminal
        BY <1>8 DEF ReconcileIndeterminateTerminal
    <2> HIDE DEF op, m, found
    <2> QED BY <1>1, <1>3, <1>4, <1>8, <2>2, <2>4, <2>5, ReconciledKeeps
<1>9. ASSUME op # NoOp, recon' = [recon EXCEPT ![op] = "Operator"], UNCHANGED <<admissionVars, proof>>
      PROVE  DeliveryIInv'
    <2>1. state' = state /\ ref' = ref /\ proof' = proof
        BY <1>9 DEF admissionVars
    <2>2. Judged(op)
        BY <2>1, <1>4, <1>9 DEF Judged, SessionTypes
    <2> HIDE DEF op, m, found
    <2> QED BY <1>1, <1>3, <1>4, <1>9, <2>2, JudgedKeeps
<1> HIDE DEF op, m, found
<1> QED BY <1>3, <1>6, <1>7, <1>8, <1>9

-----------------------------------------------------------------------------
(* Admission, dispatch and cancellation *)

LEMMA MarkDispatchedKeeps ==
    ASSUME DeliveryIInv, NEW g \in Generation, HubMarkDispatched(g)
    PROVE  DeliveryIInv'
<1> USE DEF DeliveryIInv
<1> DEFINE op == dispatching[g]
<1>1. /\ op # NoOp /\ state[op] = "ActiveNotDispatched"
      /\ state' = [state EXCEPT ![op] = "Dispatched"]
      /\ UNCHANGED <<ref, active, queue, blocked, retired, recoveryReads>>
      /\ UNCHANGED <<agentState, registered, hub, pending, dispatching, proof, recon, budget,
                     link, toAgent, toHub>>
    BY DEF HubMarkDispatched, AdmissionMarkDispatched, sessions, settlement, transport
<1>2. op \in OpId /\ state \in [OpId -> HubOperationState \cup {"Absent"}]
    BY <1>1, DispatchingFacts, LedgerFacts
<1> HIDE DEF op
<1>3. LedgerSound'
    BY <1>1, <1>2, RunningMoveKeepsLedger DEF LedgerSound
<1>4. \A o \in OpId : HubMove(o)
    <2>1. Advanced(op)
        BY <1>1, <1>2 DEF Advanced, Kept
    <2>2. ASSUME NEW o \in OpId, o # op PROVE Stays(o)
        BY <2>2, <1>1, <1>2 DEF Stays, Kept
    <2> QED BY <2>1, <2>2 DEF HubMove
<1>5. Recedes
    BY <1>1 DEF Recedes, SessionTypes
<1>6. LoopsAgree
    <2>1. ASSUME NEW h \in Generation, NEW o \in pending[h]
          PROVE  state'[o] \in Unsettled \/ proof'[o] = "BeforeDispatch"
        <3>1. o \in OpId /\ (state[o] \in Unsettled \/ proof[o] = "BeforeDispatch")
            BY DEF SessionTypes, LoopsSound
        <3> QED BY <3>1, <1>1, <1>2
    <2> QED BY <2>1, <1>1 DEF LoopsAgree, LoopsSound
<1> QED BY <1>1, <1>3, <1>4, <1>5, <1>6, RecedesKeeps DEF SessionTypes

\* A caller's operation is admitted: it starts, or waits its turn.
LEMMA ExecuteKeeps ==
    ASSUME DeliveryIInv, NEW g \in Generation, NEW op \in OpId, HubExecute(g, op)
    PROVE  DeliveryIInv'
<1> USE DEF DeliveryIInv
<1>1. /\ hub[g] = "Open" /\ dispatching[g] = NoOp /\ proof[op] = "None" /\ recon[op] = "None"
      /\ pending' = [pending EXCEPT ![g] = pending[g] \cup {op}]
      /\ UNCHANGED <<agentState, registered, hub, proof, recon, budget, link, toAgent, toHub>>
      /\ \/ AdmitNow(op, Desktop, g) /\ dispatching' = [dispatching EXCEPT ![g] = op]
         \/ AdmitQueued(op, Desktop, g) /\ dispatching' = dispatching
    BY DEF HubExecute, LoopFree, settlement, transport
<1>2. /\ Desktop \in Device /\ state \in [OpId -> HubOperationState \cup {"Absent"}]
      /\ ref \in [OpId -> OperationRef \cup {NoRef}]
      /\ active \in [Device -> OpId \cup {NoOp}]
      /\ pending \in [Generation -> SUBSET OpId]
      /\ dispatching \in [Generation -> OpId \cup {NoOp}]
    BY LedgerFacts DEF SessionTypes
<1>3. /\ state[op] = "Absent" /\ retired' = retired /\ recoveryReads' = recoveryReads
      /\ ref' = [ref EXCEPT ![op] = [device |-> Desktop, generation |-> g]]
      /\ \/ /\ state' = [state EXCEPT ![op] = "ActiveNotDispatched"]
            /\ active' = [active EXCEPT ![Desktop] = op] /\ active[Desktop] = NoOp
            /\ dispatching' = [dispatching EXCEPT ![g] = op]
         \/ /\ state' = [state EXCEPT ![op] = "Queued"] /\ active' = active
            /\ dispatching' = dispatching
    BY <1>1 DEF AdmitNow, AdmitQueued, Start, Known
<1>4. AdmissionIInv'
    <2>1. CASE AdmitNow(op, Desktop, g)
        BY <2>1, <1>2, StartKeepsLedger DEF AdmitNow, LedgerSound
    <2>2. CASE AdmitQueued(op, Desktop, g)
        BY <2>2, <1>2, AdmitQueuedKeepsLedger DEF LedgerSound
    <2> QED BY <2>1, <2>2, <1>1
<1>5. LedgerSound'
    BY <1>3, <1>4 DEF LedgerSound
<1>6. /\ state'[op] \in {"Queued", "ActiveNotDispatched"} /\ ref'[op].generation = g
      /\ \A o \in OpId : o # op => state'[o] = state[o] /\ ref'[o] = ref[o]
    BY <1>2, <1>3
<1>7. \A o \in OpId : HubMove(o)
    <2>1. Admitted(op)
        BY <1>1, <1>3, <1>6 DEF Admitted
    <2>2. ASSUME NEW o \in OpId, o # op PROVE Stays(o)
        BY <2>2, <1>1, <1>6 DEF Stays, Kept
    <2> QED BY <2>1, <2>2 DEF HubMove
<1>8. \A h \in Generation : dispatching'[h] # NoOp =>
          /\ active'[Desktop] = dispatching'[h] /\ ref'[dispatching'[h]].generation = h
          /\ hub[h] = "Open"
          /\ dispatching'[h] = dispatching[h] \/ state'[dispatching'[h]] = "ActiveNotDispatched"
    <2>1. CASE state' = [state EXCEPT ![op] = "ActiveNotDispatched"]
               /\ active' = [active EXCEPT ![Desktop] = op] /\ active[Desktop] = NoOp
               /\ dispatching' = [dispatching EXCEPT ![g] = op]
        <3>1. \A h \in Generation : dispatching[h] = NoOp
            BY <2>1 DEF LoopsSound
        <3> QED BY <2>1, <3>1, <1>1, <1>2, <1>6
    <2>2. CASE active' = active /\ dispatching' = dispatching
        <3>1. ASSUME NEW h \in Generation, dispatching[h] # NoOp PROVE dispatching[h] # op /\ dispatching[h] \in OpId
            BY <3>1, DispatchingFacts, <1>3
        <3> QED BY <2>2, <3>1, <1>6 DEF LoopsSound
    <2> QED BY <1>3, <2>1, <2>2
<1>9. ASSUME NEW h \in Generation, NEW o \in pending'[h]
      PROVE  /\ o \in pending[h] \/ (state'[o] \in Unsettled /\ ref'[o].generation = h)
             /\ state'[o] \in Unsettled \/ proof'[o] = "BeforeDispatch"
    <2>1. CASE o \in pending[h]
        <3>1. o \in OpId /\ (state[o] \in Unsettled \/ proof[o] = "BeforeDispatch")
            BY <2>1, <1>2 DEF LoopsSound
        <3>2. o # op
            BY <3>1, <1>1, <1>3
        <3> QED BY <2>1, <3>1, <3>2, <1>1, <1>6
    <2>2. CASE o \notin pending[h]
        BY <2>2, <1>1, <1>2, <1>6
    <2> QED BY <2>1, <2>2
<1>10. HubShifts
    <2>1. \A h \in Generation : Solo(toAgent'[h]) /\ Range(toHub'[h]) \subseteq Range(toHub[h])
        BY <1>1 DEF Tokens
    <2>2. \A o \in OpId, h \in Generation : Framed(o, h)' => Framed(o, h)
        BY <1>1 DEF Framed
    <2>3. \A h \in Generation : \/ dispatching'[h] \in {NoOp, dispatching[h]}
                                \/ state'[dispatching'[h]] = "ActiveNotDispatched"
        BY <1>8
    <2> QED BY <2>1, <2>2, <2>3, <1>1, <1>9 DEF HubShifts
<1>11. HubSeesTo
    <2>1. pending' \in [Generation -> SUBSET OpId] /\ dispatching' \in [Generation -> OpId \cup {NoOp}]
        BY <1>1, <1>2
    <2>2. SessionTypes'
        BY <1>1, <2>1 DEF SessionTypes
    <2> QED BY <2>2, <1>1, <1>5, <1>8 DEF HubSeesTo
<1> QED BY <1>7, <1>10, <1>11, HubStepKeeps

\* A queued operation is cancelled by its caller.
LEMMA CancelQueuedKeeps ==
    ASSUME DeliveryIInv, NEW g \in Generation, NEW op \in OpId, CancelQueued(op),
           hub[g] = "Open", dispatching[g] = NoOp,
           Settled(op, "BeforeDispatch"), DispatchNext(g, {op}), Listens, recon' = recon
    PROVE  DeliveryIInv'
<1> USE DEF DeliveryIInv
<1>1. /\ state[op] = "Queued" /\ state' = [state EXCEPT ![op] = "Cancelled"]
      /\ UNCHANGED <<ref, active, blocked, retired, recoveryReads>>
      /\ proof' = [proof EXCEPT ![op] = "BeforeDispatch"]
      /\ pending' = [pending EXCEPT ![g] = pending[g] \ {op}]
      /\ hub' = hub /\ dispatching' = [dispatching EXCEPT ![g] = NoOp]
    BY DEF CancelQueued, Settled, DispatchNext
<1>2. /\ state \in [OpId -> HubOperationState \cup {"Absent"}] /\ proof \in [OpId -> Proof]
      /\ pending \in [Generation -> SUBSET OpId]
      /\ dispatching \in [Generation -> OpId \cup {NoOp}]
    BY LedgerFacts DEF SessionTypes
<1>3. LedgerSound'
    BY <1>1, CancelQueuedKeepsLedger DEF LedgerSound
<1>4. \A o \in OpId : HubMove(o)
    <2>1. Dropped(op)
        BY <1>1, <1>2 DEF Dropped, Unsent, Kept
    <2>2. ASSUME NEW o \in OpId, o # op PROVE Stays(o)
        BY <2>2, <1>1, <1>2 DEF Stays, Kept
    <2> QED BY <2>1, <2>2 DEF HubMove
<1>5. dispatching' = dispatching
    BY <1>1, <1>2
<1>6. Recedes
    BY <1>1, <1>2, <1>5 DEF Recedes, Listens, SessionTypes
<1>7. LoopsAgree
    <2>1. ASSUME NEW h \in Generation, NEW o \in pending'[h]
          PROVE  state'[o] \in Unsettled \/ proof'[o] = "BeforeDispatch"
        <3>1. o \in pending[h] /\ o \in OpId
            BY <1>6 DEF Recedes
        <3>2. (state[o] \in Unsettled) \/ proof[o] = "BeforeDispatch"
            BY <3>1 DEF LoopsSound
        <3> QED BY <3>1, <3>2, <1>1, <1>2
    <2> QED BY <2>1, <1>1, <1>5 DEF LoopsAgree, LoopsSound
<1>8. proof' \in [OpId -> Proof] /\ recon' \in [OpId -> {"None", "Auto", "Gap", "Operator"}]
    BY <1>1, <1>2 DEF Proof, SessionTypes
<1> QED BY <1>3, <1>4, <1>6, <1>7, <1>8, RecedesKeeps

\* A cancellation of an operation in flight is forwarded to the Agent.
LEMMA ForwardKeeps ==
    ASSUME DeliveryIInv, NEW g \in Generation, NEW op \in OpId,
           CancelDispatched(op) \/ UNCHANGED admissionVars,
           SendToAgent(g, [type |-> "Cancel", op |-> op]),
           UNCHANGED <<agentState, registered, hub, pending, dispatching, proof, recon,
                       link, toHub>>,
           budget' \in [cancels : 0..MaxCancels, crashes : 0..MaxHubCrashes,
                        failures : 0..MaxStoreFailures]
    PROVE  DeliveryIInv'
<1> USE DEF DeliveryIInv
<1> DEFINE m == [type |-> "Cancel", op |-> op]
<1>1. /\ ref' = ref /\ active' = active
      /\ \/ state' = state
         \/ state[op] = "Dispatched" /\ state' = [state EXCEPT ![op] = "CancelRequested"]
    BY DEF CancelDispatched, admissionVars
<1>2. state \in [OpId -> HubOperationState \cup {"Absent"}] /\ toAgent \in [Generation -> Seq(AgentFrame)]
    BY LedgerFacts DEF SessionTypes
<1>3. LedgerSound'
    <2>1. CASE CancelDispatched(op)
        BY <2>1, RunningMoveKeepsLedger DEF CancelDispatched, LedgerSound
    <2>2. CASE UNCHANGED admissionVars
        BY <2>2 DEF admissionVars, LedgerSound, AdmissionIInv
    <2> QED BY <2>1, <2>2
<1>4. \A o \in OpId : HubMove(o)
    <2>1. ASSUME NEW o \in OpId, state'[o] = state[o] PROVE Stays(o)
        BY <2>1, <1>1 DEF Stays, Kept
    <2>2. ASSUME NEW o \in OpId, state'[o] # state[o] PROVE Advanced(o)
        BY <2>2, <1>1, <1>2 DEF Advanced, Kept
    <2> QED BY <2>1, <2>2 DEF HubMove
<1>5. m \in AgentFrame
    BY DEF AgentFrame
<1>6. /\ toAgent' \in [Generation -> Seq(AgentFrame)]
      /\ \A h \in Generation : /\ Solo(toAgent'[h])
                               /\ Range(toAgent'[h]) \subseteq Range(toAgent[h]) \cup {m}
    <2>1. CASE toAgent' = toAgent
        BY <2>1, <1>2 DEF Tokens
    <2>2. CASE toAgent' = [toAgent EXCEPT ![g] = Append(toAgent[g], m)]
        <3>1. /\ Append(toAgent[g], m) \in Seq(AgentFrame) /\ Solo(Append(toAgent[g], m))
              /\ Range(Append(toAgent[g], m)) = Range(toAgent[g]) \cup {m}
            BY <1>2, <1>5, AppendFrame, SoloAppend DEF Tokens
        <3> QED BY <2>2, <3>1, <1>2 DEF Tokens
    <2> QED BY <2>1, <2>2 DEF SendToAgent
<1>7. \A o \in OpId, h \in Generation : Framed(o, h)' => Framed(o, h)
    BY <1>6 DEF Framed, CommandOf
<1>8. ASSUME NEW h \in Generation, NEW o \in pending[h]
      PROVE  state'[o] \in Unsettled \/ proof[o] = "BeforeDispatch"
    <2>1. o \in OpId /\ (state[o] \in Unsettled \/ proof[o] = "BeforeDispatch")
        BY DEF SessionTypes, LoopsSound
    <2> QED BY <2>1, <1>1, <1>2
<1>9. HubShifts
    BY <1>6, <1>7, <1>8 DEF HubShifts
<1>10. HubSeesTo
    <2>1. SessionTypes'
        BY <1>6 DEF SessionTypes
    <2> QED BY <2>1, <1>1, <1>3 DEF HubSeesTo, LoopsSound
<1> QED BY <1>4, <1>9, <1>10, HubStepKeeps

LEMMA CancelKeeps ==
    ASSUME DeliveryIInv, NEW g \in Generation, NEW op \in OpId, HubCancel(g, op)
    PROVE  DeliveryIInv'
<1>1. /\ hub[g] = "Open" /\ dispatching[g] = NoOp /\ ref[op].generation = g
      /\ budget.cancels < MaxCancels /\ budget' = [budget EXCEPT !.cancels = @ + 1]
      /\ UNCHANGED <<agentState, registered, recon, link, toHub>>
      /\ \/ /\ CancelQueued(op) \/ CancelActive(op)
            /\ Settled(op, "BeforeDispatch") /\ DispatchNext(g, {op}) /\ UNCHANGED toAgent
         \/ /\ CancelDispatched(op) \/ UNCHANGED admissionVars
            /\ SendToAgent(g, [type |-> "Cancel", op |-> op])
            /\ UNCHANGED <<hub, pending, dispatching, proof>>
    BY DEF HubCancel, LoopFree
<1>2. budget' \in [cancels : 0..MaxCancels, crashes : 0..MaxHubCrashes,
                   failures : 0..MaxStoreFailures]
    BY <1>1, BudgetSpent DEF DeliveryIInv, SessionTypes
<1>3. UNCHANGED toAgent => Listens
    BY <1>1, <1>2 DEF Listens, DeliveryIInv, SessionTypes
<1>4. CASE CancelQueued(op) /\ Settled(op, "BeforeDispatch") /\ DispatchNext(g, {op}) /\ UNCHANGED toAgent
    BY <1>1, <1>3, <1>4, CancelQueuedKeeps
<1>5. CASE CancelActive(op) /\ Settled(op, "BeforeDispatch") /\ DispatchNext(g, {op}) /\ UNCHANGED toAgent
    <2>1. /\ state[op] = "ActiveNotDispatched" /\ FreeSlot(op, "Cancelled")
          /\ UNCHANGED <<ref, blocked, retired>>
        BY <1>5 DEF CancelActive
    <2>2. Succession(op, "Cancelled") /\ active[Desktop] = op
        BY <2>1, FreeSlotSucceeds DEF DeliveryIInv
    <2>3. Dropped(op)
        <3>1. proof'[op] = "BeforeDispatch" /\ ref' = ref /\ recon' = recon
            BY <1>1, <1>5, <2>1 DEF Settled, DeliveryIInv, SessionTypes
        <3> QED BY <3>1, <2>1, <2>2 DEF Dropped, Kept, Succession, Unsent
    <2> QED BY <1>1, <1>3, <1>5, <2>2, <2>3, SuccessorKeeps DEF Proof
<1>6. CASE /\ CancelDispatched(op) \/ UNCHANGED admissionVars
           /\ SendToAgent(g, [type |-> "Cancel", op |-> op])
           /\ UNCHANGED <<hub, pending, dispatching, proof>>
    BY <1>1, <1>2, <1>6, ForwardKeeps
<1> QED BY <1>1, <1>4, <1>5, <1>6

-----------------------------------------------------------------------------
(* The end of a Hub session, and of the Hub *)

\* What is left of a queue holds exactly the others, each once.
LEMMA RestFacts ==
    ASSUME NEW S, NEW waiting \in Seq(S), NEW own, NEW left \in Rest(waiting, own)
    PROVE  /\ left \in Seq(S)
           /\ \A i \in 1..Len(left) : left[i] \in Range(waiting) \ own
           /\ \A o \in Range(waiting) \ own : \E i \in 1..Len(left) : left[i] = o
           /\ \A i, j \in 1..Len(left) : left[i] = left[j] => i = j
<1>1. PICK n \in 0..Len(waiting) : left \in [1..n -> Range(waiting) \ own]
    BY DEF Rest, SeqOf
<1>2. Len(waiting) \in Nat /\ n \in Nat /\ Range(waiting) \subseteq S
    BY <1>1, LenProperties, FrameTypes
<1>3. left \in [1..n -> S]
    BY <1>1, <1>2
<1>4. left \in Seq(S) /\ Len(left) = n /\ DOMAIN left = 1..n
    BY <1>2, <1>3
<1>5. \A o \in Range(waiting) \ own : \E i \in 1..n : left[i] = o
    BY <1>4 DEF Rest, Range
<1>6. ASSUME NEW i \in 1..n, NEW j \in 1..n, left[i] = left[j] PROVE i = j
    <2>1. PICK k \in DOMAIN waiting : left[i] = waiting[k]
        BY <1>1 DEF Range
    <2>2. (i < j <=> k < k) /\ (j < i <=> k < k)
        BY <2>1, <1>4, <1>6 DEF Rest
    <2>3. k \in Nat /\ i \in Nat /\ j \in Nat
        BY <1>2, LenProperties
    <2> QED BY <2>2, <2>3
<1> QED BY <1>1, <1>4, <1>5, <1>6

\* cleanup_session with nothing in flight: what was not dispatched is
\* cancelled, and a freed slot goes to another session's operation.
LEMMA CancelUndispatchedLedger ==
    ASSUME LedgerSound, NEW own \in SUBSET OpId,
           \A o \in own : state[o] \in {"Queued", "ActiveNotDispatched"},
           CancelUndispatched(own)
    PROVE  /\ LedgerSound' /\ ref' = ref /\ recon' = recon
           /\ \A o \in own : state'[o] = "Cancelled"
           /\ \A o \in OpId \ own : \/ state'[o] = state[o]
                                    \/ state[o] = "Queued" /\ state'[o] = "ActiveNotDispatched"
           /\ active[Desktop] \notin own => active' = active
           /\ proof' = [q \in OpId |-> IF q \in own THEN "BeforeDispatch" ELSE proof[q]]
<1> DEFINE waiting == queue[Desktop]
<1>1. PICK left \in Rest(waiting, own) :
          LET starts == active[Desktop] \in own /\ left # << >> IN
          /\ state' = [q \in OpId |->
                         IF q \in own THEN "Cancelled"
                         ELSE IF starts /\ q = Head(left) THEN "ActiveNotDispatched"
                         ELSE state[q]]
          /\ active' = [active EXCEPT ![Desktop] =
                          IF starts THEN Head(left)
                          ELSE IF active[Desktop] \in own THEN NoOp ELSE active[Desktop]]
          /\ queue' = [queue EXCEPT ![Desktop] = IF starts THEN Tail(left) ELSE left]
    BY DEF CancelUndispatched
<1>2. /\ proof' = [q \in OpId |-> IF q \in own THEN "BeforeDispatch" ELSE proof[q]]
      /\ UNCHANGED <<ref, blocked, retired, recoveryReads, recon>>
    BY DEF CancelUndispatched
<1>3. /\ Desktop \in Device /\ Types(state, ref, active, queue, blocked, {}, {})
      /\ Refs(state, ref) /\ Queues(state, ref, queue)
      /\ retired = {} /\ recoveryReads = {}
    BY LedgerParts, LedgerFacts DEF LedgerSound
<1>4. waiting \in Seq(OpId)
    BY <1>3 DEF Types
<1>5. /\ \A i \in 1..Len(waiting) : waiting[i] \in OpId /\ state[waiting[i]] = "Queued"
      /\ \A o \in OpId : state[o] = "Queued" => \E i \in 1..Len(waiting) : waiting[i] = o
    <2>1. \A o \in OpId : state[o] = "Queued" => ref[o].device = Desktop
        BY LedgerFacts
    <2> QED BY <1>3, <1>4, <2>1, ElementOfSeq DEF Queues
<1>6. \A o : o \in Range(waiting) <=> o \in OpId /\ state[o] = "Queued"
    BY <1>4, <1>5, LenProperties DEF Range
<1> HIDE DEF waiting
<1>7. /\ left \in Seq(OpId)
      /\ \A i \in 1..Len(left) : left[i] \in OpId \ own /\ state[left[i]] = "Queued"
      /\ \A o \in OpId \ own : state[o] = "Queued" => \E i \in 1..Len(left) : left[i] = o
      /\ \A i, j \in 1..Len(left) : left[i] = left[j] => i = j
    <2>1. /\ left \in Seq(OpId)
          /\ \A i \in 1..Len(left) : left[i] \in Range(waiting) \ own
          /\ \A o \in Range(waiting) \ own : \E i \in 1..Len(left) : left[i] = o
          /\ \A i, j \in 1..Len(left) : left[i] = left[j] => i = j
        BY <1>4, RestFacts
    <2> QED BY <1>6, <2>1
<1>8. /\ active[Desktop] # NoOp => state[active[Desktop]] \in Running
      /\ \A o \in OpId : state[o] \in Running => active[Desktop] = o
      /\ blocked[Desktop] # NoOp => state[blocked[Desktop]] = "Indeterminate"
      /\ \A o \in OpId : state[o] = "Indeterminate" => blocked[Desktop] = o
      /\ ~ (blocked[Desktop] # NoOp /\ active[Desktop] # NoOp)
      /\ blocked[Desktop] # NoOp => blocked[Desktop] \in OpId
      /\ active[Desktop] # NoOp => active[Desktop] \in OpId
      /\ NoOp \notin own
    BY LedgerFacts, AdmissionConstants
<1>9. CASE active[Desktop] \in own /\ left # << >>
    <2>1. /\ Head(left) = left[1] /\ Tail(left) \in Seq(OpId) /\ Len(left) \in Nat /\ Len(left) >= 1
          /\ Len(Tail(left)) = Len(left) - 1
          /\ \A i \in 1..(Len(left) - 1) : Tail(left)[i] = left[i + 1]
        BY <1>7, <1>9, TakeFrame, HeadTailProperties
    <2> DEFINE first == left[1]
    <2>2. /\ state' = [q \in OpId |-> IF q \in own THEN "Cancelled"
                                      ELSE IF q = first THEN "ActiveNotDispatched" ELSE state[q]]
          /\ active' = [active EXCEPT ![Desktop] = first]
          /\ queue' = [queue EXCEPT ![Desktop] = Tail(left)]
        BY <1>1, <1>9, <2>1
    <2>3. first \in OpId \ own /\ state[first] = "Queued"
        BY <1>7, <2>1
    <2>4. \A i \in 1..(Len(left) - 1) : Tail(left)[i] \in OpId \ own /\ state[Tail(left)[i]] = "Queued"
                                        /\ Tail(left)[i] # first
        <3>1. ASSUME NEW i \in 1..(Len(left) - 1) PROVE i + 1 \in 1..Len(left) /\ i + 1 # 1 /\ 1 \in 1..Len(left)
            BY <2>1
        <3> QED BY <3>1, <2>1, <1>7
    <2>5. \A i, j \in 1..(Len(left) - 1) : Tail(left)[i] = Tail(left)[j] => i = j
        <3>1. ASSUME NEW i \in 1..(Len(left) - 1), NEW j \in 1..(Len(left) - 1), Tail(left)[i] = Tail(left)[j]
              PROVE  i = j
            <4>1. i + 1 \in 1..Len(left) /\ j + 1 \in 1..Len(left) /\ left[i + 1] = left[j + 1]
                BY <2>1, <3>1
            <4>2. i + 1 = j + 1
                BY <4>1, <1>7
            <4> QED BY <4>2
        <3> QED BY <3>1
    <2>6. \A o \in OpId \ own : state[o] = "Queued" /\ o # first =>
              \E i \in 1..(Len(left) - 1) : Tail(left)[i] = o
        <3>1. ASSUME NEW o \in OpId \ own, state[o] = "Queued", o # first
              PROVE  \E i \in 1..(Len(left) - 1) : Tail(left)[i] = o
            <4>1. PICK k \in 1..Len(left) : left[k] = o
                BY <3>1, <1>7
            <4>2. k - 1 \in 1..(Len(left) - 1) /\ Tail(left)[k - 1] = o
                BY <4>1, <3>1, <2>1
            <4> QED BY <4>2
        <3> QED BY <3>1
    <2> HIDE DEF first
    <2>7. /\ queue'[Desktop] = Tail(left) /\ active'[Desktop] = first
          /\ Types(state', ref', active', queue', blocked', {}, {}) /\ Refs(state', ref')
        BY <1>2, <1>3, <2>1, <2>2, <2>3 DEF Types, Refs
    <2>8. OneDesktop(state', ref', active', queue', blocked')
        <3>1. /\ state'[first] = "ActiveNotDispatched"
              /\ \A o \in OpId : state'[o] \in Running => o = first
            BY <1>8, <1>9, <2>2, <2>3
        <3>2. /\ \A i \in 1..(Len(left) - 1) : state'[Tail(left)[i]] = "Queued"
              /\ \A o \in OpId : state'[o] = "Queued" =>
                    \E i \in 1..(Len(left) - 1) : Tail(left)[i] = o
            BY <2>2, <2>3, <2>4, <2>6
        <3>3. Len(queue'[Desktop]) = Len(left) - 1
            BY <2>1, <2>7
        <3>4. blocked'[Desktop] = NoOp /\ \A o \in OpId : state'[o] # "Indeterminate"
            BY <1>2, <1>8, <1>9, <2>2, AdmissionConstants
        <3> QED BY <2>5, <2>7, <3>1, <3>2, <3>3, <3>4 DEF OneDesktop
    <2>9. LedgerSound'
        BY <1>2, <1>3, <2>8, OneDesktopLedger DEF LedgerSound, AdmissionIInv
    <2> QED BY <1>2, <1>9, <2>2, <2>3, <2>9
<1>10. CASE ~ (active[Desktop] \in own /\ left # << >>)
    <2>1. /\ state' = [q \in OpId |-> IF q \in own THEN "Cancelled" ELSE state[q]]
          /\ active' = [active EXCEPT ![Desktop] =
                          IF active[Desktop] \in own THEN NoOp ELSE active[Desktop]]
          /\ queue' = [queue EXCEPT ![Desktop] = left]
        BY <1>1, <1>10
    <2>2. /\ queue'[Desktop] = left
          /\ active'[Desktop] = IF active[Desktop] \in own THEN NoOp ELSE active[Desktop]
          /\ Types(state', ref', active', queue', blocked', {}, {}) /\ Refs(state', ref')
        <3>1. /\ queue'[Desktop] = left
              /\ active'[Desktop] = IF active[Desktop] \in own THEN NoOp ELSE active[Desktop]
            BY <1>2, <1>3, <2>1 DEF Types
        <3>2. Types(state', ref', active', queue', blocked', {}, {})
            BY <1>2, <1>3, <1>7, <2>1 DEF Types
        <3>3. Refs(state', ref')
            BY <1>2, <1>3, <2>1 DEF Types, Refs
        <3> QED BY <3>1, <3>2, <3>3
    <2>3. OneDesktop(state', ref', active', queue', blocked')
        BY <1>2, <1>7, <1>8, <2>1, <2>2 DEF OneDesktop
    <2>4. LedgerSound'
        BY <1>2, <1>3, <2>3, OneDesktopLedger DEF LedgerSound, AdmissionIInv
    <2>5. active[Desktop] \notin own => active' = active
        BY <2>1, <1>3 DEF Types
    <2> QED BY <1>2, <2>1, <2>4, <2>5
<1> QED BY <1>9, <1>10

\* A session that is gone.
LEMMA GoneRecedes ==
    ASSUME DeliveryIInv, NEW g \in Generation, hub[g] = "Closing", SessionGone(g), budget' = budget
    PROVE  /\ Recedes /\ hub'[g] = "Ended" /\ pending'[g] = {} /\ dispatching' = dispatching
           /\ dispatching[g] = NoOp
           /\ \A h \in Generation : h # g => hub'[h] = hub[h]
<1>1. /\ hub' = [hub EXCEPT ![g] = "Ended"] /\ pending' = [pending EXCEPT ![g] = {}]
      /\ link' = [link EXCEPT ![g] = "Down"] /\ toHub' = [toHub EXCEPT ![g] = << >>]
      /\ UNCHANGED <<agentState, registered, dispatching, toAgent>>
    BY DEF SessionGone
<1>2. Recedes
    BY <1>1, NoFrame, EmptySeq DEF Recedes, DeliveryIInv, SessionTypes
<1>3. dispatching[g] = NoOp
    BY DEF DeliveryIInv, LoopsSound
<1> QED BY <1>1, <1>2, <1>3 DEF DeliveryIInv, SessionTypes

LEMMA CleanupKeeps ==
    ASSUME DeliveryIInv, NEW g \in Generation, HubCleanup(g)
    PROVE  DeliveryIInv'
<1> USE DEF DeliveryIInv
<1> DEFINE own == OfSession(g)
           inFlight == {op \in own : state[op] \in InFlight}
<1>1. /\ hub[g] = "Closing" /\ budget' = budget
      /\ \/ inFlight = {} /\ CancelUndispatched(own) /\ SessionGone(g)
         \/ \E op \in inFlight : Quarantine(op, "Auto") /\ SessionGone(g)
    BY DEF HubCleanup
<1>2. /\ Recedes /\ hub'[g] = "Ended" /\ pending'[g] = {} /\ dispatching' = dispatching
      /\ dispatching[g] = NoOp /\ \A h \in Generation : h # g => hub'[h] = hub[h]
    BY <1>1, GoneRecedes
<1>3. ASSUME NEW op \in inFlight, Quarantine(op, "Auto") PROVE DeliveryIInv'
    <2>1. op \in OpId /\ state[op] \in InFlight /\ ref[op].generation = g
        BY DEF OfSession
    <2> QED BY <1>2, <1>3, <2>1, QuarantineKeeps
<1>4. CASE inFlight = {} /\ CancelUndispatched(own)
    <2>1. /\ own \in SUBSET OpId
          /\ \A o \in own : state[o] \in {"Queued", "ActiveNotDispatched"} /\ ref[o].generation = g
        BY <1>4 DEF OfSession
    <2> HIDE DEF own, inFlight
    <2>2. /\ LedgerSound' /\ ref' = ref /\ recon' = recon
          /\ \A o \in own : state'[o] = "Cancelled"
          /\ \A o \in OpId \ own : \/ state'[o] = state[o]
                                   \/ state[o] = "Queued" /\ state'[o] = "ActiveNotDispatched"
          /\ active[Desktop] \notin own => active' = active
          /\ proof' = [q \in OpId |-> IF q \in own THEN "BeforeDispatch" ELSE proof[q]]
        BY <1>4, <2>1, CancelUndispatchedLedger
    <2>3. ASSUME NEW o \in OpId PROVE HubMove(o)
        <3>1. CASE o \in own
            BY <3>1, <2>1, <2>2 DEF HubMove, Dropped, Unsent, Kept
        <3>2. CASE o \notin own /\ state'[o] = state[o]
            BY <3>2, <2>2 DEF HubMove, Stays, Kept
        <3>3. CASE o \notin own /\ state'[o] # state[o]
            BY <3>3, <2>2 DEF HubMove, Advanced, Kept
        <3> QED BY <3>1, <3>2, <3>3
    <2>4. LoopsAgree
        <3>1. ASSUME NEW h \in Generation, dispatching[h] # NoOp
              PROVE  hub'[h] = "Open" /\ active'[Desktop] = dispatching[h]
            <4>1. /\ dispatching[h] \in OpId /\ hub[h] = "Open" /\ active[Desktop] = dispatching[h]
                  /\ ref[dispatching[h]].generation = h
                BY <3>1, DispatchingFacts
            <4>2. h # g
                BY <4>1, <1>1
            <4>3. active[Desktop] \notin own
                BY <4>1, <4>2, <2>1
            <4> QED BY <4>1, <4>2, <4>3, <1>2, <2>2
        <3>2. ASSUME NEW h \in Generation, NEW o \in pending'[h]
              PROVE  state'[o] \in Unsettled \/ proof'[o] = "BeforeDispatch"
            <4>1. o \in pending[h] /\ o \in OpId
                BY <1>2 DEF Recedes
            <4>2. (state[o] \in Unsettled) \/ proof[o] = "BeforeDispatch"
                BY <4>1 DEF LoopsSound
            <4> QED BY <4>1, <4>2, <2>2
        <3> QED BY <3>1, <3>2, <1>2, <2>2 DEF LoopsAgree
    <2>5. proof' \in [OpId -> Proof] /\ recon' \in [OpId -> {"None", "Auto", "Gap", "Operator"}]
        BY <2>2 DEF Proof, SessionTypes
    <2> QED BY <1>2, <2>2, <2>3, <2>4, <2>5, RecedesKeeps
<1> QED BY <1>1, <1>3, <1>4

\* A new process of the Hub: what was not dispatched is cancelled, what was in
\* flight is indeterminate.
LEMMA HubCrashKeeps ==
    ASSUME DeliveryIInv, HubCrash
    PROVE  DeliveryIInv'
<1> USE DEF DeliveryIInv
<1>1. /\ budget.crashes < MaxHubCrashes /\ budget' = [budget EXCEPT !.crashes = @ + 1]
      /\ AdmissionRestart
      /\ hub' = [g \in Generation |-> IF hub[g] = "None" THEN "None" ELSE "Ended"]
      /\ pending' = [g \in Generation |-> {}]
      /\ dispatching' = [g \in Generation |-> NoOp]
      /\ proof' = [op \in OpId |-> IF state[op] \in {"Queued", "ActiveNotDispatched"}
                                   THEN "BeforeDispatch" ELSE proof[op]]
      /\ recon' = [op \in OpId |-> IF state[op] \in InFlight THEN "Auto" ELSE recon[op]]
      /\ link' = [g \in Generation |-> "Down"]
      /\ toHub' = [g \in Generation |-> << >>]
      /\ UNCHANGED <<agentState, registered, toAgent>>
    BY DEF HubCrash
<1>2. /\ ref' = ref /\ retired' = {} /\ recoveryReads' = {}
      /\ state' = [id \in OpId |-> SnapshotState(id)]
    BY <1>1 DEF AdmissionRestart, LedgerSound
<1>3. LedgerSound'
    BY <1>1, <1>2, RestartKeepsLedger DEF LedgerSound
<1>4. \A o \in OpId :
          state'[o] = IF state[o] \in {"Queued", "ActiveNotDispatched"} THEN "Cancelled"
                      ELSE IF state[o] \in InFlight THEN "Indeterminate" ELSE state[o]
    BY <1>2 DEF SnapshotState, LedgerSound
<1>5. ASSUME NEW o \in OpId PROVE HubMove(o)
    <2>1. CASE state[o] \in {"Queued", "ActiveNotDispatched"}
        BY <2>1, <1>1, <1>2, <1>4 DEF HubMove, Dropped, Unsent, Kept
    <2>2. CASE state[o] \in InFlight
        <3>1. ref[o].generation \in Generation /\ hub[ref[o].generation] # "None"
            BY <2>2, LedgerFacts DEF LoopsSound
        <3> QED BY <2>2, <3>1, <1>1, <1>2, <1>4 DEF HubMove, Quarantined
    <2>3. CASE state[o] \notin {"Queued", "ActiveNotDispatched"} \cup InFlight
        BY <2>3, <1>1, <1>2, <1>4 DEF HubMove, Stays, Kept
    <2> QED BY <2>1, <2>2, <2>3
<1>6. budget' \in [cancels : 0..MaxCancels, crashes : 0..MaxHubCrashes,
                   failures : 0..MaxStoreFailures]
    BY <1>1, BudgetSpent DEF SessionTypes
<1>7. Recedes
    BY <1>1, <1>6, NoFrame, EmptySeq DEF Recedes, SessionTypes
<1>8. LoopsAgree
    BY <1>1 DEF LoopsAgree
<1>9. proof' \in [OpId -> Proof] /\ recon' \in [OpId -> {"None", "Auto", "Gap", "Operator"}]
    BY <1>1 DEF Proof, SessionTypes
<1> QED BY <1>3, <1>5, <1>7, <1>8, <1>9, RecedesKeeps

-----------------------------------------------------------------------------
(* Connecting and sending *)

LEMMA AuthenticateKeeps ==
    ASSUME DeliveryIInv, HubAuthenticate
    PROVE  DeliveryIInv'
<1> USE DEF DeliveryIInv
<1> DEFINE g == registered + 1
           gone == Prunable(Desktop, g)
<1>1. /\ g \in Generation /\ registered' = g /\ hub' = [hub EXCEPT ![g] = "Accepted"]
      /\ link' = [x \in Generation |-> IF x = g THEN "Up" ELSE "Down"]
      /\ AdmissionPruneTerminalBeforeGeneration(Desktop, g)
      /\ UNCHANGED <<agentState, pending, dispatching, proof, recon, budget, toAgent, toHub>>
    BY DEF HubAuthenticate, settlement
<1>2. /\ gone \in SUBSET OpId /\ \A o \in gone : state[o] \in Terminal
      /\ state' = [o \in OpId |-> IF o \in gone THEN "Absent" ELSE state[o]]
      /\ ref' = [o \in OpId |-> IF o \in gone THEN NoRef ELSE ref[o]]
      /\ recoveryReads' = recoveryReads \ gone
      /\ UNCHANGED <<active, queue, blocked, retired>>
    BY <1>1 DEF AdmissionPruneTerminalBeforeGeneration, Prunable
<1>3. registered \in Nat /\ g \in Nat /\ g = registered + 1 /\ hub[g] = "None"
    <2>1. registered \in Nat
        BY AdmissionConstants DEF SessionTypes
    <2>2. hub[g] # "None" => g <= registered
        BY <1>1 DEF StreamsSound
    <2> QED BY <2>1, <2>2
<1> HIDE DEF gone, g
<1>4. /\ hub \in [Generation -> {"None", "Accepted", "Open", "Closing", "Ended"}]
      /\ pending \in [Generation -> SUBSET OpId]
      /\ dispatching \in [Generation -> OpId \cup {NoOp}]
    BY DEF SessionTypes
<1>5. LedgerSound'
    BY <1>2, ForgetKeepsLedger DEF LedgerSound
<1>6. \A o \in OpId : HubMove(o)
    <2>1. ASSUME NEW o \in OpId, o \in gone PROVE Pruned(o)
        BY <2>1, <1>1, <1>2 DEF Pruned
    <2>2. ASSUME NEW o \in OpId, o \notin gone PROVE Stays(o)
        BY <2>2, <1>1, <1>2 DEF Stays, Kept
    <2> QED BY <2>1, <2>2 DEF HubMove
<1>7. HubShifts
    <2>1. \A h \in Generation : /\ hub[h] # "None" => hub'[h] # "None"
                                /\ hub[h] = "Ended" => hub'[h] = "Ended"
        BY <1>1, <1>3, <1>4
    <2>2. \A h \in Generation : /\ Solo(toAgent'[h]) /\ Range(toHub'[h]) \subseteq Range(toHub[h])
                                /\ dispatching'[h] \in {NoOp, dispatching[h]}
        BY <1>1 DEF Tokens
    <2>3. \A o \in OpId, h \in Generation : Framed(o, h)' => Framed(o, h)
        BY <1>1 DEF Framed
    <2>4. ASSUME NEW h \in Generation, NEW o \in pending'[h]
          PROVE  o \in pending[h] /\ (state'[o] \in Unsettled \/ proof'[o] = "BeforeDispatch")
        <3>1. o \in pending[h] /\ o \in OpId
            BY <1>1, <1>4
        <3>2. state[o] \in Unsettled \/ proof[o] = "BeforeDispatch"
            BY <3>1 DEF LoopsSound
        <3> QED BY <3>1, <3>2, <1>1, <1>2
    <2> QED BY <2>1, <2>2, <2>3, <2>4, <1>1 DEF HubShifts
<1>8. /\ ReceiptsSound' /\ Tokens' /\ Truths' /\ EvidenceSound'
      /\ \A h \in Generation : \A op \in pending'[h] :
            \/ state'[op] \in Unsettled /\ ref'[op].generation = h
            \/ proof'[op] = "BeforeDispatch"
      /\ \A op \in OpId : state'[op] \in Unsettled => hub'[ref'[op].generation] # "None"
    BY <1>1, <1>4, <1>5, <1>6, <1>7, HubMovesKeep
<1>9. LoopsSound'
    <2>1. ASSUME NEW h \in Generation, dispatching[h] # NoOp
          PROVE  /\ hub'[h] = "Open" /\ active[Desktop] = dispatching[h]
                 /\ ref'[dispatching[h]].generation = h
        <3>1. /\ dispatching[h] \in OpId /\ hub[h] = "Open" /\ active[Desktop] = dispatching[h]
              /\ ref[dispatching[h]].generation = h /\ state[dispatching[h]] \in Running
            BY <2>1, DispatchingFacts
        <3> QED BY <3>1, <1>1, <1>2, <1>3, <1>4
    <2>2. \A h \in Generation : dispatching'[h] # NoOp =>
              /\ hub'[h] = "Open" /\ active'[Desktop] = dispatching'[h]
              /\ ref'[dispatching'[h]].generation = h
        BY <2>1, <1>1, <1>2
    <2> QED BY <2>2, <1>8 DEF LoopsSound
<1>10. StreamsSound'
    <2>1. disk' = disk
        BY <1>1 DEF agentState
    <2>2. disk.generation <= registered /\ disk.generation \in Nat
        BY AgentFacts, AdmissionConstants DEF StreamsSound
    <2>3. \A h \in Generation : hub'[h] # "None" => h <= g
        BY <1>1, <1>3, <1>4, AdmissionConstants DEF StreamsSound, Generation
    <2>4. \A h \in Generation : link'[h] = "Up" => h = g
        BY <1>1
    <2>5. disk'.generation <= g
        BY <2>1, <2>2, <1>3
    <2>6. \A h \in Generation : toHub'[h] # << >> => h <= disk'.generation
        BY <2>1, <1>1 DEF StreamsSound
    <2> HIDE DEF DeliveryIInv
    <2> QED BY <2>3, <2>4, <2>5, <2>6, <1>1 DEF StreamsSound
<1>11. SessionTypes'
    <2>1. registered' \in 0..MaxGeneration
        BY <1>1, AdmissionConstants DEF Generation
    <2>2. hub' \in [Generation -> {"None", "Accepted", "Open", "Closing", "Ended"}]
          /\ link' \in [Generation -> {"Up", "Down"}]
        BY <1>1, <1>4
    <2> QED BY <1>1, <2>1, <2>2 DEF SessionTypes
<1>12. Agents!AgentIInv'
    BY <1>1, AgentRests
<1> QED BY <1>5, <1>8, <1>9, <1>10, <1>11, <1>12

\* The command is handed to the transport: it is now in one frame, or lost.
LEMMA SendCommandKeeps ==
    ASSUME DeliveryIInv, NEW g \in Generation, HubSendCommand(g)
    PROVE  DeliveryIInv'
<1> USE DEF DeliveryIInv
<1> DEFINE op == dispatching[g]
           m == CommandOf(op)
<1>1. /\ op # NoOp /\ state[op] \in InFlight
      /\ dispatching' = [dispatching EXCEPT ![g] = NoOp]
      /\ UNCHANGED <<admissionVars, agentState, registered, hub, pending, settlement,
                     budget, link, toHub>>
      /\ toAgent' = IF link[g] = "Up" THEN [toAgent EXCEPT ![g] = Append(toAgent[g], m)]
                    ELSE toAgent
    BY DEF HubSendCommand, MayEnqueue, SendToAgent, CommandOf
<1>2. /\ op \in OpId /\ hub[g] = "Open" /\ active[Desktop] = op /\ ref[op].generation = g
      /\ Unsent(op)
    BY <1>1, DispatchingFacts
<1>3. ~ Seen(op) /\ \A h \in Generation : ~ Framed(op, h)
    BY <1>2 DEF Tokens
<1>4. /\ dispatching \in [Generation -> OpId \cup {NoOp}]
      /\ toAgent \in [Generation -> Seq(AgentFrame)]
    BY DEF SessionTypes
<1>5. /\ state' = state /\ ref' = ref /\ active' = active /\ queue' = queue /\ blocked' = blocked
      /\ retired' = retired /\ recoveryReads' = recoveryReads
      /\ proof' = proof /\ recon' = recon
      /\ process' = process /\ step' = step /\ gate' = gate /\ reply' = reply
      /\ journal' = journal /\ disk' = disk /\ started' = started /\ proved' = proved
    BY <1>1 DEF admissionVars, settlement, agentState
<1>6. CASE link[g] # "Up"
    <2>1. Recedes
        BY <1>1, <1>4, <1>6 DEF Recedes, SessionTypes
    <2>2. \A h \in Generation : dispatching'[h] # NoOp => hub'[h] = "Open"
        BY <1>1, <1>4 DEF LoopsSound
    <2> QED BY <1>1, <2>1, <2>2, SessionStepKeeps
<1>7. CASE link[g] = "Up"
    <2> HIDE DEF op
    <2>1. toAgent' = [toAgent EXCEPT ![g] = Append(toAgent[g], m)]
        BY <1>1, <1>7
    <2>2. m \in AgentFrame /\ m.type = "Command" /\ m \notin Range(toAgent[g])
        BY <1>2, <1>3 DEF CommandOf, AgentFrame, Framed
    <2>3. /\ Append(toAgent[g], m) \in Seq(AgentFrame) /\ Solo(Append(toAgent[g], m))
          /\ Range(Append(toAgent[g], m)) = Range(toAgent[g]) \cup {m}
        <3>1. toAgent[g] \in Seq(AgentFrame) /\ Solo(toAgent[g])
            BY <1>4 DEF Tokens
        <3> HIDE DEF m
        <3> QED BY <3>1, <2>2, AppendFrame, SoloAppend
    <2>4. SessionTypes'
        <3>1. toAgent' \in [Generation -> Seq(AgentFrame)]
              /\ dispatching' \in [Generation -> OpId \cup {NoOp}]
            BY <2>1, <2>3, <1>1, <1>4
        <3> QED BY <3>1, <1>1, <1>5 DEF SessionTypes
    <2>5. LedgerSound' /\ StreamsSound' /\ ReceiptsSound'
        BY <1>1, <1>5 DEF LedgerSound, AdmissionIInv, StreamsSound, ReceiptsSound
    <2>6. Truths' /\ EvidenceSound'
        BY <1>1, <1>5 DEF Truths, EvidenceSound, Established
    <2>7. Agents!AgentIInv'
        BY <1>1, AgentRests
    <2>8. LoopsSound'
        BY <1>1, <1>4, <1>5 DEF LoopsSound
    <2>9. \A o : (Seen(o)' <=> Seen(o)) /\ (Done(o)' <=> Done(o)) /\ (Open(o)' <=> Open(o))
        BY <1>1, <1>5 DEF Seen, Done, Open, Reported, Acknowledged
    <2>10. ASSUME NEW o \in OpId, NEW h \in Generation, Framed(o, h)'
           PROVE  Framed(o, h) \/ (o = op /\ h = g)
        BY <2>10, <2>1, <2>3, <1>4 DEF Framed, CommandOf
    <2>11. ASSUME NEW o \in OpId, Unsent(o)' \/ proof'[o] \in {"BeforeDispatch", "NotDelivered"}
           PROVE  o # op /\ (Unsent(o) \/ proof[o] \in {"BeforeDispatch", "NotDelivered"})
        <3>1. ASSUME NEW h \in Generation, dispatching'[h] = o PROVE dispatching[h] = o /\ o # op
            <4>1. h # g /\ dispatching[h] = o
                BY <3>1, <1>1, <1>4, AdmissionConstants
            <4>2. ref[o].generation = h
                BY <4>1, DispatchingFacts, AdmissionConstants
            <4> QED BY <4>1, <4>2, <1>2
        <3>2. proof[op] = "None"
            BY <1>1, <1>2 DEF ReceiptsSound
        <3> QED BY <2>11, <3>1, <3>2, <1>1, <1>5 DEF Unsent
    <2>12. Tokens'
        <3>1. \A h \in Generation : Solo(toAgent'[h])
            BY <2>1, <2>3, <1>4 DEF Tokens
        <3>2. ASSUME NEW o \in OpId, NEW h \in Generation, Framed(o, h)'
              PROVE  Open(o)' /\ ref'[o].generation = h /\ ~ Seen(o)'
            <4>1. CASE Framed(o, h)
                BY <4>1, <2>9, <1>5 DEF Tokens
            <4>2. CASE o = op /\ h = g
                BY <4>2, <1>1, <1>2, <1>3, <2>9, <1>5 DEF Open
            <4> QED BY <3>2, <2>10, <4>1, <4>2
        <3>3. ASSUME NEW o \in OpId, Unsent(o)' \/ proof'[o] \in {"BeforeDispatch", "NotDelivered"}
              PROVE  ~ Seen(o)' /\ \A h \in Generation : ~ Framed(o, h)'
            BY <3>3, <2>9, <2>10, <2>11 DEF Tokens
        <3>4. /\ \A o \in OpId : gate'.active = o =>
                    Open(o)' /\ ref'[o].generation = disk'.generation /\ ~ Done(o)'
              /\ step' = "Begun" => \A h \in Generation : started'[gate'.active][h] = 0
              /\ \A o \in OpId : \A a, b \in Generation :
                    started'[o][a] # 0 /\ started'[o][b] # 0 => a = b
            BY <1>5, <2>9 DEF Tokens
        <3> QED BY <3>1, <3>2, <3>3, <3>4 DEF Tokens
    <2> QED BY <2>4, <2>5, <2>6, <2>7, <2>8, <2>12
<1> QED BY <1>6, <1>7

-----------------------------------------------------------------------------
(* What a step of the Agent does to the operations *)

\* The Agent touches nothing of the Hub.
HubRests == UNCHANGED <<admissionVars, registered, hub, pending, dispatching, proof, recon, budget>>

\* What it may do to the transport: read frames, lose the stream, and answer on
\* a stream of its checkpoint's generation.
AgentShifts ==
    /\ link' \in [Generation -> {"Up", "Down"}]
    /\ toAgent' \in [Generation -> Seq(AgentFrame)]
    /\ toHub' \in [Generation -> Seq(HubFrame)]
    /\ \A g \in Generation : link'[g] = "Up" => link[g] = "Up"
    /\ \A g \in Generation : Solo(toAgent'[g]) /\ Range(toAgent'[g]) \subseteq Range(toAgent[g])
    /\ disk.generation <= disk'.generation /\ disk'.generation <= registered
    /\ \A g \in Generation : toHub'[g] # << >> => g <= disk'.generation

\* What it may do to an operation: take it from its frame, hold it, be done
\* with it; and what it says of it is established.
AgentMoves ==
    /\ \A op \in OpId : Seen(op)' =>
          Seen(op) \/ ((\E g \in Generation : Framed(op, g)) /\ \A g \in Generation : ~ Framed(op, g)')
    /\ \A op \in OpId : gate'.active = op =>
          Open(op) /\ ref[op].generation = disk'.generation /\ ~ Done(op)'
    /\ step' = "Begun" => \A g \in Generation : started'[gate'.active][g] = 0
    /\ \A op \in OpId : \A g, h \in Generation :
          started'[op][g] # 0 /\ started'[op][h] # 0 => g = h
    /\ \A op \in OpId, g \in Generation : proved[op][g] \subseteq proved'[op][g]
    /\ reply'.outcome \in Agent!Results => Established(reply.op, reply.outcome)'
    /\ \A g \in Generation : \A m \in Range(toHub'[g]) :
          /\ m.type = "Result" /\ m.outcome \in Agent!Results => Established(m.op, m.outcome)'
          /\ m.type = "Report" => \A i \in DOMAIN m.evidence :
                Established(m.evidence[i].op, m.evidence[i].outcome)'
    /\ journal' = IF process' = "Down" THEN << >> ELSE disk'.journal
    /\ \A e \in Range(disk'.journal) :
          \/ e \in Range(disk.journal)
          \/ e.op \in OpId /\ e.op = gate.active /\ e.generation = disk.generation
    /\ \A g \in Generation : \A m \in Range(toHub'[g]) :
          m.type = "Report" => \/ m \in Range(toHub[g])
                               \/ Agent!JournalIds(m.evidence) = Agent!JournalIds(disk'.journal)

\* What is in a journal, in two words.
LEMMA JournalHolds ==
    ASSUME NEW j
    PROVE  \A op : op \in Agent!JournalIds(j) <=> \E e \in Range(j) : e.op = op
BY DEF Agent!JournalIds, Range

LEMMA AgentMovesKeep ==
    ASSUME DeliveryIInv, HubRests, AgentShifts, AgentMoves, Agents!AgentIInv'
    PROVE  DeliveryIInv'
<1> USE DEF DeliveryIInv
<1>1. /\ state' = state /\ ref' = ref /\ active' = active /\ queue' = queue /\ blocked' = blocked
      /\ retired' = retired /\ recoveryReads' = recoveryReads
      /\ registered' = registered /\ hub' = hub /\ pending' = pending
      /\ dispatching' = dispatching /\ proof' = proof /\ recon' = recon /\ budget' = budget
    BY DEF HubRests, admissionVars
<1>2. SessionTypes'
    BY <1>1 DEF SessionTypes, AgentShifts
<1>3. LedgerSound' /\ LoopsSound' /\ ReceiptsSound'
    BY <1>1 DEF LedgerSound, AdmissionIInv, LoopsSound, ReceiptsSound
<1>4. StreamsSound'
    <2>1. \A g \in Generation : link'[g] = "Up" => g = registered'
        BY <1>1 DEF StreamsSound, AgentShifts
    <2>2. \A g \in Generation : hub'[g] # "None" => g <= registered'
        BY <1>1 DEF StreamsSound
    <2>3. /\ disk'.generation <= registered'
          /\ \A g \in Generation : toHub'[g] # << >> => g <= disk'.generation
        BY <1>1 DEF AgentShifts
    <2> QED BY <2>1, <2>2, <2>3 DEF StreamsSound
<1>5. \A op \in OpId, g \in Generation : Framed(op, g)' => Framed(op, g)
    BY DEF AgentShifts, Framed
<1>6. \A op : (Unsent(op)' <=> Unsent(op)) /\ (Open(op)' <=> Open(op))
    BY <1>1 DEF Unsent, Open
<1>7. Tokens'
    <2>1. \A g \in Generation : Solo(toAgent'[g])
        BY DEF AgentShifts
    <2>2. ASSUME NEW op \in OpId, NEW g \in Generation, Framed(op, g)'
          PROVE  Open(op)' /\ ref'[op].generation = g /\ ~ Seen(op)'
        <3>1. Open(op) /\ ref[op].generation = g /\ ~ Seen(op)
            BY <2>2, <1>5 DEF Tokens
        <3> QED BY <2>2, <3>1, <1>1, <1>6 DEF AgentMoves
    <2>3. ASSUME NEW op \in OpId, Unsent(op)' \/ proof'[op] \in {"BeforeDispatch", "NotDelivered"}
          PROVE  ~ Seen(op)' /\ \A g \in Generation : ~ Framed(op, g)'
        <3>1. ~ Seen(op) /\ \A g \in Generation : ~ Framed(op, g)
            BY <2>3, <1>1, <1>6 DEF Tokens
        <3> QED BY <3>1, <1>5 DEF AgentMoves
    <2>4. \A op \in OpId : gate'.active = op =>
              Open(op)' /\ ref'[op].generation = disk'.generation /\ ~ Done(op)'
        BY <1>1, <1>6 DEF AgentMoves
    <2>5. /\ step' = "Begun" => \A g \in Generation : started'[gate'.active][g] = 0
          /\ \A op \in OpId : \A g, h \in Generation :
                started'[op][g] # 0 /\ started'[op][h] # 0 => g = h
        BY DEF AgentMoves
    <2> QED BY <2>1, <2>2, <2>3, <2>4, <2>5 DEF Tokens
<1>8. Truths'
    <2>1. ASSUME NEW op \in OpId, state'[op] \in Terminal, proof'[op] \in {"Result", "Reconciled"}
          PROVE  Established(op, state[op])'
        <3>1. Established(op, state[op])
            BY <2>1, <1>1 DEF Truths
        <3> QED BY <3>1, <1>1 DEF Established, AgentMoves
    <2> QED BY <2>1 DEF Truths, AgentMoves
<1>9. EvidenceSound'
    <2>1. /\ disk.generation \in Nat /\ disk'.generation \in Nat /\ disk.generation <= disk'.generation
          /\ \A op \in OpId : state[op] # "Absent" => ref[op].generation \in Nat
          /\ \A g \in Generation : g \in Nat
        <3>1. disk.generation \in Nat
            BY AgentFacts, AdmissionConstants
        <3>2. disk'.generation \in Nat
            <4>1. disk'.generation \in 0..MaxGeneration
                BY DEF Agents!AgentIInv, Agents!AgentTypeOK
            <4> QED BY <4>1, AdmissionConstants
        <3> QED BY <3>1, <3>2, LedgerFacts, AdmissionConstants DEF AgentShifts, Generation
    <2>2. \A op \in OpId : gate.active = op => Open(op) /\ ref[op].generation = disk.generation
        BY DEF Tokens
    <2>3. ASSUME NEW e \in Range(disk'.journal), state'[e.op] # "Absent"
          PROVE  ref'[e.op].generation = e.generation
        <3>1. CASE e \in Range(disk.journal)
            BY <2>3, <3>1, <1>1 DEF EvidenceSound
        <3>2. CASE e.op \in OpId /\ e.op = gate.active /\ e.generation = disk.generation
            BY <3>2, <2>2, <1>1
        <3> QED BY <3>1, <3>2 DEF AgentMoves
    <2>4. ASSUME NEW g \in Generation, NEW m \in Range(toHub'[g]), m.type = "Report",
                 NEW e \in Range(disk'.journal), e.generation < g
          PROVE  e.op \in Agent!JournalIds(m.evidence)
        <3>1. CASE Agent!JournalIds(m.evidence) = Agent!JournalIds(disk'.journal)
            BY <3>1, JournalHolds
        <3>2. CASE m \in Range(toHub[g])
            <4>1. toHub[g] # << >>
                BY <3>2, NoFrame
            <4>2. g <= disk.generation
                BY <4>1 DEF StreamsSound
            <4>3. e \in Range(disk.journal)
                BY <2>1, <2>4, <4>2 DEF AgentMoves
            <4> QED BY <2>4, <3>2, <4>3 DEF EvidenceSound
        <3> QED BY <2>4, <3>1, <3>2 DEF AgentMoves
    <2>5. ASSUME NEW op \in OpId, recon'[op] = "Gap"
          PROVE  op \notin Agent!JournalIds(disk'.journal) /\ ref'[op].generation < disk'.generation
        <3>1. /\ op \notin Agent!JournalIds(disk.journal) /\ ref[op].generation < disk.generation
              /\ state[op] = "Indeterminate"
            BY <2>5, <1>1 DEF EvidenceSound, ReceiptsSound
        <3>2. ASSUME NEW e \in Range(disk'.journal), e.op = op PROVE FALSE
            <4>1. e \notin Range(disk.journal)
                BY <3>1, <3>2, JournalHolds
            <4>2. op = gate.active
                BY <3>2, <4>1 DEF AgentMoves
            <4> QED BY <4>2, <3>1, <2>1, <2>2
        <3> QED BY <3>1, <3>2, <2>1, <1>1, JournalHolds
    <2>6. journal' = IF process' = "Down" THEN << >> ELSE disk'.journal
        BY DEF AgentMoves
    <2> QED BY <2>3, <2>4, <2>5, <2>6 DEF EvidenceSound
<1> QED BY <1>2, <1>3, <1>4, <1>7, <1>8, <1>9

\* The Agent's end of the transport.
Follows ==
    /\ link' \in [Generation -> {"Up", "Down"}]
    /\ toAgent' \in [Generation -> Seq(AgentFrame)]
    /\ \A g \in Generation : link'[g] = "Up" => link[g] = "Up"
    /\ \A g \in Generation : Solo(toAgent'[g]) /\ Range(toAgent'[g]) \subseteq Range(toAgent[g])

LEMMA UnreadFollows ==
    ASSUME DeliveryIInv, LinkFollowsAgent(toAgent)
    PROVE  Follows
<1>1. /\ link \in [Generation -> {"Up", "Down"}] /\ toAgent \in [Generation -> Seq(AgentFrame)]
      /\ \A g \in Generation : Solo(toAgent[g])
    BY DEF DeliveryIInv, SessionTypes, Tokens
<1>2. CASE link' = link /\ toAgent' = toAgent
    BY <1>1, <1>2 DEF Follows
<1>3. CASE /\ link' = [g \in Generation |-> "Down"]
           /\ toAgent' = [g \in Generation |-> << >>]
    BY <1>3, NoFrame, EmptySeq DEF Follows
<1> QED BY <1>2, <1>3 DEF LinkFollowsAgent

\* Reading a command removes its one frame.
LEMMA ReadFollows ==
    ASSUME DeliveryIInv, NEW type, NEW op, AgentReceives(type, op),
           LinkFollowsAgent([toAgent EXCEPT ![session] = Tail(@)])
    PROVE  /\ Follows /\ session \in Generation /\ process = "Session"
           /\ [type |-> type, op |-> op] \in AgentFrame
           /\ type = "Command" =>
                 op \in OpId /\ Framed(op, session) /\ \A g \in Generation : ~ Framed(op, g)'
<1>1. /\ link \in [Generation -> {"Up", "Down"}] /\ toAgent \in [Generation -> Seq(AgentFrame)]
      /\ \A g \in Generation : Solo(toAgent[g])
    BY DEF DeliveryIInv, SessionTypes, Tokens
<1>2. /\ process = "Session" /\ session \in Generation /\ toAgent[session] # << >>
      /\ Head(toAgent[session]) = [type |-> type, op |-> op]
    BY AgentFacts DEF AgentReceives, DeliveryIInv
<1>3. /\ Tail(toAgent[session]) \in Seq(AgentFrame) /\ Solo(Tail(toAgent[session]))
      /\ Range(Tail(toAgent[session])) \subseteq Range(toAgent[session])
      /\ Head(toAgent[session]) \in Range(toAgent[session]) /\ Head(toAgent[session]) \in AgentFrame
      /\ Head(toAgent[session]).type = "Command" =>
            Head(toAgent[session]) \notin Range(Tail(toAgent[session]))
    BY <1>1, <1>2, TakeFrame, SoloTake
<1>4. CASE link' = link /\ toAgent' = [toAgent EXCEPT ![session] = Tail(toAgent[session])]
    <2>1. Follows /\ toAgent'[session] = Tail(toAgent[session])
        BY <1>1, <1>2, <1>3, <1>4 DEF Follows
    <2>2. type = "Command" =>
             op \in OpId /\ Framed(op, session) /\ \A g \in Generation : g = session => ~ Framed(op, g)'
        BY <1>2, <1>3, <2>1 DEF CommandOf, AgentFrame, Framed
    <2>3. ASSUME type = "Command", NEW g \in Generation, Framed(op, g)' PROVE FALSE
        <3>1. Framed(op, g)
            BY <2>1, <2>3 DEF Follows, Framed
        <3>2. ref[op].generation = g /\ ref[op].generation = session
            BY <3>1, <2>2, <2>3, <1>2 DEF DeliveryIInv, Tokens
        <3> QED BY <3>2, <2>2, <2>3
    <2> QED BY <1>2, <1>3, <2>1, <2>2, <2>3
<1>5. CASE /\ link' = [g \in Generation |-> "Down"]
           /\ toAgent' = [g \in Generation |-> << >>]
    <2>1. Follows
        BY <1>5, NoFrame, EmptySeq DEF Follows
    <2>2. \A g \in Generation : Range(toAgent'[g]) = {}
        BY <1>5, NoFrame
    <2>3. type = "Command" => op \in OpId /\ Framed(op, session)
        BY <1>2, <1>3 DEF CommandOf, AgentFrame, Framed
    <2>4. \A g \in Generation : ~ Framed(op, g)'
        BY <2>2 DEF Framed
    <2> QED BY <1>2, <1>3, <2>1, <2>3, <2>4
<1> QED BY <1>4, <1>5 DEF LinkFollowsAgent

\* What the Agent says in answer: the outcome it settled, or that it cancels.
Says(m) ==
    /\ m \in HubFrame
    /\ \/ /\ m.type \in {"Result", "IndeterminateAck"}
          /\ m.op = reply.op /\ m.outcome = reply.outcome
       \/ m.type = "CancellationAck" /\ m.op = gate.active

\* A step that takes no command: it forgets, or settles the operation it holds.
AgentEffect ==
    /\ \/ gate'.active = NoOp
       \/ gate'.active = gate.active /\ disk' = disk /\ reply' \in {reply, Agent!NoReply}
    /\ gate'.terminal \subseteq gate.terminal \cup disk.terminal \cup {gate.active}
    /\ disk'.generation = disk.generation
    /\ disk'.terminal \subseteq gate.terminal \cup disk.terminal \cup {gate.active}
    /\ \A e \in Range(disk'.journal) :
          \/ e \in Range(disk.journal)
          \/ e.op \in OpId /\ e.op = gate.active /\ e.generation = disk.generation
    /\ journal' = IF process' = "Down" THEN << >> ELSE disk'.journal
    /\ \/ reply' \in {reply, Agent!NoReply}
       \/ /\ reply'.op = gate.active
          /\ reply'.outcome \in Agent!Results => Established(reply.op, reply.outcome)'
    /\ \A op \in OpId, g \in Generation : proved[op][g] \subseteq proved'[op][g]
    /\ \A op \in OpId, g \in Generation : started'[op][g] # 0 =>
          started[op][g] # 0 \/ (op = gate.active /\ step = "Begun" /\ g = session)
    /\ step' = "Begun" => step = "Begun" /\ gate'.active = gate.active /\ started' = started
    /\ \/ toHub' = toHub
       \/ /\ process = "Session"
          /\ \E m : Says(m) /\ toHub' = [toHub EXCEPT ![session] = Append(@, m)]

\* What was established stays so.
LEMMA StillEstablished ==
    ASSUME \A op \in OpId, g \in Generation : proved[op][g] \subseteq proved'[op][g],
           NEW op \in OpId, NEW outcome, Established(op, outcome)
    PROVE  Established(op, outcome)'
BY DEF Established

LEMMA EffectMoves ==
    ASSUME DeliveryIInv, HubRests, Follows, AgentEffect, Agents!AgentIInv'
    PROVE  DeliveryIInv'
<1> USE DEF DeliveryIInv
<1>1. toHub \in [Generation -> Seq(HubFrame)]
    BY DEF SessionTypes
<1>2. /\ gate.active \in OpId \cup {NoOp} /\ disk.generation \in Nat
      /\ process = "Session" => session \in Generation /\ session = disk.generation
      /\ reply \in [op : OpId, outcome : Agent!Outcome] \cup {Agent!NoReply}
      /\ \A g \in Generation : g \in Nat
    BY AgentFacts, AdmissionConstants DEF Generation
<1>3. /\ toHub' \in [Generation -> Seq(HubFrame)]
      /\ \A g \in Generation : toHub'[g] # << >> => g <= disk.generation
      /\ \A g \in Generation : \A m \in Range(toHub'[g]) : m \in Range(toHub[g]) \/ Says(m)
    <2>1. CASE toHub' = toHub
        BY <2>1, <1>1 DEF StreamsSound
    <2>2. CASE toHub' # toHub
        <3>1. PICK m : Says(m) /\ toHub' = [toHub EXCEPT ![session] = Append(toHub[session], m)]
            BY <2>2 DEF AgentEffect
        <3>2. session \in Generation /\ session = disk.generation /\ m \in HubFrame
            BY <1>2, <2>2, <3>1 DEF AgentEffect, Says
        <3>3. /\ Append(toHub[session], m) \in Seq(HubFrame)
              /\ Range(Append(toHub[session], m)) = Range(toHub[session]) \cup {m}
            BY <1>1, <3>2, AppendFrame
        <3>4. toHub' \in [Generation -> Seq(HubFrame)]
            BY <1>1, <3>1, <3>2, <3>3
        <3>5. \A g \in Generation : g # session => toHub'[g] = toHub[g]
            BY <1>1, <3>1
        <3>6. \A g \in Generation : toHub'[g] # << >> => g <= disk.generation
            BY <3>2, <3>5, <1>2 DEF StreamsSound
        <3>7. \A g \in Generation : \A x \in Range(toHub'[g]) : x \in Range(toHub[g]) \/ Says(x)
            BY <1>1, <3>1, <3>2, <3>3, <3>5
        <3> QED BY <3>4, <3>6, <3>7
    <2> QED BY <2>1, <2>2
<1>4. AgentShifts
    <2>1. disk.generation <= disk'.generation /\ disk'.generation <= registered
        BY <1>2 DEF AgentEffect, StreamsSound
    <2>2. \A g \in Generation : toHub'[g] # << >> => g <= disk'.generation
        BY <1>3 DEF AgentEffect
    <2> QED BY <1>3, <2>1, <2>2 DEF AgentShifts, Follows
<1>5. ASSUME NEW op \in OpId
      PROVE  /\ Reported(op)' => Reported(op) \/ reply.op = op
             /\ Acknowledged(op)' => Acknowledged(op) \/ gate.active = op
    <2>1. ASSUME NEW g \in Generation, NEW m \in Range(toHub'[g]),
                 IF m.type = "Report" THEN op \in Agent!JournalIds(m.evidence)
                 ELSE m.type # "CancellationAck" /\ m.op = op
          PROVE  Reported(op) \/ reply.op = op
        <3>1. CASE m \in Range(toHub[g])
            BY <2>1, <3>1 DEF Reported
        <3>2. CASE Says(m)
            BY <2>1, <3>2 DEF Says
        <3> QED BY <1>3, <3>1, <3>2
    <2>2. ASSUME NEW g \in Generation, NEW m \in Range(toHub'[g]),
                 m.type = "CancellationAck" /\ m.op = op
          PROVE  Acknowledged(op) \/ gate.active = op
        <3>1. CASE m \in Range(toHub[g])
            BY <2>2, <3>1 DEF Acknowledged
        <3>2. CASE Says(m)
            BY <2>2, <3>2 DEF Says
        <3> QED BY <1>3, <3>1, <3>2
    <2> QED BY <2>1, <2>2 DEF Reported, Acknowledged
<1>6. Agent!NoReply.op = NoOp /\ Agent!NoReply.outcome = "None" /\ NoOp \notin OpId
    BY AdmissionConstants DEF Agent!NoReply
<1>7. ASSUME NEW op \in OpId
      PROVE  Done(op)' => Done(op) \/ (op = gate.active /\ gate'.active = NoOp)
    <2>1. op \in Agent!JournalIds(disk'.journal) =>
              op \in Agent!JournalIds(disk.journal) \/ (op = gate.active /\ gate'.active = NoOp)
        <3>1. CASE disk' = disk
            BY <3>1
        <3>2. CASE disk' # disk
            <4>1. gate'.active = NoOp
                BY <3>2 DEF AgentEffect
            <4> QED BY <4>1, JournalHolds DEF AgentEffect
        <3> QED BY <3>1, <3>2
    <2>2. reply'.op = op => reply.op = op \/ (op = gate.active /\ gate'.active = NoOp)
        BY <1>6 DEF AgentEffect
    <2> QED BY <2>1, <2>2, <1>5 DEF Done
<1>8. ASSUME NEW op \in OpId, Seen(op)' PROVE Seen(op)
    <2>1. CASE Done(op)'
        BY <2>1, <1>7 DEF Seen
    <2>2. CASE Acknowledged(op)'
        BY <2>2, <1>5 DEF Seen
    <2>3. CASE op \in gate'.terminal \cup disk'.terminal \cup {gate'.active}
        BY <2>3, <1>6 DEF Seen, AgentEffect
    <2>4. CASE \E g \in Generation : started'[op][g] # 0
        BY <2>4 DEF Seen, AgentEffect
    <2> QED BY <1>8, <2>1, <2>2, <2>3, <2>4 DEF Seen
<1>9. ASSUME NEW op \in OpId, gate'.active = op
      PROVE  Open(op) /\ ref[op].generation = disk'.generation /\ ~ Done(op)'
    <2>1. gate.active = op /\ gate'.active # NoOp
        BY <1>9, <1>6 DEF AgentEffect
    <2>2. Open(op) /\ ref[op].generation = disk.generation /\ ~ Done(op)
        BY <2>1 DEF Tokens
    <2> QED BY <2>1, <2>2, <1>7 DEF AgentEffect
<1>10. step' = "Begun" => \A g \in Generation : started'[gate'.active][g] = 0
    BY DEF AgentEffect, Tokens
<1>11. ASSUME NEW op \in OpId, NEW g \in Generation, NEW h \in Generation,
              started'[op][g] # 0, started'[op][h] # 0
       PROVE  g = h
    <2>1. step = "Begun" /\ op = gate.active => \A x \in Generation : started[op][x] = 0
        BY DEF Tokens
    <2> QED BY <1>11, <2>1 DEF AgentEffect, Tokens
<1>12. reply'.outcome \in Agent!Results => Established(reply.op, reply.outcome)'
    <2>1. CASE reply' = Agent!NoReply
        BY <2>1, <1>6 DEF Agent!Results
    <2>2. CASE reply' = reply
        <3>1. reply.outcome \in Agent!Results => reply.op \in OpId
            BY <1>2, <1>6 DEF Agent!Results
        <3>2. reply.outcome \in Agent!Results => Established(reply.op, reply.outcome)
            BY DEF Truths
        <3> QED BY <2>2, <3>1, <3>2 DEF Established, AgentEffect
    <2> QED BY <2>1, <2>2 DEF AgentEffect
<1>13. ASSUME NEW g \in Generation, NEW m \in Range(toHub'[g])
       PROVE  /\ m.type = "Result" /\ m.outcome \in Agent!Results => Established(m.op, m.outcome)'
              /\ m.type = "Report" => m \in Range(toHub[g]) /\ \A i \in DOMAIN m.evidence :
                    Established(m.evidence[i].op, m.evidence[i].outcome)'
    <2>1. m \in HubFrame
        BY <1>3, FrameTypes
    <2>2. \A op \in OpId : \A outcome : Established(op, outcome) => Established(op, outcome)'
        BY StillEstablished DEF AgentEffect
    <2>3. CASE Says(m)
        <3>1. m.type = "Result" => m.op = reply.op /\ m.outcome = reply.outcome /\ m.op \in OpId
            BY <2>1, <2>3, MessageFields DEF Says
        <3>2. reply.outcome \in Agent!Results => Established(reply.op, reply.outcome)
            BY DEF Truths
        <3> QED BY <2>2, <2>3, <3>1, <3>2 DEF Says
    <2>4. CASE m \in Range(toHub[g])
        <3>1. m.type = "Result" => m.op \in OpId
            BY <2>1, MessageFields
        <3>2. m.type = "Report" => \A i \in DOMAIN m.evidence : m.evidence[i].op \in OpId
            <4>1. ASSUME m.type = "Report" PROVE m.evidence \in Seq(Agent!Evidence)
                BY <2>1, <4>1, MessageFields
            <4>2. ASSUME m.type = "Report", NEW i \in DOMAIN m.evidence PROVE m.evidence[i] \in Agent!Evidence
                BY <4>1, <4>2, FrameTypes DEF Range
            <4> QED BY <4>2 DEF Agent!Evidence
        <3> QED BY <2>2, <2>4, <3>1, <3>2 DEF Truths
    <2> QED BY <1>3, <2>3, <2>4
<1>14. AgentMoves
    BY <1>8, <1>9, <1>10, <1>11, <1>12, <1>13 DEF AgentMoves, AgentEffect
<1> QED BY <1>4, <1>14, AgentMovesKeep

\* The Agent's own invariant holds over the Agent's own steps.
LEMMA AgentStepKeeps ==
    ASSUME Agents!AgentIInv, Agent!AgentNext
    PROVE  Agents!AgentIInv'
<1>1. /\ NoOp \notin OpId /\ BackendOps \subseteq OpId /\ {} \subseteq OpId
      /\ MaxGeneration \in Nat /\ MaxJournal \in Nat \ {0}
    BY AdmissionConstants, DeliveryConstants
<1> USE DEF Agent!NoReply, Agents!NoReply, Agent!NoGate, Agents!NoGate,
           Agent!Results, Agents!Results, Agent!Receipts, Agents!Receipts,
           Agent!Ambiguous, Agents!Ambiguous, Agent!Outcome, Agents!Outcome,
           Agent!InLoop, Agents!InLoop, Agent!Finished, Agents!Finished,
           Agent!ProcessGone, Agents!ProcessGone, Agent!LeaveSession, Agents!LeaveSession,
           Agent!Snapshot, Agents!Snapshot, Agent!Finish, Agents!Finish
<1>2. Agent!AgentRestart => Agents!AgentRestart
    BY DEF Agent!AgentRestart, Agents!AgentRestart
<1>3. \A g : Agent!AgentConnect(g) => Agents!AgentConnect(g)
    BY DEF Agent!AgentConnect, Agents!AgentConnect, Agent!PrepareGeneration, Agents!PrepareGeneration
<1>4. \A op : Agent!AgentBegin(op) => Agents!AgentBegin(op)
    BY DEF Agent!AgentBegin, Agents!AgentBegin
<1>5. \A ending : Agent!EndSession(ending) => Agents!EndSession(ending)
    BY DEF Agent!EndSession, Agents!EndSession, Agent!CancelWorker, Agents!CancelWorker
<1>6. \A op : Agent!AgentRefuse(op) => Agents!AgentRefuse(op)
    BY <1>5 DEF Agent!AgentRefuse, Agents!AgentRefuse
<1>7. \A op : Agent!AgentCancelMismatch(op) => Agents!AgentCancelMismatch(op)
    BY <1>5 DEF Agent!AgentCancelMismatch, Agents!AgentCancelMismatch
<1>8. \A ending : Agent!AgentStreamEnds(ending) => Agents!AgentStreamEnds(ending)
    BY <1>5 DEF Agent!AgentStreamEnds, Agents!AgentStreamEnds
<1>9. \A op : Agent!AgentCancel(op) => Agents!AgentCancel(op)
    BY DEF Agent!AgentCancel, Agents!AgentCancel, Agent!CancelWorker, Agents!CancelWorker
<1>10. \A op, out : Agent!WorkerFinishes(op, out) => Agents!WorkerFinishes(op, out)
    BY DEF Agent!WorkerFinishes, Agents!WorkerFinishes, Agent!PossibleOutcomes,
           Agents!PossibleOutcomes, Agent!TerminalState, Agents!TerminalState
<1>11. \A op, out : Agent!RecordEvidence(op, out) = Agents!RecordEvidence(op, out)
    BY DEF Agent!RecordEvidence, Agents!RecordEvidence, Agent!TerminalState, Agents!TerminalState,
           Agent!JournalIds, Agents!JournalIds, Agent!LeavesEvidence, Agents!LeavesEvidence
<1>12. \A op, out : Agent!AgentSettle(op, out) => Agents!AgentSettle(op, out)
    BY <1>11 DEF Agent!AgentSettle, Agents!AgentSettle
<1>13. \A out : Agent!AgentComplete(out) => Agents!AgentComplete(out)
    BY <1>12 DEF Agent!AgentComplete, Agents!AgentComplete, Agent!WorkerTaken, Agents!WorkerTaken
<1>14. \A out : Agent!AgentCompleteReconnecting(out) => Agents!AgentCompleteReconnecting(out)
    BY <1>12 DEF Agent!AgentCompleteReconnecting, Agents!AgentCompleteReconnecting,
                 Agent!WorkerTaken, Agents!WorkerTaken
<1>15. Agent!AgentCompleteCancelled => Agents!AgentCompleteCancelled
    BY <1>12 DEF Agent!AgentCompleteCancelled, Agents!AgentCompleteCancelled,
                 Agent!WorkerTaken, Agents!WorkerTaken
<1>16. Agent!AgentDeny => Agents!AgentDeny
    BY <1>11 DEF Agent!AgentDeny, Agents!AgentDeny
<1>17. Agent!AgentSpawn => Agents!AgentSpawn
    BY DEF Agent!AgentSpawn, Agents!AgentSpawn
<1>18. Agent!AgentReceiptRejected => Agents!AgentReceiptRejected
    BY DEF Agent!AgentReceiptRejected, Agents!AgentReceiptRejected
<1>19. /\ Agent!AgentSend => Agents!AgentSend
       /\ Agent!AgentSendFails => Agents!AgentSendFails
    BY DEF Agent!AgentSend, Agents!AgentSend, Agent!AgentSendFails, Agents!AgentSendFails
<1>20. Agent!AgentTerminated => Agents!AgentTerminated
    BY <1>12 DEF Agent!AgentTerminated, Agents!AgentTerminated, Agent!WorkerTaken, Agents!WorkerTaken
<1>21. Agent!AgentTerminatedExit => Agents!AgentTerminatedExit
    BY <1>11 DEF Agent!AgentTerminatedExit, Agents!AgentTerminatedExit
<1>22. /\ Agent!AgentTerminationTimeout => Agents!AgentTerminationTimeout
       /\ Agent!AgentCrash => Agents!AgentCrash
    BY DEF Agent!AgentTerminationTimeout, Agents!AgentTerminationTimeout, Agent!AgentCrash, Agents!AgentCrash
<1>23. Agent!Outcome = Agents!Outcome /\ Agent!AgentGeneration = Agents!AgentGeneration
    BY DEF Agent!AgentGeneration, Agents!AgentGeneration
<1> HIDE DEF Agent!Outcome, Agents!Outcome
<1>24. Agents!AgentNext
    BY <1>2, <1>3, <1>4, <1>6, <1>7, <1>8, <1>9, <1>10, <1>13, <1>14, <1>15, <1>16, <1>17,
       <1>18, <1>19, <1>20, <1>21, <1>22, <1>23 DEF Agent!AgentNext, Agents!AgentNext
<1> QED BY <1>1, <1>24, Agents!NextKeepsInvariant

-----------------------------------------------------------------------------
(* The Agent's steps that take no command *)

\* The Agent keeps quiet, or answers.
Speaks ==
    \/ toHub' = toHub
    \/ /\ process = "Session"
       /\ \E m : Says(m) /\ toHub' = [toHub EXCEPT ![session] = Append(@, m)]

\* A process that is gone has forgotten.
LEMMA GoneEffect ==
    ASSUME DeliveryIInv, Agent!ProcessGone, UNCHANGED <<disk, started, proved>>, Speaks
    PROVE  AgentEffect
<1>1. /\ gate'.active = NoOp /\ gate'.terminal = {} /\ reply' = Agent!NoReply /\ journal' = << >>
      /\ process' = "Down" /\ step' = "Loop"
    BY DEF Agent!ProcessGone, Agent!NoGate
<1> QED BY <1>1 DEF AgentEffect, Speaks

\* A step of the loop that settles nothing.
LEMMA LoopEffect ==
    ASSUME DeliveryIInv, UNCHANGED <<gate, disk, journal, started>>,
           process # "Down", process' # "Down", reply' \in {reply, Agent!NoReply},
           \A op \in OpId, g \in Generation : proved[op][g] \subseteq proved'[op][g],
           step' = "Begun" => step = "Begun", Speaks
    PROVE  AgentEffect
<1>1. journal = disk.journal
    BY DEF DeliveryIInv, EvidenceSound
<1> QED BY <1>1 DEF AgentEffect, Speaks

LEMMA RestartEffect ==
    ASSUME DeliveryIInv, Agent!AgentRestart, toHub' = toHub
    PROVE  AgentEffect
<1>1. /\ gate'.active = NoOp /\ gate'.terminal = disk.terminal /\ process' = "Idle"
      /\ journal' = disk.journal /\ UNCHANGED <<step, reply, disk, started, proved>>
    BY DEF Agent!AgentRestart
<1>2. step # "Begun"
    BY AgentFacts DEF DeliveryIInv, Agent!AgentRestart
<1> QED BY <1>1, <1>2 DEF AgentEffect

\* The journal keeps what it had, or gets an entry of the operation.
LEMMA RecordHolds ==
    ASSUME Agents!AgentIInv, NEW op \in OpId, NEW out, session \in Generation
    PROVE  \A e \in Range(Agent!RecordEvidence(op, out)) :
              e \in Range(journal) \/ (e.op = op /\ e.generation = session)
<1>1. /\ NoOp \notin OpId /\ BackendOps \subseteq OpId /\ {} \subseteq OpId
      /\ MaxGeneration \in Nat /\ MaxJournal \in Nat \ {0}
    BY AdmissionConstants, DeliveryConstants
<1>2. Agents!AgentTypeOK /\ session \in Agents!AgentGeneration
    BY DEF Agents!AgentIInv, Agents!AgentGeneration, Generation
<1> DEFINE r == Agents!RecordEvidence(op, out)
<1>3. \A i \in DOMAIN r : (\E k \in DOMAIN journal : r[i] = journal[k])
                          \/ r[i] = [op |-> op, generation |-> session, outcome |-> Agents!TerminalState(out)]
    BY <1>1, <1>2, Agents!RecordFacts
<1>4. Agent!RecordEvidence(op, out) = r
    BY DEF Agent!RecordEvidence, Agents!RecordEvidence, Agent!TerminalState, Agents!TerminalState,
           Agent!JournalIds, Agents!JournalIds, Agent!Results, Agents!Results,
           Agent!LeavesEvidence, Agents!LeavesEvidence
<1> HIDE DEF r
<1> QED BY <1>3, <1>4 DEF Range

\* The operation is settled: what every settlement has in common.
LEMMA SettleEffect ==
    ASSUME DeliveryIInv, process = "Session", NEW op \in OpId, gate.active = op, NEW out,
           disk' = Agent!Snapshot(Agent!Finish(op), Agent!RecordEvidence(op, out)),
           gate' \in {Agent!Finish(op), Agent!NoGate},
           journal' = IF process' = "Down" THEN << >> ELSE disk'.journal,
           \/ reply' \in {reply, Agent!NoReply}
           \/ reply'.op = op /\ (reply'.outcome \in Agent!Results => Established(reply.op, reply.outcome)'),
           \A o \in OpId, g \in Generation : proved[o][g] \subseteq proved'[o][g],
           started' = started, step' # "Begun", toHub' = toHub
    PROVE  AgentEffect
<1>1. /\ session \in Generation /\ session = disk.generation /\ gate.generation = session
      /\ gate \in Agents!Gate
    BY AgentFacts DEF DeliveryIInv, Agents!AgentIInv, Agents!AgentTypeOK
<1> DEFINE done == Agent!Finish(op)
<1>2. /\ done.active = NoOp /\ done.terminal = gate.terminal \cup {op}
      /\ done.generation = gate.generation
    BY <1>1 DEF Agent!Finish, Agents!Gate
<1> HIDE DEF done
<1>3. /\ Agent!NoGate.active = NoOp /\ Agent!NoGate.terminal = {}
    BY DEF Agent!NoGate
<1>4. /\ gate'.active = NoOp /\ gate'.terminal \subseteq gate.terminal \cup {op}
    <2>1. gate' = done \/ gate' = Agent!NoGate
        BY DEF done
    <2> QED BY <2>1, <1>2, <1>3
<1>5. /\ disk'.generation = gate.generation /\ disk'.terminal \subseteq gate.terminal \cup {op}
      /\ disk'.journal = Agent!RecordEvidence(op, out)
    <2>1. disk' = Agent!Snapshot(done, Agent!RecordEvidence(op, out))
        BY DEF done
    <2> QED BY <2>1, <1>2 DEF Agent!Snapshot
<1>6. journal = disk.journal
    BY DEF DeliveryIInv, EvidenceSound
<1>7. \A e \in Range(disk'.journal) :
          e \in Range(disk.journal) \/ (e.op = op /\ e.generation = disk.generation)
    BY <1>1, <1>5, <1>6, RecordHolds DEF DeliveryIInv
<1> QED BY <1>1, <1>4, <1>5, <1>7 DEF AgentEffect

LEMMA DenyEffect ==
    ASSUME DeliveryIInv, Agent!AgentDeny, toHub' = toHub
    PROVE  AgentEffect
<1> DEFINE op == gate.active
<1>1. /\ process = "Session" /\ op \in OpId /\ session \in Generation
      /\ proved \in [OpId -> [Generation -> SUBSET Agent!Results]]
    BY AgentFacts DEF DeliveryIInv, Agent!AgentDeny
<1>2. /\ proved' = [proved EXCEPT ![op][session] = proved[op][session] \cup {"Failed"}]
      /\ reply' = [op |-> op, outcome |-> "Failed"]
      /\ process' = process /\ started' = started /\ step' = "Settled"
      /\ gate' = Agent!Finish(op) /\ journal' = Agent!RecordEvidence(op, "Failed")
      /\ disk' = Agent!Snapshot(gate', journal')
    BY DEF Agent!AgentDeny
<1>3. /\ \A o \in OpId, g \in Generation : proved[o][g] \subseteq proved'[o][g]
      /\ "Failed" \in proved'[op][session]
    BY <1>1, <1>2
<1>4. Established(reply.op, reply.outcome)'
    BY <1>1, <1>2, <1>3 DEF Established
<1>5. disk'.journal = journal' /\ disk' = Agent!Snapshot(Agent!Finish(op), Agent!RecordEvidence(op, "Failed"))
    BY <1>2 DEF Agent!Snapshot
<1> QED BY <1>1, <1>2, <1>3, <1>4, <1>5, SettleEffect

\* What the worker hands back is established, if it is a result.
LEMMA HandedBack ==
    ASSUME DeliveryIInv, running # NoOp
    PROVE  /\ process = "Session" /\ session \in Generation /\ running \in OpId
           /\ step # "Begun" /\ step # "Settled" /\ gate.active = running
           /\ worker[running] \in Agent!Results => Established(running, worker[running])
<1>1. /\ process = "Session" /\ session \in Generation /\ running \in OpId
      /\ step # "Begun" /\ step # "Settled"
    BY AgentFacts DEF DeliveryIInv
<1>2. gate.active = running
    BY <1>1, AgentFacts DEF DeliveryIInv, Agents!AgentIInv, Agents!AgentTypeOK, Agents!Steps
<1>3. ASSUME worker[running] \in Agent!Results PROVE worker[running] \in proved[running][session]
    BY <1>1, <1>3 DEF DeliveryIInv, Agents!AgentIInv, Agents!Witnessed, Agents!Outcome,
       Agents!Results, Agent!Results, Agents!TerminalState
<1> QED BY <1>1, <1>2, <1>3 DEF Established

LEMMA CompleteEffect ==
    ASSUME DeliveryIInv, toHub' = toHub, NEW out \in Agent!Outcome,
           \/ Agent!AgentComplete(out) \/ Agent!AgentCompleteReconnecting(out)
           \/ Agent!AgentCompleteCancelled
    PROVE  AgentEffect
<1>1. /\ running # NoOp /\ started' = started /\ proved' = proved
      /\ gate' = Agent!Finish(running) /\ process' # "Down" /\ step' # "Begun"
      /\ \E o : journal' = Agent!RecordEvidence(running, o) /\ disk' = Agent!Snapshot(gate', journal')
    <2>1. CASE Agent!AgentComplete(out) \/ Agent!AgentCompleteReconnecting(out)
        BY <2>1 DEF Agent!AgentComplete, Agent!AgentCompleteReconnecting, Agent!InLoop, Agent!Finished,
                    Agent!WorkerTaken, Agent!AgentSettle, Agent!LeaveSession
    <2>2. CASE Agent!AgentCompleteCancelled
        BY <2>2 DEF Agent!AgentCompleteCancelled, Agent!InLoop, Agent!Finished,
                    Agent!WorkerTaken, Agent!AgentSettle
    <2> QED BY <2>1, <2>2
<1>2. /\ process = "Session" /\ session \in Generation /\ running \in OpId
      /\ gate.active = running
      /\ worker[running] \in Agent!Results => Established(running, worker[running])
    BY <1>1, HandedBack
<1>3. \/ reply' \in {reply, Agent!NoReply}
      \/ reply'.op = running /\ (reply'.outcome \in Agent!Results => Established(reply.op, reply.outcome)')
    <2>1. CASE Agent!AgentComplete(out)
        <3>1. reply' = [op |-> running, outcome |-> out] /\ worker[running] = out
            BY <2>1 DEF Agent!AgentComplete, Agent!Finished
        <3> QED BY <3>1, <1>1, <1>2 DEF Established
    <2>2. CASE Agent!AgentCompleteReconnecting(out) \/ Agent!AgentCompleteCancelled
        BY <2>2 DEF Agent!AgentCompleteReconnecting, Agent!AgentCompleteCancelled
    <2> QED BY <2>1, <2>2
<1>4. PICK o : journal' = Agent!RecordEvidence(running, o) /\ disk' = Agent!Snapshot(gate', journal')
    BY <1>1
<1>5. disk'.journal = journal' /\ disk' = Agent!Snapshot(Agent!Finish(running), Agent!RecordEvidence(running, o))
    BY <1>1, <1>4 DEF Agent!Snapshot
<1> QED BY <1>1, <1>2, <1>3, <1>5, SettleEffect

LEMMA TerminatedEffect ==
    ASSUME DeliveryIInv, toHub' = toHub, Agent!AgentTerminated \/ Agent!AgentTerminatedExit
    PROVE  AgentEffect
<1>1. /\ running # NoOp /\ started' = started /\ proved' = proved /\ step' # "Begun"
    BY AgentFacts DEF Agent!AgentTerminated, Agent!AgentTerminatedExit, Agent!WorkerTaken,
       Agent!LeaveSession, Agent!ProcessGone, DeliveryIInv
<1>2. process = "Session" /\ running \in OpId /\ gate.active = running
    BY <1>1, HandedBack
<1>3. /\ disk' = Agent!Snapshot(Agent!Finish(running), Agent!RecordEvidence(running, worker[running]))
      /\ gate' \in {Agent!Finish(running), Agent!NoGate}
      /\ reply' \in {reply, Agent!NoReply}
      /\ journal' = IF process' = "Down" THEN << >> ELSE disk'.journal
    <2>1. CASE Agent!AgentTerminated
        <3>1. /\ gate' = Agent!Finish(running) /\ reply' = reply /\ process' = "Idle"
              /\ journal' = Agent!RecordEvidence(running, worker[running])
              /\ disk' = Agent!Snapshot(gate', journal')
            BY <2>1 DEF Agent!AgentTerminated, Agent!AgentSettle, Agent!LeaveSession
        <3>2. disk'.journal = journal'
            BY <3>1 DEF Agent!Snapshot
        <3> QED BY <3>1, <3>2
    <2>2. CASE Agent!AgentTerminatedExit
        BY <2>2 DEF Agent!AgentTerminatedExit, Agent!ProcessGone
    <2> QED BY <2>1, <2>2
<1> QED BY <1>1, <1>2, <1>3, SettleEffect

LEMMA SpawnEffect ==
    ASSUME DeliveryIInv, Agent!AgentSpawn, toHub' = toHub
    PROVE  AgentEffect
<1>1. /\ process = "Session" /\ gate.active \in OpId /\ session \in Generation
      /\ started \in [OpId -> [Generation -> 0..2]] /\ step = "Begun"
      /\ journal = disk.journal
    BY AgentFacts DEF DeliveryIInv, Agent!AgentSpawn, EvidenceSound
<1>2. /\ step' = "Loop" /\ UNCHANGED <<process, gate, reply, journal, disk, proved>>
      /\ started' = [started EXCEPT ![gate.active][session] =
                        IF started[gate.active][session] < 2 THEN started[gate.active][session] + 1
                        ELSE started[gate.active][session]]
    BY DEF Agent!AgentSpawn
<1>3. \A op \in OpId, g \in Generation : started'[op][g] # 0 =>
          started[op][g] # 0 \/ (op = gate.active /\ g = session)
    BY <1>1, <1>2
<1> QED BY <1>1, <1>2, <1>3 DEF AgentEffect

LEMMA WorkerEffect ==
    ASSUME DeliveryIInv, NEW op \in OpId, NEW out, Agent!WorkerFinishes(op, out), toHub' = toHub
    PROVE  AgentEffect
<1>1. running # NoOp
    BY AdmissionConstants DEF DeliveryIInv, Agents!AgentIInv, Agents!Control, Agent!WorkerFinishes
<1>2. process = "Session" /\ session \in Generation
    BY <1>1, HandedBack
<1>3. \A o \in OpId, g \in Generation : proved[o][g] \subseteq proved'[o][g]
    BY <1>2, AgentFacts DEF DeliveryIInv, Agent!WorkerFinishes
<1> QED BY <1>2, <1>3, LoopEffect DEF Agent!WorkerFinishes, Speaks

\* The loop is left, with or without the process.
LEMMA EndEffect ==
    ASSUME DeliveryIInv, NEW ending \in {"EndReconnect", "EndExit"}, Agent!EndSession(ending),
           toHub' = toHub
    PROVE  AgentEffect
<1>1. UNCHANGED <<disk, started, proved>> /\ process = "Session" /\ step = "Loop"
    BY DEF Agent!EndSession, Agent!InLoop
<1>2. CASE Agent!ProcessGone
    BY <1>1, <1>2, GoneEffect DEF Speaks
<1>3. CASE /\ UNCHANGED <<gate, journal, reply>> /\ step' # "Begun"
           /\ process' # "Down"
    BY <1>1, <1>3, LoopEffect DEF Speaks
<1> QED BY <1>1, <1>2, <1>3 DEF Agent!EndSession, Agent!LeaveSession

LEMMA LocalKeeps ==
    ASSUME DeliveryIInv, AgentLocal
    PROVE  DeliveryIInv'
<1>1. HubRests /\ toHub' = toHub /\ LinkFollowsAgent(toAgent) /\ AgentInternal
    BY DEF AgentLocal, HubRests, sessions, settlement
<1>2. AgentEffect
    <2>1. CASE Agent!AgentRestart
        BY <1>1, <2>1, RestartEffect
    <2>2. CASE Agent!AgentDeny
        BY <1>1, <2>2, DenyEffect
    <2>3. CASE Agent!AgentSpawn
        BY <1>1, <2>3, SpawnEffect
    <2>4. ASSUME NEW op \in OpId, NEW out \in Agent!Outcome, Agent!WorkerFinishes(op, out)
          PROVE  AgentEffect
        BY <1>1, <2>4, WorkerEffect
    <2>5. ASSUME NEW out \in Agent!Outcome,
                 Agent!AgentComplete(out) \/ Agent!AgentCompleteReconnecting(out)
          PROVE  AgentEffect
        BY <1>1, <2>5, CompleteEffect
    <2>6. CASE Agent!AgentCompleteCancelled
        <3>1. "Unproven" \in Agent!Outcome
            BY DEF Agent!Outcome, Agent!Ambiguous
        <3> QED BY <1>1, <2>6, <3>1, CompleteEffect
    <2>7. CASE Agent!AgentReceiptRejected \/ Agent!AgentTerminationTimeout \/ Agent!AgentCrash
        BY <1>1, <2>7, GoneEffect DEF Agent!AgentReceiptRejected, Agent!AgentTerminationTimeout,
           Agent!AgentCrash, Speaks
    <2>8. CASE Agent!AgentTerminated \/ Agent!AgentTerminatedExit
        BY <1>1, <2>8, TerminatedEffect
    <2> QED BY <1>1, <2>1, <2>2, <2>3, <2>4, <2>5, <2>6, <2>7, <2>8 DEF AgentInternal
<1>3. Agents!AgentIInv'
    <2>1. Agent!AgentNext
        BY <1>1 DEF AgentInternal, Agent!AgentNext
    <2> QED BY <2>1, AgentStepKeeps DEF DeliveryIInv
<1>4. Follows
    BY <1>1, UnreadFollows
<1> QED BY <1>1, <1>2, <1>3, <1>4, EffectMoves

LEMMA LosesLinkKeeps ==
    ASSUME DeliveryIInv, AgentLosesLink
    PROVE  DeliveryIInv'
<1>1. /\ HubRests /\ toHub' = toHub /\ LinkFollowsAgent(toAgent) /\ process = "Session"
      /\ Agent!AgentStreamEnds("EndReconnect") \/ Agent!AgentSendFails \/ Agent!AgentStreamEnds("EndExit")
    BY DEF AgentLosesLink, HubRests, sessions, settlement
<1>2. AgentEffect
    <2>1. CASE Agent!AgentSendFails
        BY <1>1, <2>1, LoopEffect DEF Agent!AgentSendFails, Agent!LeaveSession, Speaks
    <2>2. CASE Agent!AgentStreamEnds("EndReconnect") \/ Agent!AgentStreamEnds("EndExit")
        BY <1>1, <2>2, EndEffect DEF Agent!AgentStreamEnds
    <2> QED BY <1>1, <2>1, <2>2
<1>3. Agents!AgentIInv'
    <2>1. Agent!AgentNext
        BY <1>1 DEF Agent!AgentNext
    <2> QED BY <2>1, AgentStepKeeps DEF DeliveryIInv
<1>4. Follows
    BY <1>1, UnreadFollows
<1> QED BY <1>1, <1>2, <1>3, <1>4, EffectMoves

LEMMA SendsKeeps ==
    ASSUME DeliveryIInv, AgentSends
    PROVE  DeliveryIInv'
<1> DEFINE m == [type |-> IF reply.outcome = "TimedOut" THEN "IndeterminateAck" ELSE "Result",
                 op |-> reply.op, outcome |-> reply.outcome]
<1>1. HubRests /\ SendToHub(session, m) /\ LinkFollowsAgent(toAgent) /\ Agent!AgentSend
    BY DEF AgentSends, HubRests, sessions, settlement
<1>2. process = "Session" /\ step = "Settled" /\ session \in Generation
    BY <1>1, AgentFacts DEF Agent!AgentSend, DeliveryIInv
<1>3. Speaks
    <2>1. CASE reply \in [op : OpId, outcome : Agent!Outcome]
        <3>1. m \in HubFrame /\ m.type \in {"Result", "IndeterminateAck"}
              /\ m.op = reply.op /\ m.outcome = reply.outcome
            BY <2>1 DEF HubFrame
        <3>2. Says(m)
            BY <3>1 DEF Says
        <3> HIDE DEF m
        <3> QED BY <1>1, <1>2, <3>2 DEF SendToHub, Speaks
    <2>2. CASE reply = Agent!NoReply
        <3>1. FALSE
            BY <1>2, <2>2 DEF DeliveryIInv, Agents!AgentIInv, Agents!Control, Agent!NoReply, Agents!NoReply
        <3> QED BY <3>1
    <2> QED BY <2>1, <2>2, AgentFacts DEF DeliveryIInv
<1>4. AgentEffect
    BY <1>1, <1>2, <1>3, LoopEffect DEF Agent!AgentSend, Agent!LeaveSession
<1>5. Agents!AgentIInv'
    <2>1. Agent!AgentNext
        BY <1>1 DEF Agent!AgentNext
    <2> QED BY <2>1, AgentStepKeeps DEF DeliveryIInv
<1>6. Follows
    BY <1>1, UnreadFollows
<1> QED BY <1>1, <1>4, <1>5, <1>6, EffectMoves

LEMMA CancelsKeeps ==
    ASSUME DeliveryIInv, NEW op \in OpId, AgentCancels(op)
    PROVE  DeliveryIInv'
<1> DEFINE m == [type |-> "CancellationAck", op |-> op, unproven |-> op \in BackendOps]
<1>1. /\ HubRests /\ AgentReceives("Cancel", op)
      /\ LinkFollowsAgent([toAgent EXCEPT ![session] = Tail(@)])
      /\ \/ Agent!AgentCancel(op) /\ SendToHub(session, m)
         \/ Agent!AgentCancelMismatch(op) /\ toHub' = toHub
    BY DEF AgentCancels, AgentHandled, HubRests, sessions, settlement
<1>2. Follows /\ session \in Generation /\ process = "Session"
    BY <1>1, ReadFollows
<1>3. AgentEffect
    <2>1. CASE Agent!AgentCancel(op) /\ SendToHub(session, m)
        <3>1. running = op /\ gate.active = op
            BY <2>1, HandedBack, AdmissionConstants DEF Agent!AgentCancel
        <3>2. m \in HubFrame /\ m.type = "CancellationAck" /\ m.op = op
            BY DEF HubFrame
        <3>3. Says(m)
            BY <3>1, <3>2 DEF Says
        <3> HIDE DEF m
        <3>4. Speaks
            BY <1>2, <2>1, <3>3 DEF SendToHub, Speaks
        <3> QED BY <1>2, <2>1, <3>4, LoopEffect DEF Agent!AgentCancel
    <2>2. CASE Agent!AgentCancelMismatch(op) /\ toHub' = toHub
        BY <2>2, EndEffect DEF Agent!AgentCancelMismatch
    <2> QED BY <1>1, <2>1, <2>2
<1>4. Agents!AgentIInv'
    <2>1. Agent!AgentNext
        BY <1>1 DEF Agent!AgentNext
    <2> QED BY <2>1, AgentStepKeeps DEF DeliveryIInv
<1> QED BY <1>1, <1>2, <1>3, <1>4, EffectMoves

-----------------------------------------------------------------------------
(* The Agent takes a command, and connects *)

LEMMA BeginKeeps ==
    ASSUME DeliveryIInv, NEW op \in OpId, HubRests, AgentReceives("Command", op),
           LinkFollowsAgent([toAgent EXCEPT ![session] = Tail(@)]),
           Agent!AgentBegin(op), toHub' = toHub
    PROVE  DeliveryIInv'
<1>1. /\ Follows /\ session \in Generation /\ process = "Session"
      /\ Framed(op, session) /\ \A g \in Generation : ~ Framed(op, g)'
    BY ReadFollows
<1>2. /\ gate.generation = session /\ session = disk.generation /\ gate \in Agents!Gate
      /\ reply = Agent!NoReply /\ running = NoOp /\ gate.active = NoOp /\ NoOp \notin OpId
    BY AgentFacts, AdmissionConstants DEF DeliveryIInv, Agents!AgentIInv, Agents!AgentTypeOK,
       Agent!AgentBegin, Agent!InLoop
<1>3. Open(op) /\ ref[op].generation = session /\ ~ Seen(op)
    BY <1>1 DEF DeliveryIInv, Tokens
<1>4. /\ gate'.active = op /\ gate'.terminal = gate.terminal /\ gate'.generation = session
    BY <1>2 DEF Agent!AgentBegin, Agents!Gate
<1>5. journal = disk.journal /\ journal' = journal /\ process' = process
      /\ UNCHANGED <<reply, started, proved>>
    BY <1>1 DEF DeliveryIInv, EvidenceSound, Agent!AgentBegin
<1>6. /\ disk'.generation = disk.generation /\ disk'.journal = disk.journal
      /\ disk'.terminal \subseteq gate.terminal \cup {op}
    BY <1>2, <1>4, <1>5 DEF Agent!AgentBegin, Agent!Snapshot
<1>7. AgentShifts
    <2>1. disk.generation \in Nat /\ disk.generation <= registered
        BY AgentFacts, AdmissionConstants DEF DeliveryIInv, StreamsSound
    <2> QED BY <1>1, <1>6, <2>1 DEF AgentShifts, Follows, DeliveryIInv, SessionTypes, StreamsSound
<1>8. AgentMoves
    <2>1. \A o : Done(o)' <=> Done(o)
        BY <1>5, <1>6 DEF Done, Reported
    <2>2. ASSUME NEW o \in OpId, Seen(o)' PROVE Seen(o) \/ o = op
        BY <2>1, <2>2, <1>4, <1>5, <1>6 DEF Seen, Acknowledged
    <2>3. ~ Done(op)' /\ \A g \in Generation : started[op][g] = 0
        BY <1>3, <2>1 DEF Seen
    <2>4. \A g \in Generation : \A m \in Range(toHub[g]) :
              /\ m.type = "Result" /\ m.outcome \in Agent!Results => Established(m.op, m.outcome)'
              /\ m.type = "Report" => \A i \in DOMAIN m.evidence :
                    Established(m.evidence[i].op, m.evidence[i].outcome)'
        BY <1>5 DEF DeliveryIInv, Truths, Established
    <2>5. reply'.outcome \in Agent!Results => Established(reply.op, reply.outcome)'
        BY <1>5 DEF DeliveryIInv, Truths, Established
    <2>6. \A o \in OpId : Seen(o)' =>
             Seen(o) \/ ((\E g \in Generation : Framed(o, g)) /\ \A g \in Generation : ~ Framed(o, g)')
        BY <1>1, <2>2
    <2>7. /\ \A o \in OpId : gate'.active = o =>
                Open(o) /\ ref[o].generation = disk'.generation /\ ~ Done(o)'
          /\ step' = "Begun" => \A g \in Generation : started'[gate'.active][g] = 0
          /\ \A o \in OpId : \A g, h \in Generation :
                started'[o][g] # 0 /\ started'[o][h] # 0 => g = h
        BY <1>2, <1>3, <1>4, <1>5, <1>6, <2>3 DEF DeliveryIInv, Tokens
    <2> QED BY <1>1, <1>5, <1>6, <2>4, <2>5, <2>6, <2>7 DEF AgentMoves
<1>9. Agents!AgentIInv'
    <2>1. Agent!AgentNext
        BY DEF Agent!AgentNext
    <2> QED BY <2>1, AgentStepKeeps DEF DeliveryIInv
<1> QED BY <1>7, <1>8, <1>9, AgentMovesKeep

LEMMA CommandKeeps ==
    ASSUME DeliveryIInv, NEW op \in OpId, AgentCommand(op)
    PROVE  DeliveryIInv'
<1>1. /\ HubRests /\ AgentReceives("Command", op) /\ toHub' = toHub
      /\ LinkFollowsAgent([toAgent EXCEPT ![session] = Tail(@)])
      /\ Agent!AgentBegin(op) \/ Agent!AgentRefuse(op)
    BY DEF AgentCommand, AgentHandled, HubRests, sessions, settlement
<1>2. CASE Agent!AgentBegin(op)
    BY <1>1, <1>2, BeginKeeps
<1>3. CASE Agent!AgentRefuse(op)
    <2>1. AgentEffect
        BY <1>1, <1>3, EndEffect DEF Agent!AgentRefuse
    <2>2. Agents!AgentIInv'
        <3>1. Agent!AgentNext
            BY <1>3 DEF Agent!AgentNext
        <3> QED BY <3>1, AgentStepKeeps DEF DeliveryIInv
    <2>3. Follows
        BY <1>1, ReadFollows
    <2> QED BY <1>1, <2>1, <2>2, <2>3, EffectMoves
<1> QED BY <1>1, <1>2, <1>3

LEMMA AcceptedKeeps ==
    ASSUME DeliveryIInv, NEW g \in Generation, AgentAccepted(g)
    PROVE  DeliveryIInv'
<1> DEFINE report == [type |-> "Report", evidence |-> journal]
<1>1. /\ HubRests /\ link' = link /\ toAgent' = toAgent /\ link[g] = "Up"
      /\ Agent!AgentConnect(g) /\ SendToHub(g, report)
    BY DEF AgentAccepted, HubRests, sessions, settlement
<1>2. /\ process = "Idle" /\ gate \in Agents!Gate /\ gate.active = NoOp /\ NoOp \notin OpId
      /\ gate.generation = disk.generation /\ disk.generation \in Nat /\ journal = disk.journal
      /\ g = registered /\ disk.generation <= g /\ g \in Nat
    BY <1>1, AgentFacts, AdmissionConstants
       DEF DeliveryIInv, Agents!AgentIInv, Agents!AgentTypeOK, Agent!AgentConnect, EvidenceSound,
           StreamsSound, Generation
<1>3. /\ gate'.active = NoOp /\ gate'.terminal \subseteq gate.terminal /\ gate'.generation = g
    BY <1>1, <1>2 DEF Agent!AgentConnect, Agent!PrepareGeneration, Agents!Gate
<1>4. /\ process' = "Session" /\ step' = "Loop" /\ UNCHANGED <<reply, journal, started, proved>>
      /\ disk' = Agent!Snapshot(gate', journal)
    BY <1>1 DEF Agent!AgentConnect
<1>5. /\ disk'.generation = g /\ disk'.journal = disk.journal
      /\ disk'.terminal \subseteq gate.terminal
    BY <1>2, <1>3, <1>4 DEF Agent!Snapshot
<1>6. /\ report \in HubFrame /\ report.type = "Report" /\ report.evidence = disk.journal
      /\ toHub \in [Generation -> Seq(HubFrame)]
    BY <1>2, AgentFacts DEF HubFrame, DeliveryIInv, SessionTypes
<1> HIDE DEF report
<1>7. /\ toHub' \in [Generation -> Seq(HubFrame)]
      /\ \A h \in Generation : h # g => toHub'[h] = toHub[h]
      /\ \A m \in Range(toHub'[g]) : m \in Range(toHub[g]) \/ m = report
    <2>1. CASE toHub' = toHub
        BY <2>1, <1>6
    <2>2. CASE toHub' = [toHub EXCEPT ![g] = Append(toHub[g], report)]
        <3>1. /\ Append(toHub[g], report) \in Seq(HubFrame)
              /\ Range(Append(toHub[g], report)) = Range(toHub[g]) \cup {report}
            BY <1>6, AppendFrame
        <3>2. toHub'[g] = Append(toHub[g], report)
            BY <2>2, <1>6
        <3> QED BY <2>2, <3>1, <3>2, <1>6
    <2> QED BY <1>1, <2>1, <2>2 DEF SendToHub
<1>8. AgentShifts
    <2>1. ASSUME NEW h \in Generation, toHub'[h] # << >> PROVE h <= g
        BY <2>1, <1>2, <1>7 DEF DeliveryIInv, StreamsSound, Generation
    <2> QED BY <1>1, <1>2, <1>5, <1>7, <2>1 DEF AgentShifts, DeliveryIInv, SessionTypes, Tokens
<1>9. AgentMoves
    <2>1. ASSUME NEW op \in OpId, Reported(op)' PROVE Done(op)
        <3>1. PICK h \in Generation : \E m \in Range(toHub'[h]) :
                 IF m.type = "Report" THEN op \in Agent!JournalIds(m.evidence)
                 ELSE m.type # "CancellationAck" /\ m.op = op
            BY <2>1 DEF Reported
        <3>2. PICK m \in Range(toHub'[h]) :
                 IF m.type = "Report" THEN op \in Agent!JournalIds(m.evidence)
                 ELSE m.type # "CancellationAck" /\ m.op = op
            BY <3>1
        <3>3. CASE m \in Range(toHub[h])
            BY <3>2, <3>3 DEF Done, Reported
        <3>4. CASE m = report
            BY <3>2, <3>4, <1>6 DEF Done
        <3> QED BY <3>3, <3>4, <1>7
    <2>2. ASSUME NEW op \in OpId, Acknowledged(op)' PROVE Acknowledged(op)
        BY <2>2, <1>6, <1>7 DEF Acknowledged
    <2>3. ASSUME NEW op \in OpId, Seen(op)' PROVE Seen(op)
        BY <2>1, <2>2, <2>3, <1>2, <1>3, <1>4, <1>5 DEF Seen, Done
    <2>4. ASSUME NEW h \in Generation, NEW m \in Range(toHub'[h])
          PROVE  /\ m.type = "Result" /\ m.outcome \in Agent!Results => Established(m.op, m.outcome)'
                 /\ m.type = "Report" => \A i \in DOMAIN m.evidence :
                       Established(m.evidence[i].op, m.evidence[i].outcome)'
                 /\ m.type = "Report" => \/ m \in Range(toHub[h])
                                         \/ Agent!JournalIds(m.evidence) = Agent!JournalIds(disk'.journal)
        <3>1. CASE m \in Range(toHub[h])
            BY <3>1, <1>4 DEF DeliveryIInv, Truths, Established
        <3>2. CASE m = report
            <4>1. ASSUME NEW i \in DOMAIN disk.journal
                  PROVE  /\ disk.journal[i].generation \in Generation
                         /\ disk.journal[i].outcome \in proved[disk.journal[i].op][disk.journal[i].generation]
                <5>1. disk.journal[i] \in Agent!Evidence
                    BY AgentFacts, FrameTypes DEF Range, DeliveryIInv
                <5> QED BY <5>1 DEF DeliveryIInv, Agents!AgentIInv, Agents!Witnessed,
                        Agents!JournalTruthful, Agent!Evidence, Agent!AgentGeneration, Generation
            <4> QED BY <3>2, <4>1, <1>4, <1>5, <1>6 DEF Established
        <3> QED BY <3>1, <3>2, <1>7
    <2>5. reply'.outcome \in Agent!Results => Established(reply.op, reply.outcome)'
        BY <1>4 DEF DeliveryIInv, Truths, Established
    <2>6. \A op \in OpId : \A x, y \in Generation :
              started'[op][x] # 0 /\ started'[op][y] # 0 => x = y
        BY <1>4 DEF DeliveryIInv, Tokens
    <2> QED BY <1>2, <1>3, <1>4, <1>5, <2>3, <2>4, <2>5, <2>6 DEF AgentMoves
<1>10. Agents!AgentIInv'
    <2>1. Agent!AgentNext
        BY <1>1, <1>2 DEF Agent!AgentNext, Agent!AgentGeneration, Generation
    <2> QED BY <2>1, AgentStepKeeps DEF DeliveryIInv
<1> QED BY <1>1, <1>8, <1>9, <1>10, AgentMovesKeep

-----------------------------------------------------------------------------
(* The invariant *)

LEMMA DeliveryStarts == DeliveryInit => DeliveryIInv
<1> SUFFICES ASSUME DeliveryInit PROVE DeliveryIInv
    OBVIOUS
<1> USE DEF DeliveryInit
<1>1. /\ NoOp \notin OpId /\ BackendOps \subseteq OpId /\ {} \subseteq OpId
      /\ MaxGeneration \in Nat /\ MaxJournal \in Nat \ {0}
    BY AdmissionConstants, DeliveryConstants
<1>2. /\ process = "Down" /\ session = 0 /\ step = "Loop" /\ journal = << >>
      /\ gate.active = NoOp /\ gate.terminal = {} /\ reply.op = NoOp /\ reply.outcome = "None"
      /\ disk.generation = 0 /\ disk.terminal = {} /\ disk.journal = << >>
      /\ \A op \in OpId, g \in Generation : started[op][g] = 0
    BY DEF Agent!AgentInit, Agent!NoGate, Agent!NoReply, Agent!AgentGeneration, Generation
<1>3. Agents!AgentIInv
    <2>1. Agents!AgentInit
        BY DEF Agent!AgentInit, Agents!AgentInit, Agent!NoGate, Agents!NoGate, Agent!NoReply,
               Agents!NoReply, Agent!AgentGeneration, Agents!AgentGeneration
    <2> QED BY <1>1, <2>1, Agents!InitInvariant
<1>4. SessionTypes
    <2>1. budget \in [cancels : 0..MaxCancels, crashes : 0..MaxHubCrashes, failures : 0..MaxStoreFailures]
        BY DeliveryConstants
    <2>2. toAgent \in [Generation -> Seq(AgentFrame)] /\ toHub \in [Generation -> Seq(HubFrame)]
        BY EmptySeq
    <2> QED BY <1>1, <2>1, <2>2 DEF SessionTypes, Proof
<1>5. LedgerSound
    BY InitLedger DEF LedgerSound, AdmissionInit
<1>6. /\ \A op \in OpId : state[op] = "Absent" /\ proof[op] = "None" /\ recon[op] = "None"
      /\ \A g \in Generation : hub[g] = "None" /\ pending[g] = {} /\ dispatching[g] = NoOp
      /\ \A g \in Generation : link[g] = "Down" /\ toAgent[g] = << >> /\ toHub[g] = << >>
      /\ registered = 0
    BY DEF AdmissionInit
<1>7. StreamsSound /\ LoopsSound /\ ReceiptsSound
    BY <1>2, <1>6 DEF StreamsSound, LoopsSound, ReceiptsSound
<1>8. Range(<< >>) = {} /\ Solo(<< >>)
    BY NoFrame
<1>9. \A op \in OpId : ~ Seen(op) /\ \A g \in Generation : ~ Framed(op, g)
    BY <1>1, <1>2, <1>6, <1>8, JournalHolds DEF Seen, Done, Reported, Acknowledged, Framed
<1>10. Tokens
    BY <1>1, <1>2, <1>6, <1>8, <1>9 DEF Tokens
<1>11. Truths /\ EvidenceSound
    BY <1>2, <1>6, <1>8 DEF Truths, EvidenceSound, Agent!Results
<1> QED BY <1>3, <1>4, <1>5, <1>7, <1>10, <1>11 DEF DeliveryIInv

LEMMA StutterKeeps ==
    ASSUME DeliveryIInv, UNCHANGED deliveryVars
    PROVE  DeliveryIInv'
<1> USE DEF DeliveryIInv
<1>1. /\ UNCHANGED agentState /\ UNCHANGED admissionVars
      /\ UNCHANGED <<state, ref, active, queue, blocked, retired, recoveryReads>>
      /\ UNCHANGED <<process, step, gate, reply, journal, disk, started, proved>>
      /\ UNCHANGED <<registered, hub, pending, dispatching, proof, recon, budget, link, toAgent, toHub>>
    BY DEF deliveryVars, agentState, admissionVars, sessions, settlement, transport
<1>2. Agents!AgentIInv'
    BY <1>1, AgentRests
<1>3. SessionTypes' /\ StreamsSound' /\ LoopsSound' /\ ReceiptsSound'
    BY <1>1 DEF SessionTypes, StreamsSound, LoopsSound, ReceiptsSound
<1>4. LedgerSound'
    BY <1>1 DEF LedgerSound, AdmissionIInv
<1>5. \A op, g : /\ (Seen(op)' <=> Seen(op)) /\ (Done(op)' <=> Done(op)) /\ (Open(op)' <=> Open(op))
                 /\ (Unsent(op)' <=> Unsent(op)) /\ (Framed(op, g)' <=> Framed(op, g))
    BY <1>1 DEF Seen, Done, Open, Unsent, Framed, Reported, Acknowledged
<1>6. Tokens'
    BY <1>1, <1>5 DEF Tokens
<1>7. Truths' /\ EvidenceSound'
    BY <1>1 DEF Truths, EvidenceSound, Established
<1> QED BY <1>2, <1>3, <1>4, <1>6, <1>7

LEMMA DeliveryStepKeeps ==
    ASSUME DeliveryIInv, [DeliveryNext]_deliveryVars
    PROVE  DeliveryIInv'
<1>1. CASE HubAuthenticate
    BY <1>1, AuthenticateKeeps
<1>2. ASSUME NEW g \in Generation, AgentAccepted(g) PROVE DeliveryIInv'
    BY <1>2, AcceptedKeeps
<1>3. ASSUME NEW g \in Generation, LinkBreaks(g) PROVE DeliveryIInv'
    BY <1>3, LinkBreaksKeeps
<1>4. ASSUME NEW g \in Generation, HubSteps(g) PROVE DeliveryIInv'
    <2>1. ASSUME NEW op \in OpId, HubExecute(g, op) \/ HubCancel(g, op) PROVE DeliveryIInv'
        BY <2>1, ExecuteKeeps, CancelKeeps
    <2>2. CASE HubInstall(g) \/ HubAcceptFails(g) \/ HubLoopEnds(g) \/ HubStoreFails(g) \/ HubCleanupFails(g)
        BY <2>2, InstallKeeps, AcceptFailsKeeps, LoopEndsKeeps, CleanupFailsKeeps
    <2>3. CASE HubRejectDispatch(g) \/ HubMarkDispatched(g) \/ HubSendCommand(g)
               \/ HubEncodeFails(g) \/ HubOutboundClosed(g)
        BY <2>3, RejectDispatchKeeps, MarkDispatchedKeeps, SendCommandKeeps, NotDeliveredKeeps
    <2>4. CASE HubResult(g) \/ HubIndeterminateAck(g) \/ HubCancellationAck(g) \/ HubReport(g)
        BY <2>4, ResultKeeps, IndeterminateAckKeeps, CancellationAckKeeps, ReportKeeps
    <2>5. CASE HubCleanup(g)
        BY <2>5, CleanupKeeps
    <2> QED BY <1>4, <2>1, <2>2, <2>3, <2>4, <2>5 DEF HubSteps
<1>5. CASE AgentLocal \/ AgentLosesLink \/ AgentSends
    BY <1>5, LocalKeeps, LosesLinkKeeps, SendsKeeps
<1>6. ASSUME NEW op \in OpId, AgentCommand(op) \/ AgentCancels(op) PROVE DeliveryIInv'
    BY <1>6, CommandKeeps, CancelsKeeps
<1>7. CASE HubCrash
    BY <1>7, HubCrashKeeps
<1>8. CASE UNCHANGED deliveryVars
    BY <1>8, StutterKeeps
<1> QED BY <1>1, <1>2, <1>3, <1>4, <1>5, <1>6, <1>7, <1>8 DEF DeliveryNext

-----------------------------------------------------------------------------
(* What is in flight is attended to, while the store accepts commits *)

\* No operation is dispatched and no ref changes under one that is in flight.
Calm == \A op \in OpId : state'[op] \in InFlight => state[op] \in InFlight /\ ref'[op] = ref[op]

\* No session that still has work to do goes away.
Lasting == \A g \in Generation : hub[g] \in {"Open", "Closing"} => hub'[g] \in {"Open", "Closing"}

LEMMA CalmKeeps ==
    ASSUME DeliveryIInv, InFlightHasSession, Calm, Lasting
    PROVE  InFlightHasSession'
<1>1. ASSUME NEW op \in OpId, state'[op] \in InFlight
      PROVE  hub'[ref'[op].generation] \in {"Open", "Closing"}
    <2>1. /\ state[op] \in InFlight /\ ref'[op] = ref[op] /\ ref[op].generation \in Generation
        BY <1>1, LedgerFacts DEF Calm, DeliveryIInv
    <2> QED BY <2>1 DEF InFlightHasSession, Lasting
<1> QED BY <1>1 DEF InFlightHasSession

LEMMA SuccessionCalm ==
    ASSUME NEW id \in OpId, NEW to \in Terminal, Succession(id, to)
    PROVE  Calm
BY DEF Succession, Calm

LEMMA FreeSlotCalm ==
    ASSUME DeliveryIInv, NEW id \in OpId,
           CancelActive(id) \/ \E terminal : FinalizeTerminal(id, terminal)
    PROVE  Calm
<1>1. ASSUME NEW terminal \in Terminal, state[id] \in Running, FreeSlot(id, terminal),
             UNCHANGED <<ref, blocked, retired>>
      PROVE  Calm
    BY <1>1, FreeSlotSucceeds, SuccessionCalm DEF DeliveryIInv
<1> QED BY <1>1 DEF CancelActive, FinalizeTerminal

LEMMA LoopLasts ==
    ASSUME DeliveryIInv, NEW g \in Generation, hub[g] = "Open",
           Close(g) \/ \E done : DispatchNext(g, done)
    PROVE  Lasting
<1>1. hub' = hub \/ hub' = [hub EXCEPT ![g] = "Closing"]
    BY DEF Close, DispatchNext
<1> QED BY <1>1 DEF Lasting, DeliveryIInv, SessionTypes

LEMMA QuarantineCalm ==
    ASSUME NEW op \in OpId, NEW status, Quarantine(op, status)
    PROVE  Calm /\ (state'[op] = "Indeterminate")
BY DEF Quarantine, Calm

\* The loop's steps.
LEMMA LoopAttends ==
    ASSUME DeliveryIInv, InFlightHasSession, NEW g \in Generation, HubSteps(g),
           ~ HubCleanup(g), ~ HubCleanupFails(g)
    PROVE  InFlightHasSession'
<1> USE DEF DeliveryIInv
<1>0. /\ state \in [OpId -> HubOperationState \cup {"Absent"}] /\ ref \in [OpId -> OperationRef \cup {NoRef}]
      /\ hub \in [Generation -> {"None", "Accepted", "Open", "Closing", "Ended"}]
    BY LedgerFacts DEF SessionTypes
<1>1. CASE HubInstall(g) \/ HubAcceptFails(g) \/ HubLoopEnds(g) \/ HubStoreFails(g) \/ HubSendCommand(g)
    <2>1. Calm
        BY <1>1 DEF HubInstall, HubAcceptFails, HubLoopEnds, HubStoreFails, HubSendCommand,
                    admissionVars, Calm
    <2>2. Lasting
        BY <1>0, <1>1 DEF HubInstall, HubAcceptFails, HubLoopEnds, HubStoreFails, HubSendCommand,
                    LoopFree, Close, Lasting
    <2> QED BY <2>1, <2>2, CalmKeeps
<1>2. CASE HubRejectDispatch(g) \/ HubEncodeFails(g) \/ HubOutboundClosed(g)
    <2>1. hub[g] = "Open" /\ dispatching[g] \in OpId
        BY <1>2 DEF HubRejectDispatch, HubEncodeFails, HubOutboundClosed, HubNotDelivered, MayEnqueue,
                    SessionTypes
    <2>2. Calm
        BY <1>2, <2>1, FreeSlotCalm DEF HubRejectDispatch, HubEncodeFails, HubOutboundClosed, HubNotDelivered
    <2>3. Lasting
        BY <1>2, <2>1, LoopLasts DEF HubRejectDispatch, HubEncodeFails, HubOutboundClosed
    <2> QED BY <2>2, <2>3, CalmKeeps
<1>3. CASE HubMarkDispatched(g)
    <2>1. /\ hub[g] = "Open" /\ dispatching[g] \in OpId /\ ref[dispatching[g]].generation = g
          /\ state' = [state EXCEPT ![dispatching[g]] = "Dispatched"] /\ ref' = ref /\ hub' = hub
        BY <1>3 DEF HubMarkDispatched, AdmissionMarkDispatched, SessionTypes, LoopsSound, sessions
    <2> QED BY <1>0, <2>1 DEF InFlightHasSession
<1>4. CASE HubResult(g) \/ HubIndeterminateAck(g) \/ HubCancellationAck(g) \/ HubReport(g)
    <2>1. hub[g] = "Open" /\ toHub[g] # << >>
        BY <1>4 DEF HubResult, HubIndeterminateAck, HubCancellationAck, HubReport, HubReceives, LoopFree
    <2>2. CASE HubRefuses(g) \/ HubIgnores
        <3>1. Calm
            BY <2>2 DEF HubRefuses, HubIgnores, admissionVars, Calm
        <3>2. Lasting
            BY <2>1, <2>2, LoopLasts DEF HubRefuses, HubIgnores, Lasting
        <3> QED BY <3>1, <3>2, CalmKeeps
    <2>3. ASSUME NEW op \in pending[g], QuarantineInLoop(g, op) PROVE InFlightHasSession'
        <3>1. op \in OpId
            BY DEF SessionTypes
        <3>2. Calm
            BY <2>3, <3>1, QuarantineCalm DEF QuarantineInLoop
        <3>3. Lasting
            BY <2>3 DEF QuarantineInLoop, Lasting
        <3> QED BY <3>2, <3>3, CalmKeeps
    <2>4. ASSUME NEW op \in pending[g], NEW terminal, FinalizeTerminal(op, terminal), DispatchNext(g, {op})
          PROVE  InFlightHasSession'
        <3>1. op \in OpId
            BY DEF SessionTypes
        <3> QED BY <2>1, <2>4, <3>1, FreeSlotCalm, LoopLasts, CalmKeeps
    <2>5. CASE HubReport(g)
        <3>1. Lasting
            BY <2>5 DEF HubReport, Lasting
        <3>2. blocked[Desktop] \in OpId \cup {NoOp}
            BY LedgerFacts
        <3>3. Calm
            <4>1. CASE UNCHANGED admissionVars
                BY <4>1 DEF admissionVars, Calm
            <4>2. ASSUME NEW op \in OpId, NEW terminal, ReconcileIndeterminateTerminal(op, terminal)
                  PROVE  Calm
                <5>1. terminal \in Terminal
                    BY <4>2 DEF ReconcileIndeterminateTerminal
                <5> QED BY <4>2, <5>1, UnblockSucceeds, SuccessionCalm
            <4> QED BY <2>5, <3>2, <4>1, <4>2 DEF HubReport
        <3> QED BY <3>1, <3>3, CalmKeeps
    <2> QED BY <1>4, <2>2, <2>3, <2>4, <2>5 DEF HubResult, HubIndeterminateAck, HubCancellationAck
<1>5. ASSUME NEW op \in OpId, HubExecute(g, op) PROVE InFlightHasSession'
    <2>1. Calm
        BY <1>0, <1>5 DEF HubExecute, AdmitNow, AdmitQueued, Start, Calm
    <2>2. Lasting
        BY <1>5 DEF HubExecute, Lasting
    <2> QED BY <2>1, <2>2, CalmKeeps
<1>6. ASSUME NEW op \in OpId, HubCancel(g, op) PROVE InFlightHasSession'
    <2>1. hub[g] = "Open"
        BY <1>6 DEF HubCancel, LoopFree
    <2>2. Calm
        <3>1. CASE CancelActive(op)
            BY <3>1, FreeSlotCalm
        <3>2. CASE CancelQueued(op) \/ CancelDispatched(op) \/ UNCHANGED admissionVars
            BY <1>0, <3>2 DEF CancelQueued, CancelDispatched, admissionVars, Calm
        <3> QED BY <1>6, <3>1, <3>2 DEF HubCancel
    <2>3. Lasting
        BY <1>6, <2>1, LoopLasts DEF HubCancel, Lasting
    <2> QED BY <2>2, <2>3, CalmKeeps
<1> QED BY <1>1, <1>2, <1>3, <1>4, <1>5, <1>6 DEF HubSteps

LEMMA CleanupAttends ==
    ASSUME DeliveryIInv, InFlightHasSession, NEW g \in Generation, HubCleanup(g)
    PROVE  InFlightHasSession'
<1> DEFINE own == OfSession(g)
           inFlight == {op \in own : state[op] \in InFlight}
<1>1. /\ hub' = [hub EXCEPT ![g] = "Ended"]
      /\ hub \in [Generation -> {"None", "Accepted", "Open", "Closing", "Ended"}]
    BY DEF HubCleanup, SessionGone, DeliveryIInv, SessionTypes
<1>2. /\ Calm
      /\ \A q \in OpId : state'[q] \in InFlight => ref[q].generation # g
    <2>1. CASE inFlight = {}
        <3>1. CancelUndispatched(own)
            BY <2>1 DEF HubCleanup
        <3>2. ASSUME NEW q \in OpId, state'[q] \in InFlight
              PROVE  q \notin own /\ state[q] \in InFlight /\ ref'[q] = ref[q]
            BY <3>1, <3>2 DEF CancelUndispatched
        <3> QED BY <3>2 DEF Calm, OfSession
    <2>2. ASSUME NEW op \in inFlight, Quarantine(op, "Auto")
          PROVE  /\ Calm
                 /\ \A q \in OpId : state'[q] \in InFlight => ref[q].generation # g
        <3>1. op \in OpId /\ state[op] \in InFlight
            BY DEF OfSession
        <3>2. Calm /\ state'[op] = "Indeterminate"
            BY <2>2, <3>1, QuarantineCalm
        <3>3. ASSUME NEW q \in OpId, state'[q] \in InFlight PROVE FALSE
            <4>1. state[q] \in InFlight /\ q # op
                BY <3>2, <3>3 DEF Calm
            <4> QED BY <3>1, <4>1, LedgerFacts DEF DeliveryIInv
        <3> QED BY <3>2, <3>3
    <2> QED BY <2>1, <2>2 DEF HubCleanup
<1>3. ASSUME NEW op \in OpId, state'[op] \in InFlight
      PROVE  hub'[ref'[op].generation] \in {"Open", "Closing"}
    <2>1. /\ state[op] \in InFlight /\ ref'[op] = ref[op] /\ ref[op].generation \in Generation
          /\ ref[op].generation # g
        BY <1>2, <1>3, LedgerFacts DEF Calm, DeliveryIInv
    <2> QED BY <1>1, <2>1 DEF InFlightHasSession
<1> QED BY <1>3 DEF InFlightHasSession

LEMMA DeliveryAttends ==
    ASSUME MaxStoreFailures = 0, DeliveryIInv, InFlightHasSession, [DeliveryNext]_deliveryVars
    PROVE  InFlightHasSession'
<1>1. ASSUME NEW g \in Generation PROVE ~ HubCleanupFails(g)
    <2>1. budget.failures \in 0..MaxStoreFailures
        BY DEF DeliveryIInv, SessionTypes
    <2> QED BY <2>1 DEF HubCleanupFails
<1>2. ASSUME NEW g \in Generation, HubSteps(g) PROVE InFlightHasSession'
    BY <1>1, <1>2, CleanupAttends, LoopAttends
<1>3. CASE UNCHANGED admissionVars /\ hub' = hub
    <2>1. Calm /\ Lasting
        BY <1>3 DEF admissionVars, Calm, Lasting
    <2> QED BY <2>1, CalmKeeps
<1>4. CASE HubAuthenticate
    <2>1. /\ registered + 1 \in Generation /\ registered \in Nat
          /\ hub' = [hub EXCEPT ![registered + 1] = "Accepted"]
        BY <1>4, AdmissionConstants DEF HubAuthenticate, DeliveryIInv, SessionTypes
    <2>2. hub[registered + 1] = "None"
        BY <2>1 DEF DeliveryIInv, StreamsSound
    <2>3. Lasting
        BY <2>1, <2>2 DEF Lasting, DeliveryIInv, SessionTypes
    <2>4. Calm
        BY <1>4 DEF HubAuthenticate, AdmissionPruneTerminalBeforeGeneration, Prunable, Calm
    <2> QED BY <2>3, <2>4, CalmKeeps
<1>5. CASE HubCrash
    <2>1. \A op \in OpId : state'[op] = SnapshotState(op)
        BY <1>5 DEF HubCrash, AdmissionRestart
    <2>2. \A op \in OpId : SnapshotState(op) \notin InFlight
        BY DEF SnapshotState
    <2> QED BY <2>1, <2>2 DEF InFlightHasSession
<1>6. CASE (\E g \in Generation : AgentAccepted(g) \/ LinkBreaks(g)) \/ AgentLocal
           \/ AgentLosesLink \/ AgentSends \/ UNCHANGED deliveryVars
    BY <1>6, <1>3 DEF AgentAccepted, LinkBreaks, AgentLocal, AgentLosesLink, AgentSends, deliveryVars, sessions
<1>7. ASSUME NEW op \in OpId, AgentCommand(op) \/ AgentCancels(op) PROVE InFlightHasSession'
    BY <1>7, <1>3 DEF AgentCommand, AgentCancels, AgentHandled, sessions
<1> QED BY <1>2, <1>4, <1>5, <1>6, <1>7 DEF DeliveryNext

-----------------------------------------------------------------------------
(* The journal *)

\* The journal changes only while an operation is settled.
LEMMA JournalMoves ==
    ASSUME DeliveryIInv, [DeliveryNext]_deliveryVars
    PROVE  disk'.journal = disk.journal \/ gate.active \in OpId
<1>1. CASE UNCHANGED agentState
    BY <1>1 DEF agentState
<1>2. ASSUME NEW g \in Generation, AgentAccepted(g) PROVE disk'.journal = disk.journal
    <2>1. process = "Idle" /\ disk' = Agent!Snapshot(gate', journal)
        BY <1>2 DEF AgentAccepted, Agent!AgentConnect
    <2> QED BY <2>1 DEF Agent!Snapshot, DeliveryIInv, EvidenceSound
<1>3. ASSUME NEW op \in OpId, Agent!AgentBegin(op) PROVE disk'.journal = disk.journal
    <2>1. process = "Session" /\ disk' = Agent!Snapshot(gate', journal)
        BY <1>3 DEF Agent!AgentBegin, Agent!InLoop
    <2> QED BY <2>1 DEF Agent!Snapshot, DeliveryIInv, EvidenceSound
<1>4. CASE disk' = disk
    BY <1>4
<1>5. CASE running # NoOp
    BY <1>5, HandedBack
<1>6. CASE AgentLocal
    <2>1. CASE Agent!AgentDeny
        BY <2>1, AgentFacts DEF Agent!AgentDeny, DeliveryIInv
    <2>2. ASSUME NEW out, Agent!AgentComplete(out) \/ Agent!AgentCompleteReconnecting(out)
          PROVE  running # NoOp
        BY <2>2 DEF Agent!AgentComplete, Agent!AgentCompleteReconnecting, Agent!Finished
    <2>3. CASE Agent!AgentCompleteCancelled \/ Agent!AgentTerminated \/ Agent!AgentTerminatedExit
        BY <2>3, <1>5, AgentFacts DEF Agent!AgentCompleteCancelled, Agent!Finished,
           Agent!AgentTerminated, Agent!AgentTerminatedExit, DeliveryIInv
    <2>4. ASSUME NEW op, NEW out, Agent!WorkerFinishes(op, out) PROVE disk' = disk
        BY <2>4 DEF Agent!WorkerFinishes
    <2>5. CASE Agent!AgentRestart \/ Agent!AgentSpawn \/ Agent!AgentReceiptRejected
               \/ Agent!AgentTerminationTimeout \/ Agent!AgentCrash
        BY <2>5, <1>4 DEF Agent!AgentRestart, Agent!AgentSpawn, Agent!AgentReceiptRejected,
           Agent!AgentTerminationTimeout, Agent!AgentCrash
    <2> QED BY <1>4, <1>5, <1>6, <2>1, <2>2, <2>3, <2>4, <2>5 DEF AgentLocal, AgentInternal
<1>7. CASE AgentLosesLink \/ AgentSends
    BY <1>7, <1>4 DEF AgentLosesLink, AgentSends, Agent!AgentStreamEnds, Agent!EndSession,
       Agent!AgentSendFails, Agent!AgentSend
<1>8. ASSUME NEW op \in OpId, AgentCommand(op) \/ AgentCancels(op)
      PROVE  disk'.journal = disk.journal
    BY <1>8, <1>3, <1>4 DEF AgentCommand, AgentCancels, Agent!AgentRefuse, Agent!EndSession,
       Agent!AgentCancel, Agent!AgentCancelMismatch
<1>9. ASSUME NEW g \in Generation, LinkBreaks(g) \/ HubSteps(g) PROVE UNCHANGED agentState
    <2>1. ASSUME NEW op \in OpId, HubExecute(g, op) \/ HubCancel(g, op) PROVE UNCHANGED agentState
        BY <2>1 DEF HubExecute, HubCancel
    <2> QED BY <1>9, <2>1 DEF LinkBreaks, HubSteps, HubInstall, HubAcceptFails, HubRejectDispatch,
            HubMarkDispatched, HubSendCommand, HubEncodeFails, HubOutboundClosed, HubNotDelivered,
            HubResult, HubIndeterminateAck, HubCancellationAck, HubReport, HubReceives, HubLoopEnds,
            HubStoreFails, HubCleanup, SessionGone, HubCleanupFails
<1>10. CASE HubAuthenticate \/ HubCrash \/ UNCHANGED deliveryVars
    BY <1>10, <1>1 DEF HubAuthenticate, HubCrash, deliveryVars
<1> QED BY <1>1, <1>2, <1>6, <1>7, <1>8, <1>9, <1>10 DEF DeliveryNext

-----------------------------------------------------------------------------
(* Theorems *)

\* The inductive invariant holds throughout, whatever the sessions, the links, the store
\* and either process do.
THEOREM DeliveryInvariant == DeliverySpec => []DeliveryIInv
BY DeliveryStarts, DeliveryStepKeeps, PTL DEF DeliverySpec

\* An operation's command is handed to a backend once over all sessions together, also
\* when commits fail, links break and either process restarts (AgentExecutionGate::begin
\* behind mark_dispatched); and an evidence gap (handle_reconciliation_report) is never
\* declared for an operation the Agent's journal still knows.
THEOREM ReconnectionIsSafe == DeliverySpec => []ReconnectionSafe
<1>1. DeliveryIInv => AtMostOnce
    <2> SUFFICES ASSUME DeliveryIInv, NEW op \in OpId, NEW g \in Generation, NEW h \in Generation
                 PROVE  /\ started[op][g] <= 1
                        /\ started[op][g] = 1 /\ started[op][h] = 1 => g = h
        BY DEF AtMostOnce
    <2>1. started[op][g] <= 1
        BY AgentFacts DEF DeliveryIInv
    <2>2. started[op][g] # 0 /\ started[op][h] # 0 => g = h
        BY DEF DeliveryIInv, Tokens
    <2> QED BY <2>1, <2>2
<1>2. DeliveryIInv => GapIsHonest
    BY NoFrame, JournalHolds DEF DeliveryIInv, EvidenceSound, GapIsHonest
<1> QED BY <1>1, <1>2, DeliveryInvariant, PTL DEF ReconnectionSafe

\* record_terminal_evidence drops the oldest entry of the bounded journal only when the Hub
\* has no use for it any more: the operation is neither in flight nor waiting for a report.
THEOREM EvidenceIsKept == DeliverySpec => EvidenceOutlivesNeed
<1> DEFINE Dropping == \A op \in Agent!JournalIds(disk.journal) \ Agent!JournalIds(disk'.journal) :
                          state[op] \notin InFlight /\ recon[op] # "Auto"
<1>1. ASSUME DeliveryIInv, [DeliveryNext]_deliveryVars PROVE Dropping
    <2> SUFFICES ASSUME NEW op \in Agent!JournalIds(disk.journal),
                        op \notin Agent!JournalIds(disk'.journal)
                 PROVE  state[op] \notin InFlight /\ recon[op] # "Auto"
        OBVIOUS
    <2>1. op \in OpId
        <3>1. PICK e \in Range(disk.journal) : e.op = op
            BY JournalHolds
        <3>2. e \in Agent!Evidence
            BY <1>1, AgentFacts, FrameTypes DEF DeliveryIInv
        <3> QED BY <3>1, <3>2 DEF Agent!Evidence
    <2>2. gate.active \in OpId
        BY <1>1, JournalMoves
    <2>3. Open(gate.active) /\ gate.active # op
        BY <1>1, <2>2 DEF DeliveryIInv, Tokens, Done
    <2>4. ~ Open(op)
        BY <1>1, <2>1, <2>2, <2>3, OneOpen DEF DeliveryIInv
    <2> QED BY <1>1, <2>1, <2>4 DEF DeliveryIInv, ReceiptsSound, Open
<1>2. DeliveryIInv /\ [DeliveryNext]_deliveryVars => [Dropping]_deliveryVars
    BY <1>1
<1>3. EvidenceOutlivesNeed <=> [][Dropping]_deliveryVars
    BY DEF EvidenceOutlivesNeed
<1> HIDE DEF Dropping
<1> QED BY <1>2, <1>3, DeliveryInvariant, PTL DEF DeliverySpec

\* Every receipt of the Hub is true of the Agent: a settled result or a reconciled report
\* was established by a worker, and what was settled as never dispatched or never delivered
\* has not run and will not.
THEOREM ReceiptsAreTrue == DeliverySpec => []HubOutcomeTruthful
<1>1. DeliveryIInv => HubOutcomeTruthful
    <2> SUFFICES ASSUME DeliveryIInv, NEW op \in OpId
                 PROVE  /\ proof[op] \in {"Result", "Reconciled"} /\ state[op] \in Terminal =>
                              \E g \in Generation : state[op] \in proved[op][g]
                        /\ proof[op] \in {"BeforeDispatch", "NotDelivered"} =>
                              \A g \in Generation :
                                  /\ started[op][g] = 0
                                  /\ [type |-> "Command", op |-> op] \notin Range(toAgent[g])
        BY DEF HubOutcomeTruthful
    <2>1. proof[op] \in {"Result", "Reconciled"} /\ state[op] \in Terminal => Established(op, state[op])
        BY DEF DeliveryIInv, Truths
    <2>2. proof[op] \in {"BeforeDispatch", "NotDelivered"} =>
             ~ Seen(op) /\ \A g \in Generation : ~ Framed(op, g)
        BY DEF DeliveryIInv, Tokens
    <2> QED BY <2>1, <2>2 DEF Established, Seen, Framed, CommandOf
<1> QED BY <1>1, DeliveryInvariant, PTL

\* The Agent's session loop never meets a command it has to answer by exiting: a replayed id
\* or a second command while one is running.
THEOREM AgentNeverRefuses == DeliverySpec => []CommandsAreFresh
<1>1. ASSUME DeliveryIInv PROVE CommandsAreFresh
    <2> DEFINE message == Head(toAgent[session])
    <2> SUFFICES ASSUME Agent!InLoop, toAgent[session] # << >>, message.type = "Command"
                 PROVE  running = NoOp /\ message.op \notin gate.terminal
        BY DEF CommandsAreFresh
    <2>1. process = "Session" /\ step = "Loop" /\ session \in Generation /\ gate.active = running
          /\ running \in OpId \cup {NoOp}
        BY <1>1, AgentFacts DEF Agent!InLoop, DeliveryIInv
    <2>2. message \in Range(toAgent[session]) /\ message \in AgentFrame
        BY <1>1, <2>1, TakeFrame DEF DeliveryIInv, SessionTypes
    <2> HIDE DEF message
    <2>3. message.op \in OpId /\ Framed(message.op, session)
        BY <2>2 DEF AgentFrame, Framed, CommandOf
    <2>4. Open(message.op) /\ ~ Seen(message.op)
        BY <1>1, <2>1, <2>3 DEF DeliveryIInv, Tokens
    <2>5. ASSUME running \in OpId PROVE FALSE
        <3>1. Open(running)
            BY <1>1, <2>1, <2>5 DEF DeliveryIInv, Tokens
        <3>2. running = message.op
            BY <1>1, <2>3, <2>4, <2>5, <3>1, OneOpen DEF DeliveryIInv
        <3> QED BY <2>1, <2>4, <3>2 DEF Seen
    <2> QED BY <2>1, <2>4, <2>5 DEF Seen
<1> QED BY <1>1, DeliveryInvariant, PTL

\* Every field of the Hub's sessions, of its ledger and of the Agent keeps its type.
THEOREM DeliveryTypeCorrect == DeliverySpec => []DeliveryTypeOK
<1>1. ASSUME DeliveryIInv PROVE DeliveryTypeOK
    <2>1. AdmissionTypeOK
        BY <1>1, LedgerParts DEF DeliveryIInv, LedgerSound, Types, AdmissionTypeOK
    <2>2. Agent!AgentTypeOK
        BY <1>1 DEF DeliveryIInv, Agents!AgentIInv, Agents!AgentTypeOK, Agent!AgentTypeOK,
           Agents!Steps, Agent!Steps, Agents!Gate, Agent!Gate, Agents!Outcome, Agent!Outcome,
           Agents!Results, Agent!Results, Agents!Receipts, Agent!Receipts, Agents!Ambiguous,
           Agent!Ambiguous, Agents!NoReply, Agent!NoReply, Agents!Evidence, Agent!Evidence,
           Agents!AgentGeneration, Agent!AgentGeneration
    <2> QED BY <1>1, <2>1, <2>2 DEF DeliveryIInv, SessionTypes, DeliveryTypeOK
<1> QED BY <1>1, DeliveryInvariant, PTL

\* cleanup_session settles what its generation dispatched: while the store accepts commits,
\* an operation in flight has a session that will settle it.  (Without the hypothesis this is
\* false: the run orphaned_dispatch shows it.)
THEOREM InFlightIsAttended ==
    ASSUME MaxStoreFailures = 0
    PROVE  DeliverySpec => []InFlightHasSession
<1>1. DeliveryInit => InFlightHasSession
    BY DEF DeliveryInit, AdmissionInit, InFlightHasSession
<1>2. DeliveryIInv /\ InFlightHasSession /\ [DeliveryNext]_deliveryVars => InFlightHasSession'
    BY DeliveryAttends
<1> QED BY <1>1, <1>2, DeliveryInvariant, PTL DEF DeliverySpec

\* Hub and Agent together, while the store accepts commits.
THEOREM DeliveryIsSafe ==
    ASSUME MaxStoreFailures = 0
    PROVE  DeliverySpec => []DeliverySafe
BY DeliveryTypeCorrect, AgentNeverRefuses, InFlightIsAttended, ReceiptsAreTrue, PTL DEF DeliverySafe
=============================================================================
