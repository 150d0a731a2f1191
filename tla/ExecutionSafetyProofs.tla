----------------------- MODULE ExecutionSafetyProofs ------------------------
(***************************************************************************)
(* AuthoritativeOperationController keeps two books: the admission ledger  *)
(* it drives and its own record of every operation, with quarantines,      *)
(* histories, retirements, barriers and resumes.  For any set of ids and   *)
(* desktops and any limits, the two never drift apart, a quarantine ends   *)
(* only with proof, a retired outcome stays unknown, a barrier holds and   *)
(* every receipt fits its outcome.                                         *)
(*                                                                         *)
(* The inductive invariant is that of the ledger (AdmissionIInv) with, for *)
(* the second book: what it may hold (BookTypes, RecordsOK), that both     *)
(* books tell one story (Agrees, Quarantines), that nothing mutates behind *)
(* a barrier (Bars) and that no retired id is at work (Undecided).  Each is  *)
(* an operator of the books it relates, because most methods change the    *)
(* records twice: once themselves and once by starting what the freed slot *)
(* lets in.                                                                *)
(*                                                                         *)
(* The later parts are about the directory of checkpoints these books are  *)
(* kept in, about the tools that repair it while no Hub runs, and about    *)
(* the sessions with an Agent in which commands are granted.               *)
(***************************************************************************)
EXTENDS ExecutionSafety, OfflineMaintenance, LocalCheckpointStore, TrustedSessions,
        AdmissionProofs

USE DEF HubOperationState, Unsettled, Running, InFlight, Terminal

QuarantineRecords == [op : OpId, generation : Generation, reason : IndeterminateReason]
HistoryRecords == [op : OpId, ref : OperationRef, cap : DeviceCapability,
                   state : Terminal, evidence : ExecutionEvidence]
RetirementRecords ==
    [ref : OperationRef, cap : {"Scroll", "PointerClick"},
     disposition : {"Retired", "CurrentStateAccepted"}, reason : IndeterminateReason,
     prior : {"OperatorRequired", "UnrecoverableEvidenceGap"}, authorized : Generation]
BarrierRecords == [source : OpId, sourceGeneration : Generation, accepted : Generation]
ResumeRecords == [device : Device, accepted : Generation, resumed : Generation]

BookTypes ==
    /\ archive \subseteq OpId
    /\ quarantine \in [Device -> QuarantineRecords \cup {NoQuarantine}]
    /\ resolutions \subseteq OpId
    /\ autoResolutions \in Seq(HistoryRecords)
    /\ retirement \in [OpId -> RetirementRecords \cup {NoRetirement}]
    /\ barrier \in [Device -> BarrierRecords \cup {NoBarrier}]
    /\ resume \in [OpId -> ResumeRecords \cup {NoResume}]
    /\ generation \in [Device -> 0..MaxGeneration]

\* The receipt, the dispatch mark and the lane of a record fit its state.
RecordFits(r) ==
    /\ (r.evidence # "None") <=> r.state \in Terminal
    /\ r.evidence = "CancelledBeforeDispatch" <=> r.state = "Cancelled" /\ ~ r.dispatched
    /\ r.state = "Completed" => r.evidence \in {"VerifiedAgentResult", "OperatorResolution"}
    /\ r.state = "Cancelled" /\ r.dispatched =>
          r.evidence \in {"ProvenProcessTermination", "OperatorResolution"} \cup NonDelivery
    /\ r.state \in {"Queued", "ActiveNotDispatched"} => ~ r.dispatched
    /\ r.state \in InFlight \cup {"Indeterminate"} => r.dispatched
    /\ r.lane = "RecoveryEvidenceRead" =>
          r.cap = "EvidenceRead" /\ r.state \notin {"Queued", "Indeterminate"}

RecordsOK(r) ==
    /\ r \in [OpId -> SafetyOperation \cup {NoRecord}]
    /\ \A q \in OpId : r[q] # NoRecord => RecordFits(r[q])

\* The two copies of an operation's state and lane are one.
Agrees(r, st, reads) ==
    /\ \A q \in OpId : r[q].state = st[q]
    /\ \A q \in reads : r[q].lane = "RecoveryEvidenceRead"
    /\ \A q \in OpId : st[q] \in Unsettled /\ q \notin reads => r[q].lane = "Normal"

Quarantines(qu, rf, blk, r) ==
    \A d \in Device :
        /\ qu[d].op = blk[d]
        /\ qu[d] # NoQuarantine => /\ qu[d].generation = rf[blk[d]].generation
                                   /\ qu[d].reason = r[blk[d]].reason

Bars(r, rf, br) ==
    \A q \in OpId : r[q].state \in Unsettled /\ br[rf[q].device] # NoBarrier =>
        r[q].cap \in ObserveClass

\* A replay-denied id is never at work again.
Undecided(st, ret) == \A q \in ret : st[q] \in {"Absent", "Indeterminate"}

SafetyIInv ==
    /\ AdmissionIInv
    /\ BookTypes
    /\ RecordsOK(rec)
    /\ Agrees(rec, state, recoveryReads)
    /\ Quarantines(quarantine, ref, blocked, rec)
    /\ Bars(rec, ref, barrier)
    /\ Undecided(state, retired)

\* An id without a record is absent, and a record never is.
LEMMA Recordings ==
    /\ NoRecord.state = "Absent"
    /\ \A r \in SafetyOperation : r # NoRecord /\ r.state # "Absent"
  BY DEF NoRecord, SafetyOperation

\* A quarantine names its operation; its absence names none.
LEMMA NoQuarantineHasNoOp ==
    /\ NoQuarantine.op = NoOp
    /\ \A q \in QuarantineRecords : q.op \in OpId /\ q # NoQuarantine
  BY AdmissionConstants DEF NoQuarantine, QuarantineRecords

\* What the last step of a method, start_next_for_available_capacity, does to
\* the ledger `st' it finds.
StartsFrom(st) ==
    \A q \in OpId : \/ state'[q] = st[q]
                    \/ /\ st[q] = "Queued" /\ state[q] = "Queued"
                       /\ state'[q] = "ActiveNotDispatched"

\* Copying the starts of the ledger into the records keeps the two in step.
LEMMA ActivateKeeps ==
    ASSUME NEW r, NEW st, NEW reads, NEW rf, NEW br,
           reads \subseteq OpId,
           RecordsOK(r), Agrees(r, st, reads), Bars(r, rf, br), StartsFrom(st),
           \A q \in OpId : st[q] = state[q] \/ st[q] \notin {"Queued", "ActiveNotDispatched"},
           rec' = ActivateNext(r)
    PROVE  /\ RecordsOK(rec') /\ Agrees(rec', state', reads) /\ Bars(rec', rf, br)
           /\ \A q \in OpId : r[q].state # "Queued" => rec'[q] = r[q]
           /\ \A q \in OpId : rec'[q].reason = r[q].reason
  <1>1. /\ rec' = [q \in OpId |->
                     IF state[q] = "Queued" /\ state'[q] = "ActiveNotDispatched"
                     THEN [r[q] EXCEPT !.state = "ActiveNotDispatched"] ELSE r[q]]
        /\ r \in [OpId -> SafetyOperation \cup {NoRecord}]
        /\ \A q \in OpId : r[q].state = st[q]
    BY DEF ActivateNext, RecordsOK, Agrees
  <1>2. ASSUME NEW q \in OpId
        PROVE  \/ rec'[q] = r[q] /\ state'[q] = r[q].state
               \/ /\ r[q] \in SafetyOperation /\ r[q].state = "Queued"
                  /\ state'[q] = "ActiveNotDispatched"
                  /\ rec'[q] = [r[q] EXCEPT !.state = "ActiveNotDispatched"]
    BY <1>1, <1>2, Recordings DEF StartsFrom
  <1>3. ASSUME NEW q \in OpId, r[q] \in SafetyOperation, r[q].state = "Queued",
               rec'[q] = [r[q] EXCEPT !.state = "ActiveNotDispatched"]
        PROVE  /\ rec'[q] \in SafetyOperation /\ RecordFits(rec'[q])
               /\ rec'[q].state = "ActiveNotDispatched" /\ rec'[q].lane = r[q].lane
               /\ rec'[q].cap = r[q].cap /\ rec'[q].reason = r[q].reason
    <2>1. RecordFits(r[q])
      BY <1>3, Recordings DEF RecordsOK
    <2>2. /\ rec'[q] \in SafetyOperation
          /\ rec'[q].state = "ActiveNotDispatched" /\ rec'[q].lane = r[q].lane
          /\ rec'[q].cap = r[q].cap /\ rec'[q].reason = r[q].reason
          /\ rec'[q].evidence = r[q].evidence /\ rec'[q].dispatched = r[q].dispatched
      BY <1>3 DEF SafetyOperation
    <2> QED BY <2>1, <2>2, <1>3 DEF RecordFits
  <1>4. RecordsOK(rec')
    <2>1. rec' \in [OpId -> SafetyOperation \cup {NoRecord}]
      BY <1>1, <1>2, <1>3
    <2>2. ASSUME NEW q \in OpId, rec'[q] # NoRecord PROVE RecordFits(rec'[q])
      BY <1>2, <1>3, <2>2 DEF RecordsOK
    <2> QED BY <2>1, <2>2 DEF RecordsOK
  <1>5. Agrees(rec', state', reads)
    <2>0. ASSUME NEW q \in OpId
          PROVE  /\ rec'[q].state = state'[q] /\ rec'[q].lane = r[q].lane
                 /\ state'[q] \in Unsettled => st[q] \in Unsettled
      <3>1. CASE rec'[q] = r[q] /\ state'[q] = r[q].state
        BY <3>1, <1>1
      <3>2. CASE /\ r[q] \in SafetyOperation /\ r[q].state = "Queued"
                 /\ state'[q] = "ActiveNotDispatched"
                 /\ rec'[q] = [r[q] EXCEPT !.state = "ActiveNotDispatched"]
        BY <3>2, <1>1, <1>3
      <3> QED BY <1>2, <3>1, <3>2
    <2>1. \A q \in OpId : rec'[q].state = state'[q]
      BY <2>0
    <2>2. ASSUME NEW q \in reads PROVE rec'[q].lane = "RecoveryEvidenceRead"
      BY <2>0, <2>2 DEF Agrees
    <2>3. ASSUME NEW q \in OpId, state'[q] \in Unsettled, q \notin reads
          PROVE  rec'[q].lane = "Normal"
      BY <2>0, <2>3 DEF Agrees
    <2> QED BY <2>1, <2>2, <2>3 DEF Agrees
  <1>6. Bars(rec', rf, br)
    <2>1. ASSUME NEW q \in OpId, rec'[q].state \in Unsettled, br[rf[q].device] # NoBarrier
          PROVE  rec'[q].cap \in ObserveClass
      BY <1>2, <1>3, <2>1 DEF Bars
    <2> QED BY <2>1 DEF Bars
  <1>7. \A q \in OpId : r[q].state # "Queued" => rec'[q] = r[q]
    BY <1>2
  <1>8. \A q \in OpId : rec'[q].reason = r[q].reason
    BY <1>2, <1>3
  <1> QED BY <1>4, <1>5, <1>6, <1>7, <1>8

\* start_next_for_available_capacity only starts what is queued.
LEMMA StartNextStarts ==
    ASSUME NEW st \in [OpId -> HubOperationState \cup {"Absent"}], NEW act, NEW blk,
           NEW preferred \in Device, queue \in [Device -> Seq(OpId)],
           Queues(st, ref, queue), \A q \in OpId : st[q] = "Queued" => state[q] = "Queued",
           StartNextForAvailableCapacity(preferred, st, act, blk)
    PROVE  StartsFrom(st)
  <1>1. CASE StartNothing(preferred, st, act, blk)
    BY <1>1 DEF StartNothing, StartsFrom
  <1>2. CASE StartOne(preferred, st, act, blk)
    <2>1. PICK d \in Device : state' = [st EXCEPT ![Head(queue[d])] = "ActiveNotDispatched"]
      BY <1>2 DEF StartOne, Startable
    <2>2. ASSUME NEW q \in OpId
          PROVE  \/ state'[q] = st[q]
                 \/ /\ st[q] = "Queued" /\ state[q] = "Queued"
                    /\ state'[q] = "ActiveNotDispatched"
      <3>1. CASE st[q] # "Queued"
        BY <3>1, StartNextTouchesQueuedOnly
      <3>2. CASE st[q] = "Queued"
        BY <3>2, <2>1
      <3> QED BY <3>1, <3>2
    <2> QED BY <2>2 DEF StartsFrom
  <1> QED BY <1>1, <1>2 DEF StartNextForAvailableCapacity

\* Freeing a slot gives its operation an outcome and only starts what is queued.
LEMMA FreeSlotStarts ==
    ASSUME AdmissionIInv, NEW id \in OpId, NEW terminal \in Terminal,
           state[id] \in Running, FreeSlot(id, terminal)
    PROVE  /\ StartsFrom([state EXCEPT ![id] = terminal])
           /\ \A q \in OpId : LET st == [state EXCEPT ![id] = terminal] IN
                 st[q] = state[q] \/ st[q] \notin {"Queued", "ActiveNotDispatched"}
  <1> USE LedgerParts
  <1> DEFINE st == [state EXCEPT ![id] = terminal]
             act == [active EXCEPT ![ref[id].device] = NoOp]
  <1>1. /\ st \in [OpId -> HubOperationState \cup {"Absent"}]
        /\ \A q \in OpId : st[q] = "Queued" <=> state[q] = "Queued"
        /\ \A q \in OpId : st[q] = state[q] \/ st[q] \notin {"Queued", "ActiveNotDispatched"}
    BY DEF Types
  <1>2. Queues(st, ref, queue)
    BY <1>1, QueuesFollowQueued
  <1>3. /\ StartNextForAvailableCapacity(ref[id].device, st, act, blocked)
        /\ ref[id].device \in Device /\ queue \in [Device -> Seq(OpId)]
    BY DEF FreeSlot, Of, Refs, Types, OperationRef
  <1> HIDE DEF st, act
  <1>4. StartsFrom(st)
    BY <1>1, <1>2, <1>3, StartNextStarts
  <1> QED BY <1>1, <1>4 DEF st

\* Freeing a blocked desktop does the same.
LEMMA UnblockStarts ==
    ASSUME AdmissionIInv, NEW id \in OpId, NEW outcome \in Terminal \cup {"Indeterminate"},
           IsBlocking(id), Unblock(id, outcome)
    PROVE  /\ StartsFrom([state EXCEPT ![id] = outcome])
           /\ \A q \in OpId : LET st == [state EXCEPT ![id] = outcome] IN
                 st[q] = state[q] \/ st[q] \notin {"Queued", "ActiveNotDispatched"}
  <1> USE LedgerParts
  <1> DEFINE st == [state EXCEPT ![id] = outcome]
             blk == [blocked EXCEPT ![ref[id].device] = NoOp]
  <1>1. /\ st \in [OpId -> HubOperationState \cup {"Absent"}]
        /\ \A q \in OpId : st[q] = "Queued" <=> state[q] = "Queued"
        /\ \A q \in OpId : st[q] = state[q] \/ st[q] \notin {"Queued", "ActiveNotDispatched"}
    BY DEF Types, IsBlocking
  <1>2. Queues(st, ref, queue)
    BY <1>1, QueuesFollowQueued
  <1>3. /\ StartNextForAvailableCapacity(ref[id].device, st, active, blk)
        /\ ref[id].device \in Device /\ queue \in [Device -> Seq(OpId)]
    BY DEF Unblock, Of, Refs, Types, OperationRef, IsBlocking
  <1> HIDE DEF st, blk
  <1>4. StartsFrom(st)
    BY <1>1, <1>2, <1>3, StartNextStarts
  <1> QED BY <1>1, <1>4 DEF st

\* What the inductive invariant says of each book.
LEMMA SafetyParts ==
    ASSUME SafetyIInv
    PROVE  /\ AdmissionIInv /\ BookTypes /\ RecordsOK(rec)
           /\ Agrees(rec, state, recoveryReads)
           /\ Quarantines(quarantine, ref, blocked, rec)
           /\ Bars(rec, ref, barrier) /\ Undecided(state, retired)
           /\ rec \in [OpId -> SafetyOperation \cup {NoRecord}]
           /\ \A q \in OpId : rec[q].state = state[q]
           /\ \A q \in OpId : state[q] # "Absent" =>
                 rec[q] \in SafetyOperation /\ RecordFits(rec[q]) /\ ref[q] \in OperationRef
           /\ \A d \in Device : blocked[d] # NoOp =>
                 blocked[d] \in OpId /\ state[blocked[d]] = "Indeterminate"
  <1>1. /\ AdmissionIInv /\ BookTypes /\ RecordsOK(rec)
        /\ Agrees(rec, state, recoveryReads)
        /\ Quarantines(quarantine, ref, blocked, rec)
        /\ Bars(rec, ref, barrier) /\ Undecided(state, retired)
    BY DEF SafetyIInv
  <1>2. /\ rec \in [OpId -> SafetyOperation \cup {NoRecord}]
        /\ \A q \in OpId : rec[q].state = state[q]
    BY <1>1 DEF RecordsOK, Agrees
  <1>3. ASSUME NEW q \in OpId, state[q] # "Absent"
        PROVE  rec[q] \in SafetyOperation /\ RecordFits(rec[q]) /\ ref[q] \in OperationRef
    BY <1>1, <1>2, <1>3, Recordings, LedgerParts DEF RecordsOK, Refs
  <1>4. \A d \in Device : blocked[d] # NoOp =>
          blocked[d] \in OpId /\ state[blocked[d]] = "Indeterminate"
    BY <1>1, LedgerParts DEF Types, Blocks
  <1> QED BY <1>1, <1>2, <1>3, <1>4

\* The two books quarantine the same desktops, for the same operation.
LEMMA QuarantinedIsBlocked ==
    ASSUME SafetyIInv, NEW e \in Device, quarantine[e] # NoQuarantine
    PROVE  blocked[e] # NoOp
  <1>1. quarantine[e] \in QuarantineRecords /\ quarantine[e].op = blocked[e]
    BY SafetyParts DEF BookTypes, Quarantines
  <1> QED BY <1>1, NoQuarantineHasNoOp, AdmissionConstants

\* prepare_with_metadata, in either lane.
LEMMA PrepareKeeps ==
    ASSUME SafetyIInv, NEW id \in OpId, NEW d \in Device, NEW g \in Generation,
           NEW cap \in Capabilities, Prepare(id, d, g, cap)
    PROVE  SafetyIInv'
  <1> USE SafetyParts
  <1> DEFINE lane == IF Quarantined(d) THEN "RecoveryEvidenceRead" ELSE "Normal"
             new == [cap |-> cap, lane |-> lane, state |-> state'[id], dispatched |-> FALSE,
                     reason |-> "None", evidence |-> "None", result |-> FALSE,
                     binding |-> FALSE, recon |-> "None"]
  <1>1. /\ ~ Recorded(id) /\ cap \in DeviceCapability
        /\ Barred(d) => cap \in ObserveClass
        /\ Quarantined(d) => cap = "EvidenceRead"
        /\ IF Quarantined(d) THEN AdmitRecoveryReadOnly(id, d, g) ELSE Admit(id, d, g)
        /\ rec' = [rec EXCEPT ![id] = new]
        /\ UNCHANGED <<archive, quarantine, resolutions, autoResolutions, retirement,
                       barrier, resume, generation>>
    BY SafetyConstants DEF Prepare
  <1>2. id \notin retired
    <2>1. CASE Quarantined(d)
      BY <1>1, <2>1 DEF Prepare, FreshId, ObserveClass
    <2>2. CASE ~ Quarantined(d)
      BY <1>1, <2>2 DEF Admit, AdmitNow, AdmitQueued
    <2> QED BY <2>1, <2>2
  <1>3. /\ state[id] = "Absent" /\ id \notin recoveryReads
        /\ \/ state' = [state EXCEPT ![id] = "ActiveNotDispatched"]
           \/ state' = [state EXCEPT ![id] = "Queued"] /\ ~ Quarantined(d)
        /\ ref' = [ref EXCEPT ![id] = [device |-> d, generation |-> g]]
        /\ recoveryReads' = IF Quarantined(d) THEN recoveryReads \cup {id} ELSE recoveryReads
        /\ blocked' = blocked /\ retired' = retired
    <2>1. state[id] = "Absent" /\ id \notin recoveryReads
      BY <1>1, LedgerParts DEF Recorded, NoRecord, Known, Admit, AdmitNow, AdmitQueued,
           AdmitRecoveryReadOnly, Lane
    <2>2. CASE Quarantined(d)
      BY <1>1, <2>1, <2>2 DEF AdmitRecoveryReadOnly, Start
    <2>3. CASE ~ Quarantined(d)
      BY <1>1, <2>1, <2>3 DEF Admit, AdmitNow, AdmitQueued, Start
    <2> QED BY <2>1, <2>2, <2>3
  <1>4. AdmissionIInv'
    <2>1. CASE AdmitRecoveryReadOnly(id, d, g)
      BY <2>1, StartKeepsLedger DEF AdmitRecoveryReadOnly
    <2>2. CASE AdmitNow(id, d, g)
      BY <2>2, StartKeepsLedger DEF AdmitNow
    <2>3. CASE AdmitQueued(id, d, g)
      BY <2>3, AdmitQueuedKeepsLedger
    <2> QED BY <1>1, <2>1, <2>2, <2>3 DEF Admit
  <1>t. state \in [OpId -> HubOperationState \cup {"Absent"}]
        /\ ref \in [OpId -> OperationRef \cup {NoRef}] /\ recoveryReads \subseteq OpId
    BY LedgerParts DEF Types
  <1>5. /\ new \in SafetyOperation /\ RecordFits(new) /\ new.state = state'[id]
        /\ new.lane = lane /\ new.cap = cap /\ state'[id] \in {"Queued", "ActiveNotDispatched"}
        /\ Quarantined(d) => state'[id] = "ActiveNotDispatched"
    <2>1. /\ state'[id] \in {"Queued", "ActiveNotDispatched"}
          /\ Quarantined(d) => state'[id] = "ActiveNotDispatched"
      BY <1>3, <1>t
    <2>2. lane \in {"Normal", "RecoveryEvidenceRead"}
      OBVIOUS
    <2>3. lane = "RecoveryEvidenceRead" => cap = "EvidenceRead" /\ state'[id] # "Queued"
      BY <1>1, <2>1
    <2> HIDE DEF lane
    <2>4. new \in SafetyOperation
      BY <1>1, <2>1, <2>2 DEF SafetyOperation
    <2>5. RecordFits(new)
      BY <2>1, <2>3 DEF RecordFits, NonDelivery
    <2> QED BY <2>1, <2>4, <2>5
  <1> HIDE DEF new, lane
  <1>6. BookTypes'
    BY <1>1 DEF BookTypes
  <1>7. RecordsOK(rec')
    BY <1>1, <1>5 DEF RecordsOK
  <1>8. /\ rec'[id] = new /\ \A q \in OpId : q # id => rec'[q] = rec[q]
        /\ \A q \in OpId : q # id => state'[q] = state[q] /\ ref'[q] = ref[q]
        /\ ref'[id].device = d
    BY <1>1, <1>3, <1>t
  <1>9. Agrees(rec', state', recoveryReads')
    <2>1. \A q \in OpId : rec'[q].state = state'[q]
      BY <1>5, <1>8
    <2>2. ASSUME NEW q \in recoveryReads' PROVE rec'[q].lane = "RecoveryEvidenceRead"
      BY <1>3, <1>5, <1>8, <1>t, <2>2 DEF Agrees, lane
    <2>3. ASSUME NEW q \in OpId, state'[q] \in Unsettled, q \notin recoveryReads'
          PROVE  rec'[q].lane = "Normal"
      BY <1>3, <1>5, <1>8, <2>3 DEF Agrees, lane
    <2> QED BY <2>1, <2>2, <2>3 DEF Agrees
  <1>10. Quarantines(quarantine', ref', blocked', rec')
    <2>1. \A e \in Device : blocked[e] # NoOp => blocked[e] \in OpId /\ blocked[e] # id
      BY <1>3
    <2>2. \A e \in Device : quarantine[e] # NoQuarantine => blocked[e] # NoOp
      BY QuarantinedIsBlocked
    <2> QED BY <1>1, <1>3, <1>8, <2>1, <2>2 DEF Quarantines
  <1>11. Bars(rec', ref', barrier')
    <2>1. ASSUME NEW q \in OpId, rec'[q].state \in Unsettled,
                 barrier'[ref'[q].device] # NoBarrier
          PROVE  rec'[q].cap \in ObserveClass
      BY <1>1, <1>5, <1>8, <2>1 DEF Bars, Barred
    <2> QED BY <2>1 DEF Bars
  <1>12. Undecided(state', retired')
    BY <1>2, <1>3, <1>8, LedgerParts DEF Undecided, Types
  <1> QED BY <1>4, <1>6, <1>7, <1>9, <1>10, <1>11, <1>12 DEF SafetyIInv

\* r is rec but for the record of id, which is settled or undecided.
Settles(r, id) ==
    /\ r \in [OpId -> SafetyOperation \cup {NoRecord}]
    /\ \A q \in OpId : q # id => r[q] = rec[q]
    /\ r[id] \in SafetyOperation /\ RecordFits(r[id]) /\ r[id].state \notin Unsettled

\* Giving one operation a fitting outcome keeps the records fit.
LEMMA SettledRecords ==
    ASSUME SafetyIInv, NEW id \in OpId, NEW r, Settles(r, id)
    PROVE  /\ RecordsOK(r)
           /\ Agrees(r, [state EXCEPT ![id] = r[id].state], recoveryReads \ {id})
           /\ Bars(r, ref, barrier)
  <1> USE SafetyParts
  <1>1. RecordsOK(r)
    BY DEF Settles, RecordsOK
  <1>2. Agrees(r, [state EXCEPT ![id] = r[id].state], recoveryReads \ {id})
    <2> DEFINE st == [state EXCEPT ![id] = r[id].state]
    <2>0. /\ st[id] = r[id].state /\ \A q \in OpId : q # id => st[q] = state[q]
          /\ recoveryReads \subseteq OpId
      BY LedgerParts DEF Types
    <2> HIDE DEF st
    <2>1. \A q \in OpId : r[q].state = st[q]
      BY <2>0 DEF Settles
    <2>2. \A q \in recoveryReads \ {id} : r[q].lane = "RecoveryEvidenceRead"
      BY <2>0 DEF Settles, Agrees
    <2>3. \A q \in OpId : st[q] \in Unsettled /\ q \notin recoveryReads \ {id} =>
            r[q].lane = "Normal"
      BY <2>0 DEF Settles, Agrees
    <2> QED BY <2>1, <2>2, <2>3 DEF st, Agrees
  <1>3. Bars(r, ref, barrier)
    BY DEF Settles, Bars
  <1> QED BY <1>1, <1>2, <1>3

\* Quarantines stay as they are when no block and no reason changes.
LEMMA QuarantinesStay ==
    ASSUME SafetyIInv, quarantine' = quarantine, blocked' = blocked, ref' = ref,
           \A q \in OpId : state[q] = "Indeterminate" => rec'[q].reason = rec[q].reason
    PROVE  Quarantines(quarantine', ref', blocked', rec')
  <1> USE SafetyParts
  <1>1. \A e \in Device : quarantine[e] # NoQuarantine => blocked[e] # NoOp
    BY QuarantinedIsBlocked
  <1> QED BY <1>1 DEF Quarantines

\* Lifting the block and the quarantine of one desktop together.
LEMMA QuarantineLeaves ==
    ASSUME SafetyIInv, NEW id \in OpId, IsBlocking(id), ref' = ref,
           quarantine' = [quarantine EXCEPT ![Of(id)] = NoQuarantine],
           blocked' = [blocked EXCEPT ![Of(id)] = NoOp],
           \A q \in OpId : q # id /\ state[q] = "Indeterminate" =>
              rec'[q].reason = rec[q].reason
    PROVE  Quarantines(quarantine', ref', blocked', rec')
  <1> USE SafetyParts
  <1>1. \A e \in Device : quarantine[e] # NoQuarantine => blocked[e] # NoOp
    BY QuarantinedIsBlocked
  <1>2. /\ \A e \in Device : blocked[e] # NoOp /\ e # Of(id) => blocked[e] # id
        /\ Of(id) \in Device
    BY LedgerParts DEF Blocks, Of, IsBlocking, OperationRef
  <1>3. /\ quarantine'[Of(id)] = NoQuarantine /\ blocked'[Of(id)] = NoOp
        /\ \A e \in Device : e # Of(id) =>
              quarantine'[e] = quarantine[e] /\ blocked'[e] = blocked[e]
    BY <1>2, LedgerParts DEF BookTypes, Types
  <1>4. ASSUME NEW e \in Device
        PROVE  /\ quarantine'[e].op = blocked'[e]
               /\ quarantine'[e] # NoQuarantine =>
                     /\ quarantine'[e].generation = ref'[blocked'[e]].generation
                     /\ quarantine'[e].reason = rec'[blocked'[e]].reason
    <2>1. CASE e = Of(id)
      BY <2>1, <1>3, NoQuarantineHasNoOp
    <2>2. CASE e # Of(id)
      BY <2>2, <1>1, <1>2, <1>3 DEF Quarantines
    <2> QED BY <2>1, <2>2
  <1> QED BY <1>4 DEF Quarantines

\* A running operation ends: the ledger frees its slot and may start another.
LEMMA SettleKeeps ==
    ASSUME SafetyIInv, NEW id \in OpId, NEW terminal \in Terminal, NEW r,
           state[id] \in Running, FreeSlot(id, terminal),
           UNCHANGED <<ref, blocked, retired, quarantine, barrier>>, BookTypes',
           Settles(r, id), r[id].state = terminal, rec' = ActivateNext(r)
    PROVE  SafetyIInv'
  <1> USE SafetyParts
  <1> DEFINE st == [state EXCEPT ![id] = terminal]
  <1>1. AdmissionIInv'
    BY FreeSlotKeepsLedger
  <1>2. /\ StartsFrom(st)
        /\ \A q \in OpId : st[q] = state[q] \/ st[q] \notin {"Queued", "ActiveNotDispatched"}
    BY FreeSlotStarts
  <1>3. /\ st[id] = terminal /\ \A q \in OpId : q # id => st[q] = state[q]
        /\ recoveryReads \subseteq OpId /\ retired \subseteq OpId
        /\ recoveryReads' = recoveryReads \ {id}
    BY LedgerParts DEF Types, FreeSlot
  <1>4. RecordsOK(r) /\ Agrees(r, st, recoveryReads \ {id}) /\ Bars(r, ref, barrier)
    BY SettledRecords
  <1> HIDE DEF st
  <1>5. /\ RecordsOK(rec') /\ Agrees(rec', state', recoveryReads \ {id})
        /\ Bars(rec', ref, barrier)
        /\ \A q \in OpId : r[q].state # "Queued" => rec'[q] = r[q]
    <2>1. recoveryReads \ {id} \subseteq OpId
      BY <1>3
    <2> QED BY <1>2, <1>4, <2>1, ActivateKeeps
  <1>6. Quarantines(quarantine', ref', blocked', rec')
    <2>1. \A q \in OpId : state[q] = "Indeterminate" => rec'[q].reason = rec[q].reason
      BY <1>5 DEF Settles
    <2> QED BY <2>1, QuarantinesStay
  <1>7. Undecided(state', retired')
    BY <1>2, <1>3 DEF Undecided, StartsFrom
  <1> QED BY <1>1, <1>3, <1>5, <1>6, <1>7 DEF SafetyIInv

\* An indeterminate operation gets an outcome and its desktop is freed.
LEMMA LeaveKeeps ==
    ASSUME SafetyIInv, NEW id \in OpId, NEW terminal \in Terminal, NEW r,
           IsBlocking(id), Unblock(id, terminal),
           UNCHANGED <<ref, recoveryReads, retired, barrier>>, BookTypes',
           quarantine' = [quarantine EXCEPT ![Of(id)] = NoQuarantine],
           Settles(r, id), r[id].state = terminal, rec' = ActivateNext(r)
    PROVE  SafetyIInv' /\ rec'[id] = r[id]
  <1> USE SafetyParts
  <1> DEFINE st == [state EXCEPT ![id] = terminal]
  <1>1. AdmissionIInv'
    BY UnblockKeepsLedger
  <1>2. /\ StartsFrom(st)
        /\ \A q \in OpId : st[q] = state[q] \/ st[q] \notin {"Queued", "ActiveNotDispatched"}
    BY UnblockStarts
  <1>3. /\ st[id] = terminal /\ \A q \in OpId : q # id => st[q] = state[q]
        /\ recoveryReads \subseteq OpId /\ retired \subseteq OpId
        /\ recoveryReads \ {id} = recoveryReads /\ id \notin retired
    <2>1. state[id] = "Indeterminate" /\ blocked[Of(id)] = id /\ Of(id) \in Device
      BY DEF IsBlocking, Of, OperationRef
    <2>2. id \notin recoveryReads
      BY <2>1, LedgerParts DEF Lane
    <2>3. id \notin retired
      BY <2>1, LedgerParts, AdmissionConstants DEF Blocks
    <2>4. st[id] = terminal /\ \A q \in OpId : q # id => st[q] = state[q]
      BY LedgerParts DEF Types
    <2> QED BY <2>2, <2>3, <2>4, LedgerParts DEF Types
  <1>4. RecordsOK(r) /\ Agrees(r, st, recoveryReads) /\ Bars(r, ref, barrier)
    BY <1>3, SettledRecords
  <1> HIDE DEF st
  <1>5. /\ RecordsOK(rec') /\ Agrees(rec', state', recoveryReads)
        /\ Bars(rec', ref, barrier)
        /\ \A q \in OpId : r[q].state # "Queued" => rec'[q] = r[q]
    BY <1>2, <1>3, <1>4, ActivateKeeps
  <1>6. Quarantines(quarantine', ref', blocked', rec')
    <2>1. \A q \in OpId : q # id /\ state[q] = "Indeterminate" =>
             rec'[q].reason = rec[q].reason
      BY <1>5 DEF Settles
    <2>2. blocked' = [blocked EXCEPT ![Of(id)] = NoOp]
      BY DEF Unblock
    <2> QED BY <2>1, <2>2, QuarantineLeaves
  <1>7. Undecided(state', retired')
    BY <1>2, <1>3 DEF Undecided, StartsFrom
  <1> QED BY <1>1, <1>3, <1>5, <1>6, <1>7 DEF SafetyIInv, Settles

\* A running operation is marked dispatched or asked to cancel.
LEMMA MoveKeeps ==
    ASSUME SafetyIInv, NEW id \in OpId, NEW to \in InFlight,
           state[id] \in Running, state' = [state EXCEPT ![id] = to],
           UNCHANGED <<ref, active, queue, blocked, retired, recoveryReads>>,
           UNCHANGED <<archive, quarantine, resolutions, autoResolutions, retirement,
                       barrier, resume, generation>>,
           rec' \in [OpId -> SafetyOperation \cup {NoRecord}],
           \A q \in OpId : q # id => rec'[q] = rec[q],
           rec'[id] \in SafetyOperation, rec'[id].state = to, RecordFits(rec'[id]),
           rec'[id].lane = rec[id].lane, rec'[id].cap = rec[id].cap
    PROVE  SafetyIInv'
  <1> USE SafetyParts
  <1>1. AdmissionIInv'
    BY RunningMoveKeepsLedger
  <1>2. BookTypes'
    BY DEF BookTypes
  <1>3. RecordsOK(rec')
    BY DEF RecordsOK
  <1>4. /\ state'[id] = to /\ \A q \in OpId : q # id => state'[q] = state[q]
        /\ recoveryReads \subseteq OpId /\ retired \subseteq OpId
    BY LedgerParts DEF Types
  <1>5. Agrees(rec', state', recoveryReads')
    <2>1. \A q \in OpId : rec'[q].state = state'[q]
      BY <1>4
    <2>2. \A q \in recoveryReads : rec'[q].lane = "RecoveryEvidenceRead"
      BY <1>4 DEF Agrees
    <2>3. ASSUME NEW q \in OpId, state'[q] \in Unsettled, q \notin recoveryReads
          PROVE  rec'[q].lane = "Normal"
      <3>1. CASE q = id
        BY <3>1, <2>3 DEF Agrees
      <3>2. CASE q # id
        BY <3>2, <2>3, <1>4 DEF Agrees
      <3> QED BY <3>1, <3>2
    <2> QED BY <2>1, <2>2, <2>3 DEF Agrees
  <1>6. Quarantines(quarantine', ref', blocked', rec')
    BY QuarantinesStay
  <1>7. Bars(rec', ref', barrier')
    <2>1. ASSUME NEW q \in OpId, rec'[q].state \in Unsettled,
                 barrier[ref[q].device] # NoBarrier
          PROVE  rec'[q].cap \in ObserveClass
      <3>1. CASE q = id
        BY <3>1, <2>1 DEF Bars
      <3>2. CASE q # id
        BY <3>2, <2>1 DEF Bars
      <3> QED BY <3>1, <3>2
    <2> QED BY <2>1 DEF Bars
  <1>8. Undecided(state', retired')
    BY <1>4 DEF Undecided
  <1> QED BY <1>1, <1>2, <1>3, <1>5, <1>6, <1>7, <1>8 DEF SafetyIInv

\* mark_dispatched.
LEMMA MarkDispatchedKeeps ==
    ASSUME SafetyIInv, NEW id \in OpId, NEW binding \in BOOLEAN,
           MarkDispatchedWithBinding(id, binding)
    PROVE  SafetyIInv'
  <1> USE SafetyParts
  <1>1. /\ state[id] = "ActiveNotDispatched"
        /\ state' = [state EXCEPT ![id] = "Dispatched"]
        /\ UNCHANGED <<ref, active, queue, blocked, retired, recoveryReads>>
        /\ rec' = [rec EXCEPT ![id].state = "Dispatched", ![id].dispatched = TRUE,
                              ![id].binding = binding, ![id].recon = "None"]
        /\ UNCHANGED <<archive, quarantine, resolutions, autoResolutions, retirement,
                       barrier, resume, generation>>
    BY DEF MarkDispatchedWithBinding, AdmissionMarkDispatched
  <1>2. rec[id] \in SafetyOperation /\ RecordFits(rec[id])
    BY <1>1
  <1>3. /\ rec'[id] \in SafetyOperation /\ rec'[id].state = "Dispatched"
        /\ rec'[id].lane = rec[id].lane /\ rec'[id].cap = rec[id].cap
        /\ rec'[id].evidence = rec[id].evidence /\ rec'[id].dispatched = TRUE
        /\ \A q \in OpId : q # id => rec'[q] = rec[q]
        /\ rec' \in [OpId -> SafetyOperation \cup {NoRecord}]
    <2>1. /\ rec'[id] = [rec[id] EXCEPT !.state = "Dispatched", !.dispatched = TRUE,
                                        !.binding = binding, !.recon = "None"]
          /\ \A q \in OpId : q # id => rec'[q] = rec[q]
          /\ DOMAIN rec' = OpId
      BY <1>1
    <2>2. /\ rec'[id] \in SafetyOperation /\ rec'[id].state = "Dispatched"
          /\ rec'[id].lane = rec[id].lane /\ rec'[id].cap = rec[id].cap
          /\ rec'[id].evidence = rec[id].evidence /\ rec'[id].dispatched = TRUE
      BY <2>1, <1>2 DEF SafetyOperation
    <2>3. rec' = [q \in OpId |-> rec'[q]]
      BY <1>1
    <2>4. \A q \in OpId : rec'[q] \in SafetyOperation \cup {NoRecord}
      BY <2>1, <2>2
    <2> QED BY <2>1, <2>2, <2>3, <2>4
  <1>4. rec[id].state = "ActiveNotDispatched"
    BY <1>1
  <1>5. RecordFits(rec'[id])
    BY <1>2, <1>3, <1>4 DEF RecordFits
  <1> QED BY <1>1, <1>3, <1>5, MoveKeeps

\* request_cancel, of what is queued, not dispatched or in flight.
LEMMA RequestCancelKeeps ==
    ASSUME SafetyIInv, NEW id \in OpId, RequestCancel(id)
    PROVE  SafetyIInv'
  <1> USE SafetyParts
  <1>1. UNCHANGED <<archive, quarantine, resolutions, autoResolutions, retirement,
                    barrier, resume, generation>>
    BY DEF RequestCancel
  <1>b. BookTypes'
    BY <1>1 DEF BookTypes
  <1>2. ASSUME CancelQueued(id) \/ CancelActive(id)
        PROVE  /\ state[id] \in {"Queued", "ActiveNotDispatched"}
               /\ Settles(CancelRecords(rec, {id}), id)
               /\ CancelRecords(rec, {id})[id].state = "Cancelled"
    <2> DEFINE r == CancelRecords(rec, {id})
    <2>1. state[id] \in {"Queued", "ActiveNotDispatched"}
      BY <1>2 DEF CancelQueued, CancelActive
    <2>2. rec[id] \in SafetyOperation /\ RecordFits(rec[id])
          /\ rec[id].state \in {"Queued", "ActiveNotDispatched"}
      BY <2>1
    <2>3. /\ r[id] = [rec[id] EXCEPT !.state = "Cancelled", !.evidence = "CancelledBeforeDispatch"]
          /\ \A q \in OpId : q # id => r[q] = rec[q]
      BY DEF CancelRecords
    <2>4. /\ r[id] \in SafetyOperation /\ r[id].state = "Cancelled"
          /\ r[id].evidence = "CancelledBeforeDispatch" /\ r[id].cap = rec[id].cap
          /\ r[id].lane = rec[id].lane /\ r[id].dispatched = rec[id].dispatched
      BY <2>2, <2>3 DEF SafetyOperation, ExecutionEvidence
    <2>5. r \in [OpId -> SafetyOperation \cup {NoRecord}]
      BY <2>3, <2>4 DEF CancelRecords
    <2> HIDE DEF r
    <2>6. RecordFits(r[id])
      BY <2>2, <2>4 DEF RecordFits
    <2> QED BY <2>1, <2>3, <2>4, <2>5, <2>6 DEF Settles, r
  <1>3. CASE CancelActive(id) /\ rec' = ActivateNext(CancelRecords(rec, {id}))
    <2>1. /\ state[id] = "ActiveNotDispatched" /\ FreeSlot(id, "Cancelled")
          /\ UNCHANGED <<ref, blocked, retired>>
      BY <1>3 DEF CancelActive
    <2> QED BY <1>1, <1>b, <1>2, <1>3, <2>1, SettleKeeps
  <1>4. CASE CancelQueued(id) /\ rec' = ActivateNext(CancelRecords(rec, {id}))
    <2> DEFINE r == CancelRecords(rec, {id})
               st == [state EXCEPT ![id] = "Cancelled"]
    <2>1. /\ state[id] = "Queued" /\ state' = st
          /\ UNCHANGED <<ref, active, blocked, retired, recoveryReads>>
      BY <1>4 DEF CancelQueued
    <2>2. Settles(r, id) /\ r[id].state = "Cancelled"
      BY <1>2, <1>4
    <2>3. id \notin recoveryReads /\ recoveryReads \ {id} = recoveryReads
          /\ recoveryReads \subseteq OpId
      BY <2>1, LedgerParts DEF Lane, Types
    <2>4. RecordsOK(r) /\ Agrees(r, st, recoveryReads) /\ Bars(r, ref, barrier)
      BY <2>2, <2>3, SettledRecords
    <2>5. /\ StartsFrom(st)
          /\ \A q \in OpId : st[q] = state[q] \/ st[q] \notin {"Queued", "ActiveNotDispatched"}
      BY <2>1, LedgerParts DEF StartsFrom, Types
    <2> HIDE DEF r, st
    <2>6. /\ RecordsOK(rec') /\ Agrees(rec', state', recoveryReads)
          /\ Bars(rec', ref, barrier)
          /\ \A q \in OpId : r[q].state # "Queued" => rec'[q] = r[q]
      BY <1>4, <2>3, <2>4, <2>5, ActivateKeeps DEF r
    <2>7. Quarantines(quarantine', ref', blocked', rec')
      <3>1. \A q \in OpId : state[q] = "Indeterminate" => rec'[q].reason = rec[q].reason
        BY <2>1, <2>2, <2>6 DEF Settles
      <3> QED BY <1>1, <2>1, <3>1, QuarantinesStay
    <2>8. Undecided(state', retired')
      <3>1. \A q \in retired : q \in OpId /\ q # id /\ state'[q] = state[q]
        BY <2>1, LedgerParts DEF st, Undecided, Types
      <3> QED BY <2>1, <3>1 DEF Undecided
    <2>9. AdmissionIInv'
      BY <1>4, CancelQueuedKeepsLedger
    <2> QED BY <1>1, <1>b, <2>1, <2>6, <2>7, <2>8, <2>9 DEF SafetyIInv
  <1>5. CASE CancelDispatched(id) /\ rec' = [rec EXCEPT ![id].state = "CancelRequested"]
    <2>1. /\ state[id] = "Dispatched" /\ state' = [state EXCEPT ![id] = "CancelRequested"]
          /\ UNCHANGED <<ref, active, queue, blocked, retired, recoveryReads>>
      BY <1>5 DEF CancelDispatched
    <2>2. rec[id] \in SafetyOperation /\ RecordFits(rec[id]) /\ rec[id].state = "Dispatched"
      BY <2>1
    <2>3. /\ rec'[id] \in SafetyOperation /\ rec'[id].state = "CancelRequested"
          /\ rec'[id].lane = rec[id].lane /\ rec'[id].cap = rec[id].cap
          /\ rec'[id].evidence = rec[id].evidence /\ rec'[id].dispatched = rec[id].dispatched
          /\ \A q \in OpId : q # id => rec'[q] = rec[q]
          /\ rec' \in [OpId -> SafetyOperation \cup {NoRecord}]
      BY <1>5, <2>2 DEF SafetyOperation
    <2>4. RecordFits(rec'[id])
      BY <2>2, <2>3 DEF RecordFits
    <2> QED BY <1>1, <2>1, <2>3, <2>4, MoveKeeps
  <1> QED BY <1>3, <1>4, <1>5 DEF RequestCancel

\* The history of automatic resolutions keeps its type when it rotates.
LEMMA PushTypes ==
    ASSUME SafetyIInv, NEW id \in OpId, state[id] # "Absent", NEW terminal \in Terminal,
           NEW evidence \in ExecutionEvidence
    PROVE  PushAutoResolution(id, terminal, evidence) \in Seq(HistoryRecords)
  <1> USE SafetyParts
  <1> DEFINE h == [op |-> id, ref |-> ref[id], cap |-> rec[id].cap,
                   state |-> terminal, evidence |-> evidence]
             pushed == Append(autoResolutions, h)
             cut == SubSeq(pushed, 1 + Len(pushed) - MaxAutoResolutions, Len(pushed))
  <1>1. h \in HistoryRecords
    <2>1. rec[id].cap \in DeviceCapability /\ ref[id] \in OperationRef
      BY DEF SafetyOperation
    <2> QED BY <2>1 DEF HistoryRecords
  <1> HIDE DEF h
  <1>2. pushed \in Seq(HistoryRecords)
    BY <1>1, AppendProperties DEF BookTypes
  <1> HIDE DEF pushed
  <1>3. ASSUME Len(pushed) > MaxAutoResolutions
        PROVE  cut \in Seq(HistoryRecords)
    <2>1. /\ 1 + Len(pushed) - MaxAutoResolutions \in Int /\ Len(pushed) \in Nat
          /\ 1 + Len(pushed) - MaxAutoResolutions >= 1
      BY <1>2, <1>3, SafetyConstants, LenProperties
    <2>2. \A i \in (1 + Len(pushed) - MaxAutoResolutions)..Len(pushed) :
             pushed[i] \in HistoryRecords
      BY <1>2, <2>1, ElementOfSeq
    <2> QED BY <2>1, <2>2, SubSeqProperties
  <1>4. PushAutoResolution(id, terminal, evidence) =
          IF Len(pushed) > MaxAutoResolutions THEN cut ELSE pushed
    BY DEF PushAutoResolution, h, pushed
  <1> HIDE DEF cut
  <1> QED BY <1>2, <1>3, <1>4

\* The record of a known operation is replaced by one that fits.
LEMMA ReplacedSettles ==
    ASSUME SafetyIInv, NEW id \in OpId, NEW n \in SafetyOperation, RecordFits(n),
           n.state \notin Unsettled, NEW r, DOMAIN r = OpId, r = [q \in OpId |-> r[q]],
           r[id] = n, \A q \in OpId : q # id => r[q] = rec[q]
    PROVE  Settles(r, id)
  <1>1. \A q \in OpId : r[q] \in SafetyOperation \cup {NoRecord}
    BY SafetyParts
  <1> QED BY <1>1 DEF Settles

\* finalize: a running operation ends as the Agent proves.
LEMMA FinalizeKeeps ==
    ASSUME SafetyIInv, NEW id \in OpId, NEW pair \in AuthoritativeTerminal, Finalize(id, pair)
    PROVE  SafetyIInv'
  <1> USE SafetyParts
  <1> DEFINE r == [rec EXCEPT ![id].state = pair[1], ![id].reason = "None",
                              ![id].evidence = pair[2],
                              ![id].result = rec[id].cap \notin ObserveClass]
             n == [rec[id] EXCEPT !.state = pair[1], !.reason = "None",
                              !.evidence = pair[2],
                              !.result = rec[id].cap \notin ObserveClass]
  <1>1. /\ state[id] \in InFlight /\ FreeSlot(id, pair[1]) /\ UNCHANGED <<ref, blocked, retired>>
        /\ rec' = ActivateNext(r)
        /\ UNCHANGED <<archive, quarantine, resolutions, autoResolutions, retirement,
                       barrier, resume, generation>>
    BY DEF Finalize, FinalizeTerminal
  <1>2. /\ pair[1] \in Terminal /\ pair[2] \in ExecutionEvidence
        /\ pair[2] # "None" /\ pair[2] # "CancelledBeforeDispatch"
        /\ pair[1] = "Completed" => pair[2] = "VerifiedAgentResult"
        /\ pair[1] = "Cancelled" => pair[2] = "ProvenProcessTermination"
    BY DEF AuthoritativeTerminal, ExecutionEvidence
  <1>3. rec[id] \in SafetyOperation /\ RecordFits(rec[id]) /\ rec[id].state \in InFlight
    BY <1>1
  <1>4. /\ n \in SafetyOperation /\ n.state = pair[1] /\ n.evidence = pair[2]
        /\ n.dispatched = rec[id].dispatched /\ n.lane = rec[id].lane /\ n.cap = rec[id].cap
    <2>1. ASSUME NEW res \in BOOLEAN, NEW m,
                 m = [rec[id] EXCEPT !.state = pair[1], !.reason = "None",
                                     !.evidence = pair[2], !.result = res]
          PROVE  /\ m \in SafetyOperation /\ m.state = pair[1] /\ m.evidence = pair[2]
                 /\ m.dispatched = rec[id].dispatched /\ m.lane = rec[id].lane
                 /\ m.cap = rec[id].cap
      BY <1>2, <1>3, <2>1 DEF SafetyOperation
    <2>2. (rec[id].cap \notin ObserveClass) \in BOOLEAN
      OBVIOUS
    <2> QED BY <2>1, <2>2
  <1>5. /\ DOMAIN r = OpId /\ r = [q \in OpId |-> r[q]] /\ r[id] = n
        /\ \A q \in OpId : q # id => r[q] = rec[q]
    OBVIOUS
  <1> HIDE DEF r, n
  <1>6. RecordFits(n)
    BY <1>2, <1>3, <1>4 DEF RecordFits
  <1>7. n.state \notin Unsettled
    BY <1>2, <1>4
  <1>8. Settles(r, id)
    BY <1>4, <1>5, <1>6, <1>7, ReplacedSettles
  <1>9. BookTypes'
    BY <1>1 DEF BookTypes
  <1>10. r[id].state = pair[1]
    BY <1>4, <1>5
  <1> QED BY <1>1, <1>2, <1>8, <1>9, <1>10, SettleKeeps

\* resolve_hub_pre_enqueue_non_delivery: a dispatch that never reached the Agent.
LEMMA PreEnqueueKeeps ==
    ASSUME SafetyIInv, NEW id \in OpId, NEW evidence \in NonDelivery,
           ResolveHubPreEnqueueNonDelivery(id, evidence)
    PROVE  SafetyIInv'
  <1> USE SafetyParts
  <1> DEFINE r == [rec EXCEPT ![id].state = "Cancelled", ![id].reason = "None",
                              ![id].recon = "AutoResolved", ![id].result = FALSE,
                              ![id].evidence = evidence]
             n == [rec[id] EXCEPT !.state = "Cancelled", !.reason = "None",
                              !.recon = "AutoResolved", !.result = FALSE,
                              !.evidence = evidence]
  <1>1. /\ state[id] = "Dispatched" /\ FreeSlot(id, "Cancelled")
        /\ UNCHANGED <<ref, blocked, retired>>
        /\ rec' = ActivateNext(r)
        /\ autoResolutions' = PushAutoResolution(id, "Cancelled", evidence)
        /\ UNCHANGED <<archive, quarantine, resolutions, retirement,
                       barrier, resume, generation>>
    BY DEF ResolveHubPreEnqueueNonDelivery, FinalizeTerminal
  <1>2. /\ evidence \in ExecutionEvidence
        /\ evidence # "None" /\ evidence # "CancelledBeforeDispatch"
    BY DEF NonDelivery, ExecutionEvidence
  <1>3. rec[id] \in SafetyOperation /\ RecordFits(rec[id]) /\ rec[id].state = "Dispatched"
    BY <1>1
  <1>4. /\ n \in SafetyOperation /\ n.state = "Cancelled" /\ n.evidence = evidence
        /\ n.dispatched = rec[id].dispatched /\ n.lane = rec[id].lane /\ n.cap = rec[id].cap
    BY <1>2, <1>3 DEF SafetyOperation, ReconciliationStatus
  <1>5. /\ DOMAIN r = OpId /\ r = [q \in OpId |-> r[q]] /\ r[id] = n
        /\ \A q \in OpId : q # id => r[q] = rec[q]
    OBVIOUS
  <1> HIDE DEF r, n
  <1>6. RecordFits(n)
    BY <1>2, <1>3, <1>4 DEF RecordFits
  <1>8. Settles(r, id) /\ r[id].state = "Cancelled"
    BY <1>4, <1>5, <1>6, ReplacedSettles
  <1>9. BookTypes'
    <2>1. autoResolutions' \in Seq(HistoryRecords)
      BY <1>1, <1>2, PushTypes
    <2> QED BY <1>1, <2>1 DEF BookTypes
  <1> QED BY <1>1, <1>8, <1>9, SettleKeeps

\* A recovery read cut off by its session ends as a failed read.
LEMMA ReadInterruptedKeeps ==
    ASSUME SafetyIInv, NEW id \in OpId, MarkRecoveryReadInterrupted(id)
    PROVE  SafetyIInv'
  <1> USE SafetyParts
  <1> DEFINE r == [rec EXCEPT ![id].state = "Failed", ![id].reason = "None",
                              ![id].result = FALSE, ![id].recon = "None",
                              ![id].evidence = "RecoveryReadInterrupted"]
             n == [rec[id] EXCEPT !.state = "Failed", !.reason = "None",
                              !.result = FALSE, !.recon = "None",
                              !.evidence = "RecoveryReadInterrupted"]
  <1>1. /\ state[id] \in InFlight /\ FreeSlot(id, "Failed") /\ UNCHANGED <<ref, blocked, retired>>
        /\ rec' = ActivateNext(r)
        /\ UNCHANGED <<archive, quarantine, resolutions, autoResolutions, retirement,
                       barrier, resume, generation>>
    BY DEF MarkRecoveryReadInterrupted, FailRecoveryReadOnly
  <1>3. rec[id] \in SafetyOperation /\ RecordFits(rec[id]) /\ rec[id].state \in InFlight
    BY <1>1
  <1>4. /\ n \in SafetyOperation /\ n.state = "Failed"
        /\ n.evidence = "RecoveryReadInterrupted"
        /\ n.dispatched = rec[id].dispatched /\ n.lane = rec[id].lane /\ n.cap = rec[id].cap
    BY <1>3 DEF SafetyOperation, ExecutionEvidence
  <1>5. /\ DOMAIN r = OpId /\ r = [q \in OpId |-> r[q]] /\ r[id] = n
        /\ \A q \in OpId : q # id => r[q] = rec[q]
    OBVIOUS
  <1> HIDE DEF r, n
  <1>6. RecordFits(n)
    BY <1>3, <1>4 DEF RecordFits
  <1>8. Settles(r, id) /\ r[id].state = "Failed"
    BY <1>4, <1>5, <1>6, ReplacedSettles
  <1>9. BookTypes'
    BY <1>1 DEF BookTypes
  <1> QED BY <1>1, <1>8, <1>9, SettleKeeps

\* reconcile_authoritative_terminal: the Agent proves an unknown outcome.
LEMMA ReconcileKeeps ==
    ASSUME SafetyIInv, NEW id \in OpId, NEW pair \in AuthoritativeTerminal,
           ReconcileAuthoritativeTerminal(id, pair)
    PROVE  /\ SafetyIInv'
           /\ rec'[id].recon = "AutoResolved" /\ rec'[id].state = pair[1]
           /\ rec'[id].evidence = pair[2]
  <1> USE SafetyParts
  <1> DEFINE r == [rec EXCEPT ![id].state = pair[1], ![id].reason = "None",
                              ![id].recon = "AutoResolved", ![id].evidence = pair[2],
                              ![id].result = FALSE]
             n == [rec[id] EXCEPT !.state = pair[1], !.reason = "None",
                              !.recon = "AutoResolved", !.evidence = pair[2],
                              !.result = FALSE]
  <1>1. /\ IsBlocking(id) /\ Unblock(id, pair[1])
        /\ UNCHANGED <<ref, retired, recoveryReads>>
        /\ rec' = ActivateNext(r)
        /\ quarantine' = [quarantine EXCEPT ![Of(id)] = NoQuarantine]
        /\ autoResolutions' = PushAutoResolution(id, pair[1], pair[2])
        /\ UNCHANGED <<archive, resolutions, retirement, barrier, resume, generation>>
    BY DEF ReconcileAuthoritativeTerminal, ReconcileIndeterminateTerminal
  <1>2. /\ pair[1] \in Terminal /\ pair[2] \in ExecutionEvidence
        /\ pair[2] # "None" /\ pair[2] # "CancelledBeforeDispatch"
        /\ pair[1] = "Completed" => pair[2] = "VerifiedAgentResult"
        /\ pair[1] = "Cancelled" => pair[2] = "ProvenProcessTermination"
    BY DEF AuthoritativeTerminal, ExecutionEvidence
  <1>3. /\ rec[id] \in SafetyOperation /\ RecordFits(rec[id])
        /\ state[id] = "Indeterminate" /\ rec[id].state = "Indeterminate"
    BY <1>1 DEF IsBlocking
  <1>4. /\ n \in SafetyOperation /\ n.state = pair[1] /\ n.evidence = pair[2]
        /\ n.dispatched = rec[id].dispatched /\ n.lane = rec[id].lane /\ n.cap = rec[id].cap
        /\ n.recon = "AutoResolved"
    BY <1>2, <1>3 DEF SafetyOperation, ReconciliationStatus
  <1>5. /\ DOMAIN r = OpId /\ r = [q \in OpId |-> r[q]] /\ r[id] = n
        /\ \A q \in OpId : q # id => r[q] = rec[q]
    OBVIOUS
  <1> HIDE DEF r, n
  <1>6. RecordFits(n)
    BY <1>2, <1>3, <1>4 DEF RecordFits
  <1>7. n.state \notin Unsettled
    BY <1>2, <1>4
  <1>8. Settles(r, id) /\ r[id].state = pair[1]
    BY <1>4, <1>5, <1>6, <1>7, ReplacedSettles
  <1>9. BookTypes'
    <2>1. autoResolutions' \in Seq(HistoryRecords)
      BY <1>1, <1>2, <1>3, PushTypes
    <2>2. quarantine' \in [Device -> QuarantineRecords \cup {NoQuarantine}]
      BY <1>1 DEF BookTypes
    <2> QED BY <1>1, <2>1, <2>2 DEF BookTypes
  <1>10. SafetyIInv' /\ rec'[id] = n
    <2>1. PICK t \in Terminal : t = pair[1]
      BY <1>2
    <2>2. IsBlocking(id) /\ Unblock(id, t) /\ rec' = ActivateNext(r) /\ r[id].state = t
          /\ quarantine' = [quarantine EXCEPT ![Of(id)] = NoQuarantine]
          /\ UNCHANGED <<ref, recoveryReads, retired, barrier>>
      BY <1>1, <1>8, <2>1
    <2>3. SafetyIInv' /\ rec'[id] = r[id]
      BY <1>8, <1>9, <2>2, LeaveKeeps
    <2> QED BY <1>5, <2>3
  <1> QED BY <1>4, <1>10

\* resolve_indeterminate: an operator decides an unknown outcome.
LEMMA ResolveKeeps ==
    ASSUME SafetyIInv, NEW id \in OpId, NEW outcome \in {"Completed", "Cancelled"},
           ResolveIndeterminate(id, outcome)
    PROVE  SafetyIInv' /\ rec'[id].evidence = "OperatorResolution"
  <1> USE SafetyParts
  <1> DEFINE r == [rec EXCEPT ![id].state = outcome, ![id].reason = "None",
                              ![id].recon = "None", ![id].evidence = "OperatorResolution"]
             n == [rec[id] EXCEPT !.state = outcome, !.reason = "None",
                              !.recon = "None", !.evidence = "OperatorResolution"]
  <1>1. /\ IsBlocking(id) /\ Unblock(id, outcome)
        /\ UNCHANGED <<ref, retired, recoveryReads>>
        /\ rec' = ActivateNext(r)
        /\ quarantine' = [quarantine EXCEPT ![Of(id)] = NoQuarantine]
        /\ resolutions' = resolutions \cup {id}
        /\ UNCHANGED <<archive, autoResolutions, retirement, barrier, resume, generation>>
    BY DEF ResolveIndeterminate, AdmissionResolveIndeterminate
  <1>3. /\ rec[id] \in SafetyOperation /\ RecordFits(rec[id])
        /\ state[id] = "Indeterminate" /\ rec[id].state = "Indeterminate"
    BY <1>1 DEF IsBlocking
  <1>4. /\ n \in SafetyOperation /\ n.state = outcome /\ n.evidence = "OperatorResolution"
        /\ n.dispatched = rec[id].dispatched /\ n.lane = rec[id].lane /\ n.cap = rec[id].cap
    BY <1>3 DEF SafetyOperation, ExecutionEvidence
  <1>5. /\ DOMAIN r = OpId /\ r = [q \in OpId |-> r[q]] /\ r[id] = n
        /\ \A q \in OpId : q # id => r[q] = rec[q]
    OBVIOUS
  <1> HIDE DEF r, n
  <1>6. RecordFits(n)
    BY <1>3, <1>4 DEF RecordFits
  <1>8. Settles(r, id) /\ r[id].state = outcome
    BY <1>4, <1>5, <1>6, ReplacedSettles
  <1>9. BookTypes'
    BY <1>1 DEF BookTypes
  <1>10. SafetyIInv' /\ rec'[id] = n
    <2>1. outcome \in Terminal
      OBVIOUS
    <2>2. IsBlocking(id) /\ Unblock(id, outcome) /\ rec' = ActivateNext(r)
          /\ quarantine' = [quarantine EXCEPT ![Of(id)] = NoQuarantine]
          /\ UNCHANGED <<ref, recoveryReads, retired, barrier>>
      BY <1>1
    <2>3. SafetyIInv' /\ rec'[id] = r[id]
      BY <1>8, <1>9, <2>1, <2>2, LeaveKeeps
    <2> QED BY <1>5, <2>3
  <1> QED BY <1>4, <1>10

\* The reconciliation status of an undecided operation changes.
LEMMA ReconciliationKeeps ==
    ASSUME SafetyIInv, NEW id \in OpId,
           MarkReconciliationEvidenceGap(id) \/ MarkReconciliationOperatorRequired(id)
    PROVE  SafetyIInv'
  <1> USE SafetyParts
  <1>1. PICK recon \in ReconciliationStatus :
          /\ rec' = [rec EXCEPT ![id].recon = recon]
          /\ UNCHANGED <<admissionVars, archive, quarantine, resolutions, autoResolutions,
                         retirement, barrier, resume, generation>>
          /\ rec[id].state = "Indeterminate"
    BY DEF MarkReconciliationEvidenceGap, MarkReconciliationOperatorRequired,
         ReconciliationStatus
  <1> DEFINE n == [rec[id] EXCEPT !.recon = recon]
  <1>2. rec[id] \in SafetyOperation /\ RecordFits(rec[id]) /\ state[id] = "Indeterminate"
    BY <1>1
  <1>3. /\ n \in SafetyOperation /\ n.state = rec[id].state /\ n.evidence = rec[id].evidence
        /\ n.dispatched = rec[id].dispatched /\ n.lane = rec[id].lane /\ n.cap = rec[id].cap
        /\ n.reason = rec[id].reason
    BY <1>2 DEF SafetyOperation
  <1>4. /\ DOMAIN rec' = OpId /\ rec' = [q \in OpId |-> rec'[q]] /\ rec'[id] = n
        /\ \A q \in OpId : q # id => rec'[q] = rec[q]
    BY <1>1
  <1> HIDE DEF n
  <1>5. RecordFits(n)
    BY <1>2, <1>3 DEF RecordFits
  <1>6. n.state \notin Unsettled
    BY <1>1, <1>3
  <1>7. Settles(rec', id)
    BY <1>3, <1>4, <1>5, <1>6, ReplacedSettles
  <1>8. /\ RecordsOK(rec')
        /\ Agrees(rec', [state EXCEPT ![id] = rec'[id].state], recoveryReads \ {id})
        /\ Bars(rec', ref, barrier)
    BY <1>7, SettledRecords
  <1>9. /\ [state EXCEPT ![id] = rec'[id].state] = state
        /\ recoveryReads \ {id} = recoveryReads
    <2>1. rec'[id].state = state[id]
      BY <1>1, <1>2, <1>3, <1>4
    <2>2. id \notin recoveryReads
      BY <1>2, LedgerParts DEF Lane
    <2> QED BY <2>1, <2>2, LedgerParts DEF Types
  <1>10. UNCHANGED <<state, ref, active, queue, blocked, retired, recoveryReads>>
    BY <1>1 DEF admissionVars
  <1>11. AdmissionIInv' /\ BookTypes' /\ Undecided(state', retired')
    BY <1>1, <1>10 DEF AdmissionIInv, BookTypes, Undecided
  <1>12. Quarantines(quarantine', ref', blocked', rec')
    <2>1. \A q \in OpId : rec'[q].reason = rec[q].reason
      BY <1>3, <1>4
    <2> QED BY <1>1, <1>10, <2>1, QuarantinesStay
  <1> QED BY <1>1, <1>8, <1>9, <1>10, <1>11, <1>12 DEF SafetyIInv

\* resume_mutations: the barrier of an accepted click is lowered.
LEMMA ResumeKeeps ==
    ASSUME SafetyIInv, NEW d \in Device, NEW g \in Generation, ResumeMutations(d, g)
    PROVE  SafetyIInv'
  <1> USE SafetyParts
  <1>1. /\ Barred(d)
        /\ resume' = [resume EXCEPT ![barrier[d].source] =
                        [device |-> d, accepted |-> barrier[d].accepted, resumed |-> g]]
        /\ barrier' = [barrier EXCEPT ![d] = NoBarrier]
        /\ UNCHANGED <<rec, archive, quarantine, resolutions, autoResolutions, retirement,
                       generation>>
        /\ UNCHANGED <<state, ref, active, queue, blocked, retired, recoveryReads>>
    BY DEF ResumeMutations, admissionVars
  <1>2. barrier[d] \in BarrierRecords
    BY <1>1 DEF Barred, BookTypes
  <1>3. /\ barrier[d].source \in OpId
        /\ [device |-> d, accepted |-> barrier[d].accepted, resumed |-> g] \in ResumeRecords
    BY <1>2 DEF BarrierRecords, ResumeRecords
  <1>4. BookTypes'
    BY <1>1, <1>3 DEF BookTypes
  <1>5. AdmissionIInv' /\ Undecided(state', retired')
        /\ Agrees(rec', state', recoveryReads') /\ RecordsOK(rec')
        /\ Quarantines(quarantine', ref', blocked', rec')
    BY <1>1 DEF AdmissionIInv, Undecided
  <1>6. Bars(rec', ref', barrier')
    <2>1. ASSUME NEW q \in OpId, rec[q].state \in Unsettled,
                 barrier'[ref[q].device] # NoBarrier
          PROVE  rec[q].cap \in ObserveClass
      <3>1. ref[q].device \in Device
        BY <2>1, Recordings DEF OperationRef
      <3>2. barrier[ref[q].device] # NoBarrier
        BY <1>1, <2>1, <3>1 DEF BookTypes
      <3> QED BY <2>1, <3>2 DEF Bars
    <2> QED BY <1>1, <2>1 DEF Bars
  <1> QED BY <1>4, <1>5, <1>6 DEF SafetyIInv

\* The ledger when an operation becomes unknown and its queue is cancelled.
LEMMA MarkIndeterminateLedger ==
    ASSUME AdmissionIInv, NEW id \in OpId, NEW d, d = ref[id].device,
           state[id] \in InFlight, id \notin recoveryReads,
           state' = [q \in OpId |-> IF q = id THEN "Indeterminate"
                                    ELSE IF state[q] = "Queued" /\ ref[q].device = d
                                         THEN "Cancelled" ELSE state[q]],
           active' = [active EXCEPT ![d] = NoOp],
           blocked' = [blocked EXCEPT ![d] = id],
           queue' = [queue EXCEPT ![d] = << >>],
           UNCHANGED <<ref, retired, recoveryReads>>
    PROVE  AdmissionIInv' /\ blocked[d] = NoOp
  <1> USE LedgerParts, AdmissionConstants
  <1>1. d \in Device /\ active[d] = id /\ id \notin retired /\ id # NoOp
    BY DEF Refs, Slots, Lane, OperationRef
  <1>2. blocked[d] = NoOp
    BY <1>1 DEF Excludes
  <1>3. /\ active'[d] = NoOp /\ blocked'[d] = id /\ queue'[d] = << >>
        /\ \A e \in Device : e # d =>
              active'[e] = active[e] /\ blocked'[e] = blocked[e] /\ queue'[e] = queue[e]
    BY <1>1 DEF Types
  <1>4. /\ state'[id] = "Indeterminate"
        /\ \A q \in OpId : q # id =>
              state'[q] = IF state[q] = "Queued" /\ ref[q].device = d
                          THEN "Cancelled" ELSE state[q]
    OBVIOUS
  <1>5. Types(state', ref, active', queue', blocked', retired, recoveryReads)
    <2>1. state' \in [OpId -> HubOperationState \cup {"Absent"}]
      BY DEF Types
    <2>2. active' \in [Device -> OpId \cup {NoOp}] /\ blocked' \in [Device -> OpId \cup {NoOp}]
      BY <1>1 DEF Types
    <2>3. queue' \in [Device -> Seq(OpId)]
      BY <1>1, EmptySeq DEF Types
    <2> QED BY <2>1, <2>2, <2>3 DEF Types
  <1>6. Refs(state', ref)
    BY <1>4 DEF Refs
  <1>7. Slots(state', ref, active')
    <2>1. ASSUME NEW e \in Device, active'[e] # NoOp
          PROVE  state'[active'[e]] \in Running /\ ref[active'[e]].device = e
      <3>1. e # d /\ active'[e] = active[e] /\ active[e] \in OpId /\ active[e] # id
        BY <1>1, <1>3, <2>1 DEF Slots, Types
      <3> QED BY <1>4, <2>1, <3>1 DEF Slots
    <2>2. ASSUME NEW q \in OpId, state'[q] \in Running
          PROVE  active'[ref[q].device] = q
      <3>1. q # id /\ state[q] \in Running
        BY <1>4, <2>2
      <3>2. active[ref[q].device] = q /\ ref[q].device \in Device
        BY <3>1 DEF Slots, Refs, OperationRef
      <3> QED BY <1>1, <1>3, <3>1, <3>2
    <2> QED BY <2>1, <2>2 DEF Slots
  <1>8. Queues(state', ref, queue')
    <2>1. ASSUME NEW e \in Device, NEW i \in 1..Len(queue'[e])
          PROVE  /\ e # d /\ queue'[e] = queue[e] /\ i \in 1..Len(queue[e])
                 /\ state'[queue'[e][i]] = "Queued" /\ ref[queue'[e][i]].device = e
      <3>1. e # d /\ queue'[e] = queue[e] /\ i \in 1..Len(queue[e])
        BY <1>3, <2>1, EmptySeq
      <3>2. /\ queue[e][i] \in OpId /\ state[queue[e][i]] = "Queued"
            /\ ref[queue[e][i]].device = e
        BY <3>1, ElementOfSeq DEF Types, Queues
      <3> QED BY <1>4, <3>1, <3>2
    <2>2. ASSUME NEW e \in Device, NEW i \in 1..Len(queue'[e]), NEW j \in 1..Len(queue'[e]),
                 queue'[e][i] = queue'[e][j]
          PROVE  i = j
      BY <2>1, <2>2 DEF Queues
    <2>3. ASSUME NEW q \in OpId, state'[q] = "Queued"
          PROVE  \E i \in 1..Len(queue'[ref[q].device]) : queue'[ref[q].device][i] = q
      <3>1. state[q] = "Queued" /\ ref[q].device # d /\ ref[q].device \in Device
        BY <1>4, <2>3 DEF Refs, OperationRef
      <3> QED BY <1>3, <3>1 DEF Queues
    <2> QED BY <2>1, <2>2, <2>3 DEF Queues
  <1>9. Blocks(state', ref, blocked', retired)
    <2>1. ASSUME NEW e \in Device, blocked'[e] # NoOp
          PROVE  /\ state'[blocked'[e]] = "Indeterminate" /\ ref[blocked'[e]].device = e
                 /\ blocked'[e] \notin retired
      <3>1. CASE e = d
        BY <1>1, <1>3, <1>4, <3>1
      <3>2. CASE e # d
        <4>1. /\ blocked'[e] = blocked[e] /\ blocked[e] \in OpId
              /\ state[blocked[e]] = "Indeterminate" /\ ref[blocked[e]].device = e
              /\ blocked[e] \notin retired
          BY <1>3, <2>1, <3>2 DEF Blocks, Types
        <4> QED BY <1>4, <4>1
      <3> QED BY <3>1, <3>2
    <2>2. ASSUME NEW q \in OpId, state'[q] = "Indeterminate", q \notin retired
          PROVE  blocked'[ref[q].device] = q
      <3>1. CASE q = id
        BY <1>3, <3>1
      <3>2. CASE q # id
        <4>1. state[q] = "Indeterminate"
          BY <1>4, <2>2, <3>2
        <4>2. blocked[ref[q].device] = q /\ ref[q].device \in Device /\ q # NoOp
          BY <4>1, <2>2 DEF Blocks, Refs, OperationRef
        <4> QED BY <1>2, <1>3, <4>2
      <3> QED BY <3>1, <3>2
    <2> QED BY <2>1, <2>2 DEF Blocks
  <1>10. Excludes(active', blocked', recoveryReads)
    BY <1>3 DEF Excludes
  <1>11. Lane(state', retired, recoveryReads)
    <2>1. ASSUME NEW q \in recoveryReads PROVE state'[q] \in Running
      <3>1. q \in OpId /\ q # id /\ state[q] \in Running
        BY <2>1 DEF Lane, Types
      <3> QED BY <1>4, <3>1
    <2>2. ASSUME NEW q \in OpId, state'[q] \in Unsettled, q \notin recoveryReads
          PROVE  q \notin retired
      <3>1. state[q] \in Unsettled
        BY <1>4, <2>2
      <3> QED BY <2>2, <3>1 DEF Lane
    <2> QED BY <2>1, <2>2 DEF Lane
  <1>12. Capacity(active')
    BY <1>1, CapacityFree DEF Types
  <1> QED BY <1>2, <1>5, <1>6, <1>7, <1>8, <1>9, <1>10, <1>11, <1>12
          DEF AdmissionIInv, Ledger

\* mark_indeterminate_internal: the desktop is quarantined.
LEMMA MarkIndeterminateKeeps ==
    ASSUME SafetyIInv, NEW id \in OpId, NEW reason \in IndeterminateReason,
           MarkIndeterminate(id, reason)
    PROVE  SafetyIInv' /\ ~ Quarantined(Of(id))
  <1> USE SafetyParts
  <1> DEFINE d == ref[id].device
             queued == QueuedRecords(Of(id), id)
             r == CancelRecords(rec, queued)
             recon == DefaultReconciliationStatus(reason, rec[id].binding)
             n == [rec[id] EXCEPT !.state = "Indeterminate", !.reason = reason,
                     !.evidence = "None", !.result = FALSE, !.recon = recon]
  <1>1. /\ state[id] \in InFlight /\ id \notin recoveryReads /\ rec[id].lane = "Normal"
        /\ state' = [q \in OpId |-> IF q = id THEN "Indeterminate"
                                    ELSE IF q \in queued THEN "Cancelled" ELSE state[q]]
        /\ active' = [active EXCEPT ![d] = NoOp]
        /\ blocked' = [blocked EXCEPT ![d] = id]
        /\ queue' = [queue EXCEPT ![d] = QueueWithout(d, queued)]
        /\ rec' = [r EXCEPT
                     ![id].state = "Indeterminate", ![id].reason = reason,
                     ![id].evidence = "None", ![id].result = FALSE,
                     ![id].recon = recon]
        /\ quarantine' = [quarantine EXCEPT ![d] =
                            [op |-> id, generation |-> ref[id].generation,
                             reason |-> reason]]
        /\ UNCHANGED <<ref, retired, recoveryReads, archive, resolutions,
                       autoResolutions, retirement, barrier, resume, generation>>
    BY DEF MarkIndeterminate, Of
  <1>2. \A q \in OpId : q \in queued <=> q # id /\ state[q] = "Queued" /\ ref[q].device = d
    BY DEF QueuedRecords, Of
  <1>3. d \in Device /\ queue[d] \in Seq(OpId)
    BY <1>1, LedgerParts DEF OperationRef, Types
  <1>4. QueueWithout(d, queued) = << >>
    <2>1. ASSUME NEW i \in DOMAIN queue[d] PROVE queue[d][i] \in queued
      <3>1. i \in 1..Len(queue[d])
        BY <1>3, <2>1, LenProperties
      <3>2. queue[d][i] \in OpId /\ state[queue[d][i]] = "Queued" /\ ref[queue[d][i]].device = d
        BY <1>3, <3>1, ElementOfSeq, LedgerParts DEF Queues
      <3> QED BY <1>1, <1>2, <3>2
    <2> QED BY <2>1 DEF QueueWithout
  <1> HIDE DEF queued
  <1>5. AdmissionIInv' /\ blocked[d] = NoOp
    <2>1. state' = [q \in OpId |-> IF q = id THEN "Indeterminate"
                                    ELSE IF state[q] = "Queued" /\ ref[q].device = d
                                         THEN "Cancelled" ELSE state[q]]
      BY <1>1, <1>2
    <2>2. PICK e : e = ref[id].device
      OBVIOUS
    <2>3. /\ state' = [q \in OpId |-> IF q = id THEN "Indeterminate"
                                    ELSE IF state[q] = "Queued" /\ ref[q].device = e
                                         THEN "Cancelled" ELSE state[q]]
          /\ active' = [active EXCEPT ![e] = NoOp]
          /\ blocked' = [blocked EXCEPT ![e] = id]
          /\ queue' = [queue EXCEPT ![e] = << >>]
      BY <1>1, <1>4, <2>1, <2>2
    <2>4. /\ state[id] \in InFlight /\ id \notin recoveryReads
          /\ UNCHANGED <<ref, retired, recoveryReads>>
      BY <1>1
    <2>5. AdmissionIInv' /\ blocked[e] = NoOp
      BY <2>2, <2>3, <2>4, MarkIndeterminateLedger
    <2> QED BY <2>2, <2>5
  <1>6. ~ Quarantined(Of(id))
    <2>1. quarantine[d].op = NoOp /\ quarantine[d] \in QuarantineRecords \cup {NoQuarantine}
      BY <1>3, <1>5 DEF Quarantines, BookTypes
    <2>2. quarantine[d] = NoQuarantine
      BY <2>1, NoQuarantineHasNoOp, AdmissionConstants
    <2> QED BY <2>2 DEF Quarantined, Of
  <1>7. /\ rec[id] \in SafetyOperation /\ RecordFits(rec[id]) /\ rec[id].state \in InFlight
    BY <1>1
  <1>8. recon \in ReconciliationStatus
    BY DEF DefaultReconciliationStatus, ReconciliationStatus
  <1> HIDE DEF recon
  <1>9. /\ n \in SafetyOperation /\ n.state = "Indeterminate" /\ n.evidence = "None"
        /\ n.dispatched = rec[id].dispatched /\ n.lane = rec[id].lane /\ n.reason = reason
    BY <1>7, <1>8 DEF SafetyOperation
  <1>10. /\ rec'[id] = n
         /\ \A q \in OpId : q # id => rec'[q] =
              IF q \in queued
              THEN [rec[q] EXCEPT !.state = "Cancelled", !.evidence = "CancelledBeforeDispatch"]
              ELSE rec[q]
         /\ rec' = [q \in OpId |-> rec'[q]]
    <2>1. r[id] = rec[id]
      BY <1>2 DEF CancelRecords
    <2> QED BY <1>1, <2>1 DEF CancelRecords
  <1> HIDE DEF n, r
  <1>11. RecordFits(n)
    BY <1>1, <1>7, <1>9 DEF RecordFits
  <1>12. ASSUME NEW q \in queued, q \in OpId
         PROVE  /\ rec'[q] \in SafetyOperation /\ RecordFits(rec'[q])
                /\ rec'[q].state = "Cancelled" /\ state'[q] = "Cancelled"
    <2>1. /\ rec[q] \in SafetyOperation /\ RecordFits(rec[q]) /\ rec[q].state = "Queued"
          /\ q # id
      BY <1>2, <1>12
    <2>0. rec'[q] = [rec[q] EXCEPT !.state = "Cancelled",
                                   !.evidence = "CancelledBeforeDispatch"]
      BY <1>10, <1>12, <2>1
    <2>2. /\ rec'[q] \in SafetyOperation /\ rec'[q].state = "Cancelled"
          /\ rec'[q].evidence = "CancelledBeforeDispatch" /\ rec'[q].lane = rec[q].lane
          /\ rec'[q].cap = rec[q].cap /\ rec'[q].dispatched = rec[q].dispatched
      BY <2>0, <2>1 DEF SafetyOperation, ExecutionEvidence
    <2>3. RecordFits(rec'[q])
      BY <2>1, <2>2 DEF RecordFits
    <2> QED BY <1>1, <1>12, <2>1, <2>2, <2>3
  <1>13. ASSUME NEW q \in OpId, q # id, q \notin queued
         PROVE  rec'[q] = rec[q] /\ state'[q] = state[q]
    BY <1>1, <1>10, <1>13
  <1>14. state'[id] = "Indeterminate"
    BY <1>1
  <1>15. RecordsOK(rec')
    <2>1. \A q \in OpId : rec'[q] \in SafetyOperation \cup {NoRecord}
      BY <1>9, <1>10, <1>12, <1>13
    <2>2. ASSUME NEW q \in OpId, rec'[q] # NoRecord PROVE RecordFits(rec'[q])
      BY <1>10, <1>11, <1>12, <1>13, <2>2 DEF RecordsOK
    <2>3. rec' \in [OpId -> SafetyOperation \cup {NoRecord}]
      BY <1>10, <2>1
    <2> QED BY <2>2, <2>3 DEF RecordsOK
  <1>16. Agrees(rec', state', recoveryReads')
    <2>1. ASSUME NEW q \in OpId PROVE rec'[q].state = state'[q]
      <3>1. CASE q = id
        BY <1>9, <1>10, <1>14, <3>1
      <3>2. CASE q \in queued
        BY <1>12, <3>2
      <3>3. CASE q # id /\ q \notin queued
        BY <1>13, <3>3
      <3> QED BY <3>1, <3>2, <3>3
    <2>2. ASSUME NEW q \in recoveryReads PROVE rec'[q].lane = "RecoveryEvidenceRead"
      <3>1. q \in OpId /\ q # id /\ state[q] \in Running
        BY <1>1, <2>2, LedgerParts DEF Lane, Types
      <3>2. q \notin queued
        BY <1>2, <3>1
      <3> QED BY <1>13, <2>2, <3>1, <3>2 DEF Agrees
    <2>3. ASSUME NEW q \in OpId, state'[q] \in Unsettled, q \notin recoveryReads
          PROVE  rec'[q].lane = "Normal"
      <3>1. q # id /\ q \notin queued
        BY <1>12, <1>14, <2>3
      <3> QED BY <1>13, <2>3, <3>1 DEF Agrees
    <2> QED BY <1>1, <2>1, <2>2, <2>3 DEF Agrees
  <1>17. Quarantines(quarantine', ref', blocked', rec')
    <2>0. \A e \in Device : quarantine[e] # NoQuarantine => blocked[e] # NoOp
      BY QuarantinedIsBlocked
    <2>1. /\ quarantine'[d] = [op |-> id, generation |-> ref[id].generation, reason |-> reason]
          /\ blocked'[d] = id
          /\ \A e \in Device : e # d =>
               quarantine'[e] = quarantine[e] /\ blocked'[e] = blocked[e]
      BY <1>1, <1>3, LedgerParts DEF BookTypes, Types
    <2>2. ASSUME NEW e \in Device
          PROVE  /\ quarantine'[e].op = blocked'[e]
                 /\ quarantine'[e] # NoQuarantine =>
                       /\ quarantine'[e].generation = ref[blocked'[e]].generation
                       /\ quarantine'[e].reason = rec'[blocked'[e]].reason
      <3>1. CASE e = d
        <4>1. /\ quarantine'[e].op = id /\ quarantine'[e].generation = ref[id].generation
              /\ quarantine'[e].reason = reason /\ blocked'[e] = id
          BY <2>1, <3>1
        <4>2. rec'[id].reason = reason
          BY <1>9, <1>10
        <4> QED BY <4>1, <4>2
      <3>2. CASE e # d /\ blocked[e] # NoOp
        <4>1. blocked[e] \in OpId /\ state[blocked[e]] = "Indeterminate"
          BY <3>2
        <4>2. rec'[blocked[e]] = rec[blocked[e]]
          BY <1>1, <1>2, <1>13, <4>1
        <4> QED BY <2>1, <3>2, <4>2 DEF Quarantines
      <3>3. CASE e # d /\ blocked[e] = NoOp
        BY <2>0, <2>1, <3>3 DEF Quarantines
      <3> QED BY <3>1, <3>2, <3>3
    <2>3. ref' = ref
      BY <1>1
    <2> HIDE DEF d
    <2> QED BY <2>2, <2>3 DEF Quarantines
  <1>18. Bars(rec', ref', barrier')
    <2>1. ASSUME NEW q \in OpId, rec'[q].state \in Unsettled,
                 barrier[ref[q].device] # NoBarrier
          PROVE  rec'[q].cap \in ObserveClass
      <3>1. q # id /\ q \notin queued
        BY <1>9, <1>10, <1>12, <2>1
      <3> QED BY <1>13, <2>1, <3>1 DEF Bars
    <2> QED BY <1>1, <2>1 DEF Bars
  <1>19. Undecided(state', retired')
    <2>1. ASSUME NEW q \in retired PROVE state'[q] \in {"Absent", "Indeterminate"}
      <3>1. q \in OpId /\ state[q] \in {"Absent", "Indeterminate"}
        BY <2>1, LedgerParts DEF Undecided, Types
      <3>2. q \notin queued /\ q # id
        BY <1>1, <1>2, <3>1
      <3> QED BY <1>13, <3>1, <3>2
    <2> QED BY <1>1, <2>1 DEF Undecided
  <1>20. BookTypes'
    <2>1. [op |-> id, generation |-> ref[id].generation, reason |-> reason] \in QuarantineRecords
      BY <1>1 DEF QuarantineRecords, OperationRef
    <2> QED BY <1>1, <1>3, <2>1 DEF BookTypes
  <1> QED BY <1>5, <1>6, <1>15, <1>16, <1>17, <1>18, <1>19, <1>20 DEF SafetyIInv

\* Terminal records, or retired ones that block nothing, are dropped.
LEMMA ForgetRecords ==
    ASSUME SafetyIInv, NEW gone \in SUBSET OpId,
           \A q \in gone : state[q] \notin Unsettled /\ \A e \in Device : blocked[e] # q,
           rec' = [q \in OpId |-> IF q \in gone THEN NoRecord ELSE rec[q]],
           state' = [q \in OpId |-> IF q \in gone THEN "Absent" ELSE state[q]],
           ref' = [q \in OpId |-> IF q \in gone THEN NoRef ELSE ref[q]],
           recoveryReads' = recoveryReads \ gone,
           UNCHANGED <<blocked, quarantine, barrier, retired>>
    PROVE  /\ RecordsOK(rec') /\ Agrees(rec', state', recoveryReads')
           /\ Quarantines(quarantine', ref', blocked', rec') /\ Bars(rec', ref', barrier')
           /\ Undecided(state', retired')
  <1> USE SafetyParts
  <1>1. /\ \A q \in OpId \ gone : rec'[q] = rec[q] /\ state'[q] = state[q] /\ ref'[q] = ref[q]
        /\ \A q \in gone : rec'[q] = NoRecord /\ state'[q] = "Absent"
    OBVIOUS
  <1>2. RecordsOK(rec')
    BY <1>1 DEF RecordsOK
  <1>3. Agrees(rec', state', recoveryReads')
    <2>1. ASSUME NEW q \in OpId PROVE rec'[q].state = state'[q]
      BY <1>1, Recordings
    <2>2. ASSUME NEW q \in recoveryReads' PROVE rec'[q].lane = "RecoveryEvidenceRead"
      BY <1>1, <2>2, LedgerParts DEF Agrees, Types
    <2>3. ASSUME NEW q \in OpId, state'[q] \in Unsettled, q \notin recoveryReads'
          PROVE  rec'[q].lane = "Normal"
      <3>1. q \notin gone /\ state[q] \in Unsettled /\ q \notin recoveryReads
        BY <1>1, <2>3
      <3> QED BY <1>1, <3>1 DEF Agrees
    <2> QED BY <2>1, <2>2, <2>3 DEF Agrees
  <1>4. Quarantines(quarantine', ref', blocked', rec')
    <2>1. \A e \in Device : quarantine[e] # NoQuarantine => blocked[e] # NoOp
      BY QuarantinedIsBlocked
    <2>2. ASSUME NEW e \in Device, blocked[e] # NoOp
          PROVE  rec'[blocked[e]] = rec[blocked[e]] /\ ref'[blocked[e]] = ref[blocked[e]]
      <3>1. blocked[e] \in OpId /\ blocked[e] \notin gone
        BY <2>2
      <3> QED BY <1>1, <3>1
    <2> QED BY <2>1, <2>2 DEF Quarantines
  <1>5. Bars(rec', ref', barrier')
    <2>1. ASSUME NEW q \in OpId, rec'[q].state \in Unsettled,
                 barrier[ref'[q].device] # NoBarrier
          PROVE  rec'[q].cap \in ObserveClass
      <3>1. q \notin gone
        BY <1>1, <2>1, Recordings
      <3> QED BY <1>1, <2>1, <3>1 DEF Bars
    <2> QED BY <2>1 DEF Bars
  <1>6. Undecided(state', retired')
    <2>1. ASSUME NEW q \in retired PROVE state'[q] \in {"Absent", "Indeterminate"}
      <3>1. q \in OpId /\ state[q] \in {"Absent", "Indeterminate"}
        BY <2>1, LedgerParts DEF Undecided, Types
      <3> QED BY <1>1, <3>1
    <2> QED BY <2>1 DEF Undecided
  <1> QED BY <1>2, <1>3, <1>4, <1>5, <1>6

\* A new session of an Agent drops what its finished generation left.
LEMMA ConnectKeeps ==
    ASSUME SafetyIInv, NEW d \in Device, Connect(d)
    PROVE  SafetyIInv'
  <1> USE SafetyParts
  <1>0. PICK g : g = generation[d] + 1
    OBVIOUS
  <1> DEFINE gone == Prunable(d, g)
  <1>1. gone = {q \in OpId : rec[q].state \in Terminal /\ Of(q) = d /\ ref[q].generation < g}
    BY DEF Prunable
  <1>2. /\ g <= MaxGeneration
        /\ generation' = [generation EXCEPT ![d] = g]
        /\ archive' \in KeptArchives(archive \cup {q \in gone : rec[q].result})
        /\ rec' = [q \in OpId |-> IF q \in gone THEN NoRecord ELSE rec[q]]
        /\ UNCHANGED <<quarantine, resolutions, autoResolutions, retirement, barrier, resume>>
    BY <1>0, <1>1 DEF Connect
  <1>3. /\ state' = [q \in OpId |-> IF q \in gone THEN "Absent" ELSE state[q]]
        /\ ref' = [q \in OpId |-> IF q \in gone THEN NoRef ELSE ref[q]]
        /\ recoveryReads' = recoveryReads \ gone
        /\ UNCHANGED <<active, queue, blocked, retired>>
    BY <1>0 DEF Connect, AdmissionPruneTerminalBeforeGeneration
  <1>4. gone \in SUBSET OpId /\ \A q \in gone : state[q] \in Terminal
    BY DEF Prunable
  <1> HIDE DEF gone
  <1>5. AdmissionIInv'
    BY <1>3, <1>4, ForgetKeepsLedger
  <1>6. /\ RecordsOK(rec') /\ Agrees(rec', state', recoveryReads')
        /\ Quarantines(quarantine', ref', blocked', rec') /\ Bars(rec', ref', barrier')
        /\ Undecided(state', retired')
    <2>1. \A q \in gone : state[q] \notin Unsettled /\ \A e \in Device : blocked[e] # q
      BY <1>4, AdmissionConstants
    <2>2. UNCHANGED <<blocked, quarantine, barrier, retired>>
      BY <1>2, <1>3
    <2> QED BY <1>2, <1>3, <1>4, <2>1, <2>2, ForgetRecords
  <1>7. BookTypes'
    <2>1. g \in 0..MaxGeneration
      <3>1. generation[d] \in 0..MaxGeneration
        BY DEF BookTypes
      <3> QED BY <3>1, <1>0, <1>2, AdmissionConstants
    <2>2. generation' \in [Device -> 0..MaxGeneration]
      BY <1>2, <2>1 DEF BookTypes
    <2>3. archive' \subseteq OpId
      BY <1>2, <1>4 DEF KeptArchives, BookTypes
    <2> QED BY <1>2, <2>2, <2>3 DEF BookTypes
  <1> QED BY <1>5, <1>6, <1>7 DEF SafetyIInv

-----------------------------------------------------------------------------
(* Retirement, with the rotation of its history *)

\* The ledger once an operation is retired and the details `gone' are dropped.
LEMMA RetiredLedger ==
    ASSUME AdmissionIInv, NEW id \in OpId, IsBlocking(id), NEW gone \in SUBSET OpId,
           \A q \in gone : state[q] = "Indeterminate" /\ (q = id \/ \A e \in Device : blocked[e] # q)
    PROVE  Ledger([q \in OpId |-> IF q \in gone THEN "Absent" ELSE state[q]], ref, active, queue,
                  [blocked EXCEPT ![Of(id)] = NoOp], retired \cup {id}, recoveryReads)
  <1> USE LedgerParts, AdmissionConstants
  <1> DEFINE st == [q \in OpId |-> IF q \in gone THEN "Absent" ELSE state[q]]
             blk == [blocked EXCEPT ![Of(id)] = NoOp]
             ret == retired \cup {id}
  <1>1. /\ state[id] = "Indeterminate" /\ blocked[Of(id)] = id /\ Of(id) \in Device
        /\ ref[id].device = Of(id) /\ id # NoOp
    BY DEF IsBlocking, Of, Refs, OperationRef
  <1>2. /\ blk[Of(id)] = NoOp /\ \A e \in Device : e # Of(id) => blk[e] = blocked[e]
    BY <1>1 DEF Types
  <1>3. \A q \in OpId : st[q] = IF q \in gone THEN "Absent" ELSE state[q]
    OBVIOUS
  <1>4. Types(st, ref, active, queue, blk, ret, recoveryReads)
    <2>1. st \in [OpId -> HubOperationState \cup {"Absent"}]
      BY DEF Types
    <2>2. blk \in [Device -> OpId \cup {NoOp}]
      BY <1>1 DEF Types
    <2> HIDE DEF st, blk
    <2> QED BY <2>1, <2>2 DEF Types
  <1> HIDE DEF st, blk
  <1>5. Refs(st, ref)
    BY <1>3 DEF Refs
  <1>6. Slots(st, ref, active)
    <2>1. ASSUME NEW e \in Device, active[e] # NoOp
          PROVE  st[active[e]] \in Running /\ ref[active[e]].device = e
      <3>1. active[e] \in OpId /\ state[active[e]] \in Running /\ ref[active[e]].device = e
        BY <2>1 DEF Slots, Types
      <3>2. active[e] \notin gone
        BY <3>1
      <3> QED BY <1>3, <3>1, <3>2
    <2>2. ASSUME NEW q \in OpId, st[q] \in Running PROVE active[ref[q].device] = q
      <3>1. state[q] \in Running
        BY <1>3, <2>2
      <3> QED BY <3>1 DEF Slots
    <2> QED BY <2>1, <2>2 DEF Slots
  <1>7. Queues(st, ref, queue)
    <2>1. \A q \in OpId : st[q] = "Queued" <=> state[q] = "Queued"
      BY <1>3
    <2> QED BY <2>1, QueuesFollowQueued
  <1>8. Blocks(st, ref, blk, ret)
    <2>1. ASSUME NEW e \in Device, blk[e] # NoOp
          PROVE  st[blk[e]] = "Indeterminate" /\ ref[blk[e]].device = e /\ blk[e] \notin ret
      <3>1. e # Of(id) /\ blk[e] = blocked[e] /\ blocked[e] # NoOp
        BY <1>2, <2>1
      <3>2. /\ blocked[e] \in OpId /\ state[blocked[e]] = "Indeterminate"
            /\ ref[blocked[e]].device = e /\ blocked[e] \notin retired
        BY <3>1 DEF Blocks, Types
      <3>3. blocked[e] # id
        BY <1>1, <3>1, <3>2
      <3>4. blocked[e] \notin gone
        BY <3>1, <3>2, <3>3
      <3> QED BY <1>3, <3>1, <3>2, <3>3, <3>4
    <2>2. ASSUME NEW q \in OpId, st[q] = "Indeterminate", q \notin ret
          PROVE  blk[ref[q].device] = q
      <3>1. state[q] = "Indeterminate" /\ q \notin retired /\ q # id
        BY <1>3, <2>2
      <3>2. blocked[ref[q].device] = q /\ ref[q].device \in Device
        BY <3>1 DEF Blocks, Refs, OperationRef
      <3> QED BY <1>1, <1>2, <3>1, <3>2
    <2> QED BY <2>1, <2>2 DEF Blocks
  <1>9. Excludes(active, blk, recoveryReads)
    BY <1>2 DEF Excludes
  <1>10. Lane(st, ret, recoveryReads)
    <2>1. ASSUME NEW q \in recoveryReads PROVE st[q] \in Running
      <3>1. q \in OpId /\ state[q] \in Running
        BY <2>1 DEF Lane, Types
      <3>2. q \notin gone
        BY <3>1
      <3> QED BY <1>3, <3>1, <3>2
    <2>2. ASSUME NEW q \in OpId, st[q] \in Unsettled, q \notin recoveryReads
          PROVE  q \notin ret
      <3>1. state[q] \in Unsettled
        BY <1>3, <2>2
      <3> QED BY <1>1, <2>2, <3>1 DEF Lane
    <2> QED BY <2>1, <2>2 DEF Lane
  <1> QED BY <1>4, <1>5, <1>6, <1>7, <1>8, <1>9, <1>10 DEF Ledger, st, blk

\* Forgetting the device of what is absent changes nothing in the ledger.
LEMMA ForgottenRefs ==
    ASSUME NEW st, NEW rf, NEW rf2, NEW act, NEW qu, NEW blk, NEW ret, NEW reads,
           Ledger(st, rf, act, qu, blk, ret, reads),
           rf2 \in [OpId -> OperationRef \cup {NoRef}],
           \A q \in OpId : st[q] # "Absent" => rf2[q] = rf[q]
    PROVE  Ledger(st, rf2, act, qu, blk, ret, reads)
  <1>1. /\ Types(st, rf, act, qu, blk, ret, reads) /\ Refs(st, rf) /\ Slots(st, rf, act)
        /\ Queues(st, rf, qu) /\ Blocks(st, rf, blk, ret) /\ Excludes(act, blk, reads)
        /\ Lane(st, ret, reads) /\ Capacity(act)
    BY DEF Ledger
  <1>2. Types(st, rf2, act, qu, blk, ret, reads) /\ Refs(st, rf2)
    BY <1>1 DEF Types, Refs
  <1>3. Slots(st, rf2, act)
    <2>1. \A e \in Device : act[e] # NoOp => act[e] \in OpId
      BY <1>1 DEF Types
    <2> QED BY <1>1, <2>1 DEF Slots
  <1>4. Queues(st, rf2, qu)
    <2>1. \A e \in Device : \A i \in 1..Len(qu[e]) : qu[e][i] \in OpId
      BY <1>1, ElementOfSeq DEF Types
    <2>2. \A e \in Device : \A i \in 1..Len(qu[e]) :
            st[qu[e][i]] = "Queued" /\ rf2[qu[e][i]].device = e
      BY <1>1, <2>1 DEF Queues
    <2>3. \A q \in OpId : st[q] = "Queued" =>
            \E i \in 1..Len(qu[rf2[q].device]) : qu[rf2[q].device][i] = q
      BY <1>1 DEF Queues
    <2> QED BY <1>1, <2>2, <2>3 DEF Queues
  <1>5. Blocks(st, rf2, blk, ret)
    <2>1. \A e \in Device : blk[e] # NoOp => blk[e] \in OpId
      BY <1>1 DEF Types
    <2> QED BY <1>1, <2>1 DEF Blocks
  <1> QED BY <1>1, <1>2, <1>3, <1>4, <1>5 DEF Ledger

\* Cancelling all that is queued for one device.
LEMMA QueueCancelledLedger ==
    ASSUME NEW st, NEW rf, NEW act, NEW qu, NEW blk, NEW ret, NEW reads, NEW d \in Device,
           Ledger(st, rf, act, qu, blk, ret, reads), NEW st2, NEW qu2,
           st2 = [q \in OpId |-> IF st[q] = "Queued" /\ rf[q].device = d
                                 THEN "Cancelled" ELSE st[q]],
           qu2 = [qu EXCEPT ![d] = << >>]
    PROVE  Ledger(st2, rf, act, qu2, blk, ret, reads)
  <1>1. /\ Types(st, rf, act, qu, blk, ret, reads) /\ Refs(st, rf) /\ Slots(st, rf, act)
        /\ Queues(st, rf, qu) /\ Blocks(st, rf, blk, ret) /\ Excludes(act, blk, reads)
        /\ Lane(st, ret, reads) /\ Capacity(act)
    BY DEF Ledger
  <1>2. /\ \A q \in OpId : st2[q] = IF st[q] = "Queued" /\ rf[q].device = d
                                    THEN "Cancelled" ELSE st[q]
        /\ qu2[d] = << >> /\ \A e \in Device : e # d => qu2[e] = qu[e]
    BY <1>1 DEF Types
  <1>3. Types(st2, rf, act, qu2, blk, ret, reads)
    <2>1. st2 \in [OpId -> HubOperationState \cup {"Absent"}]
      BY <1>1 DEF Types
    <2>2. qu2 \in [Device -> Seq(OpId)]
      BY <1>1, EmptySeq DEF Types
    <2> QED BY <1>1, <2>1, <2>2 DEF Types
  <1>4. Refs(st2, rf)
    BY <1>1, <1>2 DEF Refs
  <1>5. Slots(st2, rf, act)
    <2>1. \A e \in Device : act[e] # NoOp => act[e] \in OpId
      BY <1>1 DEF Types
    <2> QED BY <1>1, <1>2, <2>1 DEF Slots
  <1>6. Queues(st2, rf, qu2)
    <2>1. ASSUME NEW e \in Device, NEW i \in 1..Len(qu2[e])
          PROVE  /\ e # d /\ qu2[e] = qu[e] /\ i \in 1..Len(qu[e])
                 /\ st2[qu2[e][i]] = "Queued" /\ rf[qu2[e][i]].device = e
      <3>1. e # d /\ qu2[e] = qu[e] /\ i \in 1..Len(qu[e])
        BY <1>2, <2>1, EmptySeq
      <3>2. qu[e][i] \in OpId /\ st[qu[e][i]] = "Queued" /\ rf[qu[e][i]].device = e
        BY <1>1, <3>1, ElementOfSeq DEF Types, Queues
      <3> QED BY <1>2, <3>1, <3>2
    <2>2. ASSUME NEW e \in Device, NEW i \in 1..Len(qu2[e]), NEW j \in 1..Len(qu2[e]),
                 qu2[e][i] = qu2[e][j]
          PROVE  i = j
      BY <1>1, <2>1, <2>2 DEF Queues
    <2>3. ASSUME NEW q \in OpId, st2[q] = "Queued"
          PROVE  \E i \in 1..Len(qu2[rf[q].device]) : qu2[rf[q].device][i] = q
      <3>1. st[q] = "Queued" /\ rf[q].device # d /\ rf[q].device \in Device
        BY <1>1, <1>2, <2>3 DEF Refs, OperationRef
      <3> QED BY <1>1, <1>2, <3>1 DEF Queues
    <2> QED BY <2>1, <2>2, <2>3 DEF Queues
  <1>7. Blocks(st2, rf, blk, ret)
    <2>1. \A e \in Device : blk[e] # NoOp => blk[e] \in OpId
      BY <1>1 DEF Types
    <2> QED BY <1>1, <1>2, <2>1 DEF Blocks
  <1>8. Lane(st2, ret, reads)
    <2>1. reads \subseteq OpId
      BY <1>1 DEF Types
    <2> QED BY <1>1, <1>2, <2>1 DEF Lane
  <1> QED BY <1>1, <1>3, <1>4, <1>5, <1>6, <1>7, <1>8 DEF Ledger

\* A queue holds ids of its own desktop that are queued.
LEMMA QueueHoldsQueued ==
    ASSUME AdmissionIInv, NEW d \in Device
    PROVE  {queue[d][i] : i \in DOMAIN queue[d]} =
              {q \in OpId : state[q] = "Queued" /\ ref[q].device = d}
  <1> USE LedgerParts
  <1>1. queue[d] \in Seq(OpId) /\ DOMAIN queue[d] = 1..Len(queue[d])
    BY LenProperties DEF Types
  <1>2. ASSUME NEW i \in DOMAIN queue[d]
        PROVE  queue[d][i] \in {q \in OpId : state[q] = "Queued" /\ ref[q].device = d}
    BY <1>1, <1>2, ElementOfSeq DEF Queues
  <1>3. ASSUME NEW q \in OpId, state[q] = "Queued", ref[q].device = d
        PROVE  \E i \in DOMAIN queue[d] : queue[d][i] = q
    BY <1>1, <1>3 DEF Queues
  <1> QED BY <1>2, <1>3

\* Whatever a rotation drops are ids.
LEMMA VictimsAreIds ==
    ASSUME NEW rt, NEW br, NEW gone \in RotationVictims(rt, br)
    PROVE  gone \in SUBSET OpId
  BY DEF RotationVictims, DetailedIds

\* What a retirement leaves of the records before it cancels or starts others.
LEMMA KeptRecords ==
    ASSUME SafetyIInv, NEW gone \in SUBSET OpId, \A q \in gone : state[q] = "Indeterminate",
           NEW kept, kept = [q \in OpId |-> IF q \in gone THEN NoRecord ELSE rec[q]],
           NEW st, st = [q \in OpId |-> IF q \in gone THEN "Absent" ELSE state[q]]
    PROVE  /\ RecordsOK(kept) /\ Agrees(kept, st, recoveryReads) /\ Bars(kept, ref, barrier)
           /\ \A q \in OpId : st[q] = state[q] \/ st[q] \notin {"Queued", "ActiveNotDispatched"}
           /\ recoveryReads \subseteq OpId
           /\ \A q \in recoveryReads : q \notin gone
  <1> USE SafetyParts
  <1>1. /\ \A q \in OpId \ gone : kept[q] = rec[q] /\ st[q] = state[q]
        /\ \A q \in gone : kept[q] = NoRecord /\ st[q] = "Absent"
    OBVIOUS
  <1>2. RecordsOK(kept)
    BY <1>1 DEF RecordsOK
  <1>3. recoveryReads \subseteq OpId /\ \A q \in recoveryReads : q \notin gone
    BY LedgerParts DEF Types, Lane
  <1>4. Agrees(kept, st, recoveryReads)
    <2>1. \A q \in OpId : kept[q].state = st[q]
      BY <1>1, Recordings
    <2>2. \A q \in recoveryReads : kept[q].lane = "RecoveryEvidenceRead"
      BY <1>1, <1>3 DEF Agrees
    <2>3. ASSUME NEW q \in OpId, st[q] \in Unsettled, q \notin recoveryReads
          PROVE  kept[q].lane = "Normal"
      BY <1>1, <2>3 DEF Agrees
    <2> QED BY <2>1, <2>2, <2>3 DEF Agrees
  <1>5. Bars(kept, ref, barrier)
    <2>1. ASSUME NEW q \in OpId, kept[q].state \in Unsettled, barrier[ref[q].device] # NoBarrier
          PROVE  kept[q].cap \in ObserveClass
      <3>1. q \notin gone
        BY <1>1, <2>1, Recordings
      <3> QED BY <1>1, <2>1, <3>1 DEF Bars
    <2> QED BY <2>1 DEF Bars
  <1>6. \A q \in OpId : st[q] = state[q] \/ st[q] \notin {"Queued", "ActiveNotDispatched"}
    BY <1>1
  <1> QED BY <1>2, <1>3, <1>4, <1>5, <1>6

\* What a retirement guarantees of the operations it does not touch.
RetiredOthers(gone) ==
    \A q \in OpId : state[q] \in {"Absent", "Indeterminate"} =>
        /\ state'[q] \in {"Absent", "Indeterminate"}
        /\ q \notin gone => rec'[q] = rec[q]

\* An accepted click raises the barrier and cancels the desktop's queue.
LEMMA RaiseKeeps ==
    ASSUME SafetyIInv, NEW id \in OpId, IsBlocking(id), NEW d \in Device, d = Of(id),
           NEW gone \in SUBSET OpId,
           \A q \in gone : state[q] = "Indeterminate" /\ (q = id \/ \A e \in Device : blocked[e] # q),
           NEW queued, queued = {queue[d][i] : i \in DOMAIN queue[d]},
           state' = Compacted([q \in OpId |-> IF q \in queued THEN "Cancelled" ELSE state[q]], gone),
           queue' = [queue EXCEPT ![d] = << >>], active' = active,
           ref' = [q \in OpId |-> IF q \in gone THEN NoRef ELSE ref[q]],
           rec' = CancelRecords([q \in OpId |-> IF q \in gone THEN NoRecord ELSE rec[q]], queued),
           blocked' = [blocked EXCEPT ![d] = NoOp], retired' = retired \cup {id},
           recoveryReads' = recoveryReads,
           \A e \in Device \ {d} : barrier'[e] = barrier[e]
    PROVE  /\ AdmissionIInv' /\ RecordsOK(rec') /\ Agrees(rec', state', recoveryReads')
           /\ Bars(rec', ref', barrier') /\ RetiredOthers(gone)
  <1>1. PICK st : st = [q \in OpId |-> IF q \in gone THEN "Absent" ELSE state[q]]
    OBVIOUS
  <1>2. PICK kept : kept = [q \in OpId |-> IF q \in gone THEN NoRecord ELSE rec[q]]
    OBVIOUS
  <1>3. \A q \in OpId : q \in queued <=> state[q] = "Queued" /\ ref[q].device = d
    BY SafetyParts, QueueHoldsQueued
  <1>4. /\ RecordsOK(kept) /\ Agrees(kept, st, recoveryReads) /\ Bars(kept, ref, barrier)
        /\ recoveryReads \subseteq OpId /\ \A q \in recoveryReads : q \notin gone
    BY <1>1, <1>2, KeptRecords
  <1>5. AdmissionIInv'
    <2>1. Ledger(st, ref, active, queue, [blocked EXCEPT ![Of(id)] = NoOp],
                 retired \cup {id}, recoveryReads)
      BY <1>1, SafetyParts, RetiredLedger
    <2>2. PICK blk : blk = [blocked EXCEPT ![d] = NoOp]
      OBVIOUS
    <2>3. Ledger(st, ref, active, queue, blk, retired \cup {id}, recoveryReads)
      BY <2>1, <2>2
    <2>4. state' = [q \in OpId |-> IF st[q] = "Queued" /\ ref[q].device = d
                                   THEN "Cancelled" ELSE st[q]]
      BY <1>1, <1>3 DEF Compacted
    <2>5. PICK rf, act, qu, ret, reads, st2, qu2 :
            /\ rf = ref /\ act = active /\ qu = queue /\ ret = retired \cup {id}
            /\ reads = recoveryReads /\ st2 = state' /\ qu2 = queue'
      OBVIOUS
    <2>6. /\ Ledger(st, rf, act, qu, blk, ret, reads)
          /\ st2 = [q \in OpId |-> IF st[q] = "Queued" /\ rf[q].device = d
                                   THEN "Cancelled" ELSE st[q]]
          /\ qu2 = [qu EXCEPT ![d] = << >>]
      BY <2>3, <2>4, <2>5
    <2>7. Ledger(st2, rf, act, qu2, blk, ret, reads)
      BY ONLY <2>6, d \in Device, QueueCancelledLedger
    <2>8. PICK rf2 : rf2 = ref'
      OBVIOUS
    <2>9. /\ rf2 \in [OpId -> OperationRef \cup {NoRef}]
          /\ \A q \in OpId : st2[q] # "Absent" => rf2[q] = rf[q]
      <3>1. \A q \in OpId : rf2[q] = IF q \in gone THEN NoRef ELSE ref[q]
        BY <2>8
      <3>2. \A q \in gone : st[q] = "Absent"
        BY <1>1
      <3>3. \A q \in OpId : st2[q] # "Absent" => q \notin gone
        BY <2>6, <3>2
      <3> QED BY <2>5, <2>8, <3>1, <3>3, SafetyParts, LedgerParts DEF Types
    <2>10. Ledger(st2, rf2, act, qu2, blk, ret, reads)
      BY ONLY <2>7, <2>9, ForgottenRefs
    <2>11. Ledger(state', ref', active', queue', blocked', retired', recoveryReads')
      BY <2>2, <2>5, <2>8, <2>10
    <2> QED BY <2>11 DEF AdmissionIInv
  <1>6. \A q \in OpId : state'[q] = IF q \in queued THEN "Cancelled" ELSE st[q]
    <2>1. \A q \in OpId : q \in queued => q \notin gone
      BY <1>3
    <2> QED BY <1>1, <2>1 DEF Compacted
  <1>60. PICK r : r = rec'
    OBVIOUS
  <1>62. r = CancelRecords(kept, queued)
    BY <1>2, <1>60
  <1>61. \A q \in OpId : q \notin queued => rec'[q] = kept[q]
    <2>1. \A q \in OpId : q \notin queued => r[q] = kept[q]
      BY <1>62, Zenon DEF CancelRecords
    <2> QED BY ONLY <1>60, <2>1
  <1>7. ASSUME NEW q \in OpId, q \in queued
        PROVE  /\ rec'[q] \in SafetyOperation /\ RecordFits(rec'[q])
               /\ rec'[q].state = "Cancelled" /\ q \notin recoveryReads
    <2>1. /\ kept[q] = rec[q] /\ rec[q] \in SafetyOperation /\ RecordFits(rec[q])
          /\ rec[q].state = "Queued"
      <3>1. state[q] = "Queued" /\ q \notin gone
        BY <1>3, <1>7
      <3>2. rec[q] \in SafetyOperation /\ RecordFits(rec[q]) /\ rec[q].state = state[q]
        BY <3>1, SafetyParts
      <3> QED BY <1>2, <3>1, <3>2
    <2>2. PICK c : c = kept[q]
      OBVIOUS
    <2>4. c \in SafetyOperation /\ RecordFits(c) /\ c.state = "Queued"
      BY <2>1, <2>2
    <2>3. rec'[q] = [c EXCEPT !.state = "Cancelled", !.evidence = "CancelledBeforeDispatch"]
      <3>1. rec'[q] = [kept[q] EXCEPT !.state = "Cancelled",
                                      !.evidence = "CancelledBeforeDispatch"]
        <4>1. r[q] = [kept[q] EXCEPT !.state = "Cancelled", !.evidence = "CancelledBeforeDispatch"]
          BY <1>62, <1>7, Zenon DEF CancelRecords
        <4> QED BY ONLY <1>60, <4>1
      <3> QED BY ONLY <2>2, <3>1
    <2>5. /\ rec'[q] \in SafetyOperation /\ rec'[q].state = "Cancelled"
          /\ rec'[q].evidence = "CancelledBeforeDispatch"
          /\ rec'[q].dispatched = c.dispatched /\ rec'[q].lane = c.lane /\ rec'[q].cap = c.cap
      BY ONLY <2>3, <2>4 DEF SafetyOperation, ExecutionEvidence, HubOperationState,
         Unsettled, Running, InFlight, Terminal
    <2>6. RecordFits(rec'[q])
      BY <2>4, <2>5 DEF RecordFits
    <2>7. q \notin recoveryReads
      BY <1>3, <1>7, SafetyParts, LedgerParts DEF Lane
    <2> QED BY <2>5, <2>6, <2>7
  <1>8. RecordsOK(rec')
    <2>1. \A q \in OpId : /\ rec'[q] \in SafetyOperation \cup {NoRecord}
                          /\ rec'[q] # NoRecord => RecordFits(rec'[q])
      BY <1>4, <1>61, <1>7 DEF RecordsOK
    <2>2. rec' = [q \in OpId |-> rec'[q]]
      BY <1>60, <1>62, Zenon DEF CancelRecords
    <2> QED BY <2>1, <2>2 DEF RecordsOK
  <1>9. Agrees(rec', state', recoveryReads')
    <2>1. ASSUME NEW q \in OpId
          PROVE  /\ rec'[q].state = state'[q]
                 /\ q \in recoveryReads => rec'[q].lane = "RecoveryEvidenceRead"
                 /\ state'[q] \in Unsettled /\ q \notin recoveryReads => rec'[q].lane = "Normal"
      <3>1. CASE q \in queued
        BY <1>6, <1>7, <3>1
      <3>2. CASE q \notin queued
        <4>1. rec'[q] = kept[q] /\ state'[q] = st[q]
          BY <1>6, <1>61, <3>2
        <4> QED BY <4>1, <1>4 DEF Agrees
      <3> QED BY <3>1, <3>2
    <2> QED BY <1>4, <2>1 DEF Agrees
  <1>10. Bars(rec', ref', barrier')
    <2>1. ASSUME NEW q \in OpId, rec'[q].state \in Unsettled,
                 barrier'[ref'[q].device] # NoBarrier
          PROVE  rec'[q].cap \in ObserveClass
      <3>1. q \notin queued /\ rec'[q] = kept[q]
        BY <1>61, <1>7, <2>1
      <3>2. q \notin gone /\ rec'[q] = rec[q] /\ ref'[q] = ref[q]
        BY <1>2, <2>1, <3>1, Recordings
      <3>3. /\ state[q] \in Unsettled /\ ref[q].device \in Device
        BY <2>1, <3>2, SafetyParts, Recordings DEF OperationRef
      <3>4. CASE ref[q].device = d
        <4>1. state[q] \in Running /\ active[d] = q
          BY <1>3, <3>1, <3>3, <3>4, SafetyParts, LedgerParts DEF Slots
        <4>2. blocked[d] # NoOp /\ q # NoOp
          BY AdmissionConstants DEF IsBlocking
        <4>3. q \in recoveryReads
          BY <4>1, <4>2, SafetyParts, LedgerParts DEF Excludes
        <4>4. rec[q].lane = "RecoveryEvidenceRead" /\ RecordFits(rec[q])
          BY <3>3, <4>3, SafetyParts DEF Agrees
        <4> QED BY <3>2, <4>4 DEF RecordFits, ObserveClass
      <3>5. CASE ref[q].device # d
        BY <2>1, <3>2, <3>3, <3>5, SafetyParts DEF Bars
      <3> QED BY <3>4, <3>5
    <2> QED BY <2>1 DEF Bars
  <1>11. RetiredOthers(gone)
    <2>1. ASSUME NEW q \in OpId, state[q] \in {"Absent", "Indeterminate"}
          PROVE  /\ state'[q] \in {"Absent", "Indeterminate"}
                 /\ q \notin gone => rec'[q] = rec[q]
      <3>1. q \notin queued
        BY <1>3, <2>1
      <3> QED BY <1>1, <1>2, <1>6, <1>61, <2>1, <3>1
    <2> QED BY <2>1 DEF RetiredOthers
  <1> QED BY <1>5, <1>8, <1>9, <1>10, <1>11

\* Any other retirement frees the desktop for the next queued operation.
LEMMA UnraisedKeeps ==
    ASSUME SafetyIInv, NEW id \in OpId, IsBlocking(id), NEW d \in Device, d = Of(id),
           NEW gone \in SUBSET OpId,
           \A q \in gone : state[q] = "Indeterminate" /\ (q = id \/ \A e \in Device : blocked[e] # q),
           StartNextForAvailableCapacity(d, Compacted(state, gone), active,
                                         [blocked EXCEPT ![d] = NoOp]),
           ref' = [q \in OpId |-> IF q \in gone THEN NoRef ELSE ref[q]],
           rec' = ActivateNext([q \in OpId |-> IF q \in gone THEN NoRecord ELSE rec[q]]),
           blocked' = [blocked EXCEPT ![d] = NoOp], retired' = retired \cup {id},
           recoveryReads' = recoveryReads, barrier' = barrier
    PROVE  /\ AdmissionIInv' /\ RecordsOK(rec') /\ Agrees(rec', state', recoveryReads')
           /\ Bars(rec', ref', barrier') /\ RetiredOthers(gone)
  <1> USE SafetyParts
  <1>1. PICK st : st = [q \in OpId |-> IF q \in gone THEN "Absent" ELSE state[q]]
    OBVIOUS
  <1>2. PICK kept : kept = [q \in OpId |-> IF q \in gone THEN NoRecord ELSE rec[q]]
    OBVIOUS
  <1>3. PICK blk, act, ret, reads, rf, br :
          /\ blk = [blocked EXCEPT ![d] = NoOp] /\ act = active /\ ret = retired \cup {id}
          /\ reads = recoveryReads /\ rf = ref /\ br = barrier
    OBVIOUS
  <1>4. /\ RecordsOK(kept) /\ Agrees(kept, st, reads) /\ Bars(kept, rf, br)
        /\ \A q \in OpId : st[q] = state[q] \/ st[q] \notin {"Queued", "ActiveNotDispatched"}
        /\ reads \subseteq OpId
    BY <1>1, <1>2, <1>3, KeptRecords
  <1>5. Ledger(st, ref, active, queue, blk, ret, reads)
    <2>1. Ledger(st, ref, active, queue, [blocked EXCEPT ![Of(id)] = NoOp],
                 retired \cup {id}, recoveryReads)
      BY <1>1, RetiredLedger
    <2> QED BY <1>3, <2>1
  <1>6. StartNextForAvailableCapacity(d, st, act, blk)
    <2>1. Compacted(state, gone) = st
      BY <1>1 DEF Compacted
    <2> QED BY <1>3, <2>1
  <1>7. Ledger(state', ref, active', queue', blk, ret, reads)
    <2>1. Ledger(st, ref, act, queue, blk, ret, reads)
      BY <1>3, <1>5
    <2> QED BY <1>6, <2>1, StartNextKeepsLedger
  <1>8. StartsFrom(st)
    <2>1. /\ st \in [OpId -> HubOperationState \cup {"Absent"}]
          /\ Queues(st, ref, queue) /\ queue \in [Device -> Seq(OpId)]
      BY <1>5 DEF Ledger, Types
    <2>2. \A q \in OpId : st[q] = "Queued" => state[q] = "Queued"
      BY <1>1
    <2> QED BY <1>6, <2>1, <2>2, StartNextStarts
  <1>9. AdmissionIInv'
    <2>1. PICK st2, act2, qu2, rf2 : st2 = state' /\ act2 = active' /\ qu2 = queue' /\ rf2 = ref'
      OBVIOUS
    <2>2. Ledger(st2, rf, act2, qu2, blk, ret, reads)
      BY <1>3, <1>7, <2>1
    <2>3. /\ rf2 \in [OpId -> OperationRef \cup {NoRef}]
          /\ \A q \in OpId : st2[q] # "Absent" => rf2[q] = rf[q]
      <3>1. \A q \in OpId : rf2[q] = IF q \in gone THEN NoRef ELSE ref[q]
        BY <2>1
      <3>2. \A q \in gone : st[q] = "Absent"
        BY <1>1
      <3>3. \A q \in gone : state'[q] = "Absent"
        BY <1>8, <3>2 DEF StartsFrom
      <3> QED BY <1>3, <2>1, <3>1, <3>3, LedgerParts DEF Types
    <2>4. Ledger(st2, rf2, act2, qu2, blk, ret, reads)
      BY <2>2, <2>3, ForgottenRefs
    <2>5. Ledger(state', ref', active', queue', blocked', retired', recoveryReads')
      BY <1>3, <2>1, <2>4
    <2> QED BY <2>5 DEF AdmissionIInv
  <1>10. rec' = ActivateNext(kept)
    BY <1>2
  <1>11. /\ RecordsOK(rec') /\ Agrees(rec', state', reads) /\ Bars(rec', rf, br)
         /\ \A q \in OpId : kept[q].state # "Queued" => rec'[q] = kept[q]
    BY <1>4, <1>8, <1>10, ActivateKeeps
  <1>12. Bars(rec', ref', barrier')
    <2>1. ASSUME NEW q \in OpId, rec'[q].state \in Unsettled,
                 barrier'[ref'[q].device] # NoBarrier
          PROVE  rec'[q].cap \in ObserveClass
      <3>1. q \notin gone
        <4>1. q \in gone => kept[q] = NoRecord /\ rec'[q] = kept[q]
          BY <1>2, <1>11, Recordings
        <4> QED BY <2>1, <4>1, Recordings
      <3>2. ref'[q] = rf[q]
        BY <1>3, <3>1
      <3> QED BY <1>3, <1>11, <2>1, <3>2 DEF Bars
    <2> QED BY <2>1 DEF Bars
  <1>13. RetiredOthers(gone)
    <2>1. ASSUME NEW q \in OpId, state[q] \in {"Absent", "Indeterminate"}
          PROVE  /\ state'[q] \in {"Absent", "Indeterminate"}
                 /\ q \notin gone => rec'[q] = rec[q]
      <3>1. st[q] \in {"Absent", "Indeterminate"} /\ kept[q].state = st[q]
        BY <1>1, <1>4, <2>1 DEF Agrees
      <3> QED BY <1>2, <1>8, <1>11, <3>1 DEF StartsFrom
    <2> QED BY <2>1 DEF RetiredOthers
  <1> QED BY <1>3, <1>9, <1>11, <1>12, <1>13

\* What a retirement records about the outcome it gives up on is well formed.
LEMMA RetirementTypes ==
    ASSUME SafetyIInv, NEW id \in OpId, NEW disposition \in {"Retired", "CurrentStateAccepted"},
           NEW authorized, authorized = generation[Of(id)], IsBlocking(id),
           MayRetireRecord(id, disposition, authorized)
    PROVE  /\ RetirementOf(id, disposition, authorized) \in RetirementRecords
           /\ authorized \in Generation /\ ref[id] \in OperationRef /\ Of(id) \in Device
  <1>1. /\ ref[id] \in OperationRef /\ Of(id) \in Device /\ rec[id] \in SafetyOperation
    BY SafetyParts DEF IsBlocking, Of, OperationRef
  <1>2. ref[id].generation \in Generation
    BY <1>1 DEF OperationRef
  <1>3. authorized \in Generation
    <2>1. authorized \in 0..MaxGeneration
      BY <1>1, SafetyParts DEF BookTypes
    <2>2. authorized > ref[id].generation
      BY DEF MayRetireRecord
    <2> QED BY <1>2, <2>1, <2>2, AdmissionConstants DEF Generation
  <1>4. rec[id].reason \in IndeterminateReason
    <2>1. quarantine[Of(id)] # NoQuarantine /\ quarantine[Of(id)].reason = rec[id].reason
      BY DEF MayRetireRecord, HoldsQuarantine
    <2>2. quarantine[Of(id)] \in QuarantineRecords
      BY <1>1, <2>1, SafetyParts DEF BookTypes
    <2> QED BY <2>1, <2>2 DEF QuarantineRecords
  <1>5. rec[id].cap \in {"Scroll", "PointerClick"}
    BY DEF MayRetireRecord, Eligible
  <1>6. rec[id].recon \in {"None", "OperatorRequired", "UnrecoverableEvidenceGap"}
    BY DEF MayRetireRecord
  <1>7. PICK prior : prior = IF rec[id].recon = "None" THEN "OperatorRequired" ELSE rec[id].recon
    OBVIOUS
  <1>8. prior \in {"OperatorRequired", "UnrecoverableEvidenceGap"}
    BY <1>6, <1>7
  <1>9. RetirementOf(id, disposition, authorized) =
          [ref |-> ref[id], cap |-> rec[id].cap, disposition |-> disposition,
           reason |-> rec[id].reason, prior |-> prior, authorized |-> authorized]
    BY <1>7 DEF RetirementOf
  <1>10. RetirementOf(id, disposition, authorized) \in RetirementRecords
    BY <1>1, <1>3, <1>4, <1>5, <1>8, <1>9 DEF RetirementRecords
  <1> QED BY <1>1, <1>3, <1>10

\* What a retirement does to the details, the barriers and the resumes.
Raises(id, disposition) ==
    disposition = "CurrentStateAccepted" /\ rec[id].cap = "PointerClick"
RaisedBarrier(id, disposition, authorized) ==
    IF Raises(id, disposition)
    THEN [barrier EXCEPT ![Of(id)] =
           [source |-> id, sourceGeneration |-> ref[id].generation, accepted |-> authorized]]
    ELSE barrier
Rotates(id, disposition, authorized) ==
    LET rt == [retirement EXCEPT ![id] = RetirementOf(id, disposition, authorized)]
    IN  /\ Raises(id, disposition) => ~ Barred(Of(id))
        /\ barrier' = RaisedBarrier(id, disposition, authorized)
        /\ blocked' = [blocked EXCEPT ![Of(id)] = NoOp]
        /\ retired' = retired \cup {id}
        /\ \E gone \in RotationVictims(rt, barrier') :
              /\ \A q \in gone : state[q] = "Indeterminate"
                                  /\ (q = id \/ \A e \in Device : blocked[e] # q)
              /\ retirement' = [q \in OpId |-> IF q \in gone THEN NoRetirement ELSE rt[q]]
              /\ resume' = [q \in OpId |-> IF q \in gone THEN NoResume ELSE resume[q]]
              /\ RetiredOthers(gone)

\* retire_indeterminate_with_disposition, whichever details its rotation drops.
LEMMA RetireKeeps ==
    ASSUME SafetyIInv, NEW id \in OpId, NEW disposition \in {"Retired", "CurrentStateAccepted"},
           NEW authorized, authorized = generation[Of(id)],
           RetireIndeterminateWithDisposition(id, disposition, authorized)
    PROVE  /\ SafetyIInv' /\ id \in retired' \ retired
           /\ quarantine' = [quarantine EXCEPT ![Of(id)] = NoQuarantine]
           /\ \A q \in OpId : q \in retired => rec'[q].state \in {rec[q].state, "Absent"}
           /\ Rotates(id, disposition, authorized)
  <1>0. PICK d : d = Of(id)
    OBVIOUS
  <1>1. PICK raise \in BOOLEAN :
          raise <=> disposition = "CurrentStateAccepted" /\ rec[id].cap = "PointerClick"
    <2>1. (disposition = "CurrentStateAccepted" /\ rec[id].cap = "PointerClick") \in BOOLEAN
      OBVIOUS
    <2> QED BY <2>1
  <1>2. PICK rt : rt = [retirement EXCEPT ![id] = RetirementOf(id, disposition, authorized)]
    OBVIOUS
  <1>3. PICK up : up = [source |-> id, sourceGeneration |-> ref[id].generation,
                        accepted |-> authorized]
    OBVIOUS
  <1>4. PICK br : br = IF raise THEN [barrier EXCEPT ![d] = up] ELSE barrier
    OBVIOUS
  <1>5. PICK queued : queued = {queue[d][i] : i \in DOMAIN queue[d]}
    OBVIOUS
  <1>6. /\ MayRetireRecord(id, disposition, authorized) /\ MayRetire(id)
        /\ blocked' = [blocked EXCEPT ![d] = NoOp] /\ retired' = retired \cup {id}
        /\ barrier' = br /\ quarantine' = [quarantine EXCEPT ![d] = NoQuarantine]
        /\ UNCHANGED <<recoveryReads, archive, resolutions, autoResolutions, generation>>
    BY <1>0, <1>1, <1>3, <1>4 DEF RetireIndeterminateWithDisposition
  <1> DEFINE dd == Of(id)
             raised == disposition = "CurrentStateAccepted" /\ rec[id].cap = "PointerClick"
             rtt == [retirement EXCEPT ![id] = RetirementOf(id, disposition, authorized)]
             brr == IF raised
                    THEN [barrier EXCEPT ![dd] =
                           [source |-> id, sourceGeneration |-> ref[id].generation,
                            accepted |-> authorized]]
                    ELSE barrier
             queuedd == {queue[dd][i] : i \in DOMAIN queue[dd]}
             kept(gone) == [q \in OpId |-> IF q \in gone THEN NoRecord ELSE rec[q]]
             Ends(gone) ==
               /\ \A q \in gone : CanCompact(q, rtt, [blocked EXCEPT ![dd] = NoOp])
               /\ IF raised
                  THEN /\ \A q \in queuedd : state[q] = "Queued" /\ rec[q].state = "Queued"
                       /\ state' = Compacted([q \in OpId |->
                            IF q \in queuedd THEN "Cancelled" ELSE state[q]], gone)
                       /\ queue' = [queue EXCEPT ![dd] = << >>]
                       /\ active' = active
                  ELSE StartNextForAvailableCapacity(dd, Compacted(state, gone), active,
                                                     [blocked EXCEPT ![dd] = NoOp])
               /\ ref' = [q \in OpId |-> IF q \in gone THEN NoRef ELSE ref[q]]
               /\ rec' = IF raised THEN CancelRecords(kept(gone), queuedd)
                         ELSE ActivateNext(kept(gone))
               /\ retirement' = [q \in OpId |-> IF q \in gone THEN NoRetirement ELSE rtt[q]]
               /\ resume' = [q \in OpId |-> IF q \in gone THEN NoResume ELSE resume[q]]
  <1>70. \E gone \in RotationVictims(rtt, brr) : Ends(gone)
    BY DEF RetireIndeterminateWithDisposition
  <1>71. dd = d /\ (raised <=> raise) /\ rtt = rt /\ brr = br /\ queuedd = queued
    BY <1>0, <1>1, <1>2, <1>3, <1>4, <1>5
  <1>7. PICK gone \in RotationVictims(rt, br) :
          /\ \A q \in gone : CanCompact(q, rt, [blocked EXCEPT ![d] = NoOp])
          /\ IF raise
             THEN /\ \A q \in queued : state[q] = "Queued" /\ rec[q].state = "Queued"
                  /\ state' = Compacted([q \in OpId |->
                       IF q \in queued THEN "Cancelled" ELSE state[q]], gone)
                  /\ queue' = [queue EXCEPT ![d] = << >>]
                  /\ active' = active
             ELSE StartNextForAvailableCapacity(d, Compacted(state, gone), active,
                                                [blocked EXCEPT ![d] = NoOp])
          /\ ref' = [q \in OpId |-> IF q \in gone THEN NoRef ELSE ref[q]]
          /\ rec' = IF raise
                    THEN CancelRecords([q \in OpId |->
                                          IF q \in gone THEN NoRecord ELSE rec[q]], queued)
                    ELSE ActivateNext([q \in OpId |->
                                         IF q \in gone THEN NoRecord ELSE rec[q]])
          /\ retirement' = [q \in OpId |-> IF q \in gone THEN NoRetirement ELSE rt[q]]
          /\ resume' = [q \in OpId |-> IF q \in gone THEN NoResume ELSE resume[q]]
    <2>1. PICK gone \in RotationVictims(rtt, brr) : Ends(gone)
      BY <1>70
    <2>2. gone \in RotationVictims(rt, br)
      BY <1>71, <2>1
    <2>3. Ends(gone)
      BY <2>1
    <2> HIDE DEF dd, raised, rtt, brr, queuedd
    <2> QED BY <1>71, <2>2, <2>3
  <1> HIDE DEF dd, raised, rtt, brr, queuedd, kept, Ends
  <1>8. IsBlocking(id) /\ id \notin retired
    BY <1>6 DEF MayRetire
  <1>9. /\ RetirementOf(id, disposition, authorized) \in RetirementRecords
        /\ authorized \in Generation /\ ref[id] \in OperationRef /\ d \in Device
    BY <1>0, <1>6, <1>8, RetirementTypes
  <1>10. gone \in SUBSET OpId
    BY <1>7, VictimsAreIds
  <1>11. \A q \in gone : state[q] = "Indeterminate" /\ (q = id \/ \A e \in Device : blocked[e] # q)
    <2>1. ASSUME NEW q \in gone
          PROVE  state[q] = "Indeterminate" /\ (q = id \/ \A e \in Device : blocked[e] # q)
      <3>1. /\ state[q] = "Indeterminate"
            /\ \A e \in Device : [blocked EXCEPT ![d] = NoOp][e] # q
        BY <1>7, <2>1 DEF CanCompact
      <3>2. \A e \in Device : e # d => blocked[e] # q
        BY <3>1, <1>9, SafetyParts, LedgerParts DEF Types
      <3>3. blocked[d] = id
        BY <1>0, <1>8 DEF IsBlocking
      <3> QED BY <3>1, <3>2, <3>3
    <2> QED BY <2>1
  <1>12. \A e \in Device \ {d} : barrier'[e] = barrier[e]
    BY <1>4, <1>6, <1>9, SafetyParts DEF BookTypes
  <1>13. /\ AdmissionIInv' /\ RecordsOK(rec') /\ Agrees(rec', state', recoveryReads')
         /\ Bars(rec', ref', barrier') /\ RetiredOthers(gone)
    <2>1. CASE raise
      <3>1. /\ state' = Compacted([q \in OpId |->
                          IF q \in queued THEN "Cancelled" ELSE state[q]], gone)
            /\ queue' = [queue EXCEPT ![d] = << >>] /\ active' = active
            /\ ref' = [q \in OpId |-> IF q \in gone THEN NoRef ELSE ref[q]]
            /\ rec' = CancelRecords([q \in OpId |->
                          IF q \in gone THEN NoRecord ELSE rec[q]], queued)
            /\ blocked' = [blocked EXCEPT ![d] = NoOp] /\ retired' = retired \cup {id}
            /\ recoveryReads' = recoveryReads
        BY <1>6, <1>7, <2>1
      <3> QED BY <1>0, <1>5, <1>8, <1>9, <1>10, <1>11, <1>12, <3>1, RaiseKeeps
    <2>2. CASE ~ raise
      <3>1. /\ StartNextForAvailableCapacity(d, Compacted(state, gone), active,
                                             [blocked EXCEPT ![d] = NoOp])
            /\ ref' = [q \in OpId |-> IF q \in gone THEN NoRef ELSE ref[q]]
            /\ rec' = ActivateNext([q \in OpId |->
                          IF q \in gone THEN NoRecord ELSE rec[q]])
            /\ blocked' = [blocked EXCEPT ![d] = NoOp] /\ retired' = retired \cup {id}
            /\ recoveryReads' = recoveryReads /\ barrier' = barrier
        BY <1>4, <1>6, <1>7, <2>2
      <3> QED BY <1>0, <1>8, <1>9, <1>10, <1>11, <3>1, UnraisedKeeps
    <2> QED BY <2>1, <2>2
  <1>14. BookTypes'
    <2>0. BookTypes
      BY SafetyParts
    <2>1. retirement' \in [OpId -> RetirementRecords \cup {NoRetirement}]
      <3>1. rt \in [OpId -> RetirementRecords \cup {NoRetirement}]
        BY <1>2, <1>9, <2>0 DEF BookTypes
      <3> QED BY <1>7, <3>1
    <2>2. resume' \in [OpId -> ResumeRecords \cup {NoResume}]
      BY <1>7, <2>0 DEF BookTypes
    <2>3. barrier' \in [Device -> BarrierRecords \cup {NoBarrier}]
      <3>1. up \in BarrierRecords
        BY <1>3, <1>9 DEF BarrierRecords, OperationRef
      <3> QED BY <1>4, <1>6, <3>1, <2>0 DEF BookTypes
    <2>4. quarantine' \in [Device -> QuarantineRecords \cup {NoQuarantine}]
      BY <1>6, <2>0 DEF BookTypes
    <2> QED BY <1>6, <2>0, <2>1, <2>2, <2>3, <2>4 DEF BookTypes
  <1>15. Quarantines(quarantine', ref', blocked', rec')
    <2>1. ASSUME NEW e \in Device
          PROVE  /\ quarantine'[e].op = blocked'[e]
                 /\ quarantine'[e] # NoQuarantine =>
                       /\ quarantine'[e].generation = ref'[blocked'[e]].generation
                       /\ quarantine'[e].reason = rec'[blocked'[e]].reason
      <3>1. CASE e = d
        <4>1. quarantine'[e] = NoQuarantine /\ blocked'[e] = NoOp
          BY <1>6, <1>9, <3>1, SafetyParts, LedgerParts DEF BookTypes, Types
        <4> QED BY <4>1, NoQuarantineHasNoOp
      <3>2. CASE e # d
        <4>1. quarantine'[e] = quarantine[e] /\ blocked'[e] = blocked[e]
          BY <1>6, <1>9, <3>2, SafetyParts, LedgerParts DEF BookTypes, Types
        <4>2. CASE blocked[e] = NoOp
          <5>1. quarantine[e] = NoQuarantine
            BY <4>2, QuarantinedIsBlocked
          <5> QED BY <4>1, <4>2, <5>1, NoQuarantineHasNoOp
        <4>3. CASE blocked[e] # NoOp
          <5>1. PICK q \in OpId : q = blocked[e]
            BY <4>3, SafetyParts
          <5>2. state[q] = "Indeterminate" /\ ref[q].device = e
            BY <4>3, <5>1, SafetyParts, LedgerParts DEF Blocks
          <5>3. q # id
            BY <1>0, <3>2, <5>2 DEF Of
          <5>4. q \notin gone
            BY <1>11, <5>1, <5>3
          <5>5. rec'[q] = rec[q] /\ ref'[q] = ref[q]
            BY <1>7, <1>13, <5>2, <5>4 DEF RetiredOthers
          <5>6. /\ quarantine[e].op = blocked[e]
                /\ quarantine[e] # NoQuarantine =>
                       /\ quarantine[e].generation = ref[q].generation
                       /\ quarantine[e].reason = rec[q].reason
            BY <5>1, SafetyParts DEF Quarantines
          <5> QED BY <4>1, <5>1, <5>5, <5>6
        <4> QED BY <4>2, <4>3
      <3> QED BY <3>1, <3>2
    <2> QED BY <2>1 DEF Quarantines
  <1>16. Undecided(state', retired')
    <2>1. ASSUME NEW q \in retired' PROVE state'[q] \in {"Absent", "Indeterminate"}
      <3>1. q \in OpId /\ state[q] \in {"Absent", "Indeterminate"}
        BY <1>6, <1>8, <2>1, SafetyParts, LedgerParts DEF Undecided, Types, IsBlocking
      <3> QED BY <1>13, <3>1 DEF RetiredOthers
    <2> QED BY <2>1 DEF Undecided
  <1>17. ASSUME NEW q \in OpId, q \in retired
         PROVE  rec'[q].state \in {rec[q].state, "Absent"}
    <2>1. state[q] \in {"Absent", "Indeterminate"} /\ rec[q].state = state[q]
      BY <1>17, SafetyParts DEF Undecided
    <2>2. rec'[q].state = state'[q] /\ state'[q] \in {"Absent", "Indeterminate"}
      BY <1>13, <2>1 DEF Agrees, RetiredOthers
    <2>3. CASE q \in gone
      <3>1. rec'[q].state \in {"Absent", "Indeterminate"} /\ state[q] = "Indeterminate"
        BY <1>11, <2>2, <2>3
      <3> QED BY <2>1, <3>1
    <2>4. CASE q \notin gone
      BY <1>13, <2>1, <2>4 DEF RetiredOthers
    <2> QED BY <2>3, <2>4
  <1>18. SafetyIInv'
    BY <1>13, <1>14, <1>15, <1>16 DEF SafetyIInv
  <1>19. Rotates(id, disposition, authorized)
    <2>1. RaisedBarrier(id, disposition, authorized) = br
      BY <1>0, <1>1, <1>3, <1>4 DEF RaisedBarrier, Raises
    <2>2. Raises(id, disposition) => ~ Barred(Of(id))
      BY DEF RetireIndeterminateWithDisposition, Raises
    <2> QED BY <1>0, <1>2, <1>6, <1>7, <1>11, <1>13, <2>1, <2>2 DEF Rotates
  <1> QED BY <1>0, <1>6, <1>8, <1>17, <1>18, <1>19

-----------------------------------------------------------------------------
(* Restart *)

\* The snapshot of a record fits its outcome, and of an undecided or settled one
\* is the record itself.
LEMMA SnapshotFits ==
    ASSUME SafetyIInv, NEW q \in OpId
    PROVE  /\ SnapshotRecord(q) \in SafetyOperation \cup {NoRecord}
           /\ SnapshotRecord(q) # NoRecord => RecordFits(SnapshotRecord(q))
           /\ state[q] \notin Unsettled => SnapshotRecord(q) = rec[q]
           /\ rec[q].state \in InFlight /\ rec[q].lane = "Normal" =>
                 SnapshotRecord(q).reason = "HubRestartAfterDispatch"
  <1>0. PICK r : r = rec[q]
    OBVIOUS
  <1>1. /\ r \in SafetyOperation \cup {NoRecord} /\ r.state = state[q]
        /\ r # NoRecord => RecordFits(r)
    BY <1>0, SafetyParts DEF RecordsOK
  <1>2. CASE r.state \notin Unsettled
    <2>1. SnapshotRecord(q) = r
      BY <1>0, <1>2 DEF SnapshotRecord
    <2> QED BY <1>0, <1>1, <1>2, <2>1
  <1>3. CASE r.state \in {"Queued", "ActiveNotDispatched"}
    <2>1. SnapshotRecord(q) = [r EXCEPT !.state = "Cancelled",
                                        !.evidence = "CancelledBeforeDispatch", !.result = FALSE]
      BY <1>0, <1>3 DEF SnapshotRecord
    <2>2. r \in SafetyOperation /\ RecordFits(r)
      BY <1>1, <1>3, Recordings
    <2>3. /\ SnapshotRecord(q) \in SafetyOperation /\ SnapshotRecord(q).state = "Cancelled"
          /\ SnapshotRecord(q).evidence = "CancelledBeforeDispatch"
          /\ SnapshotRecord(q).dispatched = r.dispatched
          /\ SnapshotRecord(q).lane = r.lane /\ SnapshotRecord(q).cap = r.cap
      BY <2>1, <2>2 DEF SafetyOperation, ExecutionEvidence
    <2>4. RecordFits(SnapshotRecord(q))
      BY <1>3, <2>2, <2>3 DEF RecordFits
    <2> QED BY <1>0, <1>1, <1>3, <2>3, <2>4
  <1>4. CASE r.state \in InFlight /\ r.lane = "RecoveryEvidenceRead"
    <2>1. SnapshotRecord(q) = [r EXCEPT !.state = "Failed", !.reason = "None",
                                        !.evidence = "RecoveryReadInterrupted", !.result = FALSE]
      BY <1>0, <1>4 DEF SnapshotRecord
    <2>2. r \in SafetyOperation /\ RecordFits(r)
      BY <1>1, <1>4, Recordings
    <2>3. /\ SnapshotRecord(q) \in SafetyOperation /\ SnapshotRecord(q).state = "Failed"
          /\ SnapshotRecord(q).evidence = "RecoveryReadInterrupted"
          /\ SnapshotRecord(q).dispatched = r.dispatched
          /\ SnapshotRecord(q).lane = r.lane /\ SnapshotRecord(q).cap = r.cap
      BY <2>1, <2>2 DEF SafetyOperation, ExecutionEvidence
    <2>4. RecordFits(SnapshotRecord(q))
      BY <1>4, <2>2, <2>3 DEF RecordFits
    <2> QED BY <1>0, <1>1, <1>4, <2>3, <2>4
  <1>5. CASE r.state \in InFlight /\ r.lane = "Normal"
    <2>0. PICK recon : recon = IF r.recon # "None" THEN r.recon
                               ELSE DefaultReconciliationStatus("HubRestartAfterDispatch", r.binding)
      OBVIOUS
    <2>1. SnapshotRecord(q) = [r EXCEPT !.state = "Indeterminate",
                                 !.reason = "HubRestartAfterDispatch",
                                 !.evidence = "None", !.result = FALSE, !.recon = recon]
      BY <1>0, <1>5, <2>0 DEF SnapshotRecord
    <2>2. r \in SafetyOperation /\ RecordFits(r)
      BY <1>1, <1>5, Recordings
    <2>3. recon \in ReconciliationStatus
      BY <2>0, <2>2 DEF DefaultReconciliationStatus, ReconciliationStatus, SafetyOperation
    <2>4. /\ SnapshotRecord(q) \in SafetyOperation /\ SnapshotRecord(q).state = "Indeterminate"
          /\ SnapshotRecord(q).evidence = "None"
          /\ SnapshotRecord(q).reason = "HubRestartAfterDispatch"
          /\ SnapshotRecord(q).dispatched = r.dispatched
          /\ SnapshotRecord(q).lane = r.lane /\ SnapshotRecord(q).cap = r.cap
      BY <2>1, <2>2, <2>3 DEF SafetyOperation, IndeterminateReason
    <2>5. RecordFits(SnapshotRecord(q))
      BY <1>5, <2>2, <2>4 DEF RecordFits
    <2> QED BY <1>0, <1>1, <1>5, <2>4, <2>5
  <1>6. r \in SafetyOperation => r.lane \in {"Normal", "RecoveryEvidenceRead"}
    BY DEF SafetyOperation
  <1> QED BY <1>1, <1>2, <1>3, <1>4, <1>5, <1>6, Recordings

\* Nothing in flight on a quarantined desktop can become a second ambiguity.
LEMMA QuarantineSnapshots ==
    ASSUME SafetyIInv, NEW d \in Device, Quarantined(d)
    PROVE  SnapshotDispatched(d) = {} /\ SnapshotQuarantine(d) = quarantine[d]
  <1>1. ASSUME NEW q \in SnapshotDispatched(d) PROVE FALSE
    <2>1. q \in OpId /\ rec[q].state \in InFlight /\ rec[q].lane = "Normal" /\ ref[q].device = d
      BY <1>1 DEF SnapshotDispatched, Of
    <2>2. state[q] \in Running /\ active[d] = q /\ q # NoOp
      BY <2>1, SafetyParts, LedgerParts, AdmissionConstants DEF Slots
    <2>3. blocked[d] # NoOp
      BY QuarantinedIsBlocked DEF Quarantined
    <2>4. q \in recoveryReads
      BY <2>2, <2>3, SafetyParts, LedgerParts DEF Excludes
    <2> QED BY <2>1, <2>4, SafetyParts DEF Agrees
  <1> QED BY <1>1 DEF SnapshotQuarantine

\* restore_after_restart: a Hub starts again from its checkpoint.
LEMMA RestartKeeps ==
    ASSUME SafetyIInv, SafetyRestart
    PROVE  /\ SafetyIInv'
           /\ \A d \in Device : Quarantined(d) => quarantine'[d] = quarantine[d]
           /\ \A q \in OpId : q \in retired => rec'[q].state = rec[q].state
  <1>1. /\ AdmissionRestoreAccepts
        /\ \A q \in OpId : SnapshotRecord(q).state = SnapshotState(q)
        /\ RestoreAcceptsQuarantines
    BY DEF SafetyRestart, SafetyRestoreAccepts, RestoreAcceptsLedger
  <1>2. /\ AdmissionRestart
        /\ rec' = [q \in OpId |-> SnapshotRecord(q)]
        /\ quarantine' = [d \in Device |-> SnapshotQuarantine(d)]
        /\ UNCHANGED <<archive, resolutions, autoResolutions, retirement, barrier,
                       resume, generation>>
    BY DEF SafetyRestart
  <1>3. /\ \A q \in OpId : state'[q] = SnapshotState(q)
        /\ \A d \in Device : blocked'[d] = IF RestoredBlockers(d) = {} THEN NoOp
                                           ELSE CHOOSE q \in RestoredBlockers(d) : TRUE
        /\ recoveryReads' = {} /\ ref' = ref /\ retired' = retired
    BY <1>2 DEF AdmissionRestart
  <1>4. AdmissionIInv'
    BY <1>2, SafetyParts, RestartKeepsLedger
  <1>5. \A q \in OpId : SnapshotState(q) \notin Unsettled
    BY SafetyParts, LedgerParts DEF SnapshotState, Types
  <1>6. RecordsOK(rec')
    <2>1. \A q \in OpId : rec'[q] = SnapshotRecord(q)
      BY <1>2
    <2>2. \A q \in OpId : /\ rec'[q] \in SafetyOperation \cup {NoRecord}
                          /\ rec'[q] # NoRecord => RecordFits(rec'[q])
      BY <2>1, SnapshotFits
    <2>3. rec' = [q \in OpId |-> rec'[q]]
      BY <1>2
    <2> QED BY <2>2, <2>3 DEF RecordsOK
  <1>7. Agrees(rec', state', recoveryReads')
    <2>1. \A q \in OpId : rec'[q].state = state'[q]
      BY <1>1, <1>2, <1>3
    <2>2. \A q \in OpId : state'[q] \notin Unsettled
      BY <1>3, <1>5
    <2> QED BY <1>3, <2>1, <2>2 DEF Agrees
  <1>8. ASSUME NEW d \in Device
        PROVE  SnapshotQuarantine(d) \in QuarantineRecords \cup {NoQuarantine}
    <2>1. CASE SnapshotDispatched(d) = {}
      BY <2>1, SafetyParts DEF SnapshotQuarantine, BookTypes
    <2>2. CASE SnapshotDispatched(d) # {}
      <3>1. PICK q : q = CHOOSE x \in SnapshotDispatched(d) : TRUE
        OBVIOUS
      <3>2. q \in SnapshotDispatched(d)
        BY <2>2, <3>1
      <3>3. SnapshotQuarantine(d) = [op |-> q, generation |-> ref[q].generation,
                                     reason |-> "HubRestartAfterDispatch"]
        BY <2>2, <3>1 DEF SnapshotQuarantine
      <3>4. q \in OpId /\ rec[q].state \in InFlight
        BY <3>2 DEF SnapshotDispatched
      <3>5. ref[q] \in OperationRef
        BY <3>4, SafetyParts
      <3> QED BY <3>3, <3>4, <3>5 DEF QuarantineRecords, OperationRef, IndeterminateReason
    <2> QED BY <2>1, <2>2
  <1>9. BookTypes'
    <2>1. quarantine' \in [Device -> QuarantineRecords \cup {NoQuarantine}]
      BY <1>2, <1>8
    <2> QED BY <1>2, <2>1, SafetyParts DEF BookTypes
  <1>10. ASSUME NEW q \in OpId, SnapshotRecord(q).state = "Indeterminate", q \notin retired
         PROVE  /\ Of(q) \in Device /\ SnapshotQuarantine(Of(q)) # NoQuarantine
                /\ SnapshotQuarantine(Of(q)).op = q
    <2>1. /\ SnapshotQuarantine(Of(q)) # NoQuarantine
          /\ SnapshotQuarantine(Of(q)).op = q
      <3> DEFINE m == SnapshotQuarantine(Of(q))
                 matching == /\ m # NoQuarantine /\ m.op = q
                             /\ m.generation = ref[q].generation
      <3>1. (q \in retired) # matching
        BY <1>1, <1>10 DEF RestoreAcceptsQuarantines
      <3>2. \A a, b \in BOOLEAN : a # b /\ ~ a => b
        OBVIOUS
      <3>3. matching \in BOOLEAN /\ (q \in retired) \in BOOLEAN
        OBVIOUS
      <3>4. matching
        <4> HIDE DEF matching
        <4> QED BY <1>10, <3>1, <3>2, <3>3, Zenon
      <3> QED BY <3>4
    <2>2. state[q] # "Absent"
      <3>1. SnapshotState(q) = "Indeterminate"
        BY <1>1, <1>10
      <3> QED BY <3>1 DEF SnapshotState
    <2>3. ref[q] \in OperationRef
      BY <2>2, SafetyParts
    <2> QED BY <2>1, <2>3 DEF Of, OperationRef
  <1>11. ASSUME NEW d \in Device
         PROVE  /\ SnapshotQuarantine(d).op = blocked'[d]
                /\ SnapshotQuarantine(d) # NoQuarantine =>
                      /\ SnapshotQuarantine(d).generation = ref[blocked'[d]].generation
                      /\ SnapshotQuarantine(d).reason = rec'[blocked'[d]].reason
    <2>1. CASE SnapshotQuarantine(d) = NoQuarantine
      <3>1. ASSUME NEW b \in RestoredBlockers(d) PROVE FALSE
        <4>1. b \in OpId /\ SnapshotState(b) = "Indeterminate" /\ b \notin retired /\ Of(b) = d
          BY <3>1 DEF RestoredBlockers
        <4> QED BY <1>1, <1>10, <2>1, <4>1
      <3>2. blocked'[d] = NoOp
        BY <1>3, <3>1
      <3> QED BY <2>1, <3>2, NoQuarantineHasNoOp
    <2>2. CASE SnapshotQuarantine(d) # NoQuarantine
      <3>1. PICK q : q = SnapshotQuarantine(d)
        OBVIOUS
      <3>2. q \in QuarantineRecords /\ q # NoQuarantine
        BY <1>8, <2>2, <3>1
      <3>3. /\ q.op \in OpId /\ SnapshotRecord(q.op).state = "Indeterminate"
            /\ ref[q.op] = [device |-> d, generation |-> q.generation]
        BY <1>1, <2>2, <3>1, <3>2 DEF RestoreAcceptsQuarantines, QuarantineRecords
      <3>4. Of(q.op) = d /\ ref[q.op].generation = q.generation
        BY <3>3 DEF Of
      <3>5. q.op \notin retired
        <4>1. LET m == SnapshotQuarantine(Of(q.op))
                  matching == /\ m # NoQuarantine /\ m.op = q.op
                              /\ m.generation = ref[q.op].generation
              IN  (q.op \in retired) # matching
          BY <1>1, <3>3 DEF RestoreAcceptsQuarantines
        <4> QED BY <3>1, <3>2, <3>4, <4>1
      <3>6. q.op \in RestoredBlockers(d)
        BY <1>1, <3>3, <3>4, <3>5 DEF RestoredBlockers
      <3>7. blocked'[d] = q.op
        <4>1. blocked'[d] \in RestoredBlockers(d)
          BY <1>3, <3>6
        <4> QED BY <1>1, <3>6, <4>1 DEF AdmissionRestoreAccepts
      <3>8. rec'[q.op] = SnapshotRecord(q.op)
        BY <1>2, <3>3
      <3>9. q.reason = SnapshotRecord(q.op).reason
        <4>1. CASE SnapshotDispatched(d) = {}
          <5>1. q = quarantine[d]
            BY <3>1, <4>1 DEF SnapshotQuarantine
          <5>2. blocked[d] = q.op /\ q.reason = rec[q.op].reason
            BY <3>2, <5>1, SafetyParts DEF Quarantines
          <5>3. state[q.op] = "Indeterminate"
            BY <3>3, <5>2, SafetyParts, AdmissionConstants
          <5>4. SnapshotRecord(q.op) = rec[q.op]
            BY <3>3, <5>3, SnapshotFits
          <5> QED BY <5>2, <5>4
        <4>2. CASE SnapshotDispatched(d) # {}
          <5>1. PICK x : x = CHOOSE y \in SnapshotDispatched(d) : TRUE
            OBVIOUS
          <5>2. x \in SnapshotDispatched(d)
            BY <4>2, <5>1
          <5>3. q = [op |-> x, generation |-> ref[x].generation,
                     reason |-> "HubRestartAfterDispatch"]
            BY <3>1, <4>2, <5>1 DEF SnapshotQuarantine
          <5>4. q.op = x /\ q.reason = "HubRestartAfterDispatch"
            BY <5>3
          <5>5. rec[x].state \in InFlight /\ rec[x].lane = "Normal" /\ x \in OpId
            BY <5>2 DEF SnapshotDispatched
          <5>6. SnapshotRecord(x).reason = "HubRestartAfterDispatch"
            BY <5>5, SnapshotFits
          <5> QED BY <5>4, <5>6
        <4> QED BY <4>1, <4>2
      <3> QED BY <3>1, <3>4, <3>7, <3>8, <3>9
    <2> QED BY <2>1, <2>2
  <1>12. Quarantines(quarantine', ref', blocked', rec')
    <2>1. \A d \in Device : quarantine'[d] = SnapshotQuarantine(d)
      BY <1>2
    <2> QED BY <1>3, <1>11, <2>1 DEF Quarantines
  <1>13. Bars(rec', ref', barrier')
    <2>1. \A q \in OpId : rec'[q].state \notin Unsettled
      BY <1>1, <1>2, <1>5
    <2> QED BY <2>1 DEF Bars
  <1>14. Undecided(state', retired')
    <2>1. ASSUME NEW q \in retired PROVE state'[q] \in {"Absent", "Indeterminate"}
      <3>1. q \in OpId
        BY <2>1, SafetyParts, LedgerParts DEF Types
      <3> QED BY <1>1, <1>3, <2>1, <3>1 DEF AdmissionRestoreAccepts
    <2> QED BY <1>3, <2>1 DEF Undecided
  <1>15. SafetyIInv'
    BY <1>4, <1>6, <1>7, <1>9, <1>12, <1>13, <1>14 DEF SafetyIInv
  <1>16. \A d \in Device : Quarantined(d) => quarantine'[d] = quarantine[d]
    BY <1>2, QuarantineSnapshots
  <1>17. ASSUME NEW q \in OpId, q \in retired PROVE rec'[q].state = rec[q].state
    <2>1. state[q] \in {"Absent", "Indeterminate"}
      BY <1>17, SafetyParts DEF Undecided
    <2>2. SnapshotRecord(q) = rec[q]
      BY <2>1, SnapshotFits
    <2> QED BY <1>2, <2>2
  <1> QED BY <1>15, <1>16, <1>17

-----------------------------------------------------------------------------
(* The theorems *)

\* A new controller has no record, no quarantine and no barrier.
LEMMA SafetyStarts == SafetyInit => SafetyIInv
  <1> SUFFICES ASSUME SafetyInit PROVE SafetyIInv
    OBVIOUS
  <1>1. AdmissionIInv
    BY InitLedger DEF SafetyInit
  <1>2. /\ \A q \in OpId : rec[q] = NoRecord /\ state[q] = "Absent"
        /\ rec = [q \in OpId |-> NoRecord] /\ recoveryReads = {} /\ retired = {}
    BY DEF SafetyInit, AdmissionInit
  <1>3. BookTypes
    <2>1. << >> \in Seq(HistoryRecords)
      OBVIOUS
    <2>2. 0 \in 0..MaxGeneration
      BY AdmissionConstants
    <2> QED BY <2>1, <2>2 DEF SafetyInit, BookTypes
  <1>4. RecordsOK(rec)
    BY <1>2 DEF RecordsOK
  <1>5. Agrees(rec, state, recoveryReads)
    BY <1>2, Recordings DEF Agrees
  <1>6. Quarantines(quarantine, ref, blocked, rec)
    <2>1. \A d \in Device : quarantine[d] = NoQuarantine /\ blocked[d] = NoOp
      BY DEF SafetyInit, AdmissionInit
    <2> QED BY <2>1, NoQuarantineHasNoOp DEF Quarantines
  <1>7. Bars(rec, ref, barrier)
    <2>1. \A q \in OpId : rec[q].state \notin Unsettled
      BY <1>2, Recordings
    <2> QED BY <2>1 DEF Bars
  <1>8. Undecided(state, retired)
    BY <1>2 DEF Undecided
  <1> QED BY <1>1, <1>3, <1>4, <1>5, <1>6, <1>7, <1>8 DEF SafetyIInv

\* Most calls leave every quarantine alone and make no operation ambiguous.
Steady ==
    /\ quarantine' = quarantine /\ retired' = retired
    /\ \A q \in OpId : state'[q] = "Indeterminate" => state[q] = "Indeterminate"

\* A step that makes no retired id ambiguous again leaves its outcome unknown.
LEMMA RetiredKeeps ==
    ASSUME SafetyIInv, SafetyIInv', retired' = retired,
           \A q \in OpId : q \in retired /\ state'[q] = "Indeterminate" =>
              state[q] = "Indeterminate"
    PROVE  RetiredStep
  <1>1. ASSUME NEW q \in retired PROVE rec'[q].state \in {rec[q].state, "Absent"}
    <2>1. q \in OpId /\ rec[q].state = state[q] /\ state[q] \in {"Absent", "Indeterminate"}
      BY <1>1, SafetyParts, LedgerParts DEF Undecided, Types
    <2>2. rec'[q].state = state'[q] /\ state'[q] \in {"Absent", "Indeterminate"}
      BY <1>1, <2>1 DEF SafetyIInv, Agrees, Undecided
    <2> QED BY <1>1, <2>1, <2>2
  <1> QED BY <1>1 DEF RetiredStep

\* Such a call lifts no quarantine and decides no retired outcome.
LEMMA SteadyKeeps ==
    ASSUME SafetyIInv, SafetyIInv', Steady
    PROVE  QuarantineStep /\ RetiredStep
  <1>1. RetiredStep
    BY RetiredKeeps DEF Steady
  <1>2. QuarantineStep
    BY DEF Steady, QuarantineStep
  <1> QED BY <1>1, <1>2

\* An outcome for the operation that holds a quarantine ends it with a proof.
LEMMA SettledEnds ==
    ASSUME SafetyIInv, SafetyIInv', NEW id \in OpId, IsBlocking(id),
           quarantine' = [quarantine EXCEPT ![Of(id)] = NoQuarantine],
           \/ id \in retired' \ retired
           \/ id \in resolutions' /\ rec'[id].evidence = "OperatorResolution"
           \/ /\ rec'[id].recon = "AutoResolved"
              /\ <<rec'[id].state, rec'[id].evidence>> \in AuthoritativeTerminal
    PROVE  QuarantineStep
  <1>1. /\ Of(id) \in Device /\ quarantine[Of(id)].op = id
    BY SafetyParts DEF IsBlocking, Of, OperationRef, Quarantines
  <1>2. /\ quarantine'[Of(id)] = NoQuarantine
        /\ \A d \in Device : d # Of(id) => quarantine'[d] = quarantine[d]
    BY <1>1, SafetyParts DEF BookTypes
  <1>3. ASSUME NEW d \in Device, quarantine'[d] # quarantine[d]
        PROVE  /\ quarantine[d].op = id /\ quarantine'[d] = NoQuarantine
    BY <1>1, <1>2, <1>3
  <1> QED BY <1>3 DEF QuarantineStep

\* Unblocking a desktop makes no operation ambiguous.
LEMMA UnblockUnknown ==
    ASSUME SafetyIInv, NEW id \in OpId, NEW outcome \in Terminal,
           IsBlocking(id), Unblock(id, outcome)
    PROVE  \A q \in OpId : state'[q] = "Indeterminate" => state[q] = "Indeterminate"
  <1> DEFINE st == [state EXCEPT ![id] = outcome]
  <1>1. StartsFrom(st)
    BY SafetyParts, UnblockStarts
  <1>2. \A q \in OpId : st[q] = "Indeterminate" => state[q] = "Indeterminate"
    BY SafetyParts, LedgerParts DEF Types
  <1> HIDE DEF st
  <1> QED BY <1>1, <1>2 DEF StartsFrom

\* Freeing a slot makes no operation ambiguous.
LEMMA FreeSlotUnknown ==
    ASSUME SafetyIInv, NEW id \in OpId, NEW terminal \in Terminal,
           state[id] \in Running, FreeSlot(id, terminal)
    PROVE  \A q \in OpId : state'[q] = "Indeterminate" => state[q] = "Indeterminate"
  <1> DEFINE st == [state EXCEPT ![id] = terminal]
  <1>1. StartsFrom(st)
    BY SafetyParts, FreeSlotStarts
  <1>2. \A q \in OpId : st[q] = "Indeterminate" => state[q] = "Indeterminate"
    BY SafetyParts, LedgerParts DEF Types
  <1> HIDE DEF st
  <1> QED BY <1>1, <1>2 DEF StartsFrom

\* Every call of the controller keeps its books, ends a quarantine only with a
\* proof, and leaves a retired outcome unknown.
LEMMA SafetyNextKeeps ==
    ASSUME SafetyIInv, SafetyNext
    PROVE  SafetyIInv' /\ QuarantineStep /\ RetiredStep
  <1>0. state \in [OpId -> HubOperationState \cup {"Absent"}]
    BY SafetyParts, LedgerParts DEF Types
  <1>1. ASSUME NEW id \in OpId, NEW d \in Device, NEW g \in Generation,
               NEW cap \in Capabilities, Prepare(id, d, g, cap)
        PROVE  SafetyIInv' /\ Steady
    <2>1. /\ quarantine' = quarantine /\ retired' = retired
          /\ \/ state' = [state EXCEPT ![id] = "ActiveNotDispatched"]
             \/ state' = [state EXCEPT ![id] = "Queued"]
      BY <1>1 DEF Prepare, Admit, AdmitNow, AdmitQueued, AdmitRecoveryReadOnly, Start
    <2> QED BY <1>0, <1>1, <2>1, PrepareKeeps DEF Steady
  <1>2. ASSUME NEW id \in OpId, NEW binding \in BOOLEAN, MarkDispatchedWithBinding(id, binding)
        PROVE  SafetyIInv' /\ Steady
    <2>1. /\ quarantine' = quarantine /\ retired' = retired
          /\ state' = [state EXCEPT ![id] = "Dispatched"]
      BY <1>2 DEF MarkDispatchedWithBinding, AdmissionMarkDispatched
    <2> QED BY <1>0, <1>2, <2>1, MarkDispatchedKeeps DEF Steady
  <1>3. ASSUME NEW id \in OpId, RequestCancel(id)
        PROVE  SafetyIInv' /\ Steady
    <2>1. quarantine' = quarantine /\ retired' = retired
      BY <1>3 DEF RequestCancel, CancelQueued, CancelActive, CancelDispatched
    <2>2. \A q \in OpId : state'[q] = "Indeterminate" => state[q] = "Indeterminate"
      <3>1. CASE CancelQueued(id) \/ CancelDispatched(id)
        <4>1. \/ state' = [state EXCEPT ![id] = "Cancelled"]
              \/ state' = [state EXCEPT ![id] = "CancelRequested"]
          BY <3>1 DEF CancelQueued, CancelDispatched
        <4> QED BY <1>0, <4>1
      <3>2. CASE CancelActive(id)
        <4>1. state[id] \in Running /\ FreeSlot(id, "Cancelled")
          BY <3>2 DEF CancelActive
        <4> QED BY <4>1, FreeSlotUnknown
      <3> QED BY <1>3, <3>1, <3>2 DEF RequestCancel
    <2> QED BY <1>3, <2>1, <2>2, RequestCancelKeeps DEF Steady
  <1>4. ASSUME NEW id \in OpId, MarkRecoveryReadInterrupted(id)
        PROVE  SafetyIInv' /\ Steady
    <2>1. /\ quarantine' = quarantine /\ retired' = retired
          /\ state[id] \in Running /\ FreeSlot(id, "Failed")
      BY <1>4 DEF MarkRecoveryReadInterrupted, FailRecoveryReadOnly
    <2>2. \A q \in OpId : state'[q] = "Indeterminate" => state[q] = "Indeterminate"
      BY <2>1, FreeSlotUnknown
    <2> QED BY <1>4, <2>1, <2>2, ReadInterruptedKeeps DEF Steady
  <1>5. ASSUME NEW id \in OpId,
               MarkReconciliationEvidenceGap(id) \/ MarkReconciliationOperatorRequired(id)
        PROVE  SafetyIInv' /\ Steady
    <2>1. quarantine' = quarantine /\ retired' = retired /\ state' = state
      BY <1>5 DEF MarkReconciliationEvidenceGap, MarkReconciliationOperatorRequired,
                  admissionVars
    <2> QED BY <1>5, <2>1, ReconciliationKeeps DEF Steady
  <1>6. ASSUME NEW id \in OpId, AcceptCurrentState(id) \/ RetireIndeterminate(id)
        PROVE  SafetyIInv' /\ QuarantineStep /\ RetiredStep
    <2>1. PICK authorized : authorized = generation[Of(id)]
      OBVIOUS
    <2>2. PICK disposition \in {"Retired", "CurrentStateAccepted"} :
            RetireIndeterminateWithDisposition(id, disposition, authorized)
      BY <1>6, <2>1 DEF AcceptCurrentState, RetireIndeterminate
    <2>3. /\ SafetyIInv' /\ id \in retired' \ retired
          /\ quarantine' = [quarantine EXCEPT ![Of(id)] = NoQuarantine]
          /\ \A q \in OpId : q \in retired => rec'[q].state \in {rec[q].state, "Absent"}
      BY <2>1, <2>2, RetireKeeps
    <2>4. IsBlocking(id)
      BY <2>2 DEF RetireIndeterminateWithDisposition, MayRetire
    <2>5. QuarantineStep
      BY <2>3, <2>4, SettledEnds
    <2>6. RetiredStep
      BY <2>3, SafetyParts, LedgerParts DEF RetiredStep, Types
    <2> QED BY <2>3, <2>5, <2>6
  <1>7. ASSUME NEW id \in OpId, NEW pair \in AuthoritativeTerminal, Finalize(id, pair)
        PROVE  SafetyIInv' /\ Steady
    <2>1. /\ quarantine' = quarantine /\ retired' = retired
          /\ state[id] \in Running /\ FreeSlot(id, pair[1]) /\ pair[1] \in Terminal
      BY <1>7 DEF Finalize, FinalizeTerminal
    <2>2. PICK terminal \in Terminal : terminal = pair[1]
      BY <2>1
    <2>3. FreeSlot(id, terminal)
      BY <2>1, <2>2
    <2>4. \A q \in OpId : state'[q] = "Indeterminate" => state[q] = "Indeterminate"
      BY <2>1, <2>3, FreeSlotUnknown
    <2> QED BY <1>7, <2>1, <2>4, FinalizeKeeps DEF Steady
  <1>8. ASSUME NEW id \in OpId, NEW evidence \in NonDelivery,
               ResolveHubPreEnqueueNonDelivery(id, evidence)
        PROVE  SafetyIInv' /\ Steady
    <2>1. /\ quarantine' = quarantine /\ retired' = retired
          /\ state[id] \in Running /\ FreeSlot(id, "Cancelled")
      BY <1>8 DEF ResolveHubPreEnqueueNonDelivery, FinalizeTerminal
    <2>2. \A q \in OpId : state'[q] = "Indeterminate" => state[q] = "Indeterminate"
      BY <2>1, FreeSlotUnknown
    <2> QED BY <1>8, <2>1, <2>2, PreEnqueueKeeps DEF Steady
  <1>9. ASSUME NEW id \in OpId, NEW pair \in AuthoritativeTerminal,
               ReconcileAuthoritativeTerminal(id, pair)
        PROVE  SafetyIInv' /\ QuarantineStep /\ RetiredStep
    <2>1. /\ SafetyIInv' /\ rec'[id].recon = "AutoResolved"
          /\ rec'[id].state = pair[1] /\ rec'[id].evidence = pair[2]
      BY <1>9, ReconcileKeeps
    <2>2. /\ IsBlocking(id) /\ Unblock(id, pair[1]) /\ pair[1] \in Terminal
          /\ retired' = retired
          /\ quarantine' = [quarantine EXCEPT ![Of(id)] = NoQuarantine]
      BY <1>9 DEF ReconcileAuthoritativeTerminal, ReconcileIndeterminateTerminal
    <2>3. PICK terminal \in Terminal : terminal = pair[1]
      BY <2>2
    <2>4. Unblock(id, terminal)
      BY <2>2, <2>3
    <2>5. RetiredStep
      BY <2>1, <2>2, <2>4, UnblockUnknown, RetiredKeeps
    <2>6. <<rec'[id].state, rec'[id].evidence>> \in AuthoritativeTerminal
      BY <2>1 DEF AuthoritativeTerminal
    <2>7. QuarantineStep
      BY <2>1, <2>2, <2>6, SettledEnds
    <2> QED BY <2>1, <2>5, <2>7
  <1>10. ASSUME NEW id \in OpId, NEW reason \in {"ConnectionLost", "BackendOutcomeUnproven"},
                MarkIndeterminate(id, reason)
         PROVE  SafetyIInv' /\ QuarantineStep /\ RetiredStep
    <2>1. reason \in IndeterminateReason
      BY DEF IndeterminateReason
    <2>2. SafetyIInv' /\ ~ Quarantined(Of(id))
      BY <1>10, <2>1, MarkIndeterminateKeeps
    <2>3. /\ retired' = retired /\ state[id] \in InFlight /\ id \notin recoveryReads
          /\ \A q \in OpId : state'[q] = IF q = id THEN "Indeterminate"
                                         ELSE IF q \in QueuedRecords(Of(id), id)
                                              THEN "Cancelled" ELSE state[q]
          /\ \A d \in Device : d # Of(id) => quarantine'[d] = quarantine[d]
      <3>1. quarantine' = [quarantine EXCEPT ![Of(id)] =
                             [op |-> id, generation |-> ref[id].generation, reason |-> reason]]
        BY <1>10 DEF MarkIndeterminate
      <3>2. /\ retired' = retired /\ state[id] \in InFlight /\ id \notin recoveryReads
            /\ state' = [q \in OpId |-> IF q = id THEN "Indeterminate"
                                        ELSE IF q \in QueuedRecords(Of(id), id)
                                             THEN "Cancelled" ELSE state[q]]
        BY <1>10 DEF MarkIndeterminate
      <3> QED BY <3>1, <3>2, SafetyParts DEF BookTypes
    <2>4. id \notin retired
      BY <2>3, SafetyParts, LedgerParts DEF Lane
    <2>5. \A q \in OpId : q \in retired /\ state'[q] = "Indeterminate" =>
            state[q] = "Indeterminate"
      BY <2>3, <2>4
    <2>6. RetiredStep
      BY <2>2, <2>3, <2>5, RetiredKeeps
    <2>7. QuarantineStep
      BY <2>2, <2>3 DEF QuarantineStep
    <2> QED BY <2>2, <2>6, <2>7
  <1>11. ASSUME NEW id \in OpId, NEW outcome \in {"Completed", "Cancelled"},
                ResolveIndeterminate(id, outcome)
         PROVE  SafetyIInv' /\ QuarantineStep /\ RetiredStep
    <2>1. SafetyIInv' /\ rec'[id].evidence = "OperatorResolution"
      BY <1>11, ResolveKeeps
    <2>2. /\ IsBlocking(id) /\ Unblock(id, outcome) /\ outcome \in Terminal
          /\ retired' = retired /\ id \in resolutions'
          /\ quarantine' = [quarantine EXCEPT ![Of(id)] = NoQuarantine]
      BY <1>11 DEF ResolveIndeterminate, AdmissionResolveIndeterminate
    <2>3. \A q \in OpId : state'[q] = "Indeterminate" => state[q] = "Indeterminate"
      BY <2>2, UnblockUnknown
    <2>4. RetiredStep
      BY <2>1, <2>2, <2>3, RetiredKeeps
    <2>5. QuarantineStep
      BY <2>1, <2>2, SettledEnds
    <2> QED BY <2>1, <2>4, <2>5
  <1>12. ASSUME NEW d \in Device, NEW g \in Generation, ResumeMutations(d, g)
         PROVE  SafetyIInv' /\ Steady
    <2>1. quarantine' = quarantine /\ retired' = retired /\ state' = state
      BY <1>12 DEF ResumeMutations, admissionVars
    <2> QED BY <1>12, <2>1, ResumeKeeps DEF Steady
  <1>13. ASSUME NEW d \in Device, Connect(d)
         PROVE  SafetyIInv' /\ Steady
    <2>1. /\ quarantine' = quarantine /\ retired' = retired
          /\ \A q \in OpId : state'[q] = "Absent" \/ state'[q] = state[q]
      BY <1>13 DEF Connect, AdmissionPruneTerminalBeforeGeneration
    <2> QED BY <1>13, <2>1, ConnectKeeps DEF Steady
  <1>14. CASE SafetyRestart
    <2>1. /\ SafetyIInv'
          /\ \A d \in Device : Quarantined(d) => quarantine'[d] = quarantine[d]
          /\ \A q \in OpId : q \in retired => rec'[q].state = rec[q].state
      BY <1>14, RestartKeeps
    <2>2. QuarantineStep
      BY <2>1 DEF QuarantineStep
    <2>3. RetiredStep
      BY <2>1, SafetyParts, LedgerParts DEF RetiredStep, Types
    <2> QED BY <2>1, <2>2, <2>3
  <1> QED BY <1>1, <1>2, <1>3, <1>4, <1>5, <1>6, <1>7, <1>8, <1>9, <1>10, <1>11, <1>12,
             <1>13, <1>14, SteadyKeeps, SafetyNext DEF SafetyNext

\* The inductive invariant holds in every reachable state of
\* AuthoritativeOperationController, whatever order its calls come in.
THEOREM SafetyInvariant == SafetySpec => []SafetyIInv
  <1>1. SafetyIInv /\ [SafetyNext]_vars => SafetyIInv'
    <2> SUFFICES ASSUME SafetyIInv, [SafetyNext]_vars PROVE SafetyIInv'
      OBVIOUS
    <2>1. CASE SafetyNext
      BY <2>1, SafetyNextKeeps
    <2>2. CASE UNCHANGED vars
      <3>1. /\ AdmissionIInv' /\ BookTypes'
        BY <2>2, SafetyParts DEF vars, admissionVars, safetyVars, AdmissionIInv, BookTypes
      <3>2. UNCHANGED <<state, ref, blocked, retired, recoveryReads, rec, quarantine, barrier>>
        BY <2>2 DEF vars, admissionVars, safetyVars
      <3>3. /\ RecordsOK(rec') /\ Agrees(rec', state', recoveryReads')
            /\ Quarantines(quarantine', ref', blocked', rec')
            /\ Bars(rec', ref', barrier') /\ Undecided(state', retired')
        BY <3>2, SafetyParts
      <3> QED BY <3>1, <3>3 DEF SafetyIInv
    <2> QED BY <2>1, <2>2
  <1> QED BY <1>1, SafetyStarts, PTL DEF SafetySpec

\* Records, quarantines, histories, retirements, barriers and resumes keep their
\* types: every entry the controller persists is well formed.
THEOREM SafetyTypeCorrect == SafetySpec => []SafetyTypeOK
  <1>1. SafetyIInv => SafetyTypeOK
    BY DEF SafetyIInv, BookTypes, RecordsOK, SafetyTypeOK, QuarantineRecords,
           HistoryRecords, RetirementRecords, BarrierRecords, ResumeRecords
  <1> QED BY <1>1, SafetyInvariant, PTL

\* The controller's own copy of an operation's state and lane, and its
\* quarantines, always agree with the admission ledger it drives.
THEOREM LedgersNeverDrift == SafetySpec => []LedgersAgree
  <1>1. SafetyIInv => LedgersAgree
    <2> SUFFICES ASSUME SafetyIInv PROVE LedgersAgree
      OBVIOUS
    <2>1. /\ \A id \in OpId : rec[id].state = state[id]
          /\ \A id \in recoveryReads : rec[id].lane = "RecoveryEvidenceRead"
          /\ \A id \in OpId : state[id] \in Running /\ id \notin recoveryReads =>
                rec[id].lane = "Normal"
      BY SafetyParts DEF Agrees
    <2>2. \A d \in Device :
            /\ quarantine[d].op = blocked[d]
            /\ Quarantined(d) =>
                  /\ quarantine[d].generation = ref[blocked[d]].generation
                  /\ quarantine[d].reason = rec[blocked[d]].reason
      BY SafetyParts DEF Quarantines, Quarantined
    <2> QED BY <2>1, <2>2 DEF LedgersAgree
  <1> QED BY <1>1, SafetyInvariant, PTL

\* Behind the barrier of an accepted click no mutation of that desktop is queued,
\* running or in flight, until the Human resumes mutations.
THEOREM BarrierHolds == SafetySpec => []BarrierStopsMutation
  <1>1. SafetyIInv => BarrierStopsMutation
    BY DEF SafetyIInv, Bars, BarrierStopsMutation, Barred, Of
  <1> QED BY <1>1, SafetyInvariant, PTL

\* The evidence of every receipt fits how far its operation got, across
\* settlement, reconciliation, retirement and restart.
THEOREM ReceiptsFit == SafetySpec => []ReceiptsMatchOutcome
  <1>1. SafetyIInv => ReceiptsMatchOutcome
    <2> SUFFICES ASSUME SafetyIInv, NEW id \in OpId, rec[id] # NoRecord
                 PROVE  /\ (rec[id].evidence # "None") <=> rec[id].state \in Terminal
                        /\ rec[id].evidence = "CancelledBeforeDispatch" <=>
                              rec[id].state = "Cancelled" /\ ~ rec[id].dispatched
                        /\ rec[id].state = "Completed" =>
                              rec[id].evidence \in {"VerifiedAgentResult", "OperatorResolution"}
                        /\ rec[id].state = "Cancelled" /\ rec[id].dispatched =>
                              rec[id].evidence \in
                                 {"ProvenProcessTermination", "OperatorResolution"}
                                    \cup NonDelivery
      BY DEF ReceiptsMatchOutcome, Recorded
    <2>1. RecordFits(rec[id])
      BY DEF SafetyIInv, RecordsOK
    <2> QED BY <2>1 DEF RecordFits
  <1> QED BY <1>1, SafetyInvariant, PTL

\* Driven by the controller, the scheduler's books stay exact: slots, queues,
\* blocks, the exclusion of mutation from a blocked desktop and the global limit.
THEOREM ControllerKeepsSchedule == SafetySpec => []AdmissionSafe
  <1>1. SafetyIInv => AdmissionSafe
    <2> SUFFICES ASSUME SafetyIInv PROVE AdmissionSafe
      OBVIOUS
    <2> USE SafetyParts, LedgerParts
    <2>1. AdmissionTypeOK
      BY DEF Types, AdmissionTypeOK
    <2>2. SlotsMatchRunning
      BY DEF Slots, SlotsMatchRunning, Of
    <2>3. QueuesMatchQueued
      BY DEF Queues, QueuesMatchQueued, Of
    <2>4. BlockedMatchesIndeterminate
      BY DEF Blocks, BlockedMatchesIndeterminate, Of
    <2>5. QuarantineExcludesMutation
      BY DEF Excludes, QuarantineExcludesMutation
    <2>6. GlobalCapacityRespected
      BY DEF Capacity, GlobalCapacityRespected
    <2> QED BY <2>1, <2>2, <2>3, <2>4, <2>5, <2>6 DEF AdmissionSafe
  <1> QED BY <1>1, SafetyInvariant, PTL

\* Reconnect, restart, pruning and other operations never lift a quarantine: it
\* ends only with the outcome of its own operation proved, decided or retired.
THEOREM QuarantineNeedsProof == SafetySpec => QuarantineEndsOnlyWithProof
  <1>1. SafetyIInv /\ [SafetyNext]_vars => [QuarantineStep]_vars
    BY SafetyNextKeeps
  <1> QED BY <1>1, SafetyInvariant, PTL DEF SafetySpec, QuarantineEndsOnlyWithProof

\* A retired outcome is never decided afterwards and its id never runs again,
\* even once its detail has been rotated out of the history.
THEOREM RetiredIsUnknownForever == SafetySpec => RetiredStaysUnknown
  <1>1. SafetyIInv /\ [SafetyNext]_vars => [RetiredStep]_vars
    BY SafetyNextKeeps
  <1> QED BY <1>1, SafetyInvariant, PTL DEF SafetySpec, RetiredStaysUnknown

-----------------------------------------------------------------------------
(* A retirement rotates old details out, and never gets stuck half-way.  A  *)
(* detail stays as long as a barrier rests on it, a click has a barrier or  *)
(* its resume, and behind a barrier only a read can become ambiguous, so no *)
(* retirement starts there.                                                 *)

\* What is kept of a retirement, and the proof it is for.
DetailsAreRetired ==
    \A q \in OpId : Detailed(q) => q \in retired /\ state[q] = "Indeterminate"
ClicksAreBacked ==
    \A q \in OpId : Detailed(q) /\ retirement[q].cap = "PointerClick" =>
        \/ resume[q] # NoResume /\ resume[q].accepted = retirement[q].authorized
        \/ \E d \in Device : barrier[d].source = q
BarriersAreBacked ==
    \A d \in Device : Barred(d) =>
        /\ Detailed(barrier[d].source)
        /\ barrier[d].accepted = retirement[barrier[d].source].authorized
DetailsFit ==
    /\ IsFiniteSet(DetailedIds(retirement))
    /\ Cardinality(DetailedIds(retirement)) <= MaxRetirementRecords
\* Only a read can have left a desktop behind a barrier ambiguous.
BehindBarriers ==
    \A d \in Device : Barred(d) /\ blocked[d] # NoOp => rec[blocked[d]].cap \in ObserveClass

RotationIInv ==
    /\ DetailsAreRetired /\ ClicksAreBacked /\ BarriersAreBacked
    /\ DetailsFit /\ BehindBarriers

\* A barrier names its source; its absence names none.
LEMMA NoBarrierHasNoSource ==
    /\ NoBarrier.source = NoOp
    /\ \A b \in BarrierRecords : b.source \in OpId /\ b # NoBarrier
  BY AdmissionConstants DEF NoBarrier, BarrierRecords

\* A detail is more than its absence.
LEMMA NoRetirementIsNone == \A t \in RetirementRecords : t # NoRetirement
  <1>1. ASSUME NEW t \in RetirementRecords, t = NoRetirement PROVE FALSE
    <2>1. DOMAIN t = {"ref", "cap", "disposition", "reason", "prior", "authorized"}
      BY DEF RetirementRecords
    <2>2. DOMAIN t = {"authorized"}
      BY <1>1 DEF NoRetirement
    <2> QED BY <2>1, <2>2
  <1> QED BY <1>1

\* A step that settles no retired operation, touches no detail, barrier or resume and
\* blocks no desktop behind a barrier with more than a read.
LEMMA RotationStays ==
    ASSUME SafetyIInv, RotationIInv,
           UNCHANGED <<retirement, barrier, resume>>, retired' = retired,
           \A q \in OpId : q \in retired /\ state[q] = "Indeterminate" =>
              state'[q] = "Indeterminate",
           \A d \in Device : Barred(d) /\ blocked'[d] # NoOp =>
              rec'[blocked'[d]].cap \in ObserveClass
    PROVE  RotationIInv'
  <1>1. DetailsAreRetired'
    BY DEF RotationIInv, DetailsAreRetired, Detailed
  <1>2. ClicksAreBacked' /\ BarriersAreBacked'
    BY DEF RotationIInv, ClicksAreBacked, BarriersAreBacked, Detailed, Barred
  <1>3. DetailsFit'
    BY DEF RotationIInv, DetailsFit, DetailedIds
  <1>4. BehindBarriers'
    BY DEF BehindBarriers, Barred
  <1> QED BY <1>1, <1>2, <1>3, <1>4 DEF RotationIInv

\* The same for a step that blocks no desktop and leaves every ambiguous record but
\* `settled' as it is.
LEMMA RotationUnmoved ==
    ASSUME SafetyIInv, RotationIInv,
           UNCHANGED <<retirement, barrier, resume>>, retired' = retired,
           \A d \in Device : blocked'[d] \in {blocked[d], NoOp},
           \A q \in OpId : state[q] = "Indeterminate" =>
              \/ state'[q] = "Indeterminate" /\ rec'[q].cap = rec[q].cap
              \/ q \notin retired /\ \A d \in Device : blocked'[d] # q
    PROVE  RotationIInv'
  <1>1. ASSUME NEW d \in Device, Barred(d), blocked'[d] # NoOp
        PROVE  rec'[blocked'[d]].cap \in ObserveClass
    <2>1. blocked'[d] = blocked[d] /\ blocked[d] # NoOp
      BY <1>1
    <2>2. blocked[d] \in OpId /\ state[blocked[d]] = "Indeterminate"
      BY <2>1, SafetyParts
    <2>3. rec'[blocked[d]].cap = rec[blocked[d]].cap
      BY <2>1, <2>2
    <2> QED BY <1>1, <2>1, <2>3 DEF RotationIInv, BehindBarriers
  <1> QED BY <1>1, RotationStays

\* Freeing a slot leaves what is ambiguous ambiguous.
LEMMA FreeSlotLeaves ==
    ASSUME SafetyIInv, NEW id \in OpId, NEW terminal \in Terminal,
           state[id] \in Running, FreeSlot(id, terminal)
    PROVE  \A q \in OpId : state[q] = "Indeterminate" => q # id /\ state'[q] = "Indeterminate"
  <1> DEFINE st == [state EXCEPT ![id] = terminal]
  <1>1. StartsFrom(st)
    BY SafetyParts, FreeSlotStarts
  <1>2. \A q \in OpId : state[q] = "Indeterminate" => q # id /\ st[q] = "Indeterminate"
    BY SafetyParts, LedgerParts DEF Types
  <1> HIDE DEF st
  <1> QED BY <1>1, <1>2 DEF StartsFrom

\* Unblocking a desktop leaves what else is ambiguous ambiguous.
LEMMA UnblockLeaves ==
    ASSUME SafetyIInv, NEW id \in OpId, NEW outcome \in Terminal,
           IsBlocking(id), Unblock(id, outcome)
    PROVE  /\ \A q \in OpId : state[q] = "Indeterminate" /\ q # id => state'[q] = "Indeterminate"
           /\ id \notin retired /\ \A d \in Device : blocked'[d] \in {blocked[d], NoOp} \ {id}
  <1> DEFINE st == [state EXCEPT ![id] = outcome]
  <1>1. StartsFrom(st)
    BY SafetyParts, UnblockStarts
  <1>2. \A q \in OpId : state[q] = "Indeterminate" /\ q # id => st[q] = "Indeterminate"
    BY SafetyParts, LedgerParts DEF Types
  <1> HIDE DEF st
  <1>3. Of(id) \in Device /\ blocked[Of(id)] = id /\ id # NoOp
    BY SafetyParts, AdmissionConstants DEF IsBlocking, Of, OperationRef
  <1>4. id \notin retired /\ \A d \in Device : blocked[d] = id => d = Of(id)
    BY <1>3, SafetyParts, LedgerParts DEF Blocks, Of
  <1>5. \A d \in Device : blocked'[d] \in {blocked[d], NoOp} \ {id}
    BY <1>3, <1>4, SafetyParts, LedgerParts DEF Unblock, Types
  <1> QED BY <1>1, <1>2, <1>4, <1>5 DEF StartsFrom

\* Starting a queued operation changes no record that is not queued.
LEMMA ActivateLeaves ==
    ASSUME NEW r, rec' = ActivateNext(r), NEW q \in OpId, state[q] # "Queued"
    PROVE  rec'[q] = r[q]
  BY DEF ActivateNext

LEMMA RotationStarts == SafetyInit => RotationIInv
  <1> SUFFICES ASSUME SafetyInit PROVE RotationIInv
    OBVIOUS
  <1>1. \A q \in OpId : ~ Detailed(q)
    BY DEF SafetyInit, Detailed
  <1>2. \A d \in Device : ~ Barred(d)
    BY DEF SafetyInit, Barred
  <1>3. DetailedIds(retirement) = {}
    BY <1>1 DEF DetailedIds, Detailed
  <1>4. DetailsFit
    BY <1>3, FS_EmptySet, SafetyConstants DEF DetailsFit
  <1> QED BY <1>1, <1>2, <1>4 DEF RotationIInv, DetailsAreRetired, ClicksAreBacked,
             BarriersAreBacked, BehindBarriers

\* Every call but a retirement, a resume, a lost result and a restart leaves the details, the
\* barriers, the blocked desktops and the ambiguous records alone, or settles one of them.
LEMMA CallsLeaveRotation ==
    ASSUME SafetyIInv, RotationIInv,
           \/ \E id \in OpId, d \in Device, g \in Generation, cap \in Capabilities :
                 Prepare(id, d, g, cap)
           \/ \E id \in OpId, binding \in BOOLEAN : MarkDispatchedWithBinding(id, binding)
           \/ \E id \in OpId :
                 \/ RequestCancel(id)
                 \/ MarkRecoveryReadInterrupted(id)
                 \/ MarkReconciliationEvidenceGap(id)
                 \/ MarkReconciliationOperatorRequired(id)
           \/ \E id \in OpId, pair \in AuthoritativeTerminal :
                 Finalize(id, pair) \/ ReconcileAuthoritativeTerminal(id, pair)
           \/ \E id \in OpId, evidence \in NonDelivery :
                 ResolveHubPreEnqueueNonDelivery(id, evidence)
           \/ \E id \in OpId, outcome \in {"Completed", "Cancelled"} :
                 ResolveIndeterminate(id, outcome)
           \/ \E d \in Device : Connect(d)
    PROVE  RotationIInv'
  <1> DEFINE Left == /\ UNCHANGED <<retirement, barrier, resume>> /\ retired' = retired
                     /\ \A d \in Device : blocked'[d] \in {blocked[d], NoOp}
                     /\ \A q \in OpId : state[q] = "Indeterminate" =>
                           \/ state'[q] = "Indeterminate" /\ rec'[q].cap = rec[q].cap
                           \/ q \notin retired /\ \A d \in Device : blocked'[d] # q
  <1>0. /\ state \in [OpId -> HubOperationState \cup {"Absent"}]
        /\ rec \in [OpId -> SafetyOperation \cup {NoRecord}]
        /\ \A q \in OpId : rec[q].state = state[q]
    BY SafetyParts, LedgerParts DEF Types
  <1>00. ASSUME NEW q \in OpId, state[q] = "Indeterminate" PROVE rec[q] \in SafetyOperation
    BY <1>00, SafetyParts
  <1>1. ASSUME NEW id \in OpId, NEW d \in Device, NEW g \in Generation,
               NEW cap \in Capabilities, Prepare(id, d, g, cap)
        PROVE  Left
    <2>1. /\ UNCHANGED <<retirement, barrier, resume>> /\ retired' = retired
          /\ blocked' = blocked /\ rec[id] = NoRecord
          /\ \/ state' = [state EXCEPT ![id] = "ActiveNotDispatched"]
             \/ state' = [state EXCEPT ![id] = "Queued"]
          /\ \A q \in OpId : q # id => rec'[q] = rec[q]
      BY <1>0, <1>1 DEF Prepare, Admit, AdmitNow, AdmitQueued, AdmitRecoveryReadOnly, Start,
                        Recorded
    <2>2. state[id] = "Absent"
      BY <1>0, <2>1, Recordings
    <2> QED BY <1>0, <2>1, <2>2
  <1>2. ASSUME NEW id \in OpId, NEW binding \in BOOLEAN, MarkDispatchedWithBinding(id, binding)
        PROVE  Left
    <2>1. /\ UNCHANGED <<retirement, barrier, resume>> /\ retired' = retired
          /\ blocked' = blocked /\ state[id] = "ActiveNotDispatched"
          /\ state' = [state EXCEPT ![id] = "Dispatched"]
          /\ \A q \in OpId : q # id => rec'[q] = rec[q]
      BY <1>0, <1>2 DEF MarkDispatchedWithBinding, AdmissionMarkDispatched
    <2> QED BY <1>0, <2>1
  <1>3. ASSUME NEW id \in OpId, RequestCancel(id)
        PROVE  Left
    <2>1. /\ UNCHANGED <<retirement, barrier, resume>> /\ retired' = retired
          /\ blocked' = blocked
      BY <1>3 DEF RequestCancel, CancelQueued, CancelActive, CancelDispatched
    <2>2. \A q \in OpId : state[q] = "Indeterminate" =>
             q # id /\ state'[q] = "Indeterminate"
      <3>1. CASE CancelQueued(id) \/ CancelDispatched(id)
        <4>1. /\ state[id] # "Indeterminate"
              /\ \/ state' = [state EXCEPT ![id] = "Cancelled"]
                 \/ state' = [state EXCEPT ![id] = "CancelRequested"]
          BY <3>1 DEF CancelQueued, CancelDispatched
        <4> QED BY <1>0, <4>1
      <3>2. CASE CancelActive(id)
        <4>1. state[id] \in Running /\ FreeSlot(id, "Cancelled")
          BY <3>2 DEF CancelActive
        <4> QED BY <4>1, FreeSlotLeaves
      <3> QED BY <1>3, <3>1, <3>2 DEF RequestCancel
    <2>3. ASSUME NEW q \in OpId, state[q] = "Indeterminate" PROVE rec'[q] = rec[q]
      <3>1. CASE rec' = ActivateNext(CancelRecords(rec, {id}))
        <4>1. rec'[q] = CancelRecords(rec, {id})[q]
          BY <2>3, <3>1, ActivateLeaves
        <4> QED BY <2>2, <2>3, <4>1 DEF CancelRecords
      <3>2. CASE rec' = [rec EXCEPT ![id].state = "CancelRequested"]
        BY <1>0, <2>2, <2>3, <3>2
      <3> QED BY <1>3, <3>1, <3>2 DEF RequestCancel
    <2> QED BY <2>1, <2>2, <2>3
  <1>4. ASSUME NEW id \in OpId, NEW terminal \in Terminal, NEW s,
               state[id] \in Running, FreeSlot(id, terminal),
               rec' = ActivateNext([rec EXCEPT ![id] = s]),
               UNCHANGED <<retirement, barrier, resume, retired, blocked>>
        PROVE  Left
    <2>1. \A q \in OpId : state[q] = "Indeterminate" => q # id /\ state'[q] = "Indeterminate"
      BY <1>4, FreeSlotLeaves
    <2>2. ASSUME NEW q \in OpId, state[q] = "Indeterminate" PROVE rec'[q] = rec[q]
      <3>1. rec'[q] = [rec EXCEPT ![id] = s][q]
        BY <1>4, <2>2, ActivateLeaves
      <3> QED BY <1>0, <2>1, <2>2, <3>1
    <2> QED BY <1>4, <2>1, <2>2
  <1>5. ASSUME NEW id \in OpId, NEW outcome \in Terminal, NEW s,
               IsBlocking(id), Unblock(id, outcome),
               rec' = ActivateNext([rec EXCEPT ![id] = s]),
               UNCHANGED <<retirement, barrier, resume, retired>>
        PROVE  Left
    <2>1. /\ \A q \in OpId : state[q] = "Indeterminate" /\ q # id => state'[q] = "Indeterminate"
          /\ id \notin retired /\ \A d \in Device : blocked'[d] \in {blocked[d], NoOp} \ {id}
      BY <1>5, UnblockLeaves
    <2>2. ASSUME NEW q \in OpId, state[q] = "Indeterminate", q # id PROVE rec'[q] = rec[q]
      <3>1. rec'[q] = [rec EXCEPT ![id] = s][q]
        BY <1>5, <2>2, ActivateLeaves
      <3> QED BY <1>0, <2>2, <3>1
    <2> QED BY <1>5, <2>1, <2>2
  <1>6. ASSUME NEW id \in OpId, MarkRecoveryReadInterrupted(id)
        PROVE  Left
    <2>1. /\ state[id] \in Running /\ FreeSlot(id, "Failed")
          /\ UNCHANGED <<retirement, barrier, resume, retired, blocked>>
      BY <1>6 DEF MarkRecoveryReadInterrupted, FailRecoveryReadOnly
    <2>2. PICK s : s = [rec[id] EXCEPT !.state = "Failed", !.reason = "None", !.result = FALSE,
                          !.recon = "None", !.evidence = "RecoveryReadInterrupted"]
      OBVIOUS
    <2>3. rec' = ActivateNext([rec EXCEPT ![id] = s])
      BY <1>0, <1>6, <2>2 DEF MarkRecoveryReadInterrupted
    <2> QED BY <1>4, <2>1, <2>3
  <1>7. ASSUME NEW id \in OpId,
               MarkReconciliationEvidenceGap(id) \/ MarkReconciliationOperatorRequired(id)
        PROVE  Left
    <2>1. /\ UNCHANGED <<retirement, barrier, resume, retired, blocked, state>>
          /\ \E status \in ReconciliationStatus : rec' = [rec EXCEPT ![id].recon = status]
      BY <1>7 DEF MarkReconciliationEvidenceGap, MarkReconciliationOperatorRequired,
                  admissionVars, ReconciliationStatus
    <2>2. ASSUME NEW q \in OpId, state[q] = "Indeterminate" PROVE rec'[q].cap = rec[q].cap
      BY <1>0, <1>00, <2>1, <2>2 DEF SafetyOperation
    <2> QED BY <2>1, <2>2
  <1>8. ASSUME NEW id \in OpId, NEW pair \in AuthoritativeTerminal, Finalize(id, pair)
        PROVE  Left
    <2>1. PICK terminal \in Terminal : terminal = pair[1]
      BY DEF AuthoritativeTerminal
    <2>2. /\ state[id] \in Running /\ FreeSlot(id, terminal)
          /\ UNCHANGED <<retirement, barrier, resume, retired, blocked>>
      BY <1>8, <2>1 DEF Finalize, FinalizeTerminal
    <2>3. PICK s : s = [rec[id] EXCEPT !.state = pair[1], !.reason = "None",
                          !.evidence = pair[2], !.result = rec[id].cap \notin ObserveClass]
      OBVIOUS
    <2>4. rec' = ActivateNext([rec EXCEPT ![id] = s])
      BY <1>0, <1>8, <2>3 DEF Finalize
    <2> QED BY <1>4, <2>2, <2>4
  <1>9. ASSUME NEW id \in OpId, NEW evidence \in NonDelivery,
               ResolveHubPreEnqueueNonDelivery(id, evidence)
        PROVE  Left
    <2>2. /\ state[id] \in Running /\ FreeSlot(id, "Cancelled")
          /\ UNCHANGED <<retirement, barrier, resume, retired, blocked>>
      BY <1>9 DEF ResolveHubPreEnqueueNonDelivery, FinalizeTerminal
    <2>3. PICK s : s = [rec[id] EXCEPT !.state = "Cancelled", !.reason = "None",
                          !.recon = "AutoResolved", !.result = FALSE, !.evidence = evidence]
      OBVIOUS
    <2>4. rec' = ActivateNext([rec EXCEPT ![id] = s])
      BY <1>0, <1>9, <2>3 DEF ResolveHubPreEnqueueNonDelivery
    <2> QED BY <1>4, <2>2, <2>4
  <1>10. ASSUME NEW id \in OpId, NEW pair \in AuthoritativeTerminal,
                ReconcileAuthoritativeTerminal(id, pair)
         PROVE  Left
    <2>1. PICK terminal \in Terminal : terminal = pair[1]
      BY DEF AuthoritativeTerminal
    <2>2. /\ IsBlocking(id) /\ Unblock(id, terminal)
          /\ UNCHANGED <<retirement, barrier, resume, retired>>
      BY <1>10, <2>1 DEF ReconcileAuthoritativeTerminal, ReconcileIndeterminateTerminal
    <2>3. PICK s : s = [rec[id] EXCEPT !.state = pair[1], !.reason = "None",
                          !.recon = "AutoResolved", !.evidence = pair[2], !.result = FALSE]
      OBVIOUS
    <2>4. rec' = ActivateNext([rec EXCEPT ![id] = s])
      BY <1>0, <1>10, <2>3 DEF ReconcileAuthoritativeTerminal
    <2> QED BY <1>5, <2>2, <2>4
  <1>11. ASSUME NEW id \in OpId, NEW outcome \in {"Completed", "Cancelled"},
                ResolveIndeterminate(id, outcome)
         PROVE  Left
    <2>2. /\ IsBlocking(id) /\ Unblock(id, outcome) /\ outcome \in Terminal
          /\ UNCHANGED <<retirement, barrier, resume, retired>>
      BY <1>11 DEF ResolveIndeterminate, AdmissionResolveIndeterminate
    <2>3. PICK s : s = [rec[id] EXCEPT !.state = outcome, !.reason = "None", !.recon = "None",
                          !.evidence = "OperatorResolution"]
      OBVIOUS
    <2>4. rec' = ActivateNext([rec EXCEPT ![id] = s])
      BY <1>0, <1>11, <2>3 DEF ResolveIndeterminate
    <2> QED BY <1>5, <2>2, <2>4
  <1>12. ASSUME NEW d \in Device, Connect(d)
         PROVE  Left
    <2>1. /\ UNCHANGED <<retirement, barrier, resume, retired, blocked>>
          /\ \A q \in OpId : state[q] = "Indeterminate" => state'[q] = state[q]
      BY <1>12 DEF Connect, AdmissionPruneTerminalBeforeGeneration, Prunable
    <2>2. ASSUME NEW q \in OpId, state[q] = "Indeterminate" PROVE rec'[q] = rec[q]
      BY <1>0, <1>12, <2>2 DEF Connect
    <2> QED BY <2>1, <2>2
  <1>13. Left
    BY <1>1, <1>2, <1>3, <1>6, <1>7, <1>8, <1>9, <1>10, <1>11, <1>12
  <1> QED BY <1>13, RotationUnmoved

\* resume_mutations turns the barrier of a click into its resume.
LEMMA ResumeKeepsRotation ==
    ASSUME SafetyIInv, RotationIInv, NEW d \in Device, NEW g, ResumeMutations(d, g)
    PROVE  RotationIInv'
  <1>1. PICK src : src = barrier[d].source
    OBVIOUS
  <1>2. PICK m : m = [device |-> d, accepted |-> barrier[d].accepted, resumed |-> g]
    OBVIOUS
  <1>3. /\ Barred(d) /\ resume' = [resume EXCEPT ![src] = m]
        /\ barrier' = [barrier EXCEPT ![d] = NoBarrier]
        /\ UNCHANGED <<retirement, retired, state, blocked, rec>>
        /\ g > barrier[d].accepted
    BY <1>1, <1>2 DEF ResumeMutations, admissionVars
  <1>4. /\ barrier[d] \in BarrierRecords /\ src \in OpId
        /\ resume \in [OpId -> ResumeRecords \cup {NoResume}]
        /\ barrier \in [Device -> BarrierRecords \cup {NoBarrier}]
    BY <1>1, <1>3, SafetyParts DEF BookTypes, Barred, BarrierRecords
  <1>5. /\ m # NoResume /\ m.accepted = barrier[d].accepted
    <2>1. m.accepted = barrier[d].accepted /\ DOMAIN m = {"device", "accepted", "resumed"}
      BY <1>2
    <2>2. DOMAIN NoResume = {"resumed"}
      BY DEF NoResume
    <2> QED BY <2>1, <2>2
  <1>6. Detailed(src) /\ m.accepted = retirement[src].authorized
    BY <1>1, <1>3, <1>5 DEF RotationIInv, BarriersAreBacked
  <1>7. DetailsAreRetired' /\ DetailsFit'
    BY <1>3 DEF RotationIInv, DetailsAreRetired, DetailsFit, DetailedIds, Detailed
  <1>8. ClicksAreBacked'
    <2>1. ASSUME NEW q \in OpId, Detailed(q)', retirement'[q].cap = "PointerClick"
          PROVE  \/ resume'[q] # NoResume /\ resume'[q].accepted = retirement'[q].authorized
                 \/ \E e \in Device : barrier'[e].source = q
      <3>1. Detailed(q) /\ retirement[q].cap = "PointerClick" /\ retirement' = retirement
        BY <1>3, <2>1 DEF Detailed
      <3>2. CASE q = src
        BY <1>3, <1>4, <1>5, <1>6, <3>1, <3>2
      <3>3. CASE q # src
        <4>1. resume'[q] = resume[q] /\ \A e \in Device : e # d => barrier'[e] = barrier[e]
          BY <1>3, <1>4, <3>3
        <4>2. \A e \in Device : barrier[e].source = q => e # d
          BY <1>1, <3>3
        <4> QED BY <3>1, <4>1, <4>2 DEF RotationIInv, ClicksAreBacked
      <3> QED BY <3>2, <3>3
    <2> QED BY <2>1 DEF ClicksAreBacked
  <1>9. \A e \in Device : Barred(e)' => Barred(e) /\ barrier'[e] = barrier[e]
    BY <1>3, <1>4 DEF Barred
  <1>10. BarriersAreBacked' /\ BehindBarriers'
    <2>1. BarriersAreBacked'
      BY <1>3, <1>9 DEF RotationIInv, BarriersAreBacked, Detailed
    <2>2. BehindBarriers'
      BY <1>3, <1>9 DEF RotationIInv, BehindBarriers
    <2> QED BY <2>1, <2>2
  <1> QED BY <1>7, <1>8, <1>10 DEF RotationIInv

\* mark_indeterminate: what was in flight behind a barrier is a read.
LEMMA LossKeepsRotation ==
    ASSUME SafetyIInv, RotationIInv, NEW id \in OpId,
           NEW reason \in IndeterminateReason, MarkIndeterminate(id, reason)
    PROVE  RotationIInv'
  <1>1. PICK d : d = Of(id)
    OBVIOUS
  <1>2. /\ UNCHANGED <<retirement, barrier, resume>> /\ retired' = retired
        /\ rec[id].state \in InFlight /\ blocked' = [blocked EXCEPT ![d] = id]
        /\ state' = [q \in OpId |-> IF q = id THEN "Indeterminate"
                                    ELSE IF q \in QueuedRecords(d, id) THEN "Cancelled"
                                    ELSE state[q]]
    BY <1>1 DEF MarkIndeterminate
  <1>3. PICK recon : rec' = [CancelRecords(rec, QueuedRecords(d, id)) EXCEPT
                     ![id].state = "Indeterminate", ![id].reason = reason,
                     ![id].evidence = "None", ![id].result = FALSE, ![id].recon = recon]
    BY <1>1 DEF MarkIndeterminate
  <1>4. /\ \A q \in OpId : rec[q].state = state[q]
        /\ rec[id] \in SafetyOperation /\ id \notin QueuedRecords(d, id)
    BY <1>2, SafetyParts DEF QueuedRecords
  <1>5. rec'[id].cap = rec[id].cap
    BY <1>3, <1>4 DEF CancelRecords, SafetyOperation
  <1>6. ASSUME NEW q \in OpId, state[q] = "Indeterminate"
        PROVE  q # id /\ state'[q] = "Indeterminate" /\ rec'[q] = rec[q]
    <2>1. q # id /\ q \notin QueuedRecords(d, id)
      BY <1>2, <1>4, <1>6 DEF QueuedRecords
    <2> QED BY <1>2, <1>3, <1>6, <2>1 DEF CancelRecords
  <1>7. d \in Device /\ blocked \in [Device -> OpId \cup {NoOp}] /\ ref[id].device = d
    BY <1>1, <1>2, <1>4, SafetyParts, LedgerParts DEF Of, OperationRef, Types
  <1>8. ASSUME NEW e \in Device, Barred(e), blocked'[e] # NoOp
        PROVE  rec'[blocked'[e]].cap \in ObserveClass
    <2>1. CASE e = d
      <3>1. blocked'[e] = id
        BY <1>2, <1>7, <2>1
      <3>2. rec[id].cap \in ObserveClass
        BY <1>2, <1>7, <1>8, <2>1, SafetyParts DEF Bars, Barred
      <3> QED BY <1>5, <3>1, <3>2
    <2>2. CASE e # d
      <3>1. blocked'[e] = blocked[e] /\ blocked[e] # NoOp
        BY <1>2, <1>7, <1>8, <2>2
      <3>2. blocked[e] \in OpId /\ state[blocked[e]] = "Indeterminate"
        BY <3>1, SafetyParts
      <3>3. rec'[blocked[e]] = rec[blocked[e]]
        BY <1>6, <3>2
      <3> QED BY <1>8, <3>1, <3>3 DEF RotationIInv, BehindBarriers
    <2> QED BY <2>1, <2>2
  <1> QED BY <1>2, <1>6, <1>8, RotationStays

\* A restart: so is what the snapshot finds in flight there.
LEMMA RestartKeepsRotation ==
    ASSUME SafetyIInv, RotationIInv, SafetyRestart
    PROVE  RotationIInv'
  <1>1. /\ UNCHANGED <<retirement, barrier, resume>> /\ retired' = retired
        /\ rec' = [q \in OpId |-> SnapshotRecord(q)]
        /\ state' = [q \in OpId |-> SnapshotState(q)]
        /\ \A d \in Device : blocked'[d] = IF RestoredBlockers(d) = {} THEN NoOp
                                           ELSE CHOOSE q \in RestoredBlockers(d) : TRUE
    BY DEF SafetyRestart, AdmissionRestart
  <1>2. \A q \in OpId : state[q] = "Indeterminate" => state'[q] = "Indeterminate"
    BY <1>1 DEF SnapshotState
  <1>3. ASSUME NEW q \in OpId, state[q] # "Absent" PROVE SnapshotRecord(q).cap = rec[q].cap
    <2>1. rec[q] \in SafetyOperation
      BY <1>3, SafetyParts
    <2> QED BY <2>1 DEF SnapshotRecord, SafetyOperation
  <1>4. ASSUME NEW e \in Device, Barred(e), blocked'[e] # NoOp
        PROVE  rec'[blocked'[e]].cap \in ObserveClass
    <2>1. PICK q : q = blocked'[e]
      OBVIOUS
    <2>2. q \in RestoredBlockers(e)
      BY <1>1, <1>4, <2>1
    <2>3. q \in OpId /\ SnapshotState(q) = "Indeterminate" /\ q \notin retired /\ Of(q) = e
      BY <2>2 DEF RestoredBlockers
    <2>4. state[q] \in InFlight \cup {"Indeterminate"}
      BY <2>3 DEF SnapshotState
    <2>5. rec'[q].cap = rec[q].cap
      BY <1>1, <1>3, <2>3, <2>4
    <2>6. CASE state[q] = "Indeterminate"
      <3>1. blocked[e] = q /\ q # NoOp
        BY <2>3, <2>6, SafetyParts, LedgerParts, AdmissionConstants DEF Blocks, Of
      <3> QED BY <1>4, <2>1, <2>5, <3>1 DEF RotationIInv, BehindBarriers
    <2>7. CASE state[q] \in InFlight
      BY <1>4, <2>1, <2>3, <2>5, <2>7, SafetyParts DEF Bars, Barred, Of
    <2> QED BY <2>4, <2>6, <2>7
  <1> QED BY <1>1, <1>2, <1>4, RotationStays

\* What rotation drops is no barrier's source, and is no more than what is too many.
LEMMA VictimFacts ==
    ASSUME NEW rt, NEW br, NEW gone \in RotationVictims(rt, br)
    PROVE  /\ \A q \in gone : q \in DetailedIds(rt) /\ \A d \in Device : br[d].source # q
           /\ \/ gone = {} /\ Cardinality(DetailedIds(rt)) <= MaxRetirementRecords
              \/ \E x \in DetailedIds(rt) : gone = {x}
  <1>1. CASE Cardinality(DetailedIds(rt)) <= MaxRetirementRecords
    BY <1>1 DEF RotationVictims
  <1>2. CASE ~ (Cardinality(DetailedIds(rt)) <= MaxRetirementRecords)
    <2>1. PICK x \in {q \in DetailedIds(rt) : \A d \in Device : br[d].source # q} : gone = {x}
      BY <1>2 DEF RotationVictims
    <2> QED BY <2>1
  <1> QED BY <1>1, <1>2

\* The details a retirement leaves still fit.
LEMMA RotationFits ==
    ASSUME NEW D, IsFiniteSet(D), Cardinality(D) <= MaxRetirementRecords, NEW id, NEW gone,
           \/ gone = {} /\ Cardinality(D \cup {id}) <= MaxRetirementRecords
           \/ \E x \in D \cup {id} : gone = {x}
    PROVE  /\ IsFiniteSet((D \cup {id}) \ gone)
           /\ Cardinality((D \cup {id}) \ gone) <= MaxRetirementRecords
  <1>1. /\ IsFiniteSet(D \cup {id}) /\ Cardinality(D) \in Nat
        /\ Cardinality(D \cup {id}) \in Nat
        /\ Cardinality(D \cup {id}) <= Cardinality(D) + 1
    BY FS_AddElement, FS_CardinalityType
  <1>2. CASE gone = {} /\ Cardinality(D \cup {id}) <= MaxRetirementRecords
    <2>1. (D \cup {id}) \ gone = D \cup {id}
      BY <1>2
    <2> QED BY <1>1, <1>2, <2>1
  <1>3. CASE \E x \in D \cup {id} : gone = {x}
    <2>1. PICK x \in D \cup {id} : gone = {x}
      BY <1>3
    <2>2. /\ IsFiniteSet((D \cup {id}) \ {x})
          /\ Cardinality((D \cup {id}) \ {x}) = Cardinality(D \cup {id}) - 1
      BY <1>1, <2>1, FS_RemoveElement
    <2> QED BY <1>1, <2>1, <2>2, SafetyConstants
  <1> QED BY <1>2, <1>3

\* A retirement may start only where no barrier stands: what the desktop is quarantined
\* for behind one is a read, which is never retired.
LEMMA RetirementIsFree ==
    ASSUME SafetyIInv, RotationIInv, NEW id \in OpId,
           NEW disposition \in {"Retired", "CurrentStateAccepted"},
           NEW authorized, authorized = generation[Of(id)],
           MayRetireRecord(id, disposition, authorized), MayRetire(id)
    PROVE  /\ Of(id) \in Device /\ ~ Barred(Of(id))
           /\ ~ Detailed(id) /\ state[id] = "Indeterminate" /\ Recorded(id)
           /\ blocked[Of(id)] = id /\ \A d \in Device : blocked[d] = id => d = Of(id)
           /\ rec[id].cap = "PointerClick" => disposition = "CurrentStateAccepted"
           /\ RetirementOf(id, disposition, authorized) \in RetirementRecords
           /\ RetirementOf(id, disposition, authorized).cap = rec[id].cap
           /\ RetirementOf(id, disposition, authorized).authorized = authorized
  <1>1. IsBlocking(id) /\ ~ Detailed(id) /\ rec[id].cap \in Eligible(disposition)
    BY DEF MayRetire, MayRetireRecord
  <1>2. /\ Of(id) \in Device
        /\ RetirementOf(id, disposition, authorized) \in RetirementRecords
    BY <1>1, RetirementTypes
  <1>3. /\ state[id] = "Indeterminate" /\ blocked[Of(id)] = id /\ id # NoOp
    BY <1>1, AdmissionConstants DEF IsBlocking
  <1>4. \A d \in Device : blocked[d] = id => d = Of(id)
    BY <1>3, SafetyParts, LedgerParts DEF Blocks, Of
  <1>5. rec[id].cap \in {"Scroll", "PointerClick"}
        /\ (rec[id].cap = "PointerClick" => disposition = "CurrentStateAccepted")
    BY <1>1 DEF Eligible
  <1>6. ~ Barred(Of(id))
    BY <1>2, <1>3, <1>5 DEF RotationIInv, BehindBarriers, ObserveClass
  <1>7. Recorded(id)
    BY <1>3, SafetyParts, Recordings DEF Recorded
  <1>8. /\ RetirementOf(id, disposition, authorized).cap = rec[id].cap
        /\ RetirementOf(id, disposition, authorized).authorized = authorized
    BY DEF RetirementOf
  <1> QED BY <1>1, <1>2, <1>3, <1>4, <1>5, <1>6, <1>7, <1>8

\* A retirement adds its detail, raises its barrier and drops no detail a barrier needs.
LEMMA RetireKeepsRotation ==
    ASSUME SafetyIInv, SafetyIInv', RotationIInv, NEW id \in OpId,
           NEW disposition \in {"Retired", "CurrentStateAccepted"},
           NEW authorized, authorized = generation[Of(id)],
           MayRetireRecord(id, disposition, authorized), MayRetire(id),
           Rotates(id, disposition, authorized)
    PROVE  RotationIInv'
  <1>1. PICK t : t = RetirementOf(id, disposition, authorized)
    OBVIOUS
  <1>2. PICK d : d = Of(id)
    OBVIOUS
  <1>3. /\ d \in Device /\ ~ Barred(d) /\ ~ Detailed(id) /\ state[id] = "Indeterminate"
        /\ blocked[d] = id /\ (\A e \in Device : blocked[e] = id => e = d)
        /\ (rec[id].cap = "PointerClick" => disposition = "CurrentStateAccepted")
        /\ t \in RetirementRecords /\ t.cap = rec[id].cap /\ t.authorized = authorized
        /\ t # NoRetirement
    BY <1>1, <1>2, RetirementIsFree, NoRetirementIsNone
  <1>4. PICK rt : rt = [retirement EXCEPT ![id] = t]
    OBVIOUS
  <1>5. PICK gone \in RotationVictims(rt, barrier') :
          /\ \A q \in gone : state[q] = "Indeterminate"
                              /\ (q = id \/ \A e \in Device : blocked[e] # q)
          /\ retirement' = [q \in OpId |-> IF q \in gone THEN NoRetirement ELSE rt[q]]
          /\ resume' = [q \in OpId |-> IF q \in gone THEN NoResume ELSE resume[q]]
          /\ RetiredOthers(gone)
    BY <1>1, <1>4 DEF Rotates
  <1>6. /\ blocked' = [blocked EXCEPT ![d] = NoOp] /\ retired' = retired \cup {id}
        /\ barrier' = RaisedBarrier(id, disposition, authorized)
    BY <1>2 DEF Rotates
  <1>7. /\ barrier \in [Device -> BarrierRecords \cup {NoBarrier}]
        /\ retirement \in [OpId -> RetirementRecords \cup {NoRetirement}]
        /\ blocked \in [Device -> OpId \cup {NoOp}]
        /\ \A q \in OpId : rec[q].state = state[q] /\ rec'[q].state = state'[q]
    BY SafetyParts, LedgerParts DEF BookTypes, Types, SafetyIInv, Agrees
  <1>8. /\ \A e \in Device : e # d => barrier'[e] = barrier[e]
        /\ barrier'[d] # NoBarrier =>
              barrier'[d].source = id /\ barrier'[d].accepted = authorized
        /\ rec[id].cap = "PointerClick" => barrier'[d].source = id
    <2>1. CASE Raises(id, disposition)
      BY <1>2, <1>3, <1>6, <1>7, <2>1 DEF RaisedBarrier
    <2>2. CASE ~ Raises(id, disposition)
      BY <1>2, <1>3, <1>6, <1>7, <2>2 DEF RaisedBarrier, Raises, Barred
    <2> QED BY <2>1, <2>2
  <1>9. /\ \A q \in gone : q \in DetailedIds(rt) /\ \A e \in Device : barrier'[e].source # q
        /\ \/ gone = {} /\ Cardinality(DetailedIds(rt)) <= MaxRetirementRecords
           \/ \E x \in DetailedIds(rt) : gone = {x}
    BY <1>5, VictimFacts
  <1>10. /\ rt[id] = t /\ \A q \in OpId : q # id => rt[q] = retirement[q]
    BY <1>4, <1>7
  <1>11. ASSUME NEW q \in OpId, retirement'[q] # NoRetirement
         PROVE  /\ q \notin gone /\ retirement'[q] = rt[q] /\ resume'[q] = resume[q]
                /\ q # id => retirement[q] # NoRetirement
    BY <1>5, <1>10, <1>11
  <1>12. DetailsAreRetired'
    <2>1. ASSUME NEW q \in OpId, Detailed(q)' PROVE q \in retired' /\ state'[q] = "Indeterminate"
      <3>1. q \in retired' /\ state[q] = "Indeterminate"
        BY <1>3, <1>6, <1>11, <2>1 DEF RotationIInv, DetailsAreRetired, Detailed
      <3>2. rec'[q] = rec[q]
        BY <1>5, <1>11, <2>1, <3>1 DEF RetiredOthers, Detailed
      <3> QED BY <1>7, <3>1, <3>2
    <2> QED BY <2>1 DEF DetailsAreRetired
  <1>13. ClicksAreBacked'
    <2>1. ASSUME NEW q \in OpId, Detailed(q)', retirement'[q].cap = "PointerClick"
          PROVE  \/ resume'[q] # NoResume /\ resume'[q].accepted = retirement'[q].authorized
                 \/ \E e \in Device : barrier'[e].source = q
      <3>1. CASE q = id
        BY <1>3, <1>8, <1>10, <1>11, <2>1, <3>1 DEF Detailed
      <3>2. CASE q # id
        <4>1. /\ Detailed(q) /\ retirement'[q] = retirement[q] /\ resume'[q] = resume[q]
          BY <1>10, <1>11, <2>1, <3>2 DEF Detailed
        <4>2. ASSUME NEW e \in Device, barrier[e].source = q PROVE barrier'[e].source = q
          <5>1. Barred(e)
            BY <4>2, NoBarrierHasNoSource, AdmissionConstants DEF Barred
          <5> QED BY <1>3, <1>8, <4>2, <5>1
        <4> QED BY <2>1, <4>1, <4>2 DEF RotationIInv, ClicksAreBacked
      <3> QED BY <3>1, <3>2
    <2> QED BY <2>1 DEF ClicksAreBacked
  <1>14. BarriersAreBacked'
    <2>1. ASSUME NEW e \in Device, Barred(e)'
          PROVE  /\ Detailed(barrier[e].source)'
                 /\ barrier'[e].accepted = retirement'[barrier'[e].source].authorized
      <3>1. PICK src : src = barrier'[e].source
        OBVIOUS
      <3>2. src \notin gone
        BY <1>9, <3>1
      <3>3. CASE e = d
        <4>1. src = id /\ barrier'[e].accepted = authorized
          BY <1>8, <2>1, <3>1, <3>3 DEF Barred
        <4>2. retirement'[id] = t
          BY <1>5, <1>10, <3>2, <4>1
        <4> QED BY <1>3, <3>1, <4>1, <4>2 DEF Detailed
      <3>4. CASE e # d
        <4>1. barrier'[e] = barrier[e] /\ Barred(e)
          BY <1>8, <2>1, <3>4 DEF Barred
        <4>2. src \in OpId
          BY <1>7, <3>1, <4>1, NoBarrierHasNoSource DEF Barred
        <4>3. Detailed(src) /\ barrier[e].accepted = retirement[src].authorized
          BY <3>1, <4>1 DEF RotationIInv, BarriersAreBacked
        <4>4. src # id /\ retirement'[src] = retirement[src]
          BY <1>3, <1>5, <1>10, <3>2, <4>2, <4>3
        <4> QED BY <3>1, <4>1, <4>3, <4>4 DEF Detailed
      <3> QED BY <3>3, <3>4
    <2> QED BY <2>1 DEF BarriersAreBacked
  <1>15. DetailsFit'
    <2>1. DetailedIds(rt) = DetailedIds(retirement) \cup {id}
      BY <1>3, <1>10 DEF DetailedIds
    <2>2. DetailedIds(retirement') = DetailedIds(rt) \ gone
      BY <1>5 DEF DetailedIds
    <2>3. IsFiniteSet(DetailedIds(retirement))
          /\ Cardinality(DetailedIds(retirement)) <= MaxRetirementRecords
      BY DEF RotationIInv, DetailsFit
    <2>4. PICK D : D = DetailedIds(retirement)
      OBVIOUS
    <2>5. /\ IsFiniteSet((D \cup {id}) \ gone)
          /\ Cardinality((D \cup {id}) \ gone) <= MaxRetirementRecords
      BY <1>9, <2>1, <2>3, <2>4, RotationFits
    <2>6. (DetailedIds(retirement))' = (D \cup {id}) \ gone
      BY <2>1, <2>2, <2>4 DEF DetailedIds
    <2> QED BY <2>5, <2>6 DEF DetailsFit
  <1>16. BehindBarriers'
    <2>1. ASSUME NEW e \in Device, Barred(e)', blocked'[e] # NoOp
          PROVE  rec'[blocked'[e]].cap \in ObserveClass
      <3>1. e # d /\ blocked'[e] = blocked[e] /\ Barred(e)
        BY <1>3, <1>6, <1>7, <1>8, <2>1 DEF Barred
      <3>2. blocked[e] \in OpId /\ state[blocked[e]] = "Indeterminate" /\ blocked[e] # id
        BY <1>3, <2>1, <3>1, SafetyParts
      <3>3. blocked[e] \notin gone
        BY <1>5, <3>2
      <3>4. rec'[blocked[e]] = rec[blocked[e]]
        BY <1>5, <3>2, <3>3 DEF RetiredOthers
      <3> QED BY <2>1, <3>1, <3>4 DEF RotationIInv, BehindBarriers
    <2> QED BY <2>1 DEF BehindBarriers
  <1> QED BY <1>12, <1>13, <1>14, <1>15, <1>16 DEF RotationIInv

\* Every call keeps the details and the proofs they are for.
LEMMA RotationStep ==
    ASSUME SafetyIInv, RotationIInv, [SafetyNext]_vars
    PROVE  RotationIInv'
  <1>1. CASE UNCHANGED vars
    BY <1>1 DEF vars, admissionVars, safetyVars, RotationIInv, DetailsAreRetired,
       ClicksAreBacked, BarriersAreBacked, DetailsFit, BehindBarriers, DetailedIds, Detailed,
       Barred
  <1>2. CASE \E id \in OpId : AcceptCurrentState(id) \/ RetireIndeterminate(id)
    <2>1. PICK id \in OpId : AcceptCurrentState(id) \/ RetireIndeterminate(id)
      BY <1>2
    <2>2. PICK authorized : authorized = generation[Of(id)]
      OBVIOUS
    <2>3. PICK disposition \in {"Retired", "CurrentStateAccepted"} :
            RetireIndeterminateWithDisposition(id, disposition, authorized)
      BY <2>1, <2>2 DEF AcceptCurrentState, RetireIndeterminate
    <2>4. SafetyIInv' /\ Rotates(id, disposition, authorized)
      BY <2>2, <2>3, RetireKeeps
    <2>5. MayRetireRecord(id, disposition, authorized) /\ MayRetire(id)
      BY <2>3 DEF RetireIndeterminateWithDisposition
    <2> QED BY <2>2, <2>4, <2>5, RetireKeepsRotation
  <1>3. CASE \E d \in Device, g \in Generation : ResumeMutations(d, g)
    BY <1>3, ResumeKeepsRotation
  <1>4. CASE \E id \in OpId, reason \in {"ConnectionLost", "BackendOutcomeUnproven"} :
               MarkIndeterminate(id, reason)
    BY <1>4, LossKeepsRotation DEF IndeterminateReason
  <1>5. CASE SafetyRestart
    BY <1>5, RestartKeepsRotation
  <1>6. CASE SafetyNext
    BY <1>2, <1>3, <1>4, <1>5, <1>6, CallsLeaveRotation DEF SafetyNext
  <1> QED BY <1>1, <1>6

\* More details than desktops: one of them is no barrier's source.
LEMMA SomeDetailIsFree ==
    ASSUME NEW D, IsFiniteSet(D), Cardinality(D) > MaxRetirementRecords, NEW br
    PROVE  \E q \in D : \A d \in Device : br[d].source # q
  <1> SUFFICES ASSUME \A q \in D : \E d \in Device : br[d].source = q PROVE FALSE
    OBVIOUS
  <1>1. PICK f : f = [q \in D |-> CHOOSE d \in Device : br[d].source = q]
    OBVIOUS
  <1>2. \A q \in D : f[q] \in Device /\ br[f[q]].source = q
    BY <1>1
  <1>3. f \in [D -> Device]
    BY <1>1, <1>2
  <1>4. Cardinality(D) \in Nat /\ Cardinality(Device) \in Nat
    BY AdmissionConstants, FS_CardinalityType
  <1>5. Cardinality(Device) < Cardinality(D)
    BY <1>4, SafetyConstants
  <1>6. PICK x, y \in D : x # y /\ f[x] = f[y]
    BY <1>3, <1>5, AdmissionConstants, FS_PigeonHole
  <1> QED BY <1>2, <1>6

\* A rotation finds a victim, and whichever it takes can go.
LEMMA RotationFinds ==
    ASSUME SafetyIInv, RotationIInv
    PROVE  RotationNeverStrands
  <1> SUFFICES ASSUME NEW id \in OpId, NEW disposition \in {"Retired", "CurrentStateAccepted"},
                      MayRetireRecord(id, disposition, generation[Of(id)]), MayRetire(id)
               PROVE  LET rt == [retirement EXCEPT ![id] =
                                   RetirementOf(id, disposition, generation[Of(id)])]
                          br == IF disposition = "CurrentStateAccepted"
                                   /\ rec[id].cap = "PointerClick"
                                THEN [barrier EXCEPT ![Of(id)] = [source |-> id]] ELSE barrier
                          victims == RotationVictims(rt, br)
                      IN  /\ victims # {}
                          /\ \A gone \in victims, q \in OpId : q \in gone =>
                                CanCompact(q, rt, [blocked EXCEPT ![Of(id)] = NoOp])
    BY DEF RotationNeverStrands
  <1>1. PICK authorized : authorized = generation[Of(id)]
    OBVIOUS
  <1>2. PICK t : t = RetirementOf(id, disposition, authorized)
    OBVIOUS
  <1>3. PICK d : d = Of(id)
    OBVIOUS
  <1>4. /\ d \in Device /\ ~ Barred(d) /\ ~ Detailed(id) /\ state[id] = "Indeterminate"
        /\ Recorded(id) /\ (\A e \in Device : blocked[e] = id => e = d)
        /\ (rec[id].cap = "PointerClick" => disposition = "CurrentStateAccepted")
        /\ t # NoRetirement /\ t.cap = rec[id].cap
    BY <1>1, <1>2, <1>3, RetirementIsFree, NoRetirementIsNone
  <1>5. PICK rt : rt = [retirement EXCEPT ![id] = t]
    OBVIOUS
  <1>6. PICK br : br = IF disposition = "CurrentStateAccepted" /\ rec[id].cap = "PointerClick"
                       THEN [barrier EXCEPT ![d] = [source |-> id]] ELSE barrier
    OBVIOUS
  <1>7. PICK blk : blk = [blocked EXCEPT ![d] = NoOp]
    OBVIOUS
  <1>8. /\ barrier \in [Device -> BarrierRecords \cup {NoBarrier}]
        /\ retirement \in [OpId -> RetirementRecords \cup {NoRetirement}]
        /\ blocked \in [Device -> OpId \cup {NoOp}] /\ id # NoOp
    BY SafetyParts, LedgerParts, AdmissionConstants DEF BookTypes, Types
  <1>9. rt[id] = t /\ \A q \in OpId : q # id => rt[q] = retirement[q]
    BY <1>5, <1>8
  <1>10. RotationVictims(rt, br) # {}
    <2>1. CASE Cardinality(DetailedIds(rt)) <= MaxRetirementRecords
      BY <2>1 DEF RotationVictims
    <2>2. CASE ~ (Cardinality(DetailedIds(rt)) <= MaxRetirementRecords)
      <3>1. DetailedIds(rt) = DetailedIds(retirement) \cup {id}
        BY <1>4, <1>9 DEF DetailedIds
      <3>2. IsFiniteSet(DetailedIds(rt))
        BY <3>1, FS_AddElement DEF RotationIInv, DetailsFit
      <3>3. Cardinality(DetailedIds(rt)) > MaxRetirementRecords
        BY <2>2, <3>2, FS_CardinalityType, SafetyConstants
      <3>4. \E q \in DetailedIds(rt) : \A e \in Device : br[e].source # q
        BY <3>2, <3>3, SomeDetailIsFree
      <3> QED BY <2>2, <3>4 DEF RotationVictims
    <2> QED BY <2>1, <2>2
  <1>11. ASSUME NEW gone \in RotationVictims(rt, br), NEW q \in OpId, q \in gone
         PROVE  CanCompact(q, rt, blk)
    <2>1. rt[q] # NoRetirement /\ \A e \in Device : br[e].source # q
      BY <1>11, VictimFacts DEF DetailedIds
    <2>2. CASE q = id
      <3>1. rec[id].cap # "PointerClick"
        BY <1>4, <1>6, <1>8, <2>1, <2>2
      <3>2. \A e \in Device : blk[e] # q
        BY <1>4, <1>7, <1>8, <2>2
      <3> QED BY <1>4, <1>9, <2>2, <3>1, <3>2 DEF CanCompact
    <2>3. CASE q # id
      <3>1. rt[q] = retirement[q] /\ Detailed(q)
        BY <1>9, <2>1, <2>3 DEF Detailed
      <3>2. q \in retired /\ state[q] = "Indeterminate"
        BY <3>1 DEF RotationIInv, DetailsAreRetired
      <3>3. Recorded(q)
        BY <3>2, SafetyParts, Recordings DEF Recorded
      <3>4. \A e \in Device : blk[e] # q
        <4>1. \A e \in Device : blocked[e] # q
          BY <3>2, SafetyParts, LedgerParts, AdmissionConstants DEF Blocks
        <4>2. q # NoOp
          BY AdmissionConstants
        <4> QED BY <1>7, <1>8, <4>1, <4>2
      <3>5. ASSUME NEW e \in Device, barrier[e].source = q PROVE FALSE
        <4>1. Barred(e)
          BY <3>5, NoBarrierHasNoSource, AdmissionConstants DEF Barred
        <4>2. e # d
          BY <1>4, <4>1
        <4>3. br[e] = barrier[e]
          BY <1>6, <1>8, <4>2
        <4> QED BY <2>1, <3>5, <4>3
      <3>6. rt[q].cap = "PointerClick" =>
               resume[q] # NoResume /\ resume[q].accepted = rt[q].authorized
        BY <3>1, <3>5 DEF RotationIInv, ClicksAreBacked
      <3> QED BY <3>2, <3>3, <3>4, <3>6 DEF CanCompact
    <2> QED BY <2>2, <2>3
  <1> QED BY <1>1, <1>2, <1>3, <1>5, <1>6, <1>7, <1>10, <1>11

\* retire_indeterminate never fails half-way: for any number of desktops that does not
\* exceed the limit of details, any ids and any order of calls, lost results, decisions,
\* resumes and restarts, a retirement that may start finds a detail rotate_retirement_history
\* can compact, and whichever it takes has the resume and the ledger entry that needs.
THEOREM RotationIsSafe == SafetySpec => []RotationNeverStrands
  <1>1. SafetyInit => RotationIInv
    BY RotationStarts
  <1>2. SafetyIInv /\ RotationIInv /\ [SafetyNext]_vars => RotationIInv'
    BY RotationStep
  <1>3. SafetyIInv /\ RotationIInv => RotationNeverStrands
    BY RotationFinds
  <1> QED BY <1>1, <1>2, <1>3, SafetyInvariant, PTL DEF SafetySpec

-----------------------------------------------------------------------------
(* The checkpoint directory: what a Hub was told is committed survives a   *)
(* crash, and the directory keeps the contract of the state store, for any *)
(* Hub processes, transitions and revisions.                               *)

\* A set of sequence numbers has a largest one.
LEMMA LargestExists ==
    ASSUME NEW n \in Nat, NEW S \in SUBSET (0..n), S # {}
    PROVE  Max(S) \in S /\ \A y \in S : Max(S) >= y
<1> DEFINE Above(x) == {y \in S : y > x}
           T == {Above(x) : x \in S}
<1>1. IsFiniteSet(0..n)
  BY FS_Interval
<1>2. T \subseteq SUBSET (0..n) /\ T # {}
  OBVIOUS
<1>3. IsWellFoundedOn(StrictSubsetOrdering(0..n), SUBSET (0..n))
  BY <1>1, FS_FiniteSubsetsOfFinite, FS_StrictSubsetOrderingWellFounded
<1>4. \E X \in T : \A Y \in T : ~(<<Y, X>> \in StrictSubsetOrdering(0..n))
  <2> HIDE DEF T
  <2> QED BY <1>2, <1>3, WFMin
<1>5. PICK x \in S : \A y \in S : ~(<<Above(y), Above(x)>> \in StrictSubsetOrdering(0..n))
  BY <1>4
<1>6. ASSUME NEW y \in S, y > x PROVE FALSE
  <2>1. Above(y) \subseteq Above(x) /\ y \in Above(x) /\ y \notin Above(y)
    <3>1. \A z \in S : z \in Nat
      OBVIOUS
    <3>2. \A z \in S : z > y => z > x
      BY <1>6, <3>1
    <3>3. ~(y > y)
      BY <3>1
    <3> QED BY <1>6, <3>2, <3>3
  <2>2. <<Above(y), Above(x)>> \in StrictSubsetOrdering(0..n)
    <3>1. Above(y) \in SUBSET (0..n) /\ Above(x) \in SUBSET (0..n)
      OBVIOUS
    <3> HIDE DEF Above
    <3> QED BY <2>1, <3>1 DEF StrictSubsetOrdering
  <2> QED BY <1>5, <2>2
<1>7. x \in S /\ \A y \in S : x >= y
  BY <1>6
<1> QED BY <1>7 DEF Max

LEMMA LargestIs ==
    ASSUME NEW n \in Nat, NEW S \in SUBSET (0..n), NEW v \in S, \A y \in S : y <= v
    PROVE  Max(S) = v
<1>1. PICK m : m = Max(S)
  OBVIOUS
<1>2. m \in S /\ m >= v /\ m <= v
  BY <1>1, LargestExists
<1>3. m \in 0..n /\ v \in 0..n
  BY <1>2
<1>4. m = v
  BY <1>2, <1>3
<1> QED BY <1>1, <1>4

-----------------------------------------------------------------------------
AnyLease == [revision : Nat, epoch : Nat]
AnyRecord == [revision : Nat, epoch : Nat, state : SUBSET Mutation]
AnyProcess ==
    [status : {"Down", "Acquiring", "Starting", "Serving", "Gone"}, fenced : BOOLEAN,
     revision : Nat, epoch : Nat, state : SUBSET Mutation,
     base : AnyLease, next : AnyRecord, tag : CallTag]
AnyCandidate == [hub : Hub, base : AnyLease, next : AnyRecord, tag : CallTag]

\* The newest name that survives a crash, and what a name holds.
Top == Max({0} \cup synced)
Held(s) == IF s = 0 THEN Empty ELSE files[s]

DirectoryTypes ==
    /\ hub \in [Hub -> AnyProcess]
    /\ files \in [Sequence -> AnyRecord]
    /\ synced \subseteq Present
    /\ step \in [Hub -> {"None", "Called", "Loaded", "Checked", "Linked", "Synced"}]
    /\ expected \in [Hub -> 0..MaxRevision]
    /\ landed \subseteq Hub
    /\ \A s \in Present : files[s].revision = s

Holding(h) == hub[h].status \in {"Starting", "Serving"}
Looking(h) == step[h] \in {"Loaded", "Checked"}
Named(h) == step[h] \in {"Linked", "Synced"}

\* A call in progress, and what its candidate is built on.
CallFits(h) ==
    /\ Calling(h) <=> step[h] # "None"
    /\ hub[h].status \in {"Down", "Gone"} => step[h] = "None"
    /\ hub[h].status = "Acquiring" => step[h] \notin {"None", "Called"}
    /\ Holding(h) /\ Calling(h) =>
          /\ hub[h].base = LeaseOf(hub[h]) /\ hub[h].next.epoch = hub[h].epoch
          /\ hub[h].next.revision = hub[h].revision + 1 /\ hub[h].state \subseteq hub[h].next.state
    /\ Calling(h) => hub[h].next.revision \in 1..MaxRevision
    /\ Looking(h) \/ Named(h) => hub[h].next.revision = expected[h] + 1

\* A running Hub is behind the directory or has what it holds.
RunsBehind(h) ==
    Holding(h) =>
        /\ hub[h].revision <= Latest /\ hub[h].epoch <= Current.epoch
        /\ hub[h].revision = Latest => hub[h].state = Current.state /\ hub[h].epoch = Current.epoch

\* Whoever may still link at the end built on the latest record; a name that was used
\* and pruned since is behind a synced one.
LooksAhead(h) ==
    Looking(h) =>
        /\ expected[h] <= Latest
        /\ expected[h] = Latest =>
              /\ hub[h].base = LeaseOf(Current) /\ Current.state \subseteq hub[h].next.state
              /\ hub[h].next.epoch >= Current.epoch
              /\ hub[h].status = "Acquiring" => hub[h].next.epoch = Current.epoch + 1
        /\ expected[h] < Latest => files[expected[h] + 1] # Empty \/ expected[h] + 1 < Top

\* What was linked at the end is the latest record until another follows.
LinkHolds(h) ==
    /\ Named(h) => /\ expected[h] + 1 <= Latest
                   /\ expected[h] + 1 = Latest => Current = hub[h].next /\ h \in landed
    /\ h \in landed => Named(h)
    /\ step[h] = "Synced" => expected[h] + 1 <= Top

HubFits(h) == CallFits(h) /\ RunsBehind(h) /\ LooksAhead(h) /\ LinkHolds(h)

\* Two Hubs never have the same epoch, nor are they about to.
HubsApart(h, k) ==
    /\ Holding(h) /\ Holding(k) => hub[h].epoch # hub[k].epoch
    /\ Named(h) /\ expected[h] + 1 = Latest =>
          /\ hub[h].status = "Acquiring" /\ Holding(k) => hub[k].epoch < hub[h].next.epoch
          /\ Named(k) => expected[k] # expected[h]

AckedHeld ==
    /\ acked \subseteq Held(Top).state
    /\ \A s \in Present : s > Top => acked \subseteq files[s].state

LocalIInv ==
    /\ DirectoryTypes /\ AckedHeld
    /\ \A h \in Hub : HubFits(h)
    /\ \A h, k \in Hub : h # k => HubsApart(h, k)

-----------------------------------------------------------------------------
(* The directory *)

LEMMA Bounds == MaxRevision \in Nat /\ MaxRevision > 0 /\ MaxRetained \in Nat /\ MaxRetained > 0
BY HubWriterConstants, LocalConstants

LEMMA RecordParts ==
    /\ Empty \in AnyRecord /\ Empty.revision = 0 /\ Empty.epoch = 0 /\ Empty.state = {}
    /\ \A r \in AnyRecord : /\ r.revision \in Nat /\ r.epoch \in Nat
                         /\ r.state \subseteq Mutation
                         /\ r = [revision |-> r.revision, epoch |-> r.epoch, state |-> r.state]
                         /\ LeaseOf(r) \in AnyLease
                         /\ LeaseOf(r).revision = r.revision /\ LeaseOf(r).epoch = r.epoch
BY DEF Empty, AnyRecord, LeaseOf, AnyLease

LEMMA DirectoryFacts ==
    ASSUME DirectoryTypes
    PROVE  /\ Latest \in 0..MaxRevision /\ Top \in 0..MaxRevision /\ Top <= Latest
           /\ Latest # 0 => Latest \in Present
           /\ Top # 0 => Top \in synced
           /\ \A s \in Present : s <= Latest
           /\ \A s \in synced : s <= Top
           /\ Present \subseteq Sequence /\ Sequence \subseteq 1..MaxRevision
           /\ Current = Held(Latest) /\ Current \in AnyRecord /\ Current.revision = Latest
<1>1. Present \subseteq Sequence /\ Sequence = 1..MaxRevision /\ synced \subseteq Present
  BY DEF Present, Sequence, DirectoryTypes
<1>2. {0} \cup Present \in SUBSET (0..MaxRevision) /\ {0} \cup synced \in SUBSET (0..MaxRevision)
  BY <1>1, Bounds
<1>3. /\ Latest \in {0} \cup Present /\ \A y \in {0} \cup Present : Latest >= y
  BY <1>2, Bounds, LargestExists DEF Latest
<1>4. /\ Top \in {0} \cup synced /\ \A y \in {0} \cup synced : Top >= y
  BY <1>2, Bounds, LargestExists DEF Top
<1>5. \A y \in {0} \cup Present : y \in Nat
  BY <1>2
<1>6. Current = Held(Latest)
  BY DEF Current, Held
<1>7. CASE Latest = 0
  BY <1>1, <1>3, <1>4, <1>5, <1>6, <1>7, Bounds, RecordParts DEF Current
<1>8. CASE Latest # 0
  <2>1. Latest \in Present /\ Current = files[Latest] /\ Current \in AnyRecord /\ Current.revision = Latest
    BY <1>1, <1>3, <1>8 DEF Current, DirectoryTypes
  <2> QED BY <1>1, <1>2, <1>3, <1>4, <1>5, <1>6, <2>1
<1> QED BY <1>7, <1>8

LEMMA SameDirectory ==
    ASSUME UNCHANGED fileVars
    PROVE  /\ Latest' = Latest /\ Current' = Current /\ Top' = Top /\ Present' = Present
           /\ \A s : Held(s)' = Held(s)
BY DEF fileVars, Latest, Current, Top, Present, Held

\* A link at the end makes a new latest record; one below it changes nothing else.
LEMMA LinkMoves ==
    ASSUME DirectoryTypes, NEW seq \in Sequence, NEW r \in AnyRecord, r.revision = seq,
           files[seq] = Empty, files' = [files EXCEPT ![seq] = r], synced' = synced
    PROVE  /\ files' \in [Sequence -> AnyRecord] /\ files'[seq] = r
           /\ \A s \in Sequence : s # seq => files'[s] = files[s]
           /\ Present' = Present \cup {seq} /\ Top' = Top
           /\ seq > Latest => Latest' = seq /\ Current' = r
           /\ seq <= Latest => Latest' = Latest /\ Current' = Current /\ seq < Latest
           /\ \A s \in Present' : files'[s].revision = s
<1>1. /\ files' \in [Sequence -> AnyRecord] /\ files'[seq] = r
      /\ \A s \in Sequence : s # seq => files'[s] = files[s]
  BY DEF DirectoryTypes
<1>2. Sequence = 1..MaxRevision /\ seq \in Nat /\ seq > 0 /\ r # Empty
  BY RecordParts, Bounds DEF Sequence
<1>3. Present' = Present \cup {seq} /\ seq \notin Present
  BY <1>1, <1>2 DEF Present
<1>4. \A s \in Present' : files'[s].revision = s
  BY <1>1, <1>3 DEF DirectoryTypes, Present
<1>5. Top' = Top
  BY DEF Top
<1>6. /\ Latest \in 0..MaxRevision /\ (Latest # 0 => Latest \in Present)
      /\ \A s \in Present : s <= Latest /\ s \in 1..MaxRevision
  BY <1>2, DirectoryFacts
<1>7. Latest' = Max({0} \cup (Present \cup {seq})) /\ Current' = IF Latest' = 0 THEN Empty ELSE files'[Latest']
  BY <1>3 DEF Latest, Current
<1>8. {0} \cup (Present \cup {seq}) \in SUBSET (0..MaxRevision)
  BY <1>2, <1>6, Bounds
<1>9. CASE seq > Latest
  <2>1. \A y \in {0} \cup (Present \cup {seq}) : y <= seq
    BY <1>2, <1>6, <1>9
  <2>2. Latest' = seq
    BY <1>7, <1>8, <2>1, Bounds, LargestIs
  <2> QED BY <1>1, <1>2, <1>3, <1>4, <1>5, <1>6, <1>7, <1>9, <2>2
<1>10. CASE seq <= Latest
  <2>1. \A y \in {0} \cup (Present \cup {seq}) : y <= Latest
    BY <1>2, <1>6, <1>10
  <2>2. Latest \in {0} \cup (Present \cup {seq}) /\ Latest # 0 /\ Latest # seq /\ Latest \in Sequence
    BY <1>2, <1>3, <1>6, <1>10
  <2>3. Latest' = Latest
    BY <1>7, <1>8, <2>1, <2>2, Bounds, LargestIs
  <2>4. Current' = Current
    BY <1>1, <1>7, <2>2, <2>3 DEF Current
  <2> QED BY <1>1, <1>2, <1>3, <1>4, <1>5, <1>6, <1>10, <2>2, <2>3, <2>4
<1> QED BY <1>2, <1>6, <1>9, <1>10

\* prune_old_checkpoints never takes the latest name.
LEMMA PruneKeepsLatest ==
    ASSUME DirectoryTypes, files' \in {files, Pruned}
    PROVE  /\ files' \in [Sequence -> AnyRecord]
           /\ \A s \in Sequence : files'[s] = Empty \/ files'[s] = files[s]
           /\ Latest # 0 => files'[Latest] = files[Latest]
<1>1. CASE files' = files
  BY <1>1 DEF DirectoryTypes
<1>2. CASE files' = Pruned
  <2>1. /\ files' \in [Sequence -> AnyRecord]
        /\ \A s \in Sequence : files'[s] = Empty \/ files'[s] = files[s]
    BY <1>2, RecordParts DEF Pruned, DirectoryTypes
  <2>2. ASSUME Latest # 0 PROVE files'[Latest] = files[Latest]
    <3>1. Latest \in Present /\ Latest \in Sequence /\ \A s \in Present : s <= Latest /\ s \in 1..MaxRevision
      BY <2>2, DirectoryFacts
    <3>2. {t \in Present : t >= Latest} = {Latest}
      BY <3>1
    <3>3. ~(Cardinality({t \in Present : t >= Latest}) > MaxRetained)
      <4>1. Cardinality({t \in Present : t >= Latest}) = 1
        BY <3>2, FS_Singleton
      <4> QED BY <4>1, Bounds
    <3> QED BY <1>2, <3>1, <3>3 DEF Pruned
  <2> QED BY <2>1, <2>2
<1> QED BY <1>1, <1>2

\* A directory in which names vanish, all that is left being synced.
LEMMA NamesVanish ==
    ASSUME DirectoryTypes, files' \in [Sequence -> AnyRecord],
           \A s \in Sequence : files'[s] = Empty \/ files'[s] = files[s],
           synced' = {s \in Sequence : files'[s] # Empty}
    PROVE  /\ Present' = synced' /\ Present' \subseteq Present /\ Top' = Latest'
           /\ \A s \in Present' : files'[s] = files[s] /\ files'[s].revision = s
           /\ Latest' \in 0..MaxRevision /\ Latest' <= Latest /\ (Latest' # 0 => Latest' \in Present')
           /\ \A s \in Present' : s <= Latest'
           /\ Current' = Held(Latest')
<1>1. Present' = synced' /\ Present' \subseteq Present /\ Top' = Latest'
  BY DEF Present, Top, Latest
<1>2. \A s \in Present' : files'[s] = files[s] /\ files'[s].revision = s
  BY <1>1 DEF Present, DirectoryTypes
<1>3. {0} \cup Present' \in SUBSET (0..MaxRevision)
  BY Bounds DEF Present, Sequence
<1>4. Latest' \in {0} \cup Present' /\ \A y \in {0} \cup Present' : Latest' >= y
  BY <1>3, Bounds, LargestExists DEF Latest
<1>5. Latest' \in 0..MaxRevision /\ Latest \in 0..MaxRevision /\ \A s \in Present : s <= Latest
  BY <1>3, <1>4, DirectoryFacts
<1>6. \A s \in Present' : s \in 0..MaxRevision
  BY <1>3
<1>7. Current' = Held(Latest')
  BY <1>2, <1>4 DEF Current, Held
<1> QED BY <1>1, <1>2, <1>4, <1>5, <1>6, <1>7

-----------------------------------------------------------------------------
(* The writer's side of a call *)

LEMMA HubParts ==
    ASSUME DirectoryTypes, NEW h \in Hub
    PROVE  /\ hub[h] \in AnyProcess
           /\ hub[h].status \in {"Down", "Acquiring", "Starting", "Serving", "Gone"}
           /\ hub[h].fenced \in BOOLEAN /\ hub[h].revision \in Nat
           /\ hub[h].epoch \in Nat /\ hub[h].state \subseteq Mutation
           /\ hub[h].base \in AnyLease /\ hub[h].next \in AnyRecord /\ hub[h].tag \in CallTag
           /\ step[h] \in {"None", "Called", "Loaded", "Checked", "Linked", "Synced"}
           /\ expected[h] \in 0..MaxRevision
<1>1. hub[h] \in AnyProcess
  BY DEF DirectoryTypes
<1>2. /\ hub[h].status \in {"Down", "Acquiring", "Starting", "Serving", "Gone"}
      /\ hub[h].fenced \in BOOLEAN /\ hub[h].revision \in Nat
      /\ hub[h].epoch \in Nat /\ hub[h].state \subseteq Mutation
      /\ hub[h].base \in AnyLease /\ hub[h].next \in AnyRecord /\ hub[h].tag \in CallTag
  BY <1>1 DEF AnyProcess
<1> QED BY <1>1, <1>2 DEF DirectoryTypes

LEMMA StillHubs ==
    /\ Down \in AnyProcess /\ Down.status = "Down" /\ Down.next = Empty
    /\ Gone \in AnyProcess /\ Gone.status = "Gone" /\ Gone.next = Empty
    /\ Gone # Down
<1>1. LeaseOf(Empty) \in AnyLease /\ Empty \in AnyRecord /\ 0 \in 0..MaxRevision
  BY RecordParts, Bounds
<1>2. Down \in AnyProcess /\ Down.status = "Down" /\ Down.next = Empty
  BY <1>1 DEF Down, AnyProcess, CallTag
<1>3. Gone \in AnyProcess /\ Gone.status = "Gone" /\ Gone.next = Empty
  BY <1>2 DEF Gone, AnyProcess
<1> QED BY <1>2, <1>3

LEMMA WriterAcquires ==
    ASSUME DirectoryTypes, NEW h \in Hub, NEW r \in AnyRecord, BeginAcquire(h, r)
    PROVE  /\ hub' \in [Hub -> AnyProcess] /\ \A k \in Hub \ {h} : hub'[k] = hub[k]
           /\ hub'[h].status = "Acquiring" /\ hub'[h].base = LeaseOf(r) /\ hub'[h].next # Empty
           /\ hub'[h].next.revision = r.revision + 1 /\ r.revision < MaxRevision
           /\ hub'[h].next.epoch = r.epoch + 1 /\ hub'[h].next.state = r.state
           /\ acked' = acked
<1>1. PICK n : n = AcquireRecord(r)
  OBVIOUS
<1>2. r.revision \in Nat /\ r.epoch \in Nat /\ r.state \subseteq Mutation /\ LeaseOf(r) \in AnyLease
  BY RecordParts
<1>3. /\ n \in AnyRecord /\ n.revision = r.revision + 1 /\ n.epoch = r.epoch + 1
      /\ n.state = r.state /\ n # Empty
  BY <1>1, <1>2, RecordParts DEF AcquireRecord, AnyRecord
<1>4. PICK p : p = [Down EXCEPT !.status = "Acquiring", !.base = LeaseOf(r), !.next = n]
  OBVIOUS
<1>5. p \in AnyProcess /\ p.status = "Acquiring" /\ p.base = LeaseOf(r) /\ p.next = n
  BY <1>2, <1>3, <1>4, StillHubs DEF AnyProcess
<1>6. hub' = [hub EXCEPT ![h] = p] /\ acked' = acked /\ r.revision < MaxRevision
  BY <1>1, <1>4 DEF BeginAcquire
<1> QED BY <1>3, <1>5, <1>6 DEF DirectoryTypes

LEMMA WriterPersists ==
    ASSUME DirectoryTypes, NEW h \in Hub, NEW ms, BeginPersist(h, ms, 0)
    PROVE  /\ hub' \in [Hub -> AnyProcess] /\ \A k \in Hub \ {h} : hub'[k] = hub[k]
           /\ hub'[h].status = hub[h].status /\ hub'[h].revision = hub[h].revision
           /\ hub'[h].epoch = hub[h].epoch /\ hub'[h].state = hub[h].state
           /\ hub'[h].base = LeaseOf(hub'[h]) /\ hub'[h].next # Empty
           /\ hub'[h].next.revision = hub[h].revision + 1 /\ hub[h].revision < MaxRevision
           /\ hub'[h].next.epoch = hub[h].epoch /\ hub[h].state \subseteq hub'[h].next.state
           /\ hub[h].status \in {"Starting", "Serving"} /\ ~Calling(h)
           /\ acked' = acked
<1>1. PICK n : n = [revision |-> hub[h].revision + 1, epoch |-> hub[h].epoch,
                    state |-> hub[h].state \cup ms]
  OBVIOUS
<1>2. ms \subseteq Mutation
  BY DEF BeginPersist, PersistChoices
<1>3. /\ n \in AnyRecord /\ n.revision = hub[h].revision + 1 /\ n.epoch = hub[h].epoch
      /\ n.state = hub[h].state \cup ms /\ n # Empty
  BY <1>1, <1>2, HubParts, RecordParts DEF AnyRecord
<1>4. PICK l : l = LeaseOf(hub[h])
  OBVIOUS
<1>5. l \in AnyLease
  BY <1>4, HubParts DEF LeaseOf, AnyLease
<1>6. PICK p : p = [hub[h] EXCEPT !.base = l, !.tag = 0, !.next = n]
  OBVIOUS
<1>7. /\ p \in AnyProcess /\ p.status = hub[h].status /\ p.revision = hub[h].revision
      /\ p.epoch = hub[h].epoch /\ p.state = hub[h].state /\ p.base = l /\ p.next = n
  <2>1. n \in AnyRecord /\ 0 \in CallTag /\ hub[h] \in AnyProcess
    BY <1>3, HubParts DEF CallTag
  <2> QED BY <1>5, <1>6, <2>1 DEF AnyProcess
<1>8. hub' = [hub EXCEPT ![h] = p]
  BY <1>1, <1>4, <1>6 DEF BeginPersist, DirectoryTypes
<1>9. l = LeaseOf(p)
  BY <1>4, <1>7 DEF LeaseOf
<1>10. hub'[h] = p /\ hub' \in [Hub -> AnyProcess] /\ \A k \in Hub \ {h} : hub'[k] = hub[k]
  BY <1>7, <1>8 DEF DirectoryTypes
<1> QED BY <1>3, <1>7, <1>9, <1>10 DEF BeginPersist

LEMMA WriterSucceeds ==
    ASSUME DirectoryTypes, NEW h \in Hub, FinishOk(h)
    PROVE  /\ hub' \in [Hub -> AnyProcess] /\ \A k \in Hub \ {h} : hub'[k] = hub[k]
           /\ hub'[h].status \in {"Starting", "Serving"} /\ hub'[h].next = Empty
           /\ hub'[h].revision = hub[h].next.revision /\ hub'[h].epoch = hub[h].next.epoch
           /\ hub'[h].state = hub[h].next.state
           /\ acked' \subseteq acked \cup hub[h].next.state
<1>1. PICK p : p = [status |-> IF hub[h].status = "Acquiring" THEN "Starting" ELSE "Serving",
                    fenced |-> hub[h].fenced, revision |-> hub[h].next.revision,
                    epoch |-> hub[h].next.epoch, state |-> hub[h].next.state,
                    base |-> LeaseOf(Empty), next |-> Empty, tag |-> 0]
  OBVIOUS
<1>2. /\ hub[h].next.revision \in Nat /\ hub[h].next.epoch \in Nat
      /\ hub[h].next.state \subseteq Mutation
  BY HubParts, RecordParts
<1>3. /\ p \in AnyProcess /\ p.status \in {"Starting", "Serving"} /\ p.next = Empty
      /\ p.revision = hub[h].next.revision /\ p.epoch = hub[h].next.epoch
      /\ p.state = hub[h].next.state
  BY <1>1, <1>2, HubParts, RecordParts DEF AnyProcess, CallTag
<1>4. hub' = [hub EXCEPT ![h] = p] /\ acked' \subseteq acked \cup hub[h].next.state
  BY <1>1 DEF FinishOk
<1> QED BY <1>3, <1>4 DEF DirectoryTypes

\* A Hub whose call failed, that overflowed or stopped is gone or goes on where it was.
LEMMA WriterFails ==
    ASSUME DirectoryTypes, NEW h \in Hub,
           (\E fences \in BOOLEAN : FinishError(h, fences)) \/ OverflowRevision(h) \/ StopHub(h)
    PROVE  /\ hub' \in [Hub -> AnyProcess] /\ \A k \in Hub \ {h} : hub'[k] = hub[k]
           /\ hub'[h].next = Empty
           /\ \/ hub'[h].status = "Gone"
              \/ /\ hub[h].status = "Serving" /\ hub'[h].status = "Serving"
                 /\ hub'[h].revision = hub[h].revision /\ hub'[h].epoch = hub[h].epoch
                 /\ hub'[h].state = hub[h].state
           /\ acked' = acked
<1>1. PICK p : /\ hub' = [hub EXCEPT ![h] = p] /\ p \in AnyProcess /\ p.next = Empty
               /\ \/ p.status = "Gone"
                  \/ /\ hub[h].status = "Serving" /\ p.status = "Serving"
                     /\ p.revision = hub[h].revision /\ p.epoch = hub[h].epoch
                     /\ p.state = hub[h].state
  <2>1. ASSUME NEW fences \in BOOLEAN, FinishError(h, fences)
        PROVE  \E p : /\ hub' = [hub EXCEPT ![h] = p] /\ p \in AnyProcess /\ p.next = Empty
                      /\ \/ p.status = "Gone"
                         \/ /\ hub[h].status = "Serving" /\ p.status = "Serving"
                            /\ p.revision = hub[h].revision /\ p.epoch = hub[h].epoch
                            /\ p.state = hub[h].state
    <3>1. PICK f \in BOOLEAN : f = (hub[h].fenced \/ fences)
      OBVIOUS
    <3>2. PICK p : p = [hub[h] EXCEPT !.fenced = f, !.base = LeaseOf(Empty), !.next = Empty, !.tag = 0]
      OBVIOUS
    <3>3. /\ p \in AnyProcess /\ p.next = Empty /\ p.status = hub[h].status
          /\ p.revision = hub[h].revision /\ p.epoch = hub[h].epoch /\ p.state = hub[h].state
      <4>1. LeaseOf(Empty) \in AnyLease /\ Empty \in AnyRecord /\ 0 \in CallTag /\ hub[h] \in AnyProcess
        BY HubParts, RecordParts DEF CallTag
      <4> QED BY <3>2, <4>1 DEF AnyProcess
    <3>4. hub' = [hub EXCEPT ![h] = IF hub[h].status = "Serving" THEN p ELSE Gone]
      BY <2>1, <3>1, <3>2 DEF FinishError
    <3> QED BY <3>3, <3>4, StillHubs
  <2>2. CASE OverflowRevision(h)
    <3>1. PICK p : p = [hub[h] EXCEPT !.fenced = TRUE]
      OBVIOUS
    <3>2. /\ p \in AnyProcess /\ p.next = hub[h].next /\ p.status = hub[h].status
          /\ p.revision = hub[h].revision /\ p.epoch = hub[h].epoch /\ p.state = hub[h].state
      BY <3>1, HubParts DEF AnyProcess
    <3>3. hub' = [hub EXCEPT ![h] = IF hub[h].status = "Serving" THEN p ELSE Gone]
      BY <2>2, <3>1 DEF OverflowRevision, DirectoryTypes
    <3> QED BY <2>2, <3>2, <3>3, StillHubs DEF OverflowRevision, Calling
  <2>3. CASE StopHub(h)
    BY <2>3, StillHubs DEF StopHub
  <2> QED BY <2>1, <2>2, <2>3
<1>2. acked' = acked
  BY DEF FinishError, OverflowRevision, StopHub
<1> QED BY <1>1, <1>2 DEF DirectoryTypes

-----------------------------------------------------------------------------
(* Steps of one Hub *)

\* The directory only moves on: a name goes only behind a synced one.
DirectoryMoves ==
    /\ Latest' \in Nat /\ Latest' >= Latest /\ Top' \in Nat /\ Top' >= Top
    /\ Latest' = Latest => Current' = Current
    /\ Current'.epoch \in Nat /\ Current'.epoch >= Current.epoch
    /\ \A s \in Sequence : s <= Latest' /\ (files[s] # Empty \/ s > Latest) => files'[s] # Empty \/ s < Top'

SameHub(k) ==
    /\ hub'[k] = hub[k] /\ step'[k] = step[k] /\ expected'[k] = expected[k]
    /\ k \in landed' <=> k \in landed

\* A Hub that neither started running nor made a link.
Quiet(k) ==
    /\ Holding(k)' => Holding(k) /\ hub'[k].epoch = hub[k].epoch
    /\ Named(k)' => /\ Named(k) /\ expected'[k] = expected[k]
                    /\ hub'[k].next = hub[k].next /\ hub'[k].status = hub[k].status

LEMMA FitNumbers ==
    ASSUME LocalIInv, NEW k \in Hub
    PROVE  /\ DirectoryTypes /\ HubFits(k)
           /\ expected[k] \in Nat /\ hub[k].revision \in Nat /\ hub[k].epoch \in Nat
           /\ hub[k].next.epoch \in Nat /\ hub[k].next.revision \in Nat
           /\ Latest \in Nat /\ Latest <= MaxRevision /\ Top \in Nat /\ Top <= Latest
           /\ Current.epoch \in Nat /\ Current \in AnyRecord /\ Current.revision = Latest
<1>1. DirectoryTypes /\ HubFits(k)
  BY DEF LocalIInv
<1>2. /\ expected[k] \in 0..MaxRevision /\ hub[k].revision \in Nat /\ hub[k].epoch \in Nat
      /\ hub[k].next \in AnyRecord
  BY <1>1, HubParts
<1>3. /\ Latest \in 0..MaxRevision /\ Top \in 0..MaxRevision /\ Top <= Latest
      /\ Current \in AnyRecord /\ Current.revision = Latest
  BY <1>1, DirectoryFacts
<1> QED BY <1>1, <1>2, <1>3, Bounds, RecordParts

LEMMA OthersFit ==
    ASSUME LocalIInv, DirectoryMoves, NEW k \in Hub, SameHub(k)
    PROVE  HubFits(k)' /\ Quiet(k)
<1>1. /\ HubFits(k) /\ expected[k] \in Nat /\ hub[k].revision \in Nat /\ hub[k].epoch \in Nat
      /\ Latest \in Nat /\ Top \in Nat /\ Current.epoch \in Nat /\ Latest <= MaxRevision
  BY FitNumbers
<1>2. Quiet(k)
  BY DEF Quiet, Holding, Named, SameHub
<1>3. CallFits(k)'
  BY <1>1 DEF HubFits, CallFits, SameHub, Calling, Holding, Looking, Named
<1>4. RunsBehind(k)'
  BY <1>1 DEF HubFits, RunsBehind, SameHub, Holding, DirectoryMoves
<1>5. LinkHolds(k)'
  BY <1>1 DEF HubFits, LinkHolds, SameHub, Named, DirectoryMoves
<1>6. LooksAhead(k)'
  <2> SUFFICES ASSUME Looking(k)'
               PROVE  LooksAhead(k)'
    BY DEF LooksAhead
  <2>1. Looking(k)
    BY DEF Looking, SameHub
  <2>2. /\ expected[k] <= Latest
        /\ expected[k] = Latest =>
              /\ hub[k].base = LeaseOf(Current) /\ Current.state \subseteq hub[k].next.state
              /\ hub[k].next.epoch >= Current.epoch
              /\ hub[k].status = "Acquiring" => hub[k].next.epoch = Current.epoch + 1
        /\ expected[k] < Latest => files[expected[k] + 1] # Empty \/ expected[k] + 1 < Top
    BY <1>1, <2>1 DEF HubFits, LooksAhead
  <2>3. expected'[k] <= Latest'
    BY <1>1, <2>2 DEF SameHub, DirectoryMoves
  <2>4. expected'[k] = Latest' => Latest' = Latest /\ Current' = Current
    BY <1>1, <2>2 DEF SameHub, DirectoryMoves
  <2>5. ASSUME expected'[k] < Latest'
        PROVE  files'[expected'[k] + 1] # Empty \/ expected'[k] + 1 < Top'
    <3>1. expected'[k] = expected[k] /\ expected[k] + 1 <= Latest'
      BY <1>1, <2>5 DEF SameHub, DirectoryMoves
    <3>2. CASE expected[k] < Latest /\ expected[k] + 1 < Top
      BY <1>1, <3>1, <3>2 DEF DirectoryMoves
    <3>3. CASE expected[k] < Latest /\ files[expected[k] + 1] # Empty
      <4>1. expected[k] + 1 \in Sequence
        BY <1>1, <3>3, Bounds DEF Sequence
      <4> QED BY <3>1, <3>3, <4>1 DEF DirectoryMoves
    <3>4. CASE expected[k] = Latest
      <4>1. CASE expected[k] + 1 \in Sequence
        BY <1>1, <3>1, <3>4, <4>1 DEF DirectoryMoves
      <4>2. expected[k] + 1 \in Sequence
        <5>1. hub[k].next.revision = expected[k] + 1 /\ hub[k].next.revision \in 1..MaxRevision
          BY <1>1, <2>1 DEF HubFits, CallFits, Looking
        <5> QED BY <5>1 DEF Sequence
      <4> QED BY <4>1, <4>2
    <3> QED BY <1>1, <2>2, <3>2, <3>3, <3>4
  <2> QED BY <2>2, <2>3, <2>4, <2>5 DEF LooksAhead, SameHub
<1> QED BY <1>2, <1>3, <1>4, <1>5, <1>6 DEF HubFits

LEMMA QuietApart ==
    ASSUME LocalIInv, DirectoryMoves, NEW j \in Hub, NEW k \in Hub, j # k, Quiet(j), Quiet(k)
    PROVE  HubsApart(j, k)'
<1>1. HubsApart(j, k)
  BY DEF LocalIInv
<1>2. HubFits(j) /\ expected[j] \in Nat /\ Latest \in Nat
  BY FitNumbers
<1>3. Holding(j)' /\ Holding(k)' => hub'[j].epoch # hub'[k].epoch
  BY <1>1 DEF HubsApart, Quiet
<1>4. Named(j)' /\ expected'[j] + 1 = Latest' => expected[j] + 1 = Latest
  BY <1>2 DEF HubFits, LinkHolds, Quiet, DirectoryMoves
<1> QED BY <1>1, <1>3, <1>4 DEF HubsApart, Quiet

\* A step of h after which everything about h is shown.
LEMMA HubStepFits ==
    ASSUME LocalIInv, NEW h \in Hub, DirectoryTypes', AckedHeld', DirectoryMoves,
           \A k \in Hub \ {h} : SameHub(k), HubFits(h)',
           Quiet(h) \/ \A k \in Hub \ {h} : HubsApart(h, k)' /\ HubsApart(k, h)'
    PROVE  LocalIInv'
<1>1. \A k \in Hub \ {h} : HubFits(k)' /\ Quiet(k)
  BY OthersFit
<1>2. ASSUME NEW j \in Hub, NEW k \in Hub, j # k PROVE HubsApart(j, k)'
  <2>1. CASE Quiet(h) \/ (j # h /\ k # h)
    BY <1>1, <1>2, <2>1, QuietApart
  <2>2. CASE ~Quiet(h)
    BY <1>1, <1>2, <2>2, QuietApart
  <2> QED BY <2>1, <2>2
<1> QED BY <1>1, <1>2 DEF LocalIInv

\* A step that leaves the directory alone.
LEMMA SameFits ==
    ASSUME LocalIInv, UNCHANGED fileVars
    PROVE  /\ DirectoryMoves /\ (acked' = acked => AckedHeld')
           /\ Latest' = Latest /\ Current' = Current /\ Top' = Top
           /\ files' = files /\ synced' = synced /\ Present' = Present
<1>1. /\ Latest' = Latest /\ Current' = Current /\ Top' = Top /\ Present' = Present
      /\ \A s : Held(s)' = Held(s)
  BY SameDirectory
<1>2. files' = files /\ synced' = synced
  BY DEF fileVars
<1>3. /\ Latest \in 0..MaxRevision /\ Top \in 0..MaxRevision /\ Current \in AnyRecord
      /\ \A s \in Present : s <= Latest
  BY DirectoryFacts DEF LocalIInv
<1>4. DirectoryMoves
  <2>1. \A s \in Sequence : s <= Latest /\ (files[s] # Empty \/ s > Latest) => files[s] # Empty
    BY <1>3 DEF Sequence
  <2> QED BY <1>1, <1>2, <1>3, <2>1, Bounds, RecordParts DEF DirectoryMoves
<1>5. acked' = acked => AckedHeld'
  BY <1>1, <1>2 DEF LocalIInv, AckedHeld
<1> QED BY <1>1, <1>2, <1>4, <1>5

LEMMA LocalStarts == LocalInit => LocalIInv
<1> SUFFICES ASSUME LocalInit PROVE LocalIInv
  OBVIOUS
<1>1. /\ hub = [h \in Hub |-> Down] /\ acked = {} /\ files = [s \in Sequence |-> Empty]
      /\ synced = {} /\ step = [h \in Hub |-> "None"] /\ expected = [h \in Hub |-> 0] /\ landed = {}
  BY DEF LocalInit, WriterInit
<1>2. Present = {} /\ DirectoryTypes
  BY <1>1, StillHubs, RecordParts, Bounds DEF DirectoryTypes, Present
<1>3. \A h \in Hub : hub[h].status = "Down" /\ hub[h].next = Empty /\ step[h] = "None" /\ h \notin landed
  BY <1>1, StillHubs
<1>4. \A h \in Hub : HubFits(h)
  BY <1>3 DEF HubFits, CallFits, RunsBehind, LooksAhead, LinkHolds, Holding, Looking, Named, Calling
<1>5. \A h, k \in Hub : HubsApart(h, k)
  BY <1>3 DEF HubsApart, Holding, Named
<1>6. AckedHeld
  BY <1>1, <1>2 DEF AckedHeld
<1> QED BY <1>2, <1>4, <1>5, <1>6 DEF LocalIInv

LEMMA AcquireKeeps ==
    ASSUME LocalIInv, NEW h \in Hub, LocalAcquire(h) PROVE LocalIInv'
<1>1. DirectoryTypes /\ Current \in AnyRecord /\ Current.revision = Latest /\ Latest \in Nat /\ Current.epoch \in Nat
  BY FitNumbers
<1>2. /\ BeginAcquire(h, Current) /\ hub[h].status = "Down"
      /\ step' = [step EXCEPT ![h] = "Loaded"] /\ expected' = [expected EXCEPT ![h] = Latest]
      /\ UNCHANGED fileVars /\ landed' = landed
  BY DEF LocalAcquire
<1>3. /\ hub' \in [Hub -> AnyProcess] /\ \A k \in Hub \ {h} : hub'[k] = hub[k]
      /\ hub'[h].status = "Acquiring" /\ hub'[h].base = LeaseOf(Current) /\ hub'[h].next # Empty
      /\ hub'[h].next.revision = Latest + 1 /\ Latest < MaxRevision
      /\ hub'[h].next.epoch = Current.epoch + 1 /\ hub'[h].next.state = Current.state
      /\ acked' = acked
  BY <1>1, <1>2, WriterAcquires
<1>4. /\ DirectoryMoves /\ AckedHeld' /\ Latest' = Latest /\ Current' = Current /\ Top' = Top
      /\ files' = files /\ synced' = synced /\ Present' = Present
  BY <1>2, <1>3, SameFits
<1>5. /\ step' \in [Hub -> {"None", "Called", "Loaded", "Checked", "Linked", "Synced"}]
      /\ expected' \in [Hub -> 0..MaxRevision] /\ step'[h] = "Loaded" /\ expected'[h] = Latest
      /\ \A k \in Hub \ {h} : step'[k] = step[k] /\ expected'[k] = expected[k]
  BY <1>1, <1>2, <1>3, Bounds DEF DirectoryTypes
<1>6. DirectoryTypes'
  BY <1>1, <1>2, <1>3, <1>4, <1>5 DEF DirectoryTypes
<1>7. \A k \in Hub \ {h} : SameHub(k)
  BY <1>2, <1>3, <1>5 DEF SameHub
<1>8. h \notin landed
  BY <1>2, FitNumbers DEF HubFits, CallFits, LinkHolds, Named
<1>9. HubFits(h)'
  <2>1. CallFits(h)'
    BY <1>1, <1>3, <1>5, Bounds DEF CallFits, Calling, Holding, Looking, Named
  <2>2. LooksAhead(h)'
    BY <1>1, <1>3, <1>4, <1>5 DEF LooksAhead
  <2> QED BY <1>2, <1>3, <1>5, <1>8, <2>1, <2>2 DEF HubFits, RunsBehind, LinkHolds, Holding, Named
<1>10. Quiet(h)
  BY <1>3, <1>5 DEF Quiet, Holding, Named
<1> QED BY <1>4, <1>6, <1>7, <1>9, <1>10, HubStepFits

LEMMA CommitKeeps ==
    ASSUME LocalIInv, NEW h \in Hub, NEW ms, LocalCommit(h, ms) PROVE LocalIInv'
<1>1. DirectoryTypes /\ HubFits(h) /\ hub[h].revision \in Nat
  BY FitNumbers
<1>2. /\ BeginPersist(h, ms, 0) /\ step' = [step EXCEPT ![h] = "Called"]
      /\ UNCHANGED fileVars /\ expected' = expected /\ landed' = landed
  BY DEF LocalCommit
<1>3. /\ hub' \in [Hub -> AnyProcess] /\ \A k \in Hub \ {h} : hub'[k] = hub[k]
      /\ hub'[h].status = hub[h].status /\ hub'[h].revision = hub[h].revision
      /\ hub'[h].epoch = hub[h].epoch /\ hub'[h].state = hub[h].state
      /\ hub'[h].base = LeaseOf(hub'[h]) /\ hub'[h].next # Empty
      /\ hub'[h].next.revision = hub[h].revision + 1 /\ hub[h].revision < MaxRevision
      /\ hub'[h].next.epoch = hub[h].epoch /\ hub[h].state \subseteq hub'[h].next.state
      /\ hub[h].status \in {"Starting", "Serving"} /\ ~Calling(h)
      /\ acked' = acked
  BY <1>1, <1>2, WriterPersists
<1>4. /\ DirectoryMoves /\ AckedHeld' /\ Latest' = Latest /\ Current' = Current /\ Top' = Top
      /\ files' = files /\ synced' = synced /\ Present' = Present
  BY <1>2, <1>3, SameFits
<1>5. /\ step' \in [Hub -> {"None", "Called", "Loaded", "Checked", "Linked", "Synced"}]
      /\ step'[h] = "Called" /\ \A k \in Hub \ {h} : step'[k] = step[k]
  BY <1>1, <1>2 DEF DirectoryTypes
<1>6. DirectoryTypes'
  BY <1>1, <1>2, <1>3, <1>4, <1>5 DEF DirectoryTypes
<1>7. \A k \in Hub \ {h} : SameHub(k)
  BY <1>2, <1>3, <1>5 DEF SameHub
<1>8. step[h] = "None" /\ h \notin landed
  BY <1>1, <1>3 DEF HubFits, CallFits, LinkHolds, Named
<1>9. HubFits(h)'
  <2>1. CallFits(h)'
    BY <1>1, <1>3, <1>5, Bounds DEF CallFits, Calling, Holding, Looking, Named
  <2>2. RunsBehind(h)'
    BY <1>1, <1>3, <1>4 DEF HubFits, RunsBehind, Holding
  <2> QED BY <1>2, <1>5, <1>8, <2>1, <2>2 DEF HubFits, LooksAhead, LinkHolds, Looking, Named
<1>10. Quiet(h)
  BY <1>3, <1>5 DEF Quiet, Holding, Named
<1> QED BY <1>4, <1>6, <1>7, <1>9, <1>10, HubStepFits

\* compare_and_commit found its lease: the record is the one the Hub has.
LEMMA LoadKeeps ==
    ASSUME LocalIInv, NEW h \in Hub, LoadMatching(h) \/ CheckLatest(h) PROVE LocalIInv'
<1>1. /\ DirectoryTypes /\ HubFits(h) /\ hub[h].revision \in Nat /\ hub[h].epoch \in Nat
      /\ Latest \in Nat /\ Latest <= MaxRevision /\ Current \in AnyRecord /\ Current.revision = Latest
      /\ Current.epoch \in Nat
  BY FitNumbers
<1>2. /\ UNCHANGED writerVars /\ UNCHANGED fileVars /\ landed' = landed /\ hub' = hub /\ acked' = acked
  BY DEF LoadMatching, CheckLatest, writerVars
<1>3. /\ DirectoryMoves /\ AckedHeld' /\ Latest' = Latest /\ Current' = Current /\ Top' = Top
      /\ files' = files /\ synced' = synced /\ Present' = Present
  BY <1>2, SameFits
<1>4. PICK s \in {"Loaded", "Checked"} : step' = [step EXCEPT ![h] = s]
  BY DEF LoadMatching, CheckLatest
<1>5. step[h] \in {"Called", "Loaded"} /\ expected' = [expected EXCEPT ![h] = Latest]
  BY <1>1 DEF LoadMatching, CheckLatest, DirectoryTypes
<1>6. /\ step' \in [Hub -> {"None", "Called", "Loaded", "Checked", "Linked", "Synced"}]
      /\ expected' \in [Hub -> 0..MaxRevision] /\ step'[h] = s /\ expected'[h] = Latest
      /\ \A k \in Hub \ {h} : step'[k] = step[k] /\ expected'[k] = expected[k]
  BY <1>1, <1>4, <1>5, Bounds DEF DirectoryTypes
<1>7. DirectoryTypes'
  BY <1>1, <1>2, <1>3, <1>6 DEF DirectoryTypes
<1>8. \A k \in Hub \ {h} : SameHub(k)
  BY <1>2, <1>6 DEF SameHub
<1>9. Calling(h) /\ h \notin landed
  BY <1>1, <1>5 DEF HubFits, CallFits, LinkHolds, Named
<1>10. /\ hub[h].next.revision = Latest + 1 /\ hub[h].base = LeaseOf(Current)
       /\ Current.state \subseteq hub[h].next.state /\ hub[h].next.epoch >= Current.epoch
       /\ hub[h].status = "Acquiring" => hub[h].next.epoch = Current.epoch + 1
  <2>1. CASE LoadMatching(h)
    <3>1. step[h] = "Called" /\ hub[h].base = LeaseOf(Current)
      BY <2>1 DEF LoadMatching
    <3>2. Holding(h) /\ hub[h].status # "Acquiring"
      BY <1>1, <3>1, HubParts DEF HubFits, CallFits, Holding
    <3>3. /\ hub[h].base = LeaseOf(hub[h]) /\ hub[h].next.epoch = hub[h].epoch
          /\ hub[h].next.revision = hub[h].revision + 1 /\ hub[h].state \subseteq hub[h].next.state
      BY <1>1, <1>9, <3>2 DEF HubFits, CallFits
    <3>4. hub[h].revision = Latest
      BY <1>1, <3>1, <3>3 DEF LeaseOf
    <3>5. hub[h].state = Current.state /\ hub[h].epoch = Current.epoch
      BY <1>1, <3>2, <3>4 DEF HubFits, RunsBehind
    <3> QED BY <1>1, <3>1, <3>2, <3>3, <3>4, <3>5
  <2>2. CASE CheckLatest(h)
    <3>1. Looking(h) /\ expected[h] = Latest
      BY <2>2 DEF CheckLatest, Looking
    <3> QED BY <1>1, <3>1 DEF HubFits, CallFits, LooksAhead
  <2> QED BY <2>1, <2>2
<1>11. HubFits(h)'
  <2>1. CallFits(h)'
    BY <1>1, <1>2, <1>6, <1>9, <1>10 DEF HubFits, CallFits, Calling, Holding, Looking, Named
  <2>2. RunsBehind(h)'
    BY <1>1, <1>2, <1>3 DEF HubFits, RunsBehind, Holding
  <2>3. LooksAhead(h)'
    BY <1>1, <1>2, <1>3, <1>6, <1>10 DEF LooksAhead
  <2> QED BY <1>2, <1>6, <1>9, <2>1, <2>2, <2>3 DEF HubFits, LinkHolds, Named
<1>12. Quiet(h)
  BY <1>2, <1>6 DEF Quiet, Holding, Named
<1> QED BY <1>3, <1>7, <1>8, <1>11, <1>12, HubStepFits

\* A call that failed, an overflow and a process that stops.
Ended(h) ==
    \/ LoadConflict(h) \/ LoadFails(h) \/ WriteFails(h) \/ ConditionalConflict(h) \/ SyncFails(h)
    \/ VerifyMismatch(h) \/ VerifyReadFails(h) \/ LocalOverflow(h) \/ LocalStop(h)

LEMMA EndFacts ==
    ASSUME LocalIInv, NEW h \in Hub, Ended(h)
    PROVE  /\ (\E fences \in BOOLEAN : FinishError(h, fences)) \/ OverflowRevision(h) \/ StopHub(h)
           /\ step' = [step EXCEPT ![h] = "None"] /\ landed' = landed \ {h}
           /\ expected' \in [Hub -> 0..MaxRevision]
           /\ \A k \in Hub \ {h} : expected'[k] = expected[k]
           /\ UNCHANGED fileVars
<1>1. DirectoryTypes /\ HubFits(h)
  BY FitNumbers
<1>2. 0 \in 0..MaxRevision
  BY Bounds
<1>3. ASSUME NEW fences \in BOOLEAN, Fails(h, fences)
      PROVE  /\ FinishError(h, fences) /\ UNCHANGED fileVars
             /\ step' = [step EXCEPT ![h] = "None"] /\ landed' = landed \ {h}
             /\ expected' = [expected EXCEPT ![h] = 0]
  BY <1>3 DEF Fails, CallOver
<1>4. CASE LocalOverflow(h)
  <2>1. OverflowRevision(h) /\ UNCHANGED fileVars /\ step' = step /\ expected' = expected /\ landed' = landed
    BY <1>4 DEF LocalOverflow
  <2>2. step[h] = "None" /\ h \notin landed
    BY <1>1, <2>1 DEF OverflowRevision, HubFits, CallFits, LinkHolds, Named
  <2> QED BY <1>1, <2>1, <2>2 DEF DirectoryTypes
<1>5. CASE LocalStop(h)
  BY <1>1, <1>2, <1>5 DEF LocalStop, CallOver, DirectoryTypes
<1>6. ASSUME NEW fences \in BOOLEAN, Fails(h, fences)
      PROVE  /\ (\E f \in BOOLEAN : FinishError(h, f)) /\ UNCHANGED fileVars
             /\ step' = [step EXCEPT ![h] = "None"] /\ landed' = landed \ {h}
             /\ expected' \in [Hub -> 0..MaxRevision]
             /\ \A k \in Hub \ {h} : expected'[k] = expected[k]
  BY <1>1, <1>2, <1>3, <1>6 DEF DirectoryTypes
<1>7. CASE ~LocalOverflow(h) /\ ~LocalStop(h)
  <2>1. PICK fences \in BOOLEAN : Fails(h, fences)
    BY <1>7 DEF Ended, LoadConflict, LoadFails, WriteFails, ConditionalConflict, SyncFails,
                VerifyMismatch, VerifyReadFails
  <2> QED BY <1>6, <2>1
<1> QED BY <1>4, <1>5, <1>7

LEMMA EndKeepsDirectory ==
    ASSUME LocalIInv, NEW h \in Hub, Ended(h) PROVE LocalIInv'
<1>1. DirectoryTypes /\ HubFits(h)
  BY FitNumbers
<1>2. /\ hub' \in [Hub -> AnyProcess] /\ \A k \in Hub \ {h} : hub'[k] = hub[k]
      /\ hub'[h].next = Empty
      /\ \/ hub'[h].status = "Gone"
         \/ /\ hub[h].status = "Serving" /\ hub'[h].status = "Serving"
            /\ hub'[h].revision = hub[h].revision /\ hub'[h].epoch = hub[h].epoch
            /\ hub'[h].state = hub[h].state
      /\ acked' = acked
  BY <1>1, EndFacts, WriterFails
<1>3. /\ step' \in [Hub -> {"None", "Called", "Loaded", "Checked", "Linked", "Synced"}]
      /\ step'[h] = "None" /\ \A k \in Hub \ {h} : step'[k] = step[k]
      /\ expected' \in [Hub -> 0..MaxRevision] /\ \A k \in Hub \ {h} : expected'[k] = expected[k]
      /\ landed' = landed \ {h}
  BY <1>1, EndFacts DEF DirectoryTypes
<1>4. /\ DirectoryMoves /\ AckedHeld' /\ Latest' = Latest /\ Current' = Current /\ Top' = Top
      /\ files' = files /\ synced' = synced /\ Present' = Present
  BY <1>2, EndFacts, SameFits
<1>5. DirectoryTypes'
  BY <1>1, <1>2, <1>3, <1>4 DEF DirectoryTypes
<1>6. \A k \in Hub \ {h} : SameHub(k)
  BY <1>2, <1>3 DEF SameHub
<1>7. HubFits(h)'
  <2>1. CallFits(h)'
    BY <1>2, <1>3 DEF CallFits, Calling, Holding, Looking, Named
  <2>2. RunsBehind(h)'
    BY <1>1, <1>2, <1>4 DEF HubFits, RunsBehind, Holding
  <2> QED BY <1>3, <2>1, <2>2 DEF HubFits, LooksAhead, LinkHolds, Looking, Named
<1>8. Quiet(h)
  BY <1>2, <1>3 DEF Quiet, Holding, Named
<1> QED BY <1>4, <1>5, <1>6, <1>7, <1>8, HubStepFits

LEMMA LinkFacts ==
    ASSUME LocalIInv, NEW h \in Hub, Link(h)
    PROVE  /\ expected[h] + 1 \in Sequence /\ hub[h].next \in AnyRecord
           /\ hub[h].next.revision = expected[h] + 1 /\ Calling(h) /\ h \notin landed
           /\ expected[h] <= Latest /\ expected[h] \in Nat
           /\ expected[h] < Latest => expected[h] + 1 < Top
           /\ expected[h] = Latest =>
                 /\ hub[h].base = LeaseOf(Current) /\ Current.state \subseteq hub[h].next.state
                 /\ hub[h].next.epoch >= Current.epoch
                 /\ hub[h].status = "Acquiring" => hub[h].next.epoch = Current.epoch + 1
<1>1. HubFits(h) /\ DirectoryTypes /\ expected[h] \in Nat
  BY FitNumbers
<1>2. step[h] = "Checked" /\ Looking(h) /\ files[expected[h] + 1] = Empty
  BY DEF Link, Looking
<1>3. /\ Calling(h) /\ hub[h].next.revision = expected[h] + 1 /\ h \notin landed
      /\ hub[h].next.revision \in 1..MaxRevision
  BY <1>1, <1>2 DEF HubFits, CallFits, LinkHolds, Named
<1> QED BY <1>1, <1>2, <1>3, HubParts DEF HubFits, LooksAhead, Sequence

\* hard_link: at the end a new record, below it a name nobody looks at.
LEMMA LinkKeeps ==
    ASSUME LocalIInv, NEW h \in Hub, Link(h) PROVE LocalIInv'
<1>1. /\ DirectoryTypes /\ HubFits(h) /\ Latest \in Nat /\ Top \in Nat /\ Top <= Latest
      /\ Current.epoch \in Nat /\ hub[h].next.epoch \in Nat /\ hub[h].revision \in Nat
      /\ hub[h].epoch \in Nat
  BY FitNumbers
<1>2. PICK seq : seq = expected[h] + 1
  OBVIOUS
<1>3. PICK r : r = hub[h].next
  OBVIOUS
<1>4. /\ seq \in Sequence /\ r \in AnyRecord /\ r.revision = seq /\ Calling(h) /\ h \notin landed
      /\ expected[h] <= Latest /\ expected[h] \in Nat /\ seq \in Nat
      /\ expected[h] < Latest => seq < Top
      /\ expected[h] = Latest =>
            /\ Current.state \subseteq r.state /\ r.epoch >= Current.epoch
            /\ hub[h].status = "Acquiring" => r.epoch = Current.epoch + 1
  BY <1>2, <1>3, LinkFacts
<1>5. /\ files[seq] = Empty /\ files' = [files EXCEPT ![seq] = r] /\ synced' = synced
      /\ step' = [step EXCEPT ![h] = "Linked"] /\ hub' = hub /\ acked' = acked /\ expected' = expected
      /\ landed' = IF seq > Latest THEN landed \cup {h} ELSE landed
  BY <1>2, <1>3 DEF Link, writerVars
<1>6. /\ files' \in [Sequence -> AnyRecord] /\ files'[seq] = r
      /\ \A s \in Sequence : s # seq => files'[s] = files[s]
      /\ Present' = Present \cup {seq} /\ Top' = Top
      /\ seq > Latest => Latest' = seq /\ Current' = r
      /\ seq <= Latest => Latest' = Latest /\ Current' = Current /\ seq < Latest
      /\ \A s \in Present' : files'[s].revision = s
  BY <1>1, <1>4, <1>5, LinkMoves
<1>7. (seq > Latest /\ expected[h] = Latest) \/ (seq <= Latest /\ seq < Top)
  BY <1>1, <1>2, <1>4
<1>8. r # Empty /\ r.epoch \in Nat
  BY <1>1, <1>3, <1>4 DEF Calling
<1>9. DirectoryMoves
  <2>1. \A s \in Sequence : files[s] # Empty => files'[s] # Empty
    BY <1>5, <1>6
  <2>2. \A s \in Sequence : s <= Latest' /\ s > Latest => s = seq
    BY <1>1, <1>2, <1>4, <1>6, <1>7, Bounds DEF Sequence
  <2>3. \A s \in Sequence : s <= Latest' /\ (files[s] # Empty \/ s > Latest) => files'[s] # Empty
    BY <1>6, <1>8, <2>1, <2>2
  <2> QED BY <1>1, <1>2, <1>4, <1>6, <1>7, <1>8, <2>3 DEF DirectoryMoves
<1>10. /\ step' \in [Hub -> {"None", "Called", "Loaded", "Checked", "Linked", "Synced"}]
       /\ step'[h] = "Linked" /\ \A k \in Hub \ {h} : step'[k] = step[k]
  BY <1>1, <1>5 DEF DirectoryTypes
<1>11. DirectoryTypes'
  <2>1. landed' \subseteq Hub /\ synced' \subseteq Present'
    BY <1>1, <1>5, <1>6 DEF DirectoryTypes
  <2> QED BY <1>1, <1>5, <1>6, <1>10, <2>1 DEF DirectoryTypes
<1>12. \A k \in Hub \ {h} : SameHub(k)
  BY <1>5, <1>10 DEF SameHub
<1>13. AckedHeld'
  <2>1. Held(Top)' = Held(Top)
    <3>1. Top # 0 => Top \in Present /\ Top \in Sequence /\ files[Top] # Empty
      BY <1>1, DirectoryFacts DEF DirectoryTypes, Present
    <3>2. Top # 0 => files'[Top] = files[Top]
      BY <1>5, <1>6, <3>1
    <3> QED BY <1>6, <3>2 DEF Held
  <2>2. ASSUME NEW s \in Present', s > Top PROVE acked \subseteq files'[s].state
    <3>1. CASE s # seq
      <4>1. s \in Present /\ s \in Sequence
        BY <1>6, <3>1 DEF Present
      <4> QED BY <1>6, <2>2, <3>1, <4>1 DEF LocalIInv, AckedHeld
    <3>2. CASE s = seq
      <4>1. expected[h] = Latest /\ files'[s] = r
        BY <1>1, <1>4, <1>6, <1>7, <2>2, <3>2
      <4>2. acked \subseteq Current.state
        <5>1. CASE Latest = Top
          BY <1>1, <5>1, DirectoryFacts DEF LocalIInv, AckedHeld
        <5>2. CASE Latest > Top
          <6>1. Latest \in Present /\ Current = files[Latest]
            BY <1>1, <5>2, DirectoryFacts DEF Held
          <6> QED BY <5>2, <6>1 DEF LocalIInv, AckedHeld
        <5> QED BY <1>1, <5>1, <5>2
      <4> QED BY <1>4, <4>1, <4>2
    <3> QED BY <3>1, <3>2
  <2> QED BY <1>5, <1>6, <2>1, <2>2, DirectoryFacts DEF AckedHeld, LocalIInv
<1>14. HubFits(h)'
  <2>1. CallFits(h)'
    BY <1>1, <1>2, <1>3, <1>4, <1>5, <1>10 DEF HubFits, CallFits, Calling, Holding, Looking, Named, Sequence
  <2>2. RunsBehind(h)'
    BY <1>1, <1>2, <1>4, <1>5, <1>6, <1>7, <1>8 DEF HubFits, RunsBehind, Holding
  <2>3. LinkHolds(h)'
    BY <1>1, <1>2, <1>3, <1>4, <1>5, <1>6, <1>7, <1>10 DEF LinkHolds, Named
  <2> QED BY <1>10, <2>1, <2>2, <2>3 DEF HubFits, LooksAhead, Looking
<1>15. ASSUME NEW k \in Hub \ {h} PROVE HubsApart(h, k)' /\ HubsApart(k, h)'
  <2>1. /\ HubFits(k) /\ expected[k] \in Nat /\ hub[k].epoch \in Nat
        /\ HubsApart(h, k) /\ HubsApart(k, h)
    BY <1>15, FitNumbers DEF LocalIInv
  <2>2. Holding(h)' = Holding(h) /\ Holding(k)' = Holding(k) /\ Named(k)' = Named(k)
    BY <1>5, <1>10, <1>15 DEF Holding, Named
  <2>3. CASE seq > Latest
    <3>1. Latest' = seq
      BY <1>6, <2>3
    <3>2. Named(k) => expected[k] + 1 <= Latest
      BY <2>1 DEF HubFits, LinkHolds
    <3>3. Holding(k) => hub[k].epoch <= Current.epoch
      BY <2>1 DEF HubFits, RunsBehind
    <3>4. Named(k) => expected[k] # expected[h] /\ expected[k] + 1 # Latest'
      BY <1>1, <1>2, <1>4, <2>1, <2>3, <3>1, <3>2
    <3>5. hub[h].status = "Acquiring" /\ Holding(k) => hub[k].epoch < r.epoch
      BY <1>1, <1>4, <1>7, <2>1, <2>3, <3>3
    <3> QED BY <1>3, <1>5, <2>1, <2>2, <3>4, <3>5 DEF HubsApart
  <2>4. CASE seq <= Latest
    <3>1. Latest' = Latest /\ expected[h] + 1 # Latest
      BY <1>2, <1>4, <1>6, <2>4
    <3>2. Named(k) /\ expected[k] + 1 = Latest => expected[h] # expected[k]
      BY <2>1, <3>1
    <3> QED BY <1>5, <2>1, <2>2, <3>1, <3>2 DEF HubsApart
  <2> QED BY <1>1, <1>4, <2>3, <2>4
<1> QED BY <1>9, <1>11, <1>12, <1>13, <1>14, <1>15, HubStepFits

LEMMA LatestHoldsAcked ==
    ASSUME LocalIInv
    PROVE  \A s \in {0} \cup Present : s >= Top => acked \subseteq Held(s).state
<1>1. /\ Top \in 0..MaxRevision /\ Present \subseteq Sequence /\ Sequence \subseteq 1..MaxRevision
  BY DirectoryFacts DEF LocalIInv
<1>2. \A s \in {0} \cup Present : s \in Nat
  BY <1>1
<1>3. AckedHeld
  BY DEF LocalIInv
<1>4. ASSUME NEW s \in {0} \cup Present, s >= Top PROVE acked \subseteq Held(s).state
  <2>1. CASE s = Top
    BY <1>3, <2>1 DEF AckedHeld
  <2>2. CASE s # Top
    <3>1. s > Top /\ s # 0 /\ s \in Present
      BY <1>1, <1>2, <1>4, <2>2
    <3> QED BY <1>3, <3>1 DEF AckedHeld, Held
  <2> QED BY <2>1, <2>2
<1> QED BY <1>4

\* sync_directory, after old names were pruned or not, leaves the latest record.
LEMMA SyncMoves ==
    ASSUME LocalIInv, NEW h \in Hub, SyncDirectory(h)
    PROVE  /\ files' \in [Sequence -> AnyRecord]
           /\ \A s \in Sequence : files'[s] = Empty \/ files'[s] = files[s]
           /\ Latest # 0 => files'[Latest] = files[Latest]
           /\ Present' = synced' /\ Present' \subseteq Present /\ Top' = Latest'
           /\ \A s \in Present' : files'[s] = files[s] /\ files'[s].revision = s
           /\ \A s \in Present' : s <= Latest'
           /\ Latest' = Latest /\ Current' = Current /\ Current' = Held(Latest')
<1>1. DirectoryTypes /\ Latest \in Nat
  BY FitNumbers
<1>2. files' \in {files, Pruned} /\ synced' = {s \in Sequence : files'[s] # Empty}
  BY DEF SyncDirectory
<1>3. /\ files' \in [Sequence -> AnyRecord]
      /\ \A s \in Sequence : files'[s] = Empty \/ files'[s] = files[s]
      /\ Latest # 0 => files'[Latest] = files[Latest]
  BY <1>1, <1>2, PruneKeepsLatest
<1>4. /\ Present' = synced' /\ Present' \subseteq Present /\ Top' = Latest'
      /\ \A s \in Present' : files'[s] = files[s] /\ files'[s].revision = s
      /\ Latest' \in 0..MaxRevision /\ Latest' <= Latest /\ (Latest' # 0 => Latest' \in Present')
      /\ \A s \in Present' : s <= Latest'
      /\ Current' = Held(Latest')
  BY <1>1, <1>2, <1>3, NamesVanish
<1>5. Latest' = Latest
  <2>1. CASE Latest = 0
    BY <1>4, <2>1
  <2>2. CASE Latest # 0
    <3>1. Latest \in Present /\ Latest \in Sequence /\ files[Latest] # Empty
      BY <1>1, <2>2, DirectoryFacts DEF Present
    <3>2. Latest \in Present'
      BY <1>3, <2>2, <3>1 DEF Present
    <3> QED BY <1>1, <1>4, <3>2
  <2> QED BY <2>1, <2>2
<1>6. Current' = Current
  BY <1>1, <1>4, <1>5, DirectoryFacts
<1> QED BY <1>3, <1>4, <1>5, <1>6

\* The latest record is safe once the directory is synced.
LEMMA SyncKeeps ==
    ASSUME LocalIInv, NEW h \in Hub, SyncDirectory(h) PROVE LocalIInv'
<1>1. /\ DirectoryTypes /\ HubFits(h) /\ Latest \in Nat /\ Top \in Nat /\ Top <= Latest
      /\ Current.epoch \in Nat /\ Latest <= MaxRevision /\ expected[h] \in Nat
  BY FitNumbers
<1>2. /\ step[h] = "Linked" /\ files' \in {files, Pruned}
      /\ synced' = {s \in Sequence : files'[s] # Empty} /\ step' = [step EXCEPT ![h] = "Synced"]
      /\ hub' = hub /\ acked' = acked /\ expected' = expected /\ landed' = landed
  BY DEF SyncDirectory, writerVars
<1>3. /\ files' \in [Sequence -> AnyRecord]
      /\ \A s \in Sequence : files'[s] = Empty \/ files'[s] = files[s]
      /\ Latest # 0 => files'[Latest] = files[Latest]
      /\ Present' = synced' /\ Present' \subseteq Present /\ Top' = Latest'
      /\ \A s \in Present' : files'[s] = files[s] /\ files'[s].revision = s
      /\ \A s \in Present' : s <= Latest'
      /\ Latest' = Latest /\ Current' = Current /\ Current' = Held(Latest')
  BY SyncMoves
<1>4. DirectoryMoves
  <2>1. ASSUME NEW s \in Sequence, s <= Latest', files[s] # Empty \/ s > Latest
        PROVE  files'[s] # Empty \/ s < Top'
    <3>1. s \in Nat /\ s > 0 /\ s <= Latest
      BY <1>3, <2>1, Bounds DEF Sequence
    <3>2. CASE s < Latest
      BY <1>3, <3>2
    <3>3. CASE s = Latest
      BY <1>1, <1>3, <2>1, <3>1, <3>3
    <3> QED BY <1>1, <3>1, <3>2, <3>3
  <2> QED BY <1>1, <1>3, <2>1 DEF DirectoryMoves
<1>5. /\ step' \in [Hub -> {"None", "Called", "Loaded", "Checked", "Linked", "Synced"}]
      /\ step'[h] = "Synced" /\ \A k \in Hub \ {h} : step'[k] = step[k]
  BY <1>1, <1>2 DEF DirectoryTypes
<1>6. DirectoryTypes'
  BY <1>1, <1>2, <1>3, <1>5 DEF DirectoryTypes
<1>7. \A k \in Hub \ {h} : SameHub(k)
  BY <1>2, <1>5 DEF SameHub
<1>8. AckedHeld'
  <2>1. acked \subseteq Current.state
    BY <1>1, LatestHoldsAcked, DirectoryFacts
  <2>2. Held(Top)' = Current'
    BY <1>3 DEF Held
  <2>3. \A s \in Present' : ~(s > Top')
    <3>1. Present' \subseteq Present /\ Present \subseteq 1..MaxRevision
      BY <1>1, <1>3, DirectoryFacts
    <3>2. \A s \in Present' : s \in Nat /\ s <= Top'
      BY <1>3, <3>1, Bounds
    <3> QED BY <1>1, <1>3, <3>2
  <2> QED BY <1>2, <1>3, <2>1, <2>2, <2>3 DEF AckedHeld
<1>9. HubFits(h)'
  <2>1. CallFits(h)'
    BY <1>1, <1>2, <1>5 DEF HubFits, CallFits, Calling, Holding, Looking, Named
  <2>2. RunsBehind(h)'
    BY <1>1, <1>2, <1>3 DEF HubFits, RunsBehind, Holding
  <2>3. LinkHolds(h)'
    BY <1>1, <1>2, <1>3, <1>5 DEF HubFits, LinkHolds, Named
  <2> QED BY <1>5, <2>1, <2>2, <2>3 DEF HubFits, LooksAhead, Looking
<1>10. Quiet(h)
  BY <1>2, <1>5 DEF Quiet, Holding, Named
<1> QED BY <1>4, <1>6, <1>7, <1>8, <1>9, <1>10, HubStepFits

\* Success: what was read back is synced and is the candidate.
LEMMA VerifyKeeps ==
    ASSUME LocalIInv, NEW h \in Hub, Verify(h) PROVE LocalIInv'
<1>1. /\ DirectoryTypes /\ HubFits(h) /\ Latest \in Nat /\ Top \in Nat /\ Top <= Latest
      /\ Current.epoch \in Nat /\ Current.revision = Latest /\ expected[h] \in Nat
  BY FitNumbers
<1>2. /\ step[h] = "Synced" /\ Latest = expected[h] + 1 /\ Current = hub[h].next /\ FinishOk(h)
      /\ step' = [step EXCEPT ![h] = "None"] /\ expected' = [expected EXCEPT ![h] = 0]
      /\ landed' = landed \ {h} /\ UNCHANGED fileVars
  BY DEF Verify, CallOver
<1>3. /\ hub' \in [Hub -> AnyProcess] /\ \A k \in Hub \ {h} : hub'[k] = hub[k]
      /\ hub'[h].status \in {"Starting", "Serving"} /\ hub'[h].next = Empty
      /\ hub'[h].revision = Current.revision /\ hub'[h].epoch = Current.epoch
      /\ hub'[h].state = Current.state /\ acked' \subseteq acked \cup Current.state
  BY <1>1, <1>2, WriterSucceeds
<1>4. /\ DirectoryMoves /\ Latest' = Latest /\ Current' = Current /\ Top' = Top
      /\ files' = files /\ synced' = synced /\ Present' = Present
  BY <1>2, SameFits
<1>5. /\ step' \in [Hub -> {"None", "Called", "Loaded", "Checked", "Linked", "Synced"}]
      /\ expected' \in [Hub -> 0..MaxRevision] /\ step'[h] = "None"
      /\ \A k \in Hub \ {h} : step'[k] = step[k] /\ expected'[k] = expected[k]
  BY <1>1, <1>2, Bounds DEF DirectoryTypes
<1>6. DirectoryTypes'
  BY <1>1, <1>2, <1>3, <1>4, <1>5 DEF DirectoryTypes
<1>7. \A k \in Hub \ {h} : SameHub(k)
  BY <1>2, <1>3, <1>5 DEF SameHub
<1>8. Top = Latest
  BY <1>1, <1>2 DEF HubFits, LinkHolds
<1>9. AckedHeld'
  <2>1. acked \subseteq Current.state
    BY <1>1, LatestHoldsAcked, DirectoryFacts
  <2>2. Held(Top)' = Current
    <3>1. Held(Top)' = Held(Top)
      BY <1>4 DEF Held
    <3> QED BY <1>1, <1>8, <3>1, DirectoryFacts
  <2>3. \A s \in Present' : ~(s > Top')
    <3>1. \A s \in Present : s <= Latest /\ s \in 1..MaxRevision
      BY <1>1, DirectoryFacts
    <3> QED BY <1>1, <1>4, <1>8, <3>1
  <2> QED BY <1>3, <2>1, <2>2, <2>3 DEF AckedHeld
<1>10. HubFits(h)'
  <2>1. CallFits(h)'
    BY <1>3, <1>5 DEF CallFits, Calling, Holding, Looking, Named
  <2>2. RunsBehind(h)'
    BY <1>1, <1>3, <1>4 DEF RunsBehind
  <2> QED BY <1>2, <1>5, <2>1, <2>2 DEF HubFits, LooksAhead, LinkHolds, Looking, Named
<1>11. ASSUME NEW k \in Hub \ {h} PROVE HubsApart(h, k)' /\ HubsApart(k, h)'
  <2>1. /\ HubFits(k) /\ HubFits(h) /\ expected[k] \in Nat /\ hub[k].epoch \in Nat
        /\ HubsApart(h, k) /\ HubsApart(k, h)
    BY <1>11, FitNumbers DEF LocalIInv
  <2>2. Holding(k)' = Holding(k) /\ Named(k)' = Named(k) /\ ~Named(h)' /\ Named(h)
    BY <1>2, <1>3, <1>5, <1>11 DEF Holding, Named
  <2>3. Named(k) => expected[k] # expected[h]
    BY <1>2, <2>1, <2>2 DEF HubsApart
  <2>4. Named(k) => expected[k] + 1 # Latest
    BY <1>1, <1>2, <2>1, <2>3
  <2>5. Holding(k) => hub[k].epoch # Current.epoch
    <3>1. CASE hub[h].status = "Acquiring"
      <4>1. Holding(k) => hub[k].epoch < Current.epoch
        BY <1>2, <2>1, <2>2, <3>1 DEF HubsApart
      <4> QED BY <1>1, <2>1, <4>1
    <3>2. CASE Holding(h)
      <4>1. hub[h].epoch = Current.epoch
        BY <1>2, <2>1, <3>2 DEF HubFits, CallFits
      <4> QED BY <2>1, <3>2, <4>1 DEF HubsApart
    <3>3. hub[h].status = "Acquiring" \/ Holding(h)
      BY <1>1, <1>2, HubParts DEF HubFits, CallFits, Holding
    <3> QED BY <3>1, <3>2, <3>3
  <2> QED BY <1>3, <1>4, <1>5, <1>11, <2>2, <2>4, <2>5 DEF HubsApart
<1> QED BY <1>4, <1>6, <1>7, <1>9, <1>10, <1>11, HubStepFits

\* A machine crash: no process is left, and every synced name is.
LEMMA CrashKeeps ==
    ASSUME LocalIInv, MachineCrash PROVE LocalIInv'
<1>1. DirectoryTypes /\ Top \in 0..MaxRevision /\ (Top # 0 => Top \in synced) /\ synced \subseteq Present
  BY DirectoryFacts DEF LocalIInv, DirectoryTypes
<1>2. PICK lost \in SUBSET (Present \ synced) :
         files' = [s \in Sequence |-> IF s \in lost THEN Empty ELSE files[s]]
  BY DEF MachineCrash
<1>3. /\ hub' = [h \in Hub |-> IF hub[h].status = "Down" THEN Down ELSE Gone]
      /\ step' = [h \in Hub |-> "None"] /\ expected' = [h \in Hub |-> 0] /\ landed' = {}
      /\ synced' = {s \in Sequence : files'[s] # Empty} /\ acked' = acked
  BY DEF MachineCrash
<1>4. /\ files' \in [Sequence -> AnyRecord]
      /\ \A s \in Sequence : files'[s] = Empty \/ files'[s] = files[s]
      /\ \A s \in synced : files'[s] = files[s]
  BY <1>1, <1>2, RecordParts DEF DirectoryTypes, Present
<1>5. /\ Present' = synced' /\ Present' \subseteq Present /\ Top' = Latest'
      /\ \A s \in Present' : files'[s] = files[s] /\ files'[s].revision = s
      /\ Latest' \in 0..MaxRevision /\ (Latest' # 0 => Latest' \in Present')
      /\ \A s \in Present' : s <= Latest'
      /\ Current' = Held(Latest')
  BY <1>1, <1>3, <1>4, NamesVanish
<1>6. /\ hub' \in [Hub -> AnyProcess]
      /\ \A h \in Hub : hub'[h].status \in {"Down", "Gone"} /\ hub'[h].next = Empty
  BY <1>3, StillHubs
<1>7. DirectoryTypes'
  BY <1>3, <1>4, <1>5, <1>6, Bounds DEF DirectoryTypes
<1>8. \A h \in Hub : HubFits(h)'
  BY <1>3, <1>6 DEF HubFits, CallFits, RunsBehind, LooksAhead, LinkHolds, Holding, Looking, Named, Calling
<1>9. \A h, k \in Hub : HubsApart(h, k)'
  BY <1>3, <1>6 DEF HubsApart, Holding, Named
<1>10. AckedHeld'
  <2>1. Latest' >= Top
    <3>1. CASE Top = 0
      BY <1>5, <3>1
    <3>2. CASE Top # 0
      <4>1. Top \in Present'
        BY <1>1, <1>4, <3>2 DEF Present
      <4> QED BY <1>1, <1>5, <4>1
    <3> QED BY <3>1, <3>2
  <2>2. acked \subseteq Held(Latest').state
    <3>1. Latest' \in {0} \cup Present
      BY <1>5
    <3> QED BY <2>1, <3>1, LatestHoldsAcked
  <2>3. Held(Top)' = Held(Latest')
    BY <1>5 DEF Held
  <2>4. \A s \in Present' : ~(s > Top')
    <3>1. Present' \subseteq 1..MaxRevision
      BY <1>1, <1>5, DirectoryFacts
    <3> QED BY <1>5, <3>1
  <2> QED BY <1>3, <2>2, <2>3, <2>4 DEF AckedHeld
<1> QED BY <1>7, <1>8, <1>9, <1>10 DEF LocalIInv

LEMMA LocalKeeps == LocalIInv /\ [LocalNext]_localVars => LocalIInv'
<1> SUFFICES ASSUME LocalIInv, [LocalNext]_localVars PROVE LocalIInv'
  OBVIOUS
<1>1. CASE LocalNext
  BY <1>1, AcquireKeeps, CommitKeeps, LoadKeeps, EndKeepsDirectory, LinkKeeps, SyncKeeps,
     VerifyKeeps, CrashKeeps DEF LocalNext, LocalStep, Ended
<1>2. CASE UNCHANGED localVars
  <2>1. /\ UNCHANGED fileVars /\ hub' = hub /\ step' = step /\ expected' = expected
        /\ landed' = landed /\ acked' = acked
    BY <1>2 DEF localVars, writerVars, fileVars
  <2>2. /\ DirectoryMoves /\ AckedHeld' /\ Latest' = Latest /\ Current' = Current /\ Top' = Top
        /\ files' = files /\ synced' = synced /\ Present' = Present
    BY <2>1, SameFits
  <2>3. \A h \in Hub : SameHub(h)
    BY <2>1 DEF SameHub
  <2>4. DirectoryTypes'
    BY <2>1, <2>2 DEF LocalIInv, DirectoryTypes
  <2> QED BY <2>2, <2>3, <2>4, OthersFit, QuietApart DEF LocalIInv
<1> QED BY <1>1, <1>2

\* The inductive invariant of the directory.
THEOREM DirectoryInvariant == LocalSpec => []LocalIInv
BY LocalStarts, LocalKeeps, PTL DEF LocalSpec

(* Whatever reads fail, syncs fail and machines crash, what a Hub was told is *)
(* committed is in the latest checkpoint and two Hubs never have one epoch,  *)
(* for any number of Hubs, revisions and retained checkpoints.             *)
THEOREM LocalIsCrashSafe == LocalSpec => []LocalCrashSafe
<1>1. LocalIInv => LocalCrashSafe
  <2> SUFFICES ASSUME LocalIInv PROVE LocalCrashSafe
    OBVIOUS
  <2>1. AckedSurviveCrash
    <3>1. /\ Latest \in {0} \cup Present /\ Latest >= Top /\ Current = Held(Latest)
      BY DirectoryFacts DEF LocalIInv
    <3> QED BY <3>1, LatestHoldsAcked DEF AckedSurviveCrash
  <2>2. OneLocalWriterPerEpoch
    BY DEF OneLocalWriterPerEpoch, LocalContract!OneWriterPerEpoch, LocalIInv, HubsApart, Holding
  <2> QED BY <2>1, <2>2 DEF LocalCrashSafe
<1> QED BY <1>1, DirectoryInvariant, PTL

-----------------------------------------------------------------------------
(* The contract *)

LEMMA PendingFacts ==
    ASSUME LocalIInv, NEW h \in Hub
    PROVE  /\ \A k \in Hub : CandidateOf(k) = CandidateOf(h) => k = h
           /\ CandidateOf(h).hub = h /\ CandidateOf(h).base = hub[h].base
           /\ CandidateOf(h).next = hub[h].next
           /\ CandidateOf(h) \in Pending <=> h \in Unlanded
           /\ Pending \ {CandidateOf(h)} = {CandidateOf(k) : k \in Unlanded \ {h}}
<1>1. \A k \in Hub : CandidateOf(k).hub = k
  BY DEF CandidateOf
<1>2. /\ CandidateOf(h).base = hub[h].base /\ CandidateOf(h).next = hub[h].next
  BY DEF CandidateOf
<1>3. Unlanded \subseteq Hub
  BY DEF Unlanded
<1>4. \A k \in Hub : CandidateOf(k) = CandidateOf(h) => k = h
  BY <1>1
<1> HIDE DEF CandidateOf
<1> QED BY <1>1, <1>2, <1>3, <1>4 DEF Pending

\* What is pending after a step of h.
LEMMA PendingAfter ==
    ASSUME LocalIInv, NEW h \in Hub, \A k \in Hub \ {h} : hub'[k] = hub[k] /\ (k \in landed' <=> k \in landed)
    PROVE  /\ h \notin Unlanded' => Pending' = Pending \ {CandidateOf(h)}
           /\ h \in Unlanded' => Pending' = (Pending \ {CandidateOf(h)}) \cup {CandidateOf(h)'}
           /\ h \notin Unlanded => Pending \ {CandidateOf(h)} = Pending
<1>1. \A k \in Hub \ {h} : CandidateOf(k)' = CandidateOf(k)
  BY DEF CandidateOf
<1>2. Unlanded' \ {h} = Unlanded \ {h} /\ Unlanded \subseteq Hub /\ Unlanded' \subseteq Hub
  BY DEF Unlanded, Calling
<1>3. Pending' = {CandidateOf(k)' : k \in Unlanded'}
  BY DEF Pending
<1>4. {CandidateOf(k)' : k \in Unlanded' \ {h}} = {CandidateOf(k) : k \in Unlanded \ {h}}
  BY <1>1, <1>2
<1>5. Pending \ {CandidateOf(h)} = {CandidateOf(k) : k \in Unlanded \ {h}}
      /\ (CandidateOf(h) \in Pending <=> h \in Unlanded)
  BY PendingFacts
<1> HIDE DEF CandidateOf, Unlanded, Pending
<1>6. h \notin Unlanded' => Unlanded' \ {h} = Unlanded'
  OBVIOUS
<1>7. h \in Unlanded' => {CandidateOf(k)' : k \in Unlanded'} =
         {CandidateOf(k)' : k \in Unlanded' \ {h}} \cup {CandidateOf(h)'}
  OBVIOUS
<1> QED BY <1>3, <1>4, <1>5, <1>6, <1>7

LEMMA LocalSameWriter ==
    ASSUME NEW h \in Hub
    PROVE  /\ LocalContract!CandidateOf(h) = CandidateOf(h)
           /\ LocalContract!CandidateOf(h)' = CandidateOf(h)'
           /\ LocalContract!Calling(h) <=> Calling(h)
           /\ LocalContract!PersistChoices(h) = PersistChoices(h)
           /\ \A r : LocalContract!LeaseOf(r) = LeaseOf(r)
           /\ \A r : BeginAcquire(h, r) => LocalContract!BeginAcquire(h, r)
           /\ FinishOk(h) => LocalContract!FinishOk(h)
           /\ OverflowRevision(h) => LocalContract!OverflowRevision(h)
           /\ StopHub(h) => LocalContract!StopHub(h)
<1>1. /\ LocalContract!CandidateOf(h) = CandidateOf(h)
      /\ LocalContract!CandidateOf(h)' = CandidateOf(h)'
  BY DEF CandidateOf, LocalContract!CandidateOf
<1>2. LocalContract!Calling(h) <=> Calling(h)
  BY DEF Calling, LocalContract!Calling, Empty, LocalContract!Empty
<1>3. \A r : LocalContract!LeaseOf(r) = LeaseOf(r)
  BY DEF LeaseOf, LocalContract!LeaseOf
<1>4. LocalContract!PersistChoices(h) = PersistChoices(h)
  BY DEF PersistChoices, LocalContract!PersistChoices
<1>5. \A r : BeginAcquire(h, r) => LocalContract!BeginAcquire(h, r)
  BY DEF BeginAcquire, LocalContract!BeginAcquire, Down, LocalContract!Down, LeaseOf,
         LocalContract!LeaseOf, Empty, LocalContract!Empty, AcquireRecord,
         LocalContract!AcquireRecord
<1>6. FinishOk(h) => LocalContract!FinishOk(h)
  BY DEF FinishOk, LocalContract!FinishOk, LeaseOf, LocalContract!LeaseOf, Empty, LocalContract!Empty
<1>7. OverflowRevision(h) => LocalContract!OverflowRevision(h)
  BY <1>2 DEF OverflowRevision, LocalContract!OverflowRevision, Gone, LocalContract!Gone,
         Down, LocalContract!Down, LeaseOf, LocalContract!LeaseOf, Empty, LocalContract!Empty
<1>8. StopHub(h) => LocalContract!StopHub(h)
  BY DEF StopHub, LocalContract!StopHub, Gone, LocalContract!Gone,
         Down, LocalContract!Down, LeaseOf, LocalContract!LeaseOf, Empty, LocalContract!Empty
<1> QED BY <1>1, <1>2, <1>3, <1>4, <1>5, <1>6, <1>7, <1>8

LEMMA LocalSameError ==
    ASSUME NEW h \in Hub, NEW fences \in BOOLEAN, FinishError(h, fences)
    PROVE  LocalContract!FinishError(h, fences)
BY DEF FinishError, LocalContract!FinishError, Gone, LocalContract!Gone, Down, LocalContract!Down,
       LeaseOf, LocalContract!LeaseOf, Empty, LocalContract!Empty

LEMMA LocalSamePersist ==
    ASSUME NEW h \in Hub, NEW ms, BeginPersist(h, ms, 0)
    PROVE  LocalContract!BeginPersist(h, ms, 0)
BY LocalSameWriter DEF BeginPersist, LocalContract!BeginPersist, LeaseOf, LocalContract!LeaseOf

ContractStep == UNCHANGED LocalContract!storeVars \/ LocalContract!StoreNext

\* load_current and acquire_writer.
LEMMA LocalAcquireImplements ==
    ASSUME LocalIInv, NEW h \in Hub, LocalAcquire(h) PROVE ContractStep
<1>1. /\ BeginAcquire(h, Current) /\ hub[h].status = "Down" /\ UNCHANGED fileVars /\ landed' = landed
  BY DEF LocalAcquire
<1>2. DirectoryTypes /\ Current \in AnyRecord /\ Current' = Current
  BY <1>1, FitNumbers, SameDirectory
<1>3. hub'[h].next # Empty /\ \A k \in Hub \ {h} : hub'[k] = hub[k]
  BY <1>1, <1>2, WriterAcquires
<1>4. step[h] = "None" /\ ~Calling(h) /\ h \notin landed
  BY <1>1, FitNumbers DEF HubFits, CallFits, LinkHolds, Named
<1>5. h \notin Unlanded /\ h \in Unlanded'
  BY <1>1, <1>3, <1>4 DEF Unlanded, Calling
<1>6. Pending' = Pending \cup {CandidateOf(h)'}
  BY <1>1, <1>3, <1>5, PendingAfter
<1>7. LocalContract!CallAcquire(h)
  BY <1>1, <1>2, <1>6, LocalSameWriter DEF LocalContract!CallAcquire
<1> QED BY <1>7 DEF ContractStep, LocalContract!StoreNext

LEMMA LocalCommitImplements ==
    ASSUME LocalIInv, NEW h \in Hub, NEW ms \in PersistChoices(h), LocalCommit(h, ms) PROVE ContractStep
<1>1. BeginPersist(h, ms, 0) /\ UNCHANGED fileVars /\ landed' = landed
  BY DEF LocalCommit
<1>2. DirectoryTypes /\ Current' = Current
  BY <1>1, FitNumbers, SameDirectory
<1>3. hub'[h].next # Empty /\ ~Calling(h) /\ \A k \in Hub \ {h} : hub'[k] = hub[k]
  BY <1>1, <1>2, WriterPersists
<1>4. step[h] = "None" /\ h \notin landed
  BY <1>3, FitNumbers DEF HubFits, CallFits, LinkHolds, Named
<1>5. h \notin Unlanded /\ h \in Unlanded'
  BY <1>1, <1>3, <1>4 DEF Unlanded, Calling
<1>6. Pending' = Pending \cup {CandidateOf(h)'}
  BY <1>1, <1>3, <1>5, PendingAfter
<1>7. \A c \in Pending : c.hub # h
  BY <1>5, PendingFacts DEF Pending, Unlanded
<1>8. LocalContract!CallCommit(h, ms, 0)
  BY <1>1, <1>2, <1>6, <1>7, LocalSameWriter, LocalSamePersist DEF LocalContract!CallCommit
<1>9. 0 \in LocalContract!CallTag /\ ms \in LocalContract!PersistChoices(h)
  BY LocalSameWriter DEF LocalContract!CallTag
<1> QED BY <1>8, <1>9 DEF ContractStep, LocalContract!StoreNext

\* Looking at the directory and syncing it are not seen from outside.
LEMMA LocalLooksImplement ==
    ASSUME LocalIInv, LocalIInv', NEW h \in Hub, LoadMatching(h) \/ CheckLatest(h) \/ SyncDirectory(h)
    PROVE  ContractStep
<1>1. UNCHANGED writerVars /\ landed' = landed /\ hub' = hub
  BY DEF LoadMatching, CheckLatest, SyncDirectory, writerVars
<1>2. Current' = Current
  <2>1. CASE LoadMatching(h) \/ CheckLatest(h)
    BY <2>1, SameDirectory DEF LoadMatching, CheckLatest
  <2>2. CASE SyncDirectory(h)
    BY <2>2, SyncMoves
  <2> QED BY <2>1, <2>2
<1>3. Pending' = Pending
  BY <1>1 DEF Pending, Unlanded, CandidateOf, Calling
<1> QED BY <1>1, <1>2, <1>3 DEF ContractStep, LocalContract!storeVars, LocalContract!writerVars, writerVars

\* The link is the compare-and-commit point when it is made at the end.
LEMMA LocalLinkImplements ==
    ASSUME LocalIInv, NEW h \in Hub, Link(h) PROVE ContractStep
<1>1. PICK seq : seq = expected[h] + 1
  OBVIOUS
<1>2. PICK r : r = hub[h].next
  OBVIOUS
<1>3. /\ seq \in Sequence /\ r \in AnyRecord /\ r.revision = seq /\ Calling(h) /\ h \notin landed
      /\ expected[h] <= Latest /\ expected[h] \in Nat
      /\ expected[h] = Latest => hub[h].base = LeaseOf(Current)
  BY <1>1, <1>2, LinkFacts
<1>4. DirectoryTypes /\ Latest \in Nat
  BY FitNumbers
<1>5. /\ files[seq] = Empty /\ files' = [files EXCEPT ![seq] = r] /\ synced' = synced
      /\ UNCHANGED writerVars /\ hub' = hub
      /\ landed' = IF seq > Latest THEN landed \cup {h} ELSE landed
  BY <1>1, <1>2 DEF Link, writerVars
<1>6. /\ seq > Latest => Current' = r
      /\ seq <= Latest => Current' = Current
  BY <1>3, <1>4, <1>5, LinkMoves
<1>7. CASE seq > Latest
  <2>1. expected[h] = Latest
    BY <1>1, <1>3, <1>4, <1>7
  <2>2. h \in Unlanded /\ h \notin Unlanded'
    BY <1>3, <1>5, <1>7 DEF Unlanded
  <2>3. Pending' = Pending \ {CandidateOf(h)}
    BY <1>5, <1>7, <2>2, PendingAfter
  <2>4. CandidateOf(h) \in Pending /\ CandidateOf(h).base = LeaseOf(Current) /\ CandidateOf(h).next = r
    BY <1>2, <1>3, <2>1, <2>2, PendingFacts
  <2>5. LocalContract!Publish(CandidateOf(h))
    BY <1>5, <1>6, <1>7, <2>3, <2>4, LocalSameWriter DEF LocalContract!Publish, LocalContract!writerVars, writerVars
  <2> QED BY <2>4, <2>5 DEF ContractStep, LocalContract!StoreNext
<1>8. CASE seq <= Latest
  <2>1. landed' = landed
    BY <1>1, <1>3, <1>4, <1>5, <1>8
  <2>2. Pending' = Pending
    BY <1>5, <2>1 DEF Pending, Unlanded, CandidateOf, Calling
  <2> QED BY <1>5, <1>6, <1>8, <2>2 DEF ContractStep, LocalContract!storeVars, LocalContract!writerVars, writerVars
<1> QED BY <1>1, <1>3, <1>4, <1>7, <1>8

\* A failure that does not fence comes before the link; the others may come after it.
LEMMA LocalFailureImplements ==
    ASSUME LocalIInv, NEW h \in Hub, NEW fences \in BOOLEAN, Fails(h, fences), step[h] # "None",
           fences \/ step[h] \in {"Loaded", "Checked"}
    PROVE  ContractStep
<1>1. FinishError(h, fences) /\ UNCHANGED fileVars /\ landed' = landed \ {h}
  BY DEF Fails, CallOver
<1>2. DirectoryTypes /\ Current' = Current /\ Calling(h)
  BY <1>1, FitNumbers, SameDirectory DEF HubFits, CallFits
<1>3. hub'[h].next = Empty /\ \A k \in Hub \ {h} : hub'[k] = hub[k]
  BY <1>1, <1>2, WriterFails
<1>4. h \notin Unlanded'
  BY <1>3 DEF Unlanded, Calling
<1>5. Pending' = Pending \ {CandidateOf(h)}
  BY <1>1, <1>3, <1>4, PendingAfter
<1>6. LocalContract!FinishError(h, fences) /\ LocalContract!Calling(h)
  BY <1>1, <1>2, LocalSameError, LocalSameWriter
<1>7. CASE fences
  <2>1. LocalContract!ReturnUncertain(h)
    BY <1>2, <1>5, <1>6, <1>7, LocalSameWriter DEF LocalContract!ReturnUncertain
  <2> QED BY <2>1 DEF ContractStep, LocalContract!StoreNext
<1>8. CASE ~fences
  <2>1. h \in Unlanded
    BY <1>2, <1>8, FitNumbers DEF Unlanded, HubFits, LinkHolds, Named
  <2>2. CandidateOf(h) \in Pending
    BY <2>1, PendingFacts
  <2>3. LocalContract!ReturnUnavailable(h)
    BY <1>2, <1>5, <1>6, <1>8, <2>2, LocalSameWriter DEF LocalContract!ReturnUnavailable
  <2> QED BY <2>3 DEF ContractStep, LocalContract!StoreNext
<1> QED BY <1>7, <1>8

LEMMA LocalVerifyImplements ==
    ASSUME LocalIInv, NEW h \in Hub, Verify(h) PROVE ContractStep
<1>1. /\ step[h] = "Synced" /\ Latest = expected[h] + 1 /\ Current = hub[h].next /\ FinishOk(h)
      /\ landed' = landed \ {h} /\ UNCHANGED fileVars
  BY DEF Verify, CallOver
<1>2. DirectoryTypes /\ Current' = Current /\ Calling(h) /\ h \in landed
  BY <1>1, FitNumbers, SameDirectory DEF HubFits, CallFits, LinkHolds, Named
<1>3. hub'[h].next = Empty /\ \A k \in Hub \ {h} : hub'[k] = hub[k]
  BY <1>1, <1>2, WriterSucceeds
<1>4. h \notin Unlanded' /\ h \notin Unlanded
  BY <1>2, <1>3 DEF Unlanded, Calling
<1>5. Pending' = Pending /\ CandidateOf(h) \notin Pending
  <2>1. \A k \in Hub \ {h} : k \in landed' <=> k \in landed
    BY <1>1
  <2>2. Pending' = Pending \ {CandidateOf(h)}
    BY <1>3, <1>4, <2>1, PendingAfter
  <2>3. CandidateOf(h) \notin Pending
    BY <1>4, PendingFacts
  <2> QED BY <1>4, <2>2, <2>3
<1>6. LocalContract!ReturnOk(h)
  BY <1>1, <1>2, <1>5, LocalSameWriter DEF LocalContract!ReturnOk
<1> QED BY <1>6 DEF ContractStep, LocalContract!StoreNext

LEMMA LocalStopImplements ==
    ASSUME LocalIInv, NEW h \in Hub, LocalStop(h) \/ LocalOverflow(h) PROVE ContractStep
<1>1. /\ OverflowRevision(h) \/ StopHub(h)
      /\ UNCHANGED fileVars /\ \A k \in Hub \ {h} : k \in landed' <=> k \in landed
  BY DEF LocalStop, LocalOverflow, CallOver
<1>2. DirectoryTypes /\ Current' = Current
  BY <1>1, FitNumbers, SameDirectory
<1>3. hub'[h].next = Empty /\ \A k \in Hub \ {h} : hub'[k] = hub[k]
  BY <1>1, <1>2, WriterFails
<1>4. h \notin Unlanded'
  BY <1>3 DEF Unlanded, Calling
<1>5. Pending' = Pending \ {CandidateOf(h)}
  BY <1>1, <1>3, <1>4, PendingAfter
<1>6. CASE LocalStop(h)
  <2>1. LocalContract!Stop(h)
    BY <1>2, <1>5, <1>6, LocalSameWriter DEF LocalStop, LocalContract!Stop
  <2> QED BY <2>1 DEF ContractStep, LocalContract!StoreNext
<1>7. CASE LocalOverflow(h)
  <2>1. OverflowRevision(h) /\ ~Calling(h)
    BY <1>7 DEF LocalOverflow, OverflowRevision
  <2>2. Pending' = Pending
    <3>1. h \notin Unlanded
      BY <2>1 DEF Unlanded
    <3> QED BY <1>1, <1>3, <1>5, <3>1, PendingAfter
  <2>3. LocalContract!Overflow(h)
    BY <1>2, <2>1, <2>2, LocalSameWriter DEF LocalContract!Overflow
  <2> QED BY <2>3 DEF ContractStep, LocalContract!StoreNext
<1> QED BY <1>6, <1>7

LEMMA LocalStepImplements ==
    ASSUME LocalIInv, LocalNext, ~faulty PROVE ContractStep
<1>1. ASSUME NEW h \in Hub,
             \/ LoadConflict(h) \/ WriteFails(h) \/ ConditionalConflict(h) \/ SyncFails(h) \/ VerifyMismatch(h)
      PROVE  ContractStep
  <2>1. \E fences \in BOOLEAN : /\ Fails(h, fences) /\ step[h] # "None"
                                /\ fences \/ step[h] \in {"Loaded", "Checked"}
    BY <1>1 DEF LoadConflict, WriteFails, ConditionalConflict, Conflicting, SyncFails, VerifyMismatch
  <2> QED BY <2>1, LocalFailureImplements
<1> QED BY <1>1, LocalAcquireImplements, LocalCommitImplements, LocalLooksImplement, LocalLinkImplements,
           LocalVerifyImplements, LocalStopImplements, LocalKeeps
        DEF LocalNext, LocalStep, LoadFails, VerifyReadFails, MachineCrash

LEMMA LocalInitImplements == LocalInit => LocalContract!StoreInit
<1> SUFFICES ASSUME LocalInit PROVE LocalContract!StoreInit
  OBVIOUS
<1>1. hub = [h \in Hub |-> Down] /\ files = [s \in Sequence |-> Empty]
  BY DEF LocalInit, WriterInit
<1>2. Pending = {}
  BY <1>1, StillHubs DEF Pending, Unlanded, Calling
<1>3. Current = Empty
  BY <1>1, LocalStarts, FitNumbers, DirectoryFacts DEF Current, Present, LocalIInv
<1> QED BY <1>2, <1>3 DEF LocalInit, WriterInit, LocalContract!StoreInit, LocalContract!WriterInit,
                    Down, LocalContract!Down, LeaseOf, LocalContract!LeaseOf, Empty, LocalContract!Empty

(* While reads succeed and the machine stays up, every interleaving of the  *)
(* file-system calls of any number of Hubs is a behaviour of the state-store *)
(* contract.                                                               *)
THEOREM LocalImplements == LocalSpec => ImplementsContract
<1>1. LocalIInv /\ [LocalNext]_localVars =>
        [~faulty => UNCHANGED LocalContract!storeVars \/ LocalContract!StoreNext]_localVars
  BY LocalStepImplements DEF ContractStep
<1> QED BY LocalInitImplements, DirectoryInvariant, <1>1, PTL DEF LocalSpec, ImplementsContract

-----------------------------------------------------------------------------
(* Offline maintenance: tools that read and rewrite the checkpoint, with a *)
(* Hub running or not, for any checkpoints it begins with.                 *)

\* A checkpoint as a record, holding what its schema can hold, and the evidence
\* of the Agents: what the own one says of this dispatch is what was done.
CheckpointShape(d) ==
    d = [seq |-> d.seq, revision |-> d.revision, fenced |-> d.fenced, schema |-> d.schema,
         features |-> d.features, op |-> d.op, capability |-> d.capability,
         generation |-> d.generation, dispatched |-> d.dispatched, room |-> d.room,
         status |-> d.status]
Holdable(d) ==
    /\ d.schema \in 1..CurrentSchema /\ d.features \subseteq 1..d.schema
    /\ d.generation \in Nat /\ d.dispatched \in BOOLEAN

DirectoryShape(a) ==
    a = [present |-> a.present, device |-> a.device, marker |-> a.marker,
         replayGeneration |-> a.replayGeneration, evidence |-> a.evidence]

CheckpointsHold ==
    /\ CheckpointShape(disk) /\ Holdable(disk)
    /\ tool.at \in {"loaded", "candidate"} =>
          /\ tool = [at |-> tool.at, command |-> tool.command, source |-> tool.source]
          /\ CheckpointShape(tool.source) /\ Holdable(tool.source)

EvidenceIsTrue ==
    /\ agentDisk = [d \in AgentDirectories |-> agentDisk[d]]
    /\ \A d \in AgentDirectories : DirectoryShape(agentDisk[d]) /\ agentDisk[d].device = d
    /\ \A e \in agentDisk["own"].evidence : e.generation = OpGeneration => e.state = truth
    /\ truth = "nothing" => \A e \in agentDisk["own"].evidence : e.generation # OpGeneration

AuditsAreFair == audit.at = "agent" => audit.dir \in AgentDirectories

MaintIInv == CheckpointsHold /\ EvidenceIsTrue /\ AuditsAreFair /\ AuditNeverGuesses

-----------------------------------------------------------------------------
\* What holds only features its schema knows can be restored under it.
LEMMA HoldableIsReadable ==
    ASSUME NEW d, Holdable(d)
    PROVE  Readable(d.schema, d.features)
BY DEF Holdable, Readable

\* A decision an older schema cannot hold is refused by the arm of that schema.
LEMMA PartialIsRefused ==
    ASSUME NEW schema \in 1..CurrentSchema, NEW features, Writable(schema, features),
           PartialFeature \in features
    PROVE  PartialFeature <= schema
<1>1. SUFFICES ASSUME schema < PartialFeature PROVE PartialFeature \in RefusedSince(schema)
  BY DEF Writable, PartialFeature, CurrentSchema
<1>2. CASE schema \in 4..7
  BY <1>1, <1>2 DEF RefusedSince, RefusedByMiddle, PartialFeature, CurrentSchema
<1>3. CASE schema \in 1..3
  BY <1>1, <1>3 DEF RefusedSince, RefusedByOldest, PartialFeature, CurrentSchema
<1> QED BY <1>1, <1>2, <1>3 DEF PartialFeature, CurrentSchema

LEMMA ResolvedHolds ==
    ASSUME NEW d, NEW decision, CheckpointShape(d), Holdable(d),
           Writable(Resolved(d, decision).schema, Resolved(d, decision).features)
    PROVE  CheckpointShape(Resolved(d, decision)) /\ Holdable(Resolved(d, decision))
<1> DEFINE more == d.features \cup (IF decision = "partial" THEN {PartialFeature} ELSE {})
           op == IF decision = "not_executed" THEN "cancelled" ELSE "completed"
           r == [seq |-> d.seq, revision |-> NextFence(d), fenced |-> d.fenced, schema |-> d.schema,
                 features |-> more, op |-> op, capability |-> d.capability,
                 generation |-> d.generation, dispatched |-> d.dispatched, room |-> d.room,
                 status |-> "settled"]
<1>1. Resolved(d, decision) = r
  <2> HIDE DEF more, op
  <2>1. Resolved(d, decision) =
            [[[[d EXCEPT !.op = op] EXCEPT !.status = "settled"] EXCEPT !.features = more] EXCEPT !.revision = NextFence(d)]
    BY DEF Resolved, more, op, CheckpointShape
  <2> QED BY <2>1 DEF CheckpointShape
<1>2. more \subseteq 1..d.schema
  <2>1. Writable(d.schema, more)
    BY <1>1
  <2>2. decision = "partial" => PartialFeature <= d.schema
    BY <2>1, PartialIsRefused DEF Holdable
  <2> QED BY <2>2 DEF Holdable, PartialFeature
<1> QED BY <1>1, <1>2 DEF Holdable, CheckpointShape

\* A resolution ends the operation and leaves the generation it was judged in.
LEMMA ResolvedSays ==
    ASSUME NEW d, NEW decision, CheckpointShape(d)
    PROVE  /\ Resolved(d, decision).op # "quarantined"
           /\ Resolved(d, decision).generation = d.generation
           /\ Resolved(d, decision).revision = NextFence(d)
<1>1. PICK f, op, more : /\ f = NextFence(d)
                         /\ op = (IF decision = "not_executed" THEN "cancelled" ELSE "completed")
                         /\ more = d.features \cup (IF decision = "partial" THEN {PartialFeature} ELSE {})
  OBVIOUS
<1>2. Resolved(d, decision) =
          [[[[d EXCEPT !.op = op] EXCEPT !.status = "settled"] EXCEPT !.features = more] EXCEPT !.revision = f]
  BY <1>1 DEF Resolved, CheckpointShape
<1> QED BY <1>1, <1>2 DEF CheckpointShape

\* A retirement keeps the shape of the checkpoint and writes it in the current schema.
LEMMA RetiredHolds ==
    ASSUME NEW d, CheckpointShape(d), Holdable(d), NEW next,
           next = [d EXCEPT !.op = "retired", !.status = "settled", !.schema = CurrentSchema,
                            !.revision = NextFence(d), !.room = @ - 1]
    PROVE  CheckpointShape(next) /\ Holdable(next) /\ next.op = "retired"
           /\ next.generation = d.generation /\ next.revision = NextFence(d)
<1>1. PICK f, m : f = NextFence(d) /\ m = d.room - 1
  OBVIOUS
<1>2. next = [[[[[d EXCEPT !.op = "retired"] EXCEPT !.status = "settled"] EXCEPT !.schema = CurrentSchema]
                    EXCEPT !.revision = f] EXCEPT !.room = m]
  BY <1>1 DEF CheckpointShape
<1>3. /\ CheckpointShape(next) /\ next.revision = f /\ next.schema = CurrentSchema
      /\ next.features = d.features /\ next.op = "retired"
      /\ next.generation = d.generation /\ next.dispatched = d.dispatched
  BY <1>2 DEF CheckpointShape
<1> QED BY <1>1, <1>3 DEF Holdable, CurrentSchema

\* The audit says "confirmed" only of the device's own evidence of this dispatch.
LEMMA JudgeConfirms ==
    ASSUME NEW seen, NEW dir
    PROVE  /\ Judge(seen, dir).at = "told"
           /\ Judge(seen, dir).ready = "confirmed_completed" =>
                 /\ dir.device = "own"
                 /\ \E e \in dir.evidence : e.generation = OpGeneration /\ e.state = "completed"
<1>1. CASE Judge(seen, dir) = Report("confirmed_completed", "terminal")
  <2>1. dir.device = "own" /\ ~(\E e \in dir.evidence : e.generation # OpGeneration)
        /\ \E e \in dir.evidence : e.state = "completed"
    BY <1>1 DEF Judge, Report, Mismatch
  <2> QED BY <1>1, <2>1 DEF Report
<1>2. CASE Judge(seen, dir) # Report("confirmed_completed", "terminal")
  BY <1>2 DEF Judge, Report, Mismatch
<1> QED BY <1>1, <1>2

LEMMA MaintStarts == MaintInit => MaintIInv
<1> SUFFICES ASSUME MaintInit PROVE MaintIInv
  OBVIOUS
<1>1. CheckpointsHold
  <2>1. \E s \in SourceStates :
          /\ CheckpointShape(disk)
          /\ disk.schema = s.schema /\ disk.features = s.features
          /\ disk.generation = OpGeneration /\ disk.dispatched = TRUE
    BY DEF MaintInit, CheckpointShape
  <2> QED BY <2>1, SourceAssumption DEF MaintInit, CheckpointsHold, Holdable, NoTool, OpGeneration
<1>2. EvidenceIsTrue
  <2> PICK here \in BOOLEAN, old \in {{}, OldEvidence} :
         agentDisk = [d \in AgentDirectories |->
          [present |-> d = "other" \/ here, device |-> d, marker |-> d = "other",
           replayGeneration |-> IF d = "other" THEN OpGeneration ELSE 0,
           evidence |-> IF d = "other" THEN {[generation |-> OpGeneration, state |-> "completed"]}
                        ELSE old]]
    BY DEF MaintInit
  <2>1. agentDisk["own"].evidence = old
    BY DEF AgentDirectories
  <2>2. \A e \in old : e.generation # OpGeneration
    <3>1. CASE old = OldEvidence
      <4> SUFFICES ASSUME NEW e \in OldEvidence PROVE e.generation # OpGeneration
        BY <3>1
      <4>1. e.generation \in {0}
        BY DEF OldEvidence
      <4> QED BY <4>1 DEF OpGeneration
    <3> QED BY <3>1
  <2> HIDE DEF OpGeneration
  <2>3. \A d \in AgentDirectories : DirectoryShape(agentDisk[d]) /\ agentDisk[d].device = d
    BY DEF DirectoryShape
  <2> QED BY <2>1, <2>2, <2>3 DEF EvidenceIsTrue
<1> QED BY <1>1, <1>2 DEF MaintIInv, AuditsAreFair, AuditNeverGuesses, MaintInit, NoAudit

-----------------------------------------------------------------------------
\* An audit changes only its own report, and tells what is true.
LEMMA AuditsKeep ==
    ASSUME MaintIInv, (\E dir \in AgentDirectories : AuditHub(dir)) \/ AuditAgent \/ Inspect \/ AuditDone
    PROVE  MaintIInv'
<1> USE DEF MaintIInv
<1>1. CheckpointsHold' /\ EvidenceIsTrue'
  BY DEF AuditHub, AuditAgent, Inspect, AuditDone, CheckpointsHold, EvidenceIsTrue, CheckpointShape, Holdable,
         DirectoryShape
<1>2. CASE \E dir \in AgentDirectories : AuditHub(dir)
  BY <1>1, <1>2 DEF AuditHub, AuditsAreFair, AuditNeverGuesses
<1>3. CASE AuditAgent
  <2>1. audit' = Judge(audit.seen, agentDisk[audit.dir]) /\ audit.dir \in AgentDirectories /\ truth' = truth
    BY <1>3 DEF AuditAgent, AuditsAreFair
  <2>2. audit'.at = "told"
    BY <2>1, JudgeConfirms
  <2>3. audit'.ready = "confirmed_completed" => truth = "completed"
    <3> SUFFICES ASSUME audit'.ready = "confirmed_completed" PROVE truth = "completed"
      OBVIOUS
    <3>1. agentDisk[audit.dir].device = "own"
          /\ \E e \in agentDisk[audit.dir].evidence : e.generation = OpGeneration /\ e.state = "completed"
      BY <2>1, JudgeConfirms
    <3>2. audit.dir = "own"
      BY <3>1, <2>1 DEF EvidenceIsTrue
    <3> QED BY <3>1, <3>2 DEF EvidenceIsTrue
  <2> QED BY <1>1, <2>1, <2>2, <2>3 DEF AuditsAreFair, AuditNeverGuesses
<1>4. CASE AuditDone
  BY <1>1, <1>4 DEF AuditDone, NoAudit, AuditsAreFair, AuditNeverGuesses
<1>5. CASE Inspect
  BY <1>1, <1>5 DEF Inspect, AuditsAreFair, AuditNeverGuesses
<1> QED BY <1>2, <1>3, <1>4, <1>5

\* The device's own evidence is journalled with what it did, once.
LEMMA FinishesKeep ==
    ASSUME MaintIInv, NEW ending \in {"completed", "failed"}, AgentFinishes(ending)
    PROVE  MaintIInv'
<1> USE DEF MaintIInv
<1>1. CheckpointsHold'
  BY DEF AgentFinishes, CheckpointsHold, CheckpointShape, Holdable
<1>2. EvidenceIsTrue'
  <2> DEFINE own == agentDisk["own"]
             now == [present |-> own.present, device |-> own.device, marker |-> TRUE,
                     replayGeneration |-> OpGeneration,
                     evidence |-> own.evidence \cup {[generation |-> OpGeneration, state |-> ending]}]
  <2>1. agentDisk' = [agentDisk EXCEPT !["own"] = now]
    <3>1. DirectoryShape(own)
      BY DEF EvidenceIsTrue, AgentDirectories
    <3>2. agentDisk' = [[[agentDisk EXCEPT !["own"].marker = TRUE] EXCEPT !["own"].replayGeneration = OpGeneration]
               EXCEPT !["own"].evidence = own.evidence \cup {[generation |-> OpGeneration, state |-> ending]}]
      BY DEF AgentFinishes, EvidenceIsTrue, AgentDirectories, DirectoryShape
    <3>3. [agentDisk EXCEPT !["own"].marker = TRUE] = [agentDisk EXCEPT !["own"] = [own EXCEPT !.marker = TRUE]]
      BY DEF EvidenceIsTrue, AgentDirectories
    <3>4. now = [[[own EXCEPT !.marker = TRUE] EXCEPT !.replayGeneration = OpGeneration]
               EXCEPT !.evidence = own.evidence \cup {[generation |-> OpGeneration, state |-> ending]}]
      <4>1. PICK ev : ev = own.evidence \cup {[generation |-> OpGeneration, state |-> ending]}
        OBVIOUS
      <4>2. PICK o : o = own /\ DirectoryShape(o)
        BY <3>1
      <4>4. PICK m : m = [o EXCEPT !.marker = TRUE]
        OBVIOUS
      <4>5. DirectoryShape(m) /\ m.present = o.present /\ m.device = o.device /\ m.marker = TRUE
        BY <4>2, <4>4 DEF DirectoryShape
      <4>6. PICK r : r = [m EXCEPT !.replayGeneration = OpGeneration]
        OBVIOUS
      <4>7. DirectoryShape(r) /\ r.present = o.present /\ r.device = o.device /\ r.marker = TRUE
            /\ r.replayGeneration = OpGeneration
        BY <4>5, <4>6 DEF DirectoryShape
      <4>9. PICK z : z = [r EXCEPT !.evidence = ev]
        OBVIOUS
      <4>10. /\ DirectoryShape(z) /\ z.present = o.present /\ z.device = o.device /\ z.marker = TRUE
             /\ z.replayGeneration = OpGeneration /\ z.evidence = ev
        BY <4>7, <4>9 DEF DirectoryShape
      <4>8. z = [present |-> o.present, device |-> o.device, marker |-> TRUE,
                 replayGeneration |-> OpGeneration, evidence |-> ev]
        BY <4>10 DEF DirectoryShape
      <4>3. [[[o EXCEPT !.marker = TRUE] EXCEPT !.replayGeneration = OpGeneration] EXCEPT !.evidence = ev]
              = [present |-> o.present, device |-> o.device, marker |-> TRUE,
                 replayGeneration |-> OpGeneration, evidence |-> ev]
        BY Zenon, <4>4, <4>6, <4>8, <4>9
      <4> HIDE DEF own
      <4> QED BY Zenon, <4>1, <4>2, <4>3
    <3>5. PICK m : m = [own EXCEPT !.marker = TRUE]
      OBVIOUS
    <3>6. PICK r : r = [m EXCEPT !.replayGeneration = OpGeneration]
      OBVIOUS
    <3>7. [agentDisk EXCEPT !["own"] = m]["own"] = m /\ [agentDisk EXCEPT !["own"] = r]["own"] = r
      BY DEF EvidenceIsTrue, AgentDirectories
    <3>8. [[agentDisk EXCEPT !["own"] = m] EXCEPT !["own"].replayGeneration = OpGeneration] = [agentDisk EXCEPT !["own"] = r]
      BY <3>6, <3>7 DEF EvidenceIsTrue, AgentDirectories
    <3>9. PICK z : z = [r EXCEPT !.evidence = own.evidence \cup {[generation |-> OpGeneration, state |-> ending]}]
      OBVIOUS
    <3>10. [[agentDisk EXCEPT !["own"] = r] EXCEPT !["own"].evidence =
                own.evidence \cup {[generation |-> OpGeneration, state |-> ending]}] = [agentDisk EXCEPT !["own"] = z]
      BY <3>9, <3>7 DEF EvidenceIsTrue, AgentDirectories
    <3> HIDE DEF now, own
    <3> QED BY Zenon, <3>2, <3>3, <3>4, <3>5, <3>6, <3>8, <3>9, <3>10
  <2>2. /\ agentDisk' = [d \in AgentDirectories |-> IF d = "own" THEN now ELSE agentDisk[d]]
    BY <2>1 DEF EvidenceIsTrue
  <2>3. DirectoryShape(now) /\ now.device = "own"
    BY DEF DirectoryShape, EvidenceIsTrue, AgentDirectories
  <2>4. \A e \in now.evidence : e.generation = OpGeneration => e.state = ending
    BY DEF AgentFinishes, EvidenceIsTrue
  <2>5. truth' = ending /\ ending # "nothing" /\ agentDisk'["own"] = now
    BY <2>2 DEF AgentFinishes, AgentDirectories
  <2>6. \A d \in AgentDirectories : DirectoryShape(agentDisk'[d]) /\ agentDisk'[d].device = d
    <3> HIDE DEF now
    <3> QED BY <2>2, <2>3 DEF EvidenceIsTrue
  <2> HIDE DEF now
  <2> QED BY <2>2, <2>4, <2>5, <2>6 DEF EvidenceIsTrue, DirectoryShape
<1>3. AuditsAreFair' /\ AuditNeverGuesses'
  BY DEF AgentFinishes, AuditsAreFair, AuditNeverGuesses
<1> QED BY <1>1, <1>2, <1>3

\* The tool loads a checkpoint that holds, and gives it up or makes a candidate of it.
LEMMA ToolKeeps ==
    ASSUME MaintIInv,
           \/ \E command \in {"completed", "not_executed", "partial", "retire"} : ToolTakes(command)
           \/ ResolveCandidate \/ RetireCandidate \/ ToolStops
    PROVE  MaintIInv'
<1> USE DEF MaintIInv
<1>1. EvidenceIsTrue' /\ AuditsAreFair' /\ AuditNeverGuesses' /\ disk' = disk
  BY DEF ToolTakes, ResolveCandidate, RetireCandidate, ToolStops, EvidenceIsTrue, DirectoryShape,
         AuditsAreFair, AuditNeverGuesses
<1>2. ASSUME NEW command, ToolTakes(command) PROVE CheckpointsHold'
  BY <1>1, <1>2 DEF ToolTakes, CheckpointsHold, CheckpointShape, Holdable
<1>3. CASE ResolveCandidate
  <2>1. PICK next : next = Resolved(tool.source, tool.command)
    OBVIOUS
  <2>2. Writable(next.schema, next.features) /\ tool' = [tool EXCEPT !.at = "candidate", !.source = next]
        /\ tool.at = "loaded"
    BY Zenon, <1>3, <2>1 DEF ResolveCandidate
  <2>3. CheckpointShape(next) /\ Holdable(next)
    BY <2>1, <2>2, ResolvedHolds DEF CheckpointsHold
  <2>4. tool' = [at |-> "candidate", command |-> tool.command, source |-> next]
    BY <2>2 DEF CheckpointsHold
  <2> QED BY <1>1, <2>3, <2>4 DEF CheckpointsHold, CheckpointShape, Holdable
<1>4. CASE RetireCandidate
  <2> DEFINE old == tool.source
             new == [old EXCEPT !.op = "retired", !.status = "settled", !.schema = CurrentSchema,
                                !.revision = NextFence(tool.source), !.room = @ - 1]
  <2>1. PICK next : next = new
    OBVIOUS
  <2>2. tool' = [tool EXCEPT !.at = "candidate", !.source = next] /\ tool.at = "loaded"
    BY Zenon, <1>4, <2>1 DEF RetireCandidate
  <2>3. CheckpointShape(old) /\ Holdable(old)
    BY <2>2 DEF CheckpointsHold
  <2>4. CheckpointShape(next) /\ Holdable(next)
    BY <2>1, <2>3, RetiredHolds
  <2>5. tool' = [at |-> "candidate", command |-> tool.command, source |-> next]
    BY <2>2 DEF CheckpointsHold
  <2> QED BY <1>1, <2>4, <2>5 DEF CheckpointsHold, CheckpointShape, Holdable
<1>5. CASE ToolStops
  BY <1>1, <1>5 DEF ToolStops, NoTool, CheckpointsHold, CheckpointShape, Holdable
<1> QED BY <1>1, <1>2, <1>3, <1>4, <1>5

\* What is published next to a checkpoint that holds does too.
LEMMA PublishedHolds ==
    ASSUME MaintIInv, NEW next, disk' = [next EXCEPT !.seq = disk.seq + 1],
           CheckpointShape(next), Holdable(next)
    PROVE  CheckpointShape(disk') /\ Holdable(disk')
BY DEF CheckpointShape, Holdable

LEMMA MaintCommitKeeps ==
    ASSUME MaintIInv, ToolCommits
    PROVE  MaintIInv'
<1> USE DEF MaintIInv
<1>1. EvidenceIsTrue' /\ AuditsAreFair' /\ AuditNeverGuesses' /\ tool' = NoTool
  BY DEF ToolCommits, EvidenceIsTrue, DirectoryShape, AuditsAreFair, AuditNeverGuesses
<1>2. PICK next : next = tool.source
  OBVIOUS
<1>3. CheckpointShape(next) /\ Holdable(next) /\ disk' = [next EXCEPT !.seq = disk.seq + 1]
  BY <1>2 DEF ToolCommits, CheckpointsHold
<1>4. CheckpointShape(disk') /\ Holdable(disk')
  BY <1>3, PublishedHolds
<1> QED BY <1>1, <1>4 DEF CheckpointsHold, NoTool, CheckpointShape, Holdable

\* The Hub's own checkpoints: in its schema at the start, and then with what one
\* transition changed.
LEMMA HubKeeps ==
    ASSUME MaintIInv, HubStarts \/ HubStops \/ HubReconnects \/ HubReconciles
    PROVE  MaintIInv'
<1> USE DEF MaintIInv
<1>1. EvidenceIsTrue' /\ AuditsAreFair' /\ AuditNeverGuesses' /\ tool' = tool
  BY DEF HubStarts, HubStops, HubReconnects, HubReconciles, EvidenceIsTrue, DirectoryShape,
         AuditsAreFair, AuditNeverGuesses
<1>2. CheckpointShape(disk) /\ Holdable(disk)
  BY DEF CheckpointsHold
<1>3. ASSUME NEW next, CheckpointShape(next), Holdable(next), PublishCheckpoint(next)
      PROVE  CheckpointShape(disk') /\ Holdable(disk')
  BY <1>3, PublishedHolds DEF PublishCheckpoint
<1>4. CASE HubStarts
  <2>1. PICK next : next = [disk EXCEPT !.schema = CurrentSchema, !.fenced = TRUE, !.revision = @ + 1]
    OBVIOUS
  <2>2. CheckpointShape(next) /\ Holdable(next)
    <3>1. next = [[[disk EXCEPT !.schema = CurrentSchema] EXCEPT !.fenced = TRUE] EXCEPT !.revision = disk.revision + 1]
      BY <1>2, <2>1 DEF CheckpointShape
    <3>2. CheckpointShape(next) /\ next.schema = CurrentSchema /\ next.features = disk.features
          /\ next.generation = disk.generation /\ next.dispatched = disk.dispatched
      BY <1>2, <3>1 DEF CheckpointShape
    <3> QED BY <1>2, <3>2 DEF Holdable, CurrentSchema
  <2>3. PublishCheckpoint(next)
    BY Zenon, <1>4, <2>1 DEF HubStarts
  <2>4. CheckpointShape(disk') /\ Holdable(disk')
    BY <1>3, <2>2, <2>3
  <2> QED BY <1>1, <2>4 DEF CheckpointsHold, CheckpointShape, Holdable
<1>5. CASE HubReconnects
  <2>1. PICK next : next = [disk EXCEPT !.generation = @ + 1, !.revision = @ + 1]
    OBVIOUS
  <2>2. CheckpointShape(next) /\ Holdable(next)
    <3>1. next = [[disk EXCEPT !.generation = disk.generation + 1] EXCEPT !.revision = disk.revision + 1]
      BY <1>2, <2>1 DEF CheckpointShape
    <3>2. CheckpointShape(next) /\ next.schema = disk.schema /\ next.features = disk.features
          /\ next.generation = disk.generation + 1 /\ next.dispatched = disk.dispatched
      BY <1>2, <3>1 DEF CheckpointShape
    <3> QED BY <1>2, <3>2 DEF Holdable
  <2>3. PublishCheckpoint(next)
    BY Zenon, <1>5, <2>1 DEF HubReconnects
  <2>4. CheckpointShape(disk') /\ Holdable(disk')
    BY <1>3, <2>2, <2>3
  <2> QED BY <1>1, <2>4 DEF CheckpointsHold, CheckpointShape, Holdable
<1>6. CASE HubReconciles
  <2>1. PICK settled : settled = [disk EXCEPT !.op = truth, !.status = "settled", !.revision = @ + 1]
    OBVIOUS
  <2>2. PICK gap : gap = [disk EXCEPT !.status = "evidence_gap", !.revision = @ + 1]
    OBVIOUS
  <2>3. CheckpointShape(settled) /\ Holdable(settled)
    BY <1>2, <2>1 DEF CheckpointShape, Holdable
  <2>4. CheckpointShape(gap) /\ Holdable(gap)
    BY <1>2, <2>2 DEF CheckpointShape, Holdable
  <2>5. PublishCheckpoint(settled) \/ PublishCheckpoint(gap)
    BY Zenon, <1>6, <2>1, <2>2 DEF HubReconciles
  <2>6. CheckpointShape(disk') /\ Holdable(disk')
    BY <1>3, <2>3, <2>4, <2>5
  <2> QED BY <1>1, <2>6 DEF CheckpointsHold, CheckpointShape, Holdable
<1>7. CASE HubStops
  BY <1>1, <1>7 DEF HubStops, CheckpointsHold, CheckpointShape, Holdable
<1> QED BY <1>4, <1>5, <1>6, <1>7

LEMMA MaintStep == MaintIInv /\ [MaintNext]_maintVars => MaintIInv'
<1> SUFFICES ASSUME MaintIInv, [MaintNext]_maintVars PROVE MaintIInv'
  OBVIOUS
<1>1. CASE UNCHANGED maintVars
  BY <1>1 DEF maintVars, MaintIInv, CheckpointsHold, EvidenceIsTrue, AuditsAreFair, AuditNeverGuesses,
              CheckpointShape, Holdable, DirectoryShape
<1>2. CASE MaintNext
  BY <1>2, AuditsKeep, FinishesKeep, ToolKeeps, MaintCommitKeeps, HubKeeps DEF MaintNext
<1> QED BY <1>1, <1>2

\* Whoever decides offline holds the lock, so what it loaded is what is on disk.
ToolHoldsTheLock ==
    /\ tool.at # "idle" => stateLock = "tool"
    /\ tool.at = "loaded" => tool.source = disk

DecisionIInv == ToolHoldsTheLock /\ DecisionsAreCurrent /\ VerdictsStand

\* The verdict of an inspection rests on four fields of the checkpoint.
LEMMA VerdictCarries ==
    ASSUME NEW d, NEW e, d.generation \in Nat, e.generation \in Nat, d.generation <= e.generation,
           e.capability = d.capability, e.status = d.status, e.dispatched = d.dispatched,
           Eligibility(d) = "eligible"
    PROVE  Eligibility(e) = "eligible"
BY DEF Eligibility, OpGeneration

\* Nothing but the tool moves a candidate, and it makes one of what it loaded.
LEMMA ToolDecides ==
    ASSUME MaintIInv, DecisionIInv,
           \/ \E command \in {"completed", "not_executed", "partial", "retire"} : ToolTakes(command)
           \/ ResolveCandidate \/ RetireCandidate \/ ToolStops \/ ToolCommits
    PROVE  DecisionIInv'
<1> USE DEF DecisionIInv
<1>1. CASE \E command \in {"completed", "not_executed", "partial", "retire"} : ToolTakes(command)
  BY <1>1 DEF ToolTakes, ToolHoldsTheLock, DecisionsAreCurrent, VerdictsStand
<1>2. CASE ResolveCandidate
  <2>1. PICK next : next = Resolved(tool.source, tool.command)
    OBVIOUS
  <2>2. Writable(next.schema, next.features) /\ tool' = [tool EXCEPT !.at = "candidate", !.source = next]
        /\ tool.at = "loaded" /\ tool.source.op = "quarantined"
    BY Zenon, <1>2, <2>1 DEF ResolveCandidate
  <2>3. CheckpointShape(tool.source) /\ tool.source = disk
    BY <2>2 DEF MaintIInv, CheckpointsHold, ToolHoldsTheLock
  <2>4. next.op # "quarantined" /\ next.generation = disk.generation /\ next.revision = NextFence(disk)
    BY <2>1, <2>3, ResolvedSays
  <2>5. tool' = [at |-> "candidate", command |-> tool.command, source |-> next]
    BY <2>2 DEF MaintIInv, CheckpointsHold
  <2>6. UNCHANGED <<disk, stateLock, audit>>
    BY <1>2 DEF ResolveCandidate
  <2> QED BY <2>2, <2>3, <2>4, <2>5, <2>6 DEF ToolHoldsTheLock, DecisionsAreCurrent, VerdictsStand, NextFence
<1>3. CASE RetireCandidate
  <2>1. PICK next : next = [tool.source EXCEPT !.op = "retired", !.status = "settled",
                        !.schema = CurrentSchema, !.revision = NextFence(tool.source), !.room = @ - 1]
    OBVIOUS
  <2>2. tool' = [tool EXCEPT !.at = "candidate", !.source = next]
        /\ tool.at = "loaded" /\ tool.source.op = "quarantined"
    BY Zenon, <1>3, <2>1 DEF RetireCandidate, MayRetireOffline
  <2>3. CheckpointShape(tool.source) /\ Holdable(tool.source) /\ tool.source = disk
    BY <2>2 DEF MaintIInv, CheckpointsHold, ToolHoldsTheLock
  <2>4. next.op # "quarantined" /\ next.generation = disk.generation /\ next.revision = NextFence(disk)
    BY <2>1, <2>3, RetiredHolds
  <2>5. tool' = [at |-> "candidate", command |-> tool.command, source |-> next]
    BY <2>2 DEF MaintIInv, CheckpointsHold
  <2>6. UNCHANGED <<disk, stateLock, audit>>
    BY <1>3 DEF RetireCandidate
  <2> QED BY <2>2, <2>3, <2>4, <2>5, <2>6 DEF ToolHoldsTheLock, DecisionsAreCurrent, VerdictsStand, NextFence
<1>4. CASE ToolStops
  BY <1>4 DEF ToolStops, NoTool, ToolHoldsTheLock, DecisionsAreCurrent, VerdictsStand
<1>5. CASE ToolCommits
  <2>1. PICK next : next = tool.source
    OBVIOUS
  <2>2. CheckpointShape(next) /\ next.op # "quarantined" /\ disk' = [next EXCEPT !.seq = disk.seq + 1]
    BY <1>5, <2>1 DEF ToolCommits, MaintIInv, CheckpointsHold, DecisionsAreCurrent
  <2>3. disk'.op # "quarantined"
    BY <2>2 DEF CheckpointShape
  <2> QED BY <1>5, <2>3 DEF ToolCommits, NoTool, ToolHoldsTheLock, DecisionsAreCurrent, VerdictsStand
<1> QED BY <1>1, <1>2, <1>3, <1>4, <1>5

\* The Hub publishes only while it holds the lock, and never takes back what made an
\* operation eligible.
LEMMA HubLeavesDecisions ==
    ASSUME MaintIInv, DecisionIInv, HubStarts \/ HubStops \/ HubReconnects \/ HubReconciles
    PROVE  DecisionIInv'
<1> USE DEF DecisionIInv
<1>1. CheckpointShape(disk) /\ Holdable(disk)
  BY DEF MaintIInv, CheckpointsHold
<1>2. /\ tool.at = "idle" /\ tool' = tool /\ audit' = audit
      /\ HubStops => disk' = disk
  BY DEF HubStarts, HubStops, HubReconnects, HubReconciles, ToolHoldsTheLock
<1>3. ToolHoldsTheLock' /\ DecisionsAreCurrent'
  BY <1>2 DEF ToolHoldsTheLock, DecisionsAreCurrent
<1>4. CASE HubStarts
  <2>1. PICK next : next = [disk EXCEPT !.schema = CurrentSchema, !.fenced = TRUE, !.revision = @ + 1]
    OBVIOUS
  <2>2. CheckpointShape(next) /\ next.op = disk.op /\ next.generation = disk.generation
        /\ next.capability = disk.capability /\ next.status = disk.status /\ next.dispatched = disk.dispatched
    BY <1>1, <2>1 DEF CheckpointShape
  <2>3. disk' = [next EXCEPT !.seq = disk.seq + 1]
    BY Zenon, <1>4, <2>1 DEF HubStarts, PublishCheckpoint
  <2>4. disk'.op = disk.op /\ disk'.generation = disk.generation
        /\ disk'.capability = disk.capability /\ disk'.status = disk.status /\ disk'.dispatched = disk.dispatched
    BY <2>2, <2>3 DEF CheckpointShape
  <2> QED BY <1>1, <1>2, <1>3, <2>4, VerdictCarries DEF VerdictsStand, Holdable
<1>5. CASE HubReconnects
  <2>1. PICK next : next = [disk EXCEPT !.generation = @ + 1, !.revision = @ + 1]
    OBVIOUS
  <2>2. CheckpointShape(next) /\ next.op = disk.op /\ next.generation = disk.generation + 1
        /\ next.capability = disk.capability /\ next.status = disk.status /\ next.dispatched = disk.dispatched
    BY <1>1, <2>1 DEF CheckpointShape
  <2>3. disk' = [next EXCEPT !.seq = disk.seq + 1]
    BY Zenon, <1>5, <2>1 DEF HubReconnects, PublishCheckpoint
  <2>4. disk'.op = disk.op /\ disk'.generation = disk.generation + 1
        /\ disk'.capability = disk.capability /\ disk'.status = disk.status /\ disk'.dispatched = disk.dispatched
    BY <2>2, <2>3 DEF CheckpointShape
  <2> QED BY <1>1, <1>2, <1>3, <2>4, VerdictCarries DEF VerdictsStand, Holdable
<1>6. CASE HubReconciles
  <2>1. disk.op = "quarantined" /\ Eligibility(disk) # "eligible"
    BY <1>6 DEF HubReconciles, Eligibility, UnsettledOps
  <2> QED BY <1>2, <1>3, <2>1 DEF VerdictsStand
<1>7. CASE HubStops
  BY <1>2, <1>3, <1>7 DEF VerdictsStand
<1> QED BY <1>4, <1>5, <1>6, <1>7

LEMMA DecisionsStart == MaintInit => DecisionIInv
BY DEF MaintInit, NoTool, NoAudit, DecisionIInv, ToolHoldsTheLock, DecisionsAreCurrent, VerdictsStand

LEMMA DecisionsKeep == MaintIInv /\ DecisionIInv /\ [MaintNext]_maintVars => DecisionIInv'
<1> SUFFICES ASSUME MaintIInv, DecisionIInv, [MaintNext]_maintVars PROVE DecisionIInv'
  OBVIOUS
<1>1. CASE \/ (\E dir \in AgentDirectories : AuditHub(dir)) \/ AuditAgent \/ AuditDone
           \/ \E ending \in {"completed", "failed"} : AgentFinishes(ending)
  <2>1. UNCHANGED <<disk, stateLock, tool>> /\ (audit' = audit \/ audit'.at \in {"agent", "told", "idle"})
    BY <1>1, JudgeConfirms DEF AuditHub, AuditAgent, AuditDone, NoAudit, AgentFinishes
  <2> QED BY <2>1 DEF DecisionIInv, ToolHoldsTheLock, DecisionsAreCurrent, VerdictsStand
<1>2. CASE Inspect
  BY <1>2 DEF Inspect, DecisionIInv, ToolHoldsTheLock, DecisionsAreCurrent, VerdictsStand
<1>3. CASE UNCHANGED maintVars
  BY <1>3 DEF maintVars, DecisionIInv, ToolHoldsTheLock, DecisionsAreCurrent, VerdictsStand
<1> QED BY <1>1, <1>2, <1>3, ToolDecides, HubLeavesDecisions DEF MaintNext

\* Offline tools may be trusted with a live directory (v2_maintenance.rs): an audit
\* confirms only what happened, every checkpoint stays readable by the release of its
\* schema, nobody moves a checkpoint between the tool's load and its decision, and a
\* verdict of eligibility given to an operator stands while the operation is
\* quarantined; for any checkpoints a maintenance begins with.
THEOREM MaintenanceIsSafe == MaintSpec => []MaintenanceSafe
<1>1. MaintIInv /\ DecisionIInv => MaintenanceSafe
  BY HoldableIsReadable
     DEF MaintIInv, DecisionIInv, MaintenanceSafe, CheckpointsHold, CheckpointsStayReadable
<1> QED BY <1>1, MaintStarts, MaintStep, DecisionsStart, DecisionsKeep, PTL DEF MaintSpec

-----------------------------------------------------------------------------
(* Sessions: both ends agree on one handshake and act only on its frames,  *)
(* whatever is lost, repeated, reordered or crossed.                       *)

\* What the two sides keep, as records.
EndShape(c) == c = [phase |-> c.phase, an |-> c.an, hn |-> c.hn, gen |-> c.gen, key |-> c.key,
                    now |-> c.now]
TrustShapes ==
    /\ trustHub = [key |-> trustHub.key, grantKey |-> trustHub.grantKey,
                   registry |-> trustHub.registry, nonces |-> trustHub.nonces]
    /\ trustHub.nonces \in Nat
    /\ conns = [n \in SessionIds |-> conns[n]]
    /\ \A n \in SessionIds : EndShape(conns[n]) /\ conns[n].now \in Nat
    /\ agent = [key |-> agent.key, trusted |-> agent.trusted, epoch |-> agent.epoch,
                verifiers |-> agent.verifiers, consumed |-> agent.consumed,
                session |-> agent.session, hellos |-> agent.hellos]
    /\ EndShape(agent.session) /\ agent.session.now \in Nat /\ agent.hellos \in Nat
    /\ IsFiniteSet(wire)

\* Connections are numbered by the Hub's nonces, and each answers one hello.
Begun(c) == c.phase # "unused"
Accepted(c) == c.phase \in {"open", "over"}
ConnsInOrder ==
    \A n \in SessionIds :
        /\ Begun(conns[n]) => n <= trustHub.nonces
        /\ Begun(conns[n]) => conns[n].hn = n /\ conns[n].an \in 1..agent.hellos

\* Every frame of a session says which, in what was signed.
Bound(f) == f.origin = <<f.sig.over.an, f.sig.over.hn>>
OfConn(f) ==
    /\ f.origin[2] \in SessionIds /\ Accepted(conns[f.origin[2]])
    /\ conns[f.origin[2]].an = f.origin[1]
HonestGrant(f, size) ==
    /\ f.fields.grant.issued \in Nat /\ f.fields.grant.expires \in Nat
    /\ f.fields.grant.id \in Nat /\ f.fields.grant.id < size
    /\ conns[f.origin[2]].phase = "open" =>
          f.fields.grant.issued <= BackdatedIssue(conns[f.origin[2]].now)
Honest(f) ==
    /\ f.kind = "hello" => f.an \in 1..agent.hellos
    /\ f.kind \notin {"hello", "challenge", "proof"} => Bound(f)
    /\ f.kind = "accepted" =>
          OfConn(f) /\ conns[f.origin[2]].gen = f.fields.gen /\ f.fields.time \in Nat
    /\ f.kind = "command" =>
          OfConn(f) /\ f.origin[1] \in 1..agent.hellos /\ HonestGrant(f, Cardinality(wire))
WireHonest ==
    /\ \A f \in wire : Honest(f)
    /\ \A f, g \in wire : f.kind = "command" /\ g.kind = "command"
                          /\ f.fields.grant.id = g.fields.grant.id => f = g

\* The Agent's open session is a connection the Hub accepted, a connection the Hub
\* holds open was proved.
AgentAgrees ==
    /\ agent.session.phase = "down" => agent.session.an = 0
    /\ agent.session.an \in 0..agent.hellos
    /\ agent.session.phase = "open" =>
        /\ agent.session.hn \in SessionIds /\ Accepted(conns[agent.session.hn])
        /\ conns[agent.session.hn].an = agent.session.an
        /\ conns[agent.session.hn].gen = agent.session.gen
Proved(n) == \E p \in wire : p.kind = "proof" /\ p.an = conns[n].an /\ p.hn = n /\ p.sig.by = conns[n].key
OpenIsProved == \A n \in SessionIds : conns[n].phase = "open" => Proved(n)

\* What the ledger authorised came in a command; in the session of that command it
\* is still in the ledger, or it has expired there.
Remembered(p, f) ==
    /\ f.kind = "command" /\ f.fields.grant.id = p.id
    /\ f.origin[1] = agent.session.an =>
          /\ agent.session.phase = "open"
          /\ \/ f.fields.grant.expires <= agent.session.now
             \/ \E g \in agent.consumed : g.id = p.id /\ g.expires = f.fields.grant.expires
SpentIsRemembered == \A p \in spent : p.times = 1 /\ \E f \in wire : Remembered(p, f)

\* The epochs applied so far are the first ones.
RotationsCounted ==
    /\ agent.epoch \in Nat /\ applied \in Seq(HubRotations) /\ Len(applied) = agent.epoch
    /\ \A i \in 1..Len(applied) : applied[i].epoch = i

TrustIInv ==
    /\ TrustShapes /\ ConnsInOrder /\ WireHonest /\ AgentAgrees /\ OpenIsProved
    /\ SpentIsRemembered /\ RotationsCounted /\ FramesStayInTheirSession

-----------------------------------------------------------------------------
\* A frame that verifies was signed for the session it is verified in.
LEMMA VerifiedIsBound ==
    ASSUME NEW f, NEW key, NEW s, Verifies(f, key, s), Bound(f)
    PROVE  f.origin = <<s.an, s.hn>>
BY DEF Verifies, Bound, Signed, Transcript

LEMMA FrameIsBound ==
    ASSUME NEW kind, NEW key, NEW s, NEW fields
    PROVE  /\ Bound(Frame(kind, key, s, fields))
           /\ Frame(kind, key, s, fields).kind = kind
           /\ Frame(kind, key, s, fields).fields = fields
           /\ Frame(kind, key, s, fields).origin = <<s.an, s.hn>>
           /\ Frame(kind, key, s, fields).origin[1] = s.an
           /\ Frame(kind, key, s, fields).origin[2] = s.hn
BY DEF Frame, Bound, Signed, Transcript

\* A later issue is never set further back.
LEMMA BackdatedGrows ==
    ASSUME NEW m \in Nat, NEW n \in Nat, m <= n
    PROVE  BackdatedIssue(m) \in Nat /\ BackdatedIssue(m) <= BackdatedIssue(n)
BY TrustConstants DEF BackdatedIssue

\* An initial state.
LEMMA TrustStarts == TrustInit => TrustIInv
<1> SUFFICES ASSUME TrustInit PROVE TrustIInv
  OBVIOUS
<1> USE DEF TrustInit
<1>1. TrustShapes
  BY FS_EmptySet DEF TrustShapes, EndShape, NoConn, NoSession
<1>2. ConnsInOrder /\ AgentAgrees /\ OpenIsProved
  BY DEF ConnsInOrder, AgentAgrees, OpenIsProved, Begun, NoConn, NoSession
<1>3. WireHonest /\ SpentIsRemembered /\ FramesStayInTheirSession
  BY DEF WireHonest, SpentIsRemembered, FramesStayInTheirSession
<1>4. RotationsCounted
  BY DEF RotationsCounted
<1> QED BY <1>1, <1>2, <1>3, <1>4 DEF TrustIInv

-----------------------------------------------------------------------------
\* How a connection may change: once accepted it stays that connection, and its
\* clock, while it is open, goes on.
ConnStep(n) ==
    Accepted(conns[n]) =>
        /\ Accepted(conns'[n])
        /\ conns'[n].an = conns[n].an /\ conns'[n].gen = conns[n].gen
        /\ conns'[n].phase = "open" =>
             /\ conns[n].phase = "open" /\ conns'[n].key = conns[n].key
             /\ conns'[n].now \in Nat /\ conns'[n].now >= conns[n].now

\* What was honest stays so when connections only go on and frames are added.
LEMMA HonestStays ==
    ASSUME TrustIInv, NEW f \in wire, \A n \in SessionIds : ConnStep(n),
           agent'.hellos \in Nat, agent'.hellos >= agent.hellos,
           IsFiniteSet(wire'), wire \subseteq wire'
    PROVE  Honest(f)'
<1>1. Honest(f)
  BY DEF TrustIInv, WireHonest
<1>2. f.kind = "hello" => f.an \in 1..agent'.hellos
  BY <1>1 DEF Honest, TrustIInv, TrustShapes
<1>3. ASSUME OfConn(f) PROVE OfConn(f)' /\ conns'[f.origin[2]].gen = conns[f.origin[2]].gen
  BY <1>3 DEF OfConn, ConnStep
<1>4. Cardinality(wire) \in Nat /\ Cardinality(wire') \in Nat /\ Cardinality(wire) <= Cardinality(wire')
  BY FS_Subset, FS_CardinalityType DEF TrustIInv, TrustShapes
<1>5. ASSUME OfConn(f), HonestGrant(f, Cardinality(wire)) PROVE HonestGrant(f, Cardinality(wire))'
  <2>1. conns'[f.origin[2]].phase = "open" =>
          /\ conns[f.origin[2]].phase = "open" /\ conns'[f.origin[2]].now \in Nat
          /\ conns'[f.origin[2]].now >= conns[f.origin[2]].now /\ conns[f.origin[2]].now \in Nat
    BY <1>5 DEF OfConn, ConnStep, TrustIInv, TrustShapes
  <2>2. ASSUME conns'[f.origin[2]].phase = "open"
        PROVE  f.fields.grant.issued <= BackdatedIssue(conns'[f.origin[2]].now)
    <3>1. PICK m \in Nat, n \in Nat : m = conns[f.origin[2]].now /\ n = conns'[f.origin[2]].now /\ m <= n
      BY <2>1, <2>2
    <3>2. f.fields.grant.issued <= BackdatedIssue(m) /\ f.fields.grant.issued \in Nat
      BY <1>5, <2>1, <2>2, <3>1 DEF HonestGrant
    <3>3. BackdatedIssue(m) <= BackdatedIssue(n) /\ BackdatedIssue(m) \in Nat /\ BackdatedIssue(n) \in Nat
      BY BackdatedGrows, <3>1
    <3> QED BY <3>1, <3>2, <3>3
  <2> QED BY <1>4, <1>5, <2>2 DEF HonestGrant
<1> QED BY <1>1, <1>2, <1>3, <1>4, <1>5 DEF Honest, Bound, TrustIInv, TrustShapes

LEMMA WireGrows ==
    ASSUME TrustIInv, \A n \in SessionIds : ConnStep(n),
           agent'.hellos \in Nat, agent'.hellos >= agent.hellos,
           IsFiniteSet(wire'), wire \subseteq wire',
           \A f \in wire' : f \in wire \/ (f.kind # "command" /\ Honest(f)')
    PROVE  WireHonest'
<1>1. \A f \in wire' : Honest(f)'
  BY HonestStays
<1>2. \A f, g \in wire' : f.kind = "command" /\ g.kind = "command"
                          /\ f.fields.grant.id = g.fields.grant.id => f = g
  BY DEF TrustIInv, WireHonest
<1> QED BY <1>1, <1>2 DEF WireHonest

\* What is remembered stays so unless the session is another one.
LEMMA SpentStays ==
    ASSUME TrustIInv, spent' = spent, wire \subseteq wire', agent'.session.now \in Nat,
           \/ /\ agent'.session.an = agent.session.an /\ agent'.session.phase = agent.session.phase
              /\ agent'.session.now >= agent.session.now /\ agent'.consumed = agent.consumed
           \/ agent'.session.an = agent.session.an /\ agent.session.phase # "open"
           \/ agent'.session.an \notin 1..agent.hellos
    PROVE  SpentIsRemembered'
<1> SUFFICES ASSUME NEW p \in spent
             PROVE  p.times = 1 /\ \E f \in wire' : Remembered(p, f)'
  BY DEF SpentIsRemembered
<1>1. p.times = 1
  BY DEF TrustIInv, SpentIsRemembered
<1>2. PICK f \in wire : Remembered(p, f)
  BY DEF TrustIInv, SpentIsRemembered
<1>3. f.kind = "command" /\ f.origin[1] \in 1..agent.hellos /\ f.fields.grant.expires \in Nat
  BY <1>2 DEF Remembered, TrustIInv, WireHonest, Honest, HonestGrant
<1>4. Remembered(p, f)'
  BY <1>2, <1>3 DEF Remembered, TrustIInv, TrustShapes
<1> QED BY <1>1, <1>2, <1>4

\* Nothing about connections or the Agent, but for the frames that are out.
LEMMA OnlySaid ==
    ASSUME TrustIInv, UNCHANGED <<trustHub, conns, agent, strays, spent, applied>>,
           IsFiniteSet(wire'), wire \subseteq wire',
           \A f \in wire' : f \in wire \/ (f.kind # "command" /\ Honest(f)')
    PROVE  TrustIInv'
<1>1. \A n \in SessionIds : ConnStep(n)
  BY DEF ConnStep, TrustIInv, TrustShapes
<1>2. agent'.hellos \in Nat /\ agent'.hellos >= agent.hellos
  BY DEF TrustIInv, TrustShapes
<1>3. WireHonest'
  BY <1>1, <1>2, WireGrows
<1>4. SpentIsRemembered'
  BY SpentStays DEF TrustIInv, TrustShapes
<1>5. TrustShapes' /\ ConnsInOrder' /\ AgentAgrees'
  BY DEF TrustIInv, TrustShapes, ConnsInOrder, AgentAgrees, EndShape, Begun, Accepted
<1>6. OpenIsProved'
  BY DEF TrustIInv, OpenIsProved, Proved
<1>7. RotationsCounted' /\ FramesStayInTheirSession'
  BY DEF TrustIInv, RotationsCounted, FramesStayInTheirSession
<1> QED BY <1>3, <1>4, <1>5, <1>6, <1>7 DEF TrustIInv

LEMMA OneMoreFrame ==
    ASSUME NEW x, wire' = wire \cup {x}, IsFiniteSet(wire)
    PROVE  IsFiniteSet(wire') /\ wire \subseteq wire'
BY FS_AddElement

\* A frame of an established session other than a command or the acceptance.
LEMMA PlainIsHonest ==
    ASSUME NEW kind, NEW key, NEW s, NEW fields, kind \notin HandshakeKinds, kind # "command"
    PROVE  LET f == Frame(kind, key, s, fields) IN f.kind # "command" /\ Honest(f)'
<1>1. PICK f : f = Frame(kind, key, s, fields)
  OBVIOUS
<1>2. f.kind = kind /\ Bound(f)
  BY <1>1, FrameIsBound
<1> QED BY <1>1, <1>2 DEF Honest, HandshakeKinds, Bound

LEMMA SayingKeeps ==
    ASSUME TrustIInv, UNCHANGED <<trustHub, conns, agent, strays, spent, applied>>,
           NEW kind, NEW key, NEW s, NEW fields, kind \notin HandshakeKinds, kind # "command",
           wire' = wire \cup {Frame(kind, key, s, fields)}
    PROVE  TrustIInv'
<1>1. PICK f : f = Frame(kind, key, s, fields)
  OBVIOUS
<1>2. f.kind # "command" /\ Honest(f)'
  BY <1>1, PlainIsHonest
<1>3. IsFiniteSet(wire') /\ wire \subseteq wire'
  BY OneMoreFrame DEF TrustIInv, TrustShapes
<1> QED BY <1>1, <1>2, <1>3, OnlySaid

-----------------------------------------------------------------------------
LEMMA SendControlKeeps ==
    ASSUME TrustIInv, NEW n \in SessionIds, NEW kind \in {"cancel", "session_end", "handoff_request"},
           SendControl(n, kind)
    PROVE  TrustIInv'
BY SayingKeeps DEF SendControl, HandshakeKinds

LEMMA VolunteersKeep ==
    ASSUME TrustIInv, NEW kind \in {"heartbeat", "report", "indeterminate_ack"}, AgentVolunteers(kind)
    PROVE  TrustIInv'
<1>1. PICK fields : wire' = wire \cup {Frame(kind, agent.session.key, agent.session, fields)}
  BY DEF AgentVolunteers
<1> QED BY <1>1, SayingKeeps DEF AgentVolunteers, HandshakeKinds

-----------------------------------------------------------------------------
\* The Agent's own steps.
AgentShape(a) ==
    /\ a = [key |-> a.key, trusted |-> a.trusted, epoch |-> a.epoch, verifiers |-> a.verifiers,
            consumed |-> a.consumed, session |-> a.session, hellos |-> a.hellos]
    /\ EndShape(a.session) /\ a.session.now \in Nat /\ a.hellos \in Nat

LEMMA AgentMoves ==
    ASSUME TrustIInv, UNCHANGED <<trustHub, conns, strays>>, AgentShape(agent'),
           agent'.hellos >= agent.hellos, IsFiniteSet(wire'), wire \subseteq wire',
           \A f \in wire' : f \in wire \/ (f.kind # "command" /\ Honest(f)'),
           AgentAgrees', SpentIsRemembered', RotationsCounted'
    PROVE  TrustIInv'
<1>1. \A n \in SessionIds : ConnStep(n)
  BY DEF ConnStep, TrustIInv, TrustShapes
<1>2. agent'.hellos \in Nat
  BY DEF AgentShape
<1>3. WireHonest'
  BY <1>1, <1>2, WireGrows
<1>4. TrustShapes'
  <2>1. EndShape(agent.session)' /\ agent'.session.now \in Nat /\ agent'.hellos \in Nat
    BY DEF AgentShape, EndShape
  <2> QED BY <2>1 DEF TrustIInv, TrustShapes, AgentShape, EndShape
<1>5. ConnsInOrder'
  BY <1>2 DEF TrustIInv, TrustShapes, ConnsInOrder, Begun
<1>6. OpenIsProved'
  BY DEF TrustIInv, OpenIsProved, Proved
<1> QED BY <1>3, <1>4, <1>5, <1>6 DEF TrustIInv, FramesStayInTheirSession

LEMMA AgentIsShaped == TrustIInv => AgentShape(agent)
BY DEF TrustIInv, TrustShapes, AgentShape

LEMMA RotationsStay ==
    ASSUME TrustIInv, agent'.epoch = agent.epoch, applied' = applied
    PROVE  RotationsCounted'
BY DEF TrustIInv, RotationsCounted

\* The Agent gives its session up.
LEMMA DownKeeps ==
    ASSUME TrustIInv, agent' = [agent EXCEPT !.session = NoSession],
           UNCHANGED <<trustHub, conns, wire, strays, spent, applied>>
    PROVE  TrustIInv'
<1>1. AgentShape(agent)
  BY AgentIsShaped
<1>2. /\ AgentShape(agent') /\ agent'.session = NoSession /\ agent'.hellos = agent.hellos
      /\ agent'.epoch = agent.epoch
  BY <1>1 DEF AgentShape, EndShape, NoSession
<1>3. AgentAgrees'
  BY <1>2 DEF AgentAgrees, NoSession, AgentShape
<1>4. SpentIsRemembered'
  BY <1>2, SpentStays DEF NoSession
<1> QED BY <1>1, <1>2, <1>3, <1>4, AgentMoves, RotationsStay DEF TrustIInv, TrustShapes, AgentShape

LEMMA EndTrustedKeeps ==
    ASSUME TrustIInv, EndTrusted
    PROVE  TrustIInv'
BY DownKeeps DEF EndTrusted

LEMMA SendHelloKeeps ==
    ASSUME TrustIInv, SendHello
    PROVE  TrustIInv'
<1> DEFINE an == agent.hellos + 1
           s == [NoSession EXCEPT !.phase = "hello", !.an = agent.hellos + 1, !.key = agent.key]
<1>1. AgentShape(agent)
  BY AgentIsShaped
<1>2. PICK t : t = s
  OBVIOUS
<1>3. EndShape(t) /\ t.phase = "hello" /\ t.an = an /\ t.now = 0
  BY <1>2 DEF EndShape, NoSession
<1>4. agent' = [agent EXCEPT !.hellos = an, !.session = t]
  BY <1>1, <1>2 DEF SendHello, AgentShape
<1>5. /\ AgentShape(agent') /\ agent'.session = t /\ agent'.hellos = an /\ agent'.epoch = agent.epoch
  <2>1. an \in Nat /\ an = agent.hellos + 1
    BY <1>1 DEF AgentShape
  <2>2. t.now \in Nat
    BY <1>3
  <2> HIDE DEF an, s
  <2>3. PICK b : b = [agent EXCEPT !.hellos = an]
    OBVIOUS
  <2>4. AgentShape(b) /\ b.hellos = an /\ b.epoch = agent.epoch
    BY <1>1, <2>1, <2>3 DEF AgentShape
  <2>5. agent' = [b EXCEPT !.session = t]
    BY <1>1, <1>4, <2>3 DEF AgentShape
  <2> QED BY <1>3, <2>2, <2>4, <2>5 DEF AgentShape
<1>6. AgentAgrees'
  BY <1>1, <1>3, <1>5 DEF AgentAgrees, AgentShape
<1>7. SpentIsRemembered'
  BY <1>1, <1>3, <1>5, SpentStays DEF SendHello, AgentShape
<1>8. PICK f : f = [kind |-> "hello", an |-> an]
  OBVIOUS
<1>9. wire' = wire \cup {f}
  BY <1>8 DEF SendHello
<1>10. IsFiniteSet(wire') /\ wire \subseteq wire'
  BY <1>9, OneMoreFrame DEF TrustIInv, TrustShapes
<1>11. f.kind # "command" /\ Honest(f)'
  BY <1>1, <1>5, <1>8 DEF Honest, AgentShape
<1>12. RotationsCounted'
  BY <1>5, RotationsStay DEF SendHello
<1> QED BY <1>1, <1>5, <1>6, <1>7, <1>9, <1>10, <1>11, <1>12, AgentMoves DEF SendHello, AgentShape

LEMMA AgentProofKeeps ==
    ASSUME TrustIInv, NEW challenge \in wire, AgentProof(challenge)
    PROVE  TrustIInv'
<1>1. CASE ~VerifyHubChallenge(challenge)
  BY <1>1, DownKeeps DEF AgentProof
<1>2. CASE VerifyHubChallenge(challenge)
  <2> DEFINE x == [kind |-> "proof", an |-> agent.session.an, hn |-> challenge.hn,
                   sig |-> Signed(agent.session.key,
                                  ProofTranscript(agent.session.an, challenge.hn, challenge.hubKey))]
  <2>1. AgentShape(agent)
    BY AgentIsShaped
  <2>2. PICK s : s = [agent.session EXCEPT !.phase = "proved", !.hn = challenge.hn]
    OBVIOUS
  <2>3. EndShape(s) /\ s.phase = "proved" /\ s.an = agent.session.an /\ s.now = agent.session.now
    BY <2>1, <2>2 DEF EndShape, AgentShape
  <2>4. agent' = [agent EXCEPT !.session = s]
    <3>1. agent' = [agent EXCEPT !.session.phase = "proved", !.session.hn = challenge.hn]
      BY <1>2 DEF AgentProof
    <3> QED BY <2>1, <2>2, <3>1 DEF AgentShape, EndShape
  <2>5. /\ AgentShape(agent') /\ agent'.session = s /\ agent'.hellos = agent.hellos
        /\ agent'.epoch = agent.epoch
    BY <2>1, <2>3, <2>4 DEF AgentShape
  <2>6. AgentAgrees'
    BY <2>1, <2>3, <2>5 DEF AgentAgrees, AgentShape, TrustIInv
  <2>7. PICK f : f = x
    OBVIOUS
  <2>8. wire' = wire \cup {f}
    BY Zenon, <1>2, <2>7 DEF AgentProof
  <2>9. IsFiniteSet(wire') /\ wire \subseteq wire'
    BY <2>8, OneMoreFrame DEF TrustIInv, TrustShapes
  <2>10. f.kind # "command" /\ Honest(f)'
    BY <2>7 DEF Honest
  <2>11. SpentIsRemembered'
    BY <2>1, <2>3, <2>5, <2>9, SpentStays DEF AgentProof, AgentShape
  <2>12. RotationsCounted'
    BY <2>5, RotationsStay DEF AgentProof
  <2> QED BY <2>1, <2>5, <2>6, <2>8, <2>9, <2>10, <2>11, <2>12, AgentMoves DEF AgentProof, AgentShape
<1> QED BY <1>1, <1>2

LEMMA EnterSessionKeeps ==
    ASSUME TrustIInv, NEW f \in wire, f.kind = "accepted", EnterSession(f)
    PROVE  TrustIInv'
<1>1. CASE ~VerifySessionAccepted(f)
  BY <1>1, DownKeeps DEF EnterSession
<1>2. CASE VerifySessionAccepted(f)
  <2>1. AgentShape(agent)
    BY AgentIsShaped
  <2>2. /\ Bound(f) /\ OfConn(f) /\ conns[f.origin[2]].gen = f.fields.gen /\ f.fields.time \in Nat
    BY DEF TrustIInv, WireHonest, Honest
  <2>3. f.origin = <<agent.session.an, agent.session.hn>>
    BY <1>2, <2>2, VerifiedIsBound DEF VerifySessionAccepted
  <2>4. PICK s : s = [agent.session EXCEPT !.phase = "open", !.gen = f.fields.gen, !.now = f.fields.time]
    OBVIOUS
  <2>5. /\ EndShape(s) /\ s.phase = "open" /\ s.an = agent.session.an /\ s.hn = agent.session.hn
        /\ s.gen = f.fields.gen /\ s.now = f.fields.time
    BY <2>1, <2>4 DEF EndShape, AgentShape
  <2>6. agent' = [agent EXCEPT !.session = s]
    BY <1>2, <2>1, <2>4 DEF EnterSession, AgentShape
  <2>7. /\ AgentShape(agent') /\ agent'.session = s /\ agent'.hellos = agent.hellos
        /\ agent'.epoch = agent.epoch
    BY <2>1, <2>2, <2>5, <2>6 DEF AgentShape
  <2>8. AgentAgrees'
    <3>1. f.origin[1] = agent.session.an /\ f.origin[2] = agent.session.hn
      BY <2>3
    <3> QED BY <2>1, <2>2, <2>5, <2>7, <3>1 DEF AgentAgrees, AgentShape, OfConn, Accepted, TrustIInv, EnterSession
  <2>9. SpentIsRemembered'
    BY <2>1, <2>2, <2>5, <2>7, SpentStays DEF EnterSession, AgentShape
  <2>10. RotationsCounted'
    BY <2>7, RotationsStay DEF EnterSession
  <2> QED BY <2>1, <2>7, <2>8, <2>9, <2>10, AgentMoves DEF EnterSession, AgentShape, TrustIInv, TrustShapes
<1> QED BY <1>1, <1>2

-----------------------------------------------------------------------------
\* The Hub's own steps.
HubShape(h) ==
    /\ h = [key |-> h.key, grantKey |-> h.grantKey, registry |-> h.registry, nonces |-> h.nonces]
    /\ h.nonces \in Nat
ConnOK(n) ==
    /\ EndShape(conns'[n]) /\ conns'[n].now \in Nat /\ ConnStep(n)
    /\ Begun(conns'[n]) => /\ n <= trustHub'.nonces /\ conns'[n].hn = n
                           /\ conns'[n].an \in 1..agent.hellos
    /\ conns'[n].phase = "open" => Proved(n)'

LEMMA HubMoves ==
    ASSUME TrustIInv, UNCHANGED <<agent, spent, applied>>, strays' = {}, HubShape(trustHub'),
           conns' = [n \in SessionIds |-> conns'[n]], \A n \in SessionIds : ConnOK(n),
           IsFiniteSet(wire'), wire \subseteq wire',
           \A f \in wire' : f \in wire \/ (f.kind # "command" /\ Honest(f)')
    PROVE  TrustIInv'
<1>1. \A n \in SessionIds : ConnStep(n)
  BY DEF ConnOK
<1>2. agent'.hellos \in Nat /\ agent'.hellos >= agent.hellos
  BY DEF TrustIInv, TrustShapes
<1>3. WireHonest'
  BY <1>1, <1>2, WireGrows
<1>4. TrustShapes'
  <2>1. \A n \in SessionIds : EndShape(conns'[n]) /\ conns'[n].now \in Nat
    BY DEF ConnOK
  <2> QED BY <2>1 DEF TrustIInv, TrustShapes, HubShape, EndShape
<1>5. ConnsInOrder'
  BY DEF ConnOK, ConnsInOrder, Begun
<1>6. AgentAgrees'
  BY <1>1 DEF TrustIInv, AgentAgrees, ConnStep, Accepted
<1>7. OpenIsProved'
  BY DEF ConnOK, OpenIsProved
<1>8. SpentIsRemembered'
  BY SpentStays DEF TrustIInv, TrustShapes
<1>9. RotationsCounted' /\ FramesStayInTheirSession'
  BY DEF TrustIInv, RotationsCounted, FramesStayInTheirSession
<1> QED BY <1>3, <1>4, <1>5, <1>6, <1>7, <1>8, <1>9 DEF TrustIInv

LEMMA HubIsShaped == TrustIInv => HubShape(trustHub) /\ strays = {} /\ IsFiniteSet(wire)
BY DEF TrustIInv, TrustShapes, HubShape, FramesStayInTheirSession

LEMMA OverIs ==
    ASSUME NEW c
    PROVE  /\ EndShape(Over(c)) /\ Over(c).phase = "over" /\ Over(c).now = 0
           /\ Over(c).an = c.an /\ Over(c).hn = c.hn /\ Over(c).gen = c.gen
<1>1. PICK z : z = [NoConn EXCEPT !.phase = "over", !.an = c.an, !.hn = c.hn, !.gen = c.gen]
  OBVIOUS
<1>2. EndShape(z) /\ z.phase = "over" /\ z.now = 0 /\ z.an = c.an /\ z.hn = c.hn /\ z.gen = c.gen
  BY <1>1 DEF EndShape, NoConn
<1> QED BY <1>1, <1>2 DEF Over

\* A connection that stays as it is, and one that is over.
LEMMA SameConn ==
    ASSUME TrustIInv, NEW n \in SessionIds, conns'[n] = conns[n], wire \subseteq wire',
           trustHub'.nonces >= trustHub.nonces, trustHub'.nonces \in Nat
    PROVE  ConnOK(n)
<1>1. EndShape(conns[n]) /\ conns[n].now \in Nat
  BY DEF TrustIInv, TrustShapes
<1>2. Begun(conns[n]) => n <= trustHub.nonces /\ conns[n].hn = n /\ conns[n].an \in 1..agent.hellos
  BY DEF TrustIInv, ConnsInOrder
<1>3. conns[n].phase = "open" => Proved(n)
  BY DEF TrustIInv, OpenIsProved
<1>4. Proved(n) => Proved(n)'
  BY DEF Proved
<1>5. n \in Nat /\ trustHub.nonces \in Nat
  BY TrustConstants DEF SessionIds, TrustIInv, TrustShapes
<1> QED BY <1>1, <1>2, <1>3, <1>4, <1>5 DEF ConnOK, ConnStep

LEMMA OverConn ==
    ASSUME TrustIInv, NEW n \in SessionIds, conns'[n] = Over(conns[n]), Begun(conns[n]),
           trustHub'.nonces = trustHub.nonces
    PROVE  ConnOK(n)
<1>1. Begun(conns[n]) => n <= trustHub.nonces /\ conns[n].hn = n /\ conns[n].an \in 1..agent.hellos
  BY DEF TrustIInv, ConnsInOrder
<1> QED BY <1>1, OverIs DEF ConnOK, ConnStep, Accepted, Begun

\* The Hub drops a connection and marks the device offline, or not.
LEMMA DropKeeps ==
    ASSUME TrustIInv, NEW n \in SessionIds, conns[n].phase \in {"challenged", "open"},
           conns' = [conns EXCEPT ![n] = Over(@)],
           trustHub' = [trustHub EXCEPT !.registry.online = FALSE] \/ trustHub' = trustHub,
           UNCHANGED <<agent, wire, strays, spent, applied>>
    PROVE  TrustIInv'
<1>1. HubShape(trustHub) /\ strays = {} /\ IsFiniteSet(wire)
  BY HubIsShaped
<1>2. HubShape(trustHub') /\ trustHub'.nonces = trustHub.nonces
  BY <1>1 DEF HubShape
<1>3. conns = [m \in SessionIds |-> conns[m]]
  BY DEF TrustIInv, TrustShapes
<1>4. conns' = [m \in SessionIds |-> IF m = n THEN Over(conns[n]) ELSE conns[m]]
  BY <1>3
<1>5. ASSUME NEW m \in SessionIds PROVE ConnOK(m)
  <2>1. CASE m = n
    BY <1>2, <1>4, <2>1, OverConn DEF Begun
  <2>2. CASE m # n
    BY <1>1, <1>2, <1>4, <2>2, SameConn DEF HubShape
  <2> QED BY <2>1, <2>2
<1>6. conns' = [m \in SessionIds |-> conns'[m]]
  BY <1>4
<1> QED BY <1>1, <1>2, <1>5, <1>6, HubMoves

LEMMA CloseConnectionKeeps ==
    ASSUME TrustIInv, NEW n \in SessionIds, CloseConnection(n)
    PROVE  TrustIInv'
BY DropKeeps DEF CloseConnection

LEMMA HubChallengeKeeps ==
    ASSUME TrustIInv, NEW hello \in wire, hello.kind = "hello", HubChallenge(hello)
    PROVE  TrustIInv'
<1> DEFINE hn == trustHub.nonces + 1
           y == [NoConn EXCEPT !.phase = "challenged", !.an = hello.an, !.hn = hn]
           x == [kind |-> "challenge", an |-> hello.an, hn |-> hn, hubKey |-> trustHub.key,
                 sig |-> Signed(trustHub.key, Transcript("hub-challenge", hello.an, hn, trustHub.key))]
<1>1. HubShape(trustHub) /\ strays = {} /\ IsFiniteSet(wire)
  BY HubIsShaped
<1>2. HubShape(trustHub') /\ trustHub'.nonces = hn /\ hn \in Nat /\ hn >= trustHub.nonces
  BY <1>1 DEF HubShape, HubChallenge
<1>3. hn \in SessionIds
  BY <1>1, TrustConstants DEF HubShape, HubChallenge, SessionIds
<1>4. PICK c : c = y
  OBVIOUS
<1>5. EndShape(c) /\ c.phase = "challenged" /\ c.an = hello.an /\ c.hn = hn /\ c.now = 0
  BY <1>4 DEF EndShape, NoConn
<1>6. PICK f : f = x
  OBVIOUS
<1>7. wire' = wire \cup {f} /\ conns' = [conns EXCEPT ![hn] = c]
  BY Zenon, <1>4, <1>6 DEF HubChallenge
<1>8. f.kind = "challenge"
  BY <1>6
<1>9. IsFiniteSet(wire') /\ wire \subseteq wire'
  BY <1>7, <1>1, OneMoreFrame
<1> HIDE DEF hn, x, y
<1>10. conns' = [m \in SessionIds |-> IF m = hn THEN c ELSE conns[m]]
  BY <1>7 DEF TrustIInv, TrustShapes
<1>11. ~Begun(conns[hn])
  BY <1>1, <1>3 DEF hn, TrustIInv, ConnsInOrder, HubShape
<1>12. hello.an \in 1..agent.hellos
  BY DEF TrustIInv, WireHonest, Honest
<1>13. ASSUME NEW m \in SessionIds PROVE ConnOK(m)
  <2>1. CASE m = hn
    BY <1>2, <1>5, <1>10, <1>11, <1>12, <2>1 DEF ConnOK, ConnStep, Begun, Accepted
  <2>2. CASE m # hn
    BY <1>2, <1>9, <1>10, <2>2, SameConn
  <2> QED BY <2>1, <2>2
<1>14. Honest(f)'
  BY <1>8 DEF Honest
<1>15. conns' = [m \in SessionIds |-> conns'[m]]
  BY <1>10
<1> QED BY <1>1, <1>2, <1>7, <1>8, <1>9, <1>13, <1>14, <1>15, HubMoves DEF HubChallenge

LEMMA HubRestartKeeps ==
    ASSUME TrustIInv, HubRestart
    PROVE  TrustIInv'
<1>1. HubShape(trustHub) /\ strays = {} /\ IsFiniteSet(wire)
  BY HubIsShaped
<1>2. HubShape(trustHub') /\ trustHub'.nonces = trustHub.nonces
  <2>1. PICK registry, key, grantKey :
           trustHub' = [trustHub EXCEPT !.registry = registry, !.key = key, !.grantKey = grantKey]
    BY DEF HubRestart
  <2>2. PICK h1 : h1 = [trustHub EXCEPT !.registry = registry]
    OBVIOUS
  <2>3. HubShape(h1) /\ h1.nonces = trustHub.nonces
    BY <1>1, <2>2 DEF HubShape
  <2>4. PICK h2 : h2 = [h1 EXCEPT !.key = key]
    OBVIOUS
  <2>5. HubShape(h2) /\ h2.nonces = trustHub.nonces
    BY <2>3, <2>4 DEF HubShape
  <2>6. trustHub' = [h2 EXCEPT !.grantKey = grantKey]
    BY <1>1, <2>1, <2>2, <2>4 DEF HubShape
  <2> QED BY <2>5, <2>6 DEF HubShape
<1>3. conns' = [n \in SessionIds |-> IF conns[n].phase = "unused" THEN NoConn ELSE Over(conns[n])]
  BY DEF HubRestart
<1>4. ASSUME NEW n \in SessionIds PROVE ConnOK(n)
  <2>1. CASE conns[n].phase = "unused"
    <3>1. conns'[n] = NoConn
      BY <1>3, <2>1
    <3> QED BY <2>1, <3>1 DEF ConnOK, ConnStep, Begun, Accepted, EndShape, NoConn
  <2>2. CASE conns[n].phase # "unused"
    BY <1>2, <1>3, <2>2, OverConn DEF Begun
  <2> QED BY <2>1, <2>2
<1>5. conns' = [n \in SessionIds |-> conns'[n]]
  BY <1>3
<1> QED BY <1>1, <1>2, <1>4, <1>5, HubMoves DEF HubRestart

LEMMA AcceptSessionKeeps ==
    ASSUME TrustIInv, NEW n \in SessionIds, NEW proof \in wire, proof.kind = "proof",
           AcceptSession(n, proof)
    PROVE  TrustIInv'
<1>1. CASE ~VerifyAgentProof(conns[n], proof)
  BY <1>1, DropKeeps DEF AcceptSession
<1>2. CASE VerifyAgentProof(conns[n], proof)
  <2>1. HubShape(trustHub) /\ strays = {} /\ IsFiniteSet(wire)
    BY HubIsShaped
  <2>2. PICK registry : registry = Connected(trustHub.registry)
    OBVIOUS
  <2>3. PICK anchor \in Anchors :
          LET opened == [conns[n] EXCEPT !.phase = "open", !.gen = registry.gen, !.key = trustHub.registry.key,
                                         !.now = anchor]
          IN /\ trustHub' = [trustHub EXCEPT !.registry = registry]
             /\ conns' = [m \in SessionIds |-> IF m = n THEN opened
                                               ELSE IF conns[m].phase = "open"
                                               THEN Over(conns[m])
                                               ELSE conns[m]]
             /\ wire' = wire \cup {Frame("accepted", trustHub.key, opened, AcceptedFields(registry.gen, anchor))}
    BY Zenon, <1>2, <2>2 DEF AcceptSession
  <2>4. PICK c : c = [conns[n] EXCEPT !.phase = "open", !.gen = registry.gen, !.key = trustHub.registry.key,
                                         !.now = anchor]
    OBVIOUS
  <2>5. EndShape(conns[n]) /\ conns[n].phase = "challenged" /\ conns[n].hn = n
        /\ conns[n].an \in 1..agent.hellos /\ n <= trustHub.nonces
    BY DEF TrustIInv, TrustShapes, ConnsInOrder, Begun, AcceptSession
  <2>6. /\ EndShape(c) /\ c.phase = "open" /\ c.an = conns[n].an /\ c.hn = n /\ c.gen = registry.gen
        /\ c.key = trustHub.registry.key /\ c.now = anchor
    <3>1. PICK b : b = conns[n] /\ EndShape(b)
      BY <2>5
    <3>2. PICK b1 : b1 = [b EXCEPT !.phase = "open", !.gen = registry.gen]
      OBVIOUS
    <3>3. EndShape(b1) /\ b1.phase = "open" /\ b1.an = b.an /\ b1.hn = b.hn /\ b1.gen = registry.gen
      BY <3>1, <3>2 DEF EndShape
    <3>4. c = [b1 EXCEPT !.key = trustHub.registry.key, !.now = anchor]
      BY <2>4, <3>1, <3>2 DEF EndShape
    <3> QED BY <2>5, <3>1, <3>3, <3>4 DEF EndShape
  <2>7. PICK f : f = Frame("accepted", trustHub.key, c, AcceptedFields(registry.gen, anchor))
    OBVIOUS
  <2>8. /\ trustHub' = [trustHub EXCEPT !.registry = registry]
        /\ conns' = [m \in SessionIds |-> IF m = n THEN c
                                          ELSE IF conns[m].phase = "open" THEN Over(conns[m]) ELSE conns[m]]
        /\ wire' = wire \cup {f}
    BY Zenon, <2>3, <2>4, <2>7
  <2>9. HubShape(trustHub') /\ trustHub'.nonces = trustHub.nonces
    BY <2>1, <2>8 DEF HubShape
  <2>10. IsFiniteSet(wire') /\ wire \subseteq wire'
    BY <2>1, <2>8, OneMoreFrame
  <2>11. conns'[n] = c
    BY <2>8
  <2>12. Proved(n)'
    <3>1. proof.an = conns[n].an /\ proof.hn = n /\ proof.sig.by = c.key
      BY <1>2, <2>5, <2>6 DEF VerifyAgentProof, Signed
    <3> QED BY <2>6, <2>10, <2>11, <3>1 DEF Proved
  <2>13. ASSUME NEW m \in SessionIds PROVE ConnOK(m)
    <3>1. CASE m = n
      BY <2>5, <2>6, <2>9, <2>11, <2>12, <3>1, TrustConstants DEF ConnOK, ConnStep, Accepted
    <3>2. CASE m # n /\ conns[m].phase = "open"
      BY <2>8, <2>9, <3>2, OverConn DEF Begun
    <3>3. CASE m # n /\ conns[m].phase # "open"
      BY <2>1, <2>8, <2>9, <2>10, <3>3, SameConn DEF HubShape
    <3> QED BY <3>1, <3>2, <3>3
  <2>14. f.kind # "command" /\ Honest(f)'
    <3>1. f.kind = "accepted" /\ Bound(f) /\ f.origin[1] = conns[n].an /\ f.origin[2] = n
          /\ f.fields = AcceptedFields(registry.gen, anchor)
      BY <2>6, <2>7, FrameIsBound
    <3>2. f.fields.gen = registry.gen /\ f.fields.time = anchor
      BY <3>1 DEF AcceptedFields, Blank
    <3> QED BY <2>6, <2>11, <3>1, <3>2, TrustConstants DEF Honest, OfConn, Accepted, Bound
  <2>15. conns' = [m \in SessionIds |-> conns'[m]]
    BY <2>8
  <2> QED BY <2>1, <2>8, <2>9, <2>10, <2>13, <2>14, <2>15, HubMoves DEF AcceptSession
<1> QED BY <1>1, <1>2

LEMMA HubReceivesKeeps ==
    ASSUME TrustIInv, NEW n \in SessionIds, NEW frame \in wire, frame.kind \in AgentKinds,
           HubReceives(n, frame)
    PROVE  TrustIInv'
<1>1. CASE ~HubAccepts(n, frame)
  BY <1>1, DropKeeps DEF HubReceives
<1>2. CASE HubAccepts(n, frame)
  <2>1. Bound(frame)
    BY DEF TrustIInv, WireHonest, Honest, AgentKinds
  <2>2. frame.origin = <<conns[n].an, conns[n].hn>>
    BY <1>2, <2>1, VerifiedIsBound DEF HubAccepts
  <2>3. strays' = strays
    <3>1. Strayed(frame, conns[n]) = {}
      BY <2>2 DEF Strayed
    <3>2. strays' = strays \cup Strayed(frame, conns[n])
      BY <1>2 DEF HubReceives
    <3> QED BY <3>1, <3>2
  <2>4. UNCHANGED <<trustHub, conns, agent, strays, spent, applied>>
    BY <1>2, <2>3 DEF HubReceives
  <2>5. CASE wire' = wire
    BY <2>4, <2>5, OnlySaid DEF TrustIInv, TrustShapes
  <2>6. CASE wire' # wire
    <3>1. PICK fields : wire' = wire \cup {Frame("heartbeat_ack", trustHub.key, conns[n], fields)}
      BY <1>2, <2>6 DEF HubReceives
    <3> QED BY <2>4, <3>1, SayingKeeps DEF HandshakeKinds
  <2> QED BY <2>5, <2>6
<1> QED BY <1>1, <1>2

LEMMA AgentHearsAckKeeps ==
    ASSUME TrustIInv, NEW frame \in wire, frame.kind \in HubKinds, AgentHearsAck(frame)
    PROVE  TrustIInv'
<1>1. CASE agent' = [agent EXCEPT !.session = NoSession] /\ UNCHANGED strays
  BY <1>1, DownKeeps DEF AgentHearsAck
<1>2. CASE ~(agent' = [agent EXCEPT !.session = NoSession] /\ UNCHANGED strays)
  <2>1. Bound(frame)
    BY DEF TrustIInv, WireHonest, Honest, HubKinds
  <2>2. /\ Verifies(frame, agent.trusted, agent.session)
        /\ strays' = strays \cup Strayed(frame, agent.session) /\ UNCHANGED agent
    BY <1>2 DEF AgentHearsAck
  <2>3. frame.origin = <<agent.session.an, agent.session.hn>>
    BY <2>1, <2>2, VerifiedIsBound
  <2>4. strays' = strays
    <3>1. Strayed(frame, agent.session) = {}
      BY <2>3 DEF Strayed
    <3> QED BY <2>2, <3>1
  <2> QED BY <2>2, <2>4, OnlySaid DEF AgentHearsAck, TrustIInv, TrustShapes
<1> QED BY <1>1, <1>2

\* A command carries a grant no command carried before.
LEMMA SendCommandKeeps ==
    ASSUME TrustIInv, NEW n \in SessionIds, NEW cap, SendCommand(n, cap)
    PROVE  TrustIInv'
<1> DEFINE c == conns[n]
           id == Cardinality(wire)
           request == [cap |-> cap, issued |-> BackdatedIssue(c.now), ttl |-> GrantTtl, id |-> id]
<1>1. PICK token : token = SignRequest(request)
  OBVIOUS
<1>2. PICK fields : fields = RemoteCommandFields(c.gen, id, cap, token)
  OBVIOUS
<1>3. PICK f : f = Frame("command", trustHub.key, c, fields)
  OBVIOUS
<1>4. c.phase = "open" /\ token # NoGrant /\ wire' = wire \cup {f}
      /\ UNCHANGED <<trustHub, conns, agent, strays, spent, applied>>
  BY Zenon, <1>1, <1>2, <1>3 DEF SendCommand, GrantAnswers
<1>5. c.now \in Nat /\ c.hn = n /\ c.an \in 1..agent.hellos /\ IsFiniteSet(wire) /\ id \in Nat
  BY <1>4, FS_CardinalityType DEF TrustIInv, TrustShapes, ConnsInOrder, Begun
<1>6. BackdatedIssue(c.now) \in Nat
  BY <1>5, BackdatedGrows
<1>7. token.issued = BackdatedIssue(c.now) /\ token.expires = BackdatedIssue(c.now) + GrantTtl /\ token.id = id
  <2>1. PICK i \in Nat : i = BackdatedIssue(c.now)
    BY <1>6
  <2>2. PICK k \in Nat : k = id
    BY <1>5
  <2>3. token = [key |-> trustHub.grantKey, cap |-> request.cap, issued |-> request.issued,
                 expires |-> request.issued + request.ttl, id |-> request.id]
    BY Zenon, <1>1, <1>4 DEF SignRequest
  <2>4. request.issued = i /\ request.ttl = GrantTtl /\ request.id = k
    BY <2>1, <2>2
  <2> HIDE DEF request
  <2> QED BY <2>1, <2>2, <2>3, <2>4
<1>8. /\ f.kind = "command" /\ Bound(f) /\ f.origin[1] = c.an /\ f.origin[2] = n /\ f.fields.grant = token
  <2>1. fields.grant = token
    BY <1>2 DEF RemoteCommandFields, Blank
  <2> QED BY <1>3, <1>5, <2>1, FrameIsBound
<1>9. f \notin wire
  <2> SUFFICES ASSUME f \in wire PROVE FALSE
    OBVIOUS
  <2>1. f.fields.grant.id < Cardinality(wire)
    BY <1>8 DEF TrustIInv, WireHonest, Honest, HonestGrant
  <2> QED BY <1>5, <1>7, <1>8, <2>1
<1>10. IsFiniteSet(wire') /\ wire \subseteq wire' /\ Cardinality(wire') = id + 1
  BY <1>4, <1>5, <1>9, FS_AddElement
<1>11. \A m \in SessionIds : ConnStep(m)
  BY <1>4 DEF ConnStep, TrustIInv, TrustShapes
<1>12. agent'.hellos \in Nat /\ agent'.hellos >= agent.hellos
  BY <1>4 DEF TrustIInv, TrustShapes
<1>13. \A g \in wire : Honest(g)'
  BY <1>10, <1>11, <1>12, HonestStays
<1>14. Honest(f)'
  <2>1. OfConn(f)'
    BY <1>4, <1>8 DEF OfConn, Accepted
  <2>2. /\ f.fields.grant.issued \in Nat /\ f.fields.grant.expires \in Nat
        /\ f.fields.grant.id \in Nat /\ f.fields.grant.id < Cardinality(wire')
    BY <1>5, <1>6, <1>7, <1>8, <1>10, TrustConstants
  <2>3. f.fields.grant.issued <= BackdatedIssue(conns'[f.origin[2]].now)
    BY <1>4, <1>6, <1>7, <1>8
  <2> QED BY <1>4, <1>5, <1>8, <2>1, <2>2, <2>3 DEF Honest, HonestGrant, Bound
<1>15. \A g, h \in wire' : g.kind = "command" /\ h.kind = "command"
                           /\ g.fields.grant.id = h.fields.grant.id => g = h
  <2>1. \A g \in wire : g.kind = "command" => g.fields.grant.id # f.fields.grant.id
    <3> SUFFICES ASSUME NEW g \in wire, g.kind = "command", g.fields.grant.id = f.fields.grant.id PROVE FALSE
      OBVIOUS
    <3>1. g.fields.grant.id < Cardinality(wire)
      BY DEF TrustIInv, WireHonest, Honest, HonestGrant
    <3> QED BY <1>5, <1>7, <1>8, <3>1
  <2> HIDE DEF c, id, request
  <2> QED BY <1>4, <2>1 DEF TrustIInv, WireHonest
<1>16. WireHonest'
  BY <1>4, <1>13, <1>14, <1>15 DEF WireHonest
<1>17. SpentIsRemembered'
  BY <1>4, <1>10, SpentStays DEF TrustIInv, TrustShapes
<1>18. TrustShapes' /\ ConnsInOrder' /\ AgentAgrees'
  BY <1>4, <1>10 DEF TrustIInv, TrustShapes, ConnsInOrder, AgentAgrees, EndShape, Begun, Accepted
<1>19. OpenIsProved'
  BY <1>4, <1>10 DEF TrustIInv, OpenIsProved, Proved
<1>20. RotationsCounted' /\ FramesStayInTheirSession'
  BY <1>4 DEF TrustIInv, RotationsCounted, FramesStayInTheirSession
<1> QED BY <1>16, <1>17, <1>18, <1>19, <1>20 DEF TrustIInv

\* Both clocks go on.
LEMMA TrustTickKeeps ==
    ASSUME TrustIInv, TrustTick
    PROVE  TrustIInv'
<1>1. conns' = [n \in SessionIds |-> IF conns[n].phase = "open" THEN [conns[n] EXCEPT !.now = @ + 1] ELSE conns[n]]
  BY DEF TrustTick
<1>2. ASSUME NEW n \in SessionIds
      PROVE  /\ EndShape(conns'[n]) /\ conns'[n].now \in Nat /\ ConnStep(n)
             /\ conns'[n].phase = conns[n].phase /\ conns'[n].hn = conns[n].hn
             /\ conns'[n].an = conns[n].an /\ conns'[n].key = conns[n].key
  <2>1. PICK c : c = conns[n] /\ EndShape(c) /\ c.now \in Nat
    BY DEF TrustIInv, TrustShapes
  <2>2. CASE c.phase = "open"
    <3>1. conns'[n] = [c EXCEPT !.now = @ + 1]
      BY <1>1, <2>1, <2>2
    <3>2. PICK d : d = [c EXCEPT !.now = @ + 1]
      OBVIOUS
    <3>3. EndShape(d) /\ d.now = c.now + 1 /\ d.phase = c.phase /\ d.hn = c.hn /\ d.an = c.an /\ d.key = c.key
          /\ d.gen = c.gen
      BY <2>1, <3>2 DEF EndShape
    <3> QED BY <2>1, <2>2, <3>1, <3>2, <3>3 DEF ConnStep, Accepted
  <2>3. CASE c.phase # "open"
    <3>1. conns'[n] = c
      BY <1>1, <2>1, <2>3
    <3> QED BY <2>1, <2>3, <3>1 DEF ConnStep, Accepted
  <2> QED BY <2>2, <2>3
<1>3. AgentShape(agent)
  BY AgentIsShaped
<1>4. /\ AgentShape(agent') /\ agent'.hellos = agent.hellos /\ agent'.epoch = agent.epoch
      /\ agent'.consumed = agent.consumed
      /\ agent'.session.an = agent.session.an /\ agent'.session.phase = agent.session.phase
      /\ agent'.session.hn = agent.session.hn /\ agent'.session.gen = agent.session.gen
      /\ agent'.session.now \in Nat /\ agent'.session.now >= agent.session.now
  <2>1. CASE agent.session.phase # "open"
    BY <1>3, <2>1 DEF TrustTick, AgentShape
  <2>2. CASE agent.session.phase = "open"
    <3>1. PICK s : s = [agent.session EXCEPT !.now = agent.session.now + 1]
      OBVIOUS
    <3>2. agent' = [agent EXCEPT !.session = s]
      BY <1>3, <2>2, <3>1 DEF TrustTick, AgentShape, EndShape
    <3>3. /\ EndShape(s) /\ s.now = agent.session.now + 1 /\ s.an = agent.session.an
          /\ s.phase = agent.session.phase /\ s.hn = agent.session.hn /\ s.gen = agent.session.gen
      BY <1>3, <3>1 DEF AgentShape, EndShape
    <3> QED BY <1>3, <3>2, <3>3 DEF AgentShape
  <2> QED BY <2>1, <2>2
<1>5. \A n \in SessionIds : ConnStep(n)
  BY <1>2
<1>6. wire' = wire /\ IsFiniteSet(wire') /\ agent'.hellos \in Nat /\ agent'.hellos >= agent.hellos
  BY <1>3, <1>4 DEF TrustTick, TrustIInv, TrustShapes, AgentShape
<1>7. WireHonest'
  BY <1>5, <1>6, WireGrows
<1>8. SpentIsRemembered'
  BY <1>4, <1>6, SpentStays DEF TrustTick
<1>9. TrustShapes'
  <2>1. \A n \in SessionIds : EndShape(conns'[n]) /\ conns'[n].now \in Nat
    BY <1>2
  <2>2. conns' = [n \in SessionIds |-> conns'[n]]
    BY <1>1
  <2> QED BY <1>4, <1>6, <2>1, <2>2 DEF TrustIInv, TrustShapes, TrustTick, AgentShape, EndShape
<1>10. ConnsInOrder'
  BY <1>2, <1>4 DEF ConnsInOrder, Begun, TrustIInv, TrustTick
<1>11. AgentAgrees'
  BY <1>4, <1>5 DEF AgentAgrees, ConnStep, TrustIInv, Accepted
<1>12. OpenIsProved'
  BY <1>2, <1>6 DEF OpenIsProved, Proved, TrustIInv
<1>13. RotationsCounted' /\ FramesStayInTheirSession'
  BY <1>4, RotationsStay DEF TrustIInv, FramesStayInTheirSession, TrustTick
<1> QED BY <1>7, <1>8, <1>9, <1>10, <1>11, <1>12, <1>13 DEF TrustIInv

\* A grant that authorises a command is in no spent record: a copy of the command
\* that was acted on before is of this session, and the ledger has it or it expired.
LEMMA AuthorisedIsFresh ==
    ASSUME TrustIInv, NEW frame \in wire, frame.kind = "command", agent.session.phase = "open",
           AgentAccepts(frame), NEW p \in spent
    PROVE  p.id # frame.fields.grant.id
<1> SUFFICES ASSUME p.id = frame.fields.grant.id PROVE FALSE
  OBVIOUS
<1>1. PICK f \in wire : Remembered(p, f)
  BY DEF TrustIInv, SpentIsRemembered
<1>2. f = frame
  BY <1>1 DEF Remembered, TrustIInv, WireHonest
<1>3. Bound(frame) /\ frame.fields.grant.expires \in Nat
  BY DEF TrustIInv, WireHonest, Honest, HonestGrant
<1>4. frame.origin[1] = agent.session.an
  BY <1>3, VerifiedIsBound DEF AgentAccepts
<1>5. GrantAuthorizes(frame.fields.grant, frame.fields.cap, agent.session.now)
  BY DEF AgentAccepts
<1>6. agent.session.now \in Nat /\ agent.session.now < frame.fields.grant.expires
  BY <1>5 DEF GrantAuthorizes, TrustIInv, TrustShapes
<1>7. PICK g \in agent.consumed : g.id = p.id /\ g.expires = frame.fields.grant.expires
  BY <1>1, <1>2, <1>3, <1>4, <1>6 DEF Remembered
<1>8. g \in Retained(agent.consumed, agent.session.now)
  BY <1>3, <1>6, <1>7 DEF Retained
<1> QED BY <1>5, <1>7, <1>8 DEF GrantAuthorizes

\* Consuming a grant keeps what is remembered and adds the grant.
LEMMA ConsumingRemembers ==
    ASSUME TrustIInv, NEW frame \in wire, frame.kind = "command", agent.session.phase = "open",
           AgentAccepts(frame), wire \subseteq wire', agent'.session = agent.session,
           agent'.consumed = Retained(agent.consumed, agent.session.now) \cup
                {[id |-> frame.fields.grant.id, expires |-> frame.fields.grant.expires]},
           spent' = spent \cup {[id |-> frame.fields.grant.id, times |-> 1]}
    PROVE  SpentIsRemembered'
<1>1. PICK gid, ex : gid = frame.fields.grant.id /\ ex = frame.fields.grant.expires
  OBVIOUS
<1>2. ASSUME NEW p \in spent PROVE p.times = 1 /\ \E f \in wire' : Remembered(p, f)'
  <2>1. PICK f \in wire : Remembered(p, f)
    BY DEF TrustIInv, SpentIsRemembered
  <2>2. f.kind = "command" /\ f.fields.grant.expires \in Nat /\ agent.session.now \in Nat
    BY <2>1 DEF Remembered, TrustIInv, TrustShapes, WireHonest, Honest, HonestGrant
  <2>3. ASSUME NEW g \in agent.consumed, g.expires = f.fields.grant.expires,
               ~(f.fields.grant.expires <= agent.session.now)
        PROVE  g \in agent'.consumed
    BY <2>2, <2>3 DEF Retained
  <2>4. Remembered(p, f)'
    BY <2>1, <2>2, <2>3 DEF Remembered
  <2> QED BY <2>1, <2>4 DEF TrustIInv, SpentIsRemembered
<1>3. ASSUME NEW p, p = [id |-> gid, times |-> 1]
      PROVE  p.times = 1 /\ Remembered(p, frame)'
  <2>1. p.id = gid /\ p.times = 1
    BY <1>3
  <2>2. PICK g : g = [id |-> gid, expires |-> ex]
    OBVIOUS
  <2>3. g \in agent'.consumed /\ g.id = gid /\ g.expires = ex
    BY <1>1, <2>2
  <2> QED BY <1>1, <2>1, <2>3 DEF Remembered
<1> QED BY <1>1, <1>2, <1>3 DEF SpentIsRemembered

LEMMA AgentReceivesKeeps ==
    ASSUME TrustIInv, NEW frame \in wire, frame.kind \in HubKinds, AgentReceives(frame)
    PROVE  TrustIInv'
<1> DEFINE s == agent.session
           back == AgentReply(frame.kind, s.gen, frame.fields.about)
<1>1. s.phase = "open" /\ frame.kind \in {"command", "cancel", "session_end", "handoff_request"}
  BY DEF AgentReceives, HubKinds
<1>2. CASE ~AgentAccepts(frame)
  BY <1>2, DownKeeps DEF AgentReceives
<1>3. CASE AgentAccepts(frame)
  <2>1. Bound(frame)
    BY <1>1 DEF TrustIInv, WireHonest, Honest
  <2>2. frame.origin = <<s.an, s.hn>>
    BY <1>3, <2>1, VerifiedIsBound DEF AgentAccepts
  <2>3. strays' = strays
    <3>1. Strayed(frame, s) = {}
      BY <2>2 DEF Strayed
    <3>2. strays' = strays \cup Strayed(frame, s)
      BY <1>3 DEF AgentReceives
    <3> QED BY <3>1, <3>2
  <2>4. PICK f : f = Frame(back.kind, s.key, s, back.fields)
    OBVIOUS
  <2>5. wire' = wire \cup {f} \/ wire' = wire
    BY Zenon, <1>3, <2>4 DEF AgentReceives
  <2>6. back.kind \in AgentKinds
    BY <1>1 DEF AgentReply, AgentKinds
  <2>7. f.kind # "command" /\ Honest(f)'
    BY <2>4, <2>6, PlainIsHonest DEF AgentKinds, HandshakeKinds
  <2>8. IsFiniteSet(wire') /\ wire \subseteq wire'
    BY <2>5, OneMoreFrame DEF TrustIInv, TrustShapes
  <2>9. UNCHANGED <<trustHub, conns, applied>>
    BY DEF AgentReceives
  <2>10. CASE frame.kind # "command"
    <3>1. UNCHANGED <<agent, spent>>
      BY <1>3, <2>10 DEF AgentReceives
    <3> QED BY <2>3, <2>5, <2>7, <2>8, <2>9, <3>1, OnlySaid
  <2>11. CASE frame.kind = "command"
    <3> DEFINE grant == frame.fields.grant
               times == 1 + (IF \E p \in spent : p.id = grant.id
                             THEN (CHOOSE p \in spent : p.id = grant.id).times ELSE 0)
    <3>1. PICK ledger : ledger = Retained(agent.consumed, s.now) \cup
                {[id |-> grant.id, expires |-> grant.expires]}
      OBVIOUS
    <3>2. AgentShape(agent)
      BY AgentIsShaped
    <3>3. agent' = [agent EXCEPT !.consumed = ledger]
      <4>1. agent' = [agent EXCEPT !.consumed = Retained(@, s.now) \cup
                                        {[id |-> grant.id, expires |-> grant.expires]}]
        BY <1>3, <2>11 DEF AgentReceives
      <4> QED BY <3>1, <3>2, <4>1 DEF AgentShape
    <3>4. /\ AgentShape(agent') /\ agent'.consumed = ledger /\ agent'.session = agent.session
          /\ agent'.hellos = agent.hellos /\ agent'.epoch = agent.epoch
      BY <3>2, <3>3 DEF AgentShape
    <3>5. \A p \in spent : p.id # grant.id
      BY <1>1, <1>3, <2>11, AuthorisedIsFresh
    <3>6. spent' = {p \in spent : p.id # grant.id} \cup {[id |-> grant.id, times |-> times]}
      BY <1>3, <2>11 DEF AgentReceives
    <3>7. times = 1 /\ {p \in spent : p.id # grant.id} = spent
      BY <3>5
    <3>8. spent' = spent \cup {[id |-> grant.id, times |-> 1]}
      BY <3>6, <3>7
    <3>9. SpentIsRemembered'
      BY <1>1, <1>3, <2>8, <2>11, <3>1, <3>4, <3>8, ConsumingRemembers
    <3>10. AgentAgrees'
      BY <2>9, <3>4 DEF AgentAgrees, TrustIInv, Accepted
    <3>11. RotationsCounted'
      BY <2>9, <3>4, RotationsStay
    <3> QED BY <2>3, <2>5, <2>7, <2>8, <2>9, <3>2, <3>4, <3>9, <3>10, <3>11, AgentMoves DEF AgentShape
  <2> QED BY <2>10, <2>11
<1> QED BY <1>2, <1>3

\* A rotation document is applied at the next epoch.
LEMMA RestartAgentKeeps ==
    ASSUME TrustIInv, NEW doc \in {NoRotation} \cup HubRotations, NEW v, RestartAgent(doc, v)
    PROVE  TrustIInv'
<1> DEFINE trusted == IF doc = NoRotation THEN agent.trusted ELSE doc.to
           epoch == IF doc = NoRotation THEN agent.epoch ELSE doc.epoch
<1>1. AgentShape(agent)
  BY AgentIsShaped
<1>2. PICK key : agent' = [agent EXCEPT !.trusted = IF doc = NoRotation THEN @ ELSE doc.to,
                                 !.epoch = IF doc = NoRotation THEN @ ELSE doc.epoch,
                                 !.verifiers = v, !.key = key, !.session = NoSession]
  BY DEF RestartAgent
<1>3. PICK t, e : t = trusted /\ e = epoch
  OBVIOUS
<1>4. agent' = [agent EXCEPT !.trusted = t, !.epoch = e, !.verifiers = v, !.key = key, !.session = NoSession]
  BY <1>1, <1>2, <1>3 DEF AgentShape
<1>5. /\ AgentShape(agent') /\ agent'.session = NoSession /\ agent'.hellos = agent.hellos /\ agent'.epoch = e
  <2>1. PICK a1 : a1 = [agent EXCEPT !.trusted = t, !.epoch = e]
    OBVIOUS
  <2>2. AgentShape(a1) /\ a1.hellos = agent.hellos /\ a1.epoch = e
    BY <1>1, <2>1 DEF AgentShape
  <2>3. PICK a2 : a2 = [a1 EXCEPT !.verifiers = v, !.key = key]
    OBVIOUS
  <2>4. AgentShape(a2) /\ a2.hellos = agent.hellos /\ a2.epoch = e
    BY <2>2, <2>3 DEF AgentShape
  <2>5. agent' = [a2 EXCEPT !.session = NoSession]
    BY <1>1, <1>4, <2>1, <2>3 DEF AgentShape
  <2> QED BY <2>4, <2>5 DEF AgentShape, EndShape, NoSession
<1>6. AgentAgrees'
  BY <1>5 DEF AgentAgrees, NoSession, AgentShape
<1>7. SpentIsRemembered'
  BY <1>5, SpentStays DEF NoSession, RestartAgent
<1>8. RotationsCounted'
  <2>1. CASE doc = NoRotation
    BY <1>3, <1>5, <2>1, RotationsStay DEF RestartAgent
  <2>2. CASE doc # NoRotation
    <3>1. doc \in HubRotations /\ doc.epoch = agent.epoch + 1 /\ applied' = Append(applied, doc)
      BY <2>2 DEF RestartAgent, RotationApplies
    <3>2. e = agent.epoch + 1
      BY <1>3, <2>2, <3>1
    <3>3. applied \in Seq(HubRotations) /\ Len(applied) = agent.epoch /\ agent.epoch \in Nat
          /\ \A i \in 1..Len(applied) : applied[i].epoch = i
      BY DEF TrustIInv, RotationsCounted
    <3>4. applied' \in Seq(HubRotations) /\ Len(applied') = Len(applied) + 1
      BY <3>1, <3>3, AppendProperties
    <3>5. ASSUME NEW i \in 1..Len(applied') PROVE applied'[i].epoch = i
      <4>1. CASE i = Len(applied) + 1
        BY <3>1, <3>3, <4>1
      <4>2. CASE i \in 1..Len(applied)
        BY <3>1, <3>3, <4>2
      <4> QED BY <3>3, <3>4, <4>1, <4>2
    <3> QED BY <1>5, <3>2, <3>3, <3>4, <3>5 DEF RotationsCounted
  <2> QED BY <2>1, <2>2
<1> QED BY <1>1, <1>5, <1>6, <1>7, <1>8, AgentMoves DEF RestartAgent, AgentShape, TrustIInv, TrustShapes

LEMMA TrustStep == TrustIInv /\ [TrustNext]_trustVars => TrustIInv'
<1> SUFFICES ASSUME TrustIInv, [TrustNext]_trustVars PROVE TrustIInv'
  OBVIOUS
<1>1. CASE UNCHANGED trustVars
  BY <1>1, OnlySaid DEF trustVars, TrustIInv, TrustShapes
<1>2. CASE TrustNext
  BY <1>2, SendHelloKeeps, HubChallengeKeeps, AgentProofKeeps, EnterSessionKeeps, AgentReceivesKeeps,
     AgentHearsAckKeeps, AcceptSessionKeeps, HubReceivesKeeps, CloseConnectionKeeps, SendCommandKeeps,
     SendControlKeeps, VolunteersKeep, EndTrustedKeeps, TrustTickKeeps, HubRestartKeeps, RestartAgentKeeps
     DEF TrustNext
<1> QED BY <1>1, <1>2

\* Within the margin a command's grant is not of the Agent's future.
LEMMA MarginSuffices ==
    ASSUME NEW now \in Nat, NEW local \in Nat, NEW issued \in Nat, issued <= BackdatedIssue(now),
           now - local <= IssuedAtSafety
    PROVE  issued <= local
BY TrustConstants DEF BackdatedIssue

\* The trusted session as a whole (v2_m0.rs, v2_m1_agent.rs, v2_m1_hub.rs): both sides act
\* only on frames of their own session, they agree on it, the ledger spends a grant once,
\* latency within the margin is not refused and a key rotation takes effect once; for any
\* number of sessions, frames, restarts and keys, whatever the carrier repeats or delays.
THEOREM SessionsAreSafe == TrustSpec => []SessionsSafe
<1>1. TrustIInv => SessionsSafe
  <2> SUFFICES ASSUME TrustIInv PROVE SessionsSafe
    OBVIOUS
  <2>1. PeersAgree
    BY DEF TrustIInv, PeersAgree, AgentAgrees, OpenIsProved, Proved
  <2>2. GrantsAreSpentOnce
    BY DEF TrustIInv, GrantsAreSpentOnce, SpentIsRemembered
  <2>3. LatencyIsNotTheFuture
    <3> SUFFICES ASSUME NEW f \in wire, f.kind = "command", agent.session.phase = "open",
                        conns[agent.session.hn].phase = "open",
                        f.origin = <<agent.session.an, agent.session.hn>>,
                        conns[agent.session.hn].now - agent.session.now <= IssuedAtSafety
                 PROVE  f.fields.grant.issued <= agent.session.now
      BY DEF LatencyIsNotTheFuture
    <3>1. PICK hn \in SessionIds : hn = agent.session.hn /\ f.origin[2] = hn
      BY DEF TrustIInv, AgentAgrees
    <3>2. f.fields.grant.issued \in Nat /\ f.fields.grant.issued <= BackdatedIssue(conns[hn].now)
      BY <3>1 DEF TrustIInv, WireHonest, Honest, HonestGrant
    <3>3. conns[hn].now \in Nat /\ agent.session.now \in Nat
      BY DEF TrustIInv, TrustShapes
    <3> QED BY <3>1, <3>2, <3>3, MarginSuffices
  <2>4. RotationsApplyOnce
    BY DEF TrustIInv, RotationsCounted, RotationsApplyOnce
  <2> QED BY <2>1, <2>2, <2>3, <2>4 DEF SessionsSafe, TrustIInv
<1> QED BY <1>1, TrustStarts, TrustStep, PTL DEF TrustSpec

=============================================================================
