--------------------------- MODULE AdmissionProofs ---------------------------
(***************************************************************************)
(* Machine-checked proofs about the admission ledger, for every set of     *)
(* devices and operation ids and every limit.                              *)
(*                                                                         *)
(* The invariants of Admission are not inductive one by one, because a     *)
(* method first settles an operation and then lets                         *)
(* start_next_for_available_capacity start another.  They are therefore    *)
(* gathered in Ledger, which is stated about explicit values, so that it   *)
(* can also be stated about the ledger in the middle of a method.          *)
(***************************************************************************)
EXTENDS Admission, SequenceTheorems, FiniteSetTheorems, TLAPS

\* Known operations have a device and a generation.
Refs(st, rf) == \A id \in OpId : st[id] # "Absent" => rf[id] \in OperationRef

Slots(st, rf, act) ==
    /\ \A d \in Device : act[d] # NoOp =>
          st[act[d]] \in Running /\ rf[act[d]].device = d
    /\ \A id \in OpId : st[id] \in Running => act[rf[id].device] = id

Queues(st, rf, qu) ==
    /\ \A d \in Device : \A i \in 1..Len(qu[d]) :
          st[qu[d][i]] = "Queued" /\ rf[qu[d][i]].device = d
    /\ \A d \in Device : \A i, j \in 1..Len(qu[d]) :
          qu[d][i] = qu[d][j] => i = j
    /\ \A id \in OpId : st[id] = "Queued" =>
          \E i \in 1..Len(qu[rf[id].device]) : qu[rf[id].device][i] = id

Blocks(st, rf, blk, ret) ==
    /\ \A d \in Device : blk[d] # NoOp =>
          st[blk[d]] = "Indeterminate" /\ rf[blk[d]].device = d /\ blk[d] \notin ret
    /\ \A id \in OpId : st[id] = "Indeterminate" /\ id \notin ret =>
          blk[rf[id].device] = id

\* Only a recovery read may run on a blocked device.
Excludes(act, blk, reads) ==
    \A d \in Device : blk[d] # NoOp /\ act[d] # NoOp => act[d] \in reads

\* The recovery lane holds running reads only, and only the recovery lane
\* can put a replay-denied id back to work.
Lane(st, ret, reads) ==
    /\ \A id \in reads : st[id] \in Running
    /\ \A id \in OpId : st[id] \in Unsettled /\ id \notin reads => id \notin ret

Capacity(act) == Cardinality(BusyDevices(act)) <= MaxGlobalActive

Types(st, rf, act, qu, blk, ret, reads) ==
    /\ st \in [OpId -> HubOperationState \cup {"Absent"}]
    /\ rf \in [OpId -> OperationRef \cup {NoRef}]
    /\ act \in [Device -> OpId \cup {NoOp}]
    /\ qu \in [Device -> Seq(OpId)]
    /\ blk \in [Device -> OpId \cup {NoOp}]
    /\ ret \subseteq OpId
    /\ reads \subseteq OpId

Ledger(st, rf, act, qu, blk, ret, reads) ==
    /\ Types(st, rf, act, qu, blk, ret, reads)
    /\ Refs(st, rf)
    /\ Slots(st, rf, act)
    /\ Queues(st, rf, qu)
    /\ Blocks(st, rf, blk, ret)
    /\ Excludes(act, blk, reads)
    /\ Lane(st, ret, reads)
    /\ Capacity(act)

\* The inductive invariant.
AdmissionIInv == Ledger(state, ref, active, queue, blocked, retired, recoveryReads)

USE DEF HubOperationState, Unsettled, Running, InFlight, Terminal

-----------------------------------------------------------------------------
(* Sequences and capacity *)

\* RemoveAt, which cancel uses on a device queue, keeps every other element
\* in order.
LEMMA RemoveAtFacts ==
    ASSUME NEW S, NEW q \in Seq(S), NEW i \in 1..Len(q)
    PROVE  /\ RemoveAt(q, i) \in Seq(S)
           /\ Len(RemoveAt(q, i)) = Len(q) - 1
           /\ \A j \in 1..(Len(q) - 1) :
                 RemoveAt(q, i)[j] = IF j < i THEN q[j] ELSE q[j + 1]
  <1> DEFINE front == SubSeq(q, 1, i - 1)
             back == SubSeq(q, i + 1, Len(q))
  <1>0. Len(q) \in Nat /\ i \in Nat /\ i >= 1 /\ i <= Len(q)
    BY LenProperties
  <1>1. \A j \in 1..Len(q) : q[j] \in S
    BY ElementOfSeq
  <1>2. /\ front \in Seq(S)
        /\ Len(front) = i - 1
        /\ \A j \in 1..(i - 1) : front[j] = q[j]
    <2>1. \A j \in 1..(i - 1) : q[j] \in S
      BY <1>0, <1>1
    <2>2. /\ front \in Seq(S)
          /\ Len(front) = IF 1 <= i - 1 THEN i - 1 - 1 + 1 ELSE 0
          /\ \A j \in 1 .. i - 1 - 1 + 1 : front[j] = q[1 + j - 1]
      BY <2>1, <1>0, SubSeqProperties
    <2> QED BY <2>2, <1>0
  <1>3. /\ back \in Seq(S)
        /\ Len(back) = Len(q) - i
        /\ \A j \in 1..(Len(q) - i) : back[j] = q[i + j]
    <2>1. \A j \in (i + 1)..Len(q) : q[j] \in S
      BY <1>0, <1>1
    <2>2. /\ back \in Seq(S)
          /\ Len(back) = IF i + 1 <= Len(q) THEN Len(q) - (i + 1) + 1 ELSE 0
          /\ \A j \in 1 .. Len(q) - (i + 1) + 1 : back[j] = q[(i + 1) + j - 1]
      BY <2>1, <1>0, SubSeqProperties
    <2> QED BY <2>2, <1>0
  <1>4. /\ front \o back \in Seq(S)
        /\ Len(front \o back) = Len(front) + Len(back)
        /\ \A j \in 1 .. Len(front) + Len(back) : (front \o back)[j] =
                     IF j <= Len(front) THEN front[j] ELSE back[j - Len(front)]
    BY <1>2, <1>3, ConcatProperties
  <1>5. RemoveAt(q, i) = front \o back
    BY DEF RemoveAt
  <1> HIDE DEF front, back
  <1>6. Len(front \o back) = Len(q) - 1
    BY <1>0, <1>2, <1>3, <1>4
  <1>7. ASSUME NEW j \in 1..(Len(q) - 1)
        PROVE (front \o back)[j] = IF j < i THEN q[j] ELSE q[j + 1]
    BY <1>0, <1>2, <1>3, <1>4
  <1> QED BY <1>4, <1>5, <1>6, <1>7

\* Giving a slot to one more device while the global limit has room keeps
\* the limit; taking one away keeps it too.
LEMMA CapacityFill ==
    ASSUME NEW act \in [Device -> OpId \cup {NoOp}], ~ GlobalBusy(act),
           NEW d \in Device, NEW id \in OpId
    PROVE  Capacity([act EXCEPT ![d] = id])
  <1> DEFINE new == [act EXCEPT ![d] = id]
  <1>1. IsFiniteSet(BusyDevices(act))
    BY AdmissionConstants, FS_Subset DEF BusyDevices
  <1>2. BusyDevices(new) = BusyDevices(act) \cup {d}
    BY AdmissionConstants DEF BusyDevices
  <1>3. /\ Cardinality(BusyDevices(act)) \in Nat
        /\ \/ Cardinality(BusyDevices(act) \cup {d}) = Cardinality(BusyDevices(act))
           \/ Cardinality(BusyDevices(act) \cup {d}) = Cardinality(BusyDevices(act)) + 1
    BY <1>1, FS_CardinalityType, FS_AddElement
  <1>4. Cardinality(BusyDevices(act)) < MaxGlobalActive
    BY <1>3, AdmissionConstants DEF GlobalBusy
  <1>5. Cardinality(BusyDevices(act) \cup {d}) <= MaxGlobalActive
    BY <1>3, <1>4, AdmissionConstants
  <1> QED BY <1>2, <1>5 DEF Capacity

\* Freeing a slot keeps the number of busy devices within the limit.
LEMMA CapacityFree ==
    ASSUME NEW act \in [Device -> OpId \cup {NoOp}], Capacity(act), NEW d \in Device
    PROVE  Capacity([act EXCEPT ![d] = NoOp])
  <1> DEFINE new == [act EXCEPT ![d] = NoOp]
  <1>1. IsFiniteSet(BusyDevices(act))
    BY AdmissionConstants, FS_Subset DEF BusyDevices
  <1>2. BusyDevices(new) \subseteq BusyDevices(act)
    BY DEF BusyDevices
  <1>3. /\ Cardinality(BusyDevices(new)) \in Nat
        /\ Cardinality(BusyDevices(act)) \in Nat
        /\ Cardinality(BusyDevices(new)) <= Cardinality(BusyDevices(act))
    BY <1>1, <1>2, FS_Subset, FS_CardinalityType
  <1> QED BY <1>3, AdmissionConstants DEF Capacity

-----------------------------------------------------------------------------
(* Starting a successor *)

\* start_next_for_available_capacity turns a consistent ledger into a
\* consistent ledger, wherever in a method it is called.
LEMMA StartNextKeepsLedger ==
    ASSUME NEW st, NEW act, NEW blk, NEW ret, NEW reads, NEW preferred \in Device,
           Ledger(st, ref, act, queue, blk, ret, reads),
           StartNextForAvailableCapacity(preferred, st, act, blk)
    PROVE  Ledger(state', ref, active', queue', blk, ret, reads)
  <1>1. CASE StartNothing(preferred, st, act, blk)
    BY <1>1 DEF StartNothing
  <1>2. CASE StartOne(preferred, st, act, blk)
    <2>1. PICK d \in Startable(preferred, act, blk) :
            /\ state' = [st EXCEPT ![Head(queue[d])] = "ActiveNotDispatched"]
            /\ active' = [act EXCEPT ![d] = Head(queue[d])]
            /\ queue' = [queue EXCEPT ![d] = Tail(queue[d])]
      BY <1>2 DEF StartOne
    <2>2. /\ d \in Device /\ act[d] = NoOp /\ blk[d] = NoOp
          /\ queue[d] # << >> /\ ~ GlobalBusy(act)
      BY <2>1 DEF Startable, CanPop
    <2>3. /\ Types(st, ref, act, queue, blk, ret, reads)
          /\ Refs(st, ref) /\ Slots(st, ref, act) /\ Queues(st, ref, queue)
          /\ Blocks(st, ref, blk, ret) /\ Excludes(act, blk, reads)
          /\ Lane(st, ret, reads)
      BY DEF Ledger
    <2>4. queue[d] \in Seq(OpId)
      BY <2>2, <2>3 DEF Types
    <2> DEFINE n == Head(queue[d])
               t == Tail(queue[d])
    <2>5. /\ n \in OpId /\ t \in Seq(OpId)
          /\ Len(queue[d]) \in Nat /\ Len(queue[d]) > 0
          /\ Len(t) = Len(queue[d]) - 1
          /\ \A i \in 1..Len(t) : t[i] = queue[d][i + 1]
          /\ n = queue[d][1]
      BY <2>2, <2>4, HeadTailProperties, EmptySeq, LenProperties
    <2> HIDE DEF n, t
    <2>6. /\ state' = [st EXCEPT ![n] = "ActiveNotDispatched"]
          /\ active' = [act EXCEPT ![d] = n]
          /\ queue' = [queue EXCEPT ![d] = t]
      BY <2>1 DEF n, t
    <2>7. st[n] = "Queued" /\ ref[n].device = d
      BY <2>2, <2>3, <2>5 DEF Queues
    <2>8. Types(state', ref, active', queue', blk, ret, reads)
      BY <2>2, <2>3, <2>5, <2>6 DEF Types
    <2>9. Refs(state', ref)
      BY <2>3, <2>6, <2>7 DEF Refs, Types
    <2>10. n # NoOp
      BY <2>5, AdmissionConstants
    <2>11. Slots(state', ref, active')
      <3>1. ASSUME NEW e \in Device, active'[e] # NoOp
            PROVE  state'[active'[e]] \in Running /\ ref[active'[e]].device = e
        BY <3>1, <2>2, <2>3, <2>5, <2>6, <2>7 DEF Slots, Types
      <3>2. ASSUME NEW id \in OpId, state'[id] \in Running
            PROVE  active'[ref[id].device] = id
        <4>1. CASE id = n
          BY <4>1, <2>2, <2>3, <2>6, <2>7 DEF Types
        <4>2. CASE id # n
          <5>1. st[id] \in Running
            BY <3>2, <4>2, <2>3, <2>5, <2>6 DEF Types
          <5>2. act[ref[id].device] = id /\ ref[id] \in OperationRef
            BY <5>1, <2>3 DEF Slots, Refs
          <5>3. ref[id].device # d
            BY <5>2, <2>2, AdmissionConstants
          <5> QED BY <5>2, <5>3, <2>2, <2>3, <2>6 DEF Types, OperationRef
        <4> QED BY <4>1, <4>2
      <3> QED BY <3>1, <3>2 DEF Slots
    <2>12. Queues(state', ref, queue')
      <3>1. ASSUME NEW e \in Device, NEW i \in 1..Len(queue'[e])
            PROVE  state'[queue'[e][i]] = "Queued" /\ ref[queue'[e][i]].device = e
        <4>1. CASE e = d
          <5>1. queue'[e] = t /\ i \in 1..Len(t)
            BY <4>1, <2>2, <2>3, <2>6 DEF Types
          <5>2. /\ t[i] = queue[d][i + 1] /\ i + 1 \in 1..Len(queue[d])
                /\ 1 \in 1..Len(queue[d]) /\ i + 1 # 1
            BY <5>1, <2>5
          <5>3. t[i] # n
            BY <5>2, <2>2, <2>3, <2>5 DEF Queues
          <5>4. st[t[i]] = "Queued" /\ ref[t[i]].device = d
            BY <5>2, <2>2, <2>3 DEF Queues
          <5>5. t[i] \in OpId
            BY <5>1, <2>5, ElementOfSeq
          <5> QED BY <5>1, <5>3, <5>4, <5>5, <4>1, <2>3, <2>6 DEF Types
        <4>2. CASE e # d
          <5>1. queue'[e] = queue[e] /\ i \in 1..Len(queue[e])
            BY <4>2, <2>2, <2>3, <2>6 DEF Types
          <5>2. st[queue[e][i]] = "Queued" /\ ref[queue[e][i]].device = e
            BY <5>1, <2>3 DEF Queues
          <5>3. queue[e][i] \in OpId
            BY <5>1, <2>3, ElementOfSeq DEF Types
          <5> QED BY <5>1, <5>2, <5>3, <4>2, <2>3, <2>6, <2>7 DEF Types
        <4> QED BY <4>1, <4>2
      <3>2. ASSUME NEW e \in Device, NEW i \in 1..Len(queue'[e]),
                   NEW j \in 1..Len(queue'[e]), queue'[e][i] = queue'[e][j]
            PROVE  i = j
        <4>1. CASE e = d
          <5>1. queue'[e] = t /\ i \in 1..Len(t) /\ j \in 1..Len(t)
            BY <4>1, <2>2, <2>3, <2>6 DEF Types
          <5>2. /\ t[i] = t[j] /\ t[i] = queue[d][i + 1] /\ t[j] = queue[d][j + 1]
                /\ i + 1 \in 1..Len(queue[d]) /\ j + 1 \in 1..Len(queue[d])
            <6>1. t[i] = t[j]
              BY <5>1, <3>2
            <6> QED BY <5>1, <6>1, <2>5
          <5>3. i + 1 = j + 1
            <6>1. \A k, l \in 1..Len(queue[d]) : queue[d][k] = queue[d][l] => k = l
              BY <2>2, <2>3 DEF Queues
            <6>2. queue[d][i + 1] = queue[d][j + 1]
              BY <5>2
            <6> QED BY <5>2, <6>1, <6>2
          <5> QED BY <5>1, <5>3
        <4>2. CASE e # d
          BY <3>2, <4>2, <2>2, <2>3, <2>6 DEF Types, Queues
        <4> QED BY <4>1, <4>2
      <3>3. ASSUME NEW id \in OpId, state'[id] = "Queued"
            PROVE  \E i \in 1..Len(queue'[ref[id].device]) : queue'[ref[id].device][i] = id
        <4>1. id # n /\ st[id] = "Queued"
          BY <3>3, <2>3, <2>5, <2>6 DEF Types
        <4>2. PICK i \in 1..Len(queue[ref[id].device]) : queue[ref[id].device][i] = id
          BY <4>1, <2>3 DEF Queues
        <4>3. ref[id].device \in Device
          BY <4>1, <2>3 DEF Refs, OperationRef
        <4>4. CASE ref[id].device = d
          <5>1. i # 1 /\ i \in 1..Len(queue[d])
            BY <4>1, <4>2, <4>4, <2>5
          <5>2. i - 1 \in 1..Len(t) /\ t[i - 1] = id
            BY <5>1, <4>2, <4>4, <2>5
          <5>3. queue'[ref[id].device] = t
            BY <4>4, <2>2, <2>3, <2>6 DEF Types
          <5> QED BY <5>2, <5>3
        <4>5. CASE ref[id].device # d
          BY <4>2, <4>3, <4>5, <2>3, <2>6 DEF Types
        <4> QED BY <4>4, <4>5
      <3> QED BY <3>1, <3>2, <3>3 DEF Queues
    <2>13. Blocks(state', ref, blk, ret)
      BY <2>3, <2>5, <2>6, <2>7 DEF Blocks, Types
    <2>14. Excludes(active', blk, reads)
      BY <2>2, <2>3, <2>6 DEF Excludes, Types
    <2>15. Lane(state', ret, reads)
      BY <2>3, <2>5, <2>6, <2>7 DEF Lane, Types
    <2>16. Capacity(active')
      BY <2>2, <2>3, <2>5, <2>6, CapacityFill DEF Types
    <2> QED BY <2>8, <2>9, <2>11, <2>12, <2>13, <2>14, <2>15, <2>16 DEF Ledger
  <1> QED BY <1>1, <1>2 DEF StartNextForAvailableCapacity

-----------------------------------------------------------------------------
(* One lemma per method *)

\* The parts of the invariant, for the steps that use only some of them.
LEMMA LedgerParts ==
    ASSUME AdmissionIInv
    PROVE  /\ Types(state, ref, active, queue, blocked, retired, recoveryReads)
           /\ Refs(state, ref)
           /\ Slots(state, ref, active)
           /\ Queues(state, ref, queue)
           /\ Blocks(state, ref, blocked, retired)
           /\ Excludes(active, blocked, recoveryReads)
           /\ Lane(state, retired, recoveryReads)
           /\ Capacity(active)
  BY DEF AdmissionIInv, Ledger

\* start, used by admit and by admit_recovery_read_only, on a free slot.
LEMMA StartKeepsLedger ==
    ASSUME AdmissionIInv, NEW id \in OpId, NEW d \in Device, NEW g \in Generation,
           ~ Known(id), active[d] = NoOp, ~ GlobalBusy(active),
           Start(id, d, g), queue' = queue, blocked' = blocked, retired' = retired,
           \/ recoveryReads' = recoveryReads /\ id \notin retired /\ blocked[d] = NoOp
           \/ recoveryReads' = recoveryReads \cup {id}
    PROVE  AdmissionIInv'
  <1> USE LedgerParts, AdmissionConstants
  <1>0. /\ state[id] = "Absent"
        /\ state' = [state EXCEPT ![id] = "ActiveNotDispatched"]
        /\ ref' = [ref EXCEPT ![id] = [device |-> d, generation |-> g]]
        /\ active' = [active EXCEPT ![d] = id]
        /\ [device |-> d, generation |-> g] \in OperationRef
    BY DEF Start, Known, OperationRef
  <1>1. Types(state', ref', active', queue', blocked', retired', recoveryReads')
    BY <1>0 DEF Types
  <1>2. Refs(state', ref')
    BY <1>0 DEF Refs, Types
  <1>3. Slots(state', ref', active')
    <2>1. ASSUME NEW e \in Device, active'[e] # NoOp
          PROVE  state'[active'[e]] \in Running /\ ref'[active'[e]].device = e
      BY <2>1, <1>0 DEF Slots, Types
    <2>2. ASSUME NEW o \in OpId, state'[o] \in Running
          PROVE  active'[ref'[o].device] = o
      <3>1. CASE o = id
        BY <3>1, <1>0 DEF Types
      <3>2. CASE o # id
        <4>1. state[o] \in Running /\ ref'[o] = ref[o]
          BY <2>2, <3>2, <1>0 DEF Types
        <4>2. active[ref[o].device] = o /\ ref[o].device \in Device
          BY <4>1 DEF Slots, Refs, OperationRef
        <4>3. ref[o].device # d
          BY <4>2
        <4> QED BY <4>1, <4>2, <4>3, <1>0 DEF Types
      <3> QED BY <3>1, <3>2
    <2> QED BY <2>1, <2>2 DEF Slots
  <1>4. Queues(state', ref', queue')
    <2>1. \A e \in Device : \A i \in 1..Len(queue[e]) : queue[e][i] \in OpId /\ queue[e][i] # id
      BY <1>0, ElementOfSeq DEF Queues, Types
    <2>2. \A e \in Device : \A i \in 1..Len(queue[e]) :
            state'[queue[e][i]] = "Queued" /\ ref'[queue[e][i]].device = e
      BY <2>1, <1>0 DEF Queues, Types
    <2>3. ASSUME NEW o \in OpId, state'[o] = "Queued"
          PROVE  \E i \in 1..Len(queue[ref'[o].device]) : queue[ref'[o].device][i] = o
      BY <2>3, <1>0 DEF Queues, Types
    <2> QED BY <2>2, <2>3 DEF Queues
  <1>5. Blocks(state', ref', blocked', retired')
    BY <1>0 DEF Blocks, Types
  <1>6. Excludes(active', blocked', recoveryReads')
    BY <1>0 DEF Excludes, Types
  <1>7. Lane(state', retired', recoveryReads')
    BY <1>0 DEF Lane, Types
  <1>8. Capacity(active')
    BY <1>0, CapacityFill DEF Types
  <1> QED BY <1>1, <1>2, <1>3, <1>4, <1>5, <1>6, <1>7, <1>8 DEF AdmissionIInv, Ledger

\* admit's second branch, which appends to a device queue, keeps the ledger
\* consistent.
LEMMA AdmitQueuedKeepsLedger ==
    ASSUME AdmissionIInv, NEW id \in OpId, NEW d \in Device, NEW g \in Generation,
           AdmitQueued(id, d, g)
    PROVE  AdmissionIInv'
  <1> USE LedgerParts, AdmissionConstants
  <1>0. /\ state[id] = "Absent" /\ id \notin retired
        /\ state' = [state EXCEPT ![id] = "Queued"]
        /\ ref' = [ref EXCEPT ![id] = [device |-> d, generation |-> g]]
        /\ queue' = [queue EXCEPT ![d] = Append(queue[d], id)]
        /\ [device |-> d, generation |-> g] \in OperationRef
        /\ active' = active /\ blocked' = blocked
        /\ retired' = retired /\ recoveryReads' = recoveryReads
    BY DEF AdmitQueued, Known, OperationRef
  <1> DEFINE q == queue[d]
             r == Append(q, id)
  <1>q. q \in Seq(OpId)
    BY DEF Types
  <1>r. /\ r \in Seq(OpId) /\ Len(r) = Len(q) + 1 /\ Len(q) \in Nat
        /\ \A i \in 1..Len(q) : r[i] = q[i]
        /\ r[Len(q) + 1] = id
    BY <1>q, AppendProperties, LenProperties
  <1>e. queue' = [queue EXCEPT ![d] = r]
    BY <1>0
  <1> HIDE DEF r
  <1>1. Types(state', ref', active', queue', blocked', retired', recoveryReads')
    BY <1>0, <1>r, <1>e DEF Types
  <1>2. Refs(state', ref')
    BY <1>0 DEF Refs, Types
  <1>3. Slots(state', ref', active')
    <2>1. ASSUME NEW e \in Device, active[e] # NoOp
          PROVE  state'[active[e]] \in Running /\ ref'[active[e]].device = e
      BY <2>1, <1>0 DEF Slots, Types
    <2>2. ASSUME NEW o \in OpId, state'[o] \in Running
          PROVE  active[ref'[o].device] = o
      BY <2>2, <1>0 DEF Slots, Types
    <2> QED BY <1>0, <2>1, <2>2 DEF Slots
  <1>4. Queues(state', ref', queue')
    <2>0. \A e \in Device : \A i \in 1..Len(queue[e]) : queue[e][i] \in OpId /\ queue[e][i] # id
      BY <1>0, ElementOfSeq DEF Queues, Types
    <2>1. ASSUME NEW e \in Device, NEW i \in 1..Len(queue'[e])
          PROVE  state'[queue'[e][i]] = "Queued" /\ ref'[queue'[e][i]].device = e
      <3>1. CASE e # d
        <4>1. queue'[e] = queue[e] /\ i \in 1..Len(queue[e])
          BY <3>1, <1>e DEF Types
        <4> QED BY <4>1, <2>0, <1>0 DEF Queues, Types
      <3>2. CASE e = d /\ i = Len(q) + 1
        BY <3>2, <1>0, <1>e, <1>r DEF Types
      <3>3. CASE e = d /\ i # Len(q) + 1
        <4>1. queue'[e] = r /\ i \in 1..Len(q)
          BY <3>3, <1>e, <1>r DEF Types
        <4>2. r[i] = q[i] /\ state[q[i]] = "Queued" /\ ref[q[i]].device = d
          BY <4>1, <1>r DEF Queues
        <4>3. q[i] \in OpId /\ q[i] # id
          BY <4>1, <2>0
        <4> QED BY <4>1, <4>2, <4>3, <3>3, <1>0 DEF Types
      <3> QED BY <3>1, <3>2, <3>3
    <2>2. ASSUME NEW e \in Device, NEW i \in 1..Len(queue'[e]),
                 NEW j \in 1..Len(queue'[e]), queue'[e][i] = queue'[e][j]
          PROVE  i = j
      <3>1. CASE e # d
        BY <2>2, <3>1, <1>e DEF Queues, Types
      <3>2. CASE e = d
        <4>1. queue'[e] = r /\ r[i] = r[j] /\ i \in 1..(Len(q) + 1) /\ j \in 1..(Len(q) + 1)
          BY <2>2, <3>2, <1>e, <1>r DEF Types
        <4>2. \A k \in 1..Len(q) : q[k] # id /\ r[k] = q[k]
          BY <2>0, <1>r
        <4>3. \A k, l \in 1..Len(q) : q[k] = q[l] => k = l
          BY DEF Queues
        <4>4. CASE i \in 1..Len(q) /\ j \in 1..Len(q)
          BY <4>1, <4>2, <4>3, <4>4
        <4>5. CASE i = Len(q) + 1 \/ j = Len(q) + 1
          BY <4>1, <4>2, <4>5, <1>r
        <4> QED BY <4>1, <4>4, <4>5, <1>r
      <3> QED BY <3>1, <3>2
    <2>3. ASSUME NEW o \in OpId, state'[o] = "Queued"
          PROVE  \E i \in 1..Len(queue'[ref'[o].device]) : queue'[ref'[o].device][i] = o
      <3>1. CASE o = id
        <4>1. ref'[o].device = d /\ queue'[d] = r
          BY <3>1, <1>0, <1>e DEF Types
        <4>2. Len(q) + 1 \in 1..Len(r)
          BY <1>r
        <4> QED BY <4>1, <4>2, <3>1, <1>r
      <3>2. CASE o # id
        <4>1. state[o] = "Queued" /\ ref'[o] = ref[o] /\ ref[o].device \in Device
          BY <2>3, <3>2, <1>0 DEF Types, Refs, OperationRef
        <4>2. PICK i \in 1..Len(queue[ref[o].device]) : queue[ref[o].device][i] = o
          BY <4>1 DEF Queues
        <4>3. CASE ref[o].device = d
          <5>1. i \in 1..Len(r) /\ r[i] = o /\ queue'[d] = r
            BY <4>2, <4>3, <1>r, <1>e DEF Types
          <5> QED BY <5>1, <4>1, <4>3
        <4>4. CASE ref[o].device # d
          BY <4>1, <4>2, <4>4, <1>e DEF Types
        <4> QED BY <4>3, <4>4
      <3> QED BY <3>1, <3>2
    <2> QED BY <2>1, <2>2, <2>3 DEF Queues
  <1>5. Blocks(state', ref', blocked', retired')
    BY <1>0 DEF Blocks, Types
  <1>6. Excludes(active', blocked', recoveryReads')
    BY <1>0 DEF Excludes
  <1>7. Lane(state', retired', recoveryReads')
    BY <1>0 DEF Lane, Types
  <1>8. Capacity(active')
    BY <1>0 DEF Capacity
  <1> QED BY <1>1, <1>2, <1>3, <1>4, <1>5, <1>6, <1>7, <1>8 DEF AdmissionIInv, Ledger

\* A running operation moves between running states: mark_dispatched and the
\* cancellation of a dispatched operation.
LEMMA RunningMoveKeepsLedger ==
    ASSUME AdmissionIInv, NEW id \in OpId, NEW to \in Running,
           state[id] \in Running, state' = [state EXCEPT ![id] = to],
           UNCHANGED <<ref, active, queue, blocked, retired, recoveryReads>>
    PROVE  AdmissionIInv'
  <1> USE LedgerParts
  <1>1. Types(state', ref, active, queue, blocked, retired, recoveryReads)
    BY DEF Types
  <1>2. Refs(state', ref)
    BY DEF Refs, Types
  <1>3. Slots(state', ref, active)
    BY DEF Slots, Types
  <1>4. Queues(state', ref, queue)
    <2>1. \A e \in Device : \A i \in 1..Len(queue[e]) : queue[e][i] \in OpId /\ queue[e][i] # id
      BY ElementOfSeq DEF Queues, Types
    <2>2. \A e \in Device : \A i \in 1..Len(queue[e]) :
            state'[queue[e][i]] = "Queued" /\ ref[queue[e][i]].device = e
      BY <2>1 DEF Queues, Types
    <2>3. \A o \in OpId : state'[o] = "Queued" => state[o] = "Queued"
      BY DEF Types
    <2> QED BY <2>2, <2>3 DEF Queues
  <1>5. Blocks(state', ref, blocked, retired)
    BY DEF Blocks, Types
  <1>6. Lane(state', retired, recoveryReads)
    BY DEF Lane, Types
  <1> QED BY <1>1, <1>2, <1>3, <1>4, <1>5, <1>6 DEF AdmissionIInv, Ledger

\* Device queues depend only on which operations are Queued, and where.
LEMMA QueuesFollowQueued ==
    ASSUME AdmissionIInv, NEW st, NEW rf,
           \A o \in OpId : st[o] = "Queued" <=> state[o] = "Queued",
           \A o \in OpId : state[o] = "Queued" => rf[o] = ref[o]
    PROVE  Queues(st, rf, queue)
  <1> USE LedgerParts
  <1>1. \A e \in Device : \A i \in 1..Len(queue[e]) :
          queue[e][i] \in OpId /\ state[queue[e][i]] = "Queued" /\ ref[queue[e][i]].device = e
    BY ElementOfSeq DEF Queues, Types
  <1>2. \A e \in Device : \A i \in 1..Len(queue[e]) :
          st[queue[e][i]] = "Queued" /\ rf[queue[e][i]].device = e
    BY <1>1
  <1>3. ASSUME NEW o \in OpId, st[o] = "Queued"
        PROVE  \E i \in 1..Len(queue[rf[o].device]) : queue[rf[o].device][i] = o
    BY <1>3 DEF Queues
  <1> QED BY <1>2, <1>3 DEF Queues

\* cancel of a queued operation removes exactly its queue entry.
LEMMA CancelQueuedKeepsLedger ==
    ASSUME AdmissionIInv, NEW id \in OpId, CancelQueued(id)
    PROVE  AdmissionIInv'
  <1> USE LedgerParts
  <1> DEFINE d == ref[id].device
             q == queue[d]
             at == {i \in DOMAIN q : q[i] = id}
             k == CHOOSE i \in at : \A j \in at : i <= j
             r == RemoveAt(q, k)
  <1>0. /\ state[id] = "Queued"
        /\ state' = [state EXCEPT ![id] = "Cancelled"]
        /\ queue' = DropQueued(id)
        /\ ref' = ref /\ active' = active /\ blocked' = blocked
        /\ retired' = retired /\ recoveryReads' = recoveryReads
    BY DEF CancelQueued
  <1>1. d \in Device /\ q \in Seq(OpId)
    BY <1>0 DEF Refs, OperationRef, Types
  <1>2. Len(q) \in Nat /\ DOMAIN q = 1..Len(q)
    BY <1>1, LenProperties
  <1>3. PICK m \in 1..Len(q) : q[m] = id
    BY <1>0, <1>1 DEF Queues
  <1>4. \A i \in 1..Len(q) : q[i] = id => i = m
    BY <1>1, <1>3 DEF Queues
  <1>5. at = {m}
    BY <1>2, <1>3, <1>4
  <1>6. k = m
    BY <1>5, <1>3
  <1>7. queue' = [queue EXCEPT ![d] = RemoveAt(q, m)]
    <2>1. queue' = IF at = {} THEN queue ELSE [queue EXCEPT ![d] = r]
      BY <1>0 DEF DropQueued, Of
    <2> HIDE DEF at, k
    <2> QED BY <2>1, <1>5, <1>6
  <1> HIDE DEF at, k, r
  <1> DEFINE p == RemoveAt(q, m)
  <1>8. /\ p \in Seq(OpId) /\ Len(p) = Len(q) - 1
        /\ \A j \in 1..Len(p) : p[j] = IF j < m THEN q[j] ELSE q[j + 1]
    BY <1>1, <1>3, RemoveAtFacts
  <1>9. queue' = [queue EXCEPT ![d] = p]
    BY <1>7
  <1> HIDE DEF p
  <1>10. \A j \in 1..Len(p) :
           \E i \in 1..Len(q) : i # m /\ p[j] = q[i] /\ i = IF j < m THEN j ELSE j + 1
    BY <1>2, <1>3, <1>8
  <1>11. Types(state', ref, active, queue', blocked, retired, recoveryReads)
    BY <1>0, <1>1, <1>8, <1>9 DEF Types
  <1>12. Refs(state', ref)
    BY <1>0 DEF Refs, Types
  <1>13. Slots(state', ref, active)
    BY <1>0 DEF Slots, Types
  <1>14. Queues(state', ref, queue')
    <2>1. ASSUME NEW e \in Device, NEW j \in 1..Len(queue'[e])
          PROVE  state'[queue'[e][j]] = "Queued" /\ ref[queue'[e][j]].device = e
      <3>1. CASE e = d
        <4>1. queue'[e] = p /\ j \in 1..Len(p)
          BY <3>1, <1>1, <1>9 DEF Types
        <4>2. PICK i \in 1..Len(q) : i # m /\ p[j] = q[i]
          BY <4>1, <1>10
        <4>3. q[i] # id /\ q[i] \in OpId /\ state[q[i]] = "Queued" /\ ref[q[i]].device = d
          BY <4>2, <1>1, <1>4, ElementOfSeq DEF Queues
        <4> QED BY <4>1, <4>2, <4>3, <3>1, <1>0 DEF Types
      <3>2. CASE e # d
        <4>1. queue'[e] = queue[e] /\ j \in 1..Len(queue[e])
          BY <3>2, <1>1, <1>9 DEF Types
        <4>2. queue[e][j] \in OpId /\ state[queue[e][j]] = "Queued" /\ ref[queue[e][j]].device = e
          BY <4>1, ElementOfSeq DEF Queues, Types
        <4> QED BY <4>1, <4>2, <3>2, <1>0 DEF Types
      <3> QED BY <3>1, <3>2
    <2>2. ASSUME NEW e \in Device, NEW i \in 1..Len(queue'[e]),
                 NEW j \in 1..Len(queue'[e]), queue'[e][i] = queue'[e][j]
          PROVE  i = j
      <3>1. CASE e = d
        <4>1. queue'[e] = p /\ i \in 1..Len(p) /\ j \in 1..Len(p) /\ p[i] = p[j]
          BY <2>2, <3>1, <1>1, <1>9 DEF Types
        <4>2. PICK a \in 1..Len(q) : p[i] = q[a] /\ a = IF i < m THEN i ELSE i + 1
          BY <4>1, <1>10
        <4>3. PICK b \in 1..Len(q) : p[j] = q[b] /\ b = IF j < m THEN j ELSE j + 1
          BY <4>1, <1>10
        <4>4. a = b
          <5>1. \A k1, k2 \in 1..Len(q) : q[k1] = q[k2] => k1 = k2
            BY <1>1 DEF Queues
          <5> QED BY <4>1, <4>2, <4>3, <5>1
        <4> QED BY <4>1, <4>2, <4>3, <4>4, <1>2, <1>3, <1>8
      <3>2. CASE e # d
        BY <2>2, <3>2, <1>1, <1>9 DEF Types, Queues
      <3> QED BY <3>1, <3>2
    <2>3. ASSUME NEW o \in OpId, state'[o] = "Queued"
          PROVE  \E j \in 1..Len(queue'[ref[o].device]) : queue'[ref[o].device][j] = o
      <3>1. o # id /\ state[o] = "Queued" /\ ref[o].device \in Device
        BY <2>3, <1>0 DEF Types, Refs, OperationRef
      <3>2. PICK i \in 1..Len(queue[ref[o].device]) : queue[ref[o].device][i] = o
        BY <3>1 DEF Queues
      <3>3. CASE ref[o].device = d
        <4>1. i \in 1..Len(q) /\ q[i] = o /\ i # m
          BY <3>1, <3>2, <3>3, <1>3
        <4>2. queue'[ref[o].device] = p
          BY <3>3, <1>1, <1>9 DEF Types
        <4>3. CASE i < m
          <5>1. i \in 1..Len(p) /\ p[i] = o
            BY <4>1, <4>3, <1>2, <1>3, <1>8
          <5> QED BY <4>2, <5>1
        <4>4. CASE i > m
          <5>1. i - 1 \in 1..Len(p) /\ p[i - 1] = o
            BY <4>1, <4>4, <1>2, <1>3, <1>8
          <5> QED BY <4>2, <5>1
        <4> QED BY <4>1, <4>3, <4>4, <1>2
      <3>4. CASE ref[o].device # d
        BY <3>1, <3>2, <3>4, <1>9 DEF Types
      <3> QED BY <3>3, <3>4
    <2> QED BY <2>1, <2>2, <2>3 DEF Queues
  <1>15. Blocks(state', ref, blocked, retired)
    BY <1>0 DEF Blocks, Types
  <1>16. Lane(state', retired, recoveryReads)
    BY <1>0 DEF Lane, Types
  <1> QED BY <1>0, <1>11, <1>12, <1>13, <1>14, <1>15, <1>16 DEF AdmissionIInv, Ledger

\* Settling a running operation: cancel before dispatch, finalize_terminal
\* and fail_recovery_read_only.
LEMMA FreeSlotKeepsLedger ==
    ASSUME AdmissionIInv, NEW id \in OpId, NEW terminal \in Terminal,
           state[id] \in Running, FreeSlot(id, terminal),
           UNCHANGED <<ref, blocked, retired>>
    PROVE  AdmissionIInv'
  <1> USE LedgerParts, AdmissionConstants
  <1> DEFINE d == ref[id].device
             st == [state EXCEPT ![id] = terminal]
             act == [active EXCEPT ![d] = NoOp]
             reads == recoveryReads \ {id}
  <1>0. d \in Device /\ active[d] = id
    BY DEF Refs, OperationRef, Slots
  <1>1. Types(st, ref, act, queue, blocked, retired, reads)
    BY <1>0 DEF Types
  <1>2. Refs(st, ref)
    BY DEF Refs, Types
  <1>3. Slots(st, ref, act)
    <2>1. ASSUME NEW e \in Device, act[e] # NoOp
          PROVE  st[act[e]] \in Running /\ ref[act[e]].device = e
      BY <2>1, <1>0 DEF Slots, Types
    <2>2. ASSUME NEW o \in OpId, st[o] \in Running
          PROVE  act[ref[o].device] = o
      <3>1. o # id /\ state[o] \in Running /\ ref[o].device \in Device
        BY <2>2 DEF Types, Refs, OperationRef
      <3>2. active[ref[o].device] = o
        BY <3>1 DEF Slots
      <3> QED BY <3>1, <3>2, <1>0 DEF Types
    <2> QED BY <2>1, <2>2 DEF Slots
  <1>4. Queues(st, ref, queue)
    BY QueuesFollowQueued DEF Types
  <1>5. Blocks(st, ref, blocked, retired)
    BY DEF Blocks, Types
  <1>6. Excludes(act, blocked, reads)
    <2>1. ASSUME NEW e \in Device, blocked[e] # NoOp, act[e] # NoOp
          PROVE  act[e] \in reads
      <3>1. e # d /\ act[e] = active[e]
        BY <2>1, <1>0 DEF Types
      <3>2. active[e] \in recoveryReads /\ ref[active[e]].device = e
        BY <2>1, <3>1 DEF Excludes, Slots
      <3> QED BY <3>1, <3>2
    <2> QED BY <2>1 DEF Excludes
  <1>7. Lane(st, retired, reads)
    BY DEF Lane, Types
  <1>8. Capacity(act)
    BY <1>0, CapacityFree DEF Types
  <1>9. Ledger(st, ref, act, queue, blocked, retired, reads)
    BY <1>1, <1>2, <1>3, <1>4, <1>5, <1>6, <1>7, <1>8 DEF Ledger
  <1>10. StartNextForAvailableCapacity(d, st, act, blocked) /\ recoveryReads' = reads
    BY DEF FreeSlot, Of
  <1> HIDE DEF st, act, reads, d
  <1>11. Ledger(state', ref, active', queue', blocked, retired, reads)
    BY <1>0, <1>9, <1>10, StartNextKeepsLedger
  <1> QED BY <1>10, <1>11 DEF AdmissionIInv

\* mark_indeterminate moves the running operation from the slot to the block.
LEMMA MarkIndeterminateKeepsLedger ==
    ASSUME AdmissionIInv, NEW id \in OpId, AdmissionMarkIndeterminate(id)
    PROVE  AdmissionIInv'
  <1> USE LedgerParts, AdmissionConstants
  <1> DEFINE d == ref[id].device
  <1>0. /\ state[id] \in InFlight /\ id \notin recoveryReads
        /\ state' = [state EXCEPT ![id] = "Indeterminate"]
        /\ active' = [active EXCEPT ![d] = NoOp]
        /\ blocked' = [blocked EXCEPT ![d] = id]
        /\ ref' = ref /\ queue' = queue
        /\ retired' = retired /\ recoveryReads' = recoveryReads
    BY DEF AdmissionMarkIndeterminate, Of
  <1>1. d \in Device /\ active[d] = id /\ id \notin retired
    BY <1>0 DEF Refs, OperationRef, Slots, Lane
  <1>2. blocked[d] = NoOp
    BY <1>0, <1>1 DEF Excludes
  <1>3. Types(state', ref, active', queue, blocked', retired, recoveryReads)
    BY <1>0, <1>1 DEF Types
  <1>4. Refs(state', ref)
    BY <1>0 DEF Refs, Types
  <1>5. Slots(state', ref, active')
    <2>1. ASSUME NEW e \in Device, active'[e] # NoOp
          PROVE  state'[active'[e]] \in Running /\ ref[active'[e]].device = e
      BY <2>1, <1>0, <1>1 DEF Slots, Types
    <2>2. ASSUME NEW o \in OpId, state'[o] \in Running
          PROVE  active'[ref[o].device] = o
      <3>1. o # id /\ state[o] \in Running /\ ref[o].device \in Device
        BY <2>2, <1>0 DEF Types, Refs, OperationRef
      <3>2. active[ref[o].device] = o
        BY <3>1 DEF Slots
      <3> QED BY <3>1, <3>2, <1>0, <1>1 DEF Types
    <2> QED BY <2>1, <2>2 DEF Slots
  <1>6. Queues(state', ref, queue)
    BY <1>0, QueuesFollowQueued DEF Types
  <1>7. Blocks(state', ref, blocked', retired)
    <2>1. ASSUME NEW e \in Device, blocked'[e] # NoOp
          PROVE  /\ state'[blocked'[e]] = "Indeterminate"
                 /\ ref[blocked'[e]].device = e /\ blocked'[e] \notin retired
      BY <2>1, <1>0, <1>1 DEF Blocks, Types
    <2>2. ASSUME NEW o \in OpId, state'[o] = "Indeterminate", o \notin retired
          PROVE  blocked'[ref[o].device] = o
      <3>1. CASE o = id
        BY <3>1, <1>0, <1>1 DEF Types
      <3>2. CASE o # id
        <4>1. state[o] = "Indeterminate" /\ ref[o].device \in Device
          BY <2>2, <3>2, <1>0 DEF Types, Refs, OperationRef
        <4>2. blocked[ref[o].device] = o
          BY <4>1, <2>2 DEF Blocks
        <4> QED BY <4>1, <4>2, <1>0, <1>2 DEF Types
      <3> QED BY <3>1, <3>2
    <2> QED BY <2>1, <2>2 DEF Blocks
  <1>8. Excludes(active', blocked', recoveryReads)
    BY <1>0, <1>1 DEF Excludes, Types
  <1>9. Lane(state', retired, recoveryReads)
    BY <1>0 DEF Lane, Types
  <1>10. Capacity(active')
    BY <1>0, <1>1, CapacityFree DEF Types
  <1> QED BY <1>0, <1>3, <1>4, <1>5, <1>6, <1>7, <1>8, <1>9, <1>10 DEF AdmissionIInv, Ledger

\* The blocking operation leaves the device: resolve_indeterminate and
\* reconcile_indeterminate_terminal give it an outcome, retire_indeterminate
\* puts it into the replay-deny index instead.
LEMMA UnblockKeepsLedger ==
    ASSUME AdmissionIInv, NEW id \in OpId, NEW outcome, IsBlocking(id), Unblock(id, outcome),
           \/ outcome \in Terminal /\ retired' = retired
           \/ outcome = "Indeterminate" /\ retired' = retired \cup {id},
           UNCHANGED <<ref, recoveryReads>>
    PROVE  AdmissionIInv'
  <1> USE LedgerParts, AdmissionConstants
  <1> DEFINE d == ref[id].device
             st == [state EXCEPT ![id] = outcome]
             blk == [blocked EXCEPT ![d] = NoOp]
  <1>0. d \in Device /\ blocked[d] = id /\ state[id] = "Indeterminate"
    BY DEF IsBlocking, Of, Refs, OperationRef
  <1>r. retired \subseteq retired' /\ retired' \subseteq retired \cup {id}
    OBVIOUS
  <1>1. Types(st, ref, active, queue, blk, retired', recoveryReads)
    BY <1>0 DEF Types
  <1>2. Refs(st, ref)
    BY <1>0 DEF Refs, Types
  <1>3. Slots(st, ref, active)
    BY <1>0 DEF Slots, Types
  <1>4. Queues(st, ref, queue)
    BY <1>0, QueuesFollowQueued DEF Types
  <1>5. Blocks(st, ref, blk, retired')
    <2>1. ASSUME NEW e \in Device, blk[e] # NoOp
          PROVE  st[blk[e]] = "Indeterminate" /\ ref[blk[e]].device = e /\ blk[e] \notin retired'
      <3>1. e # d /\ blk[e] = blocked[e]
        BY <2>1, <1>0 DEF Types
      <3>2. state[blocked[e]] = "Indeterminate" /\ ref[blocked[e]].device = e /\ blocked[e] \notin retired
        BY <2>1, <3>1 DEF Blocks
      <3>3. blocked[e] # id /\ blocked[e] \in OpId
        BY <2>1, <3>1, <3>2 DEF Types
      <3> QED BY <3>1, <3>2, <3>3, <1>r DEF Types
    <2>2. ASSUME NEW o \in OpId, st[o] = "Indeterminate", o \notin retired'
          PROVE  blk[ref[o].device] = o
      <3>1. o # id
        BY <2>2, <1>0 DEF Types
      <3>2. state[o] = "Indeterminate" /\ o \notin retired /\ ref[o].device \in Device
        BY <2>2, <3>1, <1>r DEF Types, Refs, OperationRef
      <3>3. blocked[ref[o].device] = o
        BY <3>2 DEF Blocks
      <3> QED BY <3>1, <3>2, <3>3, <1>0 DEF Types
    <2> QED BY <2>1, <2>2 DEF Blocks
  <1>6. Excludes(active, blk, recoveryReads)
    BY <1>0 DEF Excludes, Types
  <1>7. Lane(st, retired', recoveryReads)
    BY <1>0, <1>r DEF Lane, Types
  <1>8. Ledger(st, ref, active, queue, blk, retired', recoveryReads)
    BY <1>1, <1>2, <1>3, <1>4, <1>5, <1>6, <1>7 DEF Ledger
  <1>9. StartNextForAvailableCapacity(d, st, active, blk) /\ blocked' = blk
    BY DEF Unblock, Of
  <1> HIDE DEF st, blk, d
  <1>10. Ledger(state', ref, active', queue', blk, retired', recoveryReads)
    BY <1>0, <1>8, <1>9, StartNextKeepsLedger
  <1> QED BY <1>9, <1>10 DEF AdmissionIInv

\* retire_indeterminate_and_cancel_queued keeps the ledger consistent.
LEMMA RetireAndCancelQueuedKeepsLedger ==
    ASSUME AdmissionIInv, NEW id \in OpId, RetireIndeterminateAndCancelQueued(id)
    PROVE  AdmissionIInv'
  <1> USE LedgerParts, AdmissionConstants
  <1> DEFINE d == ref[id].device
             queued == {queue[d][i] : i \in DOMAIN queue[d]}
  <1>0. /\ state[id] = "Indeterminate" /\ blocked[d] = id
        /\ retired' = retired \cup {id}
        /\ blocked' = [blocked EXCEPT ![d] = NoOp]
        /\ queue' = [queue EXCEPT ![d] = << >>]
        /\ state' = [q \in OpId |-> IF q \in queued THEN "Cancelled" ELSE state[q]]
        /\ ref' = ref /\ active' = active /\ recoveryReads' = recoveryReads
    BY DEF RetireIndeterminateAndCancelQueued, MayRetire, IsBlocking, Of
  <1>1. d \in Device /\ queue[d] \in Seq(OpId)
    BY <1>0 DEF Refs, OperationRef, Types
  <1>2. DOMAIN queue[d] = 1..Len(queue[d])
    BY <1>1, LenProperties
  <1>3. \A q \in queued : q \in OpId /\ state[q] = "Queued" /\ ref[q].device = d
    BY <1>1, <1>2, ElementOfSeq DEF Queues
  <1>4. \A o \in OpId : state[o] = "Queued" /\ ref[o].device = d => o \in queued
    BY <1>1, <1>2 DEF Queues
  <1> HIDE DEF queued
  <1>5. Types(state', ref, active, queue', blocked', retired', recoveryReads)
    BY <1>0, <1>1 DEF Types
  <1>6. Refs(state', ref)
    BY <1>0, <1>3 DEF Refs, Types
  <1>7. Slots(state', ref, active)
    BY <1>0, <1>3 DEF Slots, Types
  <1>8. Queues(state', ref, queue')
    <2>1. \A e \in Device : \A i \in 1..Len(queue'[e]) : e # d /\ queue'[e] = queue[e]
      BY <1>0, <1>1 DEF Types
    <2>2. \A e \in Device : \A i \in 1..Len(queue[e]) : queue[e][i] \in OpId
      BY ElementOfSeq DEF Types
    <2>3. ASSUME NEW e \in Device, NEW i \in 1..Len(queue'[e])
          PROVE  state'[queue'[e][i]] = "Queued" /\ ref[queue'[e][i]].device = e
      BY <2>1, <2>2, <1>0, <1>3 DEF Queues, Types
    <2>4. ASSUME NEW e \in Device, NEW i \in 1..Len(queue'[e]),
                 NEW j \in 1..Len(queue'[e]), queue'[e][i] = queue'[e][j]
          PROVE  i = j
      BY <2>1, <2>4 DEF Queues
    <2>5. ASSUME NEW o \in OpId, state'[o] = "Queued"
          PROVE  \E i \in 1..Len(queue'[ref[o].device]) : queue'[ref[o].device][i] = o
      <3>1. state[o] = "Queued" /\ ref[o].device \in Device /\ ref[o].device # d
        BY <2>5, <1>0, <1>4 DEF Types, Refs, OperationRef
      <3> QED BY <3>1, <1>0 DEF Queues, Types
    <2> QED BY <2>3, <2>4, <2>5 DEF Queues
  <1>9. Blocks(state', ref, blocked', retired')
    <2>1. ASSUME NEW e \in Device, blocked'[e] # NoOp
          PROVE  /\ state'[blocked'[e]] = "Indeterminate"
                 /\ ref[blocked'[e]].device = e /\ blocked'[e] \notin retired'
      <3>1. e # d /\ blocked'[e] = blocked[e]
        BY <2>1, <1>0, <1>1 DEF Types
      <3>2. state[blocked[e]] = "Indeterminate" /\ ref[blocked[e]].device = e /\ blocked[e] \notin retired
        BY <2>1, <3>1 DEF Blocks
      <3>3. blocked[e] # id /\ blocked[e] \in OpId
        BY <2>1, <3>1, <3>2 DEF Types
      <3> QED BY <3>1, <3>2, <3>3, <1>0, <1>3 DEF Types
    <2>2. ASSUME NEW o \in OpId, state'[o] = "Indeterminate", o \notin retired'
          PROVE  blocked'[ref[o].device] = o
      <3>1. o # id /\ state[o] = "Indeterminate" /\ o \notin retired /\ ref[o].device \in Device
        BY <2>2, <1>0 DEF Types, Refs, OperationRef
      <3>2. blocked[ref[o].device] = o
        BY <3>1 DEF Blocks
      <3> QED BY <3>1, <3>2, <1>0 DEF Types
    <2> QED BY <2>1, <2>2 DEF Blocks
  <1>10. Excludes(active, blocked', recoveryReads)
    BY <1>0, <1>1 DEF Excludes, Types
  <1>11. Lane(state', retired', recoveryReads)
    BY <1>0, <1>3 DEF Lane, Types
  <1> QED BY <1>0, <1>5, <1>6, <1>7, <1>8, <1>9, <1>10, <1>11 DEF AdmissionIInv, Ledger

\* Forgetting settled operations: prune_terminal_before_generation and
\* compact_retired_indeterminate_detail.
LEMMA ForgetKeepsLedger ==
    ASSUME AdmissionIInv, NEW gone \in SUBSET OpId,
           \A o \in gone : \/ state[o] \in Terminal
                           \/ state[o] = "Indeterminate" /\ o \in retired,
           state' = [o \in OpId |-> IF o \in gone THEN "Absent" ELSE state[o]],
           ref' = [o \in OpId |-> IF o \in gone THEN NoRef ELSE ref[o]],
           recoveryReads' = recoveryReads \ gone,
           UNCHANGED <<active, queue, blocked, retired>>
    PROVE  AdmissionIInv'
  <1> USE LedgerParts, AdmissionConstants
  <1>1. Types(state', ref', active, queue, blocked, retired, recoveryReads')
    BY DEF Types
  <1>2. Refs(state', ref')
    BY DEF Refs, Types
  <1>3. Slots(state', ref', active)
    <2>1. ASSUME NEW e \in Device, active[e] # NoOp
          PROVE  state'[active[e]] \in Running /\ ref'[active[e]].device = e
      <3>1. active[e] \in OpId /\ state[active[e]] \in Running /\ ref[active[e]].device = e
        BY <2>1 DEF Slots, Types
      <3>2. active[e] \notin gone
        BY <3>1
      <3> QED BY <3>1, <3>2
    <2>2. ASSUME NEW o \in OpId, state'[o] \in Running
          PROVE  active[ref'[o].device] = o
      <3>1. o \notin gone
        BY <2>2
      <3> QED BY <2>2, <3>1 DEF Slots
    <2> QED BY <2>1, <2>2 DEF Slots
  <1>4. Queues(state', ref', queue)
    BY QueuesFollowQueued DEF Types
  <1>5. Blocks(state', ref', blocked, retired)
    <2>1. ASSUME NEW e \in Device, blocked[e] # NoOp
          PROVE  /\ state'[blocked[e]] = "Indeterminate"
                 /\ ref'[blocked[e]].device = e /\ blocked[e] \notin retired
      <3>1. /\ blocked[e] \in OpId /\ state[blocked[e]] = "Indeterminate"
            /\ ref[blocked[e]].device = e /\ blocked[e] \notin retired
        BY <2>1 DEF Blocks, Types
      <3>2. blocked[e] \notin gone
        BY <3>1
      <3> QED BY <3>1, <3>2
    <2>2. ASSUME NEW o \in OpId, state'[o] = "Indeterminate", o \notin retired
          PROVE  blocked[ref'[o].device] = o
      <3>1. o \notin gone
        BY <2>2
      <3> QED BY <2>2, <3>1 DEF Blocks
    <2> QED BY <2>1, <2>2 DEF Blocks
  <1>6. Excludes(active, blocked, recoveryReads')
    <2>1. ASSUME NEW e \in Device, blocked[e] # NoOp, active[e] # NoOp
          PROVE  active[e] \in recoveryReads'
      <3>1. active[e] \in recoveryReads /\ state[active[e]] \in Running
        BY <2>1 DEF Excludes, Slots
      <3> QED BY <3>1
    <2> QED BY <2>1 DEF Excludes
  <1>7. Lane(state', retired, recoveryReads')
    BY DEF Lane, Types
  <1> QED BY <1>1, <1>2, <1>3, <1>4, <1>5, <1>6, <1>7 DEF AdmissionIInv, Ledger

\* A snapshot that restore_after_restart accepts restores a consistent ledger.
LEMMA RestartKeepsLedger ==
    ASSUME AdmissionIInv, AdmissionRestart
    PROVE  AdmissionIInv'
  <1> USE LedgerParts, AdmissionConstants
  <1>0. /\ AdmissionRestoreAccepts
        /\ state' = [id \in OpId |-> SnapshotState(id)]
        /\ active' = [d \in Device |-> NoOp]
        /\ queue' = [d \in Device |-> << >>]
        /\ blocked' = [d \in Device |->
                         IF RestoredBlockers(d) = {} THEN NoOp
                         ELSE CHOOSE id \in RestoredBlockers(d) : TRUE]
        /\ recoveryReads' = {} /\ ref' = ref /\ retired' = retired
    BY DEF AdmissionRestart
  <1>1. \A id \in OpId : /\ SnapshotState(id) \in Terminal \cup {"Indeterminate", "Absent"}
                         /\ SnapshotState(id) # "Absent" => state[id] # "Absent"
    BY DEF SnapshotState, Types
  <1>2. \A d \in Device : \A id \in RestoredBlockers(d) :
          /\ id \in OpId /\ SnapshotState(id) = "Indeterminate"
          /\ id \notin retired /\ ref[id].device = d
    BY DEF RestoredBlockers, Of
  <1>3. \A d \in Device : RestoredBlockers(d) # {} => blocked'[d] \in RestoredBlockers(d)
    BY <1>0
  <1>4. \A d \in Device : RestoredBlockers(d) = {} => blocked'[d] = NoOp
    BY <1>0
  <1>5. Types(state', ref, active', queue', blocked', retired, {})
    <2>1. \A d \in Device : blocked'[d] \in OpId \cup {NoOp}
      BY <1>2, <1>3, <1>4
    <2>2. state' \in [OpId -> HubOperationState \cup {"Absent"}]
      BY <1>0, <1>1
    <2>3. queue' \in [Device -> Seq(OpId)]
      BY <1>0
    <2>4. blocked' \in [Device -> OpId \cup {NoOp}]
      BY <1>0, <2>1
    <2> QED BY <1>0, <2>2, <2>3, <2>4 DEF Types
  <1>6. Refs(state', ref)
    BY <1>0, <1>1 DEF Refs
  <1>7. Slots(state', ref, active')
    BY <1>0, <1>1 DEF Slots
  <1>8. Queues(state', ref, queue')
    BY <1>0, <1>1 DEF Queues
  <1>9. Blocks(state', ref, blocked', retired)
    <2>1. ASSUME NEW d \in Device, blocked'[d] # NoOp
          PROVE  /\ state'[blocked'[d]] = "Indeterminate"
                 /\ ref[blocked'[d]].device = d /\ blocked'[d] \notin retired
      BY <2>1, <1>0, <1>2, <1>3, <1>4
    <2>2. ASSUME NEW id \in OpId, state'[id] = "Indeterminate", id \notin retired
          PROVE  blocked'[ref[id].device] = id
      <3>1. SnapshotState(id) = "Indeterminate" /\ ref[id].device \in Device
        BY <2>2, <1>0, <1>1 DEF Refs, OperationRef
      <3>2. id \in RestoredBlockers(ref[id].device)
        BY <2>2, <3>1 DEF RestoredBlockers, Of
      <3>3. blocked'[ref[id].device] \in RestoredBlockers(ref[id].device)
        BY <3>1, <3>2, <1>3
      <3> QED BY <3>1, <3>2, <3>3, <1>0 DEF AdmissionRestoreAccepts
    <2> QED BY <2>1, <2>2 DEF Blocks
  <1>10. Excludes(active', blocked', {})
    BY <1>0 DEF Excludes
  <1>11. Lane(state', retired, {})
    BY <1>0, <1>1 DEF Lane
  <1>12. Capacity(active')
    <2>1. BusyDevices(active') = {}
      BY <1>0 DEF BusyDevices
    <2>2. Cardinality({}) = 0
      BY FS_EmptySet
    <2> QED BY <2>1, <2>2 DEF Capacity
  <1> QED BY <1>0, <1>5, <1>6, <1>7, <1>8, <1>9, <1>10, <1>11, <1>12 DEF AdmissionIInv, Ledger

-----------------------------------------------------------------------------
(* The theorems *)

\* A new controller is consistent.
LEMMA InitLedger == AdmissionInit => AdmissionIInv
  <1> SUFFICES ASSUME AdmissionInit PROVE AdmissionIInv
    OBVIOUS
  <1> USE DEF AdmissionInit
  <1>1. Types(state, ref, active, queue, blocked, retired, recoveryReads)
    BY DEF Types
  <1>2. Refs(state, ref) /\ Slots(state, ref, active) /\ Queues(state, ref, queue)
    BY DEF Refs, Slots, Queues
  <1>3. /\ Blocks(state, ref, blocked, retired)
        /\ Excludes(active, blocked, recoveryReads)
        /\ Lane(state, retired, recoveryReads)
    BY DEF Blocks, Excludes, Lane
  <1>4. Capacity(active)
    <2>1. Cardinality({}) = 0 /\ BusyDevices(active) = {}
      BY FS_EmptySet DEF BusyDevices
    <2>2. Cardinality(BusyDevices(active)) = 0
      BY <2>1
    <2> HIDE DEF AdmissionInit
    <2> QED BY <2>2, AdmissionConstants DEF Capacity
  <1> QED BY <1>1, <1>2, <1>3, <1>4 DEF AdmissionIInv, Ledger

\* Every method keeps the ledger consistent.
LEMMA NextKeepsLedger ==
    ASSUME AdmissionIInv, [AdmissionNext]_admissionVars
    PROVE  AdmissionIInv'
  <1>1. CASE UNCHANGED admissionVars
    BY <1>1 DEF admissionVars, AdmissionIInv
  <1>2. ASSUME NEW id \in OpId, NEW d \in Device, NEW g \in Generation,
               AdmitNow(id, d, g) \/ AdmitRecoveryReadOnly(id, d, g)
        PROVE  AdmissionIInv'
    BY <1>2, StartKeepsLedger DEF AdmitNow, AdmitRecoveryReadOnly
  <1>3. ASSUME NEW id \in OpId, NEW d \in Device, NEW g \in Generation,
               AdmitQueued(id, d, g)
        PROVE  AdmissionIInv'
    BY <1>3, AdmitQueuedKeepsLedger
  <1>4. ASSUME NEW id \in OpId, AdmissionMarkDispatched(id) \/ CancelDispatched(id)
        PROVE  AdmissionIInv'
    BY <1>4, RunningMoveKeepsLedger DEF AdmissionMarkDispatched, CancelDispatched
  <1>5. ASSUME NEW id \in OpId, CancelQueued(id)
        PROVE  AdmissionIInv'
    BY <1>5, CancelQueuedKeepsLedger
  <1>6. ASSUME NEW id \in OpId, CancelActive(id) \/ FailRecoveryReadOnly(id)
        PROVE  AdmissionIInv'
    BY <1>6, FreeSlotKeepsLedger DEF CancelActive, FailRecoveryReadOnly
  <1>7. ASSUME NEW id \in OpId, AdmissionMarkIndeterminate(id)
        PROVE  AdmissionIInv'
    BY <1>7, MarkIndeterminateKeepsLedger
  <1>8. ASSUME NEW id \in OpId, AdmissionRetireIndeterminate(id)
        PROVE  AdmissionIInv'
    BY <1>8, UnblockKeepsLedger DEF AdmissionRetireIndeterminate, MayRetire
  <1>9. ASSUME NEW id \in OpId, RetireIndeterminateAndCancelQueued(id)
        PROVE  AdmissionIInv'
    BY <1>9, RetireAndCancelQueuedKeepsLedger
  <1>10. ASSUME NEW id \in OpId, CompactRetiredIndeterminateDetail(id)
         PROVE  AdmissionIInv'
    <2>1. /\ state[id] = "Indeterminate" /\ id \in retired
          /\ state' = [o \in OpId |-> IF o \in {id} THEN "Absent" ELSE state[o]]
          /\ ref' = [o \in OpId |-> IF o \in {id} THEN NoRef ELSE ref[o]]
          /\ recoveryReads' = recoveryReads \ {id}
          /\ UNCHANGED <<active, queue, blocked, retired>>
      BY <1>10, LedgerParts DEF CompactRetiredIndeterminateDetail, Types
    <2> QED BY <2>1, ForgetKeepsLedger
  <1>11. ASSUME NEW id \in OpId, NEW terminal \in Terminal, FinalizeTerminal(id, terminal)
         PROVE  AdmissionIInv'
    BY <1>11, FreeSlotKeepsLedger DEF FinalizeTerminal
  <1>12. ASSUME NEW id \in OpId, NEW terminal \in Terminal,
                \/ ReconcileIndeterminateTerminal(id, terminal)
                \/ AdmissionResolveIndeterminate(id, terminal)
         PROVE  AdmissionIInv'
    BY <1>12, UnblockKeepsLedger
       DEF ReconcileIndeterminateTerminal, AdmissionResolveIndeterminate
  <1>13. ASSUME NEW d \in Device, NEW g \in Generation,
                AdmissionPruneTerminalBeforeGeneration(d, g)
         PROVE  AdmissionIInv'
    <2>1. Prunable(d, g) \subseteq OpId /\ \A o \in Prunable(d, g) : state[o] \in Terminal
      BY DEF Prunable
    <2> QED BY <1>13, <2>1, ForgetKeepsLedger DEF AdmissionPruneTerminalBeforeGeneration
  <1>14. CASE AdmissionRestart
    BY <1>14, RestartKeepsLedger
  <1> QED BY <1>1, <1>2, <1>3, <1>4, <1>5, <1>6, <1>7, <1>8, <1>9, <1>10, <1>11,
             <1>12, <1>13, <1>14 DEF AdmissionNext

\* The inductive invariant holds in every reachable state of the controller.
THEOREM AdmissionInvariant == AdmissionSpec => []AdmissionIInv
  BY InitLedger, NextKeepsLedger, PTL DEF AdmissionSpec

\* Every field of HubAdmissionController keeps its type.
THEOREM AdmissionTypeCorrect == AdmissionSpec => []AdmissionTypeOK
  <1>1. AdmissionIInv => AdmissionTypeOK
    BY LedgerParts DEF Types, AdmissionTypeOK
  <1> QED BY <1>1, AdmissionInvariant, PTL

\* No slot of active_by_device is leaked or shared.
THEOREM SlotsAreExact == AdmissionSpec => []SlotsMatchRunning
  <1>1. AdmissionIInv => SlotsMatchRunning
    BY LedgerParts DEF Slots, SlotsMatchRunning, Of
  <1> QED BY <1>1, AdmissionInvariant, PTL

\* queued_by_device holds exactly the queued operations, once each.
THEOREM QueuesAreExact == AdmissionSpec => []QueuesMatchQueued
  <1>1. AdmissionIInv => QueuesMatchQueued
    BY LedgerParts DEF Queues, QueuesMatchQueued, Of
  <1> QED BY <1>1, AdmissionInvariant, PTL

\* A device is blocked by exactly its one unretired indeterminate operation.
THEOREM BlocksAreExact == AdmissionSpec => []BlockedMatchesIndeterminate
  <1>1. AdmissionIInv => BlockedMatchesIndeterminate
    BY LedgerParts DEF Blocks, BlockedMatchesIndeterminate, Of
  <1> QED BY <1>1, AdmissionInvariant, PTL

\* Only a recovery read ever runs on a desktop that an ambiguous operation
\* blocks.
THEOREM QuarantineIsExclusive == AdmissionSpec => []QuarantineExcludesMutation
  <1>1. AdmissionIInv => QuarantineExcludesMutation
    BY LedgerParts DEF Excludes, QuarantineExcludesMutation
  <1> QED BY <1>1, AdmissionInvariant, PTL

\* max_global_active is never exceeded.
THEOREM CapacityIsRespected == AdmissionSpec => []GlobalCapacityRespected
  <1>1. AdmissionIInv => GlobalCapacityRespected
    BY LedgerParts DEF Capacity, GlobalCapacityRespected
  <1> QED BY <1>1, AdmissionInvariant, PTL

-----------------------------------------------------------------------------
(* Finality of outcomes *)

\* start_next_for_available_capacity touches no operation but a queued one.
LEMMA StartNextTouchesQueuedOnly ==
    ASSUME NEW st \in [OpId -> HubOperationState \cup {"Absent"}],
           NEW act, NEW blk, NEW preferred \in Device,
           queue \in [Device -> Seq(OpId)], Queues(st, ref, queue),
           StartNextForAvailableCapacity(preferred, st, act, blk),
           NEW o \in OpId, st[o] # "Queued"
    PROVE  state'[o] = st[o]
  <1>1. CASE StartNothing(preferred, st, act, blk)
    BY <1>1 DEF StartNothing
  <1>2. CASE StartOne(preferred, st, act, blk)
    <2>1. PICK d \in Startable(preferred, act, blk) :
            state' = [st EXCEPT ![Head(queue[d])] = "ActiveNotDispatched"]
      BY <1>2 DEF StartOne
    <2>2. d \in Device /\ queue[d] # << >>
      BY <2>1 DEF Startable, CanPop
    <2>3. queue[d] \in Seq(OpId)
      BY <2>2
    <2>4. 1 \in 1..Len(queue[d]) /\ Head(queue[d]) = queue[d][1]
      BY <2>2, <2>3, EmptySeq, HeadTailProperties, LenProperties
    <2>5. st[Head(queue[d])] = "Queued"
      BY <2>2, <2>3, <2>4 DEF Queues
    <2> QED BY <2>1, <2>3, <2>5
  <1> QED BY <1>1, <1>2 DEF StartNextForAvailableCapacity

\* Settling a running operation, or the blocking one, changes that operation
\* and at most one queued operation.
LEMMA FreeSlotTouches ==
    ASSUME AdmissionIInv, NEW id \in OpId, NEW terminal \in Terminal,
           state[id] \in Running, FreeSlot(id, terminal),
           NEW o \in OpId, o # id, state[o] # "Queued"
    PROVE  state'[o] = state[o]
  <1> USE LedgerParts
  <1> DEFINE st == [state EXCEPT ![id] = terminal]
             act == [active EXCEPT ![ref[id].device] = NoOp]
  <1>1. st \in [OpId -> HubOperationState \cup {"Absent"}] /\ st[o] = state[o]
    BY DEF Types
  <1>2. Queues(st, ref, queue)
    BY QueuesFollowQueued DEF Types
  <1>3. StartNextForAvailableCapacity(ref[id].device, st, act, blocked)
    BY DEF FreeSlot, Of
  <1>4. ref[id].device \in Device /\ queue \in [Device -> Seq(OpId)]
    BY DEF Refs, OperationRef, Types
  <1> HIDE DEF st, act
  <1>5. state'[o] = st[o]
    BY <1>1, <1>2, <1>3, <1>4, StartNextTouchesQueuedOnly
  <1> QED BY <1>1, <1>5

\* Lifting a block changes the blocking operation and at most one queued one.
LEMMA UnblockTouches ==
    ASSUME AdmissionIInv, NEW id \in OpId, NEW outcome \in Terminal \cup {"Indeterminate"},
           IsBlocking(id), Unblock(id, outcome),
           NEW o \in OpId, state[o] # "Queued"
    PROVE  state'[o] = IF o = id THEN outcome ELSE state[o]
  <1> USE LedgerParts
  <1> DEFINE st == [state EXCEPT ![id] = outcome]
             blk == [blocked EXCEPT ![ref[id].device] = NoOp]
  <1>0. state[id] = "Indeterminate"
    BY DEF IsBlocking
  <1>1. /\ st \in [OpId -> HubOperationState \cup {"Absent"}]
        /\ st[o] = IF o = id THEN outcome ELSE state[o]
        /\ st[o] # "Queued"
    BY DEF Types
  <1>2. Queues(st, ref, queue)
    BY <1>0, QueuesFollowQueued DEF Types
  <1>3. StartNextForAvailableCapacity(ref[id].device, st, active, blk)
    BY DEF Unblock, Of
  <1>4. ref[id].device \in Device /\ queue \in [Device -> Seq(OpId)]
    BY <1>0 DEF Refs, OperationRef, Types
  <1> HIDE DEF st, blk
  <1>5. state'[o] = st[o]
    BY <1>1, <1>2, <1>3, <1>4, StartNextTouchesQueuedOnly
  <1> QED BY <1>1, <1>5

\* No method rewrites a proved outcome, given the consistent ledger.
LEMMA NextIsFinal ==
    ASSUME AdmissionIInv, AdmissionNext
    PROVE  OutcomeFinalStep
  <1> USE LedgerParts
  <1> SUFFICES ASSUME NEW o \in OpId, state[o] \in Terminal \cup {"Indeterminate"}
               PROVE  \/ state'[o] = state[o]
                      \/ state[o] \in Terminal /\ state'[o] = "Absent"
                      \/ state[o] = "Indeterminate" /\ state'[o] \in Terminal
                      \/ state[o] = "Indeterminate" /\ o \in retired /\ state'[o] = "Absent"
    BY DEF OutcomeFinalStep
  <1>1. ASSUME NEW id \in OpId, NEW d \in Device, NEW g \in Generation,
               AdmitNow(id, d, g) \/ AdmitQueued(id, d, g) \/ AdmitRecoveryReadOnly(id, d, g)
        PROVE  state'[o] = state[o]
    BY <1>1 DEF AdmitNow, AdmitQueued, AdmitRecoveryReadOnly, Start, Known, Types
  <1>2. ASSUME NEW id \in OpId,
               \/ AdmissionMarkDispatched(id) \/ CancelDispatched(id)
               \/ CancelQueued(id) \/ AdmissionMarkIndeterminate(id)
        PROVE  state'[o] = state[o]
    BY <1>2 DEF AdmissionMarkDispatched, CancelDispatched, CancelQueued,
                AdmissionMarkIndeterminate, Types
  <1>3. ASSUME NEW id \in OpId, CancelActive(id) \/ FailRecoveryReadOnly(id)
        PROVE  state'[o] = state[o]
    <2>1. state[id] \in Running /\ (FreeSlot(id, "Cancelled") \/ FreeSlot(id, "Failed"))
      BY <1>3 DEF CancelActive, FailRecoveryReadOnly
    <2> QED BY <2>1, FreeSlotTouches
  <1>4. ASSUME NEW id \in OpId, NEW terminal \in Terminal, FinalizeTerminal(id, terminal)
        PROVE  state'[o] = state[o]
    <2>1. state[id] \in Running /\ FreeSlot(id, terminal)
      BY <1>4 DEF FinalizeTerminal
    <2> QED BY <2>1, FreeSlotTouches
  <1>5. ASSUME NEW id \in OpId, AdmissionRetireIndeterminate(id)
        PROVE  state'[o] = state[o]
    <2>1. state[id] = "Indeterminate" /\ IsBlocking(id) /\ Unblock(id, "Indeterminate")
      BY <1>5 DEF AdmissionRetireIndeterminate, MayRetire, IsBlocking
    <2> QED BY <2>1, UnblockTouches
  <1>6. ASSUME NEW id \in OpId, RetireIndeterminateAndCancelQueued(id)
        PROVE  state'[o] = state[o]
    <2> DEFINE queued == {queue[Of(id)][i] : i \in DOMAIN queue[Of(id)]}
    <2>1. /\ \A q \in queued : state[q] = "Queued"
          /\ state' = [q \in OpId |-> IF q \in queued THEN "Cancelled" ELSE state[q]]
      BY <1>6 DEF RetireIndeterminateAndCancelQueued
    <2> QED BY <2>1
  <1>7. ASSUME NEW id \in OpId, CompactRetiredIndeterminateDetail(id)
        PROVE  \/ state'[o] = state[o]
               \/ state[o] = "Indeterminate" /\ o \in retired /\ state'[o] = "Absent"
    BY <1>7 DEF CompactRetiredIndeterminateDetail, Types
  <1>8. ASSUME NEW id \in OpId, NEW terminal \in Terminal,
               \/ ReconcileIndeterminateTerminal(id, terminal)
               \/ AdmissionResolveIndeterminate(id, terminal)
        PROVE  \/ state'[o] = state[o]
               \/ state[o] = "Indeterminate" /\ state'[o] \in Terminal
    <2>1. state[id] = "Indeterminate" /\ IsBlocking(id) /\ Unblock(id, terminal)
      BY <1>8 DEF ReconcileIndeterminateTerminal, AdmissionResolveIndeterminate, IsBlocking
    <2> QED BY <2>1, UnblockTouches
  <1>9. ASSUME NEW d \in Device, NEW g \in Generation,
               AdmissionPruneTerminalBeforeGeneration(d, g)
        PROVE  \/ state'[o] = state[o]
               \/ state[o] \in Terminal /\ state'[o] = "Absent"
    BY <1>9 DEF AdmissionPruneTerminalBeforeGeneration, Prunable
  <1>10. CASE AdmissionRestart
    BY <1>10 DEF AdmissionRestart, SnapshotState
  <1> QED BY <1>1, <1>2, <1>3, <1>4, <1>5, <1>6, <1>7, <1>8, <1>9, <1>10, AdmissionNext
          DEF AdmissionNext

\* A proved outcome is never rewritten and ambiguity never silently lost.
THEOREM OutcomesAreFinal == AdmissionSpec => OutcomeIsFinal
  <1>1. AdmissionIInv /\ [AdmissionNext]_admissionVars => [OutcomeFinalStep]_admissionVars
    BY NextIsFinal
  <1> QED BY <1>1, AdmissionInvariant, PTL DEF AdmissionSpec, OutcomeIsFinal

\* The scheduler's books are exact in every reachable state: the five invariants and
\* the types together, as the run checks them.
THEOREM AdmissionIsSafe == AdmissionSpec => []AdmissionSafe
  BY AdmissionTypeCorrect, SlotsAreExact, QueuesAreExact, BlocksAreExact,
     QuarantineIsExclusive, CapacityIsRespected, PTL DEF AdmissionSafe
=============================================================================
