------------------------- MODULE HubStateStoreProofs -------------------------
(***************************************************************************)
(* Machine-checked proofs of what the state-store contract promises, for   *)
(* every set of Hub processes and transitions and every largest revision.  *)
(*                                                                         *)
(* Hubs and candidates hold copies of the record of different ages.  The   *)
(* invariant says how each copy relates to the durable record (Copies,     *)
(* Candidates), which transitions a copy may contain (Origins), that one   *)
(* candidate carries a new transition until it is published (Fresh), that  *)
(* a writer epoch belongs to one Hub (Epochs), and what an unfenced Hub    *)
(* may have in flight (Calls).                                             *)
(***************************************************************************)
EXTENDS HubStateStore, TLAPS

Holding == {"Starting", "Serving"}

\* A Hub's copy is never ahead of the durable record and equals it at its
\* revision; a commit is conditioned on the Hub's own lease and drops nothing.
Copies ==
    /\ durable.epoch <= durable.revision
    /\ \A h \in Hub :
          /\ hub[h].revision <= durable.revision
          /\ hub[h].epoch <= hub[h].revision
          /\ hub[h].status \in Holding /\ hub[h].revision = durable.revision =>
                hub[h].epoch = durable.epoch /\ hub[h].state = durable.state
          /\ hub[h].status \in Holding /\ Calling(h) =>
                hub[h].next.epoch = hub[h].epoch

\* A candidate advances its base by one revision and at most one epoch; based
\* on the durable record, it drops nothing of it.
Candidates ==
    \A c \in inflight :
        /\ c.next.revision = c.base.revision + 1
        /\ c.next.epoch \in {c.base.epoch, c.base.epoch + 1}
        /\ c.next.epoch <= c.next.revision
        /\ c.base.revision <= durable.revision
        /\ c.base = LeaseOf(durable) => durable.state \subseteq c.next.state

\* No copy contains a transition nobody attempted or one that was refused.
Origins ==
    /\ durable.state \subseteq attempted \ refused
    /\ \A c \in inflight : c.next.state \subseteq attempted \ refused
    /\ \A h \in Hub : /\ hub[h].state \subseteq attempted \ refused
                      /\ hub[h].next.state \subseteq attempted \ refused
    /\ acked \subseteq durable.state

\* What a serving Hub tries to persist is nowhere else before publication.
Fresh ==
    \A h \in Hub :
        hub[h].status = "Serving" /\ Calling(h) /\ CandidateOf(h) \in inflight =>
            \A m \in hub[h].next.state \ hub[h].state :
                /\ m \notin durable.state
                /\ \A c \in inflight : c # CandidateOf(h) => m \notin c.next.state
                /\ \A k \in Hub : /\ m \notin hub[k].state
                                  /\ k # h => m \notin hub[k].next.state

\* Who may speak for an epoch: its running Hub, a commit on its way, and a Hub
\* whose acquisition has just been published.
Holds(h, e) ==
    \/ hub[h].status \in Holding /\ hub[h].epoch = e
    \/ \E c \in inflight : c.hub = h /\ c.base.epoch = e /\ c.next.epoch = e
    \/ /\ hub[h].status = "Acquiring" /\ CandidateOf(h) \notin inflight
       /\ hub[h].next.epoch = e

Epochs ==
    \A h \in Hub, e \in 0..MaxRevision : Holds(h, e) =>
        /\ e <= durable.epoch
        /\ \A k \in Hub : Holds(k, e) => k = h

\* An unfenced Hub has no candidate in flight but the one of its call, and what
\* it holds under the durable epoch is the durable record.
Calls ==
    \A h \in Hub :
        /\ hub[h].status # "Gone" /\ ~ hub[h].fenced =>
              \A c \in inflight : c.hub = h => c = CandidateOf(h)
        /\ hub[h].status \in {"Down", "Acquiring"} => ~ hub[h].fenced
        /\ hub[h].status \in {"Down", "Gone"} => hub[h].next = Empty
        /\ hub[h].status = "Acquiring" => Calling(h)
        /\ hub[h].status \in Holding /\ ~ hub[h].fenced /\ hub[h].epoch = durable.epoch =>
              IF Calling(h) /\ CandidateOf(h) \notin inflight
              THEN durable = hub[h].next
              ELSE hub[h].revision = durable.revision

\* The inductive invariant.
StoreIInv == StoreTypeOK /\ Copies /\ Candidates /\ Origins /\ Fresh /\ Epochs /\ Calls

-----------------------------------------------------------------------------
(* Records *)

\* Empty is a record, and a call's candidate never is Empty.
LEMMA RecordFacts ==
    /\ Empty \in Record /\ Empty.revision = 0 /\ Empty.epoch = 0 /\ Empty.state = {}
    /\ \A r \in Record : LeaseOf(r) \in Lease
    /\ Down \in HubProcess /\ Gone \in HubProcess
    /\ Gone.status = "Gone" /\ Gone.revision = 0 /\ Gone.epoch = 0 /\ Gone.state = {}
    /\ Gone.next = Empty
<1>1. Empty \in Record /\ Empty.revision = 0 /\ Empty.epoch = 0 /\ Empty.state = {}
    BY HubWriterConstants DEF Empty, Record
<1>2. \A r \in Record : LeaseOf(r) \in Lease
    BY DEF Record, LeaseOf, Lease
<1>3. Down \in HubProcess
    BY <1>1, <1>2, HubWriterConstants DEF Down, HubProcess, CallTag
<1>4. /\ Gone.status = "Gone" /\ Gone.revision = 0 /\ Gone.epoch = 0
      /\ Gone.state = {} /\ Gone.next = Empty
    BY DEF Gone, Down
<1>5. Gone \in HubProcess
    BY <1>3 DEF Gone, HubProcess
<1> QED BY <1>1, <1>2, <1>3, <1>4, <1>5

LEMMA StoreTypes ==
    ASSUME StoreTypeOK
    PROVE  /\ \A h \in Hub :
                 /\ hub[h] \in HubProcess
                 /\ hub[h].status \in {"Down", "Acquiring", "Starting", "Serving", "Gone"}
                 /\ hub[h].fenced \in BOOLEAN
                 /\ hub[h].revision \in 0..MaxRevision /\ hub[h].revision \in Nat
                 /\ hub[h].epoch \in 0..MaxRevision /\ hub[h].epoch \in Nat
                 /\ hub[h].state \subseteq Mutation
                 /\ hub[h].base \in Lease /\ hub[h].next \in Record
                 /\ hub[h].next.epoch \in 0..MaxRevision
                 /\ CandidateOf(h) \in Candidate
                 /\ CandidateOf(h).hub = h /\ CandidateOf(h).base = hub[h].base
                 /\ CandidateOf(h).next = hub[h].next
           /\ \A c \in inflight :
                 /\ c \in Candidate /\ c.hub \in Hub /\ c.base \in Lease /\ c.next \in Record
                 /\ c.base.revision \in Nat /\ c.base.epoch \in Nat
                 /\ c.next.revision \in Nat /\ c.next.epoch \in Nat
                 /\ c.next.epoch \in 0..MaxRevision
           /\ durable \in Record
           /\ durable.revision \in Nat /\ durable.epoch \in Nat
           /\ durable.epoch \in 0..MaxRevision /\ durable.revision \in 0..MaxRevision
           /\ hub \in [Hub -> HubProcess] /\ MaxRevision \in Nat
<1>1. MaxRevision \in Nat
    BY HubWriterConstants
<1>2. hub \in [Hub -> HubProcess] /\ durable \in Record /\ inflight \subseteq Candidate
    BY DEF StoreTypeOK, WriterTypeOK
<1>3. ASSUME NEW h \in Hub
      PROVE  /\ hub[h] \in HubProcess
             /\ hub[h].status \in {"Down", "Acquiring", "Starting", "Serving", "Gone"}
             /\ hub[h].fenced \in BOOLEAN
             /\ hub[h].revision \in 0..MaxRevision /\ hub[h].epoch \in 0..MaxRevision
             /\ hub[h].state \subseteq Mutation
             /\ hub[h].base \in Lease /\ hub[h].next \in Record /\ hub[h].tag \in CallTag
    <2>1. hub[h] \in HubProcess
        BY <1>2
    <2> QED BY <2>1 DEF HubProcess
<1>4. \A h \in Hub : /\ CandidateOf(h) \in Candidate
                     /\ CandidateOf(h).hub = h /\ CandidateOf(h).base = hub[h].base
                     /\ CandidateOf(h).next = hub[h].next
    BY <1>3 DEF CandidateOf, Candidate
<1>5. \A r \in Record : r.revision \in 0..MaxRevision /\ r.epoch \in 0..MaxRevision
    BY DEF Record
<1>6. \A c \in inflight :
         c \in Candidate /\ c.hub \in Hub /\ c.base \in Lease /\ c.next \in Record
    BY <1>2 DEF Candidate
<1>7. \A l \in Lease : l.revision \in Nat /\ l.epoch \in Nat
    BY <1>1 DEF Lease
<1>8. \A n \in 0..MaxRevision : n \in Nat
    BY <1>1
<1> QED BY <1>1, <1>2, <1>3, <1>4, <1>5, <1>6, <1>7, <1>8

-----------------------------------------------------------------------------
(* Steps *)

\* The process is gone, with or without its candidate: stop, or an error before
\* it serves.
LEMMA GoneStep ==
    ASSUME StoreIInv, NEW h \in Hub, hub' = [hub EXCEPT ![h] = Gone],
           inflight' \in {inflight, inflight \ {CandidateOf(h)}},
           UNCHANGED <<attempted, acked, refused, durable>>
    PROVE  StoreIInv'
<1> USE StoreTypes, RecordFacts DEF StoreIInv
<1>1. /\ hub' \in [Hub -> HubProcess] /\ hub'[h] = Gone
      /\ \A k \in Hub : k # h => hub'[k] = hub[k]
      /\ inflight' \subseteq inflight
    OBVIOUS
<1>2. \A k \in Hub : k # h =>
         /\ CandidateOf(k)' = CandidateOf(k)
         /\ Calling(k)' <=> Calling(k)
         /\ CandidateOf(k) \in inflight' <=> CandidateOf(k) \in inflight
    BY <1>1 DEF CandidateOf, Calling
<1>3. StoreTypeOK'
    BY <1>1 DEF StoreTypeOK, WriterTypeOK
<1>4. Copies'
    BY <1>1, <1>2 DEF Copies, Holding
<1>5. Candidates'
    BY <1>1 DEF Candidates
<1>6. Origins'
    BY <1>1 DEF Origins
<1>7. Fresh'
    BY <1>1, <1>2 DEF Fresh
<1>8. Epochs'
    <2>1. \A k \in Hub, e \in 0..MaxRevision : Holds(k, e)' => Holds(k, e)
        BY <1>1, <1>2 DEF Holds, Holding
    <2> QED BY <2>1 DEF Epochs
<1>9. Calls'
    BY <1>1, <1>2 DEF Calls, Holding
<1> QED BY <1>3, <1>4, <1>5, <1>6, <1>7, <1>8, <1>9

\* A serving Hub's call ends with an error: it is fenced, or its candidate is
\* withdrawn and what it tried is refused.
LEMMA EndCallStep ==
    ASSUME StoreIInv, NEW h \in Hub, hub[h].status = "Serving",
           hub' \in [Hub -> HubProcess],
           \A k \in Hub : k # h => hub'[k] = hub[k],
           hub'[h].status = "Serving", hub'[h].revision = hub[h].revision,
           hub'[h].epoch = hub[h].epoch, hub'[h].state = hub[h].state,
           hub'[h].next = Empty,
           inflight' \in {inflight, inflight \ {CandidateOf(h)}},
           \/ hub'[h].fenced /\ refused' = refused
           \/ /\ hub'[h].fenced <=> hub[h].fenced
              /\ Calling(h) /\ CandidateOf(h) \in inflight
              /\ inflight' = inflight \ {CandidateOf(h)}
              /\ refused' = refused \cup (hub[h].next.state \ hub[h].state),
           UNCHANGED <<attempted, acked, durable>>
    PROVE  StoreIInv'
<1> USE StoreTypes, RecordFacts DEF StoreIInv
<1>1. inflight' \subseteq inflight /\ ~ Calling(h)'
    BY DEF Calling
<1>2. \A k \in Hub : k # h =>
         /\ CandidateOf(k)' = CandidateOf(k)
         /\ Calling(k)' <=> Calling(k)
         /\ CandidateOf(k) \in inflight' <=> CandidateOf(k) \in inflight
    BY <1>1 DEF CandidateOf, Calling
<1>3. refused' \subseteq attempted
    BY DEF Origins, StoreTypeOK, WriterTypeOK
<1>4. StoreTypeOK'
    BY <1>1, <1>3 DEF StoreTypeOK, WriterTypeOK
<1>5. Copies'
    BY <1>1, <1>2 DEF Copies, Holding
<1>6. Candidates'
    BY <1>1 DEF Candidates
<1>7. Origins'
    <2>1. ASSUME NEW m \in refused' \ refused
          PROVE  /\ m \notin durable.state
                 /\ \A c \in inflight' : m \notin c.next.state
                 /\ \A k \in Hub : m \notin hub'[k].state /\ m \notin hub'[k].next.state
        BY <1>1 DEF Fresh
    <2> QED BY <1>1, <2>1 DEF Origins
<1>8. Fresh'
    BY <1>1, <1>2 DEF Fresh
<1>9. Epochs'
    <2>1. \A k \in Hub, e \in 0..MaxRevision : Holds(k, e)' => Holds(k, e)
        BY <1>1, <1>2 DEF Holds, Holding
    <2> QED BY <2>1 DEF Epochs
<1>10. Calls'
    <2>1. ASSUME NEW k \in Hub, k # h
          PROVE  /\ hub'[k].status # "Gone" /\ ~ hub'[k].fenced =>
                       \A c \in inflight' : c.hub = k => c = CandidateOf(k)'
                 /\ hub'[k].status \in {"Down", "Acquiring"} => ~ hub'[k].fenced
                 /\ hub'[k].status \in {"Down", "Gone"} => hub'[k].next = Empty
                 /\ hub'[k].status = "Acquiring" => Calling(k)'
                 /\ hub'[k].status \in Holding /\ ~ hub'[k].fenced
                    /\ hub'[k].epoch = durable'.epoch =>
                       IF Calling(k)' /\ CandidateOf(k)' \notin inflight'
                       THEN durable' = hub'[k].next
                       ELSE hub'[k].revision = durable'.revision
        BY <1>1, <1>2, <2>1 DEF Calls
    <2>2. ~ hub'[h].fenced =>
             /\ \A c \in inflight' : c.hub # h
             /\ hub'[h].epoch = durable'.epoch => hub'[h].revision = durable'.revision
        BY DEF Calls, Holding
    <2> QED BY <1>1, <2>1, <2>2 DEF Calls
<1> QED BY <1>4, <1>5, <1>6, <1>7, <1>8, <1>9, <1>10

\* The provider drops a candidate nobody waits for.
LEMMA AbandonStep ==
    ASSUME StoreIInv, NEW c \in inflight, Abandon(c)
    PROVE  StoreIInv'
<1> USE StoreTypes DEF StoreIInv
<1>1. /\ c # CandidateOf(c.hub) /\ inflight' = inflight \ {c}
      /\ UNCHANGED <<hub, attempted, acked, refused, durable>>
    BY DEF Abandon, writerVars
<1>2. \A k \in Hub : /\ CandidateOf(k)' = CandidateOf(k)
                     /\ Calling(k)' <=> Calling(k)
                     /\ CandidateOf(k) \in inflight' <=> CandidateOf(k) \in inflight
    BY <1>1 DEF CandidateOf, Calling
<1>3. StoreTypeOK'
    BY <1>1 DEF StoreTypeOK, WriterTypeOK
<1>4. Copies' /\ Candidates' /\ Origins'
    BY <1>1, <1>2 DEF Copies, Candidates, Origins
<1>5. Fresh'
    BY <1>1, <1>2 DEF Fresh
<1>6. Epochs'
    <2>1. \A k \in Hub, e \in 0..MaxRevision : Holds(k, e)' => Holds(k, e)
        BY <1>1, <1>2 DEF Holds
    <2> QED BY <1>1, <2>1 DEF Epochs
<1>7. Calls'
    BY <1>1, <1>2 DEF Calls
<1> QED BY <1>3, <1>4, <1>5, <1>6, <1>7

\* An acquisition starts, or starts over: the candidate opens a new epoch.
LEMMA AcquireStep ==
    ASSUME StoreIInv, NEW h \in Hub, BeginAcquire(h, durable),
           inflight' = {c \in inflight : c.hub # h} \cup {CandidateOf(h)'},
           durable' = durable
    PROVE  StoreIInv'
<1> USE StoreTypes, RecordFacts DEF StoreIInv
<1> DEFINE p == hub'[h]
<1>1. /\ durable.revision < MaxRevision
      /\ hub' = [hub EXCEPT ![h] = [Down EXCEPT !.status = "Acquiring",
                                                !.base = LeaseOf(durable),
                                                !.next = AcquireRecord(durable)]]
      /\ UNCHANGED <<attempted, acked, refused>>
    BY DEF BeginAcquire
<1>2. /\ AcquireRecord(durable) \in Record
      /\ AcquireRecord(durable).revision = durable.revision + 1
      /\ AcquireRecord(durable).epoch = durable.epoch + 1
      /\ AcquireRecord(durable).state = durable.state
    BY <1>1 DEF AcquireRecord, Record, Copies
<1>3. [Down EXCEPT !.status = "Acquiring", !.base = LeaseOf(durable),
                   !.next = AcquireRecord(durable)] \in HubProcess
    BY <1>2 DEF HubProcess
<1>4. /\ hub' \in [Hub -> HubProcess]
      /\ \A k \in Hub : k # h => hub'[k] = hub[k]
    BY <1>1, <1>3
<1>4a. p = [Down EXCEPT !.status = "Acquiring", !.base = LeaseOf(durable),
                       !.next = AcquireRecord(durable)]
    BY <1>1, <1>3
<1>5. /\ p.status = "Acquiring" /\ p.fenced = FALSE /\ p.revision = 0 /\ p.epoch = 0
      /\ p.state = {} /\ p.base = LeaseOf(durable) /\ p.next = AcquireRecord(durable)
      /\ p.tag = 0
    BY <1>4a DEF Down
<1> HIDE DEF p
<1>6. /\ CandidateOf(h)' \in Candidate /\ CandidateOf(h)'.hub = h
      /\ CandidateOf(h)'.base = LeaseOf(durable)
      /\ CandidateOf(h)'.next = AcquireRecord(durable)
    BY <1>2, <1>5 DEF CandidateOf, Candidate, CallTag, p
<1>7. Calling(h)'
    BY <1>2, <1>5 DEF Calling, p
<1>8. \A k \in Hub : k # h =>
         /\ CandidateOf(k)' = CandidateOf(k)
         /\ Calling(k)' <=> Calling(k)
         /\ CandidateOf(k) \in inflight' <=> CandidateOf(k) \in inflight
    BY <1>4, <1>6 DEF CandidateOf, Calling
<1>9. LeaseOf(durable).revision = durable.revision /\ LeaseOf(durable).epoch = durable.epoch
    BY DEF LeaseOf
<1>10. StoreTypeOK'
    BY <1>1, <1>4, <1>6 DEF StoreTypeOK, WriterTypeOK
<1>11. Copies'
    BY <1>4, <1>5, <1>8 DEF Copies, Holding, p
<1>12. Candidates'
    BY <1>2, <1>6, <1>9 DEF Candidates, Copies
<1>13. Origins'
    BY <1>1, <1>2, <1>4, <1>5, <1>6 DEF Origins, p
<1>14. Fresh'
    <2> SUFFICES ASSUME NEW k \in Hub, hub'[k].status = "Serving", Calling(k)',
                        CandidateOf(k)' \in inflight', NEW m \in hub'[k].next.state \ hub'[k].state
                 PROVE  /\ m \notin durable'.state
                        /\ \A c \in inflight' : c # CandidateOf(k)' => m \notin c.next.state
                        /\ \A j \in Hub : /\ m \notin hub'[j].state
                                          /\ j # k => m \notin hub'[j].next.state
        BY DEF Fresh
    <2>1. k # h /\ hub'[k] = hub[k] /\ Calling(k) /\ CandidateOf(k) \in inflight
        BY <1>4, <1>5, <1>8 DEF p
    <2>2. /\ m \notin durable.state
          /\ \A c \in inflight : c # CandidateOf(k) => m \notin c.next.state
          /\ \A j \in Hub : /\ m \notin hub[j].state
                            /\ j # k => m \notin hub[j].next.state
        BY <2>1 DEF Fresh
    <2>3. \A c \in inflight' : c # CandidateOf(k)' => m \notin c.next.state
        BY <1>2, <1>6, <1>8, <2>1, <2>2
    <2>4. m \notin p.state /\ m \notin p.next.state
        BY <1>2, <1>5, <2>2
    <2> QED BY <1>4, <2>2, <2>3, <2>4 DEF p
<1>15. Epochs'
    <2>1. \A k \in Hub, e \in 0..MaxRevision : Holds(k, e)' => Holds(k, e)
        <3> SUFFICES ASSUME NEW k \in Hub, NEW e \in 0..MaxRevision, Holds(k, e)'
                     PROVE  Holds(k, e)
            OBVIOUS
        <3>1. ASSUME NEW c \in inflight', c.base.epoch = e, c.next.epoch = e
              PROVE  c \in inflight
            BY <1>2, <1>6, <1>9, <3>1
        <3>2. CASE k # h
            BY <1>4, <1>8, <3>1, <3>2 DEF Holds
        <3>3. CASE k = h
            <4>1. ~ (p.status \in Holding) /\ CandidateOf(h)' \in inflight'
                BY <1>5 DEF Holding
            <4> QED BY <3>1, <3>3, <4>1 DEF Holds, p
        <3> QED BY <3>2, <3>3
    <2> QED BY <2>1 DEF Epochs
<1>16. Calls'
    <2>1. ASSUME NEW k \in Hub, k # h
          PROVE  /\ hub'[k].status # "Gone" /\ ~ hub'[k].fenced =>
                       \A c \in inflight' : c.hub = k => c = CandidateOf(k)'
                 /\ hub'[k].status \in {"Down", "Acquiring"} => ~ hub'[k].fenced
                 /\ hub'[k].status \in {"Down", "Gone"} => hub'[k].next = Empty
                 /\ hub'[k].status = "Acquiring" => Calling(k)'
                 /\ hub'[k].status \in Holding /\ ~ hub'[k].fenced
                    /\ hub'[k].epoch = durable'.epoch =>
                       IF Calling(k)' /\ CandidateOf(k)' \notin inflight'
                       THEN durable' = hub'[k].next
                       ELSE hub'[k].revision = durable'.revision
        BY <1>4, <1>6, <1>8, <2>1 DEF Calls
    <2>2. \A c \in inflight' : c.hub = h => c = CandidateOf(h)'
        OBVIOUS
    <2>3. hub'[h].status = "Acquiring" /\ hub'[h].fenced = FALSE
        BY <1>5 DEF p
    <2> QED BY <1>7, <2>1, <2>2, <2>3 DEF Calls, Holding
<1> QED BY <1>10, <1>11, <1>12, <1>13, <1>14, <1>15, <1>16

\* A Hub asks for a commit conditioned on its lease, with at most one transition
\* that nobody tried before.
LEMMA CommitStep ==
    ASSUME StoreIInv, NEW h \in Hub, NEW ms \in PersistChoices(h), NEW tag \in CallTag,
           CallCommit(h, ms, tag)
    PROVE  StoreIInv'
<1> USE StoreTypes, RecordFacts DEF StoreIInv
<1> DEFINE p == hub'[h]
           new == CandidateOf(h)'
           rec == [revision |-> hub[h].revision + 1, epoch |-> hub[h].epoch,
                   state |-> hub[h].state \cup ms]
<1>1. /\ hub[h].status \in Holding /\ ~ Calling(h) /\ hub[h].revision < MaxRevision
      /\ hub' = [hub EXCEPT ![h].base = LeaseOf(hub[h]), ![h].tag = tag, ![h].next = rec]
      /\ attempted' = attempted \cup ms
      /\ inflight' = inflight \cup {new}
      /\ UNCHANGED <<acked, refused, durable>>
    BY DEF CallCommit, BeginPersist, Holding
<1>2. ms \subseteq Mutation \ attempted /\ (hub[h].status # "Serving" => ms = {})
    BY DEF PersistChoices
<1>3. rec \in Record /\ rec.revision = hub[h].revision + 1 /\ rec.epoch = hub[h].epoch
      /\ rec.state = hub[h].state \cup ms
    BY <1>1, <1>2 DEF Record
<1>4. /\ LeaseOf(hub[h]) \in Lease /\ LeaseOf(hub[h]).revision = hub[h].revision
      /\ LeaseOf(hub[h]).epoch = hub[h].epoch
    BY DEF LeaseOf, Lease
<1> HIDE DEF rec
<1>5. \A k \in Hub : k # h => hub'[k] = hub[k]
    BY <1>1
<1>6. p = [hub[h] EXCEPT !.base = LeaseOf(hub[h]), !.tag = tag, !.next = rec]
    BY <1>1
<1>7. /\ p \in HubProcess /\ p.status = hub[h].status /\ p.fenced = hub[h].fenced
      /\ p.revision = hub[h].revision /\ p.epoch = hub[h].epoch /\ p.state = hub[h].state
      /\ p.base = LeaseOf(hub[h]) /\ p.next = rec /\ p.tag = tag
    <2>1. hub[h] \in HubProcess
        OBVIOUS
    <2> HIDE StoreTypes, RecordFacts
    <2> HIDE DEF p, StoreIInv
    <2>2. /\ p.status = hub[h].status /\ p.fenced = hub[h].fenced
          /\ p.revision = hub[h].revision /\ p.epoch = hub[h].epoch /\ p.state = hub[h].state
          /\ p.base = LeaseOf(hub[h]) /\ p.next = rec /\ p.tag = tag
        BY <1>6, <2>1 DEF HubProcess
    <2>3. p \in HubProcess
        BY <1>3, <1>4, <1>6, <2>1 DEF HubProcess
    <2> QED BY <2>2, <2>3
<1> HIDE DEF p
<1>8. hub' \in [Hub -> HubProcess]
    <2>1. DOMAIN hub' = Hub /\ hub' = [k \in Hub |-> hub'[k]]
        BY <1>1
    <2>2. \A k \in Hub : hub'[k] \in HubProcess
        BY <1>5, <1>7 DEF p
    <2> QED BY <2>1, <2>2
<1>9. /\ new \in Candidate /\ new.hub = h /\ new.base = LeaseOf(hub[h]) /\ new.next = rec
    BY <1>3, <1>4, <1>7 DEF CandidateOf, Candidate, p
<1>10. Calling(h)' /\ CandidateOf(h)' \in inflight'
    BY <1>1, <1>3, <1>7 DEF Calling, p
<1> HIDE DEF new
<1>11. \A k \in Hub : k # h =>
         /\ CandidateOf(k)' = CandidateOf(k)
         /\ Calling(k)' <=> Calling(k)
         /\ CandidateOf(k) \in inflight' <=> CandidateOf(k) \in inflight
    BY <1>1, <1>5, <1>9 DEF CandidateOf, Calling
<1>12. StoreTypeOK'
    BY <1>1, <1>2, <1>8, <1>9 DEF StoreTypeOK, WriterTypeOK
<1>13. Copies'
    BY <1>1, <1>3, <1>5, <1>7, <1>11 DEF Copies, p
<1>14. Candidates'
    <2>1. /\ new.next.revision = new.base.revision + 1
          /\ new.next.epoch = new.base.epoch
          /\ new.next.epoch <= new.next.revision
          /\ new.base.revision <= durable.revision
        BY <1>3, <1>4, <1>9 DEF Copies
    <2>2. new.base = LeaseOf(durable) => hub[h].revision = durable.revision
        BY <1>4, <1>9 DEF LeaseOf
    <2>3. new.base = LeaseOf(durable) => durable.state \subseteq new.next.state
        BY <1>1, <1>3, <1>9, <2>2 DEF Copies
    <2> QED BY <1>1, <2>1, <2>3 DEF Candidates
<1>15. Origins'
    <2>1. ms \cap refused = {}
        BY <1>2 DEF StoreTypeOK, WriterTypeOK
    <2> QED BY <1>1, <1>3, <1>5, <1>7, <1>9, <2>1 DEF Origins, p
<1>16. Fresh'
    <2> SUFFICES ASSUME NEW k \in Hub, hub'[k].status = "Serving", Calling(k)',
                        CandidateOf(k)' \in inflight', NEW m \in hub'[k].next.state \ hub'[k].state
                 PROVE  /\ m \notin durable'.state
                        /\ \A c \in inflight' : c # CandidateOf(k)' => m \notin c.next.state
                        /\ \A j \in Hub : /\ m \notin hub'[j].state
                                          /\ j # k => m \notin hub'[j].next.state
        BY DEF Fresh
    <2>1. CASE k # h
        <3>1. hub'[k] = hub[k] /\ Calling(k) /\ CandidateOf(k) \in inflight
            BY <1>5, <1>11, <2>1
        <3>2. /\ m \notin durable.state /\ m \in hub[k].next.state
              /\ \A c \in inflight : c # CandidateOf(k) => m \notin c.next.state
              /\ \A j \in Hub : /\ m \notin hub[j].state
                                /\ j # k => m \notin hub[j].next.state
            BY <3>1 DEF Fresh
        <3>3. m \notin ms
            BY <1>2, <3>2 DEF Origins
        <3>4. m \notin rec.state
            BY <1>3, <3>2, <3>3
        <3> QED BY <1>1, <1>5, <1>7, <1>9, <1>11, <2>1, <3>2, <3>4 DEF p
    <2>2. CASE k = h
        <3>1. m \in ms /\ m \notin attempted
            BY <1>2, <1>3, <1>7, <2>2 DEF p
        <3>2. /\ m \notin durable.state /\ \A c \in inflight : m \notin c.next.state
              /\ \A j \in Hub : m \notin hub[j].state /\ m \notin hub[j].next.state
            BY <3>1 DEF Origins
        <3>3. \A c \in inflight' : c # CandidateOf(k)' => m \notin c.next.state
            BY <1>1, <2>2, <3>2 DEF new
        <3> QED BY <1>1, <1>5, <1>7, <2>2, <3>2, <3>3 DEF p
    <2> QED BY <2>1, <2>2
<1>17. Epochs'
    <2>1. ASSUME NEW k \in Hub, NEW e \in 0..MaxRevision, Holds(k, e)'
          PROVE  Holds(k, e)
        <3>1. CASE k # h
            BY <1>1, <1>5, <1>9, <1>11, <2>1, <3>1 DEF Holds, Holding
        <3>2. CASE k = h
            <4>1. new.base.epoch = hub[h].epoch
                BY <1>4, <1>9
            <4>2. p.status \in Holding /\ p.status # "Acquiring"
                BY <1>1, <1>7 DEF Holding
            <4> QED BY <1>1, <1>7, <2>1, <3>2, <4>1, <4>2 DEF Holds, p
        <3> QED BY <3>1, <3>2
    <2> QED BY <1>1, <2>1 DEF Epochs
<1>18. Calls'
    <2>1. ASSUME NEW k \in Hub, k # h
          PROVE  /\ hub'[k].status # "Gone" /\ ~ hub'[k].fenced =>
                       \A c \in inflight' : c.hub = k => c = CandidateOf(k)'
                 /\ hub'[k].status \in {"Down", "Acquiring"} => ~ hub'[k].fenced
                 /\ hub'[k].status \in {"Down", "Gone"} => hub'[k].next = Empty
                 /\ hub'[k].status = "Acquiring" => Calling(k)'
                 /\ hub'[k].status \in Holding /\ ~ hub'[k].fenced
                    /\ hub'[k].epoch = durable'.epoch =>
                       IF Calling(k)' /\ CandidateOf(k)' \notin inflight'
                       THEN durable' = hub'[k].next
                       ELSE hub'[k].revision = durable'.revision
        BY <1>1, <1>5, <1>9, <1>11, <2>1 DEF Calls
    <2>2. ~ hub'[h].fenced =>
             /\ \A c \in inflight : c.hub # h
             /\ hub'[h].epoch = durable'.epoch => hub'[h].revision = durable'.revision
        <3>1. ASSUME ~ hub[h].fenced, NEW c \in inflight, c.hub = h
              PROVE  FALSE
            <4>1. c.next = Empty
                BY <1>1, <3>1 DEF Calls, Calling, Holding
            <4> QED BY <3>1, <4>1 DEF Candidates
        <3>2. ~ hub[h].fenced /\ hub[h].epoch = durable.epoch =>
                 hub[h].revision = durable.revision
            BY <1>1 DEF Calls
        <3> QED BY <1>1, <1>7, <3>1, <3>2 DEF p
    <2>3. /\ hub'[h].status \in Holding
          /\ ~ hub'[h].fenced => \A c \in inflight' : c.hub = h => c = CandidateOf(h)'
        BY <1>1, <1>7, <2>2 DEF p, new
    <2> QED BY <1>1, <1>10, <2>1, <2>2, <2>3 DEF Calls, Holding
<1> QED BY <1>12, <1>13, <1>14, <1>15, <1>16, <1>17, <1>18

\* The compare-and-commit point: the durable record becomes the candidate.
LEMMA PublishStep ==
    ASSUME StoreIInv, NEW c \in inflight, Publish(c)
    PROVE  /\ StoreIInv'
           /\ durable'.revision = durable.revision + 1
           /\ durable'.epoch \in {durable.epoch, durable.epoch + 1}
           /\ durable.state \subseteq durable'.state
<1> USE StoreTypes, RecordFacts DEF StoreIInv
<1>1. /\ c.base = LeaseOf(durable) /\ durable' = c.next /\ inflight' = inflight \ {c}
      /\ UNCHANGED <<hub, attempted, acked, refused>>
    BY DEF Publish, writerVars
<1>2. c.base.revision = durable.revision /\ c.base.epoch = durable.epoch
    BY <1>1 DEF LeaseOf
<1>3. /\ durable' \in Record /\ durable'.revision = durable.revision + 1
      /\ durable'.epoch \in {durable.epoch, durable.epoch + 1}
      /\ durable'.epoch <= durable'.revision
      /\ durable.state \subseteq durable'.state
    BY <1>1, <1>2 DEF Candidates
<1>4. \A k \in Hub : CandidateOf(k)' = CandidateOf(k) /\ (Calling(k)' <=> Calling(k))
    BY <1>1 DEF CandidateOf, Calling
<1>5. StoreTypeOK'
    BY <1>1, <1>3 DEF StoreTypeOK, WriterTypeOK
<1>6. Copies'
    BY <1>1, <1>3, <1>4 DEF Copies
<1>7. Candidates'
    <2>1. LeaseOf(durable') # LeaseOf(durable) /\ LeaseOf(durable').revision = durable.revision + 1
        BY <1>3 DEF LeaseOf
    <2> QED BY <1>1, <1>3, <2>1 DEF Candidates, LeaseOf
<1>8. Origins'
    BY <1>1, <1>3 DEF Origins
<1>9. Fresh'
    <2> SUFFICES ASSUME NEW k \in Hub, hub[k].status = "Serving", Calling(k),
                        CandidateOf(k) \in inflight', NEW m \in hub[k].next.state \ hub[k].state
                 PROVE  /\ m \notin durable'.state
                        /\ \A x \in inflight' : x # CandidateOf(k) => m \notin x.next.state
                        /\ \A j \in Hub : /\ m \notin hub[j].state
                                          /\ j # k => m \notin hub[j].next.state
        BY <1>1, <1>4 DEF Fresh
    <2> QED BY <1>1 DEF Fresh
<1>10. durable'.epoch = durable.epoch => Holds(c.hub, durable.epoch)
    BY <1>1, <1>2 DEF Holds
<1>11. Epochs'
    <2>1. ASSUME NEW k \in Hub, NEW e \in 0..MaxRevision, Holds(k, e)'
          PROVE  Holds(k, e) \/ (k = c.hub /\ e = durable'.epoch)
        BY <1>1, <1>4, <2>1 DEF Holds
    <2>2. \A k \in Hub, e \in 0..MaxRevision : Holds(k, e) => e <= durable.epoch
        BY DEF Epochs
    <2>3. CASE durable'.epoch = durable.epoch
        BY <1>10, <2>1, <2>3 DEF Epochs
    <2>4. CASE durable'.epoch = durable.epoch + 1
        BY <2>1, <2>2, <2>4 DEF Epochs
    <2> QED BY <1>3, <2>3, <2>4
<1>12. Calls'
    <2> SUFFICES ASSUME NEW h \in Hub, hub[h].status \in Holding, ~ hub[h].fenced,
                        hub[h].epoch = durable'.epoch
                 PROVE  Calling(h) /\ CandidateOf(h) \notin inflight' /\ durable' = hub[h].next
        BY <1>1, <1>4 DEF Calls
    <2>1. Holds(h, durable'.epoch)
        BY DEF Holds
    <2>2. durable'.epoch <= durable.epoch
        BY <1>1, <2>1 DEF Epochs
    <2>3. durable'.epoch = durable.epoch
        BY <1>3, <2>2
    <2>4. c.hub = h
        BY <1>10, <2>1, <2>3 DEF Epochs
    <2>5. c = CandidateOf(h)
        BY <2>4 DEF Calls, Holding
    <2>6. Calling(h)
        BY <1>1, <1>3, <2>5 DEF Calling
    <2> QED BY <1>1, <2>5, <2>6
<1> QED BY <1>3, <1>5, <1>6, <1>7, <1>8, <1>9, <1>11, <1>12

\* The call returns Ok after reading the candidate back: the Hub's copy becomes
\* the durable record.
LEMMA ReturnOkStep ==
    ASSUME StoreIInv, NEW h \in Hub, ReturnOk(h)
    PROVE  StoreIInv'
<1> USE StoreTypes, RecordFacts DEF StoreIInv
<1> DEFINE p == hub'[h]
<1>1. /\ Calling(h) /\ CandidateOf(h) \notin inflight /\ durable = hub[h].next
      /\ UNCHANGED <<durable, inflight, attempted, refused>>
    BY DEF ReturnOk, FinishOk
<1>2. hub' = [hub EXCEPT ![h] =
                 [status |-> IF hub[h].status = "Acquiring" THEN "Starting" ELSE "Serving",
                  fenced |-> hub[h].fenced, revision |-> durable.revision,
                  epoch |-> durable.epoch, state |-> durable.state,
                  base |-> LeaseOf(Empty), next |-> Empty, tag |-> 0]]
    BY <1>1 DEF ReturnOk, FinishOk
<1>3. acked' \in {acked, acked \cup (durable.state \ hub[h].state)}
    BY <1>1 DEF ReturnOk, FinishOk
<1>4. /\ p.status \in Holding /\ p.fenced = hub[h].fenced /\ p.revision = durable.revision
      /\ p.epoch = durable.epoch /\ p.state = durable.state /\ p.next = Empty
    BY <1>2 DEF Holding
<1>5. \A k \in Hub : k # h => hub'[k] = hub[k]
    BY <1>2
<1>6. hub' \in [Hub -> HubProcess]
    <2>1. durable.state \in SUBSET Mutation
        BY DEF Record
    <2>2. LeaseOf(Empty) \in Lease /\ 0 \in CallTag
        BY DEF CallTag
    <2>3. [status |-> IF hub[h].status = "Acquiring" THEN "Starting" ELSE "Serving",
           fenced |-> hub[h].fenced, revision |-> durable.revision,
           epoch |-> durable.epoch, state |-> durable.state,
           base |-> LeaseOf(Empty), next |-> Empty, tag |-> 0] \in HubProcess
        BY <2>1, <2>2 DEF HubProcess
    <2> QED BY <1>2, <2>3
<1> HIDE DEF p
<1>7. ~ Calling(h)' /\ hub'[h].status # "Acquiring"
    BY <1>4 DEF Calling, p, Holding
<1>8. \A k \in Hub : k # h =>
         /\ CandidateOf(k)' = CandidateOf(k)
         /\ Calling(k)' <=> Calling(k)
    BY <1>5 DEF CandidateOf, Calling
<1>9. hub[h].status = "Acquiring" \/ hub[h].status \in Holding
    BY <1>1 DEF Calls, Calling, Holding
<1>10. StoreTypeOK'
    BY <1>1, <1>3, <1>6 DEF StoreTypeOK, WriterTypeOK, Origins
<1>11. Copies'
    BY <1>1, <1>4, <1>5, <1>7, <1>8 DEF Copies, p
<1>12. Candidates'
    BY <1>1 DEF Candidates
<1>13. Origins'
    BY <1>1, <1>3, <1>4, <1>5 DEF Origins, p
<1>14. Fresh'
    <2> SUFFICES ASSUME NEW k \in Hub, hub'[k].status = "Serving", Calling(k)',
                        CandidateOf(k)' \in inflight', NEW m \in hub'[k].next.state \ hub'[k].state
                 PROVE  /\ m \notin durable'.state
                        /\ \A c \in inflight' : c # CandidateOf(k)' => m \notin c.next.state
                        /\ \A j \in Hub : /\ m \notin hub'[j].state
                                          /\ j # k => m \notin hub'[j].next.state
        BY DEF Fresh
    <2>1. k # h /\ hub'[k] = hub[k] /\ Calling(k) /\ CandidateOf(k) \in inflight
        BY <1>1, <1>5, <1>7, <1>8
    <2>2. /\ m \notin durable.state
          /\ \A c \in inflight : c # CandidateOf(k) => m \notin c.next.state
          /\ \A j \in Hub : /\ m \notin hub[j].state
                            /\ j # k => m \notin hub[j].next.state
        BY <2>1 DEF Fresh
    <2>3. m \notin p.state /\ m \notin p.next.state
        BY <1>4, <2>2
    <2> QED BY <1>1, <1>5, <1>8, <2>1, <2>2, <2>3 DEF p
<1>15. Epochs'
    <2>1. ASSUME NEW k \in Hub, NEW e \in 0..MaxRevision, Holds(k, e)'
          PROVE  Holds(k, e)
        <3>1. CASE k # h
            BY <1>1, <1>5, <1>8, <2>1, <3>1 DEF Holds
        <3>2. CASE k = h
            <4>1. Holds(h, durable.epoch)
                BY <1>1, <1>9 DEF Holds, Copies
            <4> QED BY <1>1, <1>4, <1>7, <2>1, <3>2, <4>1 DEF Holds, p
        <3> QED BY <3>1, <3>2
    <2> QED BY <1>1, <2>1 DEF Epochs
<1>16. Calls'
    <2>1. ASSUME NEW k \in Hub, k # h
          PROVE  /\ hub'[k].status # "Gone" /\ ~ hub'[k].fenced =>
                       \A c \in inflight' : c.hub = k => c = CandidateOf(k)'
                 /\ hub'[k].status \in {"Down", "Acquiring"} => ~ hub'[k].fenced
                 /\ hub'[k].status \in {"Down", "Gone"} => hub'[k].next = Empty
                 /\ hub'[k].status = "Acquiring" => Calling(k)'
                 /\ hub'[k].status \in Holding /\ ~ hub'[k].fenced
                    /\ hub'[k].epoch = durable'.epoch =>
                       IF Calling(k)' /\ CandidateOf(k)' \notin inflight'
                       THEN durable' = hub'[k].next
                       ELSE hub'[k].revision = durable'.revision
        BY <1>1, <1>5, <1>8, <2>1 DEF Calls
    <2>2. ~ hub'[h].fenced => \A c \in inflight' : c.hub # h
        BY <1>1, <1>4, <1>9 DEF Calls, Holding, p
    <2>3. hub'[h].status \in Holding /\ hub'[h].revision = durable'.revision
        BY <1>1, <1>4 DEF p
    <2> QED BY <1>7, <2>1, <2>2, <2>3 DEF Calls, Holding
<1> QED BY <1>10, <1>11, <1>12, <1>13, <1>14, <1>15, <1>16

\* The call returns an error.
LEMMA ErrorStep ==
    ASSUME StoreIInv, NEW h \in Hub, NEW fences \in BOOLEAN,
           Calling(h), FinishError(h, fences), durable' = durable,
           inflight' \in {inflight, inflight \ {CandidateOf(h)}},
           ~ fences => /\ CandidateOf(h) \in inflight
                       /\ inflight' = inflight \ {CandidateOf(h)}
    PROVE  StoreIInv'
<1> USE DEF StoreIInv
<1>1. UNCHANGED <<attempted, acked>>
    BY DEF FinishError
<1>2. CASE hub[h].status = "Serving"
    <2> DEFINE q == [hub[h] EXCEPT !.fenced = hub[h].fenced \/ fences,
                                   !.base = LeaseOf(Empty), !.next = Empty, !.tag = 0]
    <2>1. hub' = [hub EXCEPT ![h] = q]
        BY <1>2 DEF FinishError
    <2>2. hub \in [Hub -> HubProcess] /\ hub[h] \in HubProcess
        BY StoreTypes
    <2>3. /\ q.status = "Serving" /\ q.revision = hub[h].revision
          /\ q.epoch = hub[h].epoch /\ q.state = hub[h].state /\ q.next = Empty
          /\ q.fenced = (hub[h].fenced \/ fences)
        BY <1>2, <2>2 DEF HubProcess
    <2>4. q \in HubProcess
        <3>1. (hub[h].fenced \/ fences) \in BOOLEAN
            OBVIOUS
        <3>2. Empty \in Record /\ LeaseOf(Empty) \in Lease /\ 0 \in CallTag
            BY RecordFacts DEF CallTag
        <3>3. \A f \in BOOLEAN :
                 [hub[h] EXCEPT !.fenced = f, !.base = LeaseOf(Empty),
                                !.next = Empty, !.tag = 0] \in HubProcess
            BY <2>2, <3>2 DEF HubProcess
        <3> QED BY <3>1, <3>3
    <2> HIDE DEF q
    <2>5. /\ hub' \in [Hub -> HubProcess] /\ hub'[h] = q
          /\ \A k \in Hub : k # h => hub'[k] = hub[k]
        BY <2>1, <2>2, <2>4
    <2>6. refused' = IF fences THEN refused
                     ELSE refused \cup (hub[h].next.state \ hub[h].state)
        BY <1>2 DEF FinishError
    <2>7. /\ hub'[h].status = "Serving" /\ hub'[h].revision = hub[h].revision
          /\ hub'[h].epoch = hub[h].epoch /\ hub'[h].state = hub[h].state
          /\ hub'[h].next = Empty
        BY <2>3, <2>5
    <2>8. CASE fences
        <3>1. hub'[h].fenced /\ refused' = refused
            BY <2>3, <2>5, <2>6, <2>8
        <3> QED BY <1>1, <1>2, <2>5, <2>7, <3>1, EndCallStep
    <2>9. CASE ~ fences
        <3>1. /\ hub'[h].fenced <=> hub[h].fenced
              /\ refused' = refused \cup (hub[h].next.state \ hub[h].state)
            BY <2>3, <2>5, <2>6, <2>9
        <3> QED BY <1>1, <1>2, <2>5, <2>7, <2>9, <3>1, EndCallStep
    <2> QED BY <2>8, <2>9
<1>3. CASE hub[h].status # "Serving"
    <2>1. hub' = [hub EXCEPT ![h] = Gone] /\ refused' = refused
        BY <1>3 DEF FinishError
    <2> QED BY <1>1, <2>1, GoneStep
<1> QED BY <1>2, <1>3

LEMMA OverflowStep ==
    ASSUME StoreIInv, NEW h \in Hub, Overflow(h)
    PROVE  StoreIInv'
<1> USE DEF StoreIInv
<1>1. UNCHANGED <<attempted, acked, refused, durable, inflight>> /\ ~ Calling(h)
    BY DEF Overflow, OverflowRevision
<1>2. CASE hub[h].status = "Serving"
    <2> DEFINE q == [hub[h] EXCEPT !.fenced = TRUE]
    <2>1. hub' = [hub EXCEPT ![h] = q]
        BY <1>2 DEF Overflow, OverflowRevision
    <2>2. hub \in [Hub -> HubProcess] /\ hub[h] \in HubProcess
        BY StoreTypes
    <2>3. /\ q \in HubProcess /\ q.status = "Serving" /\ q.revision = hub[h].revision
          /\ q.epoch = hub[h].epoch /\ q.state = hub[h].state
          /\ q.next = hub[h].next /\ q.fenced = TRUE
        BY <1>2, <2>2 DEF HubProcess
    <2>4. q.next = Empty
        BY <1>1, <2>3 DEF Calling
    <2> HIDE DEF q
    <2>5. /\ hub' \in [Hub -> HubProcess] /\ hub'[h] = q
          /\ \A k \in Hub : k # h => hub'[k] = hub[k]
        BY <2>1, <2>2, <2>3
    <2> QED BY <1>1, <1>2, <2>3, <2>4, <2>5, EndCallStep
<1>3. CASE hub[h].status # "Serving"
    <2>1. hub' = [hub EXCEPT ![h] = Gone]
        BY <1>3 DEF Overflow, OverflowRevision
    <2> QED BY <1>1, <2>1, GoneStep
<1> QED BY <1>2, <1>3

LEMMA StoreInitial == StoreInit => StoreIInv
<1> SUFFICES ASSUME StoreInit PROVE StoreIInv
    OBVIOUS
<1> USE RecordFacts DEF StoreInit, WriterInit
<1>1. \A h \in Hub : /\ hub[h] = Down /\ hub[h].status = "Down" /\ hub[h].fenced = FALSE
                     /\ hub[h].revision = 0 /\ hub[h].epoch = 0 /\ hub[h].state = {}
                     /\ hub[h].next = Empty
    BY DEF Down
<1>2. StoreTypeOK
    BY DEF StoreTypeOK, WriterTypeOK
<1>3. Copies /\ Candidates /\ Origins
    BY <1>1 DEF Copies, Candidates, Origins, Holding
<1>4. Fresh /\ Epochs /\ Calls
    BY <1>1 DEF Fresh, Epochs, Holds, Calls, Holding
<1> QED BY <1>2, <1>3, <1>4 DEF StoreIInv

\* One step per action of the contract.
LEMMA StoreStep == StoreIInv /\ [StoreNext]_storeVars => StoreIInv'
<1> SUFFICES ASSUME StoreIInv, [StoreNext]_storeVars PROVE StoreIInv'
    OBVIOUS
<1>1. ASSUME NEW h \in Hub, CallAcquire(h) PROVE StoreIInv'
    <2>1. \A c \in inflight : c.hub # h
        <3> SUFFICES ASSUME NEW c \in inflight, c.hub = h PROVE FALSE
            OBVIOUS
        <3>1. c.next = Empty
            BY <1>1, StoreTypes DEF CallAcquire, StoreIInv, Calls
        <3> QED BY <3>1, StoreTypes, RecordFacts DEF StoreIInv, Candidates
    <2>2. inflight' = {c \in inflight : c.hub # h} \cup {CandidateOf(h)'}
        BY <1>1, <2>1 DEF CallAcquire
    <2> QED BY <1>1, <2>2, AcquireStep DEF CallAcquire
<1>2. ASSUME NEW h \in Hub, RetryAcquire(h) PROVE StoreIInv'
    <2>1. \A c \in inflight : c.hub = h <=> c = CandidateOf(h)
        BY <1>2, StoreTypes DEF RetryAcquire, StoreIInv, Calls
    <2>2. inflight' = {c \in inflight : c.hub # h} \cup {CandidateOf(h)'}
        BY <1>2, <2>1 DEF RetryAcquire
    <2> QED BY <1>2, <2>2, AcquireStep DEF RetryAcquire
<1>3. ASSUME NEW h \in Hub, NEW ms \in PersistChoices(h), NEW tag \in CallTag,
             CallCommit(h, ms, tag)
      PROVE  StoreIInv'
    BY <1>3, CommitStep
<1>4. ASSUME NEW h \in Hub, ReturnOk(h) PROVE StoreIInv'
    BY <1>4, ReturnOkStep
<1>5. ASSUME NEW h \in Hub, ReturnUnavailable(h) PROVE StoreIInv'
    BY <1>5, ErrorStep DEF ReturnUnavailable
<1>6. ASSUME NEW h \in Hub, ReturnConflict(h) PROVE StoreIInv'
    BY <1>6, ErrorStep DEF ReturnConflict
<1>7. ASSUME NEW h \in Hub, ReturnUncertain(h) PROVE StoreIInv'
    BY <1>7, ErrorStep DEF ReturnUncertain
<1>8. ASSUME NEW h \in Hub, Overflow(h) PROVE StoreIInv'
    BY <1>8, OverflowStep
<1>9. ASSUME NEW h \in Hub, Stop(h) PROVE StoreIInv'
    BY <1>9, GoneStep DEF Stop, StopHub
<1>10. ASSUME NEW c \in inflight, Publish(c) PROVE StoreIInv'
    BY <1>10, PublishStep
<1>11. ASSUME NEW c \in inflight, Abandon(c) PROVE StoreIInv'
    BY <1>11, AbandonStep
<1>12. ASSUME UNCHANGED storeVars PROVE StoreIInv'
    <2>1. UNCHANGED <<hub, attempted, acked, refused, durable, inflight>>
        BY <1>12 DEF storeVars, writerVars
    <2>2. /\ \A k \in Hub : CandidateOf(k)' = CandidateOf(k) /\ (Calling(k)' <=> Calling(k))
          /\ \A k \in Hub, e \in 0..MaxRevision : Holds(k, e)' <=> Holds(k, e)
        BY <2>1 DEF CandidateOf, Calling, Holds
    <2>3. StoreTypeOK' /\ Copies' /\ Candidates' /\ Origins'
        BY <2>1, <2>2 DEF StoreIInv, StoreTypeOK, WriterTypeOK, Copies, Candidates, Origins
    <2>4. Fresh'
        BY <2>1, <2>2 DEF StoreIInv, Fresh
    <2>5. Epochs'
        BY <2>1, <2>2 DEF StoreIInv, Epochs
    <2>6. Calls'
        BY <2>1, <2>2 DEF StoreIInv, Calls
    <2> QED BY <2>3, <2>4, <2>5, <2>6 DEF StoreIInv
<1> QED
    BY <1>1, <1>2, <1>3, <1>4, <1>5, <1>6, <1>7, <1>8, <1>9, <1>10, <1>11, <1>12
    DEF StoreNext

-----------------------------------------------------------------------------
(* Theorems *)

\* The invariant holds for any number of Hubs, transitions and revisions.
THEOREM StoreInvariant == StoreSpec => []StoreIInv
BY StoreInitial, StoreStep, PTL DEF StoreSpec

\* Every record, lease and candidate keeps its type: in particular no revision
\* or epoch of acquire_writer or compare_and_commit passes the largest one.
THEOREM StoreTypeCorrect == StoreSpec => []StoreTypeOK
<1>1. StoreIInv => StoreTypeOK
    BY DEF StoreIInv
<1> QED BY <1>1, StoreInvariant, PTL

\* What compare_and_commit acknowledged is never lost from the record.
THEOREM StoreAckedSurvive == StoreSpec => []AckedSurvive
<1>1. StoreIInv => AckedSurvive
    BY DEF StoreIInv, Origins, AckedSurvive
<1> QED BY <1>1, StoreInvariant, PTL

\* What a serving Hub rolled back never becomes authoritative.
THEOREM StoreRefusedNeverAppears == StoreSpec => []RefusedNeverAppears
<1>1. StoreIInv => RefusedNeverAppears
    BY DEF StoreIInv, Origins, RefusedNeverAppears
<1> QED BY <1>1, StoreInvariant, PTL

\* An unfenced Hub under the durable epoch has the durable record in memory.
THEOREM StoreLeaseIsCurrent == StoreSpec => []LeaseIsCurrent
<1>1. StoreIInv => LeaseIsCurrent
    BY StoreTypes DEF StoreIInv, Calls, Copies, LeaseIsCurrent, Holding
<1> QED BY <1>1, StoreInvariant, PTL

\* A writer epoch is held by one running Hub.
THEOREM StoreOneWriterPerEpoch == StoreSpec => []OneWriterPerEpoch
<1>1. ASSUME StoreIInv PROVE OneWriterPerEpoch
    BY <1>1, StoreTypes DEF StoreIInv, Epochs, Holds, OneWriterPerEpoch, Holding
<1> QED BY <1>1, StoreInvariant, PTL

\* Every change of the durable record advances its revision by one and its
\* epoch by at most one, and drops no published transition.
THEOREM StoreMovesForward == StoreSpec => DurableMovesForward
<1> DEFINE Forward ==
             durable' # durable =>
                /\ durable'.revision = durable.revision + 1
                /\ durable'.epoch \in {durable.epoch, durable.epoch + 1}
                /\ durable.state \subseteq durable'.state
<1>1. StoreIInv /\ [StoreNext]_storeVars => [Forward]_storeVars
    <2> SUFFICES ASSUME StoreIInv, [StoreNext]_storeVars, durable' # durable
                 PROVE  Forward
        OBVIOUS
    <2>1. PICK c \in inflight : Publish(c)
        BY DEF StoreNext, storeVars, CallAcquire, RetryAcquire, CallCommit, ReturnOk,
               ReturnUnavailable, ReturnConflict, ReturnUncertain, Overflow, Stop, Abandon
    <2> QED BY <2>1, PublishStep
<1> QED BY <1>1, StoreInvariant, PTL DEF StoreSpec, DurableMovesForward

\* What a Hub may rely on in any provider of its state, all of it together, as the
\* run checks it.
THEOREM StoreIsSafe == StoreSpec => []StoreSafe
    BY StoreTypeCorrect, StoreAckedSurvive, StoreRefusedNeverAppears, StoreLeaseIsCurrent,
       StoreOneWriterPerEpoch, PTL DEF StoreSafe
=============================================================================
