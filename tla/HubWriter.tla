------------------------------ MODULE HubWriter ------------------------------
(***************************************************************************)
(* A Hub process as a writer of authoritative state: how HubService in     *)
(* src/v2_m1_hub.rs starts over a state store and persists each transition *)
(* of its registry and execution controller.                               *)
(*                                                                         *)
(* The stores (HubStateStore, LocalCheckpointStore, PostgresStateStore)    *)
(* extend this module and decide when a call returns and with what.  The   *)
(* `persistent' mutex is held across a commit, so a Hub has one call       *)
(* outstanding.  A HubPersistentState is the set of transitions applied to *)
(* it so far; a commit may also publish no transition (the handoff fence). *)
(***************************************************************************)
EXTENDS Naturals, FiniteSets

CONSTANTS
    Hub,           \* Hub processes over one state key; a restart is another one
    Mutation,      \* transitions a Hub may try to persist, each tried once
    MaxRevision    \* stands for the largest revision: checked_add fails there

ASSUME HubWriterConstants == MaxRevision \in Nat \ {0}

VARIABLES
    hub,        \* per process: PersistentHubState, writer_fenced, its call
    attempted,  \* transitions handed to persist_locked so far
    acked,      \* transitions whose commit returned Ok: the Hub acts on them
    refused     \* transitions rolled back by a Hub that was not fenced

writerVars == <<hub, attempted, acked, refused>>

\* DurableHubState; the empty store and a legacy checkpoint are revision 0.
Record == [revision : 0..MaxRevision, epoch : 0..MaxRevision,
           state : SUBSET Mutation]
Empty == [revision |-> 0, epoch |-> 0, state |-> {}]

\* HubWriterLease: what a commit is conditioned on.
Lease == [revision : 0..MaxRevision, epoch : 0..MaxRevision]
LeaseOf(r) == [revision |-> r.revision, epoch |-> r.epoch]

\* Tells a call from an earlier one of the same process that may still be on
\* its way in the provider and published the same record.
CallTag == 0..1

\* `state' is committed_registry and committed_execution: outside a call the
\* live copies equal them.  During a call `next' is the candidate record and
\* `base' the lease it is conditioned on; next is Empty outside a call.
HubProcess ==
    [status : {"Down", "Acquiring", "Starting", "Serving", "Gone"}, fenced : BOOLEAN,
     revision : 0..MaxRevision, epoch : 0..MaxRevision, state : SUBSET Mutation,
     base : Lease, next : Record, tag : CallTag]
Down == [status |-> "Down", fenced |-> FALSE, revision |-> 0, epoch |-> 0,
         state |-> {}, base |-> LeaseOf(Empty), next |-> Empty, tag |-> 0]
Gone == [Down EXCEPT !.status = "Gone"]

Calling(h) == hub[h].next # Empty

\* What a call asks the provider to publish.
Candidate == [hub : Hub, base : Lease, next : Record, tag : CallTag]
CandidateOf(h) == [hub |-> h, base |-> hub[h].base, next |-> hub[h].next,
                   tag |-> hub[h].tag]

WriterTypeOK ==
    /\ hub \in [Hub -> HubProcess]
    /\ attempted \subseteq Mutation
    /\ acked \subseteq attempted
    /\ refused \subseteq attempted

WriterInit ==
    /\ hub = [h \in Hub |-> Down]
    /\ attempted = {}
    /\ acked = {}
    /\ refused = {}

-----------------------------------------------------------------------------

\* acquire_writer on what the store holds: a strictly newer epoch over the
\* unchanged state (the bootstrap state when the store is empty).
AcquireRecord(current) ==
    [revision |-> current.revision + 1, epoch |-> current.epoch + 1,
     state |-> current.state]

BeginAcquire(h, current) ==
    /\ hub[h].status \in {"Down", "Acquiring"}
    /\ current.revision < MaxRevision
    /\ hub' = [hub EXCEPT ![h] = [Down EXCEPT !.status = "Acquiring",
                                              !.base = LeaseOf(current),
                                              !.next = AcquireRecord(current)]]
    /\ UNCHANGED <<attempted, acked, refused>>

\* The transitions of one persist call; startup persists what it acquired.
PersistChoices(h) ==
    {{}} \cup IF hub[h].status = "Serving"
              THEN {{m} : m \in Mutation \ attempted} ELSE {}

BeginPersist(h, ms, tag) ==
    /\ hub[h].status \in {"Starting", "Serving"}
    /\ ~ Calling(h)
    /\ ms \in PersistChoices(h)
    /\ hub[h].revision < MaxRevision
    /\ hub' = [hub EXCEPT ![h].base = LeaseOf(hub[h]), ![h].tag = tag,
                          ![h].next = [revision |-> hub[h].revision + 1,
                                       epoch |-> hub[h].epoch,
                                       state |-> hub[h].state \cup ms]]
    /\ attempted' = attempted \cup ms
    /\ UNCHANGED <<acked, refused>>

\* The call returned Ok: the candidate is now the committed state.
FinishOk(h) ==
    LET p == hub[h] IN
    /\ hub' = [hub EXCEPT ![h] =
                 [status |-> IF p.status = "Acquiring" THEN "Starting" ELSE "Serving",
                  fenced |-> p.fenced, revision |-> p.next.revision,
                  epoch |-> p.next.epoch, state |-> p.next.state,
                  base |-> LeaseOf(Empty), next |-> Empty, tag |-> 0]]
    /\ acked' = IF p.status = "Acquiring" THEN acked
                ELSE acked \cup (p.next.state \ p.state)
    /\ UNCHANGED <<attempted, refused>>

\* Mutant: a fencing error is treated like any other.
FinishErrorUnfenced(h, fences) ==
    LET p == hub[h] IN
    /\ hub' = [hub EXCEPT ![h] =
                 IF p.status = "Serving"
                 THEN [p EXCEPT !.base = LeaseOf(Empty), !.next = Empty, !.tag = 0]
                 ELSE Gone]
    /\ refused' = refused \cup (p.next.state \ p.state)
    /\ UNCHANGED <<attempted, acked>>

\* The call returned an error: live state goes back to the committed one, and
\* an error that fences_current_writer sets writer_fenced.  A Hub that has not
\* finished starting gives up.
FinishError(h, fences) ==
    LET p == hub[h] IN
    /\ hub' = [hub EXCEPT ![h] =
                 IF p.status = "Serving"
                 THEN [p EXCEPT !.fenced = p.fenced \/ fences,
                                !.base = LeaseOf(Empty), !.next = Empty,
                                !.tag = 0]
                 ELSE Gone]
    /\ refused' = IF p.status = "Serving" /\ ~ fences
                  THEN refused \cup (p.next.state \ p.state) ELSE refused
    /\ UNCHANGED <<attempted, acked>>

\* RevisionOverflow: the revision cannot advance, the writer is fenced.
OverflowRevision(h) ==
    /\ hub[h].status \in {"Starting", "Serving"}
    /\ ~ Calling(h)
    /\ hub[h].revision = MaxRevision
    /\ hub' = [hub EXCEPT ![h] = IF @.status = "Serving"
                                 THEN [@ EXCEPT !.fenced = TRUE] ELSE Gone]
    /\ UNCHANGED <<attempted, acked, refused>>

\* The process stops, with or without a call outstanding.
StopHub(h) ==
    /\ hub[h].status \in {"Acquiring", "Starting", "Serving"}
    /\ hub' = [hub EXCEPT ![h] = Gone]
    /\ UNCHANGED <<attempted, acked, refused>>
=============================================================================
