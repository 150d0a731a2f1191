---------------------------- MODULE HubStateStore ----------------------------
(***************************************************************************)
(* The contract of HubAuthoritativeStateStore and of its async form        *)
(* (src/v2_hub_state_store.rs): one authoritative record, replaced only by *)
(* compare-and-commit on revision and writer epoch, and what each result   *)
(* of a call may mean.  It is the abstract specification that the local    *)
(* checkpoint store and the PostgreSQL store implement.                    *)
(*                                                                         *)
(* A call puts a candidate in flight; the candidate is published at most   *)
(* once, at any moment at which the durable record still is the one it was *)
(* based on, even after its caller gave up on it or stopped.               *)
(***************************************************************************)
EXTENDS HubWriter

VARIABLES
    durable,   \* the exact latest committed record
    inflight   \* candidates that may still be published

storeVars == <<writerVars, durable, inflight>>

StoreTypeOK ==
    /\ WriterTypeOK
    /\ durable \in Record
    /\ inflight \subseteq Candidate

StoreInit ==
    /\ WriterInit
    /\ durable = Empty
    /\ inflight = {}

-----------------------------------------------------------------------------
\* load_current and acquire_writer: the candidate is built on what is durable.
CallAcquire(h) ==
    /\ hub[h].status = "Down"
    /\ BeginAcquire(h, durable)
    /\ inflight' = inflight \cup {CandidateOf(h)'}
    /\ UNCHANGED durable

\* A provider may start an acquisition over after losing a race.
RetryAcquire(h) ==
    /\ hub[h].status = "Acquiring"
    /\ CandidateOf(h) \in inflight
    /\ hub[h].base # LeaseOf(durable)
    /\ BeginAcquire(h, durable)
    /\ inflight' = (inflight \ {CandidateOf(h)}) \cup {CandidateOf(h)'}
    /\ UNCHANGED durable

CallCommit(h, ms, tag) ==
    /\ \A c \in inflight : c.hub = h => c.tag # tag
    /\ BeginPersist(h, ms, tag)
    /\ inflight' = inflight \cup {CandidateOf(h)'}
    /\ UNCHANGED durable

\* The compare-and-commit point.
Publish(c) ==
    /\ c \in inflight
    /\ c.base = LeaseOf(durable)
    /\ durable' = c.next
    /\ inflight' = inflight \ {c}
    /\ UNCHANGED writerVars

\* Ok follows a read that found exactly the candidate.
ReturnOk(h) ==
    /\ Calling(h)
    /\ CandidateOf(h) \notin inflight
    /\ durable = hub[h].next
    /\ FinishOk(h)
    /\ UNCHANGED <<durable, inflight>>

\* Unavailable, or an I/O error before publication: the candidate was not
\* published and never will be.
ReturnUnavailable(h) ==
    /\ Calling(h)
    /\ CandidateOf(h) \in inflight
    /\ FinishError(h, FALSE)
    /\ inflight' = inflight \ {CandidateOf(h)}
    /\ UNCHANGED durable

\* StaleWriter or RevisionConflict: another writer won.
ReturnConflict(h) ==
    /\ Calling(h)
    /\ CandidateOf(h) \in inflight
    /\ hub[h].base # LeaseOf(durable)
    /\ FinishError(h, TRUE)
    /\ inflight' = inflight \ {CandidateOf(h)}
    /\ UNCHANGED durable

\* ReadAfterCommitMismatch: published, lost or still on its way.
ReturnUncertain(h) ==
    /\ Calling(h)
    /\ FinishError(h, TRUE)
    /\ inflight' \in {inflight, inflight \ {CandidateOf(h)}}
    /\ UNCHANGED durable

Overflow(h) ==
    /\ OverflowRevision(h)
    /\ UNCHANGED <<durable, inflight>>

Stop(h) ==
    /\ StopHub(h)
    /\ inflight' \in {inflight, inflight \ {CandidateOf(h)}}
    /\ UNCHANGED durable

\* A candidate nobody waits for is dropped by the provider.
Abandon(c) ==
    /\ c \in inflight
    /\ c # CandidateOf(c.hub)
    /\ inflight' = inflight \ {c}
    /\ UNCHANGED <<writerVars, durable>>

StoreNext ==
    \/ \E h \in Hub :
          \/ CallAcquire(h)
          \/ RetryAcquire(h)
          \/ \E ms \in PersistChoices(h), tag \in CallTag : CallCommit(h, ms, tag)
          \/ ReturnOk(h)
          \/ ReturnUnavailable(h)
          \/ ReturnConflict(h)
          \/ ReturnUncertain(h)
          \/ Overflow(h)
          \/ Stop(h)
    \/ \E c \in inflight :
          \/ Publish(c)
          \/ Abandon(c)

StoreSpec == StoreInit /\ [][StoreNext]_storeVars

-----------------------------------------------------------------------------
(* Properties *)

\* What a Hub was told is committed stays in the authoritative record, whoever
\* writes it afterwards: no takeover, late candidate or crash loses it.
AckedSurvive == acked \subseteq durable.state

\* What a Hub rolled back while it kept serving never becomes authoritative,
\* so a command it reported as failed cannot reappear after a restart.
RefusedNeverAppears == refused \cap durable.state = {}

\* A Hub that holds the current epoch and is not fenced has in memory exactly
\* what is durable, so it never decides on stale state.
LeaseIsCurrent ==
    \A h \in Hub :
        /\ hub[h].status = "Serving" /\ ~ hub[h].fenced /\ ~ Calling(h)
        /\ hub[h].epoch = durable.epoch
        => hub[h].revision = durable.revision /\ hub[h].state = durable.state

\* No two running Hubs ever hold the same writer epoch, including two that
\* acquired concurrently from the same record.
OneWriterPerEpoch ==
    \A h, k \in Hub :
        /\ hub[h].status \in {"Starting", "Serving"}
        /\ hub[k].status \in {"Starting", "Serving"}
        /\ hub[h].epoch = hub[k].epoch
        => h = k

\* The record only moves forward: one revision at a time, at most one epoch,
\* never dropping a published transition (no lost update).
DurableMovesForward ==
    [][durable' # durable =>
         /\ durable'.revision = durable.revision + 1
         /\ durable'.epoch \in {durable.epoch, durable.epoch + 1}
         /\ durable.state \subseteq durable'.state]_storeVars

\* What a Hub may rely on in any provider of HubAuthoritativeStateStore: the acknowledged
\* survives, the refused never appears, a current lease means current state and an
\* epoch has one writer.
StoreSafe ==
    /\ StoreTypeOK
    /\ AckedSurvive
    /\ RefusedNeverAppears
    /\ LeaseIsCurrent
    /\ OneWriterPerEpoch
=============================================================================
