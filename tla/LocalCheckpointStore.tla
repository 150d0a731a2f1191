------------------------ MODULE LocalCheckpointStore ------------------------
(***************************************************************************)
(* LocalCheckpointHubStateStore over CheckpointStore                       *)
(* (src/v2_hub_state_store.rs, src/v2_m1_persistence.rs): append-only      *)
(* checkpoint files in one directory, published by a hard link to the next *)
(* sequence number.  Several Hubs may use the directory at once: the gate  *)
(* mutex belongs to one store object, so every file-system call of one can *)
(* fall between two calls of another.                                      *)
(*                                                                         *)
(* The pending file is complete and synced before the link, so a file is   *)
(* its record.  A name is durable once the directory has been synced.      *)
(***************************************************************************)
EXTENDS HubWriter, FiniteSetsExt

CONSTANTS
    MaxRetained   \* MAX_RETAINED_CHECKPOINTS (64)

ASSUME LocalConstants == MaxRetained \in Nat \ {0}

VARIABLES
    files,     \* checkpoint files by sequence number, Empty where there is none
    synced,    \* names that survive a machine crash
    step,      \* how far the call of each Hub has come
    expected,  \* the sequence number its candidate must follow
    landed,    \* Hubs whose link, when made, was the latest checkpoint
    faulty     \* in this behaviour reads may fail and the machine may crash

fileVars == <<files, synced>>
localVars == <<writerVars, files, synced, step, expected, landed, faulty>>

Sequence == 1..MaxRevision
Present == {s \in Sequence : files[s] # Empty}

\* latest_sequence and the record load_latest_with_sequence reads there.
Latest == Max({0} \cup Present)
Current == IF Latest = 0 THEN Empty ELSE files[Latest]

LocalInit ==
    /\ WriterInit
    /\ files = [s \in Sequence |-> Empty]
    /\ synced = {}
    /\ step = [h \in Hub |-> "None"]
    /\ expected = [h \in Hub |-> 0]
    /\ landed = {}
    /\ faulty \in BOOLEAN

\* The call of h is over.
CallOver(h) ==
    /\ step' = [step EXCEPT ![h] = "None"]
    /\ expected' = [expected EXCEPT ![h] = 0]
    /\ landed' = landed \ {h}

Fails(h, fences) ==
    /\ FinishError(h, fences)
    /\ CallOver(h)
    /\ UNCHANGED fileVars

-----------------------------------------------------------------------------
\* acquire_writer loads the latest record; a Hub that cannot stays down.
LocalAcquire(h) ==
    /\ hub[h].status = "Down"
    /\ BeginAcquire(h, Current)
    /\ step' = [step EXCEPT ![h] = "Loaded"]
    /\ expected' = [expected EXCEPT ![h] = Latest]
    /\ UNCHANGED <<fileVars, landed>>

\* compare_and_commit is called.
LocalCommit(h, ms) ==
    /\ BeginPersist(h, ms, 0)
    /\ step' = [step EXCEPT ![h] = "Called"]
    /\ UNCHANGED <<fileVars, expected, landed>>

\* compare_and_commit loads the latest record and compares the lease.
LoadMatching(h) ==
    /\ step[h] = "Called"
    /\ hub[h].base = LeaseOf(Current)
    /\ step' = [step EXCEPT ![h] = "Loaded"]
    /\ expected' = [expected EXCEPT ![h] = Latest]
    /\ UNCHANGED <<writerVars, fileVars, landed>>

LoadConflict(h) ==
    /\ step[h] = "Called"
    /\ hub[h].base # LeaseOf(Current)
    /\ Fails(h, TRUE)

LoadFails(h) ==
    /\ faulty
    /\ step[h] = "Called"
    /\ Fails(h, FALSE)

\* save_if_latest_sequence_with_size looks the latest sequence up again.
CheckLatest(h) ==
    /\ step[h] = "Loaded"
    /\ Latest = expected[h]
    /\ step' = [step EXCEPT ![h] = "Checked"]
    /\ UNCHANGED <<writerVars, fileVars, expected, landed>>

\* The directory cannot be listed or the pending file cannot be written or
\* linked: nothing has been published.
WriteFails(h) ==
    /\ step[h] \in {"Loaded", "Checked"}
    /\ Fails(h, FALSE)

\* ConditionalConflict, from the second look or from a name already taken.
\* A commit then loads the record once more to name the conflict.
Conflicting(h) ==
    \/ step[h] = "Loaded" /\ Latest # expected[h]
    \/ step[h] = "Checked" /\ files[expected[h] + 1] # Empty

ConditionalConflict(h) ==
    /\ Conflicting(h)
    /\ \/ Fails(h, TRUE)
       \/ faulty /\ Fails(h, FALSE)

\* Mutant: the final name is written over.
LinkReplacing(h) ==
    LET seq == expected[h] + 1 IN
    /\ step[h] = "Checked"
    /\ files' = [files EXCEPT ![seq] = hub[h].next]
    /\ synced' = synced \ {seq}
    /\ step' = [step EXCEPT ![h] = "Linked"]
    /\ landed' = IF seq >= Latest THEN landed \cup {h} ELSE landed
    /\ UNCHANGED <<writerVars, expected>>

\* hard_link to the next name.  It can also succeed below the latest one, when
\* that name has been used and pruned since the check.
Link(h) ==
    LET seq == expected[h] + 1 IN
    /\ step[h] = "Checked"
    /\ files[seq] = Empty
    /\ files' = [files EXCEPT ![seq] = hub[h].next]
    /\ step' = [step EXCEPT ![h] = "Linked"]
    /\ landed' = IF seq > Latest THEN landed \cup {h} ELSE landed
    /\ UNCHANGED <<writerVars, synced, expected>>

\* prune_old_checkpoints keeps the newest; its own failure is ignored.
Pruned ==
    [s \in Sequence |->
        IF Cardinality({t \in Present : t >= s}) > MaxRetained THEN Empty ELSE files[s]]

SyncDirectory(h) ==
    /\ step[h] = "Linked"
    /\ files' \in {files, Pruned}
    /\ synced' = {s \in Sequence : files'[s] # Empty}
    /\ step' = [step EXCEPT ![h] = "Synced"]
    /\ UNCHANGED <<writerVars, expected, landed>>

\* PublicationUncertain: the name is visible but may not survive.
SyncFails(h) ==
    /\ step[h] = "Linked"
    /\ Fails(h, TRUE)

\* Mutant: success is returned as soon as the link exists.
VerifyNothing(h) ==
    /\ step[h] \in {"Linked", "Synced"}
    /\ FinishOk(h)
    /\ CallOver(h)
    /\ UNCHANGED fileVars

\* save_and_verify_unlocked reads the latest checkpoint back.
Verify(h) ==
    /\ step[h] = "Synced"
    /\ Latest = expected[h] + 1 /\ Current = hub[h].next
    /\ FinishOk(h)
    /\ CallOver(h)
    /\ UNCHANGED fileVars

VerifyMismatch(h) ==
    /\ step[h] = "Synced"
    /\ Latest # expected[h] + 1 \/ Current # hub[h].next
    /\ Fails(h, TRUE)

\* The read fails: its error is returned as it is and does not fence.
VerifyReadFails(h) ==
    /\ faulty
    /\ step[h] = "Synced"
    /\ Fails(h, FALSE)

LocalOverflow(h) ==
    /\ OverflowRevision(h)
    /\ UNCHANGED <<fileVars, step, expected, landed>>

LocalStop(h) ==
    /\ StopHub(h)
    /\ CallOver(h)
    /\ UNCHANGED fileVars

\* Every process stops and any of the names not yet synced are gone.
MachineCrash ==
    /\ faulty
    /\ hub' = [h \in Hub |-> IF hub[h].status = "Down" THEN Down ELSE Gone]
    /\ step' = [h \in Hub |-> "None"]
    /\ expected' = [h \in Hub |-> 0]
    /\ landed' = {}
    /\ \E lost \in SUBSET (Present \ synced) :
          files' = [s \in Sequence |-> IF s \in lost THEN Empty ELSE files[s]]
    /\ synced' = {s \in Sequence : files'[s] # Empty}
    /\ UNCHANGED <<attempted, acked, refused>>

LocalStep ==
    \/ \E h \in Hub :
          \/ LocalAcquire(h)
          \/ \E ms \in PersistChoices(h) : LocalCommit(h, ms)
          \/ LoadMatching(h)
          \/ LoadConflict(h)
          \/ LoadFails(h)
          \/ CheckLatest(h)
          \/ WriteFails(h)
          \/ ConditionalConflict(h)
          \/ Link(h)
          \/ SyncDirectory(h)
          \/ SyncFails(h)
          \/ Verify(h)
          \/ VerifyMismatch(h)
          \/ VerifyReadFails(h)
          \/ LocalOverflow(h)
          \/ LocalStop(h)
    \/ MachineCrash

LocalNext == LocalStep /\ UNCHANGED faulty

LocalSpec == LocalInit /\ [][LocalNext]_localVars

-----------------------------------------------------------------------------
(* The contract, with the latest file as the durable record. *)

\* The candidates that may still become the latest checkpoint.
Unlanded == {h \in Hub : Calling(h) /\ h \notin landed}
Pending == {CandidateOf(h) : h \in Unlanded}

LocalContract == INSTANCE HubStateStore WITH durable <- Current, inflight <- Pending

\* When reads succeed and the machine stays up, every file-level behaviour of
\* the store, whatever its Hubs interleave, is one the contract allows.
ImplementsContract ==
    /\ LocalContract!StoreInit
    /\ [][~faulty => UNCHANGED LocalContract!storeVars \/ LocalContract!StoreNext]_localVars

\* A transition a Hub was told is committed is in the latest checkpoint, also
\* after a machine crash took every name that was not yet synced and after a
\* stale Hub linked below the latest name.
AckedSurviveCrash == acked \subseteq Current.state

\* Two Hubs over one directory never hold the same writer epoch, even when
\* both acquired from the same checkpoint and one name was pruned meanwhile.
OneLocalWriterPerEpoch == LocalContract!OneWriterPerEpoch

\* What a Hub may rely on in a directory whose reads fail and whose machine crashes.
LocalCrashSafe == AckedSurviveCrash /\ OneLocalWriterPerEpoch
=============================================================================
