------------------------- MODULE PostgresStateStore -------------------------
(***************************************************************************)
(* PostgresHubStateStore (src/v2_postgres_hub_state_store.rs): one row per *)
(* state key, replaced inside a transaction that holds the row lock taken  *)
(* by SELECT ... FOR UPDATE.  Every provider call may fail or time out; a  *)
(* COMMIT that does leaves the transaction to finish either way later.     *)
(*                                                                         *)
(* The database is external: row locks exclude one another, and a          *)
(* transaction whose COMMIT was never requested is rolled back.            *)
(***************************************************************************)
EXTENDS HubWriter

CONSTANT NoHub   \* nobody holds the row lock

ASSUME PostgresConstants == NoHub \notin Hub

VARIABLES
    row,       \* the committed row, Empty before the first INSERT
    lock,      \* the Hub whose open transaction holds the row lock
    detached,  \* the candidate of a COMMIT nobody waits for, holding the lock
    txn        \* how far the call of each Hub has come

rowVars == <<row, lock, detached>>
postgresVars == <<writerVars, row, lock, detached, txn>>

NoCandidate == [hub |-> NoHub]
Unlocked == lock = NoHub /\ detached = NoCandidate

PostgresInit ==
    /\ WriterInit
    /\ row = Empty
    /\ lock = NoHub
    /\ detached = NoCandidate
    /\ txn = [h \in Hub |-> "None"]

\* Rollback, or the end of the connection: h no longer holds the lock.
Released(h) == IF lock = h THEN NoHub ELSE lock

Ends(h, fences) ==
    /\ FinishError(h, fences)
    /\ txn' = [txn EXCEPT ![h] = "None"]

-----------------------------------------------------------------------------
\* acquire_once reads the row; a missing row cannot be locked.
ReadForAcquire(h) ==
    /\ hub[h].status = "Down" \/ txn[h] = "Retry"
    /\ row # Empty => Unlocked
    /\ BeginAcquire(h, row)
    /\ lock' = IF row = Empty THEN lock ELSE h
    /\ txn' = [txn EXCEPT ![h] = "Read"]
    /\ UNCHANGED <<row, detached>>

PostgresCommit(h, ms) ==
    /\ BeginPersist(h, ms, IF detached.hub = h THEN 1 - detached.tag ELSE 0)
    /\ txn' = [txn EXCEPT ![h] = "Called"]
    /\ UNCHANGED rowVars

ReadForCommit(h) ==
    /\ txn[h] = "Called"
    /\ Unlocked
    /\ hub[h].base = LeaseOf(row)
    /\ lock' = h
    /\ txn' = [txn EXCEPT ![h] = "Read"]
    /\ UNCHANGED <<writerVars, row, detached>>

\* StaleWriter or RevisionConflict, and a rollback.
ReadConflict(h) ==
    /\ txn[h] = "Called"
    /\ Unlocked
    /\ hub[h].base # LeaseOf(row)
    /\ Ends(h, TRUE)
    /\ UNCHANGED rowVars

\* UPDATE ... WHERE revision AND writer_epoch, under the lock: one row.
ExecuteUpdate(h) ==
    /\ txn[h] = "Read"
    /\ lock = h
    /\ txn' = [txn EXCEPT ![h] = "Executed"]
    /\ UNCHANGED <<writerVars, rowVars>>

\* INSERT ... ON CONFLICT DO NOTHING waits for a concurrent insertion.
ExecuteInsert(h) ==
    /\ txn[h] = "Read"
    /\ lock # h
    /\ Unlocked
    /\ row = Empty
    /\ lock' = h
    /\ txn' = [txn EXCEPT ![h] = "Executed"]
    /\ UNCHANGED <<writerVars, row, detached>>

\* No row inserted: another Hub was first.  The next attempt finds and locks
\* the row, so the limit of MAX_ACQUIRE_RETRIES (4) is never reached.
InsertLost(h) ==
    /\ txn[h] = "Read"
    /\ lock # h
    /\ Unlocked
    /\ row # Empty
    /\ txn' = [txn EXCEPT ![h] = "Retry"]
    /\ UNCHANGED <<writerVars, rowVars>>

\* Connecting, the transaction, the read or the statement failed or timed
\* out (Unavailable), or the row or schema is not one this build knows
\* (InvalidState, ProviderSchemaMismatch): the transaction ends without a COMMIT.
ProviderFails(h) ==
    /\ txn[h] \in {"Called", "Read", "Executed", "Retry"}
    /\ \E fences \in BOOLEAN : Ends(h, fences)
    /\ lock' = Released(h)
    /\ UNCHANGED <<row, detached>>

CommitTransaction(h) ==
    /\ txn[h] = "Executed"
    /\ row' = hub[h].next
    /\ lock' = Released(h)
    /\ txn' = [txn EXCEPT ![h] = "Committed"]
    /\ UNCHANGED <<writerVars, detached>>

\* Mutant: a failed COMMIT is reported as Unavailable.
CommitFailureUnavailable(h) ==
    /\ txn[h] = "Executed"
    /\ Ends(h, FALSE)
    /\ lock' = Released(h)
    /\ detached' = CandidateOf(h)
    /\ UNCHANGED row

\* COMMIT was requested but its outcome is unknown: ReadAfterCommitMismatch.
CommitUnknown(h) ==
    /\ txn[h] = "Executed"
    /\ Ends(h, TRUE)
    /\ lock' = Released(h)
    /\ detached' = CandidateOf(h)
    /\ UNCHANGED row

\* The server finishes the COMMIT nobody waits for, or rolls it back.
DetachedCommit ==
    /\ detached # NoCandidate
    /\ row' = detached.next
    /\ detached' = NoCandidate
    /\ UNCHANGED <<writerVars, lock, txn>>

DetachedAbort ==
    /\ detached # NoCandidate
    /\ detached' = NoCandidate
    /\ UNCHANGED <<writerVars, row, lock, txn>>

\* verify_exact: any failure of the read is a mismatch too.
VerifyExact(h) ==
    /\ txn[h] = "Committed"
    /\ row = hub[h].next
    /\ FinishOk(h)
    /\ txn' = [txn EXCEPT ![h] = "None"]
    /\ UNCHANGED rowVars

VerifyExactFails(h) ==
    /\ txn[h] = "Committed"
    /\ Ends(h, TRUE)
    /\ UNCHANGED rowVars

PostgresOverflow(h) ==
    /\ OverflowRevision(h)
    /\ UNCHANGED <<rowVars, txn>>

\* The process stops; a COMMIT it had already requested goes on.
PostgresStop(h) ==
    /\ StopHub(h)
    /\ lock' = Released(h)
    /\ txn' = [txn EXCEPT ![h] = "None"]
    /\ \/ UNCHANGED detached
       \/ /\ txn[h] = "Executed"
          /\ detached' = CandidateOf(h)
    /\ UNCHANGED row

PostgresNext ==
    \/ \E h \in Hub :
          \/ ReadForAcquire(h)
          \/ \E ms \in PersistChoices(h) : PostgresCommit(h, ms)
          \/ ReadForCommit(h)
          \/ ReadConflict(h)
          \/ ExecuteUpdate(h)
          \/ ExecuteInsert(h)
          \/ InsertLost(h)
          \/ ProviderFails(h)
          \/ CommitTransaction(h)
          \/ CommitUnknown(h)
          \/ VerifyExact(h)
          \/ VerifyExactFails(h)
          \/ PostgresOverflow(h)
          \/ PostgresStop(h)
    \/ DetachedCommit
    \/ DetachedAbort

PostgresSpec == PostgresInit /\ [][PostgresNext]_postgresVars

-----------------------------------------------------------------------------
\* The candidates that may still become the row: those of open transactions
\* and the one whose COMMIT nobody waits for.
OpenCalls == {h \in Hub : txn[h] \in {"Called", "Read", "Executed", "Retry"}}
OnTheirWay == {CandidateOf(h) : h \in OpenCalls} \cup ({detached} \ {NoCandidate})

\* The contract, with the row as the durable record.
RowContract == INSTANCE HubStateStore WITH durable <- row, inflight <- OnTheirWay

\* Every behaviour of the transactions, with timeouts, lost acknowledgements
\* and commits that land after their Hub gave up, is one the contract allows.
PostgresImplementsContract ==
    /\ RowContract!StoreInit
    /\ [][UNCHANGED RowContract!storeVars \/ RowContract!StoreNext]_postgresVars
=============================================================================
