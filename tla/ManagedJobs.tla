---- MODULE ManagedJobs ----
(***************************************************************************)
(* Long-running jobs on a device: the job manager with one supervisor      *)
(* thread per job, the sandboxed test runner on top of it whose jobs also  *)
(* own a container, and the part of the Agent session that cleans them up  *)
(* and remembers, durably, that it could not.  A job is started once: the  *)
(* members of Jobs stand for the random locators.  Deadlines are flags     *)
(* that clock steps raise; grace periods end whenever GraceOver is taken.  *)
(***************************************************************************)
EXTENDS Naturals, FiniteSets

CONSTANTS Jobs, Tests, MaxConcurrent

VARIABLES job,       \* what the manager knows of each job, and its process
          box,       \* the container of each test: none or present
          proven,    \* tests whose container was seen to be absent
          entries,   \* tests with an entry in the runner's artifact table
          monitored, \* tests whose monitor thread has not returned
          stopper,   \* whose provider-aware stop of each test is under way
          overdue,   \* tests stopped because their lifetime was over
          told,      \* what the last answer about each job promised
          providerIndeterminate,
          failClosed, \* [memory, disk]
          agent      \* down, offline, session, ending or closing

runnerVars == <<proven, entries, monitored, stopper, overdue>>
jobVars == <<job, box, runnerVars, told, providerIndeterminate, failClosed, agent>>

ASSUME JobConstants == Tests \subseteq Jobs /\ MaxConcurrent \in Nat

Generic == Jobs \ Tests
Settled == {"completed", "stopped", "expired"}
TerminalJob == Settled \cup {"indeterminate"}
KnownJob == TerminalJob \cup {"starting", "running", "stop_requested"}

\* The initial record: never started.  "lost" is a record the manager dropped.
NoRecord == [state |-> "fresh", reason |-> "none", alive |-> FALSE,
             watch |-> "none", lease |-> FALSE, hard |-> FALSE]

JobsInit == /\ job = [j \in Jobs |-> NoRecord]
            /\ box = [j \in Tests |-> "none"] /\ proven = {} /\ overdue = {}
            /\ entries = {} /\ monitored = {}
            /\ stopper = [j \in Tests |-> "idle"] /\ told = [j \in Jobs |-> "none"]
            /\ providerIndeterminate = FALSE
            /\ failClosed = [memory |-> FALSE, disk |-> FALSE]
            /\ agent = "offline"

\* A record that is gone; the process, if there is one, is not.
Dropped(j) == [NoRecord EXCEPT !.state = "lost", !.alive = job[j].alive]

JobIs(j, states) == job[j].state \in states

\* Only the manager's record changes.
OnlyJob == UNCHANGED <<box, runnerVars, told, failClosed, agent,
                       providerIndeterminate>>

-----------------------------------------------------------------------------
(* Starting.                                                               *)

\* Admission under the start gate: what is not terminal counts, and each
\* manager counts its own jobs.
Manager(j) == IF j \in Tests THEN Tests ELSE Generic
HasCapacity(j) ==
    Cardinality({i \in Manager(j) : JobIs(i, KnownJob \ TerminalJob)}) < MaxConcurrent

\* spawn_supervised: the process group exists before the record does.
Spawned(j) == [NoRecord EXCEPT !.state = "starting", !.alive = TRUE]

\* The proof and the expiry of a test are fields of its entry.
KeepsEntries(kept) ==
    /\ entries' = kept /\ proven' = proven \cap kept /\ overdue' = overdue \cap kept

\* prune_orphaned_artifacts: entries whose record the manager has dropped.
Orphaned == {i \in entries : JobIs(i, {"lost"})}

\* start up to the insertion of the record.  The test runner first drops the
\* entries of pruned tests, and refuses when one of those was never proven to
\* have left no container.
StartJob(j) ==
    /\ agent = "session" /\ JobIs(j, {"fresh"}) /\ HasCapacity(j)
    /\ IF j \in Tests /\ ~(Orphaned \subseteq proven)
       THEN providerIndeterminate' = TRUE /\ UNCHANGED <<job, entries, proven, overdue>>
       ELSE /\ job' = [job EXCEPT ![j] = Spawned(j)]
            /\ KeepsEntries(IF j \in Tests THEN entries \ Orphaned ELSE entries)
            /\ UNCHANGED providerIndeterminate
    /\ UNCHANGED <<box, monitored, stopper, told, failClosed, agent>>

\* The readers run: the record becomes Running and the supervisor starts; a test
\* gets its entry and its monitor.
StartRuns(j) ==
    /\ agent # "down" /\ JobIs(j, {"starting"}) /\ job[j].watch = "none"
    /\ job' = [job EXCEPT ![j].state = "running", ![j].watch = "looking"]
    /\ entries' = entries \cup ({j} \cap Tests)
    /\ monitored' = monitored \cup ({j} \cap Tests)
    /\ UNCHANGED <<box, proven, stopper, overdue, told, failClosed, agent, providerIndeterminate>>

\* prove_terminal kills the group and waits for it: a proof means that it is
\* over; without one it may be over or not.
\* fail_start_cleanup, when a thread cannot be started: the record goes with
\* a proof and stays, as indeterminate, without one.  Nothing looks for the
\* container of a test that got no entry.
StartFails(j) ==
    /\ agent # "down" /\ JobIs(j, {"starting"}) /\ job[j].watch = "none"
    /\ \E proof \in BOOLEAN :
         /\ job' = [job EXCEPT ![j] = IF proof THEN [Dropped(j) EXCEPT !.alive = FALSE]
                                       ELSE [job[j] EXCEPT !.state = "indeterminate"]]
         /\ providerIndeterminate' = (providerIndeterminate \/ (j \in Tests /\ ~proof))
    /\ UNCHANGED <<box, runnerVars, told, failClosed, agent>>

-----------------------------------------------------------------------------
(* The job's own life.                                                     *)

ProcessExits(j) == /\ job[j].alive /\ job' = [job EXCEPT ![j].alive = FALSE]
                   /\ OnlyJob

\* The container appears while its client runs, perhaps after a first rm -f.
ContainerAppears(j) ==
    /\ box[j] # "present" /\ job[j].alive /\ box' = [box EXCEPT ![j] = "present"]
    /\ UNCHANGED <<job, runnerVars, told, failClosed, agent,
                   providerIndeterminate>>

ContainerEnds(j) ==
    /\ box[j] = "present" /\ box' = [box EXCEPT ![j] = "none"]
    /\ UNCHANGED <<job, runnerVars, told, failClosed, agent,
                   providerIndeterminate>>

\* The lease never outlives the hard deadline, so it is due with it.  A test
\* has no lease of its own.
LeaseDue(j) == /\ j \in Generic /\ JobIs(j, KnownJob \ TerminalJob) /\ ~job[j].lease
               /\ job' = [job EXCEPT ![j].lease = TRUE] /\ OnlyJob
HardDue(j) == /\ JobIs(j, KnownJob \ TerminalJob) /\ ~job[j].hard
              /\ job' = [job EXCEPT ![j].lease = TRUE, ![j].hard = TRUE] /\ OnlyJob

-----------------------------------------------------------------------------
(* supervise_job.                                                          *)

\* Mutant: renewals and requests end a job, clocks do not.
DecisionWithoutClock(j) == IF JobIs(j, {"stop_requested"}) THEN job[j].reason ELSE "none"

\* What the supervisor decides under the record's lock: the deadlines come before a
\* stop that a caller or the shutdown asked for.
Decision(j) == IF job[j].hard \/ job[j].lease THEN "deadline"
               ELSE IF JobIs(j, {"stop_requested"}) THEN job[j].reason
               ELSE "none"

\* The supervisor of a terminal record returns, whatever the process does.
SupervisorReturns(j) ==
    /\ job[j].watch = "looking" /\ JobIs(j, TerminalJob)
    /\ job' = [job EXCEPT ![j].watch = "done"] /\ OnlyJob

SupervisorDecides(j) ==
    /\ agent # "down" /\ job[j].watch = "looking" /\ ~JobIs(j, TerminalJob)
    /\ \/ /\ Decision(j) # "none"
          /\ job' = [job EXCEPT ![j].state = "stop_requested", ![j].watch = "stopping",
                                ![j].reason = Decision(j)]
       \/ /\ Decision(j) = "none"
          /\ ~job[j].alive \* try_wait has an exit status
          /\ job' = [job EXCEPT ![j].watch = "reaping"]
    /\ OnlyJob

\* A poll that fails ends the job like an exit does.
SupervisorPollFails(j) ==
    /\ agent # "down" /\ job[j].watch = "looking" /\ ~JobIs(j, TerminalJob)
    /\ Decision(j) = "none"
    /\ job' = [job EXCEPT ![j].watch = "reaping"]
    /\ OnlyJob

\* What a proof makes of the record.
Concluded(j, proof) ==
    IF ~proof THEN "indeterminate"
    ELSE IF job[j].watch = "reaping" THEN "completed"
    ELSE IF job[j].reason = "deadline" THEN "expired"
    ELSE "stopped"

\* The proof is made outside the record's lock; a waiter whose grace ended
\* meanwhile has made the record indeterminate, and that is kept.
SupervisorConcludes(j) ==
    /\ agent # "down" /\ job[j].watch \in {"stopping", "reaping"}
    /\ \E proof \in BOOLEAN :
         job' = [job EXCEPT ![j] = [NoRecord EXCEPT
                   !.watch = "done", !.alive = job[j].alive /\ ~proof,
                   !.state = IF JobIs(j, {"indeterminate"}) THEN "indeterminate"
                             ELSE Concluded(j, proof)]]
    /\ OnlyJob

-----------------------------------------------------------------------------
(* The manager's calls.  The Agent serves one operation at a time.         *)

\* A caller has the locator once the start has answered.
Addressable(j) == j \in Generic /\ JobIs(j, KnownJob) /\ job[j].watch # "none"

\* What an answer promises: that the job has ended, or that its lifetime has.
Answer(status) ==
    CASE status \in {"completed", "stopped"} -> "ended"
      [] status = "expired" -> "expired"
      [] OTHER -> "none"

\* renew: past the hard deadline there is nothing to renew.
RenewJob(j) ==
    /\ agent = "session" /\ Addressable(j) /\ JobIs(j, KnownJob \ TerminalJob)
    /\ job' = [job EXCEPT ![j] =
                 IF job[j].hard
                 THEN [@ EXCEPT !.state = "stop_requested", !.reason = "deadline"]
                 ELSE [@ EXCEPT !.lease = FALSE]]
    /\ OnlyJob

Requested(j) ==
    IF JobIs(j, KnownJob \ TerminalJob)
    THEN [job[j] EXCEPT !.state = "stop_requested", !.reason = "asked"] ELSE job[j]

\* stop: ask and wait; a generic stop tells its caller the state it ends in.
StopJob(j) ==
    /\ agent = "session" /\ Addressable(j)
    /\ job' = [job EXCEPT ![j] = Requested(j)]
    /\ told' = [told EXCEPT ![j] = Answer(job[j].state)]
    /\ UNCHANGED <<box, runnerVars, failClosed, agent,
                   providerIndeterminate>>

\* wait_for_terminal and shutdown_all give up after stop_proof_grace.
GraceOver(j) ==
    /\ agent # "down" /\ JobIs(j, {"stop_requested"})
    /\ job[j].reason = "asked" \/ agent = "closing"
    /\ job' = [job EXCEPT ![j].state = "indeterminate"]
    /\ OnlyJob

StatusJob(j) ==
    /\ agent = "session" /\ Addressable(j)
    /\ told' = [told EXCEPT ![j] = Answer(job[j].state)]
    /\ UNCHANGED <<job, box, runnerVars, failClosed, agent,
                   providerIndeterminate>>

\* prune_terminal drops a terminal record by age or by number, in whatever call
\* comes next: of a caller, a monitor or the stop at shutdown.  The safety
\* poll runs every 100 ms and the retention is five minutes, so an
\* indeterminate record has been seen by the poll before it is dropped.
PruneJob(j) ==
    /\ JobIs(j, Settled)
    /\ agent = "session" \/ (j \in Tests /\ agent # "down")
    /\ job' = [job EXCEPT ![j] = Dropped(j)]
    /\ OnlyJob

-----------------------------------------------------------------------------
(* The test runner.                                                        *)

\* container rm -f and container ps -a: the provider may fail to answer;
\* what it answers is true.
Removes(j, works) == box' = [box EXCEPT ![j] = IF works THEN "none" ELSE @]

\* What the caller is shown: an overdue test that is proven gone is Expired.
Shown(j, absent) ==
    IF j \in overdue /\ absent /\ JobIs(j, TerminalJob) THEN "expired" ELSE job[j].state

\* Who may stop a test: a caller, its monitor (at the deadline, or for artifacts out
\* of bounds), and shutdown_jobs, once for every entry.
Stoppers == {"caller", "monitor", "shutdown"}
MayStop(j, by) ==
    CASE by = "caller" -> agent = "session" /\ stopper[j] = "idle"
      [] by = "shutdown" -> agent = "closing" /\ stopper[j] = "due"
      [] OTHER -> agent \notin {"down", "closing"} /\ stopper[j] = "idle" /\ j \in monitored

\* What everyone but a caller makes of a stop that failed.
Failed(by) == IF by = "shutdown" THEN "failed" ELSE "idle"

\* stop_provider_aware: a monitor at the deadline first notes that the lifetime is
\* over; then ask the manager to stop and try to remove the container.
TestStop(j, by) ==
    /\ j \in entries /\ JobIs(j, KnownJob) /\ MayStop(j, by)
    /\ overdue' \in {overdue} \cup (IF by = "monitor" THEN {overdue \cup {j}} ELSE {})
    /\ monitored' = IF by = "monitor" THEN monitored \ {j} ELSE monitored
    /\ job' = [job EXCEPT ![j] = Requested(j)]
    /\ stopper' = [stopper EXCEPT ![j] = by]
    /\ \E works \in BOOLEAN : Removes(j, works)
    /\ UNCHANGED <<proven, entries, told, failClosed, agent, providerIndeterminate>>

\* UnknownJob: the entry is there and the record was pruned.  Nothing is stopped, and
\* a monitor or the shutdown takes the test for one whose end is not proven.
TestStopUnknown(j, by) ==
    /\ j \in entries /\ JobIs(j, {"lost"}) /\ MayStop(j, by) /\ by # "caller"
    /\ monitored' = monitored \ {j}
    /\ stopper' = [stopper EXCEPT ![j] = Failed(by)]
    /\ providerIndeterminate' = TRUE
    /\ UNCHANGED <<job, box, proven, entries, overdue, told, failClosed, agent>>

\* The client is terminal, given up on or pruned meanwhile: remove the container again,
\* prove it absent, and only then record the proof.  A client that was given up on
\* before this stop began to wait is no error of this stop.
TestStopEnds(j) ==
    /\ agent # "down" /\ stopper[j] \in Stoppers /\ JobIs(j, TerminalJob \cup {"lost"})
    /\ \E works, waited \in BOOLEAN :
         LET gaveUp == JobIs(j, {"indeterminate"}) /\ waited
             ok == works /\ ~gaveUp /\ ~JobIs(j, {"lost"})
         IN
         /\ Removes(j, works)
         /\ proven' = IF ok THEN proven \cup {j} ELSE proven
         /\ providerIndeterminate' = (providerIndeterminate \/ ~works \/ gaveUp
                                       \/ (~ok /\ stopper[j] # "caller"))
         /\ told' = IF ok /\ stopper[j] = "caller"
                    THEN [told EXCEPT ![j] = Answer(Shown(j, TRUE))] ELSE told
         /\ stopper' = [stopper EXCEPT ![j] = IF ok THEN "idle" ELSE Failed(@)]
    /\ UNCHANGED <<job, entries, monitored, overdue, failClosed, agent>>

\* The monitor finds the client terminal, or its record pruned.
MonitorEnds(j) ==
    /\ agent # "down" /\ JobIs(j, TerminalJob \cup {"lost"}) /\ j \in monitored
    /\ monitored' = monitored \ {j}
    /\ \E works \in BOOLEAN :
         LET tries == j \in entries IN
         /\ Removes(j, works /\ tries)
         /\ proven' = IF works /\ tries /\ ~JobIs(j, {"lost"}) THEN proven \cup {j} ELSE proven
         /\ providerIndeterminate' = (providerIndeterminate \/ (tries /\ ~works))
    /\ UNCHANGED <<job, entries, stopper, overdue, told, failClosed, agent>>

\* status: a terminal client without a proof needs one now.
TestStatus(j) ==
    /\ agent = "session" /\ JobIs(j, KnownJob) /\ j \in entries
    /\ LET asks == JobIs(j, TerminalJob) /\ j \notin proven IN
       \E answers \in BOOLEAN :
         LET absent == asks /\ answers /\ box[j] # "present" IN
         /\ proven' = IF absent THEN proven \cup {j} ELSE proven
         /\ providerIndeterminate' = (providerIndeterminate \/ (asks /\ ~absent))
         /\ told' = IF asks /\ ~absent THEN told
                    ELSE [told EXCEPT ![j] = Answer(Shown(j, absent \/ j \in proven))]
    /\ UNCHANGED <<job, box, entries, monitored, stopper, overdue, failClosed, agent>>

-----------------------------------------------------------------------------
(* The Agent around them.                                                  *)

\* A session is refused as long as the durable mark stands.
OpenSession ==
    /\ agent = "offline" /\ ~failClosed.memory
    /\ agent' = "session"
    /\ UNCHANGED <<job, box, runnerVars, told, failClosed,
                   providerIndeterminate>>

\* A process that goes away takes the memory of both managers with it; what they
\* started goes on.
MemoryGoes ==
    /\ agent' = "down"
    /\ job' = [j \in Jobs |-> IF JobIs(j, {"fresh"}) THEN job[j] ELSE Dropped(j)]
    /\ stopper' = [j \in Tests |-> "idle"]
    /\ overdue' = {} /\ proven' = {} /\ entries' = {} /\ monitored' = {}
    /\ providerIndeterminate' = FALSE
    /\ UNCHANGED <<box, told>>

\* A start still under way when the session ends (no worker answers within five
\* seconds) ends the process too.
AgentGone ==
    /\ agent # "down"
    /\ MemoryGoes
    /\ failClosed' = [failClosed EXCEPT !.memory = FALSE]

\* recover_provider_orphans removes every container this owner left and looks
\* again; when that fails the Agent does not start.
AgentStarts ==
    /\ agent = "down" /\ agent' = "offline"
    /\ box' = [j \in Tests |-> "none"]
    /\ failClosed' = [failClosed EXCEPT !.memory = failClosed.disk]
    /\ UNCHANGED <<job, runnerVars, told, providerIndeterminate>>

Indeterminate == providerIndeterminate \/ \E j \in Jobs : JobIs(j, {"indeterminate"})

\* fail_closed: the mark is written before anything else happens, and the
\* process ends; when it cannot be written the process ends all the same.
FailsClosed ==
    /\ \E stored \in BOOLEAN :
         failClosed' = [memory |-> FALSE, disk |-> failClosed.disk \/ stored]
    /\ MemoryGoes

\* The safety poll: the mark first, then the session ends like any other.
SafetyPoll ==
    /\ agent = "session" /\ Indeterminate
    /\ \/ /\ failClosed' = [memory |-> TRUE, disk |-> TRUE] /\ agent' = "ending"
          /\ UNCHANGED <<job, box, runnerVars, told,
                         providerIndeterminate>>
       \/ FailsClosed /\ failClosed'.disk = failClosed.disk

\* The session ends, once the worker of a start has answered: shutdown_all
\* of the generic jobs marks every live one, and every entry is due a stop.
CloseSession ==
    /\ agent \in {"session", "ending"} /\ \A j \in Jobs : ~JobIs(j, {"starting"})
    /\ agent' = "closing"
    /\ job' = [j \in Jobs |-> IF j \in Generic THEN Requested(j) ELSE job[j]]
    /\ stopper' = [j \in Tests |-> IF j \in entries THEN "due" ELSE "idle"]
    /\ UNCHANGED <<box, proven, entries, monitored, overdue, told, failClosed,
                   providerIndeterminate>>

\* Everything was asked to stop, and is over or given up on.
AllAsked ==
    /\ agent = "closing" /\ \A j \in Jobs : ~JobIs(j, KnownJob \ TerminalJob)
    /\ \A j \in Tests : stopper[j] \in {"idle", "failed"}

\* shutdown_all of the generic jobs or shutdown_jobs of the tests has failed.
CleanupFailed ==
    \/ \E j \in Jobs : JobIs(j, {"indeterminate"})
    \/ \E j \in Tests : stopper[j] = "failed"

\* cleanup_artifacts: the entries go with their files, or stay with them.
CleanupArtifacts ==
    /\ \E cleared \in BOOLEAN : KeepsEntries(IF cleared THEN {} ELSE entries)
    /\ UNCHANGED <<job, box, monitored, stopper, told, failClosed, providerIndeterminate>>

\* Mutant: a session that could not prove its jobs gone ends like any other.
CloseRegardless == AllAsked /\ agent' = "offline" /\ CleanupArtifacts

\* Generic jobs first, then a provider-aware stop of every entry, then the verdict: a
\* clean-up that failed is marked durably and ends the Agent, also when all that was
\* wrong is a test whose record had been pruned.
CloseEnds ==
    /\ AllAsked
    /\ IF CleanupFailed \/ failClosed.memory THEN FailsClosed
       ELSE agent' = "offline" /\ CleanupArtifacts

\* clear_managed_job_fail_closed_offline: an operator who says that
\* nothing is left takes the mark away, with the Agent stopped (it holds the lock).
OperatorClears ==
    /\ agent = "down" /\ failClosed.disk
    /\ failClosed' = [failClosed EXCEPT !.disk = FALSE]
    /\ UNCHANGED <<job, box, runnerVars, told, agent,
                   providerIndeterminate>>

Supervise(j) == SupervisorReturns(j) \/ SupervisorDecides(j) \/ SupervisorConcludes(j)

JobsNext ==
    \/ \E j \in Jobs : \/ StartJob(j) \/ StartRuns(j) \/ StartFails(j)
                       \/ ProcessExits(j) \/ LeaseDue(j) \/ HardDue(j)
                       \/ Supervise(j) \/ SupervisorPollFails(j) \/ RenewJob(j) \/ StopJob(j)
                       \/ GraceOver(j) \/ StatusJob(j) \/ PruneJob(j)
    \/ \E j \in Tests : \/ ContainerAppears(j) \/ ContainerEnds(j)
                        \/ \E by \in Stoppers : TestStop(j, by) \/ TestStopUnknown(j, by)
                        \/ TestStopEnds(j) \/ MonitorEnds(j) \/ TestStatus(j)
    \/ OpenSession \/ AgentGone \/ AgentStarts \/ SafetyPoll \/ CloseSession
    \/ CloseEnds \/ OperatorClears

\* The threads the code starts run: the start's worker, the supervisor.
JobsFairness == \A j \in Jobs : /\ WF_jobVars(StartRuns(j) \/ StartFails(j))
                                /\ WF_jobVars(Supervise(j))

JobsSpec == JobsInit /\ [][JobsNext]_jobVars /\ JobsFairness

-----------------------------------------------------------------------------

\* A job that is over in the record, or that a caller was told has completed or was
\* stopped, has no process left; of a test, no container either (supervise_job,
\* prove_terminal, PlaywrightSandboxRunner::status and stop_provider_aware).  A generic
\* job that is said to have expired is over as well; a test that is said to have expired
\* may not be, which is ExpiredTestIsOver.
ToldIsOver ==
    /\ \A j \in Jobs : JobIs(j, Settled) => ~job[j].alive
    /\ \A j \in Generic : told[j] # "none" => ~job[j].alive
    /\ \A j \in Tests : told[j] = "ended" => ~job[j].alive /\ box[j] # "present"

\* Between two sessions nothing of the last one still runs (shutdown_all,
\* CloseEnds), except what an Agent that died or a start that failed has left behind.
NothingOutlivesItsSession ==
    agent = "offline" =>
        /\ \A j \in Jobs : job[j].alive => JobIs(j, {"lost"})
        /\ \A j \in Tests : box[j] = "present" => JobIs(j, {"lost"})

\* What a status answer says is over is over: the client's processes too.
ExpiredTestIsOver == \A j \in Tests : told[j] # "none" => ~job[j].alive

\* A job past its hard deadline comes to an end, or its manager is gone
\* (supervise_job): renewing and stopping never keep it alive.
DeadlineEndsJobs == \A j \in Jobs :
    job[j].hard /\ JobIs(j, KnownJob) ~> JobIs(j, TerminalJob \cup {"lost"})

\* A job or test reported completed or stopped is over, and neither outlives a session
\* that ended in order, through stops, deadlines, provider failures, pruned records and
\* restarts of the Agent.
JobsSafe == ToldIsOver /\ NothingOutlivesItsSession
====
