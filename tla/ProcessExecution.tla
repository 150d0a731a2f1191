---- MODULE ProcessExecution ----
(***************************************************************************)
(* A bounded process or shell operation on a device: the executor that     *)
(* spawns a process group, watches it for cancellation, timeout and exit,  *)
(* and joins the threads that read its output; and the optional control    *)
(* group around it, one operation at a time, that a failed clean-up        *)
(* poisons for good.  A descendant may leave the process group, and keep   *)
(* the output pipe open; it cannot leave the control group.                *)
(***************************************************************************)
EXTENDS Naturals, FiniteSets

CONSTANTS Runs, NoRun

ASSUME RunsConstants == NoRun \notin Runs

VARIABLES contained, \* whether a control group is configured
          run,       \* per operation: where its worker stands
          group,     \* operations whose process group is alive
          strays,    \* operations with a descendant outside the group
          cgroups,   \* operations whose control group exists
          serial,    \* the operation that holds the containment's lock
          poisoned,
          signals,   \* per operation: cancelled, timed out
          answer     \* per operation: what its caller got

runVars == <<contained, run, group, strays, cgroups, serial, poisoned, signals, answer>>

RunsInit ==
    /\ contained \in BOOLEAN /\ run = [r \in Runs |-> "idle"]
    /\ group = {} /\ strays = {} /\ cgroups = {} /\ serial = NoRun
    /\ poisoned = FALSE /\ signals = [r \in Runs |-> {}]
    /\ answer = [r \in Runs |-> "none"]

\* The end of a worker: the answer is given, the lock is dropped.
Answers(r, what) ==
    /\ answer' = [answer EXCEPT ![r] = what]
    /\ run' = [run EXCEPT ![r] = "over"]
    /\ serial' = IF serial = r THEN NoRun ELSE serial

RunAt(r, from) == run[r] = from
RunGoes(r, to) == run' = [run EXCEPT ![r] = to] /\ UNCHANGED <<answer, serial>>

\* execute, execute_shell: a request the policy refuses (program, argument
\* and environment bounds, timeout, working directory outside its roots, an
\* empty or oversized shell command), and one cancelled before it began, end
\* here.  The first look at the poison is taken before the lock.
RunRequested(r) ==
    /\ RunAt(r, "idle")
    /\ \/ Answers(r, "refused")
       \/ "cancel" \in signals[r] /\ Answers(r, "cancelled")
       \/ /\ "cancel" \notin signals[r]
          /\ IF contained /\ poisoned THEN Answers(r, "refused")
             ELSE RunGoes(r, IF contained THEN "locking" ELSE "spawning")
    /\ UNCHANGED <<contained, group, strays, cgroups, poisoned, signals>>

\* prepare_operation under the lock: the poison again, then the Agent must
\* still be in the root, and a control group left behind poisons it.
PrepareOperation(r) ==
    /\ RunAt(r, "locking") /\ serial = NoRun
    /\ \/ /\ ~poisoned /\ cgroups = {}
          /\ cgroups' = {r} /\ serial' = r /\ run' = [run EXCEPT ![r] = "spawning"]
          /\ UNCHANGED <<answer, poisoned>>
       \/ /\ poisoned' = (poisoned \/ cgroups # {})
          /\ Answers(r, "refused") /\ UNCHANGED cgroups
    /\ UNCHANGED <<contained, group, strays, signals>>

\* terminate_and_prove_empty: kill, wait until the tree is empty, remove it;
\* anything that fails on the way poisons, and Drop tries once more.
EmptiesCgroup(r) ==
    /\ group' = group \ {r} /\ strays' = strays \ {r} /\ cgroups' = cgroups \ {r}
    /\ UNCHANGED poisoned

LosesCgroup(r) ==
    /\ poisoned' = TRUE
    /\ \/ UNCHANGED <<group, strays, cgroups>>
       \/ group' = group \ {r} /\ strays' = strays \ {r} /\ cgroups' = cgroups \ {r}

\* prove_process_domain_terminal: kill the group and wait; a kill that loses
\* the race with the group's own exit is a proof as well.
EndsGroup(r) == group' = group \ {r} /\ UNCHANGED <<strays, cgroups, poisoned>>
LosesGroup(r) == UNCHANGED <<group, strays, cgroups, poisoned>>

\* prove_execution_domain_terminal.
Proves(r) == IF contained THEN EmptiesCgroup(r) ELSE EndsGroup(r)
Fails(r) == IF contained THEN LosesCgroup(r) ELSE LosesGroup(r)

\* The spawn, and the pipes and reader threads right after it: each failure
\* ends the domain first, and is an ordinary error only with the proof.
SpawnRun(r) ==
    /\ RunAt(r, "spawning")
    /\ \/ /\ group' = group \cup {r} /\ RunGoes(r, "running")
          /\ UNCHANGED <<strays, cgroups, poisoned>>
       \/ Proves(r) /\ Answers(r, "error")
       \/ contained /\ Fails(r) /\ Answers(r, "unproven")
    /\ UNCHANGED <<contained, signals>>

\* Mutant: a failure that left the processes unproven is an ordinary error.
SetupFailsPlainly(r) ==
    /\ RunAt(r, "running")
    /\ (Proves(r) \/ Fails(r)) /\ Answers(r, "error")
    /\ UNCHANGED <<contained, signals>>

\* A reader thread that does not start, or a poll that fails.
SetupFails(r) ==
    /\ RunAt(r, "running")
    /\ \/ Proves(r) /\ Answers(r, "error")
       \/ Fails(r) /\ Answers(r, "unproven")
    /\ UNCHANGED <<contained, signals>>

\* What the processes do.
GroupExits(r) == /\ r \in group /\ group' = group \ {r}
                 /\ UNCHANGED <<contained, run, strays, cgroups, serial, poisoned,
                                signals, answer>>
Strays(r) == /\ r \in group /\ strays' = strays \cup {r}
             /\ UNCHANGED <<contained, run, group, cgroups, serial, poisoned,
                            signals, answer>>

Signalled(r, signal) ==
    /\ ~RunAt(r, "over") /\ signals' = [signals EXCEPT ![r] = @ \cup {signal}]
    /\ UNCHANGED <<contained, run, group, strays, cgroups, serial, poisoned, answer>>

\* A cancelled or late operation is stopped and then joined.
StopsRun(r) == \/ Proves(r) /\ RunGoes(r, "joining")
               \/ Fails(r) /\ Answers(r, "unproven")

\* Mutant: a control group is taken for empty once its leader is gone.
WatchLeaderOnly(r) ==
    /\ RunAt(r, "running")
    /\ \/ signals[r] # {} /\ StopsRun(r)
       \/ /\ signals[r] = {} /\ r \notin group
          /\ UNCHANGED <<group, strays, poisoned>> /\ cgroups' = cgroups \ {r}
          /\ RunGoes(r, "joining")
    /\ UNCHANGED <<contained, signals>>

\* The loop: cancellation before timeout before exit.  After an exit the
\* control group must be proven empty; without one the rest of the group is
\* killed and nothing more is asked.
WatchRun(r) ==
    /\ RunAt(r, "running")
    /\ \/ signals[r] # {} /\ StopsRun(r)
       \/ /\ signals[r] = {} /\ r \notin group
          /\ IF contained THEN StopsRun(r) ELSE Proves(r) /\ RunGoes(r, "joining")
    /\ UNCHANGED <<contained, signals>>

\* The readers end when nobody holds the pipe any more.
JoinReaders(r) ==
    /\ RunAt(r, "joining") /\ r \notin group \cup strays
    /\ Answers(r, IF "cancel" \in signals[r] THEN "cancelled" ELSE "completed")
    /\ UNCHANGED <<contained, group, strays, cgroups, poisoned, signals>>

RunStep(r) == \/ RunRequested(r) \/ PrepareOperation(r) \/ SpawnRun(r)
              \/ WatchRun(r) \/ JoinReaders(r)

RunsNext == \E r \in Runs : \/ RunStep(r) \/ SetupFails(r) \/ GroupExits(r)
                            \/ Strays(r) \/ Signalled(r, "cancel")
                            \/ Signalled(r, "timeout")

\* A worker that has taken a run goes on, and the run's timeout comes.
RunsFairness == \A r \in Runs : /\ WF_runVars(~RunAt(r, "idle") /\ RunStep(r))
                                /\ WF_runVars(~RunAt(r, "idle") /\ Signalled(r, "timeout"))

RunsSpec == RunsInit /\ [][RunsNext]_runVars /\ RunsFairness

-----------------------------------------------------------------------------

\* An operation that answered anything but unproven left no process in its
\* group and, inside a control group, no process at all: not a daemon that
\* left the group either (execute_validated_captured, terminate_and_prove_empty).
AnsweredMeansOver ==
    \A r \in Runs : answer[r] \notin {"none", "unproven"} =>
        r \notin group /\ (contained => r \notin strays /\ r \notin cgroups)

\* Once a clean-up failed nothing is started under this containment again,
\* whatever an operation had seen before it waited for the lock
\* (prepare_operation, poison).
PoisonStartsNothing ==
    [][poisoned => \A r \in Runs : run'[r] = "spawning" => run[r] = "spawning"]_runVars

\* Inside a control group every accepted operation is answered: a descendant
\* that keeps the pipe open cannot hold the reader threads for ever.
ContainedRunsAnswer ==
    \A r \in Runs : contained /\ RunAt(r, "running") ~> RunAt(r, "over")
====
