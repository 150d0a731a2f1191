--------------------------- MODULE ServiceProofs ----------------------------
(***************************************************************************)
(* What a service keeps running and must end or hand over: one-shot        *)
(* processes, the Hub process, the managed jobs and tests of an Agent, the *)
(* transactions by which Hub processes share one PostgreSQL row, and the   *)
(* recovery of what a Hub quarantined.                                     *)
(***************************************************************************)
EXTENDS ProcessExecution, HubLifecycle, ManagedJobs, PostgresStateStore,
        OnlineRecovery, FiniteSetTheorems, SequenceTheorems, TLAPS

-----------------------------------------------------------------------------
(* What an answered one-shot process leaves behind and what a poisoned     *)
(* containment still starts, for any set of operations.                    *)

RunsTypeOK ==
    /\ contained \in BOOLEAN /\ poisoned \in BOOLEAN
    /\ run \in [Runs -> {"idle", "locking", "spawning", "running", "joining", "over"}]
    /\ answer \in [Runs -> {"none", "refused", "error", "unproven", "cancelled", "completed"}]
    /\ signals \in [Runs -> SUBSET {"cancel", "timeout"}]
    /\ group \subseteq Runs /\ strays \subseteq Runs /\ cgroups \subseteq Runs
    /\ serial \in Runs \cup {NoRun}

\* An operation is answered exactly when its worker is done.
AnsweredOnce == \A r \in Runs : (answer[r] = "none") <=> (run[r] # "over")

\* Processes exist only under a worker that watches them, or after an answer
\* that says they may; the output is joined after the domain was ended.
Watched(r) == run[r] = "running" \/ answer[r] = "unproven"

ProcessesWatched ==
    /\ \A r \in group : Watched(r)
    /\ contained => \A r \in strays : Watched(r)
    /\ \A r \in cgroups : contained /\ (Watched(r) \/ run[r] = "spawning")

\* The lock covers an operation from its control group to its answer, and a
\* control group nobody holds the lock for has poisoned the containment.
LockHeld ==
    /\ \A r \in Runs : contained /\ run[r] \in {"spawning", "running", "joining"} => serial = r
    /\ \A r \in Runs : run[r] = "locking" => contained
    /\ poisoned => contained
    /\ ~poisoned => cgroups \subseteq {serial}

RunsIInv == RunsTypeOK /\ AnsweredOnce /\ ProcessesWatched /\ LockHeld

-----------------------------------------------------------------------------

LEMMA RunsStart == RunsInit => RunsIInv
BY DEF RunsInit, RunsIInv, RunsTypeOK, AnsweredOnce, ProcessesWatched, LockHeld

\* The effect of a proof or of its failure on the processes of a watched
\* operation.
LEMMA DomainEnds ==
    ASSUME RunsIInv, NEW r \in Runs, Proves(r)
    PROVE  /\ group' = group \ {r} /\ poisoned' = poisoned
           /\ cgroups' = cgroups \ {r}
           /\ strays' \subseteq strays /\ (contained => strays' = strays \ {r})
BY DEF Proves, EmptiesCgroup, EndsGroup, RunsIInv, ProcessesWatched

LEMMA DomainLost ==
    ASSUME RunsIInv, NEW r \in Runs, Fails(r)
    PROVE  /\ group' \subseteq group /\ strays' \subseteq strays
           /\ cgroups' \subseteq cgroups
           /\ poisoned' \in BOOLEAN
           /\ contained => poisoned'
           /\ ~contained => poisoned' = poisoned
BY DEF Fails, LosesCgroup, LosesGroup, RunsIInv, RunsTypeOK

\* A worker that answers keeps the invariant if what it leaves behind is
\* nothing, or the answer says so.
LEMMA AnswerKeeps ==
    ASSUME RunsIInv, NEW r \in Runs,
           NEW what \in {"refused", "error", "unproven", "cancelled", "completed"},
           Answers(r, what), run[r] # "over",
           group' \subseteq group, strays' \subseteq strays, cgroups' \subseteq cgroups,
           contained' = contained, signals' \in [Runs -> SUBSET {"cancel", "timeout"}],
           poisoned' \in BOOLEAN, poisoned => poisoned', poisoned' => contained,
           \/ what = "unproven" /\ (contained => poisoned')
           \/ r \notin group' /\ (contained => r \notin strays') /\ r \notin cgroups',
           ~poisoned' => r \notin cgroups'
    PROVE  RunsIInv'
<1>1. /\ answer' = [answer EXCEPT ![r] = what] /\ run' = [run EXCEPT ![r] = "over"]
      /\ serial' = IF serial = r THEN NoRun ELSE serial
  BY DEF Answers
<1>2. RunsTypeOK'
  BY <1>1 DEF RunsIInv, RunsTypeOK
<1>3. AnsweredOnce'
  BY <1>1 DEF RunsIInv, RunsTypeOK, AnsweredOnce
<1>4. \A x \in Runs : x # r => run'[x] = run[x] /\ answer'[x] = answer[x]
  BY <1>1 DEF RunsIInv, RunsTypeOK
<1>5. run'[r] = "over" /\ answer'[r] = what
  BY <1>1 DEF RunsIInv, RunsTypeOK
<1>6. ProcessesWatched'
  BY <1>4, <1>5 DEF RunsIInv, RunsTypeOK, ProcessesWatched, Watched
<1>7. LockHeld'
  BY <1>1, <1>4, <1>5, RunsConstants DEF RunsIInv, RunsTypeOK, LockHeld
<1> QED BY <1>2, <1>3, <1>6, <1>7 DEF RunsIInv

\* A worker that goes on keeps it if its processes are watched where it goes.
LEMMA GoKeeps ==
    ASSUME RunsIInv, NEW r \in Runs, run[r] # "over",
           NEW to \in {"locking", "spawning", "running", "joining"},
           run' = [run EXCEPT ![r] = to], answer' = answer,
           group' \subseteq group \cup {r}, strays' \subseteq strays,
           cgroups' \subseteq cgroups \cup {r},
           contained' = contained, signals' = signals, poisoned' = poisoned,
           serial' = serial,
           run[r] \in {"spawning", "running"} \/ ~contained \/ to = "locking",
           to = "locking" => contained,
           r \in group' => to = "running",
           contained => (r \in strays' => to = "running"),
           r \in cgroups' => contained /\ to \in {"spawning", "running"} /\ serial = r
    PROVE  RunsIInv'
<1>1. RunsTypeOK'
  BY DEF RunsIInv, RunsTypeOK
<1>2. \A x \in Runs : x # r => run'[x] = run[x]
  BY DEF RunsIInv, RunsTypeOK
<1>3. run'[r] = to
  BY DEF RunsIInv, RunsTypeOK
<1>4. AnsweredOnce'
  BY <1>2, <1>3 DEF RunsIInv, RunsTypeOK, AnsweredOnce
<1>5. ProcessesWatched'
  BY <1>2, <1>3 DEF RunsIInv, RunsTypeOK, ProcessesWatched, Watched
<1>6. LockHeld'
  BY <1>2, <1>3, RunsConstants DEF RunsIInv, RunsTypeOK, LockHeld
<1> QED BY <1>1, <1>4, <1>5, <1>6 DEF RunsIInv

\* execute, execute_shell.
LEMMA RequestedKeeps == ASSUME RunsIInv, NEW r \in Runs, RunRequested(r) PROVE RunsIInv'
<1>1. /\ run[r] = "idle" /\ r \notin group /\ r \notin cgroups
      /\ (contained => r \notin strays)
  BY DEF RunRequested, RunAt, RunsIInv, ProcessesWatched, Watched, AnsweredOnce
<1>2. UNCHANGED <<contained, group, strays, cgroups, poisoned, signals>>
  BY DEF RunRequested
<1>3. signals' \in [Runs -> SUBSET {"cancel", "timeout"}] /\ poisoned' \in BOOLEAN
      /\ (poisoned' => contained)
  BY <1>2 DEF RunsIInv, RunsTypeOK, LockHeld
<1>4. CASE \E what \in {"refused", "cancelled"} : Answers(r, what)
  <2> PICK what \in {"refused", "cancelled"} : Answers(r, what)
    BY <1>4
  <2> QED BY <1>1, <1>2, <1>3, AnswerKeeps
<1>5. CASE RunGoes(r, IF contained THEN "locking" ELSE "spawning")
  BY <1>1, <1>2, <1>5, GoKeeps DEF RunGoes, RunsIInv, RunsTypeOK
<1> QED BY <1>4, <1>5 DEF RunRequested

\* prepare_operation.
LEMMA PrepareKeeps == ASSUME RunsIInv, NEW r \in Runs, PrepareOperation(r) PROVE RunsIInv'
<1>1. /\ run[r] = "locking" /\ r \notin group /\ r \notin cgroups
      /\ contained /\ r \notin strays /\ serial = NoRun
  BY DEF PrepareOperation, RunAt, RunsIInv, ProcessesWatched, Watched, AnsweredOnce, LockHeld
<1>2. UNCHANGED <<contained, group, strays, signals>>
  BY DEF PrepareOperation
<1>3. CASE /\ cgroups' = {r} /\ serial' = r /\ run' = [run EXCEPT ![r] = "spawning"]
           /\ UNCHANGED <<answer, poisoned>>
  <2>1. \A x \in Runs : x # r => run'[x] = run[x]
    BY <1>3 DEF RunsIInv, RunsTypeOK
  <2>2. run'[r] = "spawning"
    BY <1>3 DEF RunsIInv, RunsTypeOK
  <2>3. RunsTypeOK'
    BY <1>2, <1>3 DEF RunsIInv, RunsTypeOK
  <2>4. AnsweredOnce'
    BY <1>1, <1>3, <2>1, <2>2 DEF RunsIInv, RunsTypeOK, AnsweredOnce
  <2>5. ProcessesWatched'
    BY <1>1, <1>2, <1>3, <2>1, <2>2 DEF RunsIInv, RunsTypeOK, ProcessesWatched, Watched
  <2>6. LockHeld'
    BY <1>1, <1>2, <1>3, <2>1, <2>2, RunsConstants DEF RunsIInv, RunsTypeOK, LockHeld
  <2> QED BY <2>3, <2>4, <2>5, <2>6 DEF RunsIInv
<1>4. CASE /\ poisoned' = (poisoned \/ cgroups # {})
           /\ Answers(r, "refused") /\ UNCHANGED cgroups
  <2>1. poisoned' \in BOOLEAN /\ (poisoned => poisoned')
    BY <1>4 DEF RunsIInv, RunsTypeOK
  <2>2. signals' \in [Runs -> SUBSET {"cancel", "timeout"}]
    BY <1>2 DEF RunsIInv, RunsTypeOK
  <2>3. Answers(r, "refused") /\ cgroups' = cgroups
    BY <1>4
  <2> QED BY <1>1, <1>2, <2>1, <2>2, <2>3, AnswerKeeps
<1> QED BY <1>3, <1>4 DEF PrepareOperation

\* A domain that was proven ended, and one that was not, under an answer.
LEMMA ProvedAnswerKeeps ==
    ASSUME RunsIInv, NEW r \in Runs, run[r] # "over",
           NEW what \in {"error", "cancelled", "completed"},
           Proves(r), Answers(r, what), UNCHANGED <<contained, signals>>
    PROVE  RunsIInv'
<1>1. /\ group' = group \ {r} /\ poisoned' = poisoned /\ cgroups' = cgroups \ {r}
      /\ strays' \subseteq strays /\ (contained => strays' = strays \ {r})
  BY DomainEnds
<1>2. /\ signals' \in [Runs -> SUBSET {"cancel", "timeout"}] /\ poisoned' \in BOOLEAN
      /\ (poisoned' => contained)
  BY <1>1 DEF RunsIInv, RunsTypeOK, LockHeld
<1> QED BY <1>1, <1>2, AnswerKeeps

LEMMA LostAnswerKeeps ==
    ASSUME RunsIInv, NEW r \in Runs, run[r] # "over",
           Fails(r), Answers(r, "unproven"), UNCHANGED <<contained, signals>>
    PROVE  RunsIInv'
<1>1. /\ group' \subseteq group /\ strays' \subseteq strays /\ cgroups' \subseteq cgroups
      /\ poisoned' \in BOOLEAN /\ (contained => poisoned')
      /\ (~contained => poisoned' = poisoned)
  BY DomainLost
<1>2. /\ signals' \in [Runs -> SUBSET {"cancel", "timeout"}]
      /\ (poisoned => poisoned') /\ (poisoned' => contained)
  BY <1>1 DEF RunsIInv, RunsTypeOK, LockHeld
<1>3. ~contained => r \notin cgroups
  BY DEF RunsIInv, ProcessesWatched
<1> QED BY <1>1, <1>2, <1>3, AnswerKeeps

LEMMA ProvedGoesKeeps ==
    ASSUME RunsIInv, NEW r \in Runs, run[r] = "running",
           Proves(r), RunGoes(r, "joining"), UNCHANGED <<contained, signals>>
    PROVE  RunsIInv'
<1>1. /\ group' = group \ {r} /\ poisoned' = poisoned /\ cgroups' = cgroups \ {r}
      /\ strays' \subseteq strays /\ (contained => strays' = strays \ {r})
  BY DomainEnds
<1> QED BY <1>1, GoKeeps DEF RunGoes

LEMMA SpawnKeeps == ASSUME RunsIInv, NEW r \in Runs, SpawnRun(r) PROVE RunsIInv'
<1>1. run[r] = "spawning" /\ UNCHANGED <<contained, signals>>
  BY DEF SpawnRun, RunAt
<1>2. CASE /\ group' = group \cup {r} /\ RunGoes(r, "running")
           /\ UNCHANGED <<strays, cgroups, poisoned>>
  <2>1. r \in cgroups => contained /\ serial = r
    BY <1>1 DEF RunsIInv, ProcessesWatched, LockHeld
  <2> QED BY <1>1, <1>2, <2>1, GoKeeps DEF RunGoes
<1>3. CASE Proves(r) /\ Answers(r, "error")
  BY <1>1, <1>3, ProvedAnswerKeeps
<1>4. CASE Fails(r) /\ Answers(r, "unproven")
  BY <1>1, <1>4, LostAnswerKeeps
<1> QED BY <1>2, <1>3, <1>4 DEF SpawnRun

LEMMA WatchKeeps == ASSUME RunsIInv, NEW r \in Runs, WatchRun(r) PROVE RunsIInv'
<1>1. run[r] = "running" /\ UNCHANGED <<contained, signals>>
  BY DEF WatchRun, RunAt
<1>2. CASE Proves(r) /\ RunGoes(r, "joining")
  BY <1>1, <1>2, ProvedGoesKeeps
<1>3. CASE Fails(r) /\ Answers(r, "unproven")
  BY <1>1, <1>3, LostAnswerKeeps
<1> QED BY <1>2, <1>3 DEF WatchRun, StopsRun

LEMMA SetupFailsKeeps == ASSUME RunsIInv, NEW r \in Runs, SetupFails(r) PROVE RunsIInv'
<1>1. run[r] = "running" /\ UNCHANGED <<contained, signals>>
  BY DEF SetupFails, RunAt
<1> QED BY <1>1, ProvedAnswerKeeps, LostAnswerKeeps DEF SetupFails

LEMMA JoinKeeps == ASSUME RunsIInv, NEW r \in Runs, JoinReaders(r) PROVE RunsIInv'
<1>1. /\ run[r] = "joining" /\ r \notin group /\ r \notin strays /\ r \notin cgroups
      /\ UNCHANGED <<contained, group, strays, cgroups, poisoned, signals>>
  BY DEF JoinReaders, RunAt, RunsIInv, ProcessesWatched, Watched, AnsweredOnce
<1>2. \E what \in {"cancelled", "completed"} : Answers(r, what)
  BY DEF JoinReaders
<1>3. /\ signals' \in [Runs -> SUBSET {"cancel", "timeout"}] /\ poisoned' \in BOOLEAN
      /\ (poisoned' => contained)
  BY <1>1 DEF RunsIInv, RunsTypeOK, LockHeld
<1> QED BY <1>1, <1>2, <1>3, AnswerKeeps

\* What the processes do by themselves, and the signals to the worker.
LEMMA ProcessesKeep ==
    ASSUME RunsIInv, NEW r \in Runs,
           GroupExits(r) \/ Strays(r) \/ Signalled(r, "cancel") \/ Signalled(r, "timeout")
    PROVE  RunsIInv'
<1>1. /\ UNCHANGED <<contained, run, cgroups, serial, poisoned, answer>>
      /\ group' \subseteq group /\ strays' \subseteq strays \cup group
  BY DEF GroupExits, Strays, Signalled
<1>2. signals' \in [Runs -> SUBSET {"cancel", "timeout"}]
  BY DEF GroupExits, Strays, Signalled, RunsIInv, RunsTypeOK
<1> QED BY <1>1, <1>2 DEF RunsIInv, RunsTypeOK, AnsweredOnce, ProcessesWatched, Watched, LockHeld

LEMMA RunsStep ==
    ASSUME RunsIInv, [RunsNext]_runVars
    PROVE  RunsIInv'
<1>1. CASE RunsNext
  BY <1>1, RequestedKeeps, PrepareKeeps, SpawnKeeps, WatchKeeps, SetupFailsKeeps,
     JoinKeeps, ProcessesKeep DEF RunsNext, RunStep
<1>2. CASE UNCHANGED runVars
  BY <1>2 DEF runVars, RunsIInv, RunsTypeOK, AnsweredOnce, ProcessesWatched, Watched, LockHeld
<1> QED BY <1>1, <1>2

THEOREM RunsKeepInvariant == RunsSpec => []RunsIInv
BY RunsStart, RunsStep, PTL DEF RunsSpec

\* What an answer promises: no process of the group, and inside a control
\* group none at all, unless it says the processes are unproven.
THEOREM RunsAnswersMeanOver == RunsSpec => []AnsweredMeansOver
<1>1. RunsIInv => AnsweredMeansOver
  BY DEF RunsIInv, RunsTypeOK, AnsweredOnce, ProcessesWatched, Watched, AnsweredMeansOver
<1> QED BY RunsKeepInvariant, <1>1, PTL

\* Under one containment operations run one at a time, whatever fails.
OneContained ==
    contained => \A r, s \in Runs :
        (/\ run[r] \in {"spawning", "running", "joining"}
         /\ run[s] \in {"spawning", "running", "joining"}) => r = s

THEOREM RunsOneAtATime == RunsSpec => []OneContained
<1>1. RunsIInv => OneContained
  BY DEF RunsIInv, LockHeld, OneContained
<1> QED BY RunsKeepInvariant, <1>1, PTL

\* A poisoned containment starts nothing.
THEOREM RunsNotStartedPoisoned == RunsSpec => PoisonStartsNothing
<1>1. ASSUME RunsIInv, [RunsNext]_runVars
      PROVE  [poisoned => \A r \in Runs : run'[r] = "spawning" => run[r] = "spawning"]_runVars
  <2> SUFFICES ASSUME RunsNext, poisoned, NEW x \in Runs, run'[x] = "spawning"
               PROVE  run[x] = "spawning"
    BY <1>1
  <2>1. contained
    BY <1>1 DEF RunsIInv, LockHeld
  <2>2. \/ run' = run
        \/ \E r \in Runs, to \in {"locking", "running", "joining", "over"} :
              run' = [run EXCEPT ![r] = to]
    BY <2>1 DEF RunsNext, RunStep, RunRequested, PrepareOperation, SpawnRun, WatchRun,
                StopsRun, JoinReaders, SetupFails, GroupExits, Strays, Signalled,
                Answers, RunGoes
  <2> QED BY <1>1, <2>2 DEF RunsIInv, RunsTypeOK
<1> QED BY RunsKeepInvariant, <1>1, PTL DEF RunsSpec, PoisonStartsNothing

-----------------------------------------------------------------------------
(* The Hub process: what was loaded was validated, and the drain counts what *)
(* a closed gate still lets go on.                                         *)

WorkStates == {"idle", "sent", "gated", "queued", "starting", "granted", "checked",
               "dispatched", "refused", "settled", "indeterminate"}

\* Work that a closed gate no longer lets go further than the queue.
PastTheGate == {"granted", "checked", "dispatched"}

DrainIInv ==
    /\ work \in [Works -> WorkStates]
    /\ draining \in BOOLEAN
    /\ phase = "draining" => draining
    /\ drained = "clean" => draining /\ \A o \in Works : work[o] \notin PastTheGate

\* Only a validated configuration is loaded.
LoadedWasValidated ==
    phase = "loading" => validate_profile_configuration(settings) /\ OneGrantSigner(settings)

LifecycleIInv == DrainIInv /\ LoadedWasValidated /\ ConfiguredIsInForce

-----------------------------------------------------------------------------
(* The configuration.                                                      *)

\* Two of the three ways to authenticate are one too many.
LEMMA OneAuthMode ==
    ASSUME NEW S, validate_northbound_auth_mode_selection(S)
    PROVE  /\ ~(Given(S, Oidc) /\ Given(S, Introspection))
           /\ ~(Given(S, Oidc) /\ Given(S, Proxy))
           /\ ~(Given(S, Introspection) /\ Given(S, Proxy))
<1> DEFINE modes == {G \in {Oidc, Introspection, Proxy} : Given(S, G)}
<1>1. Cardinality(modes) <= 1
  BY DEF validate_northbound_auth_mode_selection
<1>2. Oidc # Introspection /\ Oidc # Proxy /\ Introspection # Proxy
  <2>1. "OidcJwks" \in Oidc /\ "OidcJwks" \notin Introspection /\ "OidcJwks" \notin Proxy
        /\ "IntroClient" \in Introspection /\ "IntroClient" \notin Proxy
    BY DEF Oidc, Introspection, Proxy
  <2> QED BY <2>1
<1>3. IsFiniteSet(modes)
  <2>1. IsFiniteSet({Oidc, Introspection, Proxy})
    <3>1. IsFiniteSet({Oidc})
      BY FS_Singleton
    <3>2. IsFiniteSet({Oidc} \cup {Introspection})
      BY <3>1, FS_AddElement
    <3>3. IsFiniteSet({Oidc} \cup {Introspection} \cup {Proxy})
      BY <3>2, FS_AddElement
    <3>4. {Oidc, Introspection, Proxy} = {Oidc} \cup {Introspection} \cup {Proxy}
      OBVIOUS
    <3> QED BY <3>3, <3>4
  <2>2. modes \in SUBSET {Oidc, Introspection, Proxy}
    OBVIOUS
  <2> QED BY <2>1, <2>2, FS_Subset
<1>4. ASSUME NEW a \in modes, NEW b \in modes, a # b PROVE FALSE
  <2>1. IsFiniteSet({a}) /\ Cardinality({a}) = 1
    BY FS_Singleton
  <2>2. Cardinality({a} \cup {b}) = 2
    BY <1>4, <2>1, FS_AddElement
  <2>3. {a} \cup {b} \in SUBSET modes
    BY <1>4
  <2>4. Cardinality({a} \cup {b}) <= Cardinality(modes)
    BY <1>3, <2>3, FS_Subset
  <2>5. Cardinality(modes) \in Nat
    BY <1>3, FS_CardinalityType
  <2> HIDE DEF modes
  <2> QED BY <1>1, <2>2, <2>4, <2>5
<1>5. \A G \in {Oidc, Introspection, Proxy} : Given(S, G) => G \in modes
  OBVIOUS
<1> HIDE DEF modes
<1> QED BY <1>2, <1>4, <1>5

\* A group of settings of which none is given has no member among them.
LEMMA Groups ==
    ASSUME NEW S, NEW G, NEW x \in S, x \in G
    PROVE  Given(S, G) /\ ~Absent(S, G) /\ \A H : G \subseteq H => ~Absent(S, H)
BY DEF Given, Absent

\* validate_profile_configuration and the four builders leave no authority
\* setting of an accepted configuration aside.
LEMMA NothingIgnored ==
    ASSUME NEW S, validate_profile_configuration(S), OneGrantSigner(S), Built(S).ok
    PROVE  Built(S).is.ignored = {}
<1> DEFINE north == build_northbound_runtime(S)
           hosted == build_hosted_handoff_runtime(S)
           coordinator == build_handoff_coordinator(S)
           used == north.uses \cup hosted.uses \cup coordinator.uses
                     \cup build_hosted_postgres_state_config(S) \cup Signers
<1>1. north.ok /\ hosted.ok /\ coordinator.ok
  BY DEF Built
<1>2. Built(S).is.ignored = (S \cap Authority) \ used
  BY DEF Built
<1>3. validate_northbound_auth_mode_selection(S)
  BY <1>1 DEF build_northbound_runtime
<1> SUFFICES ASSUME NEW x \in S, x \in Authority PROVE x \in used
  BY <1>2
<1>4. x \in Signers => x \in used
  OBVIOUS
<1>5. CASE "Hosted" \in S
  <2>1. HostedProfile(S)
    BY <1>5 DEF validate_profile_configuration
  <2>2. ~Given(S, Proxy) /\ x \notin Proxy /\ x \notin Sockets
        /\ x \notin {"TlsCert", "TlsKey"}
    BY <2>1 DEF HostedProfile, Absent, Given
  <2>3. AuthMode(S) = IF Given(S, Oidc) THEN OidcMode(S) ELSE IntrospectionMode(S)
    BY <2>2 DEF AuthMode
  <2>4. north.uses = AuthMode(S).uses \cup {"McpResource", "Policy", "Constraints"}
    BY <1>5 DEF build_northbound_runtime
  <2>5. hosted.uses = HostedHandoff \cup {"AuthServer"}
                        \cup (IF Given(S, Oidc) THEN {"HandoffAudience"} ELSE {})
    BY <1>5 DEF build_hosted_handoff_runtime
  <2>6. build_hosted_postgres_state_config(S) = Postgres \cup PostgresExtra
    BY <1>5 DEF build_hosted_postgres_state_config
  <2>7. CASE Given(S, Oidc)
    <3>1. AuthMode(S).uses = SharedOauth \cup Oidc
      BY <2>3, <2>7 DEF OidcMode
    <3>0. ~Given(S, Introspection)
      <4>1. Given(S, Oidc) # Given(S, Introspection)
        BY <2>1 DEF HostedProfile
      <4> QED BY <2>7, <4>1 DEF Given
    <3>2. x \notin Introspection
      BY <3>0 DEF Given
    <3> QED BY <2>2, <2>4, <2>5, <2>6, <2>7, <3>1, <3>2 DEF Authority
  <2>8. CASE ~Given(S, Oidc)
    <3>1. AuthMode(S).uses = SharedOauth \cup Introspection
      BY <2>3, <2>8 DEF IntrospectionMode
    <3>2. x \notin Oidc /\ x # "HandoffAudience"
      BY <2>1, <2>8 DEF Given, HostedProfile
    <3> QED BY <2>2, <2>4, <2>5, <2>6, <2>8, <3>1, <3>2 DEF Authority
  <2> QED BY <2>7, <2>8
<1>6. CASE "Hosted" \notin S
  <2>1. SingleHostProfile(S)
    BY <1>6 DEF validate_profile_configuration
  <2>2. x \notin Postgres \cup PostgresExtra \cup HostedHandoff \cup {"HandoffAudience"}
    BY <2>1 DEF SingleHostProfile, Absent
  <2>3. build_hosted_postgres_state_config(S) = {"TlsCert", "TlsKey"}
    BY <1>6 DEF build_hosted_postgres_state_config
  <2>4. coordinator.uses = S \cap Sockets
    BY <1>6 DEF build_handoff_coordinator
  <2>5. CASE "McpBind" \in S
    <3>1. north.uses = AuthMode(S).uses \cup {"McpResource", "Policy", "Constraints"}
          /\ AuthMode(S).ok
      BY <1>1, <2>5 DEF build_northbound_runtime
    <3>2. CASE Given(S, Proxy)
      <4>1. AuthMode(S).uses = Proxy
        BY <3>2 DEF AuthMode, ProxyMode
      <4>2. ~Given(S, Oidc) /\ ~Given(S, Introspection) /\ ~Given(S, SharedOauth)
        BY <1>3, <3>2, OneAuthMode DEF validate_northbound_auth_mode_selection
      <4>3. x \notin Oidc /\ x \notin Introspection /\ x \notin SharedOauth
        BY <4>2 DEF Given
      <4> QED BY <2>2, <2>3, <2>4, <3>1, <4>1, <4>3 DEF Authority
    <3>3. CASE ~Given(S, Proxy) /\ Given(S, Oidc)
      <4>1. AuthMode(S).uses = SharedOauth \cup Oidc
        BY <3>3 DEF AuthMode, OidcMode
      <4>2. ~Given(S, Introspection)
        BY <1>3, <3>3, OneAuthMode
      <4>3. x \notin Proxy /\ x \notin Introspection
        BY <3>3, <4>2 DEF Given
      <4> QED BY <2>2, <2>3, <2>4, <3>1, <4>1, <4>3 DEF Authority
    <3>4. CASE ~Given(S, Proxy) /\ ~Given(S, Oidc)
      <4>1. AuthMode(S).uses = SharedOauth \cup Introspection
        BY <3>4 DEF AuthMode, IntrospectionMode
      <4>2. x \notin Proxy /\ x \notin Oidc
        BY <3>4 DEF Given
      <4> QED BY <2>2, <2>3, <2>4, <3>1, <4>1, <4>2 DEF Authority
    <3> QED BY <3>2, <3>3, <3>4
  <2>6. CASE "McpBind" \notin S
    <3>1. ~NorthboundConfigured(S)
      BY <1>1, <1>6, <2>6 DEF build_northbound_runtime
    <3>2. x \notin {"McpResource", "Policy", "Constraints"} \cup SharedOauth
                     \cup Introspection \cup Oidc \cup Proxy
      BY <3>1 DEF NorthboundConfigured, Given
    <3> QED BY <2>2, <2>3, <2>4, <3>2 DEF Authority
  <2> QED BY <2>5, <2>6
<1> QED BY <1>5, <1>6

-----------------------------------------------------------------------------
(* The drain.                                                              *)

LEMMA LifecycleStarts == HubInit => LifecycleIInv
BY DEF HubInit, LifecycleIInv, DrainIInv, WorkStates, LoadedWasValidated, ConfiguredIsInForce

\* Steps of streams and operations leave the configuration and main alone.
LEMMA WorkKeeps ==
    ASSUME LifecycleIInv, UNCHANGED <<settings, runtime, phase, draining, drained>>,
           work' \in [Works -> WorkStates],
           draining => \A o \in Works : work'[o] \in PastTheGate => work[o] \in PastTheGate
    PROVE  LifecycleIInv'
<1>1. DrainIInv'
  BY DEF LifecycleIInv, DrainIInv
<1> QED BY <1>1 DEF LifecycleIInv, LoadedWasValidated, ConfiguredIsInForce

LEMMA FollowStates ==
    ASSUME work \in [Works -> WorkStates], NEW o \in Works,
           NEW outcome \in WorkStates \ PastTheGate, Follow(o, outcome)
    PROVE  /\ work' \in [Works -> WorkStates]
           /\ \A p \in Works : work'[p] \in PastTheGate => work[p] \in PastTheGate
<1>1. CASE work' = [work EXCEPT ![o] = outcome]
  BY <1>1 DEF PastTheGate
<1>2. ASSUME NEW q \in Works, work' = [work EXCEPT ![o] = outcome, ![q] = "starting"]
      PROVE  /\ work' \in [Works -> WorkStates]
             /\ \A p \in Works : work'[p] \in PastTheGate => work[p] \in PastTheGate
  <2>1. "starting" \in WorkStates /\ "starting" \notin PastTheGate
    BY DEF WorkStates, PastTheGate
  <2>2. \A p \in Works : work'[p] = IF p = q THEN "starting" ELSE IF p = o THEN outcome ELSE work[p]
    BY <1>2
  <2> QED BY <1>2, <2>1, <2>2
<1> QED BY <1>1, <1>2 DEF Follow

LEMMA OperationKeeps ==
    ASSUME LifecycleIInv, NEW o \in Works,
           StartWork(o) \/ Gate(o) \/ Prepare(o) \/ FirstCheck(o)
             \/ SecondCheck(o) \/ MarkDispatched(o) \/ Settle(o)
    PROVE  LifecycleIInv'
<1>1. UNCHANGED <<settings, runtime, phase, draining, drained>>
  BY DEF OpsFrame, StartWork, Gate, Prepare, FirstCheck, SecondCheck, MarkDispatched, Settle
<1>2. work \in [Works -> WorkStates]
  BY DEF LifecycleIInv, DrainIInv
<1> DEFINE Good == /\ work' \in [Works -> WorkStates]
                   /\ draining => \A p \in Works : work'[p] \in PastTheGate => work[p] \in PastTheGate
<1> SUFFICES Good
  BY <1>1, WorkKeeps
<1>3. {"refused", "settled"} \subseteq WorkStates \ PastTheGate
  BY DEF WorkStates, PastTheGate
<1>4. CASE StartWork(o)
  BY <1>2, <1>4 DEF StartWork, WorkStates, PastTheGate
<1>5. CASE Gate(o)
  BY <1>2, <1>5 DEF Gate, WorkStates, PastTheGate
<1>6. CASE Prepare(o)
  BY <1>2, <1>6 DEF Prepare, WorkStates, PastTheGate
<1>7. CASE FirstCheck(o)
  <2>1. CASE ~draining /\ work' = [work EXCEPT ![o] = "granted"]
    BY <1>2, <2>1 DEF WorkStates, PastTheGate
  <2> QED BY <1>2, <1>3, <1>7, <2>1, FollowStates DEF FirstCheck
<1>8. CASE SecondCheck(o)
  <2>1. CASE draining
    BY <1>2, <1>3, <1>8, <2>1, FollowStates DEF SecondCheck
  <2>2. CASE ~draining
    BY <1>2, <1>8, <2>2 DEF SecondCheck, WorkStates, PastTheGate
  <2> QED BY <2>1, <2>2
<1>9. CASE MarkDispatched(o)
  BY <1>2, <1>9 DEF MarkDispatched, WorkStates, PastTheGate
<1>10. CASE Settle(o)
  BY <1>2, <1>3, <1>10, FollowStates DEF Settle
<1> QED BY <1>4, <1>5, <1>6, <1>7, <1>8, <1>9, <1>10

LEMMA StreamKeeps ==
    ASSUME LifecycleIInv, NEW s \in Streams,
           OpenStream(s) \/ Hello(s) \/ Install(s) \/ HandshakeBreaks(s) \/ LoopEnds(s)
    PROVE  LifecycleIInv'
<1>1. UNCHANGED <<settings, runtime, phase, draining, drained>>
  BY DEF OpenStream, Hello, Install, HandshakeBreaks, LoopEnds
<1>2. work \in [Works -> WorkStates]
  BY DEF LifecycleIInv, DrainIInv
<1>3. \A o \in Works : Ended(o) \in WorkStates \ PastTheGate
  <2> SUFFICES ASSUME NEW o \in Works PROVE Ended(o) \in WorkStates \ PastTheGate
    OBVIOUS
  <2>1. work[o] \in WorkStates
    BY <1>2
  <2> QED BY <2>1 DEF Ended, WorkStates, PastTheGate
<1>4. CASE LoopEnds(s)
  <2>1. work' = [o \in Works |-> IF carrier[o] = s THEN Ended(o) ELSE work[o]]
    BY <1>4 DEF LoopEnds
  <2>2. /\ work' \in [Works -> WorkStates]
        /\ \A o \in Works : work'[o] \in PastTheGate => work[o] \in PastTheGate
    BY <1>2, <1>3, <2>1
  <2> QED BY <1>1, <2>2, WorkKeeps
<1>5. CASE OpenStream(s) \/ Hello(s) \/ Install(s) \/ HandshakeBreaks(s)
  BY <1>1, <1>2, <1>5, WorkKeeps DEF OpenStream, Hello, Install, HandshakeBreaks
<1> QED BY <1>4, <1>5

\* main: validation, loading, and the shutdown task.
LEMMA MainKeeps ==
    ASSUME LifecycleIInv,
           Validate \/ Load \/ shutdown_signal \/ begin_shutdown_drain
             \/ wait_for_shutdown_drain \/ close_live_session_for_shutdown \/ ServersStop
    PROVE  LifecycleIInv'
<1> USE DEF LifecycleIInv, DrainIInv, LoadedWasValidated, ConfiguredIsInForce
<1>1. CASE Validate
  BY <1>1 DEF Validate, serveVars
<1>2. CASE Load
  <2>1. CASE Built(settings).ok /\ runtime' = Built(settings).is /\ phase' = "serving"
    <3>1. runtime'.ignored = {}
      BY <1>2, <2>1, NothingIgnored DEF Load
    <3> QED BY <1>2, <2>1, <3>1 DEF Load, serveVars
  <2>2. CASE phase' = "failed"
    BY <1>2, <2>2 DEF Load, serveVars
  <2> QED BY <1>2, <2>1, <2>2 DEF Load
<1>3. CASE shutdown_signal
  BY <1>3 DEF shutdown_signal, serveVars
<1>4. CASE begin_shutdown_drain
  BY <1>4 DEF begin_shutdown_drain
<1>5. CASE wait_for_shutdown_drain
  BY <1>5 DEF wait_for_shutdown_drain, has_unsettled_work, PastTheGate
<1>6. CASE close_live_session_for_shutdown
  BY <1>6 DEF close_live_session_for_shutdown
<1>7. CASE ServersStop
  BY <1>7 DEF ServersStop, serveVars
<1> QED BY <1>1, <1>2, <1>3, <1>4, <1>5, <1>6, <1>7

LEMMA LifecycleSteps == ASSUME LifecycleIInv, [HubNext]_hubVars PROVE LifecycleIInv'
<1>1. CASE HubDone \/ UNCHANGED hubVars
  BY <1>1 DEF HubDone, hubVars, LifecycleIInv, DrainIInv, LoadedWasValidated, ConfiguredIsInForce
<1> QED BY <1>1, MainKeeps, StreamKeeps, OperationKeeps DEF HubNext

\* The Hub serves only with its configuration loaded, checked and in force, and a
\* drain that reports itself clean left nothing at the Agent (bin/v2_hub.rs, shutdown
\* and drain of v2_m1_hub.rs), for any number of operations and streams.
THEOREM LifecycleIsSafe == HubSpec => []LifecycleSafe
<1>1. HubInit => LifecycleIInv
  BY LifecycleStarts
<1>2. LifecycleIInv /\ [HubNext]_hubVars => LifecycleIInv'
  BY LifecycleSteps
<1>3. LifecycleIInv => LifecycleSafe
  BY DEF LifecycleIInv, LifecycleSafe, DrainIInv, DrainedMeansNothingIsOut, PastTheGate
<1> QED BY <1>1, <1>2, <1>3, PTL DEF HubSpec

-----------------------------------------------------------------------------
(* Managed jobs and tests: a settled record has no process, a supervisor   *)
(* at work has not settled its record, and a test is over or has an entry  *)
(* by which the end of the session finds it.                               *)

JobStates == KnownJob \cup {"fresh", "lost"}
Watching == {"looking", "stopping", "reaping"}
StopReasons == {"none", "deadline", "asked"}
JobAnswers == {"none", "ended", "expired"}

\* The states of a job whose start went through and whose end is not in doubt.
Started == {"running", "stop_requested"} \cup Settled
JobRecords == [state : JobStates, reason : StopReasons, alive : BOOLEAN,
               watch : Watching \cup {"none", "done"}, lease : BOOLEAN, hard : BOOLEAN]

\* A settled record has no process, and a supervisor that is still at work has
\* not settled its record.
RecordOK(r) ==
    /\ r \in JobRecords
    /\ r.state \in Settled \cup {"fresh"} => ~r.alive
    /\ r.watch \in Watching => r.state \in {"running", "stop_requested", "indeterminate"}

\* How a step may change a record: no process comes back, a record that was
\* dropped stays so, and a terminal one is at most dropped.
Evolves(o, r) ==
    /\ RecordOK(r)
    /\ r.alive => o.alive \/ o.state = "fresh"
    /\ r.state = "fresh" => o.state = "fresh"
    /\ o.state = "lost" => r.state = "lost"
    /\ o.state \in TerminalJob => r.state \in {o.state, "lost"}
    /\ r.state \in Started => o.state \in Started \cup {"starting"}
    /\ r.state = "starting" => o.state \in {"starting", "fresh"}

\* Where no session runs there is no job under way.
NothingUnderWay ==
    /\ agent = "down" => \A j \in Jobs : job[j].state \in {"fresh", "lost"}
    /\ agent = "offline" => \A j \in Jobs : job[j].state \in Settled \cup {"fresh", "lost"}

\* A proof that a test left no container is about a test that is over.
ProofsAreFinal ==
    \A j \in proven : /\ j \in Tests /\ job[j].state \in TerminalJob \cup {"lost"}
                      /\ job[j].state \in Settled => box[j] # "present"

AnswersHold ==
    /\ \A j \in Jobs : told[j] # "none" => job[j].state # "fresh"
    /\ \A j \in Generic : told[j] # "none" => ~job[j].alive
    /\ \A j \in Tests : told[j] = "ended" => ~job[j].alive /\ box[j] # "present"

\* A test has an entry, or has ended and left no container.
TestsAreFound ==
    \A j \in Tests : job[j].state \in Started =>
        j \in entries \/ (job[j].state \in Settled /\ box[j] # "present")

\* While the session ends no job starts and only the shutdown stops tests, and a
\* test that no stop is due for, or whose stop went through, is over without a
\* container, or in doubt.
ClosingStops ==
    agent = "closing" =>
        /\ \A j \in Jobs : job[j].state # "starting"
        /\ \A j \in Tests : stopper[j] \notin {"caller", "monitor"}
        /\ \A j \in Tests : stopper[j] = "idle" /\ job[j].state \in Started =>
              job[j].state \in Settled /\ box[j] # "present"

\* A test that was never started has no container, and between two sessions only
\* a test that was lost may have one.
LeftByTheLost ==
    /\ \A j \in Tests : job[j].state = "fresh" => box[j] # "present"
    /\ agent = "offline" => \A j \in Tests : box[j] = "present" => job[j].state = "lost"

JobsIInv ==
    /\ job \in [Jobs -> JobRecords] /\ \A j \in Jobs : RecordOK(job[j])
    /\ box \in [Tests -> {"none", "present"}]
    /\ told \in [Jobs -> JobAnswers]
    /\ stopper \in [Tests -> Stoppers \cup {"idle", "due", "failed"}]
    /\ NothingUnderWay /\ ProofsAreFinal /\ AnswersHold
    /\ TestsAreFound /\ ClosingStops /\ LeftByTheLost

LEMMA FreshRecord == NoRecord \in JobRecords
BY DEF NoRecord, JobRecords, JobStates, StopReasons

LEMMA JobsStart == JobsInit => JobsIInv
<1> SUFFICES ASSUME JobsInit PROVE JobsIInv
  OBVIOUS
<1>1. \A j \in Jobs : job[j] = NoRecord /\ told[j] = "none"
  BY DEF JobsInit
<1>2. RecordOK(NoRecord) /\ NoRecord.state = "fresh"
  BY FreshRecord DEF RecordOK, NoRecord, Watching
<1>3. job \in [Jobs -> JobRecords] /\ told \in [Jobs -> JobAnswers]
      /\ box \in [Tests -> {"none", "present"}]
      /\ stopper \in [Tests -> Stoppers \cup {"idle", "due", "failed"}]
  BY FreshRecord DEF JobsInit, JobAnswers
<1>4. NothingUnderWay /\ ProofsAreFinal
  BY <1>1, <1>2 DEF JobsInit, NothingUnderWay, ProofsAreFinal
<1>5. AnswersHold
  BY <1>1, JobConstants DEF AnswersHold, Generic
<1>6. TestsAreFound /\ ClosingStops /\ LeftByTheLost
  BY <1>1, <1>2, JobConstants DEF JobsInit, TestsAreFound, ClosingStops, LeftByTheLost, Started, Settled
<1> QED BY <1>1, <1>2, <1>3, <1>4, <1>5, <1>6 DEF JobsIInv

\* What a step owes the runner's table and its stops: a started test keeps its
\* entry, and a stop goes through only for a test that has left nothing behind.
RunnerKeeps ==
    /\ stopper' \in [Tests -> Stoppers \cup {"idle", "due", "failed"}]
    /\ \A j \in Tests : job'[j].state \in Started =>
          \/ j \in entries'
          \/ j \notin entries /\ job[j].state # "starting"
    /\ agent' = "offline" => agent = "offline"
    /\ agent' = "closing" =>
          /\ agent = "closing"
          /\ \A j \in Jobs : job[j].state # "fresh" \/ job'[j].state # "starting"
          /\ \A j \in Tests : stopper'[j] \in {stopper[j], "idle", "failed", "shutdown"}
          /\ \A j \in Tests : stopper'[j] = "idle" /\ stopper[j] # "idle" =>
                (job'[j].state \in Started => job'[j].state \in Settled /\ box'[j] # "present")

\* What every step of records, proofs and answers has to respect.
LEMMA JobsChange ==
    ASSUME JobsIInv,
           job' \in [Jobs -> JobRecords], \A j \in Jobs : Evolves(job[j], job'[j]),
           box' \in [Tests -> {"none", "present"}],
           \A j \in Tests : box'[j] = "present" => box[j] = "present",
           told' \in [Jobs -> JobAnswers],
           \A j \in Jobs : told'[j] = told[j] \/ told'[j] = "none"
                             \/ job'[j].state \in TerminalJob,
           \A j \in Generic : told'[j] = told[j] \/ told'[j] = "none" \/ ~job'[j].alive,
           \A j \in Tests : \/ told'[j] = told[j] \/ told'[j] # "ended"
                            \/ ~job'[j].alive /\ box'[j] # "present",
           \A j \in proven' : \/ j \in proven
                              \/ /\ j \in Tests /\ job'[j].state \in TerminalJob \cup {"lost"}
                                 /\ job'[j].state \in Settled => box'[j] # "present",
           NothingUnderWay', RunnerKeeps
    PROVE  JobsIInv'
<1> USE DEF JobsIInv
<1>1. Tests \subseteq Jobs /\ Generic \subseteq Jobs
  BY JobConstants DEF Generic
<1>2. \A j \in Jobs : RecordOK(job'[j])
  BY DEF Evolves
<1>3. ProofsAreFinal'
  <2> SUFFICES ASSUME NEW j \in proven'
               PROVE  /\ j \in Tests /\ job'[j].state \in TerminalJob \cup {"lost"}
                      /\ job'[j].state \in Settled => box'[j] # "present"
    BY DEF ProofsAreFinal
  <2>1. CASE j \in proven
    <3>1. /\ j \in Tests /\ job[j].state \in TerminalJob \cup {"lost"}
          /\ job[j].state \in Settled => box[j] # "present"
      BY <2>1 DEF ProofsAreFinal
    <3>2. job'[j].state \in {job[j].state, "lost"}
      BY <1>1, <3>1 DEF Evolves
    <3>3. "lost" \notin Settled
      BY DEF Settled
    <3> QED BY <3>1, <3>2, <3>3
  <2> QED BY <2>1
<1>4. AnswersHold'
  <2>1. \A j \in Jobs : told'[j] # "none" => job'[j].state # "fresh"
    <3> SUFFICES ASSUME NEW j \in Jobs, told'[j] # "none" PROVE job'[j].state # "fresh"
      OBVIOUS
    <3>1. CASE told'[j] = told[j]
      BY <3>1 DEF AnswersHold, Evolves
    <3>2. CASE job'[j].state \in TerminalJob
      BY <3>2 DEF TerminalJob, Settled
    <3> QED BY <3>1, <3>2
  <2>2. \A j \in Jobs : told[j] # "none" /\ ~job[j].alive => ~job'[j].alive
    BY DEF AnswersHold, Evolves
  <2>3. \A j \in Generic : told'[j] # "none" => ~job'[j].alive
    BY <1>1, <2>2 DEF AnswersHold
  <2>4. \A j \in Tests : told'[j] = "ended" => ~job'[j].alive /\ box'[j] # "present"
    BY <1>1, <2>2 DEF AnswersHold
  <2> QED BY <2>1, <2>3, <2>4 DEF AnswersHold
<1>5. TestsAreFound'
  <2> SUFFICES ASSUME NEW j \in Tests, job'[j].state \in Started, j \notin entries'
               PROVE  job'[j].state \in Settled /\ box'[j] # "present"
    BY DEF TestsAreFound
  <2>1. job[j].state \in Started /\ j \notin entries
    BY <1>1 DEF RunnerKeeps, Evolves
  <2>2. job[j].state \in Settled /\ box[j] # "present"
    BY <2>1 DEF TestsAreFound
  <2> QED BY <1>1, <2>2 DEF Evolves, TerminalJob, Started, Settled
<1>6. ClosingStops'
  <2> SUFFICES ASSUME agent' = "closing" PROVE ClosingStops'
    BY DEF ClosingStops
  <2>1. /\ agent = "closing" /\ \A j \in Jobs : job[j].state # "starting"
        /\ \A j \in Jobs : job[j].state # "fresh" \/ job'[j].state # "starting"
    BY DEF RunnerKeeps, ClosingStops
  <2>2. \A j \in Jobs : job'[j].state # "starting"
    BY <2>1 DEF Evolves
  <2>3. ASSUME NEW j \in Tests, stopper'[j] = "idle", job'[j].state \in Started
        PROVE  job'[j].state \in Settled /\ box'[j] # "present"
    <3>1. CASE stopper[j] = "idle"
      <4>1. job[j].state \in Settled /\ box[j] # "present"
        BY <1>1, <2>1, <2>3, <3>1 DEF ClosingStops, Evolves
      <4> QED BY <1>1, <2>3, <4>1 DEF Evolves, TerminalJob, Started, Settled
    <3>2. CASE stopper[j] # "idle"
      BY <2>3, <3>2 DEF RunnerKeeps
    <3> QED BY <3>1, <3>2
  <2>4. \A j \in Tests : stopper'[j] \notin {"caller", "monitor"}
    BY <2>1 DEF RunnerKeeps, ClosingStops
  <2> QED BY <2>2, <2>3, <2>4 DEF ClosingStops
<1>7. LeftByTheLost'
  BY <1>1 DEF LeftByTheLost, RunnerKeeps, Evolves
<1> QED BY <1>2, <1>3, <1>4, <1>5, <1>6, <1>7 DEF RunnerKeeps

\* One record changes and nobody is told.
LEMMA OneRecord ==
    ASSUME JobsIInv, NEW j \in Jobs, NEW r, job' = [job EXCEPT ![j] = r], Evolves(job[j], r)
    PROVE  /\ job' \in [Jobs -> JobRecords] /\ job'[j] = r
           /\ \A i \in Jobs : Evolves(job[i], job'[i])
           /\ \A i \in Jobs : i # j => job'[i] = job[i]
<1>1. r \in JobRecords
  BY DEF Evolves, RecordOK
<1>2. \A i \in Jobs : Evolves(job[i], job[i])
  BY DEF JobsIInv, Evolves
<1> QED BY <1>1, <1>2 DEF JobsIInv

\* The runner's part, for a step that leaves its table and its stops alone.
LEMMA RunnerRests ==
    ASSUME JobsIInv, NEW j \in Jobs, NEW r, job' = [job EXCEPT ![j] = r], Evolves(job[j], r),
           UNCHANGED <<entries, stopper, agent>>,
           r.state = "starting" => job[j].state = "starting",
           j \in Tests /\ r.state \in Started => job[j].state # "starting"
    PROVE  RunnerKeeps
<1>1. job'[j] = r /\ \A i \in Jobs : i # j => job'[i] = job[i]
  BY OneRecord
<1>2. \A i \in Jobs : i # j => (job'[i].state \in Started => job[i].state # "starting")
  BY <1>1 DEF Started, Settled
<1> QED BY <1>1, <1>2, JobConstants DEF RunnerKeeps, JobsIInv

LEMMA RecordKeeps ==
    ASSUME JobsIInv, NEW j \in Jobs, NEW r, job' = [job EXCEPT ![j] = r], Evolves(job[j], r),
           agent \in {"down", "offline"} => r.state = job[j].state \/ r.state = "lost",
           r.state = "starting" => job[j].state = "starting",
           j \in Tests /\ r.state \in Started => job[j].state # "starting",
           UNCHANGED <<box, told, proven, entries, stopper, agent>>
    PROVE  JobsIInv'
<1>1. NothingUnderWay'
  BY OneRecord DEF JobsIInv, NothingUnderWay
<1>2. RunnerKeeps
  BY RunnerRests
<1> QED BY <1>1, <1>2, OneRecord, JobsChange DEF JobsIInv

\* No record changes.
LEMMA SameRecords ==
    ASSUME JobsIInv, UNCHANGED <<job, agent>>
    PROVE  /\ job' \in [Jobs -> JobRecords] /\ \A j \in Jobs : Evolves(job[j], job'[j])
           /\ NothingUnderWay'
BY DEF JobsIInv, Evolves, NothingUnderWay, Started

LEMMA SameRunner ==
    ASSUME JobsIInv, UNCHANGED <<job, agent, entries, stopper>>
    PROVE  RunnerKeeps
BY DEF JobsIInv, RunnerKeeps, Started, Settled

LEMMA QuietJobs ==
    ASSUME JobsIInv, UNCHANGED <<job, box, told, proven, entries, stopper, agent>>
    PROVE  JobsIInv'
BY SameRecords, SameRunner, JobsChange DEF JobsIInv
-----------------------------------------------------------------------------
(* The records that the operations write.                                  *)

LEMMA RecordFields ==
    ASSUME JobsIInv, NEW j \in Jobs
    PROVE  /\ job[j] \in JobRecords /\ RecordOK(job[j])
           /\ job[j].state \in JobStates /\ job[j].reason \in StopReasons
           /\ job[j].alive \in BOOLEAN /\ job[j].lease \in BOOLEAN /\ job[j].hard \in BOOLEAN
           /\ job[j].watch \in Watching \cup {"none", "done"}
BY DEF JobsIInv, JobRecords

\* A new state, reason or watch for a record that stays; deadlines and exits.
LEMMA ChangedRecord ==
    ASSUME NEW o \in JobRecords, NEW st \in JobStates, NEW w \in Watching \cup {"none", "done"},
           NEW re \in StopReasons, NEW l \in BOOLEAN, NEW h \in BOOLEAN, NEW a \in BOOLEAN
    PROVE  /\ [o EXCEPT !.state = st] \in JobRecords
           /\ [o EXCEPT !.watch = w] \in JobRecords
           /\ [o EXCEPT !.alive = a] \in JobRecords
           /\ [o EXCEPT !.lease = l] \in JobRecords
           /\ [o EXCEPT !.lease = l, !.hard = h] \in JobRecords
           /\ [o EXCEPT !.state = st, !.watch = w] \in JobRecords
           /\ [o EXCEPT !.state = st, !.reason = re] \in JobRecords
           /\ [o EXCEPT !.state = st, !.watch = w, !.reason = re] \in JobRecords
BY DEF JobRecords

LEMMA DroppedRecord ==
    ASSUME JobsIInv, NEW j \in Jobs, job[j].state # "fresh"
    PROVE  Evolves(job[j], Dropped(j)) /\ Dropped(j).state = "lost"
<1>1. /\ Dropped(j) \in JobRecords /\ Dropped(j).state = "lost"
      /\ Dropped(j).alive = job[j].alive /\ Dropped(j).watch = "none"
  BY RecordFields DEF Dropped, NoRecord, JobRecords, JobStates, StopReasons
<1> QED BY <1>1, RecordFields DEF Evolves, RecordOK, Settled, Watching, Started

LEMMA StopRecord ==
    ASSUME JobsIInv, NEW j \in Jobs
    PROVE  /\ Evolves(job[j], Requested(j))
           /\ job[j].state \in Settled \cup {"fresh", "lost"} => Requested(j) = job[j]
<1>1. CASE JobIs(j, KnownJob \ TerminalJob)
  <2>1. Requested(j) = [job[j] EXCEPT !.state = "stop_requested", !.reason = "asked"]
    BY <1>1 DEF Requested
  <2>2. /\ Requested(j) \in JobRecords /\ Requested(j).state = "stop_requested"
        /\ Requested(j).alive = job[j].alive
    BY <2>1, RecordFields DEF JobRecords, JobStates, KnownJob, StopReasons
  <2> QED BY <1>1, <2>2 DEF Evolves, RecordOK, JobIs, KnownJob, TerminalJob, Settled, Started
<1>2. CASE ~JobIs(j, KnownJob \ TerminalJob)
  BY <1>2, RecordFields DEF Requested, Evolves, Started
<1> QED BY <1>1, <1>2

-----------------------------------------------------------------------------
(* Starting, and the job's own life.                                       *)

LEMMA StartJobKeeps ==
    ASSUME JobsIInv, NEW j \in Jobs, StartJob(j) PROVE JobsIInv'
<1>1. /\ UNCHANGED <<box, told, stopper, agent>> /\ agent = "session" /\ job[j].state = "fresh"
  BY DEF StartJob, JobIs
<1>2. CASE UNCHANGED <<job, entries, proven>>
  BY <1>1, <1>2, QuietJobs
<1>3. CASE /\ job' = [job EXCEPT ![j] = Spawned(j)]
           /\ KeepsEntries(IF j \in Tests THEN entries \ Orphaned ELSE entries)
  <2>1. /\ Spawned(j) \in JobRecords /\ Spawned(j).state = "starting"
        /\ Spawned(j).watch = "none"
    BY DEF Spawned, NoRecord, JobRecords, JobStates, KnownJob, StopReasons
  <2>2. Evolves(job[j], Spawned(j))
    BY <1>1, <2>1 DEF Evolves, RecordOK, Settled, Watching, TerminalJob, Started
  <2>3. NothingUnderWay' /\ proven' \subseteq proven
    BY <1>1, <1>3 DEF NothingUnderWay, KeepsEntries
  <2>4. /\ job'[j].state = "starting" /\ \A i \in Jobs : i # j => job'[i] = job[i]
    BY <1>3, <2>1, <2>2, OneRecord
  <2>5. \A i \in entries : i \in entries' \/ job[i].state = "lost"
    BY <1>3 DEF KeepsEntries, Orphaned, JobIs
  <2>6. RunnerKeeps
    BY <1>1, <2>4, <2>5, JobConstants DEF RunnerKeeps, JobsIInv, Started, Settled
  <2> QED BY <1>1, <1>3, <2>2, <2>3, <2>6, OneRecord, JobsChange DEF JobsIInv
<1> QED BY <1>2, <1>3 DEF StartJob

LEMMA StartRunsKeeps ==
    ASSUME JobsIInv, NEW j \in Jobs, StartRuns(j) PROVE JobsIInv'
<1> DEFINE r == [job[j] EXCEPT !.state = "running", !.watch = "looking"]
<1>1. /\ UNCHANGED <<box, proven, told, stopper, agent>> /\ agent # "down"
      /\ job[j].state = "starting" /\ job' = [job EXCEPT ![j] = r]
      /\ entries \subseteq entries' /\ (j \in Tests => j \in entries')
  BY DEF StartRuns, JobIs, JobsIInv
<1>2. r \in JobRecords /\ r.state = "running" /\ r.watch = "looking" /\ r.alive = job[j].alive
  BY RecordFields DEF JobRecords, JobStates, KnownJob, Watching
<1>3. Evolves(job[j], r) /\ agent \notin {"offline", "closing"}
  BY <1>1, <1>2 DEF Evolves, RecordOK, Settled, TerminalJob, JobsIInv, NothingUnderWay,
                    ClosingStops, Started
<1>4. NothingUnderWay' /\ \A i \in Jobs : i # j => job'[i] = job[i]
  BY <1>1, <1>3, OneRecord DEF NothingUnderWay
<1>5. RunnerKeeps
  BY <1>1, <1>3, <1>4, JobConstants DEF RunnerKeeps, JobsIInv, Started, Settled
<1> QED BY <1>1, <1>3, <1>4, <1>5, OneRecord, JobsChange DEF JobsIInv

LEMMA StartFailsKeeps ==
    ASSUME JobsIInv, NEW j \in Jobs, StartFails(j) PROVE JobsIInv'
<1>1. UNCHANGED <<box, told, proven, entries, stopper, agent>> /\ agent # "down"
      /\ job[j].state = "starting" /\ agent # "offline" /\ job[j].watch = "none"
  BY DEF StartFails, runnerVars, JobIs, JobsIInv, NothingUnderWay, Settled
<1>2. PICK proof \in BOOLEAN :
         job' = [job EXCEPT ![j] = IF proof THEN [Dropped(j) EXCEPT !.alive = FALSE]
                                    ELSE [job[j] EXCEPT !.state = "indeterminate"]]
  BY DEF StartFails
<1>3. CASE proof
  <2> DEFINE r == [Dropped(j) EXCEPT !.alive = FALSE]
  <2>1. r \in JobRecords /\ r.state = "lost" /\ r.alive = FALSE /\ r.watch = "none"
    BY RecordFields DEF Dropped, NoRecord, JobRecords, JobStates, StopReasons
  <2>2. Evolves(job[j], r) /\ job' = [job EXCEPT ![j] = r]
    BY <1>1, <1>2, <1>3, <2>1 DEF Evolves, RecordOK, Settled, Watching, Started
  <2>3. r.state \notin Started
    BY <2>1 DEF Started, Settled
  <2> QED BY <1>1, <2>2, <2>3, RecordKeeps
<1>4. CASE ~proof
  <2> DEFINE r == [job[j] EXCEPT !.state = "indeterminate"]
  <2>1. r \in JobRecords /\ r.state = "indeterminate" /\ r.alive = job[j].alive /\ r.watch = "none"
    BY <1>1, RecordFields DEF JobRecords, JobStates, KnownJob, TerminalJob
  <2>2. Evolves(job[j], r) /\ job' = [job EXCEPT ![j] = r] /\ r.state \notin Started
    BY <1>1, <1>2, <1>4, <2>1 DEF Evolves, RecordOK, Settled, Watching, TerminalJob, Started
  <2> QED BY <1>1, <2>2, RecordKeeps
<1> QED BY <1>3, <1>4

\* Exits and deadlines leave a record's state alone.
LEMMA SameStateKeeps ==
    ASSUME JobsIInv, NEW j \in Jobs, NEW r \in JobRecords, job' = [job EXCEPT ![j] = r],
           r.state = job[j].state, r.alive => job[j].alive,
           r.watch = job[j].watch \/ r.watch \notin Watching,
           UNCHANGED <<box, told, proven, entries, stopper, agent>>
    PROVE  JobsIInv'
<1>1. Evolves(job[j], r)
  BY RecordFields DEF Evolves, RecordOK, Started
<1>2. r.state \in Started => job[j].state # "starting"
  BY DEF Started, Settled
<1> QED BY <1>1, <1>2, RecordKeeps

LEMMA ClockKeeps ==
    ASSUME JobsIInv, NEW j \in Jobs, ProcessExits(j) \/ LeaseDue(j) \/ HardDue(j)
    PROVE  JobsIInv'
<1>1. UNCHANGED <<box, told, proven, entries, stopper, agent>>
  BY DEF ProcessExits, LeaseDue, HardDue, OnlyJob, runnerVars
<1>2. CASE ProcessExits(j)
  <2> DEFINE r == [job[j] EXCEPT !.alive = FALSE]
  <2>1. job' = [job EXCEPT ![j] = r]
    BY <1>2 DEF ProcessExits, JobsIInv
  <2>2. r \in JobRecords /\ r.state = job[j].state /\ r.alive = FALSE /\ r.watch = job[j].watch
    BY RecordFields DEF JobRecords
  <2> QED BY <1>1, <2>1, <2>2, SameStateKeeps
<1>3. CASE LeaseDue(j)
  <2> DEFINE r == [job[j] EXCEPT !.lease = TRUE]
  <2>1. job' = [job EXCEPT ![j] = r]
    BY <1>3 DEF LeaseDue, JobsIInv
  <2>2. r \in JobRecords /\ r.state = job[j].state /\ r.alive = job[j].alive /\ r.watch = job[j].watch
    BY RecordFields DEF JobRecords
  <2> QED BY <1>1, <2>1, <2>2, SameStateKeeps
<1>4. CASE HardDue(j)
  <2> DEFINE r == [job[j] EXCEPT !.lease = TRUE, !.hard = TRUE]
  <2>1. job' = [job EXCEPT ![j] = r]
    BY <1>4 DEF HardDue, JobsIInv
  <2>2. r \in JobRecords /\ r.state = job[j].state /\ r.alive = job[j].alive /\ r.watch = job[j].watch
    BY RecordFields DEF JobRecords
  <2> QED BY <1>1, <2>1, <2>2, SameStateKeeps
<1> QED BY <1>2, <1>3, <1>4

-----------------------------------------------------------------------------
(* supervise_job.                                                          *)

LEMMA SupervisorKeeps ==
    ASSUME JobsIInv, NEW j \in Jobs,
           SupervisorReturns(j) \/ SupervisorDecides(j) \/ SupervisorPollFails(j)
    PROVE  JobsIInv'
<1>1. UNCHANGED <<box, told, proven, entries, stopper, agent>> /\ job[j].watch = "looking"
  BY DEF SupervisorReturns, SupervisorDecides, SupervisorPollFails, OnlyJob, runnerVars
<1>2. ASSUME NEW w \in {"done", "reaping"}, job' = [job EXCEPT ![j].watch = w]
      PROVE  JobsIInv'
  <2> DEFINE r == [job[j] EXCEPT !.watch = w]
  <2>1. job' = [job EXCEPT ![j] = r]
    BY <1>2 DEF JobsIInv
  <2>2. r \in JobRecords /\ r.state = job[j].state /\ r.alive = job[j].alive
    BY RecordFields DEF JobRecords, Watching
  <2>3. job[j].state \in {"running", "stop_requested", "indeterminate"}
    BY <1>1, RecordFields DEF RecordOK, Watching
  <2>4. Evolves(job[j], r)
    BY <2>2, <2>3 DEF Evolves, RecordOK, Settled, Started
  <2> QED BY <1>1, <2>1, <2>2, <2>3, <2>4, RecordKeeps
<1>3. CASE SupervisorReturns(j)
  BY <1>2, <1>3 DEF SupervisorReturns
<1>4. CASE SupervisorPollFails(j)
  BY <1>2, <1>4 DEF SupervisorPollFails
<1>5. ASSUME SupervisorDecides(j), Decision(j) # "none",
             job' = [job EXCEPT ![j].state = "stop_requested", ![j].watch = "stopping",
                                ![j].reason = Decision(j)]
      PROVE  JobsIInv'
  <2> DEFINE r == [job[j] EXCEPT !.state = "stop_requested", !.watch = "stopping",
                                 !.reason = Decision(j)]
  <2>1. job' = [job EXCEPT ![j] = r]
    BY <1>5 DEF JobsIInv
  <2>2. Decision(j) \in StopReasons
    BY RecordFields DEF Decision, StopReasons
  <2>3. r \in JobRecords /\ r.state = "stop_requested" /\ r.alive = job[j].alive
    BY <2>2, RecordFields DEF JobRecords, JobStates, KnownJob, Watching
  <2>4. job[j].state \in {"running", "stop_requested"} /\ agent # "down"
    BY <1>1, <1>5, RecordFields DEF RecordOK, Watching, SupervisorDecides, JobIs, TerminalJob
  <2>5. Evolves(job[j], r) /\ agent # "offline"
    BY <2>3, <2>4 DEF Evolves, RecordOK, Settled, TerminalJob, JobsIInv, NothingUnderWay, Started
  <2> QED BY <1>1, <2>1, <2>3, <2>4, <2>5, RecordKeeps
<1>6. CASE SupervisorDecides(j)
  BY <1>2, <1>5, <1>6 DEF SupervisorDecides
<1> QED BY <1>3, <1>4, <1>6

LEMMA SupervisorConcludesKeeps ==
    ASSUME JobsIInv, NEW j \in Jobs, SupervisorConcludes(j) PROVE JobsIInv'
<1> DEFINE st(proof) == IF JobIs(j, {"indeterminate"}) THEN "indeterminate"
                        ELSE Concluded(j, proof)
           r(proof) == [NoRecord EXCEPT !.watch = "done", !.alive = job[j].alive /\ ~proof,
                                        !.state = st(proof)]
<1>1. UNCHANGED <<box, told, proven, entries, stopper, agent>> /\ job[j].watch \in Watching /\ agent # "down"
  BY DEF SupervisorConcludes, OnlyJob, runnerVars, Watching
<1>2. PICK proof \in BOOLEAN : job' = [job EXCEPT ![j] = r(proof)]
  BY ZenonT(60) DEF SupervisorConcludes
<1>3. st(proof) \in Settled \cup {"indeterminate"} /\ (st(proof) \in Settled => proof)
      /\ (job[j].state = "indeterminate" => st(proof) = "indeterminate")
  BY <1>2 DEF Concluded, Settled, JobIs
<1>4. job[j].state \in {"running", "stop_requested", "indeterminate"} /\ agent # "offline"
  BY <1>1, RecordFields DEF RecordOK, Watching, JobsIInv, NothingUnderWay, Settled
<1> HIDE DEF st
<1>5. (job[j].alive /\ ~proof) \in BOOLEAN /\ st(proof) \in JobStates
  BY <1>3 DEF JobStates, KnownJob, TerminalJob
<1>6. /\ r(proof) \in JobRecords /\ r(proof).state = st(proof)
      /\ r(proof).alive = (job[j].alive /\ ~proof) /\ r(proof).watch = "done"
  BY <1>5 DEF NoRecord, JobRecords, StopReasons, Watching
<1> HIDE DEF r
<1>7. (proof => ~r(proof).alive) /\ (r(proof).alive => job[j].alive)
  BY <1>2, <1>6
<1>8. Evolves(job[j], r(proof))
  BY <1>3, <1>4, <1>6, <1>7 DEF Evolves, RecordOK, Settled, TerminalJob, Watching, Started
<1>9. r(proof).state # "starting"
  BY <1>3, <1>6 DEF Settled
<1> QED BY <1>1, <1>2, <1>4, <1>8, <1>9, RecordKeeps

-----------------------------------------------------------------------------
(* The manager's calls.                                                    *)

LEMMA GraceOverKeeps ==
    ASSUME JobsIInv, NEW j \in Jobs, GraceOver(j) PROVE JobsIInv'
<1> DEFINE r == [job[j] EXCEPT !.state = "indeterminate"]
<1>1. UNCHANGED <<box, told, proven, entries, stopper, agent>> /\ agent # "down" /\ job[j].state = "stop_requested"
      /\ job' = [job EXCEPT ![j] = r]
  BY DEF GraceOver, OnlyJob, runnerVars, JobIs, JobsIInv
<1>2. r \in JobRecords /\ r.state = "indeterminate" /\ r.alive = job[j].alive
      /\ r.watch = job[j].watch
  BY RecordFields DEF JobRecords, JobStates, KnownJob, TerminalJob
<1>3. Evolves(job[j], r) /\ agent # "offline"
  BY <1>1, <1>2 DEF Evolves, RecordOK, Settled, TerminalJob, JobsIInv, NothingUnderWay, Started
<1> QED BY <1>1, <1>2, <1>3, RecordKeeps

LEMMA PruneJobKeeps ==
    ASSUME JobsIInv, NEW j \in Jobs, PruneJob(j) PROVE JobsIInv'
<1>1. UNCHANGED <<box, told, proven, entries, stopper, agent>> /\ job[j].state \in Settled
      /\ job' = [job EXCEPT ![j] = Dropped(j)]
  BY DEF PruneJob, OnlyJob, runnerVars, JobIs
<1>2. job[j].state \notin {"fresh", "starting"}
  BY <1>1 DEF Settled
<1> QED BY <1>1, <1>2, DroppedRecord, RecordKeeps

LEMMA RenewJobKeeps ==
    ASSUME JobsIInv, NEW j \in Jobs, RenewJob(j) PROVE JobsIInv'
<1>1. UNCHANGED <<box, told, proven, entries, stopper, agent>> /\ agent = "session"
      /\ JobIs(j, KnownJob \ TerminalJob)
      /\ j \notin Tests
  BY DEF RenewJob, OnlyJob, runnerVars, Addressable, Generic
<1>2. CASE job[j].hard
  <2> DEFINE r == [job[j] EXCEPT !.state = "stop_requested", !.reason = "deadline"]
  <2>1. job' = [job EXCEPT ![j] = r]
    BY <1>1, <1>2 DEF RenewJob
  <2>2. /\ r \in JobRecords /\ r.state = "stop_requested" /\ r.alive = job[j].alive
    BY RecordFields DEF JobRecords, JobStates, KnownJob, StopReasons
  <2>3. Evolves(job[j], r)
    BY <1>1, <2>2 DEF Evolves, RecordOK, JobIs, KnownJob, TerminalJob, Settled, Started
  <2> QED BY <1>1, <2>1, <2>2, <2>3, RecordKeeps
<1>3. CASE ~job[j].hard
  <2> DEFINE r == [job[j] EXCEPT !.lease = FALSE]
  <2>1. job' = [job EXCEPT ![j] = r]
    BY <1>3 DEF RenewJob
  <2>2. r \in JobRecords /\ r.state = job[j].state /\ r.alive = job[j].alive /\ r.watch = job[j].watch
    BY RecordFields DEF JobRecords
  <2> QED BY <1>1, <2>1, <2>2, SameStateKeeps
<1> QED BY <1>2, <1>3

\* An answer about a generic job: only a settled record gives one that counts.
LEMMA AnswerJobKeeps ==
    ASSUME JobsIInv, NEW j \in Generic, told' = [told EXCEPT ![j] = Answer(job[j].state)],
           job' = job \/ job' = [job EXCEPT ![j] = Requested(j)],
           agent = "session", UNCHANGED <<box, proven, entries, stopper, agent>>
    PROVE  JobsIInv'
<1>1. j \in Jobs /\ Generic \subseteq Jobs /\ j \notin Tests
  BY DEF Generic
<1>2. Answer(job[j].state) \in JobAnswers
      /\ (Answer(job[j].state) # "none" => job[j].state \in Settled)
  BY DEF Answer, JobAnswers, Settled
<1>3. /\ job' \in [Jobs -> JobRecords] /\ \A i \in Jobs : Evolves(job[i], job'[i])
      /\ job[j].state \in Settled => job'[j] = job[j]
      /\ \A i \in Jobs : i # j => job'[i] = job[i]
  <2>1. CASE job' = job
    BY <2>1, SameRecords
  <2>2. CASE job' = [job EXCEPT ![j] = Requested(j)]
    BY <1>1, <2>2, OneRecord, StopRecord
  <2> QED BY <2>1, <2>2
<1>4. NothingUnderWay' /\ RunnerKeeps
  BY <1>1, <1>3, JobConstants DEF NothingUnderWay, RunnerKeeps, JobsIInv, Started, Settled
<1>5. told' \in [Jobs -> JobAnswers] /\ \A i \in Jobs : i # j => told'[i] = told[i]
      /\ told'[j] = Answer(job[j].state)
  BY <1>1, <1>2 DEF JobsIInv
<1>6. told'[j] # "none" => job'[j].state \in TerminalJob /\ ~job'[j].alive
  BY <1>1, <1>2, <1>3, <1>5, RecordFields DEF RecordOK, TerminalJob
<1> QED BY <1>1, <1>3, <1>4, <1>5, <1>6, JobsChange DEF JobsIInv

LEMMA CallsKeep ==
    ASSUME JobsIInv, NEW j \in Jobs, StopJob(j) \/ StatusJob(j) PROVE JobsIInv'
BY AnswerJobKeeps DEF StopJob, StatusJob, Addressable, runnerVars

-----------------------------------------------------------------------------
(* The test runner.                                                        *)

LEMMA ContainersKeep ==
    ASSUME JobsIInv, NEW j \in Tests, ContainerAppears(j) \/ ContainerEnds(j)
    PROVE  JobsIInv'
<1>1. UNCHANGED <<job, told, proven, entries, stopper, agent>> /\ j \in Jobs
  BY JobConstants DEF ContainerAppears, ContainerEnds, runnerVars
<1>2. CASE ContainerEnds(j)
  <2>1. box' \in [Tests -> {"none", "present"}]
        /\ \A i \in Tests : box'[i] = "present" => box[i] = "present"
    BY <1>2 DEF ContainerEnds, JobsIInv
  <2> QED BY <1>1, <2>1, SameRecords, SameRunner, JobsChange DEF JobsIInv
<1>3. CASE ContainerAppears(j)
  <2>1. job[j].alive /\ box' = [box EXCEPT ![j] = "present"]
    BY <1>3 DEF ContainerAppears
  <2>2. box' \in [Tests -> {"none", "present"}] /\ \A i \in Tests : i # j => box'[i] = box[i]
    BY <2>1 DEF JobsIInv
  <2>3. job[j].state \notin Settled /\ told[j] # "ended"
    BY <1>1, <2>1, RecordFields DEF RecordOK, JobsIInv, AnswersHold
  <2>4. LeftByTheLost'
    BY <1>1, <2>1, <2>2, RecordFields DEF JobsIInv, LeftByTheLost, NothingUnderWay, RecordOK
  <2>5. ProofsAreFinal' /\ AnswersHold' /\ TestsAreFound' /\ ClosingStops'
    BY <1>1, <2>2, <2>3 DEF JobsIInv, ProofsAreFinal, AnswersHold, TestsAreFound, ClosingStops
  <2> QED BY <1>1, <2>2, <2>4, <2>5 DEF JobsIInv, NothingUnderWay
<1> QED BY <1>2, <1>3

LEMMA RemovesOnly ==
    ASSUME JobsIInv, NEW j \in Tests, NEW works \in BOOLEAN, Removes(j, works)
    PROVE  /\ box' \in [Tests -> {"none", "present"}]
           /\ \A i \in Tests : box'[i] = "present" => box[i] = "present"
           /\ works => box'[j] # "present"
BY DEF Removes, JobsIInv

LEMMA TestStopKeeps ==
    ASSUME JobsIInv, NEW j \in Tests, NEW by \in Stoppers, TestStop(j, by)
    PROVE  JobsIInv'
<1>1. j \in Jobs /\ by # "idle"
  BY JobConstants DEF Stoppers
<1>2. /\ job' = [job EXCEPT ![j] = Requested(j)] /\ UNCHANGED <<told, proven, entries, agent>>
      /\ j \in entries /\ stopper' = [stopper EXCEPT ![j] = by] /\ job[j].state \in KnownJob
      /\ agent = "closing" => by = "shutdown"
  BY DEF TestStop, JobIs, MayStop, Stoppers
<1>3. PICK works \in BOOLEAN : Removes(j, works)
  BY DEF TestStop
<1>4. /\ job' \in [Jobs -> JobRecords] /\ \A i \in Jobs : Evolves(job[i], job'[i])
      /\ \A i \in Jobs : i # j => job'[i] = job[i]
      /\ job'[j] = Requested(j)
  BY <1>1, <1>2, StopRecord, OneRecord
<1>5. NothingUnderWay'
  <2>1. job[j].state \in Settled \cup {"fresh", "lost"} => job'[j] = job[j]
    BY <1>1, <1>4, StopRecord
  <2> QED BY <1>1, <1>2, <1>4, <2>1 DEF NothingUnderWay, JobsIInv
<1>6. RunnerKeeps
  <2>1. /\ stopper' \in [Tests -> Stoppers \cup {"idle", "due", "failed"}]
        /\ \A i \in Tests : stopper'[i] = "idle" => stopper[i] = "idle"
        /\ \A i \in Tests : stopper'[i] \in {stopper[i], by}
    BY <1>1, <1>2 DEF JobsIInv
  <2>2. \A i \in Jobs : job[i].state # "fresh" \/ job'[i].state # "starting"
    <3>1. job[j].state # "fresh"
      BY <1>2 DEF KnownJob, TerminalJob, Settled
    <3> QED BY <1>4, <3>1
  <2> QED BY <1>1, <1>2, <1>4, <2>1, <2>2, JobConstants DEF RunnerKeeps, Started, Settled
<1> QED BY <1>2, <1>3, <1>4, <1>5, <1>6, RemovesOnly, JobsChange DEF JobsIInv

\* A stop that found no record: nothing that the invariant is about changes, but the
\* stop itself.
LEMMA TestStopUnknownKeeps ==
    ASSUME JobsIInv, NEW j \in Tests, NEW by \in Stoppers, TestStopUnknown(j, by)
    PROVE  JobsIInv'
<1>1. /\ UNCHANGED <<job, box, told, proven, entries, agent>> /\ job[j].state = "lost"
      /\ stopper' = [stopper EXCEPT ![j] = Failed(by)] /\ Failed(by) \in {"failed", "idle"}
  BY DEF TestStopUnknown, JobIs, Failed
<1>2. RunnerKeeps
  <2>1. /\ stopper' \in [Tests -> Stoppers \cup {"idle", "due", "failed"}]
        /\ \A i \in Tests : i # j => stopper'[i] = stopper[i]
    BY <1>1 DEF JobsIInv
  <2> QED BY <1>1, <2>1 DEF RunnerKeeps, Started, Settled
<1> QED BY <1>1, <1>2, SameRecords, JobsChange DEF JobsIInv

LEMMA TestStopEndsKeeps ==
    ASSUME JobsIInv, NEW j \in Tests, TestStopEnds(j) PROVE JobsIInv'
<1> DEFINE ok(works, waited) == works /\ ~(JobIs(j, {"indeterminate"}) /\ waited)
                                      /\ ~JobIs(j, {"lost"})
           says == Answer(Shown(j, TRUE))
<1>1. PICK works \in BOOLEAN, waited \in BOOLEAN :
        /\ Removes(j, works)
        /\ proven' = IF ok(works, waited) THEN proven \cup {j} ELSE proven
        /\ told' = IF ok(works, waited) /\ stopper[j] = "caller"
                   THEN [told EXCEPT ![j] = says] ELSE told
        /\ stopper' = [stopper EXCEPT ![j] = IF ok(works, waited) THEN "idle" ELSE Failed(@)]
  BY DEF TestStopEnds
<1>2. /\ UNCHANGED <<job, entries, agent>> /\ job[j].state \in TerminalJob \cup {"lost"}
      /\ j \in Jobs /\ j \notin Generic
      /\ stopper[j] \in Stoppers
  BY JobConstants DEF TestStopEnds, JobIs, Generic
<1>3. ok(works, waited) => job[j].state \in TerminalJob /\ box'[j] # "present"
  BY <1>1, <1>2, RemovesOnly DEF JobIs
<1>4. /\ says \in JobAnswers
      /\ says = "ended" => job[j].state \in Settled
  BY DEF Answer, JobAnswers, Shown, Settled
<1>5. says = "ended" => ~job[j].alive
  BY <1>2, <1>4, RecordFields DEF RecordOK
<1> HIDE DEF ok, says
<1>6. told' \in [Jobs -> JobAnswers]
      /\ \A i \in Jobs : told'[i] = told[i] \/ (i = j /\ ok(works, waited) /\ told'[i] = says)
  BY <1>1, <1>2, <1>4 DEF JobsIInv
<1>7. \A i \in proven' : i \in proven \/ (i = j /\ ok(works, waited))
  BY <1>1
<1>8. RunnerKeeps
  <2>1. Failed(stopper[j]) \in {"failed", "idle"} /\ (Failed(stopper[j]) = "idle" => stopper[j] # "shutdown")
    BY DEF Failed
  <2>2. /\ stopper' \in [Tests -> Stoppers \cup {"idle", "due", "failed"}]
        /\ \A i \in Tests : i # j => stopper'[i] = stopper[i]
        /\ stopper'[j] = IF ok(works, waited) THEN "idle" ELSE Failed(stopper[j])
    BY <1>1, <2>1 DEF JobsIInv
  <2>3. job[j].state \in Started => job[j].state \in Settled
    BY <1>2 DEF Started, Settled, TerminalJob
  <2>4. agent = "closing" => stopper[j] = "shutdown"
    BY <1>2 DEF JobsIInv, ClosingStops, Stoppers
  <2>5. agent = "closing" /\ stopper'[j] = "idle" => ok(works, waited)
    BY <2>1, <2>2, <2>4
  <2> QED BY <1>2, <1>3, <2>1, <2>2, <2>3, <2>5 DEF RunnerKeeps, Started, Settled
<1>9. /\ \A i \in Jobs : told'[i] = told[i] \/ told'[i] = "none" \/ job'[i].state \in TerminalJob
      /\ \A i \in Generic : told'[i] = told[i]
      /\ \A i \in Tests : \/ told'[i] = told[i] \/ told'[i] # "ended"
                          \/ ~job'[i].alive /\ box'[i] # "present"
  BY <1>2, <1>3, <1>5, <1>6, JobConstants DEF Generic
<1>10. \A i \in proven' : \/ i \in proven
                          \/ /\ i \in Tests /\ job'[i].state \in TerminalJob \cup {"lost"}
                             /\ job'[i].state \in Settled => box'[i] # "present"
  BY <1>2, <1>3, <1>7
<1> QED BY <1>1, <1>2, <1>6, <1>8, <1>9, <1>10, RemovesOnly, SameRecords, JobsChange

LEMMA MonitorEndsKeeps ==
    ASSUME JobsIInv, NEW j \in Tests, MonitorEnds(j) PROVE JobsIInv'
<1> DEFINE tries == j \in entries
<1>1. PICK works \in BOOLEAN :
        /\ Removes(j, works /\ tries)
        /\ proven' = IF works /\ tries /\ ~JobIs(j, {"lost"}) THEN proven \cup {j} ELSE proven
  BY DEF MonitorEnds
<1>2. UNCHANGED <<job, told, entries, stopper, agent>> /\ job[j].state \in TerminalJob \cup {"lost"}
      /\ j \in Jobs
  BY JobConstants DEF MonitorEnds, JobIs
<1>3. (works /\ tries) \in BOOLEAN
  OBVIOUS
<1>4. /\ box' \in [Tests -> {"none", "present"}]
      /\ \A i \in Tests : box'[i] = "present" => box[i] = "present"
      /\ works /\ tries => box'[j] # "present"
  BY <1>1, <1>3, RemovesOnly
<1>5. \A i \in proven' : i \in proven \/ (i = j /\ box'[j] # "present")
  BY <1>1, <1>4
<1> QED BY <1>2, <1>4, <1>5, SameRecords, SameRunner, JobsChange DEF JobsIInv

LEMMA TestStatusKeeps ==
    ASSUME JobsIInv, NEW j \in Tests, TestStatus(j) PROVE JobsIInv'
<1> DEFINE asks == JobIs(j, TerminalJob) /\ j \notin proven
           absent(answers) == asks /\ answers /\ box[j] # "present"
           says(answers) == Answer(Shown(j, absent(answers) \/ j \in proven))
<1>1. PICK answers \in BOOLEAN :
        /\ proven' = IF absent(answers) THEN proven \cup {j} ELSE proven
        /\ told' = IF asks /\ ~absent(answers) THEN told ELSE [told EXCEPT ![j] = says(answers)]
  BY DEF TestStatus
<1>2. UNCHANGED <<job, box, entries, stopper, agent>> /\ j \in Jobs /\ j \notin Generic
  BY JobConstants DEF TestStatus, Generic
<1>3. absent(answers) => job[j].state \in TerminalJob /\ box[j] # "present"
  BY DEF JobIs
<1>4. says(answers) \in JobAnswers
      /\ (says(answers) # "none" => job[j].state \in TerminalJob)
      /\ (says(answers) = "ended" => job[j].state \in Settled)
  BY DEF Answer, JobAnswers, Shown, Settled, JobIs, TerminalJob
<1>5. ~(asks /\ ~absent(answers)) /\ job[j].state \in TerminalJob =>
         absent(answers) \/ j \in proven
  BY DEF JobIs
<1>6. ~(asks /\ ~absent(answers)) /\ job[j].state \in Settled => box[j] # "present" /\ ~job[j].alive
  BY <1>2, <1>3, <1>5, RecordFields DEF RecordOK, JobsIInv, ProofsAreFinal, TerminalJob
<1>7. \A i \in proven' : i \in proven \/ (i = j /\ absent(answers))
  BY <1>1
<1> HIDE DEF says, absent, asks
<1>8. told' \in [Jobs -> JobAnswers]
      /\ \A i \in Jobs : \/ told'[i] = told[i]
                         \/ i = j /\ ~(asks /\ ~absent(answers)) /\ told'[i] = says(answers)
  BY <1>1, <1>2, <1>4 DEF JobsIInv
<1>9. \A i \in Jobs : job'[i] = job[i]
  BY <1>2
<1>10. /\ \A i \in Jobs : told'[i] = told[i] \/ told'[i] = "none"
                             \/ job'[i].state \in TerminalJob
       /\ \A i \in Generic : told'[i] = told[i]
       /\ \A i \in Tests : \/ told'[i] = told[i] \/ told'[i] # "ended"
                           \/ ~job'[i].alive /\ box'[i] # "present"
  BY <1>2, <1>4, <1>6, <1>8, <1>9, JobConstants DEF Generic
<1>11. \A i \in proven' : \/ i \in proven
                           \/ /\ i \in Tests /\ job'[i].state \in TerminalJob \cup {"lost"}
                              /\ job'[i].state \in Settled => box'[i] # "present"
  BY <1>2, <1>3, <1>7
<1> QED BY <1>2, <1>8, <1>10, <1>11, SameRecords, SameRunner, JobsChange DEF JobsIInv

-----------------------------------------------------------------------------
(* The Agent around them.                                                  *)

LEMMA GoneKeeps == ASSUME JobsIInv, MemoryGoes PROVE JobsIInv'
<1>1. /\ agent' = "down" /\ proven' = {} /\ entries' = {} /\ UNCHANGED <<box, told>>
      /\ stopper' = [j \in Tests |-> "idle"]
      /\ job' = [j \in Jobs |-> IF JobIs(j, {"fresh"}) THEN job[j] ELSE Dropped(j)]
  BY DEF MemoryGoes
<1>2. \A j \in Jobs : /\ Evolves(job[j], job'[j]) /\ job'[j] \in JobRecords
                       /\ job'[j].state \in {"fresh", "lost"}
  <2> SUFFICES ASSUME NEW j \in Jobs
               PROVE  /\ Evolves(job[j], job'[j]) /\ job'[j] \in JobRecords
                      /\ job'[j].state \in {"fresh", "lost"}
    OBVIOUS
  <2>1. CASE job[j].state = "fresh"
    BY <1>1, <2>1, RecordFields DEF JobIs, Evolves, Started
  <2>2. CASE job[j].state # "fresh"
    <3>1. job'[j] = Dropped(j)
      BY <1>1, <2>2 DEF JobIs
    <3> QED BY <2>2, <3>1, DroppedRecord DEF Evolves, RecordOK
  <2> QED BY <2>1, <2>2
<1>3. NothingUnderWay' /\ job' \in [Jobs -> JobRecords]
  BY <1>1, <1>2 DEF NothingUnderWay
<1>4. RunnerKeeps
  BY <1>1, <1>2, JobConstants DEF RunnerKeeps, Started, Settled
<1> QED BY <1>1, <1>2, <1>3, <1>4, JobsChange DEF JobsIInv

\* The session changes and no record does.
LEMMA SessionKeeps ==
    ASSUME JobsIInv, UNCHANGED <<job, box, proven, entries, stopper, told>>,
           agent' \in {"session", "ending"}
    PROVE  JobsIInv'
BY DEF JobsIInv, NothingUnderWay, ProofsAreFinal, AnswersHold, TestsAreFound, ClosingStops,
       LeftByTheLost

\* The end of a session is the beginning of the stops of all its tests.
LEMMA CloseSessionKeeps == ASSUME JobsIInv, CloseSession PROVE JobsIInv'
<1>1. /\ agent' = "closing" /\ UNCHANGED <<box, proven, entries, told>>
      /\ \A j \in Jobs : job[j].state # "starting"
      /\ job' = [j \in Jobs |-> IF j \in Generic THEN Requested(j) ELSE job[j]]
      /\ stopper' = [j \in Tests |-> IF j \in entries THEN "due" ELSE "idle"]
  BY DEF CloseSession, JobIs
<1>2. \A j \in Jobs : Evolves(job[j], job'[j]) /\ job'[j] \in JobRecords
  <2> SUFFICES ASSUME NEW j \in Jobs PROVE Evolves(job[j], job'[j]) /\ job'[j] \in JobRecords
    OBVIOUS
  <2>1. Evolves(job[j], job[j])
    BY RecordFields DEF Evolves, Started
  <2>2. Evolves(job[j], job'[j])
    BY <1>1, <2>1, StopRecord
  <2> QED BY <2>2 DEF Evolves, RecordOK
<1>3. /\ \A j \in Tests : job'[j] = job[j] /\ stopper'[j] = IF j \in entries THEN "due" ELSE "idle"
      /\ stopper' \in [Tests -> Stoppers \cup {"idle", "due", "failed"}]
      /\ job' \in [Jobs -> JobRecords]
  BY <1>1, <1>2, JobConstants DEF Generic
<1>4. NothingUnderWay' /\ TestsAreFound'
  BY <1>1, <1>3 DEF NothingUnderWay, TestsAreFound, JobsIInv
<1>5. \A j \in Jobs : job'[j].state # "starting"
  <2> SUFFICES ASSUME NEW j \in Jobs PROVE job'[j].state # "starting"
    OBVIOUS
  <2>1. job[j].state # "starting" /\ (job'[j] = job[j] \/ job'[j] = Requested(j))
    BY <1>1
  <2>2. Requested(j).state # "starting"
    BY <2>1, RecordFields DEF Requested, JobRecords
  <2> QED BY <2>1, <2>2
<1>6. ClosingStops'
  <2>1. ASSUME NEW j \in Tests
        PROVE  /\ stopper'[j] \notin {"caller", "monitor"}
               /\ stopper'[j] = "idle" /\ job'[j].state \in Started =>
                    job'[j].state \in Settled /\ box'[j] # "present"
    BY <1>1, <1>3 DEF TestsAreFound, JobsIInv
  <2> QED BY <1>5, <2>1 DEF ClosingStops
<1>7. ProofsAreFinal'
  BY <1>1, <1>3 DEF JobsIInv, ProofsAreFinal
<1>8. AnswersHold'
  <2>1. \A j \in Jobs : job[j].state # "fresh" => job'[j].state # "fresh"
    BY <1>2 DEF Evolves
  <2>2. \A j \in Jobs : job[j].state # "fresh" /\ ~job[j].alive => ~job'[j].alive
    BY <1>2 DEF Evolves
  <2> QED BY <1>1, <2>1, <2>2, JobConstants DEF JobsIInv, AnswersHold, Generic
<1>9. LeftByTheLost'
  BY <1>1, <1>3 DEF JobsIInv, LeftByTheLost
<1> QED BY <1>1, <1>2, <1>3, <1>4, <1>6, <1>7, <1>8, <1>9 DEF JobsIInv, Evolves

\* A clean-up that went through leaves no test with a container, and no job.
LEMMA CloseEndsKeeps == ASSUME JobsIInv, CloseEnds PROVE JobsIInv'
<1>1. CASE CleanupFailed \/ failClosed.memory
  BY <1>1, GoneKeeps DEF CloseEnds, FailsClosed
<1>2. CASE ~(CleanupFailed \/ failClosed.memory)
  <2>1. agent' = "offline" /\ UNCHANGED <<job, box, stopper, told>> /\ proven' \subseteq proven
    BY <1>2 DEF CloseEnds, CleanupArtifacts, KeepsEntries
  <2>2. \A j \in Jobs : job[j].state \in Settled \cup {"fresh", "lost"}
    BY <1>2, RecordFields DEF CloseEnds, AllAsked, CleanupFailed, JobIs, JobStates, KnownJob, TerminalJob
  <2>3. agent = "closing" /\ \A j \in Tests : stopper[j] = "idle"
    BY <1>2 DEF CloseEnds, AllAsked, CleanupFailed
  <2>4. \A j \in Tests : job[j].state \in Started => job[j].state \in Settled /\ box[j] # "present"
    BY <2>3 DEF JobsIInv, ClosingStops
  <2>5. TestsAreFound' /\ NothingUnderWay' /\ ClosingStops' /\ ProofsAreFinal' /\ AnswersHold'
    BY <2>1, <2>2, <2>4 DEF TestsAreFound, NothingUnderWay, ClosingStops, ProofsAreFinal,
                            AnswersHold, JobsIInv
  <2>6. LeftByTheLost'
    BY <2>1, <2>2, <2>4, JobConstants DEF LeftByTheLost, JobsIInv, Started
  <2> QED BY <2>1, <2>5, <2>6 DEF JobsIInv
<1> QED BY <1>1, <1>2

LEMMA AgentKeeps ==
    ASSUME JobsIInv, OpenSession \/ AgentGone \/ AgentStarts \/ SafetyPoll \/ CloseSession
                       \/ CloseEnds \/ OperatorClears
    PROVE  JobsIInv'
<1>1. CASE OpenSession
  BY <1>1, SessionKeeps DEF OpenSession, runnerVars
<1>2. CASE AgentGone
  BY <1>2, GoneKeeps DEF AgentGone
<1>3. CASE AgentStarts
  <2>1. \A j \in Jobs : job[j].state \in {"fresh", "lost"}
    BY <1>3 DEF AgentStarts, JobsIInv, NothingUnderWay
  <2>2. box' = [j \in Tests |-> "none"] /\ UNCHANGED <<job, proven, entries, stopper, told>>
        /\ agent' = "offline"
    BY <1>3 DEF AgentStarts, runnerVars
  <2>3. ProofsAreFinal' /\ TestsAreFound' /\ ClosingStops' /\ LeftByTheLost'
    BY <2>1, <2>2, JobConstants DEF JobsIInv, ProofsAreFinal, TestsAreFound, ClosingStops,
                                    LeftByTheLost, Started, Settled
  <2>4. AnswersHold' /\ NothingUnderWay'
    BY <2>1, <2>2 DEF JobsIInv, AnswersHold, NothingUnderWay
  <2> QED BY <2>2, <2>3, <2>4 DEF JobsIInv
<1>4. CASE SafetyPoll
  <2>1. CASE FailsClosed
    BY <2>1, GoneKeeps DEF FailsClosed
  <2>2. CASE agent' = "ending" /\ UNCHANGED <<job, box, proven, entries, stopper, told>>
    BY <2>2, SessionKeeps
  <2> QED BY <1>4, <2>1, <2>2 DEF SafetyPoll, runnerVars
<1>5. CASE OperatorClears
  BY <1>5, QuietJobs DEF OperatorClears, runnerVars
<1> QED BY <1>1, <1>2, <1>3, <1>4, <1>5, CloseSessionKeeps, CloseEndsKeeps

LEMMA JobsSteps == ASSUME JobsIInv, [JobsNext]_jobVars PROVE JobsIInv'
<1>1. CASE UNCHANGED jobVars
  BY <1>1, QuietJobs DEF jobVars, runnerVars
<1> QED BY <1>1, StartJobKeeps, StartRunsKeeps, StartFailsKeeps, ClockKeeps, SupervisorKeeps,
     SupervisorConcludesKeeps, RenewJobKeeps, CallsKeep, GraceOverKeeps, PruneJobKeeps,
     ContainersKeep, TestStopKeeps, TestStopUnknownKeeps, TestStopEndsKeeps, MonitorEndsKeeps,
     TestStatusKeeps, AgentKeeps DEF JobsNext, Supervise

\* A job or test reported completed or stopped has no process and no container left,
\* and none outlives a session that ended in order (v2_managed_job.rs,
\* v2_playwright_sandbox.rs, v2_m1_agent.rs), for any jobs and tests, whichever of stop,
\* exit, deadline, pruned record, failed clean-up and restart comes first.
THEOREM JobsAreSafe == JobsSpec => []JobsSafe
<1>1. JobsInit => JobsIInv
  BY JobsStart
<1>2. JobsIInv /\ [JobsNext]_jobVars => JobsIInv'
  BY JobsSteps
<1>3. JobsIInv => JobsSafe
  <2> SUFFICES ASSUME JobsIInv PROVE JobsSafe
    OBVIOUS
  <2>1. ToldIsOver
    BY RecordFields DEF ToldIsOver, JobsIInv, AnswersHold, RecordOK, JobIs
  <2>2. NothingOutlivesItsSession
    BY RecordFields DEF NothingOutlivesItsSession, JobsIInv, NothingUnderWay, LeftByTheLost,
                        RecordOK, JobIs
  <2> QED BY <2>1, <2>2 DEF JobsSafe
<1> QED BY <1>1, <1>2, <1>3, PTL DEF JobsSpec

-----------------------------------------------------------------------------
(* The transactions of the PostgreSQL store implement the state-store      *)
(* contract, for any number of Hubs, transitions and revisions.            *)

AnyLease == [revision : Nat, epoch : Nat]
AnyRecord == [revision : Nat, epoch : Nat, state : SUBSET Mutation]
AnyProcess ==
    [status : {"Down", "Acquiring", "Starting", "Serving", "Gone"}, fenced : BOOLEAN,
     revision : Nat, epoch : Nat, state : SUBSET Mutation,
     base : AnyLease, next : AnyRecord, tag : CallTag]
AnyCandidate == [hub : Hub, base : AnyLease, next : AnyRecord, tag : CallTag]

Types ==
    /\ hub \in [Hub -> AnyProcess]
    /\ row \in AnyRecord
    /\ lock \in Hub \cup {NoHub}
    /\ detached \in AnyCandidate \cup {NoCandidate}
    /\ txn \in [Hub -> {"None", "Called", "Read", "Executed", "Retry", "Committed"}]

\* A transaction belongs to a call, and every candidate is a new revision.
CallOpen(h) ==
    /\ Calling(h) <=> txn[h] # "None"
    /\ hub[h].next = Empty \/ hub[h].next.revision # 0
    /\ hub[h].status \in {"Down", "Gone"} => txn[h] = "None"
    /\ hub[h].status = "Acquiring" => txn[h] # "None"

\* Whoever may still write the row holds it, and read it as it is: the lock
\* excludes a detached COMMIT, and an acquisition without the lock read the
\* missing row.
RowHeld(h) ==
    /\ lock = h => /\ txn[h] \in {"Read", "Executed"}
                   /\ detached = NoCandidate
                   /\ hub[h].base = LeaseOf(row)
    /\ txn[h] = "Executed" => lock = h
    /\ txn[h] = "Read" /\ lock # h =>
          hub[h].status = "Acquiring" /\ hub[h].base = LeaseOf(Empty)
    /\ txn[h] = "Retry" => /\ hub[h].status = "Acquiring" /\ row # Empty
                           /\ hub[h].base = LeaseOf(Empty)

\* A detached COMMIT is told from a later call of its Hub, which is serving.
Apart(h) ==
    detached # NoCandidate /\ detached.hub = h =>
        /\ hub[h].status \in {"Serving", "Gone"}
        /\ Calling(h) => detached.tag # hub[h].tag

RowSound ==
    /\ row = Empty \/ row.revision # 0
    /\ detached # NoCandidate => /\ detached.next.revision # 0
                                 /\ detached.base = LeaseOf(row)

PostgresIInv ==
    /\ Types /\ RowSound
    /\ \A h \in Hub : CallOpen(h) /\ RowHeld(h) /\ Apart(h)

-----------------------------------------------------------------------------
(* The writer's side of a call *)

LEMMA Records ==
    /\ Empty \in AnyRecord /\ Empty.revision = 0
    /\ \A r \in AnyRecord : LeaseOf(r) \in AnyLease /\ LeaseOf(r).revision = r.revision
    /\ LeaseOf(Empty).revision = 0
    /\ Down \in AnyProcess /\ Gone \in AnyProcess
    /\ Down.status = "Down" /\ Down.next = Empty
    /\ Gone.status = "Gone" /\ Gone.next = Empty
    /\ NoCandidate \notin AnyCandidate /\ NoCandidate.hub = NoHub
<1>1. Empty \in AnyRecord /\ Empty.revision = 0
  BY DEF Empty, AnyRecord
<1>2. /\ \A r \in AnyRecord : LeaseOf(r) \in AnyLease /\ LeaseOf(r).revision = r.revision
      /\ LeaseOf(Empty).revision = 0
  BY <1>1 DEF AnyRecord, LeaseOf, AnyLease
<1>3. Down \in AnyProcess /\ Down.status = "Down" /\ Down.next = Empty
  BY <1>1, <1>2 DEF Down, AnyProcess, CallTag
<1>4. Gone \in AnyProcess /\ Gone.status = "Gone" /\ Gone.next = Empty
  BY <1>3 DEF Gone, AnyProcess
<1>5. NoCandidate \notin AnyCandidate /\ NoCandidate.hub = NoHub
  BY PostgresConstants DEF NoCandidate, AnyCandidate
<1> QED BY <1>1, <1>2, <1>3, <1>4, <1>5

LEMMA Fields ==
    ASSUME Types, NEW h \in Hub
    PROVE  /\ hub[h] \in AnyProcess
           /\ hub[h].status \in {"Down", "Acquiring", "Starting", "Serving", "Gone"}
           /\ hub[h].fenced \in BOOLEAN
           /\ hub[h].revision \in Nat /\ hub[h].epoch \in Nat /\ hub[h].state \subseteq Mutation
           /\ hub[h].base \in AnyLease /\ hub[h].next \in AnyRecord /\ hub[h].tag \in CallTag
           /\ CandidateOf(h) \in AnyCandidate /\ CandidateOf(h).hub = h
           /\ CandidateOf(h).base = hub[h].base /\ CandidateOf(h).next = hub[h].next
           /\ CandidateOf(h).tag = hub[h].tag
<1>1. hub[h] \in AnyProcess
  BY DEF Types
<1>2. /\ hub[h].status \in {"Down", "Acquiring", "Starting", "Serving", "Gone"}
      /\ hub[h].fenced \in BOOLEAN
      /\ hub[h].revision \in Nat /\ hub[h].epoch \in Nat /\ hub[h].state \subseteq Mutation
      /\ hub[h].base \in AnyLease /\ hub[h].next \in AnyRecord /\ hub[h].tag \in CallTag
  BY <1>1 DEF AnyProcess
<1> QED BY <1>1, <1>2 DEF CandidateOf, AnyCandidate

LEMMA AcquireBegins ==
    ASSUME Types, NEW h \in Hub, BeginAcquire(h, row)
    PROVE  /\ hub' \in [Hub -> AnyProcess] /\ \A k \in Hub \ {h} : hub'[k] = hub[k]
           /\ hub'[h].status = "Acquiring" /\ hub'[h].base = LeaseOf(row)
           /\ hub'[h].next.revision # 0 /\ hub'[h].next # Empty
<1> DEFINE p == [Down EXCEPT !.status = "Acquiring", !.base = LeaseOf(row),
                             !.next = AcquireRecord(row)]
<1>1. row \in AnyRecord /\ row.revision \in Nat /\ row.epoch \in Nat /\ row.state \subseteq Mutation
  BY DEF Types, AnyRecord
<1>2. /\ AcquireRecord(row) \in AnyRecord /\ AcquireRecord(row).revision # 0
      /\ AcquireRecord(row) # Empty
  BY <1>1, Records DEF AcquireRecord, AnyRecord
<1>3. /\ p \in AnyProcess /\ p.status = "Acquiring" /\ p.base = LeaseOf(row)
      /\ p.next = AcquireRecord(row)
  BY <1>1, <1>2, Records DEF AnyProcess
<1>4. hub' = [hub EXCEPT ![h] = p]
  BY DEF BeginAcquire
<1> HIDE DEF p
<1> QED BY <1>2, <1>3, <1>4 DEF Types

LEMMA PersistBegins ==
    ASSUME Types, NEW h \in Hub, NEW ms \in PersistChoices(h), NEW tag \in CallTag,
           BeginPersist(h, ms, tag)
    PROVE  /\ hub' \in [Hub -> AnyProcess] /\ \A k \in Hub \ {h} : hub'[k] = hub[k]
           /\ hub'[h].status = hub[h].status /\ hub'[h].tag = tag
           /\ hub'[h].next.revision # 0 /\ hub'[h].next # Empty
<1> DEFINE n == [revision |-> hub[h].revision + 1, epoch |-> hub[h].epoch,
                 state |-> hub[h].state \cup ms]
           p == [hub[h] EXCEPT !.base = LeaseOf(hub[h]), !.tag = tag, !.next = n]
<1>1. ms \subseteq Mutation
  BY DEF PersistChoices
<1>2. n \in AnyRecord /\ n.revision # 0 /\ n # Empty
  BY <1>1, Fields, Records DEF AnyRecord
<1>3. LeaseOf(hub[h]) \in AnyLease
  BY Fields DEF LeaseOf, AnyLease
<1>4. hub' = [hub EXCEPT ![h].base = LeaseOf(hub[h]), ![h].tag = tag, ![h].next = n]
  BY DEF BeginPersist
<1>5. hub' = [hub EXCEPT ![h] = p]
  BY <1>4 DEF Types
<1> HIDE DEF n
<1>6. p \in AnyProcess /\ p.status = hub[h].status /\ p.tag = tag /\ p.next = n
  BY <1>2, <1>3, Fields DEF AnyProcess
<1> HIDE DEF p
<1> QED BY <1>2, <1>5, <1>6 DEF Types

LEMMA OkFinishes ==
    ASSUME Types, NEW h \in Hub, FinishOk(h)
    PROVE  /\ hub' \in [Hub -> AnyProcess] /\ \A k \in Hub \ {h} : hub'[k] = hub[k]
           /\ hub'[h].status \in {"Starting", "Serving"} /\ hub'[h].next = Empty
           /\ hub'[h].status = "Starting" => hub[h].status = "Acquiring"
<1> DEFINE p == [status |-> IF hub[h].status = "Acquiring" THEN "Starting" ELSE "Serving",
                 fenced |-> hub[h].fenced, revision |-> hub[h].next.revision,
                 epoch |-> hub[h].next.epoch, state |-> hub[h].next.state,
                 base |-> LeaseOf(Empty), next |-> Empty, tag |-> 0]
<1>1. /\ hub[h].next.revision \in Nat /\ hub[h].next.epoch \in Nat
      /\ hub[h].next.state \subseteq Mutation
  BY Fields DEF AnyRecord
<1>2. /\ p \in AnyProcess /\ p.status \in {"Starting", "Serving"} /\ p.next = Empty
      /\ p.status = "Starting" => hub[h].status = "Acquiring"
  BY <1>1, Fields, Records DEF AnyProcess, CallTag
<1>3. hub' = [hub EXCEPT ![h] = p]
  BY DEF FinishOk
<1> HIDE DEF p
<1> QED BY <1>2, <1>3 DEF Types

LEMMA ErrorFinishes ==
    ASSUME Types, NEW h \in Hub, NEW fences \in BOOLEAN, FinishError(h, fences)
    PROVE  /\ hub' \in [Hub -> AnyProcess] /\ \A k \in Hub \ {h} : hub'[k] = hub[k]
           /\ hub'[h].status \in {"Serving", "Gone"} /\ hub'[h].next = Empty
<1> DEFINE p == [hub[h] EXCEPT !.fenced = hub[h].fenced \/ fences,
                               !.base = LeaseOf(Empty), !.next = Empty, !.tag = 0]
<1>1. p \in AnyProcess /\ p.status = hub[h].status /\ p.next = Empty
  <2>1. LeaseOf(Empty) \in AnyLease /\ Empty \in AnyRecord /\ 0 \in CallTag
        /\ (hub[h].fenced \/ fences) \in BOOLEAN
    BY Records, Fields DEF CallTag
  <2>2. PICK f \in BOOLEAN, b \in AnyLease, n \in AnyRecord, g \in CallTag :
           f = (hub[h].fenced \/ fences) /\ b = LeaseOf(Empty) /\ n = Empty /\ g = 0
    BY <2>1
  <2>3. p = [hub[h] EXCEPT !.fenced = f, !.base = b, !.next = n, !.tag = g]
    BY <2>2
  <2>4. hub[h] \in AnyProcess
    BY Fields
  <2>5. PICK r1 : r1 = [hub[h] EXCEPT !.fenced = f]
    OBVIOUS
  <2>6. r1 \in AnyProcess /\ r1.status = hub[h].status
    BY <2>4, <2>5 DEF AnyProcess
  <2>7. PICK r2 : r2 = [r1 EXCEPT !.base = b]
    OBVIOUS
  <2>8. r2 \in AnyProcess /\ r2.status = hub[h].status
    BY <2>6, <2>7 DEF AnyProcess
  <2>9. PICK r3 : r3 = [r2 EXCEPT !.next = n]
    OBVIOUS
  <2>10. r3 \in AnyProcess /\ r3.status = hub[h].status /\ r3.next = n
    BY <2>8, <2>9 DEF AnyProcess
  <2>11. PICK r4 : r4 = [r3 EXCEPT !.tag = g]
    OBVIOUS
  <2>12. r4 \in AnyProcess /\ r4.status = hub[h].status /\ r4.next = n
    BY <2>10, <2>11 DEF AnyProcess
  <2>13. p = r4
    BY <2>3, <2>5, <2>7, <2>9, <2>11
  <2> HIDE DEF p
  <2> QED BY <2>2, <2>12, <2>13
<1>2. hub' = [hub EXCEPT ![h] = IF hub[h].status = "Serving" THEN p ELSE Gone]
  BY DEF FinishError
<1> HIDE DEF p
<1> QED BY <1>1, <1>2, Records DEF Types

LEMMA OverflowFacts ==
    ASSUME Types, NEW h \in Hub, OverflowRevision(h)
    PROVE  /\ hub' \in [Hub -> AnyProcess] /\ \A k \in Hub \ {h} : hub'[k] = hub[k]
           /\ hub'[h].status \in {"Serving", "Gone"} /\ hub'[h].next = Empty
<1> DEFINE p == [hub[h] EXCEPT !.fenced = TRUE]
<1>1. p \in AnyProcess /\ p.status = hub[h].status /\ p.next = hub[h].next
  <2>1. hub[h] \in AnyProcess
    BY Fields
  <2> QED BY <2>1 DEF AnyProcess
<1>2. hub' = [hub EXCEPT ![h] = IF hub[h].status = "Serving" THEN p ELSE Gone]
  BY DEF OverflowRevision, Types
<1>3. hub[h].next = Empty
  BY DEF OverflowRevision, Calling
<1> HIDE DEF p
<1> QED BY <1>1, <1>2, <1>3, Records DEF Types

LEMMA StopFacts ==
    ASSUME Types, NEW h \in Hub, StopHub(h)
    PROVE  /\ hub' \in [Hub -> AnyProcess] /\ \A k \in Hub \ {h} : hub'[k] = hub[k]
           /\ hub'[h].status = "Gone" /\ hub'[h].next = Empty
BY Records DEF StopHub, Types

-----------------------------------------------------------------------------
(* The invariant *)

\* What a step of one Hub leaves to the others.
LEMMA OthersKeep ==
    ASSUME PostgresIInv, NEW h \in Hub, NEW k \in Hub, k # h,
           hub'[k] = hub[k], txn'[k] = txn[k],
           lock' \in {lock, h, NoHub}, lock' = lock \/ lock \in {h, NoHub},
           lock \notin {h, NoHub} => row' = row /\ detached' = detached,
           row # Empty => row' # Empty,
           detached' = detached \/ detached' = NoCandidate \/ detached'.hub = h
    PROVE  CallOpen(k)' /\ RowHeld(k)' /\ Apart(k)'
<1>1. Calling(k)' <=> Calling(k)
  BY DEF Calling
<1>2. CallOpen(k) /\ RowHeld(k) /\ Apart(k)
  BY DEF PostgresIInv
<1>3. lock' = k <=> lock = k
  BY PostgresConstants
<1>4. CallOpen(k)'
  BY <1>1, <1>2 DEF CallOpen
<1>5. RowHeld(k)'
  BY <1>2, <1>3, PostgresConstants DEF RowHeld
<1>6. Apart(k)'
  BY <1>1, <1>2 DEF Apart
<1> QED BY <1>4, <1>5, <1>6

\* A step of h keeps the invariant if h itself does, and the others are left
\* what they hold.
LEMMA StepKeeps ==
    ASSUME PostgresIInv, NEW h \in Hub,
           NEW s \in {"None", "Called", "Read", "Executed", "Retry", "Committed"},
           hub' \in [Hub -> AnyProcess], \A k \in Hub \ {h} : hub'[k] = hub[k],
           txn' = [txn EXCEPT ![h] = s],
           row' \in AnyRecord, detached' \in AnyCandidate \cup {NoCandidate},
           lock' \in {lock, h, NoHub}, lock' = lock \/ lock \in {h, NoHub},
           lock \notin {h, NoHub} => row' = row /\ detached' = detached,
           row # Empty => row' # Empty,
           detached' = detached \/ detached' = NoCandidate \/ detached'.hub = h,
           RowSound',
           txn'[h] = s => CallOpen(h)' /\ RowHeld(h)' /\ Apart(h)'
    PROVE  PostgresIInv'
<1>1. txn' \in [Hub -> {"None", "Called", "Read", "Executed", "Retry", "Committed"}]
      /\ txn'[h] = s /\ \A k \in Hub \ {h} : txn'[k] = txn[k]
  BY DEF PostgresIInv, Types
<1>2. Types'
  BY <1>1 DEF PostgresIInv, Types
<1>3. \A k \in Hub \ {h} : CallOpen(k)' /\ RowHeld(k)' /\ Apart(k)'
  BY <1>1, OthersKeep
<1> QED BY <1>1, <1>2, <1>3 DEF PostgresIInv

LEMMA PostgresStarts == PostgresInit => PostgresIInv
<1> SUFFICES ASSUME PostgresInit PROVE PostgresIInv
  OBVIOUS
<1>1. /\ hub = [h \in Hub |-> Down] /\ row = Empty /\ lock = NoHub
      /\ detached = NoCandidate /\ txn = [h \in Hub |-> "None"]
  BY DEF PostgresInit, WriterInit
<1>2. Types
  BY <1>1, Records DEF Types
<1>3. RowSound
  BY <1>1 DEF RowSound
<1>4. \A h \in Hub : CallOpen(h) /\ RowHeld(h) /\ Apart(h)
  BY <1>1, Records, PostgresConstants DEF CallOpen, Calling, RowHeld, Apart
<1> QED BY <1>2, <1>3, <1>4 DEF PostgresIInv

\* What the invariant says of one Hub.
LEMMA Held ==
    ASSUME PostgresIInv, NEW h \in Hub
    PROVE  /\ Types /\ RowSound /\ CallOpen(h) /\ RowHeld(h) /\ Apart(h)
           /\ row \in AnyRecord /\ detached \in AnyCandidate \cup {NoCandidate}
           /\ lock \in Hub \cup {NoHub}
BY DEF PostgresIInv, Types

LEMMA ReadForAcquireKeeps ==
    ASSUME PostgresIInv, NEW h \in Hub, ReadForAcquire(h) PROVE PostgresIInv'
<1>1. /\ hub' \in [Hub -> AnyProcess] /\ \A k \in Hub \ {h} : hub'[k] = hub[k]
      /\ hub'[h].status = "Acquiring" /\ hub'[h].base = LeaseOf(row)
      /\ hub'[h].next.revision # 0 /\ hub'[h].next # Empty
  BY AcquireBegins, Held DEF ReadForAcquire
<1>2. /\ row # Empty => Unlocked
      /\ lock' = IF row = Empty THEN lock ELSE h
      /\ txn' = [txn EXCEPT ![h] = "Read"] /\ row' = row /\ detached' = detached
  BY DEF ReadForAcquire
<1>3. txn[h] \in {"None", "Retry"} /\ lock # h
  BY Held DEF ReadForAcquire, CallOpen, RowHeld
<1>4. hub[h].status \in {"Down", "Acquiring"} /\ ~(detached # NoCandidate /\ detached.hub = h)
  <2>1. hub[h].status \in {"Down", "Acquiring"}
    BY DEF ReadForAcquire, BeginAcquire
  <2> QED BY <2>1, Held DEF Apart
<1>5. RowSound'
  BY <1>2, Held DEF RowSound
<1>6. ASSUME txn'[h] = "Read" PROVE CallOpen(h)' /\ RowHeld(h)' /\ Apart(h)'
  <2>1. CallOpen(h)'
    BY <1>1, <1>6 DEF CallOpen, Calling
  <2>2. RowHeld(h)'
    BY <1>1, <1>2, <1>3, <1>6 DEF RowHeld, Unlocked
  <2>3. Apart(h)'
    BY <1>2, <1>4 DEF Apart
  <2> QED BY <2>1, <2>2, <2>3
<1> QED BY <1>1, <1>2, <1>3, <1>5, <1>6, Held, StepKeeps DEF Unlocked

LEMMA PostgresCommitKeeps ==
    ASSUME PostgresIInv, NEW h \in Hub, NEW ms \in PersistChoices(h), PostgresCommit(h, ms)
    PROVE  PostgresIInv'
<1> DEFINE tag == IF detached.hub = h THEN 1 - detached.tag ELSE 0
<1>1. /\ tag \in CallTag
      /\ detached # NoCandidate /\ detached.hub = h => detached.tag # tag
  BY Held, Records, PostgresConstants DEF AnyCandidate, CallTag
<1>2. BeginPersist(h, ms, tag) /\ txn' = [txn EXCEPT ![h] = "Called"] /\ UNCHANGED rowVars
  BY DEF PostgresCommit
<1> HIDE DEF tag
<1>3. /\ hub' \in [Hub -> AnyProcess] /\ \A k \in Hub \ {h} : hub'[k] = hub[k]
      /\ hub'[h].status = hub[h].status /\ hub'[h].tag = tag
      /\ hub'[h].next.revision # 0 /\ hub'[h].next # Empty
  BY <1>1, <1>2, PersistBegins, Held
<1>4. row' = row /\ lock' = lock /\ detached' = detached
  BY <1>2 DEF rowVars
<1>5. txn[h] = "None" /\ lock # h /\ hub[h].status \in {"Starting", "Serving"}
  BY <1>2, Held DEF BeginPersist, CallOpen, RowHeld
<1>6. RowSound'
  BY <1>4, Held DEF RowSound
<1>7. ASSUME txn'[h] = "Called" PROVE CallOpen(h)' /\ RowHeld(h)' /\ Apart(h)'
  <2>1. CallOpen(h)'
    BY <1>3, <1>5, <1>7 DEF CallOpen, Calling
  <2>2. RowHeld(h)'
    BY <1>4, <1>5, <1>7 DEF RowHeld
  <2>3. Apart(h)'
    BY <1>1, <1>3, <1>4, <1>5, Held DEF Apart
  <2> QED BY <2>1, <2>2, <2>3
<1> QED BY <1>2, <1>3, <1>4, <1>6, <1>7, Held, StepKeeps

\* A statement that leaves the processes alone.
LEMMA StatementKeeps ==
    ASSUME PostgresIInv, NEW h \in Hub, NEW s \in {"Read", "Executed", "Retry", "Committed"},
           UNCHANGED <<writerVars, detached>>, txn' = [txn EXCEPT ![h] = s], txn[h] # "None",
           row' \in AnyRecord, row # Empty => row' # Empty,
           lock' \in {lock, h, NoHub}, lock' = lock \/ lock \in {h, NoHub},
           lock \notin {h, NoHub} => row' = row,
           RowSound', txn'[h] = s => RowHeld(h)'
    PROVE  PostgresIInv'
<1>1. hub' = hub /\ hub \in [Hub -> AnyProcess] /\ detached' = detached
  BY Held DEF writerVars, Types
<1>2. ASSUME txn'[h] = s PROVE CallOpen(h)' /\ RowHeld(h)' /\ Apart(h)'
  <2>1. CallOpen(h)'
    BY <1>1, <1>2, Held DEF CallOpen, Calling
  <2>2. Apart(h)'
    BY <1>1, Held DEF Apart, Calling
  <2> QED BY <1>2, <2>1, <2>2
<1> QED BY <1>1, <1>2, Held, StepKeeps

LEMMA ReadForCommitKeeps ==
    ASSUME PostgresIInv, NEW h \in Hub, ReadForCommit(h) PROVE PostgresIInv'
<1>1. /\ txn[h] = "Called" /\ lock = NoHub /\ detached = NoCandidate
      /\ hub[h].base = LeaseOf(row) /\ lock' = h /\ txn' = [txn EXCEPT ![h] = "Read"]
      /\ UNCHANGED <<writerVars, row, detached>> /\ hub' = hub
  BY DEF ReadForCommit, Unlocked, writerVars
<1>2. RowSound'
  BY <1>1, Held DEF RowSound
<1>3. txn'[h] = "Read" => RowHeld(h)'
  BY <1>1 DEF RowHeld
<1> QED BY <1>1, <1>2, <1>3, Held, StatementKeeps

LEMMA ExecuteKeeps ==
    ASSUME PostgresIInv, NEW h \in Hub, ExecuteUpdate(h) \/ ExecuteInsert(h)
    PROVE  PostgresIInv'
<1>1. /\ txn[h] = "Read" /\ lock' = h /\ txn' = [txn EXCEPT ![h] = "Executed"]
      /\ UNCHANGED <<writerVars, row, detached>> /\ hub' = hub
      /\ lock = h \/ (lock = NoHub /\ detached = NoCandidate /\ row = Empty)
  BY DEF ExecuteUpdate, ExecuteInsert, Unlocked, writerVars, rowVars
<1>2. RowSound'
  BY <1>1, Held DEF RowSound
<1>3. detached = NoCandidate /\ hub[h].base = LeaseOf(row)
  BY <1>1, Held, PostgresConstants DEF RowHeld
<1>4. txn'[h] = "Executed" => RowHeld(h)'
  BY <1>1, <1>3 DEF RowHeld
<1> QED BY <1>1, <1>2, <1>4, Held, StatementKeeps

LEMMA InsertLostKeeps ==
    ASSUME PostgresIInv, NEW h \in Hub, InsertLost(h) PROVE PostgresIInv'
<1>1. /\ txn[h] = "Read" /\ lock # h /\ row # Empty /\ txn' = [txn EXCEPT ![h] = "Retry"]
      /\ UNCHANGED <<writerVars, row, lock, detached>> /\ hub' = hub
  BY DEF InsertLost, writerVars, rowVars
<1>2. RowSound'
  BY <1>1, Held DEF RowSound
<1>3. txn'[h] = "Retry" => RowHeld(h)'
  BY <1>1, Held DEF RowHeld
<1> QED BY <1>1, <1>2, <1>3, Held, StatementKeeps

LEMMA CommitTransactionKeeps ==
    ASSUME PostgresIInv, NEW h \in Hub, CommitTransaction(h) PROVE PostgresIInv'
<1>1. /\ txn[h] = "Executed" /\ row' = hub[h].next /\ lock' = Released(h)
      /\ txn' = [txn EXCEPT ![h] = "Committed"]
      /\ UNCHANGED <<writerVars, detached>> /\ hub' = hub
  BY DEF CommitTransaction, writerVars
<1>2. /\ lock = h /\ lock' = NoHub /\ detached = NoCandidate
      /\ row' \in AnyRecord /\ row'.revision # 0 /\ row' # Empty
  BY <1>1, Held, Fields DEF RowHeld, CallOpen, Calling, Released
<1>3. RowSound'
  BY <1>1, <1>2 DEF RowSound
<1>4. txn'[h] = "Committed" => RowHeld(h)'
  BY <1>1, <1>2, PostgresConstants DEF RowHeld
<1> QED BY <1>1, <1>2, <1>3, <1>4, Held, StatementKeeps

\* A call that ends, with an answer, an error or the process: it lets go of
\* the row, and its COMMIT may go on without it.
LEMMA EndKeeps ==
    ASSUME PostgresIInv, NEW h \in Hub,
           hub' \in [Hub -> AnyProcess], \A k \in Hub \ {h} : hub'[k] = hub[k],
           hub'[h].next = Empty, hub'[h].status \in {"Starting", "Serving", "Gone"},
           detached # NoCandidate /\ detached.hub = h => hub'[h].status # "Starting",
           txn' = [txn EXCEPT ![h] = "None"], row' = row,
           lock' = Released(h),
           \/ detached' = detached
           \/ /\ detached' = CandidateOf(h) /\ txn[h] = "Executed"
              /\ hub'[h].status # "Starting"
    PROVE  PostgresIInv'
<1>1. lock' \in {lock, NoHub} /\ lock' # h /\ (lock' = lock \/ lock = h)
  BY Held, PostgresConstants DEF Released
<1>2. /\ txn[h] = "Executed" => lock = h /\ detached = NoCandidate
                                /\ hub[h].base = LeaseOf(row) /\ hub[h].next.revision # 0
  BY Held DEF RowHeld, CallOpen, Calling
<1>3. /\ CandidateOf(h) \in AnyCandidate /\ CandidateOf(h).hub = h
      /\ CandidateOf(h).base = hub[h].base /\ CandidateOf(h).next = hub[h].next
  BY Held, Fields
<1>4. RowSound'
  BY <1>2, <1>3, Held DEF RowSound
<1>5. ASSUME txn'[h] = "None" PROVE CallOpen(h)' /\ RowHeld(h)' /\ Apart(h)'
  <2>1. CallOpen(h)'
    BY <1>5 DEF CallOpen, Calling
  <2>2. RowHeld(h)'
    BY <1>1, <1>5 DEF RowHeld
  <2>3. Apart(h)'
    BY Held DEF Apart, Calling
  <2> QED BY <2>1, <2>2, <2>3
<1>6. lock \notin {h, NoHub} => row' = row /\ detached' = detached
  BY <1>2
<1>7. detached' \in AnyCandidate \cup {NoCandidate}
  BY <1>3, Held
<1>8. detached' = detached \/ detached' = NoCandidate \/ detached'.hub = h
  BY <1>3
<1>9. row' \in AnyRecord /\ (row # Empty => row' # Empty)
  BY Held
<1> QED BY <1>1, <1>4, <1>5, <1>6, <1>7, <1>8, <1>9, StepKeeps

LEMMA EndsKeeps ==
    ASSUME PostgresIInv, NEW h \in Hub,
           ReadConflict(h) \/ ProviderFails(h) \/ CommitUnknown(h) \/ VerifyExactFails(h)
    PROVE  PostgresIInv'
<1>1. PICK fences \in BOOLEAN : Ends(h, fences)
  BY DEF ReadConflict, ProviderFails, CommitUnknown, VerifyExactFails
<1>2. /\ hub' \in [Hub -> AnyProcess] /\ \A k \in Hub \ {h} : hub'[k] = hub[k]
      /\ hub'[h].status \in {"Serving", "Gone"} /\ hub'[h].next = Empty
      /\ txn' = [txn EXCEPT ![h] = "None"]
  BY <1>1, ErrorFinishes, Held DEF Ends
<1>3. row' = row /\ lock' = Released(h)
  BY Held DEF ReadConflict, ProviderFails, CommitUnknown, VerifyExactFails, rowVars,
              Unlocked, Released, RowHeld
<1>4. detached' = detached \/ (detached' = CandidateOf(h) /\ txn[h] = "Executed")
  BY DEF ReadConflict, ProviderFails, CommitUnknown, VerifyExactFails, rowVars
<1> QED BY <1>2, <1>3, <1>4, EndKeeps

LEMMA VerifyExactKeeps ==
    ASSUME PostgresIInv, NEW h \in Hub, VerifyExact(h) PROVE PostgresIInv'
<1>1. /\ txn[h] = "Committed" /\ FinishOk(h) /\ txn' = [txn EXCEPT ![h] = "None"]
      /\ row' = row /\ lock' = lock /\ detached' = detached
  BY DEF VerifyExact, rowVars
<1>2. /\ hub' \in [Hub -> AnyProcess] /\ \A k \in Hub \ {h} : hub'[k] = hub[k]
      /\ hub'[h].status \in {"Starting", "Serving"} /\ hub'[h].next = Empty
      /\ hub'[h].status = "Starting" => hub[h].status = "Acquiring"
  BY <1>1, OkFinishes, Held
<1>3. lock' = Released(h) /\ (detached # NoCandidate /\ detached.hub = h => hub'[h].status # "Starting")
  BY <1>1, <1>2, Held DEF Released, RowHeld, Apart
<1> QED BY <1>1, <1>2, <1>3, EndKeeps

LEMMA OverflowKeeps ==
    ASSUME PostgresIInv, NEW h \in Hub, PostgresOverflow(h) PROVE PostgresIInv'
<1>1. /\ hub' \in [Hub -> AnyProcess] /\ \A k \in Hub \ {h} : hub'[k] = hub[k]
      /\ hub'[h].status \in {"Serving", "Gone"} /\ hub'[h].next = Empty
  BY OverflowFacts, Held DEF PostgresOverflow
<1>2. txn[h] = "None"
  BY Held DEF PostgresOverflow, OverflowRevision, CallOpen
<1>3. txn' = [txn EXCEPT ![h] = "None"] /\ row' = row /\ detached' = detached
  BY <1>2, Held DEF PostgresOverflow, rowVars, Types
<1>4. lock' = Released(h)
  BY <1>2, Held DEF PostgresOverflow, rowVars, Released, RowHeld
<1> QED BY <1>1, <1>3, <1>4, EndKeeps

LEMMA StopKeeps ==
    ASSUME PostgresIInv, NEW h \in Hub, PostgresStop(h) PROVE PostgresIInv'
<1>1. /\ hub' \in [Hub -> AnyProcess] /\ \A k \in Hub \ {h} : hub'[k] = hub[k]
      /\ hub'[h].status = "Gone" /\ hub'[h].next = Empty
  BY StopFacts, Held DEF PostgresStop
<1> QED BY <1>1, EndKeeps DEF PostgresStop

LEMMA DetachedKeeps ==
    ASSUME PostgresIInv, DetachedCommit \/ DetachedAbort PROVE PostgresIInv'
<1>1. /\ hub' = hub /\ lock' = lock /\ txn' = txn /\ detached' = NoCandidate
      /\ detached # NoCandidate /\ row' \in {row, detached.next}
  BY DEF DetachedCommit, DetachedAbort, writerVars
<1>2. /\ detached \in AnyCandidate /\ detached.next \in AnyRecord
      /\ detached.next.revision # 0 /\ detached.next # Empty
  BY <1>1, Records DEF PostgresIInv, Types, RowSound, AnyCandidate
<1>3. Types' /\ RowSound'
  BY <1>1, <1>2 DEF PostgresIInv, Types, RowSound
<1>4. ASSUME NEW h \in Hub PROVE CallOpen(h)' /\ RowHeld(h)' /\ Apart(h)'
  <2>1. CallOpen(h)'
    BY <1>1, Held DEF CallOpen, Calling
  <2>2. RowHeld(h)'
    BY <1>1, <1>2, Held DEF RowHeld
  <2>3. Apart(h)'
    BY <1>1 DEF Apart
  <2> QED BY <2>1, <2>2, <2>3
<1> QED BY <1>3, <1>4 DEF PostgresIInv

LEMMA PostgresSteps ==
    ASSUME PostgresIInv, [PostgresNext]_postgresVars PROVE PostgresIInv'
<1>1. CASE PostgresNext
  BY <1>1, ReadForAcquireKeeps, PostgresCommitKeeps, ReadForCommitKeeps, ExecuteKeeps,
     InsertLostKeeps, CommitTransactionKeeps, EndsKeeps, VerifyExactKeeps, OverflowKeeps,
     StopKeeps, DetachedKeeps DEF PostgresNext
<1>2. CASE UNCHANGED postgresVars
  BY <1>2 DEF postgresVars, writerVars, PostgresIInv, Types, RowSound, CallOpen, Calling,
              RowHeld, Apart
<1> QED BY <1>1, <1>2

\* Whoever may still write the row holds it and read it as it is.
THEOREM PostgresHoldsRow == PostgresSpec => []PostgresIInv
BY PostgresStarts, PostgresSteps, PTL DEF PostgresSpec

-----------------------------------------------------------------------------
(* The contract *)

\* A pending candidate of another Hub, and a detached one, is another one.
LEMMA PendingApart ==
    ASSUME PostgresIInv, NEW h \in Hub
    PROVE  /\ \A k \in Hub : k # h => CandidateOf(k) # CandidateOf(h)
           /\ detached # NoCandidate => detached # CandidateOf(h)
           /\ OnTheirWay \ {CandidateOf(h)} =
                {CandidateOf(k) : k \in OpenCalls \ {h}} \cup ({detached} \ {NoCandidate})
           /\ CandidateOf(h) \in OnTheirWay <=> h \in OpenCalls
<1>1. \A k \in Hub : CandidateOf(k).hub = k
  BY Fields, Held
<1>2. detached # NoCandidate => detached # CandidateOf(h)
  <2> SUFFICES ASSUME detached # NoCandidate, detached = CandidateOf(h) PROVE FALSE
    OBVIOUS
  <2>1. detached.hub = h /\ detached.next = hub[h].next /\ detached.tag = hub[h].tag
    BY Fields, Held
  <2>2. Calling(h)
    BY <2>1, Held, Records DEF RowSound, Calling
  <2> QED BY <2>1, <2>2, Held DEF Apart
<1>3. CandidateOf(h) # NoCandidate
  BY Fields, Held, Records
<1>4. OpenCalls \subseteq Hub
  BY DEF OpenCalls
<1> QED BY <1>1, <1>2, <1>3, <1>4 DEF OnTheirWay

\* The contract speaks of the same Hubs and calls.
LEMMA SameWriter ==
    ASSUME NEW h \in Hub
    PROVE  /\ RowContract!CandidateOf(h) = CandidateOf(h)
           /\ RowContract!CandidateOf(h)' = CandidateOf(h)'
           /\ RowContract!Calling(h) <=> Calling(h)
           /\ RowContract!LeaseOf(row) = LeaseOf(row)
           /\ RowContract!PersistChoices(h) = PersistChoices(h)
           /\ BeginAcquire(h, row) => RowContract!BeginAcquire(h, row)
           /\ FinishOk(h) => RowContract!FinishOk(h)
           /\ OverflowRevision(h) => RowContract!OverflowRevision(h)
           /\ StopHub(h) => RowContract!StopHub(h)
<1>1. /\ RowContract!CandidateOf(h) = CandidateOf(h)
      /\ RowContract!CandidateOf(h)' = CandidateOf(h)'
  BY DEF CandidateOf, RowContract!CandidateOf
<1>2. RowContract!Calling(h) <=> Calling(h)
  BY DEF Calling, RowContract!Calling, Empty, RowContract!Empty
<1>3. RowContract!LeaseOf(row) = LeaseOf(row)
  BY DEF LeaseOf, RowContract!LeaseOf
<1>4. RowContract!PersistChoices(h) = PersistChoices(h)
  BY DEF PersistChoices, RowContract!PersistChoices
<1>5. BeginAcquire(h, row) => RowContract!BeginAcquire(h, row)
  BY DEF BeginAcquire, RowContract!BeginAcquire, Down, RowContract!Down, LeaseOf,
         RowContract!LeaseOf, Empty, RowContract!Empty, AcquireRecord,
         RowContract!AcquireRecord
<1>6. FinishOk(h) => RowContract!FinishOk(h)
  BY DEF FinishOk, RowContract!FinishOk, LeaseOf, RowContract!LeaseOf, Empty, RowContract!Empty
<1>7. OverflowRevision(h) => RowContract!OverflowRevision(h)
  BY <1>2 DEF OverflowRevision, RowContract!OverflowRevision, Gone, RowContract!Gone,
         Down, RowContract!Down, LeaseOf, RowContract!LeaseOf, Empty, RowContract!Empty
<1>8. StopHub(h) => RowContract!StopHub(h)
  BY DEF StopHub, RowContract!StopHub, Gone, RowContract!Gone,
         Down, RowContract!Down, LeaseOf, RowContract!LeaseOf, Empty, RowContract!Empty
<1> QED BY <1>1, <1>2, <1>3, <1>4, <1>5, <1>6, <1>7, <1>8

LEMMA SameError ==
    ASSUME NEW h \in Hub, NEW fences \in BOOLEAN, FinishError(h, fences)
    PROVE  RowContract!FinishError(h, fences)
BY DEF FinishError, RowContract!FinishError, Gone, RowContract!Gone, Down, RowContract!Down,
       LeaseOf, RowContract!LeaseOf, Empty, RowContract!Empty

LEMMA SamePersist ==
    ASSUME NEW h \in Hub, NEW ms \in PersistChoices(h), NEW tag \in CallTag,
           BeginPersist(h, ms, tag)
    PROVE  RowContract!BeginPersist(h, ms, tag)
BY SameWriter DEF BeginPersist, RowContract!BeginPersist, LeaseOf, RowContract!LeaseOf

\* What is on its way after a step of h.
LEMMA WayAfter ==
    ASSUME PostgresIInv, NEW h \in Hub,
           NEW s \in {"None", "Called", "Read", "Executed", "Retry", "Committed"},
           \A k \in Hub \ {h} : hub'[k] = hub[k], txn' = [txn EXCEPT ![h] = s]
    PROVE  OnTheirWay' = {CandidateOf(k) : k \in OpenCalls \ {h}}
                           \cup (IF s \in {"None", "Committed"} THEN {} ELSE {CandidateOf(h)'})
                           \cup ({detached'} \ {NoCandidate})
<1>1. \A k \in Hub \ {h} : CandidateOf(k)' = CandidateOf(k)
  BY DEF CandidateOf
<1>2. txn'[h] = s /\ \A k \in Hub \ {h} : txn'[k] = txn[k]
  BY DEF PostgresIInv, Types
<1>3. OpenCalls' = (OpenCalls \ {h}) \cup (IF s \in {"None", "Committed"} THEN {} ELSE {h})
  BY <1>2 DEF OpenCalls
<1>4. OpenCalls \subseteq Hub
  BY DEF OpenCalls
<1>5. NoCandidate' = NoCandidate
  BY DEF NoCandidate
<1>6. OnTheirWay' = {CandidateOf(k)' : k \in OpenCalls'} \cup ({detached'} \ {NoCandidate})
  BY <1>5 DEF OnTheirWay
<1>7. {CandidateOf(k)' : k \in OpenCalls'} =
        {CandidateOf(k) : k \in OpenCalls \ {h}}
          \cup (IF s \in {"None", "Committed"} THEN {} ELSE {CandidateOf(h)'})
  <2>1. {CandidateOf(k)' : k \in OpenCalls \ {h}} = {CandidateOf(k) : k \in OpenCalls \ {h}}
    BY <1>1, <1>4
  <2>2. CASE s \in {"None", "Committed"}
    BY <1>3, <2>1, <2>2
  <2>3. CASE s \notin {"None", "Committed"}
    BY <1>3, <2>1, <2>3
  <2> QED BY <2>2, <2>3
<1> QED BY <1>6, <1>7

\* The same, when the call of h had not begun, goes on or is over.
LEMMA WayOfACall ==
    ASSUME PostgresIInv, NEW h \in Hub,
           NEW s \in {"None", "Called", "Read", "Executed", "Retry", "Committed"},
           \A k \in Hub \ {h} : hub'[k] = hub[k], txn' = [txn EXCEPT ![h] = s],
           detached' = detached
    PROVE  /\ s \in {"None", "Committed"} => OnTheirWay' = OnTheirWay \ {CandidateOf(h)}
           /\ s \notin {"None", "Committed"} =>
                OnTheirWay' = (OnTheirWay \ {CandidateOf(h)}) \cup {CandidateOf(h)'}
           /\ h \notin OpenCalls => OnTheirWay \ {CandidateOf(h)} = OnTheirWay
           /\ h \in OpenCalls => CandidateOf(h) \in OnTheirWay
<1>1. OnTheirWay' = {CandidateOf(k) : k \in OpenCalls \ {h}}
                           \cup (IF s \in {"None", "Committed"} THEN {} ELSE {CandidateOf(h)'})
                           \cup ({detached} \ {NoCandidate})
  BY WayAfter
<1>2. /\ OnTheirWay \ {CandidateOf(h)} =
           {CandidateOf(k) : k \in OpenCalls \ {h}} \cup ({detached} \ {NoCandidate})
      /\ CandidateOf(h) \in OnTheirWay <=> h \in OpenCalls
  BY PendingApart
<1> QED BY <1>1, <1>2

Step == UNCHANGED RowContract!storeVars \/ RowContract!StoreNext

\* load_current and acquire_writer.
LEMMA AcquireImplements ==
    ASSUME PostgresIInv, NEW h \in Hub, ReadForAcquire(h) PROVE Step
<1>1. /\ BeginAcquire(h, row) /\ row' = row /\ detached' = detached
      /\ txn' = [txn EXCEPT ![h] = "Read"]
      /\ hub[h].status \in {"Down", "Acquiring"}
      /\ hub[h].status = "Down" \/ txn[h] = "Retry"
  BY DEF ReadForAcquire, BeginAcquire
<1>2. OnTheirWay' = (OnTheirWay \ {CandidateOf(h)}) \cup {CandidateOf(h)'}
  BY <1>1, AcquireBegins, WayOfACall, Held
<1>3. CASE hub[h].status = "Down"
  <2>1. h \notin OpenCalls
    BY <1>3, Held DEF CallOpen, OpenCalls
  <2>2. OnTheirWay' = OnTheirWay \cup {CandidateOf(h)'}
    BY <1>2, <2>1, PendingApart
  <2>3. RowContract!CallAcquire(h)
    BY <1>1, <1>3, <2>2, SameWriter DEF RowContract!CallAcquire
  <2> QED BY <2>3 DEF Step, RowContract!StoreNext
<1>4. CASE txn[h] = "Retry"
  <2>1. hub[h].status = "Acquiring" /\ hub[h].base = LeaseOf(Empty) /\ row # Empty
    BY <1>4, Held DEF RowHeld
  <2>2. hub[h].base # LeaseOf(row)
    BY <2>1, Held, Records DEF RowSound
  <2>3. CandidateOf(h) \in OnTheirWay
    BY <1>4, PendingApart DEF OpenCalls
  <2>4. RowContract!RetryAcquire(h)
    BY <1>1, <1>2, <2>1, <2>2, <2>3, SameWriter DEF RowContract!RetryAcquire
  <2> QED BY <2>4 DEF Step, RowContract!StoreNext
<1> QED BY <1>1, <1>3, <1>4

LEMMA CommitImplements ==
    ASSUME PostgresIInv, NEW h \in Hub, NEW ms \in PersistChoices(h), PostgresCommit(h, ms)
    PROVE  Step
<1> DEFINE tag == IF detached.hub = h THEN 1 - detached.tag ELSE 0
<1>1. /\ tag \in CallTag
      /\ detached # NoCandidate /\ detached.hub = h => detached.tag # tag
  BY Held, Records, PostgresConstants DEF AnyCandidate, CallTag
<1>2. /\ BeginPersist(h, ms, tag) /\ txn' = [txn EXCEPT ![h] = "Called"]
      /\ row' = row /\ detached' = detached
  BY DEF PostgresCommit, rowVars
<1> HIDE DEF tag
<1>3. h \notin OpenCalls
  BY <1>2, Held DEF BeginPersist, CallOpen, OpenCalls
<1>4. OnTheirWay' = OnTheirWay \cup {CandidateOf(h)'}
  BY <1>1, <1>2, <1>3, PersistBegins, WayOfACall, Held
<1>5. \A c \in OnTheirWay : c.hub = h => c.tag # tag
  <2>1. \A k \in OpenCalls : CandidateOf(k).hub = k
    BY Fields, Held DEF OpenCalls
  <2> QED BY <1>1, <1>3, <2>1 DEF OnTheirWay
<1>6. RowContract!CallCommit(h, ms, tag)
  BY <1>1, <1>2, <1>4, <1>5, SamePersist, SameWriter DEF RowContract!CallCommit
<1>7. tag \in RowContract!CallTag /\ ms \in RowContract!PersistChoices(h)
  BY <1>1, SameWriter DEF CallTag, RowContract!CallTag
<1> QED BY <1>6, <1>7 DEF Step, RowContract!StoreNext

\* The statements of a transaction are not seen from outside.
LEMMA StatementsImplement ==
    ASSUME PostgresIInv, NEW h \in Hub,
           ReadForCommit(h) \/ ExecuteUpdate(h) \/ ExecuteInsert(h) \/ InsertLost(h)
    PROVE  Step
<1>1. /\ UNCHANGED <<writerVars, row, detached>> /\ h \in OpenCalls
      /\ \E s \in {"Read", "Executed", "Retry"} : txn' = [txn EXCEPT ![h] = s]
  BY DEF ReadForCommit, ExecuteUpdate, ExecuteInsert, InsertLost, rowVars, OpenCalls
<1>2. \A k \in Hub : hub'[k] = hub[k] /\ CandidateOf(k)' = CandidateOf(k)
  BY <1>1 DEF writerVars, CandidateOf
<1>3. OnTheirWay' = OnTheirWay
  <2>1. PICK s \in {"Read", "Executed", "Retry"} : txn' = [txn EXCEPT ![h] = s]
    BY <1>1
  <2>2. s \notin {"None", "Committed"} /\ CandidateOf(h) \in OnTheirWay
    BY <1>1, PendingApart
  <2>3. OnTheirWay' = (OnTheirWay \ {CandidateOf(h)}) \cup {CandidateOf(h)'}
    BY <1>1, <1>2, <2>1, <2>2, WayOfACall
  <2> QED BY <1>2, <2>2, <2>3
<1>4. UNCHANGED RowContract!storeVars
  BY <1>1, <1>3 DEF RowContract!storeVars, RowContract!writerVars, writerVars
<1> QED BY <1>4 DEF Step

\* COMMIT is the compare-and-commit point: the lock kept the row as it was read.
LEMMA PublishImplements ==
    ASSUME PostgresIInv, NEW h \in Hub, CommitTransaction(h) PROVE Step
<1>1. /\ txn[h] = "Executed" /\ row' = hub[h].next /\ txn' = [txn EXCEPT ![h] = "Committed"]
      /\ UNCHANGED <<writerVars, detached>> /\ hub' = hub
  BY DEF CommitTransaction, writerVars
<1>2. hub[h].base = LeaseOf(row) /\ h \in OpenCalls
  BY <1>1, Held DEF RowHeld, OpenCalls
<1>3. OnTheirWay' = OnTheirWay \ {CandidateOf(h)} /\ CandidateOf(h) \in OnTheirWay
  BY <1>1, <1>2, WayOfACall
<1>4. CandidateOf(h).base = hub[h].base /\ CandidateOf(h).next = hub[h].next
  BY Fields, Held
<1>5. RowContract!Publish(CandidateOf(h))
  BY <1>1, <1>2, <1>3, <1>4, SameWriter
     DEF RowContract!Publish, RowContract!writerVars, writerVars
<1> QED BY <1>3, <1>5 DEF Step, RowContract!StoreNext

\* The detached candidate is nobody's call, and its base is still the row.
LEMMA DetachedImplements ==
    ASSUME PostgresIInv, DetachedCommit \/ DetachedAbort PROVE Step
<1>1. /\ UNCHANGED <<writerVars, lock, txn>> /\ hub' = hub /\ detached' = NoCandidate
      /\ detached # NoCandidate /\ row' \in {row, detached.next}
  BY DEF DetachedCommit, DetachedAbort, writerVars
<1>2. /\ detached \in OnTheirWay /\ detached.base = LeaseOf(row)
      /\ detached \in AnyCandidate /\ detached.hub \in Hub
  BY <1>1 DEF PostgresIInv, Types, RowSound, OnTheirWay, AnyCandidate
<1>3. \A k \in Hub : CandidateOf(k) # detached
  BY <1>1, PendingApart
<1>4. OnTheirWay' = OnTheirWay \ {detached}
  <2>1. \A k \in Hub : CandidateOf(k)' = CandidateOf(k)
    BY <1>1 DEF CandidateOf
  <2>2. OpenCalls' = OpenCalls /\ OpenCalls \subseteq Hub
    BY <1>1 DEF OpenCalls
  <2> QED BY <1>1, <1>3, <2>1, <2>2 DEF OnTheirWay, NoCandidate
<1>5. CASE row' = detached.next
  <2>1. RowContract!Publish(detached)
    BY <1>1, <1>2, <1>4, <1>5 DEF RowContract!Publish, RowContract!writerVars, writerVars,
                                RowContract!LeaseOf, LeaseOf
  <2> QED BY <1>2, <2>1 DEF Step, RowContract!StoreNext
<1>6. CASE row' = row
  <2>1. detached # RowContract!CandidateOf(detached.hub)
    BY <1>2, <1>3, SameWriter
  <2>2. RowContract!Abandon(detached)
    BY <1>1, <1>2, <1>4, <1>6, <2>1 DEF RowContract!Abandon, RowContract!writerVars, writerVars
  <2> QED BY <1>2, <2>2 DEF Step, RowContract!StoreNext
<1> QED BY <1>1, <1>5, <1>6

\* A call that ends leaves nothing on its way but a COMMIT it had requested.
LEMMA WayOfAnEnd ==
    ASSUME PostgresIInv, NEW h \in Hub, \A k \in Hub \ {h} : hub'[k] = hub[k],
           txn' = [txn EXCEPT ![h] = "None"],
           \/ detached' = detached
           \/ detached' = CandidateOf(h) /\ txn[h] = "Executed"
    PROVE  /\ OnTheirWay' \in {OnTheirWay, OnTheirWay \ {CandidateOf(h)}}
           /\ detached' = detached => OnTheirWay' = OnTheirWay \ {CandidateOf(h)}
<1>1. CASE detached' = detached
  BY <1>1, WayOfACall
<1>2. CASE detached' = CandidateOf(h) /\ txn[h] = "Executed" /\ detached' # detached
  <2>1. detached = NoCandidate /\ h \in OpenCalls /\ CandidateOf(h) # NoCandidate
    BY <1>2, Held, Fields, Records DEF RowHeld, OpenCalls
  <2>2. OnTheirWay' = {CandidateOf(k) : k \in OpenCalls \ {h}} \cup {CandidateOf(h)}
    BY <1>2, <2>1, WayAfter
  <2>3. OnTheirWay' = OnTheirWay
    BY <2>1, <2>2 DEF OnTheirWay
  <2> QED BY <1>2, <2>3
<1> QED BY <1>1, <1>2

LEMMA ErrorsImplement ==
    ASSUME PostgresIInv, NEW h \in Hub,
           ReadConflict(h) \/ ProviderFails(h) \/ CommitUnknown(h) \/ VerifyExactFails(h)
    PROVE  Step
<1>1. PICK fences \in BOOLEAN :
        /\ Ends(h, fences) /\ row' = row
        /\ \/ detached' = detached
           \/ detached' = CandidateOf(h) /\ txn[h] = "Executed" /\ fences
        /\ txn[h] # "None"
        /\ ~fences => detached' = detached /\ h \in OpenCalls
  BY DEF ReadConflict, ProviderFails, CommitUnknown, VerifyExactFails, rowVars, OpenCalls
<1>2. /\ FinishError(h, fences) /\ txn' = [txn EXCEPT ![h] = "None"]
      /\ \A k \in Hub \ {h} : hub'[k] = hub[k]
  BY <1>1, ErrorFinishes, Held DEF Ends
<1>3. RowContract!FinishError(h, fences) /\ RowContract!Calling(h)
  BY <1>1, <1>2, SameError, SameWriter, Held DEF CallOpen
<1>4. /\ OnTheirWay' \in {OnTheirWay, OnTheirWay \ {CandidateOf(h)}}
      /\ detached' = detached => OnTheirWay' = OnTheirWay \ {CandidateOf(h)}
  BY <1>1, <1>2, WayOfAnEnd
<1>5. CASE fences
  <2>1. RowContract!ReturnUncertain(h)
    BY <1>1, <1>3, <1>4, <1>5, SameWriter DEF RowContract!ReturnUncertain
  <2> QED BY <2>1 DEF Step, RowContract!StoreNext
<1>6. CASE ~fences
  <2>1. CandidateOf(h) \in OnTheirWay
    BY <1>1, <1>6, PendingApart
  <2>2. RowContract!ReturnUnavailable(h)
    BY <1>1, <1>3, <1>4, <1>6, <2>1, SameWriter DEF RowContract!ReturnUnavailable
  <2> QED BY <2>2 DEF Step, RowContract!StoreNext
<1> QED BY <1>5, <1>6

\* verify_exact found the candidate, which is no longer on its way.
LEMMA OkImplements ==
    ASSUME PostgresIInv, NEW h \in Hub, VerifyExact(h) PROVE Step
<1>1. /\ txn[h] = "Committed" /\ row = hub[h].next /\ FinishOk(h)
      /\ txn' = [txn EXCEPT ![h] = "None"] /\ row' = row /\ detached' = detached
  BY DEF VerifyExact, rowVars
<1>2. h \notin OpenCalls /\ CandidateOf(h) \notin OnTheirWay /\ Calling(h)
  BY <1>1, PendingApart, Held DEF OpenCalls, CallOpen
<1>3. OnTheirWay' = OnTheirWay
  <2>1. \A k \in Hub \ {h} : hub'[k] = hub[k]
    BY <1>1, OkFinishes, Held
  <2>2. OnTheirWay' = OnTheirWay \ {CandidateOf(h)}
    BY <1>1, <2>1, WayOfAnEnd
  <2> QED BY <1>2, <2>2
<1>4. RowContract!ReturnOk(h)
  BY <1>1, <1>2, <1>3, SameWriter DEF RowContract!ReturnOk
<1> QED BY <1>4 DEF Step, RowContract!StoreNext

LEMMA StopImplements ==
    ASSUME PostgresIInv, NEW h \in Hub, PostgresStop(h) \/ PostgresOverflow(h) PROVE Step
<1>1. CASE PostgresStop(h)
  <2>1. OnTheirWay' \in {OnTheirWay, OnTheirWay \ {CandidateOf(h)}} /\ row' = row
    BY <1>1, StopFacts, WayOfAnEnd, Held DEF PostgresStop
  <2>2. RowContract!Stop(h)
    BY <1>1, <2>1, SameWriter DEF PostgresStop, RowContract!Stop
  <2> QED BY <2>2 DEF Step, RowContract!StoreNext
<1>2. CASE PostgresOverflow(h)
  <2>1. txn[h] = "None" /\ h \notin OpenCalls
    BY <1>2, Held DEF PostgresOverflow, OverflowRevision, CallOpen, OpenCalls
  <2>2. txn' = [txn EXCEPT ![h] = "None"] /\ row' = row /\ detached' = detached
    BY <1>2, <2>1, Held DEF PostgresOverflow, rowVars, Types
  <2>3. OnTheirWay' = OnTheirWay
    <3>1. \A k \in Hub \ {h} : hub'[k] = hub[k]
      BY <1>2, OverflowFacts, Held DEF PostgresOverflow
    <3>2. OnTheirWay' = OnTheirWay \ {CandidateOf(h)}
      BY <2>2, <3>1, WayOfAnEnd
    <3>3. CandidateOf(h) \notin OnTheirWay
      BY <2>1, PendingApart
    <3> QED BY <3>2, <3>3
  <2>4. RowContract!Overflow(h)
    BY <1>2, <2>2, <2>3, SameWriter DEF PostgresOverflow, RowContract!Overflow
  <2> QED BY <2>4 DEF Step, RowContract!StoreNext
<1> QED BY <1>1, <1>2

LEMMA InitImplements == PostgresInit => RowContract!StoreInit
<1> SUFFICES ASSUME PostgresInit PROVE RowContract!StoreInit
  OBVIOUS
<1>1. OnTheirWay = {}
  BY DEF PostgresInit, OnTheirWay, OpenCalls
<1> QED BY <1>1 DEF PostgresInit, WriterInit, RowContract!StoreInit, RowContract!WriterInit,
                    Down, RowContract!Down, LeaseOf, RowContract!LeaseOf, Empty,
                    RowContract!Empty

LEMMA StepsImplement ==
    ASSUME PostgresIInv, PostgresNext PROVE Step
BY AcquireImplements, CommitImplements, StatementsImplement, PublishImplements,
   DetachedImplements, ErrorsImplement, OkImplements, StopImplements DEF PostgresNext

\* The transactions of the PostgreSQL store implement the contract: whatever
\* times out, is lost or lands late, the row changes as the contract allows.
THEOREM PostgresImplements == PostgresSpec => PostgresImplementsContract
<1>1. PostgresIInv /\ [PostgresNext]_postgresVars =>
        [UNCHANGED RowContract!storeVars \/ RowContract!StoreNext]_postgresVars
  BY StepsImplement DEF Step
<1> QED BY InitImplements, PostgresHoldsRow, <1>1, PTL DEF PostgresSpec, PostgresImplementsContract

-----------------------------------------------------------------------------
(* What a Hub may rely on *)

RowProofs == INSTANCE HubStateStoreProofs WITH durable <- row, inflight <- OnTheirWay

\* So everything a Hub may rely on in the contract holds of the row.
THEOREM PostgresIsSafe == PostgresSpec => []RowContract!StoreSafe
<1>1. UNCHANGED postgresVars => UNCHANGED RowProofs!storeVars
  BY DEF postgresVars, RowProofs!storeVars, writerVars, RowProofs!writerVars,
         OnTheirWay, OpenCalls, CandidateOf, NoCandidate
<1>2. UNCHANGED RowContract!storeVars => UNCHANGED RowProofs!storeVars
  BY DEF RowContract!storeVars, RowProofs!storeVars, RowContract!writerVars, RowProofs!writerVars
<1>3. RowContract!StoreNext => RowProofs!StoreNext
  BY DEF RowContract!StoreNext, RowProofs!StoreNext, RowContract!CallAcquire,
         RowProofs!CallAcquire, RowContract!RetryAcquire, RowProofs!RetryAcquire,
         RowContract!CallCommit, RowProofs!CallCommit, RowContract!ReturnOk,
         RowProofs!ReturnOk, RowContract!ReturnUnavailable, RowProofs!ReturnUnavailable,
         RowContract!ReturnConflict, RowProofs!ReturnConflict, RowContract!ReturnUncertain,
         RowProofs!ReturnUncertain, RowContract!Overflow, RowProofs!Overflow,
         RowContract!Stop, RowProofs!Stop, RowContract!Publish, RowProofs!Publish,
         RowContract!Abandon, RowProofs!Abandon, RowContract!BeginAcquire,
         RowProofs!BeginAcquire, RowContract!BeginPersist, RowProofs!BeginPersist,
         RowContract!FinishOk, RowProofs!FinishOk, RowContract!FinishError,
         RowProofs!FinishError, RowContract!OverflowRevision, RowProofs!OverflowRevision,
         RowContract!StopHub, RowProofs!StopHub, RowContract!PersistChoices,
         RowProofs!PersistChoices, RowContract!CallTag, RowProofs!CallTag,
         RowContract!CandidateOf, RowProofs!CandidateOf, RowContract!Calling,
         RowProofs!Calling, RowContract!LeaseOf, RowProofs!LeaseOf,
         RowContract!AcquireRecord, RowProofs!AcquireRecord, RowContract!Empty,
         RowProofs!Empty, RowContract!Down, RowProofs!Down, RowContract!Gone,
         RowProofs!Gone, RowContract!writerVars, RowProofs!writerVars
<1>4. RowContract!StoreInit => RowProofs!StoreInit
  BY DEF RowContract!StoreInit, RowProofs!StoreInit, RowContract!WriterInit,
         RowProofs!WriterInit, RowContract!Down, RowProofs!Down, RowContract!Empty,
         RowProofs!Empty, RowContract!LeaseOf, RowProofs!LeaseOf
<1>5. RowProofs!StoreSafe => RowContract!StoreSafe
  BY DEF RowContract!StoreSafe, RowProofs!StoreSafe, RowContract!StoreTypeOK,
         RowProofs!StoreTypeOK, RowContract!AckedSurvive, RowProofs!AckedSurvive,
         RowContract!RefusedNeverAppears, RowProofs!RefusedNeverAppears,
         RowContract!LeaseIsCurrent, RowProofs!LeaseIsCurrent,
         RowContract!OneWriterPerEpoch, RowProofs!OneWriterPerEpoch,
         RowContract!WriterTypeOK, RowProofs!WriterTypeOK, RowContract!HubProcess,
         RowProofs!HubProcess, RowContract!Record, RowProofs!Record, RowContract!Lease,
         RowProofs!Lease, RowContract!Candidate, RowProofs!Candidate, RowContract!CallTag,
         RowProofs!CallTag, RowContract!Calling, RowProofs!Calling, RowContract!Empty,
         RowProofs!Empty
<1>6. PostgresImplementsContract => RowProofs!StoreSpec
  BY <1>1, <1>2, <1>3, <1>4, PTL DEF PostgresImplementsContract, RowProofs!StoreSpec
<1>7. RowProofs!StoreSpec => []RowProofs!StoreSafe
  BY RowProofs!StoreIsSafe, HubWriterConstants
<1> QED BY PostgresImplements, <1>5, <1>6, <1>7, PTL

-----------------------------------------------------------------------------
(* A recovery clears only what was reviewed, and what is reported durable  *)
(* is, for any number of tools, requests and records.                      *)

\* What the Hub keeps and what its challenges say, as records.
SubjectRecords == [phase : {"quarantine", "resume"}, op : Ops, qgen : Nat, accepted : Nat]
ChallengeRecords == [subject : SubjectRecords, gen : Nat, nonce : Nat]
HeldQuarantine == [op : Ops, gen : Nat]
HeldBarrier == [op : Ops, qgen : Nat, accepted : Nat]

ToolShape(t) == t = [st |-> t.st, ch |-> t.ch, guided |-> t.guided, seen |-> t.seen,
                     auth |-> t.auth]

ShapesOfRecovery ==
    /\ quarantine # None => quarantine \in HeldQuarantine
    /\ barrier # None => barrier \in HeldBarrier
    /\ gen \in Nat /\ nonces \in Nat /\ reqs \in Nat
    /\ files = [challenge |-> files.challenge, auth |-> files.auth, resolved |-> files.resolved]
    /\ cli = [c \in Clis |-> cli[c]] /\ \A c \in Clis : ToolShape(cli[c])

\* Among the requests signed so far a number is drawn once, and every request that
\* is kept, on its way, being handled or applied is one of them.
Numbered(S, n) == /\ \A a \in S : a.req \in 1..n
                  /\ \A a, b \in S : a.req = b.req => a = b
Signed(S) ==
    /\ Numbered(S, reqs)
    /\ \A c \in Clis : cli[c].st \in {"signed", "waiting"} => cli[c].auth \in S
    /\ files.auth # None => files.auth \in S
    /\ relayed # None => relayed \in S
    /\ toHub \in Seq(S) /\ handling \subseteq S
    /\ \A a \in handling : a.ch.gen \in Nat /\ a.ch.subject.phase \in {"quarantine", "resume"}
    /\ \A x \in applied : x.auth \in S

\* A receipt is sent, stored and repeated only for what the ledger has applied.
AppliedRequests == {x.auth : x \in applied}
ReceiptFrames == [k : {"challenge"}, ch : ChallengeRecords]
                    \cup [k : {"resolved"}, auth : AppliedRequests]
ReceiptsAreDurable ==
    /\ toAgent \in Seq(ReceiptFrames)
    /\ files.resolved # None => files.resolved \in AppliedRequests
    /\ lastResolved # None => lastResolved \in AppliedRequests
    /\ cliTold \subseteq AppliedRequests

RecoveryIInv ==
    /\ ShapesOfRecovery /\ (\E S : Signed(S)) /\ ReceiptsAreDurable /\ ClearsWhatWasReviewed

LEMMA RecoveryStarts == RecoveryInit => RecoveryIInv
  <1> SUFFICES ASSUME RecoveryInit PROVE RecoveryIInv
    OBVIOUS
  <1>1. Signed({})
    BY EmptySeq DEF RecoveryInit, Signed, Numbered, NoFiles, IdleCli
  <1>2. ShapesOfRecovery /\ ClearsWhatWasReviewed
    BY DEF RecoveryInit, ShapesOfRecovery, ToolShape, NoFiles, IdleCli,
           ClearsWhatWasReviewed
  <1>3. ReceiptsAreDurable
    BY EmptySeq DEF RecoveryInit, ReceiptsAreDurable, NoFiles
  <1> QED BY <1>1, <1>2, <1>3 DEF RecoveryIInv

\* Frames of a step that applies nothing stay frames.
LEMMA ReceiptFramesGrow ==
    ASSUME applied \subseteq applied', NEW s \in Seq(ReceiptFrames)
    PROVE  s \in Seq(ReceiptFrames')
  <1>1. ReceiptFrames \subseteq ReceiptFrames'
    <2>1. AppliedRequests \subseteq AppliedRequests'
      BY DEF AppliedRequests
    <2> QED BY <2>1 DEF ReceiptFrames
  <1> QED BY <1>1, SeqMonotonic

\* maybe_send_recovery_challenge adds at most a challenge.
LEMMA MaybeSendKeeps ==
    ASSUME RecoveryIInv, NEW q, NEW b, NEW g \in Nat, NEW channel \in Seq(ReceiptFrames),
           q # None => q \in HeldQuarantine, b # None => b \in HeldBarrier,
           MaybeSendChallenge(q, b, g, channel)
    PROVE  /\ toAgent' \in Seq(ReceiptFrames) /\ nonces' \in Nat
           /\ lastResolved' # None => lastResolved' = lastResolved
  <1>1. nonces \in Nat
    BY DEF RecoveryIInv, ShapesOfRecovery
  <1>2. CASE SendsChallenge(q, b, g)
    <2>1. Subject(q, b, g) \in SubjectRecords
      BY <1>2 DEF SendsChallenge, Subject, SubjectRecords, HeldQuarantine, HeldBarrier
    <2>2. NewChallenge(Subject(q, b, g), g, nonces + 1) \in ChallengeRecords
      BY <1>1, <2>1 DEF NewChallenge, ChallengeRecords
    <2>3. PICK f \in ReceiptFrames : toAgent' = Append(channel, f)
      <3>1. [k |-> "challenge", ch |-> pending'] \in ReceiptFrames
        BY <1>2, <2>2 DEF MaybeSendChallenge, ReceiptFrames
      <3> QED BY <1>2, <3>1 DEF MaybeSendChallenge
    <2>4. nonces' \in Nat /\ lastResolved' = None
      BY <1>1, <1>2 DEF MaybeSendChallenge
    <2> QED BY <2>3, <2>4, AppendProperties
  <1>3. CASE ~SendsChallenge(q, b, g)
    BY <1>1, <1>3 DEF MaybeSendChallenge
  <1> QED BY <1>2, <1>3

\* A step that signs and applies nothing only passes requests on.
PassesOn(S) ==
    /\ applied' = applied /\ reqs' = reqs
    /\ \A c \in Clis : cli'[c].st \in {"signed", "waiting"} => cli'[c].auth \in S
    /\ files'.auth # None => files'.auth \in S
    /\ relayed' # None => relayed' \in S
    /\ toHub' \in Seq(S) /\ handling' \subseteq S
    /\ \A a \in handling' : a.ch.gen \in Nat /\ a.ch.subject.phase \in {"quarantine", "resume"}

LEMMA PassesOnKeeps ==
    ASSUME RecoveryIInv, ShapesOfRecovery', NEW S, Signed(S), PassesOn(S),
           toAgent' \in Seq(ReceiptFrames),
           files'.resolved # None => files'.resolved \in AppliedRequests,
           lastResolved' # None => lastResolved' \in AppliedRequests,
           cliTold' \subseteq AppliedRequests
    PROVE  RecoveryIInv'
  <1>1. Signed(S)'
    BY DEF Signed, PassesOn, Numbered
  <1>2. AppliedRequests' = AppliedRequests /\ ReceiptFrames' = ReceiptFrames
    BY DEF AppliedRequests, ReceiptFrames, PassesOn
  <1>3. ReceiptsAreDurable'
    BY <1>2 DEF ReceiptsAreDurable
  <1>4. ClearsWhatWasReviewed'
    BY DEF RecoveryIInv, ClearsWhatWasReviewed, PassesOn
  <1> QED BY <1>1, <1>3, <1>4 DEF RecoveryIInv

\* What the Hub and the session keep when a frame is taken or a session ends.
LEMMA TakesOne ==
    ASSUME NEW T, NEW s \in Seq(T), s # << >>
    PROVE  Head(s) \in T /\ Tail(s) \in Seq(T)
  BY HeadTailProperties

\* The Hub's steps before an authorization takes effect, and those of the session.
LEMMA SessionStepsKeep ==
    ASSUME RecoveryIInv,
           \/ \E o \in Ops : Quarantined(o)
           \/ \E n \in 1..MaxNonce : Expires(n)
           \/ \E d \in Confirmations : EvidenceArrives(d)
           \/ Disconnect \/ Reconnect \/ AgentCrash \/ HubRestart \/ SeesEnd \/ HeartbeatChallenge
    PROVE  RecoveryIInv'
  <1>0. PICK S : Signed(S)
    BY DEF RecoveryIInv
  <1> USE <1>0
  <1>1. CASE \E o \in Ops : Quarantined(o)
    <2>1. PICK o \in Ops : Quarantined(o)
      BY <1>1
    <2>2. quarantine' \in HeldQuarantine /\ barrier = None
      BY <2>1 DEF Quarantined, HeldQuarantine, RecoveryIInv, ShapesOfRecovery
    <2>3. PICK q : q = quarantine'
      OBVIOUS
    <2>4. toAgent' \in Seq(ReceiptFrames) /\ nonces' \in Nat
          /\ (lastResolved' # None => lastResolved' = lastResolved)
      <3>1. MaybeSendChallenge(q, barrier, gen, toAgent)
        BY <2>1, <2>3 DEF Quarantined
      <3> QED BY <2>2, <2>3, <3>1, MaybeSendKeeps
                DEF RecoveryIInv, ShapesOfRecovery, ReceiptsAreDurable
    <2>5. UNCHANGED <<barrier, applied, handling, gen, toHub, files, relayed, cli, cliTold, reqs>>
      BY <2>1 DEF Quarantined, agentVars, cliVars
    <2>6. ShapesOfRecovery'
      BY <2>2, <2>4, <2>5 DEF RecoveryIInv, ShapesOfRecovery
    <2>7. PassesOn(S)
      BY <2>5 DEF PassesOn, Signed
    <2> QED BY <2>4, <2>5, <2>6, <2>7, PassesOnKeeps DEF RecoveryIInv, ReceiptsAreDurable
  <1>2. CASE HeartbeatChallenge
    <2>1. toAgent' \in Seq(ReceiptFrames) /\ nonces' \in Nat
          /\ (lastResolved' # None => lastResolved' = lastResolved)
      BY <1>2, MaybeSendKeeps
         DEF HeartbeatChallenge, RecoveryIInv, ShapesOfRecovery, ReceiptsAreDurable
    <2>2. UNCHANGED <<quarantine, barrier, applied, handling, gen, toHub, files, relayed, cli,
                      cliTold, reqs>>
      BY <1>2 DEF HeartbeatChallenge, agentVars, cliVars
    <2>3. ShapesOfRecovery' /\ PassesOn(S)
      BY <2>1, <2>2 DEF RecoveryIInv, ShapesOfRecovery, PassesOn, Signed
    <2> QED BY <2>1, <2>2, <2>3, PassesOnKeeps DEF RecoveryIInv, ReceiptsAreDurable
  <1>3. CASE Reconnect
    <2>1. << >> \in Seq(ReceiptFrames) /\ << >> \in Seq(S)
      BY EmptySeq
    <2>2. gen + 1 \in Nat
      BY DEF RecoveryIInv, ShapesOfRecovery
    <2>3. toAgent' \in Seq(ReceiptFrames) /\ nonces' \in Nat
          /\ (lastResolved' # None => lastResolved' = lastResolved)
      BY <1>3, <2>1, <2>2, MaybeSendKeeps DEF Reconnect, RecoveryIInv, ShapesOfRecovery
    <2>4. /\ UNCHANGED <<quarantine, barrier, applied, handling, cli, cliTold, reqs>>
          /\ files' = [files EXCEPT !.challenge = None, !.auth = None]
          /\ relayed' = None /\ toHub' = << >> /\ gen' = gen + 1
      BY <1>3 DEF Reconnect, cliVars
    <2>5. ShapesOfRecovery'
      BY <2>2, <2>3, <2>4 DEF RecoveryIInv, ShapesOfRecovery
    <2>6. files'.auth = None /\ files'.resolved = files.resolved
      BY <2>4 DEF RecoveryIInv, ShapesOfRecovery
    <2>7. PassesOn(S)
      BY <2>1, <2>4, <2>6 DEF PassesOn, Signed
    <2> QED BY <2>3, <2>4, <2>5, <2>6, <2>7, PassesOnKeeps DEF RecoveryIInv, ReceiptsAreDurable
  <1>4. CASE Disconnect \/ AgentCrash \/ HubRestart \/ SeesEnd
    <2>1. /\ UNCHANGED <<quarantine, barrier, applied, gen, nonces, files, cli, cliTold, reqs>>
          /\ toHub' = << >> /\ toAgent' = << >> /\ relayed' \in {relayed, None}
          /\ handling' \subseteq handling /\ lastResolved' \in {lastResolved, None}
      BY <1>4 DEF Disconnect, AgentCrash, HubRestart, SeesEnd, SessionEnds, recoveryHubVars,
                  agentVars, cliVars
    <2>2. ShapesOfRecovery'
      BY <2>1 DEF RecoveryIInv, ShapesOfRecovery
    <2>3. PassesOn(S) /\ toAgent' \in Seq(ReceiptFrames)
      BY <2>1, EmptySeq DEF PassesOn, Signed
    <2> QED BY <2>1, <2>2, <2>3, PassesOnKeeps DEF RecoveryIInv, ReceiptsAreDurable
  <1>5. CASE (\E n \in 1..MaxNonce : Expires(n)) \/ \E d \in Confirmations : EvidenceArrives(d)
    <2>1. UNCHANGED <<recoveryHubVars, netVars, files, relayed, cliVars, nonces>>
      BY <1>5 DEF Expires, EvidenceArrives, agentVars
    <2>2. ShapesOfRecovery' /\ PassesOn(S)
      BY <2>1 DEF RecoveryIInv, ShapesOfRecovery, PassesOn, Signed, recoveryHubVars, netVars,
                  cliVars
    <2> QED BY <2>1, <2>2, PassesOnKeeps
            DEF RecoveryIInv, ReceiptsAreDurable, recoveryHubVars, netVars, cliVars
  <1> QED BY <1>1, <1>2, <1>3, <1>4, <1>5

\* The Agent takes frames, polls, stores and clears files; a receipt it stores is
\* one the Hub sent for the request it relayed.
LEMMA AgentStepsKeep ==
    ASSUME RecoveryIInv,
           \/ AgentTakesChallenge \/ AgentStoresChallenge \/ AgentPolls \/ AgentTakesReceipt
           \/ AgentClears
    PROVE  RecoveryIInv'
  <1>0. PICK S : Signed(S)
    BY DEF RecoveryIInv
  <1> USE <1>0
  <1>1. UNCHANGED <<quarantine, barrier, applied, lastResolved, handling, gen, nonces, cli,
                    cliTold, reqs>>
    BY DEF AgentTakesChallenge, AgentStoresChallenge, AgentPolls, AgentTakesReceipt,
           AgentClears, recoveryHubVars, netVars, cliVars
  <1>2. /\ files = [challenge |-> files.challenge, auth |-> files.auth,
                    resolved |-> files.resolved]
        /\ toAgent \in Seq(ReceiptFrames) /\ toHub \in Seq(S)
    BY DEF RecoveryIInv, ShapesOfRecovery, ReceiptsAreDurable, Signed
  <1>3. /\ files' = [challenge |-> files'.challenge, auth |-> files'.auth,
                     resolved |-> files'.resolved]
        /\ files'.auth \in {files.auth, None}
        /\ files'.resolved \in {files.resolved, None}
              \/ (AgentTakesReceipt /\ relayed = Head(toAgent).auth /\ files'.resolved = relayed)
    BY <1>2 DEF AgentTakesChallenge, AgentStoresChallenge, AgentPolls, AgentTakesReceipt,
                AgentClears
  <1>4. toAgent' \in Seq(ReceiptFrames)
    <2>1. \/ toAgent' = toAgent \/ toAgent' = << >>
          \/ toAgent # << >> /\ toAgent' = Tail(toAgent)
      BY DEF AgentTakesChallenge, AgentStoresChallenge, AgentPolls, AgentTakesReceipt,
             AgentClears, AgentReads, SessionEnds, netVars
    <2> QED BY <1>2, <2>1, TakesOne, EmptySeq
  <1>5. toHub' \in Seq(S) /\ (relayed' # None => relayed' \in S)
    <2>1. \/ toHub' \in {toHub, << >>} /\ relayed' \in {relayed, None}
          \/ /\ files.auth # None /\ relayed' = files.auth
             /\ toHub' \in {toHub, Append(toHub, files.auth)}
      BY DEF AgentTakesChallenge, AgentStoresChallenge, AgentPolls, AgentTakesReceipt,
             AgentClears, SessionEnds, netVars
    <2>2. files.auth # None => Append(toHub, files.auth) \in Seq(S)
      BY <1>2, AppendProperties DEF Signed
    <2> QED BY <1>2, <2>1, <2>2, EmptySeq DEF Signed
  <1>6. files'.resolved # None => files'.resolved \in AppliedRequests
    <2>1. CASE AgentTakesReceipt /\ relayed = Head(toAgent).auth /\ files'.resolved = relayed
      <3>1. Head(toAgent) \in ReceiptFrames /\ Head(toAgent).k = "resolved"
        BY <1>2, <2>1, TakesOne DEF AgentTakesReceipt, AgentReads
      <3>2. Head(toAgent).auth \in AppliedRequests
        BY <3>1 DEF ReceiptFrames
      <3> QED BY <2>1, <3>2
    <2> QED BY <1>3, <2>1 DEF RecoveryIInv, ReceiptsAreDurable
  <1>7. ShapesOfRecovery'
    BY <1>1, <1>3 DEF RecoveryIInv, ShapesOfRecovery
  <1>8. PassesOn(S)
    BY <1>1, <1>3, <1>5 DEF PassesOn, Signed
  <1> QED BY <1>1, <1>4, <1>6, <1>7, <1>8, PassesOnKeeps DEF RecoveryIInv, ReceiptsAreDurable

\* A request is answered again, taken up or refused.
LEMMA HubChecksKeeps ==
    ASSUME RecoveryIInv, HubChecks
    PROVE  RecoveryIInv'
  <1>0. PICK S : Signed(S)
    BY DEF RecoveryIInv
  <1> USE <1>0
  <1>1. UNCHANGED <<quarantine, barrier, applied, lastResolved, gen, nonces, files, relayed, cli,
                    cliTold, reqs>>
    BY DEF HubChecks, agentVars, cliVars
  <1>2. toAgent \in Seq(ReceiptFrames) /\ toHub \in Seq(S) /\ toHub # << >>
    BY DEF RecoveryIInv, ReceiptsAreDurable, Signed, HubChecks
  <1>3. PICK a \in S : a = Head(toHub)
    BY <1>2, TakesOne
  <1>4. Tail(toHub) \in Seq(S) /\ << >> \in Seq(S) /\ << >> \in Seq(ReceiptFrames)
    BY <1>2, TakesOne, EmptySeq
  <1>5. \/ /\ lastResolved # None /\ lastResolved = a
           /\ toAgent' = Append(toAgent, [k |-> "resolved", auth |-> a])
           /\ toHub' = Tail(toHub) /\ handling' = handling
        \/ /\ a.ch.gen = gen /\ a.ch.subject.phase \in {"quarantine", "resume"}
           /\ handling' = handling \cup {a}
           /\ toHub' = Tail(toHub) /\ toAgent' = toAgent
        \/ /\ toHub' = << >> /\ toAgent' = << >> /\ handling' = handling
    BY <1>3 DEF HubChecks, SessionEnds, ValidDecision
  <1>6. lastResolved # None /\ lastResolved = a =>
          Append(toAgent, [k |-> "resolved", auth |-> a]) \in Seq(ReceiptFrames)
    <2> SUFFICES ASSUME lastResolved # None, lastResolved = a
                 PROVE  Append(toAgent, [k |-> "resolved", auth |-> a]) \in Seq(ReceiptFrames)
      OBVIOUS
    <2>1. [k |-> "resolved", auth |-> a] \in ReceiptFrames
      BY DEF ReceiptFrames, RecoveryIInv, ReceiptsAreDurable
    <2> QED BY <1>2, <2>1, AppendProperties
  <1>7. toAgent' \in Seq(ReceiptFrames)
    BY <1>2, <1>4, <1>5, <1>6
  <1>8. PassesOn(S) /\ ShapesOfRecovery'
    BY <1>1, <1>4, <1>5 DEF PassesOn, Signed, RecoveryIInv, ShapesOfRecovery
  <1> QED BY <1>1, <1>7, <1>8, PassesOnKeeps DEF RecoveryIInv, ReceiptsAreDurable

\* The transition and its receipt: the ledger holds what the challenge was about,
\* and what is acknowledged is applied in the same step.
LEMMA HubAppliesKeeps ==
    ASSUME RecoveryIInv, NEW a \in handling, HubApplies(a)
    PROVE  RecoveryIInv'
  <1>0. PICK S : Signed(S)
    BY DEF RecoveryIInv
  <1> USE <1>0
  <1>1. /\ UNCHANGED <<gen, nonces, files, relayed, cli, cliTold, reqs>>
        /\ handling' = handling \ {a} /\ a \in S /\ a.ch.gen \in Nat
    BY DEF HubApplies, agentVars, cliVars, Signed
  <1>2. toAgent \in Seq(ReceiptFrames) /\ toHub \in Seq(S)
        /\ << >> \in Seq(S) /\ << >> \in Seq(ReceiptFrames)
    BY EmptySeq DEF RecoveryIInv, ReceiptsAreDurable, Signed
  <1>3. CASE UNCHANGED <<quarantine, barrier, applied, pending, lastResolved>>
             /\ (SessionEnds \/ UNCHANGED <<up, toAgent, toHub>>)
    <2>1. toAgent' \in Seq(ReceiptFrames) /\ toHub' \in Seq(S)
      BY <1>2, <1>3 DEF SessionEnds
    <2>2. PassesOn(S) /\ ShapesOfRecovery'
      BY <1>1, <1>3, <2>1 DEF PassesOn, Signed, RecoveryIInv, ShapesOfRecovery
    <2> QED BY <1>1, <1>3, <2>1, <2>2, PassesOnKeeps DEF RecoveryIInv, ReceiptsAreDurable
  <1>4. CASE /\ EffectStands(a)
             /\ quarantine' = LedgerAfter(a).q /\ barrier' = LedgerAfter(a).b
             /\ applied' = applied \cup {[auth |-> a, q |-> quarantine, b |-> barrier]}
             /\ lastResolved' = a /\ Acknowledges(a)
    <2>0. PICK x : /\ x = [auth |-> a, q |-> quarantine, b |-> barrier]
                   /\ x.auth = a /\ x.q = quarantine /\ x.b = barrier
                   /\ applied' = applied \cup {x}
      BY <1>4
    <2>1. /\ a \in AppliedRequests' /\ AppliedRequests \subseteq AppliedRequests'
          /\ \A y \in applied' : y.auth \in S
      <3>1. AppliedRequests' = AppliedRequests \cup {a}
        BY <2>0 DEF AppliedRequests
      <3> QED BY <1>1, <2>0, <3>1 DEF Signed
    <2>2. toAgent' \in Seq(ReceiptFrames') /\ toHub' = toHub
      <3>1. toAgent \in Seq(ReceiptFrames')
        BY <1>2, <1>4, ReceiptFramesGrow
      <3>2. [k |-> "resolved", auth |-> a] \in ReceiptFrames'
        BY <2>1 DEF ReceiptFrames
      <3>3. Append(toAgent, [k |-> "resolved", auth |-> a]) \in Seq(ReceiptFrames')
        BY <3>1, <3>2, AppendProperties
      <3> QED BY <1>4, <3>1, <3>3 DEF Acknowledges
    <2>3. ShapesOfRecovery'
      <3>1. a.ch.subject.phase # "resume" => quarantine # None
        BY <1>4 DEF EffectStands, Signed
      <3>2. /\ quarantine' # None => quarantine' = quarantine
            /\ \/ barrier' \in {None, barrier}
               \/ /\ quarantine # None
                  /\ barrier' = [op |-> quarantine.op, qgen |-> quarantine.gen,
                                 accepted |-> a.ch.gen]
        <4>1. CASE a.ch.subject.phase = "resume"
          BY <1>4, <4>1 DEF LedgerAfter
        <4>2. CASE a.ch.subject.phase # "resume"
          BY <1>4, <3>1, <4>2 DEF LedgerAfter
        <4> QED BY <4>1, <4>2
      <3> QED BY <1>1, <3>2 DEF RecoveryIInv, ShapesOfRecovery, HeldQuarantine, HeldBarrier
    <2>4. Signed(S)'
      BY <1>1, <2>1, <2>2 DEF Signed, Numbered
    <2>5. ReceiptsAreDurable'
      BY <1>1, <1>4, <2>1, <2>2 DEF RecoveryIInv, ReceiptsAreDurable
    <2>6. ClearsWhatWasReviewed'
      <3> PICK s : s = a.ch.subject
        OBVIOUS
      <3>1. CASE s.phase = "quarantine"
        <4>1. x.q = [op |-> s.op, gen |-> s.qgen]
          BY <1>4, <2>0, <3>1 DEF EffectStands, RecoveryIInv, ShapesOfRecovery, HeldQuarantine
        <4> QED BY <2>0, <3>1, <4>1 DEF ClearsWhatWasReviewed, RecoveryIInv
      <3>2. CASE s.phase # "quarantine"
        <4>1. x.b = [op |-> s.op, qgen |-> s.qgen, accepted |-> s.accepted]
          BY <1>4, <2>0, <3>2 DEF EffectStands, RecoveryIInv, ShapesOfRecovery, HeldBarrier
        <4> QED BY <2>0, <3>2, <4>1 DEF ClearsWhatWasReviewed, RecoveryIInv
      <3> QED BY <3>1, <3>2
    <2> QED BY <2>3, <2>4, <2>5, <2>6 DEF RecoveryIInv
  <1> QED BY <1>3, <1>4 DEF HubApplies

\* A tool that has just reviewed a challenge.
LEMMA ReviewedTool ==
    ASSUME NEW h, NEW g, NEW e, NEW new,
           new = [IdleCli EXCEPT !.st = "reviewed", !.ch = h, !.guided = g, !.seen = e]
    PROVE  ToolShape(new) /\ new.st = "reviewed"
  <1>1. ToolShape(IdleCli)
    BY DEF IdleCli, ToolShape
  <1>2. PICK t1 : t1 = [IdleCli EXCEPT !.st = "reviewed"]
    OBVIOUS
  <1>3. PICK t2 : t2 = [t1 EXCEPT !.ch = h]
    OBVIOUS
  <1>4. PICK t3 : t3 = [t2 EXCEPT !.guided = g]
    OBVIOUS
  <1>5. ToolShape(t1) /\ t1.st = "reviewed"
    BY <1>1, <1>2 DEF ToolShape
  <1>6. ToolShape(t2) /\ t2.st = "reviewed"
    BY <1>3, <1>5 DEF ToolShape
  <1>7. ToolShape(t3) /\ t3.st = "reviewed"
    BY <1>4, <1>6 DEF ToolShape
  <1>8. new = [t3 EXCEPT !.seen = e]
    BY <1>1, <1>2, <1>3, <1>4 DEF ToolShape
  <1> QED BY <1>7, <1>8 DEF ToolShape

\* The tool reviews, gives up, publishes and reports; it calls a request durable
\* only on a receipt with its number, which no other request has.
LEMMA ToolStepsKeep ==
    ASSUME RecoveryIInv, NEW c \in Clis,
           (\E g \in BOOLEAN : Review(c, g)) \/ ReviewEnds(c) \/ Publish(c) \/ Confirm(c)
    PROVE  RecoveryIInv'
  <1>0. PICK S : Signed(S)
    BY DEF RecoveryIInv
  <1> USE <1>0
  <1>1. /\ UNCHANGED <<quarantine, barrier, applied, lastResolved, handling, gen, nonces, toAgent,
                       toHub, relayed, reqs>>
    BY DEF Review, ReviewEnds, Publish, Confirm, recoveryHubVars, netVars, agentVars
  <1>2. /\ files = [challenge |-> files.challenge, auth |-> files.auth,
                    resolved |-> files.resolved]
        /\ cli = [d \in Clis |-> cli[d]] /\ \A d \in Clis : ToolShape(cli[d])
    BY DEF RecoveryIInv, ShapesOfRecovery
  <1>3. PICK new : /\ cli' = [cli EXCEPT ![c] = new]
                   /\ ToolShape(new)
                   /\ new.st \in {"signed", "waiting"} =>
                         cli[c].st = "signed" /\ new.auth = cli[c].auth
    <2> DEFINE Fits(new) ==
                 /\ ToolShape(new)
                 /\ new.st \in {"signed", "waiting"} =>
                       cli[c].st = "signed" /\ new.auth = cli[c].auth
    <2>1. Fits(IdleCli)
      BY DEF IdleCli, ToolShape
    <2>2. CASE (\E g \in BOOLEAN : Review(c, g)) \/ ReviewEnds(c) \/ Confirm(c)
      <3>1. ASSUME NEW g \in BOOLEAN, Review(c, g)
            PROVE  \E new : cli' = [cli EXCEPT ![c] = new] /\ Fits(new)
        <4>1. PICK seen : seen = IF g THEN evidence ELSE {}
          OBVIOUS
        <4>2. PICK new : new = [IdleCli EXCEPT !.st = "reviewed", !.ch = files.challenge,
                                               !.guided = g, !.seen = seen]
          OBVIOUS
        <4>4. cli' = [cli EXCEPT ![c] = new]
          BY <3>1, <4>1, <4>2 DEF Review
        <4>5. Fits(new)
          BY <4>2, ReviewedTool
        <4> HIDE DEF Fits
        <4> QED BY <4>4, <4>5
      <3>2. ASSUME ReviewEnds(c) \/ Confirm(c)
            PROVE  \E new : cli' = [cli EXCEPT ![c] = new] /\ Fits(new)
        <4>1. cli' = [cli EXCEPT ![c] = IdleCli]
          BY <3>2 DEF ReviewEnds, Confirm
        <4> HIDE DEF Fits
        <4> QED BY <2>1, <4>1
      <3> QED BY <2>2, <3>1, <3>2
    <2>3. CASE Publish(c)
      <3>1. Fits([cli[c] EXCEPT !.st = "waiting"])
        BY <1>2, <2>3 DEF Publish, ToolShape
      <3>2. \/ cli' = [cli EXCEPT ![c] = IdleCli]
            \/ cli' = [cli EXCEPT ![c] = [cli[c] EXCEPT !.st = "waiting"]]
        BY <2>3 DEF Publish, StoreAuthorization
      <3> HIDE DEF Fits
      <3>3. \E new : cli' = [cli EXCEPT ![c] = new] /\ Fits(new)
        BY <2>1, <3>1, <3>2
      <3> QED BY <3>3 DEF Fits
    <2> QED BY <2>2, <2>3
  <1>4. /\ files' = [challenge |-> files'.challenge, auth |-> files'.auth,
                     resolved |-> files'.resolved]
        /\ files'.auth = files.auth \/ (cli[c].st = "signed" /\ files'.auth = cli[c].auth)
        /\ files'.resolved = files.resolved
    BY <1>2 DEF Review, ReviewEnds, Publish, Confirm, StoreAuthorization, agentVars
  <1>5. cliTold' \subseteq AppliedRequests
    <2>1. CASE Confirm(c) /\ cliTold' # cliTold
      <3>1. /\ cli[c].st = "waiting" /\ cliTold' = cliTold \cup {cli[c].auth}
            /\ files.resolved # None /\ files.resolved.req = cli[c].auth.req
        BY <2>1 DEF Confirm, ReceiptMatches
      <3>2. files.resolved \in AppliedRequests /\ files.resolved \in S /\ cli[c].auth \in S
        BY <3>1 DEF RecoveryIInv, ReceiptsAreDurable, AppliedRequests, Signed
      <3>3. files.resolved = cli[c].auth
        BY <3>1, <3>2 DEF Signed, Numbered
      <3> QED BY <3>1, <3>2, <3>3 DEF RecoveryIInv, ReceiptsAreDurable
    <2>2. CASE cliTold' = cliTold
      BY <2>2 DEF RecoveryIInv, ReceiptsAreDurable
    <2> QED BY <2>1, <2>2 DEF Review, ReviewEnds, Publish
  <1>6. ShapesOfRecovery'
    BY <1>1, <1>2, <1>3, <1>4 DEF RecoveryIInv, ShapesOfRecovery
  <1>7. \A d \in Clis : cli'[d].st \in {"signed", "waiting"} => cli'[d].auth \in S
    BY <1>2, <1>3 DEF Signed
  <1>8. PassesOn(S)
    BY <1>1, <1>4, <1>7 DEF PassesOn, Signed
  <1> QED BY <1>1, <1>4, <1>5, <1>6, <1>8, PassesOnKeeps DEF RecoveryIInv, ReceiptsAreDurable

\* A signature draws a new number.
LEMMA SignKeeps ==
    ASSUME RecoveryIInv, NEW c \in Clis, NEW d, NEW p, SignAuthorization(c, d, p)
    PROVE  RecoveryIInv'
  <1>0. PICK S : Signed(S)
    BY DEF RecoveryIInv
  <1> USE <1>0
  <1>1. PICK a : a = NewAuthorization(cli[c].ch, d, p, reqs + 1)
    OBVIOUS
  <1>2. /\ UNCHANGED <<quarantine, barrier, applied, lastResolved, handling, gen, nonces, toAgent,
                       toHub, relayed, files, cliTold>>
        /\ reqs' = reqs + 1 /\ reqs \in Nat /\ a.req = reqs + 1
        /\ cli' = [cli EXCEPT ![c].st = "signed", ![c].auth = a]
    BY <1>1 DEF SignAuthorization, NewAuthorization, recoveryHubVars, netVars, agentVars,
                RecoveryIInv, ShapesOfRecovery
  <1>3. cli = [e \in Clis |-> cli[e]] /\ \A e \in Clis : ToolShape(cli[e])
    BY DEF RecoveryIInv, ShapesOfRecovery
  <1>4. ShapesOfRecovery'
    <2>1. PICK new : new = [cli[c] EXCEPT !.st = "signed", !.auth = a]
      OBVIOUS
    <2>2. ToolShape(new)
      BY <1>3, <2>1 DEF ToolShape
    <2>3. cli' = [cli EXCEPT ![c] = new]
      BY <1>2, <1>3, <2>1
    <2>4. cli' = [e \in Clis |-> cli'[e]] /\ \A e \in Clis : ToolShape(cli'[e])
      BY <1>3, <2>2, <2>3
    <2> QED BY <1>2, <2>4 DEF RecoveryIInv, ShapesOfRecovery, ToolShape
  <1>5. Numbered(S \cup {a}, reqs')
    BY <1>2 DEF Signed, Numbered
  <1>6. toHub' \in Seq(S \cup {a})
    BY <1>2, SeqMonotonic DEF Signed
  <1>7. \A e \in Clis : cli'[e].st \in {"signed", "waiting"} => cli'[e].auth \in S \cup {a}
    BY <1>2, <1>3 DEF Signed
  <1>8. Signed(S \cup {a})'
    BY <1>2, <1>5, <1>6, <1>7 DEF Signed
  <1>9. ReceiptsAreDurable' /\ ClearsWhatWasReviewed'
    BY <1>2 DEF RecoveryIInv, ReceiptsAreDurable, ReceiptFrames, AppliedRequests,
                ClearsWhatWasReviewed
  <1> QED BY <1>4, <1>8, <1>9 DEF RecoveryIInv

LEMMA RecoveryInvariant == RecoverySpec => []RecoveryIInv
  <1>1. RecoveryIInv /\ [RecoveryNext]_recoveryVars => RecoveryIInv'
    <2> SUFFICES ASSUME RecoveryIInv, [RecoveryNext]_recoveryVars PROVE RecoveryIInv'
      OBVIOUS
    <2>1. CASE UNCHANGED recoveryVars
      <3>1. UNCHANGED <<quarantine, barrier, applied, lastResolved, handling, gen, nonces,
                        toAgent, toHub, relayed, files, cli, cliTold, reqs>>
        BY <2>1 DEF recoveryVars, recoveryHubVars, netVars, agentVars, cliVars
      <3>2. PICK S : Signed(S)
        BY DEF RecoveryIInv
      <3>3. Signed(S)'
        BY <3>1, <3>2 DEF Signed, Numbered
      <3> QED BY <3>1, <3>3 DEF RecoveryIInv, ShapesOfRecovery, ReceiptsAreDurable,
                                ReceiptFrames, AppliedRequests, ClearsWhatWasReviewed
    <2>2. CASE HubStep \/ AgentStep
      BY <2>2, SessionStepsKeep, HubChecksKeeps, HubAppliesKeeps, AgentStepsKeep
         DEF HubStep, AgentStep
    <2>3. ASSUME NEW c \in Clis,
                 \/ \E d \in Decisions, p \in Policies : Guide(c, d, p)
                 \/ \E d \in Confirmations : Resolve(c, d)
                 \/ \E p \in Policies : AcceptCurrentState(c, p)
                 \/ ResumeMutations(c)
          PROVE  RecoveryIInv'
      <3>1. PICK d, p : SignAuthorization(c, d, p)
        BY <2>3 DEF Guide, Resolve, AcceptCurrentState, ResumeMutations
      <3> QED BY <3>1, SignKeeps
    <2> QED BY <2>1, <2>2, <2>3, SessionStepsKeep, ToolStepsKeep DEF RecoveryNext
  <1> QED BY <1>1, RecoveryStarts, PTL DEF RecoverySpec

\* What an authorization cleared is what its signer was shown, and what a tool
\* reports durable is in the Hub's ledger, for any operations, tools, sessions,
\* challenges and requests.
THEOREM RecoveryIsSafe == RecoverySpec => []RecoverySafe
  <1>1. RecoveryIInv => RecoverySafe
    BY DEF RecoveryIInv, ReceiptsAreDurable, AppliedRequests, RecoverySafe, ToldIsDurable
  <1> QED BY <1>1, RecoveryInvariant, PTL

=============================================================================
