---- MODULE HubReferences ----
(***************************************************************************)
(* The refs with which clients reach what runs or lies on a device after   *)
(* the call that made it is over: refs of managed jobs (and of sandboxed   *)
(* test jobs, kept in a registry of their own with the same code) and refs *)
(* of retained process output.  A call is its operation id; the job or the *)
(* output it makes on the device, and the public ref, carry its name.  A   *)
(* generation stands for the session's generation and capability revision. *)
(***************************************************************************)
EXTENDS Naturals, FiniteSets

CONSTANTS Clients, Starts, Runs, Uses,   \* operation ids of the three kinds
          Tests,                         \* the starts of sandboxed tests
          MaxGen, RefsPerOwner, NoWork

VARIABLES link,      \* the live session: its generation, and whether it is up
          start,     \* a job start or a process run: where it stands
          jobRefs,   \* HubManagedJobRefRegistry
          outRefs,   \* HubEphemeralRefRegistry
          onDevice,  \* jobs and outputs the Agent holds, with their generation
          use,       \* a later call that names a ref
          quarantine \* the operation the device is in quarantine for

refVars == <<link, start, jobRefs, outRefs, onDevice, use, quarantine>>

ASSUME RefConstants == {MaxGen, RefsPerOwner} \subseteq Nat /\ NoWork \notin Starts \cup Runs
                       /\ Tests \subseteq Starts /\ Starts \cap Runs = {}

Makers == Starts \cup Runs
Rest == [phase |-> "idle"]

RefsInit ==
    /\ link = [gen |-> 0, up |-> FALSE] /\ start = [o \in Makers |-> Rest]
    /\ jobRefs = {} /\ outRefs = {} /\ onDevice = {} /\ quarantine = NoWork
    /\ use = [u \in Uses |-> Rest]

-----------------------------------------------------------------------------
(* Starting a job: the ref is reserved before the command is dispatched.   *)

\* Jobs and tests have a registry each.
RegistryOf(o) == {r \in jobRefs : (r.name \in Tests) = (o \in Tests)}

OwnerHasRoom(among, who) == Cardinality({r \in among : r.owner = who}) < RefsPerOwner

\* reserve: an entry without a locator.
Reserve(o, who) ==
    /\ link.up /\ start[o].phase = "idle" /\ OwnerHasRoom(RegistryOf(o), who)
    /\ jobRefs' = jobRefs \cup {[name |-> o, owner |-> who, gen |-> link.gen, locator |-> NoWork]}
    /\ start' = [start EXCEPT ![o] = [phase |-> "reserved", who |-> who, gen |-> link.gen]]
    /\ UNCHANGED <<link, outRefs, onDevice, use, quarantine>>

ReserveJob(o, who) == o \in Starts \ Tests /\ Reserve(o, who)
ReserveTest(o, who) == o \in Tests /\ Reserve(o, who)

\* release_unbound: only the owner's own entry, and only while unbound.
Released(o) == {r \in jobRefs : ~(r.name = o /\ r.gen = start[o].gen /\ r.locator = NoWork)}

\* start_command..._for_session: refused unless the session is still the one
\* the ref was reserved in.
DispatchStart(o) ==
    /\ start[o].phase = "reserved"
    /\ IF link.up /\ link.gen = start[o].gen
       THEN start' = [start EXCEPT ![o].phase = "sent"] /\ UNCHANGED jobRefs
       ELSE start' = [start EXCEPT ![o].phase = "over"] /\ jobRefs' = Released(o)
    /\ UNCHANGED <<link, outRefs, onDevice, use, quarantine>>

\* A process run needs no ref to start.
DispatchRun(o, who) ==
    /\ link.up /\ o \in Runs /\ start[o].phase = "idle"
    /\ start' = [start EXCEPT ![o] = [phase |-> "sent", who |-> who, gen |-> link.gen]]
    /\ UNCHANGED <<link, jobRefs, outRefs, onDevice, use, quarantine>>

\* The Agent starts the job, or runs the process and spools its output
\* (AgentEphemeralDataStore::stage) under the session's binding.
Made(o) ==
    /\ start[o].phase \in {"sent", "abandoned"} /\ link.up /\ link.gen = start[o].gen
    /\ onDevice' = onDevice \cup {[name |-> o, gen |-> link.gen]}
    /\ start' = [start EXCEPT ![o].phase = IF @ = "sent" THEN "made" ELSE "dropped"]
    /\ UNCHANGED <<link, jobRefs, outRefs, use, quarantine>>

\* bind: the reservation must still be there, still unbound and of this call.
\* The Hub's check of result types comes first and passes no job result yet
\* (CommandResults), so every start fails below; the binding is kept as written.
RefBound(o) == {r \in jobRefs : r.name = o /\ r.owner = start[o].who /\ r.gen = start[o].gen
                                   /\ r.locator = NoWork}
BindStart(o) ==
    /\ o \in Starts /\ start[o].phase = "made"
    /\ jobRefs' = (jobRefs \ RefBound(o)) \cup {[r EXCEPT !.locator = o] : r \in RefBound(o)}
    /\ start' = [start EXCEPT ![o].phase = "over"]
    /\ UNCHANGED <<link, outRefs, onDevice, use, quarantine>>

\* An error answer, a lost session or a result of the wrong kind.
StartFails(o) ==
    /\ o \in Starts /\ start[o].phase \in {"sent", "made"}
    /\ jobRefs' = Released(o)
    /\ start' = [start EXCEPT ![o].phase = "over"]
    /\ UNCHANGED <<link, outRefs, onDevice, use, quarantine>>

\* The client goes away while the call waits: nobody binds or releases what
\* was reserved, and the command runs all the same.
CallerGone(o) ==
    /\ start[o].phase \in {"sent", "made"}
    /\ start' = [start EXCEPT ![o].phase = IF @ = "sent" THEN "abandoned" ELSE "dropped"]
    /\ UNCHANGED <<link, jobRefs, outRefs, onDevice, use, quarantine>>

\* publicize_process_output_refs: over its limit the client gets the inline
\* output only.
PublishOutput(o) ==
    /\ o \in Runs /\ start[o].phase = "made"
    /\ outRefs' = IF OwnerHasRoom(outRefs, start[o].who)
                  THEN outRefs \cup {[name |-> o, owner |-> start[o].who,
                                      gen |-> start[o].gen, locator |-> o]}
                  ELSE outRefs
    /\ start' = [start EXCEPT ![o].phase = "over"]
    /\ UNCHANGED <<link, jobRefs, onDevice, use, quarantine>>

-----------------------------------------------------------------------------
(* Using a ref.                                                            *)

\* resolve_owned of either registry, in the session that is live now.
Resolved(among, who, name) ==
    {r \in among : r.name = name /\ r.owner = who /\ r.gen = link.gen /\ r.locator # NoWork}

\* managed_job_session_fence and resolve_managed_job_ref.
UseRef(u, who, name) ==
    /\ link.up /\ use[u].phase = "idle"
    /\ \E r \in Resolved(RegistryOf(name), who, name) :
          use' = [use EXCEPT ![u] = [phase |-> "resolved", who |-> who, gen |-> link.gen,
                                     locator |-> r.locator, source |-> name, ran |-> 0]]
    /\ UNCHANGED <<link, start, jobRefs, outRefs, onDevice, quarantine>>

\* Status, output, renew and stop of a job; status, output and stop of a test.
UseJob(u, who, name) == name \in Starts \ Tests /\ UseRef(u, who, name)
UseTest(u, who, name) == name \in Tests /\ UseRef(u, who, name)

\* read_process_output_ref_as: not while the device is in quarantine for
\* another operation.
ReadOutput(u, who, name) ==
    /\ link.up /\ use[u].phase = "idle" /\ quarantine \in {NoWork, name}
    /\ \E r \in Resolved(outRefs, who, name) :
          use' = [use EXCEPT ![u] = [phase |-> "resolved", who |-> who, gen |-> link.gen,
                                     locator |-> r.locator, source |-> name, ran |-> 0]]
    /\ UNCHANGED <<link, start, jobRefs, outRefs, onDevice, quarantine>>

\* Mutant: a resolved ref is used in whatever session is up.
RunUseAnySession(u) ==
    /\ use[u].phase = "resolved" /\ link.up
    /\ use' = [use EXCEPT ![u] = IF \E d \in onDevice : d.name = @.locator
                                 THEN [@ EXCEPT !.phase = "ran", !.ran = link.gen] ELSE Rest]
    /\ UNCHANGED <<link, start, jobRefs, outRefs, onDevice, quarantine>>

\* The command is fenced to the session the ref was resolved in; the Agent
\* finds what the locator names, and compares an output's own binding
\* (validate_agent_record).
RunUse(u) ==
    /\ use[u].phase = "resolved"
    /\ use' = [use EXCEPT ![u] = IF /\ link.up /\ link.gen = @.gen
                                    /\ \E d \in onDevice : d.name = @.locator
                                         /\ (d.name \in Runs => d.gen = link.gen)
                                 THEN [@ EXCEPT !.phase = "ran", !.ran = link.gen] ELSE Rest]
    /\ UNCHANGED <<link, start, jobRefs, outRefs, onDevice, quarantine>>

EndUse(u) ==
    /\ use[u].phase = "ran"
    /\ use' = [use EXCEPT ![u] = Rest]
    /\ UNCHANGED <<link, start, jobRefs, outRefs, onDevice, quarantine>>

-----------------------------------------------------------------------------
(* The world.                                                              *)

\* Entries of both registries end by their own clock; nothing ends them when
\* the session does.
JobRefExpires(r) ==
    /\ jobRefs' = jobRefs \ {r}
    /\ UNCHANGED <<link, start, outRefs, onDevice, use, quarantine>>
OutRefExpires(r) ==
    /\ outRefs' = outRefs \ {r}
    /\ UNCHANGED <<link, start, jobRefs, onDevice, use, quarantine>>

\* AgentEphemeralDataStore::prune and remove_locator; a job record goes when
\* the manager prunes it.
DeviceForgets(d) ==
    /\ onDevice' = onDevice \ {d}
    /\ UNCHANGED <<link, start, jobRefs, outRefs, use, quarantine>>

\* A session ends with its jobs: the Agent stops them, output stays.  A
\* restarted Agent clears the output's directory too.
LinkEnds ==
    /\ link.up /\ link' = [link EXCEPT !.up = FALSE]
    /\ \E restarted \in BOOLEAN :
          onDevice' = IF restarted THEN {} ELSE {d \in onDevice : d.name \in Runs}
    /\ UNCHANGED <<start, jobRefs, outRefs, use, quarantine>>
LinkBegins ==
    /\ ~link.up /\ link.gen < MaxGen /\ link' = [gen |-> link.gen + 1, up |-> TRUE]
    /\ UNCHANGED <<start, jobRefs, outRefs, onDevice, use, quarantine>>

Quarantined(o) ==
    /\ quarantine = NoWork /\ start[o].phase \in {"sent", "made"} /\ quarantine' = o
    /\ UNCHANGED <<link, start, jobRefs, outRefs, onDevice, use>>

RefsNext ==
    \/ \E o \in Starts, c \in Clients : ReserveJob(o, c) \/ ReserveTest(o, c)
    \/ \E o \in Starts : DispatchStart(o) \/ BindStart(o) \/ StartFails(o)
    \/ \E o \in Runs, c \in Clients : DispatchRun(o, c)
    \/ \E o \in Runs : PublishOutput(o)
    \/ \E o \in Makers : Made(o) \/ CallerGone(o) \/ Quarantined(o)
    \/ \E u \in Uses, c \in Clients, o \in Makers : 
            UseJob(u, c, o) \/ UseTest(u, c, o) \/ ReadOutput(u, c, o)
    \/ \E u \in Uses : RunUse(u) \/ EndUse(u)
    \/ \E r \in jobRefs : JobRefExpires(r)
    \/ \E r \in outRefs : OutRefExpires(r)
    \/ \E d \in onDevice : DeviceForgets(d)
    \/ LinkEnds \/ LinkBegins

RefsSpec == RefsInit /\ [][RefsNext]_refVars

-----------------------------------------------------------------------------
(* A call that reached the device through a ref reached what the same       *)
(* client's own call made there, and in the session in which it was made    *)
(* (managed_job_session_fence, resolve_owned and the fenced start).        *)
RefReachesItsOwn ==
    \A u \in Uses : use[u].phase = "ran" =>
        LET o == use[u].locator IN
        /\ o = use[u].source /\ start[o].phase # "idle"
        /\ use[u].who = start[o].who /\ use[u].ran = start[o].gen

(* Each job start holds at most one ref, a bound one names its job, and a   *)
(* failed start leaves none: whatever order results, expiry and reconnects  *)
(* come in (reserve, bind, release_unbound).                               *)
OneRefPerStart ==
    \A r \in jobRefs :
        /\ \A q \in jobRefs : q.name = r.name => q = r
        /\ r.locator = NoWork => start[r.name].phase # "over"
        /\ r.locator # NoWork => r.locator = r.name /\ start[r.name].phase = "over"

\* An opaque ref leads to what its own client made in the same session and to nothing
\* else, and every start keeps at most one, however results, expiry and reconnections race.
RefsSafe == RefReachesItsOwn /\ OneRefPerStart
====
