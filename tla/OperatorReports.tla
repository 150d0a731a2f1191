---- MODULE OperatorReports ----
(***************************************************************************)
(* The read-only reports an operator or an MCP client acts on: v2_doctor,  *)
(* v2_status and cumg_status.  They read a live system piece by piece, so  *)
(* the Hub may dispatch, restart, reconnect, quarantine, recover or hand   *)
(* its mutation authority over between two of their reads; and a doctor    *)
(* started through the Agent finds its own operation in the checkpoint.    *)
(*                                                                         *)
(* What does not change during a run (the installation, services, keys,    *)
(* certificates) is a record of facts with at most one thing wrong.        *)
(***************************************************************************)
EXTENDS Naturals, Sequences, FiniteSets

CONSTANTS MaxChanges,     \* steps of the system while the reports are made
          Advertised      \* the capability sets a device may have advertised

Lanes == {"computer_use_observation", "filesystem_observation", "workspace_mutation",
          "effectful_execution", "browser_effectful_execution"}

\* What may be wrong with each part; the first value is the healthy one.
Faults ==
    [manifest   |-> {"version", "invalid", "service_binary", "operator_missing", "operator_stale", "digest_form"},
     schema     |-> {"unavailable", "newer", "unknown"},
     hub_key    |-> {"missing", "unknown"},
     local_key  |-> {"missing", "k2", "helper_unavailable", "unknown"},
     storage    |-> {"critical"},
     hub_state  |-> {"unreadable", "incompatible", "quarantines_unreadable"},
     agent_state |-> {"unreadable", "mismatch"},
     jobs       |-> {"fail_closed"},
     agent_svc  |-> {"stopped"},
     hub_svc    |-> {"stopped"},
     signer     |-> {"stopped"},
     upkeep     |-> {"stale", "unreadable"},
     tls        |-> {"expiring", "expired"},
     cua        |-> {"none", "unpinned", "mismatch", "slow"},
     authority  |-> {"absent", "unreadable"},
     handoff    |-> {"none", "unavailable", "active", "recovery", "faulted"},
     upgrade    |-> {"done", "unavailable", "running", "failed"}]

Sound ==
    [manifest |-> "verified", schema |-> "current", hub_key |-> "k1", local_key |-> "k1",
     storage |-> "enough", hub_state |-> "ok", agent_state |-> "ok", jobs |-> "ok",
     agent_svc |-> "running", hub_svc |-> "running", signer |-> "running", upkeep |-> "none",
     tls |-> "healthy", cua |-> "pinned", authority |-> "present", handoff |-> "idle", upgrade |-> "none"]

VARIABLES facts, caps,
          world,    \* the live system: fence, generations, the session, the authority's owner
          doctor,   \* the doctor's run: how far it is and what it has read
          status, gateway, changes

reportVars == <<facts, caps, world, doctor, status, gateway, changes>>

NotYet == [pc |-> "none"]
NoFence == [kind |-> "none", gen |-> 0]

ReportsInit ==
    /\ \/ facts = Sound
       \/ \E f \in DOMAIN Faults : \E v \in Faults[f] : facts = [Sound EXCEPT ![f] = v]
       \/ facts = [Sound EXCEPT !.hub_key = "missing", !.local_key = "missing"]
    /\ caps \in Advertised
    /\ world \in [fence : {NoFence}, gen : {1}, agentGen : {1}, linked : {TRUE}, session : {1}, owner : {"v1", "v2"}]
    /\ doctor = NotYet /\ status = NotYet /\ gateway = NotYet /\ changes = 0

-----------------------------------------------------------------------------
(* The live system, as far as the reports can see it.                      *)

Change == changes < MaxChanges /\ changes' = changes + 1

\* An operation is dispatched; the checkpoint shows it as what a restart would
\* make of it.  It ends, or its outcome becomes unknown.
Dispatches(kind) ==
    /\ world.fence = NoFence /\ world.linked /\ "process" \in caps
    /\ world' = [world EXCEPT !.fence = [kind |-> kind, gen |-> world.gen]]
Ends ==
    /\ world.fence.kind \in {"live_process", "live_gui"}
    /\ ~(doctor.pc \notin {"none", "done", "killed"} /\ doctor.inBand)
    /\ \E k \in {"none", "unknown"} :
          world' = [world EXCEPT !.fence = IF k = "none" THEN NoFence ELSE [@ EXCEPT !.kind = k]]

\* The Hub restarts: what was dispatched is quarantined and the session is gone.
HubRestarts ==
    /\ world.linked
    /\ world' = [world EXCEPT !.linked = FALSE,
                    !.fence = IF @.kind \in {"live_process", "live_gui"} THEN [@ EXCEPT !.kind = "restarted"] ELSE @]

\* The Agent notices: the work of the session is killed, a doctor among it,
\* before it connects again under the next generation.
AgentReconnects ==
    /\ ~world.linked
    /\ world' = [world EXCEPT !.linked = TRUE, !.gen = @ + 1, !.agentGen = world.gen + 1, !.session = @ + 1]
    /\ doctor' = IF doctor.pc \notin {"none", "done"} /\ doctor.inBand THEN [pc |-> "killed"] ELSE doctor

\* A person settles the quarantine; an accepted click leaves the resume barrier.
Recovers ==
    /\ world.fence.kind \in {"unknown", "restarted"}
    /\ \E after \in {NoFence, [kind |-> "barrier", gen |-> 0]} : world' = [world EXCEPT !.fence = after]
Resumes == world.fence.kind = "barrier" /\ world' = [world EXCEPT !.fence = NoFence]
OwnerSwitches == \E o \in {"v1", "v2"} \ {world.owner} : world' = [world EXCEPT !.owner = o]

SystemMoves ==
    /\ Change
    /\ \/ /\ \E k \in {"live_process", "live_gui"} : Dispatches(k)
          /\ UNCHANGED doctor
       \/ (Ends \/ HubRestarts \/ Recovers \/ Resumes \/ OwnerSwitches) /\ UNCHANGED doctor
       \/ AgentReconnects
    /\ UNCHANGED <<facts, caps, status, gateway>>

-----------------------------------------------------------------------------
(* run_doctor, read by read.                                               *)

Check(name, level) == [name |-> name, level |-> level]
LevelOf(checks, name) ==
    IF \E c \in checks : c.name = name THEN (CHOOSE c \in checks : c.name = name).level ELSE "absent"

\* verify_runtime_manifest: what it concludes and the levels it pushes.
Runtime(verified, pairing, tooling) == [verified |-> verified, pairing |-> pairing, tooling |-> tooling]
ManifestRuntime ==
    [verified         |-> Runtime(TRUE, "compatible", "compatible"),
     version          |-> Runtime(TRUE, "skewed", "stale"),
     invalid          |-> Runtime(FALSE, "unknown", "unknown"),
     service_binary   |-> Runtime(FALSE, "skewed", "compatible"),
     operator_missing |-> Runtime(FALSE, "skewed", "unavailable"),
     operator_stale   |-> Runtime(FALSE, "skewed", "stale"),
     digest_form      |-> Runtime(FALSE, "unknown", "unknown")][facts.manifest]
ManifestLevel == [verified |-> "ok", version |-> "warning", invalid |-> "error", service_binary |-> "error",
                  operator_missing |-> "error", operator_stale |-> "error", digest_form |-> "error"][facts.manifest]

\* inspect_checkpoint_reader_compatibility.
Reader ==
    CASE facts.schema = "unavailable" -> "unknown"
      [] facts.schema = "newer" -> "incompatible"
      [] facts.schema = "unknown" -> "unknown"
      [] OTHER -> IF ManifestRuntime.tooling = "compatible" THEN "compatible" ELSE "unknown"
ReaderLevel == [compatible |-> "ok", incompatible |-> "error", unknown |-> "warning"][Reader]

\* classify_recovery_key_readiness; the helper is run only when the manifest
\* vouches for it.
LocalKey == IF facts.local_key # "missing" /\ ~ManifestRuntime.verified THEN "helper_unavailable" ELSE facts.local_key
KeyReadiness ==
    IF facts.hub_key = "missing" /\ LocalKey = "missing" THEN "unprovisioned"
    ELSE IF LocalKey = "helper_unavailable" THEN "helper_unavailable"
    ELSE IF "unknown" \in {facts.hub_key, LocalKey} THEN "readiness_unknown"
    ELSE IF LocalKey = "missing" THEN "sealed_key_missing"
    ELSE IF facts.hub_key = "missing" THEN "hub_verifier_missing"
    ELSE IF facts.hub_key = LocalKey THEN "ready" ELSE "public_key_mismatch"
KeyLevel == CASE KeyReadiness \in {"ready", "unprovisioned"} -> "ok"
              [] KeyReadiness = "public_key_mismatch" -> "error"
              [] OTHER -> "warning"

\* The installation, the keys and the storage.
InspectInstallation(inBand) ==
    /\ doctor.pc = "none"
    /\ inBand => world.fence.kind = "live_process" /\ world.linked
    /\ doctor' = [pc |-> "transport", inBand |-> inBand, session |-> world.session, suppress |-> FALSE,
                  barrier |-> FALSE, gen |-> 0, count |-> "unknown", owner |-> "none",
                  truth |-> NoFence, steady |-> changes,
                  checks |-> {Check("runtime_manifest", ManifestLevel), Check("reader", ReaderLevel),
                              Check("recovery_key", KeyLevel),
                              Check("storage", IF facts.storage = "enough" THEN "ok" ELSE "warning")}]
    /\ UNCHANGED world

\* inspect_launchd_service and inspect_agent_hub_transport; process ancestry
\* tells whether this doctor is the Agent's own work.
InspectTransport ==
    /\ doctor.pc = "transport"
    /\ LET running == facts.agent_svc = "running"
       IN doctor' = [doctor EXCEPT !.pc = "hub", !.suppress = running /\ world.linked /\ doctor.inBand,
             !.checks = @ \cup {Check("agent_service", IF running THEN "ok" ELSE "error"),
                                Check("agent_hub_transport", IF running /\ world.linked THEN "ok" ELSE "error")}]
    /\ UNCHANGED world

\* inspect_hub loads and restores the checkpoint: the generation and the
\* resume barrier come from this read.
LoadHub ==
    /\ doctor.pc = "hub"
    /\ doctor' = [doctor EXCEPT !.pc = IF facts.hub_state = "unreadable" THEN "agent" ELSE "quarantines",
          !.steady = changes,
          !.barrier = world.fence.kind = "barrier" /\ facts.hub_state # "unreadable",
          !.gen = IF facts.hub_state \in {"ok", "quarantines_unreadable"} THEN world.gen ELSE 0,
          !.checks = @ \cup {Check("hub_state", IF facts.hub_state \in {"ok", "quarantines_unreadable"} THEN "ok" ELSE "error")}]
    /\ UNCHANGED world

\* classify_quarantine_report: how many entries stand, leaving out the one that
\* is this doctor's own operation.
Entries == IF world.fence.kind \in {"none", "barrier"} THEN 0 ELSE 1
\* Mutant: an entry of the current generation is taken for the caller's.
OwnOperationAnywhere ==
    world.fence.kind \in {"live_process", "restarted"} /\ world.fence.gen = world.gen

OwnOperation ==
    /\ doctor.suppress
    /\ world.fence.kind \in {"live_process", "restarted"}
    /\ world.fence.gen = world.gen
\* The second read of the checkpoint.
InspectQuarantines ==
    /\ doctor.pc = "quarantines"
    /\ LET count == IF Entries = 1 /\ OwnOperation THEN 0 ELSE Entries
       IN doctor' = [doctor EXCEPT !.pc = "agent", !.truth = world.fence,
             !.steady = IF @ = changes THEN 0 ELSE 1,
             !.count = IF facts.hub_state = "quarantines_unreadable" THEN "unknown"
                       ELSE IF count = 0 THEN "clear" ELSE "present",
             !.checks = @ \cup (IF facts.hub_state = "quarantines_unreadable" THEN {Check("live_quarantine", "error")}
                                ELSE {Check("live_quarantine", IF count = 0 THEN "ok" ELSE "error"),
                                      Check("recovery_mode", IF count = 0 /\ ~doctor.barrier THEN "ok" ELSE "warning")})]
    /\ UNCHANGED world

\* inspect_agent: identity and generation must pair with the Hub's.
InspectAgent ==
    /\ doctor.pc = "agent"
    /\ doctor' = [doctor EXCEPT !.pc = "rest",
          !.checks = @ \cup {Check("agent_state", IF facts.agent_state = "ok" /\ doctor.gen = world.agentGen THEN "ok" ELSE "error")}
                       \cup (IF facts.agent_state = "unreadable" THEN {}
                             ELSE {Check("managed_job_safety", IF facts.jobs = "ok" THEN "ok" ELSE "error")})]
    /\ UNCHANGED world

\* Services, maintenance jobs, the signer's socket, certificates, Cua and its
\* budget, the mutation authority, the Handoff runtime.
RestChecks ==
    {Check("hub_service", IF facts.hub_svc = "running" THEN "ok" ELSE "error"),
     Check("grant_signer", IF facts.signer = "running" THEN "ok" ELSE "error"),
     Check("maintenance_jobs", [none |-> "ok", stale |-> "warning", unreadable |-> "error"][facts.upkeep]),
     Check("tls", [healthy |-> "ok", expiring |-> "warning", expired |-> "error"][facts.tls])}
    \cup (IF facts.cua = "none" THEN {}
          ELSE {Check("cua_version", [pinned |-> "ok", unpinned |-> "warning", mismatch |-> "error", slow |-> "ok"][facts.cua]),
                Check("execution_budget", IF facts.cua = "slow" THEN "error" ELSE "ok")})
    \cup (IF facts.handoff = "none" THEN {}
          ELSE {Check("handoff_recovery", [idle |-> "ok", active |-> "warning", recovery |-> "warning",
                                           faulted |-> "error", unavailable |-> "error"][facts.handoff])})
    \cup (CASE facts.authority = "present" -> {Check("mutation_authority", "ok")}
            [] facts.authority = "absent" /\ facts.cua = "none" -> {}
            [] OTHER -> {Check("mutation_authority", "error")})

InspectRest ==
    /\ doctor.pc = "rest"
    /\ doctor' = [doctor EXCEPT !.pc = "done", !.owner = IF facts.authority = "present" THEN world.owner ELSE "none",
                                !.checks = @ \cup RestChecks]
    /\ UNCHANGED world

-----------------------------------------------------------------------------
(* summarize_readiness: one lane at a time.                                *)

Supported(lane) ==
    CASE lane = "computer_use_observation" -> "observe" \in caps
      [] lane = "filesystem_observation" -> "file" \in caps
      [] lane = "workspace_mutation" -> "write" \in caps
      [] lane = "effectful_execution" -> caps \cap {"write", "process", "click", "browser"} # {}
      [] OTHER -> "browser" \in caps

ControlPlane(checks) ==
    LET levels == {LevelOf(checks, n) : n \in {"hub_state", "agent_state", "hub_service", "agent_service", "agent_hub_transport"}}
    IN IF "error" \in levels THEN "unavailable" ELSE IF levels = {"ok"} THEN "ready" ELSE "unknown"

Backend(checks) ==
    facts.cua = "none" \/ {LevelOf(checks, "cua_version"), LevelOf(checks, "execution_budget")} \cap {"error", "absent"} = {}
NeedsBackend(lane) ==
    facts.cua # "none" /\ (lane = "effectful_execution" => caps \cap {"write", "click", "browser"} # {})
                       /\ lane \notin {"filesystem_observation", "workspace_mutation"}

Blocking(d) == IF d.barrier /\ d.count = "clear" THEN "present" ELSE d.count
Lane(d, lane) ==
    LET effect == lane \in {"workspace_mutation", "effectful_execution", "browser_effectful_execution"}
    IN IF d.gen = 0 THEN "unknown"
       ELSE IF ~Supported(lane) THEN "unsupported"
       ELSE IF effect /\ Blocking(d) = "present" THEN "fenced"
       ELSE IF effect /\ Blocking(d) = "unknown" THEN "unknown"
       ELSE IF ControlPlane(d.checks) # "ready" THEN "unavailable"
       ELSE IF NeedsBackend(lane) /\ (~Backend(d.checks) \/ (effect /\ d.owner # "v2")) THEN "unavailable"
       ELSE "ready"

-----------------------------------------------------------------------------
(* collect_operator_status and build_operator_status.                      *)

\* primary_operator_state: the first rule that applies.
Rule(when, is) == [when |-> when, is |-> is]
Rules(d) ==
    LET level(n) == LevelOf(d.checks, n)
        lanes == {Lane(d, l) : l \in Lanes}
    IN << Rule(Reader = "incompatible", "action_required"),
          Rule(ManifestRuntime.pairing = "skewed" \/ ManifestRuntime.tooling \in {"stale", "unavailable"}, "action_required"),
          Rule("unknown" \in {ManifestRuntime.pairing, ManifestRuntime.tooling, Reader}, "action_required"),
          Rule(d.count = "present", "action_required"),
          Rule(d.barrier /\ d.count = "clear", "action_required"),
          Rule(facts.handoff \in {"recovery", "faulted"}, "action_required"),
          Rule(facts.upgrade \in {"running", "failed"}, "action_required"),
          Rule(ControlPlane(d.checks) = "unavailable", "unavailable"),
          Rule(facts.cua # "none" /\ d.owner # "v2", "action_required"),
          Rule(~ManifestRuntime.verified, "action_required"),
          Rule(KeyReadiness = "public_key_mismatch", "action_required"),
          Rule(KeyReadiness \notin {"ready", "unprovisioned"}, "degraded"),
          Rule(level("cua_version") = "error", "degraded"),
          Rule(facts.handoff = "active", "degraded"),
          Rule(facts.handoff = "unavailable", "action_required"),
          Rule(facts.upgrade = "unavailable", "unknown"),
          Rule(d.count = "unknown" \/ ControlPlane(d.checks) = "unknown" \/ "unknown" \in lanes, "unknown"),
          Rule(\E c \in d.checks : c.level = "error", "action_required"),
          Rule(\E c \in d.checks : c.level = "warning", "degraded") >>

FirstOf(rules) ==
    LET hits == {i \in DOMAIN rules : rules[i].when}
    IN IF hits = {} THEN "healthy" ELSE rules[CHOOSE i \in hits : \A j \in hits : i <= j].is

Overall(d) == FirstOf(Rules(d))
BuildStatus ==
    /\ doctor.pc = "done" /\ status.pc = "none"
    /\ status' = [pc |-> "told", overall |-> Overall(doctor), lanes |-> [l \in Lanes |-> Lane(doctor, l)],
                  backend |-> CASE facts.cua = "none" -> "not_configured"
                                [] OTHER -> [ok |-> "ready", warning |-> "unknown", error |-> "unavailable"][LevelOf(doctor.checks, "cua_version")]]
    /\ UNCHANGED <<world, doctor, gateway>>

\* cumg_status: apply_gateway_live_status overlays what the live Hub knows.
LiveLane(lane, quarantined) ==
    LET needs == \/ lane \in {"computer_use_observation", "browser_effectful_execution"}
                 \/ lane = "effectful_execution" /\ caps \cap {"click", "browser"} # {}
        effect == lane \in {"workspace_mutation", "effectful_execution", "browser_effectful_execution"}
    IN IF ~Supported(lane) THEN "unsupported"
       ELSE IF effect /\ quarantined THEN "fenced"
       ELSE IF needs /\ status.backend = "unavailable" THEN "unavailable"
       ELSE IF needs /\ status.backend # "ready" THEN "unknown"
       ELSE "ready"

OverlayLiveStatus ==
    /\ status.pc = "told" /\ gateway.pc = "none"
    /\ LET quarantined == world.fence.kind \in {"unknown", "restarted"}
       IN gateway' = [pc |-> "told",
             overall |-> IF quarantined THEN "action_required"
                         ELSE IF ~world.linked /\ status.overall # "action_required" THEN "unavailable" ELSE status.overall,
             lanes |-> IF world.linked THEN [l \in Lanes |-> LiveLane(l, quarantined)]
                       ELSE [l \in Lanes |-> IF status.lanes[l] = "unsupported" THEN "unsupported" ELSE "unavailable"],
             truth |-> world.fence]
    /\ UNCHANGED <<world, doctor, status>>

Doctor ==
    \/ \E b \in BOOLEAN : InspectInstallation(b)
    \/ InspectTransport \/ LoadHub \/ InspectQuarantines \/ InspectAgent \/ InspectRest

ReportsNext ==
    \/ SystemMoves
    \/ Doctor /\ UNCHANGED <<facts, caps, status, gateway, changes>>
    \/ (BuildStatus \/ OverlayLiveStatus) /\ UNCHANGED <<facts, caps, changes>>

ReportsSpec == ReportsInit /\ [][ReportsNext]_reportVars

-----------------------------------------------------------------------------
(* Properties.                                                             *)

\* Whoever started the doctor gets its report: through the Agent only over the
\* session it was started in.
Delivered == doctor.pc = "done" /\ (doctor.inBand => world.linked /\ world.session = doctor.session)

\* A ready lane is earned: a delivered report calls a mutating lane ready only
\* if no quarantine stood when the Hub's checkpoint was read, no resume barrier
\* either unless it came between the two reads, and the authority was V2's
\* where the backend is needed.  The doctor's own operation is left out of the
\* count, a quarantine it is mistaken for is not.
ReadyIsEarned ==
    Delivered /\ status.pc = "none" =>
       \A lane \in {"workspace_mutation", "effectful_execution", "browser_effectful_execution"} :
          Lane(doctor, lane) = "ready" =>
             /\ doctor.truth.kind \notin {"unknown", "restarted"}
             /\ doctor.steady = 0 => doctor.truth.kind # "barrier"
             /\ NeedsBackend(lane) => doctor.owner = "v2"

\* Healthy is never a default: the status says healthy only when nothing the
\* doctor, the Handoff runtime or the upgrade record could show is wrong.
HealthyMeansSound ==
    status.pc = "told" /\ status.overall = "healthy" =>
       /\ \A f \in DOMAIN Faults \ {"hub_key", "local_key"} :
             facts[f] = Sound[f] \/ <<f, facts[f]>> \in {<<"cua", "none">>, <<"handoff", "none">>, <<"upgrade", "done">>}
       /\ facts.hub_key = facts.local_key

\* What the live overlay calls ready is open: no quarantine and no resume
\* barrier holds mutations back when cumg_status says a mutating lane is ready.
LiveReadyIsOpen ==
    gateway.pc = "told" =>
       \A lane \in {"workspace_mutation", "effectful_execution", "browser_effectful_execution"} :
          gateway.lanes[lane] = "ready" => gateway.truth.kind \notin {"unknown", "restarted", "barrier"}

\* Reports never flatter: a ready lane and a healthy overall state are earned by what
\* was read, although it changes while it is read.
ReportsSafe == ReadyIsEarned /\ HealthyMeansSound
====
