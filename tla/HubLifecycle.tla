---------------------------- MODULE HubLifecycle ----------------------------
(***************************************************************************)
(* The v2_hub process from its command line to its exit: which settings it *)
(* accepts and what it builds from them, and the planned shutdown, in which *)
(* the admission gate closes, admitted work drains under a bound, the live *)
(* Agent session is closed and only then do the servers stop.              *)
(*                                                                         *)
(* A configuration is the set of settings that are given.  A few names     *)
(* stand for a fact about values instead: "LongDrain" a drain above eight  *)
(* seconds, "PublicBind" an MCP address that is not loopback, "SameResource" *)
(* and "SameAudience" equal hosted values, "PgUnixHost" a socket path,     *)
(* "PgTls" a TLS mode other than disable, "LoosePeers" proxy peer limits   *)
(* that reach the global ones.                                             *)
(*                                                                         *)
(* An operation takes the steps of a session's loop one at a time, with the *)
(* awaits between them: sent, gated (line 1120 passed), starting or queued  *)
(* (prepared), granted (1555 passed), checked (1605 passed), dispatched.   *)
(***************************************************************************)
EXTENDS Naturals, FiniteSets

CONSTANTS
  Bases,      \* complete configurations operators run
  Edits,      \* sets of settings by which a configuration may differ from one
  Streams,    \* Agent streams
  Works       \* northbound operations

VARIABLES
  settings,   \* the settings given; emptied once the runtime is built
  runtime,    \* what the process built
  phase,      \* where main is
  asked,      \* an operator has signalled the process
  latched,    \* the signal listener holds the signal
  draining,   \* the admission gate is closed
  drained,    \* "no", "clean" or "timeout"
  stream,     \* each Agent stream
  live,       \* the stream that is the live session, or "none"
  closing,    \* streams told to end
  work,       \* each operation
  carrier     \* the stream an operation was handed to

hubVars == <<settings, runtime, phase, asked, latched, draining, drained,
             stream, live, closing, work, carrier>>

Oidc == {"OidcAudience", "OidcJwks", "OidcAlgorithms"}
Introspection == {"IntroEndpoint", "IntroClient", "IntroSecret"}
Proxy == {"ProxyIssuer", "ProxySubject", "ProxySecret"}
SharedOauth == {"AuthServer", "Scopes"}
Postgres == {"PgHost", "PgDatabase", "PgUser", "PgStateKey"}
PostgresExtra == {"PgPassword", "PgTls", "PgCa"}
HostedHandoff == {"HandoffResource", "HandoffScopes", "HandoffPolicy"}
Sockets == {"ControlSocket", "LegacySocket"}
Signers == {"GrantSecret", "GrantSocket", "GrantPublicKey"}
Settings ==
  Oidc \cup Introspection \cup Proxy \cup SharedOauth \cup Postgres
    \cup PostgresExtra \cup HostedHandoff \cup Sockets \cup Signers
    \cup {"Hosted", "Port", "LongDrain", "TlsCert", "TlsKey", "McpBind",
          "PublicBind", "HandoffAudience", "SameResource", "SameAudience",
          "McpResource", "Policy", "Constraints", "PgUnixHost",
          "LegacyRuntime", "LoosePeers"}

(* The settings that grant, narrow or protect authority.                   *)
Authority ==
  (Oidc \cup Introspection \cup Proxy \cup SharedOauth \cup Postgres
     \cup PostgresExtra \cup HostedHandoff \cup Sockets \cup Signers
     \cup {"TlsCert", "TlsKey", "HandoffAudience", "McpResource", "Policy",
           "Constraints"})

Given(S, G) == S \cap G # {}
Absent(S, G) == S \cap G = {}

(* Settings the hosted one-port profile must have and must not have.       *)
HostedProfile(S) ==
  /\ {"Port"} \cup Postgres \subseteq S
  /\ "PgUnixHost" \in S => "PgTls" \notin S
  /\ "PgCa" \in S => "PgTls" \in S
  /\ Absent(S, {"LongDrain", "TlsCert", "TlsKey", "McpBind"} \cup Proxy
                  \cup Sockets)
  /\ Given(S, Oidc) # Given(S, Introspection)
  /\ HostedHandoff \cup {"McpResource", "Policy"} \cup SharedOauth \subseteq S
  /\ "SameResource" \notin S
  /\ IF Given(S, Oidc)
       THEN {"OidcAudience", "HandoffAudience"} \subseteq S /\ "SameAudience" \notin S
       ELSE "HandoffAudience" \notin S

(* The single-host profile brings its own TLS and has nothing hosted.      *)
SingleHostProfile(S) ==
  /\ {"TlsCert", "TlsKey"} \subseteq S
  /\ Absent(S, Postgres \cup PostgresExtra)
  /\ Absent(S, HostedHandoff \cup {"HandoffAudience"})

validate_profile_configuration(S) ==
  IF "Hosted" \in S THEN HostedProfile(S) ELSE SingleHostProfile(S)

(* Exactly one grant signer: a local secret, or a socket with its key.     *)
OneGrantSigner(S) ==
  \/ S \cap Signers = {"GrantSecret"}
  \/ S \cap Signers = {"GrantSocket", "GrantPublicKey"}

(* The settings the Handoff coordinator takes, or that it cannot be built. *)
build_handoff_coordinator(S) ==
  [ok   |-> "LegacyRuntime" \notin S /\ ~(Sockets \subseteq S),
   uses |-> IF "Hosted" \in S THEN {} ELSE S \cap Sockets]

(* At most one way to authenticate, and a proxy excludes OAuth settings.   *)
validate_northbound_auth_mode_selection(S) ==
  /\ Cardinality({G \in {Oidc, Introspection, Proxy} : Given(S, G)}) <= 1
  /\ ~(Given(S, Proxy) /\ Given(S, SharedOauth))

ProxyMode(S) ==
  [ok |-> Proxy \subseteq S /\ "LoosePeers" \notin S, uses |-> Proxy, auth |-> "proxy"]
OidcMode(S) ==
  [ok |-> SharedOauth \cup Oidc \subseteq S, uses |-> SharedOauth \cup Oidc,
   auth |-> "oidc"]
IntrospectionMode(S) ==
  [ok |-> SharedOauth \cup Introspection \subseteq S,
   uses |-> SharedOauth \cup Introspection, auth |-> "introspection"]
AuthMode(S) ==
  IF Given(S, Proxy) THEN ProxyMode(S)
  ELSE IF Given(S, Oidc) THEN OidcMode(S) ELSE IntrospectionMode(S)

\* Mutant: semantic constraints alone do not make a surface expected.
ForgetsConstraints(S) ==
  Given(S, {"McpResource", "Policy"} \cup SharedOauth
             \cup Introspection \cup Oidc \cup Proxy)

(* Any of these makes a northbound surface expected.                       *)
NorthboundConfigured(S) ==
  Given(S, {"McpResource", "Policy", "Constraints"} \cup SharedOauth
             \cup Introspection \cup Oidc \cup Proxy)
build_northbound_runtime(S) ==
  LET mode == AuthMode(S)
      serves == "Hosted" \in S \/ "McpBind" \in S
  IN  [ok   |-> /\ validate_northbound_auth_mode_selection(S)
                /\ IF serves
                     THEN /\ "Hosted" \in S => NorthboundConfigured(S)
                          /\ "Hosted" \notin S => "PublicBind" \notin S
                          /\ {"McpResource", "Policy"} \subseteq S
                          /\ mode.ok
                     ELSE ~NorthboundConfigured(S),
       uses |-> IF serves
                  THEN mode.uses \cup {"McpResource", "Policy", "Constraints"}
                  ELSE {},
       auth |-> IF serves THEN mode.auth ELSE "none"]

(* The hosted operator resource has its own scopes, policy and audience.   *)
build_hosted_handoff_runtime(S) ==
  [ok   |-> "Hosted" \in S =>
              /\ HostedHandoff \cup {"AuthServer"} \subseteq S
              /\ \/ Oidc \cup {"HandoffAudience"} \subseteq S
                 \/ Absent(S, Oidc) /\ Introspection \subseteq S,
   uses |-> IF "Hosted" \notin S THEN {}
            ELSE HostedHandoff \cup {"AuthServer"}
                   \cup (IF Given(S, Oidc) THEN {"HandoffAudience"} ELSE {})]

(* PostgreSQL state for the hosted profile, the local store otherwise.     *)
build_hosted_postgres_state_config(S) ==
  IF "Hosted" \in S THEN Postgres \cup PostgresExtra ELSE {"TlsCert", "TlsKey"}

NoRuntime == [auth |-> "none", ignored |-> {}]
Built(S) ==
  LET north == build_northbound_runtime(S)
      hosted == build_hosted_handoff_runtime(S)
      coordinator == build_handoff_coordinator(S)
  IN  [ok |-> coordinator.ok /\ north.ok /\ hosted.ok,
       is |-> [auth |-> north.auth,
               ignored |-> (S \cap Authority)
                             \ (north.uses \cup hosted.uses \cup coordinator.uses
                                  \cup build_hosted_postgres_state_config(S)
                                  \cup Signers)]]

-----------------------------------------------------------------------------
Toggled(S, E) == (S \ E) \cup (E \ S)

HubInit ==
  /\ \E base \in Bases, E \in Edits : settings = Toggled(base, E)
  /\ runtime = NoRuntime
  /\ phase = "parsed"
  /\ asked = FALSE /\ latched = FALSE
  /\ draining = FALSE /\ drained = "no"
  /\ stream = [s \in Streams |-> "none"]
  /\ live = "none"
  /\ closing = {}
  /\ work = [o \in Works |-> "idle"]
  /\ carrier = [o \in Works |-> "none"]

serveVars == <<draining, drained, stream, live, closing, work, carrier>>

(* The settings are validated and the signal handlers installed before any *)
(* secret or checkpoint is read.                                           *)
Validate ==
  /\ phase = "parsed"
  /\ phase' = IF validate_profile_configuration(settings) /\ OneGrantSigner(settings)
                THEN "loading" ELSE "failed"
  /\ UNCHANGED <<settings, runtime, asked, latched, serveVars>>

(* Secrets, TLS identity and state are loaded and the runtimes are built;  *)
(* each may fail, which ends the process with an error.                    *)
Load ==
  /\ phase = "loading"
  /\ \/ /\ Built(settings).ok
        /\ runtime' = Built(settings).is
        /\ phase' = "serving"
     \/ /\ phase' = "failed"
        /\ UNCHANGED runtime
  /\ settings' = {}
  /\ UNCHANGED <<asked, latched, serveVars>>

\* Mutant: a signal that arrives before the listener is polled is lost.
LosesEarlySignal ==
  /\ ~asked /\ phase \in {"loading", "serving"}
  /\ asked' = TRUE
  /\ latched' = (phase = "serving")
  /\ UNCHANGED <<settings, runtime, phase, serveVars>>

(* A stop signal: the default action before the handlers are installed,    *)
(* and held by the listener's channel from then on.                        *)
shutdown_signal ==
  /\ ~asked /\ phase \in {"loading", "serving"}
  /\ asked' = TRUE
  /\ latched' = TRUE
  /\ UNCHANGED <<settings, runtime, phase, serveVars>>

-----------------------------------------------------------------------------
(* Agent streams.                                                          *)
Serving == phase \in {"serving", "draining", "closing", "stopping"}
Listening == phase \in {"serving", "draining", "closing"}

(* A peer opens a stream; nothing bounds the wait for its messages.        *)
OpenStream(s) ==
  /\ Listening /\ stream[s] = "none"
  /\ stream' = [stream EXCEPT ![s] = "opened"]
  /\ UNCHANGED <<settings, runtime, phase, asked, latched, draining, drained,
                 live, closing, work, carrier>>

(* A hello is refused while the drain is active.                           *)
Hello(s) ==
  /\ Serving /\ stream[s] = "opened"
  /\ stream' = [stream EXCEPT ![s] = IF draining THEN "closed" ELSE "helloed"]
  /\ UNCHANGED <<settings, runtime, phase, asked, latched, draining, drained,
                 live, closing, work, carrier>>

(* The proof is accepted and the stream becomes the live session, which    *)
(* supersedes the one before it.  The gate is not looked at again.         *)
Install(s) ==
  /\ Serving /\ stream[s] = "helloed"
  /\ stream' = [stream EXCEPT ![s] = "live"]
  /\ live' = s
  /\ closing' = IF live = "none" THEN closing ELSE closing \cup {live}
  /\ UNCHANGED <<settings, runtime, phase, asked, latched, draining, drained,
                 work, carrier>>

(* The peer goes away, or its hello or proof is refused.  A peer that does  *)
(* neither holds its stream: there is no timeout and no keepalive.         *)
InHandshake(s) == stream[s] \in {"opened", "helloed"}
HandshakeBreaks(s) ==
  /\ Serving /\ InHandshake(s)
  /\ stream' = [stream EXCEPT ![s] = "closed"]
  /\ UNCHANGED <<settings, runtime, phase, asked, latched, draining, drained,
                 live, closing, work, carrier>>

InHand(o) == work[o] \in {"gated", "starting", "granted", "checked"}
Busy(s) == \E o \in Works : carrier[o] = s /\ InHand(o)

(* The loop ends because it was told to, at its heartbeat or at its hard   *)
(* lifetime; cleanup then cancels what never left and quarantines the rest. *)
Ended(o) ==
  CASE work[o] = "dispatched" -> "indeterminate"
    [] work[o] \in {"sent", "gated", "queued", "starting", "granted", "checked"} -> "refused"
    [] OTHER -> work[o]
LoopEnds(s) ==
  /\ Serving /\ stream[s] = "live" /\ ~Busy(s)
  /\ stream' = [stream EXCEPT ![s] = "closed"]
  /\ closing' = closing \ {s}
  /\ live' = IF live = s THEN "none" ELSE live
  /\ work' = [o \in Works |-> IF carrier[o] = s THEN Ended(o) ELSE work[o]]
  /\ UNCHANGED <<settings, runtime, phase, asked, latched, draining, drained,
                 carrier>>

-----------------------------------------------------------------------------
(* Operations.                                                             *)
OpsFrame == UNCHANGED <<settings, runtime, phase, asked, latched, draining,
                        drained, stream, live, closing>>

(* A northbound call reaches the live session's channel.                   *)
StartWork(o) ==
  /\ Listening /\ runtime.auth # "none"
  /\ work[o] = "idle" /\ ~draining /\ live # "none"
  /\ work' = [work EXCEPT ![o] = "sent"]
  /\ carrier' = [carrier EXCEPT ![o] = live]
  /\ OpsFrame

(* The loop takes the request and looks at the gate.                       *)
Gate(o) ==
  /\ Serving /\ work[o] = "sent" /\ stream[carrier[o]] = "live" /\ ~Busy(carrier[o])
  /\ work' = [work EXCEPT ![o] = IF draining THEN "refused" ELSE "gated"]
  /\ UNCHANGED carrier /\ OpsFrame

Occupied == \E o \in Works : work[o] \in {"starting", "granted", "checked", "dispatched"}

(* It is admitted under the lock: at once, or behind the one that runs.    *)
Prepare(o) ==
  /\ Serving /\ work[o] = "gated"
  /\ work' = [work EXCEPT ![o] = IF Occupied THEN "queued" ELSE "starting"]
  /\ UNCHANGED carrier /\ OpsFrame

(* The next queued operation of the stream takes the freed place.          *)
Follow(o, outcome) ==
  LET waiting == {q \in Works : work[q] = "queued" /\ carrier[q] = carrier[o]}
  IN  IF waiting = {} THEN work' = [work EXCEPT ![o] = outcome]
      ELSE \E q \in waiting : work' = [work EXCEPT ![o] = outcome, ![q] = "starting"]

(* A closed gate cancels the operation; so does a signer that refuses.     *)
FirstCheck(o) ==
  /\ Serving /\ work[o] = "starting"
  /\ \/ ~draining /\ work' = [work EXCEPT ![o] = "granted"]
     \/ Follow(o, "refused")
  /\ UNCHANGED carrier /\ OpsFrame

(* The gate again, immediately before the durable boundary.                *)
SecondCheck(o) ==
  /\ Serving /\ work[o] = "granted"
  /\ IF draining THEN Follow(o, "refused")
     ELSE work' = [work EXCEPT ![o] = "checked"]
  /\ UNCHANGED carrier /\ OpsFrame

(* The dispatch is made durable and the command sent.                      *)
MarkDispatched(o) ==
  /\ Serving /\ work[o] = "checked"
  /\ work' = [work EXCEPT ![o] = "dispatched"]
  /\ UNCHANGED carrier /\ OpsFrame

(* The Agent's result arrives and is committed.                            *)
Settle(o) ==
  /\ Serving /\ work[o] = "dispatched"
  /\ stream[carrier[o]] = "live" /\ ~Busy(carrier[o])
  /\ Follow(o, "settled")
  /\ UNCHANGED carrier /\ OpsFrame

-----------------------------------------------------------------------------
(* The shutdown task.                                                      *)
begin_shutdown_drain ==
  /\ phase = "serving" /\ latched
  /\ phase' = "draining" /\ draining' = TRUE
  /\ UNCHANGED <<settings, runtime, asked, latched, drained, stream, live,
                 closing, work, carrier>>

has_unsettled_work(o) ==
  work[o] \in {"queued", "starting", "granted", "checked", "dispatched"}

(* Polled under the state lock until nothing is unsettled, or given up.    *)
wait_for_shutdown_drain ==
  /\ phase = "draining"
  /\ \/ /\ \A o \in Works : ~has_unsettled_work(o)
        /\ drained' = "clean"
     \/ drained' = "timeout"
  /\ phase' = "closing"
  /\ UNCHANGED <<settings, runtime, asked, latched, draining, stream, live,
                 closing, work, carrier>>

(* The session live at this moment is told to end, the coordinator stops,  *)
(* and the servers are told to finish.                                     *)
close_live_session_for_shutdown ==
  /\ phase = "closing"
  /\ closing' = IF live = "none" THEN closing ELSE closing \cup {live}
  /\ phase' = "stopping"
  /\ UNCHANGED <<settings, runtime, asked, latched, draining, drained, stream,
                 live, work, carrier>>

(* The servers finish with the streams and requests that were open.        *)
ServersStop ==
  /\ phase = "stopping"
  /\ \A s \in Streams : stream[s] \in {"none", "closed"}
  /\ \A o \in Works : work[o] \in {"idle", "refused", "settled", "indeterminate"}
  /\ phase' = "exited"
  /\ UNCHANGED <<settings, runtime, asked, latched, serveVars>>

HubDone ==
  /\ phase \in {"serving", "failed", "exited"}
  /\ UNCHANGED hubVars

HubNext ==
  \/ Validate \/ Load \/ shutdown_signal \/ HubDone
  \/ begin_shutdown_drain \/ wait_for_shutdown_drain
  \/ close_live_session_for_shutdown \/ ServersStop
  \/ \E s \in Streams : OpenStream(s) \/ Hello(s) \/ Install(s) \/ HandshakeBreaks(s) \/ LoopEnds(s)
  \/ \E o \in Works : StartWork(o) \/ Gate(o) \/ Prepare(o) \/ FirstCheck(o)
                        \/ SecondCheck(o) \/ MarkDispatched(o) \/ Settle(o)

(* main's own steps are taken; a session's loop makes progress and has a   *)
(* hard lifetime.  Nothing is assumed of a peer in its handshake.          *)
HubFairness ==
  /\ WF_hubVars(Load)
  /\ WF_hubVars(begin_shutdown_drain) /\ WF_hubVars(wait_for_shutdown_drain)
  /\ WF_hubVars(close_live_session_for_shutdown) /\ WF_hubVars(ServersStop)
  /\ \A s \in Streams : SF_hubVars(LoopEnds(s))
  /\ \A o \in Works : WF_hubVars(Prepare(o)) /\ WF_hubVars(FirstCheck(o))
                        /\ WF_hubVars(SecondCheck(o)) /\ WF_hubVars(MarkDispatched(o))

HubSpec == HubInit /\ [][HubNext]_hubVars /\ HubFairness

-----------------------------------------------------------------------------
(* Whatever an operator configures to grant, narrow or protect authority is *)
(* in force in the Hub that serves, or the Hub does not start: the profile  *)
(* check, the signer check and the four builders leave no combination in    *)
(* which a policy, a constraint file, an identity provider or a store is    *)
(* silently left aside.                                                     *)
ConfiguredIsInForce ==
  phase \in {"serving", "draining", "closing", "stopping", "exited"} =>
    runtime.ignored = {}

(* After a drain that reports it is complete nothing is at the Agent: the   *)
(* gate is read at three places with awaits between them, and work that is  *)
(* past the last reading is still counted by the drain's own poll.          *)
DrainedMeansNothingIsOut ==
  drained = "clean" => \A o \in Works : work[o] # "dispatched"

(* Only a peer that never ends its handshake keeps a Hub from stopping when *)
(* it was asked to, be it while it was still loading its secrets or with a   *)
(* handshake that completes after the live session was closed.  Such a peer  *)
(* does: serve_with_shutdown waits for its stream, and no deadline ends it.  *)
StopsWhenAsked ==
  (\A s \in Streams : []<>~InHandshake(s)) => (asked ~> phase \in {"exited", "failed"})

\* The Hub serves only with everything it was configured with in force, and a drain
\* that says it is clean left nothing at the Agent.
LifecycleSafe == ConfiguredIsInForce /\ DrainedMeansNothingIsOut
=============================================================================
