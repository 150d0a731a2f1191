----------------------------- MODULE MCProgress -----------------------------
(***************************************************************************)
(* What has to come to an end: admitted operations, the recovery of a       *)
(* quarantine, one-shot processes and the Hub process itself.  The four     *)
(* share no state, so a behaviour picks one of them and leaves the others   *)
(* in an initial state.  No step that is scheduled fairly is enabled in an  *)
(* initial state, so the parts that rest ask nothing of the behaviour.      *)
(***************************************************************************)
EXTENDS Admission, OnlineRecovery, ProcessExecution, HubLifecycle, TLC

\* A click and a gesture of the transient class.
CONSTANTS click, drag
MCPolicyOf == (click :> "click") @@ (drag :> "transient")

\* Six complete configurations, each with up to two settings added or removed.
MCBases ==
  LET single == {"TlsCert", "TlsKey"}
      mcp == {"McpBind", "McpResource", "Policy"}
      secret == {"GrantSecret"}
      signer == {"GrantSocket", "GrantPublicKey"}
      hosted == {"Hosted", "Port", "McpResource", "Policy"} \cup Postgres
                  \cup HostedHandoff \cup SharedOauth
  IN  {single \cup secret,
       single \cup mcp \cup Proxy \cup secret \cup {"LegacySocket"},
       single \cup mcp \cup SharedOauth \cup Oidc \cup signer \cup {"ControlSocket"},
       single \cup mcp \cup SharedOauth \cup Introspection \cup secret \cup {"Constraints"},
       hosted \cup Oidc \cup {"HandoffAudience", "PgPassword"} \cup signer,
       hosted \cup Introspection \cup {"PgTls", "PgCa"} \cup secret}

MCEdits == {{}} \cup {{a, b} : a \in Settings, b \in Settings}

VARIABLE part

progressVars == <<admissionVars, recoveryVars, runVars, hubVars, part>>

ProgressInit ==
    /\ part \in {"admission", "recovery", "runs", "lifecycle"}
    /\ AdmissionInit /\ RecoveryInit
    /\ RunsInit /\ (part # "runs" => contained)
    /\ HubInit /\ (part # "lifecycle" => settings = {"TlsCert", "TlsKey", "GrantSecret"})

ProgressNext ==
    /\ UNCHANGED part
    /\ \/ part = "admission" /\ AdmissionNext
          /\ UNCHANGED <<recoveryVars, runVars, hubVars>>
       \/ part = "recovery" /\ RecoveryNext
          /\ UNCHANGED <<admissionVars, runVars, hubVars>>
       \/ part = "runs" /\ RunsNext
          /\ UNCHANGED <<admissionVars, recoveryVars, hubVars>>
       \/ part = "lifecycle" /\ HubNext
          /\ UNCHANGED <<admissionVars, recoveryVars, runVars>>

ProgressSpec ==
    /\ ProgressInit /\ [][ProgressNext]_progressVars
    /\ RecoveryFairness /\ RunsFairness /\ HubFairness
=============================================================================
