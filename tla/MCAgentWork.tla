---------------------------- MODULE MCAgentWork ----------------------------
(***************************************************************************)
(* The operations an Agent process runs, its managed jobs, and the row in  *)
(* which Hubs keep their record.  The three share no state, so a behaviour *)
(* picks one of them and leaves the others in their initial state, where   *)
(* no step that is scheduled fairly is enabled.                            *)
(***************************************************************************)
EXTENDS AgentExecution, ManagedJobs, PostgresStateStore

VARIABLE part

workVars == <<agentVars, jobVars, postgresVars, part>>

WorkInit ==
    /\ part \in {"operations", "jobs", "row"}
    /\ AgentInit /\ JobsInit /\ PostgresInit

WorkNext ==
    /\ UNCHANGED part
    /\ \/ part = "operations" /\ AgentNext /\ UNCHANGED <<jobVars, postgresVars>>
       \/ part = "jobs" /\ JobsNext /\ UNCHANGED <<agentVars, postgresVars>>
       \/ part = "row" /\ PostgresNext /\ UNCHANGED <<agentVars, jobVars>>

WorkSpec == WorkInit /\ [][WorkNext]_workVars /\ JobsFairness
=============================================================================
