----------------------------- MODULE MCHubState -----------------------------
(***************************************************************************)
(* The Hub's safety state and those who look after it: the controller, the *)
(* record several Hubs compete for, the offline maintenance of a           *)
(* checkpoint and the reports an operator reads.  The four share no state  *)
(* here, so a behaviour picks one of them and leaves the others in an      *)
(* initial state.                                                          *)
(***************************************************************************)
EXTENDS ExecutionSafety, HubStateStore, OfflineMaintenance, OperatorReports, TLC

\* Checkpoints of a release per change of the schema that matters to the tool.
MCSourceStates ==
    {s \in [schema : {1, 3, 5, 11, 15},
            features : {{}, {4, 6}, {3, 14}}] : Readable(s.schema, s.features)}
\* Every single fault of the installation, with three sets of capabilities.
MCAdvertised == {{"observe", "file", "write", "process", "click", "browser"},
                 {"process", "file"}, {"observe"}}

VARIABLE part

hubStateVars == <<vars, storeVars, maintVars, reportVars, part>>

\* The initial state in which a part rests.
MaintenanceRests ==
    /\ disk.schema = 15 /\ disk.features = {4, 6} /\ disk.capability = "pointer_click"
    /\ ~disk.fenced /\ disk.room = 1 /\ ~agentDisk["own"].present
    /\ agentDisk["own"].evidence = {}
ReportsRest == facts = Sound /\ caps = {"observe"} /\ world.owner = "v2"

HubStateInit ==
    /\ part \in {"controller", "record", "maintenance", "reports"}
    /\ SafetyInit /\ StoreInit
    /\ MaintInit /\ (part # "maintenance" => MaintenanceRests)
    /\ ReportsInit /\ (part # "reports" => ReportsRest)

HubStateNext ==
    /\ UNCHANGED part
    /\ \/ part = "controller" /\ SafetyNext /\ UNCHANGED <<storeVars, maintVars, reportVars>>
       \/ part = "record" /\ StoreNext /\ UNCHANGED <<vars, maintVars, reportVars>>
       \/ part = "maintenance" /\ MaintNext /\ UNCHANGED <<vars, storeVars, reportVars>>
       \/ part = "reports" /\ ReportsNext /\ UNCHANGED <<vars, storeVars, maintVars>>

HubStateSpec == HubStateInit /\ [][HubStateNext]_hubStateVars

\* Ids and Hubs are used by different parts, so one exchange of both will do.
HubOf == CHOOSE f \in [OpId -> Hub] : \A x, y \in OpId : f[x] = f[y] => x = y
HubStateSymmetry ==
    {p \in Permutations(OpId \cup Hub) :
        \A x \in OpId : p[x] \in OpId /\ p[HubOf[x]] = HubOf[p[x]]}
=============================================================================
