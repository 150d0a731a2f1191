-------------------------- MODULE MCTrustAndReuse --------------------------
(***************************************************************************)
(* Whose word counts: callers who present an id again, the two peers of a  *)
(* session with their keys, and Hub processes over one directory of        *)
(* checkpoints.  The three share no state here, so a behaviour picks one   *)
(* of them and leaves the others in an initial state.                      *)
(***************************************************************************)
EXTENDS ExecutionSafety, TrustedSessions, LocalCheckpointStore, TLC

\* Two Hub keys that may be rotated there and back, a device key and its
\* successor, two grant keys.
MCHubRotations == {[from |-> "h1", to |-> "h2", epoch |-> 1],
                   [from |-> "h2", to |-> "h1", epoch |-> 1]}
MCDeviceRotations == {[from |-> "d1", to |-> "d2"]}
MCGrantKeys == {1, 2}
MCAnchors == {1, 2}
MCCapabilities == {"shell"}
MCSignerAllows == {"shell"}
MCScenarios ==
    {[says |-> {k}, rotates |-> FALSE] :
        k \in {"command", "cancel", "session_end", "handoff_request", "report",
               "indeterminate_ack"}}
    \cup {[says |-> {"heartbeat"}, rotates |-> TRUE]}

VARIABLE part

\* Bound: the Agent restarts twice where keys rotate, once elsewhere.
FewRestarts == scenario.rotates \/ bounds.agentStarts <= 1

trustAndReuseVars == <<vars, trustVars, localVars, part>>

TrustAndReuseInit ==
    /\ part \in {"controller", "sessions", "directory"}
    /\ SafetyInit
    /\ LocalInit /\ (part # "directory" => ~faulty)
    /\ TrustInit /\ (part # "sessions" => scenario.rotates)

TrustAndReuseNext ==
    /\ UNCHANGED part
    /\ \/ part = "controller" /\ SafetyNext /\ UNCHANGED <<trustVars, localVars>>
       \/ part = "sessions" /\ TrustNext /\ FewRestarts' /\ UNCHANGED <<vars, localVars>>
       \/ part = "directory" /\ LocalNext /\ UNCHANGED <<vars, trustVars>>

TrustAndReuseSpec == TrustAndReuseInit /\ [][TrustAndReuseNext]_trustAndReuseVars

\* Two ids and two of the Hubs are exchanged together: different parts use them.
SomeHub == CHOOSE h \in Hub : TRUE
TrustAndReuseSymmetry ==
    {p \in Permutations(OpId \cup Hub) :
        \/ \A x \in OpId \cup Hub : p[x] = x
        \/ /\ p[SomeHub] = SomeHub
           /\ \A x \in OpId : p[x] \in OpId \ {x}
           /\ \A h \in Hub \ {SomeHub} : p[h] \in Hub \ {h}}
=============================================================================
