----------------------------- MODULE MCDesktop -----------------------------
(***************************************************************************)
(* What happens on the device besides an Agent's own bookkeeping: a person *)
(* taking over a window or a terminal, the hosted routes to them, the      *)
(* backend calls of two gateways, files of the workspace and files staged  *)
(* for the browser.  They share no state here, so a behaviour picks one of *)
(* them and leaves the others in an initial state.                         *)
(***************************************************************************)
EXTENDS HumanHandoff, TerminalHandoff, HandoffRouting, BackendCalls, WorkspaceFiles,
        BrowserStaging, TLC

\* Two windows, one command at a time on its way to the desktop, and one operator
\* who uses the hosted service for some commands and the local socket for all.
CONSTANTS w1, w2, o1, alice
MCWindows == {w1, w2}
MCOps == {o1}
MCOperators == {alice}
MCPolicy == {<<alice, "begin">>, <<alice, "rebind_live">>}

\* Two directories and two contents beside the writer's own; four entries, one
\* filling a page and one too large for any.
MCDirs == {"dir1", "dir2"}
MCContents == {"old", "other"}
MCNames == 1..4
MCNameCost == [n \in 1..4 |-> IF n = 3 THEN 4 ELSE IF n = 4 THEN 5 ELSE 1]

VARIABLE part

desktopVars == <<handoffVars, terminalVars, routingVars, backendVars, filesVars,
                 stagingVars, part>>

DesktopInit ==
    /\ part \in {"handoff", "terminal", "routing", "backend", "files", "staging"}
    /\ HandoffInit /\ TerminalInit /\ RoutingInit /\ StagingInit
    /\ BackendInit /\ (part # "backend" => ownerFile.owner = "v2")
    /\ FilesInit /\ (part # "files" => surface = "read" /\ \A d \in Dirs : entry[d] = Absent)

DesktopNext ==
    /\ UNCHANGED part
    /\ \/ part = "handoff" /\ HandoffNext
          /\ UNCHANGED <<terminalVars, routingVars, backendVars, filesVars, stagingVars>>
       \/ part = "terminal" /\ TerminalNext
          /\ UNCHANGED <<handoffVars, routingVars, backendVars, filesVars, stagingVars>>
       \/ part = "routing" /\ RoutingNext
          /\ UNCHANGED <<handoffVars, terminalVars, backendVars, filesVars, stagingVars>>
       \/ part = "backend" /\ BackendNext
          /\ UNCHANGED <<handoffVars, terminalVars, routingVars, filesVars, stagingVars>>
       \/ part = "files" /\ FilesNext
          /\ UNCHANGED <<handoffVars, terminalVars, routingVars, backendVars, stagingVars>>
       \/ part = "staging" /\ StagingNext
          /\ UNCHANGED <<handoffVars, terminalVars, routingVars, backendVars, filesVars>>

DesktopSpec == DesktopInit /\ [][DesktopNext]_desktopVars

\* Exchanging the two members of each set, in all the sets at once.
Pairs == {BackendCallIds, MCWindows, RouteIds, StagingContexts}
DesktopSymmetry ==
    {p \in Permutations(UNION Pairs) :
        \/ \A x \in UNION Pairs : p[x] = x
        \/ \A S \in Pairs : \A x \in S : p[x] \in S \ {x}}
=============================================================================
