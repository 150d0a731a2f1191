---- MODULE HandoffRouting ----
(***************************************************************************)
(* The hosted handoff's route registry: a route belongs to one Agent       *)
(* generation and intervention epoch, a viewer attaches to the route and a *)
(* transport to the viewer, each attachment under the next generation.     *)
(* Nothing is durable.  Time is one step, RouteExpires: an expired route   *)
(* is pruned by every operation but detach and revoke.                     *)
(***************************************************************************)
EXTENDS Naturals, FiniteSets

CONSTANTS RouteIds, NoRoute, MaxEntries, MaxAttach

RouteState == [viewer : Nat, viewerOn : BOOLEAN, transport : Nat,
               transportOn : BOOLEAN, expired : BOOLEAN]

ASSUME RoutingConstants == NoRoute \notin RouteState

VARIABLES routes,  \* route id -> NoRoute or its state
          used,    \* ids drawn so far; a random id is never drawn twice
          viewers, \* every viewer lease handed out
          transports \* every transport lease handed out

routingVars == <<routes, used, viewers, transports>>

RoutingInit == /\ routes = [r \in RouteIds |-> NoRoute] /\ used = {}
               /\ viewers = {} /\ transports = {}

\* prune_expired.
Pruned == [r \in RouteIds |-> IF routes[r] # NoRoute /\ routes[r].expired
                              THEN NoRoute ELSE routes[r]]

LiveRoute(r) == Pruned[r] # NoRoute

CreateRoute(r) ==
    /\ r \notin used
    /\ Cardinality({x \in RouteIds : LiveRoute(x)}) < MaxEntries
    /\ used' = used \cup {r}
    /\ routes' = [Pruned EXCEPT ![r] =
                    [viewer |-> 0, viewerOn |-> FALSE, transport |-> 0,
                     transportOn |-> FALSE, expired |-> FALSE]]
    /\ UNCHANGED <<viewers, transports>>

\* Mutant: a viewer that attaches again keeps its generation.
AttachViewerAgain(r) ==
    /\ LiveRoute(r)
    /\ routes' = [Pruned EXCEPT ![r].viewer = 1, ![r].viewerOn = TRUE,
                                ![r].transportOn = FALSE]
    /\ viewers' = viewers \cup {[route |-> r, viewer |-> 1]}
    /\ UNCHANGED <<used, transports>>

\* A new viewer takes the route over: the old viewer's generation and its
\* transport are no longer current.
AttachViewer(r) ==
    /\ LiveRoute(r) /\ routes[r].viewer < MaxAttach
    /\ routes' = [Pruned EXCEPT ![r].viewer = @ + 1, ![r].viewerOn = TRUE,
                                ![r].transportOn = FALSE]
    /\ viewers' = viewers \cup {[route |-> r, viewer |-> routes[r].viewer + 1]}
    /\ UNCHANGED <<used, transports>>

ViewerCurrent(v) == /\ routes[v.route] # NoRoute /\ routes[v.route].viewerOn
                    /\ routes[v.route].viewer = v.viewer

AttachTransport(v) ==
    /\ LiveRoute(v.route) /\ ViewerCurrent(v) /\ routes[v.route].transport < MaxAttach
    /\ routes' = [Pruned EXCEPT ![v.route].transport = @ + 1,
                                ![v.route].transportOn = TRUE]
    /\ transports' = transports \cup
         {[route |-> v.route, viewer |-> v.viewer,
           transport |-> routes[v.route].transport + 1]}
    /\ UNCHANGED <<used, viewers>>

\* validate_transport, the question each frame of the human's asks.
Validates(t) == /\ LiveRoute(t.route) /\ ViewerCurrent(t)
                /\ routes[t.route].transportOn
                /\ routes[t.route].transport = t.transport

DetachViewer(v) ==
    /\ ViewerCurrent(v)
    /\ routes' = [routes EXCEPT ![v.route].viewerOn = FALSE,
                                ![v.route].transportOn = FALSE]
    /\ UNCHANGED <<used, viewers, transports>>

RevokeRoute(r) ==
    /\ routes[r] # NoRoute
    /\ routes' = [routes EXCEPT ![r] = NoRoute]
    /\ UNCHANGED <<used, viewers, transports>>

\* The ttl of a route passes; every attachment has renewed it.
RouteExpires(r) ==
    /\ routes[r] # NoRoute /\ ~routes[r].expired
    /\ routes' = [routes EXCEPT ![r].expired = TRUE]
    /\ UNCHANGED <<used, viewers, transports>>

RoutingNext == \/ \E r \in RouteIds : \/ CreateRoute(r) \/ AttachViewer(r)
                                      \/ RevokeRoute(r) \/ RouteExpires(r)
               \/ \E v \in viewers : AttachTransport(v) \/ DetachViewer(v)

RoutingSpec == RoutingInit /\ [][RoutingNext]_routingVars

-----------------------------------------------------------------------------

\* A lease that was superseded, detached, revoked or expired is dead: no
\* later attachment makes an old viewer or transport current again.
FencedStaysFenced ==
    [][/\ \A v \in viewers : (LiveRoute(v.route) /\ ViewerCurrent(v))' =>
                             (LiveRoute(v.route) /\ ViewerCurrent(v))
       /\ \A t \in transports : Validates(t)' => Validates(t)]_routingVars
====
