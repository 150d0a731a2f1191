--------------------------- MODULE DesktopProofs ----------------------------
(***************************************************************************)
(* What shares one desktop, proved for any number of windows, operators,   *)
(* routes, calls, files and terminal lines: hosted handoff routes, the     *)
(* calls of the two gateways, staged browser files, the windows and the    *)
(* terminal a person takes over, and the files written beside others.      *)
(***************************************************************************)
EXTENDS BackendCalls, HandoffRouting, TerminalHandoff, BrowserStaging,
        HumanHandoff, WorkspaceFiles, SequenceTheorems, TLAPS

-----------------------------------------------------------------------------
(* A lease on a hosted route that stopped being current stays so, for any  *)
(* number of routes, entries and attachments.                              *)

\* A route's generations only ever move forward under one id, so every lease
\* handed out is at or behind its route; and an id once drawn is never drawn
\* again, so a route that is gone cannot come back behind an old lease.
RoutingTypes ==
    /\ routes \in [RouteIds -> RouteState \cup {NoRoute}]
    /\ viewers \subseteq [route : RouteIds, viewer : Nat]
    /\ transports \subseteq [route : RouteIds, viewer : Nat, transport : Nat]

DrawnOnce ==
    /\ \A r \in RouteIds : routes[r] # NoRoute => r \in used
    /\ \A v \in viewers : v.route \in used
    /\ \A t \in transports : t.route \in used

LeasesBehind ==
    /\ \A v \in viewers : routes[v.route] # NoRoute =>
         v.viewer <= routes[v.route].viewer
    /\ \A t \in transports : routes[t.route] # NoRoute =>
         /\ t.viewer <= routes[t.route].viewer
         /\ t.transport <= routes[t.route].transport

RoutingIInv == RoutingTypes /\ DrawnOnce /\ LeasesBehind

\* How one step may change a route: it goes, it is drawn for the first time,
\* or it stays with generations that do not go back, is switched on only
\* under a new generation, and is not revived.
Advances(r) ==
    \/ routes'[r] = NoRoute
    \/ r \notin used
    \/ /\ routes[r] # NoRoute
       /\ routes[r].viewer <= routes'[r].viewer
       /\ routes[r].transport <= routes'[r].transport
       /\ routes'[r].viewerOn =>
            routes[r].viewerOn \/ routes[r].viewer < routes'[r].viewer
       /\ routes'[r].transportOn =>
            routes[r].transportOn \/ routes[r].transport < routes'[r].transport
       /\ routes[r].expired => routes'[r].expired

-----------------------------------------------------------------------------

LEMMA RoutingStarts == RoutingInit => RoutingIInv
BY DEF RoutingInit, RoutingIInv, RoutingTypes, DrawnOnce, LeasesBehind

\* What prune_expired leaves of a route.
LEMMA PrunedRoutes ==
    ASSUME RoutingTypes
    PROVE  /\ Pruned \in [RouteIds -> RouteState \cup {NoRoute}]
           /\ \A r \in RouteIds : Pruned[r] = routes[r] \/ Pruned[r] = NoRoute
           /\ \A r \in RouteIds : LiveRoute(r) =>
                /\ Pruned[r] = routes[r] /\ routes[r] \in RouteState
                /\ ~routes[r].expired
BY DEF RoutingTypes, Pruned, LiveRoute

\* What attaching and detaching make of a route.
LEMMA RouteChanges ==
    ASSUME NEW o \in RouteState
    PROVE  /\ [o EXCEPT !.viewer = @ + 1, !.viewerOn = TRUE,
                        !.transportOn = FALSE] \in RouteState
           /\ [o EXCEPT !.transport = @ + 1, !.transportOn = TRUE] \in RouteState
           /\ [o EXCEPT !.viewerOn = FALSE, !.transportOn = FALSE] \in RouteState
<1>1. /\ o.transport \in Nat /\ o.transport + 1 \in Nat
      /\ o.viewer \in Nat /\ o.viewer + 1 \in Nat
  BY DEF RouteState
<1>2. \A n \in Nat : [o EXCEPT !.viewer = n, !.viewerOn = TRUE,
                               !.transportOn = FALSE] \in RouteState
  BY DEF RouteState
<1>3. \A n \in Nat : [o EXCEPT !.transport = n, !.transportOn = TRUE] \in RouteState
  BY DEF RouteState
<1>4. [o EXCEPT !.viewerOn = FALSE, !.transportOn = FALSE] \in RouteState
  BY DEF RouteState
<1> QED BY <1>1, <1>2, <1>3, <1>4

\* create_route.
LEMMA CreateAdvances ==
    ASSUME RoutingIInv, NEW r \in RouteIds, CreateRoute(r)
    PROVE  RoutingIInv' /\ \A x \in RouteIds : Advances(x)
<1> DEFINE fresh == [viewer |-> 0, viewerOn |-> FALSE, transport |-> 0,
                     transportOn |-> FALSE, expired |-> FALSE]
<1>1. fresh \in RouteState
  BY DEF RouteState
<1>2. routes' = [Pruned EXCEPT ![r] = fresh] /\ r \notin used
      /\ used' = used \cup {r} /\ viewers' = viewers /\ transports' = transports
  BY DEF CreateRoute
<1> HIDE DEF fresh
<1>3. RoutingTypes'
  BY <1>1, <1>2, PrunedRoutes DEF RoutingIInv, RoutingTypes
<1>4. \A x \in RouteIds \ {r} : routes'[x] = routes[x] \/ routes'[x] = NoRoute
  BY <1>2, PrunedRoutes DEF RoutingIInv
<1>5. \A x \in RouteIds : Advances(x)
  <2> SUFFICES ASSUME NEW x \in RouteIds PROVE Advances(x)
    OBVIOUS
  <2>1. CASE x = r
    BY <1>2, <2>1 DEF Advances
  <2>2. CASE x # r /\ routes[x] # NoRoute
    <3>1. routes[x] \in RouteState
      BY <2>2 DEF RoutingIInv, RoutingTypes
    <3> QED BY <1>4, <2>2, <3>1 DEF Advances, RouteState
  <2>3. CASE x # r /\ routes[x] = NoRoute
    BY <1>4, <2>3 DEF Advances
  <2> QED BY <2>1, <2>2, <2>3
<1>6. DrawnOnce'
  BY <1>2, <1>4 DEF RoutingIInv, DrawnOnce
<1>7. \A x \in used : x # r
  BY <1>2
<1>8. LeasesBehind'
  BY <1>2, <1>4, <1>7 DEF RoutingIInv, RoutingTypes, DrawnOnce, LeasesBehind
<1> QED BY <1>3, <1>5, <1>6, <1>8 DEF RoutingIInv

\* Every other operation changes at most one route, which it leaves with
\* generations at least as high, and hands out at most one lease, of the
\* generations the route then has.
LEMMA ChangeAdvances ==
    ASSUME RoutingIInv, NEW r \in RouteIds, NEW s \in RouteState \cup {NoRoute},
           routes' \in [RouteIds -> RouteState \cup {NoRoute}],
           routes'[r] = s,
           \A x \in RouteIds \ {r} : routes'[x] = routes[x] \/ routes'[x] = NoRoute,
           s # NoRoute =>
             /\ routes[r] # NoRoute
             /\ routes[r].viewer <= s.viewer
             /\ routes[r].transport <= s.transport
             /\ s.viewerOn => routes[r].viewerOn \/ routes[r].viewer < s.viewer
             /\ s.transportOn =>
                  routes[r].transportOn \/ routes[r].transport < s.transport
             /\ routes[r].expired => s.expired,
           used' = used,
           \A v \in viewers' : \/ v \in viewers
                               \/ /\ v = [route |-> r, viewer |-> s.viewer]
                                  /\ s # NoRoute,
           \A t \in transports' :
               \/ t \in transports
               \/ /\ t = [route |-> r, viewer |-> s.viewer, transport |-> s.transport]
                  /\ s # NoRoute
    PROVE  RoutingIInv' /\ \A x \in RouteIds : Advances(x)
<1>1. \A x \in RouteIds : routes[x] # NoRoute =>
         routes[x].viewer \in Nat /\ routes[x].transport \in Nat
  BY DEF RoutingIInv, RoutingTypes, RouteState
<1>2. s # NoRoute => s.viewer \in Nat /\ s.transport \in Nat
  BY DEF RouteState
<1>3. RoutingTypes'
  <2>1. viewers' \subseteq [route : RouteIds, viewer : Nat]
    BY <1>2 DEF RoutingIInv, RoutingTypes
  <2>2. transports' \subseteq [route : RouteIds, viewer : Nat, transport : Nat]
    BY <1>2 DEF RoutingIInv, RoutingTypes
  <2> QED BY <2>1, <2>2 DEF RoutingTypes
<1>4. \A x \in RouteIds : Advances(x)
  <2> SUFFICES ASSUME NEW x \in RouteIds PROVE Advances(x)
    OBVIOUS
  <2>1. CASE x = r
    BY <2>1 DEF Advances
  <2>2. CASE x # r
    BY <1>1, <2>2 DEF Advances
  <2> QED BY <2>1, <2>2
<1>5. DrawnOnce'
  <2>1. \A x \in RouteIds : routes'[x] # NoRoute => x \in used
    BY DEF RoutingIInv, DrawnOnce
  <2>2. s # NoRoute => r \in used
    BY <2>1
  <2>3. \A v \in viewers' : v.route \in used
    BY <2>2 DEF RoutingIInv, DrawnOnce
  <2>4. \A t \in transports' : t.route \in used
    BY <2>2 DEF RoutingIInv, DrawnOnce
  <2> QED BY <2>1, <2>3, <2>4 DEF DrawnOnce
<1>6. \A x \in RouteIds : routes'[x] # NoRoute =>
         /\ routes[x] # NoRoute
         /\ routes[x].viewer <= routes'[x].viewer /\ routes'[x].viewer \in Nat
         /\ routes[x].transport <= routes'[x].transport /\ routes'[x].transport \in Nat
  BY <1>1, <1>2
<1>7. ASSUME NEW v \in viewers', routes'[v.route] # NoRoute
      PROVE  v.viewer <= routes'[v.route].viewer
  <2>1. CASE v \in viewers
    <3>1. v.route \in RouteIds /\ v.viewer \in Nat
      BY <2>1 DEF RoutingIInv, RoutingTypes
    <3>2. v.viewer <= routes[v.route].viewer
      BY <1>6, <1>7, <2>1, <3>1 DEF RoutingIInv, LeasesBehind
    <3> QED BY <1>1, <1>6, <1>7, <3>1, <3>2
  <2>2. CASE v = [route |-> r, viewer |-> s.viewer] /\ s # NoRoute
    BY <1>2, <2>2
  <2> QED BY <2>1, <2>2
<1>8. ASSUME NEW t \in transports', routes'[t.route] # NoRoute
      PROVE  /\ t.viewer <= routes'[t.route].viewer
             /\ t.transport <= routes'[t.route].transport
  <2>1. CASE t \in transports
    <3>1. t.route \in RouteIds /\ t.viewer \in Nat /\ t.transport \in Nat
      BY <2>1 DEF RoutingIInv, RoutingTypes
    <3>2. t.viewer <= routes[t.route].viewer /\ t.transport <= routes[t.route].transport
      BY <1>6, <1>8, <2>1, <3>1 DEF RoutingIInv, LeasesBehind
    <3> QED BY <1>1, <1>6, <1>8, <3>1, <3>2
  <2>2. CASE /\ t = [route |-> r, viewer |-> s.viewer, transport |-> s.transport]
             /\ s # NoRoute
    BY <1>2, <2>2
  <2> QED BY <2>1, <2>2
<1>9. LeasesBehind'
  BY <1>7, <1>8 DEF LeasesBehind
<1> QED BY <1>3, <1>4, <1>5, <1>9 DEF RoutingIInv

LEMMA AttachViewerAdvances ==
    ASSUME RoutingIInv, NEW r \in RouteIds, AttachViewer(r)
    PROVE  RoutingIInv' /\ \A x \in RouteIds : Advances(x)
<1> DEFINE s == [routes[r] EXCEPT !.viewer = @ + 1, !.viewerOn = TRUE,
                                  !.transportOn = FALSE]
<1>1. Pruned[r] = routes[r] /\ routes[r] \in RouteState /\ routes[r] # NoRoute
  BY PrunedRoutes, RoutingConstants DEF RoutingIInv, AttachViewer
<1>2. s \in RouteState /\ s # NoRoute
  <2>1. \A o \in RouteState :
          [o EXCEPT !.viewer = @ + 1, !.viewerOn = TRUE, !.transportOn = FALSE] \in RouteState
    BY RouteChanges
  <2>2. s \in RouteState
    BY <1>1, <2>1
  <2> QED BY <2>2, RoutingConstants
<1>3. /\ s.viewer = routes[r].viewer + 1 /\ s.transport = routes[r].transport
      /\ s.transportOn = FALSE /\ s.expired = routes[r].expired
  BY <1>1 DEF RouteState
<1>4. /\ routes' \in [RouteIds -> RouteState \cup {NoRoute}] /\ routes'[r] = s
      /\ \A x \in RouteIds \ {r} : routes'[x] = Pruned[x]
  <2>1. routes' = [Pruned EXCEPT ![r] = s]
    BY <1>1, PrunedRoutes DEF AttachViewer, RoutingIInv
  <2> HIDE DEF s
  <2> QED BY <1>2, <2>1, PrunedRoutes DEF RoutingIInv
<1>5. /\ viewers' = viewers \cup {[route |-> r, viewer |-> s.viewer]}
      /\ used' = used /\ transports' = transports
  BY <1>3 DEF AttachViewer
<1>6. routes[r].viewer \in Nat /\ routes[r].transport \in Nat
  BY <1>1 DEF RouteState
<1> HIDE DEF s
<1> QED BY <1>1, <1>2, <1>3, <1>4, <1>5, <1>6, PrunedRoutes, ChangeAdvances DEF RoutingIInv

LEMMA AttachTransportAdvances ==
    ASSUME RoutingIInv, NEW v \in viewers, AttachTransport(v)
    PROVE  RoutingIInv' /\ \A x \in RouteIds : Advances(x)
<1> DEFINE r == v.route
           s == [routes[r] EXCEPT !.transport = @ + 1, !.transportOn = TRUE]
<1>0. r \in RouteIds
  BY DEF RoutingIInv, RoutingTypes
<1>1. Pruned[r] = routes[r] /\ routes[r] \in RouteState /\ routes[r] # NoRoute
  BY <1>0, PrunedRoutes, RoutingConstants DEF RoutingIInv, AttachTransport
<1>2. s \in RouteState /\ s # NoRoute
  <2>1. \A o \in RouteState :
          [o EXCEPT !.transport = @ + 1, !.transportOn = TRUE] \in RouteState
    BY RouteChanges
  <2>2. s \in RouteState
    BY <1>1, <2>1
  <2> QED BY <2>2, RoutingConstants
<1>3. /\ s.viewer = routes[r].viewer /\ s.transport = routes[r].transport + 1
      /\ s.viewerOn = routes[r].viewerOn /\ s.expired = routes[r].expired
  BY <1>1 DEF RouteState
<1>4. /\ routes' \in [RouteIds -> RouteState \cup {NoRoute}] /\ routes'[r] = s
      /\ \A x \in RouteIds \ {r} : routes'[x] = Pruned[x]
  <2>1. routes' = [Pruned EXCEPT ![r] = s]
    BY <1>0, <1>1, PrunedRoutes DEF AttachTransport, RoutingIInv
  <2> HIDE DEF r, s
  <2> QED BY <1>0, <1>2, <2>1, PrunedRoutes DEF RoutingIInv
<1>5. /\ transports' = transports \cup
           {[route |-> r, viewer |-> s.viewer, transport |-> s.transport]}
      /\ used' = used /\ viewers' = viewers
  BY <1>3 DEF AttachTransport, ViewerCurrent
<1>6. routes[r].viewer \in Nat /\ routes[r].transport \in Nat
  BY <1>1 DEF RouteState
<1> HIDE DEF r, s
<1> QED BY <1>0, <1>1, <1>2, <1>3, <1>4, <1>5, <1>6, PrunedRoutes, ChangeAdvances DEF RoutingIInv

LEMMA DetachAdvances ==
    ASSUME RoutingIInv, NEW v \in viewers, DetachViewer(v)
    PROVE  RoutingIInv' /\ \A x \in RouteIds : Advances(x)
<1> DEFINE r == v.route
           s == [routes[r] EXCEPT !.viewerOn = FALSE, !.transportOn = FALSE]
<1>0. r \in RouteIds
  BY DEF RoutingIInv, RoutingTypes
<1>1. routes[r] \in RouteState /\ routes[r] # NoRoute
  BY <1>0 DEF RoutingIInv, RoutingTypes, DetachViewer, ViewerCurrent
<1>2. s \in RouteState /\ s # NoRoute
  BY <1>1, RoutingConstants DEF RouteState
<1>3. /\ s.viewer = routes[r].viewer /\ s.transport = routes[r].transport
      /\ s.viewerOn = FALSE /\ s.transportOn = FALSE /\ s.expired = routes[r].expired
  BY <1>1 DEF RouteState
<1>4. /\ routes' \in [RouteIds -> RouteState \cup {NoRoute}] /\ routes'[r] = s
      /\ \A x \in RouteIds \ {r} : routes'[x] = routes[x]
  <2>1. routes' = [routes EXCEPT ![r] = s]
    BY <1>0, <1>1 DEF DetachViewer, RoutingIInv, RoutingTypes
  <2> HIDE DEF r, s
  <2> QED BY <1>0, <1>2, <2>1 DEF RoutingIInv, RoutingTypes
<1>5. used' = used /\ viewers' = viewers /\ transports' = transports
  BY DEF DetachViewer
<1>6. routes[r].viewer \in Nat /\ routes[r].transport \in Nat
  BY <1>1 DEF RouteState
<1> HIDE DEF r, s
<1> QED BY <1>0, <1>1, <1>2, <1>3, <1>4, <1>5, <1>6, ChangeAdvances

LEMMA RevokeAdvances ==
    ASSUME RoutingIInv, NEW r \in RouteIds, RevokeRoute(r)
    PROVE  RoutingIInv' /\ \A x \in RouteIds : Advances(x)
<1>1. /\ routes' = [routes EXCEPT ![r] = NoRoute]
      /\ used' = used /\ viewers' = viewers /\ transports' = transports
  BY DEF RevokeRoute
<1>2. /\ routes' \in [RouteIds -> RouteState \cup {NoRoute}] /\ routes'[r] = NoRoute
      /\ \A x \in RouteIds \ {r} : routes'[x] = routes[x]
  BY <1>1 DEF RoutingIInv, RoutingTypes
<1> QED BY <1>1, <1>2, ChangeAdvances

LEMMA ExpireAdvances ==
    ASSUME RoutingIInv, NEW r \in RouteIds, RouteExpires(r)
    PROVE  RoutingIInv' /\ \A x \in RouteIds : Advances(x)
<1> DEFINE s == [routes[r] EXCEPT !.expired = TRUE]
<1>1. routes[r] \in RouteState /\ routes[r] # NoRoute
  BY DEF RoutingIInv, RoutingTypes, RouteExpires
<1>2. s \in RouteState /\ s # NoRoute
  BY <1>1, RoutingConstants DEF RouteState
<1>3. /\ s.viewer = routes[r].viewer /\ s.transport = routes[r].transport
      /\ s.viewerOn = routes[r].viewerOn /\ s.transportOn = routes[r].transportOn
      /\ s.expired = TRUE
  BY <1>1 DEF RouteState
<1>4. /\ routes' \in [RouteIds -> RouteState \cup {NoRoute}] /\ routes'[r] = s
      /\ \A x \in RouteIds \ {r} : routes'[x] = routes[x]
  <2>1. routes' = [routes EXCEPT ![r] = s]
    BY <1>1 DEF RouteExpires, RoutingIInv, RoutingTypes
  <2> HIDE DEF s
  <2> QED BY <1>2, <2>1 DEF RoutingIInv, RoutingTypes
<1>5. used' = used /\ viewers' = viewers /\ transports' = transports
  BY DEF RouteExpires
<1>6. routes[r].viewer \in Nat /\ routes[r].transport \in Nat
  BY <1>1 DEF RouteState
<1> HIDE DEF s
<1> QED BY <1>1, <1>2, <1>3, <1>4, <1>5, <1>6, ChangeAdvances

LEMMA RoutingSteps ==
    ASSUME RoutingIInv, RoutingNext
    PROVE  RoutingIInv' /\ \A x \in RouteIds : Advances(x)
BY CreateAdvances, AttachViewerAdvances, AttachTransportAdvances, DetachAdvances,
   RevokeAdvances, ExpireAdvances DEF RoutingNext

LEMMA RoutingStutters ==
    ASSUME RoutingIInv, UNCHANGED routingVars
    PROVE  RoutingIInv'
BY DEF routingVars, RoutingIInv, RoutingTypes, DrawnOnce, LeasesBehind

\* Leases are at or behind their routes, and no route id is drawn twice.
THEOREM RoutingKeepsLeasesBehind == RoutingSpec => []RoutingIInv
<1>1. RoutingIInv /\ [RoutingNext]_routingVars => RoutingIInv'
  BY RoutingSteps, RoutingStutters
<1> QED BY RoutingStarts, <1>1, PTL DEF RoutingSpec

\* A lease behind its route cannot become current in a step that advances it.
LEMMA FencedStep ==
    ASSUME RoutingIInv, \A x \in RouteIds : Advances(x)
    PROVE  /\ \A v \in viewers : (LiveRoute(v.route) /\ ViewerCurrent(v))' =>
                                 (LiveRoute(v.route) /\ ViewerCurrent(v))
           /\ \A t \in transports : Validates(t)' => Validates(t)
<1>0. \A x \in RouteIds : routes[x] # NoRoute =>
         routes[x].viewer \in Nat /\ routes[x].transport \in Nat
  BY DEF RoutingIInv, RoutingTypes, RouteState
<1>1. ASSUME NEW v \in viewers, (LiveRoute(v.route) /\ ViewerCurrent(v))'
      PROVE  LiveRoute(v.route) /\ ViewerCurrent(v)
  <2>1. v.route \in RouteIds /\ v.viewer \in Nat /\ v.route \in used
    BY DEF RoutingIInv, RoutingTypes, DrawnOnce
  <2>2. /\ routes'[v.route] # NoRoute /\ ~routes'[v.route].expired
        /\ routes'[v.route].viewerOn /\ routes'[v.route].viewer = v.viewer
    BY <1>1, <2>1 DEF LiveRoute, Pruned, ViewerCurrent
  <2>3. routes[v.route] # NoRoute /\ v.viewer <= routes[v.route].viewer
    BY <2>1, <2>2 DEF RoutingIInv, LeasesBehind, Advances
  <2> QED BY <1>0, <2>1, <2>2, <2>3 DEF Advances, LiveRoute, Pruned, ViewerCurrent
<1>2. ASSUME NEW t \in transports, Validates(t)'
      PROVE  Validates(t)
  <2>1. /\ t.route \in RouteIds /\ t.viewer \in Nat /\ t.transport \in Nat
        /\ t.route \in used
    BY DEF RoutingIInv, RoutingTypes, DrawnOnce
  <2>2. /\ routes'[t.route] # NoRoute /\ ~routes'[t.route].expired
        /\ routes'[t.route].viewerOn /\ routes'[t.route].viewer = t.viewer
        /\ routes'[t.route].transportOn /\ routes'[t.route].transport = t.transport
    BY <1>2, <2>1 DEF Validates, LiveRoute, Pruned, ViewerCurrent
  <2>3. /\ routes[t.route] # NoRoute /\ t.viewer <= routes[t.route].viewer
        /\ t.transport <= routes[t.route].transport
    BY <2>1, <2>2 DEF RoutingIInv, LeasesBehind, Advances
  <2> QED BY <1>0, <2>1, <2>2, <2>3
        DEF Advances, Validates, LiveRoute, Pruned, ViewerCurrent
<1> QED BY <1>1, <1>2

\* No later attachment makes an old viewer or transport current again.
THEOREM RoutingFencesForGood == RoutingSpec => FencedStaysFenced
<1>1. RoutingIInv /\ [RoutingNext]_routingVars =>
      [/\ \A v \in viewers : (LiveRoute(v.route) /\ ViewerCurrent(v))' =>
                             (LiveRoute(v.route) /\ ViewerCurrent(v))
       /\ \A t \in transports : Validates(t)' => Validates(t)]_routingVars
  BY RoutingSteps, FencedStep
<1> QED BY RoutingKeepsLeasesBehind, <1>1, PTL DEF RoutingSpec, FencedStaysFenced

-----------------------------------------------------------------------------
(* The calls of the two gateways.  The argument follows the provider       *)
(* process a call was sent to: a number that only grows, under a link that *)
(* a timeout or a lost response takes down before the operation lock is    *)
(* given up.                                                               *)

Places == {"idle", "queued", "ready", "sent", "over"}
Events == Answers \cup {"no_permit", "unreachable", "cancelled", "lost", "timed_out"}
Reports == {"completed", "failed", "error", "indeterminate"}
CallType == [at : Places, role : Owners, form : Forms, mutates : BOOLEAN,
             phase : {"start", "main"}, link : Nat,
             answer : {"none", "staging"} \cup Answers, acted : BOOLEAN,
             told : {"none"} \cup Reports, ended : {"none"} \cup Events]

BackendTypeOK ==
    /\ ownerFile \in [owner : Owners, epoch : Nat]
    /\ ownerLock \in BackendCallIds \cup {Nobody}
    /\ link \in [Owners -> [n : Nat, up : BOOLEAN]]
    /\ operation \in [Owners -> BackendCallIds \cup {Nobody}]
    /\ backendCall \in [BackendCallIds -> CallType]
    /\ acting \in SUBSET BackendCallIds

\* A call that is being sent or waited for has the operation lock of its role.
LockHeld == \A c \in BackendCallIds : Waiting(c) => operation[backendCall[c].role] = c

\* Nothing has come of a call before it was sent, and nobody was told of it before
\* it was over.
UnsentIsBlank ==
    \A c \in BackendCallIds :
        /\ backendCall[c].at \in {"idle", "queued", "ready"} =>
              /\ backendCall[c].link = 0 /\ backendCall[c].answer = "none"
              /\ ~backendCall[c].acted
        /\ backendCall[c].at # "over" =>
              backendCall[c].told = "none" /\ backendCall[c].answer # "staging"
        /\ backendCall[c].acted => backendCall[c].link > 0

\* A call was sent to a process that was started, and is worked on only by the one
\* that is live now.
LinksGrow == \A c \in BackendCallIds : backendCall[c].link <= link[backendCall[c].role].n
OnTheLiveLink(c) == /\ Live(backendCall[c].role)
                    /\ backendCall[c].link = link[backendCall[c].role].n
                    /\ backendCall[c].link > 0
WorkIsLive ==
    \A c \in acting : /\ OnTheLiveLink(c) /\ backendCall[c].answer = "none"
                      /\ backendCall[c].at \in {"sent", "over"}

\* The live process may only still be working on a call that is over if it was cancelled.
LeftIsCancelled ==
    \A c \in BackendCallIds :
        backendCall[c].at = "over" /\ OnTheLiveLink(c) =>
            backendCall[c].ended = "cancelled" \/ backendCall[c].answer # "none"

\* An effectful call that was sent is called failed only after an answer.
FailureIsAnswered ==
    \A c \in BackendCallIds :
        /\ backendCall[c].told = "failed" /\ backendCall[c].mutates
        /\ backendCall[c].link > 0
        => backendCall[c].answer # "none"

\* A call nobody waited for was not called completed.
CancelledIsOpen ==
    \A c \in BackendCallIds :
        backendCall[c].ended = "cancelled" => backendCall[c].told # "completed"

\* The inductive invariant.
BackendIInv ==
    /\ BackendTypeOK /\ LockHeld /\ PermitCoversTheCall /\ UnsentIsBlank
    /\ LinksGrow /\ WorkIsLive /\ LeftIsCancelled /\ FailureIsAnswered /\ CancelledIsOpen

-----------------------------------------------------------------------------
(* The operators the actions are made of.                                  *)

\* Every outcome function names a report.
LEMMA OutcomeIsReport ==
    ASSUME NEW call \in CallType, NEW event \in Events
    PROVE  Outcome(call, event) \in Reports
BY DEF Outcome, SessionOutcome, GatewayOutcome, MacosOutcome, BrowserOutcome, UploadOutcome,
       DownloadOutcome, NativeOutcome, Unless, Reports, Events, Answers, CallType, Forms

\* Silence is never called failure, in whatever form the call was made.
LEMMA SilenceOutcome ==
    ASSUME NEW call \in CallType, NEW event \in {"cancelled", "lost", "timed_out"}, call.mutates
    PROVE  Outcome(call, event) # "failed"
BY DEF Outcome, SessionOutcome, GatewayOutcome, MacosOutcome, BrowserOutcome, UploadOutcome,
       DownloadOutcome, NativeOutcome, Unless, CallType, Forms

\* Nor is a cancelled call called completed.
LEMMA CancelledOutcome ==
    ASSUME NEW call \in CallType
    PROVE  Outcome(call, "cancelled") # "completed"
BY DEF Outcome, SessionOutcome, GatewayOutcome, MacosOutcome, BrowserOutcome, UploadOutcome,
       DownloadOutcome, NativeOutcome, Unless, CallType, Forms

-----------------------------------------------------------------------------
(* A call that ends.                                                       *)

\* End changes nothing but where the call stands, what its caller was told and the locks.
LEMMA EndEffect ==
    ASSUME BackendTypeOK, NEW c \in BackendCallIds, NEW event \in Events, End(c, event)
    PROVE  /\ backendCall' \in [BackendCallIds -> CallType]
           /\ \A d \in BackendCallIds \ {c} : backendCall'[d] = backendCall[d]
           /\ backendCall'[c].at = "over" /\ backendCall'[c].ended = event
           /\ backendCall'[c].told = Outcome(backendCall[c], event)
           /\ backendCall'[c].role = backendCall[c].role
           /\ backendCall'[c].mutates = backendCall[c].mutates
           /\ backendCall'[c].link = backendCall[c].link
           /\ backendCall'[c].answer = backendCall[c].answer
           /\ backendCall'[c].acted = backendCall[c].acted
           /\ ownerLock' \in BackendCallIds \cup {Nobody}
           /\ operation' \in [Owners -> BackendCallIds \cup {Nobody}]
           /\ \A r \in Owners : r # backendCall[c].role => operation'[r] = operation[r]
           /\ ownerLock # c => ownerLock' = ownerLock
<1> DEFINE call == backendCall[c]
           told == Outcome(call, event)
           over == [call EXCEPT !.at = "over", !.ended = event, !.told = told]
<1>1. call \in CallType BY DEF BackendTypeOK
<1>2. told \in Reports BY <1>1, OutcomeIsReport
<1>3. backendCall' = [backendCall EXCEPT ![c] = over] BY DEF End
<1> HIDE DEF told
<1>4. /\ over \in CallType /\ over.at = "over" /\ over.ended = event /\ over.told = told
      /\ over.role = call.role /\ over.mutates = call.mutates /\ over.link = call.link
      /\ over.answer = call.answer /\ over.acted = call.acted
  BY <1>1, <1>2 DEF CallType, Places
<1> HIDE DEF over
<1>5. backendCall' \in [BackendCallIds -> CallType]
  BY <1>3, <1>4 DEF BackendTypeOK
<1>6. /\ backendCall'[c] = over
      /\ \A d \in BackendCallIds \ {c} : backendCall'[d] = backendCall[d]
  BY <1>3 DEF BackendTypeOK
<1>7. call.role \in Owners BY <1>1 DEF CallType
<1>8. /\ ownerLock' \in BackendCallIds \cup {Nobody}
      /\ operation' \in [Owners -> BackendCallIds \cup {Nobody}]
      /\ \A r \in Owners : r # call.role => operation'[r] = operation[r]
      /\ ownerLock # c => ownerLock' = ownerLock
  BY <1>7 DEF End, Release, BackendTypeOK
<1>9. QED BY <1>4, <1>5, <1>6, <1>8 DEF told

\* A call that was being sent or waited for takes no lock or permit from another one.
LEMMA EndKeepsLocks ==
    ASSUME BackendIInv, NEW c \in BackendCallIds, NEW event \in Events, Waiting(c),
           End(c, event), ownerFile' = ownerFile
    PROVE  LockHeld' /\ PermitCoversTheCall' /\ UnsentIsBlank'
<1>1. BackendTypeOK BY DEF BackendIInv
<1>2. LockHeld'
  <2> SUFFICES ASSUME NEW d \in BackendCallIds, Waiting(d)'
               PROVE  operation'[backendCall'[d].role] = d
    BY DEF LockHeld
  <2>1. d # c BY <1>1, EndEffect DEF Waiting
  <2>2. backendCall'[d] = backendCall[d] BY <1>1, <2>1, EndEffect
  <2>3. operation[backendCall[d].role] = d BY <2>2 DEF BackendIInv, LockHeld, Waiting
  <2>4. operation[backendCall[c].role] = c BY DEF BackendIInv, LockHeld
  <2>5. backendCall[d].role \in Owners BY <1>1 DEF BackendTypeOK, CallType
  <2>6. QED BY <1>1, <2>1, <2>2, <2>3, <2>4, <2>5, EndEffect
<1>3. PermitCoversTheCall'
  <2> SUFFICES ASSUME NEW d \in BackendCallIds, Waiting(d)', NeedsPermit(backendCall'[d])
               PROVE  ownerLock' = d /\ ownerFile'.owner = backendCall'[d].role
    BY DEF PermitCoversTheCall
  <2>1. d # c BY <1>1, EndEffect DEF Waiting
  <2>2. backendCall'[d] = backendCall[d] BY <1>1, <2>1, EndEffect
  <2>3. ownerLock = d /\ ownerFile.owner = backendCall[d].role
    BY <2>2 DEF BackendIInv, PermitCoversTheCall, Waiting
  <2>4. QED BY <1>1, <2>1, <2>2, <2>3, EndEffect
<1>4. UnsentIsBlank'
  <2> SUFFICES ASSUME NEW d \in BackendCallIds
               PROVE  /\ backendCall'[d].at \in {"idle", "queued", "ready"} =>
                            /\ backendCall'[d].link = 0 /\ backendCall'[d].answer = "none"
                            /\ ~backendCall'[d].acted
                      /\ backendCall'[d].at # "over" =>
                            backendCall'[d].told = "none" /\ backendCall'[d].answer # "staging"
                      /\ backendCall'[d].acted => backendCall'[d].link > 0
    BY DEF UnsentIsBlank
  <2>1. CASE d # c
    BY <1>1, <2>1, EndEffect DEF BackendIInv, UnsentIsBlank
  <2>2. CASE d = c
    BY <1>1, <2>2, EndEffect DEF BackendIInv, UnsentIsBlank
  <2>3. QED BY <2>1, <2>2
<1>5. QED BY <1>2, <1>3, <1>4

\* A failure that is told is told of a call that was not sent, or after its answer.
LEMMA EndKeepsFailures ==
    ASSUME BackendIInv, NEW c \in BackendCallIds, NEW event \in Events, End(c, event),
           \/ event \in {"cancelled", "lost", "timed_out"}
           \/ backendCall[c].link = 0
           \/ backendCall[c].answer # "none"
    PROVE  FailureIsAnswered' /\ CancelledIsOpen'
<1>a. CancelledIsOpen'
  <2>1. BackendTypeOK BY DEF BackendIInv
  <2>2. Outcome(backendCall[c], "cancelled") # "completed"
    BY <2>1, CancelledOutcome DEF BackendTypeOK
  <2>3. QED BY <2>1, <2>2, EndEffect DEF BackendIInv, CancelledIsOpen
<1> SUFFICES ASSUME NEW d \in BackendCallIds, backendCall'[d].told = "failed",
                    backendCall'[d].mutates, backendCall'[d].link > 0
             PROVE  backendCall'[d].answer # "none"
  BY <1>a DEF FailureIsAnswered
<1>1. BackendTypeOK BY DEF BackendIInv
<1>2. CASE d # c BY <1>1, <1>2, EndEffect DEF BackendIInv, FailureIsAnswered
<1>3. CASE d = c
  <2>1. backendCall[c] \in CallType BY <1>1 DEF BackendTypeOK
  <2>2. backendCall[c].mutates /\ Outcome(backendCall[c], event) = "failed"
        /\ backendCall[c].link > 0 /\ backendCall'[d].answer = backendCall[c].answer
    BY <1>1, <1>3, EndEffect
  <2>3. event \notin {"cancelled", "lost", "timed_out"} BY <2>1, <2>2, SilenceOutcome
  <2>4. backendCall[c].link # 0 BY <2>1, <2>2 DEF CallType
  <2>5. QED BY <2>2, <2>3, <2>4
<1>4. QED BY <1>2, <1>3

\* A call that ends while its link stays as it is: cancelled, answered, or never sent.
LEMMA EndOnLink ==
    ASSUME BackendIInv, NEW c \in BackendCallIds, NEW event \in Events, Waiting(c),
           End(c, event), UNCHANGED <<ownerFile, link, acting>>,
           \/ event = "cancelled"
           \/ backendCall[c].link = 0
           \/ backendCall[c].answer # "none"
    PROVE  BackendIInv'
<1>1. BackendTypeOK BY DEF BackendIInv
<1>2. BackendTypeOK' BY <1>1, EndEffect DEF BackendTypeOK
<1>3. LockHeld' /\ PermitCoversTheCall' /\ UnsentIsBlank' BY EndKeepsLocks
<1>4. FailureIsAnswered' /\ CancelledIsOpen' BY EndKeepsFailures
<1>5. \A d \in BackendCallIds : /\ backendCall'[d].role = backendCall[d].role
                               /\ backendCall'[d].link = backendCall[d].link
                               /\ backendCall'[d].answer = backendCall[d].answer
  BY <1>1, EndEffect
<1>6. LinksGrow' BY <1>5 DEF BackendIInv, LinksGrow
<1>7. WorkIsLive'
  <2>1. \A d \in acting : backendCall'[d].at \in {"sent", "over"}
    BY <1>1, EndEffect DEF BackendIInv, WorkIsLive, BackendTypeOK
  <2>2. QED BY <1>1, <1>5, <2>1 DEF BackendIInv, WorkIsLive, OnTheLiveLink, Live, BackendTypeOK
<1>8. LeftIsCancelled'
  <2> SUFFICES ASSUME NEW d \in BackendCallIds, backendCall'[d].at = "over", OnTheLiveLink(d)'
               PROVE  backendCall'[d].ended = "cancelled" \/ backendCall'[d].answer # "none"
    BY DEF LeftIsCancelled
  <2>1. OnTheLiveLink(d) BY <1>5 DEF OnTheLiveLink, Live
  <2>2. CASE d # c
    BY <1>1, <2>1, <2>2, EndEffect DEF BackendIInv, LeftIsCancelled
  <2>3. CASE d = c
    <3>1. backendCall[c].link # 0
      BY <1>1, <2>1, <2>3 DEF OnTheLiveLink, BackendTypeOK, CallType
    <3>2. QED BY <1>1, <2>3, <3>1, EndEffect
  <2>4. QED BY <2>2, <2>3
<1>9. QED BY <1>2, <1>3, <1>4, <1>6, <1>7, <1>8 DEF BackendIInv

\* A call that ends with its link: the provider process and what it worked on are gone.
LEMMA EndWithLink ==
    ASSUME BackendIInv, NEW c \in BackendCallIds, NEW event \in {"lost", "timed_out"},
           Waiting(c), End(c, event), ownerFile' = ownerFile,
           Closed(backendCall[c].role), acting' = acting \ Killed(backendCall[c].role)
    PROVE  BackendIInv'
<1> DEFINE role == backendCall[c].role
<1>1. BackendTypeOK /\ event \in Events BY DEF BackendIInv, Events
<1>2. role \in Owners BY <1>1 DEF BackendTypeOK, CallType
<1>3. /\ link' \in [Owners -> [n : Nat, up : BOOLEAN]]
      /\ ~link'[role].up
      /\ \A r \in Owners : link'[r].n = link[r].n /\ (r # role => link'[r] = link[r])
  BY <1>1, <1>2 DEF Closed, BackendTypeOK
<1>4. BackendTypeOK' BY <1>1, <1>3, EndEffect DEF BackendTypeOK
<1>5. LockHeld' /\ PermitCoversTheCall' /\ UnsentIsBlank' BY <1>1, EndKeepsLocks
<1>6. FailureIsAnswered' /\ CancelledIsOpen' BY <1>1, EndKeepsFailures
<1>7. \A d \in BackendCallIds : /\ backendCall'[d].role = backendCall[d].role
                               /\ backendCall'[d].link = backendCall[d].link
                               /\ backendCall'[d].answer = backendCall[d].answer
                               /\ backendCall[d].role \in Owners
  BY <1>1, EndEffect DEF BackendTypeOK, CallType
<1>8. LinksGrow' BY <1>3, <1>7 DEF BackendIInv, LinksGrow
<1>9. WorkIsLive'
  <2> SUFFICES ASSUME NEW d \in acting'
               PROVE  /\ OnTheLiveLink(d)' /\ backendCall'[d].answer = "none"
                      /\ backendCall'[d].at \in {"sent", "over"}
    BY DEF WorkIsLive
  <2>1. d \in acting /\ d \in BackendCallIds /\ backendCall[d].role # role
    BY <1>1 DEF Killed, BackendTypeOK
  <2>2. d # c BY <2>1
  <2>3. backendCall'[d] = backendCall[d] BY <1>1, <2>1, <2>2, EndEffect
  <2>4. link'[backendCall[d].role] = link[backendCall[d].role] BY <1>3, <1>7, <2>1
  <2>5. QED BY <2>1, <2>3, <2>4 DEF BackendIInv, WorkIsLive, OnTheLiveLink, Live
<1>10. LeftIsCancelled'
  <2> SUFFICES ASSUME NEW d \in BackendCallIds, backendCall'[d].at = "over", OnTheLiveLink(d)'
               PROVE  backendCall'[d].ended = "cancelled" \/ backendCall'[d].answer # "none"
    BY DEF LeftIsCancelled
  <2>1. backendCall[d].role # role BY <1>3, <1>7 DEF OnTheLiveLink, Live
  <2>2. d # c BY <2>1
  <2>3. backendCall'[d] = backendCall[d] BY <1>1, <2>2, EndEffect
  <2>4. link'[backendCall[d].role] = link[backendCall[d].role] BY <1>3, <1>7, <2>1
  <2>5. QED BY <2>3, <2>4 DEF BackendIInv, LeftIsCancelled, OnTheLiveLink, Live
<1>11. QED BY <1>4, <1>5, <1>6, <1>8, <1>9, <1>10 DEF BackendIInv

-----------------------------------------------------------------------------
(* A call that goes on.                                                    *)

\* A call as it may stand beside the links and the work there are.
CallFits(c, call) ==
    /\ call \in CallType
    /\ call.at \in {"idle", "queued", "ready"} =>
          call.link = 0 /\ call.answer = "none" /\ ~call.acted
    /\ call.at # "over" => call.told = "none" /\ call.answer # "staging"
    /\ call.acted => call.link > 0
    /\ call.link <= link[call.role].n
    /\ c \in acting' => /\ Live(call.role) /\ call.link = link[call.role].n /\ call.link > 0
                        /\ call.answer = "none" /\ call.at \in {"sent", "over"}
    /\ (call.at = "over" /\ Live(call.role) /\ call.link = link[call.role].n
          /\ call.link > 0)
       => call.ended = "cancelled" \/ call.answer # "none"
    /\ call.told = "failed" /\ call.mutates /\ call.link > 0 => call.answer # "none"
    /\ call.ended = "cancelled" => call.told # "completed"

\* The locks of the other calls stay, and the call has the ones it needs.
LocksFit(c, call) ==
    /\ ownerLock' \in BackendCallIds \cup {Nobody}
    /\ operation' \in [Owners -> BackendCallIds \cup {Nobody}]
    /\ \A d \in BackendCallIds \ {c} : Waiting(d) =>
           /\ operation'[backendCall[d].role] = operation[backendCall[d].role]
           /\ NeedsPermit(backendCall[d]) => ownerLock' = ownerLock
    /\ call.at \in {"ready", "sent"} =>
           /\ operation'[call.role] = c
           /\ NeedsPermit(call) => ownerLock' = c /\ ownerFile.owner = call.role

\* A step that changes one call, the work on it and its locks.
LEMMA CallGoesOn ==
    ASSUME BackendIInv, NEW c \in BackendCallIds, NEW call,
           backendCall' = [backendCall EXCEPT ![c] = call],
           ownerFile' = ownerFile, link' = link,
           acting' \in SUBSET BackendCallIds, acting' \ {c} = acting \ {c},
           CallFits(c, call), LocksFit(c, call)
    PROVE  BackendIInv'
<1> USE DEF CallFits, LocksFit
<1>1. BackendTypeOK BY DEF BackendIInv
<1>2. /\ backendCall'[c] = call
      /\ \A d \in BackendCallIds \ {c} : backendCall'[d] = backendCall[d]
  BY <1>1 DEF BackendTypeOK
<1>3. BackendTypeOK' BY <1>1 DEF BackendTypeOK
<1>4. LockHeld' BY <1>2 DEF BackendIInv, LockHeld, Waiting
<1>5. PermitCoversTheCall' BY <1>2 DEF BackendIInv, PermitCoversTheCall, Waiting, NeedsPermit
<1>6. UnsentIsBlank' BY <1>2 DEF BackendIInv, UnsentIsBlank
<1>7. LinksGrow' BY <1>2 DEF BackendIInv, LinksGrow
<1>8. WorkIsLive' BY <1>1, <1>2 DEF BackendIInv, WorkIsLive, OnTheLiveLink, Live, BackendTypeOK
<1>9. LeftIsCancelled' BY <1>2 DEF BackendIInv, LeftIsCancelled, OnTheLiveLink, Live
<1>10. FailureIsAnswered' /\ CancelledIsOpen'
  BY <1>2 DEF BackendIInv, FailureIsAnswered, CancelledIsOpen
<1>11. QED BY <1>3, <1>4, <1>5, <1>6, <1>7, <1>8, <1>9, <1>10 DEF BackendIInv

\* Only a link changes, and only of a role whose work on it is taken away: it goes down,
\* or is another one from now on.
LEMMA LinkMovesOn ==
    ASSUME BackendIInv, NEW role \in Owners, NEW new \in [n : Nat, up : BOOLEAN],
           link' = [link EXCEPT ![role] = new], acting' = acting \ Killed(role),
           \/ ~new.up /\ new.n = link[role].n
           \/ new.n > link[role].n,
           UNCHANGED <<ownerFile, ownerLock, operation, backendCall>>
    PROVE  BackendIInv'
<1>1. BackendTypeOK BY DEF BackendIInv
<1>2. /\ link' \in [Owners -> [n : Nat, up : BOOLEAN]]
      /\ link'[role] = new /\ \A r \in Owners \ {role} : link'[r] = link[r]
  BY <1>1 DEF BackendTypeOK
<1>3. \A c \in BackendCallIds : backendCall[c].role \in Owners /\ backendCall[c].link \in Nat
  BY <1>1 DEF BackendTypeOK, CallType
<1>4. BackendTypeOK' BY <1>1, <1>2 DEF BackendTypeOK
<1>5. LockHeld' /\ PermitCoversTheCall' /\ UnsentIsBlank' /\ FailureIsAnswered'
      /\ CancelledIsOpen'
  BY DEF BackendIInv, LockHeld, PermitCoversTheCall, UnsentIsBlank, FailureIsAnswered,
         CancelledIsOpen, Waiting, NeedsPermit
<1>6. link[role].n \in Nat /\ new.n \in Nat BY <1>1 DEF BackendTypeOK
<1>7. LinksGrow'
  <2> SUFFICES ASSUME NEW c \in BackendCallIds
               PROVE  backendCall[c].link <= link'[backendCall[c].role].n
    BY DEF LinksGrow
  <2>1. backendCall[c].link <= link[backendCall[c].role].n BY DEF BackendIInv, LinksGrow
  <2>2. CASE backendCall[c].role = role BY <1>2, <1>3, <1>6, <2>1, <2>2
  <2>3. CASE backendCall[c].role # role BY <1>2, <1>3, <2>1, <2>3
  <2>4. QED BY <2>2, <2>3
<1>8. \A c \in BackendCallIds : OnTheLiveLink(c)' =>
                               backendCall[c].role # role /\ OnTheLiveLink(c)
  <2> SUFFICES ASSUME NEW c \in BackendCallIds, OnTheLiveLink(c)'
               PROVE  backendCall[c].role # role /\ OnTheLiveLink(c)
    OBVIOUS
  <2>1. backendCall[c].link <= link[backendCall[c].role].n BY DEF BackendIInv, LinksGrow
  <2>2. backendCall[c].role # role
    BY <1>2, <1>3, <1>6, <2>1 DEF OnTheLiveLink, Live
  <2>3. QED BY <1>2, <1>3, <2>2 DEF OnTheLiveLink, Live
<1>9. LeftIsCancelled' BY <1>8 DEF BackendIInv, LeftIsCancelled
<1>10. WorkIsLive'
  BY <1>1, <1>2, <1>3 DEF BackendIInv, WorkIsLive, OnTheLiveLink, Live, Killed, BackendTypeOK
<1>11. QED BY <1>4, <1>5, <1>7, <1>9, <1>10 DEF BackendIInv

-----------------------------------------------------------------------------
(* The actions.                                                            *)

\* At first no call was made.
LEMMA BackendStarts == BackendInit => BackendIInv
<1> SUFFICES ASSUME BackendInit PROVE BackendIInv
  OBVIOUS
<1>1. IdleCall \in CallType
  BY DEF IdleCall, CallType, Places, Owners, Forms
<1>2. \A c \in BackendCallIds : backendCall[c] = IdleCall BY DEF BackendInit
<1>3. BackendTypeOK BY <1>1 DEF BackendInit, BackendTypeOK, Owners
<1>4. /\ IdleCall.at = "idle" /\ IdleCall.link = 0 /\ IdleCall.answer = "none"
      /\ IdleCall.acted = FALSE /\ IdleCall.told = "none" /\ IdleCall.ended = "none"
      /\ IdleCall.role = "v1"
  BY DEF IdleCall
<1>5. link["v1"].n = 0 BY DEF BackendInit, Owners
<1>6. acting = {} BY DEF BackendInit
<1>7. LinksGrow BY <1>2, <1>4, <1>5 DEF LinksGrow
<1>8. LockHeld /\ PermitCoversTheCall /\ UnsentIsBlank BY <1>2, <1>4
        DEF LockHeld, PermitCoversTheCall, UnsentIsBlank, Waiting
<1>9. WorkIsLive BY <1>6 DEF WorkIsLive
<1>10. LeftIsCancelled /\ FailureIsAnswered /\ CancelledIsOpen BY <1>2, <1>4
        DEF LeftIsCancelled, FailureIsAnswered, CancelledIsOpen
<1>11. QED BY <1>3, <1>7, <1>8, <1>9, <1>10 DEF BackendIInv

\* A switch of the owner finds the lock free, so that no effectful call is waited for.
LEMMA SwitchKeeps ==
    ASSUME BackendIInv, NEW from \in Owners, NEW to \in Owners, Switch(from, to)
    PROVE  BackendIInv'
<1>1. BackendTypeOK' BY DEF BackendIInv, BackendTypeOK, Switch
<1>2. PermitCoversTheCall'
  BY BackendConstants DEF BackendIInv, PermitCoversTheCall, Switch, Waiting, NeedsPermit
<1>3. LockHeld' /\ UnsentIsBlank' /\ LinksGrow' /\ WorkIsLive' /\ LeftIsCancelled'
      /\ FailureIsAnswered' /\ CancelledIsOpen'
  BY DEF BackendIInv, LockHeld, UnsentIsBlank, LinksGrow, WorkIsLive, LeftIsCancelled,
         FailureIsAnswered, CancelledIsOpen, Switch, Waiting, OnTheLiveLink, Live
<1>4. QED BY <1>1, <1>2, <1>3 DEF BackendIInv

\* A new call waits for the operation lock.
LEMMA EnterKeeps ==
    ASSUME BackendIInv, NEW c \in BackendCallIds, NEW role \in Owners, NEW form \in CallForms,
           NEW mutates \in BOOLEAN, Enter(c, role, form, mutates)
    PROVE  BackendIInv'
<1> DEFINE call == [IdleCall EXCEPT !.at = "queued", !.role = role, !.form = form,
                        !.mutates = mutates,
                        !.phase = IF form = "session" THEN "start" ELSE "main"]
<1>1. BackendTypeOK BY DEF BackendIInv
<1>2. /\ call \in CallType /\ call.at = "queued" /\ call.link = 0 /\ call.answer = "none"
      /\ call.acted = FALSE /\ call.told = "none" /\ call.ended = "none" /\ call.role = role
  BY BackendConstants DEF IdleCall, CallType, Places, Owners
<1>3. backendCall' = [backendCall EXCEPT ![c] = call] BY DEF Enter
<1>4. c \notin acting BY DEF Enter, BackendIInv, WorkIsLive
<1>5. link[role].n \in Nat BY <1>1 DEF BackendTypeOK
<1> HIDE DEF call
<1>6. UNCHANGED <<ownerFile, ownerLock, link, operation, acting>> BY DEF Enter
<1>7. CallFits(c, call) BY <1>2, <1>4, <1>5, <1>6 DEF CallFits
<1>8. LocksFit(c, call) BY <1>1, <1>2, <1>6 DEF LocksFit, BackendTypeOK
<1>9. acting' \in SUBSET BackendCallIds BY <1>1, <1>6 DEF BackendTypeOK
<1>10. QED BY <1>3, <1>6, <1>7, <1>8, <1>9, CallGoesOn

\* A call that gets its lock waits with it and its permit; one that gets no permit is over.
LEMMA BeginKeeps ==
    ASSUME BackendIInv, NEW c \in BackendCallIds, Begin(c)
    PROVE  BackendIInv'
<1> DEFINE call == backendCall[c]
<1>1. BackendTypeOK BY DEF BackendIInv
<1>2. call \in CallType /\ call.role \in Owners BY <1>1 DEF BackendTypeOK, CallType
<1>3. /\ call.at = "queued" /\ operation[call.role] = Nobody
      /\ UNCHANGED <<ownerFile, link, acting>>
  BY DEF Begin
<1>4. /\ call.link = 0 /\ call.answer = "none" /\ ~call.acted /\ call.told = "none"
      /\ c \notin acting
  BY <1>3 DEF BackendIInv, UnsentIsBlank, WorkIsLive
<1>5. link[call.role].n \in Nat BY <1>1, <1>2 DEF BackendTypeOK
<1>6. CASE NeedsPermit(call) /\ ~TryAcquire(call.role)
  <2> DEFINE told == Outcome(call, "no_permit")
             over == [call EXCEPT !.at = "over", !.ended = "no_permit", !.told = told]
  <2>1. told \in Reports BY <1>2, OutcomeIsReport DEF Events
  <2>2. backendCall' = [backendCall EXCEPT ![c] = over] /\ UNCHANGED <<operation, ownerLock>>
    BY <1>6 DEF Begin
  <2> HIDE DEF told
  <2>3. /\ over \in CallType /\ over.at = "over" /\ over.link = 0 /\ ~over.acted
        /\ over.ended = "no_permit" /\ over.role = call.role
    BY <1>2, <1>4, <2>1 DEF CallType, Places, Events
  <2> HIDE DEF over
  <2>4. CallFits(c, over) BY <1>3, <1>4, <1>5, <2>3 DEF CallFits
  <2>5. LocksFit(c, over) BY <1>1, <2>2, <2>3 DEF LocksFit, BackendTypeOK
  <2>6. acting' \in SUBSET BackendCallIds BY <1>1, <1>3 DEF BackendTypeOK
  <2>7. QED BY <1>3, <2>2, <2>4, <2>5, <2>6, CallGoesOn
<1>7. CASE ~(NeedsPermit(call) /\ ~TryAcquire(call.role))
  <2> DEFINE ready == [call EXCEPT !.at = "ready"]
  <2>1. /\ backendCall' = [backendCall EXCEPT ![c] = ready]
        /\ operation' = [operation EXCEPT ![call.role] = c]
        /\ ownerLock' = IF NeedsPermit(call) THEN c ELSE ownerLock
    BY <1>7 DEF Begin
  <2>2. /\ ready \in CallType /\ ready.at = "ready" /\ ready.link = 0 /\ ready.answer = "none"
        /\ ~ready.acted /\ ready.told = "none" /\ ready.role = call.role
        /\ NeedsPermit(ready) <=> NeedsPermit(call)
    BY <1>2, <1>4 DEF CallType, Places, NeedsPermit
  <2>3. ready.ended = "cancelled" => ready.told # "completed" BY <2>2
  <2> HIDE DEF ready
  <2>4. NeedsPermit(call) => ownerLock = Nobody /\ ownerFile.owner = call.role
    BY <1>7 DEF TryAcquire
  <2>5. \A d \in BackendCallIds \ {c} : Waiting(d) =>
            /\ operation'[backendCall[d].role] = operation[backendCall[d].role]
            /\ NeedsPermit(backendCall[d]) => ownerLock' = ownerLock
    <3> SUFFICES ASSUME NEW d \in BackendCallIds \ {c}, Waiting(d)
                 PROVE  /\ operation'[backendCall[d].role] = operation[backendCall[d].role]
                        /\ NeedsPermit(backendCall[d]) => ownerLock' = ownerLock
      OBVIOUS
    <3>1. backendCall[d].role \in Owners BY <1>1 DEF BackendTypeOK, CallType
    <3>2. operation[backendCall[d].role] = d BY DEF BackendIInv, LockHeld
    <3>3. backendCall[d].role # call.role BY <1>3, <3>2, BackendConstants
    <3>4. NeedsPermit(backendCall[d]) => ownerLock = d BY DEF BackendIInv, PermitCoversTheCall
    <3>5. QED BY <1>1, <2>1, <2>4, <3>1, <3>3, <3>4, BackendConstants DEF BackendTypeOK
  <2>6. /\ operation' \in [Owners -> BackendCallIds \cup {Nobody}]
        /\ operation'[call.role] = c /\ ownerLock' \in BackendCallIds \cup {Nobody}
        /\ NeedsPermit(call) => ownerLock' = c
    BY <1>1, <1>2, <2>1 DEF BackendTypeOK
  <2>7. CallFits(c, ready) BY <1>3, <1>4, <1>5, <2>2, <2>3 DEF CallFits
  <2>8. LocksFit(c, ready) BY <2>2, <2>4, <2>5, <2>6 DEF LocksFit
  <2>9. acting' \in SUBSET BackendCallIds BY <1>1, <1>3 DEF BackendTypeOK
  <2>10. QED BY <1>3, <2>1, <2>7, <2>8, <2>9, CallGoesOn
<1>8. QED BY <1>6, <1>7

\* A call that cannot be written ends unsent.
LEMMA UnreachableKeeps ==
    ASSUME BackendIInv, NEW c \in BackendCallIds, Unreachable(c)
    PROVE  BackendIInv'
<1>1. backendCall[c].link = 0 BY DEF Unreachable, BackendIInv, UnsentIsBlank
<1>2. QED BY <1>1, EndOnLink DEF Unreachable, Waiting, Events

\* A request goes to the provider process that is live.
LEMMA SendKeeps ==
    ASSUME BackendIInv, NEW c \in BackendCallIds, Send(c)
    PROVE  BackendIInv'
<1> DEFINE call == backendCall[c]
           sent == [call EXCEPT !.at = "sent", !.link = link[call.role].n]
<1>1. BackendTypeOK BY DEF BackendIInv
<1>2. call \in CallType /\ call.role \in Owners BY <1>1 DEF BackendTypeOK, CallType
<1>3. /\ call.answer = "none" /\ ~call.acted /\ call.told = "none" /\ c \notin acting
  BY DEF Send, BackendIInv, UnsentIsBlank, WorkIsLive
<1>4. link[call.role].n \in Nat BY <1>1, <1>2 DEF BackendTypeOK
<1>5. backendCall' = [backendCall EXCEPT ![c] = sent] BY DEF Send
<1>6. /\ sent \in CallType /\ sent.at = "sent" /\ sent.link = link[call.role].n
      /\ sent.answer = "none" /\ ~sent.acted /\ sent.told = "none" /\ sent.role = call.role
      /\ NeedsPermit(sent) <=> NeedsPermit(call)
  BY <1>2, <1>3, <1>4 DEF CallType, Places, NeedsPermit
<1>7. Waiting(c) BY DEF Send, Waiting
<1>8. operation[call.role] = c BY <1>7 DEF BackendIInv, LockHeld
<1>9. NeedsPermit(call) => ownerLock = c /\ ownerFile.owner = call.role
  BY <1>7 DEF BackendIInv, PermitCoversTheCall
<1> HIDE DEF sent
<1>10. UNCHANGED <<ownerFile, ownerLock, link, operation, acting>> BY DEF Send
<1>11. CallFits(c, sent) BY <1>3, <1>4, <1>6, <1>10 DEF CallFits
<1>12. LocksFit(c, sent) BY <1>1, <1>6, <1>8, <1>9, <1>10 DEF LocksFit, BackendTypeOK
<1>13. acting' \in SUBSET BackendCallIds BY <1>1, <1>10 DEF BackendTypeOK
<1>14. QED BY <1>5, <1>10, <1>11, <1>12, <1>13, CallGoesOn

\* An answer that is taken ends the call, or lets it go on to what the session was for.
LEMMA AnsweredKeeps ==
    ASSUME BackendIInv, NEW c \in BackendCallIds, Answered(c)
    PROVE  BackendIInv'
<1> DEFINE call == backendCall[c]
<1>1. BackendTypeOK BY DEF BackendIInv
<1>2. call \in CallType /\ call.role \in Owners BY <1>1 DEF BackendTypeOK, CallType
<1>3. /\ call.at = "sent" /\ call.answer # "none" /\ Waiting(c)
      /\ UNCHANGED <<ownerFile, link, acting>>
  BY DEF Answered, Waiting
<1>4. c \notin acting BY <1>3 DEF BackendIInv, WorkIsLive
<1>5. call.answer \in Answers
  BY <1>2, <1>3 DEF BackendIInv, UnsentIsBlank, CallType
<1>6. CASE call.phase = "start" /\ call.answer \in {"ok", "malformed"}
  <2> DEFINE next == [call EXCEPT !.at = "queued", !.phase = "main", !.answer = "none",
                                  !.acted = FALSE, !.link = 0]
  <2>1. backendCall' = [backendCall EXCEPT ![c] = next] /\ Release(c) BY <1>6 DEF Answered
  <2>2. call.told = "none" BY <1>3 DEF BackendIInv, UnsentIsBlank
  <2>3. /\ next \in CallType /\ next.at = "queued" /\ next.answer = "none" /\ ~next.acted
        /\ next.link = 0 /\ next.told = "none" /\ next.role = call.role
    BY <1>2, <2>2 DEF CallType, Places
  <2> HIDE DEF next
  <2>4. link[call.role].n \in Nat BY <1>1, <1>2 DEF BackendTypeOK
  <2>5. CallFits(c, next) BY <1>3, <1>4, <2>3, <2>4 DEF CallFits
  <2>6. \A d \in BackendCallIds \ {c} : Waiting(d) =>
            /\ operation'[backendCall[d].role] = operation[backendCall[d].role]
            /\ NeedsPermit(backendCall[d]) => ownerLock' = ownerLock
    <3> SUFFICES ASSUME NEW d \in BackendCallIds \ {c}, Waiting(d)
                 PROVE  /\ operation'[backendCall[d].role] = operation[backendCall[d].role]
                        /\ NeedsPermit(backendCall[d]) => ownerLock' = ownerLock
      OBVIOUS
    <3>1. backendCall[d].role \in Owners BY <1>1 DEF BackendTypeOK, CallType
    <3>2. operation[backendCall[d].role] = d /\ operation[call.role] = c
      BY <1>3 DEF BackendIInv, LockHeld
    <3>3. NeedsPermit(backendCall[d]) => ownerLock = d BY DEF BackendIInv, PermitCoversTheCall
    <3>4. QED BY <1>1, <2>1, <3>1, <3>2, <3>3 DEF Release, BackendTypeOK
  <2>7. LocksFit(c, next) BY <1>1, <1>2, <2>1, <2>3, <2>6 DEF LocksFit, Release, BackendTypeOK
  <2>8. acting' \in SUBSET BackendCallIds BY <1>1, <1>3 DEF BackendTypeOK
  <2>9. QED BY <1>3, <2>1, <2>5, <2>7, <2>8, CallGoesOn
<1>7. CASE ~(call.phase = "start" /\ call.answer \in {"ok", "malformed"})
  <2>1. End(c, call.answer) BY <1>7 DEF Answered
  <2>2. QED BY <1>3, <1>5, <2>1, EndOnLink DEF Events
<1>8. QED BY <1>6, <1>7

\* The Agent's own step fails after a completion: the provider has answered.
LEMMA AgentStepFailsKeeps ==
    ASSUME BackendIInv, NEW c \in BackendCallIds, AgentStepFails(c)
    PROVE  BackendIInv'
<1> DEFINE call == backendCall[c]
           failed == [call EXCEPT !.told = "failed", !.answer = "staging"]
<1>1. BackendTypeOK BY DEF BackendIInv
<1>2. call \in CallType /\ call.role \in Owners BY <1>1 DEF BackendTypeOK, CallType
<1>3. /\ call.at = "over" /\ call.told = "completed"
      /\ UNCHANGED <<ownerFile, ownerLock, link, operation, acting>>
      /\ backendCall' = [backendCall EXCEPT ![c] = failed]
  BY DEF AgentStepFails
<1>4. c \notin acting
  BY <1>3 DEF BackendIInv, WorkIsLive, LeftIsCancelled, CancelledIsOpen
<1>5. /\ failed \in CallType /\ failed.at = "over" /\ failed.answer = "staging"
      /\ failed.told = "failed" /\ failed.role = call.role /\ failed.link = call.link
      /\ failed.acted = call.acted
  BY <1>2, <1>3 DEF CallType, Reports
<1> HIDE DEF failed
<1>6. call.link <= link[call.role].n /\ (call.acted => call.link > 0)
  BY DEF BackendIInv, LinksGrow, UnsentIsBlank
<1>7. CallFits(c, failed) BY <1>3, <1>4, <1>5, <1>6 DEF CallFits
<1>8. LocksFit(c, failed) BY <1>1, <1>3, <1>5 DEF LocksFit, BackendTypeOK
<1>9. acting' \in SUBSET BackendCallIds BY <1>1, <1>3 DEF BackendTypeOK
<1>10. QED BY <1>3, <1>7, <1>8, <1>9, CallGoesOn

\* The provider begins what the live process was sent, also after the caller has gone.
LEMMA ProviderBeginsKeeps ==
    ASSUME BackendIInv, NEW c \in BackendCallIds, NEW acts \in BOOLEAN, ProviderBegins(c, acts)
    PROVE  BackendIInv'
<1> DEFINE call == backendCall[c]
           begun == [call EXCEPT !.acted = acts]
<1>1. BackendTypeOK BY DEF BackendIInv
<1>2. call \in CallType /\ call.role \in Owners BY <1>1 DEF BackendTypeOK, CallType
<1>3. /\ call.at \in {"sent", "over"} /\ call.link > 0 /\ call.answer = "none"
      /\ Live(call.role) /\ link[call.role].n = call.link
      /\ acting' = acting \cup {c}
      /\ UNCHANGED <<ownerFile, ownerLock, link, operation>>
      /\ backendCall' = [backendCall EXCEPT ![c] = begun]
  BY DEF ProviderBegins
<1>4. /\ begun \in CallType /\ begun.at = call.at /\ begun.answer = call.answer
      /\ begun.told = call.told /\ begun.role = call.role /\ begun.link = call.link
      /\ begun.ended = call.ended /\ begun.mutates = call.mutates
      /\ NeedsPermit(begun) <=> NeedsPermit(call)
  BY <1>2 DEF CallType, NeedsPermit
<1> HIDE DEF begun
<1>5. /\ call.at # "over" => call.told = "none"
      /\ call.at = "over" => call.ended = "cancelled"
      /\ call.ended = "cancelled" => call.told # "completed"
      /\ ~(call.told = "failed" /\ call.mutates)
      /\ call.link <= link[call.role].n
  BY <1>3 DEF BackendIInv, UnsentIsBlank, LeftIsCancelled, OnTheLiveLink, CancelledIsOpen,
              FailureIsAnswered, LinksGrow
<1>6. CallFits(c, begun) BY <1>3, <1>4, <1>5 DEF CallFits
<1>7. call.at = "sent" => /\ operation[call.role] = c
                          /\ NeedsPermit(call) => ownerLock = c /\ ownerFile.owner = call.role
  BY DEF BackendIInv, LockHeld, PermitCoversTheCall, Waiting
<1>8. LocksFit(c, begun) BY <1>1, <1>3, <1>4, <1>7 DEF LocksFit, BackendTypeOK
<1>9. acting' \in SUBSET BackendCallIds BY <1>1, <1>3 DEF BackendTypeOK
<1>10. QED BY <1>3, <1>6, <1>8, <1>9, CallGoesOn

\* The provider answers, whether or not anyone still waits.
LEMMA ProviderAnswersKeeps ==
    ASSUME BackendIInv, NEW c \in BackendCallIds, NEW answer \in Answers,
           ProviderAnswers(c, answer)
    PROVE  BackendIInv'
<1> DEFINE call == backendCall[c]
           done == [call EXCEPT !.answer = answer]
<1>1. BackendTypeOK BY DEF BackendIInv
<1>2. call \in CallType /\ call.role \in Owners BY <1>1 DEF BackendTypeOK, CallType
<1>3. /\ c \in acting /\ acting' = acting \ {c}
      /\ UNCHANGED <<ownerFile, ownerLock, link, operation>>
      /\ backendCall' = [backendCall EXCEPT ![c] = done]
  BY DEF ProviderAnswers
<1>4. /\ done \in CallType /\ done.at = call.at /\ done.answer = answer
      /\ done.told = call.told /\ done.role = call.role /\ done.link = call.link
      /\ done.ended = call.ended /\ done.mutates = call.mutates /\ done.acted = call.acted
      /\ NeedsPermit(done) <=> NeedsPermit(call)
  BY <1>2 DEF CallType, NeedsPermit
<1> HIDE DEF done
<1>5. answer \notin {"none", "staging"} BY DEF Answers
<1>6. /\ call.at \in {"sent", "over"} /\ (call.at # "over" => call.told = "none")
      /\ (call.acted => call.link > 0) /\ call.link <= link[call.role].n
      /\ (call.ended = "cancelled" => call.told # "completed")
  BY <1>3 DEF BackendIInv, UnsentIsBlank, WorkIsLive, LinksGrow, CancelledIsOpen
<1>7. CallFits(c, done) BY <1>3, <1>4, <1>5, <1>6 DEF CallFits
<1>8. call.at = "sent" => /\ operation[call.role] = c
                          /\ NeedsPermit(call) => ownerLock = c /\ ownerFile.owner = call.role
  BY DEF BackendIInv, LockHeld, PermitCoversTheCall, Waiting
<1>9. LocksFit(c, done) BY <1>1, <1>3, <1>4, <1>6, <1>8 DEF LocksFit, BackendTypeOK
<1>10. acting' \in SUBSET BackendCallIds BY <1>1, <1>3 DEF BackendTypeOK
<1>11. QED BY <1>3, <1>7, <1>9, <1>10, CallGoesOn

\* A provider process is started, closed or replaced.
LEMMA LinkKeeps ==
    ASSUME BackendIInv, NEW role \in Owners, Connect(role) \/ Shutdown(role) \/ ListTools(role)
    PROVE  BackendIInv'
<1>1. BackendTypeOK BY DEF BackendIInv
<1>2. link[role] \in [n : Nat, up : BOOLEAN] BY <1>1 DEF BackendTypeOK
<1>3. CASE Connect(role)
  <2> DEFINE new == [n |-> link[role].n + 1, up |-> TRUE]
  <2>1. new \in [n : Nat, up : BOOLEAN] /\ new.n > link[role].n BY <1>2
  <2>2. link' = [link EXCEPT ![role] = new] BY <1>3 DEF Connect
  <2>3. Killed(role) = {}
    BY <1>3 DEF Connect, Killed, BackendIInv, WorkIsLive, OnTheLiveLink
  <2>4. acting' = acting \ Killed(role) BY <1>3, <2>3 DEF Connect
  <2>5. UNCHANGED <<ownerFile, ownerLock, operation, backendCall>> BY <1>3 DEF Connect
  <2> HIDE DEF new
  <2>6. QED BY <2>1, <2>2, <2>4, <2>5, LinkMovesOn
<1>4. CASE Shutdown(role)
  <2> DEFINE new == [link[role] EXCEPT !.up = FALSE]
  <2>1. new \in [n : Nat, up : BOOLEAN] /\ ~new.up /\ new.n = link[role].n BY <1>2
  <2>2. link' = [link EXCEPT ![role] = new] BY <1>4 DEF Shutdown, Closed
  <2>3. acting' = acting \ Killed(role) BY <1>4 DEF Shutdown
  <2>4. UNCHANGED <<ownerFile, ownerLock, operation, backendCall>> BY <1>4 DEF Shutdown
  <2> HIDE DEF new
  <2>5. QED BY <2>1, <2>2, <2>3, <2>4, LinkMovesOn
<1>5. CASE ListTools(role)
  <2> DEFINE new == [link[role] EXCEPT !.n = @ + 1]
  <2>1. new \in [n : Nat, up : BOOLEAN] /\ new.n > link[role].n BY <1>2
  <2>2. link' = [link EXCEPT ![role] = new] BY <1>5 DEF ListTools
  <2>3. acting' = acting \ Killed(role) BY <1>5 DEF ListTools
  <2>4. UNCHANGED <<ownerFile, ownerLock, operation, backendCall>> BY <1>5 DEF ListTools
  <2> HIDE DEF new
  <2>5. QED BY <2>1, <2>2, <2>3, <2>4, LinkMovesOn
<1>6. QED BY <1>3, <1>4, <1>5

-----------------------------------------------------------------------------
(* The theorems.                                                           *)

\* Calls, locks, links and the work of both providers fit each other in every state of
\* mutation_authority.rs and backend/cua.rs.
THEOREM BackendKeepsInvariant == BackendSpec => []BackendIInv
<1>1. BackendIInv /\ [BackendNext]_backendVars => BackendIInv'
  <2> SUFFICES ASSUME BackendIInv, [BackendNext]_backendVars PROVE BackendIInv'
    OBVIOUS
  <2>1. CASE UNCHANGED backendVars
    BY <2>1 DEF backendVars, BackendIInv, BackendTypeOK, LockHeld, PermitCoversTheCall,
         UnsentIsBlank, LinksGrow, WorkIsLive, LeftIsCancelled, FailureIsAnswered,
         CancelledIsOpen, Waiting, NeedsPermit, OnTheLiveLink, Live
  <2>2. ASSUME NEW from \in Owners, NEW to \in Owners, Switch(from, to)
        PROVE  BackendIInv'
    BY <2>2, SwitchKeeps
  <2>3. ASSUME NEW c \in BackendCallIds, NEW role \in Owners, NEW form \in CallForms,
               NEW mutates \in BOOLEAN, Enter(c, role, form, mutates)
        PROVE  BackendIInv'
    BY <2>3, EnterKeeps
  <2>4. ASSUME NEW c \in BackendCallIds, Begin(c) PROVE BackendIInv' BY <2>4, BeginKeeps
  <2>5. ASSUME NEW c \in BackendCallIds, Unreachable(c) PROVE BackendIInv'
    BY <2>5, UnreachableKeeps
  <2>6. ASSUME NEW c \in BackendCallIds, Send(c) PROVE BackendIInv' BY <2>6, SendKeeps
  <2>7. ASSUME NEW c \in BackendCallIds, Answered(c) PROVE BackendIInv'
    BY <2>7, AnsweredKeeps
  <2>8. ASSUME NEW c \in BackendCallIds, AgentStepFails(c) PROVE BackendIInv'
    BY <2>8, AgentStepFailsKeeps
  <2>9. ASSUME NEW c \in BackendCallIds, Cancel(c) PROVE BackendIInv'
    BY <2>9, EndOnLink DEF Cancel, Waiting, Events
  <2>10. ASSUME NEW c \in BackendCallIds, LoseResponse(c) PROVE BackendIInv'
    BY <2>10, EndWithLink DEF LoseResponse, Waiting
  <2>11. ASSUME NEW c \in BackendCallIds, TimeOut(c) PROVE BackendIInv'
    BY <2>11, EndWithLink DEF TimeOut, Waiting
  <2>12. ASSUME NEW c \in BackendCallIds, NEW acts \in BOOLEAN, ProviderBegins(c, acts)
         PROVE  BackendIInv'
    BY <2>12, ProviderBeginsKeeps
  <2>13. ASSUME NEW c \in BackendCallIds, NEW answer \in Answers, ProviderAnswers(c, answer)
         PROVE  BackendIInv'
    BY <2>13, ProviderAnswersKeeps
  <2>14. ASSUME NEW role \in Owners, Connect(role) \/ Shutdown(role) \/ ListTools(role)
         PROVE  BackendIInv'
    BY <2>14, LinkKeeps
  <2>15. QED
    BY <2>1, <2>2, <2>3, <2>4, <2>5, <2>6, <2>7, <2>8, <2>9, <2>10, <2>11, <2>12, <2>13, <2>14
       DEF BackendNext
<1>2. QED BY <1>1, BackendStarts, PTL DEF BackendSpec

\* Of the calls of the two gateways, for any number of calls and of provider processes: an
\* effectful one is covered by its permit for as long as it is waited for, silence is never
\* called failure, and only cancelled work overlaps the next call.
THEOREM BackendIsSafe == BackendSpec => []BackendSafe
<1>1. BackendIInv => BackendSafe
  <2> SUFFICES ASSUME BackendIInv PROVE BackendSafe
    OBVIOUS
  <2>1. PermitCoversTheCall BY DEF BackendIInv
  <2>2. SilenceIsNotFailure
    BY DEF SilenceIsNotFailure, BackendIInv, UnsentIsBlank, FailureIsAnswered
  <2>3. OnlyCancelledWorkOverlaps
    <3> SUFFICES ASSUME NEW c \in BackendCallIds, NEW d \in BackendCallIds, c # d,
                        backendCall[c].at = "sent", d \in acting,
                        backendCall[d].role = backendCall[c].role
                 PROVE  backendCall[d].ended = "cancelled"
      BY DEF OnlyCancelledWorkOverlaps
    <3>1. backendCall[d].at # "sent" BY DEF BackendIInv, LockHeld, Waiting
    <3>2. QED BY <3>1 DEF BackendIInv, WorkIsLive, LeftIsCancelled
  <2>4. QED BY <2>1, <2>2, <2>3 DEF BackendSafe
<1>2. QED BY <1>1, BackendKeepsInvariant, PTL

-----------------------------------------------------------------------------
(* Staged browser files: every record has its directory, every call its    *)
(* record, and what was left behind has neither.                           *)

UploadRecords == [handle : Nat, ctx : StagingContexts, era : Nat]
PendingRecords == [handle : Nat, ctx : StagingContexts, name : FileNames, era : Nat,
                   overwrite : BOOLEAN]
CompletedRecords == [handle : Nat, ctx : StagingContexts, name : FileNames]

StagingTypes ==
    /\ uploads \subseteq UploadRecords /\ pending \subseteq PendingRecords
    /\ completed \subseteq CompletedRecords
    /\ lastHandle \in Nat /\ era \in Nat
    /\ \/ inUse = NoWork
       \/ inUse \in [kind : {"upload"}, ctx : StagingContexts, handles : SUBSET Nat]
       \/ inUse \in [kind : {"download"}, record : PendingRecords]

\* A handle is drawn once and belongs to one record of one table, or to none.
HandlesAreDistinct ==
    /\ \A h \in strays : h \in Nat /\ h <= lastHandle
    /\ \A r \in uploads \cup pending \cup completed : r.handle <= lastHandle
    /\ \A r, q \in uploads : r.handle = q.handle => r = q
    /\ \A r, q \in pending : r.handle = q.handle => r = q
    /\ \A r, q \in completed : r.handle = q.handle => r = q
    /\ \A r \in uploads, q \in pending : r.handle # q.handle
    /\ \A r \in uploads, q \in completed : r.handle # q.handle
    /\ \A r \in pending, q \in completed : r.handle # q.handle

\* The download that runs is still pending and, unless it may replace one, the
\* only one of its name.
RunningDownloadIsPending ==
    inUse.kind = "download" =>
      /\ inUse.record \in pending
      /\ inUse.record.overwrite \/ Named(completed, inUse.record.ctx, inUse.record.name) = {}

StagingIInv == StagingTypes /\ HandlesAreDistinct /\ RunningDownloadIsPending /\ StagingSafe

LEMMA StagingStarts == StagingInit => StagingIInv
BY DEF StagingInit, StagingIInv, StagingTypes, HandlesAreDistinct, RunningDownloadIsPending,
       StagingSafe, FilesOutliveTheirUse, DownloadsAreAccounted, NoWork, Handles

LEMMA NothingRuns == inUse = NoWork => inUse.kind # "upload" /\ inUse.kind # "download"
BY DEF NoWork

\* A fresh handle is no record's and no stray directory's.
LEMMA NewHandle ==
    ASSUME StagingIInv, lastHandle' = lastHandle + 1
    PROVE  /\ \A q \in uploads : q.handle \in Nat /\ q.handle # lastHandle'
           /\ \A q \in pending : q.handle \in Nat /\ q.handle # lastHandle'
           /\ \A q \in completed : q.handle \in Nat /\ q.handle # lastHandle'
           /\ \A h \in strays : h # lastHandle'
           /\ lastHandle \in Nat /\ lastHandle' \in Nat
<1> USE DEF StagingIInv
<1>1. lastHandle \in Nat /\ lastHandle' \in Nat
  BY DEF StagingTypes
<1>2. \A h \in strays : h # lastHandle'
  BY <1>1 DEF HandlesAreDistinct
<1>3. /\ \A q \in uploads : q.handle \in Nat
      /\ \A q \in pending : q.handle \in Nat
      /\ \A q \in completed : q.handle \in Nat
  BY DEF StagingTypes, UploadRecords, PendingRecords, CompletedRecords
<1>4. \A q \in uploads \cup pending \cup completed : q.handle # lastHandle'
  BY <1>1, <1>3 DEF HandlesAreDistinct
<1> QED BY <1>1, <1>2, <1>3, <1>4

\* A directory that got no record.
LEMMA NotRecordedKeeps ==
    ASSUME StagingIInv, lastHandle' = lastHandle + 1, NotRecorded(lastHandle'), inUse = NoWork,
           UNCHANGED <<era, uploads, pending, completed, inUse>>
    PROVE  StagingIInv'
<1> USE DEF StagingIInv
<1>1. StagingTypes'
  BY NewHandle DEF StagingTypes
<1>2. HandlesAreDistinct'
  BY NewHandle DEF HandlesAreDistinct, NotRecorded
<1>3. DownloadsAreAccounted'
  BY NewHandle DEF StagingSafe, DownloadsAreAccounted, NotRecorded, Handles
<1> QED BY <1>1, <1>2, <1>3, NothingRuns DEF StagingSafe, FilesOutliveTheirUse, RunningDownloadIsPending

\* stage.
LEMMA StageUploadKeeps ==
    ASSUME StagingIInv, NEW c \in StagingContexts, StageUpload(c)
    PROVE  StagingIInv'
<1> USE DEF StagingIInv
<1> DEFINE r == [handle |-> lastHandle', ctx |-> c, era |-> era]
<1>1. /\ lastHandle' = lastHandle + 1 /\ lastHandle \in Nat /\ inUse = NoWork
      /\ pending' = pending /\ completed' = completed /\ inUse' = inUse /\ era' = era
  BY DEF StageUpload, StagingIdle, StagingTypes
<1>2. CASE NotRecorded(lastHandle') /\ uploads' = uploads
  BY <1>1, <1>2, NotRecordedKeeps
<1>3. CASE uploads' = uploads \cup {r} /\ dirs' = dirs \cup {lastHandle'} /\ strays' = strays
  <2>1. r \in UploadRecords /\ r.handle = lastHandle'
    BY <1>1 DEF UploadRecords, StagingTypes
  <2> HIDE DEF r
  <2>2. StagingTypes'
    BY <1>1, <1>3, <2>1 DEF StagingTypes
  <2>3. HandlesAreDistinct'
    BY <1>1, <1>3, <2>1, NewHandle DEF HandlesAreDistinct
  <2>4. StagingSafe' /\ RunningDownloadIsPending'
    BY <1>1, <1>3, <2>1, NewHandle, NothingRuns DEF StagingSafe, FilesOutliveTheirUse,
       DownloadsAreAccounted, RunningDownloadIsPending, Handles
  <2> QED BY <2>2, <2>3, <2>4
<1> QED BY <1>2, <1>3 DEF StageUpload

\* Records go, and their directories with them or not.
LEMMA RemovalAccounts ==
    ASSUME StagingIInv, NEW gone \in SUBSET (uploads \cup pending \cup completed),
           RemoveDirs(Handles(gone)), lastHandle' = lastHandle,
           uploads' \cup pending' \cup completed' = (uploads \cup pending \cup completed) \ gone
    PROVE  /\ dirs' = Handles(uploads' \cup pending' \cup completed') \cup strays'
           /\ Handles(uploads' \cup pending' \cup completed') \cap strays' = {}
           /\ \A h \in strays' : h \in Nat /\ h <= lastHandle'
<1> USE DEF StagingIInv
<1>1. PICK left \in SUBSET Handles(gone) :
         dirs' = dirs \ (Handles(gone) \ left) /\ strays' = strays \cup left
  BY DEF RemoveDirs
<1> DEFINE all == uploads \cup pending \cup completed
<1>2. \A q \in all \ gone : q.handle \notin Handles(gone)
  BY DEF HandlesAreDistinct, Handles
<1>3. dirs = Handles(all) \cup strays /\ Handles(all) \cap strays = {}
  BY DEF StagingSafe, DownloadsAreAccounted
<1>4. \A h \in Handles(gone) : h \in Handles(all) /\ h \in Nat /\ h <= lastHandle
  BY DEF Handles, HandlesAreDistinct, StagingTypes, UploadRecords, PendingRecords, CompletedRecords
<1>5. Handles(all \ gone) = Handles(all) \ Handles(gone)
  BY <1>2 DEF Handles
<1>6. uploads' \cup pending' \cup completed' = all \ gone
  OBVIOUS
<1> HIDE DEF all
<1>7. \A h \in strays' : h \in Nat /\ h <= lastHandle'
  BY <1>1, <1>4 DEF HandlesAreDistinct
<1> QED BY <1>1, <1>3, <1>4, <1>5, <1>6, <1>7

\* Nothing runs after a step that leaves of the tables what was there before.
LEMMA FewerRecordsKeep ==
    ASSUME StagingIInv, uploads' \subseteq uploads, pending' \subseteq pending,
           completed' \subseteq completed, inUse' = NoWork, era' \in Nat,
           lastHandle' = lastHandle,
           dirs' = Handles(uploads' \cup pending' \cup completed') \cup strays',
           Handles(uploads' \cup pending' \cup completed') \cap strays' = {},
           \A h \in strays' : h \in Nat /\ h <= lastHandle'
    PROVE  StagingIInv'
<1> USE DEF StagingIInv
<1>1. StagingTypes'
  BY DEF StagingTypes
<1>2. HandlesAreDistinct'
  BY DEF HandlesAreDistinct
<1>3. (inUse.kind # "upload" /\ inUse.kind # "download")'
  BY DEF NoWork
<1>4. StagingSafe' /\ RunningDownloadIsPending'
  BY <1>3 DEF StagingSafe, FilesOutliveTheirUse, DownloadsAreAccounted, RunningDownloadIsPending
<1> QED BY <1>1, <1>2, <1>4

\* consume_handles: the spent files are those of upload records alone.
LEMMA ConsumeKeeps ==
    ASSUME StagingIInv, NEW c, NEW hs, Consume(hs, c), inUse' = NoWork,
           UNCHANGED <<era, pending, completed, lastHandle>>
    PROVE  StagingIInv'
<1>1. era' \in Nat
  BY DEF StagingIInv, StagingTypes
<1>2. CASE Consumable(hs, c)
  <2> DEFINE gone == {r \in uploads : r.handle \in hs}
  <2>1. uploads' = {r \in uploads : r.handle \notin hs} /\ RemoveDirs(hs)
    BY <1>2 DEF Consume
  <2>2. \A h \in hs : \E r \in uploads : r.handle = h
    BY <1>2 DEF Consumable
  <2>3. Handles(gone) = hs
    BY <2>2 DEF Handles
  <2>4. \A r \in pending \cup completed : r \notin gone
    BY DEF StagingIInv, HandlesAreDistinct
  <2>5. uploads' \cup pending' \cup completed' = (uploads \cup pending \cup completed) \ gone
    BY <2>1, <2>4
  <2>6. gone \in SUBSET (uploads \cup pending \cup completed) /\ uploads' \subseteq uploads
    BY <2>1
  <2> HIDE DEF gone
  <2>7. RemoveDirs(Handles(gone))
    BY <2>1, <2>3
  <2> QED BY <1>1, <2>5, <2>6, <2>7, RemovalAccounts, FewerRecordsKeep
<1>3. CASE ~Consumable(hs, c)
  <2>1. UNCHANGED <<uploads, dirs, strays>>
    BY <1>3 DEF Consume
  <2> QED BY <1>1, <2>1, FewerRecordsKeep DEF StagingIInv, StagingSafe, DownloadsAreAccounted,
       HandlesAreDistinct
<1> QED BY <1>2, <1>3

LEMMA BeginUploadKeeps ==
    ASSUME StagingIInv, NEW c \in StagingContexts, NEW hs \in SUBSET (1..lastHandle),
           NEW good \in BOOLEAN, BeginUpload(c, hs, good)
    PROVE  StagingIInv'
<1>1. CASE Resolves(hs, c) /\ good
  <2>1. /\ inUse' = [kind |-> "upload", ctx |-> c, handles |-> hs]
        /\ UNCHANGED <<uploads, dirs, strays, era, pending, completed, lastHandle, ends>>
    BY <1>1 DEF BeginUpload
  <2>2. hs \subseteq dirs /\ hs \in SUBSET Nat
    BY <1>1 DEF Resolves
  <2>3. /\ inUse' \in [kind : {"upload"}, ctx : StagingContexts, handles : SUBSET Nat]
        /\ inUse'.kind = "upload" /\ inUse'.handles = hs
    BY <2>1, <2>2
  <2> QED BY <2>1, <2>2, <2>3 DEF StagingIInv, StagingTypes, HandlesAreDistinct,
       RunningDownloadIsPending, StagingSafe, FilesOutliveTheirUse, DownloadsAreAccounted
<1>2. CASE ~(Resolves(hs, c) /\ good)
  BY <1>2, ConsumeKeeps DEF BeginUpload, StagingIdle
<1> QED BY <1>1, <1>2

LEMMA EndUploadKeeps ==
    ASSUME StagingIInv, NEW known \in BOOLEAN, EndUpload(known)
    PROVE  StagingIInv'
<1>1. CASE known
  BY <1>1, ConsumeKeeps DEF EndUpload
<1>2. CASE ~known
  <2>1. /\ inUse' = NoWork
        /\ UNCHANGED <<uploads, dirs, strays, era, pending, completed, lastHandle, ends>>
    BY <1>2 DEF EndUpload
  <2> QED BY <2>1 DEF StagingIInv, StagingTypes, HandlesAreDistinct, NoWork,
       RunningDownloadIsPending, StagingSafe, FilesOutliveTheirUse, DownloadsAreAccounted
<1> QED BY <1>1, <1>2

-----------------------------------------------------------------------------

\* prepare.
LEMMA BeginDownloadKeeps ==
    ASSUME StagingIInv, NEW c \in StagingContexts, NEW n \in FileNames,
           NEW overwrite \in BOOLEAN, BeginDownload(c, n, overwrite)
    PROVE  StagingIInv'
<1> USE DEF StagingIInv
<1> DEFINE p == [handle |-> lastHandle', ctx |-> c, name |-> n, era |-> era,
                 overwrite |-> overwrite]
<1>1. /\ lastHandle' = lastHandle + 1 /\ lastHandle \in Nat /\ inUse = NoWork
      /\ uploads' = uploads /\ completed' = completed /\ era' = era /\ era \in Nat
      /\ overwrite \/ Named(completed, c, n) = {}
  BY DEF BeginDownload, StagingTypes, MayDownload, StagingIdle
<1>2. /\ p \in PendingRecords /\ p.handle = lastHandle' /\ p.ctx = c /\ p.name = n
      /\ p.overwrite = overwrite
  BY <1>1 DEF PendingRecords
<1>3. CASE /\ pending' = pending \cup {p} /\ inUse' = [kind |-> "download", record |-> p]
           /\ dirs' = dirs \cup {lastHandle'} /\ strays' = strays
  <2> HIDE DEF p
  <2>1. /\ inUse' \in [kind : {"download"}, record : PendingRecords]
        /\ inUse'.kind = "download" /\ inUse'.record = p
    BY <1>2, <1>3
  <2>2. StagingTypes'
    BY <1>1, <1>2, <1>3, <2>1 DEF StagingTypes
  <2>3. HandlesAreDistinct'
    BY <1>1, <1>2, <1>3, NewHandle DEF HandlesAreDistinct
  <2>4. RunningDownloadIsPending' /\ StagingSafe'
    BY <1>1, <1>2, <1>3, <2>1, NewHandle DEF RunningDownloadIsPending, StagingSafe,
       FilesOutliveTheirUse, DownloadsAreAccounted, Handles
  <2> QED BY <2>2, <2>3, <2>4
<1>4. CASE NotRecorded(lastHandle') /\ UNCHANGED <<pending, inUse>>
  BY <1>1, <1>4, NotRecordedKeeps
<1> QED BY <1>3, <1>4 DEF BeginDownload

\* The end of a download, whatever becomes of its file.
LEMMA RunningDownload ==
    ASSUME StagingIInv, inUse.kind = "download"
    PROVE  /\ inUse.record \in pending /\ inUse.record \in PendingRecords
           /\ \A q \in pending \ {inUse.record} : q.handle # inUse.record.handle
           /\ \A q \in uploads : q.handle # inUse.record.handle
           /\ \A q \in completed : q.handle # inUse.record.handle
BY DEF StagingIInv, RunningDownloadIsPending, HandlesAreDistinct, StagingTypes

LEMMA AbortKeeps ==
    ASSUME StagingIInv, inUse.kind = "download", AbortRunning,
           inUse' = NoWork, UNCHANGED <<era, uploads, lastHandle>>
    PROVE  StagingIInv'
<1> DEFINE p == inUse.record
           gone == {p}
<1>1. /\ p \in pending /\ pending' = pending \ gone /\ completed' = completed
      /\ Handles(gone) = {p.handle} /\ p \notin uploads /\ p \notin completed
  BY RunningDownload DEF AbortRunning, Handles
<1>2. /\ gone \in SUBSET (uploads \cup pending \cup completed) /\ RemoveDirs(Handles(gone))
      /\ uploads' \cup pending' \cup completed' = (uploads \cup pending \cup completed) \ gone
  BY <1>1 DEF AbortRunning
<1>3. era' \in Nat
  BY DEF StagingIInv, StagingTypes
<1> HIDE DEF gone
<1> QED BY <1>1, <1>2, <1>3, RemovalAccounts, FewerRecordsKeep

\* The older download of the name, if the new one may replace it.
LEMMA ReplacedFacts ==
    ASSUME StagingIInv, inUse.kind = "download"
    PROVE  LET p == inUse.record IN
           /\ Replaced(p) \subseteq completed
           /\ \A q \in completed : q.ctx = p.ctx /\ q.name = p.name => q \in Replaced(p)
           /\ \A q \in uploads \cup pending \cup (completed \ Replaced(p)) :
                 q.handle \notin Handles(Replaced(p))
           /\ \A h \in Handles(Replaced(p)) : h \in Nat /\ h <= lastHandle
<1> DEFINE p == inUse.record
<1> USE DEF StagingIInv
<1>1. Replaced(p) \subseteq completed
  BY DEF Replaced, Named
<1>2. \A q \in completed : q.ctx = p.ctx /\ q.name = p.name => q \in Replaced(p)
  <2>1. CASE p.overwrite
    BY <2>1 DEF Replaced, Named
  <2>2. CASE ~p.overwrite
    BY <2>2 DEF Replaced, Named, RunningDownloadIsPending
  <2> QED BY <2>1, <2>2
<1>3. \A q \in uploads \cup pending \cup (completed \ Replaced(p)) :
         q.handle \notin Handles(Replaced(p))
  BY <1>1 DEF HandlesAreDistinct, Handles
<1>4. \A h \in Handles(Replaced(p)) : h \in Nat /\ h <= lastHandle
  BY <1>1 DEF HandlesAreDistinct, Handles, StagingTypes, CompletedRecords
<1> QED BY <1>1, <1>2, <1>3, <1>4

\* finalize: the replaced download gives up its directory, the new one keeps its own.
LEMMA FinalizeGoodKeeps ==
    ASSUME StagingIInv, inUse.kind = "download", FinalizeGood, inUse' = NoWork,
           UNCHANGED <<era, uploads, lastHandle>>
    PROVE  StagingIInv'
<1> USE DEF StagingIInv
<1> DEFINE p == inUse.record
           old == Replaced(p)
           d == [handle |-> p.handle, ctx |-> p.ctx, name |-> p.name]
<1>1. /\ pending' = pending \ {p} /\ completed' = (completed \ old) \cup {d}
      /\ RemoveDirs(Handles(old))
  BY DEF FinalizeGood
<1>2. /\ old \subseteq completed
      /\ \A q \in completed : q.ctx = p.ctx /\ q.name = p.name => q \in old
      /\ \A q \in uploads \cup pending \cup (completed \ old) : q.handle \notin Handles(old)
      /\ \A h \in Handles(old) : h \in Nat /\ h <= lastHandle
  BY ReplacedFacts
<1>3. p \in pending /\ p \in PendingRecords
  BY RunningDownload
<1>4. d \in CompletedRecords /\ d.handle = p.handle /\ d.ctx = p.ctx /\ d.name = p.name
  BY <1>3 DEF PendingRecords, CompletedRecords
<1>5. PICK left \in SUBSET Handles(old) :
         dirs' = dirs \ (Handles(old) \ left) /\ strays' = strays \cup left
  BY <1>1 DEF RemoveDirs
<1> HIDE DEF old, d
<1>6. HandlesAreDistinct'
  BY <1>1, <1>2, <1>3, <1>4, <1>5, RunningDownload DEF HandlesAreDistinct
<1>7. StagingTypes'
  BY <1>1, <1>4 DEF StagingTypes
<1>8. \A r, q \in completed' : r.ctx = q.ctx /\ r.name = q.name => r = q
  BY <1>1, <1>2, <1>4 DEF StagingSafe, DownloadsAreAccounted
<1>9. /\ dirs' = Handles(uploads' \cup pending' \cup completed') \cup strays'
      /\ Handles(uploads' \cup pending' \cup completed') \cap strays' = {}
  <2> DEFINE all == uploads \cup pending \cup completed
  <2>1. dirs = Handles(all) \cup strays /\ Handles(all) \cap strays = {}
    BY DEF StagingSafe, DownloadsAreAccounted
  <2>2. Handles(uploads' \cup pending' \cup completed') = Handles(all) \ Handles(old)
    BY <1>1, <1>2, <1>3, <1>4 DEF Handles
  <2>3. Handles(old) \subseteq Handles(all)
    BY <1>2 DEF Handles
  <2> HIDE DEF all
  <2> QED BY <1>5, <2>1, <2>2, <2>3
<1>10. (inUse.kind # "upload" /\ inUse.kind # "download")'
  BY DEF NoWork
<1> QED BY <1>6, <1>7, <1>8, <1>9, <1>10 DEF StagingSafe, FilesOutliveTheirUse,
     DownloadsAreAccounted, RunningDownloadIsPending

\* finalize that gets no handle for the new download, whose directory stays.
LEMMA FinalizeUnnamedKeeps ==
    ASSUME StagingIInv, inUse.kind = "download", FinalizeUnnamed, inUse' = NoWork,
           UNCHANGED <<era, uploads, lastHandle>>
    PROVE  StagingIInv'
<1> DEFINE p == inUse.record
           old == Replaced(p)
           gone == old \cup {p}
<1>1. PICK left \in SUBSET Handles(old) :
        /\ pending' = pending \ {p} /\ completed' = completed \ old
        /\ dirs' = dirs \ (Handles(old) \ left) /\ strays' = strays \cup left \cup {p.handle}
  BY DEF FinalizeUnnamed
<1>2. /\ old \subseteq completed /\ p.handle \notin Handles(old)
      /\ \A q \in uploads \cup pending \cup (completed \ old) : q.handle \notin Handles(old)
  BY ReplacedFacts, RunningDownload
<1>3. /\ p \in pending /\ p \notin uploads /\ p \notin completed
      /\ \A q \in old : q \notin uploads /\ q \notin pending
  BY <1>2, RunningDownload DEF StagingIInv, HandlesAreDistinct
<1>4. Handles(gone) = Handles(old) \cup {p.handle}
  BY DEF Handles
<1>5. RemoveDirs(Handles(gone))
  <2>1. left \cup {p.handle} \in SUBSET Handles(gone)
        /\ Handles(old) \ left = Handles(gone) \ (left \cup {p.handle})
    BY <1>2, <1>4
  <2> QED BY <1>1, <2>1 DEF RemoveDirs
<1>6. /\ gone \in SUBSET (uploads \cup pending \cup completed)
      /\ uploads' \cup pending' \cup completed' = (uploads \cup pending \cup completed) \ gone
  BY <1>1, <1>2, <1>3
<1>7. era' \in Nat /\ pending' \subseteq pending /\ completed' \subseteq completed
  BY <1>1 DEF StagingIInv, StagingTypes
<1> HIDE DEF gone
<1> QED BY <1>5, <1>6, <1>7, RemovalAccounts, FewerRecordsKeep

LEMMA FinalizeKeeps ==
    ASSUME StagingIInv, NEW good \in BOOLEAN, FinalizeDownload(good)
    PROVE  StagingIInv'
BY FinalizeGoodKeeps, FinalizeUnnamedKeeps, AbortKeeps DEF FinalizeDownload

-----------------------------------------------------------------------------

\* cleanup_context and cleanup_all take away records and their directories only.
LEMMA CleanupKeeps ==
    ASSUME StagingIInv, inUse = NoWork, inUse' = inUse, lastHandle' = lastHandle, era' \in Nat,
           NEW gone \in SUBSET (uploads \cup pending \cup completed),
           uploads' = uploads \ gone, pending' = pending \ gone,
           completed' = completed \ gone, RemoveDirs(Handles(gone))
    PROVE  StagingIInv'
<1>1. uploads' \cup pending' \cup completed' = (uploads \cup pending \cup completed) \ gone
  OBVIOUS
<1> QED BY <1>1, RemovalAccounts, FewerRecordsKeep

LEMMA WithoutKeeps ==
    ASSUME StagingIInv, NEW cs, Without(cs), inUse = NoWork,
           UNCHANGED <<era, lastHandle, inUse>>
    PROVE  StagingIInv'
<1> DEFINE gone == {r \in uploads \cup pending \cup completed : r.ctx \in cs}
<1>1. /\ uploads' = uploads \ gone /\ pending' = pending \ gone
      /\ completed' = completed \ gone /\ RemoveDirs(Handles(gone))
  BY DEF Without
<1>2. gone \in SUBSET (uploads \cup pending \cup completed) /\ era' \in Nat
  BY DEF StagingIInv, StagingTypes
<1> HIDE DEF gone
<1> QED BY <1>1, <1>2, CleanupKeeps

LEMMA NextSessionKeeps ==
    ASSUME StagingIInv, NextSession
    PROVE  StagingIInv'
<1> DEFINE gone == uploads \cup pending \cup completed
<1>1. /\ inUse = NoWork /\ inUse' = inUse /\ lastHandle' = lastHandle /\ era' \in Nat
      /\ uploads' = uploads \ gone /\ pending' = pending \ gone
      /\ completed' = completed \ gone /\ RemoveDirs(Handles(gone))
  BY DEF NextSession, StagingIInv, StagingTypes
<1> QED BY <1>1, CleanupKeeps

\* A new process starts with an empty root.
LEMMA NewProcessKeeps ==
    ASSUME StagingIInv, NewProcess
    PROVE  StagingIInv'
<1>1. /\ uploads' = {} /\ pending' = {} /\ completed' = {} /\ dirs' = {} /\ strays' = {}
      /\ inUse' = NoWork /\ lastHandle' = lastHandle /\ era' \in Nat
  BY DEF NewProcess, StagingIInv, StagingTypes
<1>2. Handles({}) = {}
  BY DEF Handles
<1> QED BY <1>1, <1>2, FewerRecordsKeep

LEMMA StagingSteps == ASSUME StagingIInv, [StagingNext]_stagingVars PROVE StagingIInv'
<1>1. ASSUME NEW c \in StagingContexts, EndContext(c) PROVE StagingIInv'
  <2>1. CASE StagingIdle
    BY <1>1, <2>1, WithoutKeeps DEF EndContext, StagingIdle
  <2>2. CASE ~StagingIdle
    BY <1>1, <2>2 DEF EndContext, StagingIInv, StagingTypes, HandlesAreDistinct,
       RunningDownloadIsPending, StagingSafe, FilesOutliveTheirUse, DownloadsAreAccounted
  <2> QED BY <2>1, <2>2
<1>2. CASE DrainEnds
  BY <1>2, WithoutKeeps DEF DrainEnds
<1>3. CASE LeaveDownload
  <2>1. (inUse.kind # "upload" /\ inUse.kind # "download")'
    BY <1>3 DEF LeaveDownload, NoWork
  <2> QED BY <1>3, <2>1 DEF LeaveDownload, StagingIInv, StagingTypes, HandlesAreDistinct,
       RunningDownloadIsPending, StagingSafe, FilesOutliveTheirUse, DownloadsAreAccounted
<1>4. CASE AbortDownload
  BY <1>4, AbortKeeps DEF AbortDownload
<1>5. CASE UNCHANGED stagingVars
  BY <1>5 DEF stagingVars, StagingIInv, StagingTypes, HandlesAreDistinct,
       RunningDownloadIsPending, StagingSafe, FilesOutliveTheirUse, DownloadsAreAccounted
<1> QED BY <1>1, <1>2, <1>3, <1>4, <1>5, StageUploadKeeps, BeginUploadKeeps, EndUploadKeeps,
     BeginDownloadKeeps, FinalizeKeeps, NextSessionKeeps, NewProcessKeeps DEF StagingNext

\* A staged upload or download stays on disk while a call uses it, finished
\* downloads are unique by name, and the disk holds exactly the directories that
\* some record answers for and those that a failed set-up or removal left, which no
\* record ever names (v2_browser_staging.rs), for any contexts, names, calls and
\* capacity.
THEOREM StagingIsSafe == StagingSpec => []StagingSafe
<1>1. StagingInit => StagingIInv
  BY StagingStarts
<1>2. StagingIInv /\ [StagingNext]_stagingVars => StagingIInv'
  BY StagingSteps
<1>3. StagingIInv => StagingSafe
  BY DEF StagingIInv
<1> QED BY <1>1, <1>2, <1>3, PTL DEF StagingSpec

-----------------------------------------------------------------------------
(* The terminal: hidden output lies behind both cursors, and the gate keeps *)
(* an authority as it was while a write is under way.                      *)

HiddenPhases == {"awaiting", "human", "verifying", "ready"}
TerminalPhases == HiddenPhases \cup {"unbound", "agent", "exited"}

TerminalTypes ==
    /\ ring \in Seq(TerminalPhases)
    /\ cursor \in [agent : Nat, human : Nat]
    /\ authority \in [phase : TerminalPhases, epoch : Nat, sync : BOOLEAN]

\* What the operation that holds the gate was allowed by is still so.
GateKeepsItsAnswer ==
    gate # NoOne /\ gate.op \in {"read", "write"} =>
      IF gate.who = "agent" THEN AgentMay ELSE HumanMay(gate.epoch)

Unread == {i \in 1..Len(ring) : cursor.agent < i}

\* Whenever the Agent may read, or an acknowledgement will soon let it, nothing
\* it has not read was written in a human's time.
ReadsSoon == authority.phase = "agent" /\ (~authority.sync \/ (gate # NoOne /\ gate.op = "ack"))
UnreadIsClean == \A i \in Unread : ring[i] \notin HiddenPhases
NothingHiddenUnread == ReadsSoon => UnreadIsClean

TerminalIInv == TerminalTypes /\ GateKeepsItsAnswer /\ NothingHiddenUnread /\ TerminalSafe

\* The output, its reader and what was shown stay, and the Agent comes no nearer
\* to reading.
LEMMA UnreadKeeps ==
    ASSUME TerminalIInv, UNCHANGED <<ring, seen>>, cursor' \in [agent : Nat, human : Nat],
           cursor'.agent = cursor.agent, ReadsSoon' => ReadsSoon
    PROVE  NothingHiddenUnread' /\ HumanOutputStaysHidden'
<1>1. Unread' = Unread
  BY DEF Unread
<1>2. UnreadIsClean => UnreadIsClean'
  BY <1>1 DEF UnreadIsClean
<1> QED BY <1>2 DEF TerminalIInv, NothingHiddenUnread, TerminalSafe, HumanOutputStaysHidden

LEMMA TerminalStarts == TerminalInit => TerminalIInv
BY DEF TerminalInit, TerminalIInv, TerminalTypes, TerminalPhases, HiddenPhases,
       GateKeepsItsAnswer, NothingHiddenUnread, ReadsSoon, NoAuthority, TerminalSafe,
       HumanOutputStaysHidden, WritesMeetTheirAuthority

\* Steps that leave the output, the cursors and the gate's answer alone.
LEMMA QuietKeeps ==
    ASSUME TerminalIInv, UNCHANGED <<ring, cursor, seen, authority, gate, writes>>
    PROVE  TerminalIInv'
<1>1. ReadsSoon' => ReadsSoon
  BY DEF ReadsSoon
<1>2. NothingHiddenUnread' /\ HumanOutputStaysHidden'
  BY <1>1, UnreadKeeps DEF TerminalIInv, TerminalTypes
<1> QED BY <1>2 DEF TerminalIInv, TerminalTypes, GateKeepsItsAnswer, AgentMay, HumanMay,
     TerminalSafe, WritesMeetTheirAuthority

\* The reader thread: what it appends carries the phase it meets.
LEMMA OutputKeeps == ASSUME TerminalIInv, Output PROVE TerminalIInv'
<1>1. /\ ring' = Append(ring, authority.phase)
      /\ UNCHANGED <<cursor, seen, authority, gate, writes>>
  BY DEF Output
<1>2. authority.phase \in TerminalPhases /\ ring \in Seq(TerminalPhases)
  BY DEF TerminalIInv, TerminalTypes
<1>3. ring' \in Seq(TerminalPhases) /\ Len(ring') = Len(ring) + 1
      /\ ring'[Len(ring) + 1] = authority.phase
      /\ \A i \in 1..Len(ring) : ring'[i] = ring[i]
  BY <1>1, <1>2
<1>4. NothingHiddenUnread'
  <2> SUFFICES ASSUME ReadsSoon, NEW i \in Unread'
               PROVE  ring'[i] \notin HiddenPhases
    BY <1>1 DEF NothingHiddenUnread, UnreadIsClean, ReadsSoon
  <2>1. i \in 1..Len(ring) + 1 /\ cursor.agent < i /\ Len(ring) \in Nat
    BY <1>1, <1>2, <1>3 DEF Unread
  <2>2. CASE i = Len(ring) + 1
    BY <1>3, <2>2 DEF HiddenPhases, ReadsSoon
  <2>3. CASE i # Len(ring) + 1
    <3>1. i \in Unread
      BY <2>1, <2>3 DEF Unread
    <3> QED BY <1>3, <2>1, <2>3, <3>1 DEF TerminalIInv, NothingHiddenUnread, UnreadIsClean
  <2> QED BY <2>2, <2>3
<1> QED BY <1>1, <1>3, <1>4 DEF TerminalIInv, TerminalTypes, GateKeepsItsAnswer, AgentMay,
     HumanMay, TerminalSafe, HumanOutputStaysHidden, WritesMeetTheirAuthority

\* A change of authority or of the gate under which the Agent gains nothing.
LEMMA AuthorityKeeps ==
    ASSUME TerminalIInv, UNCHANGED <<ring, cursor, seen, writes>>,
           authority' \in [phase : TerminalPhases, epoch : Nat, sync : BOOLEAN],
           ReadsSoon' => ReadsSoon, GateKeepsItsAnswer'
    PROVE  TerminalIInv'
<1>1. NothingHiddenUnread' /\ HumanOutputStaysHidden'
  BY UnreadKeeps DEF TerminalIInv, TerminalTypes
<1> QED BY <1>1 DEF TerminalIInv, TerminalTypes, TerminalSafe, WritesMeetTheirAuthority

LEMMA ExitedKeeps ==
    ASSUME TerminalIInv, gate' = NoOne, authority' = Exited,
           UNCHANGED <<ring, cursor, seen, writes>>
    PROVE  TerminalIInv'
<1>1. authority \in [phase : TerminalPhases, epoch : Nat, sync : BOOLEAN]
  BY DEF TerminalIInv, TerminalTypes
<1>2. authority' \in [phase : TerminalPhases, epoch : Nat, sync : BOOLEAN]
      /\ authority'.phase # "agent"
  BY <1>1 DEF Exited, TerminalPhases, HiddenPhases
<1> QED BY <1>2, AuthorityKeeps DEF GateKeepsItsAnswer, ReadsSoon

LEMMA SpawnKeeps == ASSUME TerminalIInv, Spawn PROVE TerminalIInv'
<1>1. ring' = << >> /\ cursor' = [agent |-> 0, human |-> 0]
      /\ UNCHANGED <<seen, gate, writes>> /\ gate = NoOne
  BY DEF Spawn, Free
<1>2. ring' \in Seq(TerminalPhases) /\ Unread' = {} /\ cursor' \in [agent : Nat, human : Nat]
  BY <1>1 DEF Unread
<1>3. authority' \in [phase : TerminalPhases, epoch : Nat, sync : BOOLEAN]
  BY DEF Spawn, TerminalIInv, TerminalTypes, TerminalPhases
<1> QED BY <1>1, <1>2, <1>3 DEF TerminalIInv, TerminalTypes, GateKeepsItsAnswer,
     NothingHiddenUnread, UnreadIsClean, TerminalSafe, HumanOutputStaysHidden, WritesMeetTheirAuthority

LEMMA AskKeeps ==
    ASSUME TerminalIInv, NEW who \in {"agent", "human"}, NEW what \in {"read", "write"},
           NEW e \in Nat, Ask(who, what, e)
    PROVE  TerminalIInv'
<1>1. gate' = [op |-> what, who |-> who, epoch |-> e] /\ gate = NoOne
      /\ UNCHANGED <<ring, cursor, seen, authority, writes>>
      /\ IF who = "agent" THEN AgentMay ELSE HumanMay(e)
  BY DEF Ask, Free
<1>2. gate'.op # "ack" /\ gate'.who = who /\ gate'.epoch = e
  BY <1>1
<1>3. GateKeepsItsAnswer'
  BY <1>1, <1>2 DEF GateKeepsItsAnswer, AgentMay, HumanMay
<1>4. ReadsSoon' => ReadsSoon
  BY <1>1, <1>2 DEF ReadsSoon
<1> QED BY <1>1, <1>3, <1>4, AuthorityKeeps DEF TerminalIInv, TerminalTypes

LEMMA WriteKeeps == ASSUME TerminalIInv, Write PROVE TerminalIInv'
<1>1. gate # NoOne /\ gate.op = "write" /\ gate' = NoOne
      /\ UNCHANGED <<ring, cursor, seen, authority>>
  BY DEF Write
<1>2. WritesMeetTheirAuthority'
  <2>1. IF gate.who = "agent" THEN AgentMay ELSE HumanMay(gate.epoch)
    BY <1>1 DEF TerminalIInv, GateKeepsItsAnswer
  <2>2. CASE Open
    BY <2>1, <2>2 DEF Write, WritesMeetTheirAuthority, AgentMay, HumanMay
  <2>3. CASE ~Open
    BY <2>3 DEF Write, WritesMeetTheirAuthority, TerminalIInv, TerminalSafe
  <2> QED BY <2>2, <2>3
<1>3. ReadsSoon' => ReadsSoon
  BY <1>1 DEF ReadsSoon
<1>4. NothingHiddenUnread' /\ HumanOutputStaysHidden'
  BY <1>1, <1>3, UnreadKeeps DEF TerminalIInv, TerminalTypes
<1> QED BY <1>1, <1>2, <1>4 DEF TerminalIInv, TerminalTypes, GateKeepsItsAnswer, TerminalSafe

LEMMA StartIsNat == ASSUME TerminalTypes PROVE Start \in Nat
BY TerminalConstants DEF TerminalTypes, Start

LEMMA ReadKeeps == ASSUME TerminalIInv, Read PROVE TerminalIInv'
<1>1. gate # NoOne /\ gate.op = "read" /\ gate' = NoOne
      /\ UNCHANGED <<ring, authority, writes>>
  BY DEF Read
<1>2. ring \in Seq(TerminalPhases) /\ Len(ring) \in Nat /\ cursor \in [agent : Nat, human : Nat]
      /\ cursor.agent \in Nat
  BY DEF TerminalIInv, TerminalTypes
<1>0. ReadsSoon' => ReadsSoon
  BY <1>1 DEF ReadsSoon
<1>3. CASE ~Open
  <2>1. UNCHANGED <<cursor, seen>>
    BY <1>3 DEF Read
  <2> QED BY <1>1, <1>0, <2>1, AuthorityKeeps DEF TerminalIInv, TerminalTypes, GateKeepsItsAnswer
<1>4. CASE Open /\ gate.who = "agent"
  <2>1. ReadAgent
    BY <1>4 DEF Read
  <2>2. UnreadIsClean
    <3>1. AgentMay
      BY <1>1, <1>4 DEF TerminalIInv, GateKeepsItsAnswer
    <3>2. ReadsSoon
      BY <3>1 DEF AgentMay, ReadsSoon
    <3> QED BY <3>2 DEF TerminalIInv, NothingHiddenUnread
  <2>3. \A i \in Max2(cursor.agent, Start) + 1..Len(ring) : i \in Unread
    BY <1>2, StartIsNat DEF Max2, Unread, TerminalIInv
  <2>4. HumanOutputStaysHidden'
    BY <2>1, <2>2, <2>3 DEF ReadAgent, HumanOutputStaysHidden, TerminalIInv, TerminalSafe,
       UnreadIsClean, HiddenPhases
  <2>5. cursor' \in [agent : Nat, human : Nat] /\ cursor'.agent = Len(ring)
    BY <1>2, <2>1 DEF ReadAgent
  <2>6. Unread' = {}
    BY <1>1, <1>2, <2>5 DEF Unread
  <2> QED BY <1>1, <2>4, <2>5, <2>6 DEF TerminalIInv, TerminalTypes, GateKeepsItsAnswer,
       NothingHiddenUnread, UnreadIsClean, TerminalSafe, WritesMeetTheirAuthority
<1>5. CASE Open /\ gate.who # "agent"
  <2>1. cursor' = [cursor EXCEPT !.human = Len(ring)] /\ seen' = seen
    BY <1>5 DEF Read, ReadHuman
  <2>2. cursor' \in [agent : Nat, human : Nat] /\ cursor'.agent = cursor.agent
    BY <1>2, <2>1
  <2>3. NothingHiddenUnread' /\ HumanOutputStaysHidden'
    BY <1>0, <1>1, <2>1, <2>2, UnreadKeeps
  <2> QED BY <1>1, <2>1, <2>2, <2>3 DEF TerminalIInv, TerminalTypes, GateKeepsItsAnswer,
       TerminalSafe, WritesMeetTheirAuthority
<1> QED BY <1>3, <1>4, <1>5

\* begin_human_fence, claim_human, human_done, report_verification and resume
\* move the authority without giving the Agent anything to read.
LEMMA BeginFenceKeeps == ASSUME TerminalIInv, BeginFence PROVE TerminalIInv'
<1>1. authority \in [phase : TerminalPhases, epoch : Nat, sync : BOOLEAN]
  BY DEF TerminalIInv, TerminalTypes
<1>2. authority' = [authority EXCEPT !.phase = "awaiting", !.epoch = authority.epoch + 1]
      /\ gate' = [op |-> "begin", who |-> "agent", epoch |-> authority'.epoch]
      /\ UNCHANGED <<ring, cursor, seen, writes>>
  BY DEF BeginFence
<1>3. authority' \in [phase : TerminalPhases, epoch : Nat, sync : BOOLEAN]
      /\ authority'.phase = "awaiting"
  <2>1. authority.epoch + 1 \in Nat /\ "awaiting" \in TerminalPhases
    BY <1>1 DEF TerminalPhases, HiddenPhases
  <2>2. \A n \in Nat : [authority EXCEPT !.phase = "awaiting", !.epoch = n]
          \in [phase : TerminalPhases, epoch : Nat, sync : BOOLEAN]
    BY <1>1, <2>1
  <2> QED BY <1>1, <1>2, <2>1, <2>2
<1>4. gate'.op = "begin"
  BY <1>2
<1> QED BY <1>2, <1>3, <1>4, AuthorityKeeps DEF GateKeepsItsAnswer, ReadsSoon

LEMMA PrepareHumanKeeps == ASSUME TerminalIInv, PrepareHuman PROVE TerminalIInv'
<1>1. gate' = NoOne /\ UNCHANGED <<ring, seen, writes>>
  BY DEF PrepareHuman
<1>2. CASE authority' = Exited /\ UNCHANGED cursor
  BY <1>1, <1>2, ExitedKeeps
<1>3. CASE BeginHumanOutput /\ UNCHANGED authority
  <2>1. cursor \in [agent : Nat, human : Nat] /\ Len(ring) \in Nat /\ Start \in Nat
    BY StartIsNat DEF TerminalIInv, TerminalTypes
  <2>2. Max2(Start, IF Len(ring) > ContextTail THEN Len(ring) - ContextTail ELSE 0) \in Nat
    BY <2>1, TerminalConstants DEF Max2
  <2>3. cursor' \in [agent : Nat, human : Nat] /\ cursor'.agent = cursor.agent
    BY <1>3, <2>1, <2>2 DEF BeginHumanOutput
  <2>4. ReadsSoon' => ReadsSoon
    BY <1>1, <1>3 DEF ReadsSoon
  <2>5. NothingHiddenUnread' /\ HumanOutputStaysHidden'
    BY <1>1, <2>3, <2>4, UnreadKeeps
  <2> QED BY <1>1, <1>3, <2>3, <2>5 DEF TerminalIInv, TerminalTypes, GateKeepsItsAnswer,
       TerminalSafe, WritesMeetTheirAuthority
<1> QED BY <1>2, <1>3 DEF PrepareHuman

LEMMA MoveKeeps ==
    ASSUME TerminalIInv, gate = NoOne, UNCHANGED <<ring, cursor, seen, writes>>,
           NEW ph \in HiddenPhases, authority' = [authority EXCEPT !.phase = ph],
           gate' = NoOne \/ gate'.op \notin {"read", "write"}
    PROVE  TerminalIInv'
<1>1. authority \in [phase : TerminalPhases, epoch : Nat, sync : BOOLEAN]
  BY DEF TerminalIInv, TerminalTypes
<1>2. authority' \in [phase : TerminalPhases, epoch : Nat, sync : BOOLEAN]
      /\ authority'.phase = ph
  BY <1>1 DEF TerminalPhases
<1> QED BY <1>2, AuthorityKeeps DEF GateKeepsItsAnswer, ReadsSoon, HiddenPhases

LEMMA ClaimHumanKeeps ==
    ASSUME TerminalIInv, NEW e, ClaimHuman(e) PROVE TerminalIInv'
<1>1. gate = NoOne /\ UNCHANGED <<ring, cursor, seen, writes, gate>>
  BY DEF ClaimHuman, Free
<1>2. CASE authority' = [authority EXCEPT !.phase = "human"]
  BY <1>1, <1>2, MoveKeeps DEF HiddenPhases
<1>3. CASE authority' = Exited
  BY <1>1, <1>3, ExitedKeeps
<1> QED BY <1>2, <1>3 DEF ClaimHuman

LEMMA DoneFenceKeeps ==
    ASSUME TerminalIInv, NEW e, DoneFence(e) PROVE TerminalIInv'
<1>1. gate' = [op |-> "done", who |-> "human", epoch |-> e] /\ gate = NoOne
      /\ authority' = [authority EXCEPT !.phase = "verifying"]
      /\ UNCHANGED <<ring, cursor, seen, writes>>
  BY DEF DoneFence, Free
<1>2. gate'.op = "done"
  BY <1>1
<1> QED BY <1>1, <1>2, MoveKeeps DEF HiddenPhases

LEMMA VerifyKeeps == ASSUME TerminalIInv, NEW e, Verify(e) PROVE TerminalIInv'
BY MoveKeeps DEF Verify, Free, HiddenPhases

LEMMA ResumeKeeps == ASSUME TerminalIInv, NEW e, Resume(e) PROVE TerminalIInv'
<1>1. authority \in [phase : TerminalPhases, epoch : Nat, sync : BOOLEAN]
  BY DEF TerminalIInv, TerminalTypes
<1>2. gate = NoOne /\ authority' = [authority EXCEPT !.phase = "agent", !.sync = TRUE]
      /\ UNCHANGED <<ring, cursor, seen, writes, gate>>
  BY DEF Resume, Free
<1>3. authority' \in [phase : TerminalPhases, epoch : Nat, sync : BOOLEAN] /\ authority'.sync
  BY <1>1, <1>2 DEF TerminalPhases
<1> QED BY <1>2, <1>3, AuthorityKeeps DEF GateKeepsItsAnswer, ReadsSoon

\* finish_human_output leaves the Agent nothing unread.
LEMMA FinishReadsAll ==
    ASSUME TerminalTypes, FinishHumanOutput, ring' = ring
    PROVE  cursor' \in [agent : Nat, human : Nat] /\ Unread' = {}
BY DEF TerminalTypes, FinishHumanOutput, Unread

LEMMA FinishDoneKeeps == ASSUME TerminalIInv, FinishDone PROVE TerminalIInv'
<1>1. gate' = NoOne /\ gate.op = "done" /\ gate # NoOne /\ UNCHANGED <<ring, seen, writes>>
  BY DEF FinishDone
<1>2. authority \in [phase : TerminalPhases, epoch : Nat, sync : BOOLEAN]
  BY DEF TerminalIInv, TerminalTypes
<1>3. authority' \in [phase : TerminalPhases, epoch : Nat, sync : BOOLEAN]
  BY <1>2 DEF FinishDone, Exited, TerminalPhases, HiddenPhases
<1>4. CASE FinishHumanOutput
  BY <1>1, <1>3, <1>4, FinishReadsAll DEF TerminalIInv, TerminalTypes, GateKeepsItsAnswer,
       NothingHiddenUnread, UnreadIsClean, TerminalSafe, HumanOutputStaysHidden, WritesMeetTheirAuthority
<1>5. CASE UNCHANGED <<cursor, authority>>
  <2>1. ReadsSoon' => ReadsSoon
    BY <1>1, <1>5 DEF ReadsSoon
  <2> QED BY <1>1, <1>3, <1>5, <2>1, AuthorityKeeps DEF GateKeepsItsAnswer
<1> QED BY <1>4, <1>5 DEF FinishDone

LEMMA AcknowledgeKeeps == ASSUME TerminalIInv, Acknowledge PROVE TerminalIInv'
<1>1. FinishHumanOutput /\ UNCHANGED <<ring, seen, authority, writes>>
      /\ gate' = [op |-> "ack", who |-> "agent", epoch |-> authority.epoch]
  BY DEF Acknowledge
<1>2. gate'.op = "ack"
  BY <1>1
<1> QED BY <1>1, <1>2, FinishReadsAll DEF TerminalIInv, TerminalTypes, GateKeepsItsAnswer,
       NothingHiddenUnread, UnreadIsClean, TerminalSafe, HumanOutputStaysHidden, WritesMeetTheirAuthority

LEMMA AckStateSyncKeeps == ASSUME TerminalIInv, AckStateSync PROVE TerminalIInv'
<1>1. authority \in [phase : TerminalPhases, epoch : Nat, sync : BOOLEAN]
  BY DEF TerminalIInv, TerminalTypes
<1>2. gate # NoOne /\ gate.op = "ack" /\ gate' = NoOne /\ UNCHANGED <<ring, cursor, seen, writes>>
      /\ authority' = IF authority.phase = "agent"
                      THEN [authority EXCEPT !.sync = FALSE] ELSE authority
  BY DEF AckStateSync
<1>3. authority' \in [phase : TerminalPhases, epoch : Nat, sync : BOOLEAN]
      /\ authority'.phase = authority.phase
  BY <1>1, <1>2
<1> QED BY <1>2, <1>3, AuthorityKeeps DEF GateKeepsItsAnswer, ReadsSoon

LEMMA CloseSessionKeeps == ASSUME TerminalIInv, CloseSession PROVE TerminalIInv'
<1>1. gate = NoOne /\ UNCHANGED <<ring, cursor, seen, writes, gate>>
  BY DEF CloseSession, Free
<1>2. CASE UNCHANGED authority
  BY <1>1, <1>2, QuietKeeps
<1>3. CASE authority' = [NoAuthority EXCEPT !.epoch = authority.epoch]
  <2>1. authority' \in [phase : TerminalPhases, epoch : Nat, sync : BOOLEAN]
        /\ authority'.phase = "unbound"
    BY <1>3 DEF TerminalIInv, TerminalTypes, TerminalPhases, NoAuthority
  <2> QED BY <1>1, <2>1, AuthorityKeeps DEF GateKeepsItsAnswer, ReadsSoon
<1> QED BY <1>2, <1>3 DEF CloseSession

LEMMA TerminalSteps == ASSUME TerminalIInv, [TerminalNext]_terminalVars PROVE TerminalIInv'
<1>1. CASE ChildExits \/ PtyExpires \/ UNCHANGED terminalVars
  BY <1>1, QuietKeeps DEF ChildExits, PtyExpires, terminalVars
<1>2. CASE ProcessState
  BY <1>2, ExitedKeeps DEF ProcessState, Free
<1>3. \A e \in 0..MaxTerminalEpoch : e \in Nat
  OBVIOUS
<1> QED BY <1>1, <1>2, <1>3, OutputKeeps, SpawnKeeps, AskKeeps, ClaimHumanKeeps, DoneFenceKeeps,
     VerifyKeeps, ResumeKeeps, WriteKeeps, ReadKeeps, BeginFenceKeeps, PrepareHumanKeeps,
     FinishDoneKeeps, AcknowledgeKeeps, AckStateSyncKeeps, CloseSessionKeeps DEF TerminalNext

\* What the terminal prints while a person has it is never read by the Agent, and
\* every write meets the authority it was allowed under (v2_terminal_pty_handoff.rs),
\* for any length of ring and of context.
THEOREM TerminalIsSafe == TerminalSpec => []TerminalSafe
<1>1. TerminalInit => TerminalIInv
  BY TerminalStarts
<1>2. TerminalIInv /\ [TerminalNext]_terminalVars => TerminalIInv'
  BY TerminalSteps
<1>3. TerminalIInv => TerminalSafe
  BY DEF TerminalIInv
<1> QED BY <1>1, <1>2, <1>3, PTL DEF TerminalSpec

-----------------------------------------------------------------------------
(* A person who takes over has the desktop alone and gets the window of the *)
(* handle, for any windows and operators.                                  *)

\* A request of an operator, and what the runtime keeps, as records.
RequestShape(r) ==
    r = [command |-> r.command, handle |-> r.handle, stage |-> r.stage,
         window |-> r.window, generation |-> r.generation, epoch |-> r.epoch]
HandoffShapes ==
    /\ runtime = [status |-> runtime.status, epoch |-> runtime.epoch,
                  window |-> runtime.window, generation |-> runtime.generation,
                  recovery |-> runtime.recovery, faulted |-> runtime.faulted,
                  handle |-> runtime.handle]
    /\ ctl = [p \in Operators |-> ctl[p]]
    /\ \A p \in Operators : ctl[p] # None => RequestShape(ctl[p])
    /\ selection = [observed |-> selection.observed, admitted |-> selection.admitted]

\* A handle names what was selected when it was made, wherever it is kept.
HandleFits(h, window, generation) == h.window = window /\ h.generation = generation
SelectionsFit ==
    \A k \in {"observed", "admitted"} : selection[k] # None =>
        HandleFits(selection[k].handle, selection[k].window, selection[k].generation)
RequestsFit ==
    \A p \in Operators : ctl[p] # None /\ ctl[p].handle # None =>
        HandleFits(ctl[p].handle, ctl[p].window, ctl[p].generation)

\* The Agent's loop is inside a control request: no command runs, and the request
\* is of the live session.
Checked(p) == ctl[p] # None /\ ctl[p].stage = "checked"
ChecksAreFenced ==
    \A p \in Operators : Checked(p) =>
        /\ active = None
        /\ ctl[p].command \in Surface => ctl[p].generation = session

\* A command runs only where the Agent has the desktop or verifies for the human.
RunsWithoutHuman == active # None => runtime.status \in {"agent", "verifying"}

HandoffIInv ==
    /\ HandoffShapes /\ SelectionsFit /\ RequestsFit /\ ChecksAreFenced
    /\ RunsWithoutHuman /\ HandleBindsTarget

\* Nothing is selected, requested or running at first.
LEMMA HandoffStarts == HandoffInit => HandoffIInv
  BY DEF HandoffInit, HandoffIInv, HandoffShapes, SelectionsFit, RequestsFit, ChecksAreFenced,
         Checked, RunsWithoutHuman, HandleBindsTarget

\* What a step may do to the runtime when no control request is being applied.
RuntimeMoves ==
    /\ runtime' = [runtime EXCEPT !.status = runtime'.status, !.recovery = runtime'.recovery,
                                  !.faulted = runtime'.faulted]
    /\ active' # None => runtime'.status \in {"agent", "verifying"}

LEMMA RuntimeMovesKeep ==
    ASSUME HandoffIInv, RuntimeMoves, UNCHANGED <<selection, ctl, session>>,
           active' \in {active, None}
    PROVE  HandoffIInv' /\ runtime'.epoch = runtime.epoch
  BY DEF HandoffIInv, HandoffShapes, RequestShape, SelectionsFit, RequestsFit,
         ChecksAreFenced, Checked, RunsWithoutHuman, HandleBindsTarget, HandleFits, RuntimeMoves

\* A window is remembered with a handle of its own.
LEMMA RememberKeeps ==
    ASSUME HandoffIInv, NEW k \in {"observed", "admitted"}, NEW w, NEW g,
           Remember(k, w, g), UNCHANGED <<ctl, session, active, runtime>>
    PROVE  HandoffIInv'
  <1> PICK h : h = FreshHandle(w, g)
    OBVIOUS
  <1>1. h.window = w /\ h.generation = g
    BY DEF FreshHandle
  <1>2. selection' = [selection EXCEPT ![k] = [window |-> w, generation |-> g, handle |-> h]]
    BY DEF Remember
  <1>3. SelectionsFit' /\ HandoffShapes'
    BY <1>1, <1>2 DEF HandoffIInv, SelectionsFit, HandleFits, HandoffShapes, RequestShape
  <1> QED BY <1>3 DEF HandoffIInv, RequestsFit, ChecksAreFenced, Checked, RunsWithoutHuman,
                      HandleBindsTarget

\* A command starts on the desktop only where the Agent has it.
LEMMA FinalAdmitKeeps ==
    ASSUME HandoffIInv, NEW o \in Ops, FinalAdmit(o)
    PROVE  HandoffIInv'
  <1>1. active' # active => LoopFree /\ runtime.status \in {"agent", "verifying"}
    BY DEF FinalAdmit, RuntimeDecision
  <1>2. UNCHANGED <<selection, ctl, session, runtime>>
    BY DEF FinalAdmit
  <1>3. ChecksAreFenced' /\ RunsWithoutHuman'
    BY <1>1, <1>2 DEF HandoffIInv, ChecksAreFenced, Checked, RunsWithoutHuman, LoopFree
  <1> QED BY <1>2, <1>3 DEF HandoffIInv, HandoffShapes, RequestShape, SelectionsFit,
                            RequestsFit, HandleBindsTarget

\* An operator's new request, or the next stage of one before the Agent's check.
NewRequest(p, r) ==
    /\ ctl' = [ctl EXCEPT ![p] = r]
    /\ r # None => /\ RequestShape(r)
                   /\ r.handle # None => HandleFits(r.handle, r.window, r.generation)
                   /\ r.stage = "checked" =>
                         /\ active = None
                         /\ r.command \in Surface => r.generation = session

LEMMA NewRequestKeeps ==
    ASSUME HandoffIInv, NEW p \in Operators, NEW r, NewRequest(p, r),
           UNCHANGED <<selection, session, active, runtime>>
    PROVE  HandoffIInv'
  <1>1. /\ ctl' = [q \in Operators |-> ctl'[q]] /\ ctl'[p] = r
        /\ \A q \in Operators : q # p => ctl'[q] = ctl[q]
    BY DEF HandoffIInv, HandoffShapes, NewRequest
  <1>2. HandoffShapes'
    BY <1>1 DEF HandoffIInv, HandoffShapes, NewRequest, RequestShape
  <1>3. RequestsFit'
    BY <1>1 DEF HandoffIInv, RequestsFit, NewRequest, HandleFits
  <1>4. ChecksAreFenced'
    BY <1>1 DEF HandoffIInv, ChecksAreFenced, NewRequest, Checked
  <1> QED BY <1>2, <1>3, <1>4 DEF HandoffIInv, SelectionsFit, RunsWithoutHuman,
                                  HandleBindsTarget

\* What an operator selects is a selection of the live session.
LEMMA SelectedFits ==
    ASSUME HandoffIInv, NEW c, Selected(Kind(c)) # None
    PROVE  HandleFits(Selected(Kind(c)).handle, Selected(Kind(c)).window,
                      Selected(Kind(c)).generation)
  BY DEF HandoffIInv, SelectionsFit, Selected, Kind

LEMMA RequestFits ==
    ASSUME NEW c, NEW h, NEW s, h # None => HandleFits(h, s.window, s.generation)
    PROVE  LET r == Request(c, h, s) IN
           /\ RequestShape(r) /\ r.stage = "selected"
           /\ r.handle # None => HandleFits(r.handle, r.window, r.generation)
  BY DEF Request, RequestShape, HandleFits

LEMMA BareFits ==
    ASSUME NEW c
    PROVE  RequestShape(Bare(c)) /\ Bare(c).stage = "selected" /\ Bare(c).handle = None
  BY DEF Bare, Request, RequestShape

\* execute, through the hosted service or the local socket.
LEMMA ExecuteKeeps ==
    ASSUME HandoffIInv, NEW p \in Operators, NEW c \in Commands,
           HostedExecute(p, c) \/ LocalExecute(p, c)
    PROVE  HandoffIInv'
  <1>1. PICK r : NewRequest(p, r)
    <2>1. CASE c \notin Surface
      <3>1. ctl' = [ctl EXCEPT ![p] = Bare(c)]
        BY <2>1 DEF HostedExecute, LocalExecute
      <3> QED BY <3>1, BareFits DEF NewRequest
    <2>2. CASE c \in Surface
      <3>1. PICK h : /\ ctl' = [ctl EXCEPT ![p] = Request(c, h, Selected(Kind(c)))]
                     /\ Selected(Kind(c)) # None
                     /\ h # None => h = Selected(Kind(c)).handle
        BY <2>2 DEF HostedExecute, LocalExecute, HandleAccepted
      <3>2. h # None => HandleFits(h, Selected(Kind(c)).window, Selected(Kind(c)).generation)
        BY <3>1, SelectedFits
      <3> QED BY <3>1, <3>2, RequestFits DEF NewRequest
    <2> QED BY <2>1, <2>2
  <1>2. UNCHANGED <<selection, session, active, runtime>>
    BY DEF HostedExecute, LocalExecute
  <1> QED BY <1>1, <1>2, NewRequestKeeps

\* handoff_request and the Agent's first exchange: the request goes on or is refused.
LEMMA StageKeeps ==
    ASSUME HandoffIInv, NEW p \in Operators, HandoffRequest(p) \/ AgentCheck(p)
    PROVE  HandoffIInv'
  <1>1. ctl[p] # None /\ RequestShape(ctl[p])
    BY DEF HandoffRequest, AgentCheck, HandoffIInv, HandoffShapes
  <1>2. ctl[p].handle # None => HandleFits(ctl[p].handle, ctl[p].window, ctl[p].generation)
    BY <1>1 DEF HandoffIInv, RequestsFit
  <1>3. PICK r : NewRequest(p, r)
    <2>1. CASE HandoffRequest(p)
      <3>1. PICK r : /\ ctl' = [ctl EXCEPT ![p] = r]
                     /\ r = None \/ r = [ctl[p] EXCEPT !.stage = "sent"]
        BY <2>1 DEF HandoffRequest
      <3> QED BY <3>1, <1>1, <1>2 DEF NewRequest, RequestShape, HandleFits
    <2>2. CASE AgentCheck(p)
      <3>1. PICK r, e : /\ ctl' = [ctl EXCEPT ![p] = r]
                        /\ \/ r = None
                           \/ /\ r = [ctl[p] EXCEPT !.stage = "checked", !.epoch = e]
                              /\ AgentAccepts(ctl[p])
        BY <2>2 DEF AgentCheck
      <3>2. AgentAccepts(ctl[p]) =>
              active = None /\ (ctl[p].command \in Surface => ctl[p].generation = session)
        BY DEF AgentAccepts
      <3>3. CASE r = None
        BY <3>1, <3>3 DEF NewRequest
      <3>4. CASE r = [ctl[p] EXCEPT !.stage = "checked", !.epoch = e] /\ AgentAccepts(ctl[p])
        <4>1. /\ RequestShape(r) /\ r.handle = ctl[p].handle /\ r.window = ctl[p].window
              /\ r.generation = ctl[p].generation /\ r.command = ctl[p].command
          BY <3>4, <1>1 DEF RequestShape
        <4>2. r.handle # None => HandleFits(r.handle, r.window, r.generation)
          BY <4>1, <1>2
        <4> QED BY <3>1, <3>2, <3>4, <4>1, <4>2 DEF NewRequest
      <3> QED BY <3>1, <3>3, <3>4
    <2> QED BY <2>1, <2>2
  <1>4. UNCHANGED <<selection, session, active, runtime>>
    BY DEF HandoffRequest, AgentCheck
  <1> QED BY <1>3, <1>4, NewRequestKeeps

\* The Agent's second exchange: what the runtime opens is the request's window, in
\* the live session, and no command runs meanwhile.
LEMMA ControlKeeps ==
    ASSUME HandoffIInv, NEW p \in Operators, AgentControl(p)
    PROVE  HandoffIInv' /\ (runtime'.epoch # runtime.epoch => runtime'.generation = session)
  <1>1. /\ Checked(p) /\ active = None
        /\ ctl[p].command \in Surface => ctl[p].generation = session
        /\ ctl[p].handle # None => HandleFits(ctl[p].handle, ctl[p].window, ctl[p].generation)
        /\ ctl' = [ctl EXCEPT ![p] = None]
        /\ UNCHANGED <<selection, session, active>>
    BY DEF AgentControl, Checked, HandoffIInv, ChecksAreFenced, RequestsFit
  <1>2. /\ ctl' = [q \in Operators |-> ctl'[q]] /\ ctl'[p] = None
        /\ \A q \in Operators : q # p => ctl'[q] = ctl[q]
    BY <1>1 DEF HandoffIInv, HandoffShapes
  <1>3. PICK fault \in BOOLEAN :
            runtime' = runtime \/ runtime' = [RuntimeAfter(ctl[p]) EXCEPT !.faulted = fault]
    BY DEF AgentControl
  <1>4. /\ runtime' = [status |-> runtime'.status, epoch |-> runtime'.epoch,
                       window |-> runtime'.window, generation |-> runtime'.generation,
                       recovery |-> runtime'.recovery, faulted |-> runtime'.faulted,
                       handle |-> runtime'.handle]
        /\ HandleBindsTarget'
        /\ runtime'.epoch # runtime.epoch => runtime'.generation = session
    <2>1. CASE runtime' = runtime
      BY <2>1 DEF HandoffIInv, HandoffShapes, HandleBindsTarget
    <2>2. CASE /\ runtime' = [RuntimeAfter(ctl[p]) EXCEPT !.faulted = fault]
               /\ ctl[p].command \in Surface
      BY <2>2, <1>1 DEF HandoffIInv, HandoffShapes, HandleBindsTarget, RuntimeAfter, HandleFits
    <2>3. CASE /\ runtime' = [RuntimeAfter(ctl[p]) EXCEPT !.faulted = fault]
               /\ ctl[p].command \notin Surface
      BY <2>3, <1>1 DEF HandoffIInv, HandoffShapes, HandleBindsTarget, RuntimeAfter
    <2> QED BY <1>3, <2>1, <2>2, <2>3
  <1>5. HandoffShapes'
    BY <1>1, <1>2, <1>4 DEF HandoffIInv, HandoffShapes, RequestShape
  <1>6. RequestsFit' /\ ChecksAreFenced'
    BY <1>1, <1>2 DEF HandoffIInv, RequestsFit, ChecksAreFenced, Checked, HandleFits
  <1> QED BY <1>1, <1>4, <1>5, <1>6 DEF HandoffIInv, SelectionsFit, RunsWithoutHuman, HandleFits

\* A session ends: nothing runs and the Agent's loop is free.
LEMMA SessionEndKeeps ==
    ASSUME HandoffIInv, SessionEnds, selection' = selection,
           \/ runtime' = runtime
           \/ runtime' = [runtime EXCEPT !.faulted = FALSE, !.status = "agent",
                            !.recovery = IF runtime.status # "agent" THEN "pending" ELSE @,
                            !.window = None, !.generation = 0, !.handle = None]
    PROVE  HandoffIInv' /\ runtime'.epoch = runtime.epoch
  <1>1. /\ active' = None /\ ctl' = [q \in Operators |-> ctl'[q]]
        /\ \A q \in Operators :
              \/ ctl'[q] = None
              \/ ctl'[q] = ctl[q] /\ ~Checked(q)
    BY DEF SessionEnds, Checked
  <1>2. HandoffShapes' /\ HandleBindsTarget' /\ runtime'.epoch = runtime.epoch
    BY <1>1 DEF HandoffIInv, HandoffShapes, RequestShape, HandleBindsTarget
  <1>3. RequestsFit' /\ ChecksAreFenced'
    BY <1>1 DEF HandoffIInv, RequestsFit, ChecksAreFenced, Checked, HandleFits
  <1> QED BY <1>1, <1>2, <1>3 DEF HandoffIInv, SelectionsFit, RunsWithoutHuman, HandleFits

LEMMA InvalidateKeeps ==
    ASSUME HandoffIInv, NEW w \in Windows, InvalidateContext(w)
    PROVE  HandoffIInv'
  <1>1. /\ selection' = [k \in {"observed", "admitted"} |-> selection'[k]]
        /\ \A k \in {"observed", "admitted"} : selection'[k] \in {None, selection[k]}
        /\ UNCHANGED <<ctl, session, active, runtime>>
    BY DEF InvalidateContext
  <1>2. HandoffShapes'
    BY <1>1 DEF HandoffIInv, HandoffShapes, RequestShape
  <1>3. SelectionsFit'
    BY <1>1 DEF HandoffIInv, SelectionsFit, HandleFits
  <1> QED BY <1>1, <1>2, <1>3 DEF HandoffIInv, RequestsFit, ChecksAreFenced, Checked,
                                  RunsWithoutHuman, HandleBindsTarget, HandleFits

\* Every step keeps the invariant and opens nothing on an earlier session.
LEMMA HandoffNextKeeps ==
    ASSUME HandoffIInv, HandoffNext
    PROVE  HandoffIInv' /\ (runtime'.epoch # runtime.epoch => runtime'.generation = session)
  <1>1. CASE HumanClaim \/ HumanDone \/ RecoveryExpires \/ RuntimeFault
    <2>1. RuntimeMoves /\ UNCHANGED <<selection, ctl, session, active>>
      BY <1>1 DEF HumanClaim, HumanDone, RecoveryExpires, RuntimeFault, RuntimeMoves,
                  HandoffIInv, HandoffShapes, RunsWithoutHuman
    <2> QED BY <2>1, RuntimeMovesKeep
  <1>2. ASSUME NEW o \in Ops, NEW w \in Windows, NEW v \in BOOLEAN, AdmitAgent(o, w, v)
        PROVE  HandoffIInv' /\ runtime' = runtime
    BY <1>2, RememberKeeps DEF AdmitAgent
  <1>3. ASSUME NEW o \in Ops, AgentAdmission(o) \/ StartCommand(o)
        PROVE  HandoffIInv' /\ runtime' = runtime
    <2>1. RuntimeMoves /\ UNCHANGED <<selection, ctl, session, active, runtime>>
      BY <1>3 DEF AgentAdmission, StartCommand, RuntimeMoves, HandoffIInv, HandoffShapes,
                  RunsWithoutHuman
    <2> QED BY <2>1, RuntimeMovesKeep
  <1>4. ASSUME NEW o \in Ops, HubDecision(o) PROVE HandoffIInv' /\ runtime' = runtime
    <2>1. UNCHANGED <<ctl, session, active, runtime>>
      BY <1>4 DEF HubDecision
    <2>2. CASE op[o].decision = "allow"
      BY <2>1, <2>2, <1>4, RememberKeeps DEF HubDecision
    <2>3. CASE op[o].decision # "allow"
      <3>1. RuntimeMoves /\ selection' = selection
        BY <1>4, <2>1, <2>3 DEF HubDecision, RuntimeMoves, HandoffIInv, HandoffShapes,
                                RunsWithoutHuman
      <3> QED BY <2>1, <3>1, RuntimeMovesKeep
    <2> QED BY <2>2, <2>3
  <1>5. ASSUME NEW o \in Ops, FinalAdmit(o) PROVE HandoffIInv' /\ runtime' = runtime
    BY <1>5, FinalAdmitKeeps DEF FinalAdmit
  <1>6. ASSUME NEW satisfied \in BOOLEAN, Complete(satisfied)
        PROVE  HandoffIInv' /\ runtime'.epoch = runtime.epoch
    <2>1. RuntimeMoves /\ UNCHANGED <<selection, ctl, session>> /\ active' = None
      BY <1>6 DEF Complete, RuntimeMoves, HandoffIInv, HandoffShapes
    <2> QED BY <2>1, RuntimeMovesKeep
  <1>7. ASSUME NEW p \in Operators, NEW c \in Commands, IssueContext(p, c)
        PROVE  HandoffIInv' /\ runtime' = runtime
    <2>1. RuntimeMoves /\ UNCHANGED <<selection, ctl, session, active, runtime>>
      BY <1>7 DEF IssueContext, RuntimeMoves, HandoffIInv, HandoffShapes, RunsWithoutHuman
    <2> QED BY <2>1, RuntimeMovesKeep
  <1>8. ASSUME NEW p \in Operators, NEW c \in Commands, HostedExecute(p, c) \/ LocalExecute(p, c)
        PROVE  HandoffIInv' /\ runtime' = runtime
    BY <1>8, ExecuteKeeps DEF HostedExecute, LocalExecute
  <1>9. ASSUME NEW p \in Operators, HandoffRequest(p) \/ AgentCheck(p)
        PROVE  HandoffIInv' /\ runtime' = runtime
    BY <1>9, StageKeeps DEF HandoffRequest, AgentCheck
  <1>10. CASE Reconnect \/ AgentRestart
    BY <1>10, SessionEndKeeps DEF Reconnect, AgentRestart
  <1>11. CASE Recover \/ \E i \in issued : ExpireIssued(i)
    <2>1. RuntimeMoves /\ UNCHANGED <<selection, ctl, session, active, runtime>>
      BY <1>11 DEF Recover, ExpireIssued, RuntimeMoves, HandoffIInv, HandoffShapes,
                   RunsWithoutHuman
    <2> QED BY <2>1, RuntimeMovesKeep
  <1>12. ASSUME NEW w \in Windows, InvalidateContext(w) PROVE HandoffIInv' /\ runtime' = runtime
    BY <1>12, InvalidateKeeps DEF InvalidateContext
  <1> QED BY <1>1, <1>2, <1>3, <1>4, <1>5, <1>6, <1>7, <1>8, <1>9, <1>10, <1>11, <1>12,
             ControlKeeps DEF HandoffNext

LEMMA HandoffInvariant == HandoffSpec => []HandoffIInv
  <1>1. HandoffIInv /\ [HandoffNext]_handoffVars => HandoffIInv'
    <2>1. CASE UNCHANGED handoffVars
      BY <2>1 DEF handoffVars, HandoffIInv, HandoffShapes, RequestShape, SelectionsFit,
                  RequestsFit, ChecksAreFenced, Checked, RunsWithoutHuman, HandleBindsTarget,
                  HandleFits
    <2> QED BY <2>1, HandoffNextKeeps
  <1> QED BY <1>1, HandoffStarts, PTL DEF HandoffSpec

\* A person who has taken over has the desktop alone, on the window of the handle
\* used, for any windows, operators, policy and limits.
THEOREM HandoffIsSafe == HandoffSpec => []HandoffSafe
  <1>1. HandoffIInv => HandoffSafe
    BY DEF HandoffIInv, RunsWithoutHuman, HandoffSafe, HumanAlone
  <1> QED BY <1>1, HandoffInvariant, PTL

\* No intervention opens on a selection of an earlier session.
THEOREM StaleSelectionsNeverOpen == HandoffSpec => StaleSelectionNeverOpens
  <1>1. HandoffIInv /\ [HandoffNext]_handoffVars =>
          [runtime'.epoch # runtime.epoch => runtime'.generation = session]_handoffVars
    BY HandoffNextKeeps
  <1> QED BY <1>1, HandoffInvariant, PTL DEF HandoffSpec, StaleSelectionNeverOpens

-----------------------------------------------------------------------------
(* Workspace files: a write is answered truthfully and replaces only what  *)
(* its caller named, and ranges of a file join, beside any other process.  *)

\* The writer, what publication displaced and the entries, as records.
EntryShape(e) == e = [kind |-> e.kind, ino |-> e.ino, content |-> e.content, links |-> e.links]
WriterShape ==
    writer = [pc |-> writer.pc, create |-> writer.create, expected |-> writer.expected,
              handle |-> writer.handle, initial |-> writer.initial, syncs |-> writer.syncs,
              told |-> writer.told, touched |-> writer.touched]
FilesShapes ==
    /\ WriterShape
    /\ displaced = [done |-> displaced.done, was |-> displaced.was, meant |-> displaced.meant,
                    expected |-> displaced.expected, touched |-> displaced.touched]
    /\ entry = [d \in Dirs |-> entry[d]] /\ disk = [d \in Dirs |-> disk[d]]
    /\ temp = [d \in Dirs |-> temp[d]] /\ (surface = "write" => named \in Dirs)
    /\ \A d \in Dirs : EntryShape(entry[d]) /\ EntryShape(disk[d])

\* Where the call stands fixes what it has found, staged and published.
FirstSteps == {"idle", "inspect", "stage"}
StagedSteps == {"reprove", "link", "recheck", "rename"}
StepFits ==
    /\ writer.pc \in FirstSteps \cup StagedSteps \cup {"sync", "told"}
    /\ writer.create \in BOOLEAN
    /\ writer.told # "none" <=> writer.pc = "told"
    /\ writer.pc \notin {"idle", "told"} => writer.handle \in Dirs
    /\ writer.pc \in FirstSteps => \A d \in Dirs : temp[d] = FALSE
    /\ writer.pc \in FirstSteps \cup StagedSteps => displaced.done = FALSE
    /\ writer.pc = "link" => writer.create /\ writer.initial = Absent
    /\ writer.pc \in {"recheck", "rename"} => ~writer.create /\ writer.initial.kind = "file"
    /\ writer.pc \in {"stage", "reprove"} => IF writer.create THEN writer.initial = Absent
                                             ELSE writer.initial.kind = "file"

\* Between the last inspection and the rename, and between publication and the
\* receipt, the target is what the call left unless another process touched it.
TargetFits ==
    /\ writer.pc = "rename" /\ ~writer.touched =>
          entry[writer.handle] = File(writer.initial.ino, writer.expected)
    /\ writer.pc = "sync" => /\ displaced.done
                             /\ ~writer.touched => entry[writer.handle].content = New
    /\ writer.told = "written" =>
          /\ displaced.done /\ writer.handle \in Dirs
          /\ writer.syncs /\ ~writer.touched =>
                entry[writer.handle].content = New /\ disk[writer.handle].content = New
    /\ writer.told = "refused" =>
          ~displaced.done /\ writer.handle \in Dirs /\ ~temp[writer.handle]

\* What was read is the file up to the cursor.
ReadSoFar ==
    surface = "read" =>
        /\ reader = [cursor |-> reader.cursor, got |-> reader.got, present |-> reader.present,
                     done |-> reader.done, failed |-> reader.failed]
        /\ reader.cursor \in 0..FileSize /\ reader.got = [i \in 1..reader.cursor |-> i]
        /\ reader.done => reader.cursor = FileSize

FilesIInv == FilesShapes /\ StepFits /\ TargetFits /\ NoBlindOverwrite

LEMMA RelabelKeepsShape ==
    ASSUME NEW e, EntryShape(e), NEW k, NEW i
    PROVE  EntryShape([e EXCEPT !.kind = k, !.ino = i])
<1>1. PICK f : f = [e EXCEPT !.kind = k]
  OBVIOUS
<1>2. EntryShape(f)
  BY <1>1 DEF EntryShape
<1>3. EntryShape([f EXCEPT !.ino = i])
  BY <1>2 DEF EntryShape
<1> QED BY <1>1, <1>3

LEMMA FilesStart == FilesInit => FilesIInv
<1> SUFFICES ASSUME FilesInit PROVE FilesIInv
  OBVIOUS
<1>1. PICK first \in {Absent} \cup {File(1, c) : c \in Contents} :
         entry = [d \in Dirs |-> IF d = named THEN first ELSE Absent]
  BY DEF FilesInit
<1>2. EntryShape(first) /\ EntryShape(Absent)
  <2>1. EntryShape(Absent)
    BY DEF EntryShape, Absent
  <2>2. ASSUME NEW c \in Contents PROVE EntryShape(File(1, c))
    BY DEF EntryShape, File
  <2> QED BY <2>1, <2>2
<1>3. FilesShapes
  BY <1>1, <1>2 DEF FilesInit, FilesShapes, WriterShape, Idle, NothingDisplaced
<1> QED BY <1>3 DEF FilesInit, FilesIInv, StepFits, TargetFits, NoBlindOverwrite, Idle,
                    NothingDisplaced, FirstSteps, StagedSteps

\* A call that is given up before publication.
LEMMA FileGivesUp ==
    ASSUME FilesIInv, writer.pc \in StagedSteps, CleanUpAndRefuse, UNCHANGED <<surface, named, entry, disk, displaced>>
    PROVE  FilesIInv'
<1>1. CASE Refuse /\ temp' = [temp EXCEPT ![writer.handle] = FALSE]
  BY <1>1 DEF Refuse, FilesIInv, FilesShapes, WriterShape, EntryShape, StepFits, TargetFits,
       NoBlindOverwrite, Idle, FirstSteps, StagedSteps
<1>2. CASE Unproven /\ UNCHANGED temp
  BY <1>2 DEF Unproven, FilesIInv, FilesShapes, WriterShape, EntryShape, StepFits, TargetFits,
       NoBlindOverwrite, Idle, FirstSteps, StagedSteps
<1> QED BY <1>1, <1>2 DEF CleanUpAndRefuse

LEMMA FileStartKeeps ==
    ASSUME FilesIInv, NEW create \in BOOLEAN, NEW expected, StartWrite(create, expected), surface' = surface
    PROVE  FilesIInv'
BY DEF StartWrite, FilesIInv, FilesShapes, WriterShape, EntryShape, StepFits, TargetFits,
       NoBlindOverwrite, Idle, FirstSteps, StagedSteps

LEMMA FileInspectKeeps == ASSUME FilesIInv, InspectTarget, surface' = surface PROVE FilesIInv'
<1> DEFINE e == entry[writer.handle]
<1>1. CASE Inspectable(e) /\ PreconditionHolds(e)
  <2>1. writer' = [writer EXCEPT !.pc = "stage", !.initial = e]
    BY <1>1 DEF InspectTarget
  <2> QED BY <1>1, <2>1 DEF InspectTarget, PreconditionHolds, FilesIInv, FilesShapes, WriterShape, EntryShape,
                StepFits, TargetFits, NoBlindOverwrite, FirstSteps, StagedSteps
<1>2. CASE ~(Inspectable(e) /\ PreconditionHolds(e))
  <2>1. Refuse
    BY <1>2 DEF InspectTarget
  <2> QED BY <2>1 DEF InspectTarget, Refuse, FilesIInv, FilesShapes, WriterShape, EntryShape,
                StepFits, TargetFits, NoBlindOverwrite, Idle, FirstSteps, StagedSteps
<1> QED BY <1>1, <1>2

LEMMA FileStageKeeps == ASSUME FilesIInv, StageBytes, surface' = surface PROVE FilesIInv'
<1>1. CASE Refuse /\ UNCHANGED temp
  BY <1>1 DEF StageBytes, Refuse, FilesIInv, FilesShapes, WriterShape, EntryShape,
              StepFits, TargetFits, NoBlindOverwrite, Idle, FirstSteps, StagedSteps
<1>2. ASSUME NEW syncs \in BOOLEAN, writer' = [writer EXCEPT !.pc = "reprove", !.syncs = syncs],
             temp' = [temp EXCEPT ![writer.handle] = TRUE]
      PROVE  FilesIInv'
  BY <1>2 DEF StageBytes, FilesIInv, FilesShapes, WriterShape, EntryShape,
              StepFits, TargetFits, NoBlindOverwrite, FirstSteps, StagedSteps
<1> QED BY <1>1, <1>2 DEF StageBytes

LEMMA FileReproveKeeps == ASSUME FilesIInv, ReproveParent, surface' = surface PROVE FilesIInv'
<1>1. CASE CleanUpAndRefuse
  BY <1>1, FileGivesUp DEF ReproveParent, StagedSteps
<1>2. CASE writer' = [writer EXCEPT !.pc = IF writer.create THEN "link" ELSE "recheck"] /\ UNCHANGED temp
  BY <1>2 DEF ReproveParent, FilesIInv, FilesShapes, WriterShape, EntryShape,
              StepFits, TargetFits, NoBlindOverwrite, FirstSteps, StagedSteps
<1> QED BY <1>1, <1>2 DEF ReproveParent

\* Publication displaces what the last inspection found, unless it was touched since.
LEMMA FilePublishKeeps ==
    ASSUME FilesIInv, Publish(writer.handle, File(9, New)), surface' = surface, UNCHANGED <<named, disk>>,
           temp' = [temp EXCEPT ![writer.handle] = FALSE],
           \/ writer.pc = "link" /\ entry[writer.handle] = Absent
           \/ writer.pc = "rename"
    PROVE  FilesIInv'
<1>1. /\ writer.handle \in Dirs /\ writer' = [writer EXCEPT !.pc = "sync"]
      /\ entry' = [entry EXCEPT ![writer.handle] = File(9, New)]
      /\ displaced' = [done |-> TRUE, was |-> entry[writer.handle], meant |-> writer.initial,
                       expected |-> writer.expected, touched |-> writer.touched]
  BY DEF Publish, FilesIInv, StepFits
<1>2. FilesShapes'
  BY <1>1 DEF FilesIInv, FilesShapes, WriterShape, EntryShape, File
<1>3. StepFits' /\ TargetFits'
  BY <1>1 DEF FilesIInv, FilesShapes, WriterShape, StepFits, TargetFits, File, FirstSteps, StagedSteps
<1>4. NoBlindOverwrite'
  <2>1. /\ displaced'.was = entry[writer.handle] /\ displaced'.meant = writer.initial
        /\ displaced'.expected = writer.expected /\ displaced'.touched = writer.touched
    BY <1>1
  <2>2. CASE writer.pc = "link"
    BY <2>1, <2>2 DEF FilesIInv, NoBlindOverwrite, StepFits
  <2>3. CASE writer.pc = "rename"
    <3>1. writer.initial # Absent
      <4>1. writer.initial.kind = "file"
        BY <2>3 DEF FilesIInv, StepFits
      <4>2. Absent.kind = "absent"
        BY DEF Absent
      <4> QED BY <4>1, <4>2
    <3> QED BY <2>1, <2>3, <3>1 DEF FilesIInv, NoBlindOverwrite, TargetFits
  <2> QED BY <2>2, <2>3
<1> QED BY <1>2, <1>3, <1>4 DEF FilesIInv

LEMMA LinkPublishes == ASSUME FilesIInv, PublishByLink, surface' = surface PROVE FilesIInv'
<1>1. CASE /\ entry[writer.handle] = Absent /\ Publish(writer.handle, File(9, New))
           /\ temp' = [temp EXCEPT ![writer.handle] = FALSE]
  BY <1>1, FilePublishKeeps DEF PublishByLink
<1>2. CASE CleanUpAndRefuse /\ UNCHANGED <<entry, displaced>>
  BY <1>2, FileGivesUp DEF PublishByLink, StagedSteps
<1>3. ASSUME Unproven, NEW left \in BOOLEAN, temp' = [temp EXCEPT ![writer.handle] = left],
             \/ UNCHANGED <<entry, displaced>>
             \/ /\ entry' = [entry EXCEPT ![writer.handle] = File(9, New)]
                /\ displaced' = [NothingDisplaced EXCEPT !.done = TRUE]
      PROVE  FilesIInv'
  <2>1. /\ writer' = [Idle EXCEPT !.pc = "told", !.told = "unproven", !.handle = writer.handle]
        /\ writer.handle \in Dirs /\ UNCHANGED <<named, disk>>
    BY <1>3 DEF Unproven, PublishByLink, FilesIInv, StepFits
  <2>2. EntryShape(File(9, New))
    BY DEF EntryShape, File
  <2>3. \A d \in Dirs : EntryShape(entry'[d])
    BY <1>3, <2>1, <2>2 DEF FilesIInv, FilesShapes
  <2>4. /\ displaced' = [done |-> displaced'.done, was |-> displaced'.was, meant |-> displaced'.meant,
                         expected |-> displaced'.expected, touched |-> displaced'.touched]
        /\ NoBlindOverwrite'
    BY <1>3 DEF FilesIInv, FilesShapes, NothingDisplaced, NoBlindOverwrite
  <2>5. FilesShapes'
    BY <1>3, <2>1, <2>3, <2>4 DEF FilesIInv, FilesShapes, WriterShape, Idle
  <2>6. StepFits' /\ TargetFits'
    BY <2>1 DEF StepFits, TargetFits, Idle, FirstSteps, StagedSteps
  <2> QED BY <2>4, <2>5, <2>6 DEF FilesIInv
<1> QED BY <1>1, <1>2, <1>3 DEF PublishByLink

LEMMA FileRecheckKeeps == ASSUME FilesIInv, RecheckTarget, surface' = surface PROVE FilesIInv'
<1> DEFINE e == entry[writer.handle]
           ok == Inspectable(e) /\ e.ino = writer.initial.ino /\ PreconditionHolds(e)
<1>1. CASE ok
  <2>1. writer' = [writer EXCEPT !.pc = "rename", !.touched = FALSE] /\ UNCHANGED temp
    BY <1>1 DEF RecheckTarget
  <2>2. EntryShape(e) /\ ~writer.create /\ writer.handle \in Dirs
    BY DEF RecheckTarget, FilesIInv, FilesShapes, StepFits
  <2>3. e = File(writer.initial.ino, writer.expected)
    BY <1>1, <2>2 DEF Inspectable, PreconditionHolds, EntryShape, File
  <2> QED BY <2>1, <2>2, <2>3 DEF RecheckTarget, FilesIInv, FilesShapes, WriterShape, EntryShape,
              StepFits, TargetFits, NoBlindOverwrite, FirstSteps, StagedSteps
<1>2. CASE ~ok
  <2>1. CleanUpAndRefuse
    BY <1>2 DEF RecheckTarget
  <2> QED BY <2>1, FileGivesUp DEF RecheckTarget, StagedSteps
<1> QED BY <1>1, <1>2

LEMMA RenamePublishes == ASSUME FilesIInv, PublishByRename, surface' = surface PROVE FilesIInv'
<1>1. CASE /\ Publish(writer.handle, File(9, New)) /\ temp' = [temp EXCEPT ![writer.handle] = FALSE]
  BY <1>1, FilePublishKeeps DEF PublishByRename
<1>2. ASSUME Unproven, UNCHANGED <<entry, displaced>>,
             NEW left \in BOOLEAN, temp' = [temp EXCEPT ![writer.handle] = left]
      PROVE  FilesIInv'
  BY <1>2 DEF PublishByRename, Unproven, FilesIInv, FilesShapes, WriterShape, EntryShape,
              StepFits, TargetFits, NoBlindOverwrite, Idle, FirstSteps, StagedSteps
<1> QED BY <1>1, <1>2 DEF PublishByRename

LEMMA SyncReportKeeps == ASSUME FilesIInv, SyncAndReport, surface' = surface PROVE FilesIInv'
<1>1. CASE /\ writer' = [writer EXCEPT !.pc = "told", !.told = "written"]
           /\ disk' = IF writer.syncs THEN [disk EXCEPT ![writer.handle] = entry[writer.handle]] ELSE disk
  <2>1. writer.pc = "sync" /\ writer.handle \in Dirs /\ UNCHANGED <<named, entry, temp, displaced>>
    BY DEF SyncAndReport, FilesIInv, StepFits
  <2>2. FilesShapes'
    BY <1>1, <2>1 DEF FilesIInv, FilesShapes, WriterShape, EntryShape
  <2>3. /\ writer'.pc = "told" /\ writer'.told = "written" /\ writer'.create = writer.create
        /\ writer'.handle = writer.handle /\ writer'.syncs = writer.syncs
        /\ writer'.touched = writer.touched
    BY <1>1 DEF FilesIInv, FilesShapes, WriterShape
  <2>4. StepFits' /\ NoBlindOverwrite'
    BY <2>1, <2>3 DEF FilesIInv, StepFits, NoBlindOverwrite, FirstSteps, StagedSteps
  <2>5. TargetFits'
    BY <1>1, <2>1, <2>3 DEF FilesIInv, FilesShapes, TargetFits
  <2> QED BY <2>2, <2>4, <2>5 DEF FilesIInv
<1>2. CASE Unproven /\ UNCHANGED disk
  BY <1>2 DEF SyncAndReport, Unproven, FilesIInv, FilesShapes, WriterShape, EntryShape,
              StepFits, TargetFits, NoBlindOverwrite, Idle, FirstSteps, StagedSteps
<1> QED BY <1>1, <1>2 DEF SyncAndReport

\* Another process may do anything to the target; the call is told it was touched.
LEMMA FileOutsiderKeeps ==
    ASSUME FilesIInv, NEW d \in Dirs, OutsiderChanges(d), surface' = surface PROVE FilesIInv'
<1>1. /\ disk' = [disk EXCEPT ![d] = entry'[d]] /\ UNCHANGED <<named, temp, displaced>>
      /\ IF d = writer.handle THEN writer' = [writer EXCEPT !.touched = TRUE] ELSE UNCHANGED writer
  BY DEF OutsiderChanges, Touch
<1>2. PICK x : EntryShape(x) /\ entry' = [entry EXCEPT ![d] = x]
  <2>1. EntryShape(entry[d]) /\ entry = [c \in Dirs |-> entry[c]]
    BY DEF FilesIInv, FilesShapes
  <2>2. ASSUME NEW c \in Contents, entry' = [entry EXCEPT ![d].content = c] 
        PROVE \E x : EntryShape(x) /\ entry' = [entry EXCEPT ![d] = x]
    <3>1. EntryShape([entry[d] EXCEPT !.content = c])
      BY <2>1 DEF EntryShape
    <3> QED BY <2>2, <3>1
  <2>3. ASSUME NEW c \in Contents, entry' = [entry EXCEPT ![d] = File(2 + outside, c)] 
        PROVE \E x : EntryShape(x) /\ entry' = [entry EXCEPT ![d] = x]
    BY <2>3 DEF File, EntryShape
  <2>4. CASE entry' = [entry EXCEPT ![d] = Absent]
    BY <2>4 DEF Absent, EntryShape
  <2>5. CASE entry' = [entry EXCEPT ![d].links = 2]
    <3>1. EntryShape([entry[d] EXCEPT !.links = 2])
      BY <2>1 DEF EntryShape
    <3> QED BY <2>5, <3>1
  <2>6. CASE entry' = [entry EXCEPT ![d] = [Absent EXCEPT !.kind = "symlink", !.ino = 2 + outside]]
    <3>1. EntryShape(Absent)
      BY DEF Absent, EntryShape
    <3>2. EntryShape([Absent EXCEPT !.kind = "symlink", !.ino = 2 + outside])
      BY <3>1, RelabelKeepsShape
    <3> QED BY <2>6, <3>2
  <2> QED BY <2>2, <2>3, <2>4, <2>5, <2>6 DEF OutsiderChanges
<1>3. FilesShapes' /\ StepFits'
  BY <1>1, <1>2 DEF FilesIInv, FilesShapes, WriterShape, StepFits, EntryShape, FirstSteps, StagedSteps
<1>4. TargetFits' /\ NoBlindOverwrite'
  BY <1>1, <1>2 DEF FilesIInv, FilesShapes, WriterShape, TargetFits, StepFits, NoBlindOverwrite
<1> QED BY <1>3, <1>4 DEF FilesIInv

\* A crash ends the call, and takes no receipt that waited for its sync.
LEMMA FilesCrashKeeps == ASSUME FilesIInv, Crash, surface' = surface PROVE FilesIInv'
<1>1. PICK keep \in BOOLEAN : entry' = [d \in Dirs |-> IF keep THEN entry[d] ELSE disk[d]]
  BY DEF Crash
<1>2. /\ disk' = entry' /\ UNCHANGED <<named, temp, displaced>>
      /\ writer' = IF writer.pc = "told" THEN writer
                   ELSE [Idle EXCEPT !.pc = "told", !.told = "lost", !.handle = writer.handle]
  BY DEF Crash
<1>3. FilesShapes'
  BY <1>1, <1>2 DEF FilesIInv, FilesShapes, WriterShape, EntryShape, Idle
<1>4. StepFits' /\ TargetFits' /\ NoBlindOverwrite'
  BY <1>1, <1>2 DEF FilesIInv, StepFits, TargetFits, NoBlindOverwrite, Idle, FirstSteps, StagedSteps
<1> QED BY <1>3, <1>4 DEF FilesIInv

LEMMA FilesNextKeeps == FilesIInv /\ [FilesNext]_filesVars => FilesIInv'
<1> SUFFICES ASSUME FilesIInv, [FilesNext]_filesVars PROVE FilesIInv'
  OBVIOUS
<1>1. CASE WriteNext /\ UNCHANGED <<surface, readSide, outside>>
  <2>1. surface' = surface
    BY <1>1
  <2> QED BY <1>1, <2>1, FileStartKeeps, FileInspectKeeps, FileStageKeeps, FileReproveKeeps, LinkPublishes,
             FileRecheckKeeps, RenamePublishes, SyncReportKeeps DEF WriteNext
<1>2. CASE ((\E d \in Dirs : OutsiderChanges(d)) \/ Crash) /\ surface' = surface
  BY <1>2, FileOutsiderKeeps, FilesCrashKeeps
<1>3. CASE OutsiderMovesParent /\ surface' = surface
  BY <1>3 DEF OutsiderMovesParent, FilesIInv, FilesShapes, WriterShape, StepFits, TargetFits, NoBlindOverwrite
<1>4. CASE UNCHANGED <<surface, writeSide>> \/ UNCHANGED filesVars
  BY <1>4 DEF writeSide, filesVars, FilesIInv, FilesShapes, WriterShape, StepFits, TargetFits, NoBlindOverwrite
<1> QED BY <1>1, <1>2, <1>3, <1>4 DEF FilesNext

\* A write is answered truthfully and replaces only what its caller named
\* (write_workspace_file), for any directories, contents and number of steps of
\* other processes.
THEOREM WritesAreHonest == FilesSpec => [](WriteAnswersAreTrue /\ NoBlindOverwrite)
<1>1. FilesIInv => WriteAnswersAreTrue /\ NoBlindOverwrite
  BY DEF FilesIInv, TargetFits, WriteAnswersAreTrue
<1> QED BY <1>1, FilesStart, FilesNextKeeps, PTL DEF FilesSpec

\* What two sequences of numbers hold together.
LEMMA JoinedParts ==
    ASSUME NEW a \in Seq(Nat), NEW b \in Seq(Nat)
    PROVE  /\ a \o b \in Seq(Nat) /\ Len(a \o b) = Len(a) + Len(b)
           /\ \A i \in 1..(Len(a) + Len(b)) : (a \o b)[i] = IF i <= Len(a) THEN a[i] ELSE b[i - Len(a)]
BY ConcatProperties

\* A range is the next part of the file, and only the last one ends it.
LEMMA RangeKeeps ==
    ASSUME ReadSoFar, NEW max \in 0..(MaxFileRead + 1), ReadRange(max), surface' = surface
    PROVE  ReadSoFar'
<1> DEFINE left == FileSize - reader.cursor
<1>1. FileSize \in Nat /\ MaxFileRead \in Nat /\ max \in Nat /\ surface = "read"
  BY FilesConstants DEF ReadRange
<1>2. /\ reader = [cursor |-> reader.cursor, got |-> reader.got, present |-> reader.present,
                   done |-> reader.done, failed |-> reader.failed]
      /\ reader.cursor \in 0..FileSize /\ reader.got = [i \in 1..reader.cursor |-> i]
  BY <1>1 DEF ReadSoFar
<1>3. CASE max = 0 \/ max > MaxFileRead
  <2>1. reader' = [reader EXCEPT !.failed = TRUE]
    BY <1>3 DEF ReadRange
  <2> QED BY <1>1, <1>2, <2>1 DEF ReadSoFar
<1>4. CASE ~(max = 0 \/ max > MaxFileRead)
  <2>1. PICK n \in Nat : n = (IF left > max THEN max ELSE left)
    BY <1>1, <1>2
  <2>2. PICK more : more = [i \in 1..n |-> reader.cursor + i]
    OBVIOUS
  <2>3. reader' = [reader EXCEPT !.got = @ \o more, !.cursor = @ + n, !.done = ~(left > max)]
    BY <1>4, <2>1, <2>2 DEF ReadRange
  <2>4. /\ reader'.cursor = reader.cursor + n /\ reader'.done = ~(left > max)
        /\ reader'.got = reader.got \o more
        /\ reader' = [cursor |-> reader'.cursor, got |-> reader'.got, present |-> reader'.present,
                      done |-> reader'.done, failed |-> reader'.failed]
    <3> HIDE DEF left
    <3> QED BY <1>2, <2>3
  <2>5. reader.got \in Seq(Nat) /\ Len(reader.got) = reader.cursor /\ more \in Seq(Nat) /\ Len(more) = n
    <3>1. ASSUME NEW m \in Nat, NEW f, f = [i \in 1..m |-> f[i]], \A i \in 1..m : f[i] \in Nat
          PROVE  f \in Seq(Nat) /\ Len(f) = m
      <4>1. f \in [1..m -> Nat]
        BY <3>1
      <4> QED BY <4>1, LenProperties
    <3>2. reader.cursor \in Nat
      BY <1>1, <1>2
    <3>3. \A i \in 1..reader.cursor : reader.got[i] \in Nat
      BY <1>2, <3>2
    <3>4. \A i \in 1..n : more[i] \in Nat
      BY <2>2, <3>2
    <3> QED BY <1>2, <2>2, <3>1, <3>2, <3>3, <3>4
  <2>6. PICK c \in Nat : c = reader.cursor + n
    BY <1>1, <1>2, <2>1
  <2>7. reader.got \o more = [i \in 1..c |-> i]
    <3>1. PICK z : z = reader.got \o more
      OBVIOUS
    <3>2. /\ z \in Seq(Nat) /\ Len(z) = c
          /\ \A i \in 1..c : z[i] = IF i <= reader.cursor THEN reader.got[i] ELSE more[i - reader.cursor]
      <4>1. PICK a \in Seq(Nat) : a = reader.got
        BY <2>5
      <4>2. more \in Seq(Nat) /\ z = a \o more
        BY <2>5, <3>1, <4>1
      <4>3. Len(a) = reader.cursor /\ Len(more) = n /\ c = Len(a) + Len(more)
        BY <2>5, <2>6, <4>1
      <4>4. /\ z \in Seq(Nat) /\ Len(z) = Len(a) + Len(more)
            /\ \A i \in 1..(Len(a) + Len(more)) : z[i] = IF i <= Len(a) THEN a[i] ELSE more[i - Len(a)]
        BY <4>2, JoinedParts, Zenon
      <4> QED BY <4>1, <4>3, <4>4, Zenon
    <3>3. ASSUME NEW i \in 1..c PROVE z[i] = i
      <4>1. CASE i <= reader.cursor
        BY <1>2, <3>2, <3>3, <4>1
      <4>2. CASE ~(i <= reader.cursor)
        <5>1. i - reader.cursor \in 1..n
          BY <1>1, <1>2, <2>1, <2>6, <4>2
        <5>2. more[i - reader.cursor] = reader.cursor + (i - reader.cursor)
          BY <2>2, <5>1
        <5> QED BY <1>1, <1>2, <3>2, <4>2, <5>2
      <4> QED BY <4>1, <4>2
    <3>4. z = [i \in 1..c |-> z[i]]
      BY <3>2
    <3> QED BY <3>1, <3>3, <3>4
  <2>8. c \in 0..FileSize /\ (~(left > max) => c = FileSize)
    BY <1>1, <1>2, <2>1, <2>6
  <2> QED
    <3> HIDE DEF left
    <3> QED BY <2>4, <2>6, <2>7, <2>8 DEF ReadSoFar
<1> QED BY <1>3, <1>4

\* The ranges of a file that is read to its end (read_file_range) join to the file,
\* for any size, limit and choice of ranges.
THEOREM RangesAlwaysJoin == FilesSpec => []RangesJoin
<1>1. FilesInit => ReadSoFar
  BY FilesConstants DEF FilesInit, ReadSoFar, NoReader
<1>2. ReadSoFar /\ [FilesNext]_filesVars => ReadSoFar'
  <2> SUFFICES ASSUME ReadSoFar, [FilesNext]_filesVars PROVE ReadSoFar'
    OBVIOUS
  <2>1. CASE UNCHANGED <<surface, readSide>> \/ UNCHANGED filesVars
    BY <2>1 DEF readSide, filesVars, ReadSoFar
  <2>2. CASE surface' = surface /\ (ListPage \/ (\E n \in Names : OutsiderAddsOrRemoves(n)))
    BY <2>2 DEF ListPage, OutsiderAddsOrRemoves, ReadSoFar
  <2>3. ASSUME NEW max \in 0..(MaxFileRead + 1), ReadRange(max), surface' = surface PROVE ReadSoFar'
    BY <2>3, RangeKeeps
  <2> QED BY <2>1, <2>2, <2>3 DEF FilesNext
<1>3. ReadSoFar => RangesJoin
  BY DEF ReadSoFar, RangesJoin
<1> QED BY <1>1, <1>2, <1>3, PTL DEF FilesSpec

=============================================================================
