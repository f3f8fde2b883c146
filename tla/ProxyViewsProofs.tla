-------------------------- MODULE ProxyViewsProofs --------------------------
(***************************************************************************)
(* A game server never believes a client to look anywhere but where the    *)
(* proxy remembers to have told it, unless it has been told nothing, for   *)
(* every value of the constants as long as game servers close no children. *)
(*                                                                         *)
(* What was told is lost when the player controller it was told to is      *)
(* being replaced, so the inductive invariant says that the controllers on *)
(* their way to the proxy have been told nothing; and that a position      *)
(* outlives its route without ever meeting another, because the ids of     *)
(* routes are not used again.                                              *)
(***************************************************************************)
EXTENDS ProxyViews, ProxyRoutesProofs

USE DEF NoId, gameVars

ViewInv ==
    /\ \A h \in Live : told[h] \in {lastPos[h], Origin}
    /\ \A h \in Ids : pcs[h] # <<>> => told[h] = Origin
    /\ \A h \in Ids : told[h] # Origin => h < nextId
    /\ closedChildren = {}

LEMMA InitView == ViewInit => RouteInv /\ ViewInv
<1> SUFFICES ASSUME ViewInit PROVE RouteInv /\ ViewInv OBVIOUS
<1>1. RouteInv BY InitType, InitRouteInv DEF ViewInit, RouteInv
<1>2. Live = {} BY DEF ViewInit, Init, Live
<1>3. ViewInv BY <1>2 DEF ViewInit, Init, ViewInv
<1>4. QED BY <1>1, <1>3

-----------------------------------------------------------------------------
(* Ids are used once.                                                      *)

NewIds == /\ nextId' >= nextId
          /\ \A h \in Live' \ Live : h >= nextId

LEMMA JoinAdds ==
  ASSUME RouteInv, NEW c \in Clients, Join(c)
  PROVE  NewIds
<1>1. PICK p \in PrimaryChoices :
         ConnectToGameServer(parent, [i \in 1 .. Len(gameServers) |->
               [client |-> c, server |-> gameServers[i], primary |-> i - 1 = p]])
  BY DEF Join
<1> DEFINE reqs == [i \in 1 .. Len(gameServers) |->
               [client |-> c, server |-> gameServers[i], primary |-> i - 1 = p]]
<1>2. gameServers \in Seq(Servers) /\ Len(gameServers) \in Nat
  <2>1. gameServers \in Seq(Servers) BY DEF RouteInv, TypeOK
  <2>2. QED BY <2>1
<1>3. reqs \in Seq(Request) BY <1>2 DEF Request
<1>4. ConnectToGameServer(parent, reqs) BY <1>1
<1> HIDE DEF reqs
<1>5. QED BY <1>3, <1>4, ConnectAdds DEF RouteInv, NewIds

LEMMA RegisterAndConnectAdds ==
  ASSUME RouteInv, NEW s \in Servers, RegisterGameServerAndConnectClients(s)
  PROVE  NewIds
<1>1. PICK order \in {f \in [1 .. Cardinality(OpenConnections) -> OpenConnections] :
                        IsInjective(f)} :
        ConnectToGameServer([parent EXCEPT ![s] = "none"],
             [i \in DOMAIN order |->
                 [client |-> order[i], server |-> s, primary |-> FALSE]])
  BY DEF RegisterGameServerAndConnectClients
<1> DEFINE reqs  == [i \in DOMAIN order |->
                       [client |-> order[i], server |-> s, primary |-> FALSE]]
           conns == [parent EXCEPT ![s] = "none"]
<1>2. /\ open \subseteq Clients /\ IsFiniteSet(Clients)
      /\ order \in [1 .. Cardinality(open) -> open]
  BY ConstantsAssumption DEF RouteInv, TypeOK, OpenConnections, ConstantsAssumption
<1>3. DOMAIN order = 1 .. Cardinality(open) /\ Cardinality(open) \in Nat
      /\ \A i \in DOMAIN order : order[i] \in open
  BY <1>2, ArrayType
<1>4. reqs \in Seq(Request)
  <2>1. \A i \in DOMAIN order :
           [client |-> order[i], server |-> s, primary |-> FALSE] \in Request
    BY <1>2, <1>3 DEF Request
  <2>2. reqs \in [1 .. Cardinality(open) -> Request] BY <1>3, <2>1
  <2>3. Cardinality(open) \in Nat BY <1>3
  <2> HIDE DEF reqs
  <2>4. QED BY <2>2, <2>3
<1>5. ConnectToGameServer(conns, reqs) BY <1>1
<1> HIDE DEF reqs, conns
<1>6. QED BY <1>4, <1>5, ConnectAdds DEF RouteInv, NewIds

\* Steps that create no route.
LEMMA NoneAdded ==
  ASSUME TypeOK, Live' \subseteq Live, nextId' = nextId
  PROVE  NewIds
<1>1. nextId \in Int
  <2>1. nextId \in 1 .. MaxIds + 1 /\ MaxIds \in Nat
    BY ConstantsAssumption DEF TypeOK, ConstantsAssumption
  <2>2. QED BY <2>1
<1>2. QED BY <1>1 DEF NewIds

LEMMA AssignAdds ==
  ASSUME RouteInv, NEW h \in Ids, GameServerAssignPlayerController(h)
  PROVE  Live' \subseteq Live /\ nextId' = nextId
<1>1. nextId' = nextId
  BY DEF GameServerAssignPlayerController, AssignConnecting, AssignConnectingPrimary,
         ReassignNoPawn, ReassignGame, AssignPendingClose, joinVars
<1>2. ASSUME AssignConnecting(h) \/ AssignConnectingPrimary(h) PROVE Live' \subseteq Live
  <2>1. PICK pc \in PC, st \in {"Connected", "ConnectedPrimary"} :
        routes' = [routes EXCEPT ![h].state = st, ![h].conn = TRUE, ![h].pc = pc]
    BY <1>2 DEF AssignConnecting, AssignConnectingPrimary
  <2>2. QED BY <2>1 DEF RouteInv, TypeOK, Live
<1>3. ASSUME NEW rs, NEW prev, NEW game, NEW d, Reassigns(h, rs, prev, game, d)
      PROVE  Live' \subseteq Live
  <2>1. /\ rs \in [Live -> Route]
        /\ routes' = Finalized(rs, prev, game) \/ routes' = Awaiting(rs, h)
    BY <1>3 DEF Reassigns
  <2>2. DOMAIN routes' = DOMAIN rs BY <2>1 DEF Finalized, Awaiting
  <2>3. QED BY <2>1, <2>2 DEF Live
<1>4. ASSUME ReassignNoPawn(h) \/ ReassignGame(h) PROVE Live' \subseteq Live
  BY <1>3, <1>4, ReassignNoPawnReassigns, ReassignGameReassigns
<1>5. ASSUME AssignPendingClose(h) PROVE Live' \subseteq Live
  BY <1>5 DEF AssignPendingClose, Live, Restrict
<1>6. QED BY <1>1, <1>2, <1>4, <1>5 DEF GameServerAssignPlayerController

LEMMA NextAdds ==
  ASSUME RouteInv, [Next]_vars
  PROVE  NewIds
<1>1. TypeOK BY DEF RouteInv
<1>2. ASSUME NEW c \in Clients, Accept(c) \/ JoinDividesByZero(c) PROVE NewIds
  BY <1>1, <1>2, NoneAdded DEF Accept, JoinDividesByZero, joinVars, Live
<1>3. ASSUME NEW c \in Clients, HandleClosedProxyConnection(c) PROVE NewIds
  BY <1>1, <1>3, NoneAdded DEF HandleClosedProxyConnection, joinVars, Live
<1>4. ASSUME NEW s \in Servers,
             \/ ParentConnected(s) \/ ParentSearchFaults(s) \/ RegisterGameServer(s)
             \/ ParentLost(s)
      PROVE  NewIds
  BY <1>1, <1>4, NoneAdded DEF ParentConnected, ParentSearchFaults, RegisterGameServer,
     ParentLost, joinVars, Live
<1>5. ASSUME NEW gone, RemoveGameServers(gone), nextId' = nextId PROVE NewIds
  BY <1>1, <1>5, NoneAdded DEF RemoveGameServers, Restrict, Live
<1>6. ASSUME NEW h \in Ids, CloseChildConnection(h) \/ GameServerAssignPlayerController(h)
      PROVE  NewIds
  BY <1>1, <1>6, NoneAdded, AssignAdds DEF CloseChildConnection, joinVars, Live
<1>7. ASSUME NEW c \in Clients, NEW h \in Ids, Migrate(c, h) PROVE NewIds
  BY <1>1, <1>7, NoneAdded DEF Migrate, joinVars, Live
<1>8. ASSUME Shutdown \/ ShutdownFaults \/ UNCHANGED vars PROVE NewIds
  BY <1>1, <1>8, NoneAdded, ShutdownRoutes DEF Shutdown, ShutdownFaults, joinVars, vars, Live
<1>9. ASSUME NEW s \in Servers, UnregisterGameServer(s) PROVE NewIds
  BY <1>5, <1>9 DEF UnregisterGameServer
<1>10. ASSUME DetectGameServerDisconnections PROVE NewIds
  BY <1>5, <1>10 DEF DetectGameServerDisconnections
<1>11. QED
  BY <1>2, <1>3, <1>4, <1>6, <1>7, <1>8, <1>9, <1>10, JoinAdds, RegisterAndConnectAdds
     DEF Next

\* Children are closed only where game servers do so.
LEMMA NoChildClosed ==
  ASSUME "closeChild" \notin Env, closedChildren = {}, [Next]_vars
  PROVE  closedChildren' = {}
BY DEF Next, Accept, Join, JoinDividesByZero, HandleClosedProxyConnection, ParentConnected,
       ParentSearchFaults, RegisterGameServer, RegisterGameServerAndConnectClients,
       UnregisterGameServer, ParentLost, GameServerAssignPlayerController, AssignConnecting,
       AssignConnectingPrimary, ReassignNoPawn, ReassignGame, AssignPendingClose,
       CloseChildConnection, Migrate, DetectGameServerDisconnections, Shutdown,
       ShutdownFaults, vars, envVars

-----------------------------------------------------------------------------
(* The invariant.                                                          *)

\* A controller that is new has been told nothing, and so has one that is on its way.
LEMMA RoutingView ==
  ASSUME RouteInv, ViewInv, "closeChild" \notin Env, Routing(Next)
  PROVE  ViewInv'
<1>1. /\ lastPos' = [h \in Live' |-> IF h \in Live THEN lastPos[h] ELSE Origin]
      /\ told' = [h \in Ids |-> IF h \in NewControllers THEN Origin ELSE told[h]]
      /\ [Next]_vars
  BY DEF Routing, Positions
<1>2. NewIds BY <1>1, NextAdds
<1>3. TypeOK /\ TypeOK' BY <1>1, NextRouteInv DEF RouteInv
<1>4. /\ Live' \subseteq Ids /\ nextId \in Int /\ nextId' \in Int
      /\ pcs \in [Ids -> Seq(PC)] /\ pcs' \in [Ids -> Seq(PC)]
  <2>1. /\ Live' \subseteq Ids /\ nextId \in 1 .. MaxIds + 1 /\ nextId' \in 1 .. MaxIds + 1
        /\ pcs \in [Ids -> Seq(PC)] /\ pcs' \in [Ids -> Seq(PC)]
    BY <1>3 DEF TypeOK
  <2>2. MaxIds \in Nat BY ConstantsAssumption DEF ConstantsAssumption
  <2>3. QED BY <2>1, <2>2
<1>5. ASSUME NEW h \in Live' PROVE told'[h] \in {lastPos'[h], Origin}
  <2>1. CASE h \in Live BY <1>1, <1>4, <2>1 DEF ViewInv
  <2>2. CASE h \notin Live
    <3>1. h >= nextId /\ h \in Int /\ h \in Ids BY <1>2, <1>4, <2>2 DEF NewIds, Ids
    <3>2. told[h] = Origin BY <1>4, <3>1 DEF ViewInv
    <3>3. QED BY <1>1, <3>1, <3>2
  <2>3. QED BY <2>1, <2>2
<1>6. ASSUME NEW h \in Ids, pcs'[h] # <<>> PROVE told'[h] = Origin
  <2>1. CASE h \in NewControllers BY <1>1, <2>1
  <2>2. CASE h \notin NewControllers
    <3>1. ~(Len(pcs'[h]) > Len(pcs[h])) BY <2>2 DEF NewControllers
    <3>2. pcs[h] \in Seq(PC) /\ pcs'[h] \in Seq(PC) BY <1>4
    <3>3. pcs[h] # <<>> BY <1>6, <3>1, <3>2
    <3>4. QED BY <1>1, <2>2, <3>3 DEF ViewInv
  <2>3. QED BY <2>1, <2>2
<1>7. ASSUME NEW h \in Ids, told'[h] # Origin PROVE h < nextId'
  <2>1. told[h] # Origin BY <1>1, <1>7
  <2>2. QED BY <1>2, <1>4, <2>1 DEF ViewInv, NewIds, Ids
<1>8. closedChildren' = {} BY <1>1, NoChildClosed DEF ViewInv
<1>9. QED BY <1>5, <1>6, <1>7, <1>8 DEF ViewInv

\* A position that is remembered has been told, or the controller it was for is gone.
LEMMA PrepareView ==
  ASSUME RouteInv, ViewInv, NEW due, PrepareStateForRelevancy(due)
  PROVE  ViewInv'
<1>1. /\ lastPos' = [h \in Live |-> IF h \in Updated(due) THEN View(h) ELSE lastPos[h]]
      /\ told' = [h \in Ids |-> IF h \in Told(due) THEN View(h) ELSE told[h]]
      /\ UNCHANGED <<routes, pcs, nextId, closedChildren>>
  BY DEF PrepareStateForRelevancy, Remembered, vars, joinVars, envVars
<1>2. Live' = Live /\ Live \subseteq Ids BY <1>1 DEF Live, RouteInv, TypeOK
<1>3. \A h \in Updated(due) : h \in Live /\ (pcs[h] = <<>> => h \in Told(due))
  BY DEF Updated, NoPawnRoutes, Told, ViewInv
<1>4. Told(due) \subseteq Updated(due) /\ \A h \in Told(due) : pcs[h] = <<>>
  BY DEF Told
<1>5. ASSUME NEW h \in Live PROVE told'[h] \in {lastPos'[h], Origin}
  <2>1. CASE h \in Told(due) BY <1>1, <1>2, <1>4, <2>1
  <2>2. CASE h \in Updated(due) \ Told(due)
    <3>1. told[h] = Origin BY <1>2, <1>3, <2>2 DEF ViewInv
    <3>2. QED BY <1>1, <1>2, <2>2, <3>1
  <2>3. CASE h \notin Updated(due) BY <1>1, <1>2, <1>4, <2>3 DEF ViewInv
  <2>4. QED BY <2>1, <2>2, <2>3
<1>6. \A h \in Ids : pcs'[h] # <<>> => told'[h] = Origin
  BY <1>1, <1>4 DEF ViewInv
<1>7. \A h \in Ids : told'[h] # Origin => h < nextId'
  <2>1. \A h \in Live : h < nextId BY DEF RouteInv, DeferredAreOwn
  <2>2. QED BY <1>1, <1>3, <1>4, <2>1 DEF ViewInv
<1>8. QED BY <1>1, <1>2, <1>5, <1>6, <1>7 DEF ViewInv

LEMMA NextView ==
  ASSUME RouteInv, ViewInv, "closeChild" \notin Env, [ViewNext]_viewVars
  PROVE  RouteInv' /\ ViewInv'
<1>1. [Next]_vars
  BY DEF ViewNext, Routing, PrepareStateForRelevancy, Look, viewVars
<1>2. RouteInv' BY <1>1, NextRouteInv
<1>3. ASSUME UNCHANGED <<vars, lastPos, told>> PROVE ViewInv'
  BY <1>3 DEF ViewInv, Live, vars, joinVars, envVars
<1>4. ViewInv'
  BY <1>3, RoutingView, PrepareView DEF ViewNext, Look, viewVars
<1>5. QED BY <1>2, <1>4

\* What a game server believes about a client without a pawn there is what the proxy
\* believes to have told it, or nothing at all (LastViewTargetPos, SetRemoteViewTarget), as
\* long as no game server closes a child connection.
THEOREM BeliefsAreRemembered ==
  ASSUME "closeChild" \notin Env
  PROVE  ViewSpec => []BelievesOrStarts
<1>1. ViewInit => RouteInv /\ ViewInv BY InitView
<1>2. RouteInv /\ ViewInv /\ [ViewNext]_viewVars => RouteInv' /\ ViewInv'
  BY NextView
<1>3. ViewInv => BelievesOrStarts BY DEF ViewInv, BelievesOrStarts, NoPawnRoutes
<1>4. QED BY <1>1, <1>2, <1>3, PTL DEF ViewSpec
=============================================================================
