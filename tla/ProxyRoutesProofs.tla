------------------------- MODULE ProxyRoutesProofs -------------------------
(***************************************************************************)
(* Theorems about ProxyRoutes, for every value of its constants.           *)
(***************************************************************************)
EXTENDS ProxyRoutes, FiniteSetTheorems, TLAPS

USE DEF NoId, gameVars

-----------------------------------------------------------------------------
(* Helpers.                                                                *)

\* An array of game server entries built from the members of a set of servers.
LEMMA ArrayType ==
  ASSUME NEW S, NEW T, S \subseteq T, IsFiniteSet(T),
         NEW a \in [1 .. Cardinality(S) -> S]
  PROVE  a \in Seq(T) /\ Cardinality(S) \in Nat
<1>1. IsFiniteSet(S) BY FS_Subset
<1>2. Cardinality(S) \in Nat BY <1>1, FS_CardinalityType
<1>3. QED BY <1>2

\* Changing the state of a route.
LEMMA StateChange ==
  ASSUME NEW r \in Route, NEW st \in RouteState
  PROVE  /\ [r EXCEPT !.state = st] \in Route
         /\ [r EXCEPT !.state = st].client = r.client
         /\ [r EXCEPT !.state = st].server = r.server
         /\ [r EXCEPT !.state = st].conn = r.conn
         /\ [r EXCEPT !.state = st].state = st
BY DEF Route

\* FinalizePlayerControllerReassignment changes only states.
LEMMA FinalizedType ==
  ASSUME NEW S, NEW rs \in [S -> Route], NEW prev, NEW game
  PROVE  /\ Finalized(rs, prev, game) \in [S -> Route]
         /\ DOMAIN Finalized(rs, prev, game) = S
         /\ \A h \in S : Finalized(rs, prev, game)[h].client = rs[h].client
         /\ \A h \in S : h \notin {prev, game} =>
                             Finalized(rs, prev, game)[h] = rs[h]
         /\ \A h \in S : rs[h].state # "PendingClose" =>
                             Finalized(rs, prev, game)[h].state # "PendingClose"
<1> DEFINE F     == Finalized(rs, prev, game)
           st(h) == IF h = game THEN "ConnectedPrimary"
                    ELSE IF h = prev THEN "Connected" ELSE rs[h].state
<1>1. F = [h \in S |-> [rs[h] EXCEPT !.state = st(h)]] BY DEF Finalized
<1>2. \A h \in S : rs[h] \in Route /\ rs[h].state \in RouteState BY DEF Route
<1>3. \A h \in S : st(h) \in RouteState BY <1>2 DEF RouteState
<1>4. \A h \in S : rs[h].state # "PendingClose" => st(h) # "PendingClose" OBVIOUS
<1>5. \A h \in S : h \notin {prev, game} => F[h] = rs[h] BY <1>1, <1>2 DEF Route
<1> HIDE DEF st, F
<1>6. ASSUME NEW h \in S
      PROVE  /\ F[h] \in Route /\ F[h].client = rs[h].client
             /\ F[h].state = st(h)
  <2>1. F[h] = [rs[h] EXCEPT !.state = st(h)] BY <1>1
  <2>2. rs[h] \in Route /\ st(h) \in RouteState BY <1>2, <1>3
  <2>3. QED BY <2>1, <2>2, StateChange
<1>7. F \in [S -> Route] /\ DOMAIN F = S
  <2>1. \A h \in S : [rs[h] EXCEPT !.state = st(h)] \in Route BY <1>2, <1>3, StateChange
  <2>2. QED BY <1>1, <2>1
<1>8. \A h \in S : F[h].client = rs[h].client BY <1>6
<1>9. \A h \in S : rs[h].state # "PendingClose" => F[h].state # "PendingClose"
  BY <1>4, <1>6
<1>10. QED BY <1>5, <1>7, <1>8, <1>9 DEF F

-----------------------------------------------------------------------------
(* Type correctness, one lemma per group of actions.                       *)

LEMMA EmptyQueue == <<>> \in Seq(PC)
OBVIOUS

LEMMA InitType == Init => TypeOK
<1> SUFFICES ASSUME Init PROVE TypeOK OBVIOUS
<1> USE ConstantsAssumption DEF Init
<1>1. gameServers \in Seq(Servers) OBVIOUS
<1>2. parent \in [Servers -> {"unregistered", "none", "pending", "open", "closed",
                              "destroyed"}]
  OBVIOUS
<1>3. Live \subseteq Ids /\ routes \in [Live -> Route] BY DEF Live
<1>4. nextId \in 1 .. MaxIds + 1 OBVIOUS
<1>5. deferred \in [Clients -> Deferred] BY DEF NoReassignment, Deferred
<1>6. pcs \in [Ids -> Seq(PC)] OBVIOUS
<1>7. QED BY <1>1, <1>2, <1>3, <1>4, <1>5, <1>6 DEF TypeOK

\* What is sent to a game server comes back as player controllers on the new children.
LEMMA SendSplitJoinsType ==
  ASSUME TypeOK, NEW sent, sent \subseteq SplitJoin, SendSplitJoins(sent)
  PROVE  pcs' \in [Ids -> Seq(PC)] /\ home' \in [Clients -> Ids \cup {NoId}]
<1>1. pcs' \in [Ids -> Seq(PC)]
  <2>1. ASSUME NEW h \in Ids, \E r \in sent : r.id = h
        PROVE  <<(CHOOSE r \in sent : r.id = h).pc>> \in Seq(PC)
    <3>1. PICK r \in sent : r.id = h BY <2>1
    <3>2. (CHOOSE q \in sent : q.id = h) \in SplitJoin BY <3>1
    <3>3. (CHOOSE q \in sent : q.id = h).pc \in PC BY <3>2 DEF SplitJoin
    <3>4. QED BY <3>3
  <2>2. QED BY <2>1 DEF SendSplitJoins, TypeOK
<1>2. home' \in [Clients -> Ids \cup {NoId}]
  <2> DEFINE Q(c, r) == /\ routes'[r.id].client = c
                        /\ routes'[r.id].state = "ConnectingPrimary"
  <2>1. ASSUME NEW c \in Clients, \E r \in sent : Q(c, r)
        PROVE  (CHOOSE r \in sent : Q(c, r)).id \in Ids
    <3>1. (CHOOSE r \in sent : Q(c, r)) \in SplitJoin BY <2>1
    <3>2. QED BY <3>1 DEF SplitJoin
  <2>2. home' = [c \in Clients |-> IF \E r \in sent : Q(c, r)
                                     THEN (CHOOSE r \in sent : Q(c, r)).id
                                     ELSE home[c]]
    BY DEF SendSplitJoins
  <2>3. \A c \in Clients : home[c] \in Ids \cup {NoId} BY DEF TypeOK
  <2> HIDE DEF Q
  <2>4. QED BY <2>1, <2>2, <2>3
<1>3. QED BY <1>1, <1>2

Request == [client : Clients, server : Servers, primary : BOOLEAN]

LEMMA NewRouteType ==
  ASSUME NEW req \in Request
  PROVE  NewRoute(req) \in Route
BY DEF Request, NewRoute, Route, RouteState

LEMMA ConnectType ==
  ASSUME TypeOK, NEW reqs \in Seq(Request),
         NEW conns \in [Servers -> {"unregistered", "none", "pending", "open", "closed",
                                    "destroyed"}],
         ConnectToGameServer(conns, reqs)
  PROVE  /\ parent' \in [Servers -> {"unregistered", "none", "pending", "open", "closed",
                                     "destroyed"}]
         /\ splitJoins' \in [Servers -> SUBSET SplitJoin]
         /\ Live' \subseteq Ids
         /\ routes' \in [Live' -> Route]
         /\ nextId' \in 1 .. MaxIds + 1
         /\ pcs' \in [Ids -> Seq(PC)]
         /\ home' \in [Clients -> Ids \cup {NoId}]
<1> USE ConstantsAssumption
<1> DEFINE id(i)    == nextId + i - 1
           touched  == {reqs[i].server : i \in DOMAIN reqs}
           queue(s) == splitJoins[s] \cup
                         {[id |-> id(i), pc |-> IF reqs[i].primary THEN "game" ELSE "noPawn"] :
                             i \in {j \in DOMAIN reqs : reqs[j].server = s}}
           flushed  == {s \in touched : CanSplitJoin(conns[s])}
<1>1. /\ nextId \in Nat /\ nextId >= 1 /\ MaxIds \in Nat
      /\ Len(reqs) \in Nat /\ DOMAIN reqs = 1 .. Len(reqs)
      /\ nextId + Len(reqs) - 1 <= MaxIds
  <2>1. nextId + Len(reqs) - 1 <= MaxIds BY DEF ConnectToGameServer
  <2>2. nextId \in Nat /\ nextId >= 1 /\ MaxIds \in Nat
    <3>1. MaxIds \in Nat BY DEF ConstantsAssumption
    <3>2. nextId \in 1 .. MaxIds + 1 BY DEF TypeOK
    <3>3. QED BY <3>1, <3>2
  <2>3. Len(reqs) \in Nat /\ DOMAIN reqs = 1 .. Len(reqs) OBVIOUS
  <2>4. QED BY <2>1, <2>2, <2>3
<1>2. \A i \in DOMAIN reqs : id(i) \in Ids /\ reqs[i] \in Request BY <1>1 DEF Ids
<1>3. touched \subseteq Servers BY <1>2 DEF Request
<1>4. \A s \in Servers : queue(s) \subseteq SplitJoin
  <2>1. ASSUME NEW s \in Servers, NEW i \in DOMAIN reqs
        PROVE  [id |-> id(i), pc |-> IF reqs[i].primary THEN "game" ELSE "noPawn"] \in SplitJoin
    <3>1. id(i) \in Ids BY <1>2
    <3> HIDE DEF id
    <3>2. QED BY <3>1 DEF SplitJoin, PC
  <2>2. \A s \in Servers : splitJoins[s] \subseteq SplitJoin BY DEF TypeOK
  <2> HIDE DEF id
  <2>3. QED BY <2>1, <2>2
<1>5. parent' \in [Servers -> {"unregistered", "none", "pending", "open", "closed",
                               "destroyed"}]
  BY DEF ConnectToGameServer
<1>6. splitJoins' \in [Servers -> SUBSET SplitJoin]
  <2>1. splitJoins' = [s \in Servers |-> IF s \in flushed THEN {} ELSE queue(s)]
    BY DEF ConnectToGameServer
  <2> HIDE DEF queue, flushed
  <2>2. QED BY <1>4, <2>1
<1>7. /\ Live' = Live \cup {id(i) : i \in DOMAIN reqs}
      /\ routes' = [h \in Live' |-> IF h \in Live THEN routes[h]
                                    ELSE NewRoute(reqs[h - nextId + 1])]
  BY DEF ConnectToGameServer, Live
<1>8. Live' \subseteq Ids BY <1>2, <1>7 DEF TypeOK
<1>9. ASSUME NEW h \in Live', h \notin Live
      PROVE  NewRoute(reqs[h - nextId + 1]) \in Route
  <2>1. PICK i \in DOMAIN reqs : h = id(i) BY <1>7, <1>9
  <2>2. h - nextId + 1 = i BY <1>1, <2>1
  <2>3. reqs[i] \in Request BY <1>2
  <2>4. QED BY <2>2, <2>3, NewRouteType
<1>10. routes' \in [Live' -> Route] BY <1>7, <1>9 DEF TypeOK
<1>11. nextId' \in 1 .. MaxIds + 1 BY <1>1 DEF ConnectToGameServer, Advanced
<1>12. pcs' \in [Ids -> Seq(PC)] /\ home' \in [Clients -> Ids \cup {NoId}]
  <2> DEFINE sent == UNION {queue(s) : s \in flushed}
  <2>1. SendSplitJoins(sent) BY DEF ConnectToGameServer
  <2>2. flushed \subseteq Servers BY <1>3
  <2> HIDE DEF queue, flushed
  <2>3. sent \subseteq SplitJoin BY <1>4, <2>2
  <2> HIDE DEF sent
  <2>4. QED BY <2>1, <2>3, SendSplitJoinsType
<1>13. QED BY <1>5, <1>6, <1>8, <1>10, <1>11, <1>12

LEMMA AcceptType ==
  ASSUME TypeOK, NEW c \in Clients, Accept(c)
  PROVE  TypeOK'
BY DEF TypeOK, Accept, Live, serverVars, joinVars, primVars, envVars

LEMMA JoinType ==
  ASSUME TypeOK, NEW c \in Clients, Join(c)
  PROVE  TypeOK'
<1>1. PICK p \in PrimaryChoices :
         /\ ConnectToGameServer(parent, [i \in 1 .. Len(gameServers) |->
               [client |-> c, server |-> gameServers[i], primary |-> i - 1 = p]])
         /\ nextPrimary' = IF CyclePrimary THEN (p + 1) % Len(gameServers) ELSE p
  BY DEF Join
<1> DEFINE reqs == [i \in 1 .. Len(gameServers) |->
               [client |-> c, server |-> gameServers[i], primary |-> i - 1 = p]]
<1>2. gameServers \in Seq(Servers) /\ Len(gameServers) \in Nat
  <2>1. gameServers \in Seq(Servers) BY DEF TypeOK
  <2>2. QED BY <2>1
<1>3. reqs \in Seq(Request) BY <1>2 DEF Request
<1>4. parent \in [Servers -> {"unregistered", "none", "pending", "open", "closed",
                              "destroyed"}]
  BY DEF TypeOK
<1>5. p \in Nat
  <2>1. nextPrimary \in Nat BY DEF TypeOK
  <2>2. QED BY <1>2, <2>1 DEF PrimaryChoices
<1>6. nextPrimary' \in Nat
  <2>1. CyclePrimary => Len(gameServers) > 0 BY <1>2 DEF Join
  <2>2. QED BY <1>1, <1>2, <1>5, <2>1
<1>7. ConnectToGameServer(parent, reqs) BY <1>1
<1> HIDE DEF reqs
<1>8. /\ parent' \in [Servers -> {"unregistered", "none", "pending", "open", "closed",
                                  "destroyed"}]
      /\ splitJoins' \in [Servers -> SUBSET SplitJoin]
      /\ Live' \subseteq Ids
      /\ routes' \in [Live' -> Route]
      /\ nextId' \in 1 .. MaxIds + 1
      /\ pcs' \in [Ids -> Seq(PC)]
      /\ home' \in [Clients -> Ids \cup {NoId}]
  BY <1>3, <1>4, <1>7, ConnectType
<1>9. QED BY <1>6, <1>8 DEF TypeOK, Join, primVars

LEMMA ParentConnectedType ==
  ASSUME TypeOK, NEW s \in Servers, ParentConnected(s)
  PROVE  TypeOK'
<1>1. splitJoins[s] \subseteq SplitJoin /\ SendSplitJoins(splitJoins[s])
  BY DEF TypeOK, ParentConnected
<1>2. pcs' \in [Ids -> Seq(PC)] /\ home' \in [Clients -> Ids \cup {NoId}]
  BY <1>1, SendSplitJoinsType
<1>3. QED BY <1>2 DEF TypeOK, ParentConnected, Live, joinVars, primVars, clientVars

LEMMA FaultType ==
  ASSUME TypeOK,
         \/ \E c \in Clients : JoinDividesByZero(c)
         \/ \E s \in Servers : ParentSearchFaults(s)
         \/ ShutdownFaults
  PROVE  TypeOK'
BY DEF TypeOK, JoinDividesByZero, ParentSearchFaults, ShutdownFaults, Live, serverVars,
       joinVars, primVars, clientVars, envVars

LEMMA ReceivedType ==
  ASSUME TypeOK, NEW h \in Ids, NEW pc, Received(h, pc)
  PROVE  pcs' \in [Ids -> Seq(PC)] /\ h \in Live /\ routes[h] \in Route
<1>1. pcs[h] \in Seq(PC) /\ pcs[h] # <<>> BY DEF TypeOK, Received
<1>2. Tail(pcs[h]) \in Seq(PC) BY <1>1
<1>3. QED BY <1>2 DEF TypeOK, Received

LEMMA AssignConnectingType ==
  ASSUME TypeOK, NEW h \in Ids, AssignConnecting(h)
  PROVE  TypeOK'
<1>1. PICK pc \in PC : /\ Received(h, pc)
                       /\ routes' = [routes EXCEPT ![h].state = "Connected",
                                                   ![h].conn = TRUE, ![h].pc = pc]
  BY DEF AssignConnecting
<1>2. pcs' \in [Ids -> Seq(PC)] /\ h \in Live /\ routes[h] \in Route
  BY <1>1, ReceivedType
<1>3. routes' \in [Live -> Route] /\ Live' = Live
  BY <1>1, <1>2 DEF TypeOK, Live, Route, RouteState
<1>4. QED
  BY <1>2, <1>3 DEF TypeOK, AssignConnecting, serverVars, joinVars, primVars, clientVars

LEMMA AssignConnectingPrimaryType ==
  ASSUME TypeOK, NEW h \in Ids, AssignConnectingPrimary(h)
  PROVE  TypeOK'
<1>1. PICK pc \in PC : /\ Received(h, pc)
                       /\ routes' = [routes EXCEPT ![h].state = "ConnectedPrimary",
                                                   ![h].conn = TRUE, ![h].pc = pc]
  BY DEF AssignConnectingPrimary
<1>2. pcs' \in [Ids -> Seq(PC)] /\ h \in Live /\ routes[h] \in Route
  BY <1>1, ReceivedType
<1>3. routes' \in [Live -> Route] /\ Live' = Live
  BY <1>1, <1>2 DEF TypeOK, Live, Route, RouteState
<1>4. routes[h].client \in Clients BY <1>2 DEF Route
<1>5. primaryOf' \in [Clients -> Ids \cup {NoId}] /\ primaryPlayers' \subseteq Ids
      /\ open' \subseteq Clients
  BY <1>4 DEF TypeOK, AssignConnectingPrimary
<1>6. QED
  BY <1>2, <1>3, <1>5 DEF TypeOK, AssignConnectingPrimary, serverVars, joinVars

\* A route that receives the first player controller of a migration, or the second one.
LEMMA ReassignedRoutes ==
  ASSUME TypeOK, NEW h \in Live, NEW pc \in PC,
         NEW rs, rs = [routes EXCEPT ![h].pc = pc]
  PROVE  /\ rs \in [Live -> Route]
         /\ \A g \in Live : rs[g].client = routes[g].client
         /\ \A g \in Live : rs[g].state = routes[g].state
         /\ \A g \in Live \ {h} : rs[g] = routes[g]
<1>1. routes \in [Live -> Route] BY DEF TypeOK
<1>2. rs \in [Live -> Route] /\ DOMAIN rs = Live BY <1>1 DEF Route
<1>3. \A g \in Live : rs[g].client = routes[g].client BY <1>1 DEF Route
<1>4. \A g \in Live : rs[g].state = routes[g].state BY <1>1 DEF Route
<1>5. \A g \in Live \ {h} : rs[g] = routes[g] BY <1>1
<1>6. QED BY <1>2, <1>3, <1>4, <1>5

LEMMA AwaitingType ==
  ASSUME NEW S, NEW rs \in [S -> Route], NEW h \in S
  PROVE  /\ Awaiting(rs, h) \in [S -> Route]
         /\ DOMAIN Awaiting(rs, h) = S
         /\ \A g \in S : Awaiting(rs, h)[g].client = rs[g].client
         /\ \A g \in S \ {h} : Awaiting(rs, h)[g] = rs[g]
         /\ Awaiting(rs, h)[h].state = "PendingReassign"
<1> DEFINE A == Awaiting(rs, h)
           w == [rs[h] EXCEPT !.state = "PendingReassign"]
<1>1. A = [rs EXCEPT ![h] = w] BY DEF Awaiting
<1>2. w \in Route /\ w.client = rs[h].client /\ w.state = "PendingReassign"
  BY StateChange DEF RouteState
<1> HIDE DEF A, w
<1>3. A \in [S -> Route] /\ DOMAIN A = S BY <1>1, <1>2
<1>4. A[h] = w /\ \A g \in S \ {h} : A[g] = rs[g] BY <1>1
<1>5. \A g \in S : A[g].client = rs[g].client BY <1>2, <1>4
<1>6. QED BY <1>2, <1>3, <1>4, <1>5 DEF A

LEMMA ReassignNoPawnType ==
  ASSUME TypeOK, NEW h \in Ids, ReassignNoPawn(h)
  PROVE  TypeOK'
<1> DEFINE c    == routes[h].client
           game == IF deferred[c].prev # NoId THEN NoId ELSE deferred[c].game
           rs   == [routes EXCEPT ![h].pc = "noPawn"]
<1>1. Received(h, "noPawn") BY DEF ReassignNoPawn
<1>2. pcs' \in [Ids -> Seq(PC)] /\ h \in Live /\ routes[h] \in Route
  BY <1>1, ReceivedType
<1>3. c \in Clients BY <1>2 DEF Route
<1>4. rs \in [Live -> Route] BY <1>2, ReassignedRoutes DEF PC
<1>5. routes' = Finalized(rs, h, game) \/ routes' = Awaiting(rs, h)
  BY DEF ReassignNoPawn
<1>6. routes' \in [Live -> Route] /\ Live' = Live
  <2> HIDE DEF rs, game
  <2>1. Finalized(rs, h, game) \in [Live -> Route] /\ DOMAIN Finalized(rs, h, game) = Live
    BY <1>4, FinalizedType
  <2>2. Awaiting(rs, h) \in [Live -> Route] /\ DOMAIN Awaiting(rs, h) = Live
    BY <1>2, <1>4, AwaitingType
  <2>3. Live' = DOMAIN routes' BY DEF Live
  <2>4. QED BY <1>5, <2>1, <2>2, <2>3
<1>7. primaryPlayers' \subseteq Ids
  BY DEF TypeOK, ReassignNoPawn
<1>8. deferred' \in [Clients -> Deferred]
  <2>1. NoReassignment \in Deferred /\ [prev |-> h, game |-> NoId] \in Deferred
    BY DEF NoReassignment, Deferred
  <2>2. \/ deferred' = [deferred EXCEPT ![c] = NoReassignment]
        \/ deferred' = [deferred EXCEPT ![c] = [prev |-> h, game |-> NoId]]
    BY DEF ReassignNoPawn
  <2>3. deferred \in [Clients -> Deferred] BY DEF TypeOK
  <2> HIDE DEF c
  <2>4. QED BY <2>1, <2>2, <2>3
<1>9. UNCHANGED <<serverVars, joinVars, primaryOf, clientVars, fault, home, gameVars>>
  BY DEF ReassignNoPawn
<1>10. QED
  BY <1>2, <1>6, <1>7, <1>8, <1>9 DEF TypeOK, serverVars, joinVars, clientVars

LEMMA ReassignGameType ==
  ASSUME TypeOK, NEW h \in Ids, ReassignGame(h)
  PROVE  TypeOK'
<1> DEFINE c    == routes[h].client
           prev == IF deferred[c].game # NoId THEN NoId ELSE deferred[c].prev
           rs   == [routes EXCEPT ![h].pc = "game"]
<1>1. Received(h, "game") BY DEF ReassignGame
<1>2. pcs' \in [Ids -> Seq(PC)] /\ h \in Live /\ routes[h] \in Route
  BY <1>1, ReceivedType
<1>3. c \in Clients BY <1>2 DEF Route
<1>4. rs \in [Live -> Route] BY <1>2, ReassignedRoutes DEF PC
<1>5. routes' = Finalized(rs, prev, h) \/ routes' = Awaiting(rs, h)
  BY DEF ReassignGame
<1>6. routes' \in [Live -> Route] /\ Live' = Live
  <2> HIDE DEF rs, prev
  <2>1. Finalized(rs, prev, h) \in [Live -> Route] /\ DOMAIN Finalized(rs, prev, h) = Live
    BY <1>4, FinalizedType
  <2>2. Awaiting(rs, h) \in [Live -> Route] /\ DOMAIN Awaiting(rs, h) = Live
    BY <1>2, <1>4, AwaitingType
  <2>3. Live' = DOMAIN routes' BY DEF Live
  <2>4. QED BY <1>5, <2>1, <2>2, <2>3
<1>7. primaryPlayers' \subseteq Ids /\ primaryOf' \in [Clients -> Ids \cup {NoId}]
  BY DEF TypeOK, ReassignGame
<1>8. deferred' \in [Clients -> Deferred]
  <2>1. NoReassignment \in Deferred /\ [prev |-> NoId, game |-> h] \in Deferred
    BY DEF NoReassignment, Deferred
  <2>2. \/ deferred' = [deferred EXCEPT ![c] = NoReassignment]
        \/ deferred' = [deferred EXCEPT ![c] = [prev |-> NoId, game |-> h]]
    BY DEF ReassignGame
  <2>3. deferred \in [Clients -> Deferred] BY DEF TypeOK
  <2> HIDE DEF c
  <2>4. QED BY <2>1, <2>2, <2>3
<1>9. UNCHANGED <<serverVars, joinVars, clientVars, fault, home, gameVars>>
  BY DEF ReassignGame
<1>10. QED
  BY <1>2, <1>6, <1>7, <1>8, <1>9 DEF TypeOK, serverVars, joinVars, clientVars

LEMMA AssignPendingCloseType ==
  ASSUME TypeOK, NEW h \in Ids, AssignPendingClose(h)
  PROVE  TypeOK'
<1>1. Live' = Live \ {h} /\ routes' \in [Live' -> Route]
  BY DEF TypeOK, AssignPendingClose, Live, Restrict
<1>2. pcs' \in [Ids -> Seq(PC)]
  <2>1. <<>> \in Seq(PC) OBVIOUS
  <2>2. QED BY <2>1 DEF TypeOK, AssignPendingClose
<1>3. QED
  BY <1>1, <1>2 DEF TypeOK, AssignPendingClose, serverVars, joinVars, primVars, clientVars

LEMMA AssignType ==
  ASSUME TypeOK, NEW h \in Ids, GameServerAssignPlayerController(h)
  PROVE  TypeOK'
BY AssignConnectingType, AssignConnectingPrimaryType, ReassignNoPawnType, ReassignGameType,
   AssignPendingCloseType DEF GameServerAssignPlayerController

LEMMA HandleClosedType ==
  ASSUME TypeOK, NEW c \in Clients, HandleClosedProxyConnection(c)
  PROVE  TypeOK'
<1> DEFINE closed == {h \in RoutesOf(c) : routes[h].state \notin StillConnecting}
<1>1. /\ Live' = Live \ closed
      /\ routes' = [h \in Live \ closed |-> IF routes[h].client = c
                                 THEN [routes[h] EXCEPT !.state = "PendingClose"]
                                 ELSE routes[h]]
  BY DEF HandleClosedProxyConnection, Live
<1>2. \A h \in Live : [routes[h] EXCEPT !.state = "PendingClose"] \in Route
  BY StateChange DEF TypeOK, RouteState
<1>3. routes' \in [Live' -> Route]
  <2> HIDE DEF closed
  <2>1. QED BY <1>1, <1>2 DEF TypeOK
<1>4. pcs' \in [Ids -> Seq(PC)]
  <2>1. pcs' = [h \in Ids |-> IF h \in closed THEN <<>> ELSE pcs[h]]
    BY DEF HandleClosedProxyConnection
  <2>2. <<>> \in Seq(PC) /\ pcs \in [Ids -> Seq(PC)] BY EmptyQueue DEF TypeOK
  <2> HIDE DEF closed
  <2>3. QED BY <2>1, <2>2
<1>5. /\ deferred' \in [Clients -> Deferred]
      /\ primaryOf' \in [Clients -> Ids \cup {NoId}]
      /\ home' \in [Clients -> Ids \cup {NoId}]
  BY DEF TypeOK, HandleClosedProxyConnection, NoReassignment, Deferred
<1>6. /\ client' \in [Clients -> {"offline", "accepted", "joined", "closed"}]
      /\ open' \subseteq Clients
  BY DEF TypeOK, HandleClosedProxyConnection
<1>7. UNCHANGED <<serverVars, joinVars, primaryPlayers, fault, gameVars>>
  BY DEF HandleClosedProxyConnection
<1>8. Live' \subseteq Ids BY <1>1 DEF TypeOK
<1>9. QED
  BY <1>3, <1>4, <1>5, <1>6, <1>7, <1>8 DEF TypeOK, serverVars, joinVars

LEMMA RegisterGameServerType ==
  ASSUME TypeOK, NEW s \in Servers, RegisterGameServer(s)
  PROVE  TypeOK'
<1>1. gameServers' \in Seq(Servers)
  <2>1. gameServers \in Seq(Servers) BY DEF TypeOK
  <2>2. QED BY <2>1 DEF RegisterGameServer
<1>2. QED
  BY <1>1 DEF TypeOK, RegisterGameServer, Live, joinVars, primVars, clientVars, envVars

LEMMA RegisterAndConnectType ==
  ASSUME TypeOK, NEW s \in Servers, RegisterGameServerAndConnectClients(s)
  PROVE  TypeOK'
<1>1. gameServers' \in Seq(Servers)
  <2>1. gameServers \in Seq(Servers) BY DEF TypeOK
  <2>2. QED BY <2>1 DEF RegisterGameServerAndConnectClients
<1>2. PICK order \in {f \in [1 .. Cardinality(OpenConnections) -> OpenConnections] :
                        IsInjective(f)} :
        ConnectToGameServer([parent EXCEPT ![s] = "none"],
             [i \in DOMAIN order |->
                 [client |-> order[i], server |-> s, primary |-> FALSE]])
  BY DEF RegisterGameServerAndConnectClients
<1> DEFINE reqs  == [i \in DOMAIN order |->
                       [client |-> order[i], server |-> s, primary |-> FALSE]]
           conns == [parent EXCEPT ![s] = "none"]
<1>3. order \in Seq(Clients)
  <2>1. OpenConnections \subseteq Clients BY DEF TypeOK, OpenConnections
  <2>2. IsFiniteSet(Clients) BY ConstantsAssumption DEF ConstantsAssumption
  <2>3. order \in [1 .. Cardinality(OpenConnections) -> OpenConnections] OBVIOUS
  <2>4. QED BY <2>1, <2>2, <2>3, ArrayType
<1>4. reqs \in Seq(Request)
  <2>1. \A q \in Seq(Clients) : /\ Len(q) \in Nat /\ DOMAIN q = 1 .. Len(q)
                                /\ \A i \in 1 .. Len(q) : q[i] \in Clients
    OBVIOUS
  <2>2. \A i \in 1 .. Len(order) :
           [client |-> order[i], server |-> s, primary |-> FALSE] \in Request
    BY <1>3, <2>1 DEF Request
  <2>3. DOMAIN order = 1 .. Len(order) /\ Len(order) \in Nat BY <1>3, <2>1
  <2>4. reqs \in [1 .. Len(order) -> Request] BY <2>2, <2>3
  <2>5. QED BY <2>3, <2>4
<1>5. conns \in [Servers -> {"unregistered", "none", "pending", "open", "closed",
                             "destroyed"}]
  BY DEF TypeOK
<1>6. ConnectToGameServer(conns, reqs) BY <1>2
<1> HIDE DEF reqs, conns
<1>7. /\ parent' \in [Servers -> {"unregistered", "none", "pending", "open", "closed",
                                  "destroyed"}]
      /\ splitJoins' \in [Servers -> SUBSET SplitJoin]
      /\ Live' \subseteq Ids
      /\ routes' \in [Live' -> Route]
      /\ nextId' \in 1 .. MaxIds + 1
      /\ pcs' \in [Ids -> Seq(PC)]
      /\ home' \in [Clients -> Ids \cup {NoId}]
  BY <1>4, <1>5, <1>6, ConnectType
<1>8. QED
  BY <1>1, <1>7 DEF TypeOK, RegisterGameServerAndConnectClients, primVars, clientVars

LEMMA RemoveType ==
  ASSUME TypeOK, NEW gone \in SUBSET Servers, RemoveGameServers(gone),
         UNCHANGED <<nextId, randomize, primVars, clientVars, fault, gameVars>>
  PROVE  TypeOK'
<1> DEFINE kept   == Range(gameServers) \ gone
           closed == {h \in Live : routes[h].server \in gone}
<1>1. gameServers \in Seq(Servers) BY DEF TypeOK
<1>2. kept \subseteq Servers BY <1>1 DEF Range
<1>3. IsFiniteSet(Servers) BY ConstantsAssumption DEF ConstantsAssumption
<1>4. PICK rest \in [1 .. Cardinality(kept) -> kept] : gameServers' = rest
  BY DEF RemoveGameServers
<1>5. gameServers' \in Seq(Servers) /\ Cardinality(kept) \in Nat
  <2> HIDE DEF kept
  <2>1. QED BY <1>2, <1>3, <1>4, ArrayType
<1>6. nextPrimary' \in Nat
  <2>1. nextPrimary' = Clamped(Cardinality(kept)) BY DEF RemoveGameServers
  <2>2. nextPrimary \in Nat BY DEF TypeOK
  <2> HIDE DEF kept
  <2>3. QED BY <1>5, <2>1, <2>2 DEF Clamped
<1>7. Live' = Live \ closed /\ routes' \in [Live' -> Route]
  <2>1. routes' = Restrict(routes, Live \ closed) BY DEF RemoveGameServers
  <2> HIDE DEF closed
  <2>2. QED BY <2>1 DEF TypeOK, Live, Restrict
<1>8. pcs' \in [Ids -> Seq(PC)]
  <2>1. pcs' = [h \in Ids |-> IF h \in closed THEN <<>> ELSE pcs[h]]
    BY DEF RemoveGameServers
  <2>2. <<>> \in Seq(PC) /\ pcs \in [Ids -> Seq(PC)] BY EmptyQueue DEF TypeOK
  <2> HIDE DEF closed
  <2>3. QED BY <2>1, <2>2
<1>9. home' \in [Clients -> Ids \cup {NoId}]
  <2>1. home' = [c \in Clients |-> IF home[c] \in closed THEN NoId ELSE home[c]]
    BY DEF RemoveGameServers
  <2> HIDE DEF closed
  <2>2. QED BY <2>1 DEF TypeOK
<1>10. /\ parent' \in [Servers -> {"unregistered", "none", "pending", "open", "closed",
                                   "destroyed"}]
       /\ splitJoins' \in [Servers -> SUBSET SplitJoin]
  BY DEF TypeOK, RemoveGameServers
<1>11. Live' \subseteq Ids BY <1>7 DEF TypeOK
<1>12. QED
  BY <1>5, <1>6, <1>7, <1>8, <1>9, <1>10, <1>11 DEF TypeOK, primVars, clientVars

LEMMA UnregisterType ==
  ASSUME TypeOK,
         (\E s \in Servers : UnregisterGameServer(s)) \/ DetectGameServerDisconnections
  PROVE  TypeOK'
<1>1. Range(gameServers) \subseteq Servers
  <2>1. gameServers \in Seq(Servers) BY DEF TypeOK
  <2>2. QED BY <2>1 DEF Range
<1>2. ASSUME NEW s \in Servers, UnregisterGameServer(s) PROVE TypeOK'
  BY <1>2, RemoveType DEF UnregisterGameServer
<1>3. ASSUME DetectGameServerDisconnections PROVE TypeOK'
  <2>1. LostServers \in SUBSET Servers BY <1>1 DEF LostServers
  <2>2. QED BY <1>3, <2>1, RemoveType DEF DetectGameServerDisconnections
<1>4. QED BY <1>2, <1>3

LEMMA ParentLostType ==
  ASSUME TypeOK, NEW s \in Servers, ParentLost(s)
  PROVE  TypeOK'
<1> DEFINE lost == {h \in Live : routes[h].server = s}
<1>1. /\ pcs' = [h \in Ids |-> IF h \in lost THEN <<>> ELSE pcs[h]]
      /\ home' = [c \in Clients |-> IF home[c] \in lost THEN NoId ELSE home[c]]
  BY DEF ParentLost
<1>2. <<>> \in Seq(PC) /\ pcs \in [Ids -> Seq(PC)] BY EmptyQueue DEF TypeOK
<1> HIDE DEF lost
<1>3. pcs' \in [Ids -> Seq(PC)] BY <1>1, <1>2
<1>4. home' \in [Clients -> Ids \cup {NoId}] BY <1>1 DEF TypeOK
<1>5. QED
  BY <1>3, <1>4 DEF TypeOK, ParentLost, Live, joinVars, primVars, clientVars

LEMMA CloseChildType ==
  ASSUME TypeOK, NEW h \in Ids, CloseChildConnection(h)
  PROVE  TypeOK'
<1>1. pcs' \in [Ids -> Seq(PC)]
  BY EmptyQueue DEF TypeOK, CloseChildConnection
<1>2. home' \in [Clients -> Ids \cup {NoId}] /\ closedChildren' \subseteq Ids
      /\ migrations' = migrations
  BY DEF TypeOK, CloseChildConnection
<1>3. UNCHANGED <<serverVars, routes, joinVars, primVars, clientVars, fault>>
  BY DEF CloseChildConnection
<1>4. QED
  BY <1>1, <1>2, <1>3 DEF TypeOK, Live, serverVars, joinVars, primVars, clientVars

\* The routes that Shutdown keeps await a handshake that will not come.
LEMMA ShutdownRoutes ==
  ASSUME TypeOK, Shutdown
  PROVE  /\ Live' \subseteq Live
         /\ routes' \in [Live' -> Route]
         /\ \A h \in Live' : /\ routes'[h].client = routes[h].client
                            /\ routes'[h].state = "PendingClose"
         /\ \A h \in Live' : routes[h].state = "PendingClose" => routes'[h] = routes[h]
<1> DEFINE closed == {h \in Live : routes[h].state \notin StillConnecting \cup {"PendingClose"}}
<1>1. routes' = [h \in Live \ closed |-> [routes[h] EXCEPT !.state = "PendingClose"]]
  BY DEF Shutdown
<1> HIDE DEF closed
<1>2. Live' = Live \ closed BY <1>1 DEF Live
<1>3. \A h \in Live' : routes'[h] = [routes[h] EXCEPT !.state = "PendingClose"]
  BY <1>1, <1>2
<1>4. \A h \in Live : routes[h] \in Route BY DEF TypeOK
<1>5. ASSUME NEW h \in Live'
      PROVE  /\ routes'[h] \in Route
             /\ routes'[h].client = routes[h].client
             /\ routes'[h].state = "PendingClose"
  <2>1. routes[h] \in Route BY <1>2, <1>4
  <2>2. routes'[h] = [routes[h] EXCEPT !.state = "PendingClose"] BY <1>3
  <2>3. "PendingClose" \in RouteState BY DEF RouteState
  <2>4. QED BY <2>1, <2>2, <2>3, StateChange
<1>6. \A h \in Live' : routes[h].state = "PendingClose" => routes'[h] = routes[h]
  <2>1. ASSUME NEW r \in Route, r.state = "PendingClose"
        PROVE  [r EXCEPT !.state = "PendingClose"] = r
    BY <2>1 DEF Route
  <2>2. QED BY <1>2, <1>3, <1>4, <2>1
<1>7. routes' \in [Live' -> Route] BY <1>1, <1>2, <1>5
<1>8. QED BY <1>2, <1>5, <1>6, <1>7

LEMMA ShutdownType ==
  ASSUME TypeOK, Shutdown
  PROVE  TypeOK'
<1>1. Live' \subseteq Live /\ routes' \in [Live' -> Route] BY ShutdownRoutes
<1>2. Live' \subseteq Ids BY <1>1 DEF TypeOK
<1>3. pcs' \in [Ids -> Seq(PC)] BY EmptyQueue DEF Shutdown
<1>4. /\ deferred' \in [Clients -> Deferred]
      /\ primaryOf' \in [Clients -> Ids \cup {NoId}]
      /\ home' \in [Clients -> Ids \cup {NoId}]
  BY DEF Shutdown, NoReassignment, Deferred
<1>5. /\ client' \in [Clients -> {"offline", "accepted", "joined", "closed"}]
      /\ open' \subseteq Clients /\ fault' = "shut down"
  BY DEF Shutdown
<1>6. /\ parent' \in [Servers -> {"unregistered", "none", "pending", "open", "closed",
                                  "destroyed"}]
      /\ splitJoins' \in [Servers -> SUBSET SplitJoin]
      /\ gameServers' \in Seq(Servers)
  <2>1. <<>> \in Seq(Servers) OBVIOUS
  <2>2. gameServers' \in Seq(Servers) BY <2>1 DEF Shutdown
  <2>3. parent \in [Servers -> {"unregistered", "none", "pending", "open", "closed",
                                "destroyed"}]
    BY DEF TypeOK
  <2>4. QED BY <2>2, <2>3 DEF Shutdown
<1>7. UNCHANGED <<joinVars, primaryPlayers, gameVars>> BY DEF Shutdown
<1>8. QED BY <1>1, <1>2, <1>3, <1>4, <1>5, <1>6, <1>7 DEF TypeOK, joinVars

LEMMA MigrateType ==
  ASSUME TypeOK, NEW c \in Clients, NEW h \in Ids, Migrate(c, h)
  PROVE  TypeOK'
<1>1. PICK lost \in IF "loss" \in Env THEN SUBSET {h, home[c]} ELSE {{}} :
        pcs' = [g \in Ids |-> IF g \in lost THEN pcs[g]
                              ELSE IF g = home[c] THEN Append(pcs[g], "noPawn")
                              ELSE IF g = h THEN Append(pcs[g], "game")
                              ELSE pcs[g]]
  BY DEF Migrate
<1>2. \A g \in Ids : /\ pcs[g] \in Seq(PC)
                     /\ Append(pcs[g], "noPawn") \in Seq(PC)
                     /\ Append(pcs[g], "game") \in Seq(PC)
  <2>1. \A g \in Ids : pcs[g] \in Seq(PC) BY DEF TypeOK
  <2>2. "noPawn" \in PC /\ "game" \in PC BY DEF PC
  <2>3. QED BY <2>1, <2>2
<1>3. pcs' \in [Ids -> Seq(PC)] BY <1>1, <1>2
<1>4. home' \in [Clients -> Ids \cup {NoId}] BY DEF TypeOK, Migrate
<1>5. migrations' \in 0 .. MaxMigrations
  <2>1. migrations \in 0 .. MaxMigrations /\ migrations < MaxMigrations
        /\ migrations' = migrations + 1 /\ MaxMigrations \in Nat
    BY ConstantsAssumption DEF TypeOK, Migrate, ConstantsAssumption
  <2>2. QED BY <2>1
<1>6. QED
  BY <1>3, <1>4, <1>5 DEF TypeOK, Migrate, Live, serverVars, joinVars, primVars, clientVars

LEMMA NextType ==
  ASSUME TypeOK, [Next]_vars
  PROVE  TypeOK'
<1>1. CASE Next
  BY <1>1, AcceptType, JoinType, FaultType, HandleClosedType, ParentConnectedType,
     RegisterGameServerType, RegisterAndConnectType, UnregisterType, ParentLostType,
     AssignType, CloseChildType, MigrateType, ShutdownType DEF Next
<1>2. CASE UNCHANGED vars
  BY <1>2 DEF TypeOK, Live, vars, serverVars, joinVars, primVars, clientVars, envVars
<1>3. QED BY <1>1, <1>2

\* The routing tables of the proxy are well typed in every reachable state, whatever the
\* clients, the servers and the environment.
THEOREM TypeCorrect == Spec => []TypeOK
<1>1. Init => TypeOK BY InitType
<1>2. TypeOK /\ [Next]_vars => TypeOK' BY NextType
<1>3. QED BY <1>1, <1>2, PTL DEF Spec

-----------------------------------------------------------------------------
(* Departed clients.  A late player controller or a late hand-over must not *)
(* bring a route of a departed client back to life.  DepartedClients is not *)
(* inductive by itself: finishing a reassignment writes the states of two   *)
(* routes named by handshake ids that were stored earlier, so the invariant *)
(* also says that such ids still belong to the same client (DeferredAreOwn).*)

RouteInv == TypeOK /\ DepartedClients /\ DeferredAreOwn

LEMMA InitRouteInv == Init => DepartedClients /\ DeferredAreOwn
BY DEF Init, DepartedClients, DeferredAreOwn, Live, NoReassignment

\* New routes get new ids and leave the others alone.
LEMMA ConnectAdds ==
  ASSUME TypeOK, NEW reqs \in Seq(Request), NEW conns, ConnectToGameServer(conns, reqs)
  PROVE  /\ Live \subseteq Live' /\ nextId' >= nextId
         /\ \A h \in Live : routes'[h] = routes[h]
         /\ \A h \in Live' \ Live :
               /\ nextId <= h /\ h < nextId'
               /\ \E i \in DOMAIN reqs : routes'[h] = NewRoute(reqs[i])
<1>1. /\ Live' = Live \cup {nextId + i - 1 : i \in DOMAIN reqs}
      /\ routes' = [h \in Live' |-> IF h \in Live THEN routes[h]
                                    ELSE NewRoute(reqs[h - nextId + 1])]
      /\ nextId' = nextId + Len(reqs)
  BY DEF ConnectToGameServer, Live, Advanced
<1>2. Len(reqs) \in Nat /\ DOMAIN reqs = 1 .. Len(reqs) OBVIOUS
<1>3. nextId \in Nat
  <2>1. nextId \in 1 .. MaxIds + 1 /\ MaxIds \in Nat
    BY ConstantsAssumption DEF TypeOK, ConstantsAssumption
  <2>2. QED BY <2>1
<1>4. ASSUME NEW h \in Live' \ Live
      PROVE  /\ nextId <= h /\ h < nextId'
             /\ \E i \in DOMAIN reqs : routes'[h] = NewRoute(reqs[i])
  <2>1. PICK i \in DOMAIN reqs : h = nextId + i - 1 BY <1>1, <1>4
  <2>2. h - nextId + 1 = i BY <1>2, <1>3, <2>1
  <2>3. routes'[h] = NewRoute(reqs[i]) BY <1>1, <1>4, <2>2
  <2>4. nextId <= h /\ h < nextId' BY <1>1, <1>2, <1>3, <2>1
  <2>5. QED BY <2>3, <2>4
<1>5. Live \subseteq Live' BY <1>1
<1>6. \A h \in Live : routes'[h] = routes[h] BY <1>1, <1>5
<1>7. nextId' >= nextId
  <2>1. nextId' = nextId + Len(reqs) BY <1>1
  <2>2. QED BY <2>1, <1>2, <1>3
<1>8. QED BY <1>4, <1>5, <1>6, <1>7

\* Connecting clients that have not left preserves the invariant.
LEMMA ConnectInv ==
  ASSUME RouteInv, NEW reqs \in Seq(Request), NEW conns, ConnectToGameServer(conns, reqs),
         \A i \in DOMAIN reqs : client[reqs[i].client] # "closed",
         \A c \in Clients : client'[c] = "closed" <=> client[c] = "closed",
         open' = open, UNCHANGED primVars
  PROVE  DepartedClients' /\ DeferredAreOwn'
<1>1. /\ Live \subseteq Live' /\ nextId' >= nextId
      /\ \A h \in Live : routes'[h] = routes[h]
      /\ \A h \in Live' \ Live :
               /\ nextId <= h /\ h < nextId'
               /\ \E i \in DOMAIN reqs : routes'[h] = NewRoute(reqs[i])
  BY ConnectAdds DEF RouteInv
<1>2. Live \subseteq Ids /\ nextId \in Nat /\ nextId' \in Int /\ routes \in [Live -> Route]
  <2>1. nextId \in 1 .. MaxIds + 1 /\ MaxIds \in Nat
    BY ConstantsAssumption DEF RouteInv, TypeOK, ConstantsAssumption
  <2>2. nextId' = nextId + Len(reqs) BY DEF ConnectToGameServer, Advanced
  <2>3. Len(reqs) \in Nat OBVIOUS
  <2>4. Live \subseteq Ids /\ routes \in [Live -> Route] BY DEF RouteInv, TypeOK
  <2>5. QED BY <2>1, <2>2, <2>3, <2>4
<1>3. \A i \in DOMAIN reqs : /\ reqs[i].client \in Clients
                             /\ NewRoute(reqs[i]).client = reqs[i].client
                             /\ NewRoute(reqs[i]).state # "PendingClose"
  <2>1. \A i \in DOMAIN reqs : reqs[i] \in Request OBVIOUS
  <2>2. \A req \in Request : /\ req.client \in Clients
                             /\ NewRoute(req).client = req.client
                             /\ NewRoute(req).state # "PendingClose"
    BY DEF Request, NewRoute
  <2>3. QED BY <2>1, <2>2
<1>4. \A h \in Live : routes[h].client \in Clients BY <1>2 DEF Route
<1>5. DepartedClients'
  <2>1. \A c \in Clients : client'[c] = "closed" =>
          primaryOf'[c] = NoId /\ deferred'[c] = NoReassignment /\ c \notin open'
    BY DEF RouteInv, DepartedClients, primVars
  <2>2. ASSUME NEW h \in Live'
        PROVE  client'[routes'[h].client] = "closed" <=> routes'[h].state = "PendingClose"
    <3>1. CASE h \in Live
      BY <1>1, <1>4, <3>1 DEF RouteInv, DepartedClients
    <3>2. CASE h \notin Live
      <4>1. PICK i \in DOMAIN reqs : routes'[h] = NewRoute(reqs[i]) BY <1>1, <3>2
      <4>2. QED BY <1>3, <4>1
    <3>3. QED BY <3>1, <3>2
  <2>3. QED BY <2>1, <2>2 DEF DepartedClients
<1>6. DeferredAreOwn'
  <2>1. \A h \in Live' : h < nextId'
    BY <1>1, <1>2 DEF RouteInv, DeferredAreOwn, Ids
  <2>2. ASSUME NEW c \in Clients,
               NEW h \in {deferred'[c].prev, deferred'[c].game} \ {NoId}
        PROVE  h < nextId' /\ (h \in Live' => routes'[h].client = c)
    <3>1. deferred' = deferred BY DEF primVars
    <3>2. h < nextId /\ (h \in Live => routes[h].client = c)
      BY <3>1 DEF RouteInv, DeferredAreOwn
    <3>3. h \in Ids
      <4>1. deferred[c] \in Deferred BY DEF RouteInv, TypeOK
      <4>2. QED BY <3>1, <4>1 DEF Deferred
    <3>4. h \in Live' => h \in Live BY <1>1, <1>2, <3>2, <3>3 DEF Ids
    <3>5. QED BY <1>1, <1>2, <3>2, <3>3, <3>4 DEF Ids
  <2>3. QED BY <2>1, <2>2 DEF DeferredAreOwn
<1>7. QED BY <1>5, <1>6

-----------------------------------------------------------------------------
LEMMA AcceptInv ==
  ASSUME RouteInv, NEW c \in Clients, Accept(c)
  PROVE  DepartedClients' /\ DeferredAreOwn'
<1>1. client' = [client EXCEPT ![c] = "accepted"] /\ client[c] = "offline"
      /\ open' \subseteq open \cup {c}
      /\ routes' = routes /\ UNCHANGED primVars /\ nextId' = nextId
  BY DEF Accept, joinVars
<1>2. \A d \in Clients : client'[d] = "closed" <=> client[d] = "closed"
  BY <1>1 DEF RouteInv, TypeOK
<1>3. \A h \in Live : routes[h].client \in Clients BY DEF RouteInv, TypeOK, Route
<1>4. DepartedClients'
  <2>1. \A d \in Clients : client'[d] = "closed" =>
          primaryOf'[d] = NoId /\ deferred'[d] = NoReassignment /\ d \notin open'
    BY <1>1, <1>2 DEF RouteInv, DepartedClients, primVars
  <2>2. \A h \in Live' :
          client'[routes'[h].client] = "closed" <=> routes'[h].state = "PendingClose"
    BY <1>1, <1>2, <1>3 DEF RouteInv, DepartedClients, Live
  <2>3. QED BY <2>1, <2>2 DEF DepartedClients
<1>5. DeferredAreOwn' BY <1>1 DEF RouteInv, DeferredAreOwn, Live, primVars
<1>6. QED BY <1>4, <1>5

LEMMA JoinInv ==
  ASSUME RouteInv, NEW c \in Clients, Join(c)
  PROVE  DepartedClients' /\ DeferredAreOwn'
<1>1. PICK p \in PrimaryChoices :
         ConnectToGameServer(parent, [i \in 1 .. Len(gameServers) |->
               [client |-> c, server |-> gameServers[i], primary |-> i - 1 = p]])
  BY DEF Join
<1> DEFINE reqs == [i \in 1 .. Len(gameServers) |->
               [client |-> c, server |-> gameServers[i], primary |-> i - 1 = p]]
<1>2. gameServers \in Seq(Servers) /\ Len(gameServers) \in Nat
  <2>1. gameServers \in Seq(Servers) BY DEF RouteInv, TypeOK
  <2>2. QED BY <2>1
<1>3. reqs \in Seq(Request) BY <1>2 DEF Request
<1>4. client[c] = "accepted" /\ client' = [client EXCEPT ![c] = "joined"]
      /\ open' = open /\ UNCHANGED primVars
  BY DEF Join
<1>5. \A i \in DOMAIN reqs : client[reqs[i].client] # "closed" BY <1>4
<1>6. \A d \in Clients : client'[d] = "closed" <=> client[d] = "closed"
  BY <1>4 DEF RouteInv, TypeOK
<1>7. ConnectToGameServer(parent, reqs) BY <1>1
<1> HIDE DEF reqs
<1>8. QED BY <1>3, <1>4, <1>5, <1>6, <1>7, ConnectInv

LEMMA RegisterAndConnectInv ==
  ASSUME RouteInv, NEW s \in Servers, RegisterGameServerAndConnectClients(s)
  PROVE  DepartedClients' /\ DeferredAreOwn'
<1>1. PICK order \in {f \in [1 .. Cardinality(OpenConnections) -> OpenConnections] :
                        IsInjective(f)} :
        ConnectToGameServer([parent EXCEPT ![s] = "none"],
             [i \in DOMAIN order |->
                 [client |-> order[i], server |-> s, primary |-> FALSE]])
  BY DEF RegisterGameServerAndConnectClients
<1> DEFINE reqs  == [i \in DOMAIN order |->
                       [client |-> order[i], server |-> s, primary |-> FALSE]]
           conns == [parent EXCEPT ![s] = "none"]
<1>2. /\ open \subseteq Clients /\ IsFiniteSet(Clients)
      /\ order \in [1 .. Cardinality(open) -> open]
  BY ConstantsAssumption DEF RouteInv, TypeOK, OpenConnections, ConstantsAssumption
<1>3. DOMAIN order = 1 .. Cardinality(open) /\ Cardinality(open) \in Nat
      /\ \A i \in DOMAIN order : order[i] \in open
  BY <1>2, ArrayType
<1>4. reqs \in Seq(Request)
  <2>1. \A i \in DOMAIN order :
           [client |-> order[i], server |-> s, primary |-> FALSE] \in Request
    BY <1>2, <1>3 DEF Request
  <2>2. reqs \in [1 .. Cardinality(open) -> Request] BY <1>3, <2>1
  <2>3. Cardinality(open) \in Nat BY <1>3
  <2> HIDE DEF reqs
  <2>4. QED BY <2>2, <2>3
<1>5. \A i \in DOMAIN reqs : client[reqs[i].client] # "closed"
  <2>1. \A d \in open : client[d] # "closed" BY <1>2 DEF RouteInv, DepartedClients
  <2>2. QED BY <1>3, <2>1
<1>6. client' = client /\ open' = open /\ UNCHANGED primVars
  BY DEF RegisterGameServerAndConnectClients, clientVars
<1>7. ConnectToGameServer(conns, reqs) BY <1>1
<1> HIDE DEF reqs, conns
<1>8. QED BY <1>4, <1>5, <1>6, <1>7, ConnectInv

\* Steps that leave the routes and the tables of this invariant alone.
LEMMA SameRoutesInv ==
  ASSUME RouteInv, UNCHANGED <<routes, nextId, primVars, clientVars>>
  PROVE  DepartedClients' /\ DeferredAreOwn'
BY DEF RouteInv, DepartedClients, DeferredAreOwn, Live, primVars, clientVars

\* Steps that only take routes away.
LEMMA FewerRoutesInv ==
  ASSUME RouteInv, NEW gone, routes' = Restrict(routes, Live \ gone),
         UNCHANGED <<nextId, primVars, clientVars>>
  PROVE  DepartedClients' /\ DeferredAreOwn'
<1>1. Live' = Live \ gone /\ \A h \in Live' : routes'[h] = routes[h]
  BY DEF Live, Restrict
<1>2. DepartedClients' BY <1>1 DEF RouteInv, DepartedClients, primVars, clientVars
<1>3. DeferredAreOwn'
  <2>1. nextId' = nextId /\ deferred' = deferred BY DEF primVars
  <2>2. \A h \in Live' : h < nextId' BY <1>1, <2>1 DEF RouteInv, DeferredAreOwn
  <2>3. ASSUME NEW c \in Clients,
               NEW h \in {deferred'[c].prev, deferred'[c].game} \ {NoId}
        PROVE  h < nextId' /\ (h \in Live' => routes'[h].client = c)
    <3>1. h < nextId /\ (h \in Live => routes[h].client = c)
      BY <2>1, <2>3 DEF RouteInv, DeferredAreOwn
    <3>2. QED BY <1>1, <2>1, <3>1
  <2>4. QED BY <2>2, <2>3 DEF DeferredAreOwn
<1>4. QED BY <1>2, <1>3

\* Steps that change the state of routes of clients that have not left, and no owner.
LEMMA NewStatesInv ==
  ASSUME RouteInv, Live' = Live,
         \A h \in Live : routes'[h].client = routes[h].client,
         \A h \in Live : routes[h].state = "PendingClose" <=>
                           routes'[h].state = "PendingClose",
         nextId' = nextId, client' = client,
         \A c \in Clients : client[c] = "closed" =>
             primaryOf'[c] = NoId /\ deferred'[c] = NoReassignment /\ c \notin open',
         \A c \in Clients : \A h \in {deferred'[c].prev, deferred'[c].game} \ {NoId} :
             h < nextId /\ (h \in Live => routes[h].client = c)
  PROVE  DepartedClients' /\ DeferredAreOwn'
<1>1. DepartedClients' BY DEF RouteInv, DepartedClients
<1>2. DeferredAreOwn' BY DEF RouteInv, DeferredAreOwn
<1>3. QED BY <1>1, <1>2

LEMMA ReceivedLive ==
  ASSUME RouteInv, NEW h \in Ids, NEW pc, Received(h, pc),
         routes[h].state # "PendingClose"
  PROVE  /\ h \in Live /\ h < nextId /\ h \in Int
         /\ routes[h] \in Route /\ routes[h].client \in Clients
         /\ client[routes[h].client] # "closed"
<1>1. h \in Live /\ routes[h] \in Route BY ReceivedType DEF RouteInv
<1>2. routes[h].client \in Clients BY <1>1 DEF Route
<1>3. QED BY <1>1, <1>2 DEF RouteInv, DepartedClients, DeferredAreOwn, Ids

LEMMA AssignConnectingInv ==
  ASSUME RouteInv, NEW h \in Ids, AssignConnecting(h) \/ AssignConnectingPrimary(h)
  PROVE  DepartedClients' /\ DeferredAreOwn'
<1>1. PICK pc \in PC, st \in {"Connected", "ConnectedPrimary"} :
        /\ Received(h, pc) /\ routes[h].state \in StillConnecting
        /\ routes' = [routes EXCEPT ![h].state = st, ![h].conn = TRUE, ![h].pc = pc]
  BY DEF AssignConnecting, AssignConnectingPrimary, StillConnecting
<1>2. /\ h \in Live /\ h < nextId /\ routes[h] \in Route /\ routes[h].client \in Clients
      /\ client[routes[h].client] # "closed"
  BY <1>1, ReceivedLive DEF StillConnecting
<1>3. /\ UNCHANGED <<nextId, deferred, client>>
      /\ \/ UNCHANGED <<primaryOf, open>>
         \/ /\ primaryOf' = [primaryOf EXCEPT ![routes[h].client] = h]
            /\ open' = open \cup {routes[h].client}
  BY DEF AssignConnecting, AssignConnectingPrimary, joinVars, primVars, clientVars
<1>4. routes \in [Live -> Route] BY DEF RouteInv, TypeOK
<1>5. Live' = Live BY <1>1, <1>4 DEF Live
<1>6. \A g \in Live : routes'[g].client = routes[g].client BY <1>1, <1>4 DEF Route
<1>7. routes'[h].state = st /\ \A g \in Live \ {h} : routes'[g] = routes[g]
  BY <1>1, <1>2, <1>4 DEF Route
<1>8. \A g \in Live : routes[g].state = "PendingClose" <=>
                        routes'[g].state = "PendingClose"
  BY <1>1, <1>7 DEF StillConnecting
<1>9. \A c \in Clients : client[c] = "closed" =>
         primaryOf'[c] = NoId /\ deferred'[c] = NoReassignment /\ c \notin open'
  BY <1>2, <1>3 DEF RouteInv, TypeOK, DepartedClients
<1>10. \A c \in Clients : \A g \in {deferred'[c].prev, deferred'[c].game} \ {NoId} :
          g < nextId /\ (g \in Live => routes[g].client = c)
  BY <1>3 DEF RouteInv, DeferredAreOwn
<1>11. nextId' = nextId /\ client' = client BY <1>3
<1>12. QED BY <1>5, <1>6, <1>8, <1>9, <1>10, <1>11, NewStatesInv

\* What ReassignPlayerController does to the tables of this invariant: rs are the routes
\* with the new player controller, prev and game the ends of a completed reassignment,
\* and d is the deferred reassignment it leaves behind.
Reassigns(h, rs, prev, game, d) ==
    LET c == routes[h].client
    IN  /\ routes[h].state \in Established
        /\ rs \in [Live -> Route]
        /\ \A g \in Live : rs[g].client = routes[g].client
        /\ \A g \in Live : rs[g].state = routes[g].state
        /\ \A g \in Live \ {h} : rs[g] = routes[g]
        /\ {prev, game} \subseteq {h, deferred[c].prev, deferred[c].game} \ {NoId}
        /\ routes' = Finalized(rs, prev, game) \/ routes' = Awaiting(rs, h)
        /\ {d.prev, d.game} \subseteq {h, NoId}
        /\ deferred' = [deferred EXCEPT ![c] = d]
        /\ primaryOf' = primaryOf \/ primaryOf' = [primaryOf EXCEPT ![c] = h]
        /\ nextId' = nextId /\ client' = client /\ open' = open

\* Only routes of the client that owns route h are written, and it has not left.
LEMMA ReassignInv ==
  ASSUME RouteInv, NEW h \in Live, NEW rs, NEW prev, NEW game, NEW d,
         Reassigns(h, rs, prev, game, d)
  PROVE  DepartedClients' /\ DeferredAreOwn'
<1> DEFINE c == routes[h].client
<1>a. /\ routes[h].state \in Established
      /\ rs \in [Live -> Route]
      /\ \A g \in Live : rs[g].client = routes[g].client
      /\ \A g \in Live : rs[g].state = routes[g].state
      /\ {prev, game} \subseteq {h, deferred[c].prev, deferred[c].game} \ {NoId}
      /\ routes' = Finalized(rs, prev, game) \/ routes' = Awaiting(rs, h)
  BY DEF Reassigns
<1>b. /\ {d.prev, d.game} \subseteq {h, NoId}
      /\ deferred' = [deferred EXCEPT ![c] = d]
      /\ primaryOf' = primaryOf \/ primaryOf' = [primaryOf EXCEPT ![c] = h]
      /\ nextId' = nextId /\ client' = client /\ open' = open
  BY DEF Reassigns
<1>1. /\ routes \in [Live -> Route] /\ c \in Clients /\ h < nextId
      /\ client[c] # "closed" /\ h # NoId
  <2>1. routes \in [Live -> Route] BY DEF RouteInv, TypeOK
  <2>2. c \in Clients BY <2>1 DEF Route
  <2>3. routes[h].state # "PendingClose" BY <1>a DEF Established
  <2>4. h \in Ids BY DEF RouteInv, TypeOK
  <2>5. h # NoId BY <2>4 DEF Ids
  <2>6. QED BY <2>1, <2>2, <2>3, <2>5 DEF RouteInv, DepartedClients, DeferredAreOwn
<1>2. \A g \in {prev, game} : g < nextId /\ (g \in Live => routes[g].client = c)
  BY <1>1, <1>a DEF RouteInv, DeferredAreOwn
<1>3. \A g \in Live : routes[g].client = c => routes[g].state # "PendingClose"
  BY <1>1 DEF RouteInv, DepartedClients
<1>5. /\ Live' = Live
      /\ \A g \in Live : routes'[g].client = routes[g].client
      /\ \A g \in Live : g \notin {h, prev, game} => routes'[g].state = routes[g].state
      /\ \A g \in Live : routes[g].state # "PendingClose" =>
                            routes'[g].state # "PendingClose"
  <2>1. Live' = DOMAIN routes' BY DEF Live
  <2>2. CASE routes' = Finalized(rs, prev, game)
    <3>1. /\ DOMAIN routes' = Live
          /\ \A g \in Live : routes'[g].client = rs[g].client
          /\ \A g \in Live : g \notin {prev, game} => routes'[g] = rs[g]
          /\ \A g \in Live : rs[g].state # "PendingClose" =>
                                routes'[g].state # "PendingClose"
      BY <1>a, <2>2, FinalizedType
    <3>2. QED BY <1>a, <2>1, <3>1
  <2>3. CASE routes' = Awaiting(rs, h)
    <3>1. /\ DOMAIN routes' = Live
          /\ \A g \in Live : routes'[g].client = rs[g].client
          /\ \A g \in Live \ {h} : routes'[g] = rs[g]
          /\ routes'[h].state = "PendingReassign"
      BY <1>a, <2>3, AwaitingType
    <3>2. QED BY <1>a, <2>1, <3>1
  <2>4. QED BY <1>a, <2>2, <2>3
<1>9. \A g \in Live : routes[g].state = "PendingClose" <=>
                        routes'[g].state = "PendingClose"
  <2>1. ASSUME NEW g \in Live, routes[g].client = c
        PROVE  routes[g].state # "PendingClose" /\ routes'[g].state # "PendingClose"
    BY <1>3, <1>5, <2>1
  <2>2. ASSUME NEW g \in Live, routes[g].client # c
        PROVE  routes'[g].state = routes[g].state
    BY <1>2, <1>5, <2>2
  <2>3. QED BY <2>1, <2>2
<1>10. deferred \in [Clients -> Deferred] /\ primaryOf \in [Clients -> Ids \cup {NoId}]
  BY DEF RouteInv, TypeOK
<1>11. \A e \in Clients : client[e] = "closed" =>
          primaryOf'[e] = NoId /\ deferred'[e] = NoReassignment /\ e \notin open'
  <2>1. \A e \in Clients \ {c} : primaryOf'[e] = primaryOf[e] /\ deferred'[e] = deferred[e]
    BY <1>1, <1>b, <1>10
  <2>2. QED BY <1>1, <1>b, <2>1 DEF RouteInv, DepartedClients
<1>12. \A e \in Clients : \A g \in {deferred'[e].prev, deferred'[e].game} \ {NoId} :
          g < nextId /\ (g \in Live => routes[g].client = e)
  <2>1. \A g \in {deferred'[c].prev, deferred'[c].game} \ {NoId} : g = h
    BY <1>1, <1>b, <1>10
  <2>2. \A e \in Clients \ {c} : deferred'[e] = deferred[e] BY <1>1, <1>b, <1>10
  <2>3. QED BY <1>1, <2>1, <2>2 DEF RouteInv, DeferredAreOwn
<1>13. nextId' = nextId /\ client' = client BY <1>b
<1>14. QED BY <1>5, <1>9, <1>11, <1>12, <1>13, NewStatesInv

LEMMA ReassignNoPawnReassigns ==
  ASSUME RouteInv, NEW h \in Ids, ReassignNoPawn(h)
  PROVE  h \in Live /\ \E prev, game, d :
           Reassigns(h, [routes EXCEPT ![h].pc = "noPawn"], prev, game, d)
<1> DEFINE c    == routes[h].client
           game == IF deferred[c].prev # NoId THEN NoId ELSE deferred[c].game
           rs   == [routes EXCEPT ![h].pc = "noPawn"]
           to   == IF game # NoId THEN game ELSE h
           d    == IF game # NoId THEN NoReassignment ELSE [prev |-> h, game |-> NoId]
<1>1. h \in Live /\ routes[h].state \in Established /\ "noPawn" \in PC /\ h # NoId
  BY DEF ReassignNoPawn, Received, PC, Ids
<1>2. TypeOK BY DEF RouteInv
<1>3. /\ rs \in [Live -> Route]
      /\ \A g \in Live : rs[g].client = routes[g].client
      /\ \A g \in Live : rs[g].state = routes[g].state
      /\ \A g \in Live \ {h} : rs[g] = routes[g]
  <2>1. rs \in [Live -> Route] BY <1>1, <1>2, ReassignedRoutes
  <2>2. \A g \in Live : rs[g].client = routes[g].client BY <1>1, <1>2, ReassignedRoutes
  <2>3. \A g \in Live : rs[g].state = routes[g].state BY <1>1, <1>2, ReassignedRoutes
  <2>4. \A g \in Live \ {h} : rs[g] = routes[g] BY <1>1, <1>2, ReassignedRoutes
  <2>5. QED BY <2>1, <2>2, <2>3, <2>4
<1>4. routes' = Finalized(rs, h, to) \/ routes' = Awaiting(rs, h) BY DEF ReassignNoPawn
<1>5. deferred' = [deferred EXCEPT ![c] = d] BY DEF ReassignNoPawn
<1>6. {d.prev, d.game} \subseteq {h, NoId} BY DEF NoReassignment
<1>7. {h, to} \subseteq {h, deferred[c].prev, deferred[c].game} \ {NoId} BY <1>1
<1>8. primaryOf' = primaryOf /\ UNCHANGED <<nextId, client, open>>
  BY DEF ReassignNoPawn, joinVars, clientVars
<1> HIDE DEF game, rs, to, d
<1>9. Reassigns(h, rs, h, to, d)
  BY <1>1, <1>3, <1>4, <1>5, <1>6, <1>7, <1>8 DEF Reassigns
<1>10. QED BY <1>1, <1>9 DEF rs

LEMMA ReassignGameReassigns ==
  ASSUME RouteInv, NEW h \in Ids, ReassignGame(h)
  PROVE  h \in Live /\ \E prev, game, d :
           Reassigns(h, [routes EXCEPT ![h].pc = "game"], prev, game, d)
<1> DEFINE c    == routes[h].client
           prev == IF deferred[c].game # NoId THEN NoId ELSE deferred[c].prev
           rs   == [routes EXCEPT ![h].pc = "game"]
           from == IF prev # NoId THEN prev ELSE h
           d    == IF prev # NoId THEN NoReassignment ELSE [prev |-> NoId, game |-> h]
<1>1. h \in Live /\ routes[h].state \in Established /\ "game" \in PC /\ h # NoId
  BY DEF ReassignGame, Received, PC, Ids
<1>2. TypeOK BY DEF RouteInv
<1>3. /\ rs \in [Live -> Route]
      /\ \A g \in Live : rs[g].client = routes[g].client
      /\ \A g \in Live : rs[g].state = routes[g].state
      /\ \A g \in Live \ {h} : rs[g] = routes[g]
  <2>1. rs \in [Live -> Route] BY <1>1, <1>2, ReassignedRoutes
  <2>2. \A g \in Live : rs[g].client = routes[g].client BY <1>1, <1>2, ReassignedRoutes
  <2>3. \A g \in Live : rs[g].state = routes[g].state BY <1>1, <1>2, ReassignedRoutes
  <2>4. \A g \in Live \ {h} : rs[g] = routes[g] BY <1>1, <1>2, ReassignedRoutes
  <2>5. QED BY <2>1, <2>2, <2>3, <2>4
<1>4. routes' = Finalized(rs, from, h) \/ routes' = Awaiting(rs, h) BY DEF ReassignGame
<1>5. deferred' = [deferred EXCEPT ![c] = d] BY DEF ReassignGame
<1>6. {d.prev, d.game} \subseteq {h, NoId} BY DEF NoReassignment
<1>7. {from, h} \subseteq {h, deferred[c].prev, deferred[c].game} \ {NoId} BY <1>1
<1>8. /\ primaryOf' = [primaryOf EXCEPT ![c] = h]
      /\ UNCHANGED <<nextId, client, open>>
  BY DEF ReassignGame, joinVars, clientVars
<1> HIDE DEF prev, rs, from, d
<1>9. Reassigns(h, rs, from, h, d)
  BY <1>1, <1>3, <1>4, <1>5, <1>6, <1>7, <1>8 DEF Reassigns
<1>10. QED BY <1>1, <1>9 DEF rs

LEMMA AssignPendingCloseInv ==
  ASSUME RouteInv, NEW h \in Ids, AssignPendingClose(h)
  PROVE  DepartedClients' /\ DeferredAreOwn'
<1>1. routes' = Restrict(routes, Live \ {h}) /\ UNCHANGED <<nextId, primVars, clientVars>>
  BY DEF AssignPendingClose, joinVars
<1>2. QED BY <1>1, FewerRoutesInv

LEMMA RemoveInv ==
  ASSUME RouteInv, NEW gone, RemoveGameServers(gone),
         UNCHANGED <<nextId, primVars, clientVars>>
  PROVE  DepartedClients' /\ DeferredAreOwn'
<1> DEFINE closed == {h \in Live : routes[h].server \in gone}
<1>1. routes' = Restrict(routes, Live \ closed) BY DEF RemoveGameServers
<1> HIDE DEF closed
<1>2. QED BY <1>1, FewerRoutesInv

\* Only the client that leaves is affected: its maps are emptied and its routes that are
\* still there await their handshake.
LEMMA HandleClosedInv ==
  ASSUME RouteInv, NEW c \in Clients, HandleClosedProxyConnection(c)
  PROVE  DepartedClients' /\ DeferredAreOwn'
<1>1. /\ client' = [client EXCEPT ![c] = "closed"] /\ client[c] # "closed"
      /\ open' = open \ {c}
      /\ primaryOf' = [primaryOf EXCEPT ![c] = NoId]
      /\ deferred' = [deferred EXCEPT ![c] = NoReassignment]
      /\ nextId' = nextId
  BY DEF HandleClosedProxyConnection, joinVars
<1>2. /\ Live' \subseteq Live
      /\ \A h \in Live' : routes'[h] = IF routes[h].client = c
                                         THEN [routes[h] EXCEPT !.state = "PendingClose"]
                                         ELSE routes[h]
  BY DEF HandleClosedProxyConnection, Live
<1>3. /\ client \in [Clients -> {"offline", "accepted", "joined", "closed"}]
      /\ primaryOf \in [Clients -> Ids \cup {NoId}] /\ deferred \in [Clients -> Deferred]
      /\ routes \in [Live -> Route]
  BY DEF RouteInv, TypeOK
<1>4. \A h \in Live : routes[h] \in Route /\ routes[h].client \in Clients
  BY <1>3 DEF Route
<1>5. \A h \in Live' : /\ routes'[h].client = routes[h].client
                       /\ routes[h].client = c => routes'[h].state = "PendingClose"
                       /\ routes[h].client # c => routes'[h] = routes[h]
  <2>1. \A h \in Live : /\ [routes[h] EXCEPT !.state = "PendingClose"].client = routes[h].client
                        /\ [routes[h] EXCEPT !.state = "PendingClose"].state = "PendingClose"
    BY <1>4, StateChange DEF RouteState
  <2>2. QED BY <1>2, <2>1
<1>6. DepartedClients'
  <2>1. \A e \in Clients : client'[e] = "closed" =>
          primaryOf'[e] = NoId /\ deferred'[e] = NoReassignment /\ e \notin open'
    BY <1>1, <1>3 DEF RouteInv, DepartedClients
  <2>2. \A e \in Clients \ {c} : client'[e] = client[e] BY <1>1, <1>3
  <2>3. client'[c] = "closed" BY <1>1, <1>3
  <2>4. ASSUME NEW h \in Live'
        PROVE  client'[routes'[h].client] = "closed" <=> routes'[h].state = "PendingClose"
    <3>1. h \in Live /\ routes[h].client \in Clients BY <1>2, <1>4
    <3>2. client[routes[h].client] = "closed" <=> routes[h].state = "PendingClose"
      BY <3>1 DEF RouteInv, DepartedClients
    <3>3. routes'[h].client = routes[h].client BY <1>5
    <3>4. CASE routes[h].client = c
      <4>1. routes'[h].state = "PendingClose" BY <1>5, <3>4
      <4>2. QED BY <2>3, <3>3, <3>4, <4>1
    <3>5. CASE routes[h].client # c
      <4>1. routes'[h] = routes[h] BY <1>5, <3>5
      <4>2. client'[routes[h].client] = client[routes[h].client] BY <2>2, <3>1, <3>5
      <4>3. QED BY <3>2, <4>1, <4>2
    <3>6. QED BY <3>4, <3>5
  <2>5. QED BY <2>1, <2>4 DEF DepartedClients
<1>7. DeferredAreOwn'
  <2>1. \A h \in Live' : h < nextId' BY <1>1, <1>2 DEF RouteInv, DeferredAreOwn
  <2>2. \A g \in {deferred'[c].prev, deferred'[c].game} : g = NoId
    BY <1>1, <1>3 DEF NoReassignment
  <2>3. \A e \in Clients \ {c} : deferred'[e] = deferred[e] BY <1>1, <1>3
  <2>4. \A e \in Clients : \A g \in {deferred'[e].prev, deferred'[e].game} \ {NoId} :
          g < nextId' /\ (g \in Live' => routes'[g].client = e)
    <3>1. ASSUME NEW e \in Clients \ {c},
                 NEW g \in {deferred'[e].prev, deferred'[e].game} \ {NoId}
          PROVE  g < nextId' /\ (g \in Live' => routes'[g].client = e)
      <4>1. g \in {deferred[e].prev, deferred[e].game} \ {NoId} BY <2>3
      <4>2. g < nextId /\ (g \in Live => routes[g].client = e)
        BY <4>1 DEF RouteInv, DeferredAreOwn
      <4>3. QED BY <1>1, <1>2, <1>5, <4>2
    <3>2. QED BY <2>2, <3>1
  <2>5. QED BY <2>1, <2>4 DEF DeferredAreOwn
<1>8. QED BY <1>6, <1>7

LEMMA ShutdownInv ==
  ASSUME RouteInv, Shutdown
  PROVE  DepartedClients' /\ DeferredAreOwn'
<1>1. /\ Live' \subseteq Live
      /\ \A h \in Live' : /\ routes'[h].client = routes[h].client
                         /\ routes'[h].state = "PendingClose"
  BY ShutdownRoutes DEF RouteInv
<1>2. /\ \A c \in Clients : client'[c] = "closed" /\ primaryOf'[c] = NoId
                           /\ deferred'[c] = NoReassignment
      /\ open' = {} /\ nextId' = nextId
  BY DEF Shutdown, joinVars
<1>3. \A h \in Live : routes[h].client \in Clients BY DEF RouteInv, TypeOK, Route
<1>4. DepartedClients' BY <1>1, <1>2, <1>3 DEF DepartedClients
<1>5. DeferredAreOwn'
  BY <1>1, <1>2 DEF RouteInv, DeferredAreOwn, NoReassignment
<1>6. QED BY <1>4, <1>5

LEMMA OthersInv ==
  ASSUME RouteInv,
         \/ \E c \in Clients : JoinDividesByZero(c)
         \/ \E s \in Servers : \/ ParentSearchFaults(s)
                               \/ ParentConnected(s)
                               \/ RegisterGameServer(s)
                               \/ ParentLost(s)
         \/ \E h \in Ids : CloseChildConnection(h)
         \/ \E c \in Clients, h \in Ids : Migrate(c, h)
         \/ ShutdownFaults
         \/ UNCHANGED vars
  PROVE  DepartedClients' /\ DeferredAreOwn'
<1>1. UNCHANGED <<routes, nextId, primVars, clientVars>>
  BY DEF JoinDividesByZero, ParentSearchFaults, ParentConnected, RegisterGameServer,
         ParentLost, CloseChildConnection, Migrate, ShutdownFaults, joinVars, vars
<1>2. QED BY <1>1, SameRoutesInv

LEMMA NextRouteInv ==
  ASSUME RouteInv, [Next]_vars
  PROVE  RouteInv'
<1>1. TypeOK' BY NextType DEF RouteInv
<1>2. DepartedClients' /\ DeferredAreOwn'
  <2>1. ASSUME NEW c \in Clients, Accept(c) \/ Join(c) \/ HandleClosedProxyConnection(c)
        PROVE  DepartedClients' /\ DeferredAreOwn'
    BY <2>1, AcceptInv, JoinInv, HandleClosedInv
  <2>2. ASSUME NEW s \in Servers,
               RegisterGameServerAndConnectClients(s) \/ UnregisterGameServer(s)
        PROVE  DepartedClients' /\ DeferredAreOwn'
    BY <2>2, RegisterAndConnectInv, RemoveInv DEF UnregisterGameServer
  <2>3. ASSUME DetectGameServerDisconnections PROVE DepartedClients' /\ DeferredAreOwn'
    BY <2>3, RemoveInv DEF DetectGameServerDisconnections
  <2>4. ASSUME NEW h \in Ids, GameServerAssignPlayerController(h)
        PROVE  DepartedClients' /\ DeferredAreOwn'
    BY <2>4, AssignConnectingInv, ReassignNoPawnReassigns, ReassignGameReassigns,
       ReassignInv, AssignPendingCloseInv DEF GameServerAssignPlayerController
  <2>5. QED BY <2>1, <2>2, <2>3, <2>4, ShutdownInv, OthersInv DEF Next
<1>3. QED BY <1>1, <1>2 DEF RouteInv

THEOREM RouteInvariant == Spec => []RouteInv
<1>1. Init => RouteInv BY InitType, InitRouteInv DEF RouteInv
<1>2. RouteInv /\ [Next]_vars => RouteInv' BY NextRouteInv
<1>3. QED BY <1>1, <1>2, PTL DEF Spec

\* Of a client that has left no primary game server connection is known, no reassignment is
\* deferred, and its routes await their handshake; only clients that have left have such
\* routes (HandleClosedProxyConnection).
THEOREM DepartedClientsStayGone == Spec => []DepartedClients
<1>1. RouteInv => DepartedClients BY DEF RouteInv
<1>2. QED BY <1>1, RouteInvariant, PTL

\* The handshake ids kept by DeferredReassignment never come to name a route of another
\* client, although the routes they named may have been removed in the meantime.
THEOREM DeferredStayOwn == Spec => []DeferredAreOwn
<1>1. RouteInv => DeferredAreOwn BY DEF RouteInv
<1>2. QED BY <1>1, RouteInvariant, PTL

-----------------------------------------------------------------------------
(* A route of a departed client stays as it is until it disappears.        *)

Final == \A h \in Live : routes[h].state = "PendingClose" /\ h \in Live' =>
                             routes'[h] = routes[h]

LEMMA JoinFinal ==
  ASSUME TypeOK, NEW c \in Clients, Join(c)
  PROVE  Final
<1>1. \A h \in Live : routes'[h] = routes[h]
  BY DEF Join, ConnectToGameServer
<1>2. QED BY <1>1 DEF Final

LEMMA RegisterAndConnectFinal ==
  ASSUME TypeOK, NEW s \in Servers, RegisterGameServerAndConnectClients(s)
  PROVE  Final
<1>1. \A h \in Live : routes'[h] = routes[h]
  BY DEF RegisterGameServerAndConnectClients, ConnectToGameServer
<1>2. QED BY <1>1 DEF Final

LEMMA AssignConnectingFinal ==
  ASSUME TypeOK, NEW h \in Ids, AssignConnecting(h) \/ AssignConnectingPrimary(h)
  PROVE  Final
<1>1. \A g \in Live \ {h} : routes'[g] = routes[g]
  BY DEF AssignConnecting, AssignConnectingPrimary, TypeOK
<1>2. routes[h].state # "PendingClose" BY DEF AssignConnecting, AssignConnectingPrimary
<1>3. QED BY <1>1, <1>2 DEF Final

\* The ends of a reassignment are routes of a client that has not left.
LEMMA ReassignFinal ==
  ASSUME RouteInv, NEW h \in Live, NEW rs, NEW prev, NEW game, NEW d,
         Reassigns(h, rs, prev, game, d)
  PROVE  Final
<1> DEFINE c == routes[h].client
<1>1. /\ rs \in [Live -> Route]
      /\ \A g \in Live \ {h} : rs[g] = routes[g]
      /\ {prev, game} \subseteq {h, deferred[c].prev, deferred[c].game} \ {NoId}
      /\ routes' = Finalized(rs, prev, game) \/ routes' = Awaiting(rs, h)
      /\ routes[h].state # "PendingClose"
  BY DEF Reassigns, Established
<1>2. c \in Clients BY DEF RouteInv, TypeOK, Route
<1>3. \A g \in {h, prev, game} \cap Live : routes[g].client = c
  BY <1>1, <1>2 DEF RouteInv, DeferredAreOwn
<1>4. client[c] # "closed" BY <1>1 DEF RouteInv, DepartedClients
<1>5. \A g \in {h, prev, game} \cap Live : routes[g].state # "PendingClose"
  BY <1>3, <1>4 DEF RouteInv, DepartedClients
<1>6. \A g \in Live \ {h, prev, game} : routes'[g] = routes[g]
  <2>1. CASE routes' = Finalized(rs, prev, game)
    <3>1. \A g \in Live : g \notin {prev, game} => routes'[g] = rs[g]
      BY <1>1, <2>1, FinalizedType
    <3>2. QED BY <1>1, <3>1
  <2>2. CASE routes' = Awaiting(rs, h)
    <3>1. \A g \in Live \ {h} : routes'[g] = rs[g] BY <1>1, <2>2, AwaitingType
    <3>2. QED BY <1>1, <3>1
  <2>3. QED BY <1>1, <2>1, <2>2
<1>7. QED BY <1>5, <1>6 DEF Final

LEMMA RestrictFinal ==
  ASSUME NEW gone, routes' = Restrict(routes, Live \ gone)
  PROVE  Final
BY DEF Final, Live, Restrict

LEMMA RemoveFinal ==
  ASSUME NEW gone, RemoveGameServers(gone)
  PROVE  Final
<1> DEFINE closed == {h \in Live : routes[h].server \in gone}
<1>1. routes' = Restrict(routes, Live \ closed) BY DEF RemoveGameServers
<1> HIDE DEF closed
<1>2. QED BY <1>1, RestrictFinal

LEMMA HandleClosedFinal ==
  ASSUME RouteInv, NEW c \in Clients, HandleClosedProxyConnection(c)
  PROVE  Final
<1>1. client[c] # "closed" BY DEF HandleClosedProxyConnection
<1>2. \A h \in Live : routes[h].client = c => routes[h].state # "PendingClose"
  BY <1>1 DEF RouteInv, DepartedClients
<1>3. \A h \in Live' : routes[h].client # c => routes'[h] = routes[h]
  BY DEF HandleClosedProxyConnection, Live
<1>4. QED BY <1>2, <1>3 DEF Final

LEMMA ShutdownFinal ==
  ASSUME RouteInv, Shutdown
  PROVE  Final
BY ShutdownRoutes DEF RouteInv, Final

LEMMA NextFinal ==
  ASSUME RouteInv, [Next]_vars
  PROVE  Final
<1>1. TypeOK BY DEF RouteInv
<1>2. ASSUME UNCHANGED routes PROVE Final BY <1>2 DEF Final
<1>3. ASSUME NEW c \in Clients, Accept(c) \/ JoinDividesByZero(c) PROVE Final
  BY <1>2, <1>3 DEF Accept, JoinDividesByZero
<1>4. ASSUME NEW s \in Servers,
             \/ ParentSearchFaults(s) \/ ParentConnected(s)
             \/ RegisterGameServer(s) \/ ParentLost(s)
      PROVE  Final
  BY <1>2, <1>4 DEF ParentSearchFaults, ParentConnected, RegisterGameServer, ParentLost
<1>5. ASSUME NEW c \in Clients, NEW h \in Ids, Migrate(c, h) PROVE Final
  BY <1>2, <1>5 DEF Migrate
<1>6. ASSUME UNCHANGED vars \/ ShutdownFaults \/ \E h \in Ids : CloseChildConnection(h)
      PROVE  Final
  BY <1>2, <1>6 DEF vars, ShutdownFaults, CloseChildConnection
<1>7. ASSUME NEW h \in Ids, GameServerAssignPlayerController(h) PROVE Final
  <2>1. ASSUME AssignPendingClose(h) PROVE Final
    BY <2>1, RestrictFinal DEF AssignPendingClose
  <2>2. QED
    BY <1>1, <1>7, <2>1, AssignConnectingFinal, ReassignNoPawnReassigns,
       ReassignGameReassigns, ReassignFinal DEF GameServerAssignPlayerController
<1>8. ASSUME NEW s \in Servers, UnregisterGameServer(s) PROVE Final
  BY <1>8, RemoveFinal DEF UnregisterGameServer
<1>9. ASSUME DetectGameServerDisconnections PROVE Final
  BY <1>9, RemoveFinal DEF DetectGameServerDisconnections
<1>10. QED
  BY <1>1, <1>3, <1>4, <1>5, <1>6, <1>7, <1>8, <1>9, JoinFinal, HandleClosedFinal,
     RegisterAndConnectFinal, ShutdownFinal DEF Next

\* A route of a departed client is never used again, it can only disappear
\* (ProcessConnectionState_PendingClose): no late player controller and no reassignment
\* that was deferred before the client left writes it.
THEOREM ClosingRoutesAreFinal == Spec => PendingCloseIsFinal
<1>1. RouteInv /\ [Next]_vars =>
        [\A h \in Live : routes[h].state = "PendingClose" /\ h \in Live' =>
              routes'[h] = routes[h]]_vars
  BY NextFinal DEF Final
<1>2. QED BY <1>1, RouteInvariant, PTL DEF Spec, PendingCloseIsFinal

-----------------------------------------------------------------------------
(* Players of departed clients.  They stay in the map of primary players,  *)
(* so the invariant says what keeps them harmless: a primary player has    *)
(* had its handshake, and only routes without one outlive their client.    *)

PlayersInv ==
    \A h \in primaryPlayers : h < nextId /\ (h \in Live => routes[h].state \in Established)

LEMMA NextIdType ==
  ASSUME RouteInv
  PROVE  nextId \in Int
<1>1. nextId \in 1 .. MaxIds + 1 BY DEF RouteInv, TypeOK
<1>2. MaxIds \in Nat BY ConstantsAssumption DEF ConstantsAssumption
<1>3. QED BY <1>1, <1>2

\* FinalizePlayerControllerReassignment writes states of finished handshakes only.
LEMMA FinalizedEstablished ==
  ASSUME NEW S, NEW rs \in [S -> Route], NEW prev, NEW game, NEW h \in S,
         rs[h].state \in Established
  PROVE  Finalized(rs, prev, game)[h].state \in Established
<1> DEFINE st == CASE h = game -> "ConnectedPrimary"
                   [] h = prev /\ h # game -> "Connected"
                   [] OTHER -> rs[h].state
<1>1. Finalized(rs, prev, game)[h] = [rs[h] EXCEPT !.state = st] BY DEF Finalized
<1>2. st \in Established
  <2>1. CASE h = game BY <2>1 DEF Established
  <2>2. CASE h = prev /\ h # game BY <2>2 DEF Established
  <2>3. CASE h # prev /\ h # game BY <2>3
  <2>4. QED BY <2>1, <2>2, <2>3
<1>3. Established \subseteq RouteState BY DEF Established, RouteState
<1> HIDE DEF st
<1>4. QED BY <1>1, <1>2, <1>3, StateChange

\* New players are those of routes with a finished handshake.
LEMMA KeptPlayers ==
  ASSUME TypeOK, TypeOK', PlayersInv, DeferredAreOwn, nextId' >= nextId,
         \A h \in Live' : h \notin Live => nextId <= h,
         \A h \in Live' : h \in Live /\ routes[h].state \in Established =>
                            routes'[h].state \in Established,
         NEW added \in SUBSET Live, primaryPlayers' \subseteq primaryPlayers \cup added,
         \A h \in added \cap Live' : routes'[h].state \in Established
  PROVE  PlayersInv'
<1>1. nextId \in Int /\ nextId' \in Int /\ \A h \in Ids : h \in Int
  <2>1. nextId \in 1 .. MaxIds + 1 /\ nextId' \in 1 .. MaxIds + 1 BY DEF TypeOK
  <2>2. MaxIds \in Nat BY ConstantsAssumption DEF ConstantsAssumption
  <2>3. QED BY <2>1, <2>2 DEF Ids
<1>2. \A h \in Live : h \in Ids /\ h < nextId BY DEF TypeOK, DeferredAreOwn
<1>3. \A h \in primaryPlayers : h \in Ids /\ h < nextId BY DEF TypeOK, PlayersInv
<1>4. ASSUME NEW h \in primaryPlayers'
      PROVE  h < nextId' /\ (h \in Live' => routes'[h].state \in Established)
  <2>1. h \in Ids /\ h < nextId BY <1>2, <1>3
  <2>2. h \in Live' => h \in Live BY <1>1, <2>1
  <2>3. QED BY <1>1, <2>1, <2>2 DEF PlayersInv
<1>5. QED BY <1>4 DEF PlayersInv

LEMMA ConnectPlayers ==
  ASSUME TypeOK, TypeOK', PlayersInv, DeferredAreOwn, UNCHANGED primaryPlayers,
         NEW reqs \in Seq(Request), NEW conns, ConnectToGameServer(conns, reqs)
  PROVE  PlayersInv'
<1>1. /\ nextId' >= nextId /\ \A h \in Live : routes'[h] = routes[h]
      /\ \A h \in Live' \ Live : nextId <= h
  BY ConnectAdds
<1>2. {} \in SUBSET Live OBVIOUS
<1>3. QED BY <1>1, <1>2, KeptPlayers

LEMMA JoinPlayers ==
  ASSUME RouteInv, TypeOK', PlayersInv, NEW c \in Clients, Join(c)
  PROVE  PlayersInv'
<1>1. PICK p \in PrimaryChoices :
         ConnectToGameServer(parent, [i \in 1 .. Len(gameServers) |->
               [client |-> c, server |-> gameServers[i], primary |-> i - 1 = p]])
  BY DEF Join
<1>2. [i \in 1 .. Len(gameServers) |->
          [client |-> c, server |-> gameServers[i], primary |-> i - 1 = p]] \in Seq(Request)
  <2>1. gameServers \in Seq(Servers) BY DEF RouteInv, TypeOK
  <2>2. \A i \in 1 .. Len(gameServers) :
          [client |-> c, server |-> gameServers[i], primary |-> i - 1 = p] \in Request
    BY <2>1 DEF Request
  <2>3. Len(gameServers) \in Nat BY <2>1
  <2>4. QED BY <2>2, <2>3
<1>3. UNCHANGED primaryPlayers BY DEF Join, primVars
<1>4. QED BY <1>1, <1>2, <1>3, ConnectPlayers DEF RouteInv

LEMMA RegisterAndConnectPlayers ==
  ASSUME RouteInv, TypeOK', PlayersInv, NEW s \in Servers,
         RegisterGameServerAndConnectClients(s)
  PROVE  PlayersInv'
<1>1. PICK order \in {f \in [1 .. Cardinality(OpenConnections) -> OpenConnections] :
                        IsInjective(f)} :
        ConnectToGameServer([parent EXCEPT ![s] = "none"],
             [i \in DOMAIN order |->
                 [client |-> order[i], server |-> s, primary |-> FALSE]])
  BY DEF RegisterGameServerAndConnectClients
<1> DEFINE reqs == [i \in DOMAIN order |->
                      [client |-> order[i], server |-> s, primary |-> FALSE]]
<1>2. /\ open \subseteq Clients /\ IsFiniteSet(Clients)
      /\ order \in [1 .. Cardinality(open) -> open]
  BY ConstantsAssumption DEF RouteInv, TypeOK, OpenConnections, ConstantsAssumption
<1>3. DOMAIN order = 1 .. Cardinality(open) /\ Cardinality(open) \in Nat
  BY <1>2, ArrayType
<1>4. reqs \in Seq(Request)
  <2>1. \A i \in DOMAIN order :
           [client |-> order[i], server |-> s, primary |-> FALSE] \in Request
    BY <1>2, <1>3 DEF Request
  <2>2. reqs \in [1 .. Cardinality(open) -> Request] BY <1>3, <2>1
  <2> HIDE DEF reqs
  <2>3. QED BY <1>3, <2>2
<1>5. ConnectToGameServer([parent EXCEPT ![s] = "none"], reqs) BY <1>1
<1>6. UNCHANGED primaryPlayers BY DEF RegisterGameServerAndConnectClients, primVars
<1> HIDE DEF reqs
<1>7. QED BY <1>4, <1>5, <1>6, ConnectPlayers DEF RouteInv

LEMMA AssignConnectingPlayers ==
  ASSUME RouteInv, TypeOK', PlayersInv, NEW h \in Ids,
         AssignConnecting(h) \/ AssignConnectingPrimary(h)
  PROVE  PlayersInv'
<1>1. PICK pc \in PC, st \in {"Connected", "ConnectedPrimary"} :
        /\ h \in Live
        /\ routes' = [routes EXCEPT ![h].state = st, ![h].conn = TRUE, ![h].pc = pc]
  BY DEF AssignConnecting, AssignConnectingPrimary, Received
<1>2. /\ primaryPlayers' \subseteq primaryPlayers \cup {h} /\ nextId' = nextId
      /\ {h} \in SUBSET Live
  <2>1. nextId' = nextId BY DEF AssignConnecting, AssignConnectingPrimary, joinVars
  <2>2. AssignConnecting(h) => primaryPlayers' = primaryPlayers
    BY DEF AssignConnecting, primVars
  <2>3. AssignConnectingPrimary(h) => primaryPlayers' = primaryPlayers \cup {h}
    BY DEF AssignConnectingPrimary
  <2>4. QED BY <1>1, <2>1, <2>2, <2>3
<1>3. routes \in [Live -> Route] /\ nextId' >= nextId /\ TypeOK /\ DeferredAreOwn
  <2>1. TypeOK /\ DeferredAreOwn BY DEF RouteInv
  <2>2. routes \in [Live -> Route] BY <2>1 DEF TypeOK
  <2>3. nextId' >= nextId BY <1>2, NextIdType
  <2>4. QED BY <2>1, <2>2, <2>3
<1>4. Live' = Live BY <1>1, <1>3 DEF Live
<1>5. routes'[h].state = st /\ \A g \in Live \ {h} : routes'[g] = routes[g]
  BY <1>1, <1>3 DEF Route
<1>6. st \in Established BY DEF Established
<1>7. QED BY <1>2, <1>3, <1>4, <1>5, <1>6, KeptPlayers

LEMMA ReassignPlayers ==
  ASSUME RouteInv, TypeOK', PlayersInv, NEW h \in Live,
         NEW rs, NEW prev, NEW game, NEW d, Reassigns(h, rs, prev, game, d),
         primaryPlayers' \subseteq primaryPlayers \cup {h}
  PROVE  PlayersInv'
<1>1. /\ routes[h].state \in Established /\ rs \in [Live -> Route]
      /\ \A g \in Live : rs[g].state = routes[g].state
      /\ routes' = Finalized(rs, prev, game) \/ routes' = Awaiting(rs, h)
      /\ nextId' = nextId
  BY DEF Reassigns
<1>2. nextId' >= nextId /\ TypeOK /\ DeferredAreOwn BY <1>1, NextIdType DEF RouteInv
<1>3. Live' = Live
      /\ \A g \in Live : routes[g].state \in Established => routes'[g].state \in Established
  <2>1. CASE routes' = Finalized(rs, prev, game)
    <3>1. Live' = Live BY <1>1, <2>1, FinalizedType DEF Live
    <3>2. QED BY <1>1, <2>1, <3>1, FinalizedEstablished
  <2>2. CASE routes' = Awaiting(rs, h)
    <3>1. /\ DOMAIN routes' = Live /\ \A g \in Live \ {h} : routes'[g] = rs[g]
          /\ routes'[h].state = "PendingReassign"
      BY <1>1, <2>2, AwaitingType
    <3>2. Live' = Live BY <3>1 DEF Live
    <3>3. QED BY <1>1, <3>1, <3>2 DEF Established
  <2>3. QED BY <1>1, <2>1, <2>2
<1>4. {h} \in SUBSET Live OBVIOUS
<1>5. QED BY <1>1, <1>2, <1>3, <1>4, KeptPlayers

\* Routes that go, and those that are left to close, had a primary player or not; those
\* that stay as they were keep it.
LEMMA FewerPlayers ==
  ASSUME RouteInv, TypeOK', PlayersInv, Live' \subseteq Live,
         \A h \in Live' : routes'[h] = routes[h] \/ routes[h].state \notin Established,
         UNCHANGED <<nextId, primaryPlayers>>
  PROVE  PlayersInv'
<1>1. {} \in SUBSET Live /\ nextId' >= nextId /\ TypeOK /\ DeferredAreOwn
  BY NextIdType DEF RouteInv
<1>2. (Live' \ Live) = {} OBVIOUS
<1>3. QED BY <1>1, <1>2, KeptPlayers

LEMMA LeavingPlayers ==
  ASSUME RouteInv, TypeOK', PlayersInv,
         Shutdown \/ \E c \in Clients : HandleClosedProxyConnection(c)
  PROVE  PlayersInv'
<1>1. RouteState = Established \cup StillConnecting \cup {"PendingClose"}
  BY DEF RouteState, Established, StillConnecting
<1>2. \A h \in Live : routes[h].state \in RouteState BY DEF RouteInv, TypeOK, Route
<1>3. UNCHANGED <<nextId, primaryPlayers>>
  BY DEF Shutdown, HandleClosedProxyConnection, joinVars
<1>4. CASE Shutdown
  <2>1. /\ Live' \subseteq Live
        /\ \A h \in Live' : routes[h].state \in StillConnecting \cup {"PendingClose"}
    BY <1>4 DEF Shutdown, Live
  <2>2. \A h \in Live' : routes[h].state \notin Established
    BY <2>1 DEF StillConnecting, Established
  <2>3. QED BY <1>3, <2>1, <2>2, FewerPlayers
<1>5. ASSUME NEW c \in Clients, HandleClosedProxyConnection(c) PROVE PlayersInv'
  <2>1. /\ Live' \subseteq Live
        /\ \A h \in Live' : routes'[h] = routes[h] \/ routes[h].state \in StillConnecting
    BY <1>5 DEF HandleClosedProxyConnection, Live, RoutesOf
  <2>2. \A h \in Live' : routes'[h] = routes[h] \/ routes[h].state \notin Established
    BY <2>1 DEF StillConnecting, Established
  <2>3. QED BY <1>3, <2>1, <2>2, FewerPlayers
<1>6. QED BY <1>4, <1>5

LEMMA OtherPlayers ==
  ASSUME RouteInv, TypeOK', PlayersInv,
         \/ \E c \in Clients : Accept(c) \/ JoinDividesByZero(c)
         \/ \E s \in Servers : \/ ParentSearchFaults(s)
                               \/ ParentConnected(s)
                               \/ RegisterGameServer(s)
                               \/ ParentLost(s)
                               \/ UnregisterGameServer(s)
         \/ \E h \in Ids : CloseChildConnection(h) \/ AssignPendingClose(h)
         \/ \E c \in Clients, h \in Ids : Migrate(c, h)
         \/ DetectGameServerDisconnections
         \/ ShutdownFaults
         \/ UNCHANGED vars
  PROVE  PlayersInv'
<1>1. UNCHANGED <<nextId, primaryPlayers>>
  BY DEF Accept, JoinDividesByZero, ParentSearchFaults, ParentConnected, RegisterGameServer,
         ParentLost, CloseChildConnection, Migrate, ShutdownFaults, joinVars, primVars, vars,
         UnregisterGameServer, AssignPendingClose, DetectGameServerDisconnections
<1>2. routes' = routes \/ \E gone : routes' = Restrict(routes, Live \ gone)
  BY DEF Accept, JoinDividesByZero, ParentSearchFaults, ParentConnected, RegisterGameServer,
         ParentLost, CloseChildConnection, Migrate, ShutdownFaults, vars,
         UnregisterGameServer, AssignPendingClose, DetectGameServerDisconnections,
         RemoveGameServers
<1>3. Live' \subseteq Live /\ \A h \in Live' : routes'[h] = routes[h]
  BY <1>2 DEF Live, Restrict
<1>4. QED BY <1>1, <1>3, FewerPlayers

LEMMA NextPlayers ==
  ASSUME RouteInv, PlayersInv, [Next]_vars
  PROVE  PlayersInv'
<1>1. TypeOK' BY NextType DEF RouteInv
<1>2. ASSUME NEW h \in Ids, ReassignNoPawn(h) \/ ReassignGame(h) PROVE PlayersInv'
  <2>1. primaryPlayers' \subseteq primaryPlayers \cup {h}
    BY <1>2 DEF ReassignNoPawn, ReassignGame
  <2>2. QED
    BY <1>1, <1>2, <2>1, ReassignNoPawnReassigns, ReassignGameReassigns, ReassignPlayers
<1>3. QED
  BY <1>1, <1>2, JoinPlayers, RegisterAndConnectPlayers, AssignConnectingPlayers,
     LeavingPlayers, OtherPlayers DEF Next, GameServerAssignPlayerController

\* The map of primary players keeps those of departed clients, but none of them leads to a
\* route, so nothing is forwarded to a connection that was closed
\* (GetProxyConnectionFromPrimaryPlayer).
THEOREM DepartedPlayersAreHarmless == Spec => []StalePlayersHaveNoRoute
<1>1. Init => PlayersInv BY DEF Init, PlayersInv
<1>2. RouteInv /\ PlayersInv /\ [Next]_vars => PlayersInv' BY NextPlayers
<1>3. RouteInv /\ PlayersInv => StalePlayersHaveNoRoute
  BY DEF RouteInv, DepartedClients, PlayersInv, StalePlayersHaveNoRoute, Established
<1>4. QED BY <1>1, <1>2, <1>3, RouteInvariant, PTL DEF Spec

-----------------------------------------------------------------------------
(* The primary game server of the next client.                             *)

LEMMA RemoveIndex ==
  ASSUME TypeOK, PrimaryIndexInRange, Running,
         NEW gone \in SUBSET Servers, RemoveGameServers(gone)
  PROVE  PrimaryIndexInRange'
<1> DEFINE kept == Range(gameServers) \ gone
<1>1. PICK rest \in [1 .. Cardinality(kept) -> kept] : gameServers' = rest
  BY DEF RemoveGameServers
<1>2. IsFiniteSet(Servers) /\ kept \subseteq Servers
  <2>1. gameServers \in Seq(Servers) BY DEF TypeOK
  <2>2. QED BY <2>1, ConstantsAssumption DEF ConstantsAssumption, Range
<1>3. nextPrimary' = Clamped(Cardinality(kept)) BY DEF RemoveGameServers
<1>4. nextPrimary \in Nat BY DEF TypeOK
<1> HIDE DEF kept
<1>5. Len(gameServers') = Cardinality(kept) /\ Cardinality(kept) \in Nat
  BY <1>1, <1>2, ArrayType
<1>6. nextPrimary' = 0 \/ nextPrimary' < Len(gameServers') BY <1>3, <1>4, <1>5 DEF Clamped
<1>7. QED BY <1>6 DEF PrimaryIndexInRange

LEMMA NextIndex ==
  ASSUME TypeOK, PrimaryIndexInRange, [Next]_vars
  PROVE  PrimaryIndexInRange'
<1>1. gameServers \in Seq(Servers) /\ nextPrimary \in Nat BY DEF TypeOK
<1>2. Len(gameServers) \in Nat /\ (gameServers # <<>> => Len(gameServers) > 0) BY <1>1
<1>3. ASSUME NEW c \in Clients, Join(c) PROVE PrimaryIndexInRange'
  <2>1. Running /\ gameServers' = gameServers /\ ~(CyclePrimary /\ gameServers = <<>>)
    BY <1>3 DEF Join
  <2>2. PICK p \in PrimaryChoices :
          nextPrimary' = IF CyclePrimary THEN (p + 1) % Len(gameServers) ELSE p
    BY <1>3 DEF Join
  <2>3. p \in Nat /\ (p \in {0, FirstPrimary} \/ p < Len(gameServers))
    BY <1>1, <1>2, <2>1 DEF PrimaryChoices, PrimaryIndexInRange
  <2>4. CyclePrimary => (p + 1) % Len(gameServers) < Len(gameServers)
    <3>1. SUFFICES ASSUME CyclePrimary PROVE (p + 1) % Len(gameServers) < Len(gameServers)
      OBVIOUS
    <3>2. Len(gameServers) \in Nat /\ Len(gameServers) > 0 /\ p + 1 \in Nat
      BY <1>2, <2>1, <2>3, <3>1
    <3>3. QED BY <3>2
  <2>5. QED BY <2>1, <2>2, <2>3, <2>4 DEF PrimaryIndexInRange
<1>4. ASSUME NEW s \in Servers,
             RegisterGameServer(s) \/ RegisterGameServerAndConnectClients(s)
      PROVE  PrimaryIndexInRange'
  <2>1. /\ Running /\ gameServers' = Append(gameServers, s)
        /\ nextPrimary' = nextPrimary
    BY <1>4 DEF RegisterGameServer, RegisterGameServerAndConnectClients, joinVars
  <2>2. Len(gameServers') = Len(gameServers) + 1 BY <1>1, <2>1
  <2>3. QED BY <1>1, <1>2, <2>1, <2>2 DEF PrimaryIndexInRange
<1>5. ASSUME NEW s \in Servers, UnregisterGameServer(s) PROVE PrimaryIndexInRange'
  BY <1>5, RemoveIndex DEF UnregisterGameServer
<1>6. ASSUME DetectGameServerDisconnections PROVE PrimaryIndexInRange'
  <2>1. LostServers \in SUBSET Servers BY <1>1 DEF LostServers, Range
  <2>2. QED BY <1>6, <2>1, RemoveIndex DEF DetectGameServerDisconnections
<1>7. ASSUME Shutdown PROVE PrimaryIndexInRange'
  BY <1>7 DEF Shutdown, PrimaryIndexInRange, Running
<1>8. ASSUME UNCHANGED <<gameServers, nextPrimary>>, Running' => Running
      PROVE  PrimaryIndexInRange'
  BY <1>8 DEF PrimaryIndexInRange
<1>9. ASSUME \/ \E c \in Clients : \/ Accept(c)
                                   \/ JoinDividesByZero(c)
                                   \/ HandleClosedProxyConnection(c)
             \/ \E s \in Servers : \/ ParentSearchFaults(s)
                                   \/ ParentConnected(s)
                                   \/ ParentLost(s)
             \/ \E h \in Ids : GameServerAssignPlayerController(h) \/ CloseChildConnection(h)
             \/ \E c \in Clients, h \in Ids : Migrate(c, h)
             \/ ShutdownFaults
             \/ UNCHANGED vars
      PROVE  PrimaryIndexInRange'
  <2>1. UNCHANGED <<gameServers, nextPrimary>> /\ (Running' => Running)
    BY <1>9 DEF Accept, JoinDividesByZero, HandleClosedProxyConnection, ParentSearchFaults,
         ParentConnected, ParentLost, CloseChildConnection, Migrate, ShutdownFaults,
         GameServerAssignPlayerController, AssignConnecting, AssignConnectingPrimary,
         ReassignNoPawn, ReassignGame, AssignPendingClose, Received, serverVars, joinVars,
         vars, Running
  <2>2. QED BY <1>8, <2>1
<1>10. QED BY <1>3, <1>4, <1>5, <1>6, <1>7, <1>9 DEF Next

\* The index of the next client's primary game server is never beyond the array, unless it
\* is still the one of the command line, whatever registers and goes (UnregisterGameServer).
THEOREM PrimaryIndexStaysInRange == Spec => []PrimaryIndexInRange
<1>1. Init => PrimaryIndexInRange BY DEF Init, PrimaryIndexInRange
<1>2. TypeOK /\ PrimaryIndexInRange /\ [Next]_vars => PrimaryIndexInRange' BY NextIndex
<1>3. QED BY <1>1, <1>2, TypeCorrect, PTL DEF Spec
=============================================================================
