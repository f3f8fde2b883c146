------------------------ MODULE ProxyHandOverProofs ------------------------
(***************************************************************************)
(* The hand-over of a client from game server to game server, for any      *)
(* number of clients, game servers, joins, registrations and migrations,   *)
(* as long as a player controller does not leave a server before the proxy *)
(* has seen it arrive there.                                               *)
(*                                                                         *)
(* Until a game server is lost, HandOverInv says that a client is always   *)
(* in one of five phases.  A migration leads from Playing to Announced;    *)
(* then the player controllers of the two ends arrive in either order,     *)
(* which is OldFirst or NewFirst, and the second leads back to Playing.    *)
(* With losses FollowInv, in the last part, follows the pawn alone.        *)
(***************************************************************************)
EXTENDS ProxyHandshakeProofs

USE DEF NoId, gameVars

\* The environments in which a hand-over is finished before the next one begins, and those
\* in which moreover nothing is lost.
Ordered == Env \cap {"early", "overlap", "loss"} = {}
Calm    == Env \subseteq {"acceptOpen", "register", "registerOnly"}

\* Route g takes no part in the game of its client.
Bystander(g) ==
    /\ g \notin primaryPlayers
    /\ \/ routes[g].state = "Connecting" /\ pcs[g] \in {<<>>, <<"noPawn">>}
       \/ routes[g].state = "Connected" /\ pcs[g] = <<>>

\* Route g is to become the primary one of client c, who is joining.
Candidate(c, g) ==
    /\ client[c] = "joined"
    /\ g \notin primaryPlayers
    /\ routes[g].state = "ConnectingPrimary"
    /\ \/ pcs[g] = <<>> /\ home[c] = NoId
       \/ pcs[g] = <<"game">> /\ home[c] = g

Entering(c) ==
    /\ primaryOf[c] = NoId
    /\ deferred[c] = NoReassignment
    /\ \A g \in RoutesOf(c) : Bystander(g) \/ Candidate(c, g)
    /\ \A g, h \in RoutesOf(c) : Candidate(c, g) /\ Candidate(c, h) => g = h
    /\ home[c] # NoId => home[c] \in RoutesOf(c) /\ Candidate(c, home[c])

\* Route h is the primary one of client c, as far as the proxy knows.
Primary(c, h) ==
    /\ h \in RoutesOf(c)
    /\ h \in primaryPlayers
    /\ routes[h].state = "ConnectedPrimary"
    /\ primaryOf[c] = h

Playing(c) ==
    /\ client[c] = "joined"
    /\ Primary(c, home[c])
    /\ pcs[home[c]] = <<>>
    /\ deferred[c] = NoReassignment
    /\ \A g \in RoutesOf(c) \ {home[c]} : Bystander(g)

\* The pawn of client c moves from route f to its home.
Moving(c, f) ==
    /\ client[c] = "joined"
    /\ f \in RoutesOf(c) /\ f # home[c] /\ home[c] \in RoutesOf(c)
    /\ routes[f].server # routes[home[c]].server
    /\ f \in primaryPlayers
    /\ \A g \in RoutesOf(c) \ {f, home[c]} : Bystander(g)

\* Neither player controller has arrived.
Announced(c, f) ==
    /\ Moving(c, f) /\ Primary(c, f)
    /\ home[c] \notin primaryPlayers
    /\ routes[home[c]].state = "Connected"
    /\ pcs[f] = <<"noPawn">> /\ pcs[home[c]] = <<"game">>
    /\ deferred[c] = NoReassignment

\* The one that replaces the player controller on the old server has arrived.
OldFirst(c, f) ==
    /\ Moving(c, f)
    /\ primaryOf[c] = f /\ home[c] \notin primaryPlayers
    /\ routes[f].state = "PendingReassign" /\ routes[home[c]].state = "Connected"
    /\ pcs[f] = <<>> /\ pcs[home[c]] = <<"game">>
    /\ deferred[c] = [prev |-> f, game |-> NoId]

\* The player controller of the game has arrived from the new server.
NewFirst(c, f) ==
    /\ Moving(c, f)
    /\ primaryOf[c] = home[c] /\ home[c] \in primaryPlayers
    /\ routes[f].state = "ConnectedPrimary" /\ routes[home[c]].state = "PendingReassign"
    /\ pcs[f] = <<"noPawn">> /\ pcs[home[c]] = <<>>
    /\ deferred[c] = [prev |-> NoId, game |-> home[c]]

InPhase(c) ==
    \/ Entering(c)
    \/ Playing(c)
    \/ \E f \in Ids : Announced(c, f) \/ OldFirst(c, f) \/ NewFirst(c, f)

\* What is new in the tables has no past: ids above nextId are no primary players, and a
\* queued split join asks for the kind of player controller its route waits for.
NewIds == \A h \in primaryPlayers : h < nextId

QueuedKinds ==
    \A s \in Servers : \A r \in splitJoins[s] :
        /\ routes[r.id].state = "ConnectingPrimary" => r.pc = "game"
        /\ routes[r.id].state = "Connecting" => r.pc = "noPawn"

\* A route has a child when its handshake is over.
Children ==
    \A h \in Live : routes[h].state # "PendingClose" =>
        (routes[h].conn <=> routes[h].state \notin StillConnecting)

\* Nothing is lost, and who has left plays no part.
NothingLost ==
    /\ \A s \in Servers : parent[s] \in {"unregistered", "none", "pending", "open"}
    /\ closedChildren = {}

Phases ==
    \A c \in Clients :
        IF client[c] = "closed" THEN RoutesOf(c) \cap primaryPlayers = {} ELSE InPhase(c)

Orderly == NewIds /\ QueuedKinds /\ Children /\ NothingLost

HandOverInv == HandshakeInv /\ Orderly /\ Phases

\* What a step may do to a client: nothing, or one step along the phases.
Gone(c)   == client[c] = "closed"
SameServers(c) == \A g \in RoutesOf(c) : g \in Live' => routes'[g].server = routes[g].server

Stays(c) ==
    /\ ~Gone(c) /\ ~Gone(c)' /\ SameServers(c)
    /\ \/ Entering(c) /\ Entering(c)'
       \/ /\ home'[c] = home[c]
          /\ \/ Playing(c) /\ Playing(c)'
             \/ \E f \in Ids : \/ Announced(c, f) /\ Announced(c, f)'
                               \/ OldFirst(c, f) /\ OldFirst(c, f)'
                               \/ NewFirst(c, f) /\ NewFirst(c, f)'

StaysGone(c) == Gone(c) /\ Gone(c)' /\ RoutesOf(c)' \cap primaryPlayers' = {}

Still(c) == Stays(c) \/ StaysGone(c)

Leaves(c) == ~Gone(c) /\ Gone(c)' /\ RoutesOf(c)' \cap primaryPlayers' = {}

Turns(c) ==
    /\ ~Gone(c) /\ ~Gone(c)' /\ SameServers(c)
    /\ \/ Entering(c) /\ Playing(c)'
       \/ \E f \in Ids : /\ Playing(c) /\ home[c] = f
                         /\ Announced(c, f)'
       \/ /\ home'[c] = home[c]
          /\ \E f \in Ids : \/ Announced(c, f) /\ (OldFirst(c, f) \/ NewFirst(c, f))'
                            \/ (OldFirst(c, f) \/ NewFirst(c, f)) /\ Playing(c)'

OneTurn ==
    \/ \A c \in Clients : Still(c)
    \/ \E c \in Clients : /\ Leaves(c) \/ Turns(c)
                          /\ \A d \in Clients \ {c} : Still(d)

-----------------------------------------------------------------------------
(* Steps of a calm environment.                                            *)

\* The proxy ends, or nothing happens.
Halts == UNCHANGED <<serverVars, routes, joinVars, primVars, clientVars, envVars>>

\* What happens while nothing is lost.
LossFree ==
    \/ \E c \in Clients : Accept(c) \/ Join(c) \/ HandleClosedProxyConnection(c)
    \/ \E s \in Servers : \/ ParentConnected(s) \/ RegisterGameServer(s)
                          \/ RegisterGameServerAndConnectClients(s)
    \/ \E h \in Ids : GameServerAssignPlayerController(h)
    \/ \E c \in Clients, h \in Ids : Migrate(c, h)
    \/ Halts

LEMMA NothingToDetect ==
  ASSUME TypeOK, NothingLost
  PROVE  ~DetectGameServerDisconnections
<1>1. gameServers \in Seq(Servers) BY DEF TypeOK
<1>2. Range(gameServers) \subseteq Servers BY <1>1 DEF Range
<1>3. LostServers = {} BY <1>2 DEF LostServers, NothingLost
<1>4. QED BY <1>3 DEF DetectGameServerDisconnections

LEMMA CalmNext ==
  ASSUME Calm, TypeOK, NothingLost, [Next]_vars
  PROVE  LossFree
<1>1. /\ \A s \in Servers : ~UnregisterGameServer(s) /\ ~ParentLost(s)
      /\ \A h \in Ids : ~CloseChildConnection(h)
      /\ ~Shutdown /\ ~ShutdownFaults
  BY DEF Calm, UnregisterGameServer, ParentLost, CloseChildConnection, Shutdown, ShutdownFaults
<1>2. ~DetectGameServerDisconnections BY NothingToDetect
<1>3. ASSUME \/ \E c \in Clients : JoinDividesByZero(c)
             \/ \E s \in Servers : ParentSearchFaults(s)
             \/ UNCHANGED vars
      PROVE  Halts
  BY <1>3 DEF JoinDividesByZero, ParentSearchFaults, vars, Halts
<1>4. QED BY <1>1, <1>2, <1>3 DEF Next, LossFree

\* What the hand-over needs to know about the tables (HandOverInv contains HandshakeInv).
LEMMA Tables ==
  ASSUME HandOverInv \/ HandshakeInv
  PROVE  /\ TypeOK /\ RouteInv /\ HandshakeInv
         /\ routes \in [Live -> Route] /\ Live \subseteq Ids
         /\ \A h \in Live : /\ routes[h] \in Route
                            /\ routes[h].client \in Clients
                            /\ routes[h].server \in Servers
                            /\ h < nextId /\ h # NoId
         /\ pcs \in [Ids -> Seq(PC)]
         /\ home \in [Clients -> Ids \cup {NoId}]
         /\ primaryOf \in [Clients -> Ids \cup {NoId}]
         /\ deferred \in [Clients -> Deferred]
         /\ client \in [Clients -> {"offline", "accepted", "joined", "closed"}]
         /\ primaryPlayers \subseteq Ids
         /\ parent \in [Servers -> {"unregistered", "none", "pending", "open", "closed",
                                    "destroyed"}]
         /\ Running => Handshakes
         /\ nextId \in Int
<1>1. TypeOK /\ RouteInv /\ HandshakeInv BY DEF HandOverInv, HandshakeInv, RouteInv
<1>2. nextId \in Int
  <2>1. nextId \in 1 .. MaxIds + 1 /\ MaxIds \in Nat
    BY <1>1, ConstantsAssumption DEF TypeOK, ConstantsAssumption
  <2>2. QED BY <2>1
<1>3. \A h \in Live : h < nextId /\ h # NoId
  <2>1. Live \subseteq Ids BY <1>1 DEF TypeOK
  <2>2. \A h \in Live : h < nextId BY <1>1 DEF RouteInv, DeferredAreOwn
  <2>3. QED BY <2>1, <2>2 DEF Ids
<1>4. routes \in [Live -> Route] BY <1>1 DEF TypeOK
<1>5. \A h \in Live : /\ routes[h] \in Route /\ routes[h].client \in Clients
                      /\ routes[h].server \in Servers
  BY <1>4 DEF Route
<1>6. QED BY <1>1, <1>2, <1>3, <1>4, <1>5 DEF TypeOK, HandshakeInv

-----------------------------------------------------------------------------
(* Clients that a step does not concern.                                   *)

Same(g) == /\ routes'[g] = routes[g] /\ pcs'[g] = pcs[g]
           /\ g \in primaryPlayers' <=> g \in primaryPlayers

SameClient(c) ==
    /\ client'[c] = client[c] \/ (client[c] # "joined" /\ client'[c] # "closed")
    /\ primaryOf'[c] = primaryOf[c] /\ deferred'[c] = deferred[c] /\ home'[c] = home[c]

LEMMA Undisturbed ==
  ASSUME NEW c \in Clients, ~Gone(c), InPhase(c), SameClient(c),
         RoutesOf(c) \subseteq RoutesOf(c)',
         \A g \in RoutesOf(c) : /\ Same(g) \/ (Bystander(g) /\ Bystander(g)')
                                /\ routes'[g].server = routes[g].server,
         \A g \in RoutesOf(c)' \ RoutesOf(c) : Bystander(g)'
  PROVE  Stays(c)
<1>1. ~Gone(c)' /\ SameServers(c) BY DEF Gone, SameClient, SameServers
<1>2. \A g \in RoutesOf(c) : Same(g) => (Bystander(g)' <=> Bystander(g))
  BY DEF Same, Bystander
<1>3. \A g \in RoutesOf(c) : Bystander(g) => Bystander(g)' BY <1>2
<1>4. \A g \in RoutesOf(c)' \ RoutesOf(c) : Bystander(g)' OBVIOUS
<1>5. CASE Entering(c)
  <2>1. \A g \in RoutesOf(c)' : Candidate(c, g)' => g \in RoutesOf(c) /\ Same(g)
    <3>1. \A g : Candidate(c, g)' => ~Bystander(g)' BY DEF Candidate, Bystander
    <3>2. QED BY <1>4, <3>1
  <2>2. ASSUME NEW g \in RoutesOf(c), Candidate(c, g) PROVE Candidate(c, g)'
    <3>1. ~Bystander(g) BY <2>2 DEF Candidate, Bystander
    <3>2. Same(g) BY <3>1
    <3>3. client[c] = "joined" BY <2>2 DEF Candidate
    <3>4. QED BY <2>2, <3>2, <3>3 DEF Candidate, Same, SameClient
  <2>3. ASSUME NEW g \in RoutesOf(c), Candidate(c, g)' PROVE Candidate(c, g)
    <3>1. ~Bystander(g)' BY <2>3 DEF Candidate, Bystander
    <3>2. Same(g) BY <3>1
    <3>3. Bystander(g) \/ Candidate(c, g) BY <1>5 DEF Entering
    <3>4. QED BY <3>1, <3>2, <3>3, <1>3
  <2>4. \A g \in RoutesOf(c)' : Bystander(g)' \/ Candidate(c, g)'
    BY <1>3, <1>4, <1>5, <2>2 DEF Entering
  <2>5. \A g, h \in RoutesOf(c)' : Candidate(c, g)' /\ Candidate(c, h)' => g = h
    BY <1>5, <2>1, <2>3 DEF Entering
  <2>6. home'[c] # NoId => home'[c] \in RoutesOf(c)' /\ Candidate(c, home[c])'
    BY <1>5, <2>2 DEF Entering, SameClient
  <2>7. primaryOf'[c] = NoId /\ deferred'[c] = NoReassignment
    BY <1>5 DEF Entering, SameClient
  <2>8. Entering(c)'
    <3>1. home'[c] = home[c] BY DEF SameClient
    <3>2. QED BY <2>4, <2>5, <2>6, <2>7, <3>1 DEF Entering
  <2>9. QED BY <1>1, <1>5, <2>8 DEF Stays
<1>6. CASE Playing(c)
  <2>1. home[c] \in RoutesOf(c) /\ ~Bystander(home[c]) BY <1>6 DEF Playing, Primary, Bystander
  <2>2. Same(home[c]) BY <2>1
  <2>3. \A g \in RoutesOf(c)' \ {home[c]} : Bystander(g)' BY <1>3, <1>4, <1>6 DEF Playing
  <2>4. Playing(c)'
    BY <1>6, <2>1, <2>2, <2>3 DEF Playing, Primary, Same, SameClient
  <2>5. home'[c] = home[c] BY DEF SameClient
  <2>6. QED BY <1>1, <1>6, <2>4, <2>5 DEF Stays
<1>7. ASSUME NEW f \in Ids, Announced(c, f) \/ OldFirst(c, f) \/ NewFirst(c, f)
      PROVE  Stays(c)
  <2>1. Moving(c, f) BY <1>7 DEF Announced, OldFirst, NewFirst
  <2>2. ~Bystander(f) /\ ~Bystander(home[c])
    BY <1>7 DEF Announced, OldFirst, NewFirst, Moving, Bystander
  <2>3. Same(f) /\ Same(home[c]) BY <2>1, <2>2 DEF Moving
  <2>4. home'[c] = home[c] /\ client'[c] = "joined" BY <2>1 DEF Moving, SameClient
  <2>5. \A g \in RoutesOf(c)' \ {f, home[c]} : Bystander(g)' BY <1>3, <1>4, <2>1 DEF Moving
  <2>6. Moving(c, f)' BY <2>1, <2>3, <2>4, <2>5 DEF Moving, Same
  <2>7. CASE Announced(c, f)
    <3>1. Announced(c, f)'
      BY <2>3, <2>4, <2>6, <2>7 DEF Announced, Primary, Moving, Same, SameClient
    <3>2. QED BY <1>1, <2>4, <2>7, <3>1 DEF Stays
  <2>8. CASE OldFirst(c, f)
    <3>1. OldFirst(c, f)' BY <2>3, <2>4, <2>6, <2>8 DEF OldFirst, Same, SameClient
    <3>2. QED BY <1>1, <2>4, <2>8, <3>1 DEF Stays
  <2>9. CASE NewFirst(c, f)
    <3>1. NewFirst(c, f)' BY <2>3, <2>4, <2>6, <2>9 DEF NewFirst, Same, SameClient
    <3>2. QED BY <1>1, <2>4, <2>9, <3>1 DEF Stays
  <2>10. QED BY <1>7, <2>7, <2>8, <2>9
<1>8. QED BY <1>5, <1>6, <1>7 DEF InPhase

\* A client whose routes and tables a step leaves alone.
LEMMA OtherClient ==
  ASSUME HandOverInv, NEW d \in Clients, client'[d] = client[d],
         primaryOf'[d] = primaryOf[d], deferred'[d] = deferred[d], home'[d] = home[d],
         RoutesOf(d)' = RoutesOf(d), \A g \in RoutesOf(d) : Same(g)
  PROVE  Still(d)
<1>1. CASE Gone(d)
  <2>1. RoutesOf(d) \cap primaryPlayers = {} BY <1>1 DEF HandOverInv, Phases, Gone
  <2>2. Gone(d)' BY <1>1 DEF Gone
  <2>3. RoutesOf(d)' \cap primaryPlayers' = {} BY <2>1 DEF Same
  <2>4. QED BY <1>1, <2>2, <2>3 DEF Still, StaysGone
<1>2. CASE ~Gone(d)
  <2>1. InPhase(d) BY <1>2 DEF HandOverInv, Phases, Gone
  <2>2. \A g \in RoutesOf(d) : routes'[g].server = routes[g].server BY DEF Same
  <2>3. SameClient(d) BY DEF SameClient
  <2>4. Stays(d) BY <1>2, <2>1, <2>2, <2>3, Undisturbed
  <2>5. QED BY <2>4 DEF Still
<1>3. QED BY <1>1, <1>2

LEMMA SameTablesTurn ==
  ASSUME HandOverInv, UNCHANGED <<routes, primVars, pcs, home>>,
         \A c \in Clients : \/ client'[c] = client[c]
                            \/ client[c] = "offline" /\ client'[c] = "accepted"
  PROVE  OneTurn
<1>1. UNCHANGED <<primaryPlayers, primaryOf, deferred>> BY DEF primVars
<1>2. ASSUME NEW c \in Clients PROVE Still(c)
  <2>1. RoutesOf(c)' = RoutesOf(c) /\ \A g \in RoutesOf(c) : Same(g)
    BY <1>1 DEF RoutesOf, Live, Same
  <2>2. CASE client'[c] = client[c] BY <1>1, <2>1, <2>2, OtherClient
  <2>3. CASE client[c] = "offline" /\ client'[c] = "accepted"
    <3>1. ~Gone(c) /\ SameClient(c) BY <1>1, <2>3 DEF Gone, SameClient
    <3>2. InPhase(c) BY <3>1 DEF HandOverInv, Phases, Gone
    <3>3. \A g \in RoutesOf(c) : routes'[g].server = routes[g].server OBVIOUS
    <3>4. Stays(c) BY <2>1, <3>1, <3>2, <3>3, Undisturbed
    <3>5. QED BY <3>4 DEF Still
  <2>4. QED BY <2>2, <2>3
<1>3. QED BY <1>2 DEF OneTurn

-----------------------------------------------------------------------------
(* New routes.                                                             *)

\* New routes that are not to be primary ones are bystanders.
LEMMA NewBystanders ==
  ASSUME HandOverInv, Running, Connects, NEW d \in Clients,
         Live \subseteq Live', \A h \in Live : routes'[h] = routes[h],
         \A h \in Live' \ Live : h \in Ids /\ nextId <= h,
         \A h \in Live' \ Live : routes'[h].client = d => routes'[h].state = "Connecting",
         client'[d] = client[d], UNCHANGED primVars
  PROVE  Still(d)
<1>1. UNCHANGED <<primaryPlayers, primaryOf, deferred>> BY DEF primVars
<1>2. RoutesOf(d) \subseteq RoutesOf(d)' BY DEF RoutesOf, Live
<1>3. \A g \in RoutesOf(d)' \ RoutesOf(d) : g \in Live' \ Live /\ routes'[g].client = d
  BY DEF RoutesOf
<1>4. primaryPlayers \subseteq Ids /\ nextId \in Int BY Tables
<1>5. \A g \in Live' \ Live : g \notin primaryPlayers
  <2>1. \A h \in primaryPlayers : h < nextId BY DEF HandOverInv, Orderly, NewIds
  <2>2. QED BY <1>4, <2>1 DEF Ids
<1>6. home'[d] = home[d] BY DEF Connects
<1>7. \A g \in Live : pcs'[g] = pcs[g]
  <2>1. Live \subseteq Ids BY Tables
  <2>2. QED BY <2>1 DEF Connects
<1>8. \A g \in RoutesOf(d) : Same(g) BY <1>1, <1>7 DEF Same, RoutesOf
<1>9. ASSUME NEW g \in RoutesOf(d)' \ RoutesOf(d) PROVE Bystander(g)'
  <2>1. g \in Live' \ Live /\ routes'[g].state = "Connecting" BY <1>3
  <2>2. pcs'[g] \in {<<>>, <<"noPawn">>}
    <3>1. \A h \in Live' \ Live :
             \/ pcs'[h] = <<>>
             \/ pcs'[h] = <<IF routes'[h].state = "ConnectingPrimary"
                               THEN "game" ELSE "noPawn">>
      BY DEF Connects
    <3>2. QED BY <2>1, <3>1
  <2>3. g \notin primaryPlayers' BY <1>1, <1>5, <2>1
  <2>4. QED BY <2>1, <2>2, <2>3 DEF Bystander
<1>10. CASE Gone(d)
  <2>1. RoutesOf(d) \cap primaryPlayers = {} BY <1>10 DEF HandOverInv, Phases, Gone
  <2>2. RoutesOf(d)' \cap primaryPlayers' = {} BY <1>1, <1>3, <1>5, <2>1
  <2>3. QED BY <1>10, <2>2 DEF Still, StaysGone, Gone
<1>11. CASE ~Gone(d)
  <2>1. InPhase(d) /\ SameClient(d) BY <1>1, <1>6, <1>11 DEF HandOverInv, Phases, Gone, SameClient
  <2>2. \A g \in RoutesOf(d) : routes'[g].server = routes[g].server BY <1>8 DEF Same
  <2>3. Stays(d) BY <1>2, <1>8, <1>9, <1>11, <2>1, <2>2, Undisturbed
  <2>4. QED BY <2>3 DEF Still
<1>12. QED BY <1>10, <1>11

\* At most one request of a join is for a primary connection.
LEMMA ConnectPrimaries ==
  ASSUME TypeOK, NEW reqs \in Seq(Request), NEW conns, ConnectToGameServer(conns, reqs),
         \A i, j \in DOMAIN reqs : reqs[i].primary /\ reqs[j].primary => i = j
  PROVE  \A g, h \in Live' \ Live : /\ routes'[g].state = "ConnectingPrimary"
                                    /\ routes'[h].state = "ConnectingPrimary"
                                    => g = h
<1>1. /\ Live' = Live \cup {nextId + i - 1 : i \in DOMAIN reqs}
      /\ routes' = [h \in Live' |-> IF h \in Live THEN routes[h]
                                    ELSE NewRoute(reqs[h - nextId + 1])]
  BY DEF ConnectToGameServer, Live
<1>2. nextId \in Nat
  <2>1. nextId \in 1 .. MaxIds + 1 /\ MaxIds \in Nat
    BY ConstantsAssumption DEF TypeOK, ConstantsAssumption
  <2>2. QED BY <2>1
<1>3. DOMAIN reqs \subseteq Int OBVIOUS
<1>4. ASSUME NEW h \in Live' \ Live, routes'[h].state = "ConnectingPrimary"
      PROVE  \E i \in DOMAIN reqs : h = nextId + i - 1 /\ reqs[i].primary
  <2>1. PICK i \in DOMAIN reqs : h = nextId + i - 1 BY <1>1, <1>4
  <2>2. h - nextId + 1 = i BY <1>2, <1>3, <2>1
  <2>3. routes'[h] = NewRoute(reqs[i]) BY <1>1, <1>4, <2>2
  <2>4. QED BY <1>4, <2>1, <2>3 DEF NewRoute
<1>5. QED BY <1>4

\* A client joins: it gets at most one candidate.
LEMMA JoinEnters ==
  ASSUME HandOverInv, Running, Connects, NEW c \in Clients,
         Live \subseteq Live', \A h \in Live : routes'[h] = routes[h],
         \A h \in Live' \ Live : /\ h \in Ids /\ nextId <= h
                                 /\ routes'[h].state \in StillConnecting,
         \A g, h \in Live' \ Live : /\ routes'[g].state = "ConnectingPrimary"
                                    /\ routes'[h].state = "ConnectingPrimary"
                                    => g = h,
         client[c] = "accepted", client'[c] = "joined", UNCHANGED primVars
  PROVE  Still(c)
<1>1. UNCHANGED <<primaryPlayers, primaryOf, deferred>> BY DEF primVars
<1>2. RoutesOf(c) \subseteq RoutesOf(c)' BY DEF RoutesOf, Live
<1>3. \A g \in RoutesOf(c)' \ RoutesOf(c) : g \in Live' \ Live /\ routes'[g].client = c
  BY DEF RoutesOf
<1>4. primaryPlayers \subseteq Ids /\ nextId \in Int /\ Live \subseteq Ids BY Tables
<1>5. \A g \in Live' \ Live : g \notin primaryPlayers'
  <2>1. \A h \in primaryPlayers : h < nextId BY DEF HandOverInv, Orderly, NewIds
  <2>2. \A g \in Live' \ Live : g \in Int /\ nextId <= g BY DEF Ids
  <2>3. \A g \in Live' \ Live : g \notin primaryPlayers BY <1>4, <2>1, <2>2
  <2>4. QED BY <1>1, <2>3
<1>6. \A g \in RoutesOf(c) : pcs'[g] = pcs[g] /\ routes'[g] = routes[g]
  BY <1>4 DEF Connects, RoutesOf
<1>7. Entering(c) /\ home[c] = NoId /\ \A g \in RoutesOf(c) : Bystander(g)
  <2>1. InPhase(c) BY DEF HandOverInv, Phases
  <2>2. Entering(c) BY <2>1 DEF InPhase, Playing, Announced, OldFirst, NewFirst, Moving
  <2>3. \A g : ~Candidate(c, g) BY DEF Candidate
  <2>4. QED BY <2>2, <2>3 DEF Entering
<1>8. \A g \in RoutesOf(c) : Bystander(g)' BY <1>1, <1>6, <1>7 DEF Bystander
<1>9. \A g \in RoutesOf(c) : ~Candidate(c, g)' BY <1>8 DEF Bystander, Candidate
<1>10. home'[c] # NoId => home'[c] \in RoutesOf(c)' \ RoutesOf(c)
                          /\ routes'[home'[c]].state = "ConnectingPrimary"
                          /\ pcs'[home'[c]] # <<>>
  BY <1>7 DEF Connects, RoutesOf
<1>11. ASSUME NEW g \in RoutesOf(c)' \ RoutesOf(c) PROVE Bystander(g)' \/ Candidate(c, g)'
  <2>1. g \in Live' \ Live /\ g \notin primaryPlayers' BY <1>3, <1>5
  <2>2. pcs'[g] = <<>> \/ pcs'[g] = <<IF routes'[g].state = "ConnectingPrimary" THEN "game" ELSE "noPawn">>
    BY <2>1 DEF Connects
  <2>3. CASE routes'[g].state = "Connecting" BY <2>1, <2>2, <2>3 DEF Bystander
  <2>4. CASE routes'[g].state = "ConnectingPrimary"
    <3>1. CASE pcs'[g] = <<>>
      <4>1. home'[c] = NoId
        <5>1. home'[c] # NoId => home'[c] = g BY <1>3, <1>10, <2>1, <2>4
        <5>2. QED BY <1>10, <3>1, <5>1
      <4>2. QED BY <2>1, <2>4, <3>1, <4>1 DEF Candidate
    <3>2. CASE pcs'[g] = <<"game">>
      <4>1. pcs'[g] # <<>> BY <3>2
      <4>2. home'[c] \in Live' \ Live /\ routes'[home'[c]].state = "ConnectingPrimary"
        BY <1>3, <2>1, <2>4, <4>1 DEF Connects
      <4>3. home'[c] = g BY <2>1, <2>4, <4>2
      <4>4. QED BY <2>1, <2>4, <3>2, <4>3 DEF Candidate
    <3>3. QED BY <2>2, <2>4, <3>1, <3>2
  <2>5. QED BY <2>1, <2>3, <2>4 DEF StillConnecting
<1>12. \A g, h \in RoutesOf(c)' : Candidate(c, g)' /\ Candidate(c, h)' => g = h
  <2>1. \A g \in RoutesOf(c)' : Candidate(c, g)' =>
           g \in Live' \ Live /\ routes'[g].state = "ConnectingPrimary"
    BY <1>3, <1>9 DEF Candidate
  <2>2. QED BY <2>1
<1>13. home'[c] # NoId => home'[c] \in RoutesOf(c)' /\ Candidate(c, home[c])'
  <2>1. ASSUME home'[c] # NoId PROVE Candidate(c, home[c])'
    <3>1. /\ home'[c] \in RoutesOf(c)' \ RoutesOf(c)
          /\ routes'[home'[c]].state = "ConnectingPrimary"
      BY <1>10, <2>1
    <3>2. ~Bystander(home[c])' BY <3>1 DEF Bystander
    <3>3. QED BY <1>11, <3>1, <3>2
  <2>2. QED BY <1>10, <2>1
<1>14. Entering(c)'
  BY <1>1, <1>7, <1>8, <1>11, <1>12, <1>13 DEF Entering
<1>15. SameServers(c) /\ ~Gone(c) /\ ~Gone(c)' BY <1>6 DEF SameServers, Gone
<1>16. QED BY <1>7, <1>14, <1>15 DEF Still, Stays

\* What joining and registering have in common.
NewRoutes ==
    /\ Running /\ Connects
    /\ Live \subseteq Live' /\ \A h \in Live : routes'[h] = routes[h]
    /\ \A h \in Live' \ Live : /\ h \in Ids /\ nextId <= h
                               /\ routes'[h].state \in StillConnecting
                               /\ ~routes'[h].conn
    /\ nextId' >= nextId /\ nextId' \in Int
    /\ \A s \in Servers : parent'[s] \in {parent[s], "none", "pending"}
    /\ UNCHANGED <<primVars, closedChildren>>

LEMMA ConnectNewRoutes ==
  ASSUME HandOverInv \/ HandshakeInv, Running, NEW reqs \in Seq(Request),
         NEW conns \in [Servers -> {"unregistered", "none", "pending", "open", "closed",
                                    "destroyed"}],
         \A s \in Servers : \/ conns[s] = parent[s]
                            \/ parent[s] = "unregistered" /\ conns[s] = "none",
         \A i \in DOMAIN reqs :
            conns[reqs[i].server] \in {"none", "pending", "open", "closed"},
         ConnectToGameServer(conns, reqs), UNCHANGED <<primVars, closedChildren>>
  PROVE  /\ NewRoutes
         /\ \A h \in Live' \ Live : \E i \in DOMAIN reqs : routes'[h] = NewRoute(reqs[i])
<1>1. TypeOK /\ RouteInv /\ QueuesWait /\ SentControllers
  BY Tables DEF HandOverInv, HandshakeInv, Handshakes
<1>2. Connects BY <1>1, ConnectSends
<1>3. /\ Live \subseteq Live' /\ nextId' >= nextId
      /\ \A h \in Live : routes'[h] = routes[h]
      /\ \A h \in Live' \ Live : /\ nextId <= h /\ h < nextId'
                                 /\ \E i \in DOMAIN reqs : routes'[h] = NewRoute(reqs[i])
  BY <1>1, ConnectAdds
<1>4. Live' \subseteq Ids /\ nextId' \in 1 .. MaxIds + 1 BY <1>1, ConnectType
<1>5. \A i \in DOMAIN reqs : reqs[i] \in Request OBVIOUS
<1>6. \A h \in Live' \ Live : /\ ~routes'[h].conn /\ routes'[h].state \in StillConnecting
  BY <1>3, <1>5, NewRouteOpens
<1>7. nextId' \in Int BY <1>4
<1>8. \A s \in Servers : parent'[s] \in {parent[s], "none", "pending"}
  BY DEF ConnectToGameServer
<1>9. QED BY <1>2, <1>3, <1>4, <1>6, <1>7, <1>8 DEF NewRoutes

\* A client that joins gets routes, at most one of which is to be the primary one.
LEMMA JoinRoutes ==
  ASSUME HandOverInv \/ HandshakeInv, NEW c \in Clients, Join(c)
  PROVE  /\ NewRoutes
         /\ \A h \in Live' \ Live : routes'[h].client = c
         /\ \A g, h \in Live' \ Live : /\ routes'[g].state = "ConnectingPrimary"
                                       /\ routes'[h].state = "ConnectingPrimary"
                                       => g = h
         /\ client[c] = "accepted" /\ client'[c] = "joined"
         /\ \A d \in Clients \ {c} : client'[d] = client[d]
<1>1. PICK p \in PrimaryChoices :
         ConnectToGameServer(parent, [i \in 1 .. Len(gameServers) |->
               [client |-> c, server |-> gameServers[i], primary |-> i - 1 = p]])
  BY DEF Join
<1> DEFINE reqs == [i \in 1 .. Len(gameServers) |->
               [client |-> c, server |-> gameServers[i], primary |-> i - 1 = p]]
<1>2. /\ TypeOK /\ Running /\ Entries
      /\ UNCHANGED <<gameServers, primVars, closedChildren>>
      /\ client[c] = "accepted" /\ client' = [client EXCEPT ![c] = "joined"]
  BY Tables DEF Join, Handshakes
<1>3. /\ gameServers \in Seq(Servers) /\ Len(gameServers) \in Nat
      /\ \A i \in 1 .. Len(gameServers) : gameServers[i] \in Range(gameServers) \cap Servers
  <2>1. gameServers \in Seq(Servers) BY <1>2 DEF TypeOK
  <2>2. QED BY <2>1 DEF Range
<1>4. reqs \in Seq(Request) BY <1>3 DEF Request
<1>5. \A i \in DOMAIN reqs : parent[reqs[i].server] \in {"none", "pending", "open", "closed"}
  BY <1>2, <1>3 DEF Entries
<1>6. PrimaryChoices \subseteq Int
  <2>1. nextPrimary \in Nat BY <1>2 DEF TypeOK
  <2>2. QED BY <1>3, <2>1 DEF PrimaryChoices
<1>7. \A i, j \in DOMAIN reqs : reqs[i].primary /\ reqs[j].primary => i = j
  <2>1. p \in Int BY <1>6
  <2>2. \A i \in DOMAIN reqs : i \in Int /\ (reqs[i].primary => i - 1 = p)
    <3>1. \A i \in DOMAIN reqs : i \in Int BY <1>3
    <3>2. \A i \in DOMAIN reqs : reqs[i].primary <=> i - 1 = p OBVIOUS
    <3>3. QED BY <3>1, <3>2
  <2> HIDE DEF reqs
  <2>3. QED BY <2>1, <2>2
<1>8. \A i \in DOMAIN reqs : NewRoute(reqs[i]).client = c BY DEF NewRoute
<1>9. ConnectToGameServer(parent, reqs) BY <1>1
<1>10. parent \in [Servers -> {"unregistered", "none", "pending", "open", "closed",
                               "destroyed"}]
  BY <1>2 DEF TypeOK
<1> HIDE DEF reqs
<1>11. /\ NewRoutes
       /\ \A h \in Live' \ Live : routes'[h].client = c
  <2>1. /\ NewRoutes
        /\ \A h \in Live' \ Live : \E i \in DOMAIN reqs : routes'[h] = NewRoute(reqs[i])
    BY <1>2, <1>4, <1>5, <1>9, <1>10, ConnectNewRoutes
  <2>2. QED BY <1>8, <2>1
<1>12. \A g, h \in Live' \ Live : /\ routes'[g].state = "ConnectingPrimary"
                                  /\ routes'[h].state = "ConnectingPrimary"
                                  => g = h
  BY <1>2, <1>4, <1>7, <1>9, ConnectPrimaries
<1>13. client'[c] = "joined" /\ \A d \in Clients \ {c} : client'[d] = client[d]
  BY <1>2 DEF TypeOK
<1>14. QED BY <1>2, <1>11, <1>12, <1>13

LEMMA JoinTurn ==
  ASSUME HandOverInv, NEW c \in Clients, Join(c)
  PROVE  NewRoutes /\ OneTurn
<1>1. /\ NewRoutes
      /\ \A h \in Live' \ Live : routes'[h].client = c
      /\ \A g, h \in Live' \ Live : /\ routes'[g].state = "ConnectingPrimary"
                                    /\ routes'[h].state = "ConnectingPrimary"
                                    => g = h
      /\ client[c] = "accepted" /\ client'[c] = "joined"
      /\ \A d \in Clients \ {c} : client'[d] = client[d]
  BY JoinRoutes
<1>2. Still(c) BY <1>1, JoinEnters DEF NewRoutes
<1>3. ASSUME NEW d \in Clients \ {c} PROVE Still(d)
  BY <1>1, NewBystanders DEF NewRoutes
<1>4. QED BY <1>1, <1>2, <1>3 DEF OneTurn

\* Those of a registration are never to be primary ones.
LEMMA RegisterAndConnectRoutes ==
  ASSUME HandOverInv \/ HandshakeInv, NEW s \in Servers,
         RegisterGameServerAndConnectClients(s)
  PROVE  /\ NewRoutes /\ client' = client
         /\ \A h \in Live' \ Live : routes'[h].state = "Connecting"
<1>1. PICK order \in {f \in [1 .. Cardinality(OpenConnections) -> OpenConnections] :
                        IsInjective(f)} :
        ConnectToGameServer([parent EXCEPT ![s] = "none"],
             [i \in DOMAIN order |->
                 [client |-> order[i], server |-> s, primary |-> FALSE]])
  BY DEF RegisterGameServerAndConnectClients
<1> DEFINE reqs  == [i \in DOMAIN order |->
                       [client |-> order[i], server |-> s, primary |-> FALSE]]
           conns == [parent EXCEPT ![s] = "none"]
<1>2. /\ open \subseteq Clients /\ IsFiniteSet(Clients)
      /\ order \in [1 .. Cardinality(open) -> open]
  BY Tables, ConstantsAssumption DEF TypeOK, OpenConnections, ConstantsAssumption
<1>3. DOMAIN order = 1 .. Cardinality(open) /\ Cardinality(open) \in Nat
      /\ \A i \in DOMAIN order : order[i] \in open
  BY <1>2, ArrayType
<1>4. /\ reqs \in Seq(Request) /\ \A i \in DOMAIN reqs : reqs[i].server = s
      /\ \A i \in DOMAIN reqs : NewRoute(reqs[i]).state = "Connecting"
  <2>1. \A i \in DOMAIN order :
           [client |-> order[i], server |-> s, primary |-> FALSE] \in Request
    BY <1>2, <1>3 DEF Request
  <2>2. reqs \in [1 .. Cardinality(open) -> Request] BY <1>3, <2>1
  <2>3. Cardinality(open) \in Nat BY <1>3
  <2>4. \A i \in DOMAIN reqs : reqs[i].server = s OBVIOUS
  <2>5. \A i \in DOMAIN reqs : NewRoute(reqs[i]).state = "Connecting" BY DEF NewRoute
  <2> HIDE DEF reqs
  <2>6. QED BY <2>2, <2>3, <2>4, <2>5
<1>5. /\ parent \in [Servers -> {"unregistered", "none", "pending", "open", "closed",
                                 "destroyed"}]
      /\ parent[s] = "unregistered" /\ Running
      /\ UNCHANGED <<primVars, closedChildren, client>>
  BY Tables DEF RegisterGameServerAndConnectClients, clientVars
<1>6. /\ conns \in [Servers -> {"unregistered", "none", "pending", "open", "closed",
                                "destroyed"}]
      /\ conns[s] = "none" /\ \A t \in Servers \ {s} : conns[t] = parent[t]
  BY <1>5
<1>7. ConnectToGameServer(conns, reqs) BY <1>1
<1> HIDE DEF reqs, conns
<1>8. NewRoutes /\ \A h \in Live' \ Live : routes'[h].state = "Connecting"
  <2>1. /\ \A t \in Servers : \/ conns[t] = parent[t]
                              \/ parent[t] = "unregistered" /\ conns[t] = "none"
        /\ \A i \in DOMAIN reqs : conns[reqs[i].server] \in {"none", "pending", "open", "closed"}
    BY <1>4, <1>5, <1>6
  <2>2. /\ NewRoutes
        /\ \A h \in Live' \ Live : \E i \in DOMAIN reqs : routes'[h] = NewRoute(reqs[i])
    BY <1>4, <1>5, <1>6, <1>7, <2>1, ConnectNewRoutes
  <2>3. QED BY <1>4, <2>2
<1>9. QED BY <1>5, <1>8

LEMMA RegisterAndConnectTurn ==
  ASSUME HandOverInv, NEW s \in Servers, RegisterGameServerAndConnectClients(s)
  PROVE  NewRoutes /\ OneTurn
<1>1. /\ NewRoutes /\ client' = client
      /\ \A h \in Live' \ Live : routes'[h].state = "Connecting"
  BY RegisterAndConnectRoutes
<1>2. ASSUME NEW d \in Clients PROVE Still(d)
  BY <1>1, NewBystanders DEF NewRoutes
<1>3. QED BY <1>1, <1>2 DEF OneTurn

LEMMA NewRoutesShapes ==
  ASSUME HandOverInv \/ HandshakeInv, QueuedKinds, Children, NewRoutes
  PROVE  QueuedKinds' /\ Children'
<1>1. QueuedJoins BY Tables DEF NewRoutes, Handshakes
<1>2. ASSUME NEW s \in Servers, NEW r \in splitJoins'[s]
      PROVE  /\ routes'[r.id].state = "ConnectingPrimary" => r.pc = "game"
             /\ routes'[r.id].state = "Connecting" => r.pc = "noPawn"
  <2>1. CASE r \in splitJoins[s]
    <3>1. r.id \in Live BY <1>1, <2>1 DEF QueuedJoins
    <3>2. routes'[r.id] = routes[r.id] BY <3>1 DEF NewRoutes
    <3>3. QED BY <2>1, <3>2 DEF QueuedKinds
  <2>2. CASE r \notin splitJoins[s]
    <3>1. r.pc = IF routes'[r.id].state = "ConnectingPrimary" THEN "game" ELSE "noPawn"
      BY <1>2, <2>2 DEF NewRoutes, Connects
    <3>2. QED BY <3>1
  <2>3. QED BY <2>1, <2>2
<1>3. Children' BY DEF Children, NewRoutes, StillConnecting
<1>4. QED BY <1>2, <1>3 DEF QueuedKinds

LEMMA NewRoutesOrderly ==
  ASSUME HandOverInv, NewRoutes
  PROVE  Orderly'
<1>1. /\ NewIds /\ QueuedKinds /\ Children /\ NothingLost
      /\ nextId \in Int /\ primaryPlayers \subseteq Ids
  BY Tables DEF HandOverInv, Orderly
<1>2. NewIds'
  <2>1. nextId' >= nextId /\ nextId' \in Int /\ primaryPlayers' = primaryPlayers
    BY DEF NewRoutes, primVars
  <2>2. \A h \in primaryPlayers : h \in Int /\ h < nextId BY <1>1 DEF NewIds, Ids
  <2>3. QED BY <1>1, <2>1, <2>2 DEF NewIds
<1>3. QueuedKinds' /\ Children' BY <1>1, NewRoutesShapes
<1>4. NothingLost' BY <1>1 DEF NothingLost, NewRoutes
<1>5. QED BY <1>2, <1>3, <1>4 DEF Orderly

-----------------------------------------------------------------------------
(* Steps that keep or remove routes.                                       *)

LEMMA KeptShapes ==
  ASSUME QueuedKinds, Children, HandshakeInv', Running', Live' \subseteq Live,
         \A s \in Servers : splitJoins'[s] \subseteq splitJoins[s],
         \A h \in Live' : \/ routes'[h].state = routes[h].state /\ routes'[h].conn = routes[h].conn
                          \/ routes'[h].state = "PendingClose"
                          \/ routes'[h].conn /\ routes'[h].state \notin StillConnecting
  PROVE  QueuedKinds' /\ Children'
<1>1. QueuedJoins' BY DEF HandshakeInv, Handshakes
<1>2. ASSUME NEW s \in Servers, NEW r \in splitJoins'[s]
      PROVE  /\ routes'[r.id].state = "ConnectingPrimary" => r.pc = "game"
             /\ routes'[r.id].state = "Connecting" => r.pc = "noPawn"
  <2>1. r.id \in Live' BY <1>1, <1>2 DEF QueuedJoins
  <2>2. r \in splitJoins[s] BY <1>2
  <2>3. \/ routes'[r.id].state = routes[r.id].state
        \/ routes'[r.id].state \notin {"Connecting", "ConnectingPrimary"}
    BY <2>1 DEF StillConnecting
  <2>4. QED BY <2>2, <2>3 DEF QueuedKinds
<1>3. Children' BY DEF Children
<1>4. QED BY <1>2, <1>3 DEF QueuedKinds

LEMMA KeptOrderly ==
  ASSUME HandOverInv, HandshakeInv', Running', Live' \subseteq Live,
         \A s \in Servers : splitJoins'[s] \subseteq splitJoins[s],
         \A s \in Servers : parent'[s] \in {parent[s], "none", "open"},
         \A h \in Live' : \/ routes'[h].state = routes[h].state /\ routes'[h].conn = routes[h].conn
                          \/ routes'[h].state = "PendingClose"
                          \/ routes'[h].conn /\ routes'[h].state \notin StillConnecting,
         primaryPlayers' \subseteq primaryPlayers \cup Live,
         UNCHANGED <<nextId, closedChildren>>
  PROVE  Orderly'
<1>1. /\ NewIds /\ QueuedKinds /\ Children /\ NothingLost
      /\ \A h \in Live : h < nextId
  BY Tables DEF HandOverInv, Orderly
<1>2. NewIds' BY <1>1 DEF NewIds
<1>3. QueuedKinds' /\ Children' BY <1>1, KeptShapes
<1>4. NothingLost' BY <1>1 DEF NothingLost
<1>5. QED BY <1>2, <1>3, <1>4 DEF Orderly

\* Routes of a client that is still there which have no child are connecting.
LEMMA OwnRoutes ==
  ASSUME HandOverInv \/ (HandshakeInv /\ Children), NEW c \in Clients, ~Gone(c), NEW g \in RoutesOf(c)
  PROVE  /\ g \in Live /\ g \in Ids /\ routes[g].client = c
         /\ routes[g].state # "PendingClose"
         /\ routes[g].conn <=> routes[g].state \notin StillConnecting
<1>1. g \in Live /\ g \in Ids /\ routes[g].client = c BY Tables DEF RoutesOf
<1>2. routes[g].state # "PendingClose" BY <1>1, Tables DEF RouteInv, DepartedClients, Gone
<1>3. QED BY <1>1, <1>2 DEF HandOverInv, Orderly, Children

\* The queued split joins of a server are sent: bystanders and candidates go on waiting,
\* now for their player controller.
LEMMA ParentConnectedTurn ==
  ASSUME HandOverInv, NEW s \in Servers, ParentConnected(s)
  PROVE  OneTurn
<1> DEFINE sent == splitJoins[s]
           IsSent(g) == \E r \in sent : r.id = g
<1>1. /\ Running /\ routes' = routes /\ SendSplitJoins(sent)
      /\ UNCHANGED <<primaryPlayers, primaryOf, deferred, client>>
  BY DEF ParentConnected, primVars, clientVars
<1>2. /\ QueuedJoins /\ QueuedKinds /\ Live \subseteq Ids /\ sent \subseteq SplitJoin
  BY <1>1, Tables DEF HandOverInv, Orderly, Handshakes, TypeOK
<1>3. \A r \in sent : /\ r.id \in Live /\ ~routes[r.id].conn /\ pcs[r.id] = <<>>
                      /\ routes[r.id].state = "ConnectingPrimary" => r.pc = "game"
                      /\ routes[r.id].state = "Connecting" => r.pc = "noPawn"
  BY <1>2 DEF QueuedJoins, QueuedKinds
<1>4. \A q, r \in sent : q.id = r.id => q.pc = r.pc BY <1>2 DEF QueuedJoins
<1> HIDE DEF sent
<1>5. /\ \A r \in sent : pcs'[r.id] = <<r.pc>>
      /\ \A h \in Ids : (\A r \in sent : r.id # h) => pcs'[h] = pcs[h]
      /\ \A c \in Clients : \/ home'[c] = home[c]
                            \/ \E r \in sent : /\ home'[c] = r.id
                                               /\ routes'[r.id].client = c
                                               /\ routes'[r.id].state = "ConnectingPrimary"
      /\ \A r \in sent :
           routes'[r.id].client \in Clients /\ routes'[r.id].state = "ConnectingPrimary" =>
           \E q \in sent : /\ home'[routes'[r.id].client] = q.id
                           /\ routes'[q.id].client = routes'[r.id].client
                           /\ routes'[q.id].state = "ConnectingPrimary"
  BY <1>1, <1>2, <1>4, SendSplitJoinsSends
<1>6. \A c : RoutesOf(c)' = RoutesOf(c) BY <1>1 DEF RoutesOf, Live
<1>7. ASSUME NEW c \in Clients, ~Gone(c) PROVE Stays(c)
  <2>1. InPhase(c) BY <1>7 DEF HandOverInv, Phases, Gone
  <2>2. \A g \in RoutesOf(c) : /\ g \in Ids /\ g \in Live /\ routes[g].client = c
                               /\ routes[g].conn <=> routes[g].state \notin StillConnecting
    BY <1>7, OwnRoutes
  <2>3. \A g \in RoutesOf(c) : ~IsSent(g) => Same(g) BY <1>1, <1>5, <2>2 DEF Same
  <2>4. ASSUME NEW g \in RoutesOf(c), IsSent(g)
        PROVE  /\ routes[g].state \in StillConnecting
               /\ pcs[g] = <<>>
               /\ routes[g].state = "Connecting" => pcs'[g] = <<"noPawn">>
               /\ routes[g].state = "ConnectingPrimary" => pcs'[g] = <<"game">>
    <3>1. PICK r \in sent : r.id = g BY <2>4
    <3>2. QED BY <1>3, <1>5, <2>2, <3>1
  <2>5. ASSUME NEW g \in RoutesOf(c), Bystander(g) PROVE Bystander(g)'
    <3>1. CASE IsSent(g)
      <4>1. routes[g].state = "Connecting"
        BY <2>4, <2>5, <3>1 DEF Bystander, StillConnecting
      <4>2. pcs'[g] = <<"noPawn">> BY <2>4, <3>1, <4>1
      <4>3. QED BY <1>1, <2>5, <4>1, <4>2 DEF Bystander
    <3>2. CASE ~IsSent(g)
      <4>1. Same(g) BY <2>3, <3>2
      <4>2. QED BY <2>5, <4>1 DEF Same, Bystander
    <3>3. QED BY <3>1, <3>2
  <2>6. \/ home'[c] = home[c]
        \/ \E g \in RoutesOf(c) : /\ IsSent(g) /\ home'[c] = g
                                  /\ routes[g].state = "ConnectingPrimary"
    <3>1. ASSUME NEW r \in sent, home'[c] = r.id, routes'[r.id].client = c,
                 routes'[r.id].state = "ConnectingPrimary"
          PROVE  \E g \in RoutesOf(c) : /\ IsSent(g) /\ home'[c] = g
                                        /\ routes[g].state = "ConnectingPrimary"
      BY <1>1, <1>3, <3>1 DEF RoutesOf
    <3>2. QED BY <1>5, <3>1
  <2>7. SameServers(c) /\ ~Gone(c)' BY <1>1, <1>7 DEF SameServers, Gone
  <2>8. CASE Entering(c)
    <3>1. \A g \in RoutesOf(c) : routes[g].state = "ConnectingPrimary" => Candidate(c, g)
      BY <2>8 DEF Entering, Bystander
    <3>2. ASSUME NEW g \in RoutesOf(c), Candidate(c, g) PROVE Candidate(c, g)'
      <4>1. /\ client'[c] = "joined" /\ g \notin primaryPlayers'
            /\ routes'[g].state = "ConnectingPrimary"
        BY <1>1, <3>2 DEF Candidate
      <4>2. CASE IsSent(g)
        <5>1. pcs'[g] = <<"game">> BY <2>4, <4>2, <3>2 DEF Candidate
        <5>2. PICK r \in sent : r.id = g BY <4>2
        <5>3. routes'[r.id].client = c /\ routes'[r.id].state = "ConnectingPrimary"
          BY <1>1, <2>2, <4>1, <5>2
        <5>4. PICK q \in sent : /\ home'[c] = q.id /\ routes'[q.id].client = c
                                /\ routes'[q.id].state = "ConnectingPrimary"
          BY <1>5, <5>3
        <5>5. q.id \in RoutesOf(c) BY <1>1, <1>3, <5>4 DEF RoutesOf
        <5>6. Candidate(c, q.id) BY <1>1, <3>1, <5>4, <5>5
        <5>7. q.id = g BY <2>8, <3>2, <5>5, <5>6 DEF Entering
        <5>8. QED BY <4>1, <5>1, <5>4, <5>7 DEF Candidate
      <4>3. CASE ~IsSent(g)
        <5>1. pcs'[g] = pcs[g] BY <2>3, <4>3 DEF Same
        <5>2. home'[c] = home[c]
          <6>1. ASSUME NEW q \in RoutesOf(c), IsSent(q), routes[q].state = "ConnectingPrimary"
                PROVE  FALSE
            <7>1. Candidate(c, q) BY <3>1, <6>1
            <7>2. q = g BY <2>8, <3>2, <7>1 DEF Entering
            <7>3. QED BY <4>3, <6>1, <7>2
          <6>2. QED BY <2>6, <6>1
        <5>3. QED BY <3>2, <4>1, <5>1, <5>2 DEF Candidate
      <4>4. QED BY <4>2, <4>3
    <3>3. \A g \in RoutesOf(c) : Bystander(g)' \/ Candidate(c, g)'
      BY <2>5, <2>8, <3>2 DEF Entering
    <3>4. \A g \in RoutesOf(c) : Candidate(c, g)' => Candidate(c, g)
      <4>1. \A g : Candidate(c, g)' => ~Bystander(g)' BY DEF Candidate, Bystander
      <4>2. QED BY <2>5, <2>8, <4>1 DEF Entering
    <3>5. home'[c] # NoId => home'[c] \in RoutesOf(c) /\ Candidate(c, home[c])'
      <4>1. CASE home'[c] = home[c] BY <2>8, <3>2, <4>1 DEF Entering
      <4>2. ASSUME NEW g \in RoutesOf(c), home'[c] = g, routes[g].state = "ConnectingPrimary"
            PROVE  home'[c] \in RoutesOf(c) /\ Candidate(c, home[c])'
        <5>1. Candidate(c, g)' BY <3>1, <3>2, <4>2
        <5>2. QED BY <4>2, <5>1 DEF Candidate
      <4>3. QED BY <2>6, <4>1, <4>2
    <3>6. Entering(c)'
      <4>1. \A g, h \in RoutesOf(c) : Candidate(c, g)' /\ Candidate(c, h)' => g = h
        BY <2>8, <3>4 DEF Entering
      <4>2. primaryOf'[c] = NoId /\ deferred'[c] = NoReassignment BY <1>1, <2>8 DEF Entering
      <4>3. QED BY <1>6, <3>3, <3>5, <4>1, <4>2 DEF Entering
    <3>7. QED BY <1>7, <2>7, <2>8, <3>6 DEF Stays
  <2>9. CASE ~Entering(c)
    <3>1. \A g \in RoutesOf(c) : routes[g].state \in StillConnecting =>
             Bystander(g) /\ routes[g].state # "ConnectingPrimary"
      <4>1. \A g : Bystander(g) => routes[g].state # "ConnectingPrimary" BY DEF Bystander
      <4>2. ASSUME Playing(c), NEW g \in RoutesOf(c), routes[g].state \in StillConnecting
            PROVE  Bystander(g)
        BY <4>2 DEF Playing, Primary, StillConnecting
      <4>3. ASSUME NEW f \in Ids, Announced(c, f) \/ OldFirst(c, f) \/ NewFirst(c, f),
                   NEW g \in RoutesOf(c), routes[g].state \in StillConnecting
            PROVE  Bystander(g)
        BY <4>3 DEF Announced, OldFirst, NewFirst, Moving, Primary, StillConnecting
      <4>4. QED BY <2>1, <2>9, <4>1, <4>2, <4>3 DEF InPhase
    <3>2. home'[c] = home[c] BY <2>6, <3>1 DEF StillConnecting
    <3>3. SameClient(c) BY <1>1, <3>2 DEF SameClient
    <3>4. \A g \in RoutesOf(c) : /\ Same(g) \/ (Bystander(g) /\ Bystander(g)')
                                 /\ routes'[g].server = routes[g].server
      BY <1>1, <2>3, <2>4, <2>5, <3>1
    <3>5. RoutesOf(c) \subseteq RoutesOf(c)' /\ RoutesOf(c)' \ RoutesOf(c) = {} BY <1>6
    <3>6. \A g \in RoutesOf(c)' \ RoutesOf(c) : Bystander(g)' BY <3>5
    <3>7. QED BY <1>7, <2>1, <3>3, <3>4, <3>5, <3>6, Undisturbed
  <2>10. QED BY <2>8, <2>9
<1>8. ASSUME NEW c \in Clients, Gone(c) PROVE StaysGone(c)
  BY <1>1, <1>6, <1>8 DEF StaysGone, Gone, HandOverInv, Phases
<1>9. QED BY <1>7, <1>8 DEF OneTurn, Still

\* Steps that concern one client.
LEMMA OneClient ==
  ASSUME HandOverInv, NEW c \in Clients, Live' = Live,
         \A g \in Live : routes'[g].client = routes[g].client,
         \A g \in Live : routes[g].client # c => Same(g),
         \A d \in Clients \ {c} : /\ primaryOf'[d] = primaryOf[d] /\ deferred'[d] = deferred[d]
                                  /\ home'[d] = home[d] /\ client'[d] = client[d],
         Still(c) \/ Turns(c)
  PROVE  OneTurn
<1>1. ASSUME NEW d \in Clients \ {c} PROVE Still(d)
  <2>1. RoutesOf(d)' = RoutesOf(d) BY DEF RoutesOf, Live
  <2>2. \A g \in RoutesOf(d) : Same(g) BY DEF RoutesOf
  <2>3. QED BY <2>1, <2>2, OtherClient
<1>2. QED BY <1>1 DEF OneTurn

\* What a route looks like when its first player controller has arrived.
LEMMA AssignedRoutes ==
  ASSUME TypeOK, NEW h \in Live, NEW pc \in PC, NEW st \in {"Connected", "ConnectedPrimary"},
         routes' = [routes EXCEPT ![h].state = st, ![h].conn = TRUE, ![h].pc = pc]
  PROVE  /\ Live' = Live
         /\ \A g \in Live \ {h} : routes'[g] = routes[g]
         /\ \A g \in Live : routes'[g].client = routes[g].client
         /\ routes'[h].server = routes[h].server
         /\ routes'[h].state = st /\ routes'[h].conn
<1>1. routes \in [Live -> Route] BY DEF TypeOK
<1>2. Live' = Live /\ \A g \in Live \ {h} : routes'[g] = routes[g] BY <1>1 DEF Live
<1>3. /\ routes'[h].client = routes[h].client /\ routes'[h].server = routes[h].server
      /\ routes'[h].state = st /\ routes'[h].conn
  BY <1>1 DEF Route
<1>4. \A g \in Live : routes'[g].client = routes[g].client BY <1>2, <1>3
<1>5. QED BY <1>2, <1>3, <1>4

\* The states after a step that assigns a player controller.
AssignedStates ==
    /\ Live' = Live /\ primaryPlayers' \subseteq primaryPlayers \cup Live
    /\ \A g \in Live : \/ /\ routes'[g].state = routes[g].state
                          /\ routes'[g].conn = routes[g].conn
                       \/ routes'[g].conn /\ routes'[g].state \notin StillConnecting

LEMMA OnlyController ==
  /\ Tail(<<"game">>) = <<>> /\ Head(<<"game">>) = "game"
  /\ Tail(<<"noPawn">>) = <<>> /\ Head(<<"noPawn">>) = "noPawn"
  /\ <<"game">> # <<>> /\ <<"noPawn">> # <<>>
OBVIOUS

LEMMA AssignConnectingTurn ==
  ASSUME HandOverInv, NEW h \in Ids, AssignConnecting(h)
  PROVE  OneTurn /\ AssignedStates
<1>1. PICK pc \in PC : /\ Received(h, pc) /\ routes[h].state = "Connecting"
                       /\ routes' = [routes EXCEPT ![h].state = "Connected",
                                                   ![h].conn = TRUE, ![h].pc = pc]
  BY DEF AssignConnecting
<1>2. UNCHANGED <<primaryPlayers, primaryOf, deferred, client, home>>
  BY DEF AssignConnecting, primVars, clientVars
<1>a. routes[h].client \in Clients BY <1>1, Tables, ReceivedLive
<1>b. PICK c \in Clients : c = routes[h].client BY <1>a
<1>3. h \in Live /\ ~Gone(c) /\ h \in RoutesOf(c) /\ TypeOK
  BY <1>1, <1>b, Tables, ReceivedLive DEF Gone, RoutesOf
<1>4. /\ \A g \in Ids \ {h} : pcs'[g] = pcs[g]
      /\ pcs[h] # <<>> /\ pcs'[h] = Tail(pcs[h])
  BY <1>1, <1>3, ReceivedQueue
<1>5. /\ Live' = Live
      /\ \A g \in Live \ {h} : routes'[g] = routes[g]
      /\ \A g \in Live : routes'[g].client = routes[g].client
      /\ routes'[h].server = routes[h].server
      /\ routes'[h].state = "Connected" /\ routes'[h].conn
  <2>1. "Connected" \in {"Connected", "ConnectedPrimary"} OBVIOUS
  <2>2. QED BY <1>1, <1>3, <2>1, AssignedRoutes
<1>6. InPhase(c) BY <1>3 DEF HandOverInv, Phases, Gone
<1>7. Bystander(h)
  <2>1. routes[h].state = "Connecting" BY <1>1
  <2>2. Entering(c) => Bystander(h) BY <1>3, <2>1 DEF Entering, Candidate
  <2>3. Playing(c) => Bystander(h) BY <1>3, <2>1 DEF Playing, Primary
  <2>4. \A f \in Ids : Announced(c, f) \/ OldFirst(c, f) \/ NewFirst(c, f) => Bystander(h)
    BY <1>3, <2>1 DEF Announced, OldFirst, NewFirst, Moving, Primary
  <2>5. QED BY <1>6, <2>2, <2>3, <2>4 DEF InPhase
<1>8. Bystander(h)'
  <2>1. pcs[h] = <<"noPawn">> BY <1>1, <1>4, <1>7 DEF Bystander
  <2>2. pcs'[h] = <<>> BY <1>4, <2>1, OnlyController
  <2>3. QED BY <1>2, <1>5, <1>7, <2>2 DEF Bystander
<1>9. \A g \in Live \ {h} : Same(g)
  <2>1. Live \subseteq Ids BY Tables
  <2>2. QED BY <1>2, <1>4, <1>5, <2>1 DEF Same
<1>10. RoutesOf(c)' = RoutesOf(c) BY <1>5 DEF RoutesOf, Live
<1>11. Stays(c)
  <2>1. \A g \in RoutesOf(c) : /\ Same(g) \/ (Bystander(g) /\ Bystander(g)')
                               /\ routes'[g].server = routes[g].server
    BY <1>5, <1>7, <1>8, <1>9 DEF RoutesOf
  <2>2. SameClient(c) BY <1>2 DEF SameClient
  <2>3. RoutesOf(c) \subseteq RoutesOf(c)' /\ \A g \in RoutesOf(c)' \ RoutesOf(c) : Bystander(g)'
    BY <1>10
  <2>4. QED BY <1>3, <1>6, <2>1, <2>2, <2>3, Undisturbed
<1>12. OneTurn
  <2>1. \A g \in Live : routes[g].client # c => Same(g) BY <1>9, <1>b
  <2>2. Still(c) BY <1>11 DEF Still
  <2>3. QED BY <1>2, <1>3, <1>5, <2>1, <2>2, OneClient
<1>13. QED BY <1>2, <1>5, <1>12 DEF AssignedStates, StillConnecting

\* The route of a candidate becomes the primary one.
LEMMA AssignConnectingPrimaryTurn ==
  ASSUME HandOverInv, NEW h \in Ids, AssignConnectingPrimary(h)
  PROVE  OneTurn /\ AssignedStates
<1>1. PICK pc \in PC : /\ Received(h, pc) /\ routes[h].state = "ConnectingPrimary"
                       /\ routes' = [routes EXCEPT ![h].state = "ConnectedPrimary",
                                                   ![h].conn = TRUE, ![h].pc = pc]
  BY DEF AssignConnectingPrimary
<1>a. routes[h].client \in Clients BY <1>1, Tables, ReceivedLive
<1>b. PICK c \in Clients : c = routes[h].client BY <1>a
<1>2. /\ primaryPlayers' = primaryPlayers \cup {h}
      /\ primaryOf' = [primaryOf EXCEPT ![c] = h]
      /\ UNCHANGED <<deferred, client, home>>
  BY <1>b DEF AssignConnectingPrimary
<1>3. /\ h \in Live /\ ~Gone(c) /\ h \in RoutesOf(c) /\ TypeOK
      /\ primaryOf \in [Clients -> Ids \cup {NoId}]
  BY <1>1, <1>b, Tables, ReceivedLive DEF Gone, RoutesOf
<1>4. /\ \A g \in Ids \ {h} : pcs'[g] = pcs[g]
      /\ pcs[h] # <<>> /\ pcs'[h] = Tail(pcs[h])
  BY <1>1, <1>3, ReceivedQueue
<1>5. /\ Live' = Live
      /\ \A g \in Live \ {h} : routes'[g] = routes[g]
      /\ \A g \in Live : routes'[g].client = routes[g].client
      /\ routes'[h].server = routes[h].server
      /\ routes'[h].state = "ConnectedPrimary" /\ routes'[h].conn
  <2>1. "ConnectedPrimary" \in {"Connected", "ConnectedPrimary"} OBVIOUS
  <2>2. QED BY <1>1, <1>3, <2>1, AssignedRoutes
<1>6. InPhase(c) BY <1>3 DEF HandOverInv, Phases, Gone
<1>7. Entering(c) /\ Candidate(c, h)
  <2>1. routes[h].state = "ConnectingPrimary" BY <1>1
  <2>2. ~Bystander(h) BY <2>1 DEF Bystander
  <2>3. ~Playing(c) BY <1>3, <2>1, <2>2 DEF Playing, Primary
  <2>4. \A f \in Ids : ~(Announced(c, f) \/ OldFirst(c, f) \/ NewFirst(c, f))
    BY <1>3, <2>1, <2>2 DEF Announced, OldFirst, NewFirst, Moving, Primary
  <2>5. Entering(c) BY <1>6, <2>3, <2>4 DEF InPhase
  <2>6. QED BY <1>3, <2>2, <2>5 DEF Entering
<1>8. home[c] = h /\ pcs'[h] = <<>> /\ client[c] = "joined"
  BY <1>4, <1>7, OnlyController DEF Candidate
<1>9. \A g \in Live \ {h} : Same(g)
  <2>1. Live \subseteq Ids BY Tables
  <2>2. QED BY <1>2, <1>4, <1>5, <2>1 DEF Same
<1>10. RoutesOf(c)' = RoutesOf(c) BY <1>5 DEF RoutesOf, Live
<1>11. \A g \in RoutesOf(c) \ {h} : Bystander(g)'
  <2>1. \A g \in RoutesOf(c) \ {h} : Bystander(g) BY <1>3, <1>7 DEF Entering
  <2>2. QED BY <1>9, <2>1 DEF RoutesOf, Same, Bystander
<1>12. Playing(c)'
  <2>1. primaryOf'[c] = h /\ h \in primaryPlayers' /\ home'[c] = h /\ client'[c] = "joined"
    BY <1>2, <1>3, <1>8
  <2>2. deferred'[c] = NoReassignment BY <1>2, <1>7 DEF Entering
  <2>3. h \in RoutesOf(c)' BY <1>3, <1>10
  <2>4. QED BY <1>5, <1>8, <1>10, <1>11, <2>1, <2>2, <2>3 DEF Playing, Primary
<1>13. Turns(c)
  <2>1. SameServers(c) /\ ~Gone(c)' BY <1>2, <1>3, <1>5 DEF SameServers, Gone, RoutesOf
  <2>2. QED BY <1>3, <1>7, <1>12, <2>1 DEF Turns
<1>14. OneTurn
  <2>1. \A g \in Live : routes[g].client # c => Same(g) BY <1>9, <1>b
  <2>2. \A d \in Clients \ {c} : primaryOf'[d] = primaryOf[d] BY <1>2, <1>3
  <2>3. QED BY <1>2, <1>3, <1>5, <1>13, <2>1, <2>2, OneClient
<1>15. primaryPlayers' \subseteq primaryPlayers \cup Live BY <1>2, <1>3
<1>16. QED BY <1>5, <1>14, <1>15 DEF AssignedStates, StillConnecting

\* A player controller replaces the one a route has.
LEMMA NewController ==
  ASSUME TypeOK, NEW h \in Live, NEW pc \in PC
  PROVE  /\ [routes EXCEPT ![h].pc = pc] \in [Live -> Route]
         /\ \A g \in Live : /\ [routes EXCEPT ![h].pc = pc][g].client = routes[g].client
                            /\ [routes EXCEPT ![h].pc = pc][g].server = routes[g].server
                            /\ [routes EXCEPT ![h].pc = pc][g].conn = routes[g].conn
                            /\ [routes EXCEPT ![h].pc = pc][g].state = routes[g].state
         /\ \A g \in Live \ {h} : [routes EXCEPT ![h].pc = pc][g] = routes[g]
<1> DEFINE rs == [routes EXCEPT ![h].pc = pc]
<1>1. routes \in [Live -> Route] BY DEF TypeOK
<1>2. /\ rs \in [Live -> Route]
      /\ \A g \in Live \ {h} : rs[g] = routes[g]
  <2>1. rs \in [Live -> Route] BY ReassignedRoutes
  <2>2. \A g \in Live \ {h} : rs[g] = routes[g] BY ReassignedRoutes
  <2>3. QED BY <2>1, <2>2
<1>3. \A g \in Live : rs[g].client = routes[g].client BY <1>1 DEF Route
<1>4. \A g \in Live : rs[g].server = routes[g].server BY <1>1 DEF Route
<1>5. \A g \in Live : rs[g].conn = routes[g].conn BY <1>1 DEF Route
<1>6. \A g \in Live : rs[g].state = routes[g].state BY <1>1 DEF Route
<1> HIDE DEF rs
<1>7. QED BY <1>2, <1>3, <1>4, <1>5, <1>6 DEF rs

LEMMA AwaitedRoutes ==
  ASSUME NEW h \in Live, NEW rs \in [Live -> Route],
         \A g \in Live : /\ rs[g].client = routes[g].client
                         /\ rs[g].server = routes[g].server
                         /\ rs[g].conn = routes[g].conn,
         \A g \in Live \ {h} : rs[g] = routes[g],
         routes' = Awaiting(rs, h)
  PROVE  /\ Live' = Live
         /\ \A g \in Live \ {h} : routes'[g] = routes[g]
         /\ \A g \in Live : /\ routes'[g].client = routes[g].client
                            /\ routes'[g].server = routes[g].server
                            /\ routes'[g].conn = routes[g].conn
         /\ routes'[h].state = "PendingReassign"
<1>1. /\ DOMAIN routes' = Live
      /\ \A g \in Live : routes'[g].client = rs[g].client
      /\ \A g \in Live \ {h} : routes'[g] = rs[g]
      /\ routes'[h].state = "PendingReassign"
  BY AwaitingType
<1>2. \A g \in Live : /\ routes'[g].server = rs[g].server
                      /\ routes'[g].conn = rs[g].conn
  BY AwaitingKeeps
<1>3. Live' = Live BY <1>1 DEF Live
<1>4. QED BY <1>1, <1>2, <1>3

LEMMA FinalizedRoutes ==
  ASSUME NEW h \in Live, NEW rs \in [Live -> Route],
         \A g \in Live : /\ rs[g].client = routes[g].client
                         /\ rs[g].server = routes[g].server
                         /\ rs[g].conn = routes[g].conn,
         \A g \in Live \ {h} : rs[g] = routes[g],
         NEW prev \in Live, NEW game \in Live, prev # game, h \in {prev, game},
         routes' = Finalized(rs, prev, game)
  PROVE  /\ Live' = Live
         /\ \A g \in Live \ {prev, game} : routes'[g] = routes[g]
         /\ \A g \in Live : /\ routes'[g].client = routes[g].client
                            /\ routes'[g].server = routes[g].server
                            /\ routes'[g].conn = routes[g].conn
         /\ routes'[prev].state = "Connected" /\ routes'[game].state = "ConnectedPrimary"
<1>1. /\ DOMAIN routes' = Live
      /\ \A g \in Live : routes'[g].client = rs[g].client
      /\ \A g \in Live : g \notin {prev, game} => routes'[g] = rs[g]
  BY FinalizedType
<1>2. \A g \in Live : /\ routes'[g].server = rs[g].server
                      /\ routes'[g].conn = rs[g].conn
                      /\ routes'[g].state = IF g = game THEN "ConnectedPrimary"
                                            ELSE IF g = prev THEN "Connected" ELSE rs[g].state
  BY FinalizedKeeps
<1>3. Live' = Live BY <1>1 DEF Live
<1>4. QED BY <1>1, <1>2, <1>3

\* What a client gets out of a step of its own in the middle of a migration.
LEMMA EndOfMove ==
  ASSUME NEW c \in Clients, NEW f \in Ids, Moving(c, f), ~Gone(c),
         Live' = Live, \A g \in Live : /\ routes'[g].client = routes[g].client
                                       /\ routes'[g].server = routes[g].server,
         \A g \in Live \ {f, home[c]} : Same(g),
         routes'[f].state = "Connected", routes'[home[c]].state = "ConnectedPrimary",
         pcs'[f] = <<>>, pcs'[home[c]] = <<>>,
         f \notin primaryPlayers', home[c] \in primaryPlayers',
         primaryOf'[c] = home[c], deferred'[c] = NoReassignment,
         home'[c] = home[c], client'[c] = client[c]
  PROVE  SameServers(c) /\ ~Gone(c)' /\ Playing(c)'
<1>1. RoutesOf(c)' = RoutesOf(c) BY DEF RoutesOf, Live
<1>2. SameServers(c) /\ ~Gone(c)' BY DEF SameServers, Gone, RoutesOf
<1>3. \A g \in RoutesOf(c) \ {f, home[c]} : Bystander(g)'
  BY DEF Moving, RoutesOf, Same, Bystander
<1>4. Bystander(f)' BY DEF Bystander
<1>5. \A g \in RoutesOf(c)' \ {home'[c]} : Bystander(g)' BY <1>1, <1>3, <1>4
<1>6. Playing(c)' BY <1>1, <1>5 DEF Playing, Primary, Moving
<1>7. QED BY <1>2, <1>6

LEMMA MiddleOfMove ==
  ASSUME NEW c \in Clients, NEW f \in Ids, Moving(c, f), ~Gone(c),
         Live' = Live, \A g \in Live : /\ routes'[g].client = routes[g].client
                                       /\ routes'[g].server = routes[g].server,
         \A g \in Live \ {f, home[c]} : Same(g), f \in primaryPlayers',
         home'[c] = home[c], client'[c] = client[c]
  PROVE  SameServers(c) /\ ~Gone(c)' /\ Moving(c, f)'
<1>1. RoutesOf(c)' = RoutesOf(c) BY DEF RoutesOf, Live
<1>2. SameServers(c) /\ ~Gone(c)' BY DEF SameServers, Gone, RoutesOf
<1>3. \A g \in RoutesOf(c) \ {f, home[c]} : Bystander(g)'
  BY DEF Moving, RoutesOf, Same, Bystander
<1>4. routes'[f].server # routes'[home'[c]].server BY DEF Moving, RoutesOf
<1>5. \A g \in RoutesOf(c)' \ {f, home'[c]} : Bystander(g)' BY <1>1, <1>3
<1>6. QED BY <1>1, <1>2, <1>4, <1>5 DEF Moving

\* A no-pawn player controller arrives in the middle of a migration.
LEMMA ReassignNoPawnTurn ==
  ASSUME HandOverInv, NEW h \in Ids, ReassignNoPawn(h)
  PROVE  OneTurn /\ AssignedStates
<1>1. Received(h, "noPawn") /\ routes[h].state \in Established BY DEF ReassignNoPawn
<1>a. routes[h].client \in Clients BY <1>1, Tables, ReceivedLive DEF Established
<1>b. PICK c \in Clients : c = routes[h].client BY <1>a
<1> DEFINE rs   == [routes EXCEPT ![h].pc = "noPawn"]
           game == IF deferred[c].prev # NoId THEN NoId ELSE deferred[c].game
<1>2. /\ UNCHANGED <<primaryOf, client, home>>
      /\ game # NoId => /\ routes' = Finalized(rs, h, game)
                        /\ primaryPlayers' = primaryPlayers \ SteppedDown(h, game)
                        /\ deferred' = [deferred EXCEPT ![c] = NoReassignment]
      /\ game = NoId => /\ routes' = Awaiting(rs, h)
                        /\ deferred' = [deferred EXCEPT ![c] = [prev |-> h, game |-> NoId]]
                        /\ UNCHANGED primaryPlayers
  BY <1>b DEF ReassignNoPawn, clientVars
<1>3. /\ h \in Live /\ ~Gone(c) /\ h \in RoutesOf(c) /\ TypeOK
      /\ deferred \in [Clients -> Deferred] /\ Live \subseteq Ids
  BY <1>1, <1>b, Tables, ReceivedLive DEF Gone, RoutesOf, Established
<1>4. /\ \A g \in Ids \ {h} : pcs'[g] = pcs[g]
      /\ pcs[h] # <<>> /\ Head(pcs[h]) = "noPawn" /\ pcs'[h] = Tail(pcs[h])
  BY <1>1, <1>3, ReceivedQueue DEF Received
<1>5. /\ rs \in [Live -> Route]
      /\ \A g \in Live : /\ rs[g].client = routes[g].client
                         /\ rs[g].server = routes[g].server
                         /\ rs[g].conn = routes[g].conn
      /\ \A g \in Live \ {h} : rs[g] = routes[g]
  BY <1>3, NewController DEF PC
<1> HIDE DEF rs, game
<1>6. InPhase(c) BY <1>3 DEF HandOverInv, Phases, Gone
<1>7. ~Bystander(h) /\ ~Candidate(c, h)
  BY <1>1, <1>4 DEF Bystander, Candidate, Established
<1>8. Announced(c, h) \/ NewFirst(c, h)
  <2>1. ~Entering(c) BY <1>3, <1>7 DEF Entering
  <2>2. ~Playing(c) BY <1>3, <1>4, <1>7 DEF Playing
  <2>3. ASSUME NEW f \in Ids, Announced(c, f) \/ OldFirst(c, f) \/ NewFirst(c, f)
        PROVE  h = f /\ ~OldFirst(c, f)
    <3>1. h \in {f, home[c]} BY <1>3, <1>7, <2>3 DEF Announced, OldFirst, NewFirst, Moving
    <3>2. pcs[home[c]] = <<>> \/ pcs[home[c]] = <<"game">>
      BY <2>3 DEF Announced, OldFirst, NewFirst
    <3>3. h = f BY <1>4, <3>1, <3>2, OnlyController
    <3>4. QED BY <1>4, <3>3 DEF OldFirst
  <2>4. QED BY <1>6, <2>1, <2>2, <2>3 DEF InPhase
<1>9. pcs'[h] = <<>> /\ Moving(c, h) /\ home[c] \in Live /\ home[c] # h
  <2>1. pcs[h] = <<"noPawn">> BY <1>8 DEF Announced, NewFirst
  <2>2. QED BY <1>4, <1>8, <2>1, OnlyController DEF Announced, NewFirst, Moving, RoutesOf
<1>10. home'[c] = home[c] /\ client'[c] = client[c] BY <1>2
<1>11. CASE Announced(c, h)
  <2>1. game = NoId BY <1>11 DEF Announced, NoReassignment, game
  <2>2. /\ routes' = Awaiting(rs, h) /\ primaryPlayers' = primaryPlayers
        /\ deferred' = [deferred EXCEPT ![c] = [prev |-> h, game |-> NoId]]
    BY <1>2, <2>1
  <2>3. /\ Live' = Live
        /\ \A g \in Live \ {h} : routes'[g] = routes[g]
        /\ \A g \in Live : /\ routes'[g].client = routes[g].client
                           /\ routes'[g].server = routes[g].server
                           /\ routes'[g].conn = routes[g].conn
        /\ routes'[h].state = "PendingReassign"
    BY <1>3, <1>5, <2>2, AwaitedRoutes
  <2>4. \A g \in Live \ {h} : Same(g) BY <1>3, <1>4, <2>2, <2>3 DEF Same
  <2>5. h \in primaryPlayers' BY <1>9, <2>2 DEF Moving
  <2>6. SameServers(c) /\ ~Gone(c)' /\ Moving(c, h)'
    BY <1>3, <1>9, <1>10, <2>3, <2>4, <2>5, MiddleOfMove
  <2>7. deferred'[c] = [prev |-> h, game |-> NoId] /\ \A d \in Clients \ {c} : deferred'[d] = deferred[d]
    BY <1>3, <2>2
  <2>8. OldFirst(c, h)'
    BY <1>2, <1>9, <1>11, <2>2, <2>3, <2>4, <2>6, <2>7
       DEF OldFirst, Announced, Primary, Same
  <2>9. Turns(c) BY <1>3, <1>10, <1>11, <2>6, <2>8 DEF Turns
  <2>10. \A g \in Live : routes[g].client # c => Same(g) BY <1>b, <2>4
  <2>11. OneTurn BY <1>2, <2>3, <2>7, <2>9, <2>10, OneClient
  <2>12. AssignedStates
    <3>1. routes[h].conn
      BY <1>1, <1>3, OwnRoutes DEF Established, StillConnecting
    <3>2. QED BY <2>2, <2>3, <3>1 DEF AssignedStates, StillConnecting
  <2>13. QED BY <2>11, <2>12
<1>12. CASE NewFirst(c, h)
  <2>1. game = home[c] /\ game # NoId
    <3>1. deferred[c] = [prev |-> NoId, game |-> home[c]] BY <1>12 DEF NewFirst
    <3>2. deferred[c].prev = NoId /\ deferred[c].game = home[c] BY <3>1
    <3>3. home[c] # NoId BY <1>3, <1>9 DEF Ids
    <3>4. QED BY <3>2, <3>3 DEF game
  <2>2. /\ routes' = Finalized(rs, h, home[c])
        /\ primaryPlayers' = primaryPlayers \ {h}
        /\ deferred' = [deferred EXCEPT ![c] = NoReassignment]
    BY <1>2, <1>9, <2>1 DEF SteppedDown
  <2>3. /\ Live' = Live
        /\ \A g \in Live \ {h, home[c]} : routes'[g] = routes[g]
        /\ \A g \in Live : /\ routes'[g].client = routes[g].client
                           /\ routes'[g].server = routes[g].server
                           /\ routes'[g].conn = routes[g].conn
        /\ routes'[h].state = "Connected" /\ routes'[home[c]].state = "ConnectedPrimary"
    BY <1>3, <1>5, <1>9, <2>2, FinalizedRoutes
  <2>4. \A g \in Live \ {h, home[c]} : Same(g) BY <1>3, <1>4, <2>2, <2>3 DEF Same
  <2>5. /\ deferred'[c] = NoReassignment
        /\ \A d \in Clients \ {c} : deferred'[d] = deferred[d]
    BY <1>3, <2>2
  <2>6. /\ pcs'[home[c]] = <<>> /\ h \notin primaryPlayers' /\ home[c] \in primaryPlayers'
        /\ primaryOf'[c] = home[c]
    BY <1>2, <1>3, <1>4, <1>9, <1>12, <2>2 DEF NewFirst
  <2>7. SameServers(c) /\ ~Gone(c)' /\ Playing(c)'
    BY <1>3, <1>9, <1>10, <2>3, <2>4, <2>5, <2>6, EndOfMove
  <2>8. Turns(c) BY <1>3, <1>10, <1>12, <2>7 DEF Turns
  <2>9. \A g \in Live : routes[g].client # c => Same(g) BY <1>b, <1>9, <2>4 DEF Moving, RoutesOf
  <2>10. OneTurn BY <1>2, <2>3, <2>5, <2>8, <2>9, OneClient
  <2>11. AssignedStates
    <3>1. routes[h].conn /\ routes[home[c]].conn
      <4>1. /\ routes[h].state \notin StillConnecting
            /\ routes[home[c]].state \notin StillConnecting
            /\ home[c] \in RoutesOf(c)
        BY <1>12 DEF NewFirst, Moving, StillConnecting
      <4>2. QED BY <1>3, <4>1, OwnRoutes
    <3>2. QED BY <2>2, <2>3, <3>1 DEF AssignedStates, StillConnecting
  <2>12. QED BY <2>10, <2>11
<1>13. QED BY <1>8, <1>11, <1>12

\* The player controller of the game arrives in the middle of a migration.
LEMMA ReassignGameTurn ==
  ASSUME HandOverInv, NEW h \in Ids, ReassignGame(h)
  PROVE  OneTurn /\ AssignedStates
<1>1. Received(h, "game") /\ routes[h].state \in Established BY DEF ReassignGame
<1>a. routes[h].client \in Clients BY <1>1, Tables, ReceivedLive DEF Established
<1>b. PICK c \in Clients : c = routes[h].client BY <1>a
<1> DEFINE rs   == [routes EXCEPT ![h].pc = "game"]
           prev == IF deferred[c].game # NoId THEN NoId ELSE deferred[c].prev
<1>2. /\ UNCHANGED <<client, home>>
      /\ primaryOf' = [primaryOf EXCEPT ![c] = h]
      /\ prev # NoId => /\ routes' = Finalized(rs, prev, h)
                        /\ primaryPlayers' = (primaryPlayers \cup {h}) \ SteppedDown(prev, h)
                        /\ deferred' = [deferred EXCEPT ![c] = NoReassignment]
      /\ prev = NoId => /\ routes' = Awaiting(rs, h)
                        /\ primaryPlayers' = primaryPlayers \cup {h}
                        /\ deferred' = [deferred EXCEPT ![c] = [prev |-> NoId, game |-> h]]
  BY <1>b DEF ReassignGame, clientVars
<1>3. /\ h \in Live /\ ~Gone(c) /\ h \in RoutesOf(c) /\ TypeOK
      /\ deferred \in [Clients -> Deferred] /\ Live \subseteq Ids
      /\ primaryOf \in [Clients -> Ids \cup {NoId}]
  BY <1>1, <1>b, Tables, ReceivedLive DEF Gone, RoutesOf, Established
<1>4. /\ \A g \in Ids \ {h} : pcs'[g] = pcs[g]
      /\ pcs[h] # <<>> /\ Head(pcs[h]) = "game" /\ pcs'[h] = Tail(pcs[h])
  BY <1>1, <1>3, ReceivedQueue DEF Received
<1>5. /\ rs \in [Live -> Route]
      /\ \A g \in Live : /\ rs[g].client = routes[g].client
                         /\ rs[g].server = routes[g].server
                         /\ rs[g].conn = routes[g].conn
      /\ \A g \in Live \ {h} : rs[g] = routes[g]
  BY <1>3, NewController DEF PC
<1> HIDE DEF rs, prev
<1>6. InPhase(c) BY <1>3 DEF HandOverInv, Phases, Gone
<1>7. ~Bystander(h) /\ ~Candidate(c, h)
  BY <1>1, <1>4 DEF Bystander, Candidate, Established
<1>8. PICK f \in Ids : h = home[c] /\ (Announced(c, f) \/ OldFirst(c, f))
  <2>1. ~Entering(c) BY <1>3, <1>7 DEF Entering
  <2>2. ~Playing(c) BY <1>3, <1>4, <1>7 DEF Playing
  <2>3. ASSUME NEW f \in Ids, Announced(c, f) \/ OldFirst(c, f) \/ NewFirst(c, f)
        PROVE  h = home[c] /\ ~NewFirst(c, f)
    <3>1. h \in {f, home[c]} BY <1>3, <1>7, <2>3 DEF Announced, OldFirst, NewFirst, Moving
    <3>2. pcs[f] = <<>> \/ pcs[f] = <<"noPawn">>
      BY <2>3 DEF Announced, OldFirst, NewFirst
    <3>3. h = home[c] BY <1>4, <3>1, <3>2, OnlyController
    <3>4. QED BY <1>4, <3>3 DEF NewFirst
  <2>4. QED BY <1>6, <2>1, <2>2, <2>3 DEF InPhase
<1>9. pcs'[h] = <<>> /\ Moving(c, f) /\ f \in Live /\ f # h
  <2>1. pcs[h] = <<"game">> BY <1>8 DEF Announced, OldFirst
  <2>2. QED BY <1>4, <1>8, <2>1, OnlyController DEF Announced, OldFirst, Moving, RoutesOf
<1>10. home'[c] = home[c] /\ client'[c] = client[c] BY <1>2
<1>11. primaryOf'[c] = h /\ \A d \in Clients \ {c} : primaryOf'[d] = primaryOf[d] BY <1>2, <1>3
<1>12. CASE Announced(c, f)
  <2>1. prev = NoId BY <1>12 DEF Announced, NoReassignment, prev
  <2>2. /\ routes' = Awaiting(rs, h) /\ primaryPlayers' = primaryPlayers \cup {h}
        /\ deferred' = [deferred EXCEPT ![c] = [prev |-> NoId, game |-> h]]
    BY <1>2, <2>1
  <2>3. /\ Live' = Live
        /\ \A g \in Live \ {h} : routes'[g] = routes[g]
        /\ \A g \in Live : /\ routes'[g].client = routes[g].client
                           /\ routes'[g].server = routes[g].server
                           /\ routes'[g].conn = routes[g].conn
        /\ routes'[h].state = "PendingReassign"
    BY <1>3, <1>5, <2>2, AwaitedRoutes
  <2>4. \A g \in Live \ {h} : Same(g) BY <1>3, <1>4, <2>2, <2>3 DEF Same
  <2>5. f \in primaryPlayers' /\ h \in primaryPlayers' BY <1>9, <2>2 DEF Moving
  <2>6. SameServers(c) /\ ~Gone(c)' /\ Moving(c, f)'
    BY <1>3, <1>8, <1>9, <1>10, <2>3, <2>4, <2>5, MiddleOfMove
  <2>7. deferred'[c] = [prev |-> NoId, game |-> h] /\ \A d \in Clients \ {c} : deferred'[d] = deferred[d]
    BY <1>3, <2>2
  <2>8. NewFirst(c, f)'
    <3>1. pcs'[f] = <<"noPawn">> /\ routes'[f].state = "ConnectedPrimary"
      BY <1>9, <1>12, <2>4 DEF Announced, Primary, Same
    <3>2. QED BY <1>8, <1>9, <1>10, <1>11, <2>3, <2>5, <2>6, <2>7, <3>1 DEF NewFirst
  <2>9. Turns(c) BY <1>3, <1>10, <1>12, <2>6, <2>8 DEF Turns
  <2>10. \A g \in Live : routes[g].client # c => Same(g) BY <1>b, <2>4
  <2>11. OneTurn BY <1>2, <1>11, <2>3, <2>7, <2>9, <2>10, OneClient
  <2>12. AssignedStates
    <3>1. routes[h].conn
      BY <1>1, <1>3, OwnRoutes DEF Established, StillConnecting
    <3>2. QED BY <1>3, <2>2, <2>3, <3>1 DEF AssignedStates, StillConnecting
  <2>13. QED BY <2>11, <2>12
<1>13. CASE OldFirst(c, f)
  <2>1. prev = f /\ prev # NoId
    <3>1. deferred[c] = [prev |-> f, game |-> NoId] BY <1>13 DEF OldFirst
    <3>2. deferred[c].prev = f /\ deferred[c].game = NoId BY <3>1
    <3>3. f # NoId BY DEF Ids
    <3>4. QED BY <3>2, <3>3 DEF prev
  <2>2. /\ routes' = Finalized(rs, f, h)
        /\ primaryPlayers' = (primaryPlayers \cup {h}) \ {f}
        /\ deferred' = [deferred EXCEPT ![c] = NoReassignment]
    BY <1>2, <1>9, <2>1 DEF SteppedDown
  <2>3. /\ Live' = Live
        /\ \A g \in Live \ {f, h} : routes'[g] = routes[g]
        /\ \A g \in Live : /\ routes'[g].client = routes[g].client
                           /\ routes'[g].server = routes[g].server
                           /\ routes'[g].conn = routes[g].conn
        /\ routes'[f].state = "Connected" /\ routes'[h].state = "ConnectedPrimary"
    BY <1>3, <1>5, <1>9, <2>2, FinalizedRoutes
  <2>4. \A g \in Live \ {f, h} : Same(g) BY <1>3, <1>4, <2>2, <2>3 DEF Same
  <2>5. /\ deferred'[c] = NoReassignment
        /\ \A d \in Clients \ {c} : deferred'[d] = deferred[d]
    BY <1>3, <2>2
  <2>6. pcs'[f] = <<>> /\ f \notin primaryPlayers' /\ h \in primaryPlayers'
    BY <1>4, <1>9, <1>13, <2>2 DEF OldFirst
  <2>7. SameServers(c) /\ ~Gone(c)' /\ Playing(c)'
    BY <1>3, <1>8, <1>9, <1>10, <1>11, <2>3, <2>4, <2>5, <2>6, EndOfMove
  <2>8. Turns(c) BY <1>3, <1>10, <1>13, <2>7 DEF Turns
  <2>9. \A g \in Live : routes[g].client # c => Same(g) BY <1>b, <1>9, <2>4 DEF Moving, RoutesOf
  <2>10. OneTurn BY <1>2, <1>11, <2>3, <2>5, <2>8, <2>9, OneClient
  <2>11. AssignedStates
    <3>1. routes[h].conn /\ routes[f].conn
      <4>1. /\ routes[h].state \notin StillConnecting
            /\ routes[f].state \notin StillConnecting
            /\ f \in RoutesOf(c)
        BY <1>8, <1>13 DEF OldFirst, Moving, StillConnecting
      <4>2. QED BY <1>3, <4>1, OwnRoutes
    <3>2. QED BY <1>3, <2>2, <2>3, <3>1 DEF AssignedStates, StillConnecting
  <2>12. QED BY <2>10, <2>11
<1>14. QED BY <1>8, <1>12, <1>13

\* The route of a departed client goes away when its handshake completes.
LEMMA AssignPendingCloseTurn ==
  ASSUME HandOverInv, NEW h \in Ids, AssignPendingClose(h)
  PROVE  OneTurn
<1>1. Live' = Live \ {h} /\ \A g \in Live' : routes'[g] = routes[g]
  BY DEF AssignPendingClose, Live, Restrict
<1>2. /\ h \in Live /\ routes[h].state = "PendingClose"
      /\ pcs' = [pcs EXCEPT ![h] = <<>>]
      /\ UNCHANGED <<primaryPlayers, primaryOf, deferred, client, home>>
  BY DEF AssignPendingClose, primVars, clientVars
<1>3. /\ client[routes[h].client] = "closed"
      /\ pcs \in [Ids -> Seq(PC)] /\ Live \subseteq Ids
  BY <1>2, Tables DEF RouteInv, DepartedClients
<1>4. \A g \in Live' : Same(g) BY <1>1, <1>2, <1>3 DEF Same
<1>5. ASSUME NEW d \in Clients PROVE Still(d)
  <2>1. CASE Gone(d)
    <3>1. RoutesOf(d) \cap primaryPlayers = {} BY <2>1 DEF HandOverInv, Phases, Gone
    <3>2. RoutesOf(d)' \subseteq RoutesOf(d) BY <1>1 DEF RoutesOf
    <3>3. QED BY <1>2, <2>1, <3>1, <3>2 DEF Still, StaysGone, Gone
  <2>2. CASE ~Gone(d)
    <3>1. h \notin RoutesOf(d) BY <1>3, <2>2 DEF RoutesOf, Gone
    <3>2. RoutesOf(d)' = RoutesOf(d) BY <1>1, <3>1 DEF RoutesOf
    <3>3. \A g \in RoutesOf(d) : Same(g) BY <1>1, <1>4, <3>1 DEF RoutesOf
    <3>4. QED BY <1>2, <3>2, <3>3, OtherClient
  <2>3. QED BY <2>1, <2>2
<1>6. QED BY <1>5 DEF OneTurn

\* A route that waits for its handshake was never a primary one.
LEMMA WaitingRoutes ==
  ASSUME NEW c, InPhase(c), NEW g \in RoutesOf(c), routes[g].state \in StillConnecting
  PROVE  g \notin primaryPlayers
<1>1. Entering(c) => g \notin primaryPlayers BY DEF Entering, Bystander, Candidate
<1>2. Playing(c) => g \notin primaryPlayers
  BY DEF Playing, Bystander, Primary, StillConnecting
<1>3. \A f \in Ids : Announced(c, f) \/ OldFirst(c, f) \/ NewFirst(c, f) =>
         g \notin primaryPlayers
  BY DEF Announced, OldFirst, NewFirst, Moving, Bystander, Primary, StillConnecting
<1>4. QED BY <1>1, <1>2, <1>3 DEF InPhase

\* A client leaves: none of the routes it leaves behind was ever a primary one.
LEMMA HandleClosedTurn ==
  ASSUME HandOverInv, NEW c \in Clients, HandleClosedProxyConnection(c)
  PROVE  /\ OneTurn
         /\ Live' \subseteq Live
         /\ \A h \in Live' : \/ routes'[h] = routes[h]
                             \/ routes'[h].state = "PendingClose"
<1> DEFINE closed == {h \in RoutesOf(c) : routes[h].state \notin StillConnecting}
<1>1. /\ client[c] # "closed"
      /\ client' = [client EXCEPT ![c] = "closed"]
      /\ routes' = [h \in Live \ closed |->
                      IF routes[h].client = c
                        THEN [routes[h] EXCEPT !.state = "PendingClose"] ELSE routes[h]]
      /\ pcs' = [h \in Ids |-> IF h \in closed THEN <<>> ELSE pcs[h]]
      /\ primaryOf' = [primaryOf EXCEPT ![c] = NoId]
      /\ home' = [home EXCEPT ![c] = NoId]
      /\ deferred' = [deferred EXCEPT ![c] = NoReassignment]
      /\ UNCHANGED primaryPlayers
  BY DEF HandleClosedProxyConnection
<1>2. /\ Live \subseteq Ids /\ home \in [Clients -> Ids \cup {NoId}]
      /\ primaryOf \in [Clients -> Ids \cup {NoId}]
      /\ client \in [Clients -> {"offline", "accepted", "joined", "closed"}]
      /\ deferred \in [Clients -> Deferred]
      /\ \A h \in Live : routes[h] \in Route
  BY Tables
<1>3. \A h \in RoutesOf(c) \ closed : routes[h].state \in StillConnecting OBVIOUS
<1>4. \A h \in closed : h \in RoutesOf(c) OBVIOUS
<1> HIDE DEF closed
<1>5. Live' = Live \ closed BY <1>1 DEF Live
<1>6. \A h \in Live' : routes[h].client # c => routes'[h] = routes[h] BY <1>1, <1>5
<1>7. ASSUME NEW h \in Live', routes[h].client = c
      PROVE  routes'[h].client = c /\ routes'[h].state = "PendingClose"
  <2>1. routes'[h] = [routes[h] EXCEPT !.state = "PendingClose"] BY <1>1, <1>5, <1>7
  <2>2. h \in Live /\ routes[h] \in Route BY <1>2, <1>5
  <2>3. QED BY <1>7, <2>1, <2>2, StateChange DEF RouteState
<1>8. Leaves(c)
  <2>1. ~Gone(c) /\ Gone(c)' BY <1>1, <1>2 DEF Gone
  <2>2. InPhase(c) BY <2>1 DEF HandOverInv, Phases, Gone
  <2>3. ASSUME NEW g \in RoutesOf(c), routes[g].state \in StillConnecting
        PROVE  g \notin primaryPlayers
    BY <2>2, <2>3, WaitingRoutes
  <2>4. RoutesOf(c)' \subseteq RoutesOf(c) \ closed BY <1>5, <1>6 DEF RoutesOf
  <2>5. QED BY <1>1, <1>3, <2>1, <2>3, <2>4 DEF Leaves
<1>9. ASSUME NEW d \in Clients \ {c} PROVE Still(d)
  <2>1. /\ client'[d] = client[d] /\ primaryOf'[d] = primaryOf[d]
        /\ deferred'[d] = deferred[d] /\ home'[d] = home[d]
    BY <1>1, <1>2
  <2>2. RoutesOf(d)' = RoutesOf(d)
    <3>1. \A h \in Live' : routes'[h].client = routes[h].client BY <1>6, <1>7
    <3>2. \A h \in Live : routes[h].client = d => h \in Live' BY <1>4, <1>5 DEF RoutesOf
    <3>3. QED BY <1>5, <3>1, <3>2 DEF RoutesOf
  <2>3. \A g \in RoutesOf(d) : Same(g)
    <3>1. \A g \in RoutesOf(d) : g \in Live' /\ g \notin closed /\ routes[g].client # c
      BY <1>4, <1>5 DEF RoutesOf
    <3>2. QED BY <1>1, <1>2, <1>6, <3>1 DEF Same, RoutesOf
  <2>4. QED BY <2>1, <2>2, <2>3, OtherClient
<1>10. OneTurn BY <1>8, <1>9 DEF OneTurn
<1>11. QED BY <1>5, <1>6, <1>7, <1>10

\* A migration begins when the last one is over, between two routes that are connected.
LEMMA MigrateTurn ==
  ASSUME HandOverInv, Ordered, NEW c \in Clients, NEW h \in Ids, Migrate(c, h)
  PROVE  OneTurn
<1>1. /\ Running /\ home[c] # NoId /\ h \in RoutesOf(c)
      /\ routes[h].server # routes[home[c]].server
      /\ parent[routes[h].server] = "open" /\ h \notin closedChildren /\ ~Requested(h)
      /\ Seen(c)
      /\ home' = [home EXCEPT ![c] = h]
      /\ UNCHANGED <<routes, primaryPlayers, primaryOf, deferred, client>>
  BY DEF Migrate, Ordered, primVars, clientVars
<1>2. pcs' = [g \in Ids |-> IF g = home[c] THEN Append(pcs[g], "noPawn")
                            ELSE IF g = h THEN Append(pcs[g], "game") ELSE pcs[g]]
  BY DEF Migrate, Ordered
<1>3. /\ home \in [Clients -> Ids \cup {NoId}] /\ Live \subseteq Ids
      /\ client[c] # "closed" /\ \A d \in Clients : home[d] # NoId =>
            home[d] \in Live /\ routes[home[d]].client = d
      /\ OpenHandshakes
  BY <1>1, Tables DEF Handshakes, Homes
<1>4. home[c] \in RoutesOf(c) /\ home[c] # h BY <1>1, <1>3 DEF RoutesOf
<1>5. \A g \in RoutesOf(c) : pcs[g] = <<>> BY <1>1 DEF Seen
<1>6. Playing(c)
  <2>1. InPhase(c) BY <1>3 DEF HandOverInv, Phases
  <2>2. ~Entering(c) BY <1>1, <1>4, <1>5, OnlyController DEF Entering, Candidate
  <2>3. \A f \in Ids : ~Announced(c, f) /\ ~OldFirst(c, f) /\ ~NewFirst(c, f)
    BY <1>5, OnlyController DEF Announced, OldFirst, NewFirst, Moving
  <2>4. QED BY <2>1, <2>2, <2>3 DEF InPhase
<1>7. Bystander(h) BY <1>1, <1>4, <1>6 DEF Playing
<1>8. routes[h].state = "Connected" /\ pcs[h] = <<>>
  <2>1. pcs[h] = <<>> BY <1>1, <1>5
  <2>2. routes[h].conn
    BY <1>1, <1>3, <2>1 DEF OpenHandshakes, RoutesOf
  <2>3. routes[h].state \notin StillConnecting BY <1>1, <1>3, <2>2, OwnRoutes DEF Gone
  <2>4. QED BY <1>7, <2>1, <2>3 DEF Bystander, StillConnecting
<1>9. PICK f \in Ids : f = home[c] BY <1>1, <1>3
<1>10. pcs'[f] = <<"noPawn">> /\ pcs'[h] = <<"game">>
  <2>1. pcs[f] = <<>> BY <1>4, <1>5, <1>9
  <2>2. pcs'[f] = Append(<<>>, "noPawn") /\ pcs'[h] = Append(<<>>, "game")
    BY <1>2, <1>4, <1>8, <1>9, <2>1
  <2>3. QED BY <2>2
<1>11. \A g \in Live \ {f, h} : Same(g) BY <1>1, <1>2, <1>3, <1>9 DEF Same
<1>12. Live' = Live /\ home'[c] = h /\ \A d : RoutesOf(d)' = RoutesOf(d)
  BY <1>1, <1>3 DEF Live, RoutesOf
<1>13. Announced(c, f)'
  <2>1. \A g \in RoutesOf(c) \ {f, h} : Bystander(g)'
    BY <1>6, <1>9, <1>11 DEF Playing, Same, Bystander, RoutesOf
  <2>2. Primary(c, f)' BY <1>1, <1>6, <1>9, <1>12 DEF Playing, Primary
  <2>3. h \notin primaryPlayers BY <1>7 DEF Bystander
  <2>4. Moving(c, f)'
    BY <1>1, <1>4, <1>6, <1>9, <1>12, <2>1 DEF Moving, Playing, Primary
  <2>5. QED BY <1>1, <1>6, <1>8, <1>10, <1>12, <2>2, <2>3, <2>4 DEF Announced, Playing
<1>14. Turns(c)
  <2>1. SameServers(c) BY <1>1 DEF SameServers
  <2>2. ~Gone(c) /\ ~Gone(c)' BY <1>1, <1>3 DEF Gone
  <2>3. QED BY <1>6, <1>9, <1>13, <2>1, <2>2 DEF Turns
<1>15. \A d \in Clients \ {c} : home'[d] = home[d] BY <1>1, <1>3
<1>16. \A g \in Live : routes[g].client # c => Same(g) BY <1>1, <1>4, <1>9, <1>11 DEF RoutesOf
<1>17. QED BY <1>1, <1>12, <1>14, <1>15, <1>16, OneClient

-----------------------------------------------------------------------------
(* The invariant.                                                          *)

LEMMA OneTurnPhases ==
  ASSUME OneTurn
  PROVE  Phases'
<1>1. \A c \in Clients : Still(c) \/ Leaves(c) \/ Turns(c) BY DEF OneTurn
<1>2. ASSUME NEW c \in Clients
      PROVE  IF client'[c] = "closed" THEN RoutesOf(c)' \cap primaryPlayers' = {}
                                      ELSE InPhase(c)'
  <2>1. CASE Stays(c) BY <2>1 DEF Stays, InPhase, Gone
  <2>2. CASE StaysGone(c) \/ Leaves(c) BY <2>2 DEF StaysGone, Leaves, Gone
  <2>3. CASE Turns(c) BY <2>3 DEF Turns, InPhase, Gone
  <2>4. QED BY <1>1, <2>1, <2>2, <2>3 DEF Still
<1>3. QED BY <1>2 DEF Phases

LEMMA InitHandOver == Init => HandOverInv
<1> SUFFICES ASSUME Init PROVE HandOverInv OBVIOUS
<1>1. HandshakeInv BY InitHandshakes, InitType, InitRouteInv DEF HandshakeInv, RouteInv
<1>2. /\ routes = <<>> /\ closedChildren = {} /\ primaryPlayers = {}
      /\ parent = [s \in Servers |->
                     IF s \in Range(StartupServers) THEN "none" ELSE "unregistered"]
      /\ splitJoins = [s \in Servers |-> {}]
      /\ home = [c \in Clients |-> NoId] /\ deferred = [c \in Clients |-> NoReassignment]
      /\ primaryOf = [c \in Clients |-> NoId] /\ client = [c \in Clients |-> "offline"]
  BY DEF Init
<1>3. Live = {} /\ \A c : RoutesOf(c) = {} BY <1>2 DEF Live, RoutesOf
<1>4. Orderly
  BY <1>2, <1>3 DEF Orderly, NewIds, QueuedKinds, Children, NothingLost
<1>5. \A c \in Clients : Entering(c) BY <1>2, <1>3 DEF Entering
<1>6. Phases BY <1>2, <1>5 DEF Phases, InPhase
<1>7. QED BY <1>1, <1>4, <1>6 DEF HandOverInv

LEMMA NextHandOver ==
  ASSUME Ordered, HandOverInv, [Next]_vars, LossFree
  PROVE  HandOverInv' /\ OneTurn
<1>1. HandshakeInv' BY NextHandshakeInv DEF HandOverInv
<1>2. TypeOK /\ NothingLost /\ Orderly BY Tables DEF HandOverInv, Orderly
<1>3. ASSUME Orderly', OneTurn PROVE HandOverInv' /\ OneTurn
  BY <1>1, <1>3, OneTurnPhases DEF HandOverInv
<1>4. ASSUME NEW c \in Clients, Accept(c) PROVE Orderly' /\ OneTurn
  <2>1. /\ Running /\ client[c] = "offline" /\ client' = [client EXCEPT ![c] = "accepted"]
        /\ UNCHANGED <<serverVars, routes, joinVars, primVars, fault, envVars>>
    BY <1>4 DEF Accept
  <2>2. /\ Running' /\ Live' = Live
        /\ UNCHANGED <<parent, splitJoins, routes, nextId, primaryPlayers, pcs, home,
                       closedChildren>>
    BY <2>1 DEF Running, Live, serverVars, joinVars, primVars, envVars
  <2>3. Orderly' BY <1>1, <2>2, KeptOrderly
  <2>4. \A d \in Clients : client'[d] = client[d] \/ (client[d] = "offline" /\ client'[d] = "accepted")
    BY <2>1, Tables
  <2>5. OneTurn BY <2>1, <2>2, <2>4, SameTablesTurn
  <2>6. QED BY <2>3, <2>5
<1>5. ASSUME NEW c \in Clients, Join(c) PROVE Orderly' /\ OneTurn
  BY <1>5, JoinTurn, NewRoutesOrderly
<1>6. ASSUME NEW c \in Clients, HandleClosedProxyConnection(c) PROVE Orderly' /\ OneTurn
  <2>1. /\ Running' /\ UNCHANGED <<parent, splitJoins, nextId, primaryPlayers, closedChildren>>
    BY <1>6 DEF HandleClosedProxyConnection, Running, serverVars, joinVars
  <2>2. /\ OneTurn /\ Live' \subseteq Live
        /\ \A h \in Live' : routes'[h] = routes[h] \/ routes'[h].state = "PendingClose"
    BY <1>6, HandleClosedTurn
  <2>3. Orderly' BY <1>1, <2>1, <2>2, KeptOrderly
  <2>4. QED BY <2>2, <2>3
<1>7. ASSUME NEW s \in Servers, ParentConnected(s) PROVE Orderly' /\ OneTurn
  <2>1. /\ Running' /\ Live' = Live
        /\ parent' = [parent EXCEPT ![s] = "open"]
        /\ splitJoins' = [splitJoins EXCEPT ![s] = {}]
        /\ UNCHANGED <<routes, nextId, primaryPlayers, closedChildren>>
    BY <1>7 DEF ParentConnected, Running, Live, joinVars, primVars
  <2>2. \A q \in Servers : splitJoins'[q] \subseteq splitJoins[q] /\ parent'[q] \in {parent[q], "open"}
    BY <1>2, <2>1 DEF TypeOK
  <2>3. Orderly' BY <1>1, <2>1, <2>2, KeptOrderly
  <2>4. QED BY <1>7, <2>3, ParentConnectedTurn
<1>8. ASSUME NEW s \in Servers, RegisterGameServer(s) PROVE Orderly' /\ OneTurn
  <2>1. /\ Running' /\ Live' = Live
        /\ parent' = [parent EXCEPT ![s] = "none"]
        /\ UNCHANGED <<splitJoins, routes, nextId, primVars, client, pcs, home, primaryPlayers,
                       closedChildren>>
    BY <1>8 DEF RegisterGameServer, Running, Live, joinVars, primVars, clientVars, envVars
  <2>2. \A q \in Servers : parent'[q] \in {parent[q], "none"} BY <1>2, <2>1 DEF TypeOK
  <2>3. Orderly' BY <1>1, <2>1, <2>2, KeptOrderly
  <2>4. OneTurn BY <2>1, SameTablesTurn
  <2>5. QED BY <2>3, <2>4
<1>9. ASSUME NEW s \in Servers, RegisterGameServerAndConnectClients(s)
      PROVE  Orderly' /\ OneTurn
  BY <1>9, RegisterAndConnectTurn, NewRoutesOrderly
<1>10. ASSUME NEW h \in Ids, GameServerAssignPlayerController(h), ~AssignPendingClose(h)
       PROVE  Orderly' /\ OneTurn
  <2>1. OneTurn /\ AssignedStates
    BY <1>10, AssignConnectingTurn, AssignConnectingPrimaryTurn, ReassignNoPawnTurn,
       ReassignGameTurn DEF GameServerAssignPlayerController
  <2>2. /\ Running' /\ UNCHANGED <<parent, splitJoins, nextId, closedChildren>>
    BY <1>10 DEF GameServerAssignPlayerController, AssignConnecting, AssignConnectingPrimary,
                 ReassignNoPawn, ReassignGame, Received, Running, serverVars, joinVars
  <2>3. Orderly' BY <1>1, <2>1, <2>2, KeptOrderly DEF AssignedStates
  <2>4. QED BY <2>1, <2>3
<1>11. ASSUME NEW h \in Ids, AssignPendingClose(h) PROVE Orderly' /\ OneTurn
  <2>1. Live' \subseteq Live /\ \A g \in Live' : routes'[g] = routes[g]
    BY <1>11 DEF AssignPendingClose, Live, Restrict
  <2>2. Running' /\ UNCHANGED <<parent, splitJoins, nextId, primaryPlayers, closedChildren>>
    BY <1>11 DEF AssignPendingClose, Running, serverVars, joinVars, primVars
  <2>3. Orderly' BY <1>1, <2>1, <2>2, KeptOrderly
  <2>4. QED BY <1>11, <2>3, AssignPendingCloseTurn
<1>12. ASSUME NEW c \in Clients, NEW h \in Ids, Migrate(c, h) PROVE Orderly' /\ OneTurn
  <2>1. /\ Running' /\ Live' = Live
        /\ UNCHANGED <<parent, splitJoins, routes, nextId, primaryPlayers, closedChildren>>
    BY <1>12 DEF Migrate, Running, Live, serverVars, joinVars, primVars
  <2>2. Orderly' BY <1>1, <2>1, KeptOrderly
  <2>3. QED BY <1>12, <2>2, MigrateTurn
<1>13. ASSUME Halts PROVE Orderly' /\ OneTurn
  <2>1. UNCHANGED <<parent, splitJoins, routes, nextId, primVars, primaryPlayers, client, pcs,
                    home, closedChildren>>
    BY <1>13 DEF Halts, serverVars, joinVars, primVars, clientVars, envVars
  <2>2. Orderly'
    BY <1>2, <2>1 DEF Orderly, NewIds, QueuedKinds, Children, NothingLost, Live
  <2>3. OneTurn BY <2>1, SameTablesTurn
  <2>4. QED BY <2>2, <2>3
<1>14. Orderly' /\ OneTurn
  BY <1>4, <1>5, <1>6, <1>7, <1>8, <1>9, <1>10, <1>11, <1>12, <1>13 DEF LossFree
<1>15. QED BY <1>3, <1>14

LEMMA CalmHandOver ==
  ASSUME Calm, HandOverInv, [Next]_vars
  PROVE  HandOverInv' /\ OneTurn
<1>1. Ordered BY DEF Calm, Ordered
<1>2. LossFree BY Tables, CalmNext DEF HandOverInv, Orderly
<1>3. QED BY <1>1, <1>2, NextHandOver

THEOREM HandOverInvariant ==
  ASSUME Calm
  PROVE  Spec => []HandOverInv
<1>1. Init => HandOverInv BY InitHandOver
<1>2. HandOverInv /\ [Next]_vars => HandOverInv' BY CalmHandOver
<1>3. QED BY <1>1, <1>2, PTL DEF Spec

-----------------------------------------------------------------------------
(* What follows from it.                                                   *)

LEMMA QuietInPhase ==
  ASSUME HandOverInv, NEW c \in Clients, Quiet(c)
  PROVE  Playing(c)
<1>1. /\ client[c] = "joined" /\ home[c] # NoId
      /\ \A h \in RoutesOf(c) : pcs[h] = <<>> /\ routes[h].state \notin StillConnecting
  BY DEF Quiet
<1>2. InPhase(c) BY <1>1 DEF HandOverInv, Phases
<1>3. ~Entering(c) BY <1>1 DEF Entering, Candidate, StillConnecting
<1>4. \A f \in Ids : ~Announced(c, f) /\ ~OldFirst(c, f) /\ ~NewFirst(c, f)
  BY <1>1, OnlyController DEF Announced, OldFirst, NewFirst, Moving
<1>5. QED BY <1>2, <1>3, <1>4 DEF InPhase

LEMMA PhasesSettle == HandOverInv => QuietClientsAreSettled
<1>1. ASSUME HandOverInv, NEW c \in Clients, Quiet(c) PROVE Settled(c)
  <2>1. Playing(c) /\ closedChildren = {}
    BY <1>1, QuietInPhase DEF HandOverInv, Orderly, NothingLost
  <2>2. Reached(c) BY <2>1 DEF Playing, Primary, Reached, ClientRPCForwarded
  <2>3. primaryPlayers \cap RoutesOf(c) = {home[c]}
    BY <2>1 DEF Playing, Primary, Bystander
  <2>4. \A h \in RoutesOf(c) : routes[h].state = "ConnectedPrimary" => h = home[c]
    BY <2>1 DEF Playing, Bystander
  <2>5. QED BY <2>1, <2>2, <2>3, <2>4 DEF Settled, Playing, Primary
<1>2. QED BY <1>1 DEF QuietClientsAreSettled

LEMMA PhasesSpeak == HandOverInv => OneControllerSpeaks /\ LeftServersFallSilent
<1>1. ASSUME HandOverInv, NEW c \in Clients, NEW g \in RoutesOf(c), NEW h \in RoutesOf(c),
             ServerRPCForwarded(g, "controller"), ServerRPCForwarded(h, "controller")
      PROVE  g = h
  <2>1. /\ g \in primaryPlayers /\ routes[g].state = "ConnectedPrimary"
        /\ h \in primaryPlayers /\ routes[h].state = "ConnectedPrimary"
    BY <1>1 DEF ServerRPCForwarded
  <2>2. InPhase(c) BY <1>1, <2>1 DEF HandOverInv, Phases
  <2>3. ~Entering(c) BY <2>1 DEF Entering, Bystander, Candidate
  <2>4. Playing(c) => g = h BY <2>1 DEF Playing, Bystander
  <2>5. \A f \in Ids : Announced(c, f) \/ OldFirst(c, f) \/ NewFirst(c, f) => g = f /\ h = f
    BY <2>1 DEF Announced, OldFirst, NewFirst, Moving, Bystander
  <2>6. QED BY <2>2, <2>3, <2>4, <2>5 DEF InPhase
<1>2. ASSUME HandOverInv, NEW c \in Clients
      PROVE  /\ \A g, h \in Overheard(c) : g = h
             /\ \A h \in Overheard(c) : pcs[h] = <<"noPawn">> \/ pcs[home[c]] = <<"game">>
  <2>1. \A h \in Overheard(c) : h \in RoutesOf(c) /\ h # home[c] /\ h \in primaryPlayers
    BY DEF Overheard, ServerRPCForwarded
  <2>2. CASE Gone(c) \/ Entering(c) \/ Playing(c)
    <3>1. Overheard(c) = {}
      BY <1>2, <2>1, <2>2 DEF HandOverInv, Phases, Gone, Entering, Playing, Bystander, Candidate
    <3>2. QED BY <3>1
  <2>3. ASSUME NEW f \in Ids, Announced(c, f) \/ OldFirst(c, f) \/ NewFirst(c, f)
        PROVE  /\ \A h \in Overheard(c) : h = f
               /\ pcs[f] = <<"noPawn">> \/ pcs[home[c]] = <<"game">>
    BY <2>1, <2>3 DEF Announced, OldFirst, NewFirst, Moving, Bystander
  <2>4. QED BY <1>2, <2>2, <2>3 DEF HandOverInv, Phases, Gone, InPhase
<1>3. QED BY <1>1, <1>2 DEF OneControllerSpeaks, LeftServersFallSilent

LEMMA PhasesHaveATarget == HandOverInv => ClientRPCsHaveATarget
<1>1. ASSUME HandOverInv, NEW c \in Clients, primaryOf[c] # NoId
      PROVE  /\ primaryOf[c] \in RoutesOf(c)
             /\ routes[primaryOf[c]].conn
             /\ ClientRPCForwarded(primaryOf[c])
  <2>1. ~Gone(c) BY <1>1, Tables DEF RouteInv, DepartedClients, Gone
  <2>2. InPhase(c) /\ ~Entering(c) /\ closedChildren = {}
    BY <1>1, <2>1 DEF HandOverInv, Phases, Gone, Entering, Orderly, NothingLost
  <2>3. Playing(c) => /\ primaryOf[c] \in RoutesOf(c) \cap primaryPlayers
                      /\ routes[primaryOf[c]].state \notin StillConnecting
    BY DEF Playing, Primary, StillConnecting
  <2>4. \A f \in Ids : Announced(c, f) \/ OldFirst(c, f) \/ NewFirst(c, f) =>
            /\ primaryOf[c] \in RoutesOf(c) \cap primaryPlayers
            /\ routes[primaryOf[c]].state \notin StillConnecting
    BY DEF Announced, OldFirst, NewFirst, Moving, Primary, StillConnecting
  <2>5. /\ primaryOf[c] \in RoutesOf(c) \cap primaryPlayers
        /\ routes[primaryOf[c]].state \notin StillConnecting
    BY <2>2, <2>3, <2>4 DEF InPhase
  <2>6. routes[primaryOf[c]].conn BY <1>1, <2>1, <2>5, OwnRoutes
  <2>7. QED BY <2>2, <2>5, <2>6 DEF ClientRPCForwarded
<1>2. QED BY <1>1 DEF ClientRPCsHaveATarget

\* Whenever the events of all migrations have arrived, in whichever order, the route
\* states, both primary maps and the deferred reassignments agree on the game server that
\* owns the pawn, for any number of migrations (ReassignPlayerController).
THEOREM CalmClientsAreSettled ==
  ASSUME Calm
  PROVE  Spec => []QuietClientsAreSettled
BY PhasesSettle, HandOverInvariant, PTL

\* RPCs on player controllers come to a client from one game server at a time, at no point
\* of a migration from both (ForwardRemoteFunction).
THEOREM OneControllerSpeaksAtATime ==
  ASSUME Calm
  PROVE  Spec => []OneControllerSpeaks
BY PhasesSpeak, HandOverInvariant, PTL

\* RPCs on the other actors of a player come from a game server that its pawn has left only
\* until both player controllers of that migration have arrived, and from one such server
\* (FinalizePlayerControllerReassignment).
THEOREM LeftServersAreSilent ==
  ASSUME Calm
  PROVE  Spec => []LeftServersFallSilent
BY PhasesSpeak, HandOverInvariant, PTL

\* From its first primary connection until it leaves, also in the middle of a migration, a
\* client's RPCs go to a child connection that exists (ForwardRemoteFunction).
THEOREM ClientRPCsAlwaysHaveATarget ==
  ASSUME Calm
  PROVE  Spec => []ClientRPCsHaveATarget
BY PhasesHaveATarget, HandOverInvariant, PTL

-----------------------------------------------------------------------------
(* Losses.  What is lost stays lost, and until then every step is one of   *)
(* those above, or the shutdown of the proxy.                              *)

LEMMA LostForGood ==
  ASSUME TypeOK, [Next]_vars, NothingLost'
  PROVE  NothingLost
<1> DEFINE Lost     == {"closed", "destroyed"}
           Lasting  == /\ closedChildren \subseteq closedChildren'
                       /\ \A s \in Servers : parent[s] \in Lost => parent'[s] \in Lost
<1>1. ASSUME UNCHANGED <<parent, closedChildren>> PROVE Lasting BY <1>1
<1>2. parent \in [Servers -> {"unregistered", "none", "pending", "open", "closed", "destroyed"}]
  BY DEF TypeOK
<1>3. ASSUME NEW c \in Clients,
             Accept(c) \/ Join(c) \/ JoinDividesByZero(c) \/ HandleClosedProxyConnection(c)
      PROVE  Lasting
  <2>1. CASE Join(c)
    <3>1. /\ \A s \in Servers : parent[s] # "none" => parent'[s] = parent[s]
          /\ closedChildren' = closedChildren
      BY <2>1 DEF Join, ConnectToGameServer
    <3>2. QED BY <3>1
  <2>2. QED BY <1>1, <1>3, <2>1
            DEF Accept, JoinDividesByZero, HandleClosedProxyConnection, serverVars, envVars
<1>4. ASSUME NEW s \in Servers,
             \/ ParentConnected(s) \/ ParentSearchFaults(s) \/ RegisterGameServer(s)
             \/ UnregisterGameServer(s) \/ ParentLost(s)
      PROVE  Lasting
  BY <1>2, <1>4 DEF ParentConnected, ParentSearchFaults, RegisterGameServer,
       UnregisterGameServer, RemoveGameServers, ParentLost, serverVars, envVars
<1>5. ASSUME NEW s \in Servers, RegisterGameServerAndConnectClients(s) PROVE Lasting
  <2>1. PICK reqs : ConnectToGameServer([parent EXCEPT ![s] = "none"], reqs)
    BY <1>5 DEF RegisterGameServerAndConnectClients
  <2>2. parent[s] = "unregistered" /\ closedChildren' = closedChildren
    BY <1>5 DEF RegisterGameServerAndConnectClients
  <2>3. \A q \in Servers : parent[q] \in Lost => parent'[q] = parent[q]
    BY <1>2, <2>1, <2>2 DEF ConnectToGameServer
  <2>4. QED BY <2>2, <2>3
<1>6. ASSUME NEW h \in Ids, GameServerAssignPlayerController(h) \/ CloseChildConnection(h)
      PROVE  Lasting
  BY <1>6 DEF GameServerAssignPlayerController, AssignConnecting, AssignConnectingPrimary,
       ReassignNoPawn, ReassignGame, AssignPendingClose, CloseChildConnection, serverVars
<1>7. ASSUME NEW c \in Clients, NEW h \in Ids, Migrate(c, h) PROVE Lasting
  BY <1>7 DEF Migrate, serverVars
<1>8. ASSUME DetectGameServerDisconnections \/ Shutdown \/ ShutdownFaults PROVE Lasting
  BY <1>2, <1>8 DEF DetectGameServerDisconnections, RemoveGameServers, Shutdown, ShutdownFaults,
       serverVars, envVars
<1>9. ASSUME UNCHANGED vars PROVE Lasting BY <1>1, <1>9 DEF vars, serverVars, envVars
<1>10. Lasting BY <1>3, <1>4, <1>5, <1>6, <1>7, <1>8, <1>9 DEF Next
<1>11. QED BY <1>2, <1>10 DEF NothingLost

LEMMA LossFreeNext ==
  ASSUME TypeOK, NothingLost, NothingLost', [Next]_vars
  PROVE  LossFree \/ Shutdown
<1>1. parent \in [Servers -> {"unregistered", "none", "pending", "open", "closed", "destroyed"}]
  BY DEF TypeOK
<1>2. \A s \in Servers : ~UnregisterGameServer(s) /\ ~ParentLost(s)
  BY <1>1 DEF NothingLost, UnregisterGameServer, RemoveGameServers, ParentLost
<1>3. \A h \in Ids : ~CloseChildConnection(h) BY DEF NothingLost, CloseChildConnection
<1>4. ~DetectGameServerDisconnections BY NothingToDetect
<1>5. ASSUME \/ \E c \in Clients : JoinDividesByZero(c)
             \/ \E s \in Servers : ParentSearchFaults(s)
             \/ ShutdownFaults
             \/ UNCHANGED vars
      PROVE  Halts
  BY <1>5 DEF JoinDividesByZero, ParentSearchFaults, ShutdownFaults, vars, Halts
<1>6. QED BY <1>2, <1>3, <1>4, <1>5 DEF Next, LossFree

\* Shutdown of a proxy whose game servers no client has needed yet, or that has none.
LEMMA ShutdownHandOver ==
  ASSUME HandOverInv, HandshakeInv', Shutdown, NothingLost'
  PROVE  HandOverInv'
<1> DEFINE closed == {h \in Live : routes[h].state \notin StillConnecting \cup {"PendingClose"}}
<1>1. /\ client' = [c \in Clients |-> "closed"]
      /\ splitJoins' = [s \in Servers |-> {}]
      /\ routes' = [h \in Live \ closed |-> [routes[h] EXCEPT !.state = "PendingClose"]]
      /\ UNCHANGED <<nextId, primaryPlayers>>
  BY DEF Shutdown, joinVars
<1>2. /\ \A h \in Live : routes[h] \in Route /\ routes[h].client \in Clients
      /\ NewIds
      /\ DepartedClients
  BY Tables DEF HandOverInv, Orderly, RouteInv
<1>3. \A h \in Live \ closed : routes[h].state \in StillConnecting \cup {"PendingClose"} OBVIOUS
<1> HIDE DEF closed
<1>4. Live' = Live \ closed BY <1>1 DEF Live
<1>5. ASSUME NEW h \in Live'
      PROVE  routes'[h].client = routes[h].client /\ routes'[h].state = "PendingClose"
  <2>1. h \in Live /\ routes'[h] = [routes[h] EXCEPT !.state = "PendingClose"] BY <1>1, <1>4
  <2>2. QED BY <1>2, <2>1, StateChange DEF RouteState
<1>6. Orderly'
  <2>1. NewIds' BY <1>1, <1>2 DEF NewIds
  <2>2. QueuedKinds' /\ Children' BY <1>1, <1>5 DEF QueuedKinds, Children
  <2>3. QED BY <2>1, <2>2 DEF Orderly
<1>7. Phases'
  <2>1. ASSUME NEW c \in Clients, NEW h \in RoutesOf(c)' PROVE h \notin primaryPlayers
    <3>1. /\ h \in Live' /\ h \in Live /\ routes[h].client = c
          /\ routes[h].state \in StillConnecting \cup {"PendingClose"}
      BY <1>3, <1>4, <1>5 DEF RoutesOf
    <3>2. h \in RoutesOf(c) BY <3>1 DEF RoutesOf
    <3>3. CASE Gone(c) BY <3>2, <3>3 DEF HandOverInv, Phases, Gone
    <3>4. CASE ~Gone(c)
      <4>1. routes[h].state \in StillConnecting BY <1>2, <3>1, <3>4 DEF DepartedClients, Gone
      <4>2. InPhase(c) BY <3>4 DEF HandOverInv, Phases, Gone
      <4>3. QED BY <3>2, <4>1, <4>2, WaitingRoutes
    <3>5. QED BY <3>3, <3>4
  <2>2. QED BY <1>1, <2>1 DEF Phases
<1>8. QED BY <1>6, <1>7 DEF HandOverInv

\* Whatever the environment may do later, up to the first game server or child connection
\* that is lost: quiet clients are settled, RPCs on player controllers come from one game
\* server and those on other actors not from one left before the last migration, and the
\* client's RPCs have one to go to.
THEOREM HandOversUntilALoss ==
  ASSUME Ordered
  PROVE  Spec => [](NothingLost => /\ QuietClientsAreSettled
                                   /\ OneControllerSpeaks
                                   /\ LeftServersFallSilent
                                   /\ ClientRPCsHaveATarget)
<1> DEFINE UntilALoss == HandshakeInv /\ (NothingLost => HandOverInv)
<1>1. Init => UntilALoss BY InitHandOver DEF HandOverInv
<1>2. ASSUME UntilALoss, [Next]_vars PROVE UntilALoss'
  <2>1. HandshakeInv' BY <1>2, NextHandshakeInv
  <2>2. ASSUME NothingLost' PROVE HandOverInv'
    <3>1. TypeOK BY <1>2 DEF HandshakeInv, RouteInv
    <3>2. NothingLost BY <1>2, <2>2, <3>1, LostForGood
    <3>3. HandOverInv BY <1>2, <3>2
    <3>4. CASE LossFree BY <1>2, <3>3, <3>4, NextHandOver
    <3>5. CASE Shutdown BY <2>1, <2>2, <3>3, <3>5, ShutdownHandOver
    <3>6. QED BY <1>2, <2>2, <3>1, <3>2, <3>4, <3>5, LossFreeNext
  <2>3. QED BY <2>1, <2>2
<1>3. UntilALoss => (NothingLost => /\ QuietClientsAreSettled
                                    /\ OneControllerSpeaks
                                    /\ LeftServersFallSilent
                                    /\ ClientRPCsHaveATarget)
  BY PhasesSettle, PhasesSpeak, PhasesHaveATarget
<1> HIDE DEF UntilALoss
<1>4. QED BY <1>1, <1>2, <1>3, PTL DEF Spec

-----------------------------------------------------------------------------
(* The refinement of ClientSession.                                        *)

\* The session of a client in each phase.
Speech(c) ==
    /\ Gone(c) \/ Entering(c) => SessionOf(c) = Session!Nobody
    /\ Playing(c) => SessionOf(c) = Session!At(routes[home[c]].server)
    /\ \A f \in Ids :
          /\ Announced(c, f) =>
                SessionOf(c) = Session!Leaving(routes[f].server, routes[home[c]].server)
          /\ OldFirst(c, f) =>
                SessionOf(c) = Session!Silent(routes[f].server, routes[home[c]].server)
          /\ NewFirst(c, f) =>
                SessionOf(c) = Session!Between(routes[f].server, routes[home[c]].server)

LEMMA SpeechByPhase == HandOverInv => \A c \in Clients : Speech(c)
<1> SUFFICES ASSUME HandOverInv, NEW c \in Clients PROVE Speech(c) OBVIOUS
<1> DEFINE P == IF primaryOf[c] = NoId THEN {} ELSE {home[c]} \cap RoutesOf(c)
           T == {h \in RoutesOf(c) : ClientRPCForwarded(h)}
           H == {h \in RoutesOf(c) : ServerRPCForwarded(h, "other")}
           O == {h \in RoutesOf(c) : ServerRPCForwarded(h, "controller")}
<1>1. /\ T = RoutesOf(c) \cap primaryPlayers /\ H = T
      /\ O = {h \in T : routes[h].state = "ConnectedPrimary"}
  <2>1. closedChildren = {} BY DEF HandOverInv, Orderly, NothingLost
  <2>2. \A h \in RoutesOf(c) : h \in Live BY DEF RoutesOf
  <2>3. QED BY <2>1, <2>2 DEF ClientRPCForwarded, ServerRPCForwarded
<1>2. SessionOf(c) = [pawn    |-> {routes[h].server : h \in P},
                      talksTo |-> {routes[h].server : h \in T},
                      hears   |-> {routes[h].server : h \in T},
                      obeys   |-> {routes[h].server : h \in O}]
  BY <1>1 DEF SessionOf, ServersOf
<1>3. P = IF primaryOf[c] = NoId THEN {} ELSE {home[c]} \cap RoutesOf(c) OBVIOUS
<1> HIDE DEF P, T, H, O
<1>4. ASSUME Gone(c) \/ Entering(c) PROVE SessionOf(c) = Session!Nobody
  <2>1. RoutesOf(c) \cap primaryPlayers = {}
    BY <1>4 DEF Gone, HandOverInv, Phases, Entering, Bystander, Candidate
  <2>2. primaryOf[c] = NoId
    BY <1>4, Tables DEF RouteInv, DepartedClients, Gone, Entering
  <2>3. P = {} /\ T = {} /\ O = {} BY <1>1, <1>3, <2>1, <2>2
  <2>4. QED BY <1>2, <2>3 DEF Session!Nobody
<1>5. ASSUME Playing(c) PROVE SessionOf(c) = Session!At(routes[home[c]].server)
  <2>1. T = {home[c]} BY <1>1, <1>5 DEF Playing, Primary, Bystander
  <2>2. O = {home[c]} BY <1>1, <1>5, <2>1 DEF Playing, Primary
  <2>3. P = {home[c]} BY <1>3, <1>5, Tables DEF Playing, Primary, RoutesOf
  <2>4. QED BY <1>2, <2>1, <2>2, <2>3 DEF Session!At
<1>6. ASSUME NEW f \in Ids, Moving(c, f), primaryOf[c] \in {f, home[c]}
      PROVE  P = {home[c]}
  BY <1>3, <1>6, Tables DEF Moving, RoutesOf
<1>7. ASSUME NEW f \in Ids, Announced(c, f)
      PROVE  SessionOf(c) = Session!Leaving(routes[f].server, routes[home[c]].server)
  <2>1. T = {f} BY <1>1, <1>7 DEF Announced, Moving, Bystander
  <2>2. O = {f} BY <1>1, <1>7, <2>1 DEF Announced, Primary
  <2>3. P = {home[c]} BY <1>6, <1>7 DEF Announced, Primary
  <2>4. QED BY <1>2, <2>1, <2>2, <2>3 DEF Session!Leaving
<1>8. ASSUME NEW f \in Ids, OldFirst(c, f)
      PROVE  SessionOf(c) = Session!Silent(routes[f].server, routes[home[c]].server)
  <2>1. T = {f} BY <1>1, <1>8 DEF OldFirst, Moving, Bystander
  <2>2. O = {} BY <1>1, <1>8, <2>1 DEF OldFirst
  <2>3. P = {home[c]} BY <1>6, <1>8 DEF OldFirst
  <2>4. QED BY <1>2, <2>1, <2>2, <2>3 DEF Session!Silent
<1>9. ASSUME NEW f \in Ids, NewFirst(c, f)
      PROVE  SessionOf(c) = Session!Between(routes[f].server, routes[home[c]].server)
  <2>1. T = {f, home[c]} BY <1>1, <1>9 DEF NewFirst, Moving, Bystander
  <2>2. O = {f} BY <1>1, <1>9, <2>1 DEF NewFirst
  <2>3. P = {home[c]} BY <1>6, <1>9 DEF NewFirst
  <2>4. QED BY <1>2, <2>1, <2>2, <2>3 DEF Session!Between
<1>10. QED BY <1>4, <1>5, <1>7, <1>8, <1>9 DEF Speech

LEMMA SpeechNext == HandOverInv' => (\A c \in Clients : Speech(c))'
BY SpeechByPhase, PTL

LEMMA StillSpeaks ==
  ASSUME NEW c \in Clients, Still(c), Speech(c), Speech(c)'
  PROVE  SessionOf(c)' = SessionOf(c) /\ (Gone(c)' <=> Gone(c))
<1>1. CASE StaysGone(c)
  <2>1. Gone(c) /\ Gone(c)' BY <1>1 DEF StaysGone
  <2>2. QED BY <2>1 DEF Speech, Session!Nobody
<1>2. CASE Stays(c)
  <2>1. ~Gone(c) /\ ~Gone(c)' /\ SameServers(c) BY <1>2 DEF Stays
  <2>2. CASE Entering(c) /\ Entering(c)' BY <2>1, <2>2 DEF Speech, Session!Nobody
  <2>3. CASE home'[c] = home[c] /\ Playing(c) /\ Playing(c)'
    <3>1. routes'[home[c]].server = routes[home[c]].server
      BY <2>1, <2>3 DEF SameServers, Playing, Primary, RoutesOf
    <3>2. QED BY <2>1, <2>3, <3>1 DEF Speech, Session!At
  <2>4. ASSUME home'[c] = home[c], NEW f \in Ids,
               \/ Announced(c, f) /\ Announced(c, f)'
               \/ OldFirst(c, f) /\ OldFirst(c, f)'
               \/ NewFirst(c, f) /\ NewFirst(c, f)'
        PROVE  SessionOf(c)' = SessionOf(c)
    <3>1. Moving(c, f) /\ Moving(c, f)' BY <2>4 DEF Announced, OldFirst, NewFirst
    <3>2. /\ routes'[f].server = routes[f].server
          /\ routes'[home'[c]].server = routes[home[c]].server
      BY <2>1, <2>4, <3>1 DEF SameServers, Moving, RoutesOf
    <3>3. CASE Announced(c, f) /\ Announced(c, f)'
      <4>1. SessionOf(c) = Session!Leaving(routes[f].server, routes[home[c]].server)
        BY <3>3 DEF Speech
      <4>2. SessionOf(c)' = Session!Leaving(routes'[f].server, routes'[home'[c]].server)
        BY <3>3 DEF Speech, Session!Leaving
      <4>3. QED BY <3>2, <4>1, <4>2
    <3>4. CASE OldFirst(c, f) /\ OldFirst(c, f)'
      <4>1. SessionOf(c) = Session!Silent(routes[f].server, routes[home[c]].server)
        BY <3>4 DEF Speech
      <4>2. SessionOf(c)' = Session!Silent(routes'[f].server, routes'[home'[c]].server)
        BY <3>4 DEF Speech, Session!Silent
      <4>3. QED BY <3>2, <4>1, <4>2
    <3>5. CASE NewFirst(c, f) /\ NewFirst(c, f)'
      <4>1. SessionOf(c) = Session!Between(routes[f].server, routes[home[c]].server)
        BY <3>5 DEF Speech
      <4>2. SessionOf(c)' = Session!Between(routes'[f].server, routes'[home'[c]].server)
        BY <3>5 DEF Speech, Session!Between
      <4>3. QED BY <3>2, <4>1, <4>2
    <3>6. QED BY <2>4, <3>3, <3>4, <3>5
  <2>5. QED BY <1>2, <2>1, <2>2, <2>3, <2>4 DEF Stays
<1>3. QED BY <1>1, <1>2 DEF Still

\* What the turn of a client looks like from outside.
Steps(c, before, after) ==
    \/ \E b \in Servers : before = Session!Nobody /\ after = Session!At(b)
    \/ \E a, b \in Servers :
          /\ a # b
          /\ \/ before = Session!At(a) /\ after = Session!Leaving(a, b)
             \/ /\ before = Session!Leaving(a, b)
                /\ after \in {Session!Silent(a, b), Session!Between(a, b)}
             \/ /\ before \in {Session!Silent(a, b), Session!Between(a, b)}
                /\ after = Session!At(b)

LEMMA TurnSpeaks ==
  ASSUME NEW c \in Clients, Turns(c), Speech(c), Speech(c)',
         \A h \in Live : routes[h].server \in Servers,
         \A h \in Live' : routes'[h].server \in Servers
  PROVE  Steps(c, SessionOf(c), SessionOf(c)')
<1>1. SameServers(c) BY DEF Turns
<1>2. CASE Entering(c) /\ Playing(c)'
  <2>1. home'[c] \in Live' BY <1>2 DEF Playing, Primary, RoutesOf
  <2>2. PICK b \in Servers : b = routes'[home'[c]].server BY <2>1
  <2>3. SessionOf(c) = Session!Nobody BY <1>2 DEF Speech
  <2>4. SessionOf(c)' = Session!At(b) BY <1>2, <2>2 DEF Speech, Session!At
  <2>5. QED BY <2>3, <2>4 DEF Steps
<1>3. ASSUME NEW f \in Ids, Playing(c), home[c] = f, Announced(c, f)'
      PROVE  Steps(c, SessionOf(c), SessionOf(c)')
  <2>1. f \in RoutesOf(c) /\ Moving(c, f)' BY <1>3 DEF Playing, Primary, Announced
  <2>2. /\ routes'[f].server = routes[f].server /\ routes[f].server \in Servers
        /\ routes'[home'[c]].server \in Servers
        /\ routes'[f].server # routes'[home'[c]].server
    BY <1>1, <2>1 DEF SameServers, Moving, RoutesOf
  <2>3. PICK a \in Servers, b \in Servers :
          a = routes[f].server /\ b = routes'[home'[c]].server /\ a # b
    BY <2>2
  <2>4. SessionOf(c) = Session!At(a) BY <1>3, <2>3 DEF Speech
  <2>5. SessionOf(c)' = Session!Leaving(a, b)
    BY <1>3, <2>2, <2>3 DEF Speech, Session!Leaving
  <2>6. QED BY <2>3, <2>4, <2>5 DEF Steps
<1>4. ASSUME NEW f \in Ids, home'[c] = home[c], Announced(c, f),
             OldFirst(c, f)' \/ NewFirst(c, f)'
      PROVE  Steps(c, SessionOf(c), SessionOf(c)')
  <2>1. Moving(c, f) /\ Moving(c, f)' BY <1>4 DEF Announced, OldFirst, NewFirst
  <2>2. PICK a \in Servers, b \in Servers :
          /\ a = routes[f].server /\ b = routes[home[c]].server /\ a # b
          /\ routes'[f].server = a /\ routes'[home'[c]].server = b
    BY <1>1, <1>4, <2>1 DEF SameServers, Moving, RoutesOf
  <2>3. SessionOf(c) = Session!Leaving(a, b) BY <1>4, <2>2 DEF Speech
  <2>4. OldFirst(c, f)' => SessionOf(c)' = Session!Silent(a, b)
    BY <2>2 DEF Speech, Session!Silent
  <2>5. NewFirst(c, f)' => SessionOf(c)' = Session!Between(a, b)
    BY <2>2 DEF Speech, Session!Between
  <2>6. QED BY <1>4, <2>2, <2>3, <2>4, <2>5 DEF Steps
<1>5. ASSUME NEW f \in Ids, home'[c] = home[c], OldFirst(c, f) \/ NewFirst(c, f), Playing(c)'
      PROVE  Steps(c, SessionOf(c), SessionOf(c)')
  <2>1. Moving(c, f) BY <1>5 DEF OldFirst, NewFirst
  <2>2. PICK a \in Servers, b \in Servers :
          /\ a = routes[f].server /\ b = routes[home[c]].server /\ a # b
          /\ routes'[home'[c]].server = b
    BY <1>1, <1>5, <2>1 DEF SameServers, Moving, RoutesOf, Playing, Primary
  <2>3. SessionOf(c) \in {Session!Silent(a, b), Session!Between(a, b)}
    BY <1>5, <2>2 DEF Speech
  <2>4. SessionOf(c)' = Session!At(b) BY <1>5, <2>2 DEF Speech, Session!At
  <2>5. QED BY <2>2, <2>3, <2>4 DEF Steps
<1>6. QED BY <1>2, <1>3, <1>4, <1>5 DEF Turns

LEMMA SessionStep ==
  ASSUME Calm, HandOverInv, [Next]_vars
  PROVE  [Session!Next]_(Session!vars)
<1> DEFINE state == [c \in Clients |-> SessionOf(c)]
           left  == {c \in Clients : client[c] = "closed"}
<1>1. HandOverInv' /\ OneTurn BY CalmHandOver
<1>2. \A c \in Clients : Speech(c) BY SpeechByPhase
<1>3. (\A c \in Clients : Speech(c))' BY <1>1, SpeechNext
<1>4. /\ \A c \in Clients : state[c] = SessionOf(c) /\ (c \in left <=> Gone(c))
      /\ state = [c \in Clients |-> state[c]]
  BY DEF Gone
<1>5. /\ \A c \in Clients : state'[c] = SessionOf(c)' /\ (c \in left' <=> Gone(c)')
      /\ state' = [c \in Clients |-> state'[c]]
  BY DEF Gone
<1>6. left \subseteq Clients /\ left' \subseteq Clients OBVIOUS
<1> HIDE DEF state, left
<1>7. ASSUME NEW c \in Clients, Still(c)
      PROVE  state'[c] = state[c] /\ (c \in left' <=> c \in left)
  BY <1>2, <1>3, <1>4, <1>5, <1>7, StillSpeaks
<1>8. /\ \A h \in Live : routes[h].server \in Servers
      /\ \A h \in Live' : routes'[h].server \in Servers
  BY <1>1, Tables DEF HandOverInv, HandshakeInv, RouteInv, TypeOK, Route
<1>9. ASSUME NEW c \in Clients, Turns(c)
      PROVE  Steps(c, state[c], state'[c]) /\ c \notin left /\ c \notin left'
  BY <1>2, <1>3, <1>4, <1>5, <1>8, <1>9, TurnSpeaks DEF Turns
<1>10. ASSUME NEW c \in Clients, Leaves(c)
       PROVE  c \notin left /\ c \in left' /\ state'[c] = Session!Nobody
  <2>1. ~Gone(c) /\ Gone(c)' BY <1>10 DEF Leaves
  <2>2. SessionOf(c)' = Session!Nobody BY <1>3, <2>1 DEF Speech, Session!Nobody
  <2>3. QED BY <1>4, <1>5, <2>1, <2>2
<1>11. CASE \A c \in Clients : Still(c)
  <2>1. state' = state /\ left' = left BY <1>4, <1>5, <1>6, <1>7, <1>11
  <2>2. QED BY <2>1 DEF Session!vars, state, left
<1>12. ASSUME NEW c \in Clients, Leaves(c) \/ Turns(c), \A d \in Clients \ {c} : Still(d)
       PROVE  [Session!Next]_(Session!vars)
  <2>1. \A d \in Clients \ {c} : state'[d] = state[d] /\ (d \in left' <=> d \in left)
    BY <1>7, <1>12
  <2>2. state' = [state EXCEPT ![c] = state'[c]] BY <1>4, <1>5, <2>1
  <2>3. CASE Leaves(c)
    <3>1. /\ c \notin left /\ left' = left \cup {c}
          /\ state' = [state EXCEPT ![c] = Session!Nobody]
      BY <1>6, <1>10, <2>1, <2>2, <2>3
    <3>2. Session!Leave(c) BY <3>1 DEF Session!Leave, state, left
    <3>3. QED BY <3>2 DEF Session!Next
  <2>4. CASE Turns(c)
    <3>1. c \notin left /\ left' = left /\ Steps(c, state[c], state'[c])
      BY <1>6, <1>9, <2>1, <2>4
    <3>2. \A from, to : state[c] = from /\ state'[c] = to => Session!Becomes(c, from, to)
      BY <2>2, <3>1 DEF Session!Becomes, state, left
    <3>3. ASSUME NEW b \in Servers, state[c] = Session!Nobody, state'[c] = Session!At(b)
          PROVE  [Session!Next]_(Session!vars)
      <4>1. Session!Enter(c, b) BY <3>2, <3>3 DEF Session!Enter
      <4>2. QED BY <4>1 DEF Session!Next
    <3>4. ASSUME NEW a \in Servers, NEW b \in Servers, a # b,
                 \/ state[c] = Session!At(a) /\ state'[c] = Session!Leaving(a, b)
                 \/ /\ state[c] = Session!Leaving(a, b)
                    /\ state'[c] \in {Session!Silent(a, b), Session!Between(a, b)}
                 \/ /\ state[c] \in {Session!Silent(a, b), Session!Between(a, b)}
                    /\ state'[c] = Session!At(b)
          PROVE  [Session!Next]_(Session!vars)
      <4>1. \/ Session!MovePawn(c, a, b) \/ Session!FallSilent(c, a, b)
            \/ Session!TakeRPCs(c, a, b) \/ Session!HandOver(c, a, b)
        BY <3>2, <3>4 DEF Session!MovePawn, Session!FallSilent, Session!TakeRPCs,
                          Session!HandOver
      <4>2. QED BY <3>4, <4>1 DEF Session!Next
    <3>5. QED BY <3>1, <3>3, <3>4 DEF Steps
  <2>5. QED BY <1>12, <2>3, <2>4
<1>13. QED BY <1>1, <1>11, <1>12 DEF OneTurn

LEMMA SessionInit == Init => Session!Init
<1> SUFFICES ASSUME Init PROVE Session!Init OBVIOUS
<1>1. /\ routes = <<>> /\ client = [c \in Clients |-> "offline"]
      /\ primaryOf = [c \in Clients |-> NoId]
  BY DEF Init
<1>2. \A c : RoutesOf(c) = {} BY <1>1 DEF RoutesOf, Live
<1>3. \A c \in Clients : SessionOf(c) = Session!Nobody
  BY <1>1, <1>2 DEF SessionOf, ServersOf, Session!Nobody
<1>4. {c \in Clients : client[c] = "closed"} = {} BY <1>1
<1>5. QED BY <1>3, <1>4 DEF Session!Init

\* In every behaviour, and in either order of the two player controllers of a migration, the
\* RPCs of both directions are handed over in two steps, and no step makes a server take
\* RPCs of the client, or the client take those of a server, that does not own the pawn
\* (ReassignPlayerController: "must not assume that these events will arrive in a specific
\* order").
THEOREM SessionsRefine ==
  ASSUME Calm
  PROVE  Spec => SessionsAreHandedOver
<1>1. Init => Session!Init BY SessionInit
<1>2. HandOverInv /\ [Next]_vars => [Session!Next]_(Session!vars) BY SessionStep
<1>3. QED BY <1>1, <1>2, HandOverInvariant, PTL DEF Spec, SessionsAreHandedOver, Session!Spec

-----------------------------------------------------------------------------
(* Game servers that are lost.  A migration that is cut short leaves the   *)
(* hand-over of ReassignPlayerController unfinished, and the migrations    *)
(* that follow stay one behind; but the RPCs of the client go where its    *)
(* pawn is.  The invariant follows the pawn alone: its player controller   *)
(* has arrived, or it is on its way to a route that will take it; nothing  *)
(* but a replacement is on its way to any other route.                     *)

Arrived(c) ==
    /\ pcs[home[c]] = <<>>
    /\ routes[home[c]].state \in Established
    /\ primaryOf[c] = home[c] /\ home[c] \in primaryPlayers

OnItsWay(c) ==
    /\ pcs[home[c]] = <<"game">>
    /\ routes[home[c]].state \in Established \cup {"ConnectingPrimary"}

\* The route that a client which joins is to have as its primary one.
Entrants(c) == {g \in RoutesOf(c) : routes[g].state = "ConnectingPrimary"}
Enters(c, g) ==
    /\ client[c] = "joined"
    /\ \/ home[c] = NoId /\ pcs[g] = <<>>
       \/ home[c] = g /\ pcs[g] = <<"game">>

Follows(c) ==
    /\ \A g \in RoutesOf(c) \ {home[c]} : pcs[g] \in {<<>>, <<"noPawn">>}
    /\ home[c] # NoId => /\ client[c] = "joined"
                         /\ home[c] \in RoutesOf(c) \ closedChildren
                         /\ Arrived(c) \/ OnItsWay(c)
    /\ \A g \in Entrants(c) : Enters(c, g)
    /\ \A g, h \in Entrants(c) : g = h

Followed == \A c \in Clients : Gone(c) \/ Follows(c)

FollowInv == HandshakeInv /\ QueuedKinds /\ Children /\ Followed

LEMMA PawnIsOnARoute ==
  ASSUME HandshakeInv', Running', NEW c \in Clients, home'[c] # NoId
  PROVE  ~Gone(c)' /\ home'[c] \in RoutesOf(c)' \ closedChildren'
BY DEF HandshakeInv, Handshakes, Homes, RoutesOf, Gone

\* Routes that a client keeps, and what they wait for.
LEMMA KeptFollows ==
  ASSUME FollowInv, HandshakeInv', Running', NEW c \in Clients, ~Gone(c),
         client[c] = "joined" => client'[c] = "joined",
         \A g \in RoutesOf(c)' \ RoutesOf(c) :
             routes'[g].state = "Connecting" /\ pcs'[g] \in {<<>>, <<"noPawn">>},
         \A g \in RoutesOf(c)' \cap RoutesOf(c) :
             /\ routes'[g].state = routes[g].state \/ routes'[g].state \in Established
             /\ pcs'[g] = pcs[g] \/ (pcs'[g] = <<>> /\ home'[c] # g),
         primaryOf'[c] = primaryOf[c],
         home'[c] = home[c] => (home[c] \in primaryPlayers => home[c] \in primaryPlayers'),
         \/ home'[c] = home[c]
         \/ home'[c] = NoId /\ (home[c] \in RoutesOf(c)' => pcs'[home[c]] = <<>>)
  PROVE  Follows(c)'
<1>1. Follows(c) BY DEF FollowInv, Followed
<1>2. home'[c] # NoId => /\ home'[c] = home[c] /\ client'[c] = "joined"
                         /\ home[c] \in RoutesOf(c)
                         /\ home'[c] \in RoutesOf(c)' \ closedChildren'
  BY <1>1, PawnIsOnARoute DEF Follows
<1>3. \A g \in RoutesOf(c)' \ {home'[c]} : pcs'[g] \in {<<>>, <<"noPawn">>}
  BY <1>1 DEF Follows
<1>4. home'[c] # NoId => Arrived(c)' \/ OnItsWay(c)'
  BY <1>1, <1>2 DEF Follows, Arrived, OnItsWay
<1>5. Entrants(c)' \subseteq Entrants(c) BY DEF Entrants, Established
<1>6. ASSUME NEW g \in Entrants(c)' PROVE Enters(c, g)'
  <2>1. g \in RoutesOf(c)' \cap RoutesOf(c) /\ Enters(c, g)
    BY <1>1, <1>5, <1>6 DEF Follows, Entrants
  <2>2. client'[c] = "joined" BY <2>1 DEF Enters
  <2>3. CASE home[c] = NoId /\ pcs[g] = <<>> BY <2>1, <2>2, <2>3 DEF Enters
  <2>4. CASE home[c] = g /\ pcs[g] = <<"game">> BY <2>1, <2>2, <2>4 DEF Enters
  <2>5. QED BY <2>1, <2>3, <2>4 DEF Enters
<1>7. \A g, h \in Entrants(c)' : g = h BY <1>1, <1>5 DEF Follows
<1>8. QED BY <1>2, <1>3, <1>4, <1>6, <1>7 DEF Follows

\* A client that a step does not concern.
LEMMA AloneFollows ==
  ASSUME FollowInv, HandshakeInv', Running', NEW c \in Clients,
         client'[c] = client[c], primaryOf'[c] = primaryOf[c], home'[c] = home[c],
         RoutesOf(c)' = RoutesOf(c),
         \A g \in RoutesOf(c) : routes'[g].state = routes[g].state /\ pcs'[g] = pcs[g],
         home[c] \in primaryPlayers => home[c] \in primaryPlayers'
  PROVE  Gone(c)' \/ Follows(c)'
<1>1. CASE Gone(c) BY <1>1 DEF Gone
<1>2. CASE ~Gone(c) BY <1>2, KeptFollows
<1>3. QED BY <1>1, <1>2

\* The game's player controller arrives where the pawn is.
LEMMA ArrivedFollows ==
  ASSUME FollowInv, HandshakeInv', Running', NEW c \in Clients, ~Gone(c),
         home[c] # NoId, pcs[home[c]] # <<>>, pcs'[home[c]] = Tail(pcs[home[c]]),
         Live' = Live, \A g \in Live : routes'[g].client = routes[g].client,
         \A g \in RoutesOf(c) : \/ routes'[g].state = routes[g].state
                                \/ routes'[g].state \in Established,
         \A g \in RoutesOf(c) \ {home[c]} : pcs'[g] = pcs[g],
         routes'[home[c]].state \in Established,
         primaryOf'[c] = home[c], home[c] \in primaryPlayers',
         home' = home, client' = client
  PROVE  Follows(c)'
<1>1. Follows(c) /\ RoutesOf(c)' = RoutesOf(c) BY DEF FollowInv, Followed, RoutesOf, Live
<1>2. pcs[home[c]] = <<"game">> BY <1>1 DEF Follows, Arrived, OnItsWay
<1>3. pcs'[home[c]] = <<>> BY <1>2, OnlyController
<1>4. Arrived(c)' BY <1>3 DEF Arrived
<1>5. Entrants(c)' = {}
  <2>1. ASSUME NEW g \in Entrants(c)' PROVE FALSE
    <3>1. g \in Entrants(c) /\ g # home[c] BY <1>1, <2>1 DEF Entrants, Established
    <3>2. QED BY <1>1, <3>1 DEF Follows, Enters
  <2>2. QED BY <2>1
<1>6. home'[c] \in RoutesOf(c)' \ closedChildren' BY PawnIsOnARoute
<1>7. QED BY <1>1, <1>4, <1>5, <1>6 DEF Follows

\* A client joins: at most one of its new routes is to be the primary one, and its pawn is
\* put there.
LEMMA JoinFollows ==
  ASSUME FollowInv, HandshakeInv', Running', NEW c \in Clients, Join(c)
  PROVE  QueuedKinds' /\ Children' /\ Followed'
<1>1. /\ NewRoutes
      /\ \A h \in Live' \ Live : routes'[h].client = c
      /\ \A g, h \in Live' \ Live : /\ routes'[g].state = "ConnectingPrimary"
                                    /\ routes'[h].state = "ConnectingPrimary"
                                    => g = h
      /\ client[c] = "accepted" /\ client'[c] = "joined"
      /\ \A d \in Clients \ {c} : client'[d] = client[d]
  BY JoinRoutes DEF FollowInv
<1>2. /\ Connects /\ Live \subseteq Live' /\ \A h \in Live : routes'[h] = routes[h]
      /\ primaryOf' = primaryOf /\ primaryPlayers' = primaryPlayers
      /\ \A h \in Live' \ Live : routes'[h].state \in StillConnecting
  BY <1>1 DEF NewRoutes, primVars
<1>3. \A g \in Live : pcs'[g] = pcs[g]
  <2>1. Live \subseteq Ids BY Tables DEF FollowInv
  <2>2. QED BY <1>2, <2>1 DEF Connects
<1>4. ASSUME NEW d \in Clients \ {c} PROVE Gone(d)' \/ Follows(d)'
  <2>1. RoutesOf(d)' = RoutesOf(d) BY <1>1, <1>2 DEF RoutesOf
  <2>2. home'[d] = home[d] BY <1>1, <1>2 DEF Connects
  <2>3. \A g \in RoutesOf(d) : routes'[g].state = routes[g].state /\ pcs'[g] = pcs[g]
    BY <1>2, <1>3 DEF RoutesOf
  <2>4. QED BY <1>1, <1>2, <2>1, <2>2, <2>3, AloneFollows
<1>5. Follows(c) /\ home[c] = NoId /\ Entrants(c) = {}
  <2>1. Follows(c) BY <1>1 DEF FollowInv, Followed, Gone
  <2>2. QED BY <1>1, <2>1 DEF Follows, Enters
<1>6. /\ RoutesOf(c) \subseteq RoutesOf(c)'
      /\ \A g \in RoutesOf(c)' \ RoutesOf(c) : g \in Live' \ Live
      /\ \A g \in RoutesOf(c) : g \in Live
  BY <1>2 DEF RoutesOf
<1>7. Entrants(c)' \subseteq Live' \ Live /\ \A g, h \in Entrants(c)' : g = h
  <2>1. ASSUME NEW g \in Entrants(c)', g \in Live PROVE FALSE
    BY <1>2, <1>5, <2>1 DEF Entrants, RoutesOf
  <2>2. Entrants(c)' \subseteq Live' \ Live BY <2>1 DEF Entrants, RoutesOf
  <2>3. QED BY <1>1, <2>2 DEF Entrants
<1>8. home'[c] # NoId => home'[c] \in Entrants(c)' /\ pcs'[home'[c]] # <<>>
  BY <1>2, <1>5 DEF Connects, Entrants, RoutesOf
<1>9. ASSUME NEW g \in Live' \ Live
      PROVE  \/ pcs'[g] = <<>>
             \/ /\ routes'[g].state = "ConnectingPrimary"
                /\ pcs'[g] = <<"game">> /\ home'[c] = g
             \/ /\ routes'[g].state # "ConnectingPrimary"
                /\ pcs'[g] = <<"noPawn">>
  <2>1. \/ pcs'[g] = <<>>
        \/ pcs'[g] = <<IF routes'[g].state = "ConnectingPrimary" THEN "game" ELSE "noPawn">>
    BY <1>2, <1>9 DEF Connects
  <2>2. ASSUME routes'[g].state = "ConnectingPrimary", pcs'[g] # <<>>
        PROVE  home'[c] = g
    <3>1. /\ home'[c] \in Live' \ Live
          /\ routes'[home'[c]].state = "ConnectingPrimary"
      BY <1>1, <1>2, <1>9, <2>2 DEF Connects
    <3>2. QED BY <1>1, <1>9, <2>2, <3>1
  <2>3. QED BY <2>1, <2>2, OnlyController
<1>10. ASSUME NEW g \in Entrants(c)' PROVE Enters(c, g)'
  <2>1. g \in Live' \ Live /\ routes'[g].state = "ConnectingPrimary" BY <1>7, <1>10 DEF Entrants
  <2>2. home'[c] # NoId => home'[c] = g /\ pcs'[g] # <<>> BY <1>7, <1>8, <1>10
  <2>3. QED BY <1>1, <1>9, <2>1, <2>2 DEF Enters
<1>11. home'[c] # NoId => Arrived(c)' \/ OnItsWay(c)'
  BY <1>8, <1>10 DEF Enters, OnItsWay, Entrants
<1>12. \A g \in RoutesOf(c)' \ {home'[c]} : pcs'[g] \in {<<>>, <<"noPawn">>}
  <2>1. \A g \in RoutesOf(c) : pcs'[g] \in {<<>>, <<"noPawn">>}
    <3>1. \A g \in RoutesOf(c) : g # NoId /\ pcs'[g] = pcs[g]
      BY <1>3, <1>6, Tables DEF FollowInv
    <3>2. QED BY <1>5, <3>1 DEF Follows
  <2>2. QED BY <1>6, <1>9, <2>1
<1>13. home'[c] # NoId => home'[c] \in RoutesOf(c)' \ closedChildren' BY PawnIsOnARoute
<1>14. Follows(c)' BY <1>1, <1>7, <1>10, <1>11, <1>12, <1>13 DEF Follows
<1>15. QueuedKinds' /\ Children' BY <1>1, NewRoutesShapes DEF FollowInv
<1>16. QED BY <1>4, <1>14, <1>15 DEF Followed

LEMMA RegisterAndConnectFollows ==
  ASSUME FollowInv, HandshakeInv', Running', NEW s \in Servers,
         RegisterGameServerAndConnectClients(s)
  PROVE  QueuedKinds' /\ Children' /\ Followed'
<1>1. /\ NewRoutes /\ client' = client
      /\ \A h \in Live' \ Live : routes'[h].state = "Connecting"
  BY RegisterAndConnectRoutes DEF FollowInv
<1>2. /\ Connects /\ Live \subseteq Live' /\ \A h \in Live : routes'[h] = routes[h]
      /\ primaryOf' = primaryOf /\ primaryPlayers' = primaryPlayers
  BY <1>1 DEF NewRoutes, primVars
<1>3. \A g \in Live : pcs'[g] = pcs[g]
  <2>1. Live \subseteq Ids BY Tables DEF FollowInv
  <2>2. QED BY <2>1, <1>2 DEF Connects
<1>4. ASSUME NEW d \in Clients, ~Gone(d) PROVE Follows(d)'
  <2>1. home'[d] = home[d] BY <1>1, <1>2 DEF Connects
  <2>2. ASSUME NEW g \in RoutesOf(d)' \ RoutesOf(d)
        PROVE  routes'[g].state = "Connecting" /\ pcs'[g] \in {<<>>, <<"noPawn">>}
    <3>1. g \in Live' \ Live /\ routes'[g].state = "Connecting" BY <1>1, <1>2, <2>2 DEF RoutesOf
    <3>2. \/ pcs'[g] = <<>>
          \/ pcs'[g] = <<IF routes'[g].state = "ConnectingPrimary" THEN "game" ELSE "noPawn">>
      BY <1>2, <3>1 DEF Connects
    <3>3. QED BY <3>1, <3>2
  <2>3. \A g \in RoutesOf(d)' \cap RoutesOf(d) :
           routes'[g].state = routes[g].state /\ pcs'[g] = pcs[g]
    BY <1>2, <1>3 DEF RoutesOf
  <2>4. client'[d] = client[d] /\ primaryOf'[d] = primaryOf[d] BY <1>1, <1>2
  <2>5. QED BY <1>2, <1>4, <2>1, <2>2, <2>3, <2>4, KeptFollows
<1>5. QueuedKinds' /\ Children' BY <1>1, NewRoutesShapes DEF FollowInv
<1>6. QED BY <1>1, <1>4, <1>5 DEF Followed, Gone

\* The queued split joins of a server are sent.
LEMMA ParentConnectedFollows ==
  ASSUME FollowInv, HandshakeInv', Running', NEW s \in Servers, ParentConnected(s)
  PROVE  QueuedKinds' /\ Children' /\ Followed'
<1> DEFINE sent == splitJoins[s]
           IsSent(g) == \E r \in sent : r.id = g
<1>1. /\ Running /\ routes' = routes /\ SendSplitJoins(sent)
      /\ splitJoins' = [splitJoins EXCEPT ![s] = {}]
      /\ UNCHANGED <<primaryPlayers, primaryOf, client>>
  BY DEF ParentConnected, primVars, clientVars
<1>2. /\ QueuedJoins /\ QueuedKinds /\ Children /\ DepartedClients
      /\ Live \subseteq Ids /\ sent \subseteq SplitJoin
      /\ splitJoins \in [Servers -> SUBSET SplitJoin]
  BY <1>1, Tables DEF FollowInv, Handshakes, TypeOK, RouteInv
<1>3. \A r \in sent : /\ r.id \in Live /\ ~routes[r.id].conn /\ pcs[r.id] = <<>>
                      /\ routes[r.id].state = "ConnectingPrimary" => r.pc = "game"
                      /\ routes[r.id].state = "Connecting" => r.pc = "noPawn"
  BY <1>2 DEF QueuedJoins, QueuedKinds
<1>4. \A q, r \in sent : q.id = r.id => q.pc = r.pc BY <1>2 DEF QueuedJoins
<1> HIDE DEF sent
<1>5. /\ \A r \in sent : pcs'[r.id] = <<r.pc>>
      /\ \A h \in Ids : (\A r \in sent : r.id # h) => pcs'[h] = pcs[h]
      /\ \A c \in Clients : \/ home'[c] = home[c]
                            \/ \E r \in sent : /\ home'[c] = r.id
                                               /\ routes'[r.id].client = c
                                               /\ routes'[r.id].state = "ConnectingPrimary"
      /\ \A r \in sent :
           routes'[r.id].client \in Clients /\ routes'[r.id].state = "ConnectingPrimary" =>
           \E q \in sent : /\ home'[routes'[r.id].client] = q.id
                           /\ routes'[q.id].client = routes'[r.id].client
                           /\ routes'[q.id].state = "ConnectingPrimary"
  BY <1>1, <1>2, <1>4, SendSplitJoinsSends
<1>6. ASSUME NEW c \in Clients, ~Gone(c) PROVE Follows(c)'
  <2>1. Follows(c) BY <1>6 DEF FollowInv, Followed
  <2>2. RoutesOf(c)' = RoutesOf(c) /\ Entrants(c)' = Entrants(c)
    BY <1>1 DEF RoutesOf, Entrants, Live
  <2>3. \A g \in RoutesOf(c) : /\ g \in Ids /\ g # NoId /\ g \in Live /\ routes[g].client = c
                               /\ routes[g].conn <=> routes[g].state \notin StillConnecting
    <3>1. \A g \in RoutesOf(c) : /\ g \in Ids /\ g \in Live /\ routes[g].client = c
                                 /\ routes[g].conn <=> routes[g].state \notin StillConnecting
      BY <1>6, OwnRoutes DEF FollowInv
    <3>2. \A g \in Ids : g # NoId BY DEF Ids
    <3>3. QED BY <3>1, <3>2
  <2>4. \A g \in RoutesOf(c) : ~IsSent(g) => pcs'[g] = pcs[g] BY <1>5, <2>3
  <2>5. ASSUME NEW g \in RoutesOf(c), IsSent(g)
        PROVE  /\ pcs[g] = <<>>
               /\ \/ routes[g].state = "Connecting" /\ pcs'[g] = <<"noPawn">>
                  \/ g \in Entrants(c) /\ pcs'[g] = <<"game">>
    <3>1. PICK r \in sent : r.id = g BY <2>5
    <3>2. routes[g].state \in StillConnecting BY <1>3, <2>3, <3>1
    <3>3. pcs[g] = <<>> /\ pcs'[g] = <<r.pc>> BY <1>3, <1>5, <3>1
    <3>4. \/ routes[g].state = "Connecting" /\ r.pc = "noPawn"
          \/ g \in Entrants(c) /\ r.pc = "game"
      BY <1>3, <3>1, <3>2 DEF StillConnecting, Entrants
    <3>5. QED BY <3>3, <3>4
  <2>6. \/ home'[c] = home[c]
        \/ \E g \in Entrants(c) : IsSent(g) /\ home'[c] = g
    <3>1. ASSUME NEW r \in sent, home'[c] = r.id, routes'[r.id].client = c,
                 routes'[r.id].state = "ConnectingPrimary"
          PROVE  \E g \in Entrants(c) : IsSent(g) /\ home'[c] = g
      BY <1>1, <1>3, <3>1 DEF RoutesOf, Entrants
    <3>2. QED BY <1>5, <3>1
  <2>7. ASSUME NEW g \in Entrants(c), IsSent(g) PROVE home[c] = NoId /\ home'[c] = g
    <3>1. g \in RoutesOf(c) /\ routes[g].state = "ConnectingPrimary" BY <2>7 DEF Entrants
    <3>2. pcs[g] = <<>> BY <2>5, <2>7, <3>1
    <3>3. home[c] = NoId BY <2>1, <2>7, <3>2, OnlyController DEF Follows, Enters
    <3>4. PICK r \in sent : r.id = g BY <2>7
    <3>5. routes'[r.id].client = c /\ routes'[r.id].state = "ConnectingPrimary"
      BY <1>1, <2>3, <3>1, <3>4
    <3>6. PICK q \in sent : /\ home'[c] = q.id /\ routes'[q.id].client = c
                            /\ routes'[q.id].state = "ConnectingPrimary"
      BY <1>5, <3>5
    <3>7. q.id \in Entrants(c) BY <1>1, <1>3, <3>6 DEF RoutesOf, Entrants
    <3>8. QED BY <2>1, <2>7, <3>3, <3>6, <3>7 DEF Follows
  <2>8. \A g \in Entrants(c) : g \in RoutesOf(c) BY DEF Entrants
  <2>9. ASSUME NEW g \in Entrants(c) PROVE Enters(c, g)'
    <3>1. Enters(c, g) BY <2>1 DEF Follows
    <3>2. CASE IsSent(g)
      <4>1. home'[c] = g BY <2>7, <3>2
      <4>2. routes[g].state = "ConnectingPrimary" BY DEF Entrants
      <4>3. pcs'[g] = <<"game">> BY <2>5, <2>8, <3>2, <4>2
      <4>4. QED BY <1>1, <3>1, <4>1, <4>3 DEF Enters
    <3>3. CASE ~IsSent(g)
      <4>1. pcs'[g] = pcs[g] BY <2>4, <2>8, <3>3
      <4>2. home'[c] = home[c] BY <2>1, <2>6, <3>3 DEF Follows
      <4>3. QED BY <1>1, <3>1, <4>1, <4>2 DEF Enters
    <3>4. QED BY <3>2, <3>3
  <2>10. CASE \E g \in Entrants(c) : IsSent(g) /\ home'[c] = g
    <3>1. PICK g \in Entrants(c) : IsSent(g) /\ home'[c] = g BY <2>10
    <3>2. /\ g \in RoutesOf(c) /\ routes[g].state = "ConnectingPrimary"
          /\ home[c] = NoId /\ client[c] = "joined"
      BY <2>1, <2>7, <3>1 DEF Entrants, Follows, Enters
    <3>3. pcs'[g] = <<"game">> BY <2>5, <3>1, <3>2
    <3>4. OnItsWay(c)' BY <1>1, <3>1, <3>2, <3>3 DEF OnItsWay
    <3>5. g \in RoutesOf(c)' \ closedChildren' BY <2>3, <3>1, <3>2, PawnIsOnARoute
    <3>6. \A k \in RoutesOf(c) \ {g} : pcs'[k] \in {<<>>, <<"noPawn">>}
      <4>1. ASSUME NEW k \in RoutesOf(c) \ {g} PROVE pcs'[k] \in {<<>>, <<"noPawn">>}
        <5>1. k # home[c] BY <2>3, <3>2
        <5>2. pcs[k] \in {<<>>, <<"noPawn">>} BY <2>1, <5>1 DEF Follows
        <5>3. k \notin Entrants(c) BY <2>1, <3>1 DEF Follows
        <5>4. QED BY <2>4, <2>5, <5>2, <5>3
      <4>2. QED BY <4>1
    <3>7. QED BY <1>1, <2>1, <2>2, <2>9, <3>1, <3>2, <3>4, <3>5, <3>6 DEF Follows
  <2>11. CASE home'[c] = home[c] /\ \A g \in Entrants(c) : ~IsSent(g)
    <3>1. \A g \in RoutesOf(c) : \/ pcs'[g] = pcs[g]
                                 \/ /\ routes[g].state = "Connecting" /\ pcs[g] = <<>>
                                    /\ pcs'[g] = <<"noPawn">>
      BY <2>4, <2>5, <2>11
    <3>2. home[c] # NoId => pcs'[home[c]] = pcs[home[c]]
      <4>1. home[c] # NoId => /\ home[c] \in RoutesOf(c)
                              /\ routes[home[c]].state # "Connecting"
        BY <2>1 DEF Follows, Arrived, OnItsWay, Established
      <4>2. QED BY <3>1, <4>1
    <3>3. home[c] # NoId => /\ home[c] \in RoutesOf(c)' \ closedChildren'
                            /\ Arrived(c)' \/ OnItsWay(c)'
      BY <1>1, <2>1, <2>11, <3>2, PawnIsOnARoute DEF Follows, Arrived, OnItsWay
    <3>4. \A g \in RoutesOf(c) \ {home[c]} : pcs'[g] \in {<<>>, <<"noPawn">>}
      BY <2>1, <3>1 DEF Follows
    <3>5. QED BY <1>1, <2>1, <2>2, <2>9, <2>11, <3>3, <3>4 DEF Follows
  <2>12. QED BY <2>6, <2>7, <2>10, <2>11
<1>7. Followed' BY <1>1, <1>6 DEF Followed, Gone
<1>8. QueuedKinds' /\ Children'
  <2>1. Live' = Live BY <1>1 DEF Live
  <2>2. \A q \in Servers : splitJoins'[q] \subseteq splitJoins[q] BY <1>1, <1>2
  <2>3. QED BY <1>1, <1>2, <2>1, <2>2, KeptShapes
<1>9. QED BY <1>7, <1>8
\* Steps that concern one client, whose player controller arrives.
LEMMA OneClientFollows ==
  ASSUME FollowInv, HandshakeInv', Running', NEW c \in Clients, Follows(c)',
         Live' = Live, \A g \in Live : routes'[g].client = routes[g].client,
         \A g \in Live : routes[g].client # c =>
             /\ routes'[g].state = routes[g].state /\ pcs'[g] = pcs[g]
             /\ g \in primaryPlayers => g \in primaryPlayers',
         \A d \in Clients \ {c} : primaryOf'[d] = primaryOf[d],
         client' = client, home' = home
  PROVE  Followed'
<1>1. ASSUME NEW d \in Clients \ {c} PROVE Gone(d)' \/ Follows(d)'
  <2>1. RoutesOf(d)' = RoutesOf(d) BY DEF RoutesOf, Live
  <2>2. \A g \in RoutesOf(d) : routes'[g].state = routes[g].state /\ pcs'[g] = pcs[g]
    BY DEF RoutesOf
  <2>3. CASE Gone(d) BY <2>3 DEF Gone
  <2>4. CASE ~Gone(d)
    <3>1. Follows(d) BY <2>4 DEF FollowInv, Followed
    <3>2. home[d] # NoId => home[d] \in RoutesOf(d) BY <3>1 DEF Follows
    <3>3. home[d] \in primaryPlayers => home[d] \in primaryPlayers'
      <4>1. NoId \notin primaryPlayers
        <5>1. primaryPlayers \subseteq Ids BY Tables DEF FollowInv
        <5>2. QED BY <5>1 DEF Ids
      <4>2. QED BY <3>2, <4>1 DEF RoutesOf
    <3>4. QED BY <2>1, <2>2, <3>3, AloneFollows
  <2>5. QED BY <2>3, <2>4
<1>2. QED BY <1>1 DEF Followed

\* The game's player controller comes to the route with the pawn, and a replacement to any
\* other.
LEMMA ReceivedFollows ==
  ASSUME FollowInv, Running, NEW c \in Clients, ~Gone(c), NEW h \in RoutesOf(c), NEW pc,
         Received(h, pc)
  PROVE  /\ pcs'[h] = <<>> /\ pc \in {"game", "noPawn"}
         /\ pc = "game" <=> h = home[c]
         /\ \A g \in Ids \ {h} : pcs'[g] = pcs[g]
         /\ h \in Ids /\ h # NoId /\ pcs[h] # <<>> /\ pcs'[h] = Tail(pcs[h])
<1>1. h \in Live /\ h \in Ids /\ h # NoId /\ TypeOK BY Tables DEF FollowInv, RoutesOf
<1>2. /\ \A g \in Ids \ {h} : pcs'[g] = pcs[g]
      /\ pcs[h] # <<>> /\ pcs'[h] = Tail(pcs[h]) /\ pc = Head(pcs[h])
  BY <1>1, ReceivedQueue DEF Received
<1>3. Follows(c) BY DEF FollowInv, Followed
<1>4. h = home[c] => pcs[h] = <<"game">> BY <1>1, <1>2, <1>3 DEF Follows, Arrived, OnItsWay
<1>5. h # home[c] => pcs[h] = <<"noPawn">> BY <1>2, <1>3 DEF Follows
<1>6. QED BY <1>1, <1>2, <1>4, <1>5, OnlyController

LEMMA AssignConnectingFollows ==
  ASSUME FollowInv, HandshakeInv', Running', NEW h \in Ids,
         AssignConnecting(h) \/ AssignConnectingPrimary(h)
  PROVE  QueuedKinds' /\ Children' /\ Followed'
<1>1. PICK pc \in PC, st \in {"Connected", "ConnectedPrimary"} :
         /\ Received(h, pc)
         /\ routes' = [routes EXCEPT ![h].state = st, ![h].conn = TRUE, ![h].pc = pc]
         /\ \/ /\ st = "Connected" /\ routes[h].state = "Connecting"
               /\ UNCHANGED <<primaryPlayers, primaryOf>>
            \/ /\ st = "ConnectedPrimary" /\ routes[h].state = "ConnectingPrimary"
               /\ primaryPlayers' = primaryPlayers \cup {h}
               /\ primaryOf' = [primaryOf EXCEPT ![routes[h].client] = h]
  BY DEF AssignConnecting, AssignConnectingPrimary, primVars
<1>2. UNCHANGED <<splitJoins, client, home>>
  BY DEF AssignConnecting, AssignConnectingPrimary, serverVars, clientVars
<1>3. /\ h \in Live /\ routes[h].client \in Clients /\ TypeOK
      /\ client[routes[h].client] # "closed"
      /\ primaryOf \in [Clients -> Ids \cup {NoId}]
  <2>1. h \in Live BY <1>1 DEF Received
  <2>2. routes[h].state # "PendingClose" BY <1>1
  <2>3. QED BY <2>1, <2>2, Tables DEF FollowInv, RouteInv, DepartedClients
<1>4. PICK c \in Clients : c = routes[h].client BY <1>3
<1>5. h \in RoutesOf(c) /\ ~Gone(c) BY <1>3, <1>4 DEF RoutesOf, Gone
<1>6. /\ pcs'[h] = <<>>
      /\ pc = "game" <=> h = home[c]
      /\ \A g \in Ids \ {h} : pcs'[g] = pcs[g]
      /\ h # NoId /\ pcs[h] # <<>> /\ pcs'[h] = Tail(pcs[h]) /\ Running
  <2>1. Running BY <1>1 DEF Received
  <2>2. QED BY <1>1, <1>5, <2>1, ReceivedFollows
<1>7. /\ Live' = Live /\ Live \subseteq Ids
      /\ \A g \in Live \ {h} : routes'[g] = routes[g]
      /\ \A g \in Live : routes'[g].client = routes[g].client
      /\ routes'[h].state = st /\ routes'[h].conn
  <2>1. Live \subseteq Ids BY Tables DEF FollowInv
  <2>2. QED BY <1>1, <1>3, <2>1, AssignedRoutes
<1>8. RoutesOf(c)' = RoutesOf(c) BY <1>7 DEF RoutesOf, Live
<1>9. Follows(c) BY <1>5 DEF FollowInv, Followed
<1>10. /\ \A g \in RoutesOf(c) : /\ g \in Live
                                 /\ \/ routes'[g].state = routes[g].state
                                    \/ routes'[g].state \in Established
       /\ \A g \in RoutesOf(c) \ {h} : pcs'[g] = pcs[g]
  BY <1>6, <1>7 DEF RoutesOf, Established
<1>11. Follows(c)'
  <2>1. CASE st = "Connected"
    <3>1. h # home[c]
      <4>1. routes[h].state = "Connecting" BY <1>1, <2>1
      <4>2. QED BY <1>6, <1>9, <4>1 DEF Follows, Arrived, OnItsWay, Established
    <3>2. \A g \in RoutesOf(c)' \cap RoutesOf(c) :
             /\ routes'[g].state = routes[g].state \/ routes'[g].state \in Established
             /\ pcs'[g] = pcs[g] \/ (pcs'[g] = <<>> /\ home'[c] # g)
      <4>1. home'[c] # h BY <1>2, <3>1
      <4>2. ASSUME NEW g \in RoutesOf(c)
            PROVE  /\ routes'[g].state = routes[g].state \/ routes'[g].state \in Established
                   /\ pcs'[g] = pcs[g] \/ (pcs'[g] = <<>> /\ home'[c] # g)
        BY <1>6, <1>10, <4>1
      <4>3. QED BY <4>2
    <3>3. primaryOf'[c] = primaryOf[c] /\ primaryPlayers' = primaryPlayers BY <1>1, <2>1
    <3>4. QED BY <1>2, <1>5, <1>8, <3>2, <3>3, KeptFollows
  <2>2. CASE st = "ConnectedPrimary"
    <3>1. h = home[c]
      <4>1. h \in Entrants(c) BY <1>1, <1>5, <2>2 DEF Entrants
      <4>2. QED BY <1>6, <1>9, <4>1 DEF Follows, Enters
    <3>2. primaryOf'[c] = h /\ h \in primaryPlayers' BY <1>1, <1>3, <1>4, <2>2
    <3>3. routes'[home[c]].state \in Established BY <1>7, <2>2, <3>1 DEF Established
    <3>4. /\ home[c] # NoId /\ pcs[home[c]] # <<>> /\ pcs'[home[c]] = Tail(pcs[home[c]])
          /\ primaryOf'[c] = home[c] /\ home[c] \in primaryPlayers'
          /\ \A g \in RoutesOf(c) \ {home[c]} : pcs'[g] = pcs[g]
      BY <1>6, <1>10, <3>1, <3>2
    <3>5. QED BY <1>2, <1>5, <1>7, <1>10, <3>3, <3>4, ArrivedFollows
  <2>3. QED BY <2>1, <2>2
<1>12. Followed'
  <2>1. \A g \in Live : routes[g].client # c =>
           /\ routes'[g].state = routes[g].state /\ pcs'[g] = pcs[g]
           /\ g \in primaryPlayers => g \in primaryPlayers'
    BY <1>1, <1>4, <1>6, <1>7
  <2>2. \A d \in Clients \ {c} : primaryOf'[d] = primaryOf[d] BY <1>1, <1>3, <1>4
  <2>3. QED BY <1>2, <1>7, <1>11, <2>1, <2>2, OneClientFollows
<1>13. QueuedKinds' /\ Children'
  <2>1. \A g \in Live' : \/ routes'[g].state = routes[g].state /\ routes'[g].conn = routes[g].conn
                         \/ routes'[g].conn /\ routes'[g].state \notin StillConnecting
    BY <1>7 DEF StillConnecting
  <2>2. QED BY <1>2, <1>7, <2>1, KeptShapes DEF FollowInv
<1>14. QED BY <1>12, <1>13

\* One of the two player controllers of a migration arrives; the tables of primary players
\* follow the game's.
LEMMA ReassignFollows ==
  ASSUME FollowInv, HandshakeInv', Running', NEW h \in Ids, ReassignNoPawn(h) \/ ReassignGame(h)
  PROVE  QueuedKinds' /\ Children' /\ Followed'
<1>1. /\ HandshakeInv /\ Running /\ TypeOK
      /\ routes[h].state \in Established
      /\ UNCHANGED <<splitJoins, client, home>>
  BY Tables DEF FollowInv, ReassignNoPawn, ReassignGame, Received, serverVars, clientVars
<1>2. PICK pc, rs, prev, game, d :
         /\ Received(h, pc) /\ Reassigns(h, rs, prev, game, d)
         /\ \A g \in Live : rs[g].server = routes[g].server /\ rs[g].conn = routes[g].conn
  BY <1>1, ReassignReceives
<1>3. /\ h \in Live /\ routes[h].client \in Clients
      /\ client[routes[h].client] # "closed"
      /\ primaryOf \in [Clients -> Ids \cup {NoId}]
      /\ deferred \in [Clients -> Deferred] /\ Live \subseteq Ids /\ h # NoId
  <2>1. h \in Live BY <1>2 DEF Received
  <2>2. routes[h].state # "PendingClose" BY <1>1 DEF Established
  <2>3. QED BY <2>1, <2>2, Tables DEF FollowInv, RouteInv, DepartedClients
<1>4. PICK c \in Clients : c = routes[h].client BY <1>3
<1>5. h \in RoutesOf(c) /\ ~Gone(c) BY <1>3, <1>4 DEF RoutesOf, Gone
<1>6. /\ pcs'[h] = <<>>
      /\ pc = "game" <=> h = home[c]
      /\ \A g \in Ids \ {h} : pcs'[g] = pcs[g]
      /\ pcs[h] # <<>> /\ pcs'[h] = Tail(pcs[h]) /\ Head(pcs[h]) = pc
  BY <1>1, <1>2, <1>5, ReceivedFollows DEF Received
<1>7. /\ Live' = Live
      /\ \A g \in Live : /\ routes'[g].client = routes[g].client
                         /\ routes'[g].conn = routes[g].conn
                         /\ \/ routes'[g].state = routes[g].state
                            \/ routes'[g].state \in Established
                         /\ g \notin {h, prev, game} => routes'[g].state = routes[g].state
      /\ \A g \in {h, prev, game} \cap Live :
            routes[g].conn /\ routes[g].client = routes[h].client
  BY <1>1, <1>2, <1>3, ReassignKeeps
<1>8. RoutesOf(c)' = RoutesOf(c) BY <1>7 DEF RoutesOf, Live
<1>9. \A g \in RoutesOf(c) : /\ g \in Live
                             /\ \/ routes'[g].state = routes[g].state
                                \/ routes'[g].state \in Established
                             /\ g # h => pcs'[g] = pcs[g]
  BY <1>3, <1>6, <1>7 DEF RoutesOf
<1>10. ASSUME ReassignNoPawn(h) PROVE Followed'
  <2>1. pc = "noPawn" BY <1>6, <1>10 DEF ReassignNoPawn, Received
  <2>2. h # home[c] BY <1>6, <2>1
  <2>3. /\ primaryOf' = primaryOf
        /\ \A g \in primaryPlayers : g # h => g \in primaryPlayers'
    BY <1>10 DEF ReassignNoPawn, SteppedDown
  <2>4. Follows(c)'
    <3>1. home'[c] = home[c] /\ client'[c] = client[c] BY <1>1
    <3>2. \A g \in RoutesOf(c)' \cap RoutesOf(c) :
             /\ routes'[g].state = routes[g].state \/ routes'[g].state \in Established
             /\ pcs'[g] = pcs[g] \/ (pcs'[g] = <<>> /\ home'[c] # g)
      BY <1>6, <1>9, <2>2, <3>1
    <3>3. home[c] \in primaryPlayers => home[c] \in primaryPlayers' BY <2>2, <2>3
    <3>4. QED BY <1>5, <1>8, <2>3, <3>1, <3>2, <3>3, KeptFollows
  <2>5. \A g \in Live : routes[g].client # c =>
           /\ routes'[g].state = routes[g].state /\ pcs'[g] = pcs[g]
           /\ g \in primaryPlayers => g \in primaryPlayers'
    BY <1>3, <1>4, <1>6, <1>7, <2>3
  <2>6. Followed' BY <1>1, <1>7, <2>3, <2>4, <2>5, OneClientFollows
  <2>7. QED BY <2>6
<1>11. ASSUME ReassignGame(h) PROVE Followed'
  <2> DEFINE from == IF deferred[c].game # NoId THEN NoId ELSE deferred[c].prev
  <2>1. pc = "game" BY <1>6, <1>11 DEF ReassignGame, Received
  <2>2. h = home[c] BY <1>6, <2>1
  <2>3. /\ primaryOf' = [primaryOf EXCEPT ![c] = h]
        /\ primaryPlayers' \in {primaryPlayers \cup {h},
                                (primaryPlayers \cup {h}) \ SteppedDown(from, h)}
        /\ from # NoId => routes' = Finalized([routes EXCEPT ![h].pc = "game"], from, h)
        /\ from = NoId => routes' = Awaiting([routes EXCEPT ![h].pc = "game"], h)
    BY <1>4, <1>11 DEF ReassignGame
  <2>4. /\ primaryOf'[c] = h /\ h \in primaryPlayers'
        /\ \A g \in primaryPlayers : g # from => g \in primaryPlayers'
    BY <1>3, <2>3 DEF SteppedDown
  <2>5. from \in Live => routes[from].client = c
    <3>1. DeferredAreOwn BY Tables DEF FollowInv, RouteInv
    <3>2. from # NoId => from \in {deferred[c].prev, deferred[c].game} \ {NoId} OBVIOUS
    <3>3. NoId \notin Live BY <1>3 DEF Ids
    <3>4. QED BY <3>1, <3>2, <3>3 DEF DeferredAreOwn
  <2> HIDE DEF from
  <2>6. routes'[h].state \in Established BY <1>1, <1>3, <1>7
  <2>7. Follows(c)'
    <3>1. home' = home /\ client' = client BY <1>1
    <3>2. \A g \in RoutesOf(c) \ {home[c]} : pcs'[g] = pcs[g] BY <1>9, <2>2
    <3>3. \A g \in RoutesOf(c) : \/ routes'[g].state = routes[g].state
                                 \/ routes'[g].state \in Established
      BY <1>9
    <3>4. \A g \in Live : routes'[g].client = routes[g].client BY <1>7
    <3>5. QED BY <1>3, <1>5, <1>6, <1>7, <2>2, <2>4, <2>6, <3>1, <3>2, <3>3, <3>4, ArrivedFollows
  <2>8. \A g \in Live : routes[g].client # c =>
           /\ routes'[g].state = routes[g].state /\ pcs'[g] = pcs[g]
           /\ g \in primaryPlayers => g \in primaryPlayers'
    BY <1>3, <1>4, <1>6, <1>7, <2>4, <2>5
  <2>9. \A e \in Clients \ {c} : primaryOf'[e] = primaryOf[e] BY <1>3, <2>3
  <2>10. \A g \in Live : routes'[g].client = routes[g].client BY <1>7
  <2>11. Followed' BY <1>1, <1>7, <2>7, <2>8, <2>9, <2>10, OneClientFollows
  <2>12. QED BY <2>11
<1>12. Followed' BY <1>10, <1>11
<1>13. QueuedKinds' /\ Children'
  <2>1. FinishedHandshakes BY <1>1 DEF HandshakeInv, Handshakes
  <2>2. \A g \in Live' : \/ routes'[g].state = routes[g].state /\ routes'[g].conn = routes[g].conn
                         \/ routes'[g].conn /\ routes'[g].state \notin StillConnecting
    BY <1>7, <2>1 DEF Established, StillConnecting
  <2>3. QED BY <1>1, <1>7, <2>2, KeptShapes DEF FollowInv
<1>14. QED BY <1>12, <1>13

\* The handshake of a departed client ends.
LEMMA AssignPendingCloseFollows ==
  ASSUME FollowInv, HandshakeInv', Running', NEW h \in Ids, AssignPendingClose(h)
  PROVE  QueuedKinds' /\ Children' /\ Followed'
<1>1. Live' = Live \ {h} /\ \A g \in Live' : routes'[g] = routes[g]
  BY DEF AssignPendingClose, Live, Restrict
<1>2. /\ h \in Live /\ routes[h].state = "PendingClose"
      /\ pcs' = [pcs EXCEPT ![h] = <<>>]
      /\ UNCHANGED <<splitJoins, primaryPlayers, primaryOf, client, home>>
  BY DEF AssignPendingClose, serverVars, primVars, clientVars
<1>3. /\ client[routes[h].client] = "closed"
      /\ pcs \in [Ids -> Seq(PC)] /\ Live \subseteq Ids
  BY <1>2, Tables DEF FollowInv, RouteInv, DepartedClients
<1>4. ASSUME NEW d \in Clients, ~Gone(d) PROVE Gone(d)' \/ Follows(d)'
  <2>1. h \notin RoutesOf(d) BY <1>3, <1>4 DEF RoutesOf, Gone
  <2>2. RoutesOf(d)' = RoutesOf(d) BY <1>1, <2>1 DEF RoutesOf
  <2>3. \A g \in RoutesOf(d) : routes'[g].state = routes[g].state /\ pcs'[g] = pcs[g]
    BY <1>1, <1>2, <1>3, <2>1 DEF RoutesOf
  <2>4. QED BY <1>2, <2>2, <2>3, AloneFollows
<1>5. Followed' BY <1>2, <1>4 DEF Followed, Gone
<1>6. QED BY <1>1, <1>2, <1>5, KeptShapes DEF FollowInv

\* A client leaves.
LEMMA HandleClosedFollows ==
  ASSUME FollowInv, HandshakeInv', Running', NEW c \in Clients, HandleClosedProxyConnection(c)
  PROVE  QueuedKinds' /\ Children' /\ Followed'
<1> DEFINE closed == {h \in RoutesOf(c) : routes[h].state \notin StillConnecting}
<1>1. /\ client' = [client EXCEPT ![c] = "closed"]
      /\ routes' = [h \in Live \ closed |->
                      IF routes[h].client = c
                        THEN [routes[h] EXCEPT !.state = "PendingClose"] ELSE routes[h]]
      /\ pcs' = [h \in Ids |-> IF h \in closed THEN <<>> ELSE pcs[h]]
      /\ primaryOf' = [primaryOf EXCEPT ![c] = NoId]
      /\ home' = [home EXCEPT ![c] = NoId]
      /\ UNCHANGED <<splitJoins, primaryPlayers>>
  BY DEF HandleClosedProxyConnection, serverVars
<1>2. /\ Live \subseteq Ids /\ home \in [Clients -> Ids \cup {NoId}]
      /\ primaryOf \in [Clients -> Ids \cup {NoId}]
      /\ client \in [Clients -> {"offline", "accepted", "joined", "closed"}]
      /\ \A h \in Live : routes[h] \in Route
  BY Tables DEF FollowInv
<1>3. \A h \in closed : h \in RoutesOf(c) OBVIOUS
<1> HIDE DEF closed
<1>4. Live' = Live \ closed BY <1>1 DEF Live
<1>5. \A h \in Live' : routes[h].client # c => routes'[h] = routes[h] BY <1>1, <1>4
<1>6. ASSUME NEW h \in Live', routes[h].client = c
      PROVE  routes'[h].client = c /\ routes'[h].state = "PendingClose"
  <2>1. routes'[h] = [routes[h] EXCEPT !.state = "PendingClose"] BY <1>1, <1>4, <1>6
  <2>2. h \in Live /\ routes[h] \in Route BY <1>2, <1>4
  <2>3. QED BY <1>6, <2>1, <2>2, StateChange DEF RouteState
<1>7. Gone(c)' BY <1>1, <1>2 DEF Gone
<1>8. ASSUME NEW d \in Clients \ {c} PROVE Gone(d)' \/ Follows(d)'
  <2>1. /\ client'[d] = client[d] /\ primaryOf'[d] = primaryOf[d] /\ home'[d] = home[d]
        /\ primaryPlayers' = primaryPlayers
    BY <1>1, <1>2
  <2>2. RoutesOf(d)' = RoutesOf(d)
    <3>1. \A h \in Live' : routes'[h].client = routes[h].client BY <1>5, <1>6
    <3>2. \A h \in Live : routes[h].client = d => h \in Live' BY <1>3, <1>4 DEF RoutesOf
    <3>3. QED BY <1>4, <3>1, <3>2 DEF RoutesOf
  <2>3. \A g \in RoutesOf(d) : routes'[g].state = routes[g].state /\ pcs'[g] = pcs[g]
    <3>1. \A g \in RoutesOf(d) : g \in Live' /\ g \notin closed /\ routes[g].client # c
      BY <1>3, <1>4 DEF RoutesOf
    <3>2. QED BY <1>1, <1>2, <1>5, <3>1 DEF RoutesOf
  <2>4. QED BY <2>1, <2>2, <2>3, AloneFollows
<1>9. Followed' BY <1>7, <1>8 DEF Followed
<1>10. \A h \in Live' : routes'[h] = routes[h] \/ routes'[h].state = "PendingClose"
  BY <1>5, <1>6
<1>11. QED BY <1>1, <1>4, <1>9, <1>10, KeptShapes DEF FollowInv

\* What takes routes away, or what is on its way to them, takes the pawns there as well.
LEMMA LostFollows ==
  ASSUME FollowInv, HandshakeInv', Running', Live' \subseteq Live,
         \A g \in Live' : /\ routes'[g] = routes[g]
                          /\ pcs'[g] = pcs[g] \/ pcs'[g] = <<>>,
         \A c \in Clients :
             \/ /\ home'[c] = home[c]
                /\ home[c] \in Live' => pcs'[home[c]] = pcs[home[c]]
             \/ home'[c] = NoId /\ (home[c] \in Live' => pcs'[home[c]] = <<>>),
         \A s \in Servers : splitJoins'[s] \subseteq splitJoins[s],
         UNCHANGED <<primaryPlayers, primaryOf, client>>
  PROVE  QueuedKinds' /\ Children' /\ Followed'
<1>1. ASSUME NEW d \in Clients, ~Gone(d) PROVE Follows(d)'
  <2>1. /\ RoutesOf(d)' \subseteq RoutesOf(d) /\ RoutesOf(d)' \subseteq Live'
        /\ NoId \notin RoutesOf(d)
    BY Tables DEF FollowInv, RoutesOf, Live
  <2>2. \A g \in RoutesOf(d)' \cap RoutesOf(d) :
           /\ routes'[g].state = routes[g].state \/ routes'[g].state \in Established
           /\ pcs'[g] = pcs[g] \/ (pcs'[g] = <<>> /\ home'[d] # g)
    BY <2>1
  <2>3. QED BY <1>1, <2>1, <2>2, KeptFollows
<1>2. Followed' BY <1>1 DEF Followed, Gone
<1>3. QED BY <1>2, KeptShapes DEF FollowInv

LEMMA RemoveFollows ==
  ASSUME FollowInv, HandshakeInv', Running, Running', NEW gone \in SUBSET Servers,
         RemoveGameServers(gone), UNCHANGED <<primVars, clientVars>>
  PROVE  QueuedKinds' /\ Children' /\ Followed'
<1>1. /\ Live' \subseteq Live /\ \A h \in Live' : routes'[h] = routes[h] /\ pcs'[h] = pcs[h]
      /\ \A s \in Servers : splitJoins'[s] \subseteq splitJoins[s]
      /\ \A c \in Clients : \/ home'[c] = home[c] /\ (home[c] # NoId => home[c] \in Live')
                            \/ home'[c] = NoId /\ home[c] \notin Live'
  BY RemoveKeeps DEF FollowInv
<1>2. UNCHANGED <<primaryPlayers, primaryOf, client>> BY DEF primVars, clientVars
<1>3. QED BY <1>1, <1>2, LostFollows

LEMMA ParentLostFollows ==
  ASSUME FollowInv, HandshakeInv', Running', NEW s \in Servers, ParentLost(s)
  PROVE  QueuedKinds' /\ Children' /\ Followed'
<1> DEFINE lost == {h \in Live : routes[h].server = s}
<1>1. /\ pcs' = [h \in Ids |-> IF h \in lost THEN <<>> ELSE pcs[h]]
      /\ home' = [c \in Clients |-> IF home[c] \in lost THEN NoId ELSE home[c]]
      /\ UNCHANGED <<routes, splitJoins, primaryPlayers, primaryOf, client>>
  BY DEF ParentLost, primVars, clientVars
<1> HIDE DEF lost
<1>2. Live \subseteq Ids /\ Live' = Live BY <1>1, Tables DEF FollowInv, Live
<1>3. \A g \in Live' : pcs'[g] = pcs[g] \/ pcs'[g] = <<>> BY <1>1, <1>2
<1>4. \A c \in Clients :
         \/ /\ home'[c] = home[c]
            /\ home[c] \in Live' => pcs'[home[c]] = pcs[home[c]]
         \/ home'[c] = NoId /\ (home[c] \in Live' => pcs'[home[c]] = <<>>)
  BY <1>1, <1>2
<1>5. QED BY <1>1, <1>2, <1>3, <1>4, LostFollows

LEMMA CloseChildFollows ==
  ASSUME FollowInv, HandshakeInv', Running', NEW h \in Ids, CloseChildConnection(h)
  PROVE  QueuedKinds' /\ Children' /\ Followed'
<1>1. /\ pcs' = [pcs EXCEPT ![h] = <<>>]
      /\ home' = [c \in Clients |-> IF home[c] = h THEN NoId ELSE home[c]]
      /\ UNCHANGED <<routes, splitJoins, primaryPlayers, primaryOf, client>>
  BY DEF CloseChildConnection, serverVars, primVars, clientVars
<1>2. Live \subseteq Ids /\ Live' = Live /\ pcs \in [Ids -> Seq(PC)]
  BY <1>1, Tables DEF FollowInv, Live
<1>3. \A g \in Live' : pcs'[g] = pcs[g] \/ pcs'[g] = <<>> BY <1>1, <1>2
<1>4. \A c \in Clients :
         \/ /\ home'[c] = home[c]
            /\ home[c] \in Live' => pcs'[home[c]] = pcs[home[c]]
         \/ home'[c] = NoId /\ (home[c] \in Live' => pcs'[home[c]] = <<>>)
  BY <1>1, <1>2
<1>5. QED BY <1>1, <1>2, <1>3, <1>4, LostFollows

\* A migration begins where the pawn has arrived, and leads to a route with a child.
LEMMA MigrateFollows ==
  ASSUME FollowInv, HandshakeInv', Running', Ordered,
         NEW c \in Clients, NEW h \in Ids, Migrate(c, h)
  PROVE  QueuedKinds' /\ Children' /\ Followed'
<1>1. /\ Running /\ home[c] # NoId /\ h \in RoutesOf(c)
      /\ routes[h].server # routes[home[c]].server
      /\ parent[routes[h].server] = "open" /\ h \notin closedChildren /\ ~Requested(h)
      /\ Seen(c)
      /\ home' = [home EXCEPT ![c] = h]
      /\ UNCHANGED <<splitJoins, routes, primaryPlayers, primaryOf, client, closedChildren>>
  BY DEF Migrate, Ordered, serverVars, primVars, clientVars
<1>2. pcs' = [g \in Ids |-> IF g = home[c] THEN Append(pcs[g], "noPawn")
                            ELSE IF g = h THEN Append(pcs[g], "game") ELSE pcs[g]]
  BY DEF Migrate, Ordered
<1>3. /\ home \in [Clients -> Ids \cup {NoId}] /\ Live \subseteq Ids
      /\ client[c] # "closed" /\ home[c] \in Live /\ routes[home[c]].client = c
      /\ OpenHandshakes
      /\ \A d \in Clients : home[d] # NoId => routes[home[d]].client = d
  BY <1>1, Tables DEF FollowInv, Handshakes, Homes
<1>4. home[c] \in RoutesOf(c) /\ home[c] # h /\ h \in Live /\ routes[h].client = c
  BY <1>1, <1>3 DEF RoutesOf
<1>5. \A g \in RoutesOf(c) : pcs[g] = <<>> BY <1>1 DEF Seen
<1>6. Follows(c) /\ ~Gone(c) BY <1>3 DEF FollowInv, Followed, Gone
<1>7. client[c] = "joined" /\ Entrants(c) = {}
  BY <1>1, <1>5, <1>6, OnlyController DEF Follows, Enters, Entrants
<1>8. routes[h].state \in Established
  <2>1. routes[h].conn BY <1>1, <1>3, <1>4, <1>5 DEF OpenHandshakes
  <2>2. /\ routes[h].state # "PendingClose"
        /\ routes[h].conn <=> routes[h].state \notin StillConnecting
    BY <1>1, <1>6, OwnRoutes DEF FollowInv
  <2>3. routes[h].state \in RouteState
    <3>1. routes[h] \in Route BY <1>4, Tables DEF FollowInv
    <3>2. QED BY <3>1 DEF Route
  <2>4. QED BY <2>1, <2>2, <2>3 DEF RouteState, StillConnecting, Established
<1>9. pcs'[home[c]] = <<"noPawn">> /\ pcs'[h] = <<"game">>
  <2>1. pcs[home[c]] = <<>> /\ pcs[h] = <<>> BY <1>1, <1>4, <1>5
  <2>2. pcs'[home[c]] = Append(<<>>, "noPawn") /\ pcs'[h] = Append(<<>>, "game")
    BY <1>2, <1>3, <1>4, <2>1
  <2>3. QED BY <2>2
<1>10. \A g \in Live \ {h, home[c]} : pcs'[g] = pcs[g] BY <1>2, <1>3
<1>11. Live' = Live /\ home'[c] = h /\ \A d : RoutesOf(d)' = RoutesOf(d)
  BY <1>1, <1>3 DEF Live, RoutesOf
<1>12. Follows(c)'
  <2>1. OnItsWay(c)' BY <1>1, <1>8, <1>9, <1>11 DEF OnItsWay
  <2>2. \A g \in RoutesOf(c)' \ {h} : pcs'[g] \in {<<>>, <<"noPawn">>}
    BY <1>5, <1>9, <1>10, <1>11 DEF RoutesOf
  <2>3. Entrants(c)' = {} BY <1>1, <1>7, <1>11 DEF Entrants
  <2>4. h \in RoutesOf(c)' \ closedChildren' BY <1>1, <1>11
  <2>5. QED BY <1>1, <1>7, <1>11, <2>1, <2>2, <2>3, <2>4 DEF Follows
<1>13. ASSUME NEW d \in Clients \ {c} PROVE Gone(d)' \/ Follows(d)'
  <2>1. home'[d] = home[d] BY <1>1, <1>3
  <2>2. \A g \in RoutesOf(d) : routes'[g].state = routes[g].state /\ pcs'[g] = pcs[g]
    BY <1>1, <1>3, <1>4, <1>10 DEF RoutesOf
  <2>3. QED BY <1>1, <1>11, <2>1, <2>2, AloneFollows
<1>14. Followed' BY <1>12, <1>13 DEF Followed
<1>15. QED BY <1>1, <1>11, <1>14, KeptShapes DEF FollowInv

\* The proxy shuts down: there is no client left.
LEMMA ShutdownFollows ==
  ASSUME FollowInv, Shutdown
  PROVE  QueuedKinds' /\ Children' /\ Followed'
<1> DEFINE closed == {h \in Live : routes[h].state \notin StillConnecting \cup {"PendingClose"}}
<1>1. /\ client' = [c \in Clients |-> "closed"]
      /\ splitJoins' = [s \in Servers |-> {}]
      /\ routes' = [h \in Live \ closed |-> [routes[h] EXCEPT !.state = "PendingClose"]]
  BY DEF Shutdown
<1>2. \A h \in Live : routes[h] \in Route BY Tables DEF FollowInv
<1> HIDE DEF closed
<1>3. \A h \in Live' : routes'[h].state = "PendingClose"
  <2>1. ASSUME NEW h \in Live' PROVE routes'[h].state = "PendingClose"
    <3>1. h \in Live /\ routes'[h] = [routes[h] EXCEPT !.state = "PendingClose"]
      BY <1>1, <2>1 DEF Live
    <3>2. QED BY <1>2, <3>1, StateChange DEF RouteState
  <2>2. QED BY <2>1
<1>4. QueuedKinds' /\ Children' BY <1>1, <1>3 DEF QueuedKinds, Children
<1>5. Followed' BY <1>1 DEF Followed, Gone
<1>6. QED BY <1>4, <1>5

LEMMA InitFollow == Init => FollowInv
<1> SUFFICES ASSUME Init PROVE FollowInv OBVIOUS
<1>1. HandshakeInv /\ QueuedKinds /\ Children
  BY InitHandOver DEF HandOverInv, Orderly
<1>2. /\ routes = <<>> /\ home = [c \in Clients |-> NoId] BY DEF Init
<1>3. Followed
  <2>1. Live = {} BY <1>2 DEF Live
  <2>2. QED BY <1>2, <2>1 DEF Followed, Follows, Entrants, RoutesOf
<1>4. QED BY <1>1, <1>3 DEF FollowInv

LEMMA NextFollow ==
  ASSUME Ordered, FollowInv, [Next]_vars
  PROVE  FollowInv'
<1>1. HandshakeInv' BY NextHandshakeInv DEF FollowInv
<1> DEFINE Kept == QueuedKinds' /\ Children' /\ Followed'
<1>2. ASSUME UNCHANGED <<splitJoins, routes, primVars, pcs, home, closedChildren>>,
             \A c \in Clients : \/ client'[c] = client[c]
                                \/ client[c] = "offline" /\ client'[c] = "accepted"
      PROVE  Kept
  <2>1. UNCHANGED <<primaryPlayers, primaryOf>> BY <1>2 DEF primVars
  <2>2. QueuedKinds' /\ Children' BY <1>2 DEF FollowInv, QueuedKinds, Children, Live
  <2>3. ASSUME NEW c \in Clients, ~Gone(c) PROVE Gone(c)' \/ Follows(c)'
    <3>1. Follows(c) BY <2>3 DEF FollowInv, Followed
    <3>2. /\ RoutesOf(c)' = RoutesOf(c) /\ Entrants(c)' = Entrants(c)
          /\ client[c] = "joined" => client'[c] = "joined"
      BY <1>2 DEF RoutesOf, Entrants, Live
    <3>3. QED BY <1>2, <2>1, <3>1, <3>2 DEF Follows, Arrived, OnItsWay, Enters
  <2>4. Followed' BY <1>2, <2>3 DEF Followed, Gone
  <2>5. QED BY <2>2, <2>4
<1>3. ASSUME NEW c \in Clients,
             Accept(c) \/ Join(c) \/ JoinDividesByZero(c) \/ HandleClosedProxyConnection(c)
      PROVE  Kept
  <2>1. CASE Accept(c)
    <3>1. client \in [Clients -> {"offline", "accepted", "joined", "closed"}]
      BY Tables DEF FollowInv
    <3>2. QED BY <1>2, <2>1, <3>1 DEF Accept, serverVars, envVars
  <2>2. CASE Join(c)
    <3>1. Running' BY <2>2 DEF Join, Running
    <3>2. QED BY <1>1, <2>2, <3>1, JoinFollows
  <2>3. CASE JoinDividesByZero(c)
    BY <1>2, <2>3 DEF JoinDividesByZero, serverVars, clientVars, envVars
  <2>4. CASE HandleClosedProxyConnection(c)
    <3>1. Running' BY <2>4 DEF HandleClosedProxyConnection, Running
    <3>2. QED BY <1>1, <2>4, <3>1, HandleClosedFollows
  <2>5. QED BY <1>3, <2>1, <2>2, <2>3, <2>4
<1>4. ASSUME NEW s \in Servers,
             \/ ParentConnected(s) \/ ParentSearchFaults(s) \/ RegisterGameServer(s)
             \/ RegisterGameServerAndConnectClients(s) \/ UnregisterGameServer(s)
             \/ ParentLost(s)
      PROVE  Kept
  <2>1. CASE ParentConnected(s)
    <3>1. Running' BY <2>1 DEF ParentConnected, Running
    <3>2. QED BY <1>1, <2>1, <3>1, ParentConnectedFollows
  <2>2. CASE ParentSearchFaults(s)
    BY <1>2, <2>2 DEF ParentSearchFaults, serverVars, clientVars, envVars
  <2>3. CASE RegisterGameServer(s)
    BY <1>2, <2>3 DEF RegisterGameServer, clientVars, envVars
  <2>4. CASE RegisterGameServerAndConnectClients(s)
    <3>1. Running' BY <2>4 DEF RegisterGameServerAndConnectClients, Running
    <3>2. QED BY <1>1, <2>4, <3>1, RegisterAndConnectFollows
  <2>5. CASE UnregisterGameServer(s)
    <3>1. Running /\ Running' BY <2>5 DEF UnregisterGameServer, Running
    <3>2. QED BY <1>1, <2>5, <3>1, RemoveFollows DEF UnregisterGameServer
  <2>6. CASE ParentLost(s)
    <3>1. Running' BY <2>6 DEF ParentLost, Running
    <3>2. QED BY <1>1, <2>6, <3>1, ParentLostFollows
  <2>7. QED BY <1>4, <2>1, <2>2, <2>3, <2>4, <2>5, <2>6
<1>5. ASSUME NEW h \in Ids, GameServerAssignPlayerController(h) \/ CloseChildConnection(h)
      PROVE  Kept
  <2>1. Running'
    BY <1>5 DEF GameServerAssignPlayerController, AssignConnecting, AssignConnectingPrimary,
                ReassignNoPawn, ReassignGame, AssignPendingClose, Received, Running,
                CloseChildConnection
  <2>2. QED BY <1>1, <1>5, <2>1, AssignConnectingFollows, ReassignFollows,
               AssignPendingCloseFollows, CloseChildFollows
            DEF GameServerAssignPlayerController
<1>6. ASSUME NEW c \in Clients, NEW h \in Ids, Migrate(c, h) PROVE Kept
  <2>1. Running' BY <1>6 DEF Migrate, Running
  <2>2. QED BY <1>1, <1>6, <2>1, MigrateFollows
<1>7. ASSUME DetectGameServerDisconnections PROVE Kept
  <2>1. Running /\ Running' BY <1>7 DEF DetectGameServerDisconnections, Running
  <2>2. LostServers \in SUBSET Servers
    <3>1. gameServers \in Seq(Servers) BY Tables DEF FollowInv, TypeOK
    <3>2. QED BY <3>1 DEF LostServers, Range
  <2>3. QED BY <1>1, <1>7, <2>1, <2>2, RemoveFollows DEF DetectGameServerDisconnections
<1>8. ASSUME Shutdown PROVE Kept BY <1>8, ShutdownFollows
<1>9. ASSUME ShutdownFaults PROVE Kept
  BY <1>2, <1>9 DEF ShutdownFaults, serverVars, clientVars, envVars
<1>10. ASSUME UNCHANGED vars PROVE Kept
  BY <1>2, <1>10 DEF vars, serverVars, clientVars, envVars
<1>11. Kept
  BY <1>3, <1>4, <1>5, <1>6, <1>7, <1>8, <1>9, <1>10 DEF Next
<1>12. QED BY <1>1, <1>11 DEF FollowInv

\* When game servers are lost, unregistered or close child connections, also in the middle
\* of a migration, a client whose pawn survived has its RPCs sent to the game server that
\* owns it whenever nothing is on its way, also after the migrations that follow.
THEOREM PawnsAreReached ==
  ASSUME Ordered
  PROVE  Spec => []QuietClientsAreReached
<1>1. ASSUME FollowInv, NEW c \in Clients, Quiet(c) PROVE Reached(c)
  <2>1. /\ client[c] = "joined" /\ home[c] # NoId
        /\ \A h \in RoutesOf(c) : pcs[h] = <<>>
    BY <1>1 DEF Quiet
  <2>2. Follows(c) BY <1>1, <2>1 DEF FollowInv, Followed, Gone
  <2>3. home[c] \in RoutesOf(c) \ closedChildren /\ pcs[home[c]] = <<>>
    BY <2>1, <2>2 DEF Follows
  <2>4. Arrived(c) BY <2>1, <2>2, <2>3, OnlyController DEF Follows, OnItsWay
  <2>5. QED BY <2>3, <2>4 DEF Arrived, Reached, ClientRPCForwarded
<1>2. FollowInv => QuietClientsAreReached BY <1>1 DEF QuietClientsAreReached
<1>3. FollowInv /\ [Next]_vars => FollowInv' BY NextFollow
<1>4. QED BY <1>2, <1>3, InitFollow, PTL DEF Spec

=============================================================================
