---------------------------- MODULE ProxyRoutes ----------------------------
(***************************************************************************)
(* The routing tables of UProxyNetDriver (Private/MultiServerProxy.cpp):   *)
(* how a client connection to the proxy is given one route to every game   *)
(* server, how exactly one of those routes becomes the primary one, how a  *)
(* player controller that migrates between game servers moves the primary  *)
(* route, and how routes are taken down when a client or a server goes     *)
(* away.                                                                   *)
(*                                                                         *)
(* A handshake id names a route, the ULocalPlayer created for it and the   *)
(* child connection that will carry it: ConnectToGameServer creates the    *)
(* three together and nothing shares them.  A game server is one entry of  *)
(* GameServerConnections; a restarted process registers as a new entry.    *)
(* Every handler runs on the game thread, so a handler is one step.        *)
(*                                                                         *)
(* The game servers, the clients and the engine's connections are the      *)
(* environment.  `pcs' holds the player controllers a game server has      *)
(* replicated to a child connection and the proxy has not yet received.    *)
(***************************************************************************)
EXTENDS Integers, Sequences, FiniteSets, Functions

CONSTANTS
    Clients,         \* client connections to the proxy
    Servers,         \* game server entries
    StartupServers,  \* the entries of -ProxyGameServers=, in order
    FirstPrimary,    \* ProxyClientPrimaryGameServer=<int>
    RandomPrimary,   \* ProxyClientPrimaryGameServer=random
    CyclePrimary,    \* -ProxyCyclePrimaryGameServer
    Env,             \* what the environment may do, a subset of EnvKinds
    MaxIds,          \* bound: handshake ids handed out
    MaxMigrations    \* bound: player controller migrations

\* acceptOpen: an accepted client connection is USOCK_Open before NMT_Join;
\* early: a client may migrate before the proxy has received the player controller it
\* joined with; overlap: a migration may start before the proxy has seen the last one;
\* loss: a migration event may never arrive; crash: a parent connection may be
\* lost; closeChild: a game server may close a child connection; register, registerOnly,
\* unregister, shutdown: the public calls of those names.
EnvKinds == {"acceptOpen", "early", "overlap", "loss", "crash", "closeChild",
             "register", "registerOnly", "unregister", "shutdown"}

NoId == 0
Ids  == 1 .. MaxIds

ASSUME ConstantsAssumption ==
    /\ IsFiniteSet(Clients)
    /\ IsFiniteSet(Servers)
    /\ StartupServers \in Seq(Servers)
    /\ \A i, j \in DOMAIN StartupServers :
            StartupServers[i] = StartupServers[j] => i = j
    /\ FirstPrimary \in Nat
    /\ RandomPrimary \in BOOLEAN
    /\ CyclePrimary \in BOOLEAN
    /\ Env \subseteq EnvKinds
    /\ MaxIds \in Nat
    /\ MaxMigrations \in Nat

RouteState == {"Connecting", "ConnectingPrimary", "Connected",
               "ConnectedPrimary", "PendingReassign", "PendingClose"}
PC         == {"game", "noPawn"}
Route      == [client : Clients, server : Servers, state : RouteState,
               conn : BOOLEAN,             \* GameServerConnection # nullptr
               pc : PC \cup {"none"}]
SplitJoin  == [id : Ids, pc : PC]
Deferred   == [prev : Ids \cup {NoId}, game : Ids \cup {NoId}]

NoReassignment == [prev |-> NoId, game |-> NoId]

VARIABLES
    gameServers,    \* GameServerConnections, in array order
    parent,         \* state of each entry's NetDriver->ServerConnection
    splitJoins,     \* PendingSplitJoinRequests of each entry
    routes,         \* InternalRoutes
    nextId,         \* NextClientHandshakeId
    nextPrimary,    \* PrimaryGameServerForNextClient
    randomize,      \* bRandomizePrimaryGameServerForNextClient
    primaryPlayers, \* keys of PlayerToPrimaryGameServerPlayerController
    primaryOf,      \* ProxyConnectionToPrimaryGameServerPlayerController
    deferred,       \* DeferredReassignment
    client,         \* how far each client connection has come
    open,           \* client connections in state USOCK_Open
    fault,          \* "none", or how the proxy ended
    pcs,            \* replicated, not yet received player controllers
    home,           \* the route whose child connection owns the game pawn
    migrations,     \* migrations started
    closedChildren  \* child connections that their game server has closed

serverVars == <<gameServers, parent, splitJoins>>
joinVars   == <<nextId, nextPrimary, randomize>>
primVars   == <<primaryPlayers, primaryOf, deferred>>
clientVars == <<client, open>>
gameVars   == <<migrations, closedChildren>>
envVars    == <<pcs, home, gameVars>>
vars == <<serverVars, routes, joinVars, primVars, clientVars, fault, envVars>>

-----------------------------------------------------------------------------
Live == DOMAIN routes

RoutesOf(c) == {h \in Live : routes[h].client = c}

\* The split join of route h is queued.
Requested(h) == \E s \in Servers : \E r \in splitJoins[s] : r.id = h

MutantAlwaysDefers == RouteState \ {"PendingClose"}  \* the check of bStillConnecting is dropped
StillConnecting == {"Connecting", "ConnectingPrimary"}

\* The states in which GameServerAssignPlayerController reassigns a player controller.
MutantReassignsClosing ==  \* the PendingClose case falls into the one before it
    {"Connected", "ConnectedPrimary", "PendingReassign", "PendingClose"}
Established == {"Connected", "ConnectedPrimary", "PendingReassign"}

\* UProxyBackendNetDriver::ForwardRemoteFunction, UProxyNetDriver's
\* InternalProcessRemoteFunction and GetProxyConnectionFromPrimaryPlayer: an RPC of a game
\* server is sent on to the client.  The actor is the player controller of route h, of
\* which the route must be the primary one, or another one that player h owns, of which
\* only the player is looked up.
ServerRPCForwarded(h, actor) ==
    /\ h \in Live \ closedChildren
    /\ actor = "controller" => routes[h].state = "ConnectedPrimary"
    /\ h \in primaryPlayers

\* UProxyNetDriver::ForwardRemoteFunction: an RPC of the client on an actor owned
\* by player h is sent to the game server connection of that player, if it has one.
ClientRPCForwarded(h) == h \in primaryPlayers \ closedChildren

Init ==
    /\ gameServers    = StartupServers
    /\ parent         = [s \in Servers |->
                            IF s \in Range(StartupServers) THEN "none" ELSE "unregistered"]
    /\ splitJoins     = [s \in Servers |-> {}]
    /\ routes         = <<>>
    /\ nextId         = 1
    /\ nextPrimary    = FirstPrimary
    /\ randomize      = RandomPrimary
    /\ primaryPlayers = {}
    /\ primaryOf      = [c \in Clients |-> NoId]
    /\ deferred       = [c \in Clients |-> NoReassignment]
    /\ client         = [c \in Clients |-> "offline"]
    /\ open           = {}
    /\ fault          = "none"
    /\ pcs            = [h \in Ids |-> <<>>]
    /\ home           = [c \in Clients |-> NoId]
    /\ migrations     = 0
    /\ closedChildren = {}

\* The proxy process is alive: every handler needs it.
Running == fault = "none"

-----------------------------------------------------------------------------
(* Joining: one route, one player and one split join request per server.   *)

\* The game server receives the split joins: it spawns a player controller of the
\* requested kind, which will be replicated to the new child connection.
SendSplitJoins(sent) ==
    /\ pcs'  = [h \in Ids |-> IF \E r \in sent : r.id = h
                                THEN <<(CHOOSE r \in sent : r.id = h).pc>>
                                ELSE pcs[h]]
    /\ home' = [c \in Clients |->
                    IF \E r \in sent : /\ routes'[r.id].client = c
                                       /\ routes'[r.id].state = "ConnectingPrimary"
                      THEN (CHOOSE r \in sent :
                                /\ routes'[r.id].client = c
                                /\ routes'[r.id].state = "ConnectingPrimary").id
                      ELSE home[c]]

MutantNewRoute(req) ==  \* the state of the first entry is taken, whichever was meant
    [client |-> req.client, conn |-> FALSE, pc |-> "none",
     server |-> IF gameServers = <<>> THEN req.server ELSE Head(gameServers),
     state  |-> IF req.primary THEN "ConnectingPrimary" ELSE "Connecting"]
NewRoute(req) ==
    [client |-> req.client, server |-> req.server, conn |-> FALSE, pc |-> "none",
     state  |-> IF req.primary THEN "ConnectingPrimary" ELSE "Connecting"]

\* NMT_JoinSplit can only be sent when the parent connection is open.
MutantNeverFlushes(conn) == FALSE  \* the request is queued but not flushed
CanSplitJoin(conn) == conn = "open"

\* GetNextClientHandshakeId, called count times.
MutantAdvanced(count) == IF count = 0 THEN nextId ELSE nextId + count - 1  \* pre-increment
Advanced(count) == nextId + count

\* ConnectToGameServer, called once for each element of the sequence reqs when the
\* parent connections are in the states `conns'.  An entry without a driver gets one,
\* and starts connecting its parent connection.
ConnectToGameServer(conns, reqs) ==
    LET id(i)    == nextId + i - 1
        touched  == {reqs[i].server : i \in DOMAIN reqs}
        queue(s) == splitJoins[s] \cup
                      {[id |-> id(i), pc |-> IF reqs[i].primary THEN "game" ELSE "noPawn"] :
                          i \in {j \in DOMAIN reqs : reqs[j].server = s}}
        flushed  == {s \in touched : CanSplitJoin(conns[s])}
    IN  /\ nextId + Len(reqs) - 1 <= MaxIds
        /\ nextId' = Advanced(Len(reqs))
        /\ routes' = [h \in Live \cup {id(i) : i \in DOMAIN reqs} |->
                          IF h \in Live THEN routes[h] ELSE NewRoute(reqs[h - nextId + 1])]
        /\ parent' = [s \in Servers |->
                          IF s \in touched /\ conns[s] = "none" THEN "pending" ELSE conns[s]]
        /\ splitJoins' = [s \in Servers |-> IF s \in flushed THEN {} ELSE queue(s)]
        /\ SendSplitJoins(UNION {queue(s) : s \in flushed})

\* The engine accepts a client connection; NMT_Join has not arrived yet.
Accept(c) ==
    /\ Running
    /\ client[c] = "offline"
    /\ client' = [client EXCEPT ![c] = "accepted"]
    /\ open' = IF "acceptOpen" \in Env THEN open \cup {c} ELSE open
    /\ UNCHANGED <<serverVars, routes, joinVars, primVars, fault, envVars>>

PrimaryChoices ==
    IF ~randomize THEN {nextPrimary}
    ELSE IF gameServers = <<>> THEN {0} ELSE 0 .. Len(gameServers) - 1

\* UProxyListenerNotify::NotifyControlMessage on NMT_Join.
Join(c) ==
    /\ Running
    /\ client[c] = "accepted"
    /\ ~(CyclePrimary /\ gameServers = <<>>)
    /\ client' = [client EXCEPT ![c] = "joined"]
    /\ randomize' = FALSE
    /\ \E p \in PrimaryChoices :
         /\ ConnectToGameServer(parent, [i \in 1 .. Len(gameServers) |->
               [client |-> c, server |-> gameServers[i], primary |-> i - 1 = p]])
         /\ nextPrimary' = IF CyclePrimary THEN (p + 1) % Len(gameServers) ELSE p
    /\ UNCHANGED <<gameServers, primVars, open, fault, gameVars>>

\* The same handler with no game server: the increment of the primary index is a
\* remainder by zero.
JoinDividesByZero(c) ==
    /\ Running
    /\ client[c] = "accepted"
    /\ CyclePrimary /\ gameServers = <<>>
    /\ fault' = "remainder by zero"
    /\ UNCHANGED <<serverVars, routes, joinVars, primVars, clientVars, envVars>>

\* UProxyBackendNetConnection::HandleClientPlayer: the parent connection opens, its
\* entry is searched for in array order and the queued split joins are sent.
ParentConnected(s) ==
    /\ Running
    /\ parent[s] = "pending"
    /\ LET i == CHOOSE j \in DOMAIN gameServers : gameServers[j] = s
       IN  \A j \in 1 .. i - 1 : parent[gameServers[j]] # "none"
    /\ parent' = [parent EXCEPT ![s] = "open"]
    /\ routes' = routes
    /\ splitJoins' = [splitJoins EXCEPT ![s] = {}]
    /\ SendSplitJoins(splitJoins[s])
    /\ UNCHANGED <<gameServers, joinVars, primVars, clientVars, fault, gameVars>>

\* The same handler when an earlier entry has no driver yet: the search reads
\* NetDriver->ServerConnection of every entry it passes.
ParentSearchFaults(s) ==
    /\ Running
    /\ parent[s] = "pending"
    /\ LET i == CHOOSE j \in DOMAIN gameServers : gameServers[j] = s
       IN  \E j \in 1 .. i - 1 : parent[gameServers[j]] = "none"
    /\ fault' = "null driver"
    /\ UNCHANGED <<serverVars, routes, joinVars, primVars, clientVars, envVars>>

-----------------------------------------------------------------------------
(* Receiving player controllers: GameServerAssignPlayerController by state *)

Received(h, pc) ==
    /\ Running
    /\ h \in Live
    /\ pcs[h] # <<>>
    /\ Head(pcs[h]) = pc
    /\ pcs' = [pcs EXCEPT ![h] = Tail(@)]

\* ProcessConnectionState_Connecting and FinalizeGameServerConnection.
AssignConnecting(h) ==
    /\ \E pc \in PC : /\ Received(h, pc)
                      /\ routes[h].state = "Connecting"
                      /\ routes' = [routes EXCEPT ![h].state = "Connected",
                                                  ![h].conn = TRUE, ![h].pc = pc]
    /\ UNCHANGED <<serverVars, joinVars, primVars, clientVars, fault, home, gameVars>>

\* ProcessConnectionState_ConnectingPrimary and FinalizeGameServerConnection.
AssignConnectingPrimary(h) ==
    /\ \E pc \in PC : /\ Received(h, pc)
                      /\ routes[h].state = "ConnectingPrimary"
                      /\ routes' = [routes EXCEPT ![h].state = "ConnectedPrimary",
                                                  ![h].conn = TRUE, ![h].pc = pc]
    /\ open' = open \cup {routes[h].client}
    /\ primaryPlayers' = primaryPlayers \cup {h}
    /\ primaryOf' = [primaryOf EXCEPT ![routes[h].client] = h]
    /\ UNCHANGED <<serverVars, joinVars, deferred, client, fault, home, gameVars>>

\* The first of the two player controllers of a migration: the route waits.
MutantPromotesEarly(rs, h) ==  \* the route is primary before the old one has stepped down
    [rs EXCEPT ![h].state = IF rs[h].pc = "game" THEN "ConnectedPrimary" ELSE "PendingReassign"]
Awaiting(rs, h) == [rs EXCEPT ![h].state = "PendingReassign"]

\* FinalizePlayerControllerReassignment: the player that is no longer a primary one.
MutantSteppedDown(prev, game) == {game}  \* the two players are mixed up
SteppedDown(prev, game) == {prev} \ {game}

\* FinalizePlayerControllerReassignment: the previous route is set first, so that a
\* route which is both ends as the primary one; a missing route is only reported.
MutantFinalized(rs, prev, game) ==  \* the previous route keeps its state
    [h \in DOMAIN rs |-> [rs[h] EXCEPT !.state = IF h = game THEN "ConnectedPrimary" ELSE @]]
Finalized(rs, prev, game) ==
    [h \in DOMAIN rs |-> [rs[h] EXCEPT !.state = CASE h = game -> "ConnectedPrimary"
                                                   [] h = prev /\ h # game -> "Connected"
                                                   [] OTHER -> @]]

\* ReassignPlayerController with an ANoPawnPlayerController.
ReassignNoPawn(h) ==
    LET c    == routes[h].client
        game == IF deferred[c].prev # NoId THEN NoId ELSE deferred[c].game
        rs   == [routes EXCEPT ![h].pc = "noPawn"]
    IN  /\ Received(h, "noPawn")
        /\ routes[h].state \in Established
        /\ IF game # NoId
             THEN /\ routes' = Finalized(rs, h, game)
                  /\ primaryPlayers' = primaryPlayers \ SteppedDown(h, game)
                  /\ deferred' = [deferred EXCEPT ![c] = NoReassignment]
             ELSE /\ routes' = Awaiting(rs, h)
                  /\ deferred' = [deferred EXCEPT ![c] = [prev |-> h, game |-> NoId]]
                  /\ UNCHANGED primaryPlayers
        /\ UNCHANGED <<serverVars, joinVars, primaryOf, clientVars, fault, home, gameVars>>

\* ReassignPlayerController with the game's player controller.
ReassignGame(h) ==
    LET c    == routes[h].client
        prev == IF deferred[c].game # NoId THEN NoId ELSE deferred[c].prev
        rs   == [routes EXCEPT ![h].pc = "game"]
    IN  /\ Received(h, "game")
        /\ routes[h].state \in Established
        /\ primaryOf' = [primaryOf EXCEPT ![c] = h]
        /\ IF prev # NoId
             THEN /\ routes' = Finalized(rs, prev, h)
                  /\ primaryPlayers' = (primaryPlayers \cup {h}) \ SteppedDown(prev, h)
                  /\ deferred' = [deferred EXCEPT ![c] = NoReassignment]
             ELSE /\ routes' = Awaiting(rs, h)
                  /\ primaryPlayers' = primaryPlayers \cup {h}
                  /\ deferred' = [deferred EXCEPT ![c] = [prev |-> NoId, game |-> h]]
        /\ UNCHANGED <<serverVars, joinVars, clientVars, fault, home, gameVars>>

\* ProcessConnectionState_PendingClose: the handshake of a departed client completes,
\* and the child connection is closed at once.
AssignPendingClose(h) ==
    /\ Running
    /\ h \in Live
    /\ pcs[h] # <<>>
    /\ routes[h].state = "PendingClose"
    /\ routes' = Restrict(routes, Live \ {h})
    /\ pcs' = [pcs EXCEPT ![h] = <<>>]
    /\ UNCHANGED <<serverVars, joinVars, primVars, clientVars, fault, home, gameVars>>

GameServerAssignPlayerController(h) ==
    \/ AssignConnecting(h)
    \/ AssignConnectingPrimary(h)
    \/ ReassignNoPawn(h)
    \/ ReassignGame(h)
    \/ AssignPendingClose(h)

-----------------------------------------------------------------------------
(* Leaving.                                                                *)

\* UProxyNetConnection::CleanUp and HandleClosedProxyConnection: routes that are still
\* connecting wait for their handshake, the others are closed with their children.
HandleClosedProxyConnection(c) ==
    LET closed == {h \in RoutesOf(c) : routes[h].state \notin StillConnecting}
    IN  /\ Running
        /\ client[c] \in {"accepted", "joined"}
        /\ client' = [client EXCEPT ![c] = "closed"]
        /\ open' = open \ {c}
        /\ routes' = [h \in Live \ closed |->
                        IF routes[h].client = c
                          THEN [routes[h] EXCEPT !.state = "PendingClose"]
                          ELSE routes[h]]
        /\ pcs' = [h \in Ids |-> IF h \in closed THEN <<>> ELSE pcs[h]]
        /\ primaryOf' = [primaryOf EXCEPT ![c] = NoId]
        /\ deferred' = [deferred EXCEPT ![c] = NoReassignment]
        /\ home' = [home EXCEPT ![c] = NoId]
        /\ UNCHANGED <<serverVars, joinVars, primaryPlayers, fault, gameVars>>

\* RegisterGameServer: append an entry; its driver is created when a client needs it.
RegisterGameServer(s) ==
    /\ Running
    /\ "registerOnly" \in Env
    /\ parent[s] = "unregistered"
    /\ gameServers' = Append(gameServers, s)
    /\ parent' = [parent EXCEPT ![s] = "none"]
    /\ UNCHANGED <<splitJoins, routes, joinVars, primVars, clientVars, fault, envVars>>

\* The connections in ClientConnections that a new game server is connected to.
MutantAnyConnection ==  \* the USOCK_Open check is dropped
    {c \in Clients : client[c] # "offline"}
OpenConnections == open

\* RegisterGameServerAndConnectClients: every open client connection is connected to
\* the new entry, never as primary.  ClientConnections may list them in any order.
RegisterGameServerAndConnectClients(s) ==
    /\ Running
    /\ "register" \in Env
    /\ parent[s] = "unregistered"
    /\ gameServers' = Append(gameServers, s)
    /\ \E order \in {f \in [1 .. Cardinality(OpenConnections) -> OpenConnections] :
                        IsInjective(f)} :
         ConnectToGameServer([parent EXCEPT ![s] = "none"],
             [i \in DOMAIN order |->
                 [client |-> order[i], server |-> s, primary |-> FALSE]])
    /\ UNCHANGED <<nextPrimary, randomize, primVars, clientVars, fault, gameVars>>

\* PrimaryGameServerForNextClient when count entries are left.
MutantClamped(count) ==  \* the empty array is not special
    IF nextPrimary < count THEN nextPrimary ELSE count - 1
MutantUnclamped(count) == nextPrimary  \* the index is left as it is
Clamped(count) ==
    IF count = 0 THEN 0 ELSE IF nextPrimary < count THEN nextPrimary ELSE count - 1

\* The effect of UnregisterGameServer on the entries in gone.  The array keeps its
\* order and the index for the next client is clamped.  The children of the closed
\* routes go with them; the maps of primary players are not touched.
RemoveGameServers(gone) ==
    LET kept   == Range(gameServers) \ gone
        closed == {h \in Live : routes[h].server \in gone}
        At(s)  == CHOOSE i \in DOMAIN gameServers : gameServers[i] = s
    IN  /\ \E rest \in [1 .. Cardinality(kept) -> kept] :
             /\ \A i, j \in DOMAIN rest : i < j => At(rest[i]) < At(rest[j])
             /\ gameServers' = rest
        /\ parent' = [s \in Servers |-> IF s \in gone THEN "destroyed" ELSE parent[s]]
        /\ splitJoins' = [s \in Servers |-> IF s \in gone THEN {} ELSE splitJoins[s]]
        /\ routes' = Restrict(routes, Live \ closed)
        /\ nextPrimary' = Clamped(Cardinality(kept))
        /\ pcs' = [h \in Ids |-> IF h \in closed THEN <<>> ELSE pcs[h]]
        /\ home' = [c \in Clients |-> IF home[c] \in closed THEN NoId ELSE home[c]]

UnregisterGameServer(s) ==
    /\ Running
    /\ "unregister" \in Env
    /\ s \in Range(gameServers)
    /\ RemoveGameServers({s})
    /\ UNCHANGED <<nextId, randomize, primVars, clientVars, fault, gameVars>>

\* DetectGameServerDisconnections, at the start of every TickFlush.
LostServers == {s \in Range(gameServers) : parent[s] = "closed"}

DetectGameServerDisconnections ==
    /\ Running
    /\ LostServers # {}
    /\ RemoveGameServers(LostServers)
    /\ UNCHANGED <<nextId, randomize, primVars, clientVars, fault, gameVars>>

\* UProxyNetDriver::Shutdown: the base class closes every client connection, so that
\* each is handled as in HandleClosedProxyConnection; then the drivers of the game servers
\* are destroyed and the array is emptied.
Shutdown ==
    LET closed == {h \in Live : routes[h].state \notin StillConnecting \cup {"PendingClose"}}
    IN  /\ Running
        /\ "shutdown" \in Env
        /\ \A s \in Range(gameServers) : parent[s] # "none"
        /\ client' = [c \in Clients |-> "closed"]
        /\ open' = {}
        /\ routes' = [h \in Live \ closed |-> [routes[h] EXCEPT !.state = "PendingClose"]]
        /\ primaryOf' = [c \in Clients |-> NoId]
        /\ deferred' = [c \in Clients |-> NoReassignment]
        /\ gameServers' = <<>>
        /\ parent' = [s \in Servers |->
                          IF s \in Range(gameServers) THEN "destroyed" ELSE parent[s]]
        /\ splitJoins' = [s \in Servers |-> {}]
        /\ pcs' = [h \in Ids |-> <<>>]
        /\ home' = [c \in Clients |-> NoId]
        /\ fault' = "shut down"
        /\ UNCHANGED <<joinVars, primaryPlayers, gameVars>>

\* The same call with an entry that no client has needed yet: World and GameServerNotify
\* are null, and unlike UnregisterGameServer it does not ask.
ShutdownFaults ==
    /\ Running
    /\ "shutdown" \in Env
    /\ \E s \in Range(gameServers) : parent[s] = "none"
    /\ fault' = "null notify"
    /\ UNCHANGED <<serverVars, routes, joinVars, primVars, clientVars, envVars>>

-----------------------------------------------------------------------------
(* The environment.                                                        *)

\* A parent connection is lost, and with it what its children had in flight.
ParentLost(s) ==
    /\ Running
    /\ "crash" \in Env
    /\ parent[s] \in {"pending", "open"}
    /\ parent' = [parent EXCEPT ![s] = "closed"]
    /\ LET lost == {h \in Live : routes[h].server = s}
       IN  /\ pcs' = [h \in Ids |-> IF h \in lost THEN <<>> ELSE pcs[h]]
           /\ home' = [c \in Clients |-> IF home[c] \in lost THEN NoId ELSE home[c]]
    /\ UNCHANGED <<gameServers, splitJoins, routes, joinVars, primVars, clientVars,
                   fault, gameVars>>

\* The game server of route h closes the child connection.
\* UGameServerNotify::NotifyControlMessage on NMT_CloseChildConnection closes it on the
\* proxy as well, and leaves the route as it is.
CloseChildConnection(h) ==
    /\ Running
    /\ "closeChild" \in Env
    /\ h \in Live \ closedChildren
    /\ parent[routes[h].server] = "open"
    /\ ~Requested(h)
    /\ closedChildren' = closedChildren \cup {h}
    /\ pcs' = [pcs EXCEPT ![h] = <<>>]
    /\ home' = [c \in Clients |-> IF home[c] = h THEN NoId ELSE home[c]]
    /\ UNCHANGED <<serverVars, routes, joinVars, primVars, clientVars, fault, migrations>>

\* The proxy has received every player controller of c that was sent to it.
Seen(c) == \A h \in RoutesOf(c) : pcs[h] = <<>>

\* The game moves the pawn of c to the game server of route h: the old server replaces
\* its player controller by a no-pawn one, the new server receives the game's.
Migrate(c, h) ==
    LET from == home[c]
    IN  /\ Running
        /\ migrations < MaxMigrations
        /\ from # NoId
        /\ h \in RoutesOf(c)
        /\ routes[h].server # routes[from].server
        /\ parent[routes[h].server] = "open"
        /\ h \notin closedChildren
        /\ ~Requested(h)
        /\ \/ Seen(c)
           \/ "early" \in Env /\ routes[from].state = "ConnectingPrimary" /\ pcs[from] = <<"game">>
           \/ "overlap" \in Env
        /\ \E lost \in IF "loss" \in Env THEN SUBSET {h, from} ELSE {{}} :
             pcs' = [g \in Ids |-> IF g \in lost THEN pcs[g]
                                   ELSE IF g = from THEN Append(pcs[g], "noPawn")
                                   ELSE IF g = h THEN Append(pcs[g], "game")
                                   ELSE pcs[g]]
        /\ home' = [home EXCEPT ![c] = h]
        /\ migrations' = migrations + 1
        /\ UNCHANGED <<serverVars, routes, joinVars, primVars, clientVars, fault, closedChildren>>

Next ==
    \/ \E c \in Clients : \/ Accept(c)
                          \/ Join(c)
                          \/ JoinDividesByZero(c)
                          \/ HandleClosedProxyConnection(c)
    \/ \E s \in Servers : \/ ParentConnected(s)
                          \/ ParentSearchFaults(s)
                          \/ RegisterGameServer(s)
                          \/ RegisterGameServerAndConnectClients(s)
                          \/ UnregisterGameServer(s)
                          \/ ParentLost(s)
    \/ \E h \in Ids : GameServerAssignPlayerController(h) \/ CloseChildConnection(h)
    \/ \E c \in Clients, h \in Ids : Migrate(c, h)
    \/ DetectGameServerDisconnections
    \/ Shutdown
    \/ ShutdownFaults

Spec == Init /\ [][Next]_vars

\* The proxy ticks, a reachable game server answers a connection or a split join, and
\* what it replicates arrives.  Nothing obliges a client or the game to do anything.
Fairness ==
    /\ \A s \in Servers : WF_vars(ParentConnected(s))
    /\ \A h \in Ids : WF_vars(GameServerAssignPlayerController(h))
    /\ WF_vars(DetectGameServerDisconnections)

FairSpec == Spec /\ Fairness

-----------------------------------------------------------------------------
(* Properties.                                                             *)

\* The types of the routing tables (MultiServerProxy.h:478-528).
TypeOK ==
    /\ gameServers \in Seq(Servers)
    /\ parent \in [Servers -> {"unregistered", "none", "pending", "open", "closed",
                               "destroyed"}]
    /\ splitJoins \in [Servers -> SUBSET SplitJoin]
    /\ Live \subseteq Ids
    /\ routes \in [Live -> Route]
    /\ nextId \in 1 .. MaxIds + 1
    /\ nextPrimary \in Nat
    /\ randomize \in BOOLEAN
    /\ primaryPlayers \subseteq Ids
    /\ primaryOf \in [Clients -> Ids \cup {NoId}]
    /\ deferred \in [Clients -> Deferred]
    /\ client \in [Clients -> {"offline", "accepted", "joined", "closed"}]
    /\ open \subseteq Clients
    /\ fault \in {"none", "remainder by zero", "null driver", "null notify", "shut down"}
    /\ pcs \in [Ids -> Seq(PC)]
    /\ home \in [Clients -> Ids \cup {NoId}]
    /\ migrations \in 0 .. MaxMigrations
    /\ closedChildren \subseteq Ids

\* Nothing is under way for client c, its pawn is on some game server, and the proxy
\* has noticed every lost one.
Quiet(c) ==
    /\ LostServers = {}
    /\ client[c] = "joined"
    /\ home[c] # NoId
    /\ \A h \in RoutesOf(c) : pcs[h] = <<>> /\ routes[h].state \notin StillConnecting

\* The RPCs of client c go to the game server with its pawn.
Reached(c) ==
    /\ primaryOf[c] = home[c]
    /\ ClientRPCForwarded(home[c])

\* And only the RPCs of that game server go to the client: the hand-over is finished.
Settled(c) ==
    /\ Reached(c)
    /\ primaryPlayers \cap RoutesOf(c) = {home[c]}
    /\ routes[home[c]].state = "ConnectedPrimary"
    /\ \A h \in RoutesOf(c) : routes[h].state = "ConnectedPrimary" => h = home[c]
    /\ deferred[c] = NoReassignment

\* Whenever the events of all migrations have arrived, in whichever order, the route
\* states, both primary maps and the deferred reassignments agree on the game server
\* that owns the pawn (ReassignPlayerController and the two ReceivedReassigned*).
QuietClientsAreSettled == \A c \in Clients : Quiet(c) => Settled(c)

\* When game servers may be lost in the middle of a migration, a client whose pawn
\* survived still has its RPCs sent to the game server that owns it, also after the
\* migrations that follow.
QuietClientsAreReached == \A c \in Clients : Quiet(c) => Reached(c)

\* RPCs on player controllers come to a client from one game server at a time, also between
\* the two events of a migration (the state check of ForwardRemoteFunction).
OneControllerSpeaks ==
    \A c \in Clients : \A g, h \in RoutesOf(c) :
        ServerRPCForwarded(g, "controller") /\ ServerRPCForwarded(h, "controller") => g = h

\* The game servers without the pawn of client c whose RPCs still reach it.
Overheard(c) == {h \in RoutesOf(c) \ {home[c]} : ServerRPCForwarded(h, "other")}

\* A game server that a client has left is heard, whatever the actor, only until both events
\* of that migration have arrived, and no more than one is
\* (FinalizePlayerControllerReassignment removes the previous primary player).
LeftServersFallSilent ==
    \A c \in Clients :
        /\ \A g, h \in Overheard(c) : g = h
        /\ \A h \in Overheard(c) : pcs[h] = <<"noPawn">> \/ pcs[home[c]] = <<"game">>

\* From its first primary connection until it leaves, a client's RPCs have a game
\* server to go to, also in the middle of a migration (ForwardRemoteFunction).
ClientRPCsHaveATarget ==
    \A c \in Clients : primaryOf[c] # NoId =>
        /\ primaryOf[c] \in RoutesOf(c)
        /\ routes[primaryOf[c]].conn
        /\ ClientRPCForwarded(primaryOf[c])

\* A client as ClientSession sees it: a player the proxy has no primary route for has no pawn
\* there yet.
ServersOf(ids) == {routes[h].server : h \in ids}

SessionOf(c) ==
    [pawn    |-> ServersOf(IF primaryOf[c] = NoId THEN {} ELSE {home[c]} \cap RoutesOf(c)),
     talksTo |-> ServersOf({h \in RoutesOf(c) : ClientRPCForwarded(h)}),
     hears   |-> ServersOf({h \in RoutesOf(c) : ServerRPCForwarded(h, "other")}),
     obeys   |-> ServersOf({h \in RoutesOf(c) : ServerRPCForwarded(h, "controller")})]

Session == INSTANCE ClientSession WITH
    session <- [c \in Clients |-> SessionOf(c)],
    gone    <- {c \in Clients : client[c] = "closed"}

\* In between, and in either order of the two player controllers, a hand-over takes two
\* steps, and whatever comes to take RPCs of the client, or to be heard by it, is the game
\* server that owns the pawn (ReassignPlayerController: "must not assume that these events
\* will arrive in a specific order").
SessionsAreHandedOver == Session!Spec

SamePlace(r, q) == r.client = q.client /\ r.server = q.server

\* Nothing but an NMT_Join gives a client a second route to a game server, and only to one
\* that registered while its connection was already open
\* (RegisterGameServerAndConnectClients asks for USOCK_Open, not for a join).
JoinsAloneDouble ==
    [][\A g, h \in Live' :
            /\ g # h /\ SamePlace(routes[g], routes[h])'
            /\ ~({g, h} \subseteq Live)
            => LET c == routes'[g].client
               IN  /\ client[c] = "accepted" /\ client'[c] = "joined"
                   /\ {g, h} \cap Live # {}]_vars

\* Of a client that has left no primary game server connection is known, no reassignment is
\* deferred, and its routes await their handshake; only clients that have left have such
\* routes (HandleClosedProxyConnection).
DepartedClients ==
    /\ \A c \in Clients : client[c] = "closed" =>
          primaryOf[c] = NoId /\ deferred[c] = NoReassignment /\ c \notin open
    /\ \A h \in Live :
          client[routes[h].client] = "closed" <=> routes[h].state = "PendingClose"

\* PlayerToPrimaryGameServerPlayerController keeps the players of departed clients, but none
\* of them leads to a route: nothing is forwarded to a connection that was closed, also
\* while its other routes await their handshake.
StalePlayersHaveNoRoute ==
    \A h \in primaryPlayers \cap Live : client[routes[h].client] # "closed"

\* The index of the next client's primary game server is that of an entry, or the one the
\* command line gave, however the array shrinks and grows (UnregisterGameServer).
PrimaryIndexInRange ==
    Running => nextPrimary \in {0, FirstPrimary} \/ nextPrimary < Len(gameServers)

\* A deferred reassignment only names routes of its own client: a handshake id is never
\* given to another route, even when the first one is gone (DeferredReassignment keeps the
\* ids of routes that UnregisterGameServer has removed).
DeferredAreOwn ==
    /\ \A h \in Live : h < nextId
    /\ \A c \in Clients : \A h \in {deferred[c].prev, deferred[c].game} \ {NoId} :
          h < nextId /\ (h \in Live => routes[h].client = c)

\* A route without a child connection is waiting for exactly one thing that can give it
\* one, a queued split join or a player controller on its way, unless its server is
\* lost or has closed the child; a route with a child has no split join left
\* (FlushSplitJoinRequests).
HandshakesInProgress ==
    /\ Running => \A h \in Live :
          /\ routes[h].conn \/ h \in closedChildren => ~Requested(h)
          /\ ~routes[h].conn /\ h \notin closedChildren /\ parent[routes[h].server] # "closed"
                => (Requested(h) <=> pcs[h] = <<>>)
    /\ \A s \in Servers : splitJoins[s] # {} => parent[s] \in {"pending", "closed"}

\* A route of a departed client is never used again, it can only disappear
\* (ProcessConnectionState_PendingClose).
PendingCloseIsFinal ==
    [][\A h \in Live : routes[h].state = "PendingClose" /\ h \in Live' =>
            routes'[h] = routes[h]]_vars

\* Every handshake ends: a route that waits for a player controller gets it or goes away,
\* and a close that was deferred until then is carried out (HandleClosedProxyConnection:
\* "defer destroying the connection until the connection handshake is complete").
HandshakesEnd ==
    \A h \in Ids :
        (h \in Live /\ routes[h].state \notin Established)
            ~> (h \in Live => routes[h].state \in Established)

\* In every quiet state the RPCs of the game server that owns the pawn on the player
\* controller reach the client, also when another game server was lost.
PawnServersSpeak ==
    \A c \in Clients : Quiet(c) => ServerRPCForwarded(home[c], "controller")

\* A parent connection that opens does not bring the proxy down: entries may be registered
\* before and after clients join, "You can use both modes together" (README.md:902).
HandshakeSurvives == fault # "null driver"

\* Every client that stays ends up with the tables leading to the game server that owns
\* its pawn, if that one was not lost, and when no game server has gone the hand-over is
\* finished: its route is the primary one.
ClientsSettle ==
    \A c \in Clients : <>[](client[c] = "joined" =>
        /\ home[c] # NoId => Reached(c)
        /\ (\A s \in Servers : parent[s] \notin {"closed", "destroyed"}) => Settled(c))
=============================================================================
