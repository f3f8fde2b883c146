# A TLA+ verification of DSTMTransport

DSTMTransport is an Unreal Engine plugin with which several game servers show one world to
their players.  Its two halves meet in the game servers:

* the **proxy** (`UProxyNetDriver`), to which game clients connect.  It has one connection to
  every game server, gives each client a route to each of them, and moves the client's
  *primary* route when its player controller migrates;
* the **DSTM transport** (`UDSTMSubsystem` and the beacon mesh under it), over which the game
  servers send each other serialized actors.

This directory holds TLA+ modules that model both, the TLC configurations that check them on
small instances, and proofs, checked by TLAPS, of theorems about both for instances of any
size.  Paths below are relative to
`src/Source/MultiServerReplicationEx/` unless they begin with `README.md`, the repository's.

## 1. Inventory

| Component | State | Operations | Talks to |
|---|---|---|---|
| Proxy routing tables (`Private/MultiServerProxy.cpp`, `Public/MultiServerProxy.h`) | `GameServerConnections` with their drivers and `PendingSplitJoinRequests`, `InternalRoutes`, `PlayerToPrimaryGameServerPlayerController`, `ProxyConnectionToPrimaryGameServerPlayerController`, `DeferredReassignment`, `NextClientHandshakeId`, `PrimaryGameServerForNextClient` | `NMT_Join`, `ConnectToGameServer`, `HandleClientPlayer`, `GameServerAssignPlayerController`, `HandleClosedProxyConnection`, `RegisterGameServer[AndConnectClients]`, `UnregisterGameServer`, `DetectGameServerDisconnections`, `ForwardRemoteFunction` | clients and game servers, by engine connections; `/register` |
| Child closes and proxy shutdown (`Private/MultiServerProxy.cpp:175-219`, `1148-1161`) | the same tables | `NMT_CloseChildConnection`, `Shutdown` | game servers |
| Beacon mesh (`MultiServerNode`, `MultiServerPeerConnection`, `MultiServerBeaconHost*`, `MultiServerBeaconClient`) | `PeerConnections` with beacon and retry timer, `NumExpectedServers`, the host's beacons, each beacon's `RemotePeerId` | `RegisterServer`, `InitClientBeacon`, accept or refuse, `OnConnected`, `ClientPeerConnected`, `ServerSetRemotePeerId`, `OnBeaconConnectionFailure`, `AreAllServersConnected` | other game servers by RPC; `UDSTMSubsystem` by delegate |
| DSTM registry (`DSTMSubsystem`) | `PeerBeacons`, `ServerIdHashToPeerId`, delegate bindings | `InitializeFromCommandLine`, `InitializeDSTMMesh`, `HandlePeerConnected`, `FindBeaconForServer`, `ShutdownMesh` | mesh, engine |
| Object migration (`DSTMSubsystem`, `DSTMBeaconClient`) | the servers' worlds, RPCs on the way | `TransferActorToServer`, `HandleObjectRequest`, `HandleIncomingMigrationRequest`, `HandleIncomingMigrationData` | registry, beacons, engine |
| Chunked transfer (`DSTMSubsystem`, `DSTMBeaconClient`) | `PendingChunks` of each beacon actor | `HandleOutgoingMigration`, `HandleReceivedChunk` | beacons |
| Registration over HTTP (`MultiServerProxy`, `ProxyRegistrationSubsystem`) | `RegisteredDSTMPeers` | `/register`, `JoinProxyHTTP` | proxy tables, mesh |
| Server identity and module start (`MultiServerReplicationModule`) | server id | `HashServerIdToRange`, delegate binding | engine |
| Relevancy and view targets (`Private/MultiServerProxy.cpp:1865-1961`) | `LastViewTargetPos` and `LastUpdateViewTargetSec` of each route | `PrepareStateForRelevancy`, `SetRemoteViewTarget` | no-pawn player controllers on the game servers, by RPC; reads the tables |
| Roles, metrics, NetGUID caches, net drivers, settings | derived or none | read the tables, or configure the engine | engine |

**What makes it hard.**  Everything in one process runs on its game thread, so a handler is
one step; the interleavings are those of *processes*.

* The two player controllers of one migration come from two game servers and arrive in either
  order, while clients leave and game servers are lost.  The code says so itself: it "must
  not assume that these events will arrive in a specific order, or even arrive at all"
  (`Private/MultiServerProxy.cpp:1568`).
* A split join is queued until its parent connection opens; a client that leaves meanwhile has
  its route closed only when a later event of another process arrives.
* Servers of the mesh dial each other, crash, restart and time out at any moment; the two ends
  of a connection notice at different times, and both sides of a pair may dial.
* A migrating object is in a message and nowhere else while connections come and go.

**What makes the parts correct.**

| Component | It is correct when |
|---|---|
| Routing tables | every table agrees on the server that owns a client's pawn once the events have arrived; RPCs on player controllers come from one server at a time, and a server that the pawn has left is heard, on other actors, no longer than until both events have arrived; client RPCs always have a target; a handshake is finished exactly once; the routes a departed client leaves await their handshake and are never used again, and no player it leaves in a map leads to a route; the next primary server is an entry of the array |
| View targets | every server without the pawn ends up with the position the client looks at, although the interval holds positions back and migrations replace the controllers they are told to |
| Mesh | one beacon per peer is listened to; both ends of a pair use the same connection; a peer connection never gives up and never dials twice; the peers it reports are live; the mesh forms again after failures |
| Migration | an object is never in two places, and is not lost while nothing fails |
| Chunks | payloads arrive whole, once and in order, and nothing is left of a transfer that was cut short |

`PROJECT.json` lists every hazard with its line and the property that watches it.

## 2. Modules

| Module | Stands for | Instances |
|---|---|---|
| `ProxyRoutes` | the routing tables of the proxy and their environment | `MCProxyRoutes` |
| `ClientSession` | abstract: what a client is promised while its player controller moves from server to server; `ProxyRoutes` is shown to implement it | |
| `ProxyRoutesProofs` | theorems about `ProxyRoutes` in every environment: types, departed clients and their players, deferred reassignments, the primary index | |
| `ProxyHandshakeProofs` | the handshake of a new route, in every environment (extends the above) | |
| `ProxyEntriesProofs` | how a client may come to have two routes to a server, in every environment (extends `ProxyHandshakeProofs`) | |
| `ProxyHandOverProofs` | the hand-over between servers in calm environments, and the refinement of `ClientSession` (extends `ProxyHandshakeProofs`) | |
| `ProxyViews` | view targets, on top of `ProxyRoutes` (it extends it: the routes move underneath) | `MCProxyViews` |
| `ProxyViewsProofs` | theorem about `ProxyViews` | |
| `BeaconMesh` | discovery, dialling, handshake, failure, retry, registry | `MCBeaconMesh` |
| `BeaconMeshProofs` | theorems about `BeaconMesh` | |
| `ObjectMigration` | push and pull of objects, on top of `BeaconMesh` (it extends it: the RPCs share the queues with the handshake) | `MCObjectMigration` |
| `ObjectOwnership` | abstract: what migration promises; `ObjectMigration` is shown to implement it | |
| `ObjectMigrationProofs` | theorems about `ObjectMigration`, the refinement among them (extends `BeaconMeshProofs`) | |
| `ChunkTransfer` | the chunks of serialized data on one direction of a beacon | `MCChunkTransfer` |
| `PayloadChannel` | abstract: what such a direction promises; `ChunkTransfer` is shown to implement it | |
| `ChunkTransferProofs` | theorems about `ChunkTransfer`, the refinement among them | |

### ProxyRoutes

A handshake id names the route, the `ULocalPlayer` and the child connection that
`ConnectToGameServer` creates together.  `routes` is `InternalRoutes` by id; `conn` and `pc` of
a route are its `GameServerConnection` and its kind of player controller.  `primaryPlayers` and
`primaryOf` are the two primary maps, `deferred` the deferred reassignments.

| Code | Definition |
|---|---|
| `UProxyListenerNotify::NotifyControlMessage`, `NMT_Join` (with `ConnectToGameServer` per server) | `Join`, `JoinDividesByZero` |
| `UProxyBackendNetConnection::HandleClientPlayer`, `FlushSplitJoinRequests` | `ParentConnected`, `ParentSearchFaults` |
| `GameServerAssignPlayerController` and `ProcessConnectionState_*` | `AssignConnecting`, `AssignConnectingPrimary`, `ReassignNoPawn`, `ReassignGame`, `AssignPendingClose` |
| `ReassignPlayerController`, `ReceivedReassigned*`, `FinalizePlayerControllerReassignment` | `Awaiting`, `Finalized`, `SteppedDown` in the two `Reassign` actions |
| `CleanUp`, `HandleClosedProxyConnection` | `HandleClosedProxyConnection` |
| `RegisterGameServer`, `RegisterGameServerAndConnectClients`, `UnregisterGameServer`, `DetectGameServerDisconnections` | actions of those names |
| `UGameServerNotify::NotifyControlMessage`, `NMT_CloseChildConnection` | `CloseChildConnection` |
| `UProxyNetDriver::Shutdown` | `Shutdown`, `ShutdownFaults` |
| `UProxyBackendNetDriver::ForwardRemoteFunction`, `GetProxyConnectionFromPrimaryPlayer` | `ServerRPCForwarded` for an actor that is a player `"controller"`, which has the check of the route's state, or any `"other"` one that a player owns, which has not |
| `UProxyNetDriver::ForwardRemoteFunction` | `ClientRPCForwarded` |

The environment is the engine, the clients and the game: `Accept`, `ParentLost`, `Migrate`.
`pcs` has, for each child connection, the player controllers that its game server has
replicated and the proxy has not received; `home` has the route whose game server owns the
client's pawn.  What the environment may do beyond the ordinary is the constant `Env`, so that
a property states under which surroundings it holds:

| Switch | Meaning |
|---|---|
| `acceptOpen` | a connection is `USOCK_Open` before its `NMT_Join` |
| `early` | a migration may start before the proxy has seen the player controller of the join |
| `overlap` | a migration may start before the proxy has seen the previous one |
| `loss` | a migration's player controllers may never arrive |
| `crash` | a parent connection may be lost |
| `closeChild` | a game server may close a child connection |
| `register`, `registerOnly`, `unregister`, `shutdown` | the public operations of `UProxyNetDriver` |

A game server is one entry of `GameServerConnections`; a process that comes back registers as
another entry, so each entry registers once.  `closedChildren` has the child connections
that their server has closed: their routes stay in the table, and neither end sends on them.
`fault` stops the proxy: one of the three ways in which a handler can fail (a remainder by
zero, a null driver, a null notify) or an orderly `Shutdown`.

### ClientSession

For each client four sets of game servers: the one that owns its pawn, those that take its RPCs,
those it hears, and those it hears on player controllers.  A hand-over begins when the pawn
moves.  Then one of two things happens: the old server falls silent on player controllers
(`FallSilent`), or the new one takes RPCs and is heard beside the old one on other actors
(`TakeRPCs`); the next step ends it (`HandOver`).  So a server that comes to be in one of the sets
owns the pawn, and none but the server left last stays in them without it.  `ProxyRoutes` maps
its tables (`SessionOf`) with `ClientRPCForwarded` and `ServerRPCForwarded`, which are the
conditions of the two `ForwardRemoteFunction`, and with `home`, where the game has the pawn; joins,
registrations and everything else must be stutters.

### ProxyViews

| Code | Definition |
|---|---|
| `PrepareStateForRelevancy`, second loop | `NoPawnRoutes`, `PrepareStateForRelevancy` |
| `SetRemoteViewTarget` | `Updated`, `Remembered`, `Told` |
| `LastViewTargetPos` of new and of removed routes | `Positions` |

`looks` is the view point of each client's primary player controller, which the client moves;
`told` is what the newest player controller behind a route has been told.  A position sent to a
controller that its server has just replaced is lost, and the new controller starts at
`Origin`.  Which routes are past the interval of
`net.proxy.NonPrimarySetViewTargetInterval` is any set `due`, so that every clock is allowed.
Every action of `ProxyRoutes` is a step of `ProxyViews`, by `Routing`.

### BeaconMesh and ObjectMigration

A connection has two ends, the beacon actor that dialled and the one the host spawned.  `queue`
has the reliable RPCs on their way to each end; they go when the end goes.  An end stays valid
until its own process notices that the other is gone, which is `ConnectionLost`; a connection
between two live processes that times out is `ConnectionTimesOut`.  `Stale` is the entry that
`PeerBeacons` keeps for a destroyed beacon.  When a process crashes, what was on its way to and
from it is gone: a process takes longer to start than a packet to arrive, so nothing reaches
the successor.  `Crash` is also the end of a process by `Deinitialize` and `ShutdownMesh`.  A
peer connection is known by its place in the peer list, since a list may name a peer twice.

| Code | Definition |
|---|---|
| `/register` handler, `JoinProxyHTTP` | `Register`, `Registered` |
| `InitializeFromCommandLine`, `InitializeDSTMMesh`, `UMultiServerNode::Create`, `RegisterServer` | `InitializeFromCommandLine`, `InitializeDSTMMesh`, `Dialed` |
| `InitClientBeacon` | `InitClientBeacons`, `Retry` |
| `AMultiServerBeaconHost` on `NMT_BeaconJoin` | `AcceptBeacon`, `RefuseBeacon` |
| `OnConnected`, `ClientPeerConnected`, `ServerSetRemotePeerId` | `OnConnected`, `PeerConnected` |
| `HandlePeerConnected` | `HandlePeerConnected`, `Rebound` |
| `OnBeaconConnectionFailure` | `ConnectionFails`, `Retries` |
| `ShutdownMesh`, the end of a process | `Crash` |
| `AreAllServersConnected` | `AreAllPeersConnected` |
| `GetConnectedPeerIds`, `GetConnectedPeerCount` | `GetConnectedPeerIds` |
| `FindBeaconForServer` | `HasBeacon`, `ForgetStale` |
| `TransferActorToServer`, `HandleOutgoingMigration` | actions of those names |
| `HandleObjectRequest`, `HandleIncomingMigrationRequest` | `HandleObjectRequest`, `RequestMigrateObject`, `FoundActor` |
| `HandleIncomingMigrationData` | `ReceiveMigratedObject` |

`ObjectMigration` has an object in one RPC; the split of that RPC is `ChunkTransfer`, and
`PayloadChannel`, which `ChunkTransfer` implements, is the reason why this is sound.

### ChunkTransfer

One direction of a beacon connection.  A byte is the number of its payload and its place in it,
so that the properties tell any two bytes apart.  `HandleOutgoingMigration` sends all RPCs of an
object in one call; `HandleReceivedChunk` is the receiver with its `FChunkAssembly`.
`MaxChunkSize` stands for the sender's constant and the receiver's 60000, which are equal.
`Transit` maps the RPCs on the wire to the payloads that `PayloadChannel` has in transit: the one
whose chunk is next and those that were sent after it.

## 3. Runs

Bounds are constants of the modules: `MaxIds` (handshake ids handed out), `MaxMigrations`,
`ConnIds` (connections at one time), `MaxFailures`, `MaxRequests`.  A run that reaches one
just stops taking that action; hence `CHECK_DEADLOCK FALSE`, as does a system in which nobody
joins, migrates or fails any more.

| Run | Instance | Shows |
|---|---|---|
| `routes_migrate` | 2 clients, 3 servers, 3 migrations, cycling primary | `QuietClientsAreSettled`, `OneControllerSpeaks`, `LeftServersFallSilent`, `ClientRPCsHaveATarget`, `SessionsAreHandedOver` (refinement): in either order of the events, the tables end in agreement, player controllers are heard of one server, a server without the pawn is heard no longer than until both events have arrived, client RPCs have a target, and each step in between is one of a hand-over |
| `routes_hostile` | 2 clients, 1 server and another that registers, the whole environment but `registerOnly`, 4 ids, 2 migrations | `TypeOK`, `DepartedClients`, `StalePlayersHaveNoRoute`, `PrimaryIndexInRange`, `HandshakesInProgress`, `DeferredAreOwn`, `PendingCloseIsFinal`, `JoinsAloneDouble`: whatever the environment does, departed clients leave only what is never used again, and only the join of a connection that was open before gives a client a second route to a server |
| `routes_settle` | 2 clients, 2 servers and a third that registers in either way, crashes, unregistering, 4 ids, 2 migrations, fair | `QuietClientsAreReached`, `ClientsSettle`, `HandshakesEnd`: clients whose pawn survives are reached, every handshake ends and with it every close that waits for it |
| `views` | 1 client, 3 servers, 3 migrations, 3 positions, fair | `BelievesOrStarts`, `ViewsFollow` |
| `mesh_rejoin` | 3 servers, two with the same static list and the first in address order joining through the proxy; capacity 2, one crash or time-out, fair | `MeshTypeOK`, `OneBeaconPerPeer`, `PeerConnectionsKeepTrying`, `QuietPeersAgree`, `ConnectedPeersAreLive`, `MeshForms` |
| `migration` | 2 servers that join through the proxy, 2 objects, one failure | `ObjectsHaveOneOwner` (refinement), `ArrivingDataIsHeard`, `RegistryMapsAgree`, `NoObjectLost` |
| `chunks` | sizes 1, 3, 4, 6, 7 with chunks of 3; 2 objects, 3 migrations | `ChunkTypeOK`, `AssembliesGoOn`, `PayloadsArriveWhole` (refinement) |

Why the bounds suffice.  Nothing of one client depends on another but the ids, the primary index
and the shared entries, so two clients give every interaction.  A deferred reassignment names
two routes: three servers and three consecutive migrations let a client move on, come back
and move again while another one does the same.  Four to six ids let both clients have a route
to every server and let one be created late.  In the mesh, three servers give a pair that is
disturbed by a third, and a capacity of two is exactly what the first server in address order
needs, so that a dead connection which its host has not noticed gets the new one refused; one
failure with unlimited retries already gives every order of the two ends' notice, refusal,
retry and restart.  Two objects cross each other and queue behind each other.  The sizes are
those below, at and above one and two chunks, and three migrations let an object be cut off,
come back and leave again.  View targets of two clients share nothing, so `views` has one; three
migrations between three servers leave a server, come back to it and leave it again, and three
positions tell the one that is held back from the one before it and from `Origin`.

`routes_settle` leaves `closeChild` out, because with it `HandshakesEnd` is false, as the end of
this section says, and `acceptOpen`, because a server that registers while a client is open
and has not joined is connected before the entries of the command line have drivers, which brings
the proxy down when its parent opens, as in `routes_null_driver`; a handshake does not end then.

### Where the code disagrees with what is said of it

These runs end in a counterexample, and each states what a comment or the documentation says.

* `routes_overlap`, `OneControllerSpeaks`.  A deferred reassignment joins whatever two events
  arrive, also those of different migrations (`Private/MultiServerProxy.cpp:1736`).  The pawn goes
  from A to B and back before the proxy has seen any of it: the game controller arrives from B,
  then B's no-pawn one, and B is finalized with itself (`:1791`) and becomes `ConnectedPrimary` while
  A, whose events are still on their way, is so too.
* `routes_crash_migrate`, `PawnServersSpeak`.  The server a client leaves is lost before its
  no-pawn controller arrives: the new route stays `PendingReassign`, and RPCs on player controllers
  of the server that owns the pawn are dropped, for ever.  Later migrations of that client, each
  complete before the next, stay one behind: after four migrations in all, two running game
  servers are both heard on player controllers.
* `routes_null_driver`, `HandshakeSurvives`.  An entry registered while no client is open has
  no driver; a later entry's parent opens, and the search (`:456`) reads through the null driver.
* `mesh_ready`, `ReadyMeansConnected`.  `AreAllServersConnected` counts acknowledged beacons,
  so two crossing connections to one peer hide a peer that was never reached.
* `migration_crossing`, `NoObjectLost`.  `ListenIp` is `0.0.0.0` by default
  (`Private/DSTMSubsystem.cpp:101`), so that a server never finds its own address in the list
  and both ends of a pair dial.  Each side keeps the connection whose handshake it saw last;
  when they keep different ones, data arrives at a beacon nobody listens to.

Because of the last one, `mesh_rejoin` has servers that do find their own address, and
`migration` has servers that learn of each other from the proxy, of which only the later dials.
Also seen, without a violation run:

* one migration is enough for a client to hear two servers: when the game controller arrives
  first, both players are in `PlayerToPrimaryGameServerPlayerController` (`:1766`) until the other
  event removes one (`:1793`).  RPCs on player controllers are held back by the state of the route
  (`:559`), those on other actors are not, although "only RPCs from a connections primary game
  server will be routed to the game client" (`:1099`).  `LeftServersFallSilent` is what does hold:
  one such server at most, and only until both events have arrived;
* a registration connects every open client (`:703`), and one that has not joined yet is connected
  to the same server again when it does: the routes are no longer "m*n"
  (`Public/MultiServerProxy.h:478`).  `routes_hostile` has this in its states (`acceptOpen` with
  `register`), and `JoinsAloneDouble` says that there is no other way to get there;
* a child connection that its server closes before the player controller has arrived leaves a
  route that never completes (`:184`), and the close that the client's departure defers until then
  (`:1481`) is never carried out;
* a migration that starts before the proxy has seen the controller of the join (`early`) makes
  the route it left the primary one; whether the engine can deliver in that order is not
  to be seen here;
* a client that joins when no server is registered and the primary cycles divides by zero
  (`:282`; `JoinDividesByZero`).  When it does not cycle, or names a primary server beyond the
  array, the client gets no primary route, and a server that registers later connects it as a
  non-primary one (`:273`, `:703`), although `README.md:375` has a proxy wait for registrations;
* `UnregisterGameServer` of a client's primary server leaves both primary maps with the removed
  route, although `README.md:840` says "full route/player/driver cleanup";
* `Shutdown` asks the driver and the notify of every entry, which an entry that no client has
  needed does not have (`:1157`; `ShutdownFaults`);
* `LastViewTargetPos` outlives the player controller behind its route: a new no-pawn controller
  on a server that the client has left before is not told where the client looks until the
  client looks elsewhere (`:1941`; the exception in `ViewsFollow`);
* `RegisteredDSTMPeers` is never cleaned, so a server that rejoins through the proxy is told its
  own address and peers that are gone, and both ends of its pairs dial.  `README.md:776` says
  that "no stale state accumulates".  `ArrivingDataIsHeard` therefore speaks of meshes in which
  no crashed server has joined through the proxy again.  The servers of `-ProxyGameServers=` are not in that array,
  although `README.md:129` answers with "all other registered servers";
* `GetFirstPeerServerId` may return a peer whose beacon is gone.

## 4. Fairness

`FairSpec` of `ProxyRoutes`: weak fairness of `ParentConnected`, of
`GameServerAssignPlayerController` and of `DetectGameServerDisconnections`.  A parent connection
either opens or is lost; player controllers are replicated reliably; the last one runs at the
start of every `TickFlush`.  Nothing obliges a client to join, leave or migrate, a server to
register, or a connection to be lost.  Weak fairness is enough, because nothing but the loss of
the connection or the client's departure disables these steps.

`FairMeshSpec`: weak fairness of starting, accepting, refusing, of the handshake RPCs, of
`ConnectionLost` and of `Retry`.  Servers start, hosts answer `NMT_BeaconJoin`, reliable RPCs
arrive, sockets time out, and the timer set by `GetRetryDelay` fires.  There is no fairness for
crashes and time-outs, and they are bounded: the property is about a mesh in which failures end.

`ViewFairness` of `ProxyViews`: weak fairness of `ParentConnected` and of
`GameServerAssignPlayerController` as above, and, for every route, of a
`PrepareStateForRelevancy` in which its interval is over: the proxy ticks, and its clock goes on.

## 5. Proofs

Every theorem holds for all values of the constants that satisfy the ASSUMEs of its module
(finite sets, no server listed twice at start, parameters of their types, the bounds natural
numbers) and the assumption in the table.  "Calm" is
`Env \subseteq {"acceptOpen", "register", "registerOnly"}`, "Ordered" is
`Env \cap {"early", "overlap", "loss"} = {}`, which leaves crashes, closed children and every call
of the proxy in; `OneDialer` (in `BeaconMeshProofs`)
says that of two servers with static lists one dials the other at most, and once, and says nothing
of servers that join through the proxy.  `Rejoined` (there, too) are the servers that have
crashed and joined through the proxy once more.

| Theorem | States | Assumes |
|---|---|---|
| `TypeCorrect` | `Spec => []TypeOK` | |
| `DepartedClientsStayGone` | `Spec => []DepartedClients` | |
| `DeferredStayOwn` | `Spec => []DeferredAreOwn` | |
| `ClosingRoutesAreFinal` | `Spec => PendingCloseIsFinal` | |
| `DepartedPlayersAreHarmless` | `Spec => []StalePlayersHaveNoRoute` | |
| `PrimaryIndexStaysInRange` | `Spec => []PrimaryIndexInRange` | |
| `HandshakesStayInProgress` | `Spec => []HandshakesInProgress` | |
| `OnlyJoinsDouble` | `Spec => JoinsAloneDouble` | |
| `PawnsAreReached` | `Spec => []QuietClientsAreReached` | Ordered |
| `HandOversUntilALoss` | `Spec => [](NothingLost => QuietClientsAreSettled /\ OneControllerSpeaks /\ LeftServersFallSilent /\ ClientRPCsHaveATarget)` | Ordered |
| `CalmClientsAreSettled` | `Spec => []QuietClientsAreSettled` | Calm |
| `OneControllerSpeaksAtATime` | `Spec => []OneControllerSpeaks` | Calm |
| `LeftServersAreSilent` | `Spec => []LeftServersFallSilent` | Calm |
| `ClientRPCsAlwaysHaveATarget` | `Spec => []ClientRPCsHaveATarget` | Calm |
| `SessionsRefine` | `Spec => SessionsAreHandedOver`, that is `ClientSession` | Calm |
| `BeliefsAreRemembered` | `ViewSpec => []BelievesOrStarts` | `"closeChild" \notin Env` |
| `MeshTypeCorrect`, `PeerConnectionsAreKept`, `ListensToOneBeaconPerPeer` | `MeshSpec => []MeshTypeOK`, `[]PeerConnectionsKeepTrying`, `[]OneBeaconPerPeer` | |
| `MigrationsKeepMeshTypes` | `Spec => []MeshTypeOK` of `ObjectMigration` | |
| `MigrationsKeepOneOwner` | `Spec => ObjectsHaveOneOwner`, that is `ObjectOwnership` | |
| `ProxyAndSameListsHaveOneDialer` | `OneDialer`, for the two ways of starting that the code is written for | everybody joins through the proxy, or all have the same list |
| `OneDialerOneConnection` | `MeshSpec => []LastingPeersAgree`: `QuietPeersAgree` of the pairs of which only one dials | `OneDialer` |
| `QuietPeersAgreeUntilARejoin` | `MeshSpec => [](Rejoined = {} => QuietPeersAgree)` | `OneDialer` |
| `ConnectedPeersAreLiveUntilARejoin` | `MeshSpec => [](Rejoined = {} => ConnectedPeersAreLive)` | `OneDialer` |
| `StaticPeersAgree` | `MeshSpec => []QuietPeersAgree` | `OneDialer`, one server joins through the proxy at most |
| `StaticPeersAreLive` | `MeshSpec => []ConnectedPeersAreLive` | the same, `ListenIpListed`, addresses are distinct |
| `DataIsHeard`, `ObjectsAreNotLost` | `Spec => []ArrivingDataIsHeard`, `[]NoObjectLost` | `OneDialer` |
| `MapsOfTheRegistryAgree` | `Spec => []RegistryMapsAgree` | no two peer ids of one hash |
| `ChunkTypeCorrect`, `NoAssemblyIsLeft` | `Spec => []ChunkTypeOK`, `[]AssembliesGoOn` | |
| `ChunksImplementThePayloadChannel` | `Spec => PayloadsArriveWhole`, that is `PayloadChannel` | |

**Routing tables in every environment.**  `TypeOK` is inductive as it stands; the work is in the
array operations (`RemoveGameServers` numbers the entries it keeps) and in
`ConnectToGameServer`, whose new ids stay within `Ids` by its guard.
`RouteInv == TypeOK /\ DepartedClients /\ DeferredAreOwn`: neither conjunct is inductive alone.
That a route is `PendingClose` exactly when its client has left must survive `Finalized`, which
writes `Connected` and `ConnectedPrimary` into two routes of which one is looked up by an id
stored long ago: without `DeferredAreOwn` that id could name a closing route of somebody else.
And an id stored long ago keeps its owner only because new routes get ids not below `nextId`,
while all live and all stored ones are below it.  `PendingCloseIsFinal` repeats the case
split for the action property, from the same invariant.  The map of primary players keeps those
of departed clients: `PlayersInv` says that a primary player has had its handshake, so that when its
client leaves its route is closed and not deferred; ids not being used again, it leads nowhere
for good.  `PrimaryIndexInRange` is inductive with `TypeOK`.

**Handshakes in every environment.**  `HandshakeInv` adds what the tables promise each other:
queued split joins wait for their parent and name a route of that server without a child
(`QueuedJoins`), player controllers come over open parents to open children
(`SentControllers`), a route without a child waits for exactly one of them unless its server or
its child has gone (`OpenHandshakes`), a route past its handshake, or named by a deferred
reassignment, has a child (`FinishedHandshakes`).  These hold while the proxy runs; after a
fault only the queues matter.

**Two routes to a server.**  Two calls create routes: `NMT_Join` those of one client to every
entry, a registration those of every open client to one new entry.  `EntriesInv` says that no
entry is listed twice and that every route is to a server that has registered.  So a registration
finds no route to its server, and a join gives two routes only to a client that had one before,
which is one that was open before it joined: the step of `JoinsAloneDouble`, and no other.

**The hand-over.**  `HandOverInv` says that each client is in one of five phases.  A migration
leads from `Playing` to `Announced`; the two player controllers then arrive in either order,
`OldFirst` or `NewFirst`, and the second leads back to `Playing`; `Entering` is the time before
the first of all.  Each phase fixes the states of the routes, the two primary maps, the deferred
reassignment and what is on its way, so that the four invariants follow from it at once, and with
them the state of `ClientSession` that the client is in (`Speech`);
each step keeps the phase or takes one step along the cycle, which is what the refinement needs.
`HandOversUntilALoss` lets game servers be lost: what is lost stays lost (`LostForGood`), and
until then every step is one of those above or the shutdown of the proxy (`LossFreeNext`).  After
a loss, or when migrations overlap, the statements are false: the runs with counterexamples
and section 3 say how.

**Where the pawn is.**  After a loss the phases mean nothing any more.  A migration that is cut
short leaves its deferred reassignment behind, the next one finds it there, and the routes of the
client stay one move behind from then on.  What survives is that a client's own RPCs go to its
pawn, because the controller that comes with the pawn sets the primary route whatever state the
other route is in.  `FollowInv` says just that and no more of the tables than it needs: the pawn's
controller has arrived, and then its route is established and the primary one, or it is on its way
to a route that will take it, and nothing but replacements is on its way to any other
(`Follows`).  The one thing that could disturb it is a route that still waits to become the
primary one when the client has moved on; `Enters` says that there is one such route at most,
and that it is where the pawn is.  Servers that are lost take routes away, and the pawn with them
when it is there; of a client without a pawn the property says nothing.

**View targets.**  What was told to a controller is lost when it is replaced, so `ViewInv` says
that controllers on their way have been told nothing, and that a position that outlives
its route never meets another, because ids are not used again.

**Mesh and migration.**  `MeshInv` is `TypedMesh` (types, and RPCs wait only for valid ends),
`MeshOwned` (what belongs to a process goes with it) and `OneBeaconOrTimer`.  The interplay is that
of the dialling index: a dead connection may be known to the host's side only, and its slot is
then dialled again.  `OneBeaconPerPeer` is inductive with it.  `MigrationInv` adds `InOnePlace`:
an object in an RPC is in one RPC and in no world.  A step destroys
beacons, or changes two queues at most by taking the first RPC out or putting a last one in:
lemmas about these operations (`Dropped`, `PopIt`, `PopOther`, `Push`) carry the proof, and every step maps to `Depart`,
`Arrive`, `Lose` or a stutter of `ObjectOwnership`.  `MapsInv` adds that a hash leads to a peer that
has it.

**One dialler.**  `DialInv` says who knows whom: of two processes that never crashed, the one that
registers later learns of the earlier and not the reverse (`Names`), and a server dials only
those it has learnt of.  What a crash changes is the list of a server that joined through the
proxy: it registers again and is told of servers that dial it already.  A static list stays, and so
does the list of a server that never crashed.  `Lasting` is what remains: a pair is harmless when
one of the two has a static list, or never crashed and does not dial the other (`Elder`).  Between
such servers one connection at most has both of its ends, whatever the crashes before: the
dead ends that a restarted process leaves at its host have empty queues and never bind again.
`ChannelInv` says what is on the way: between such servers an end is bound, or the RPC that
binds it is ahead of all data, or the host still waits for the answer to `OnConnected`.  The
invariants about quiet peers and arriving data follow.  `NoObjectLost` needs more, while nothing
fails: every peer that is known has a live connection (`Unfailing`), what is asked for comes from
a peer (`AskedFor`), and an object is in a world or in an RPC whose receiver will be bound
(`Kept`).  Without `OneDialer` it is false, as `migration_crossing` shows.

**Chunks.**  `ChunkInv` says that the wire holds the consecutive rest of what was sent
(`Consecutive`) and that the one open assembly is the one whose next chunk is first on the
wire, filled exactly so far (`Pending`).  The arithmetic of the last chunk, a quotient that
is rounded up, is in lemmas of its own.

The layout is everywhere the same: what an action changes, lemma by lemma, then one step per
action, then a temporal step.

Only model-checked: all liveness (`ClientsSettle`, `HandshakesEnd`, `ViewsFollow`, `MeshForms`;
fairness and `ENABLED` are out of the prover's reach).  Every safety property of a passing run is
stated by a theorem, in `routes_settle` and `mesh_rejoin` with failures and all.

## 6. Not modelled

* `ApplyGuidSeed`, `GetFirstPeerServerId` as an operation (the game's choice of a destination
  covers it), the lookups of beacons that keep no state, the length of the retry delay (any delay is
  allowed), local failures of `InitHost` and `InitClient`, level visibility over the beacons, a
  second `InitializeDSTMMesh` in the same process.
* Roles and local view targets of the proxy (`CanDowngradeActorRole`, `UpdateLocalViewTarget`) and
  its metrics: they read the routing tables and never change them.
* NetGUID caches and what the engine serializes: engine code that is not in the repository.
* Net driver subclasses, log categories, replicated types, the settings module and the build
  files: no behaviour.
* Parsing of URLs, command lines and HTTP answers; a `/register` request that fails is not
  repeated by the code either, and the server stays without a mesh.
* The queue of RPCs of a full connection, and 32-bit wrap-around of handshake ids.

## 7. Plan

The order was: the proxy first, because its tables carry the delicate protocol; then the mesh,
the migrations on top of it, the chunks under it, the view targets; with them the proofs.  Left:

1. `/register` as one step of both `BeaconMesh` and `ProxyRoutes`: the peer list a server gets and
   the routes it is given come from one call, which today two modules describe.
2. A run with two peer ids of one hash, where the survivor loses its entry with the stale one.
3. Liveness for clients that are open before they join, up to the fault of the entry search.
4. Proofs about pairs of which both sides dial after a crash: `OneBeaconPerPeer` is all that is
   proved of them.
5. The hand-over of one client while another one loses its game server: `HandOversUntilALoss` stops
   at the first loss of anybody.
