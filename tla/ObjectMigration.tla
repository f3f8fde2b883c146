-------------------------- MODULE ObjectMigration --------------------------
(***************************************************************************)
(* The migration of objects over the beacon mesh (Private/DSTMSubsystem.cpp*)
(* and the RPCs of Private/DSTMBeaconClient.cpp): an actor is pushed to    *)
(* another server, or pulled by it, through the beacon that the registry   *)
(* has for that server.  An actor that leaves its world is in one RPC, and *)
(* nowhere else, until the other side has put it into its own.             *)
(*                                                                         *)
(* Chunking is in ChunkTransfer: here an object is one RPC.                *)
(***************************************************************************)
EXTENDS BeaconMesh

CONSTANTS
    Objects,     \* actors that migrate, by FRemoteObjectId
    Home,        \* the server on which each of them was spawned
    MaxRequests  \* bound: pull requests on their way at one time

ASSUME ObjectsAssumption ==
    IsFiniteSet(Objects) /\ Home \in [Objects -> Servers] /\ MaxRequests \in Nat

VARIABLE world  \* the objects in the world of each server

vars == <<meshVars, world>>

\* Receive(Migrated)Object carries an object, RequestMigrateObject asks for one on behalf
\* of a server id.
Migrated(o)    == <<"migrated", o>>
Request(o, id) == <<"request", o, id>>
Requests       == {Request(o, id) : o \in Objects, id \in ServerIds}
DataRPCs       == {Migrated(o) : o \in Objects} \cup Requests

ASSUME PayloadsAssumption == DataRPCs \subseteq Payloads

\* The positions of the RPCs rpcs in the queues.
Positions(rpcs) ==
    UNION {{<<e, i>> : i \in {j \in DOMAIN queue[e] : queue[e][j] \in rpcs}} : e \in Ends}

Carries(e, o) == Migrated(o) \in Range(queue[e])

InitObjects ==
    /\ Init
    /\ world = [s \in Servers |-> {o \in Objects : Home[o] = s}]

-----------------------------------------------------------------------------
(* FindBeaconForServer, and the entries it removes when the beacon is gone. *)

Entry(s, id) == IF hashToPeer[s][id] = None THEN None ELSE peerBeacons[s][hashToPeer[s][id]]

MutantHasBeacon(s, id) == FALSE \* the map is searched with another hash than it was filled with
HasBeacon(s, id) == Entry(s, id) \in Ends

MutantForgetStale(s, id) ==  \* only the beacon is forgotten
    IF Entry(s, id) = Stale
      THEN /\ peerBeacons' = [peerBeacons EXCEPT ![s][hashToPeer[s][id]] = None]
           /\ UNCHANGED hashToPeer
      ELSE UNCHANGED <<peerBeacons, hashToPeer>>
ForgetStale(s, id) ==
    IF Entry(s, id) = Stale
      THEN /\ peerBeacons' = [peerBeacons EXCEPT ![s][hashToPeer[s][id]] = None]
           /\ hashToPeer'  = [hashToPeer EXCEPT ![s][id] = None]
      ELSE UNCHANGED <<peerBeacons, hashToPeer>>

\* The RPC rpc goes out on the beacon for server id, if there is one: as a Client RPC from
\* the host's side, as a Server RPC from the other.
SendTo(s, id, q, rpc) ==
    /\ queue' = IF HasBeacon(s, id) THEN Sent(q, Other(Entry(s, id)), rpc) ELSE q
    /\ ForgetStale(s, id)

-----------------------------------------------------------------------------
\* TransferActorToServer: the engine takes the actor out of the world and calls
\* HandleOutgoingMigration; without a beacon the "migration data [is] lost".
Departed(s, o) == [world EXCEPT ![s] = @ \ {o}]

HandleOutgoingMigration(s, o, id, q) ==
    /\ world' = Departed(s, o)
    /\ SendTo(s, id, q, Migrated(o))

\* The game names the destination from ServerIdHashToPeerId: GetFirstPeerServerId, or a
\* peer of GetConnectedPeerIds.
TransferActorToServer(s, o, id) ==
    /\ s \in active
    /\ o \in world[s]
    /\ id # HashServerIdToRange(s)
    /\ hashToPeer[s][id] # None
    /\ HandleOutgoingMigration(s, o, id, queue)
    /\ UNCHANGED <<startVars, timers, conns, acked, bound, failVars>>

\* HandleObjectRequest, called by the engine on a server that wants an object it last knew
\* on server id.
HandleObjectRequest(s, o, id) ==
    /\ s \in active
    /\ o \notin world[s]
    /\ id # HashServerIdToRange(s)
    /\ Cardinality(Positions(Requests)) < MaxRequests
    /\ SendTo(s, id, queue, Request(o, HashServerIdToRange(s)))
    /\ UNCHANGED <<startVars, timers, conns, acked, bound, failVars, world>>

\* (Server|Client)ReceiveMigratedObject: the beacon broadcasts, and when the subsystem
\* listens to it HandleIncomingMigrationData puts the object into the world.
Heard(e) == e \in bound

ReceiveMigratedObject(e, o) ==
    /\ Arrives(e, Migrated(o))
    /\ queue' = [queue EXCEPT ![e] = Tail(@)]
    /\ world' = IF Heard(e) THEN [world EXCEPT ![Local(e)] = @ \cup {o}] ELSE world
    /\ UNCHANGED <<startVars, timers, conns, acked, registryVars, failVars>>

\* HandleIncomingMigrationRequest searches its world for the actor: it may have gone.
MutantFoundActor(s, o) == TRUE  \* the actor that was known here is sent, wherever it is
FoundActor(s, o) == o \in world[s]

\* (Server|Client)RequestMigrateObject: HandleIncomingMigrationRequest pushes the object to
\* the server that asked, if it is (still) here.
RequestMigrateObject(e, o, id) ==
    LET s    == Local(e)
        rest == [queue EXCEPT ![e] = Tail(@)]
    IN  /\ Arrives(e, Request(o, id))
        /\ IF Heard(e) /\ FoundActor(s, o)
             THEN HandleOutgoingMigration(s, o, id, rest)
             ELSE queue' = rest /\ UNCHANGED <<peerBeacons, hashToPeer, world>>
        /\ UNCHANGED <<startVars, timers, conns, acked, bound, failVars>>

\* A crash takes the world with it.
CrashWorld(s) == Crash(s) /\ world' = [world EXCEPT ![s] = {}]

Next ==
    \/ MeshStep /\ UNCHANGED world
    \/ \E s \in Servers : CrashWorld(s)
    \/ \E s \in Servers, o \in Objects, id \in ServerIds :
          TransferActorToServer(s, o, id) \/ HandleObjectRequest(s, o, id)
    \/ \E e \in Ends, o \in Objects :
          \/ ReceiveMigratedObject(e, o)
          \/ \E id \in ServerIds : RequestMigrateObject(e, o, id)

Spec == InitObjects /\ [][Next]_vars

-----------------------------------------------------------------------------
(* Properties.                                                             *)

\* Whatever fails, an object is never in two worlds, never in a world and on its way, and
\* one that is lost does not come back.
Ownership == INSTANCE ObjectOwnership WITH
    holders <- [o \in Objects |-> {s \in Servers : o \in world[s]}],
    copies  <- [o \in Objects |-> Cardinality(Positions({Migrated(o)}))]

ObjectsHaveOneOwner == Ownership!Spec

\* Data that arrives is heard, also on a connection that was lost and dialled again: the
\* handshake that binds the receiver is ahead of it on the same connection (OnConnected,
\* OnClientConnected and HandlePeerConnected send and register in that order).  A server
\* that rejoins through the proxy dials peers that dial it as well, and this ends.
ArrivingDataIsHeard ==
    crashed \cap active \cap JoinsProxy = {} => \A e \in Ends, o \in Objects : Carries(e, o) =>
        \/ e \in bound
        \/ \E i \in DOMAIN queue[e] :
              /\ queue[e][i] \in PeerIds
              /\ \A j \in DOMAIN queue[e] : queue[e][j] = Migrated(o) => i < j

\* The registry's two maps know the same peers, however often peers fail, rejoin and are
\* found stale, as long as no two peer ids have the same hash: the hash of a peer names it
\* exactly when it has an entry in PeerBeacons (HandlePeerConnected fills both maps and
\* FindBeaconForServer empties both; GetFirstPeerServerId trusts the second).
RegistryMapsAgree ==
    \A s, p \in Servers :
        peerBeacons[s][p] # None <=> hashToPeer[s][HashServerIdToRange(p)] = p

\* No object is lost while no process and no connection fails: TransferActorToServer hands
\* it to a server that will have it (README.md, "Migrating an Actor").
NoObjectLost ==
    failures = 0 => \A o \in Objects :
        \/ \E s \in Servers : o \in world[s]
        \/ \E e \in Ends : Carries(e, o)
=============================================================================
