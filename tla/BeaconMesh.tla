----------------------------- MODULE BeaconMesh -----------------------------
(***************************************************************************)
(* The DSTM beacon mesh: how a game server process comes to know its peers *)
(* (-DSTMPeers= or the proxy's /register answer), whom it dials            *)
(* (UMultiServerNode::RegisterServer), how a beacon connection is accepted,*)
(* exchanges peer ids, fails and is retried (UMultiServerPeerConnection,   *)
(* AMultiServerBeaconHost, AMultiServerBeaconClient), and the registry of  *)
(* UDSTMSubsystem that the migrations are routed by.                       *)
(*                                                                         *)
(* A peer id names a process and its beacon address.  A connection has two *)
(* ends, the beacon actor of the process that dialled and the one the host *)
(* spawned for it; an end stays valid until its own process notices that   *)
(* the other one has gone.  RPCs are reliable and arrive in order: `queue' *)
(* holds those on the way to an end, and they are gone when the end is.    *)
(***************************************************************************)
EXTENDS Integers, Sequences, FiniteSets, Functions

CONSTANTS
    Servers,         \* game server processes, by peer id
    AddressOrder,    \* the servers by the text order of their DSTM addresses
    StaticPeers,     \* -DSTMPeers= of each server
    JoinsProxy,      \* servers started with -JoinProxy= instead
    ListenIpListed,  \* ListenIp is the host the peer lists have for the server
    TypeHash,        \* GetTypeHash of each peer id
    MaxConnections,  \* AMultiServerBeaconHost::MaxConnections
    None,            \* no entry in a map
    Stale,           \* an entry of PeerBeacons whose beacon has been destroyed
    Payloads,        \* the RPCs that the subsystem sends over its beacons
    Rejoins,         \* servers that are started again when they crash
    ConnIds,         \* bound: connections that exist at one time
    MaxFailures      \* bound: crashes of processes and losses of connections

ASSUME MeshAssumption ==
    /\ IsFiniteSet(Servers)
    /\ AddressOrder \in Seq(Servers)
    /\ \A s \in Servers : \E i \in DOMAIN AddressOrder : AddressOrder[i] = s
    /\ StaticPeers \in [Servers -> Seq(Servers)]
    /\ JoinsProxy \subseteq Servers
    /\ ListenIpListed \in BOOLEAN
    /\ TypeHash \in [Servers -> Nat]
    /\ MaxConnections \in Nat
    /\ Rejoins \subseteq Servers
    /\ IsFiniteSet(ConnIds)
    /\ MaxFailures \in Nat

Sides == {"client", "host"}
Ends  == ConnIds \X Sides

ASSUME NoBeaconAssumption ==
    None \notin Ends /\ Stale \notin Ends /\ None # Stale /\ None \notin Servers

\* FRemoteServerId of a peer: ten bits, 1 .. 1020.
HashServerIdToRange(p) == (TypeHash[p] % 1020) + 1
ServerIds == {HashServerIdToRange(p) : p \in Servers}

Conn      == [dialer : Servers, slot : Nat, host : Servers,
              accepted : BOOLEAN,          \* the host has seen NMT_BeaconJoin
              ends : SUBSET Sides]         \* the beacon actors that are valid
PeerIds   == {<<"peerConnected">>, <<"setRemotePeerId">>}
Handshake == {<<"onConnected">>} \cup PeerIds

VARIABLES
    registered,   \* RegisteredDSTMPeers of the proxy
    answers,      \* /register answers on their way, by server
    active,       \* servers with a DSTMNode
    expected,     \* NumExpectedServers
    peers,        \* RemoteAddress of each of PeerConnections, by place in the list
    timers,       \* <<server, index>> of PeerConnections with a pending retry
    conns,        \* connections, each with its valid ends
    queue,        \* RPCs on their way to an end
    acked,        \* ends with a RemotePeerId
    bound,        \* ends whose delegates the subsystem has bound
    peerBeacons,  \* PeerBeacons
    hashToPeer,   \* ServerIdHashToPeerId
    crashed,      \* servers that have crashed
    failures      \* crashes and losses of connections

startVars    == <<registered, answers, active, expected, peers>>
failVars     == <<crashed, failures>>
beaconVars   == <<timers, conns, queue, acked>>
registryVars == <<bound, peerBeacons, hashToPeer>>
meshVars     == <<startVars, beaconVars, registryVars, failVars>>

-----------------------------------------------------------------------------
Valid(e)  == e[1] \in DOMAIN conns /\ e[2] \in conns[e[1]].ends
Other(e)  == <<e[1], IF e[2] = "client" THEN "host" ELSE "client">>
Local(e)  == IF e[2] = "client" THEN conns[e[1]].dialer ELSE conns[e[1]].host
Remote(e) == IF e[2] = "client" THEN conns[e[1]].host ELSE conns[e[1]].dialer

\* The valid beacons of server s: UMultiServerNode::ForEachBeaconClient.
BeaconsOf(s) == {e \in Ends : Valid(e) /\ Local(e) = s}

\* A reliable RPC to an end that exists; nobody ever receives the others.
Sent(q, e, rpc) == IF Valid(e) THEN [q EXCEPT ![e] = Append(@, rpc)] ELSE q

\* The beacon actors in gone are destroyed, and with them what they had not received and
\* what they had sent: a process takes longer to start than a packet to arrive.
DestroyBeacons(gone) ==
    LET left(k) == {side \in conns[k].ends : <<k, side>> \notin gone}
    IN  /\ conns' = [k \in {j \in DOMAIN conns : left(j) # {}} |->
                        [conns[k] EXCEPT !.ends = left(k)]]
        /\ queue' = [e \in Ends |-> IF {e, Other(e)} \cap gone # {} THEN <<>> ELSE queue[e]]
        /\ acked' = acked \ gone
        /\ bound' = bound \ gone

\* PeerBeacons keeps its pointers to destroyed beacons.
Forgotten(gone) ==
    [s \in Servers |-> [p \in Servers |->
        IF peerBeacons[s][p] \in gone THEN Stale ELSE peerBeacons[s][p]]]

Init ==
    /\ registered  = <<>>
    /\ answers     = <<>>
    /\ active      = {}
    /\ expected    = [s \in Servers |-> 0]
    /\ peers       = [s \in Servers |-> <<>>]
    /\ timers      = {}
    /\ conns       = <<>>
    /\ queue       = [e \in Ends |-> <<>>]
    /\ acked       = {}
    /\ bound       = {}
    /\ peerBeacons = [s \in Servers |-> [p \in Servers |-> None]]
    /\ hashToPeer  = [s \in Servers |-> [x \in ServerIds |-> None]]
    /\ crashed     = {}
    /\ failures    = 0

-----------------------------------------------------------------------------
(* Starting: discovery and dialling.                                       *)

\* A process that is running and has no mesh yet.
Starting(s) == s \notin active /\ s \notin crashed \ Rejoins

\* StartRegistrationHTTP's /register handler, as far as the mesh sees it: the answer
\* lists the servers that registered before.  Entries are never removed.
Register(s) ==
    /\ s \in JoinsProxy
    /\ Starting(s)
    /\ s \notin DOMAIN answers
    /\ answers'    = [r \in DOMAIN answers \cup {s} |->
                         IF r = s THEN registered ELSE answers[r]]
    /\ registered' = Append(registered, s)
    /\ UNCHANGED <<active, expected, peers, beaconVars, registryVars, failVars>>

\* The peers that RegisterServer dials: the list is sorted, and the loop ends at the
\* server's own address.  A peer connection is known by its place in the list.
Before(p, s) == \E i, j \in DOMAIN AddressOrder :
                    i < j /\ AddressOrder[i] = p /\ AddressOrder[j] = s
MutantDialed(s, list) == list  \* the loop goes on after the own address
Dialed(s, list) ==
    IF ListenIpListed /\ s \in Range(list)
      THEN Restrict(list, {i \in DOMAIN list : Before(list[i], s)})
      ELSE list

\* InitClientBeacon of the peer connections in slots of server s: a beacon each, that
\* starts to connect.
NewConn(s, i, p) ==
    [dialer |-> s, slot |-> i, host |-> p, accepted |-> FALSE, ends |-> {"client"}]

InitClientBeacons(s, slots, addresses) ==
    LET free == ConnIds \ DOMAIN conns
    IN  /\ Cardinality(slots) <= Cardinality(free)
        /\ LET id == CHOOSE f \in [slots -> free] : IsInjective(f)
           IN  conns' = [k \in DOMAIN conns \cup Range(id) |->
                            IF k \in DOMAIN conns THEN conns[k]
                            ELSE LET i == CHOOSE j \in slots : id[j] = k
                                 IN  NewConn(s, i, addresses[i])]

\* UDSTMSubsystem::InitializeDSTMMesh and UMultiServerNode::Create.
InitializeDSTMMesh(s, list) ==
    LET dialed == Dialed(s, list)
    IN  /\ active'   = active \cup {s}
        /\ expected' = [expected EXCEPT ![s] = Len(list) + 1]
        /\ peers'    = [peers EXCEPT ![s] = dialed]
        /\ InitClientBeacons(s, DOMAIN dialed, dialed)
        /\ UNCHANGED <<timers, queue, acked, registryVars, failVars>>

\* UDSTMSubsystem::InitializeFromCommandLine.
InitializeFromCommandLine(s) ==
    /\ s \notin JoinsProxy
    /\ Starting(s)
    /\ InitializeDSTMMesh(s, StaticPeers[s])
    /\ UNCHANGED <<registered, answers>>

\* The answer of /register arrives in JoinProxyHTTP.
Registered(s) ==
    /\ s \in DOMAIN answers
    /\ answers' = Restrict(answers, DOMAIN answers \ {s})
    /\ InitializeDSTMMesh(s, answers[s])
    /\ UNCHANGED registered

-----------------------------------------------------------------------------
(* One connection: accepted, acknowledged, lost and retried.               *)

AtCapacity(s) == Cardinality({e \in BeaconsOf(s) : e[2] = "host"}) >= MaxConnections

Joining(k) == k \in DOMAIN conns /\ ~conns[k].accepted /\ conns[k].host \in active

\* NMT_BeaconJoin at a host with room: the engine spawns the host's beacon, has the
\* client's one call OnConnected, and AMultiServerBeaconHostObject::OnClientConnected
\* sends the host's peer id.
AcceptBeacon(k) ==
    /\ Joining(k)
    /\ ~AtCapacity(conns[k].host)
    /\ conns' = [conns EXCEPT ![k].accepted = TRUE, ![k].ends = Sides]
    /\ queue' = [queue EXCEPT ![<<k, "client">>] = <<<<"onConnected">>, <<"peerConnected">>>>]
    /\ UNCHANGED <<startVars, timers, acked, registryVars, failVars>>

\* NMT_BeaconJoin at a full host: NMT_Failure, and the connection is closed.
RefuseBeacon(k) ==
    /\ Joining(k)
    /\ AtCapacity(conns[k].host)
    /\ conns' = [conns EXCEPT ![k].accepted = TRUE]
    /\ UNCHANGED <<startVars, timers, queue, acked, registryVars, failVars>>

Arrives(e, rpc) == queue[e] # <<>> /\ Head(queue[e]) = rpc

\* AMultiServerBeaconClient::OnConnected: the dialling side sends its peer id.
OnConnected(e) ==
    /\ Arrives(e, <<"onConnected">>)
    /\ queue' = Sent([queue EXCEPT ![e] = Tail(@)], Other(e), <<"setRemotePeerId">>)
    /\ UNCHANGED <<startVars, timers, conns, acked, registryVars, failVars>>

\* UDSTMSubsystem::HandlePeerConnected for a beacon e of server s to peer p.
MutantRebound(old, e) == bound \cup {e}  \* the previous beacon is not unbound
MutantSwapped(old, e) == (bound \ {e}) \cup {old}  \* the wrong one is unbound
Rebound(old, e) == (bound \ {old}) \cup {e}

HandlePeerConnected(s, p, e) ==
    /\ bound'       = Rebound(peerBeacons[s][p], e)
    /\ peerBeacons' = [peerBeacons EXCEPT ![s][p] = e]
    /\ hashToPeer'  = [hashToPeer EXCEPT ![s][HashServerIdToRange(p)] = p]

\* ClientPeerConnected at the dialling side, ServerSetRemotePeerId at the host's.
PeerConnected(e) ==
    /\ \E rpc \in PeerIds : Arrives(e, rpc)
    /\ queue' = [queue EXCEPT ![e] = Tail(@)]
    /\ acked' = acked \cup {e}
    /\ HandlePeerConnected(Local(e), Remote(e), e)
    /\ UNCHANGED <<startVars, timers, conns, failVars>>

\* The engine closes an end whose other end has gone, or that nobody answers.
Unanswered(e) ==
    /\ Valid(e)
    /\ IF conns[e[1]].accepted THEN ~Valid(Other(e)) ELSE conns[e[1]].host \notin active

\* At the dialling side OnBeaconConnectionFailure destroys the beacon and sets the retry
\* timer; at the host's the engine destroys the beacon.
MutantRetries(e) == {}  \* the timer is not set
Retries(e) == IF e[2] = "client" THEN {<<conns[e[1]].dialer, conns[e[1]].slot>>} ELSE {}

ConnectionFails(e) ==
    /\ timers' = timers \cup Retries(e)
    /\ DestroyBeacons({e})
    /\ peerBeacons' = Forgotten({e})
    /\ UNCHANGED <<startVars, hashToPeer, crashed>>

ConnectionLost(e) == Unanswered(e) /\ ConnectionFails(e) /\ UNCHANGED failures

\* The network between two live processes fails for longer than the connection timeout;
\* one of the ends notices first.
ConnectionTimesOut(e) ==
    /\ failures < MaxFailures
    /\ Valid(e) /\ Valid(Other(e))
    /\ ConnectionFails(e)
    /\ failures' = failures + 1

\* The retry timer of peer connection i of server s: InitClientBeacon.
Retry(s, i) ==
    /\ <<s, i>> \in timers
    /\ timers' = timers \ {<<s, i>>}
    /\ InitClientBeacons(s, {i}, peers[s])
    /\ UNCHANGED <<startVars, queue, acked, registryVars, failVars>>

\* The process of server s ends, by a crash or by Deinitialize with its ShutdownMesh; it
\* may be started again.
Crash(s) ==
    /\ failures < MaxFailures
    /\ s \in active \cup DOMAIN answers
    /\ crashed'     = crashed \cup {s}
    /\ failures'    = failures + 1
    /\ active'      = active \ {s}
    /\ expected'    = [expected EXCEPT ![s] = 0]
    /\ peers'       = [peers EXCEPT ![s] = <<>>]
    /\ timers'      = {t \in timers : t[1] # s}
    /\ DestroyBeacons(BeaconsOf(s))
    /\ peerBeacons' = [Forgotten(BeaconsOf(s)) EXCEPT ![s] = [p \in Servers |-> None]]
    /\ hashToPeer'  = [hashToPeer EXCEPT ![s] = [x \in ServerIds |-> None]]
    /\ answers'     = Restrict(answers, DOMAIN answers \ {s})
    /\ UNCHANGED registered

\* Every step that leaves the processes alive.
MeshStep ==
    \/ \E s \in Servers : \/ Register(s)
                          \/ InitializeFromCommandLine(s)
                          \/ Registered(s)
    \/ \E k \in ConnIds : AcceptBeacon(k) \/ RefuseBeacon(k)
    \/ \E e \in Ends : \/ OnConnected(e)
                       \/ PeerConnected(e)
                       \/ ConnectionLost(e)
                       \/ ConnectionTimesOut(e)
    \/ \E t \in timers : Retry(t[1], t[2])

MeshNext == MeshStep \/ \E s \in Servers : Crash(s)

MeshSpec == Init /\ [][MeshNext]_meshVars

\* Servers start, sockets time out, timers fire, hosts answer and reliable RPCs arrive.
MeshFairness ==
    /\ \A s \in Servers : WF_meshVars(InitializeFromCommandLine(s))
    /\ \A k \in ConnIds : WF_meshVars(AcceptBeacon(k)) /\ WF_meshVars(RefuseBeacon(k))
    /\ \A e \in Ends : /\ WF_meshVars(OnConnected(e))
                       /\ WF_meshVars(PeerConnected(e))
                       /\ WF_meshVars(ConnectionLost(e))
    /\ \A s \in Servers, i \in 1 .. Cardinality(ConnIds) : WF_meshVars(Retry(s, i))

FairMeshSpec == MeshSpec /\ MeshFairness

-----------------------------------------------------------------------------
(* What the game asks of the mesh.                                         *)

\* UMultiServerNode::AreAllServersConnected and UDSTMSubsystem::AreAllPeersConnected.
AreAllPeersConnected(s) ==
    /\ s \in active
    /\ \/ expected[s] <= 1
       \/ Cardinality(BeaconsOf(s) \cap acked) >= expected[s] - 1

\* UDSTMSubsystem::GetConnectedPeerIds, whose number is GetConnectedPeerCount.
MutantConnectedPeerIds(s) ==  \* IsValid is not asked
    {p \in Servers : peerBeacons[s][p] # None}
GetConnectedPeerIds(s) == {p \in Servers : peerBeacons[s][p] \notin {None, Stale}}

-----------------------------------------------------------------------------
(* Properties.                                                             *)

\* The types of the mesh (MultiServerNode.h, MultiServerPeerConnection.h, DSTMSubsystem.h).
MeshTypeOK ==
    /\ registered \in Seq(Servers)
    /\ DOMAIN answers \subseteq Servers
    /\ answers \in [DOMAIN answers -> Seq(Servers)]
    /\ active \subseteq Servers
    /\ expected \in [Servers -> Nat]
    /\ DOMAIN peers = Servers
    /\ \A s \in Servers : /\ DOMAIN peers[s] \subseteq Nat
                          /\ peers[s] \in [DOMAIN peers[s] -> Servers]
    /\ timers \subseteq Servers \X Nat
    /\ DOMAIN conns \subseteq ConnIds
    /\ conns \in [DOMAIN conns -> Conn]
    /\ queue \in [Ends -> Seq(Handshake \cup Payloads)]
    /\ acked \subseteq Ends
    /\ bound \subseteq Ends
    /\ peerBeacons \in [Servers -> [Servers -> Ends \cup {None, Stale}]]
    /\ hashToPeer \in [Servers -> [ServerIds -> Servers \cup {None}]]
    /\ crashed \subseteq Servers
    /\ failures \in 0 .. MaxFailures

\* A server listens to at most one beacon of each peer, the one it sends on, however
\* often peers crash, rejoin and dial each other: HandlePeerConnected unbinds the previous
\* beacon "to prevent duplicate migration callbacks", and a destroyed one is never used.
OneBeaconPerPeer ==
    /\ \A e \in bound : Valid(e) /\ peerBeacons[Local(e)][Remote(e)] = e
    /\ \A s, p \in Servers : peerBeacons[s][p] \in Ends =>
          LET e == peerBeacons[s][p]
          IN  e \in bound /\ e \in acked /\ Local(e) = s /\ Remote(e) = p

\* A peer connection never gives up and never dials twice: it has either one beacon or a
\* retry timer (InitClientBeacon, OnBeaconConnectionFailure, ClearConnectRetryTimer).
PeerConnectionsKeepTrying ==
    \A s \in Servers :
        /\ \A t \in timers : t[1] = s => t[2] \in DOMAIN peers[s]
        /\ \A i \in DOMAIN peers[s] :
              LET dials == {k \in DOMAIN conns : /\ "client" \in conns[k].ends
                                                 /\ conns[k].dialer = s
                                                 /\ conns[k].slot = i}
              IN  IF <<s, i>> \in timers THEN dials = {} ELSE Cardinality(dials) = 1

\* No connection between a and b is being set up or taken down.
Between(a, b) == {k \in DOMAIN conns : {conns[k].dialer, conns[k].host} = {a, b}}
QuietPair(a, b) == \A k \in Between(a, b) :
    /\ conns[k].ends = Sides
    /\ \A side \in Sides : queue[<<k, side>>] = <<>>

\* Two peers use one connection, each its own end of it: what one of them sends is heard
\* by the other ("Only connect to peers that are before this instance in the list to
\* prevent redundant connections", RegisterServer).
PeersAgree(a, b) ==
    /\ peerBeacons[a][b] \in Ends
    /\ peerBeacons[b][a] = Other(peerBeacons[a][b])

QuietPeersAgree ==
    \A a, b \in Servers :
        a # b /\ Between(a, b) # {} /\ QuietPair(a, b) => PeersAgree(a, b)

\* Once the handshakes of a server's beacons are over, the peers it reports are the live
\* ones and it has one beacon to each of them, also after crashes, refused connections and
\* second connections: the registry of the subsystem and the beacons that the node finds
\* (ForEachBeaconClient) are the same ("these methods reflect the actual live peer set",
\* README.md:795).
ConnectedPeersAreLive ==
    \A s \in Servers :
        (\A e \in BeaconsOf(s) :
            conns[e[1]].ends = Sides /\ queue[e] = <<>> /\ queue[Other(e)] = <<>>) =>
            /\ GetConnectedPeerIds(s) = {Remote(e) : e \in BeaconsOf(s)}
            /\ \A d, e \in BeaconsOf(s) : Remote(d) = Remote(e) => d = e

\* When every expected peer has an established beacon connection the mesh is ready, and
\* not before (README.md:517, AreAllPeersConnected).
ReadyMeansConnected ==
    \A s \in Servers : AreAllPeersConnected(s) =>
        Range(StaticPeers[s]) \ {s} \subseteq {Remote(e) : e \in BeaconsOf(s) \cap acked}

\* Whatever failures and refusals came before, any two servers of which one dials the other
\* end up on one connection, and stay on it (GetRetryDelay retries without a limit).
MeshForms ==
    \A a, b \in Servers :
        <>[](b \in Range(peers[a]) /\ a # b /\ b \in active => PeersAgree(a, b))
=============================================================================
