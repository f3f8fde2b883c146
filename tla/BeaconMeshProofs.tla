-------------------------- MODULE BeaconMeshProofs --------------------------
(***************************************************************************)
(* Theorems about BeaconMesh, for every value of its constants: any number *)
(* of servers, any peer lists, any number of crashes, lost connections and *)
(* restarts.                                                               *)
(***************************************************************************)
EXTENDS BeaconMesh, FiniteSetTheorems, TLAPS

USE DEF startVars, failVars, beaconVars, registryVars, meshVars

-----------------------------------------------------------------------------
(* Helpers.                                                                *)

LEMMA EndFacts ==
  ASSUME NEW e \in Ends
  PROVE  /\ e[1] \in ConnIds /\ e[2] \in Sides
         /\ e = <<e[1], e[2]>>
         /\ Other(e) \in Ends /\ Other(e) # e /\ Other(Other(e)) = e
BY DEF Ends, Sides, Other

\* Each of the slots can have a connection of its own.
LEMMA InjectionExists ==
  ASSUME NEW S, IsFiniteSet(S), NEW T, IsFiniteSet(T),
         Cardinality(S) <= Cardinality(T)
  PROVE  \E f \in [S -> T] : IsInjective(f)
<1> DEFINE m == Cardinality(S)
           n == Cardinality(T)
<1>1. m \in Nat /\ ExistsBijection(1 .. m, S) BY FS_CardinalityType
<1>2. n \in Nat /\ ExistsBijection(1 .. n, T) BY FS_CardinalityType
<1>3. PICK g : g \in Bijection(1 .. m, S) BY <1>1 DEF ExistsBijection
<1>4. PICK h : h \in Bijection(1 .. n, T) BY <1>2 DEF ExistsBijection
<1>5. /\ g \in [1 .. m -> S] /\ \A i, j \in 1 .. m : g[i] = g[j] => i = j
      /\ \A x \in S : \E i \in 1 .. m : g[i] = x
  BY <1>3 DEF Bijection, Injection, Surjection, IsInjective
<1>6. h \in [1 .. n -> T] /\ \A i, j \in 1 .. n : h[i] = h[j] => i = j
  BY <1>4 DEF Bijection, Injection, Surjection, IsInjective
<1>7. 1 .. m \subseteq 1 .. n BY <1>1, <1>2
<1> HIDE DEF m, n
<1> DEFINE place(x) == CHOOSE i \in 1 .. m : g[i] = x
           f        == [x \in S |-> h[place(x)]]
<1>8. \A x \in S : place(x) \in 1 .. m /\ g[place(x)] = x BY <1>5
<1>9. f \in [S -> T] BY <1>6, <1>7, <1>8
<1>10. ASSUME NEW x \in S, NEW y \in S, f[x] = f[y] PROVE x = y
  <2>1. h[place(x)] = h[place(y)] BY <1>10
  <2>2. place(x) = place(y) BY <1>6, <1>7, <1>8, <2>1
  <2>3. QED BY <1>8, <2>2
<1>11. IsInjective(f) BY <1>9, <1>10 DEF IsInjective
<1>12. QED BY <1>9, <1>11

\* One new connection of server s for each of its peer connections in slots, and the
\* connections there were.
Dialled(s, slots, addresses) ==
    /\ DOMAIN conns \subseteq DOMAIN conns' /\ DOMAIN conns' \subseteq ConnIds
    /\ conns' \in [DOMAIN conns' -> Conn]
    /\ \A k \in DOMAIN conns : conns'[k] = conns[k]
    /\ \A k \in DOMAIN conns' \ DOMAIN conns :
          \E i \in slots : conns'[k] = NewConn(s, i, addresses[i])
    /\ \A i \in slots : \E k \in DOMAIN conns' \ DOMAIN conns :
          /\ conns'[k] = NewConn(s, i, addresses[i])
          /\ \A l \in DOMAIN conns' \ DOMAIN conns : conns'[l].slot = i => l = k

\* InitClientBeacon makes them.
LEMMA NewConnections ==
  ASSUME DOMAIN conns \subseteq ConnIds, conns \in [DOMAIN conns -> Conn],
         NEW s \in Servers, NEW slots, IsFiniteSet(slots), slots \subseteq Nat,
         NEW addresses, \A i \in slots : addresses[i] \in Servers,
         InitClientBeacons(s, slots, addresses), MeshAssumption
  PROVE  Dialled(s, slots, addresses)
<1> DEFINE free == ConnIds \ DOMAIN conns
           id   == CHOOSE f \in [slots -> free] : IsInjective(f)
           slot(k) == CHOOSE j \in slots : id[j] = k
           new  == Range(id)
<1>1. IsFiniteSet(free) BY FS_Difference DEF MeshAssumption
<1>2. Cardinality(slots) <= Cardinality(free) BY DEF InitClientBeacons
<1>3. \E f \in [slots -> free] : IsInjective(f) BY <1>1, <1>2, InjectionExists
<1>4. id \in [slots -> free] /\ IsInjective(id) BY <1>3
<1>5. conns' = [k \in DOMAIN conns \cup new |->
                   IF k \in DOMAIN conns THEN conns[k]
                   ELSE NewConn(s, slot(k), addresses[slot(k)])]
  BY DEF InitClientBeacons
<1> HIDE DEF id
<1>6. /\ new \subseteq free
      /\ \A k \in new : slot(k) \in slots /\ id[slot(k)] = k
  BY <1>4 DEF Range
<1>7. \A i \in slots : id[i] \in new /\ slot(id[i]) = i
  <2>1. \A i \in slots : id[i] \in new BY <1>4 DEF Range
  <2>2. QED BY <1>4, <1>6, <2>1 DEF IsInjective
<1> HIDE DEF slot, new, free
<1>8. \A k \in new : k \notin DOMAIN conns /\ k \in ConnIds BY <1>6 DEF free
<1>9. DOMAIN conns' = DOMAIN conns \cup new BY <1>5
<1>10. \A k \in new : conns'[k] = NewConn(s, slot(k), addresses[slot(k)])
  BY <1>5, <1>8
<1>11. \A k \in DOMAIN conns : conns'[k] = conns[k] BY <1>5
<1>12. \A i \in slots : NewConn(s, i, addresses[i]) \in Conn
  BY DEF NewConn, Conn, Sides
<1>13. conns' \in [DOMAIN conns' -> Conn]
  <2>1. \A k \in DOMAIN conns \cup new : conns'[k] \in Conn BY <1>6, <1>10, <1>11, <1>12
  <2>2. conns' = [k \in DOMAIN conns \cup new |-> conns'[k]] BY <1>5
  <2>3. QED BY <1>9, <2>1, <2>2
<1>14. DOMAIN conns' \ DOMAIN conns = new BY <1>8, <1>9
<1>15. \A k \in new : \E i \in slots : conns'[k] = NewConn(s, i, addresses[i])
  BY <1>6, <1>10
<1>16. ASSUME NEW i \in slots
       PROVE  \E k \in new : /\ conns'[k] = NewConn(s, i, addresses[i])
                             /\ \A l \in new : conns'[l].slot = i => l = k
  <2>1. id[i] \in new /\ slot(id[i]) = i BY <1>7
  <2>2. conns'[id[i]] = NewConn(s, i, addresses[i]) BY <1>10, <2>1
  <2>3. ASSUME NEW l \in new PROVE conns'[l].slot = slot(l)
    <3>1. conns'[l] = NewConn(s, slot(l), addresses[slot(l)]) BY <1>10
    <3>2. QED BY <3>1 DEF NewConn
  <2>4. \A l \in new : conns'[l].slot = i => l = id[i] BY <1>6, <2>3
  <2>5. QED BY <2>1, <2>2, <2>4
<1>17. DOMAIN conns' \subseteq ConnIds BY <1>8, <1>9
<1>18. QED BY <1>9, <1>11, <1>13, <1>14, <1>15, <1>16, <1>17 DEF Dialled

\* What is left of the connections when the beacons in gone are destroyed.
LEMMA LeftConnections ==
  ASSUME DOMAIN conns \subseteq ConnIds, conns \in [DOMAIN conns -> Conn],
         NEW gone, DestroyBeacons(gone)
  PROVE  /\ DOMAIN conns' \subseteq DOMAIN conns
         /\ conns' \in [DOMAIN conns' -> Conn]
         /\ \A k \in DOMAIN conns' : /\ conns'[k].dialer = conns[k].dialer
                                     /\ conns'[k].host = conns[k].host
                                     /\ conns'[k].slot = conns[k].slot
         /\ \A e \in Ends : Valid(e)' <=> Valid(e) /\ e \notin gone
<1> DEFINE left(k) == {side \in conns[k].ends : <<k, side>> \notin gone}
<1>1. conns' = [k \in {j \in DOMAIN conns : left(j) # {}} |->
                   [conns[k] EXCEPT !.ends = left(k)]]
  BY DEF DestroyBeacons
<1>2. \A k \in DOMAIN conns : /\ conns[k] \in Conn
                              /\ left(k) \subseteq Sides
                              /\ left(k) \subseteq conns[k].ends
  BY DEF Conn
<1>3. ASSUME NEW k \in DOMAIN conns
      PROVE  LET c == [conns[k] EXCEPT !.ends = left(k)]
             IN  /\ c \in Conn /\ c.ends = left(k) /\ c.dialer = conns[k].dialer
                 /\ c.host = conns[k].host /\ c.slot = conns[k].slot
  <2> HIDE DEF left
  <2>1. conns[k] \in Conn /\ left(k) \subseteq Sides BY <1>2
  <2>2. QED BY <2>1 DEF Conn
<1>4. DOMAIN conns' = {j \in DOMAIN conns : left(j) # {}} BY <1>1
<1>5. \A k \in DOMAIN conns' : conns'[k] = [conns[k] EXCEPT !.ends = left(k)] BY <1>1
<1>6. conns' \in [DOMAIN conns' -> Conn] BY <1>1, <1>3, <1>4
<1>7. ASSUME NEW e \in Ends
      PROVE  Valid(e)' <=> Valid(e) /\ e \notin gone
  <2>1. e = <<e[1], e[2]>> BY EndFacts
  <2>2. Valid(e)' <=> e[1] \in DOMAIN conns' /\ e[2] \in left(e[1])
    BY <1>3, <1>4, <1>5 DEF Valid
  <2>3. QED BY <1>4, <2>1, <2>2 DEF Valid
<1>8. QED BY <1>3, <1>4, <1>5, <1>6, <1>7

-----------------------------------------------------------------------------
(* Types.  An end that RPCs are on the way to is one that exists: the RPCs *)
(* name the peer by the connection they arrive on.                         *)

QueuesReachBeacons == \A e \in Ends : queue[e] # <<>> => Valid(e)

TypedMesh == MeshTypeOK /\ QueuesReachBeacons

\* The peer connections that a list of addresses gives.
LEMMA DialedType ==
  ASSUME NEW s \in Servers, NEW list \in Seq(Servers)
  PROVE  LET d == Dialed(s, list)
         IN  DOMAIN d \subseteq Nat /\ IsFiniteSet(DOMAIN d) /\ d \in [DOMAIN d -> Servers]
<1> DEFINE d == Dialed(s, list)
<1>1. DOMAIN list = 1 .. Len(list) /\ Len(list) \in Nat
      /\ \A i \in DOMAIN list : list[i] \in Servers
  OBVIOUS
<1>2. IsFiniteSet(1 .. Len(list)) BY <1>1, FS_Interval
<1>3. CASE d = list BY <1>1, <1>2, <1>3
<1>4. ASSUME NEW S, S \subseteq DOMAIN list, d = Restrict(list, S)
      PROVE  DOMAIN d \subseteq Nat /\ IsFiniteSet(DOMAIN d) /\ d \in [DOMAIN d -> Servers]
  <2>1. DOMAIN d = S BY <1>4 DEF Restrict
  <2>2. d \in [S -> Servers] BY <1>1, <1>4 DEF Restrict
  <2>3. IsFiniteSet(S) BY <1>1, <1>2, <1>4, FS_Subset
  <2>4. QED BY <1>1, <1>4, <2>1, <2>2, <2>3
<1>5. d = list \/ \E S \in SUBSET DOMAIN list : d = Restrict(list, S) BY DEF Dialed
<1>6. QED BY <1>3, <1>4, <1>5

LEMMA BoundPeers ==
  ASSUME MeshTypeOK, NEW e \in Ends, Valid(e)
  PROVE  Local(e) \in Servers /\ Remote(e) \in Servers
BY DEF MeshTypeOK, Valid, Local, Remote, Conn

\* The initialisation of a server's mesh.
LEMMA InitializeType ==
  ASSUME TypedMesh, MeshAssumption, NEW s \in Servers, NEW list \in Seq(Servers),
         InitializeDSTMMesh(s, list), registered' = registered,
         DOMAIN answers' \subseteq Servers, answers' \in [DOMAIN answers' -> Seq(Servers)]
  PROVE  TypedMesh'
<1> DEFINE d == Dialed(s, list)
<1>1. DOMAIN d \subseteq Nat /\ IsFiniteSet(DOMAIN d) /\ d \in [DOMAIN d -> Servers]
  BY DialedType
<1>2. InitClientBeacons(s, DOMAIN d, d) BY DEF InitializeDSTMMesh
<1>3. DOMAIN conns \subseteq ConnIds /\ conns \in [DOMAIN conns -> Conn]
  BY DEF TypedMesh, MeshTypeOK
<1> HIDE DEF d
<1>4. /\ DOMAIN conns \subseteq DOMAIN conns' /\ DOMAIN conns' \subseteq ConnIds
      /\ conns' \in [DOMAIN conns' -> Conn]
      /\ \A k \in DOMAIN conns : conns'[k] = conns[k]
  <2>1. Dialled(s, DOMAIN d, d) BY <1>1, <1>2, <1>3, NewConnections
  <2>2. QED BY <2>1 DEF Dialled
<1>5. /\ active' = active \cup {s} /\ Len(list) + 1 \in Nat
      /\ expected' = [expected EXCEPT ![s] = Len(list) + 1]
      /\ peers' = [peers EXCEPT ![s] = d]
  BY DEF InitializeDSTMMesh, d
<1>6. active' \subseteq Servers /\ expected' \in [Servers -> Nat]
  BY <1>5 DEF TypedMesh, MeshTypeOK
<1>7. /\ DOMAIN peers' = Servers
      /\ \A r \in Servers : /\ DOMAIN peers'[r] \subseteq Nat
                            /\ peers'[r] \in [DOMAIN peers'[r] -> Servers]
  BY <1>1, <1>5 DEF TypedMesh, MeshTypeOK
<1>8. UNCHANGED <<registered, timers, queue, acked, bound, peerBeacons, hashToPeer,
                  crashed, failures>>
  BY DEF InitializeDSTMMesh
<1>9. MeshTypeOK' BY <1>4, <1>6, <1>7, <1>8 DEF TypedMesh, MeshTypeOK
<1>10. \A e \in Ends : Valid(e) => Valid(e)' BY <1>4 DEF Valid
<1>11. QueuesReachBeacons' BY <1>8, <1>10 DEF TypedMesh, QueuesReachBeacons
<1>12. QED BY <1>9, <1>11 DEF TypedMesh

\* The destruction of beacons.
LEMMA DestroyType ==
  ASSUME TypedMesh, NEW gone, gone \subseteq Ends, DestroyBeacons(gone)
  PROVE  /\ DOMAIN conns' \subseteq ConnIds /\ conns' \in [DOMAIN conns' -> Conn]
         /\ queue' \in [Ends -> Seq(Handshake \cup Payloads)]
         /\ acked' \subseteq Ends /\ bound' \subseteq Ends
         /\ QueuesReachBeacons'
         /\ Forgotten(gone) \in [Servers -> [Servers -> Ends \cup {None, Stale}]]
<1>1. DOMAIN conns \subseteq ConnIds /\ conns \in [DOMAIN conns -> Conn]
  BY DEF TypedMesh, MeshTypeOK
<1>2. DOMAIN conns' \subseteq ConnIds /\ conns' \in [DOMAIN conns' -> Conn]
  BY <1>1, LeftConnections
<1>3. queue' = [e \in Ends |-> IF {e, Other(e)} \cap gone # {} THEN <<>> ELSE queue[e]]
  BY DEF DestroyBeacons
<1>4. <<>> \in Seq(Handshake \cup Payloads) OBVIOUS
<1>5. queue' \in [Ends -> Seq(Handshake \cup Payloads)]
  BY <1>3, <1>4 DEF TypedMesh, MeshTypeOK
<1>6. acked' \subseteq Ends /\ bound' \subseteq Ends
  BY DEF DestroyBeacons, TypedMesh, MeshTypeOK
<1>7. ASSUME NEW e \in Ends, queue'[e] # <<>> PROVE Valid(e)'
  <2>1. e \notin gone /\ queue[e] # <<>> BY <1>3, <1>7
  <2>2. Valid(e) BY <2>1 DEF TypedMesh, QueuesReachBeacons
  <2>3. QED BY <1>1, <2>1, <2>2, LeftConnections
<1>8. Forgotten(gone) \in [Servers -> [Servers -> Ends \cup {None, Stale}]]
  BY DEF Forgotten, TypedMesh, MeshTypeOK
<1>9. QED BY <1>2, <1>5, <1>6, <1>7, <1>8 DEF QueuesReachBeacons

LEMMA RegisterTypes ==
  ASSUME TypedMesh, MeshAssumption, NEW s \in Servers,
         Register(s) \/ InitializeFromCommandLine(s) \/ Registered(s)
  PROVE  TypedMesh'
<1>1. CASE Register(s)
  <2>1. /\ answers' = [r \in DOMAIN answers \cup {s} |->
                          IF r = s THEN registered ELSE answers[r]]
        /\ registered' = Append(registered, s)
        /\ UNCHANGED <<active, expected, peers, beaconVars, registryVars, failVars>>
    BY <1>1 DEF Register
  <2>2. registered \in Seq(Servers) /\ registered' \in Seq(Servers)
    BY <2>1 DEF TypedMesh, MeshTypeOK
  <2>3. DOMAIN answers' \subseteq Servers /\ answers' \in [DOMAIN answers' -> Seq(Servers)]
    BY <2>1, <2>2 DEF TypedMesh, MeshTypeOK
  <2>4. MeshTypeOK' BY <2>1, <2>2, <2>3 DEF TypedMesh, MeshTypeOK
  <2>5. QueuesReachBeacons' BY <2>1 DEF TypedMesh, QueuesReachBeacons, Valid
  <2>6. QED BY <2>4, <2>5 DEF TypedMesh
<1>2. CASE InitializeFromCommandLine(s)
  <2>1. /\ InitializeDSTMMesh(s, StaticPeers[s])
        /\ UNCHANGED <<registered, answers>>
    BY <1>2 DEF InitializeFromCommandLine
  <2>2. StaticPeers[s] \in Seq(Servers) BY DEF MeshAssumption
  <2>3. DOMAIN answers' \subseteq Servers /\ answers' \in [DOMAIN answers' -> Seq(Servers)]
    BY <2>1 DEF TypedMesh, MeshTypeOK
  <2>4. QED BY <2>1, <2>2, <2>3, InitializeType
<1>3. CASE Registered(s)
  <2>1. /\ s \in DOMAIN answers
        /\ answers' = Restrict(answers, DOMAIN answers \ {s})
        /\ InitializeDSTMMesh(s, answers[s])
        /\ UNCHANGED registered
    BY <1>3 DEF Registered
  <2>2. answers[s] \in Seq(Servers) BY <2>1 DEF TypedMesh, MeshTypeOK
  <2>3. DOMAIN answers' \subseteq Servers /\ answers' \in [DOMAIN answers' -> Seq(Servers)]
    BY <2>1 DEF TypedMesh, MeshTypeOK, Restrict
  <2>4. QED BY <2>1, <2>2, <2>3, InitializeType
<1>4. QED BY <1>1, <1>2, <1>3

LEMMA BeaconJoinTypes ==
  ASSUME TypedMesh, NEW k \in ConnIds, AcceptBeacon(k) \/ RefuseBeacon(k)
  PROVE  TypedMesh'
<1>1. k \in DOMAIN conns /\ conns[k] \in Conn /\ DOMAIN conns \subseteq ConnIds
  BY DEF AcceptBeacon, RefuseBeacon, Joining, TypedMesh, MeshTypeOK
<1>2. UNCHANGED <<startVars, timers, acked, registryVars, failVars>>
  BY DEF AcceptBeacon, RefuseBeacon
<1>3. CASE AcceptBeacon(k)
  <2>1. conns' = [conns EXCEPT ![k].accepted = TRUE, ![k].ends = Sides]
        /\ queue' = [queue EXCEPT ![<<k, "client">>] =
                        <<<<"onConnected">>, <<"peerConnected">>>>]
    BY <1>3 DEF AcceptBeacon
  <2>2. conns' \in [DOMAIN conns -> Conn] /\ conns'[k].ends = Sides
        /\ \A j \in DOMAIN conns \ {k} : conns'[j] = conns[j]
    BY <1>1, <2>1 DEF TypedMesh, MeshTypeOK, Conn, Sides
  <2>3. <<<<"onConnected">>, <<"peerConnected">>>> \in Seq(Handshake \cup Payloads)
    BY DEF Handshake, PeerIds
  <2>4. queue' \in [Ends -> Seq(Handshake \cup Payloads)]
    BY <2>1, <2>3 DEF TypedMesh, MeshTypeOK
  <2>5. DOMAIN conns' = DOMAIN conns BY <2>2
  <2>6. MeshTypeOK' BY <1>1, <1>2, <2>2, <2>4, <2>5 DEF TypedMesh, MeshTypeOK
  <2>7. ASSUME NEW e \in Ends, queue'[e] # <<>> PROVE Valid(e)'
    <3>1. CASE e = <<k, "client">> BY <1>1, <2>2, <2>5, <3>1 DEF Valid, Sides
    <3>2. CASE e # <<k, "client">>
      <4>1. Valid(e) BY <2>1, <2>7, <3>2 DEF TypedMesh, MeshTypeOK, QueuesReachBeacons
      <4>2. e[2] \in Sides BY EndFacts
      <4>3. QED BY <2>2, <2>5, <4>1, <4>2 DEF Valid
    <3>3. QED BY <3>1, <3>2
  <2>8. QED BY <2>6, <2>7 DEF TypedMesh, QueuesReachBeacons
<1>4. CASE RefuseBeacon(k)
  <2>1. conns' = [conns EXCEPT ![k].accepted = TRUE] /\ queue' = queue
    BY <1>4 DEF RefuseBeacon
  <2>2. conns' \in [DOMAIN conns -> Conn] /\ conns'[k].ends = conns[k].ends
        /\ \A j \in DOMAIN conns \ {k} : conns'[j] = conns[j]
    BY <1>1, <2>1 DEF TypedMesh, MeshTypeOK, Conn
  <2>3. DOMAIN conns' = DOMAIN conns BY <2>2
  <2>4. MeshTypeOK' BY <1>1, <1>2, <2>1, <2>2, <2>3 DEF TypedMesh, MeshTypeOK
  <2>5. \A e \in Ends : Valid(e) => Valid(e)' BY <2>2, <2>3 DEF Valid
  <2>6. QED BY <2>1, <2>4, <2>5 DEF TypedMesh, QueuesReachBeacons
<1>5. QED BY <1>3, <1>4

LEMMA HandshakeTypes ==
  ASSUME TypedMesh, NEW e \in Ends, OnConnected(e) \/ PeerConnected(e)
  PROVE  TypedMesh'
<1>1. Valid(e)
  BY DEF OnConnected, PeerConnected, Arrives, TypedMesh, QueuesReachBeacons
<1>2. Other(e) \in Ends BY EndFacts
<1> DEFINE q == [queue EXCEPT ![e] = Tail(@)]
<1>3. queue[e] # <<>> /\ queue \in [Ends -> Seq(Handshake \cup Payloads)]
  BY DEF OnConnected, PeerConnected, Arrives, TypedMesh, MeshTypeOK
<1>4. q \in [Ends -> Seq(Handshake \cup Payloads)] BY <1>3
<1>5. \A d \in Ends : q[d] # <<>> => Valid(d)
  BY <1>1, <1>3 DEF TypedMesh, QueuesReachBeacons
<1>6. CASE OnConnected(e)
  <2>1. /\ queue' = Sent(q, Other(e), <<"setRemotePeerId">>)
        /\ UNCHANGED <<startVars, timers, conns, acked, registryVars, failVars>>
    BY <1>6 DEF OnConnected
  <2> HIDE DEF q
  <2>2. <<"setRemotePeerId">> \in Handshake \cup Payloads BY DEF Handshake, PeerIds
  <2>3. queue' \in [Ends -> Seq(Handshake \cup Payloads)] BY <1>2, <1>4, <2>1, <2>2 DEF Sent
  <2>4. \A d \in Ends : queue'[d] # <<>> => Valid(d) BY <1>2, <1>4, <1>5, <2>1 DEF Sent
  <2>5. MeshTypeOK' BY <2>1, <2>3 DEF TypedMesh, MeshTypeOK
  <2>6. QED BY <2>1, <2>4, <2>5 DEF TypedMesh, QueuesReachBeacons, Valid
<1>7. CASE PeerConnected(e)
  <2>1. /\ queue' = q /\ acked' = acked \cup {e}
        /\ HandlePeerConnected(Local(e), Remote(e), e)
        /\ UNCHANGED <<startVars, timers, conns, failVars>>
    BY <1>7 DEF PeerConnected
  <2>2. Local(e) \in Servers /\ Remote(e) \in Servers BY <1>1, BoundPeers DEF TypedMesh
  <2>3. bound' \subseteq Ends
    BY <2>1 DEF HandlePeerConnected, Rebound, TypedMesh, MeshTypeOK
  <2>4. /\ peerBeacons' = [peerBeacons EXCEPT ![Local(e)][Remote(e)] = e]
        /\ hashToPeer' = [hashToPeer EXCEPT ![Local(e)][HashServerIdToRange(Remote(e))] =
                                                Remote(e)]
    BY <2>1 DEF HandlePeerConnected
  <2>5. /\ peerBeacons' \in [Servers -> [Servers -> Ends \cup {None, Stale}]]
        /\ hashToPeer' \in [Servers -> [ServerIds -> Servers \cup {None}]]
    BY <2>2, <2>4 DEF TypedMesh, MeshTypeOK
  <2>6. MeshTypeOK' BY <1>4, <2>1, <2>3, <2>5 DEF TypedMesh, MeshTypeOK
  <2>7. QED BY <1>5, <2>1, <2>6 DEF TypedMesh, QueuesReachBeacons, Valid
<1>8. QED BY <1>6, <1>7

LEMMA FailureTypes ==
  ASSUME TypedMesh, MeshAssumption, NEW e \in Ends, ConnectionLost(e) \/ ConnectionTimesOut(e)
  PROVE  TypedMesh'
<1>1. Valid(e) BY DEF ConnectionLost, ConnectionTimesOut, Unanswered
<1>2. /\ timers' = timers \cup Retries(e)
      /\ DestroyBeacons({e})
      /\ peerBeacons' = Forgotten({e})
      /\ UNCHANGED <<startVars, hashToPeer, crashed>>
  BY DEF ConnectionLost, ConnectionTimesOut, ConnectionFails
<1>3. failures' \in 0 .. MaxFailures
  <2>1. failures \in 0 .. MaxFailures BY DEF TypedMesh, MeshTypeOK
  <2>2. CASE ConnectionLost(e)
    <3>1. failures' = failures BY <2>2 DEF ConnectionLost
    <3>2. QED BY <2>1, <3>1
  <2>3. CASE ConnectionTimesOut(e)
    <3>1. failures < MaxFailures /\ failures' = failures + 1 BY <2>3 DEF ConnectionTimesOut
    <3>2. QED BY <2>1, <3>1 DEF MeshAssumption
  <2>4. QED BY <2>2, <2>3
<1>4. Retries(e) \subseteq Servers \X Nat
  <2>1. conns[e[1]] \in Conn BY <1>1 DEF Valid, TypedMesh, MeshTypeOK
  <2>2. conns[e[1]].dialer \in Servers /\ conns[e[1]].slot \in Nat BY <2>1 DEF Conn
  <2>3. <<conns[e[1]].dialer, conns[e[1]].slot>> \in Servers \X Nat BY <2>2
  <2>4. QED BY <2>3 DEF Retries
<1>5. timers' \subseteq Servers \X Nat BY <1>2, <1>4 DEF TypedMesh, MeshTypeOK
<1>6. /\ DOMAIN conns' \subseteq ConnIds /\ conns' \in [DOMAIN conns' -> Conn]
      /\ queue' \in [Ends -> Seq(Handshake \cup Payloads)]
      /\ acked' \subseteq Ends /\ bound' \subseteq Ends
      /\ QueuesReachBeacons'
      /\ peerBeacons' \in [Servers -> [Servers -> Ends \cup {None, Stale}]]
  BY <1>2, DestroyType
<1>7. MeshTypeOK' BY <1>2, <1>3, <1>5, <1>6 DEF TypedMesh, MeshTypeOK
<1>8. QED BY <1>6, <1>7 DEF TypedMesh

LEMMA RetryTypes ==
  ASSUME TypedMesh, MeshAssumption, NEW s \in Servers, NEW i \in Nat, Retry(s, i),
         i \in DOMAIN peers[s]
  PROVE  TypedMesh'
<1>1. /\ timers' = timers \ {<<s, i>>}
      /\ InitClientBeacons(s, {i}, peers[s])
      /\ UNCHANGED <<startVars, queue, acked, registryVars, failVars>>
  BY DEF Retry
<1>2. DOMAIN conns \subseteq ConnIds /\ conns \in [DOMAIN conns -> Conn]
      /\ peers[s][i] \in Servers
  BY DEF TypedMesh, MeshTypeOK
<1>3. IsFiniteSet({i}) BY FS_Singleton
<1>4. /\ DOMAIN conns \subseteq DOMAIN conns' /\ DOMAIN conns' \subseteq ConnIds
      /\ conns' \in [DOMAIN conns' -> Conn]
      /\ \A k \in DOMAIN conns : conns'[k] = conns[k]
  <2> DEFINE slots == {i}
  <2>1. \A j \in slots : peers[s][j] \in Servers BY <1>2
  <2>2. slots \subseteq Nat /\ IsFiniteSet(slots) BY <1>3
  <2>3. InitClientBeacons(s, slots, peers[s]) BY <1>1
  <2> HIDE DEF slots
  <2>4. Dialled(s, slots, peers[s]) BY <1>2, <2>1, <2>2, <2>3, NewConnections
  <2>5. QED BY <2>4 DEF Dialled
<1>5. MeshTypeOK' BY <1>1, <1>4 DEF TypedMesh, MeshTypeOK
<1>6. \A e \in Ends : Valid(e) => Valid(e)' BY <1>4 DEF Valid
<1>7. QED BY <1>1, <1>5, <1>6 DEF TypedMesh, QueuesReachBeacons

LEMMA CrashTypes ==
  ASSUME TypedMesh, MeshAssumption, NEW s \in Servers, Crash(s)
  PROVE  TypedMesh'
<1> DEFINE gone == BeaconsOf(s)
<1>1. gone \subseteq Ends BY DEF BeaconsOf
<1>2. /\ failures < MaxFailures
      /\ crashed' = crashed \cup {s}
      /\ failures' = failures + 1
      /\ active' = active \ {s}
      /\ expected' = [expected EXCEPT ![s] = 0]
      /\ peers' = [peers EXCEPT ![s] = <<>>]
      /\ timers' = {t \in timers : t[1] # s}
      /\ DestroyBeacons(gone)
      /\ peerBeacons' = [Forgotten(gone) EXCEPT ![s] = [p \in Servers |-> None]]
      /\ hashToPeer' = [hashToPeer EXCEPT ![s] = [x \in ServerIds |-> None]]
      /\ answers' = Restrict(answers, DOMAIN answers \ {s})
      /\ UNCHANGED registered
  BY DEF Crash
<1> HIDE DEF gone
<1>3. /\ DOMAIN conns' \subseteq ConnIds /\ conns' \in [DOMAIN conns' -> Conn]
      /\ queue' \in [Ends -> Seq(Handshake \cup Payloads)]
      /\ acked' \subseteq Ends /\ bound' \subseteq Ends
      /\ QueuesReachBeacons'
      /\ Forgotten(gone) \in [Servers -> [Servers -> Ends \cup {None, Stale}]]
  BY <1>1, <1>2, DestroyType
<1>4. /\ peerBeacons' \in [Servers -> [Servers -> Ends \cup {None, Stale}]]
      /\ hashToPeer' \in [Servers -> [ServerIds -> Servers \cup {None}]]
  BY <1>2, <1>3 DEF TypedMesh, MeshTypeOK
<1>5. /\ DOMAIN peers'[s] = {} /\ peers'[s] \in [{} -> Servers]
      /\ \A r \in Servers \ {s} : peers'[r] = peers[r]
  BY <1>2 DEF TypedMesh, MeshTypeOK
<1>6. /\ DOMAIN peers' = Servers
      /\ \A r \in Servers : /\ DOMAIN peers'[r] \subseteq Nat
                            /\ peers'[r] \in [DOMAIN peers'[r] -> Servers]
  BY <1>2, <1>5 DEF TypedMesh, MeshTypeOK
<1>7. DOMAIN answers' \subseteq Servers /\ answers' \in [DOMAIN answers' -> Seq(Servers)]
  BY <1>2 DEF TypedMesh, MeshTypeOK, Restrict
<1>8. failures' \in 0 .. MaxFailures
  <2>1. failures \in 0 .. MaxFailures /\ MaxFailures \in Nat
    BY DEF TypedMesh, MeshTypeOK, MeshAssumption
  <2>2. failures < MaxFailures /\ failures' = failures + 1 BY <1>2
  <2>3. QED BY <2>1, <2>2
<1>9. MeshTypeOK'
  BY <1>2, <1>3, <1>4, <1>6, <1>7, <1>8 DEF TypedMesh, MeshTypeOK
<1>10. QED BY <1>3, <1>9 DEF TypedMesh

-----------------------------------------------------------------------------
(* Peer connections keep trying: each has one beacon or a retry timer.  A  *)
(* timer, a beacon and a pending answer belong to a running process, and a *)
(* host that has not accepted a connection has no beacon on it.            *)

MeshOwned ==
    /\ \A s \in DOMAIN answers : s \in JoinsProxy /\ s \notin active
    /\ \A s \in Servers : s \notin active => DOMAIN peers[s] = {}
    /\ \A t \in timers : t[1] \in active
    /\ \A e \in Ends : Valid(e) => Local(e) \in active
    /\ \A k \in DOMAIN conns : ~conns[k].accepted => conns[k].ends = {"client"}

\* The connections of peer connection i of server s.
Dials(s, i) == {k \in DOMAIN conns : /\ "client" \in conns[k].ends
                                     /\ conns[k].dialer = s
                                     /\ conns[k].slot = i}

OneBeaconOrTimer ==
    /\ \A t \in timers : t[2] \in DOMAIN peers[t[1]]
    /\ \A s \in Servers, i \in Nat : Dials(s, i) # {} => i \in DOMAIN peers[s]
    /\ \A s \in Servers : \A i \in DOMAIN peers[s] :
          IF <<s, i>> \in timers THEN Dials(s, i) = {} ELSE \E k : Dials(s, i) = {k}

MeshInv == TypedMesh /\ MeshOwned /\ OneBeaconOrTimer

LEMMA KeepTryingFollows == MeshInv => PeerConnectionsKeepTrying
<1> SUFFICES ASSUME MeshInv PROVE PeerConnectionsKeepTrying OBVIOUS
<1>1. ASSUME NEW s \in Servers, NEW t \in timers, t[1] = s PROVE t[2] \in DOMAIN peers[s]
  BY <1>1 DEF MeshInv, OneBeaconOrTimer
<1>2. ASSUME NEW s \in Servers, NEW i \in DOMAIN peers[s]
      PROVE  IF <<s, i>> \in timers THEN Dials(s, i) = {} ELSE Cardinality(Dials(s, i)) = 1
  <2>1. IF <<s, i>> \in timers THEN Dials(s, i) = {} ELSE \E k : Dials(s, i) = {k}
    BY DEF MeshInv, OneBeaconOrTimer
  <2>2. \A k : Cardinality({k}) = 1 BY FS_Singleton
  <2>3. QED BY <2>1, <2>2
<1>3. QED BY <1>1, <1>2 DEF PeerConnectionsKeepTrying, Dials

\* A server whose mesh is initialised was not running and has nothing left of before.
LEMMA FreshServer ==
  ASSUME MeshInv, NEW s \in Servers, s \notin active
  PROVE  /\ \A t \in timers : t[1] # s
         /\ \A k \in DOMAIN conns : "client" \in conns[k].ends => conns[k].dialer # s
<1>1. \A t \in timers : t[1] # s BY DEF MeshInv, MeshOwned
<1>2. ASSUME NEW k \in DOMAIN conns, "client" \in conns[k].ends PROVE conns[k].dialer # s
  <2>1. <<k, "client">> \in Ends
    BY DEF Ends, Sides, MeshInv, TypedMesh, MeshTypeOK
  <2>2. Valid(<<k, "client">>) BY <1>2 DEF Valid
  <2>3. Local(<<k, "client">>) \in active BY <2>1, <2>2 DEF MeshInv, MeshOwned
  <2>4. QED BY <2>3 DEF Local
<1>3. QED BY <1>1, <1>2

\* The beacons of new connections: those of before, and a client of s for each slot.
LEMMA NewBeacons ==
  ASSUME MeshInv, MeshAssumption, NEW s \in Servers, NEW slots, IsFiniteSet(slots),
         slots \subseteq Nat, NEW addresses, \A i \in slots : addresses[i] \in Servers,
         InitClientBeacons(s, slots, addresses)
  PROVE  /\ \A e \in Ends : Valid(e)' =>
               \/ Valid(e) /\ Local(e)' = Local(e)
               \/ Local(e)' = s
         /\ \A k \in DOMAIN conns' : ~conns'[k].accepted => conns'[k].ends = {"client"}
         /\ \A r \in Servers, i \in Nat :
               r # s \/ i \notin slots => Dials(r, i)' = Dials(r, i)
         /\ \A i \in slots : Dials(s, i) = {} => \E k : Dials(s, i)' = {k}
<1>1. DOMAIN conns \subseteq ConnIds /\ conns \in [DOMAIN conns -> Conn]
  BY DEF MeshInv, TypedMesh, MeshTypeOK
<1>2. Dialled(s, slots, addresses) BY <1>1, NewConnections
<1>3. ASSUME NEW k \in DOMAIN conns' \ DOMAIN conns
      PROVE  /\ conns'[k].dialer = s /\ conns'[k].slot \in slots
             /\ conns'[k].ends = {"client"} /\ conns'[k].accepted = FALSE
  <2>1. PICK i \in slots : conns'[k] = NewConn(s, i, addresses[i])
    BY <1>2 DEF Dialled
  <2>2. QED BY <2>1 DEF NewConn
<1>4. /\ \A k \in DOMAIN conns : k \in DOMAIN conns' /\ conns'[k] = conns[k]
      /\ \A k \in DOMAIN conns' \ DOMAIN conns :
            /\ conns'[k].dialer = s /\ conns'[k].slot \in slots
            /\ conns'[k].ends = {"client"} /\ conns'[k].accepted = FALSE
  BY <1>2, <1>3 DEF Dialled
<1>5. ASSUME NEW e \in Ends, Valid(e)'
      PROVE  (Valid(e) /\ Local(e)' = Local(e)) \/ Local(e)' = s
  <2>1. e[1] \in DOMAIN conns' /\ e[2] \in conns'[e[1]].ends BY <1>5 DEF Valid
  <2>2. CASE e[1] \in DOMAIN conns
    <3>1. conns'[e[1]] = conns[e[1]] BY <1>4, <2>2
    <3>2. QED BY <2>1, <2>2, <3>1 DEF Valid, Local
  <2>3. CASE e[1] \notin DOMAIN conns
    <3>1. e[1] \in DOMAIN conns' \ DOMAIN conns BY <2>1, <2>3
    <3>2. conns'[e[1]].dialer = s /\ conns'[e[1]].ends = {"client"} BY <1>4, <3>1
    <3>3. e[2] = "client" BY <2>1, <3>2
    <3>4. QED BY <3>2, <3>3 DEF Local
  <2>4. QED BY <2>2, <2>3
<1>6. ASSUME NEW k \in DOMAIN conns', ~conns'[k].accepted
      PROVE  conns'[k].ends = {"client"}
  <2>1. \A j \in DOMAIN conns : ~conns[j].accepted => conns[j].ends = {"client"}
    BY DEF MeshInv, MeshOwned
  <2>2. QED BY <1>4, <1>6, <2>1
<1>7. ASSUME NEW r \in Servers, NEW i \in Nat, r # s \/ i \notin slots
      PROVE  Dials(r, i)' = Dials(r, i)
  <2>1. \A k \in Dials(r, i) : k \in Dials(r, i)' BY <1>4 DEF Dials
  <2>2. \A k \in Dials(r, i)' : k \in Dials(r, i) BY <1>4, <1>7 DEF Dials
  <2>3. QED BY <2>1, <2>2
<1>8. ASSUME NEW i \in slots, Dials(s, i) = {} PROVE \E k : Dials(s, i)' = {k}
  <2>1. PICK k \in DOMAIN conns' \ DOMAIN conns :
              /\ conns'[k] = NewConn(s, i, addresses[i])
              /\ \A l \in DOMAIN conns' \ DOMAIN conns : conns'[l].slot = i => l = k
    BY <1>2 DEF Dialled
  <2>2. conns'[k].slot = i BY <2>1 DEF NewConn
  <2>3. k \in Dials(s, i)' BY <1>4, <2>1, <2>2 DEF Dials
  <2>4. ASSUME NEW l \in Dials(s, i)' PROVE l = k
    <3>1. l \in DOMAIN conns' /\ conns'[l].slot = i BY <2>4 DEF Dials
    <3>2. l \notin DOMAIN conns BY <1>4, <1>8, <2>4 DEF Dials
    <3>3. QED BY <2>1, <3>1, <3>2
  <2>5. Dials(s, i)' = {k} BY <2>3, <2>4
  <2>6. QED BY <2>5
<1>9. QED BY <1>5, <1>6, <1>7, <1>8

LEMMA InitializeOwned ==
  ASSUME MeshInv, MeshAssumption, NEW s \in Servers, NEW list \in Seq(Servers),
         s \notin active, s \notin DOMAIN answers', DOMAIN answers' \subseteq DOMAIN answers,
         InitializeDSTMMesh(s, list)
  PROVE  MeshOwned' /\ OneBeaconOrTimer'
<1> DEFINE d == Dialed(s, list)
<1>1. DOMAIN d \subseteq Nat /\ IsFiniteSet(DOMAIN d) /\ d \in [DOMAIN d -> Servers]
  BY DialedType
<1>2. /\ active' = active \cup {s}
      /\ peers' = [peers EXCEPT ![s] = d]
      /\ InitClientBeacons(s, DOMAIN d, d)
      /\ timers' = timers
  BY DEF InitializeDSTMMesh
<1> HIDE DEF d
<1>3. /\ \A e \in Ends : Valid(e)' =>
            \/ Valid(e) /\ Local(e)' = Local(e)
            \/ Local(e)' = s
      /\ \A k \in DOMAIN conns' : ~conns'[k].accepted => conns'[k].ends = {"client"}
      /\ \A r \in Servers, i \in Nat :
            r # s \/ i \notin DOMAIN d => Dials(r, i)' = Dials(r, i)
      /\ \A i \in DOMAIN d : Dials(s, i) = {} => \E k : Dials(s, i)' = {k}
  <2>1. \A i \in DOMAIN d : d[i] \in Servers BY <1>1
  <2>2. PICK slots : slots = DOMAIN d OBVIOUS
  <2>3. slots \subseteq Nat /\ IsFiniteSet(slots) /\ \A i \in slots : d[i] \in Servers
    BY <1>1, <2>1, <2>2
  <2>4. InitClientBeacons(s, slots, d) BY <1>2, <2>2
  <2>5. QED BY <2>2, <2>3, <2>4, NewBeacons
<1>4. /\ \A r \in Servers \ {s} : peers'[r] = peers[r]
      /\ peers'[s] = d
  BY <1>2 DEF MeshInv, TypedMesh, MeshTypeOK
<1>5. \A t \in timers : t[1] # s BY FreshServer
<1>6. \A i : Dials(s, i) = {} BY FreshServer DEF Dials
<1>7. MeshOwned'
  <2>1. \A r \in DOMAIN answers' : r \in JoinsProxy /\ r \notin active'
    BY <1>2 DEF MeshInv, MeshOwned
  <2>2. \A r \in Servers : r \notin active' => DOMAIN peers'[r] = {}
    BY <1>2, <1>4 DEF MeshInv, MeshOwned
  <2>3. \A t \in timers' : t[1] \in active' BY <1>2 DEF MeshInv, MeshOwned
  <2>4. \A e \in Ends : Valid(e)' => Local(e)' \in active'
    BY <1>2, <1>3 DEF MeshInv, MeshOwned
  <2>5. QED BY <1>3, <2>1, <2>2, <2>3, <2>4 DEF MeshOwned
<1>8. \A t \in timers' : t[2] \in DOMAIN peers'[t[1]]
  <2>1. \A t \in timers : t[1] \in Servers /\ t[2] \in DOMAIN peers[t[1]]
    BY DEF MeshInv, OneBeaconOrTimer, TypedMesh, MeshTypeOK
  <2>2. QED BY <1>2, <1>4, <1>5, <2>1
<1>9. ASSUME NEW r \in Servers, NEW i \in DOMAIN peers'[r]
      PROVE  IF <<r, i>> \in timers' THEN Dials(r, i)' = {} ELSE \E k : Dials(r, i)' = {k}
  <2>1. CASE r = s
    <3>1. i \in DOMAIN d BY <1>4, <2>1
    <3>2. <<r, i>> \notin timers' BY <1>2, <1>5, <2>1
    <3>3. QED BY <1>3, <1>6, <2>1, <3>1, <3>2
  <2>2. CASE r # s
    <3>1. i \in DOMAIN peers[r] BY <1>4, <2>2
    <3>2. i \in Nat BY <3>1 DEF MeshInv, TypedMesh, MeshTypeOK
    <3>3. Dials(r, i)' = Dials(r, i) BY <1>3, <2>2, <3>2
    <3>4. IF <<r, i>> \in timers THEN Dials(r, i) = {} ELSE \E k : Dials(r, i) = {k}
      BY <3>1 DEF MeshInv, OneBeaconOrTimer
    <3>5. QED BY <1>2, <3>3, <3>4
  <2>3. QED BY <2>1, <2>2
<1>10. ASSUME NEW r \in Servers, NEW i \in Nat, Dials(r, i)' # {}
       PROVE  i \in DOMAIN peers'[r]
  <2>1. CASE r = s /\ i \in DOMAIN d BY <1>4, <2>1
  <2>2. CASE r = s /\ i \notin DOMAIN d
    <3>1. Dials(s, i) # {} BY <1>3, <1>10, <2>2
    <3>2. QED BY <1>6, <3>1
  <2>3. CASE r # s
    <3>1. Dials(r, i) # {} BY <1>3, <1>10, <2>3
    <3>2. QED BY <1>4, <2>3, <3>1 DEF MeshInv, OneBeaconOrTimer
  <2>4. QED BY <2>1, <2>2, <2>3
<1>11. QED BY <1>7, <1>8, <1>9, <1>10 DEF OneBeaconOrTimer

LEMMA RegisterOwned ==
  ASSUME MeshInv, MeshAssumption, NEW s \in Servers,
         Register(s) \/ InitializeFromCommandLine(s) \/ Registered(s)
  PROVE  MeshOwned' /\ OneBeaconOrTimer'
<1>1. CASE Register(s)
  <2>1. /\ s \notin active /\ s \in JoinsProxy
        /\ DOMAIN answers' = DOMAIN answers \cup {s}
        /\ UNCHANGED <<active, expected, peers, beaconVars, registryVars, failVars>>
    BY <1>1 DEF Register, Starting
  <2>2. MeshOwned' BY <2>1 DEF MeshInv, MeshOwned, Valid, Local
  <2>3. \A r, i : Dials(r, i)' = Dials(r, i) BY <2>1 DEF Dials
  <2>4. OneBeaconOrTimer' BY <2>1, <2>3 DEF MeshInv, OneBeaconOrTimer
  <2>5. QED BY <2>2, <2>4
<1>2. CASE InitializeFromCommandLine(s)
  <2>1. /\ s \notin active
        /\ InitializeDSTMMesh(s, StaticPeers[s]) /\ answers' = answers
    BY <1>2 DEF InitializeFromCommandLine, Starting
  <2>2. StaticPeers[s] \in Seq(Servers) BY DEF MeshAssumption
  <2>3. s \notin DOMAIN answers
    BY <1>2 DEF InitializeFromCommandLine, MeshInv, MeshOwned
  <2>4. QED BY <2>1, <2>2, <2>3, InitializeOwned
<1>3. CASE Registered(s)
  <2>1. /\ s \in DOMAIN answers
        /\ answers' = Restrict(answers, DOMAIN answers \ {s})
        /\ InitializeDSTMMesh(s, answers[s])
    BY <1>3 DEF Registered
  <2>2. answers[s] \in Seq(Servers) BY <2>1 DEF MeshInv, TypedMesh, MeshTypeOK
  <2>3. s \notin active BY <2>1 DEF MeshInv, MeshOwned
  <2>4. s \notin DOMAIN answers' /\ DOMAIN answers' \subseteq DOMAIN answers
    BY <2>1 DEF Restrict
  <2>5. QED BY <2>1, <2>2, <2>3, <2>4, InitializeOwned
<1>4. QED BY <1>1, <1>2, <1>3

LEMMA BeaconJoinOwned ==
  ASSUME MeshInv, NEW k \in ConnIds, AcceptBeacon(k) \/ RefuseBeacon(k)
  PROVE  MeshOwned' /\ OneBeaconOrTimer'
<1>1. /\ k \in DOMAIN conns /\ conns[k] \in Conn /\ ~conns[k].accepted
      /\ conns[k].host \in active /\ conns \in [DOMAIN conns -> Conn]
  BY DEF AcceptBeacon, RefuseBeacon, Joining, MeshInv, TypedMesh, MeshTypeOK
<1>2. UNCHANGED <<startVars, timers, acked, registryVars, failVars>>
  BY DEF AcceptBeacon, RefuseBeacon
<1>3. conns[k].ends = {"client"} BY <1>1 DEF MeshInv, MeshOwned
<1>4. \/ conns' = [conns EXCEPT ![k].accepted = TRUE, ![k].ends = Sides]
      \/ conns' = [conns EXCEPT ![k].accepted = TRUE]
  BY DEF AcceptBeacon, RefuseBeacon
<1>5. /\ DOMAIN conns' = DOMAIN conns
      /\ \A j \in DOMAIN conns \ {k} : conns'[j] = conns[j]
      /\ conns'[k].dialer = conns[k].dialer /\ conns'[k].host = conns[k].host
      /\ conns'[k].slot = conns[k].slot /\ conns'[k].accepted
      /\ "client" \in conns'[k].ends
  <2>1. CASE conns' = [conns EXCEPT ![k].accepted = TRUE, ![k].ends = Sides]
    BY <1>1, <2>1 DEF Conn, Sides
  <2>2. CASE conns' = [conns EXCEPT ![k].accepted = TRUE] BY <1>1, <1>3, <2>2 DEF Conn
  <2>3. QED BY <1>4, <2>1, <2>2
<1>6. \A s, i : Dials(s, i)' = Dials(s, i)
  <2> SUFFICES ASSUME NEW s, NEW i PROVE Dials(s, i)' = Dials(s, i) OBVIOUS
  <2>1. \A j \in Dials(s, i) : j \in Dials(s, i)' BY <1>5 DEF Dials
  <2>2. \A j \in Dials(s, i)' : j \in Dials(s, i) BY <1>1, <1>3, <1>5 DEF Dials
  <2>3. QED BY <2>1, <2>2
<1>7. ASSUME NEW e \in Ends, Valid(e)' PROVE Local(e)' \in active'
  <2>1. CASE e[1] = k
    <3>1. <<k, "client">> \in Ends BY DEF Ends, Sides
    <3>2. Valid(<<k, "client">>) BY <1>1, <1>3 DEF Valid
    <3>3. conns[k].dialer \in active BY <3>1, <3>2 DEF MeshInv, MeshOwned, Local
    <3>4. QED BY <1>1, <1>2, <1>5, <2>1, <3>3 DEF Local
  <2>2. CASE e[1] # k
    <3>1. Valid(e) /\ Local(e)' = Local(e) BY <1>5, <1>7, <2>2 DEF Valid, Local
    <3>2. QED BY <1>2, <3>1 DEF MeshInv, MeshOwned
  <2>3. QED BY <2>1, <2>2
<1>8. \A j \in DOMAIN conns' : ~conns'[j].accepted => conns'[j].ends = {"client"}
  BY <1>5 DEF MeshInv, MeshOwned
<1>9. MeshOwned' BY <1>2, <1>7, <1>8 DEF MeshInv, MeshOwned
<1>10. OneBeaconOrTimer' BY <1>2, <1>6 DEF MeshInv, OneBeaconOrTimer
<1>11. QED BY <1>9, <1>10

LEMMA HandshakeOwned ==
  ASSUME MeshInv, NEW e \in Ends, OnConnected(e) \/ PeerConnected(e)
  PROVE  MeshOwned' /\ OneBeaconOrTimer'
<1>1. UNCHANGED <<startVars, timers, conns>> BY DEF OnConnected, PeerConnected
<1>2. MeshOwned' BY <1>1 DEF MeshInv, MeshOwned, Valid, Local
<1>3. \A s, i : Dials(s, i)' = Dials(s, i) BY <1>1 DEF Dials
<1>4. OneBeaconOrTimer' BY <1>1, <1>3 DEF MeshInv, OneBeaconOrTimer
<1>5. QED BY <1>2, <1>4

LEMMA LeftDials ==
  ASSUME MeshInv, NEW gone, DestroyBeacons(gone), NEW s, NEW i
  PROVE  Dials(s, i)' = {k \in Dials(s, i) : <<k, "client">> \notin gone}
<1>1. DOMAIN conns \subseteq ConnIds /\ conns \in [DOMAIN conns -> Conn]
  BY DEF MeshInv, TypedMesh, MeshTypeOK
<1>2. /\ DOMAIN conns' \subseteq DOMAIN conns
      /\ \A k \in DOMAIN conns' : /\ conns'[k].dialer = conns[k].dialer
                                  /\ conns'[k].slot = conns[k].slot
      /\ \A e \in Ends : Valid(e)' <=> Valid(e) /\ e \notin gone
  BY <1>1, LeftConnections
<1>3. \A k \in DOMAIN conns : <<k, "client">> \in Ends BY <1>1 DEF Ends, Sides
<1>4. ASSUME NEW k \in Dials(s, i)' PROVE k \in Dials(s, i) /\ <<k, "client">> \notin gone
  <2>1. k \in DOMAIN conns' /\ "client" \in conns'[k].ends BY <1>4 DEF Dials
  <2>2. Valid(<<k, "client">>)' BY <2>1 DEF Valid
  <2>3. Valid(<<k, "client">>) /\ <<k, "client">> \notin gone BY <1>2, <1>3, <2>1, <2>2
  <2>4. QED BY <1>2, <1>4, <2>1, <2>3 DEF Dials, Valid
<1>5. ASSUME NEW k \in Dials(s, i), <<k, "client">> \notin gone PROVE k \in Dials(s, i)'
  <2>1. k \in DOMAIN conns /\ Valid(<<k, "client">>) BY <1>5 DEF Dials, Valid
  <2>2. Valid(<<k, "client">>)' BY <1>2, <1>3, <1>5, <2>1
  <2>3. k \in DOMAIN conns' /\ "client" \in conns'[k].ends BY <2>2 DEF Valid
  <2>4. QED BY <1>2, <1>5, <2>3 DEF Dials
<1>6. QED BY <1>4, <1>5

\* A host that has not accepted a connection still has no beacon on it.
LEMMA LeftUnaccepted ==
  ASSUME MeshInv, NEW gone, DestroyBeacons(gone),
         NEW j \in DOMAIN conns', ~conns'[j].accepted
  PROVE  conns'[j].ends = {"client"}
<1> DEFINE left(l) == {side \in conns[l].ends : <<l, side>> \notin gone}
<1>1. /\ DOMAIN conns' = {l \in DOMAIN conns : left(l) # {}}
      /\ conns'[j] = [conns[j] EXCEPT !.ends = left(j)]
  BY DEF DestroyBeacons
<1>2. j \in DOMAIN conns /\ conns[j] \in Conn /\ left(j) # {}
  BY <1>1 DEF MeshInv, TypedMesh, MeshTypeOK
<1>3. left(j) \subseteq conns[j].ends OBVIOUS
<1> HIDE DEF left
<1>4. conns'[j].accepted = conns[j].accepted /\ conns'[j].ends = left(j)
  BY <1>1, <1>2 DEF Conn
<1>5. conns[j].ends = {"client"} BY <1>2, <1>4 DEF MeshInv, MeshOwned
<1>6. QED BY <1>2, <1>3, <1>4, <1>5

LEMMA FailureOwned ==
  ASSUME MeshInv, NEW e \in Ends, ConnectionLost(e) \/ ConnectionTimesOut(e)
  PROVE  MeshOwned' /\ OneBeaconOrTimer'
<1>1. DOMAIN conns \subseteq ConnIds /\ conns \in [DOMAIN conns -> Conn]
  BY DEF MeshInv, TypedMesh, MeshTypeOK
<1>2. Valid(e) BY DEF ConnectionLost, ConnectionTimesOut, Unanswered
<1>3. /\ timers' = timers \cup Retries(e)
      /\ DestroyBeacons({e})
      /\ UNCHANGED <<startVars, hashToPeer, crashed>>
  BY DEF ConnectionLost, ConnectionTimesOut, ConnectionFails
<1>4. /\ DOMAIN conns' \subseteq DOMAIN conns
      /\ \A j \in DOMAIN conns' : /\ conns'[j].dialer = conns[j].dialer
                                  /\ conns'[j].host = conns[j].host
                                  /\ conns'[j].slot = conns[j].slot
      /\ \A c \in Ends : Valid(c)' <=> Valid(c) /\ c \notin {e}
  BY <1>1, <1>3, LeftConnections
<1>5. \A j \in DOMAIN conns' : ~conns'[j].accepted => conns'[j].ends = {"client"}
  BY <1>3, LeftUnaccepted
<1>6. \A c \in Ends : Valid(c)' => Valid(c) /\ Local(c)' = Local(c)
  BY <1>4 DEF Valid, Local
<1>7. PICK k \in ConnIds, d \in Servers, n \in Nat :
           k \in DOMAIN conns /\ e = <<k, e[2]>> /\ d = conns[k].dialer /\ n = conns[k].slot
  <2>1. /\ e[1] \in DOMAIN conns /\ e[1] \in ConnIds /\ e = <<e[1], e[2]>>
        /\ conns[e[1]] \in Conn
    BY <1>1, <1>2, EndFacts DEF Valid
  <2>2. conns[e[1]].dialer \in Servers /\ conns[e[1]].slot \in Nat BY <2>1 DEF Conn
  <2>3. QED BY <2>1, <2>2
<1>8. MeshOwned'
  <2>1. \A t \in timers' : t[1] \in active
    <3>1. ASSUME NEW t \in Retries(e) PROVE t[1] \in active
      <4>1. e[2] = "client" /\ t = <<conns[e[1]].dialer, conns[e[1]].slot>>
        BY <3>1 DEF Retries
      <4>2. Local(e) = conns[e[1]].dialer BY <4>1 DEF Local
      <4>3. Local(e) \in active BY <1>2 DEF MeshInv, MeshOwned
      <4>4. QED BY <4>1, <4>2, <4>3
    <3>2. QED BY <1>3, <3>1 DEF MeshInv, MeshOwned
  <2>2. QED BY <1>3, <1>5, <1>6, <2>1 DEF MeshInv, MeshOwned
<1>9. \A r, i : Dials(r, i)' = {j \in Dials(r, i) : <<j, "client">> \notin {e}}
  BY <1>3, LeftDials
<1>10. CASE e[2] = "client"
  <2>1. timers' = timers \cup {<<d, n>>} BY <1>3, <1>7, <1>10 DEF Retries
  <2>2. k \in Dials(d, n) BY <1>2, <1>7, <1>10 DEF Dials, Valid
  <2>3. n \in DOMAIN peers[d] BY <1>7, <2>2 DEF MeshInv, OneBeaconOrTimer
  <2>4. <<d, n>> \notin timers /\ Dials(d, n) = {k}
    BY <1>7, <2>2, <2>3 DEF MeshInv, OneBeaconOrTimer
  <2>5. e = <<k, "client">> BY <1>7, <1>10
  <2>6. Dials(d, n)' = {} BY <1>9, <2>4, <2>5
  <2>7. ASSUME NEW r \in Servers, NEW i \in Nat, r # d \/ i # n
        PROVE  Dials(r, i)' = Dials(r, i)
    <3>1. k \notin Dials(r, i) BY <1>7, <2>7 DEF Dials
    <3>2. QED BY <1>9, <2>5, <3>1
  <2>8. ASSUME NEW r \in Servers, NEW i \in DOMAIN peers[r]
        PROVE  IF <<r, i>> \in timers' THEN Dials(r, i)' = {}
               ELSE \E j : Dials(r, i)' = {j}
    <3>1. CASE r = d /\ i = n BY <2>1, <2>6, <3>1
    <3>2. CASE r # d \/ i # n
      <4>1. i \in Nat BY DEF MeshInv, TypedMesh, MeshTypeOK
      <4>2. Dials(r, i)' = Dials(r, i) BY <2>7, <3>2, <4>1
      <4>3. <<r, i>> \in timers' <=> <<r, i>> \in timers BY <2>1, <3>2
      <4>4. QED BY <4>2, <4>3 DEF MeshInv, OneBeaconOrTimer
    <3>3. QED BY <3>1, <3>2
  <2>9. \A t \in timers' : t[2] \in DOMAIN peers[t[1]]
    BY <2>1, <2>3 DEF MeshInv, OneBeaconOrTimer
  <2>10. ASSUME NEW r \in Servers, NEW i \in Nat, Dials(r, i)' # {}
         PROVE  i \in DOMAIN peers[r]
    <3>1. Dials(r, i)' = Dials(r, i) BY <2>6, <2>7, <2>10
    <3>2. QED BY <2>10, <3>1 DEF MeshInv, OneBeaconOrTimer
  <2>11. OneBeaconOrTimer' BY <1>3, <2>8, <2>9, <2>10 DEF OneBeaconOrTimer
  <2>12. QED BY <1>8, <2>11
<1>11. CASE e[2] # "client"
  <2>1. timers' = timers BY <1>3, <1>11 DEF Retries
  <2>2. \A j : <<j, "client">> # e BY <1>11
  <2>3. \A r, i : Dials(r, i)' = Dials(r, i) BY <1>9, <2>2
  <2>4. OneBeaconOrTimer' BY <1>3, <2>1, <2>3 DEF MeshInv, OneBeaconOrTimer
  <2>5. QED BY <1>8, <2>4
<1>12. QED BY <1>10, <1>11

LEMMA RetryOwned ==
  ASSUME MeshInv, MeshAssumption, NEW s \in Servers, NEW i \in DOMAIN peers[s], Retry(s, i)
  PROVE  MeshOwned' /\ OneBeaconOrTimer'
<1>1. /\ <<s, i>> \in timers
      /\ timers' = timers \ {<<s, i>>}
      /\ InitClientBeacons(s, {i}, peers[s])
      /\ UNCHANGED <<startVars, queue, acked, registryVars, failVars>>
  BY DEF Retry
<1>2. i \in Nat /\ peers[s][i] \in Servers /\ s \in active
  BY <1>1 DEF MeshInv, TypedMesh, MeshTypeOK, MeshOwned
<1>3. Dials(s, i) = {} BY <1>1 DEF MeshInv, OneBeaconOrTimer
<1>4. /\ \A e \in Ends : Valid(e)' =>
            \/ Valid(e) /\ Local(e)' = Local(e)
            \/ Local(e)' = s
      /\ \A k \in DOMAIN conns' : ~conns'[k].accepted => conns'[k].ends = {"client"}
      /\ \A r \in Servers, j \in Nat :
            r # s \/ j \notin {i} => Dials(r, j)' = Dials(r, j)
      /\ \A j \in {i} : Dials(s, j) = {} => \E k : Dials(s, j)' = {k}
  <2> DEFINE slots == {i}
  <2>1. slots \subseteq Nat /\ IsFiniteSet(slots) BY <1>2, FS_Singleton
  <2>2. InitClientBeacons(s, slots, peers[s]) BY <1>1
  <2>3. \A j \in slots : peers[s][j] \in Servers BY <1>2
  <2> HIDE DEF slots
  <2>4. /\ \A e \in Ends : Valid(e)' =>
              \/ Valid(e) /\ Local(e)' = Local(e)
              \/ Local(e)' = s
        /\ \A k \in DOMAIN conns' : ~conns'[k].accepted => conns'[k].ends = {"client"}
        /\ \A r \in Servers, j \in Nat :
              r # s \/ j \notin slots => Dials(r, j)' = Dials(r, j)
        /\ \A j \in slots : Dials(s, j) = {} => \E k : Dials(s, j)' = {k}
    BY <2>1, <2>2, <2>3, NewBeacons
  <2>5. QED BY <2>4 DEF slots
<1>5. \E k : Dials(s, i)' = {k} BY <1>3, <1>4
<1>6. \A r \in Servers, j \in Nat : r # s \/ j # i => Dials(r, j)' = Dials(r, j) BY <1>4
<1>7. MeshOwned'
  <2>1. \A e \in Ends : Valid(e)' => Local(e)' \in active
    BY <1>2, <1>4 DEF MeshInv, MeshOwned
  <2>2. \A t \in timers' : t[1] \in active BY <1>1 DEF MeshInv, MeshOwned
  <2>3. QED BY <1>1, <1>4, <2>1, <2>2 DEF MeshInv, MeshOwned
<1>8. ASSUME NEW r \in Servers, NEW j \in DOMAIN peers[r]
      PROVE  IF <<r, j>> \in timers' THEN Dials(r, j)' = {}
             ELSE \E k : Dials(r, j)' = {k}
  <2>1. CASE r = s /\ j = i BY <1>1, <1>5, <2>1
  <2>2. CASE r # s \/ j # i
    <3>1. j \in Nat BY DEF MeshInv, TypedMesh, MeshTypeOK
    <3>2. Dials(r, j)' = Dials(r, j) BY <1>6, <2>2, <3>1
    <3>3. <<r, j>> \in timers' <=> <<r, j>> \in timers BY <1>1, <2>2
    <3>4. IF <<r, j>> \in timers THEN Dials(r, j) = {} ELSE \E k : Dials(r, j) = {k}
      BY DEF MeshInv, OneBeaconOrTimer
    <3>5. QED BY <3>2, <3>3, <3>4
  <2>3. QED BY <2>1, <2>2
<1>9. ASSUME NEW r \in Servers, NEW j \in Nat, Dials(r, j)' # {}
      PROVE  j \in DOMAIN peers[r]
  <2>1. CASE r = s /\ j = i BY <2>1
  <2>2. CASE r # s \/ j # i
    <3>1. Dials(r, j) # {} BY <1>6, <1>9, <2>2
    <3>2. QED BY <3>1 DEF MeshInv, OneBeaconOrTimer
  <2>3. QED BY <2>1, <2>2
<1>10. \A t \in timers' : t[2] \in DOMAIN peers[t[1]]
  BY <1>1 DEF MeshInv, OneBeaconOrTimer
<1>11. OneBeaconOrTimer' BY <1>1, <1>8, <1>9, <1>10 DEF OneBeaconOrTimer
<1>12. QED BY <1>7, <1>11

LEMMA CrashOwned ==
  ASSUME MeshInv, NEW s \in Servers, Crash(s)
  PROVE  MeshOwned' /\ OneBeaconOrTimer'
<1> DEFINE gone == BeaconsOf(s)
<1>1. /\ active' = active \ {s}
      /\ peers' = [peers EXCEPT ![s] = <<>>]
      /\ timers' = {t \in timers : t[1] # s}
      /\ DestroyBeacons(gone)
      /\ answers' = Restrict(answers, DOMAIN answers \ {s})
  BY DEF Crash
<1>2. DOMAIN conns \subseteq ConnIds /\ conns \in [DOMAIN conns -> Conn]
  BY DEF MeshInv, TypedMesh, MeshTypeOK
<1>3. /\ DOMAIN conns' \subseteq DOMAIN conns
      /\ \A j \in DOMAIN conns' : /\ conns'[j].dialer = conns[j].dialer
                                  /\ conns'[j].host = conns[j].host
                                  /\ conns'[j].slot = conns[j].slot
      /\ \A e \in Ends : Valid(e)' <=> Valid(e) /\ e \notin gone
  <2> HIDE DEF gone
  <2>1. QED BY <1>1, <1>2, LeftConnections
<1>4. \A j \in DOMAIN conns' : ~conns'[j].accepted => conns'[j].ends = {"client"}
  BY <1>1, LeftUnaccepted
<1>5. DOMAIN peers'[s] = {} /\ \A r \in Servers \ {s} : peers'[r] = peers[r]
  BY <1>1 DEF MeshInv, TypedMesh, MeshTypeOK
<1>6. ASSUME NEW e \in Ends, Valid(e)' PROVE Local(e)' \in active'
  <2>1. Valid(e) /\ e \notin gone BY <1>3, <1>6
  <2>2. Local(e)' = Local(e) BY <1>3, <1>6 DEF Valid, Local
  <2>3. Local(e) # s BY <2>1 DEF BeaconsOf
  <2>4. Local(e) \in active BY <2>1 DEF MeshInv, MeshOwned
  <2>5. QED BY <1>1, <2>2, <2>3, <2>4
<1>7. MeshOwned'
  <2>1. \A r \in DOMAIN answers' : r \in JoinsProxy /\ r \notin active'
    BY <1>1 DEF Restrict, MeshInv, MeshOwned
  <2>2. \A r \in Servers : r \notin active' => DOMAIN peers'[r] = {}
    BY <1>1, <1>5 DEF MeshInv, MeshOwned
  <2>3. \A t \in timers' : t[1] \in active' BY <1>1 DEF MeshInv, MeshOwned
  <2>4. QED BY <1>4, <1>6, <2>1, <2>2, <2>3 DEF MeshOwned
<1>8. \A r, i : Dials(r, i)' = {k \in Dials(r, i) : <<k, "client">> \notin gone}
  BY <1>1, LeftDials
<1>9. ASSUME NEW r \in Servers, NEW i \in Nat, r # s PROVE Dials(r, i)' = Dials(r, i)
  <2>1. \A k \in Dials(r, i) : <<k, "client">> \notin gone
    BY <1>9 DEF Dials, BeaconsOf, Local
  <2> HIDE DEF gone
  <2>2. QED BY <1>8, <2>1
<1>10. \A i : Dials(s, i)' = {}
  <2>1. \A i : \A k \in Dials(s, i) : <<k, "client">> \in gone
    BY <1>2 DEF Dials, BeaconsOf, Local, Valid, Ends, Sides
  <2> HIDE DEF gone
  <2>2. QED BY <1>8, <2>1
<1>11. \A t \in timers' : t[2] \in DOMAIN peers'[t[1]]
  BY <1>1, <1>5 DEF MeshInv, OneBeaconOrTimer, TypedMesh, MeshTypeOK
<1>12. \A r \in Servers, i \in Nat : Dials(r, i)' # {} => i \in DOMAIN peers'[r]
  BY <1>5, <1>9, <1>10 DEF MeshInv, OneBeaconOrTimer
<1>13. ASSUME NEW r \in Servers, NEW i \in DOMAIN peers'[r]
       PROVE  IF <<r, i>> \in timers' THEN Dials(r, i)' = {}
              ELSE \E k : Dials(r, i)' = {k}
  <2>1. r # s /\ i \in DOMAIN peers[r] BY <1>5
  <2>2. i \in Nat BY <2>1 DEF MeshInv, TypedMesh, MeshTypeOK
  <2>3. Dials(r, i)' = Dials(r, i) BY <1>9, <2>1, <2>2
  <2>4. <<r, i>> \in timers' <=> <<r, i>> \in timers BY <1>1, <2>1
  <2>5. IF <<r, i>> \in timers THEN Dials(r, i) = {} ELSE \E k : Dials(r, i) = {k}
    BY <2>1 DEF MeshInv, OneBeaconOrTimer
  <2>6. QED BY <2>3, <2>4, <2>5
<1>14. OneBeaconOrTimer' BY <1>11, <1>12, <1>13 DEF OneBeaconOrTimer
<1>15. QED BY <1>7, <1>14

LEMMA MeshInvInit == ASSUME MeshAssumption, Init PROVE MeshInv
<1>1. DOMAIN <<>> = {} /\ \A S : <<>> \in Seq(S) OBVIOUS
<1>2. \A S : <<>> \in [{} -> S] OBVIOUS
<1>3. 0 \in 0 .. MaxFailures BY DEF MeshAssumption
<1>4. MeshTypeOK BY <1>1, <1>2, <1>3 DEF Init, MeshTypeOK
<1>5. \A e : ~Valid(e) BY <1>1 DEF Init, Valid
<1>6. QueuesReachBeacons BY DEF Init, QueuesReachBeacons
<1>7. MeshOwned BY <1>1, <1>5 DEF Init, MeshOwned
<1>8. OneBeaconOrTimer BY <1>1 DEF Init, OneBeaconOrTimer, Dials
<1>9. QED BY <1>4, <1>6, <1>7, <1>8 DEF MeshInv, TypedMesh

LEMMA MeshInvNext ==
  ASSUME MeshAssumption, MeshInv, [MeshNext]_meshVars
  PROVE  MeshInv'
<1>1. TypedMesh BY DEF MeshInv
<1>2. ASSUME NEW s \in Servers, Register(s) \/ InitializeFromCommandLine(s) \/ Registered(s)
      PROVE  MeshInv'
  BY <1>1, <1>2, RegisterTypes, RegisterOwned DEF MeshInv
<1>3. ASSUME NEW k \in ConnIds, AcceptBeacon(k) \/ RefuseBeacon(k) PROVE MeshInv'
  BY <1>1, <1>3, BeaconJoinTypes, BeaconJoinOwned DEF MeshInv
<1>4. ASSUME NEW e \in Ends, OnConnected(e) \/ PeerConnected(e) PROVE MeshInv'
  BY <1>1, <1>4, HandshakeTypes, HandshakeOwned DEF MeshInv
<1>5. ASSUME NEW e \in Ends, ConnectionLost(e) \/ ConnectionTimesOut(e) PROVE MeshInv'
  BY <1>1, <1>5, FailureTypes, FailureOwned DEF MeshInv
<1>6. ASSUME NEW t \in timers, Retry(t[1], t[2]) PROVE MeshInv'
  <2>1. t[1] \in Servers /\ t[2] \in Nat BY DEF MeshInv, TypedMesh, MeshTypeOK
  <2>2. t[2] \in DOMAIN peers[t[1]] BY DEF MeshInv, OneBeaconOrTimer
  <2>3. QED BY <1>1, <1>6, <2>1, <2>2, RetryTypes, RetryOwned DEF MeshInv
<1>7. ASSUME NEW s \in Servers, Crash(s) PROVE MeshInv'
  BY <1>1, <1>7, CrashTypes, CrashOwned DEF MeshInv
<1>8. CASE UNCHANGED meshVars
  <2>1. MeshTypeOK' BY <1>8 DEF MeshInv, TypedMesh, MeshTypeOK
  <2>2. QueuesReachBeacons' BY <1>8 DEF MeshInv, TypedMesh, QueuesReachBeacons, Valid
  <2>3. MeshOwned' BY <1>8 DEF MeshInv, MeshOwned, Valid, Local
  <2>4. \A r, i : Dials(r, i)' = Dials(r, i) BY <1>8 DEF Dials
  <2>5. OneBeaconOrTimer' BY <1>8, <2>4 DEF MeshInv, OneBeaconOrTimer
  <2>6. QED BY <2>1, <2>2, <2>3, <2>5 DEF MeshInv, TypedMesh
<1>9. QED BY <1>2, <1>3, <1>4, <1>5, <1>6, <1>7, <1>8 DEF MeshNext, MeshStep

THEOREM MeshInvariant == MeshSpec => []MeshInv
<1>1. Init => MeshInv BY MeshAssumption, MeshInvInit
<1>2. MeshInv /\ [MeshNext]_meshVars => MeshInv' BY MeshAssumption, MeshInvNext
<1>3. QED BY <1>1, <1>2, PTL DEF MeshSpec

\* The variables of the mesh keep their types.
THEOREM MeshTypeCorrect == MeshSpec => []MeshTypeOK
<1>1. MeshInv => MeshTypeOK BY DEF MeshInv, TypedMesh
<1>2. QED BY <1>1, MeshInvariant, PTL

\* However often its connections fail, are refused or time out and its peers crash, a peer
\* connection has one beacon or a pending retry: it neither gives up nor dials twice.
THEOREM PeerConnectionsAreKept == MeshSpec => []PeerConnectionsKeepTrying
BY MeshInvariant, KeepTryingFollows, PTL

-----------------------------------------------------------------------------
(* One beacon per peer: the delegates of a subsystem are bound to valid    *)
(* beacons only, and to those that PeerBeacons has for their peers.        *)

\* An entry of PeerBeacons that is not stale is one of the bound beacons.
LEMMA EntryIsBound ==
  ASSUME MeshInv, OneBeaconPerPeer, NEW s \in Servers, NEW p \in Servers,
         peerBeacons[s][p] \in Ends
  PROVE  /\ peerBeacons[s][p] \in bound /\ peerBeacons[s][p] \in acked
         /\ Valid(peerBeacons[s][p])
         /\ Local(peerBeacons[s][p]) = s /\ Remote(peerBeacons[s][p]) = p
BY DEF OneBeaconPerPeer

\* Steps that leave the registry and every valid beacon alone.
LEMMA RegistryKept ==
  ASSUME MeshInv, OneBeaconPerPeer, UNCHANGED <<acked, bound, peerBeacons>>,
         \A e \in Ends : Valid(e) =>
            Valid(e)' /\ Local(e)' = Local(e) /\ Remote(e)' = Remote(e)
  PROVE  OneBeaconPerPeer'
<1>1. \A e \in bound' : Valid(e)' /\ peerBeacons'[Local(e)'][Remote(e)'] = e
  BY DEF OneBeaconPerPeer, MeshInv, TypedMesh, MeshTypeOK
<1>2. ASSUME NEW s \in Servers, NEW p \in Servers, NEW e \in Ends, peerBeacons'[s][p] = e
      PROVE  e \in bound' /\ e \in acked' /\ Local(e)' = s /\ Remote(e)' = p
  <2>1. peerBeacons[s][p] = e BY <1>2
  <2>2. e \in bound /\ e \in acked /\ Valid(e) /\ Local(e) = s /\ Remote(e) = p
    BY <2>1, EntryIsBound
  <2>3. QED BY <2>2
<1>3. QED BY <1>1, <1>2 DEF OneBeaconPerPeer

\* HandlePeerConnected for a beacon whose RPC has arrived.
LEMMA RegistryRebound ==
  ASSUME MeshInv, OneBeaconPerPeer, NEW c \in Ends, PeerConnected(c)
  PROVE  OneBeaconPerPeer'
<1>1. Valid(c)
  BY DEF PeerConnected, Arrives, MeshInv, TypedMesh, QueuesReachBeacons
<1>2. PICK s \in Servers, p \in Servers : s = Local(c) /\ p = Remote(c)
  BY <1>1, BoundPeers DEF MeshInv, TypedMesh
<1>3. /\ bound' = (bound \ {peerBeacons[s][p]}) \cup {c}
      /\ peerBeacons' = [peerBeacons EXCEPT ![s][p] = c]
      /\ acked' = acked \cup {c} /\ conns' = conns
  BY <1>2 DEF PeerConnected, HandlePeerConnected, Rebound
<1>4. \A e \in Ends : Valid(e)' = Valid(e) /\ Local(e)' = Local(e) /\ Remote(e)' = Remote(e)
  BY <1>3 DEF Valid, Local, Remote
<1>5. /\ peerBeacons'[s][p] = c
      /\ \A r, q \in Servers : r # s \/ q # p => peerBeacons'[r][q] = peerBeacons[r][q]
  BY <1>3 DEF MeshInv, TypedMesh, MeshTypeOK
<1>6. bound \subseteq Ends BY DEF MeshInv, TypedMesh, MeshTypeOK
<1>7. ASSUME NEW e \in Ends, e \in bound'
      PROVE  Valid(e)' /\ peerBeacons'[Local(e)'][Remote(e)'] = e
  <2>1. CASE e = c BY <1>1, <1>2, <1>4, <1>5, <2>1
  <2>2. CASE e # c
    <3>1. e \in bound /\ e # peerBeacons[s][p] BY <1>3, <1>7, <2>2
    <3>2. Valid(e) /\ peerBeacons[Local(e)][Remote(e)] = e BY <3>1 DEF OneBeaconPerPeer
    <3>3. Local(e) \in Servers /\ Remote(e) \in Servers
      BY <3>2, BoundPeers DEF MeshInv, TypedMesh
    <3>4. Local(e) # s \/ Remote(e) # p BY <3>1, <3>2
    <3>5. QED BY <1>4, <1>5, <3>2, <3>3, <3>4
  <2>3. QED BY <2>1, <2>2
<1>8. ASSUME NEW r \in Servers, NEW q \in Servers, NEW e \in Ends, peerBeacons'[r][q] = e
      PROVE  e \in bound' /\ e \in acked' /\ Local(e)' = r /\ Remote(e)' = q
  <2>1. CASE r = s /\ q = p BY <1>2, <1>3, <1>4, <1>5, <1>8, <2>1
  <2>2. CASE r # s \/ q # p
    <3>1. peerBeacons[r][q] = e BY <1>5, <1>8, <2>2
    <3>2. e \in bound /\ e \in acked /\ Local(e) = r /\ Remote(e) = q
      BY <3>1, EntryIsBound
    <3>3. e # peerBeacons[s][p] BY <2>2, <3>2, EntryIsBound
    <3>4. QED BY <1>3, <1>4, <3>2, <3>3
  <2>3. QED BY <2>1, <2>2
<1>9. bound' \subseteq Ends BY <1>3, <1>6
<1>10. QED BY <1>7, <1>8, <1>9 DEF OneBeaconPerPeer

\* The beacons in gone are destroyed and PeerBeacons forgets them; entries may be emptied.
LEMMA RegistryForgets ==
  ASSUME MeshInv, OneBeaconPerPeer, NEW gone, DestroyBeacons(gone),
         \A s, p \in Servers :
            \/ peerBeacons'[s][p] = Forgotten(gone)[s][p]
            \/ peerBeacons'[s][p] = None /\ peerBeacons[s][p] \notin Ends \ gone
  PROVE  OneBeaconPerPeer'
<1>1. DOMAIN conns \subseteq ConnIds /\ conns \in [DOMAIN conns -> Conn]
  BY DEF MeshInv, TypedMesh, MeshTypeOK
<1>2. /\ \A k \in DOMAIN conns' : /\ conns'[k].dialer = conns[k].dialer
                                  /\ conns'[k].host = conns[k].host
      /\ \A e \in Ends : Valid(e)' <=> Valid(e) /\ e \notin gone
  BY <1>1, LeftConnections
<1>3. \A e \in Ends : Valid(e)' => Local(e)' = Local(e) /\ Remote(e)' = Remote(e)
  BY <1>2 DEF Valid, Local, Remote
<1>4. bound' = bound \ gone /\ acked' = acked \ gone /\ bound \subseteq Ends
  BY DEF DestroyBeacons, MeshInv, TypedMesh, MeshTypeOK
<1>5. \A s, p \in Servers :
         Forgotten(gone)[s][p] = IF peerBeacons[s][p] \in gone THEN Stale ELSE peerBeacons[s][p]
  BY DEF Forgotten
<1>6. None \notin Ends /\ Stale \notin Ends BY NoBeaconAssumption
<1>7. ASSUME NEW e \in Ends, e \in bound'
      PROVE  Valid(e)' /\ peerBeacons'[Local(e)'][Remote(e)'] = e
  <2>1. e \in bound /\ e \notin gone BY <1>4, <1>7
  <2>2. Valid(e) /\ peerBeacons[Local(e)][Remote(e)] = e BY <2>1 DEF OneBeaconPerPeer
  <2>3. Local(e) \in Servers /\ Remote(e) \in Servers
    BY <2>2, BoundPeers DEF MeshInv, TypedMesh
  <2>4. peerBeacons'[Local(e)][Remote(e)] = e BY <1>5, <2>1, <2>2, <2>3
  <2>5. Valid(e)' BY <1>2, <2>1, <2>2
  <2>6. QED BY <1>3, <2>4, <2>5
<1>8. ASSUME NEW s \in Servers, NEW p \in Servers, NEW e \in Ends, peerBeacons'[s][p] = e
      PROVE  e \in bound' /\ e \in acked' /\ Local(e)' = s /\ Remote(e)' = p
  <2>1. peerBeacons[s][p] = e /\ e \notin gone BY <1>5, <1>6, <1>8
  <2>2. e \in bound /\ e \in acked /\ Valid(e) /\ Local(e) = s /\ Remote(e) = p
    BY <2>1, EntryIsBound
  <2>3. Valid(e)' BY <1>2, <2>1, <2>2
  <2>4. QED BY <1>3, <1>4, <2>1, <2>2, <2>3
<1>9. bound' \subseteq Ends BY <1>4
<1>10. QED BY <1>7, <1>8, <1>9 DEF OneBeaconPerPeer

\* What server s adds to the connections leaves the ends that are valid.
LEMMA DialledKeeps ==
  ASSUME NEW s, NEW slots, NEW addresses, Dialled(s, slots, addresses), NEW e \in Ends,
         Valid(e)
  PROVE  Valid(e)' /\ Local(e)' = Local(e) /\ Remote(e)' = Remote(e)
<1>1. e[1] \in DOMAIN conns /\ e[2] \in conns[e[1]].ends BY DEF Valid
<1>2. e[1] \in DOMAIN conns' /\ conns'[e[1]] = conns[e[1]] BY <1>1 DEF Dialled
<1>3. QED BY <1>1, <1>2 DEF Valid, Local, Remote

LEMMA InitializeKeeps ==
  ASSUME MeshInv, OneBeaconPerPeer, MeshAssumption, NEW s \in Servers,
         NEW list \in Seq(Servers), InitializeDSTMMesh(s, list)
  PROVE  OneBeaconPerPeer'
<1> DEFINE d == Dialed(s, list)
<1>1. DOMAIN d \subseteq Nat /\ IsFiniteSet(DOMAIN d) /\ d \in [DOMAIN d -> Servers]
  BY DialedType
<1>2. InitClientBeacons(s, DOMAIN d, d) /\ UNCHANGED <<acked, bound, peerBeacons>>
  BY DEF InitializeDSTMMesh
<1> HIDE DEF d
<1>3. Dialled(s, DOMAIN d, d)
  <2>1. DOMAIN conns \subseteq ConnIds /\ conns \in [DOMAIN conns -> Conn]
    BY DEF MeshInv, TypedMesh, MeshTypeOK
  <2>2. \A i \in DOMAIN d : d[i] \in Servers BY <1>1
  <2>3. QED BY <1>1, <1>2, <2>1, <2>2, NewConnections
<1>4. \A e \in Ends : Valid(e) =>
         Valid(e)' /\ Local(e)' = Local(e) /\ Remote(e)' = Remote(e)
  BY <1>3, DialledKeeps
<1>5. QED BY <1>2, <1>4, RegistryKept

LEMMA RetryKeeps ==
  ASSUME MeshInv, OneBeaconPerPeer, MeshAssumption, NEW s \in Servers,
         NEW i \in DOMAIN peers[s], Retry(s, i)
  PROVE  OneBeaconPerPeer'
<1> DEFINE slots == {i}
<1>1. InitClientBeacons(s, slots, peers[s]) /\ UNCHANGED <<acked, bound, peerBeacons>>
  BY DEF Retry
<1>2. slots \subseteq Nat /\ IsFiniteSet(slots) /\ \A j \in slots : peers[s][j] \in Servers
  <2>1. i \in Nat /\ peers[s][i] \in Servers BY DEF MeshInv, TypedMesh, MeshTypeOK
  <2>2. QED BY <2>1, FS_Singleton
<1>3. DOMAIN conns \subseteq ConnIds /\ conns \in [DOMAIN conns -> Conn]
  BY DEF MeshInv, TypedMesh, MeshTypeOK
<1> HIDE DEF slots
<1>4. Dialled(s, slots, peers[s]) BY <1>1, <1>2, <1>3, NewConnections
<1>5. \A e \in Ends : Valid(e) =>
         Valid(e)' /\ Local(e)' = Local(e) /\ Remote(e)' = Remote(e)
  BY <1>4, DialledKeeps
<1>6. QED BY <1>1, <1>5, RegistryKept

LEMMA BeaconJoinKeeps ==
  ASSUME MeshInv, OneBeaconPerPeer, NEW k \in ConnIds, AcceptBeacon(k) \/ RefuseBeacon(k)
  PROVE  OneBeaconPerPeer'
<1>1. k \in DOMAIN conns /\ conns[k] \in Conn /\ conns \in [DOMAIN conns -> Conn]
  BY DEF AcceptBeacon, RefuseBeacon, Joining, MeshInv, TypedMesh, MeshTypeOK
<1>2. \/ conns' = [conns EXCEPT ![k].accepted = TRUE, ![k].ends = Sides]
      \/ conns' = [conns EXCEPT ![k].accepted = TRUE]
  BY DEF AcceptBeacon, RefuseBeacon
<1>3. /\ DOMAIN conns' = DOMAIN conns
      /\ \A j \in DOMAIN conns \ {k} : conns'[j] = conns[j]
      /\ conns'[k].dialer = conns[k].dialer /\ conns'[k].host = conns[k].host
      /\ conns[k].ends \subseteq conns'[k].ends
  <2>1. CASE conns' = [conns EXCEPT ![k].accepted = TRUE, ![k].ends = Sides]
    BY <1>1, <2>1 DEF Conn
  <2>2. CASE conns' = [conns EXCEPT ![k].accepted = TRUE] BY <1>1, <2>2 DEF Conn
  <2>3. QED BY <1>2, <2>1, <2>2
<1>4. ASSUME NEW e \in Ends, Valid(e)
      PROVE  Valid(e)' /\ Local(e)' = Local(e) /\ Remote(e)' = Remote(e)
  <2>1. CASE e[1] = k BY <1>3, <1>4, <2>1 DEF Valid, Local, Remote
  <2>2. CASE e[1] # k BY <1>3, <1>4, <2>2 DEF Valid, Local, Remote
  <2>3. QED BY <2>1, <2>2
<1>5. UNCHANGED <<acked, bound, peerBeacons>> BY DEF AcceptBeacon, RefuseBeacon
<1>6. QED BY <1>4, <1>5, RegistryKept

LEMMA CrashForgets ==
  ASSUME MeshInv, OneBeaconPerPeer, NEW s \in Servers, Crash(s)
  PROVE  OneBeaconPerPeer'
<1> DEFINE gone == BeaconsOf(s)
<1>1. /\ DestroyBeacons(gone)
      /\ peerBeacons' = [Forgotten(gone) EXCEPT ![s] = [p \in Servers |-> None]]
  BY DEF Crash
<1>2. ASSUME NEW p \in Servers, peerBeacons[s][p] \in Ends
      PROVE  peerBeacons[s][p] \in gone
  BY <1>2, EntryIsBound DEF BeaconsOf
<1> HIDE DEF gone
<1>3. ASSUME NEW r \in Servers, NEW p \in Servers
      PROVE  \/ peerBeacons'[r][p] = Forgotten(gone)[r][p]
             \/ peerBeacons'[r][p] = None /\ peerBeacons[r][p] \notin Ends \ gone
  BY <1>1, <1>2 DEF Forgotten
<1>4. QED BY <1>1, <1>3, RegistryForgets

LEMMA OneBeaconNext ==
  ASSUME MeshAssumption, MeshInv, OneBeaconPerPeer, [MeshNext]_meshVars
  PROVE  OneBeaconPerPeer'
<1>1. ASSUME UNCHANGED <<acked, bound, peerBeacons, conns>> PROVE OneBeaconPerPeer'
  <2>1. \A e \in Ends : Valid(e) =>
           Valid(e)' /\ Local(e)' = Local(e) /\ Remote(e)' = Remote(e)
    BY <1>1 DEF Valid, Local, Remote
  <2>2. QED BY <1>1, <2>1, RegistryKept
<1>2. ASSUME NEW s \in Servers, Register(s) PROVE OneBeaconPerPeer'
  BY <1>1, <1>2 DEF Register
<1>3. ASSUME NEW s \in Servers, InitializeFromCommandLine(s) PROVE OneBeaconPerPeer'
  <2>1. StaticPeers[s] \in Seq(Servers) BY DEF MeshAssumption
  <2>2. InitializeDSTMMesh(s, StaticPeers[s]) BY <1>3 DEF InitializeFromCommandLine
  <2>3. QED BY <2>1, <2>2, InitializeKeeps
<1>4. ASSUME NEW s \in Servers, Registered(s) PROVE OneBeaconPerPeer'
  <2>1. answers[s] \in Seq(Servers)
    BY <1>4 DEF Registered, MeshInv, TypedMesh, MeshTypeOK
  <2>2. InitializeDSTMMesh(s, answers[s]) BY <1>4 DEF Registered
  <2>3. QED BY <2>1, <2>2, InitializeKeeps
<1>5. ASSUME NEW k \in ConnIds, AcceptBeacon(k) \/ RefuseBeacon(k) PROVE OneBeaconPerPeer'
  BY <1>5, BeaconJoinKeeps
<1>6. ASSUME NEW e \in Ends, OnConnected(e) PROVE OneBeaconPerPeer'
  BY <1>1, <1>6 DEF OnConnected
<1>7. ASSUME NEW e \in Ends, PeerConnected(e) PROVE OneBeaconPerPeer'
  BY <1>7, RegistryRebound
<1>8. ASSUME NEW e \in Ends, ConnectionLost(e) \/ ConnectionTimesOut(e)
      PROVE  OneBeaconPerPeer'
  <2>1. DestroyBeacons({e}) /\ peerBeacons' = Forgotten({e})
    BY <1>8 DEF ConnectionLost, ConnectionTimesOut, ConnectionFails
  <2> DEFINE gone == {e}
  <2>2. DestroyBeacons(gone) /\ peerBeacons' = Forgotten(gone) BY <2>1
  <2> HIDE DEF gone
  <2>3. QED BY <2>2, RegistryForgets
<1>9. ASSUME NEW t \in timers, Retry(t[1], t[2]) PROVE OneBeaconPerPeer'
  <2>1. t[1] \in Servers BY DEF MeshInv, TypedMesh, MeshTypeOK
  <2>2. t[2] \in DOMAIN peers[t[1]] BY DEF MeshInv, OneBeaconOrTimer
  <2>3. QED BY <1>9, <2>1, <2>2, RetryKeeps
<1>10. ASSUME NEW s \in Servers, Crash(s) PROVE OneBeaconPerPeer'
  BY <1>10, CrashForgets
<1>11. CASE UNCHANGED meshVars BY <1>1, <1>11
<1>12. QED
  BY <1>2, <1>3, <1>4, <1>5, <1>6, <1>7, <1>8, <1>9, <1>10, <1>11 DEF MeshNext, MeshStep

\* A subsystem listens to at most one beacon of each peer, and it is the one it sends on,
\* however many connections two peers have and however often they crash and rejoin.
THEOREM ListensToOneBeaconPerPeer == MeshSpec => []OneBeaconPerPeer
<1>1. Init => OneBeaconPerPeer BY NoBeaconAssumption DEF Init, OneBeaconPerPeer
<1>2. MeshInv /\ OneBeaconPerPeer /\ [MeshNext]_meshVars => OneBeaconPerPeer'
  BY MeshAssumption, OneBeaconNext
<1>3. QED BY <1>1, <1>2, MeshInvariant, PTL DEF MeshSpec

-----------------------------------------------------------------------------
(* Two peers of which one dials the other have one connection.             *)

StaticDials(s) == Dialed(s, StaticPeers[s])

\* Of two servers with static lists one dials the other at most, and once, which
\* RegisterServer does for lists that are the same.  Of servers that join through the proxy
\* nothing is assumed.
OneDialer ==
    \A s \in Servers \ JoinsProxy :
        /\ IsInjective(StaticDials(s))
        /\ \A p \in Servers \ JoinsProxy :
              p \in Range(StaticDials(s)) => s \notin Range(StaticDials(p))

\* The two ways of starting that the code is written for have one dialler: every server joins
\* through the proxy, or every server has the same list, its own address included ("Assume
\* every server wil receive the same list of addresses", RegisterServer).
THEOREM ProxyAndSameListsHaveOneDialer ==
  /\ JoinsProxy = Servers => OneDialer
  /\ \A list \in Seq(Servers) :
        /\ ListenIpListed /\ IsInjective(AddressOrder)
        /\ IsInjective(list) /\ Range(list) = Servers
        /\ \A s \in Servers : StaticPeers[s] = list
        => OneDialer
<1>1. JoinsProxy = Servers => OneDialer BY DEF OneDialer
<1>2. ASSUME NEW list \in Seq(Servers), ListenIpListed, IsInjective(AddressOrder),
             IsInjective(list), Range(list) = Servers,
             \A s \in Servers : StaticPeers[s] = list
      PROVE  OneDialer
  <2> DEFINE before(s) == {i \in DOMAIN list : Before(list[i], s)}
  <2>1. \A s \in Servers : StaticDials(s) = Restrict(list, before(s))
    BY <1>2 DEF StaticDials, Dialed
  <2>2. ASSUME NEW s \in Servers
        PROVE  /\ DOMAIN StaticDials(s) = before(s)
               /\ \A i \in before(s) : StaticDials(s)[i] = list[i]
    BY <2>1 DEF Restrict
  <2>3. ASSUME NEW s \in Servers PROVE IsInjective(StaticDials(s))
    <3>1. PICK d : d = StaticDials(s) OBVIOUS
    <3>2. \A i \in DOMAIN d : i \in DOMAIN list /\ d[i] = list[i] BY <2>2, <3>1
    <3>3. IsInjective(d) BY <1>2, <3>2 DEF IsInjective
    <3>4. QED BY <3>1, <3>3
  <2>4. ASSUME NEW s \in Servers, NEW p \in Range(StaticDials(s)) PROVE Before(p, s)
    BY <2>2 DEF Range
  <2>5. ASSUME NEW s, NEW p, Before(p, s), Before(s, p) PROVE FALSE
    <3>1. PICK i, j \in DOMAIN AddressOrder : i < j /\ AddressOrder[i] = p /\ AddressOrder[j] = s
      BY <2>5 DEF Before
    <3>2. PICK k, l \in DOMAIN AddressOrder : k < l /\ AddressOrder[k] = s /\ AddressOrder[l] = p
      BY <2>5 DEF Before
    <3>3. i = l /\ j = k BY <1>2, <3>1, <3>2 DEF IsInjective
    <3>4. AddressOrder \in Seq(Servers) BY MeshAssumption DEF MeshAssumption
    <3>5. i \in Nat /\ j \in Nat BY <3>4
    <3>6. QED BY <3>1, <3>2, <3>3, <3>5
  <2>6. QED BY <2>3, <2>4, <2>5 DEF OneDialer
<1>3. QED BY <1>1, <1>2

\* A list that names nobody twice, but those in gone.
Once(list, gone) ==
    \A i, j \in DOMAIN list : list[i] = list[j] /\ list[i] \notin gone => i = j

\* What a server has been told by /register.
Learned(s) == IF s \in DOMAIN answers THEN answers[s] ELSE peers[s]

\* Who registers later learns of who registered before, and not the other way round, until
\* one of them crashes.
Names ==
    /\ Once(registered, crashed)
    /\ Range(registered) \subseteq JoinsProxy
    /\ Range(registered) \ crashed \subseteq active \cup DOMAIN answers
    /\ \A s \in Servers \ JoinsProxy : peers[s] \in {<<>>, StaticDials(s)}
    /\ \A s \in JoinsProxy : /\ Once(Learned(s), crashed)
                             /\ Range(Learned(s)) \subseteq Range(registered)
    /\ \A s, p \in JoinsProxy \ crashed :
          p \in Range(Learned(s)) => s \notin Range(Learned(p))

\* A connection leads where its peer connection is to lead.
DialsItsPeers ==
    \A k \in DOMAIN conns : "client" \in conns[k].ends =>
        /\ conns[k].slot \in DOMAIN peers[conns[k].dialer]
        /\ conns[k].host = peers[conns[k].dialer][conns[k].slot]

LEMMA DialedNames ==
  ASSUME NEW s \in Servers, NEW list \in Seq(Servers), NEW gone
  PROVE  /\ Once(list, gone) => Once(Dialed(s, list), gone)
         /\ Range(Dialed(s, list)) \subseteq Range(list)
<1>1. Dialed(s, list) = list \/ \E S \in SUBSET DOMAIN list : Dialed(s, list) = Restrict(list, S)
  BY DEF Dialed
<1>2. ASSUME NEW S \in SUBSET DOMAIN list
      PROVE  /\ DOMAIN Restrict(list, S) = S
             /\ \A i \in S : Restrict(list, S)[i] = list[i]
  BY DEF Restrict
<1>3. QED BY <1>1, <1>2 DEF Once, Range

\* Steps in which nobody registers and no server learns more than it knew.
LEMMA NamesKept ==
  ASSUME Names, registered' = registered, crashed \subseteq crashed',
         (active \cup DOMAIN answers) \ crashed' \subseteq active' \cup DOMAIN answers',
         \A s \in Servers \ JoinsProxy : peers'[s] \in {<<>>, StaticDials(s)},
         \A s \in JoinsProxy : /\ Range(Learned(s)') \subseteq Range(Learned(s))
                               /\ Once(Learned(s), crashed) => Once(Learned(s)', crashed)
  PROVE  Names'
<1>1. \A list : Once(list, crashed) => Once(list, crashed') BY DEF Once
<1>2. Once(registered', crashed') BY <1>1 DEF Names
<1>3. \A s \in JoinsProxy : Once(Learned(s)', crashed') BY <1>1 DEF Names
<1>4. Range(registered') \ crashed' \subseteq active' \cup DOMAIN answers' BY DEF Names
<1>5. \A s, p \in JoinsProxy \ crashed' :
         p \in Range(Learned(s)') => s \notin Range(Learned(p)')
  BY DEF Names
<1> HIDE DEF Learned
<1>6. \A s \in JoinsProxy : Range(Learned(s)') \subseteq Range(registered') BY DEF Names
<1>7. QED BY <1>2, <1>3, <1>4, <1>5, <1>6 DEF Names, StaticDials, Dialed, Before

LEMMA RegisterNames ==
  ASSUME MeshInv, Names, NEW s \in Servers, Register(s)
  PROVE  Names'
<1>1. /\ s \in JoinsProxy /\ s \notin active /\ s \notin DOMAIN answers
      /\ answers' = [r \in DOMAIN answers \cup {s} |-> IF r = s THEN registered ELSE answers[r]]
      /\ registered' = Append(registered, s)
      /\ UNCHANGED <<active, peers, crashed>>
  BY DEF Register, Starting
<1>2. registered \in Seq(Servers) BY DEF MeshInv, TypedMesh, MeshTypeOK
<1>3. /\ Learned(s)' = registered
      /\ \A r \in JoinsProxy \ {s} : Learned(r)' = Learned(r)
  BY <1>1 DEF Learned
<1>4. /\ DOMAIN registered' = DOMAIN registered \cup {Len(registered) + 1}
      /\ Len(registered) + 1 \notin DOMAIN registered
      /\ \A i \in DOMAIN registered : registered'[i] = registered[i]
      /\ registered'[Len(registered) + 1] = s
  BY <1>1, <1>2
<1>5. Range(registered') = Range(registered) \cup {s} BY <1>4 DEF Range
<1>6. s \in crashed \/ s \notin Range(registered) BY <1>1 DEF Names
<1>7. Once(registered', crashed') BY <1>1, <1>4, <1>6 DEF Names, Once, Range
<1>8. \A r \in JoinsProxy : /\ Once(Learned(r)', crashed')
                            /\ Range(Learned(r)') \subseteq Range(registered')
  BY <1>1, <1>3, <1>5 DEF Names
<1>9. Range(registered') \ crashed' \subseteq active' \cup DOMAIN answers'
  BY <1>1, <1>5 DEF Names
<1>10. \A r, p \in JoinsProxy \ crashed' :
          p \in Range(Learned(r)') => r \notin Range(Learned(p)')
  BY <1>1, <1>3, <1>6 DEF Names
<1>11. QED
  BY <1>1, <1>5, <1>7, <1>8, <1>9, <1>10 DEF Names, StaticDials, Dialed, Before

LEMMA InitializeNames ==
  ASSUME MeshInv, MeshAssumption, Names, NEW s \in Servers,
         InitializeFromCommandLine(s) \/ Registered(s)
  PROVE  Names'
<1>1. DOMAIN peers = Servers BY DEF MeshInv, TypedMesh, MeshTypeOK
<1>2. CASE InitializeFromCommandLine(s)
  <2>1. /\ s \notin JoinsProxy /\ active' = active \cup {s}
        /\ peers' = [peers EXCEPT ![s] = StaticDials(s)]
        /\ UNCHANGED <<registered, answers, crashed>>
    BY <1>2 DEF InitializeFromCommandLine, InitializeDSTMMesh, StaticDials
  <2>2. \A r \in Servers \ JoinsProxy : peers'[r] \in {<<>>, StaticDials(r)}
    BY <1>1, <2>1 DEF Names
  <2>3. \A r \in JoinsProxy : Learned(r)' = Learned(r) BY <1>1, <2>1 DEF Learned
  <2>4. QED BY <2>1, <2>2, <2>3, NamesKept
<1>3. CASE Registered(s)
  <2>1. /\ s \in DOMAIN answers /\ s \in JoinsProxy /\ answers[s] \in Seq(Servers)
        /\ active' = active \cup {s}
        /\ answers' = Restrict(answers, DOMAIN answers \ {s})
        /\ peers' = [peers EXCEPT ![s] = Dialed(s, answers[s])]
        /\ UNCHANGED <<registered, crashed>>
    BY <1>3 DEF Registered, InitializeDSTMMesh, MeshInv, MeshOwned, TypedMesh, MeshTypeOK
  <2>2. /\ DOMAIN answers' = DOMAIN answers \ {s}
        /\ \A r \in DOMAIN answers \ {s} : answers'[r] = answers[r]
    BY <2>1 DEF Restrict
  <2>3. \A r \in Servers \ JoinsProxy : peers'[r] \in {<<>>, StaticDials(r)}
    BY <1>1, <2>1 DEF Names
  <2>4. \A r \in JoinsProxy \ {s} : Learned(r)' = Learned(r) BY <1>1, <2>1, <2>2 DEF Learned
  <2>5. Learned(s)' = Dialed(s, answers[s]) /\ Learned(s) = answers[s]
    BY <1>1, <2>1, <2>2 DEF Learned
  <2>6. /\ Range(Dialed(s, answers[s])) \subseteq Range(answers[s])
        /\ Once(answers[s], crashed) => Once(Dialed(s, answers[s]), crashed)
    BY <2>1, DialedNames
  <2>7. \A r \in JoinsProxy : /\ Range(Learned(r)') \subseteq Range(Learned(r))
                              /\ Once(Learned(r), crashed) => Once(Learned(r)', crashed)
    BY <2>4, <2>5, <2>6
  <2>8. QED BY <2>1, <2>2, <2>3, <2>7, NamesKept
<1>4. QED BY <1>2, <1>3

LEMMA CrashNames ==
  ASSUME MeshInv, Names, NEW s \in Servers, Crash(s)
  PROVE  Names'
<1>1. /\ crashed' = crashed \cup {s} /\ active' = active \ {s}
      /\ peers' = [peers EXCEPT ![s] = <<>>]
      /\ answers' = Restrict(answers, DOMAIN answers \ {s})
      /\ registered' = registered
  BY DEF Crash
<1>2. DOMAIN peers = Servers BY DEF MeshInv, TypedMesh, MeshTypeOK
<1>3. /\ DOMAIN answers' = DOMAIN answers \ {s}
      /\ \A r \in DOMAIN answers \ {s} : answers'[r] = answers[r]
  BY <1>1 DEF Restrict
<1>4. \A r \in Servers \ JoinsProxy : peers'[r] \in {<<>>, StaticDials(r)}
  BY <1>1, <1>2 DEF Names
<1>5. \A r \in JoinsProxy \ {s} : Learned(r)' = Learned(r)
  BY <1>1, <1>2, <1>3, MeshAssumption DEF Learned, MeshAssumption
<1>6. Learned(s)' = <<>> BY <1>1, <1>2, <1>3 DEF Learned
<1>7. Range(<<>>) = {} /\ Once(<<>>, crashed) BY DEF Range, Once
<1>8. \A r \in JoinsProxy : /\ Range(Learned(r)') \subseteq Range(Learned(r))
                            /\ Once(Learned(r), crashed) => Once(Learned(r)', crashed)
  BY <1>5, <1>6, <1>7
<1>9. QED BY <1>1, <1>3, <1>4, <1>8, NamesKept

\* Beacons of new peer connections lead where these lead.
LEMMA NewBeaconsDial ==
  ASSUME DialsItsPeers, NEW s \in Servers, NEW slots, NEW addresses,
         Dialled(s, slots, addresses), slots \subseteq DOMAIN addresses,
         peers'[s] = addresses,
         \A k \in DOMAIN conns : "client" \in conns[k].ends =>
            peers'[conns[k].dialer] = peers[conns[k].dialer]
  PROVE  DialsItsPeers'
<1> SUFFICES ASSUME NEW k \in DOMAIN conns', "client" \in conns'[k].ends
             PROVE  /\ conns'[k].slot \in DOMAIN peers'[conns'[k].dialer]
                    /\ conns'[k].host = peers'[conns'[k].dialer][conns'[k].slot]
  BY DEF DialsItsPeers
<1>1. CASE k \in DOMAIN conns
  <2>1. conns'[k] = conns[k] BY <1>1 DEF Dialled
  <2>2. QED BY <1>1, <2>1 DEF DialsItsPeers
<1>2. CASE k \notin DOMAIN conns
  <2>1. PICK i \in slots : conns'[k] = NewConn(s, i, addresses[i]) BY <1>2 DEF Dialled
  <2>2. conns'[k].dialer = s /\ conns'[k].slot = i /\ conns'[k].host = addresses[i]
    BY <2>1 DEF NewConn
  <2>3. QED BY <2>2
<1>3. QED BY <1>1, <1>2

LEMMA InitializeDials ==
  ASSUME MeshInv, MeshAssumption, NEW s \in Servers, NEW list \in Seq(Servers),
         InitializeDSTMMesh(s, list)
  PROVE  /\ Dialled(s, DOMAIN Dialed(s, list), Dialed(s, list))
         /\ peers' = [peers EXCEPT ![s] = Dialed(s, list)]
<1> DEFINE d == Dialed(s, list)
<1>1. DOMAIN d \subseteq Nat /\ IsFiniteSet(DOMAIN d) /\ d \in [DOMAIN d -> Servers]
  BY DialedType
<1>2. InitClientBeacons(s, DOMAIN d, d) /\ peers' = [peers EXCEPT ![s] = d]
  BY DEF InitializeDSTMMesh
<1>3. DOMAIN conns \subseteq ConnIds /\ conns \in [DOMAIN conns -> Conn]
  BY DEF MeshInv, TypedMesh, MeshTypeOK
<1> HIDE DEF d
<1>4. \A i \in DOMAIN d : d[i] \in Servers BY <1>1
<1>5. Dialled(s, DOMAIN d, d) BY <1>1, <1>2, <1>3, <1>4, NewConnections
<1>6. QED BY <1>2, <1>5 DEF d

LEMMA RetryDials ==
  ASSUME MeshInv, MeshAssumption, NEW s \in Servers, NEW i \in DOMAIN peers[s], Retry(s, i)
  PROVE  Dialled(s, {i}, peers[s])
<1> DEFINE slots == {i}
<1>1. InitClientBeacons(s, slots, peers[s]) BY DEF Retry
<1>2. slots \subseteq Nat /\ IsFiniteSet(slots) /\ \A j \in slots : peers[s][j] \in Servers
  <2>1. i \in Nat /\ peers[s][i] \in Servers BY DEF MeshInv, TypedMesh, MeshTypeOK
  <2>2. QED BY <2>1, FS_Singleton
<1>3. DOMAIN conns \subseteq ConnIds /\ conns \in [DOMAIN conns -> Conn]
  BY DEF MeshInv, TypedMesh, MeshTypeOK
<1> HIDE DEF slots
<1>4. Dialled(s, slots, peers[s]) BY <1>1, <1>2, <1>3, NewConnections
<1>5. QED BY <1>4 DEF slots

\* The three ways in which connections come to be.
NewDials(s) ==
    \/ \E list \in Seq(Servers) : s \notin active /\ InitializeDSTMMesh(s, list)
    \/ \E i \in DOMAIN peers[s] : Retry(s, i)

LEMMA NewDialsFollow ==
  ASSUME MeshInv, MeshAssumption, NEW s \in Servers, NewDials(s)
  PROVE  /\ \E slots, addresses : Dialled(s, slots, addresses)
         /\ DialsItsPeers => DialsItsPeers'
<1>1. DOMAIN peers = Servers BY DEF MeshInv, TypedMesh, MeshTypeOK
<1>2. ASSUME NEW list \in Seq(Servers), s \notin active, InitializeDSTMMesh(s, list)
      PROVE  /\ \E slots, addresses : Dialled(s, slots, addresses)
             /\ DialsItsPeers => DialsItsPeers'
  <2> DEFINE d == Dialed(s, list)
  <2>1. Dialled(s, DOMAIN d, d) /\ peers' = [peers EXCEPT ![s] = d]
    BY <1>2, InitializeDials
  <2> HIDE DEF d
  <2>2. \A k \in DOMAIN conns : "client" \in conns[k].ends =>
           peers'[conns[k].dialer] = peers[conns[k].dialer]
    <3>1. \A k \in DOMAIN conns : conns[k].dialer \in Servers
      BY DEF MeshInv, TypedMesh, MeshTypeOK, Conn
    <3>2. \A k \in DOMAIN conns : "client" \in conns[k].ends => conns[k].dialer # s
      BY <1>2, FreshServer
    <3>3. QED BY <1>1, <2>1, <3>1, <3>2
  <2>3. peers'[s] = d BY <1>1, <2>1
  <2>4. DialsItsPeers => DialsItsPeers' BY <2>1, <2>2, <2>3, NewBeaconsDial
  <2>5. QED BY <2>1, <2>4
<1>3. ASSUME NEW i \in DOMAIN peers[s], Retry(s, i)
      PROVE  /\ \E slots, addresses : Dialled(s, slots, addresses)
             /\ DialsItsPeers => DialsItsPeers'
  <2>1. Dialled(s, {i}, peers[s]) BY <1>3, RetryDials
  <2>2. peers' = peers BY <1>3 DEF Retry
  <2> DEFINE slots == {i}
  <2>3. Dialled(s, slots, peers[s]) /\ slots \subseteq DOMAIN peers[s] BY <2>1
  <2> HIDE DEF slots
  <2>4. \A k \in DOMAIN conns : peers'[conns[k].dialer] = peers[conns[k].dialer] BY <2>2
  <2>5. peers'[s] = peers[s] BY <2>2
  <2>6. DialsItsPeers => DialsItsPeers' BY <2>3, <2>4, <2>5, NewBeaconsDial
  <2>7. QED BY <2>1, <2>6
<1>4. QED BY <1>2, <1>3 DEF NewDials

\* Beacons that are destroyed dial nobody.
LEMMA LeftBeaconsDial ==
  ASSUME MeshInv, DialsItsPeers, NEW gone, DestroyBeacons(gone),
         \A k \in DOMAIN conns : "client" \in conns[k].ends /\ <<k, "client">> \notin gone =>
            peers'[conns[k].dialer] = peers[conns[k].dialer]
  PROVE  DialsItsPeers'
<1>1. DOMAIN conns \subseteq ConnIds /\ conns \in [DOMAIN conns -> Conn]
  BY DEF MeshInv, TypedMesh, MeshTypeOK
<1>2. /\ DOMAIN conns' \subseteq DOMAIN conns
      /\ \A k \in DOMAIN conns' : /\ conns'[k].dialer = conns[k].dialer
                                  /\ conns'[k].host = conns[k].host
                                  /\ conns'[k].slot = conns[k].slot
      /\ \A e \in Ends : Valid(e)' <=> Valid(e) /\ e \notin gone
  BY <1>1, LeftConnections
<1> SUFFICES ASSUME NEW k \in DOMAIN conns', "client" \in conns'[k].ends
             PROVE  /\ conns'[k].slot \in DOMAIN peers'[conns'[k].dialer]
                    /\ conns'[k].host = peers'[conns'[k].dialer][conns'[k].slot]
  BY DEF DialsItsPeers
<1>3. <<k, "client">> \in Ends BY <1>1, <1>2 DEF Ends, Sides
<1>4. Valid(<<k, "client">>) /\ <<k, "client">> \notin gone
  <2>1. Valid(<<k, "client">>)' BY DEF Valid
  <2>2. QED BY <1>2, <1>3, <2>1
<1>5. k \in DOMAIN conns /\ "client" \in conns[k].ends BY <1>4 DEF Valid
<1>6. QED BY <1>2, <1>4, <1>5 DEF DialsItsPeers

DialInv == Names /\ DialsItsPeers

LEMMA DialsUnchanged ==
  ASSUME DialInv, UNCHANGED <<registered, answers, active, peers, crashed>>,
         \A k \in DOMAIN conns' : "client" \in conns'[k].ends =>
            /\ k \in DOMAIN conns /\ "client" \in conns[k].ends
            /\ conns'[k].dialer = conns[k].dialer /\ conns'[k].host = conns[k].host
            /\ conns'[k].slot = conns[k].slot
  PROVE  DialInv'
<1>1. Names' BY DEF DialInv, Names, Learned, StaticDials, Dialed, Before
<1>2. DialsItsPeers' BY DEF DialInv, DialsItsPeers
<1>3. QED BY <1>1, <1>2 DEF DialInv

LEMMA DialInit == ASSUME MeshAssumption, Init PROVE DialInv
<1>1. /\ registered = <<>> /\ answers = <<>> /\ conns = <<>> /\ crashed = {}
      /\ peers = [s \in Servers |-> <<>>]
  BY DEF Init
<1>2. DOMAIN <<>> = {} /\ Range(<<>>) = {} /\ Once(<<>>, crashed) BY DEF Once, Range
<1>3. \A s \in Servers : Learned(s) = <<>> BY <1>1, <1>2 DEF Learned
<1>4. JoinsProxy \subseteq Servers BY DEF MeshAssumption
<1>5. Names BY <1>1, <1>2, <1>3, <1>4 DEF Names
<1>6. DialsItsPeers BY <1>1, <1>2 DEF DialsItsPeers
<1>7. QED BY <1>5, <1>6 DEF DialInv

LEMMA DialNext ==
  ASSUME MeshAssumption, MeshInv, DialInv, [MeshNext]_meshVars
  PROVE  DialInv'
<1>1. ASSUME NEW s \in Servers, Register(s) PROVE DialInv'
  <2>1. Names' BY <1>1, RegisterNames DEF DialInv
  <2>2. UNCHANGED <<peers, conns>> BY <1>1 DEF Register
  <2>3. QED BY <2>1, <2>2 DEF DialInv, DialsItsPeers
<1>2. ASSUME NEW s \in Servers, InitializeFromCommandLine(s) \/ Registered(s) PROVE DialInv'
  <2>1. Names' BY <1>2, InitializeNames DEF DialInv
  <2>2. CASE InitializeFromCommandLine(s)
    <3>1. StaticPeers[s] \in Seq(Servers) BY DEF MeshAssumption
    <3>2. s \notin active /\ InitializeDSTMMesh(s, StaticPeers[s])
      BY <2>2 DEF InitializeFromCommandLine, Starting
    <3>3. NewDials(s) BY <3>1, <3>2 DEF NewDials
    <3>4. QED BY <2>1, <3>3, NewDialsFollow DEF DialInv
  <2>3. CASE Registered(s)
    <3>1. answers[s] \in Seq(Servers) /\ s \notin active
      BY <2>3 DEF Registered, MeshInv, MeshOwned, TypedMesh, MeshTypeOK
    <3>2. InitializeDSTMMesh(s, answers[s]) BY <2>3 DEF Registered
    <3>3. NewDials(s) BY <3>1, <3>2 DEF NewDials
    <3>4. QED BY <2>1, <3>3, NewDialsFollow DEF DialInv
  <2>4. QED BY <1>2, <2>2, <2>3
<1>3. ASSUME NEW k \in ConnIds, AcceptBeacon(k) \/ RefuseBeacon(k) PROVE DialInv'
  <2>1. /\ k \in DOMAIN conns /\ ~conns[k].accepted
        /\ UNCHANGED <<registered, answers, active, peers, crashed>>
        /\ \/ conns' = [conns EXCEPT ![k].accepted = TRUE, ![k].ends = Sides]
           \/ conns' = [conns EXCEPT ![k].accepted = TRUE]
    BY <1>3 DEF AcceptBeacon, RefuseBeacon, Joining
  <2>2. conns \in [DOMAIN conns -> Conn] /\ conns[k].ends = {"client"}
    BY <2>1 DEF MeshInv, TypedMesh, MeshTypeOK, MeshOwned
  <2>3. \A j \in DOMAIN conns : conns[j] \in Conn BY <2>2
  <2>4. \A j \in DOMAIN conns' : /\ j \in DOMAIN conns
                                 /\ conns'[j].dialer = conns[j].dialer
                                 /\ conns'[j].host = conns[j].host
                                 /\ conns'[j].slot = conns[j].slot
                                 /\ j # k => conns'[j] = conns[j]
    <3>1. conns[k] \in Conn BY <2>1, <2>3
    <3>2. PICK c : c = conns'[k] OBVIOUS
    <3>3. /\ DOMAIN conns' = DOMAIN conns
          /\ \A j \in DOMAIN conns : j # k => conns'[j] = conns[j]
      BY <2>1
    <3>4. c = [conns[k] EXCEPT !.accepted = TRUE, !.ends = Sides]
          \/ c = [conns[k] EXCEPT !.accepted = TRUE]
      BY <2>1, <3>2
    <3>5. c.dialer = conns[k].dialer /\ c.host = conns[k].host /\ c.slot = conns[k].slot
      BY <3>1, <3>4 DEF Conn
    <3>6. QED BY <3>2, <3>3, <3>5
  <2>5. QED BY <2>1, <2>2, <2>4, DialsUnchanged
<1>4. ASSUME NEW e \in Ends, OnConnected(e) \/ PeerConnected(e) PROVE DialInv'
  BY <1>4, DialsUnchanged DEF OnConnected, PeerConnected
<1>5. ASSUME NEW e \in Ends, ConnectionLost(e) \/ ConnectionTimesOut(e) PROVE DialInv'
  <2> DEFINE gone == {e}
  <2>1. /\ DestroyBeacons(gone)
        /\ UNCHANGED <<registered, answers, active, peers, crashed>>
    BY <1>5 DEF ConnectionLost, ConnectionTimesOut, ConnectionFails
  <2> HIDE DEF gone
  <2>2. Names' BY <2>1 DEF DialInv, Names, Learned, StaticDials, Dialed, Before
  <2>3. DialsItsPeers' BY <2>1, LeftBeaconsDial DEF DialInv
  <2>4. QED BY <2>2, <2>3 DEF DialInv
<1>6. ASSUME NEW t \in timers, Retry(t[1], t[2]) PROVE DialInv'
  <2>1. t[1] \in Servers BY DEF MeshInv, TypedMesh, MeshTypeOK
  <2>2. t[2] \in DOMAIN peers[t[1]] BY DEF MeshInv, OneBeaconOrTimer
  <2>3. NewDials(t[1]) BY <1>6, <2>2 DEF NewDials
  <2>4. UNCHANGED <<registered, answers, active, peers, crashed>> BY <1>6 DEF Retry
  <2>5. Names' BY <2>4 DEF DialInv, Names, Learned, StaticDials, Dialed, Before
  <2>6. QED BY <2>1, <2>3, <2>5, NewDialsFollow DEF DialInv
<1>7. ASSUME NEW s \in Servers, Crash(s) PROVE DialInv'
  <2> DEFINE gone == BeaconsOf(s)
  <2>1. DestroyBeacons(gone) /\ peers' = [peers EXCEPT ![s] = <<>>] BY <1>7 DEF Crash
  <2>2. conns \in [DOMAIN conns -> Conn] /\ DOMAIN conns \subseteq ConnIds
        /\ DOMAIN peers = Servers
    BY DEF MeshInv, TypedMesh, MeshTypeOK
  <2>3. ASSUME NEW k \in DOMAIN conns, "client" \in conns[k].ends, <<k, "client">> \notin gone
        PROVE  peers'[conns[k].dialer] = peers[conns[k].dialer]
    <3>1. <<k, "client">> \in Ends BY <2>2 DEF Ends, Sides
    <3>2. Valid(<<k, "client">>) /\ Local(<<k, "client">>) = conns[k].dialer
      BY <2>3 DEF Valid, Local
    <3>3. conns[k].dialer # s BY <2>3, <3>1, <3>2 DEF BeaconsOf
    <3>4. conns[k].dialer \in Servers BY <2>2 DEF Conn
    <3>5. QED BY <2>1, <2>2, <3>3, <3>4
  <2> HIDE DEF gone
  <2>4. DialsItsPeers' BY <2>1, <2>3, LeftBeaconsDial DEF DialInv
  <2>5. Names' BY <1>7, CrashNames DEF DialInv
  <2>6. QED BY <2>4, <2>5 DEF DialInv
<1>8. CASE UNCHANGED meshVars BY <1>8, DialsUnchanged
<1>9. QED BY <1>1, <1>2, <1>3, <1>4, <1>5, <1>6, <1>7, <1>8 DEF MeshNext, MeshStep

-----------------------------------------------------------------------------
(* A connection of two peers, both of whose ends are there.                *)

Both(e) == Valid(e) /\ Valid(Other(e))

\* Server a does not dial b and never will: it keeps its peers while it runs, and it is
\* a crash that would have it ask the proxy for others.
Elder(a, b) == a \notin crashed /\ b \notin Range(peers[a])

\* Only one of the two servers dials the other, now and for as long as both of them run.
Lasting(a, b) ==
    \/ a \notin JoinsProxy
    \/ b \notin JoinsProxy
    \/ Elder(a, b)
    \/ Elder(b, a)

Steady(e) == Both(e) /\ Lasting(Local(e), Remote(e))

LEMMA EndsOfBoth ==
  ASSUME MeshInv, NEW e \in Ends, Both(e)
  PROVE  /\ e[1] \in DOMAIN conns /\ conns[e[1]].accepted /\ conns[e[1]].ends = Sides
         /\ Local(e) \in active /\ Remote(e) \in active
         /\ Local(e) \in Servers /\ Remote(e) \in Servers
         /\ Both(Other(e)) /\ Local(Other(e)) = Remote(e) /\ Remote(Other(e)) = Local(e)
<1>1. Other(e) \in Ends /\ Other(Other(e)) = e /\ e[2] \in Sides BY EndFacts
<1>2. conns \in [DOMAIN conns -> Conn] BY DEF MeshInv, TypedMesh, MeshTypeOK
<1>3. e[1] \in DOMAIN conns /\ conns[e[1]].ends = Sides
  <2>1. e[1] \in DOMAIN conns /\ e[2] \in conns[e[1]].ends BY DEF Both, Valid
  <2>2. Other(e)[2] \in conns[e[1]].ends BY DEF Both, Valid, Other
  <2>3. conns[e[1]].ends \subseteq Sides BY <1>2, <2>1 DEF Conn
  <2>4. QED BY <1>1, <2>1, <2>2, <2>3 DEF Other, Sides
<1>4. conns[e[1]].accepted BY <1>3 DEF MeshInv, MeshOwned, Sides
<1>5. Local(Other(e)) = Remote(e) /\ Remote(Other(e)) = Local(e)
  BY <1>1 DEF Other, Local, Remote, Sides
<1>6. Local(e) \in active /\ Remote(e) \in active
  BY <1>1, <1>5 DEF Both, MeshInv, MeshOwned
<1>7. Local(e) \in Servers /\ Remote(e) \in Servers
  BY BoundPeers DEF Both, MeshInv, TypedMesh
<1>8. Both(Other(e)) BY <1>1 DEF Both
<1>9. QED BY <1>3, <1>4, <1>5, <1>6, <1>7, <1>8

\* Whoever dials is told so by its own peer list.
LEMMA DialerKnows ==
  ASSUME MeshInv, DialInv, NEW e \in Ends, Both(e)
  PROVE  LET c == conns[e[1]]
         IN  /\ c.dialer \in Servers /\ c.host \in Servers /\ c.slot \in DOMAIN peers[c.dialer]
             /\ c.host = peers[c.dialer][c.slot] /\ c.host \in Range(peers[c.dialer])
             /\ e[1] \in Dials(c.dialer, c.slot)
<1> DEFINE c == conns[e[1]]
<1>1. e[1] \in DOMAIN conns /\ c.ends = Sides BY EndsOfBoth
<1>2. c \in Conn /\ "client" \in c.ends BY <1>1 DEF MeshInv, TypedMesh, MeshTypeOK, Sides
<1>3. c.dialer \in Servers /\ c.host \in Servers BY <1>2 DEF Conn
<1>4. c.slot \in DOMAIN peers[c.dialer] /\ c.host = peers[c.dialer][c.slot]
  BY <1>1, <1>2 DEF DialInv, DialsItsPeers
<1>5. c.host \in Range(peers[c.dialer]) BY <1>4 DEF Range
<1>6. e[1] \in Dials(c.dialer, c.slot) BY <1>1, <1>2 DEF Dials
<1>7. QED BY <1>3, <1>4, <1>5, <1>6

\* Whom servers can dial.
LEMMA DialedPeers ==
  ASSUME MeshInv, DialInv
  PROVE  /\ \A s \in JoinsProxy : /\ Range(peers[s]) \subseteq JoinsProxy
                                  /\ Range(peers[s]) \subseteq Range(Learned(s))
         /\ \A s \in Servers \ JoinsProxy : Range(peers[s]) \subseteq Range(StaticDials(s))
<1>1. \A s \in JoinsProxy : Range(peers[s]) \subseteq Range(Learned(s))
  <2>1. \A s \in JoinsProxy : s \in DOMAIN answers => DOMAIN peers[s] = {}
    BY MeshAssumption DEF MeshInv, MeshOwned, MeshAssumption
  <2>2. QED BY <2>1 DEF Learned, Range
<1>2. \A s \in JoinsProxy : Range(peers[s]) \subseteq JoinsProxy BY <1>1 DEF DialInv, Names
<1>3. \A s \in Servers \ JoinsProxy : Range(peers[s]) \subseteq Range(StaticDials(s))
  <2>1. \A s \in Servers \ JoinsProxy : peers[s] \in {<<>>, StaticDials(s)}
    BY DEF DialInv, Names
  <2>2. QED BY <2>1 DEF Range
<1>4. QED BY <1>1, <1>2, <1>3

\* Of two servers that never crashed, one is the elder.
LEMMA UncrashedLast ==
  ASSUME MeshInv, DialInv, NEW s \in Servers, NEW p \in Servers, s \notin crashed, p \notin crashed
  PROVE  Lasting(s, p)
<1>1. s \in JoinsProxy /\ p \in JoinsProxy => s \notin Range(Learned(p)) \/ p \notin Range(Learned(s))
  BY DEF DialInv, Names
<1>2. QED BY <1>1, DialedPeers DEF Lasting, Elder

\* A server has one peer connection to a peer, and not both of two have one to the other.
LEMMA DialsOnce ==
  ASSUME OneDialer, MeshInv, DialInv, NEW s \in Servers, NEW p \in Servers, Lasting(s, p)
  PROVE  \A i, j \in DOMAIN peers[s] : peers[s][i] = p /\ peers[s][j] = p => i = j
<1>1. CASE s \in JoinsProxy
  <2>1. Once(peers[s], crashed) \/ s \in DOMAIN answers BY <1>1 DEF DialInv, Names, Learned
  <2>2. s \in DOMAIN answers => DOMAIN peers[s] = {} BY DEF MeshInv, MeshOwned
  <2>3. p \in Range(peers[s]) => p \notin crashed BY <1>1, DialedPeers DEF Lasting, Elder
  <2>4. QED BY <2>1, <2>2, <2>3 DEF Once, Range
<1>2. CASE s \notin JoinsProxy
  <2>1. peers[s] = <<>> \/ peers[s] = StaticDials(s) BY <1>2 DEF DialInv, Names
  <2>2. IsInjective(StaticDials(s)) BY <1>2 DEF OneDialer
  <2>3. QED BY <2>1, <2>2 DEF IsInjective
<1>3. QED BY <1>1, <1>2

LEMMA OneDials ==
  ASSUME OneDialer, MeshInv, DialInv, NEW s \in Servers, NEW p \in Servers, Lasting(s, p),
         p \in Range(peers[s])
  PROVE  s \notin Range(peers[p])
<1>1. CASE s \notin JoinsProxy
  <2>1. CASE p \in JoinsProxy BY <1>1, <2>1, DialedPeers
  <2>2. CASE p \notin JoinsProxy BY <1>1, <2>2, DialedPeers DEF OneDialer
  <2>3. QED BY <2>1, <2>2
<1>2. CASE s \in JoinsProxy
  <2>1. p \in JoinsProxy BY <1>2, DialedPeers
  <2>2. QED BY <1>2, <2>1 DEF Lasting, Elder
<1>3. QED BY <1>1, <1>2

LEMMA OneConnection ==
  ASSUME OneDialer, MeshInv, DialInv, NEW d \in Ends, NEW e \in Ends, Both(d), Steady(e),
         Local(d) = Local(e), Remote(d) = Remote(e)
  PROVE  d = e
<1> DEFINE c == conns[d[1]]
           f == conns[e[1]]
<1>1. Both(e) /\ Lasting(Local(e), Remote(e)) BY DEF Steady
<1>2. /\ d[2] \in Sides /\ e[2] \in Sides /\ d = <<d[1], d[2]>> /\ e = <<e[1], e[2]>>
  BY EndFacts
<1>3. /\ c.dialer \in Servers /\ c.host \in Servers /\ c.slot \in DOMAIN peers[c.dialer]
      /\ c.host = peers[c.dialer][c.slot] /\ c.host \in Range(peers[c.dialer])
      /\ d[1] \in Dials(c.dialer, c.slot)
  BY DialerKnows
<1>4. /\ f.dialer \in Servers /\ f.host \in Servers /\ f.slot \in DOMAIN peers[f.dialer]
      /\ f.host = peers[f.dialer][f.slot] /\ f.host \in Range(peers[f.dialer])
      /\ e[1] \in Dials(f.dialer, f.slot)
  BY <1>1, DialerKnows
<1>5. Lasting(f.dialer, f.host) BY <1>1, <1>2 DEF Local, Remote, Sides, Lasting
<1>6. CASE d[2] = e[2]
  <2>1. c.dialer = f.dialer /\ c.host = f.host BY <1>2, <1>6 DEF Local, Remote, Sides
  <2>2. c.slot = f.slot BY <1>3, <1>4, <1>5, <2>1, DialsOnce
  <2>3. \E k : Dials(f.dialer, f.slot) = {k}
    BY <1>4 DEF MeshInv, OneBeaconOrTimer
  <2>4. d[1] = e[1] BY <1>3, <1>4, <2>1, <2>2, <2>3
  <2>5. QED BY <1>2, <1>6, <2>4
<1>7. CASE d[2] # e[2]
  <2>1. c.dialer = f.host /\ c.host = f.dialer BY <1>2, <1>7 DEF Local, Remote, Sides
  <2>2. QED BY <1>3, <1>4, <1>5, <2>1, OneDials
<1>8. QED BY <1>6, <1>7

-----------------------------------------------------------------------------
(* What is on its way over a connection.                                   *)

\* The queues that a step takes a first RPC from, or puts a last one into.
Popped(q, e)      == [q EXCEPT ![e] = Tail(@)]
Pushed(q, e, rpc) == [q EXCEPT ![e] = Append(@, rpc)]

LEMMA PopFacts ==
  ASSUME NEW R, NEW q \in [Ends -> Seq(R)], NEW e \in Ends, q[e] # <<>>
  PROVE  /\ Popped(q, e) \in [Ends -> Seq(R)]
         /\ \A d \in Ends \ {e} : Popped(q, e)[d] = q[d]
         /\ \A i : i \in DOMAIN Popped(q, e)[e] <=> i \in Nat /\ i >= 1 /\ i + 1 \in DOMAIN q[e]
         /\ \A i \in DOMAIN Popped(q, e)[e] : Popped(q, e)[e][i] = q[e][i + 1]
         /\ 1 \in DOMAIN q[e] /\ Head(q[e]) = q[e][1]
<1>1. q[e] \in Seq(R) /\ Len(q[e]) \in Nat /\ Len(q[e]) >= 1 BY q[e] # <<>>
<1>2. Popped(q, e)[e] = Tail(q[e]) BY DEF Popped
<1>3. /\ Tail(q[e]) \in Seq(R)
      /\ DOMAIN Tail(q[e]) = 1 .. Len(q[e]) - 1
      /\ \A i \in 1 .. Len(q[e]) - 1 : Tail(q[e])[i] = q[e][i + 1]
  BY <1>1
<1>4. DOMAIN q[e] = 1 .. Len(q[e]) BY <1>1
<1>5. Popped(q, e) \in [Ends -> Seq(R)] /\ \A d \in Ends \ {e} : Popped(q, e)[d] = q[d]
  BY <1>3 DEF Popped
<1>6. \A i : i \in 1 .. Len(q[e]) - 1 <=> i \in Nat /\ i >= 1 /\ i + 1 \in 1 .. Len(q[e])
  BY <1>1
<1>7. 1 \in DOMAIN q[e] /\ Head(q[e]) = q[e][1] BY <1>1, <1>4
<1>8. QED BY <1>2, <1>3, <1>4, <1>5, <1>6, <1>7

LEMMA PushFacts ==
  ASSUME NEW R, NEW q \in [Ends -> Seq(R)], NEW e \in Ends, NEW rpc \in R
  PROVE  /\ Pushed(q, e, rpc) \in [Ends -> Seq(R)]
         /\ \A d \in Ends \ {e} : Pushed(q, e, rpc)[d] = q[d]
         /\ DOMAIN Pushed(q, e, rpc)[e] = DOMAIN q[e] \cup {Len(q[e]) + 1}
         /\ Len(q[e]) + 1 \notin DOMAIN q[e]
         /\ \A i \in DOMAIN q[e] : Pushed(q, e, rpc)[e][i] = q[e][i]
         /\ Pushed(q, e, rpc)[e][Len(q[e]) + 1] = rpc
<1>1. q[e] \in Seq(R) /\ Len(q[e]) \in Nat OBVIOUS
<1>2. Pushed(q, e, rpc)[e] = Append(q[e], rpc) BY DEF Pushed
<1>3. /\ Append(q[e], rpc) \in Seq(R)
      /\ DOMAIN Append(q[e], rpc) = 1 .. Len(q[e]) + 1
      /\ \A i \in 1 .. Len(q[e]) : Append(q[e], rpc)[i] = q[e][i]
      /\ Append(q[e], rpc)[Len(q[e]) + 1] = rpc
  BY <1>1
<1>4. DOMAIN q[e] = 1 .. Len(q[e]) BY <1>1
<1>5. /\ 1 .. Len(q[e]) + 1 = (1 .. Len(q[e])) \cup {Len(q[e]) + 1}
      /\ Len(q[e]) + 1 \notin 1 .. Len(q[e])
  BY <1>1
<1>6. Pushed(q, e, rpc) \in [Ends -> Seq(R)]
      /\ \A d \in Ends \ {e} : Pushed(q, e, rpc)[d] = q[d]
  BY <1>3 DEF Pushed
<1>7. QED BY <1>2, <1>3, <1>4, <1>5, <1>6

\* A list with the RPC that binds its receiver, and one that has nothing else before it but
\* the handshake.
HasIds(list) == \E i \in DOMAIN list : list[i] \in PeerIds

AheadIn(list) ==
    \A i \in DOMAIN list : list[i] \notin Handshake =>
        \E j \in DOMAIN list : j < i /\ list[j] \in PeerIds

LEMMA PopIds ==
  ASSUME NEW R, NEW list \in Seq(R), list # <<>>, Head(list) \notin PeerIds
  PROVE  /\ HasIds(list) => HasIds(Tail(list))
         /\ AheadIn(list) => AheadIn(Tail(list))
<1> DEFINE tail == Tail(list)
<1>1. list[1] \notin PeerIds /\ Len(list) \in Nat /\ DOMAIN list = 1 .. Len(list)
  OBVIOUS
<1>2. /\ DOMAIN tail = 1 .. Len(list) - 1
      /\ \A i \in 1 .. Len(list) - 1 : tail[i] = list[i + 1]
  OBVIOUS
<1> HIDE DEF tail
<1>3. ASSUME NEW j \in DOMAIN list, list[j] \in PeerIds
      PROVE  j - 1 \in DOMAIN tail /\ tail[j - 1] \in PeerIds
  <2>1. j \in 1 .. Len(list) /\ j # 1 BY <1>1, <1>3
  <2>2. j - 1 \in 1 .. Len(list) - 1 /\ (j - 1) + 1 = j BY <1>1, <2>1
  <2>3. QED BY <1>2, <1>3, <2>2
<1>4. HasIds(list) => HasIds(tail) BY <1>3 DEF HasIds
<1>5. ASSUME AheadIn(list) PROVE AheadIn(tail)
  <2> SUFFICES ASSUME NEW i \in DOMAIN tail, tail[i] \notin Handshake
               PROVE  \E j \in DOMAIN tail : j < i /\ tail[j] \in PeerIds
    BY DEF AheadIn
  <2>1. i \in Nat /\ i + 1 \in DOMAIN list /\ list[i + 1] \notin Handshake BY <1>1, <1>2
  <2>2. PICK j \in DOMAIN list : j < i + 1 /\ list[j] \in PeerIds BY <1>5, <2>1 DEF AheadIn
  <2>3. j \in Nat /\ j - 1 < i BY <1>1, <2>1, <2>2
  <2>4. QED BY <1>3, <2>2, <2>3
<1>6. QED BY <1>4, <1>5 DEF tail

LEMMA PushIds ==
  ASSUME NEW R, NEW list \in Seq(R), NEW rpc \in R
  PROVE  /\ HasIds(list) => HasIds(Append(list, rpc))
         /\ rpc \in PeerIds => HasIds(Append(list, rpc))
         /\ AheadIn(list) /\ (rpc \in Handshake \/ HasIds(list)) => AheadIn(Append(list, rpc))
         /\ list # <<>> => Append(list, rpc) # <<>> /\ Head(Append(list, rpc)) = Head(list)
<1> DEFINE more == Append(list, rpc)
           n    == Len(list) + 1
<1>1. /\ Len(list) \in Nat /\ DOMAIN list = 1 .. Len(list) /\ n \in Nat
      /\ DOMAIN more = 1 .. n /\ more[n] = rpc
      /\ \A i \in 1 .. Len(list) : more[i] = list[i]
  OBVIOUS
<1>2. list # <<>> => more # <<>> /\ Head(more) = Head(list) OBVIOUS
<1>3. \A i \in DOMAIN more : i \in DOMAIN list \/ i = n BY <1>1
<1>4. \A i \in DOMAIN list : i \in DOMAIN more /\ i < n BY <1>1
<1>5. n \in DOMAIN more BY <1>1
<1> HIDE DEF more, n
<1>6. HasIds(list) => HasIds(more) BY <1>1, <1>4 DEF HasIds
<1>7. rpc \in PeerIds => HasIds(more) BY <1>1, <1>5 DEF HasIds
<1>8. ASSUME AheadIn(list), rpc \in Handshake \/ HasIds(list) PROVE AheadIn(more)
  <2> SUFFICES ASSUME NEW i \in DOMAIN more, more[i] \notin Handshake
               PROVE  \E j \in DOMAIN more : j < i /\ more[j] \in PeerIds
    BY DEF AheadIn
  <2>1. CASE i \in DOMAIN list
    <3>1. list[i] \notin Handshake BY <1>1, <2>1
    <3>2. PICK j \in DOMAIN list : j < i /\ list[j] \in PeerIds
      BY <1>8, <2>1, <3>1 DEF AheadIn
    <3>3. QED BY <1>1, <1>4, <3>2
  <2>2. CASE i = n
    <3>1. HasIds(list) BY <1>1, <1>8, <2>2
    <3>2. PICK j \in DOMAIN list : list[j] \in PeerIds BY <3>1 DEF HasIds
    <3>3. QED BY <1>1, <1>4, <2>2, <3>2
  <2>3. QED BY <1>3, <2>1, <2>2
<1>9. QED BY <1>2, <1>6, <1>7, <1>8 DEF more

\* Between servers of which one dials, the receiver of an end is bound or the RPC that
\* binds it is on its way, ahead of all data; or the host waits for the other side's answer
\* to OnConnected.  q and b are any queues and any bound ends.
Opening(q, b, e) ==
    /\ e[2] = "host" /\ Other(e) \notin b
    /\ q[Other(e)] # <<>> /\ Head(q[Other(e)]) = <<"onConnected">>

Channel(q, b, e) ==
    Steady(e) => \/ e \in b
                 \/ AheadIn(q[e]) /\ (HasIds(q[e]) \/ Opening(q, b, e))

Channels(q, b) == \A e \in Ends : (q[e] # <<>> => Both(e)) /\ Channel(q, b, e)

LEMMA PushChannels ==
  ASSUME NEW R, NEW q \in [Ends -> Seq(R)], NEW b, Channels(q, b),
         NEW e \in Ends, Both(e), NEW rpc \in R,
         rpc \in Handshake \/ ~Opening(q, b, e)
  PROVE  Channels(Pushed(q, e, rpc), b)
<1> DEFINE p == Pushed(q, e, rpc)
<1>1. p[e] = Append(q[e], rpc) /\ q[e] \in Seq(R) /\ \A d \in Ends \ {e} : p[d] = q[d]
  BY DEF Pushed
<1> HIDE DEF p
<1>2. /\ HasIds(q[e]) => HasIds(p[e])
      /\ AheadIn(q[e]) /\ (rpc \in Handshake \/ HasIds(q[e])) => AheadIn(p[e])
      /\ q[e] # <<>> => p[e] # <<>> /\ Head(p[e]) = Head(q[e])
  BY <1>1, PushIds
<1>3. \A d \in Ends : Opening(q, b, d) => Opening(p, b, d)
  <2>1. \A d \in Ends : q[d] # <<>> => p[d] # <<>> /\ Head(p[d]) = Head(q[d]) BY <1>1, <1>2
  <2>2. QED BY <2>1, EndFacts DEF Opening
<1>4. ASSUME NEW d \in Ends, d # e PROVE (p[d] # <<>> => Both(d)) /\ Channel(p, b, d)
  BY <1>1, <1>3, <1>4 DEF Channels, Channel
<1>5. Channel(p, b, e) BY <1>2, <1>3 DEF Channels, Channel
<1>6. QED BY <1>4, <1>5 DEF Channels, p

LEMMA PopChannels ==
  ASSUME NEW R, NEW q \in [Ends -> Seq(R)], NEW b, Channels(q, b),
         NEW e \in Ends, q[e] # <<>>, Head(q[e]) \notin PeerIds,
         Head(q[e]) = <<"onConnected">> => HasIds(q[Other(e)])
  PROVE  Channels(Popped(q, e), b)
<1> DEFINE p == Popped(q, e)
<1>1. p[e] = Tail(q[e]) /\ q[e] \in Seq(R) /\ \A d \in Ends \ {e} : p[d] = q[d]
  BY DEF Popped
<1> HIDE DEF p
<1>2. /\ HasIds(q[e]) => HasIds(p[e])
      /\ AheadIn(q[e]) => AheadIn(p[e])
  BY <1>1, PopIds
<1>3. \A d \in Ends : Other(d) # e /\ Opening(q, b, d) => Opening(p, b, d)
  BY <1>1, EndFacts DEF Opening
<1>4. ASSUME NEW d \in Ends, Other(d) = e
      PROVE  Opening(q, b, d) => HasIds(q[d]) /\ d # e
  BY <1>4, EndFacts DEF Opening
<1>5. ASSUME NEW d \in Ends PROVE (p[d] # <<>> => Both(d)) /\ Channel(p, b, d)
  <2>1. CASE d # e BY <1>1, <1>3, <1>4, <2>1 DEF Channels, Channel
  <2>2. CASE d = e
    <3>1. Both(e) BY DEF Channels
    <3>2. Opening(q, b, e) => Opening(p, b, e) BY <1>3, EndFacts
    <3>3. QED BY <1>2, <2>2, <3>1, <3>2 DEF Channels, Channel
  <2>3. QED BY <2>1, <2>2
<1>6. QED BY <1>5 DEF Channels, p

\* An end is bound, and the one that its peer had before is not any more.
LEMMA BindChannels ==
  ASSUME OneDialer, MeshInv, OneBeaconPerPeer, DialInv, Channels(queue, bound),
         NEW e \in Ends, PeerConnected(e)
  PROVE  Channels(queue', bound')
<1>1. /\ queue[e] # <<>> /\ Head(queue[e]) \in PeerIds
      /\ queue' = Popped(queue, e)
      /\ bound' = (bound \ {peerBeacons[Local(e)][Remote(e)]}) \cup {e}
  BY DEF PeerConnected, Arrives, Popped, HandlePeerConnected, Rebound
<1>2. queue \in [Ends -> Seq(Handshake \cup Payloads)]
  BY DEF MeshInv, TypedMesh, MeshTypeOK
<1>3. \A d \in Ends \ {e} : queue'[d] = queue[d] BY <1>1, <1>2, PopFacts
<1>4. Both(e) BY <1>1 DEF Channels
<1>5. Local(e) \in Servers /\ Remote(e) \in Servers BY <1>4, EndsOfBoth
<1>6. \A d \in Ends \ {e} : Steady(d) /\ d \in bound => d \in bound'
  <2> SUFFICES ASSUME NEW d \in Ends \ {e}, Steady(d), d \in bound, d \notin bound'
               PROVE  FALSE
    OBVIOUS
  <2>1. d = peerBeacons[Local(e)][Remote(e)] BY <1>1
  <2>2. Local(d) = Local(e) /\ Remote(d) = Remote(e) BY <1>5, <2>1, EntryIsBound
  <2>3. QED BY <1>4, <2>2, OneConnection
<1>7. <<"onConnected">> \notin PeerIds BY DEF PeerIds
<1>8. \A d \in Ends \ {e} : Opening(queue, bound, d) => Opening(queue', bound', d)
  <2> SUFFICES ASSUME NEW d \in Ends \ {e}, Opening(queue, bound, d)
               PROVE  Opening(queue', bound', d)
    OBVIOUS
  <2>1. Other(d) \in Ends BY EndFacts
  <2>2. Other(d) # e BY <1>1, <1>7 DEF Opening
  <2>3. Other(d) \notin bound' BY <1>1, <2>2 DEF Opening
  <2>4. QED BY <1>3, <2>1, <2>2, <2>3 DEF Opening
<1>9. ASSUME NEW d \in Ends PROVE (queue'[d] # <<>> => Both(d)) /\ Channel(queue', bound', d)
  <2>1. CASE d = e BY <1>1, <1>4, <2>1 DEF Channel
  <2>2. CASE d # e BY <1>3, <1>6, <1>8, <2>2 DEF Channels, Channel
  <2>3. QED BY <2>1, <2>2
<1>10. QED BY <1>9 DEF Channels

\* Connections change that nothing is on.
LEMMA SameChannels ==
  ASSUME Channels(queue, bound), UNCHANGED <<queue, bound>>,
         \A e \in Ends : Both(e) => Both(e)',
         \A e \in Ends : Steady(e)' => Steady(e)
  PROVE  Channels(queue, bound)'
<1>1. \A e \in Ends : queue'[e] # <<>> => Both(e)' BY DEF Channels
<1>2. \A e \in Ends : Channel(queue, bound, e)'
  BY DEF Channels, Channel, HasIds, AheadIn, Opening, Other
<1>3. QED BY <1>1, <1>2 DEF Channels

LEMMA SteadyStays ==
  ASSUME NEW e \in Ends, crashed' = crashed,
         Both(e)' => Both(e) /\ Local(e)' = Local(e) /\ Remote(e)' = Remote(e),
         Both(e) => /\ peers'[Local(e)] = peers[Local(e)]
                    /\ peers'[Remote(e)] = peers[Remote(e)]
  PROVE  Steady(e)' => Steady(e)
BY DEF Steady, Lasting, Elder

LEMMA DialledChannels ==
  ASSUME Channels(queue, bound), UNCHANGED <<queue, bound, crashed>>,
         NEW s, NEW slots, NEW addresses, Dialled(s, slots, addresses),
         \A e \in Ends : Both(e) => /\ peers'[Local(e)] = peers[Local(e)]
                                    /\ peers'[Remote(e)] = peers[Remote(e)]
  PROVE  Channels(queue, bound)'
<1>1. \A e \in Ends : Valid(e) =>
         Valid(e)' /\ Local(e)' = Local(e) /\ Remote(e)' = Remote(e)
  BY DialledKeeps
<1>2. \A e \in Ends : Other(e)' = Other(e) /\ Other(e) \in Ends BY EndFacts DEF Other
<1>3. \A e \in Ends : Both(e) => Both(e)' BY <1>1, <1>2 DEF Both
<1>4. ASSUME NEW e \in Ends, Both(e)' PROVE Both(e)
  <2>1. /\ e[1] \in DOMAIN conns' /\ e[2] \in conns'[e[1]].ends
        /\ Other(e)[2] \in conns'[e[1]].ends
    BY <1>4 DEF Both, Valid, Other
  <2>2. e[2] \in Sides /\ Other(e)[2] \in Sides /\ e[2] # Other(e)[2]
    BY EndFacts DEF Other, Sides
  <2>3. e[1] \in DOMAIN conns
    <3>1. ASSUME e[1] \notin DOMAIN conns PROVE FALSE
      <4>1. PICK i \in slots : conns'[e[1]] = NewConn(s, i, addresses[i])
        BY <2>1, <3>1 DEF Dialled
      <4>2. conns'[e[1]].ends = {"client"} BY <4>1 DEF NewConn
      <4>3. QED BY <2>1, <2>2, <4>2
    <3>2. QED BY <3>1
  <2>4. conns'[e[1]] = conns[e[1]] BY <2>3 DEF Dialled
  <2>5. QED BY <2>1, <2>3, <2>4 DEF Both, Valid, Other
<1>5. \A e \in Ends : Both(e)' =>
         Both(e) /\ Local(e)' = Local(e) /\ Remote(e)' = Remote(e)
  BY <1>1, <1>4 DEF Both
<1>6. \A e \in Ends : Steady(e)' => Steady(e) BY <1>5, SteadyStays
<1>7. QED BY <1>3, <1>6, SameChannels

LEMMA DestroyChannels ==
  ASSUME MeshInv, Channels(queue, bound), NEW gone, DestroyBeacons(gone),
         crashed \subseteq crashed', \A s \in Servers \ crashed' : peers'[s] = peers[s]
  PROVE  Channels(queue, bound)'
<1>1. DOMAIN conns \subseteq ConnIds /\ conns \in [DOMAIN conns -> Conn]
  BY DEF MeshInv, TypedMesh, MeshTypeOK
<1>2. /\ DOMAIN conns' \subseteq DOMAIN conns
      /\ \A k \in DOMAIN conns' : /\ conns'[k].dialer = conns[k].dialer
                                  /\ conns'[k].host = conns[k].host
      /\ \A e \in Ends : Valid(e)' <=> Valid(e) /\ e \notin gone
  BY <1>1, LeftConnections
<1>3. /\ queue' = [e \in Ends |-> IF {e, Other(e)} \cap gone # {} THEN <<>> ELSE queue[e]]
      /\ bound' = bound \ gone
  BY DEF DestroyBeacons
<1>4. \A e \in Ends : /\ Other(e)' = Other(e) /\ Other(e) \in Ends /\ Other(Other(e)) = e
  BY EndFacts DEF Other
<1>5. \A e \in Ends : Both(e)' <=> Both(e) /\ e \notin gone /\ Other(e) \notin gone
  BY <1>2, <1>4 DEF Both
<1>6. \A e \in Ends : Both(e)' => Local(e)' = Local(e) /\ Remote(e)' = Remote(e)
  BY <1>2 DEF Both, Valid, Local, Remote
<1>7. \A e \in Ends : Steady(e)' => Steady(e) /\ e \notin gone /\ Other(e) \notin gone
  <2>1. \A e \in Ends : Both(e)' => Local(e) \in Servers /\ Remote(e) \in Servers
    BY <1>5, BoundPeers DEF Both, MeshInv, TypedMesh
  <2>2. QED BY <1>5, <1>6, <2>1 DEF Steady, Lasting, Elder
<1>8. \A e \in Ends : queue'[e] # <<>> => Both(e)' BY <1>3, <1>5 DEF Channels
<1>9. ASSUME NEW e \in Ends, Steady(e)'
      PROVE  \/ e \in bound'
             \/ AheadIn(queue'[e]) /\ (HasIds(queue'[e]) \/ Opening(queue', bound', e))
  <2>1. Steady(e) /\ e \notin gone /\ Other(e) \notin gone BY <1>7, <1>9
  <2>2. queue'[e] = queue[e] /\ queue'[Other(e)] = queue[Other(e)] BY <1>3, <1>4, <2>1
  <2>3. e \in bound => e \in bound' BY <1>3, <2>1
  <2>4. Opening(queue, bound, e) => Opening(queue', bound', e) BY <1>3, <2>2 DEF Opening
  <2>5. QED BY <2>1, <2>2, <2>3, <2>4 DEF Channels, Channel
<1>10. \A e \in Ends : Channel(queue, bound, e)' BY <1>9 DEF Channel, HasIds, AheadIn, Opening, Other
<1>11. QED BY <1>8, <1>10 DEF Channels

\* The ends that a subsystem listens to are of connections that were accepted.
BoundAccepted == \A e \in bound : conns[e[1]].accepted

LEMMA AcceptChannels ==
  ASSUME MeshInv, OneBeaconPerPeer, BoundAccepted, Channels(queue, bound),
         NEW k \in ConnIds, AcceptBeacon(k)
  PROVE  Channels(queue, bound)'
<1> DEFINE c == <<k, "client">>
           h == <<k, "host">>
           greeting == <<<<"onConnected">>, <<"peerConnected">>>>
<1>1. /\ k \in DOMAIN conns /\ ~conns[k].accepted
      /\ conns' = [conns EXCEPT ![k].accepted = TRUE, ![k].ends = Sides]
      /\ queue' = [queue EXCEPT ![c] = greeting]
      /\ UNCHANGED <<bound, crashed, peers>>
  BY DEF AcceptBeacon, Joining
<1>2. /\ conns \in [DOMAIN conns -> Conn] /\ conns[k].ends = {"client"}
      /\ queue \in [Ends -> Seq(Handshake \cup Payloads)]
  BY <1>1 DEF MeshInv, TypedMesh, MeshTypeOK, MeshOwned
<1>3. c \in Ends /\ h \in Ends /\ Other(c) = h /\ Other(h) = c /\ c # h
  BY DEF Ends, Sides, Other
<1>4. \A e \in Ends : e[1] = k => e = c \/ e = h BY EndFacts DEF Sides
<1>5. ~Valid(h) /\ queue[h] = <<>>
  <2>1. ~Valid(h) BY <1>1, <1>2 DEF Valid
  <2>2. QED BY <1>3, <2>1 DEF Channels, Both
<1>6. c \notin bound BY <1>1 DEF BoundAccepted
<1>7. /\ queue'[c] = greeting /\ queue'[h] = <<>>
      /\ \A e \in Ends : e[1] # k => queue'[e] = queue[e]
  BY <1>1, <1>2, <1>3, <1>5
<1>8. greeting # <<>> /\ Head(greeting) = <<"onConnected">> /\ HasIds(greeting)
      /\ AheadIn(greeting) /\ AheadIn(<<>>)
  <2>1. DOMAIN greeting = {1, 2} /\ greeting[1] = <<"onConnected">>
        /\ greeting[2] = <<"peerConnected">>
    OBVIOUS
  <2>2. greeting[1] \in Handshake /\ greeting[2] \in Handshake /\ greeting[2] \in PeerIds
    BY <2>1 DEF Handshake, PeerIds
  <2>3. greeting # <<>> /\ Head(greeting) = <<"onConnected">> OBVIOUS
  <2>4. DOMAIN <<>> = {} OBVIOUS
  <2> HIDE DEF greeting
  <2>5. HasIds(greeting) BY <2>1, <2>2 DEF HasIds
  <2>6. AheadIn(greeting) /\ AheadIn(<<>>) BY <2>1, <2>2, <2>4 DEF AheadIn
  <2>7. QED BY <2>3, <2>5, <2>6
<1> HIDE DEF greeting
<1>9. /\ DOMAIN conns' = DOMAIN conns /\ \A j \in DOMAIN conns : j # k => conns'[j] = conns[j]
      /\ conns'[k].ends = Sides
  BY <1>1, <1>2 DEF Conn
<1>10. Both(c)' /\ Both(h)' BY <1>1, <1>3, <1>9 DEF Both, Valid, Other, Sides
<1>11. \A e \in Ends : e[1] # k => /\ Both(e)' = Both(e) /\ Steady(e)' = Steady(e)
  BY <1>1, <1>9 DEF Both, Steady, Lasting, Elder, Valid, Other, Local, Remote
<1>12. ASSUME NEW e \in Ends PROVE (queue'[e] # <<>> => Both(e)') /\ Channel(queue, bound, e)'
  <2>1. CASE e[1] # k
    <3>1. Other(e) \in Ends /\ Other(e)[1] # k BY <2>1, EndFacts DEF Other
    <3>2. queue'[e] = queue[e] /\ queue'[Other(e)] = queue[Other(e)] BY <1>7, <2>1, <3>1
    <3>3. Channel(queue, bound, e) /\ (queue[e] # <<>> => Both(e)) BY DEF Channels
    <3>4. Opening(queue, bound, e)' = Opening(queue, bound, e)
      BY <1>1, <3>2 DEF Opening, Other
    <3>5. QED BY <1>1, <1>11, <2>1, <3>2, <3>3, <3>4 DEF Channel, HasIds, AheadIn
  <2>2. CASE e = c
    <3>1. AheadIn(queue'[c]) /\ HasIds(queue'[c]) BY <1>7, <1>8
    <3>2. QED BY <1>10, <2>2, <3>1 DEF Channel, HasIds, AheadIn
  <2>3. CASE e = h
    <3>1. Opening(queue', bound', h) BY <1>1, <1>3, <1>6, <1>7, <1>8 DEF Opening
    <3>2. AheadIn(queue'[h]) BY <1>7, <1>8
    <3>3. QED BY <1>7, <2>3, <3>1, <3>2 DEF Channel, HasIds, AheadIn, Opening, Other
  <2>4. QED BY <1>4, <2>1, <2>2, <2>3
<1>13. QED BY <1>12 DEF Channels

\* Steps that change queues and bound ends only.
LEMMA ChannelsPrimed ==
  ASSUME UNCHANGED <<conns, crashed, peers>>, Channels(queue', bound')
  PROVE  Channels(queue, bound)'
<1>1. \A e \in Ends : Both(e)' = Both(e) /\ Steady(e)' = Steady(e)
  BY DEF Both, Steady, Lasting, Elder, Valid, Other, Local, Remote
<1>2. \A e \in Ends : queue'[e] # <<>> => Both(e)' BY <1>1 DEF Channels
<1>3. \A e \in Ends : Channel(queue, bound, e)'
  BY <1>1 DEF Channels, Channel, HasIds, AheadIn, Opening, Other
<1>4. QED BY <1>2, <1>3 DEF Channels

\* The dialling side answers to OnConnected.
LEMMA OnConnectedChannels ==
  ASSUME MeshInv, Channels(queue, bound), NEW e \in Ends, OnConnected(e)
  PROVE  Channels(queue, bound)'
<1> DEFINE R   == Handshake \cup Payloads
           d   == Other(e)
           rpc == <<"setRemotePeerId">>
           q   == Pushed(queue, d, rpc)
<1>1. /\ queue[e] # <<>> /\ Head(queue[e]) = <<"onConnected">>
      /\ queue' = Sent(Popped(queue, e), d, rpc)
      /\ UNCHANGED <<conns, bound, crashed, peers>>
  BY DEF OnConnected, Arrives, Popped
<1>2. queue \in [Ends -> Seq(R)] BY DEF MeshInv, TypedMesh, MeshTypeOK
<1>3. Both(e) /\ d \in Ends /\ d # e /\ Other(d) = e BY <1>1, EndFacts DEF Channels
<1>4. Both(d) /\ Valid(d) BY <1>3 DEF Both
<1>5. rpc \in PeerIds /\ rpc \in Handshake /\ rpc \in R /\ <<"onConnected">> \notin PeerIds
  BY DEF PeerIds, Handshake
<1>6. q \in [Ends -> Seq(R)] /\ q[e] = queue[e]
  <2> HIDE DEF d, rpc, R
  <2>1. e \in Ends \ {d} BY <1>3
  <2>2. QED BY <1>2, <1>3, <1>5, <2>1, PushFacts
<1>7. queue' = Popped(q, e)
  <2>1. queue' = [Popped(queue, e) EXCEPT ![d] = Append(@, rpc)] BY <1>1, <1>4 DEF Sent
  <2> HIDE DEF d, rpc, q
  <2>2. /\ Popped(queue, e) = [c \in Ends |-> IF c = e THEN Tail(queue[e]) ELSE queue[c]]
        /\ Popped(q, e) = [c \in Ends |-> IF c = e THEN Tail(q[e]) ELSE q[c]]
    BY <1>2, <1>6 DEF Popped
  <2>3. \A c \in Ends : q[c] = IF c = d THEN Append(queue[d], rpc) ELSE queue[c]
    BY <1>2 DEF q, Pushed
  <2>4. queue' = [c \in Ends |-> IF c = d THEN Append(queue[d], rpc)
                                 ELSE IF c = e THEN Tail(queue[e]) ELSE queue[c]]
    BY <1>3, <2>1, <2>2
  <2>5. Popped(q, e) = [c \in Ends |-> IF c = d THEN Append(queue[d], rpc)
                                       ELSE IF c = e THEN Tail(queue[e]) ELSE queue[c]]
    BY <1>3, <2>2, <2>3
  <2>6. QED BY <2>4, <2>5
<1>8. HasIds(q[d])
  <2>1. q[d] = Append(queue[d], rpc) /\ queue[d] \in Seq(R) BY <1>2, <1>3 DEF Pushed
  <2>2. QED BY <1>5, <2>1, PushIds
<1>9. Channels(q, bound) BY <1>2, <1>3, <1>4, <1>5, PushChannels
<1> HIDE DEF q, rpc
<1>10. Channels(Popped(q, e), bound) BY <1>1, <1>3, <1>5, <1>6, <1>8, <1>9, PopChannels
<1>11. QED BY <1>1, <1>7, <1>10, ChannelsPrimed

ChannelInv == BoundAccepted /\ Channels(queue, bound)

\* Connections that are there stay accepted.
LEMMA AcceptedStay ==
  ASSUME OneBeaconPerPeer, BoundAccepted, bound' \subseteq bound,
         \A e \in bound' : Valid(e) /\ conns[e[1]].accepted => conns'[e[1]].accepted
  PROVE  BoundAccepted'
BY DEF BoundAccepted, OneBeaconPerPeer

LEMMA DestroyedAccepted ==
  ASSUME MeshInv, OneBeaconPerPeer, BoundAccepted, NEW gone, DestroyBeacons(gone)
  PROVE  BoundAccepted'
<1>1. DOMAIN conns \subseteq ConnIds /\ conns \in [DOMAIN conns -> Conn] /\ bound \subseteq Ends
  BY DEF MeshInv, TypedMesh, MeshTypeOK
<1>2. \A e \in Ends : Valid(e)' <=> Valid(e) /\ e \notin gone BY <1>1, LeftConnections
<1>3. bound' = bound \ gone BY DEF DestroyBeacons
<1>4. \A k \in DOMAIN conns' : \E S : conns'[k] = [conns[k] EXCEPT !.ends = S]
  BY DEF DestroyBeacons
<1>5. ASSUME NEW e \in bound', Valid(e) PROVE conns'[e[1]].accepted = conns[e[1]].accepted
  <2>1. e[1] \in DOMAIN conns /\ e[1] \in DOMAIN conns'
    BY <1>1, <1>2, <1>3, <1>5 DEF Valid
  <2>2. conns[e[1]] \in Conn BY <1>1, <2>1
  <2>3. PICK S : conns'[e[1]] = [conns[e[1]] EXCEPT !.ends = S] BY <1>4, <2>1
  <2>4. QED BY <2>2, <2>3 DEF Conn
<1>6. QED BY <1>3, <1>5, AcceptedStay

LEMMA ChannelInit == ASSUME Init PROVE ChannelInv
<1>1. bound = {} /\ queue = [e \in Ends |-> <<>>] /\ DOMAIN conns = {} BY DEF Init
<1>2. \A e \in Ends : queue[e] = <<>> /\ ~Both(e) BY <1>1 DEF Both, Valid
<1>3. Channels(queue, bound) BY <1>2 DEF Channels, Channel, Steady
<1>4. QED BY <1>1, <1>3 DEF ChannelInv, BoundAccepted

LEMMA DialledChannelInv ==
  ASSUME OneBeaconPerPeer, ChannelInv, UNCHANGED <<queue, bound, crashed>>,
         NEW s, NEW slots, NEW addresses, Dialled(s, slots, addresses),
         \A e \in Ends : Both(e) => /\ peers'[Local(e)] = peers[Local(e)]
                                    /\ peers'[Remote(e)] = peers[Remote(e)]
  PROVE  ChannelInv'
<1>1. Channels(queue, bound)' BY DialledChannels DEF ChannelInv
<1>2. BoundAccepted' BY AcceptedStay DEF ChannelInv, Dialled, Valid
<1>3. QED BY <1>1, <1>2 DEF ChannelInv

LEMMA ChannelNext ==
  ASSUME OneDialer, MeshAssumption, MeshInv, OneBeaconPerPeer, DialInv, ChannelInv,
         [MeshNext]_meshVars
  PROVE  ChannelInv'
<1>1. ASSUME NEW s \in Servers, Register(s) PROVE ChannelInv'
  <2>1. UNCHANGED <<conns, crashed, peers, queue, bound>> BY <1>1 DEF Register
  <2>2. Channels(queue, bound)' BY <2>1, ChannelsPrimed DEF ChannelInv
  <2>3. QED BY <2>1, <2>2 DEF ChannelInv, BoundAccepted
<1>2. ASSUME NEW s \in Servers, NewDials(s), UNCHANGED <<queue, bound, crashed>>
      PROVE  ChannelInv'
  <2>1. \A e \in Ends : Both(e) => /\ Local(e) \in active /\ Remote(e) \in active
                                   /\ Local(e) \in Servers /\ Remote(e) \in Servers
    BY EndsOfBoth
  <2>2. \A r \in active \cap Servers : peers'[r] = peers[r]
    <3>1. DOMAIN peers = Servers BY DEF MeshInv, TypedMesh, MeshTypeOK
    <3>2. ASSUME NEW list, s \notin active, InitializeDSTMMesh(s, list)
          PROVE  \A r \in active \cap Servers : peers'[r] = peers[r]
      BY <3>1, <3>2 DEF InitializeDSTMMesh
    <3>3. ASSUME NEW i, Retry(s, i) PROVE peers' = peers BY <3>3 DEF Retry
    <3>4. QED BY <1>2, <3>2, <3>3 DEF NewDials
  <2>3. PICK slots, addresses : Dialled(s, slots, addresses) BY <1>2, NewDialsFollow
  <2>4. QED BY <1>2, <2>1, <2>2, <2>3, DialledChannelInv
<1>3. ASSUME NEW s \in Servers, InitializeFromCommandLine(s) \/ Registered(s)
      PROVE  ChannelInv'
  <2>1. CASE InitializeFromCommandLine(s)
    <3>1. StaticPeers[s] \in Seq(Servers) BY DEF MeshAssumption
    <3>2. s \notin active /\ InitializeDSTMMesh(s, StaticPeers[s])
      BY <2>1 DEF InitializeFromCommandLine, Starting
    <3>3. NewDials(s) BY <3>1, <3>2 DEF NewDials
    <3>4. UNCHANGED <<queue, bound, crashed>> BY <3>2 DEF InitializeDSTMMesh
    <3>5. QED BY <1>2, <3>3, <3>4
  <2>2. CASE Registered(s)
    <3>1. answers[s] \in Seq(Servers) /\ s \notin active
      BY <2>2 DEF Registered, MeshInv, MeshOwned, TypedMesh, MeshTypeOK
    <3>2. InitializeDSTMMesh(s, answers[s]) BY <2>2 DEF Registered
    <3>3. NewDials(s) BY <3>1, <3>2 DEF NewDials
    <3>4. UNCHANGED <<queue, bound, crashed>> BY <3>2 DEF InitializeDSTMMesh
    <3>5. QED BY <1>2, <3>3, <3>4
  <2>3. QED BY <1>3, <2>1, <2>2
<1>4. ASSUME NEW t \in timers, Retry(t[1], t[2]) PROVE ChannelInv'
  <2>1. t[1] \in Servers BY DEF MeshInv, TypedMesh, MeshTypeOK
  <2>2. t[2] \in DOMAIN peers[t[1]] BY DEF MeshInv, OneBeaconOrTimer
  <2>3. NewDials(t[1]) BY <1>4, <2>2 DEF NewDials
  <2>4. UNCHANGED <<queue, bound, crashed>> BY <1>4 DEF Retry
  <2>5. QED BY <1>2, <2>1, <2>3, <2>4
<1>5. ASSUME NEW k \in ConnIds, AcceptBeacon(k) \/ RefuseBeacon(k) PROVE ChannelInv'
  <2>1. /\ k \in DOMAIN conns /\ UNCHANGED <<bound, crashed, peers>>
        /\ \/ conns' = [conns EXCEPT ![k].accepted = TRUE, ![k].ends = Sides]
           \/ conns' = [conns EXCEPT ![k].accepted = TRUE]
    BY <1>5 DEF AcceptBeacon, RefuseBeacon, Joining
  <2>2. conns[k] \in Conn BY <2>1 DEF MeshInv, TypedMesh, MeshTypeOK
  <2>3. PICK c : c = conns'[k] OBVIOUS
  <2>4. /\ DOMAIN conns' = DOMAIN conns
        /\ \A j \in DOMAIN conns : j # k => conns'[j] = conns[j]
    BY <2>1
  <2>5. c = [conns[k] EXCEPT !.accepted = TRUE, !.ends = Sides]
        \/ c = [conns[k] EXCEPT !.accepted = TRUE]
    BY <2>1, <2>3
  <2>6. c.accepted /\ c.dialer = conns[k].dialer /\ c.host = conns[k].host
    BY <2>2, <2>5 DEF Conn
  <2>7. BoundAccepted' BY <2>1, <2>3, <2>4, <2>6, AcceptedStay DEF ChannelInv, Valid
  <2>8. CASE AcceptBeacon(k) BY <2>7, <2>8, AcceptChannels DEF ChannelInv
  <2>9. CASE RefuseBeacon(k)
    <3>1. queue' = queue /\ conns' = [conns EXCEPT ![k].accepted = TRUE]
      BY <2>9 DEF RefuseBeacon
    <3>2. c = [conns[k] EXCEPT !.accepted = TRUE] BY <2>1, <2>3, <3>1
    <3>3. c.ends = conns[k].ends BY <2>2, <3>2 DEF Conn
    <3>4. \A e \in Ends : /\ Valid(e)' = Valid(e)
                          /\ Valid(e) => Local(e)' = Local(e) /\ Remote(e)' = Remote(e)
      BY <2>3, <2>4, <2>6, <3>3 DEF Valid, Local, Remote
    <3>5. \A e \in Ends : Other(e)' = Other(e) /\ Other(e) \in Ends BY EndFacts DEF Other
    <3>6. \A e \in Ends : /\ Both(e)' = Both(e)
                          /\ Both(e) => Local(e)' = Local(e) /\ Remote(e)' = Remote(e)
      BY <3>4, <3>5 DEF Both
    <3>7. \A e \in Ends : Steady(e)' => Steady(e)
      BY <2>1, <3>6 DEF Steady, Lasting, Elder
    <3>8. Channels(queue, bound)' BY <2>1, <3>1, <3>6, <3>7, SameChannels DEF ChannelInv
    <3>9. QED BY <2>7, <3>8 DEF ChannelInv
  <2>10. QED BY <1>5, <2>8, <2>9
<1>6. ASSUME NEW e \in Ends, OnConnected(e) PROVE ChannelInv'
  <2>1. UNCHANGED <<conns, bound>> BY <1>6 DEF OnConnected
  <2>2. QED BY <1>6, <2>1, OnConnectedChannels DEF ChannelInv, BoundAccepted
<1>7. ASSUME NEW e \in Ends, PeerConnected(e) PROVE ChannelInv'
  <2>1. /\ queue[e] # <<>> /\ UNCHANGED <<conns, crashed, peers>> /\ bound' \subseteq bound \cup {e}
    BY <1>7 DEF PeerConnected, Arrives, HandlePeerConnected, Rebound
  <2>2. Both(e) BY <2>1 DEF ChannelInv, Channels
  <2>3. conns[e[1]].accepted BY <2>2, EndsOfBoth
  <2>4. BoundAccepted' BY <2>1, <2>3 DEF ChannelInv, BoundAccepted
  <2>5. Channels(queue', bound') BY <1>7, BindChannels DEF ChannelInv
  <2>6. QED BY <2>1, <2>4, <2>5, ChannelsPrimed DEF ChannelInv
<1>8. ASSUME NEW gone, DestroyBeacons(gone), crashed \subseteq crashed',
             \A s \in Servers \ crashed' : peers'[s] = peers[s]
      PROVE  ChannelInv'
  BY <1>8, DestroyChannels, DestroyedAccepted DEF ChannelInv
<1>9. ASSUME NEW e \in Ends, ConnectionLost(e) \/ ConnectionTimesOut(e) PROVE ChannelInv'
  <2>1. DestroyBeacons({e}) /\ UNCHANGED <<crashed, peers>>
    BY <1>9 DEF ConnectionLost, ConnectionTimesOut, ConnectionFails
  <2>2. QED BY <1>8, <2>1
<1>10. ASSUME NEW s \in Servers, Crash(s) PROVE ChannelInv'
  <2>1. DOMAIN peers = Servers BY DEF MeshInv, TypedMesh, MeshTypeOK
  <2>2. /\ DestroyBeacons(BeaconsOf(s)) /\ crashed' = crashed \cup {s}
        /\ peers' = [peers EXCEPT ![s] = <<>>]
    BY <1>10 DEF Crash
  <2>3. \A r \in Servers \ crashed' : peers'[r] = peers[r] BY <2>1, <2>2
  <2>4. QED BY <1>8, <2>2, <2>3
<1>11. CASE UNCHANGED meshVars
  <2>1. UNCHANGED <<conns, crashed, peers, queue, bound>> BY <1>11
  <2>2. Channels(queue, bound)' BY <2>1, ChannelsPrimed DEF ChannelInv
  <2>3. QED BY <2>1, <2>2 DEF ChannelInv, BoundAccepted
<1>12. QED
  BY <1>1, <1>3, <1>4, <1>5, <1>6, <1>7, <1>9, <1>10, <1>11 DEF MeshNext, MeshStep

-----------------------------------------------------------------------------
(* Quiet peers agree, also after crashes.                                  *)

\* When nothing is on its way over a connection its two ends are bound.
LEMMA QuietEndsAreBound ==
  ASSUME ChannelInv, NEW e \in Ends, Steady(e), queue[e] = <<>>, queue[Other(e)] = <<>>
  PROVE  e \in bound
<1>1. DOMAIN <<>> = {} OBVIOUS
<1>2. ~HasIds(queue[e]) /\ ~Opening(queue, bound, e) BY <1>1 DEF HasIds, Opening
<1>3. QED BY <1>2 DEF ChannelInv, Channels, Channel

ListeningInv == MeshInv /\ OneBeaconPerPeer /\ DialInv /\ ChannelInv

LEMMA ListeningNext ==
  ASSUME OneDialer, MeshAssumption, ListeningInv, [MeshNext]_meshVars
  PROVE  ListeningInv'
BY MeshInvNext, OneBeaconNext, DialNext, ChannelNext DEF ListeningInv

THEOREM PeersListen == ASSUME OneDialer PROVE MeshSpec => []ListeningInv
<1>1. ASSUME Init PROVE ListeningInv
  <2>1. OneBeaconPerPeer
    <3>1. bound = {} /\ peerBeacons = [s \in Servers |-> [p \in Servers |-> None]]
      BY <1>1 DEF Init
    <3>2. QED BY <3>1, NoBeaconAssumption DEF OneBeaconPerPeer
  <2>2. QED BY <1>1, <2>1, MeshAssumption, MeshInvInit, DialInit, ChannelInit
    DEF ListeningInv
<1>2. ListeningInv /\ [MeshNext]_meshVars => ListeningInv'
  BY MeshAssumption, ListeningNext
<1>3. QED BY <1>1, <1>2, PTL DEF MeshSpec

\* Quiet pairs of which only one dials.
LastingPeersAgree ==
    \A a, b \in Servers :
        /\ a # b
        /\ Lasting(a, b)
        /\ Between(a, b) # {}
        /\ QuietPair(a, b)
        => PeersAgree(a, b)

LEMMA AgreeFollows == ASSUME ListeningInv PROVE LastingPeersAgree
<1> SUFFICES ASSUME NEW a \in Servers, NEW b \in Servers, NEW k \in Between(a, b),
                    Lasting(a, b), QuietPair(a, b)
             PROVE  PeersAgree(a, b)
  BY DEF LastingPeersAgree
<1> DEFINE c == <<k, "client">>
           h == <<k, "host">>
<1>1. /\ k \in DOMAIN conns /\ {conns[k].dialer, conns[k].host} = {a, b}
      /\ conns[k].ends = Sides /\ queue[c] = <<>> /\ queue[h] = <<>>
  BY DEF Between, QuietPair, Sides
<1>2. c \in Ends /\ h \in Ends /\ Other(c) = h /\ Other(h) = c
  <2>1. k \in ConnIds BY <1>1 DEF ListeningInv, MeshInv, TypedMesh, MeshTypeOK
  <2>2. QED BY <2>1 DEF Ends, Sides, Other
<1>3. /\ Local(c) = conns[k].dialer /\ Remote(c) = conns[k].host
      /\ Local(h) = conns[k].host /\ Remote(h) = conns[k].dialer
  BY DEF Local, Remote
<1>4. Steady(c) /\ Steady(h)
  <2>1. Both(c) /\ Both(h) BY <1>1, <1>2 DEF Both, Valid, Sides
  <2>2. \/ conns[k].dialer = a /\ conns[k].host = b
        \/ conns[k].dialer = b /\ conns[k].host = a
    BY <1>1
  <2>3. QED BY <1>3, <2>1, <2>2 DEF Steady, Lasting
<1>5. c \in bound /\ h \in bound BY <1>1, <1>2, <1>4, QuietEndsAreBound DEF ListeningInv
<1>6. /\ peerBeacons[conns[k].dialer][conns[k].host] = c
      /\ peerBeacons[conns[k].host][conns[k].dialer] = h
  BY <1>3, <1>5 DEF ListeningInv, OneBeaconPerPeer
<1>7. CASE conns[k].dialer = a /\ conns[k].host = b BY <1>2, <1>6, <1>7 DEF PeersAgree
<1>8. CASE conns[k].dialer = b /\ conns[k].host = a BY <1>2, <1>6, <1>8 DEF PeersAgree
<1>9. QED BY <1>1, <1>7, <1>8

\* The servers that have joined through the proxy once more after a crash.
Rejoined == crashed \cap active \cap JoinsProxy

LEMMA RunningServersLast ==
  ASSUME MeshInv, DialInv, Rejoined = {},
         NEW s \in active, NEW p \in active
  PROVE  Lasting(s, p)
<1>1. s \in Servers /\ p \in Servers BY DEF MeshInv, TypedMesh, MeshTypeOK
<1>2. CASE s \in JoinsProxy /\ p \in JoinsProxy
  BY <1>1, <1>2, UncrashedLast DEF Rejoined
<1>3. CASE s \notin JoinsProxy \/ p \notin JoinsProxy BY <1>3 DEF Lasting
<1>4. QED BY <1>2, <1>3

\* The two ends of a connection belong to servers that run.
LEMMA QuietPairsRun ==
  ASSUME MeshInv, NEW a \in Servers, NEW b \in Servers, Between(a, b) # {}, QuietPair(a, b)
  PROVE  a \in active /\ b \in active
<1>1. PICK k \in Between(a, b) : TRUE OBVIOUS
<1> DEFINE c == <<k, "client">>
           h == <<k, "host">>
<1>2. k \in DOMAIN conns /\ {conns[k].dialer, conns[k].host} = {a, b} /\ conns[k].ends = Sides
  BY DEF Between, QuietPair
<1>3. c \in Ends /\ Other(c) = h /\ Both(c)
  <2>1. k \in ConnIds BY <1>2 DEF MeshInv, TypedMesh, MeshTypeOK
  <2>2. c \in Ends /\ Other(c) = h BY <2>1 DEF Ends, Sides, Other
  <2>3. QED BY <1>2, <2>2 DEF Both, Valid, Sides
<1>4. conns[k].dialer \in active /\ conns[k].host \in active
  BY <1>3, EndsOfBoth DEF Local, Remote
<1>5. QED BY <1>2, <1>4

LEMMA LiveFollows ==
  ASSUME ListeningInv, \A e \in Ends : Both(e) => Steady(e)
  PROVE  ConnectedPeersAreLive
<1> SUFFICES ASSUME NEW s \in Servers,
                    \A e \in BeaconsOf(s) : /\ conns[e[1]].ends = Sides
                                            /\ queue[e] = <<>> /\ queue[Other(e)] = <<>>
             PROVE  /\ GetConnectedPeerIds(s) = {Remote(e) : e \in BeaconsOf(s)}
                    /\ \A d, e \in BeaconsOf(s) : Remote(d) = Remote(e) => d = e
  BY DEF ConnectedPeersAreLive
<1>1. ASSUME NEW e \in BeaconsOf(s)
      PROVE  peerBeacons[s][Remote(e)] = e /\ e \in Ends /\ Remote(e) \in Servers
  <2>1. e \in Ends /\ Valid(e) /\ Local(e) = s BY DEF BeaconsOf
  <2>2. Both(e) BY <2>1, EndFacts DEF Both, Valid, Other
  <2>3. Steady(e) BY <2>1, <2>2
  <2>4. e \in bound BY <2>1, <2>3, QuietEndsAreBound DEF ListeningInv
  <2>5. Remote(e) \in Servers BY <2>1, BoundPeers DEF ListeningInv, MeshInv, TypedMesh
  <2>6. QED BY <2>1, <2>4, <2>5 DEF ListeningInv, OneBeaconPerPeer
<1>2. \A p \in GetConnectedPeerIds(s) : \E e \in BeaconsOf(s) : Remote(e) = p
  <2> SUFFICES ASSUME NEW p \in GetConnectedPeerIds(s)
               PROVE  \E e \in BeaconsOf(s) : Remote(e) = p
    OBVIOUS
  <2>1. p \in Servers /\ peerBeacons[s][p] \in Ends
    BY DEF GetConnectedPeerIds, ListeningInv, MeshInv, TypedMesh, MeshTypeOK
  <2>2. Valid(peerBeacons[s][p]) /\ Local(peerBeacons[s][p]) = s
        /\ Remote(peerBeacons[s][p]) = p
    BY <2>1, EntryIsBound DEF ListeningInv
  <2>3. QED BY <2>1, <2>2 DEF BeaconsOf
<1>3. \A e \in BeaconsOf(s) : Remote(e) \in GetConnectedPeerIds(s)
  BY <1>1, NoBeaconAssumption DEF GetConnectedPeerIds
<1>4. QED BY <1>1, <1>2, <1>3

\* Whatever processes crash and rejoin, and whichever connections are refused, lost and
\* dialled again: two peers with nothing on its way between them use one connection, each its
\* own end of it, as long as only one of them dials the other (RegisterServer, "to prevent
\* redundant connections").
THEOREM OneDialerOneConnection == ASSUME OneDialer PROVE MeshSpec => []LastingPeersAgree
<1>1. ListeningInv => LastingPeersAgree BY AgreeFollows
<1>2. QED BY PeersListen, <1>1, PTL

\* The proxy names to a server those that registered before it only, so that all quiet peers
\* agree until a crashed server joins through the proxy once more.
THEOREM QuietPeersAgreeUntilARejoin ==
  ASSUME OneDialer PROVE MeshSpec => [](Rejoined = {} => QuietPeersAgree)
<1>1. ASSUME ListeningInv, Rejoined = {} PROVE QuietPeersAgree
  <2>1. LastingPeersAgree BY <1>1, AgreeFollows
  <2>2. ASSUME NEW a \in Servers, NEW b \in Servers, Between(a, b) # {}, QuietPair(a, b)
        PROVE  Lasting(a, b)
    BY <1>1, <2>2, QuietPairsRun, RunningServersLast DEF ListeningInv
  <2>3. QED BY <2>1, <2>2 DEF QuietPeersAgree, LastingPeersAgree
<1>2. QED BY PeersListen, <1>1, PTL

\* With static lists they agree after any crashes and restarts, also when one server joins
\* such a mesh through the proxy.
THEOREM StaticPeersAgree ==
  ASSUME OneDialer, \A s, p \in JoinsProxy : s = p
  PROVE  MeshSpec => []QuietPeersAgree
<1>1. ASSUME ListeningInv PROVE QuietPeersAgree
  <2>1. LastingPeersAgree BY <1>1, AgreeFollows
  <2>2. \A a, b : a # b => Lasting(a, b) BY DEF Lasting
  <2>3. QED BY <2>1, <2>2 DEF QuietPeersAgree, LastingPeersAgree
<1>2. QED BY PeersListen, <1>1, PTL

\* Until a crashed server joins through the proxy once more, the peers that a server reports
\* when the handshakes of its beacons are over are those that it has a beacon to
\* (GetConnectedPeerIds).
THEOREM ConnectedPeersAreLiveUntilARejoin ==
  ASSUME OneDialer PROVE MeshSpec => [](Rejoined = {} => ConnectedPeersAreLive)
<1>1. ASSUME ListeningInv, Rejoined = {} PROVE ConnectedPeersAreLive
  <2>1. \A e \in Ends : Both(e) => Steady(e)
    BY <1>1, EndsOfBoth, RunningServersLast DEF ListeningInv, Steady
  <2>2. QED BY <1>1, <2>1, LiveFollows
<1>2. QED BY PeersListen, <1>1, PTL

\* A server that finds its own address in the peer list does not dial itself, not even when
\* the proxy's list still has it from the time before a crash.
NobodyDialsItself == \A s \in Servers : s \notin Range(peers[s])

LEMMA DialsOthers ==
  ASSUME ListenIpListed, IsInjective(AddressOrder), NEW s \in Servers, NEW list \in Seq(Servers)
  PROVE  s \notin Range(Dialed(s, list))
<1>1. ~Before(s, s)
  <2> SUFFICES ASSUME Before(s, s) PROVE FALSE OBVIOUS
  <2>1. PICK i, j \in DOMAIN AddressOrder : i < j /\ AddressOrder[i] = s /\ AddressOrder[j] = s
    BY DEF Before
  <2>2. i = j BY <2>1 DEF IsInjective
  <2>3. AddressOrder \in Seq(Servers) BY MeshAssumption DEF MeshAssumption
  <2>4. i \in Nat BY <2>3
  <2>5. QED BY <2>1, <2>2, <2>4
<1>2. CASE s \in Range(list)
  <2> DEFINE before == {i \in DOMAIN list : Before(list[i], s)}
             d      == Restrict(list, before)
  <2>1. Dialed(s, list) = d BY <1>2 DEF Dialed
  <2>2. DOMAIN d = before /\ \A i \in before : d[i] = list[i] BY DEF Restrict
  <2>3. \A i \in DOMAIN d : d[i] # s BY <1>1, <2>2
  <2> HIDE DEF d
  <2>4. QED BY <2>1, <2>3 DEF Range
<1>3. CASE s \notin Range(list) BY <1>3 DEF Dialed
<1>4. QED BY <1>2, <1>3

LEMMA NobodyDialsItselfNext ==
  ASSUME ListenIpListed, IsInjective(AddressOrder), MeshAssumption, MeshInv, NobodyDialsItself,
         [MeshNext]_meshVars
  PROVE  NobodyDialsItself'
<1>1. DOMAIN peers = Servers BY DEF MeshInv, TypedMesh, MeshTypeOK
<1>2. ASSUME NEW s \in Servers, NEW list \in Seq(Servers), InitializeDSTMMesh(s, list)
      PROVE  NobodyDialsItself'
  <2>1. peers' = [peers EXCEPT ![s] = Dialed(s, list)] BY <1>2 DEF InitializeDSTMMesh
  <2>2. s \notin Range(Dialed(s, list)) BY DialsOthers
  <2>3. QED BY <1>1, <2>1, <2>2 DEF NobodyDialsItself
<1>3. ASSUME NEW s \in Servers, InitializeFromCommandLine(s) PROVE NobodyDialsItself'
  <2>1. StaticPeers[s] \in Seq(Servers) BY DEF MeshAssumption
  <2>2. QED BY <1>2, <1>3, <2>1 DEF InitializeFromCommandLine
<1>4. ASSUME NEW s \in Servers, Registered(s) PROVE NobodyDialsItself'
  <2>1. answers[s] \in Seq(Servers) BY <1>4 DEF Registered, MeshInv, TypedMesh, MeshTypeOK
  <2>2. QED BY <1>2, <1>4, <2>1 DEF Registered
<1>5. ASSUME NEW s \in Servers, Crash(s) PROVE NobodyDialsItself'
  <2>1. peers' = [peers EXCEPT ![s] = <<>>] BY <1>5 DEF Crash
  <2>2. Range(<<>>) = {} BY DEF Range
  <2>3. QED BY <1>1, <2>1, <2>2 DEF NobodyDialsItself
<1>6. ASSUME peers' = peers PROVE NobodyDialsItself' BY <1>6 DEF NobodyDialsItself
<1>7. ASSUME NEW k, AcceptBeacon(k) \/ RefuseBeacon(k) PROVE peers' = peers
  BY <1>7 DEF AcceptBeacon, RefuseBeacon
<1>8. ASSUME NEW e, OnConnected(e) \/ PeerConnected(e) \/ ConnectionLost(e) \/ ConnectionTimesOut(e)
      PROVE  peers' = peers
  BY <1>8 DEF OnConnected, PeerConnected, ConnectionLost, ConnectionTimesOut, ConnectionFails
<1>9. ASSUME NEW s, NEW i, Retry(s, i) PROVE peers' = peers BY <1>9 DEF Retry
<1>10. ASSUME NEW s, Register(s) PROVE peers' = peers BY <1>10 DEF Register
<1>11. CASE UNCHANGED meshVars BY <1>6, <1>11
<1>12. QED
  BY <1>3, <1>4, <1>5, <1>6, <1>7, <1>8, <1>9, <1>10, <1>11 DEF MeshNext, MeshStep

\* In a mesh of static lists, and of one more server that joins through the proxy, that is so
\* after any crashes and restarts, when servers find their own addresses in the lists.
THEOREM StaticPeersAreLive ==
  ASSUME OneDialer, \A s, p \in JoinsProxy : s = p, ListenIpListed, IsInjective(AddressOrder)
  PROVE  MeshSpec => []ConnectedPeersAreLive
<1>1. ASSUME Init PROVE NobodyDialsItself
  <2>1. peers = [s \in Servers |-> <<>>] BY <1>1 DEF Init
  <2>2. Range(<<>>) = {} BY DEF Range
  <2>3. QED BY <2>1, <2>2 DEF NobodyDialsItself
<1>2. ListeningInv /\ NobodyDialsItself /\ [MeshNext]_meshVars => NobodyDialsItself'
  BY MeshAssumption, NobodyDialsItselfNext DEF ListeningInv
<1>3. ASSUME ListeningInv, NobodyDialsItself PROVE ConnectedPeersAreLive
  <2>1. ASSUME NEW e \in Ends, Both(e) PROVE Local(e) # Remote(e)
    <3> DEFINE c == conns[e[1]]
    <3>1. c.dialer \in Servers /\ c.host \in Range(peers[c.dialer])
      BY <1>3, <2>1, DialerKnows DEF ListeningInv
    <3>2. c.dialer # c.host BY <1>3, <3>1 DEF NobodyDialsItself
    <3>3. QED BY <3>2 DEF Local, Remote
  <2>2. \A e \in Ends : Both(e) => Steady(e) BY <2>1 DEF Steady, Lasting
  <2>3. QED BY <1>3, <2>2, LiveFollows
<1>4. QED BY PeersListen, <1>1, <1>2, <1>3, PTL DEF MeshSpec
=============================================================================
