----------------------- MODULE ObjectMigrationProofs -----------------------
(***************************************************************************)
(* Theorems about ObjectMigration, for every value of its constants: the   *)
(* migrations keep the invariants of the mesh, they implement              *)
(* ObjectOwnership, and when of two servers one dials the other, data that *)
(* arrives is heard and no object is lost while nothing fails.             *)
(***************************************************************************)
EXTENDS ObjectMigration, BeaconMeshProofs

USE DEF startVars, failVars, beaconVars, registryVars, meshVars, vars

-----------------------------------------------------------------------------
(* An object on its way.  These facts are about any queues q.              *)

At(q, e, i, o) == e \in Ends /\ i \in DOMAIN q[e] /\ q[e][i] = Migrated(o)

OnItsWay(q, o) == \E e \in Ends : \E i \in DOMAIN q[e] : At(q, e, i, o)

\* It is in one RPC at most.
InOneRPC(q, o) == \A d, e \in Ends : \A i \in DOMAIN q[d], j \in DOMAIN q[e] :
                     At(q, d, i, o) /\ At(q, e, j, o) => d = e /\ i = j

LEMMA RPCsDiffer ==
  /\ \A o, p : Migrated(o) = Migrated(p) => o = p
  /\ \A o : \A rpc \in Handshake \cup Requests : rpc # Migrated(o)
<1>1. \A o, p : Migrated(o) = Migrated(p) => o = p BY DEF Migrated
<1>2. ASSUME NEW o, NEW rpc \in Handshake PROVE rpc # Migrated(o)
  BY DEF Migrated, Handshake, PeerIds
<1>3. ASSUME NEW o, NEW p, NEW id PROVE Request(p, id) # Migrated(o)
  BY DEF Migrated, Request
<1>4. QED BY <1>1, <1>2, <1>3 DEF Requests

\* Taking out another RPC leaves the object where it is.
LEMMA PopOther ==
  ASSUME NEW R, NEW q \in [Ends -> Seq(R)], NEW e \in Ends, q[e] # <<>>,
         NEW o, Head(q[e]) # Migrated(o)
  PROVE  /\ OnItsWay(Popped(q, e), o) <=> OnItsWay(q, o)
         /\ InOneRPC(q, o) => InOneRPC(Popped(q, e), o)
<1> DEFINE p == Popped(q, e)
<1>1. /\ \A d \in Ends \ {e} : p[d] = q[d]
      /\ \A i : i \in DOMAIN p[e] <=> i \in Nat /\ i >= 1 /\ i + 1 \in DOMAIN q[e]
      /\ \A i \in DOMAIN p[e] : p[e][i] = q[e][i + 1]
      /\ 1 \in DOMAIN q[e] /\ Head(q[e]) = q[e][1]
  BY PopFacts
<1>2. \A d \in Ends : DOMAIN q[d] \subseteq Nat \ {0}
  <2> SUFFICES ASSUME NEW d \in Ends PROVE DOMAIN q[d] \subseteq Nat \ {0} OBVIOUS
  <2>1. q[d] \in Seq(R) OBVIOUS
  <2>2. QED BY <2>1
<1> HIDE DEF p
<1> DEFINE from(d, i) == IF d = e THEN i + 1 ELSE i
<1>3. ASSUME NEW d \in Ends, NEW i \in DOMAIN p[d], At(p, d, i, o)
      PROVE  from(d, i) \in DOMAIN q[d] /\ At(q, d, from(d, i), o) /\ i \in Nat
  BY <1>1, <1>2, <1>3 DEF At
<1>4. ASSUME NEW d \in Ends, NEW i \in DOMAIN q[d], At(q, d, i, o)
      PROVE  \E j \in DOMAIN p[d] : At(p, d, j, o)
  <2>1. CASE d # e BY <1>1, <1>4, <2>1 DEF At
  <2>2. CASE d = e
    <3>1. i # 1 BY <1>1, <1>4, <2>2 DEF At
    <3>2. i - 1 \in Nat /\ i - 1 >= 1 /\ (i - 1) + 1 = i BY <1>2, <3>1
    <3>3. i - 1 \in DOMAIN p[e] BY <1>1, <2>2, <3>2
    <3>4. At(p, d, i - 1, o) BY <1>1, <1>4, <2>2, <3>2, <3>3 DEF At
    <3>5. QED BY <2>2, <3>3, <3>4
  <2>3. QED BY <2>1, <2>2
<1>5. OnItsWay(p, o) <=> OnItsWay(q, o) BY <1>3, <1>4 DEF OnItsWay
<1>6. ASSUME InOneRPC(q, o) PROVE InOneRPC(p, o)
  <2> SUFFICES ASSUME NEW c \in Ends, NEW d \in Ends, NEW i \in DOMAIN p[c],
                      NEW j \in DOMAIN p[d], At(p, c, i, o), At(p, d, j, o)
               PROVE  c = d /\ i = j
    BY DEF InOneRPC
  <2>1. c = d /\ from(c, i) = from(d, j) /\ i \in Nat /\ j \in Nat
    BY <1>3, <1>6 DEF InOneRPC
  <2>2. QED BY <2>1
<1>7. QED BY <1>5, <1>6 DEF p

\* Taking out the RPC that carries the object leaves no other.
LEMMA PopIt ==
  ASSUME NEW R, NEW q \in [Ends -> Seq(R)], NEW e \in Ends, q[e] # <<>>,
         NEW o, Head(q[e]) = Migrated(o), InOneRPC(q, o)
  PROVE  OnItsWay(q, o) /\ ~OnItsWay(Popped(q, e), o) /\ InOneRPC(Popped(q, e), o)
<1> DEFINE p == Popped(q, e)
<1>1. /\ \A d \in Ends \ {e} : p[d] = q[d]
      /\ \A i : i \in DOMAIN p[e] <=> i \in Nat /\ i >= 1 /\ i + 1 \in DOMAIN q[e]
      /\ \A i \in DOMAIN p[e] : p[e][i] = q[e][i + 1]
      /\ 1 \in DOMAIN q[e] /\ Head(q[e]) = q[e][1]
  BY PopFacts
<1> HIDE DEF p
<1>2. At(q, e, 1, o) BY <1>1 DEF At
<1>3. \A d \in Ends : \A i \in DOMAIN q[d] : At(q, d, i, o) => d = e /\ i = 1
  BY <1>1, <1>2 DEF InOneRPC
<1>4. ASSUME NEW d \in Ends, NEW i \in DOMAIN p[d], At(p, d, i, o) PROVE FALSE
  <2>1. CASE d # e
    <3>1. i \in DOMAIN q[d] /\ At(q, d, i, o) BY <1>1, <1>4, <2>1 DEF At
    <3>2. QED BY <1>3, <2>1, <3>1
  <2>2. CASE d = e
    <3>1. i \in Nat /\ i >= 1 /\ i + 1 \in DOMAIN q[e] /\ At(q, e, i + 1, o)
      BY <1>1, <1>4, <2>2 DEF At
    <3>2. i + 1 = 1 BY <1>3, <3>1
    <3>3. QED BY <3>1, <3>2
  <2>3. QED BY <2>1, <2>2
<1>5. ~OnItsWay(p, o) BY <1>4 DEF OnItsWay
<1>6. InOneRPC(p, o) BY <1>4 DEF InOneRPC
<1>7. OnItsWay(q, o) BY <1>1, <1>2 DEF OnItsWay
<1>8. QED BY <1>5, <1>6, <1>7 DEF p

\* Sending another RPC leaves the object where it is; sending it puts it into one.
LEMMA Push ==
  ASSUME NEW R, NEW q \in [Ends -> Seq(R)], NEW e \in Ends, NEW rpc \in R, NEW o,
         InOneRPC(q, o)
  PROVE  /\ rpc # Migrated(o) => /\ OnItsWay(Pushed(q, e, rpc), o) <=> OnItsWay(q, o)
                                 /\ InOneRPC(Pushed(q, e, rpc), o)
         /\ rpc = Migrated(o) /\ ~OnItsWay(q, o) => /\ OnItsWay(Pushed(q, e, rpc), o)
                                                    /\ InOneRPC(Pushed(q, e, rpc), o)
<1> DEFINE p == Pushed(q, e, rpc)
           n == Len(q[e]) + 1
<1>1. /\ \A d \in Ends \ {e} : p[d] = q[d]
      /\ DOMAIN p[e] = DOMAIN q[e] \cup {n}
      /\ n \notin DOMAIN q[e]
      /\ \A i \in DOMAIN q[e] : p[e][i] = q[e][i]
      /\ p[e][n] = rpc
  BY PushFacts
<1> HIDE DEF p, n
<1>2. \A d \in Ends : \A i \in DOMAIN q[d] :
         i \in DOMAIN p[d] /\ (At(p, d, i, o) <=> At(q, d, i, o))
  BY <1>1 DEF At
<1>3. ASSUME NEW d \in Ends, NEW i \in DOMAIN p[d], At(p, d, i, o)
      PROVE  \/ i \in DOMAIN q[d] /\ At(q, d, i, o)
             \/ d = e /\ i = n /\ rpc = Migrated(o)
  BY <1>1, <1>3 DEF At
<1>4. ASSUME rpc # Migrated(o) PROVE (OnItsWay(p, o) <=> OnItsWay(q, o)) /\ InOneRPC(p, o)
  <2>1. OnItsWay(p, o) <=> OnItsWay(q, o) BY <1>2, <1>3, <1>4 DEF OnItsWay
  <2>2. InOneRPC(p, o) BY <1>3, <1>4 DEF InOneRPC
  <2>3. QED BY <2>1, <2>2
<1>5. ASSUME rpc = Migrated(o), ~OnItsWay(q, o) PROVE OnItsWay(p, o) /\ InOneRPC(p, o)
  <2>1. At(p, e, n, o) /\ n \in DOMAIN p[e] BY <1>1, <1>5 DEF At
  <2>2. \A d \in Ends : \A i \in DOMAIN p[d] : At(p, d, i, o) => d = e /\ i = n
    BY <1>3, <1>5 DEF OnItsWay
  <2>3. OnItsWay(p, o) BY <2>1 DEF OnItsWay
  <2>4. InOneRPC(p, o) BY <2>2 DEF InOneRPC
  <2>5. QED BY <2>3, <2>4
<1>6. QED BY <1>4, <1>5 DEF p

\* An end whose queue is replaced by one without the object.
LEMMA Dropped ==
  ASSUME NEW q, NEW p, NEW o,
         \A e \in Ends : p[e] = q[e] \/ \A i \in DOMAIN p[e] : p[e][i] # Migrated(o)
  PROVE  /\ OnItsWay(p, o) => OnItsWay(q, o)
         /\ InOneRPC(q, o) => InOneRPC(p, o)
<1>1. \A e \in Ends : \A i \in DOMAIN p[e] :
         At(p, e, i, o) => i \in DOMAIN q[e] /\ At(q, e, i, o)
  BY DEF At
<1>2. OnItsWay(p, o) => OnItsWay(q, o) BY <1>1 DEF OnItsWay
<1>3. InOneRPC(q, o) => InOneRPC(p, o) BY <1>1 DEF InOneRPC
<1>4. QED BY <1>2, <1>3

-----------------------------------------------------------------------------
(* An object is in one place at most: the invariant of the refinement.     *)

Holders(o) == {s \in Servers : o \in world[s]}

InOnePlace(o) ==
    /\ \A s, r \in Holders(o) : s = r
    /\ InOneRPC(queue, o)
    /\ OnItsWay(queue, o) => Holders(o) = {}

Copies(o) == IF OnItsWay(queue, o) THEN 1 ELSE 0

\* The RPCs that carry an object that is in one at most.
LEMMA CopiesCount ==
  ASSUME NEW o \in Objects, InOneRPC(queue, o)
  PROVE  Cardinality(Positions({Migrated(o)})) = Copies(o)
<1> DEFINE P == Positions({Migrated(o)})
<1>1. \A x : x \in P <=> \E e \in Ends : \E i \in DOMAIN queue[e] :
                            At(queue, e, i, o) /\ x = <<e, i>>
  BY DEF Positions, At
<1> HIDE DEF P
<1>2. CASE OnItsWay(queue, o)
  <2>1. PICK e \in Ends : \E i \in DOMAIN queue[e] : At(queue, e, i, o)
    BY <1>2 DEF OnItsWay
  <2>2. PICK i \in DOMAIN queue[e] : At(queue, e, i, o) BY <2>1
  <2>3. P = {<<e, i>>} BY <1>1, <2>2 DEF InOneRPC
  <2>4. Cardinality({<<e, i>>}) = 1 BY FS_Singleton
  <2>5. QED BY <1>2, <2>3, <2>4 DEF Copies, P
<1>3. CASE ~OnItsWay(queue, o)
  <2>1. P = {} BY <1>1, <1>3 DEF OnItsWay
  <2>2. QED BY <1>3, <2>1, FS_EmptySet DEF Copies, P
<1>4. QED BY <1>2, <1>3

\* How a step of the system is seen by ObjectOwnership.
Same(o)       == Holders(o)' = Holders(o) /\ Copies(o)' = Copies(o)
Lost(o)       == Holders(o)' = {} /\ Copies(o)' = 0
Departs(o)    == Holders(o) # {} /\ Holders(o)' = {}
ArrivesAt(o, s) == Copies(o) = 1 /\ Copies(o)' = 0 /\ Holders(o)' = {s}

OwnershipStep ==
    \/ \A o \in Objects : Same(o) \/ Lost(o)
    \/ \E o \in Objects : Departs(o) /\ \A p \in Objects \ {o} : Same(p)
    \/ \E o \in Objects, s \in Servers : ArrivesAt(o, s) /\ \A p \in Objects \ {o} : Same(p)

\* An object that a step puts into no new place is kept or lost.
LEMMA KeptOrLost ==
  ASSUME NEW o \in Objects, InOnePlace(o), InOneRPC(queue', o),
         OnItsWay(queue', o) => OnItsWay(queue, o), Holders(o)' \subseteq Holders(o)
  PROVE  InOnePlace(o)' /\ (Same(o) \/ Lost(o))
<1>1. InOnePlace(o)' BY DEF InOnePlace
<1>2. CASE Holders(o)' = Holders(o) /\ (OnItsWay(queue', o) <=> OnItsWay(queue, o))
  <2>1. Copies(o)' = Copies(o) BY <1>2 DEF Copies
  <2>2. QED BY <1>1, <1>2, <2>1 DEF Same
<1>3. CASE Holders(o)' # Holders(o)
  <2>1. Holders(o)' = {} BY <1>3 DEF InOnePlace
  <2>2. ~OnItsWay(queue', o) BY <1>3 DEF InOnePlace
  <2>3. QED BY <1>1, <2>1, <2>2 DEF Lost, Copies
<1>4. CASE OnItsWay(queue, o) /\ ~OnItsWay(queue', o)
  <2>1. Holders(o)' = {} BY <1>4 DEF InOnePlace
  <2>2. QED BY <1>1, <1>4, <2>1 DEF Lost, Copies
<1>5. QED BY <1>1, <1>2, <1>3, <1>4

WorldType == world \in [Servers -> SUBSET Objects]

MigrationInv ==
    /\ MeshInv
    /\ OneBeaconPerPeer
    /\ WorldType
    /\ \A o \in Objects : InOnePlace(o)

RPCs == Handshake \cup Payloads

LEMMA QueueType ==
  ASSUME MigrationInv
  PROVE  queue \in [Ends -> Seq(RPCs)]
BY DEF MigrationInv, MeshInv, TypedMesh, MeshTypeOK, RPCs

-----------------------------------------------------------------------------
(* The steps of the mesh bring no object anywhere.                         *)

NoNewPlace(o) == /\ OnItsWay(queue', o) => OnItsWay(queue, o)
                 /\ InOneRPC(queue, o) => InOneRPC(queue', o)

LEMMA MeshStepsCarryNothing ==
  ASSUME MigrationInv, MeshStep \/ (\E s \in Servers : Crash(s)), NEW o \in Objects
  PROVE  NoNewPlace(o)
<1>1. queue \in [Ends -> Seq(RPCs)] BY QueueType
<1>2. ASSUME queue' = queue PROVE NoNewPlace(o) BY <1>2 DEF NoNewPlace
<1>3. ASSUME NEW gone, DestroyBeacons(gone) PROVE NoNewPlace(o)
  <2>1. \A e \in Ends : queue'[e] = queue[e] \/ queue'[e] = <<>>
    BY <1>3 DEF DestroyBeacons
  <2>2. \A i \in DOMAIN <<>> : FALSE OBVIOUS
  <2>3. \A e \in Ends : queue'[e] = queue[e] \/ \A i \in DOMAIN queue'[e] :
                                                   queue'[e][i] # Migrated(o)
    BY <2>1, <2>2
  <2>4. QED BY <2>3, Dropped DEF NoNewPlace
<1>4. ASSUME NEW s \in Servers,
             Register(s) \/ InitializeFromCommandLine(s) \/ Registered(s)
      PROVE  NoNewPlace(o)
  <2>1. Register(s) => queue' = queue BY DEF Register
  <2>2. \A list : InitializeDSTMMesh(s, list) => queue' = queue BY DEF InitializeDSTMMesh
  <2>3. InitializeFromCommandLine(s) \/ Registered(s) =>
           \E list : InitializeDSTMMesh(s, list)
    BY DEF InitializeFromCommandLine, Registered
  <2>4. QED BY <1>2, <1>4, <2>1, <2>2, <2>3
<1>5. ASSUME NEW k \in ConnIds, AcceptBeacon(k) PROVE NoNewPlace(o)
  <2> DEFINE sent == <<<<"onConnected">>, <<"peerConnected">>>>
  <2>1. queue' = [queue EXCEPT ![<<k, "client">>] = sent] BY <1>5 DEF AcceptBeacon
  <2>2. \A i \in DOMAIN sent : sent[i] \in Handshake BY DEF Handshake, PeerIds
  <2>3. \A i \in DOMAIN sent : sent[i] # Migrated(o) BY <2>2, RPCsDiffer
  <2> HIDE DEF sent
  <2>4. \A e \in Ends : queue'[e] = queue[e] \/ queue'[e] = sent BY <1>1, <2>1
  <2>5. \A e \in Ends : queue'[e] = queue[e] \/ \A i \in DOMAIN queue'[e] :
                                                   queue'[e][i] # Migrated(o)
    BY <2>3, <2>4
  <2>6. QED BY <2>5, Dropped DEF NoNewPlace
<1>6. ASSUME NEW k \in ConnIds, RefuseBeacon(k) PROVE NoNewPlace(o)
  BY <1>2, <1>6 DEF RefuseBeacon
<1>7. ASSUME NEW e \in Ends, OnConnected(e) PROVE NoNewPlace(o)
  <2> DEFINE q   == Popped(queue, e)
             rpc == <<"setRemotePeerId">>
  <2>1. /\ queue[e] # <<>> /\ Head(queue[e]) = <<"onConnected">>
        /\ queue' = Sent(q, Other(e), rpc)
    BY <1>7 DEF OnConnected, Arrives, Popped
  <2>2. rpc \in RPCs /\ rpc # Migrated(o) /\ Head(queue[e]) # Migrated(o)
    BY <2>1, RPCsDiffer DEF RPCs, Handshake, PeerIds
  <2>3. q \in [Ends -> Seq(RPCs)] BY <1>1, <2>1, PopFacts
  <2>4. /\ OnItsWay(q, o) <=> OnItsWay(queue, o)
        /\ InOneRPC(queue, o) => InOneRPC(q, o)
    BY <1>1, <2>1, <2>2, PopOther
  <2>5. Other(e) \in Ends BY EndFacts
  <2> HIDE DEF q, rpc
  <2>6. queue' = q \/ queue' = Pushed(q, Other(e), rpc) BY <2>1 DEF Sent, Pushed
  <2>7. InOneRPC(queue, o) BY DEF MigrationInv, InOnePlace
  <2>8. /\ OnItsWay(Pushed(q, Other(e), rpc), o) <=> OnItsWay(q, o)
        /\ InOneRPC(Pushed(q, Other(e), rpc), o)
    BY <2>2, <2>3, <2>4, <2>5, <2>7, Push
  <2>9. QED BY <2>4, <2>6, <2>8 DEF NoNewPlace
<1>8. ASSUME NEW e \in Ends, PeerConnected(e) PROVE NoNewPlace(o)
  <2>1. /\ queue[e] # <<>> /\ Head(queue[e]) \in PeerIds
        /\ queue' = Popped(queue, e)
    BY <1>8 DEF PeerConnected, Arrives, Popped
  <2>2. Head(queue[e]) # Migrated(o) BY <2>1, RPCsDiffer DEF Handshake
  <2>3. QED BY <1>1, <2>1, <2>2, PopOther DEF NoNewPlace
<1>9. ASSUME NEW e \in Ends, ConnectionLost(e) \/ ConnectionTimesOut(e)
      PROVE  NoNewPlace(o)
  BY <1>3, <1>9 DEF ConnectionLost, ConnectionTimesOut, ConnectionFails
<1>10. ASSUME NEW t \in timers, Retry(t[1], t[2]) PROVE NoNewPlace(o)
  BY <1>2, <1>10 DEF Retry
<1>11. ASSUME NEW s \in Servers, Crash(s) PROVE NoNewPlace(o) BY <1>3, <1>11 DEF Crash
<1>12. QED BY <1>4, <1>5, <1>6, <1>7, <1>8, <1>9, <1>10, <1>11 DEF MeshStep

-----------------------------------------------------------------------------
(* The steps of the migrations.                                            *)

\* FindBeaconForServer and what it forgets leave the mesh as it is.
LEMMA DataKeepsMesh ==
  ASSUME MigrationInv,
         UNCHANGED <<startVars, timers, conns, acked, bound, failVars>>,
         queue' \in [Ends -> Seq(RPCs)], \A e \in Ends : queue'[e] # <<>> => Valid(e),
         \/ UNCHANGED <<peerBeacons, hashToPeer>>
         \/ \E s \in Servers, id \in ServerIds : ForgetStale(s, id)
  PROVE  MeshInv' /\ OneBeaconPerPeer'
<1>1. /\ \A s, p \in Servers :
            \/ peerBeacons'[s][p] = peerBeacons[s][p]
            \/ peerBeacons[s][p] = Stale /\ peerBeacons'[s][p] = None
      /\ peerBeacons' \in [Servers -> [Servers -> Ends \cup {None, Stale}]]
      /\ hashToPeer' \in [Servers -> [ServerIds -> Servers \cup {None}]]
  <2>1. /\ peerBeacons \in [Servers -> [Servers -> Ends \cup {None, Stale}]]
        /\ hashToPeer \in [Servers -> [ServerIds -> Servers \cup {None}]]
    BY DEF MigrationInv, MeshInv, TypedMesh, MeshTypeOK
  <2>2. CASE UNCHANGED <<peerBeacons, hashToPeer>> BY <2>1, <2>2
  <2>3. CASE \E s \in Servers, id \in ServerIds : ForgetStale(s, id)
    <3>1. PICK s \in Servers, id \in ServerIds : ForgetStale(s, id) BY <2>3
    <3>2. CASE Entry(s, id) # Stale BY <2>1, <3>1, <3>2 DEF ForgetStale
    <3>3. CASE Entry(s, id) = Stale
      <4>1. PICK p \in Servers : hashToPeer[s][id] = p /\ peerBeacons[s][p] = Stale
        BY <2>1, <3>3, NoBeaconAssumption DEF Entry
      <4>2. /\ peerBeacons' = [peerBeacons EXCEPT ![s][p] = None]
            /\ hashToPeer' = [hashToPeer EXCEPT ![s][id] = None]
        BY <3>1, <3>3, <4>1 DEF ForgetStale
      <4>3. QED BY <2>1, <4>1, <4>2
    <3>4. QED BY <3>2, <3>3
  <2>4. QED BY <2>2, <2>3
<1>2. MeshTypeOK' BY <1>1 DEF MigrationInv, MeshInv, TypedMesh, MeshTypeOK, RPCs
<1>3. QueuesReachBeacons' BY DEF QueuesReachBeacons, Valid
<1>4. MeshOwned' BY DEF MigrationInv, MeshInv, MeshOwned, Valid, Local
<1>5. \A s, i : Dials(s, i)' = Dials(s, i) BY DEF Dials
<1>6. OneBeaconOrTimer' BY <1>5 DEF MigrationInv, MeshInv, OneBeaconOrTimer
<1>7. OneBeaconPerPeer'
  <2>1. \A e \in Ends : Valid(e)' = Valid(e) /\ Local(e)' = Local(e) /\ Remote(e)' = Remote(e)
    BY DEF Valid, Local, Remote
  <2>2. None \notin Ends /\ Stale \notin Ends BY NoBeaconAssumption
  <2>3. bound \subseteq Ends BY DEF MigrationInv, MeshInv, TypedMesh, MeshTypeOK
  <2>4. ASSUME NEW e \in Ends, e \in bound
        PROVE  Valid(e)' /\ peerBeacons'[Local(e)'][Remote(e)'] = e
    <3>1. Valid(e) /\ peerBeacons[Local(e)][Remote(e)] = e
      BY <2>4 DEF MigrationInv, OneBeaconPerPeer
    <3>2. Local(e) \in Servers /\ Remote(e) \in Servers
      BY <3>1, BoundPeers DEF MigrationInv, MeshInv, TypedMesh
    <3>3. peerBeacons'[Local(e)][Remote(e)] = e BY <1>1, <2>2, <3>1, <3>2
    <3>4. QED BY <2>1, <3>1, <3>3
  <2>5. ASSUME NEW s \in Servers, NEW p \in Servers, NEW e \in Ends, peerBeacons'[s][p] = e
        PROVE  e \in bound' /\ e \in acked' /\ Local(e)' = s /\ Remote(e)' = p
    <3>1. peerBeacons[s][p] = e BY <1>1, <2>2, <2>5
    <3>2. e \in bound /\ e \in acked /\ Local(e) = s /\ Remote(e) = p
      BY <3>1, EntryIsBound DEF MigrationInv
    <3>3. QED BY <2>1, <3>2
  <2>6. bound' \subseteq Ends BY <2>3
  <2>7. bound' = bound OBVIOUS
  <2>8. QED BY <2>4, <2>5, <2>6, <2>7 DEF OneBeaconPerPeer
<1>8. QED BY <1>2, <1>3, <1>4, <1>6, <1>7 DEF MeshInv, TypedMesh

\* SendTo puts the RPC at the end of a beacon's queue, or nowhere.
LEMMA SendToQueue ==
  ASSUME NEW s \in Servers, NEW id \in ServerIds, NEW q, NEW rpc, SendTo(s, id, q, rpc)
  PROVE  queue' = q \/ \E e \in Ends : Valid(e) /\ queue' = Pushed(q, e, rpc)
<1> DEFINE e == Other(Entry(s, id))
<1>1. CASE ~HasBeacon(s, id) BY <1>1 DEF SendTo
<1>2. CASE HasBeacon(s, id)
  <2>1. e \in Ends BY <1>2, EndFacts DEF HasBeacon
  <2>2. queue' = Sent(q, e, rpc) BY <1>2 DEF SendTo
  <2> HIDE DEF e
  <2>3. QED BY <2>1, <2>2 DEF Sent, Pushed
<1>3. QED BY <1>1, <1>2

LEMMA MigratedIsRPC ==
  /\ \A o \in Objects : Migrated(o) \in RPCs
  /\ \A o \in Objects, id \in ServerIds : Request(o, id) \in RPCs
BY PayloadsAssumption DEF DataRPCs, Requests, RPCs

LEMMA PushReaches ==
  ASSUME NEW q \in [Ends -> Seq(RPCs)], \A d \in Ends : q[d] # <<>> => Valid(d),
         NEW e \in Ends, Valid(e), NEW rpc \in RPCs
  PROVE  /\ Pushed(q, e, rpc) \in [Ends -> Seq(RPCs)]
         /\ \A d \in Ends : Pushed(q, e, rpc)[d] # <<>> => Valid(d)
<1>1. /\ Pushed(q, e, rpc) \in [Ends -> Seq(RPCs)]
      /\ \A d \in Ends \ {e} : Pushed(q, e, rpc)[d] = q[d]
  BY PushFacts
<1>2. ASSUME NEW d \in Ends, Pushed(q, e, rpc)[d] # <<>> PROVE Valid(d)
  <2>1. CASE d = e BY <2>1
  <2>2. CASE d # e BY <1>1, <1>2, <2>2
  <2>3. QED BY <2>1, <2>2
<1>3. QED BY <1>1, <1>2

\* HandleOutgoingMigration takes the actor out of the world and sends it; q is what the
\* queues were after the RPC that made it do so.
LEMMA HandsOver ==
  ASSUME MigrationInv, NEW s \in Servers, NEW o \in Objects, o \in world[s],
         NEW id \in ServerIds, NEW q \in [Ends -> Seq(RPCs)],
         \A p \in Objects : /\ OnItsWay(q, p) <=> OnItsWay(queue, p)
                            /\ InOneRPC(q, p),
         \A e \in Ends : q[e] # <<>> => Valid(e),
         HandleOutgoingMigration(s, o, id, q),
         UNCHANGED <<startVars, timers, conns, acked, bound, failVars>>
  PROVE  MigrationInv' /\ OwnershipStep
<1>1. /\ world' = [world EXCEPT ![s] = @ \ {o}]
      /\ SendTo(s, id, q, Migrated(o))
  BY DEF HandleOutgoingMigration, Departed
<1>2. queue' = q \/ \E e \in Ends : Valid(e) /\ queue' = Pushed(q, e, Migrated(o))
  BY <1>1, SendToQueue
<1>3. Migrated(o) \in RPCs BY MigratedIsRPC
<1>4. queue' \in [Ends -> Seq(RPCs)] /\ \A e \in Ends : queue'[e] # <<>> => Valid(e)
  <2>1. CASE queue' = q BY <2>1
  <2>2. ASSUME NEW e \in Ends, Valid(e), queue' = Pushed(q, e, Migrated(o))
        PROVE  queue' \in [Ends -> Seq(RPCs)] /\ \A d \in Ends : queue'[d] # <<>> => Valid(d)
    BY <1>3, <2>2, PushReaches
  <2>3. QED BY <1>2, <2>1, <2>2
<1>5. MeshInv' /\ OneBeaconPerPeer'
  <2>1. ForgetStale(s, id) BY <1>1 DEF SendTo
  <2>2. QED BY <1>4, <2>1, DataKeepsMesh
<1>6. world \in [Servers -> SUBSET Objects] BY DEF MigrationInv, WorldType
<1>7. WorldType' BY <1>1, <1>6 DEF WorldType
<1>8. InOnePlace(o) BY DEF MigrationInv
<1>9. Holders(o) # {} /\ ~OnItsWay(queue, o) /\ \A r \in Holders(o) : r = s
  BY <1>8 DEF InOnePlace, Holders
<1>10. Holders(o)' = {}
  <2>1. \A r \in Servers : o \in world[r] => r = s BY <1>9 DEF Holders
  <2>2. \A r \in Servers : o \notin world'[r] BY <1>1, <1>6, <2>1
  <2>3. QED BY <2>2 DEF Holders
<1>11. \A p \in Objects \ {o} : Holders(p)' = Holders(p) BY <1>1, <1>6 DEF Holders
<1>12. ASSUME NEW p \in Objects \ {o}
       PROVE  (OnItsWay(queue', p) <=> OnItsWay(queue, p)) /\ InOneRPC(queue', p)
  <2>1. Migrated(o) # Migrated(p) BY RPCsDiffer
  <2>2. ASSUME NEW e \in Ends
        PROVE  /\ OnItsWay(Pushed(q, e, Migrated(o)), p) <=> OnItsWay(q, p)
               /\ InOneRPC(Pushed(q, e, Migrated(o)), p)
    BY <1>3, <2>1, Push
  <2>3. QED BY <1>2, <2>2
<1>13. InOneRPC(queue', o)
  <2>1. \A e \in Ends : InOneRPC(Pushed(q, e, Migrated(o)), o) BY <1>3, <1>9, Push
  <2>2. QED BY <1>2, <2>1
<1>14. InOnePlace(o)' BY <1>10, <1>13 DEF InOnePlace
<1>15. ASSUME NEW p \in Objects \ {o} PROVE InOnePlace(p)' /\ Same(p)
  <2>1. InOnePlace(p) BY DEF MigrationInv
  <2>2. InOnePlace(p)' BY <1>11, <1>12, <2>1 DEF InOnePlace
  <2>3. Copies(p)' = Copies(p) BY <1>12 DEF Copies
  <2>4. QED BY <1>11, <2>2, <2>3 DEF Same
<1>16. MigrationInv' BY <1>5, <1>7, <1>14, <1>15 DEF MigrationInv
<1>17. Departs(o) BY <1>9, <1>10 DEF Departs
<1>18. QED BY <1>15, <1>16, <1>17 DEF OwnershipStep

LEMMA TransferStep ==
  ASSUME MigrationInv, NEW s \in Servers, NEW o \in Objects, NEW id \in ServerIds,
         TransferActorToServer(s, o, id)
  PROVE  MigrationInv' /\ OwnershipStep
<1>1. /\ o \in world[s] /\ HandleOutgoingMigration(s, o, id, queue)
      /\ UNCHANGED <<startVars, timers, conns, acked, bound, failVars>>
  BY DEF TransferActorToServer
<1>2. queue \in [Ends -> Seq(RPCs)] BY QueueType
<1>3. \A e \in Ends : queue[e] # <<>> => Valid(e)
  BY DEF MigrationInv, MeshInv, TypedMesh, QueuesReachBeacons
<1>4. \A p \in Objects : InOneRPC(queue, p) BY DEF MigrationInv, InOnePlace
<1>5. QED BY <1>1, <1>2, <1>3, <1>4, HandsOver

LEMMA RequestStep ==
  ASSUME MigrationInv, NEW s \in Servers, NEW o \in Objects, NEW id \in ServerIds,
         HandleObjectRequest(s, o, id)
  PROVE  MigrationInv' /\ OwnershipStep
<1> DEFINE rpc == Request(o, HashServerIdToRange(s))
<1>1. /\ SendTo(s, id, queue, rpc) /\ world' = world
      /\ UNCHANGED <<startVars, timers, conns, acked, bound, failVars>>
  BY DEF HandleObjectRequest
<1>2. rpc \in Requests BY DEF Requests, ServerIds
<1>3. rpc \in RPCs BY <1>2, PayloadsAssumption DEF DataRPCs, RPCs
<1>4. \A p : rpc # Migrated(p) BY <1>2, RPCsDiffer
<1> HIDE DEF rpc
<1>5. queue \in [Ends -> Seq(RPCs)] BY QueueType
<1>6. queue' = queue \/ \E e \in Ends : Valid(e) /\ queue' = Pushed(queue, e, rpc)
  BY <1>1, SendToQueue
<1>7. queue' \in [Ends -> Seq(RPCs)] /\ \A e \in Ends : queue'[e] # <<>> => Valid(e)
  <2>1. \A e \in Ends : queue[e] # <<>> => Valid(e)
    BY DEF MigrationInv, MeshInv, TypedMesh, QueuesReachBeacons
  <2>2. ASSUME NEW e \in Ends, Valid(e), queue' = Pushed(queue, e, rpc)
        PROVE  queue' \in [Ends -> Seq(RPCs)] /\ \A d \in Ends : queue'[d] # <<>> => Valid(d)
    BY <1>3, <1>5, <2>1, <2>2, PushReaches
  <2>3. QED BY <1>5, <1>6, <2>1, <2>2
<1>8. MeshInv' /\ OneBeaconPerPeer'
  <2>1. ForgetStale(s, id) BY <1>1 DEF SendTo
  <2>2. QED BY <1>1, <1>7, <2>1, DataKeepsMesh
<1>9. ASSUME NEW p \in Objects PROVE InOnePlace(p)' /\ Same(p)
  <2>1. InOnePlace(p) /\ InOneRPC(queue, p) BY DEF MigrationInv, InOnePlace
  <2>2. (OnItsWay(queue', p) <=> OnItsWay(queue, p)) /\ InOneRPC(queue', p)
    BY <1>3, <1>4, <1>5, <1>6, <2>1, Push
  <2>3. Holders(p)' = Holders(p) BY <1>1 DEF Holders
  <2>4. InOnePlace(p)' BY <2>1, <2>2, <2>3 DEF InOnePlace
  <2>5. Copies(p)' = Copies(p) BY <2>2 DEF Copies
  <2>6. QED BY <2>3, <2>4, <2>5 DEF Same
<1>10. WorldType' BY <1>1 DEF MigrationInv, WorldType
<1>11. QED BY <1>8, <1>9, <1>10 DEF MigrationInv, OwnershipStep

LEMMA PopReaches ==
  ASSUME MigrationInv, NEW e \in Ends, queue[e] # <<>>
  PROVE  /\ Popped(queue, e) \in [Ends -> Seq(RPCs)]
         /\ \A d \in Ends : Popped(queue, e)[d] # <<>> => Valid(d)
         /\ Valid(e)
<1>1. queue \in [Ends -> Seq(RPCs)] BY QueueType
<1>2. \A d \in Ends : queue[d] # <<>> => Valid(d)
  BY DEF MigrationInv, MeshInv, TypedMesh, QueuesReachBeacons
<1>3. /\ Popped(queue, e) \in [Ends -> Seq(RPCs)]
      /\ \A d \in Ends \ {e} : Popped(queue, e)[d] = queue[d]
  BY <1>1, PopFacts
<1>4. Valid(e) BY <1>2
<1>5. ASSUME NEW d \in Ends, Popped(queue, e)[d] # <<>> PROVE Valid(d)
  <2>1. CASE d = e BY <1>4, <2>1
  <2>2. CASE d # e BY <1>2, <1>3, <1>5, <2>2
  <2>3. QED BY <2>1, <2>2
<1>6. QED BY <1>3, <1>4, <1>5

LEMMA ReceiveStep ==
  ASSUME MigrationInv, NEW e \in Ends, NEW o \in Objects, ReceiveMigratedObject(e, o)
  PROVE  MigrationInv' /\ OwnershipStep
<1>1. /\ queue[e] # <<>> /\ Head(queue[e]) = Migrated(o)
      /\ queue' = Popped(queue, e)
      /\ world' = IF Heard(e) THEN [world EXCEPT ![Local(e)] = @ \cup {o}] ELSE world
      /\ UNCHANGED <<startVars, timers, conns, acked, registryVars, failVars>>
  BY DEF ReceiveMigratedObject, Arrives, Popped
<1>2. queue \in [Ends -> Seq(RPCs)] BY QueueType
<1>3. /\ queue' \in [Ends -> Seq(RPCs)] /\ \A d \in Ends : queue'[d] # <<>> => Valid(d)
      /\ Valid(e)
  BY <1>1, PopReaches
<1>4. MeshInv' /\ OneBeaconPerPeer' BY <1>1, <1>3, DataKeepsMesh
<1>5. PICK s \in Servers : Local(e) = s
  BY <1>3, BoundPeers DEF MigrationInv, MeshInv, TypedMesh
<1>6. world \in [Servers -> SUBSET Objects] BY DEF MigrationInv, WorldType
<1>7. WorldType' BY <1>1, <1>5, <1>6 DEF WorldType
<1>8. InOnePlace(o) BY DEF MigrationInv
<1>9. OnItsWay(queue, o) /\ ~OnItsWay(queue', o) /\ InOneRPC(queue', o)
  BY <1>1, <1>2, <1>8, PopIt DEF InOnePlace
<1>10. Holders(o) = {} BY <1>8, <1>9 DEF InOnePlace
<1>11. Holders(o)' = {} \/ Holders(o)' = {s}
  <2>1. \A r \in Servers : o \notin world[r] BY <1>10 DEF Holders
  <2>2. CASE world' = world BY <2>1, <2>2 DEF Holders
  <2>3. CASE world' = [world EXCEPT ![s] = @ \cup {o}] BY <1>6, <2>1, <2>3 DEF Holders
  <2>4. QED BY <1>1, <1>5, <2>2, <2>3
<1>12. InOnePlace(o)' BY <1>9, <1>11 DEF InOnePlace
<1>13. Copies(o) = 1 /\ Copies(o)' = 0 BY <1>9 DEF Copies
<1>14. ASSUME NEW p \in Objects \ {o} PROVE InOnePlace(p)' /\ Same(p)
  <2>1. InOnePlace(p) BY DEF MigrationInv
  <2>2. Migrated(o) # Migrated(p) BY RPCsDiffer
  <2>3. (OnItsWay(queue', p) <=> OnItsWay(queue, p)) /\ InOneRPC(queue', p)
    BY <1>1, <1>2, <2>1, <2>2, PopOther DEF InOnePlace
  <2>4. Holders(p)' = Holders(p) BY <1>1, <1>5, <1>6 DEF Holders
  <2>5. InOnePlace(p)' BY <2>1, <2>3, <2>4 DEF InOnePlace
  <2>6. Copies(p)' = Copies(p) BY <2>3 DEF Copies
  <2>7. QED BY <2>4, <2>5, <2>6 DEF Same
<1>15. MigrationInv' BY <1>4, <1>7, <1>12, <1>14 DEF MigrationInv
<1>16. CASE Holders(o)' = {s}
  <2>1. ArrivesAt(o, s) BY <1>13, <1>16 DEF ArrivesAt
  <2>2. OwnershipStep BY <1>14, <2>1 DEF OwnershipStep
  <2>3. QED BY <1>15, <2>2
<1>17. CASE Holders(o)' = {}
  <2>1. Lost(o) BY <1>13, <1>17 DEF Lost
  <2>2. \A p \in Objects : Same(p) \/ Lost(p) BY <1>14, <2>1
  <2>3. OwnershipStep BY <2>2 DEF OwnershipStep
  <2>4. QED BY <1>15, <2>3
<1>18. QED BY <1>11, <1>16, <1>17

LEMMA RequestArrivesStep ==
  ASSUME MigrationInv, NEW e \in Ends, NEW o \in Objects, NEW id \in ServerIds,
         RequestMigrateObject(e, o, id)
  PROVE  MigrationInv' /\ OwnershipStep
<1> DEFINE q == Popped(queue, e)
<1>1. /\ queue[e] # <<>> /\ Head(queue[e]) = Request(o, id)
      /\ \/ FoundActor(Local(e), o) /\ HandleOutgoingMigration(Local(e), o, id, q)
         \/ queue' = q /\ UNCHANGED <<peerBeacons, hashToPeer, world>>
      /\ UNCHANGED <<startVars, timers, conns, acked, bound, failVars>>
  BY DEF RequestMigrateObject, Arrives, Popped
<1>2. queue \in [Ends -> Seq(RPCs)] BY QueueType
<1>3. /\ q \in [Ends -> Seq(RPCs)] /\ \A d \in Ends : q[d] # <<>> => Valid(d)
      /\ Valid(e)
  BY <1>1, PopReaches
<1>4. ASSUME NEW p \in Objects
      PROVE  (OnItsWay(q, p) <=> OnItsWay(queue, p)) /\ InOneRPC(q, p)
  <2>1. Request(o, id) \in Requests BY DEF Requests
  <2>2. Head(queue[e]) # Migrated(p) BY <1>1, <2>1, RPCsDiffer
  <2>3. InOneRPC(queue, p) BY DEF MigrationInv, InOnePlace
  <2>4. QED BY <1>1, <1>2, <2>2, <2>3, PopOther
<1> HIDE DEF q
<1>5. CASE FoundActor(Local(e), o) /\ HandleOutgoingMigration(Local(e), o, id, q)
  <2>1. PICK s \in Servers : Local(e) = s
    BY <1>3, BoundPeers DEF MigrationInv, MeshInv, TypedMesh
  <2>2. o \in world[s] /\ HandleOutgoingMigration(s, o, id, q)
    BY <1>5, <2>1 DEF FoundActor
  <2>3. QED BY <1>1, <1>3, <1>4, <2>2, HandsOver
<1>6. CASE queue' = q /\ UNCHANGED <<peerBeacons, hashToPeer, world>>
  <2>1. MeshInv' /\ OneBeaconPerPeer' BY <1>1, <1>3, <1>6, DataKeepsMesh
  <2>2. ASSUME NEW p \in Objects PROVE InOnePlace(p)' /\ Same(p)
    <3>1. InOnePlace(p) BY DEF MigrationInv
    <3>2. (OnItsWay(queue', p) <=> OnItsWay(queue, p)) /\ InOneRPC(queue', p)
      BY <1>4, <1>6
    <3>3. Holders(p)' = Holders(p) BY <1>6 DEF Holders
    <3>4. InOnePlace(p)' BY <3>1, <3>2, <3>3 DEF InOnePlace
    <3>5. Copies(p)' = Copies(p) BY <3>2 DEF Copies
    <3>6. QED BY <3>3, <3>4, <3>5 DEF Same
  <2>3. WorldType' BY <1>6 DEF MigrationInv, WorldType
  <2>4. QED BY <2>1, <2>2, <2>3 DEF MigrationInv, OwnershipStep
<1>7. QED BY <1>1, <1>5, <1>6

LEMMA MeshStepKeeps ==
  ASSUME MigrationInv, MeshStep \/ (\E s \in Servers : Crash(s)),
         \/ world' = world
         \/ \E s \in Servers : world' = [world EXCEPT ![s] = {}]
  PROVE  MigrationInv' /\ OwnershipStep
<1>1. MeshNext BY DEF MeshNext
<1>2. MeshInv' BY <1>1, MeshAssumption, MeshInvNext DEF MigrationInv
<1>3. OneBeaconPerPeer' BY <1>1, MeshAssumption, OneBeaconNext DEF MigrationInv
<1>4. world \in [Servers -> SUBSET Objects] BY DEF MigrationInv, WorldType
<1>5. WorldType' BY <1>4 DEF WorldType
<1>6. \A s \in Servers : world'[s] \subseteq world[s] BY <1>4
<1>7. ASSUME NEW o \in Objects PROVE InOnePlace(o)' /\ (Same(o) \/ Lost(o))
  <2>1. InOnePlace(o) /\ InOneRPC(queue, o) BY DEF MigrationInv, InOnePlace
  <2>2. NoNewPlace(o) BY MeshStepsCarryNothing
  <2>3. Holders(o)' \subseteq Holders(o) BY <1>6 DEF Holders
  <2>4. QED BY <2>1, <2>2, <2>3, KeptOrLost DEF NoNewPlace
<1>8. QED BY <1>2, <1>3, <1>5, <1>7 DEF MigrationInv, OwnershipStep

LEMMA MigrationNext ==
  ASSUME MigrationInv, [Next]_vars
  PROVE  MigrationInv' /\ OwnershipStep
<1>1. CASE MeshStep /\ UNCHANGED world BY <1>1, MeshStepKeeps
<1>2. ASSUME NEW s \in Servers, CrashWorld(s) PROVE MigrationInv' /\ OwnershipStep
  <2>1. Crash(s) /\ world' = [world EXCEPT ![s] = {}] BY <1>2 DEF CrashWorld
  <2>2. QED BY <2>1, MeshStepKeeps
<1>3. ASSUME NEW s \in Servers, NEW o \in Objects, NEW id \in ServerIds,
             TransferActorToServer(s, o, id) \/ HandleObjectRequest(s, o, id)
      PROVE  MigrationInv' /\ OwnershipStep
  BY <1>3, TransferStep, RequestStep
<1>4. ASSUME NEW e \in Ends, NEW o \in Objects, ReceiveMigratedObject(e, o)
      PROVE  MigrationInv' /\ OwnershipStep
  BY <1>4, ReceiveStep
<1>5. ASSUME NEW e \in Ends, NEW o \in Objects, NEW id \in ServerIds,
             RequestMigrateObject(e, o, id)
      PROVE  MigrationInv' /\ OwnershipStep
  BY <1>5, RequestArrivesStep
<1>6. CASE UNCHANGED vars
  <2>1. UNCHANGED <<startVars, timers, conns, acked, bound, failVars>>
        /\ UNCHANGED <<peerBeacons, hashToPeer>> /\ queue' = queue /\ world' = world
    BY <1>6
  <2>2. queue \in [Ends -> Seq(RPCs)] BY QueueType
  <2>3. \A e \in Ends : queue[e] # <<>> => Valid(e)
    BY DEF MigrationInv, MeshInv, TypedMesh, QueuesReachBeacons
  <2>4. MeshInv' /\ OneBeaconPerPeer' BY <2>1, <2>2, <2>3, DataKeepsMesh
  <2>5. ASSUME NEW o \in Objects PROVE InOnePlace(o)' /\ Same(o)
    <3>1. Holders(o)' = Holders(o) /\ Copies(o)' = Copies(o) BY <2>1 DEF Holders, Copies
    <3>2. InOnePlace(o) BY DEF MigrationInv
    <3>3. InOnePlace(o)' BY <2>1, <3>1, <3>2 DEF InOnePlace
    <3>4. QED BY <3>1, <3>3 DEF Same
  <2>6. WorldType' BY <2>1 DEF MigrationInv, WorldType
  <2>7. QED BY <2>4, <2>5, <2>6 DEF MigrationInv, OwnershipStep
<1>7. QED BY <1>1, <1>2, <1>3, <1>4, <1>5, <1>6 DEF Next

LEMMA MigrationInit == InitObjects => MigrationInv
<1> SUFFICES ASSUME InitObjects PROVE MigrationInv OBVIOUS
<1>1. Init /\ world = [s \in Servers |-> {o \in Objects : Home[o] = s}] BY DEF InitObjects
<1>2. MeshInv BY <1>1, MeshAssumption, MeshInvInit
<1>3. OneBeaconPerPeer BY <1>1, NoBeaconAssumption DEF Init, OneBeaconPerPeer
<1>4. WorldType BY <1>1 DEF WorldType
<1>5. ASSUME NEW o \in Objects PROVE InOnePlace(o)
  <2>1. queue = [e \in Ends |-> <<>>] BY <1>1 DEF Init
  <2>2. DOMAIN <<>> = {} OBVIOUS
  <2>3. \A e \in Ends : DOMAIN queue[e] = {} BY <2>1, <2>2
  <2>4. ~OnItsWay(queue, o) /\ InOneRPC(queue, o) BY <2>3 DEF OnItsWay, InOneRPC
  <2>5. \A s, r \in Holders(o) : s = r BY <1>1 DEF Holders
  <2>6. QED BY <2>4, <2>5 DEF InOnePlace
<1>6. QED BY <1>2, <1>3, <1>4, <1>5 DEF MigrationInv

THEOREM MigrationInvariant == Spec => []MigrationInv
<1>1. MigrationInv /\ [Next]_vars => MigrationInv' BY MigrationNext
<1>2. QED BY <1>1, MigrationInit, PTL DEF Spec

\* The migrations keep the types of the mesh.
THEOREM MigrationsKeepMeshTypes == Spec => []MeshTypeOK
<1>1. MigrationInv => MeshTypeOK BY DEF MigrationInv, MeshInv, TypedMesh
<1>2. QED BY <1>1, MigrationInvariant, PTL

-----------------------------------------------------------------------------
(* The migrations implement ObjectOwnership.                               *)

LEMMA AllCopiesCount ==
  MigrationInv => \A o \in Objects : Cardinality(Positions({Migrated(o)})) = Copies(o)
BY CopiesCount DEF MigrationInv, InOnePlace

LEMMA AllCopiesCountNext ==
  MigrationInv' => (\A o \in Objects : Cardinality(Positions({Migrated(o)})) = Copies(o))'
BY AllCopiesCount, PTL

LEMMA OwnershipInit == InitObjects => Ownership!Init
<1> SUFFICES ASSUME InitObjects PROVE Ownership!Init OBVIOUS
<1>1. MigrationInv BY MigrationInit
<1>2. Init /\ world = [s \in Servers |-> {o \in Objects : Home[o] = s}] BY DEF InitObjects
<1>3. queue = [e \in Ends |-> <<>>] BY <1>2 DEF Init
<1>4. DOMAIN <<>> = {} OBVIOUS
<1>5. \A o : ~OnItsWay(queue, o) BY <1>3, <1>4 DEF OnItsWay
<1>6. \A o \in Objects : Cardinality(Positions({Migrated(o)})) = 0
  BY <1>1, <1>5, AllCopiesCount DEF Copies
<1>7. \A o \in Objects : {s \in Servers : o \in world[s]} = {Home[o]}
  BY <1>2, ObjectsAssumption
<1>8. QED BY <1>6, <1>7 DEF Ownership!Init

LEMMA OwnershipSteps ==
  ASSUME MigrationInv, [Next]_vars
  PROVE  [Ownership!Next]_(Ownership!vars)
<1> DEFINE holders == [o \in Objects |-> {s \in Servers : o \in world[s]}]
           copies  == [o \in Objects |-> Cardinality(Positions({Migrated(o)}))]
<1>1. MigrationInv' /\ OwnershipStep BY MigrationNext
<1>2. /\ holders = [o \in Objects |-> Holders(o)]
      /\ holders' = [o \in Objects |-> Holders(o)']
  BY DEF Holders
<1>3. /\ copies = [o \in Objects |-> Copies(o)]
      /\ copies' = [o \in Objects |-> Copies(o)']
  BY <1>1, AllCopiesCount, AllCopiesCountNext
<1>4. \A o \in Objects : Copies(o)' \in {0, 1} BY DEF Copies
<1> HIDE DEF holders, copies
<1>5. CASE \A o \in Objects : Same(o) \/ Lost(o)
  <2> DEFINE lost == {o \in Objects : Lost(o)}
  <2>1. holders' = [o \in Objects |-> IF o \in lost THEN {} ELSE holders[o]]
    BY <1>2, <1>5 DEF Same, Lost
  <2>2. copies' = [o \in Objects |-> IF o \in lost THEN 0 ELSE copies[o]]
    BY <1>3, <1>5 DEF Same, Lost
  <2>3. \E gone \in SUBSET Objects :
           /\ holders' = [o \in Objects |-> IF o \in gone THEN {} ELSE holders[o]]
           /\ copies'  = [o \in Objects |-> IF o \in gone THEN 0 ELSE copies[o]]
    BY <2>1, <2>2
  <2>4. QED BY <2>3 DEF Ownership!Next, Ownership!Lose, holders, copies
<1>6. ASSUME NEW o \in Objects, Departs(o), \A p \in Objects \ {o} : Same(p)
      PROVE  Ownership!Next
  <2>1. holders[o] # {} /\ holders' = [holders EXCEPT ![o] = {}]
    BY <1>2, <1>6 DEF Departs, Same
  <2>2. copies' = [copies EXCEPT ![o] = Copies(o)'] BY <1>3, <1>6 DEF Same
  <2>3. \E n \in {0, 1} : copies' = [copies EXCEPT ![o] = n] BY <1>4, <2>2
  <2>4. Ownership!Depart(o) BY <2>1, <2>3 DEF Ownership!Depart, holders, copies
  <2>5. QED BY <2>4 DEF Ownership!Next
<1>7. ASSUME NEW o \in Objects, NEW s \in Servers, ArrivesAt(o, s),
             \A p \in Objects \ {o} : Same(p)
      PROVE  Ownership!Next
  <2>1. copies[o] = 1 /\ copies' = [copies EXCEPT ![o] = 0]
    BY <1>3, <1>7 DEF ArrivesAt, Same
  <2>2. holders' = [holders EXCEPT ![o] = {s}] BY <1>2, <1>7 DEF ArrivesAt, Same
  <2>3. Ownership!Arrive(o, s) BY <2>1, <2>2 DEF Ownership!Arrive, holders, copies
  <2>4. QED BY <2>3 DEF Ownership!Next
<1>8. QED BY <1>1, <1>5, <1>6, <1>7 DEF OwnershipStep

\* Whatever crashes, fails, is refused or is asked for twice, an object is in the world of
\* one server at most or in one RPC, and a lost one never comes back.
THEOREM MigrationsKeepOneOwner == Spec => ObjectsHaveOneOwner
<1>1. InitObjects => Ownership!Init BY OwnershipInit
<1>2. MigrationInv /\ [Next]_vars => [Ownership!Next]_(Ownership!vars) BY OwnershipSteps
<1>3. QED BY <1>1, <1>2, MigrationInvariant, PTL DEF Spec, ObjectsHaveOneOwner, Ownership!Spec

-----------------------------------------------------------------------------
(* The two maps of the registry.                                           *)

UniqueHashes == \A p, q \in Servers : HashServerIdToRange(p) = HashServerIdToRange(q) => p = q

\* A hash leads to a peer that has it.
HashesFound == \A s \in Servers, id \in ServerIds :
                  hashToPeer[s][id] # None => HashServerIdToRange(hashToPeer[s][id]) = id

MapsInv == RegistryMapsAgree /\ HashesFound

LEMMA HashIsServerId == \A p \in Servers : HashServerIdToRange(p) \in ServerIds
BY DEF ServerIds

\* A peer is entered under its hash, in both maps.
LEMMA PeerEntered ==
  ASSUME UniqueHashes, MeshTypeOK, MapsInv, NEW s \in Servers, NEW p \in Servers,
         NEW e \in Ends, HandlePeerConnected(s, p, e)
  PROVE  MapsInv'
<1> PICK h \in ServerIds : h = HashServerIdToRange(p) BY HashIsServerId
<1>1. /\ peerBeacons \in [Servers -> [Servers -> Ends \cup {None, Stale}]]
      /\ hashToPeer \in [Servers -> [ServerIds -> Servers \cup {None}]]
  BY DEF MeshTypeOK
<1>2. /\ peerBeacons' = [peerBeacons EXCEPT ![s][p] = e]
      /\ hashToPeer' = [hashToPeer EXCEPT ![s][h] = p]
  BY DEF HandlePeerConnected
<1>3. ASSUME NEW r \in Servers, NEW q \in Servers
      PROVE  peerBeacons'[r][q] = IF r = s /\ q = p THEN e ELSE peerBeacons[r][q]
  BY <1>1, <1>2
<1>4. ASSUME NEW r \in Servers, NEW id \in ServerIds
      PROVE  hashToPeer'[r][id] = IF r = s /\ id = h THEN p ELSE hashToPeer[r][id]
  BY <1>1, <1>2
<1>5. None \notin Ends /\ None \notin Servers BY NoBeaconAssumption
<1>6. ASSUME NEW r \in Servers, NEW q \in Servers
      PROVE  peerBeacons'[r][q] # None <=> hashToPeer'[r][HashServerIdToRange(q)] = q
  <2>1. HashServerIdToRange(q) \in ServerIds BY HashIsServerId
  <2>2. peerBeacons[r][q] # None <=> hashToPeer[r][HashServerIdToRange(q)] = q
    BY DEF MapsInv, RegistryMapsAgree
  <2>3. HashServerIdToRange(q) = h <=> q = p BY DEF UniqueHashes
  <2>4. QED BY <1>3, <1>4, <1>5, <2>1, <2>2, <2>3
<1>7. ASSUME NEW r \in Servers, NEW id \in ServerIds, hashToPeer'[r][id] # None
      PROVE  HashServerIdToRange(hashToPeer'[r][id]) = id
  BY <1>4, <1>7 DEF MapsInv, HashesFound
<1>8. RegistryMapsAgree' BY <1>6 DEF RegistryMapsAgree, HashServerIdToRange
<1>9. HashesFound' BY <1>7 DEF HashesFound, HashServerIdToRange
<1>10. QED BY <1>8, <1>9 DEF MapsInv

\* An entry whose beacon goes stays an entry; a server that ends forgets all.
LEMMA PeersForgotten ==
  ASSUME MeshTypeOK, MapsInv, NEW ends \in SUBSET Servers,
         \A r \in Servers \ ends : /\ hashToPeer'[r] = hashToPeer[r]
                                   /\ \A p \in Servers :
                                         peerBeacons'[r][p] = None <=> peerBeacons[r][p] = None,
         \A r \in ends : /\ \A p \in Servers : peerBeacons'[r][p] = None
                         /\ \A id \in ServerIds : hashToPeer'[r][id] = None
  PROVE  MapsInv'
<1>1. None \notin Servers BY NoBeaconAssumption
<1>2. ASSUME NEW r \in Servers, NEW q \in Servers
      PROVE  peerBeacons'[r][q] # None <=> hashToPeer'[r][HashServerIdToRange(q)] = q
  <2>1. HashServerIdToRange(q) \in ServerIds BY HashIsServerId
  <2>2. peerBeacons[r][q] # None <=> hashToPeer[r][HashServerIdToRange(q)] = q
    BY DEF MapsInv, RegistryMapsAgree
  <2>3. QED BY <1>1, <2>1, <2>2
<1>3. ASSUME NEW r \in Servers, NEW id \in ServerIds, hashToPeer'[r][id] # None
      PROVE  HashServerIdToRange(hashToPeer'[r][id]) = id
  BY <1>3 DEF MapsInv, HashesFound
<1>4. RegistryMapsAgree' BY <1>2 DEF RegistryMapsAgree, HashServerIdToRange
<1>5. HashesFound' BY <1>3 DEF HashesFound, HashServerIdToRange
<1>6. QED BY <1>4, <1>5 DEF MapsInv

LEMMA MapsUnchanged ==
  ASSUME MeshTypeOK, MapsInv, UNCHANGED <<peerBeacons, hashToPeer>>
  PROVE  MapsInv'
BY DEF MapsInv, RegistryMapsAgree, HashesFound, HashServerIdToRange

\* FindBeaconForServer removes an entry of both.
LEMMA StaleRemoved ==
  ASSUME UniqueHashes, MeshTypeOK, MapsInv, NEW s \in Servers, NEW id \in ServerIds,
         ForgetStale(s, id)
  PROVE  MapsInv'
<1>1. CASE Entry(s, id) # Stale
  BY <1>1, MapsUnchanged DEF ForgetStale
<1>2. CASE Entry(s, id) = Stale
  <2>1. /\ peerBeacons \in [Servers -> [Servers -> Ends \cup {None, Stale}]]
        /\ hashToPeer \in [Servers -> [ServerIds -> Servers \cup {None}]]
    BY DEF MeshTypeOK
  <2>2. hashToPeer[s][id] # None BY <1>2, NoBeaconAssumption DEF Entry
  <2> PICK p \in Servers : p = hashToPeer[s][id] BY <2>1, <2>2
  <2>3. /\ peerBeacons' = [peerBeacons EXCEPT ![s][p] = None]
        /\ hashToPeer' = [hashToPeer EXCEPT ![s][id] = None]
    BY <1>2 DEF ForgetStale
  <2>4. HashServerIdToRange(p) = id BY <2>2 DEF MapsInv, HashesFound
  <2>5. ASSUME NEW r \in Servers, NEW q \in Servers
        PROVE  peerBeacons'[r][q] = IF r = s /\ q = p THEN None ELSE peerBeacons[r][q]
    BY <2>1, <2>3
  <2>6. ASSUME NEW r \in Servers, NEW i \in ServerIds
        PROVE  hashToPeer'[r][i] = IF r = s /\ i = id THEN None ELSE hashToPeer[r][i]
    BY <2>1, <2>3
  <2>7. ASSUME NEW r \in Servers, NEW q \in Servers
        PROVE  peerBeacons'[r][q] # None <=> hashToPeer'[r][HashServerIdToRange(q)] = q
    <3>1. HashServerIdToRange(q) \in ServerIds BY HashIsServerId
    <3>2. peerBeacons[r][q] # None <=> hashToPeer[r][HashServerIdToRange(q)] = q
      BY DEF MapsInv, RegistryMapsAgree
    <3>3. HashServerIdToRange(q) = id <=> q = p BY <2>4 DEF UniqueHashes
    <3>4. QED BY <2>5, <2>6, <3>1, <3>2, <3>3, NoBeaconAssumption
  <2>8. ASSUME NEW r \in Servers, NEW i \in ServerIds, hashToPeer'[r][i] # None
        PROVE  HashServerIdToRange(hashToPeer'[r][i]) = i
    BY <2>6, <2>8 DEF MapsInv, HashesFound
  <2>9. RegistryMapsAgree' BY <2>7 DEF RegistryMapsAgree, HashServerIdToRange
  <2>10. HashesFound' BY <2>8 DEF HashesFound, HashServerIdToRange
  <2>11. QED BY <2>9, <2>10 DEF MapsInv
<1>3. QED BY <1>1, <1>2

\* The beacons in gone are destroyed.
LEMMA BeaconsForgotten ==
  ASSUME MeshTypeOK, MapsInv, NEW gone \in SUBSET Ends,
         peerBeacons' = Forgotten(gone), hashToPeer' = hashToPeer
  PROVE  MapsInv'
<1> PICK ends \in SUBSET Servers : ends = {} OBVIOUS
<1>1. None \notin Ends /\ None # Stale BY NoBeaconAssumption
<1>2. \A r, p \in Servers : peerBeacons'[r][p] = None <=> peerBeacons[r][p] = None
  BY <1>1 DEF Forgotten
<1>3. QED BY <1>2, PeersForgotten

LEMMA CrashKeepsMaps ==
  ASSUME MeshTypeOK, MapsInv, NEW s \in Servers, Crash(s)
  PROVE  MapsInv'
<1> DEFINE gone == BeaconsOf(s)
<1> PICK ends \in SUBSET Servers : ends = {s} OBVIOUS
<1>1. None \notin Ends /\ None # Stale /\ gone \subseteq Ends
  BY NoBeaconAssumption DEF BeaconsOf
<1>2. hashToPeer \in [Servers -> [ServerIds -> Servers \cup {None}]] BY DEF MeshTypeOK
<1>3. /\ peerBeacons' = [Forgotten(gone) EXCEPT ![s] = [p \in Servers |-> None]]
      /\ hashToPeer' = [hashToPeer EXCEPT ![s] = [x \in ServerIds |-> None]]
  BY DEF Crash
<1> HIDE DEF gone
<1>4. \A r \in Servers \ {s} : /\ hashToPeer'[r] = hashToPeer[r]
                               /\ peerBeacons'[r] = Forgotten(gone)[r]
  BY <1>2, <1>3 DEF Forgotten
<1>5. \A r \in Servers \ {s}, p \in Servers :
         peerBeacons'[r][p] = None <=> peerBeacons[r][p] = None
  <2>1. ASSUME NEW r \in Servers \ {s}, NEW p \in Servers
        PROVE  peerBeacons'[r][p] = None <=> peerBeacons[r][p] = None
    <3>1. peerBeacons'[r][p] = Forgotten(gone)[r][p] BY <1>4
    <3>2. Forgotten(gone)[r][p] = IF peerBeacons[r][p] \in gone THEN Stale ELSE peerBeacons[r][p]
      BY DEF Forgotten
    <3>3. None \notin gone BY <1>1
    <3>4. QED BY <1>1, <3>1, <3>2, <3>3
  <2>2. QED BY <2>1
<1>6. /\ \A p \in Servers : peerBeacons'[s][p] = None
      /\ \A id \in ServerIds : hashToPeer'[s][id] = None
  BY <1>2, <1>3 DEF Forgotten
<1>7. QED BY <1>4, <1>5, <1>6, PeersForgotten

LEMMA MapsNext ==
  ASSUME UniqueHashes, MigrationInv, MapsInv, [Next]_vars
  PROVE  MapsInv'
<1>1. MeshInv /\ TypedMesh /\ MeshTypeOK BY DEF MigrationInv, MeshInv, TypedMesh
<1>2. ASSUME UNCHANGED <<peerBeacons, hashToPeer>> PROVE MapsInv'
  BY <1>1, <1>2, MapsUnchanged
<1>3. ASSUME MeshStep PROVE MapsInv'
  <2>1. ASSUME NEW e \in Ends, PeerConnected(e) PROVE MapsInv'
    <3>1. queue[e] # <<>> /\ Valid(e)
      BY <1>1, <2>1 DEF PeerConnected, Arrives, TypedMesh, QueuesReachBeacons
    <3>2. Local(e) \in Servers /\ Remote(e) \in Servers BY <1>1, <3>1, BoundPeers
    <3>3. HandlePeerConnected(Local(e), Remote(e), e) BY <2>1 DEF PeerConnected
    <3>4. QED BY <1>1, <3>2, <3>3, PeerEntered
  <2>2. ASSUME NEW e \in Ends, ConnectionLost(e) \/ ConnectionTimesOut(e) PROVE MapsInv'
    <3> PICK gone \in SUBSET Ends : gone = {e} OBVIOUS
    <3>1. peerBeacons' = Forgotten(gone) /\ hashToPeer' = hashToPeer
      BY <2>2 DEF ConnectionLost, ConnectionTimesOut, ConnectionFails
    <3>2. QED BY <1>1, <3>1, BeaconsForgotten
  <2>3. ASSUME NEW s \in Servers,
               Register(s) \/ InitializeFromCommandLine(s) \/ Registered(s)
        PROVE  MapsInv'
    BY <1>2, <2>3 DEF Register, InitializeFromCommandLine, Registered, InitializeDSTMMesh
  <2>4. ASSUME NEW k \in ConnIds, AcceptBeacon(k) \/ RefuseBeacon(k) PROVE MapsInv'
    BY <1>2, <2>4 DEF AcceptBeacon, RefuseBeacon
  <2>5. ASSUME NEW e \in Ends, OnConnected(e) PROVE MapsInv'
    BY <1>2, <2>5 DEF OnConnected
  <2>6. ASSUME NEW t \in timers, Retry(t[1], t[2]) PROVE MapsInv'
    BY <1>2, <2>6 DEF Retry
  <2>7. QED BY <1>3, <2>1, <2>2, <2>3, <2>4, <2>5, <2>6 DEF MeshStep
<1>4. ASSUME NEW s \in Servers, CrashWorld(s) PROVE MapsInv'
  BY <1>1, <1>4, CrashKeepsMaps DEF CrashWorld
<1>5. ASSUME NEW s \in Servers, NEW id \in ServerIds, NEW q, NEW rpc, SendTo(s, id, q, rpc)
      PROVE  MapsInv'
  <2>1. ForgetStale(s, id) BY <1>5 DEF SendTo
  <2>2. QED BY <1>1, <2>1, StaleRemoved
<1>6. ASSUME NEW s \in Servers, NEW o \in Objects, NEW id \in ServerIds,
             TransferActorToServer(s, o, id) \/ HandleObjectRequest(s, o, id)
      PROVE  MapsInv'
  BY <1>5, <1>6 DEF TransferActorToServer, HandleObjectRequest, HandleOutgoingMigration
<1>7. ASSUME NEW e \in Ends, NEW o \in Objects, ReceiveMigratedObject(e, o) PROVE MapsInv'
  BY <1>2, <1>7 DEF ReceiveMigratedObject
<1>8. ASSUME NEW e \in Ends, NEW o \in Objects, NEW id \in ServerIds,
             RequestMigrateObject(e, o, id)
      PROVE  MapsInv'
  <2> DEFINE q == [queue EXCEPT ![e] = Tail(@)]
  <2>1. queue[e] # <<>> /\ Valid(e)
    BY <1>1, <1>8 DEF RequestMigrateObject, Arrives, TypedMesh, QueuesReachBeacons
  <2> PICK s \in Servers : s = Local(e) BY <1>1, <2>1, BoundPeers
  <2>2. HandleOutgoingMigration(s, o, id, q) \/ UNCHANGED <<peerBeacons, hashToPeer>>
    BY <1>8 DEF RequestMigrateObject
  <2> HIDE DEF q
  <2>3. QED BY <1>2, <1>5, <2>2 DEF HandleOutgoingMigration
<1>9. CASE UNCHANGED vars BY <1>2, <1>9
<1>10. QED BY <1>3, <1>4, <1>6, <1>7, <1>8, <1>9 DEF Next

\* However often peers crash, rejoin, lose their connections and are found stale, the two
\* maps of the registry know the same peers, when no two peer ids have the same hash.
THEOREM MapsOfTheRegistryAgree ==
  ASSUME UniqueHashes PROVE Spec => []RegistryMapsAgree
<1>1. InitObjects => MapsInv
  <2> SUFFICES ASSUME InitObjects PROVE MapsInv OBVIOUS
  <2>1. /\ peerBeacons = [s \in Servers |-> [p \in Servers |-> None]]
        /\ hashToPeer = [s \in Servers |-> [x \in ServerIds |-> None]]
    BY DEF InitObjects, Init
  <2>2. \A p \in Servers : p # None BY NoBeaconAssumption
  <2>3. QED BY <2>1, <2>2, HashIsServerId DEF MapsInv, RegistryMapsAgree, HashesFound
<1>2. MigrationInv /\ MapsInv /\ [Next]_vars => MapsInv' BY MapsNext
<1>3. MapsInv => RegistryMapsAgree BY DEF MapsInv
<1>4. QED BY <1>1, <1>2, <1>3, MigrationInvariant, PTL DEF Spec

-----------------------------------------------------------------------------
(* Data is heard: what is on its way to an end finds it bound, or has the  *)
(* handshake ahead of it.                                                  *)

\* The RPCs of the subsystem are none of the handshake.
LEMMA DataIsNoHandshake ==
  ASSUME NEW o
  PROVE  /\ Migrated(o) \notin Handshake /\ Migrated(o) \notin PeerIds
         /\ \A id : Request(o, id) \notin Handshake /\ Request(o, id) \notin PeerIds
         /\ <<"onConnected">> \notin {Migrated(o)} /\ \A id : Request(o, id) # <<"onConnected">>
BY DEF Migrated, Request, Handshake, PeerIds

\* Data goes out over bound beacons only.
LEMMA SendToChannels ==
  ASSUME MigrationInv, NEW s \in Servers, NEW id \in ServerIds,
         NEW q \in [Ends -> Seq(RPCs)], Channels(q, bound), NEW rpc \in RPCs,
         SendTo(s, id, q, rpc)
  PROVE  Channels(queue', bound)
<1>1. CASE ~HasBeacon(s, id) \/ ~Valid(Other(Entry(s, id))) BY <1>1 DEF SendTo, Sent
<1>2. CASE HasBeacon(s, id) /\ Valid(Other(Entry(s, id)))
  <2> DEFINE f == Entry(s, id)
             e == Other(f)
  <2>1. f \in Ends /\ e \in Ends /\ Other(e) = f BY <1>2, EndFacts DEF HasBeacon
  <2>2. f \in bound /\ Valid(f)
    <3>1. PICK p : hashToPeer[s][id] = p OBVIOUS
    <3>2. hashToPeer[s][id] # None BY <2>1, NoBeaconAssumption DEF Entry
    <3>3. p \in Servers
      BY <3>1, <3>2 DEF MigrationInv, MeshInv, TypedMesh, MeshTypeOK
    <3>4. peerBeacons[s][p] = f BY <3>1, <3>2 DEF Entry
    <3>5. QED BY <2>1, <3>3, <3>4, EntryIsBound DEF MigrationInv
  <2>3. queue' = Pushed(q, e, rpc) BY <1>2 DEF SendTo, Sent, Pushed
  <2>4. Both(e) BY <1>2, <2>1, <2>2 DEF Both
  <2>5. ~Opening(q, bound, e) BY <2>1, <2>2 DEF Opening
  <2> HIDE DEF f, e
  <2>6. QED BY <2>1, <2>3, <2>4, <2>5, PushChannels
<1>3. QED BY <1>1, <1>2

LEMMA DataChannels ==
  ASSUME MigrationInv, ChannelInv, UNCHANGED <<conns, crashed, peers, bound>>, NEW o \in Objects,
         \/ \E s \in Servers, id \in ServerIds :
               TransferActorToServer(s, o, id) \/ HandleObjectRequest(s, o, id)
         \/ \E e \in Ends : ReceiveMigratedObject(e, o)
         \/ \E e \in Ends, id \in ServerIds : RequestMigrateObject(e, o, id)
  PROVE  ChannelInv'
<1>1. queue \in [Ends -> Seq(RPCs)] BY QueueType
<1>2. Channels(queue, bound) BY DEF ChannelInv
<1>3. ASSUME NEW s \in Servers, NEW id \in ServerIds, TransferActorToServer(s, o, id)
      PROVE  Channels(queue', bound)
  BY <1>1, <1>2, <1>3, MigratedIsRPC, SendToChannels
  DEF TransferActorToServer, HandleOutgoingMigration
<1>4. ASSUME NEW s \in Servers, NEW id \in ServerIds, HandleObjectRequest(s, o, id)
      PROVE  Channels(queue', bound)
  <2> DEFINE rpc == Request(o, HashServerIdToRange(s))
  <2>1. rpc \in RPCs BY MigratedIsRPC DEF ServerIds
  <2>2. SendTo(s, id, queue, rpc) BY <1>4 DEF HandleObjectRequest
  <2> HIDE DEF rpc
  <2>3. QED BY <1>1, <1>2, <2>1, <2>2, SendToChannels
<1>5. ASSUME NEW e \in Ends, queue[e] # <<>>,
             Head(queue[e]) \notin PeerIds, Head(queue[e]) # <<"onConnected">>
      PROVE  Popped(queue, e) \in [Ends -> Seq(RPCs)] /\ Channels(Popped(queue, e), bound)
  BY <1>1, <1>2, <1>5, PopFacts, PopChannels
<1>6. ASSUME NEW e \in Ends, ReceiveMigratedObject(e, o) PROVE Channels(queue', bound)
  <2>1. /\ queue[e] # <<>> /\ Head(queue[e]) = Migrated(o)
        /\ queue' = Popped(queue, e)
    BY <1>6 DEF ReceiveMigratedObject, Arrives, Popped
  <2>2. QED BY <1>5, <2>1, DataIsNoHandshake
<1>7. ASSUME NEW e \in Ends, NEW id \in ServerIds, RequestMigrateObject(e, o, id)
      PROVE  Channels(queue', bound)
  <2> DEFINE q == Popped(queue, e)
  <2>1. /\ queue[e] # <<>> /\ Head(queue[e]) = Request(o, id)
        /\ queue' = q \/ SendTo(Local(e), id, q, Migrated(o))
    BY <1>7 DEF RequestMigrateObject, Arrives, Popped, HandleOutgoingMigration
  <2>2. q \in [Ends -> Seq(RPCs)] /\ Channels(q, bound) BY <1>5, <2>1, DataIsNoHandshake
  <2>3. Local(e) \in Servers BY <2>1, PopReaches, BoundPeers DEF MigrationInv, MeshInv, TypedMesh
  <2> HIDE DEF q
  <2>4. QED BY <2>1, <2>2, <2>3, MigratedIsRPC, SendToChannels
<1>8. Channels(queue', bound') BY <1>3, <1>4, <1>6, <1>7
<1>9. Channels(queue, bound)' BY <1>8, ChannelsPrimed
<1>10. QED BY <1>9 DEF ChannelInv, BoundAccepted

LEMMA HeardNext ==
  ASSUME OneDialer, MigrationInv, DialInv, ChannelInv, [Next]_vars
  PROVE  DialInv' /\ ChannelInv'
<1>1. ASSUME [MeshNext]_meshVars PROVE DialInv' /\ ChannelInv'
  BY <1>1, MeshAssumption, DialNext, ChannelNext DEF MigrationInv
<1>2. CASE MeshStep \/ (\E s \in Servers : CrashWorld(s)) \/ UNCHANGED vars
  BY <1>1, <1>2 DEF MeshNext, CrashWorld
<1>3. ASSUME NEW o \in Objects,
             \/ \E s \in Servers, id \in ServerIds :
                   TransferActorToServer(s, o, id) \/ HandleObjectRequest(s, o, id)
             \/ \E e \in Ends : ReceiveMigratedObject(e, o)
             \/ \E e \in Ends, id \in ServerIds : RequestMigrateObject(e, o, id)
      PROVE  DialInv' /\ ChannelInv'
  <2>1. UNCHANGED <<startVars, timers, conns, acked, bound, failVars>>
    BY <1>3
    DEF TransferActorToServer, HandleObjectRequest, ReceiveMigratedObject, RequestMigrateObject
  <2>2. DialInv' BY <2>1, DialsUnchanged
  <2>3. ChannelInv' BY <1>3, <2>1, DataChannels
  <2>4. QED BY <2>2, <2>3
<1>4. QED BY <1>2, <1>3 DEF Next

\* Data on its way is on a connection whose two ends are there, and their processes run.
LEMMA HeardFollows ==
  ASSUME MigrationInv, DialInv, ChannelInv PROVE ArrivingDataIsHeard
<1> SUFFICES ASSUME Rejoined = {}, NEW e \in Ends, NEW o \in Objects, Carries(e, o),
                    e \notin bound
             PROVE  \E i \in DOMAIN queue[e] :
                       /\ queue[e][i] \in PeerIds
                       /\ \A j \in DOMAIN queue[e] : queue[e][j] = Migrated(o) => i < j
  BY DEF ArrivingDataIsHeard, Rejoined
<1>1. PICK j \in DOMAIN queue[e] : queue[e][j] = Migrated(o) BY DEF Carries, Range
<1>2. queue[e] # <<>>
  <2>1. DOMAIN <<>> = {} OBVIOUS
  <2>2. QED BY <1>1, <2>1
<1>3. Both(e) BY <1>2 DEF ChannelInv, Channels
<1>4. Local(e) \in active /\ Remote(e) \in active BY <1>3, EndsOfBoth DEF MigrationInv
<1>5. AheadIn(queue[e])
  <2>1. Steady(e) BY <1>3, <1>4, RunningServersLast DEF MigrationInv, Steady
  <2>2. QED BY <2>1 DEF ChannelInv, Channels, Channel
<1>6. PICK i \in DOMAIN queue[e] : i < j /\ queue[e][i] \in PeerIds
  BY <1>1, <1>5, DataIsNoHandshake DEF AheadIn
<1>7. \A l \in DOMAIN queue[e] : queue[e][l] = Migrated(o) => l = j
  BY <1>1 DEF MigrationInv, InOnePlace, InOneRPC, At
<1>8. QED BY <1>6, <1>7

HeardInv == MigrationInv /\ DialInv /\ ChannelInv

LEMMA HeardInvariant == ASSUME OneDialer PROVE Spec => []HeardInv
<1>1. ASSUME InitObjects PROVE HeardInv
  <2>1. Init BY <1>1 DEF InitObjects
  <2>2. QED BY <1>1, <2>1, MeshAssumption, MigrationInit, DialInit, ChannelInit DEF HeardInv
<1>2. HeardInv /\ [Next]_vars => HeardInv' BY MigrationNext, HeardNext DEF HeardInv
<1>3. QED BY <1>1, <1>2, PTL DEF Spec

\* Whatever connections are lost and dialled again, data that arrives finds its receiver
\* bound or the handshake ahead of it, until a crashed server joins through the proxy once
\* more: of two servers one dials the other, as RegisterServer has it.
THEOREM DataIsHeard == ASSUME OneDialer PROVE Spec => []ArrivingDataIsHeard
<1>1. HeardInv => ArrivingDataIsHeard BY HeardFollows DEF HeardInv
<1>2. QED BY <1>1, HeardInvariant, PTL

-----------------------------------------------------------------------------
(* Nothing is lost while nothing fails.                                    *)

\* What holds until the first failure: a dialling side never goes before the host's, so
\* bound ends have both, and whom a server knows by its hash it can send to.
Unfailing ==
    /\ crashed = {}
    /\ \A k \in DOMAIN conns : "client" \in conns[k].ends
    /\ \A e \in bound : Both(e) /\ hashToPeer[Local(e)][HashServerIdToRange(Remote(e))] # None
    /\ \A s, p \in Servers : peerBeacons[s][p] # Stale
    /\ \A s \in Servers, id \in ServerIds :
          hashToPeer[s][id] # None => peerBeacons[s][hashToPeer[s][id]] \in Ends

\* Requests are on behalf of the server at the other end.
AskedFor(q) ==
    \A e \in Ends : \A i \in DOMAIN q[e] : \A o \in Objects, id \in ServerIds :
        q[e][i] = Request(o, id) => id = HashServerIdToRange(Remote(e))

LEMMA PopAsked ==
  ASSUME NEW R, NEW q \in [Ends -> Seq(R)], NEW e \in Ends, q[e] # <<>>, AskedFor(q)
  PROVE  AskedFor(Popped(q, e))
<1> DEFINE p == Popped(q, e)
<1>1. /\ \A d \in Ends \ {e} : p[d] = q[d]
      /\ \A i : i \in DOMAIN p[e] <=> i \in Nat /\ i >= 1 /\ i + 1 \in DOMAIN q[e]
      /\ \A i \in DOMAIN p[e] : p[e][i] = q[e][i + 1]
  BY PopFacts
<1> HIDE DEF p
<1>2. \A d \in Ends : \A i \in DOMAIN p[d] : \E j \in DOMAIN q[d] : p[d][i] = q[d][j]
  BY <1>1
<1>3. AskedFor(p) BY <1>2 DEF AskedFor
<1>4. QED BY <1>3 DEF p

LEMMA PushAsked ==
  ASSUME NEW R, NEW q \in [Ends -> Seq(R)], NEW e \in Ends, NEW rpc \in R, AskedFor(q),
         \A o \in Objects, id \in ServerIds :
            rpc = Request(o, id) => id = HashServerIdToRange(Remote(e))
  PROVE  AskedFor(Pushed(q, e, rpc))
<1> DEFINE p == Pushed(q, e, rpc)
           n == Len(q[e]) + 1
<1>1. /\ \A d \in Ends \ {e} : p[d] = q[d]
      /\ DOMAIN p[e] = DOMAIN q[e] \cup {n}
      /\ \A i \in DOMAIN q[e] : p[e][i] = q[e][i]
      /\ p[e][n] = rpc
  BY PushFacts
<1> HIDE DEF p, n
<1>2. AskedFor(p) BY <1>1 DEF AskedFor
<1>3. QED BY <1>2 DEF p

\* Steps that leave the connections, or the registry, as they are.
LEMMA AskedPrimed == ASSUME conns' = conns, AskedFor(queue') PROVE AskedFor(queue)'
<1>1. \A e : Remote(e)' = Remote(e) BY DEF Remote
<1>2. QED BY <1>1 DEF AskedFor, Request, HashServerIdToRange

LEMMA UnfailingSame ==
  ASSUME Unfailing, UNCHANGED <<conns, bound, peerBeacons, hashToPeer, crashed>>
  PROVE  Unfailing'
<1>1. \A e : /\ Both(e)' = Both(e) /\ Local(e)' = Local(e) /\ Remote(e)' = Remote(e)
  BY DEF Both, Valid, Other, Local, Remote
<1>2. QED BY <1>1 DEF Unfailing, HashServerIdToRange

LEMMA UnfailingConns ==
  ASSUME ChannelInv, Unfailing, bound \subseteq Ends,
         UNCHANGED <<queue, bound, peerBeacons, hashToPeer, crashed>>,
         \A e \in Ends : Both(e) =>
            Both(e)' /\ Local(e)' = Local(e) /\ Remote(e)' = Remote(e),
         \A k \in DOMAIN conns' : "client" \in conns'[k].ends
  PROVE  Unfailing' /\ (AskedFor(queue) => AskedFor(queue)')
<1>1. Unfailing' BY DEF Unfailing, HashServerIdToRange
<1>2. DOMAIN <<>> = {} OBVIOUS
<1>3. \A e \in Ends : \A i \in DOMAIN queue[e] : Remote(e)' = Remote(e)
  BY <1>2 DEF ChannelInv, Channels
<1>4. AskedFor(queue) => AskedFor(queue)'
  BY <1>3 DEF AskedFor, Request, HashServerIdToRange
<1>5. QED BY <1>1, <1>4

\* The state of the registry that a step to be shown keeps.
Delivers == /\ Unfailing' /\ AskedFor(queue)'
            /\ \A o \in Objects : OnItsWay(queue, o) => OnItsWay(queue', o)

LEMMA DialledDelivers ==
  ASSUME MigrationInv, ChannelInv, Unfailing, AskedFor(queue),
         UNCHANGED <<queue, bound, peerBeacons, hashToPeer, crashed>>,
         NEW s, NEW slots, NEW addresses, Dialled(s, slots, addresses)
  PROVE  Delivers
<1>1. \A e \in Ends : Valid(e) =>
         Valid(e)' /\ Local(e)' = Local(e) /\ Remote(e)' = Remote(e)
  BY DialledKeeps
<1>2. \A e \in Ends : Other(e)' = Other(e) /\ Other(e) \in Ends BY EndFacts DEF Other
<1>3. \A e \in Ends : Both(e) =>
         Both(e)' /\ Local(e)' = Local(e) /\ Remote(e)' = Remote(e)
  BY <1>1, <1>2 DEF Both
<1>4. ASSUME NEW k \in DOMAIN conns' PROVE "client" \in conns'[k].ends
  <2>1. CASE k \in DOMAIN conns BY <2>1 DEF Unfailing, Dialled
  <2>2. CASE k \notin DOMAIN conns
    <3>1. PICK i : conns'[k] = NewConn(s, i, addresses[i]) BY <2>2 DEF Dialled
    <3>2. QED BY <3>1 DEF NewConn
  <2>3. QED BY <2>1, <2>2
<1>5. bound \subseteq Ends BY DEF MigrationInv, MeshInv, TypedMesh, MeshTypeOK
<1>6. QED BY <1>3, <1>4, <1>5, UnfailingConns DEF Delivers

\* Only a dialling side that was refused, or that nobody answers, finds that it is alone.
LEMMA LostAlone ==
  ASSUME HeardInv, Unfailing, AskedFor(queue), NEW e \in Ends, ConnectionLost(e)
  PROVE  Delivers
<1>1. /\ Unanswered(e) /\ DestroyBeacons({e}) /\ peerBeacons' = Forgotten({e})
      /\ UNCHANGED <<hashToPeer, crashed>>
  BY DEF ConnectionLost, ConnectionFails
<1>2. /\ DOMAIN conns \subseteq ConnIds /\ conns \in [DOMAIN conns -> Conn]
      /\ bound \subseteq Ends /\ queue \in [Ends -> Seq(RPCs)]
      /\ peerBeacons \in [Servers -> [Servers -> Ends \cup {None, Stale}]]
  BY DEF HeardInv, MigrationInv, MeshInv, TypedMesh, MeshTypeOK, RPCs
<1>3. e = <<e[1], e[2]>> /\ e[2] \in Sides /\ Other(e) \in Ends /\ Other(Other(e)) = e
  BY EndFacts
<1>4. ~Both(e) /\ e[1] \in DOMAIN conns /\ conns[e[1]].ends = {"client"} /\ e[2] = "client"
  <2>1. Valid(e) /\ e[1] \in DOMAIN conns /\ e[2] \in conns[e[1]].ends
    BY <1>1 DEF Unanswered, Valid
  <2>2. "client" \in conns[e[1]].ends BY <2>1 DEF Unfailing
  <2>3. CASE conns[e[1]].accepted
    <3>1. ~Valid(Other(e)) BY <1>1, <2>3 DEF Unanswered
    <3>2. Other(e)[2] \notin conns[e[1]].ends BY <2>1, <3>1 DEF Valid, Other
    <3>3. e[2] = "client" /\ "host" \notin conns[e[1]].ends
      BY <1>3, <2>2, <3>2 DEF Other, Sides
    <3>4. conns[e[1]].ends \subseteq Sides BY <1>2, <2>1 DEF Conn
    <3>5. conns[e[1]].ends = {"client"} BY <2>2, <3>3, <3>4 DEF Sides
    <3>6. QED BY <2>1, <3>1, <3>3, <3>5 DEF Both
  <2>4. CASE ~conns[e[1]].accepted
    <3>1. conns[e[1]].ends = {"client"} BY <2>1, <2>4 DEF HeardInv, MigrationInv, MeshInv, MeshOwned
    <3>2. e[2] = "client" BY <2>1, <3>1
    <3>3. ~Valid(Other(e)) BY <3>1, <3>2 DEF Valid, Other
    <3>4. QED BY <2>1, <3>1, <3>2, <3>3 DEF Both
  <2>5. QED BY <2>3, <2>4
<1>5. ~Both(Other(e)) BY <1>3, <1>4 DEF Both
<1>6. e \notin bound BY <1>4 DEF Unfailing
<1>7. bound' = bound BY <1>1, <1>6 DEF DestroyBeacons
<1>8. queue[e] = <<>> /\ queue[Other(e)] = <<>>
  BY <1>3, <1>4, <1>5 DEF HeardInv, ChannelInv, Channels
<1>9. queue' = queue
  <2>1. queue' = [d \in Ends |-> IF {d, Other(d)} \cap {e} # {} THEN <<>> ELSE queue[d]]
    BY <1>1 DEF DestroyBeacons
  <2>2. \A d \in Ends : {d, Other(d)} \cap {e} # {} => d = e \/ d = Other(e)
    BY EndFacts
  <2>3. \A d \in Ends : queue'[d] = queue[d] BY <1>8, <2>1, <2>2
  <2>4. QED BY <1>2, <2>1, <2>3
<1>10. peerBeacons' = peerBeacons
  <2>1. \A s, p \in Servers : peerBeacons[s][p] # e
    BY <1>6, EntryIsBound DEF HeardInv, MigrationInv
  <2>2. QED BY <1>1, <1>2, <2>1 DEF Forgotten
<1> DEFINE gone == {e}
<1>11. DestroyBeacons(gone) BY <1>1
<1> HIDE DEF gone
<1>12. /\ DOMAIN conns' \subseteq DOMAIN conns
       /\ \A k \in DOMAIN conns' : /\ conns'[k].dialer = conns[k].dialer
                                   /\ conns'[k].host = conns[k].host
       /\ \A d \in Ends : Valid(d)' <=> Valid(d) /\ d \notin gone
  BY <1>2, <1>11, LeftConnections
<1>13. ASSUME NEW d \in Ends, Both(d)
       PROVE  Both(d)' /\ Local(d)' = Local(d) /\ Remote(d)' = Remote(d)
  <2>1. d # e /\ d # Other(e) BY <1>4, <1>5, <1>13
  <2>2. Other(d) # e /\ Other(d) \in Ends /\ Other(d)' = Other(d)
    BY <2>1, EndFacts DEF Other
  <2>3. Both(d)' BY <1>12, <1>13, <2>1, <2>2 DEF Both, gone
  <2>4. d[1] \in DOMAIN conns' BY <2>3 DEF Both, Valid
  <2>5. QED BY <1>12, <2>3, <2>4 DEF Local, Remote
<1>14. ASSUME NEW k \in DOMAIN conns' PROVE "client" \in conns'[k].ends
  <2>1. k \in DOMAIN conns /\ "client" \in conns[k].ends BY <1>12 DEF Unfailing
  <2>2. <<k, "client">> \in Ends /\ Valid(<<k, "client">>)
    BY <1>2, <2>1 DEF Ends, Sides, Valid
  <2>3. k # e[1]
    <3>1. conns'[k] = [conns[k] EXCEPT !.ends = {side \in conns[k].ends : <<k, side>> \notin gone}]
          /\ {side \in conns[k].ends : <<k, side>> \notin gone} # {}
      BY <1>11 DEF DestroyBeacons
    <3>2. ASSUME k = e[1] PROVE FALSE
      <4>1. \A side \in conns[k].ends : <<k, side>> = e BY <1>3, <1>4, <3>2
      <4>2. QED BY <3>1, <4>1 DEF gone
    <3>3. QED BY <3>2
  <2>4. <<k, "client">> # e BY <1>3, <2>3
  <2>5. Valid(<<k, "client">>)' BY <1>12, <2>2, <2>4 DEF gone
  <2>6. QED BY <2>5 DEF Valid
<1>15. QED BY <1>1, <1>2, <1>7, <1>9, <1>10, <1>13, <1>14, UnfailingConns
  DEF Delivers, HeardInv

LEMMA AcceptDelivers ==
  ASSUME HeardInv, Unfailing, AskedFor(queue), NEW k \in ConnIds, AcceptBeacon(k)
  PROVE  Delivers
<1> DEFINE c == <<k, "client">>
           sent == <<<<"onConnected">>, <<"peerConnected">>>>
<1>1. /\ k \in DOMAIN conns /\ ~conns[k].accepted
      /\ conns' = [conns EXCEPT ![k].accepted = TRUE, ![k].ends = Sides]
      /\ queue' = [queue EXCEPT ![c] = sent]
      /\ UNCHANGED <<bound, peerBeacons, hashToPeer, crashed>>
  BY DEF AcceptBeacon, Joining
<1>2. /\ conns[k] \in Conn /\ conns[k].ends = {"client"}
      /\ bound \subseteq Ends /\ queue \in [Ends -> Seq(RPCs)]
  BY <1>1 DEF HeardInv, MigrationInv, MeshInv, TypedMesh, MeshTypeOK, MeshOwned, RPCs
<1>3. c \in Ends /\ ~Valid(Other(c)) BY <1>2 DEF Ends, Sides, Valid, Other
<1>4. queue[c] = <<>> BY <1>3 DEF HeardInv, ChannelInv, Channels, Both
<1>5. \A i \in DOMAIN sent : sent[i] \in Handshake BY DEF Handshake, PeerIds
<1> HIDE DEF c, sent
<1>6. \A d \in Ends : queue'[d] = IF d = c THEN sent ELSE queue[d] BY <1>1, <1>2
<1>7. \A o \in Objects : OnItsWay(queue, o) => OnItsWay(queue', o)
  <2>1. DOMAIN <<>> = {} OBVIOUS
  <2>2. QED BY <1>4, <1>6, <2>1 DEF OnItsWay, At
<1>8. AskedFor(queue')
  <2>1. \A i \in DOMAIN sent : \A o, id : sent[i] # Request(o, id)
    BY <1>5, DataIsNoHandshake
  <2>2. QED BY <1>6, <2>1 DEF HeardInv, AskedFor
<1>9. PICK b : b = conns'[k] OBVIOUS
<1>10. /\ DOMAIN conns' = DOMAIN conns
       /\ \A j \in DOMAIN conns : j # k => conns'[j] = conns[j]
  BY <1>1
<1>11. b = [conns[k] EXCEPT !.accepted = TRUE, !.ends = Sides] BY <1>1, <1>9
<1>12. b.ends = Sides /\ b.dialer = conns[k].dialer /\ b.host = conns[k].host
  BY <1>2, <1>11 DEF Conn
<1>13. \A d \in Ends : Valid(d) => Valid(d)'
  BY <1>9, <1>10, <1>12, EndFacts DEF Valid
<1>14. \A d : d[1] \in DOMAIN conns => Local(d)' = Local(d) /\ Remote(d)' = Remote(d)
  BY <1>9, <1>10, <1>12 DEF Local, Remote
<1>15. \A d \in Ends : Both(d) =>
          Both(d)' /\ Local(d)' = Local(d) /\ Remote(d)' = Remote(d)
  <2>1. \A d \in Ends : Other(d)' = Other(d) /\ Other(d) \in Ends BY EndFacts DEF Other
  <2>2. QED BY <1>13, <1>14, <2>1 DEF Both, Valid
<1>16. Unfailing'
  <2>1. \A j \in DOMAIN conns' : "client" \in conns'[j].ends
    BY <1>9, <1>10, <1>12 DEF Unfailing, Sides
  <2>2. QED BY <1>1, <1>2, <1>15, <2>1 DEF Unfailing, HashServerIdToRange
<1>17. AskedFor(queue)'
  <2>1. ASSUME NEW d \in Ends, NEW i \in DOMAIN queue'[d], NEW o \in Objects,
               NEW id \in ServerIds, queue'[d][i] = Request(o, id)
        PROVE  d[1] \in DOMAIN conns
    <3>1. CASE d = c BY <1>1, <3>1 DEF c
    <3>2. CASE d # c
      <4>1. DOMAIN <<>> = {} OBVIOUS
      <4>2. queue[d] # <<>> BY <1>6, <3>2, <4>1
      <4>3. QED BY <4>2 DEF HeardInv, ChannelInv, Channels, Both, Valid
    <3>3. QED BY <3>1, <3>2
  <2>2. QED BY <1>8, <1>14, <2>1 DEF AskedFor, Request, HashServerIdToRange
<1>18. QED BY <1>7, <1>16, <1>17 DEF Delivers

\* The handshakes' RPCs come and go, and the data stays.
LEMMA PopDelivers ==
  ASSUME HeardInv, AskedFor(queue), NEW e \in Ends, queue[e] # <<>>,
         Head(queue[e]) \in Handshake
  PROVE  /\ AskedFor(Popped(queue, e)) /\ Popped(queue, e) \in [Ends -> Seq(RPCs)]
         /\ \A o \in Objects : /\ OnItsWay(Popped(queue, e), o) <=> OnItsWay(queue, o)
                               /\ InOneRPC(Popped(queue, e), o)
<1>1. queue \in [Ends -> Seq(RPCs)] BY QueueType DEF HeardInv
<1>2. \A o : Head(queue[e]) # Migrated(o) BY DataIsNoHandshake
<1>3. \A o \in Objects : InOneRPC(queue, o) BY DEF HeardInv, MigrationInv, InOnePlace
<1>4. QED BY <1>1, <1>2, <1>3, PopAsked, PopFacts, PopOther

LEMMA OnConnectedDelivers ==
  ASSUME HeardInv, Unfailing, AskedFor(queue), NEW e \in Ends, OnConnected(e)
  PROVE  Delivers
<1> DEFINE q   == Popped(queue, e)
           rpc == <<"setRemotePeerId">>
<1>1. /\ queue[e] # <<>> /\ Head(queue[e]) = <<"onConnected">>
      /\ queue' = Sent(q, Other(e), rpc)
      /\ UNCHANGED <<conns, bound, peerBeacons, hashToPeer, crashed>>
  BY DEF OnConnected, Arrives, Popped
<1>2. rpc \in RPCs /\ rpc \in Handshake /\ Head(queue[e]) \in Handshake
  BY <1>1 DEF RPCs, Handshake, PeerIds
<1>3. /\ AskedFor(q) /\ q \in [Ends -> Seq(RPCs)]
      /\ \A o \in Objects : (OnItsWay(q, o) <=> OnItsWay(queue, o)) /\ InOneRPC(q, o)
  BY <1>1, <1>2, PopDelivers
<1>4. Other(e) \in Ends BY EndFacts
<1>5. \A o, id : rpc # Migrated(o) /\ rpc # Request(o, id) BY <1>2, DataIsNoHandshake
<1> HIDE DEF q, rpc
<1>6. queue' = q \/ queue' = Pushed(q, Other(e), rpc) BY <1>1 DEF Sent, Pushed
<1>7. AskedFor(Pushed(q, Other(e), rpc)) BY <1>2, <1>3, <1>4, <1>5, PushAsked
<1>8. \A o \in Objects : OnItsWay(Pushed(q, Other(e), rpc), o) <=> OnItsWay(q, o)
  BY <1>2, <1>3, <1>4, <1>5, Push
<1>9. AskedFor(queue)' BY <1>1, <1>3, <1>6, <1>7, AskedPrimed
<1>10. QED BY <1>1, <1>3, <1>6, <1>8, <1>9, UnfailingSame DEF Delivers

LEMMA PeerConnectedDelivers ==
  ASSUME HeardInv, Unfailing, AskedFor(queue), NEW e \in Ends, PeerConnected(e)
  PROVE  Delivers
<1>1. /\ queue[e] # <<>> /\ Head(queue[e]) \in PeerIds
      /\ queue' = Popped(queue, e) /\ UNCHANGED <<conns, crashed>>
      /\ HandlePeerConnected(Local(e), Remote(e), e)
  BY DEF PeerConnected, Arrives, Popped
<1>2. Head(queue[e]) \in Handshake BY <1>1 DEF Handshake
<1>3. AskedFor(queue') /\ \A o \in Objects : OnItsWay(queue, o) => OnItsWay(queue', o)
  BY <1>1, <1>2, PopDelivers
<1>4. Both(e) BY <1>1 DEF HeardInv, ChannelInv, Channels
<1>5. PICK s \in Servers, p \in Servers : s = Local(e) /\ p = Remote(e)
  BY <1>4, EndsOfBoth DEF HeardInv, MigrationInv
<1>6. PICK h \in ServerIds : h = HashServerIdToRange(p) BY HashIsServerId
<1>7. /\ bound' = (bound \ {peerBeacons[s][p]}) \cup {e}
      /\ peerBeacons' = [peerBeacons EXCEPT ![s][p] = e]
      /\ hashToPeer' = [hashToPeer EXCEPT ![s][h] = p]
  BY <1>1, <1>5, <1>6 DEF HandlePeerConnected, Rebound
<1>8. /\ peerBeacons \in [Servers -> [Servers -> Ends \cup {None, Stale}]]
      /\ hashToPeer \in [Servers -> [ServerIds -> Servers \cup {None}]]
      /\ bound \subseteq Ends
  BY DEF HeardInv, MigrationInv, MeshInv, TypedMesh, MeshTypeOK
<1>9. ASSUME NEW r \in Servers, NEW q \in Servers
      PROVE  peerBeacons'[r][q] = IF r = s /\ q = p THEN e ELSE peerBeacons[r][q]
  BY <1>7, <1>8
<1>10. ASSUME NEW r \in Servers, NEW id \in ServerIds
       PROVE  hashToPeer'[r][id] = IF r = s /\ id = h THEN p ELSE hashToPeer[r][id]
  BY <1>7, <1>8
<1>11. None \notin Servers /\ Stale \notin Ends BY NoBeaconAssumption
<1>12. \A d : /\ Both(d)' = Both(d) /\ Local(d)' = Local(d) /\ Remote(d)' = Remote(d)
  BY <1>1 DEF Both, Valid, Other, Local, Remote
<1>13. ASSUME NEW d \in bound'
       PROVE  Both(d) /\ hashToPeer'[Local(d)][HashServerIdToRange(Remote(d))] # None
  <2>1. CASE d = e
    <3>1. hashToPeer'[s][h] = p /\ p # None BY <1>10, <1>11
    <3>2. Both(d) /\ Local(d) = s /\ Remote(d) = p BY <1>4, <1>5, <2>1
    <3>3. QED BY <1>6, <3>1, <3>2
  <2>2. CASE d # e
    <3>1. d \in bound BY <1>7, <2>2
    <3>2. Both(d) /\ hashToPeer[Local(d)][HashServerIdToRange(Remote(d))] # None
      BY <3>1 DEF Unfailing
    <3>3. Local(d) \in Servers /\ Remote(d) \in Servers
      BY <1>8, <3>1, <3>2, EndsOfBoth DEF HeardInv, MigrationInv
    <3>4. HashServerIdToRange(Remote(d)) \in ServerIds BY <3>3, HashIsServerId
    <3>5. QED BY <1>10, <1>11, <3>2, <3>3, <3>4
  <2>3. QED BY <2>1, <2>2
<1>14. \A r, q \in Servers : peerBeacons'[r][q] # Stale BY <1>9, <1>11 DEF Unfailing
<1>15. ASSUME NEW r \in Servers, NEW id \in ServerIds, hashToPeer'[r][id] # None
       PROVE  peerBeacons'[r][hashToPeer'[r][id]] \in Ends
  <2>1. CASE r = s /\ id = h BY <1>9, <1>10, <2>1
  <2>2. CASE ~(r = s /\ id = h)
    <3>1. hashToPeer'[r][id] = hashToPeer[r][id] BY <1>10, <2>2
    <3>2. hashToPeer[r][id] \in Servers BY <1>8, <1>15, <3>1
    <3>3. peerBeacons[r][hashToPeer[r][id]] \in Ends BY <1>15, <3>1 DEF Unfailing
    <3>4. QED BY <1>9, <3>1, <3>2, <3>3
  <2>3. QED BY <2>1, <2>2
<1>16. Unfailing' BY <1>1, <1>12, <1>13, <1>14, <1>15 DEF Unfailing, HashServerIdToRange
<1>17. QED BY <1>1, <1>3, <1>16, AskedPrimed DEF Delivers

\* The steps of the mesh, when none of them is a failure.
LEMMA MeshDelivers ==
  ASSUME HeardInv, Unfailing, AskedFor(queue), MeshStep, failures' = failures
  PROVE  Delivers
<1>1. /\ MigrationInv /\ ChannelInv /\ MeshInv /\ MeshAssumption
      /\ bound \subseteq Ends /\ failures \in Nat
  <2>1. MigrationInv /\ ChannelInv /\ MeshInv BY DEF HeardInv, MigrationInv
  <2>2. bound \subseteq Ends /\ failures \in 0 .. MaxFailures
    BY <2>1 DEF MeshInv, TypedMesh, MeshTypeOK
  <2>3. QED BY <2>1, <2>2, MeshAssumption
<1>2. ASSUME NEW s \in Servers, NewDials(s),
             UNCHANGED <<queue, bound, peerBeacons, hashToPeer, crashed>>
      PROVE  Delivers
  BY <1>1, <1>2, NewDialsFollow, DialledDelivers
<1>3. ASSUME NEW s \in Servers, NEW list \in Seq(Servers), s \notin active,
             InitializeDSTMMesh(s, list)
      PROVE  Delivers
  <2>1. NewDials(s) BY <1>3 DEF NewDials
  <2>2. UNCHANGED <<queue, bound, peerBeacons, hashToPeer, crashed>>
    BY <1>3 DEF InitializeDSTMMesh
  <2>3. QED BY <1>2, <2>1, <2>2
<1>4. ASSUME NEW s \in Servers, InitializeFromCommandLine(s) PROVE Delivers
  <2>1. StaticPeers[s] \in Seq(Servers) BY MeshAssumption DEF MeshAssumption
  <2>2. QED BY <1>3, <1>4, <2>1 DEF InitializeFromCommandLine, Starting
<1>5. ASSUME NEW s \in Servers, Registered(s) PROVE Delivers
  <2>1. answers[s] \in Seq(Servers) /\ s \notin active
    BY <1>1, <1>5 DEF Registered, MeshInv, MeshOwned, TypedMesh, MeshTypeOK
  <2>2. QED BY <1>3, <1>5, <2>1 DEF Registered
<1>6. ASSUME NEW t \in timers, Retry(t[1], t[2]) PROVE Delivers
  <2>1. t[1] \in Servers BY <1>1 DEF MeshInv, TypedMesh, MeshTypeOK
  <2>2. t[2] \in DOMAIN peers[t[1]] BY <1>1 DEF MeshInv, OneBeaconOrTimer
  <2>3. NewDials(t[1]) BY <1>6, <2>2 DEF NewDials
  <2>4. UNCHANGED <<queue, bound, peerBeacons, hashToPeer, crashed>> BY <1>6 DEF Retry
  <2>5. QED BY <1>2, <2>1, <2>3, <2>4
<1>7. ASSUME NEW s \in Servers, Register(s) PROVE Delivers
  <2>1. UNCHANGED <<conns, queue, bound, peerBeacons, hashToPeer, crashed>>
    BY <1>7 DEF Register
  <2>2. AskedFor(queue') BY <2>1
  <2>3. QED BY <2>1, <2>2, UnfailingSame, AskedPrimed DEF Delivers
<1>8. ASSUME NEW k \in ConnIds, RefuseBeacon(k) PROVE Delivers
  <2>1. /\ k \in DOMAIN conns /\ conns' = [conns EXCEPT ![k].accepted = TRUE]
        /\ UNCHANGED <<queue, bound, peerBeacons, hashToPeer, crashed>>
    BY <1>8 DEF RefuseBeacon, Joining
  <2>2. conns[k] \in Conn BY <1>1, <2>1 DEF MeshInv, TypedMesh, MeshTypeOK
  <2>3. PICK b : b = conns'[k] OBVIOUS
  <2>4. /\ DOMAIN conns' = DOMAIN conns
        /\ \A j \in DOMAIN conns : j # k => conns'[j] = conns[j]
    BY <2>1
  <2>5. b = [conns[k] EXCEPT !.accepted = TRUE] BY <2>1, <2>3
  <2>6. b.ends = conns[k].ends /\ b.dialer = conns[k].dialer /\ b.host = conns[k].host
    BY <2>2, <2>5 DEF Conn
  <2>7. \A d \in Ends : /\ Valid(d)' = Valid(d)
                        /\ Valid(d) => Local(d)' = Local(d) /\ Remote(d)' = Remote(d)
    BY <2>3, <2>4, <2>6 DEF Valid, Local, Remote
  <2>8. \A d \in Ends : Other(d)' = Other(d) /\ Other(d) \in Ends BY EndFacts DEF Other
  <2>9. \A d \in Ends : Both(d) =>
           Both(d)' /\ Local(d)' = Local(d) /\ Remote(d)' = Remote(d)
    BY <2>7, <2>8 DEF Both
  <2>10. \A j \in DOMAIN conns' : "client" \in conns'[j].ends
    BY <2>3, <2>4, <2>6, <2>1 DEF Unfailing
  <2>11. QED BY <1>1, <2>1, <2>9, <2>10, UnfailingConns DEF Delivers
<1>9. ASSUME NEW e \in Ends, ConnectionTimesOut(e) PROVE FALSE
  BY <1>1, <1>9 DEF ConnectionTimesOut
<1>10. QED
  BY <1>4, <1>5, <1>6, <1>7, <1>8, <1>9, AcceptDelivers, OnConnectedDelivers,
     PeerConnectedDelivers, LostAlone
  DEF MeshStep

\* Whom a server knows by its hash, it sends to.
LEMMA SendsIt ==
  ASSUME HeardInv, Unfailing, NEW s \in Servers, NEW id \in ServerIds,
         hashToPeer[s][id] # None, NEW q, NEW rpc, SendTo(s, id, q, rpc)
  PROVE  /\ UNCHANGED <<peerBeacons, hashToPeer>>
         /\ \E e \in Ends : Remote(e) = s /\ queue' = Pushed(q, e, rpc)
<1> DEFINE f == Entry(s, id)
           e == Other(f)
<1>1. PICK p : p = hashToPeer[s][id] OBVIOUS
<1>2. p \in Servers
  BY <1>1 DEF HeardInv, MigrationInv, MeshInv, TypedMesh, MeshTypeOK
<1>3. f = peerBeacons[s][p] /\ f \in Ends BY <1>1 DEF Entry, Unfailing
<1>4. f \in bound /\ Local(f) = s
  BY <1>2, <1>3, EntryIsBound DEF HeardInv, MigrationInv
<1>5. e \in Ends /\ Valid(e) /\ Remote(e) = s
  <2>1. Both(f) BY <1>4 DEF Unfailing
  <2>2. QED BY <1>3, <1>4, <2>1, EndsOfBoth, EndFacts DEF HeardInv, MigrationInv, Both
<1>6. HasBeacon(s, id) /\ f # Stale BY <1>3, NoBeaconAssumption DEF HasBeacon
<1>7. queue' = Sent(q, e, rpc) BY <1>6 DEF SendTo
<1>8. UNCHANGED <<peerBeacons, hashToPeer>> BY <1>6 DEF SendTo, ForgetStale
<1> HIDE DEF f, e
<1>9. queue' = Pushed(q, e, rpc) BY <1>5, <1>7 DEF Sent, Pushed
<1>10. QED BY <1>5, <1>8, <1>9

\* The object that departs is on its way, and the others stay where they are.
LEMMA HandedOver ==
  ASSUME HeardInv, Unfailing, NEW s \in Servers, NEW o \in Objects,
         NEW id \in ServerIds, hashToPeer[s][id] # None,
         NEW q \in [Ends -> Seq(RPCs)], AskedFor(q), ~OnItsWay(q, o),
         \A p \in Objects : (OnItsWay(q, p) <=> OnItsWay(queue, p)) /\ InOneRPC(q, p),
         HandleOutgoingMigration(s, o, id, q), UNCHANGED <<conns, bound, crashed>>
  PROVE  /\ Unfailing' /\ AskedFor(queue)' /\ OnItsWay(queue', o)
         /\ \A p \in Objects \ {o} : /\ Holders(p)' = Holders(p)
                                     /\ OnItsWay(queue, p) => OnItsWay(queue', p)
<1> DEFINE rpc == Migrated(o)
<1>1. SendTo(s, id, q, rpc) /\ world' = [world EXCEPT ![s] = @ \ {o}]
  BY DEF HandleOutgoingMigration, Departed
<1>2. rpc \in RPCs BY MigratedIsRPC
<1>3. \A p \in Objects \ {o} : rpc # Migrated(p) BY RPCsDiffer
<1>4. \A p, x : rpc # Request(p, x) BY DEF Migrated, Request
<1>5. rpc = Migrated(o) OBVIOUS
<1> HIDE DEF rpc
<1>6. UNCHANGED <<peerBeacons, hashToPeer>> BY <1>1, SendsIt
<1>7. PICK e \in Ends : queue' = Pushed(q, e, rpc) BY <1>1, SendsIt
<1>8. AskedFor(queue') BY <1>2, <1>4, <1>7, PushAsked
<1>9. OnItsWay(queue', o) BY <1>2, <1>5, <1>7, Push
<1>10. \A p \in Objects \ {o} : OnItsWay(queue', p) <=> OnItsWay(queue, p)
  BY <1>2, <1>3, <1>7, Push
<1>11. world \in [Servers -> SUBSET Objects] BY DEF HeardInv, MigrationInv, WorldType
<1>12. \A p \in Objects \ {o} : Holders(p)' = Holders(p) BY <1>1, <1>11 DEF Holders
<1>13. QED BY <1>6, <1>8, <1>9, <1>10, <1>12, UnfailingSame, AskedPrimed

Kept(o) == Holders(o) # {} \/ OnItsWay(queue, o)

Safe == Unfailing /\ AskedFor(queue) /\ \A o \in Objects : Kept(o)

LEMMA TransferKeeps ==
  ASSUME HeardInv, Safe, NEW s \in Servers, NEW o \in Objects, NEW id \in ServerIds,
         TransferActorToServer(s, o, id)
  PROVE  Safe'
<1>1. /\ o \in world[s] /\ hashToPeer[s][id] # None
      /\ HandleOutgoingMigration(s, o, id, queue) /\ UNCHANGED <<conns, bound, crashed>>
  BY DEF TransferActorToServer
<1>2. queue \in [Ends -> Seq(RPCs)] BY QueueType DEF HeardInv
<1>3. \A p \in Objects : InOneRPC(queue, p) BY DEF HeardInv, MigrationInv, InOnePlace
<1>4. ~OnItsWay(queue, o) BY <1>1 DEF HeardInv, MigrationInv, InOnePlace, Holders
<1>5. /\ Unfailing' /\ AskedFor(queue)' /\ OnItsWay(queue', o)
      /\ \A p \in Objects \ {o} : /\ Holders(p)' = Holders(p)
                                  /\ OnItsWay(queue, p) => OnItsWay(queue', p)
  BY <1>1, <1>2, <1>3, <1>4, HandedOver DEF Safe
<1>6. \A p \in Objects : Holders(p)' # {} \/ OnItsWay(queue', p)
  BY <1>5 DEF Safe, Kept
<1>7. (\A p \in Objects : Kept(p))' BY <1>6 DEF Kept, OnItsWay, At, Migrated
<1>8. QED BY <1>5, <1>7 DEF Safe

LEMMA RequestKeeps ==
  ASSUME HeardInv, Safe, NEW s \in Servers, NEW o \in Objects, NEW id \in ServerIds,
         HandleObjectRequest(s, o, id)
  PROVE  Safe'
<1> DEFINE rpc == Request(o, HashServerIdToRange(s))
<1>1. /\ SendTo(s, id, queue, rpc) /\ world' = world /\ UNCHANGED <<conns, bound, crashed>>
  BY DEF HandleObjectRequest
<1>2. rpc \in RPCs BY MigratedIsRPC DEF ServerIds
<1>3. /\ \A p : rpc # Migrated(p)
      /\ \A p, x : rpc = Request(p, x) => x = HashServerIdToRange(s)
  BY DEF Request, Migrated
<1>4. queue \in [Ends -> Seq(RPCs)] BY QueueType DEF HeardInv
<1>5. \A p \in Objects : InOneRPC(queue, p) BY DEF HeardInv, MigrationInv, InOnePlace
<1> HIDE DEF rpc
<1>6. /\ UNCHANGED <<peerBeacons, hashToPeer>>
      /\ queue' = queue \/ \E e \in Ends : Remote(e) = s /\ queue' = Pushed(queue, e, rpc)
  <2>1. CASE hashToPeer[s][id] = None
    <3>1. Entry(s, id) = None BY <2>1 DEF Entry
    <3>2. ~HasBeacon(s, id) /\ Entry(s, id) # Stale
      BY <3>1, NoBeaconAssumption DEF HasBeacon
    <3>3. QED BY <1>1, <3>2 DEF SendTo, ForgetStale
  <2>2. CASE hashToPeer[s][id] # None BY <1>1, <2>2, SendsIt DEF Safe
  <2>3. QED BY <2>1, <2>2
<1>7. AskedFor(queue')
  <2>1. ASSUME NEW e \in Ends, Remote(e) = s, queue' = Pushed(queue, e, rpc)
        PROVE  AskedFor(queue')
    BY <1>2, <1>3, <1>4, <2>1, PushAsked DEF Safe
  <2>2. QED BY <1>6, <2>1 DEF Safe
<1>8. \A p \in Objects : OnItsWay(queue, p) => OnItsWay(queue', p)
  BY <1>2, <1>3, <1>4, <1>5, <1>6, Push
<1>9. Unfailing' /\ AskedFor(queue)' BY <1>1, <1>6, <1>7, UnfailingSame, AskedPrimed DEF Safe
<1>10. \A p \in Objects : Holders(p)' # {} \/ OnItsWay(queue', p)
  BY <1>1, <1>8 DEF Safe, Kept, Holders
<1>11. (\A p \in Objects : Kept(p))' BY <1>10 DEF Kept, OnItsWay, At, Migrated
<1>12. QED BY <1>9, <1>11 DEF Safe

\* The first RPC of a queue finds its end bound, when it is data.
LEMMA FirstIsHeard ==
  ASSUME HeardInv, Unfailing, NEW e \in Ends, queue[e] # <<>>,
         Head(queue[e]) \notin Handshake
  PROVE  e \in bound
<1>1. queue \in [Ends -> Seq(RPCs)] BY QueueType DEF HeardInv
<1>2. 1 \in DOMAIN queue[e] /\ Head(queue[e]) = queue[e][1] BY <1>1, PopFacts
<1>3. ~AheadIn(queue[e])
  <2>1. \A j \in DOMAIN queue[e] : j \in Nat /\ ~(j < 1) BY <1>1
  <2>2. QED BY <1>2, <2>1 DEF AheadIn
<1>4. Both(e) BY DEF HeardInv, ChannelInv, Channels
<1>5. Steady(e)
  <2>1. MigrationInv /\ DialInv /\ crashed = {} BY DEF HeardInv, Unfailing
  <2>2. Local(e) \in Servers /\ Remote(e) \in Servers BY <1>4, <2>1, EndsOfBoth DEF MigrationInv
  <2>3. QED BY <1>4, <2>1, <2>2, UncrashedLast DEF MigrationInv, Steady
<1>6. QED BY <1>3, <1>5 DEF HeardInv, ChannelInv, Channels, Channel

LEMMA ReceiveKeeps ==
  ASSUME HeardInv, Safe, NEW e \in Ends, NEW o \in Objects, ReceiveMigratedObject(e, o)
  PROVE  Safe'
<1>1. /\ queue[e] # <<>> /\ Head(queue[e]) = Migrated(o) /\ queue' = Popped(queue, e)
      /\ world' = IF Heard(e) THEN [world EXCEPT ![Local(e)] = @ \cup {o}] ELSE world
      /\ UNCHANGED <<conns, bound, peerBeacons, hashToPeer, crashed>>
  BY DEF ReceiveMigratedObject, Arrives, Popped
<1>2. queue \in [Ends -> Seq(RPCs)] BY QueueType DEF HeardInv
<1>3. Heard(e) BY <1>1, FirstIsHeard, DataIsNoHandshake DEF Heard, Safe
<1>4. PICK s \in Servers : s = Local(e)
  BY <1>1, PopReaches, BoundPeers DEF HeardInv, MigrationInv, MeshInv, TypedMesh
<1>5. world \in [Servers -> SUBSET Objects] BY DEF HeardInv, MigrationInv, WorldType
<1>6. world' = [world EXCEPT ![s] = @ \cup {o}] BY <1>1, <1>3, <1>4
<1>7. o \in world'[s] /\ \A r \in Servers : world[r] \subseteq world'[r] BY <1>5, <1>6
<1>8. ASSUME NEW p \in Objects, p # o PROVE OnItsWay(queue', p) <=> OnItsWay(queue, p)
  <2>1. Head(queue[e]) # Migrated(p) BY <1>1, <1>8, RPCsDiffer
  <2>2. QED BY <1>1, <1>2, <2>1, PopOther
<1>9. AskedFor(queue') BY <1>1, <1>2, PopAsked DEF Safe
<1>10. Unfailing' /\ AskedFor(queue)' BY <1>1, <1>9, UnfailingSame, AskedPrimed DEF Safe
<1>11. ASSUME NEW p \in Objects PROVE Holders(p)' # {} \/ OnItsWay(queue', p)
  <2>1. CASE p = o
    <3>1. s \in Holders(p)' BY <1>7, <2>1 DEF Holders
    <3>2. QED BY <3>1
  <2>2. CASE p # o
    <3>1. Kept(p) BY DEF Safe
    <3>2. Holders(p) \subseteq Holders(p)' BY <1>7 DEF Holders
    <3>3. QED BY <1>8, <2>2, <3>1, <3>2 DEF Kept
  <2>3. QED BY <2>1, <2>2
<1>12. (\A p \in Objects : Kept(p))' BY <1>11 DEF Kept, OnItsWay, At, Migrated
<1>13. QED BY <1>10, <1>12 DEF Safe

LEMMA AnswerKeeps ==
  ASSUME HeardInv, Safe, NEW e \in Ends, NEW o \in Objects, NEW id \in ServerIds,
         RequestMigrateObject(e, o, id)
  PROVE  Safe'
<1> DEFINE q == Popped(queue, e)
<1>1. /\ queue[e] # <<>> /\ Head(queue[e]) = Request(o, id)
      /\ \/ /\ o \in world[Local(e)] /\ e \in bound
            /\ HandleOutgoingMigration(Local(e), o, id, q)
         \/ queue' = q /\ UNCHANGED <<peerBeacons, hashToPeer, world>>
      /\ UNCHANGED <<conns, bound, crashed>>
  BY DEF RequestMigrateObject, Arrives, Popped, FoundActor, Heard
<1>2. queue \in [Ends -> Seq(RPCs)] BY QueueType DEF HeardInv
<1>3. q \in [Ends -> Seq(RPCs)] BY <1>1, <1>2, PopFacts
<1>4. ASSUME NEW p \in Objects
      PROVE  (OnItsWay(q, p) <=> OnItsWay(queue, p)) /\ InOneRPC(q, p)
  <2>1. Request(o, id) # Migrated(p) BY DEF Request, Migrated
  <2>2. InOneRPC(queue, p) BY DEF HeardInv, MigrationInv, InOnePlace
  <2>3. QED BY <1>1, <1>2, <2>1, <2>2, PopOther
<1>5. AskedFor(q) BY <1>1, <1>2, PopAsked DEF Safe
<1> PICK s \in Servers : s = Local(e)
  BY <1>1, PopReaches, BoundPeers DEF HeardInv, MigrationInv, MeshInv, TypedMesh
<1> HIDE DEF q
<1>6. CASE o \in world[s] /\ e \in bound /\ HandleOutgoingMigration(s, o, id, q)
  <2>1. id = HashServerIdToRange(Remote(e))
    <3>1. 1 \in DOMAIN queue[e] /\ queue[e][1] = Request(o, id) BY <1>1, <1>2, PopFacts
    <3>2. QED BY <3>1 DEF Safe, AskedFor
  <2>2. hashToPeer[s][id] # None BY <1>6, <2>1 DEF Safe, Unfailing
  <2>3. ~OnItsWay(q, o)
    <3>1. ~OnItsWay(queue, o) BY <1>6 DEF HeardInv, MigrationInv, InOnePlace, Holders
    <3>2. QED BY <1>4, <3>1
  <2>4. /\ Unfailing' /\ AskedFor(queue)' /\ OnItsWay(queue', o)
        /\ \A p \in Objects \ {o} : /\ Holders(p)' = Holders(p)
                                    /\ OnItsWay(queue, p) => OnItsWay(queue', p)
    BY <1>1, <1>3, <1>4, <1>5, <1>6, <2>2, <2>3, HandedOver DEF Safe
  <2>5. \A p \in Objects : Holders(p)' # {} \/ OnItsWay(queue', p)
    BY <2>4 DEF Safe, Kept
  <2>6. (\A p \in Objects : Kept(p))' BY <2>5 DEF Kept, OnItsWay, At, Migrated
  <2>7. QED BY <2>4, <2>6 DEF Safe
<1>7. CASE queue' = q /\ UNCHANGED <<peerBeacons, hashToPeer, world>>
  <2>1. Unfailing' /\ AskedFor(queue)'
    BY <1>1, <1>5, <1>7, UnfailingSame, AskedPrimed DEF Safe
  <2>2. \A p \in Objects : Holders(p)' # {} \/ OnItsWay(queue', p)
    BY <1>4, <1>7 DEF Safe, Kept, Holders
  <2>3. (\A p \in Objects : Kept(p))' BY <2>2 DEF Kept, OnItsWay, At, Migrated
  <2>4. QED BY <2>1, <2>3 DEF Safe
<1>8. QED BY <1>1, <1>6, <1>7

LEMMA SafeNext ==
  ASSUME OneDialer, HeardInv, failures = 0 => Safe, [Next]_vars
  PROVE  failures' = 0 => Safe'
<1>1. failures \in Nat BY DEF HeardInv, MigrationInv, MeshInv, TypedMesh, MeshTypeOK
<1>2. ASSUME MeshStep, world' = world, failures' = 0 PROVE Safe'
  <2>1. failures' \in {failures, failures + 1}
    BY <1>2
    DEF MeshStep, Register, InitializeFromCommandLine, Registered, InitializeDSTMMesh,
        AcceptBeacon, RefuseBeacon, OnConnected, PeerConnected, ConnectionLost,
        ConnectionTimesOut, Retry
  <2>2. failures' = failures /\ failures = 0 BY <1>1, <1>2, <2>1
  <2>3. Delivers BY <1>2, <2>2, MeshDelivers DEF Safe
  <2>4. \A p \in Objects : Holders(p)' # {} \/ OnItsWay(queue', p)
    BY <1>2, <2>2, <2>3 DEF Safe, Kept, Holders, Delivers
  <2>5. (\A p \in Objects : Kept(p))' BY <2>4 DEF Kept, OnItsWay, At, Migrated
  <2>6. QED BY <2>3, <2>5 DEF Safe, Delivers
<1>3. ASSUME NEW s \in Servers, CrashWorld(s), failures' = 0 PROVE FALSE
  BY <1>1, <1>3 DEF CrashWorld, Crash
<1>4. ASSUME NEW s \in Servers, NEW o \in Objects, NEW id \in ServerIds, failures' = 0,
             TransferActorToServer(s, o, id) \/ HandleObjectRequest(s, o, id)
      PROVE  Safe'
  <2>1. Safe BY <1>4 DEF TransferActorToServer, HandleObjectRequest
  <2>2. QED BY <1>4, <2>1, TransferKeeps, RequestKeeps
<1>5. ASSUME NEW e \in Ends, NEW o \in Objects, failures' = 0, ReceiveMigratedObject(e, o)
      PROVE  Safe'
  BY <1>5, ReceiveKeeps DEF ReceiveMigratedObject
<1>6. ASSUME NEW e \in Ends, NEW o \in Objects, NEW id \in ServerIds, failures' = 0,
             RequestMigrateObject(e, o, id)
      PROVE  Safe'
  BY <1>6, AnswerKeeps DEF RequestMigrateObject
<1>7. ASSUME UNCHANGED vars, failures' = 0 PROVE Safe'
  <2>1. Safe /\ UNCHANGED <<conns, bound, peerBeacons, hashToPeer, crashed>>
        /\ queue' = queue /\ world' = world
    BY <1>7
  <2>2. Unfailing' /\ AskedFor(queue)' BY <2>1, UnfailingSame, AskedPrimed DEF Safe
  <2>3. (\A p \in Objects : Kept(p))'
    BY <2>1 DEF Safe, Kept, Holders, OnItsWay, At, Migrated
  <2>4. QED BY <2>2, <2>3 DEF Safe
<1>8. QED BY <1>2, <1>3, <1>4, <1>5, <1>6, <1>7 DEF Next

LEMMA SafeInit == ASSUME InitObjects PROVE Safe
<1>1. Init /\ world = [s \in Servers |-> {o \in Objects : Home[o] = s}] BY DEF InitObjects
<1>2. /\ crashed = {} /\ DOMAIN conns = {} /\ bound = {} /\ queue = [e \in Ends |-> <<>>]
      /\ peerBeacons = [s \in Servers |-> [p \in Servers |-> None]]
      /\ hashToPeer = [s \in Servers |-> [x \in ServerIds |-> None]]
  BY <1>1 DEF Init
<1>3. Unfailing BY <1>2, NoBeaconAssumption DEF Unfailing
<1>4. AskedFor(queue)
  <2>1. DOMAIN <<>> = {} OBVIOUS
  <2>2. QED BY <1>2, <2>1 DEF AskedFor
<1>5. \A o \in Objects : Home[o] \in Holders(o) BY <1>1, ObjectsAssumption DEF Holders
<1>6. QED BY <1>3, <1>4, <1>5 DEF Safe, Kept

\* While no process and no connection fails, an object that leaves a world is on its way to
\* a server that will put it into its own, also when it is asked for by two servers and
\* when beacons are refused and dialled again: of two servers one dials the other, as
\* RegisterServer has it, and none of them takes the other's connection for its own.
THEOREM ObjectsAreNotLost == ASSUME OneDialer PROVE Spec => []NoObjectLost
<1>1. ASSUME failures = 0 => Safe PROVE NoObjectLost
  <2> SUFFICES ASSUME failures = 0, NEW o \in Objects
               PROVE  \/ \E s \in Servers : o \in world[s]
                      \/ \E e \in Ends : Carries(e, o)
    BY DEF NoObjectLost
  <2>1. Kept(o) BY <1>1 DEF Safe
  <2>2. QED BY <2>1 DEF Kept, Holders, OnItsWay, At, Carries, Range
<1>2. InitObjects => (failures = 0 => Safe) BY SafeInit
<1>3. HeardInv /\ (failures = 0 => Safe) /\ [Next]_vars => (failures = 0 => Safe)'
  BY SafeNext
<1>4. QED BY <1>1, <1>2, <1>3, HeardInvariant, PTL DEF Spec
=============================================================================
