------------------------ MODULE ProxyHandshakeProofs ------------------------
(***************************************************************************)
(* The handshakes of new routes, for every value of the constants and      *)
(* every environment: a split join is neither lost nor sent twice.         *)
(*                                                                         *)
(* HandshakesInProgress says where the handshake of a route can be; the    *)
(* inductive invariant adds what the tables promise each other: whom a     *)
(* queued split join is for, over which parent connection a player         *)
(* controller can be on its way, and that a deferred reassignment names    *)
(* routes whose handshake is over.                                         *)
(***************************************************************************)
EXTENDS ProxyRoutesProofs

USE DEF NoId, gameVars

\* A queued split join waits for its parent connection, and is for a route of that server
\* which has no child yet.
QueuedJoins ==
    \A s \in Servers : \A r \in splitJoins[s] :
        /\ parent[s] \in {"pending", "closed"}
        /\ r.id \in Live \ closedChildren
        /\ routes[r.id].server = s
        /\ ~routes[r.id].conn
        /\ pcs[r.id] = <<>>
        /\ \A q \in splitJoins[s] : q.id = r.id => q.pc = r.pc

\* Player controllers come over open parent connections to children that are open.
SentControllers ==
    \A h \in Ids : pcs[h] # <<>> =>
        /\ h \in Live \ closedChildren
        /\ parent[routes[h].server] = "open"

\* A route without a child is waiting for something.
OpenHandshakes ==
    \A h \in Live : ~routes[h].conn =>
        \/ h \in closedChildren
        \/ parent[routes[h].server] = "closed"
        \/ Requested(h)
        \/ pcs[h] # <<>>

\* A route that is past its handshake has a child, and so has one that is named by a
\* deferred reassignment.
FinishedHandshakes ==
    /\ \A h \in Live : routes[h].state \notin StillConnecting \cup {"PendingClose"} =>
          routes[h].conn
    /\ \A c \in Clients : \A h \in {deferred[c].prev, deferred[c].game} \ {NoId} :
          h \in Live => routes[h].conn

\* Pawns are behind open connections, on routes of their client, who has not left.
Homes ==
    \A c \in Clients : home[c] # NoId =>
        /\ client[c] # "closed"
        /\ home[c] \in Live \ closedChildren
        /\ routes[home[c]].client = c
        /\ parent[routes[home[c]].server] = "open"

\* The entries of the array have a driver or may get one; closed children have ids that
\* were handed out.
Entries ==
    /\ \A s \in Range(gameServers) : parent[s] \in {"none", "pending", "open", "closed"}
    /\ \A h \in closedChildren : h < nextId

Handshakes ==
    /\ QueuedJoins
    /\ SentControllers
    /\ OpenHandshakes
    /\ FinishedHandshakes
    /\ Homes
    /\ Entries

QueuesWait == \A s \in Servers : splitJoins[s] # {} => parent[s] \in {"pending", "closed"}

HandshakeInv == RouteInv /\ QueuesWait /\ (Running => Handshakes)

-----------------------------------------------------------------------------
LEMMA InitHandshakes == Init => QueuesWait /\ Handshakes
<1> SUFFICES ASSUME Init PROVE QueuesWait /\ Handshakes OBVIOUS
<1>1. /\ gameServers = StartupServers /\ routes = <<>> /\ closedChildren = {}
      /\ parent = [s \in Servers |->
                     IF s \in Range(StartupServers) THEN "none" ELSE "unregistered"]
      /\ splitJoins = [s \in Servers |-> {}] /\ pcs = [h \in Ids |-> <<>>]
      /\ home = [c \in Clients |-> NoId] /\ deferred = [c \in Clients |-> NoReassignment]
  BY DEF Init
<1>2. Live = {} BY <1>1 DEF Live
<1>3. Range(StartupServers) \subseteq Servers
  <2>1. StartupServers \in Seq(Servers) BY ConstantsAssumption DEF ConstantsAssumption
  <2>2. QED BY <2>1 DEF Range
<1>4. QED
  BY <1>1, <1>2, <1>3 DEF QueuesWait, Handshakes, QueuedJoins, SentControllers,
     OpenHandshakes, FinishedHandshakes, Homes, Entries, NoReassignment

-----------------------------------------------------------------------------
(* New routes.                                                             *)

\* What ConnectToGameServer does to the queues and to the environment.
Connects ==
    /\ \A s \in Servers : /\ parent[s] \in {"pending", "open", "closed"} => parent'[s] = parent[s]
                          /\ splitJoins[s] \subseteq splitJoins'[s]
    /\ \A s \in Servers : \A r \in splitJoins'[s] \ splitJoins[s] :
          /\ r.id \in Live' \ Live
          /\ routes'[r.id].server = s
          /\ r.pc = IF routes'[r.id].state = "ConnectingPrimary" THEN "game" ELSE "noPawn"
          /\ parent'[s] \in {"pending", "closed"}
          /\ pcs'[r.id] = <<>>
    /\ \A h \in Ids \ (Live' \ Live) : pcs'[h] = pcs[h]
    /\ \A h \in Live' \ Live :
          \/ Requested(h)' /\ pcs'[h] = <<>>
          \/ /\ pcs'[h] = <<IF routes'[h].state = "ConnectingPrimary" THEN "game" ELSE "noPawn">>
             /\ parent'[routes'[h].server] = "open"
    /\ \A c \in Clients : home'[c] # home[c] =>
          /\ home'[c] \in Live' \ Live
          /\ routes'[home'[c]].client = c
          /\ routes'[home'[c]].state = "ConnectingPrimary"
          /\ pcs'[home'[c]] # <<>>
    /\ \A h \in Live' \ Live :
          routes'[h].state = "ConnectingPrimary" /\ pcs'[h] # <<>> =>
              home'[routes'[h].client] \in {g \in Live' \ Live :
                  /\ routes'[g].client = routes'[h].client
                  /\ routes'[g].state = "ConnectingPrimary"}

\* What SendSplitJoins leaves behind.
LEMMA SendSplitJoinsSends ==
  ASSUME NEW sent, sent \subseteq SplitJoin, SendSplitJoins(sent),
         \A q, r \in sent : q.id = r.id => q.pc = r.pc
  PROVE  /\ \A r \in sent : pcs'[r.id] = <<r.pc>>
         /\ \A h \in Ids : (\A r \in sent : r.id # h) => pcs'[h] = pcs[h]
         /\ \A c \in Clients : \/ home'[c] = home[c]
                               \/ \E r \in sent : /\ home'[c] = r.id
                                                  /\ routes'[r.id].client = c
                                                  /\ routes'[r.id].state = "ConnectingPrimary"
         /\ \A r \in sent :
              routes'[r.id].client \in Clients /\ routes'[r.id].state = "ConnectingPrimary" =>
              \E q \in sent : /\ home'[routes'[r.id].client] = q.id
                              /\ routes'[q.id].client = routes'[r.id].client
                              /\ routes'[q.id].state = "ConnectingPrimary"
<1> DEFINE Q(c, r) == /\ routes'[r.id].client = c
                      /\ routes'[r.id].state = "ConnectingPrimary"
<1>1. pcs' = [h \in Ids |-> IF \E r \in sent : r.id = h
                              THEN <<(CHOOSE r \in sent : r.id = h).pc>> ELSE pcs[h]]
  BY DEF SendSplitJoins
<1>2. home' = [c \in Clients |-> IF \E r \in sent : Q(c, r)
                                   THEN (CHOOSE r \in sent : Q(c, r)).id ELSE home[c]]
  BY DEF SendSplitJoins
<1>3. ASSUME NEW r \in sent PROVE pcs'[r.id] = <<r.pc>>
  <2>1. r.id \in Ids BY DEF SplitJoin
  <2>2. LET q == CHOOSE q \in sent : q.id = r.id IN q \in sent /\ q.id = r.id OBVIOUS
  <2>3. (CHOOSE q \in sent : q.id = r.id).pc = r.pc BY <2>2
  <2>4. QED BY <1>1, <2>1, <2>3
<1>4. \A h \in Ids : (\A r \in sent : r.id # h) => pcs'[h] = pcs[h] BY <1>1
<1> HIDE DEF Q
<1>5. ASSUME NEW c \in Clients, \E r \in sent : Q(c, r)
      PROVE  \E r \in sent : home'[c] = r.id /\ Q(c, r)
  <2>1. (CHOOSE r \in sent : Q(c, r)) \in sent /\ Q(c, CHOOSE r \in sent : Q(c, r)) BY <1>5
  <2>2. QED BY <1>2, <1>5, <2>1
<1>6. \A c \in Clients : \/ home'[c] = home[c]
                         \/ \E r \in sent : home'[c] = r.id /\ Q(c, r)
  <2>1. \A c \in Clients : ~(\E r \in sent : Q(c, r)) => home'[c] = home[c] BY <1>2
  <2>2. QED BY <1>5, <2>1
<1>7. ASSUME NEW r \in sent, routes'[r.id].client \in Clients,
             routes'[r.id].state = "ConnectingPrimary"
      PROVE  \E q \in sent : home'[routes'[r.id].client] = q.id /\ Q(routes'[r.id].client, q)
  <2>1. Q(routes'[r.id].client, r) BY <1>7 DEF Q
  <2>2. QED BY <1>5, <1>7, <2>1
<1>8. QED BY <1>3, <1>4, <1>6, <1>7 DEF Q

LEMMA ConnectSends ==
  ASSUME RouteInv, QueuesWait, SentControllers, NEW reqs \in Seq(Request),
         NEW conns \in [Servers -> {"unregistered", "none", "pending", "open", "closed",
                                    "destroyed"}],
         \A s \in Servers : \/ conns[s] = parent[s]
                            \/ parent[s] = "unregistered" /\ conns[s] = "none",
         \A i \in DOMAIN reqs :
            conns[reqs[i].server] \in {"none", "pending", "open", "closed"},
         ConnectToGameServer(conns, reqs)
  PROVE  Connects
<1> DEFINE id(i)    == nextId + i - 1
           pc(i)    == IF reqs[i].primary THEN "game" ELSE "noPawn"
           touched  == {reqs[i].server : i \in DOMAIN reqs}
           new(s)   == {[id |-> id(i), pc |-> pc(i)] :
                          i \in {j \in DOMAIN reqs : reqs[j].server = s}}
           flushed  == {s \in touched : CanSplitJoin(conns[s])}
           sent     == UNION {splitJoins[s] \cup new(s) : s \in flushed}
<1>1. TypeOK BY DEF RouteInv
<1>2. /\ nextId \in Nat /\ nextId >= 1 /\ Len(reqs) \in Nat /\ DOMAIN reqs = 1 .. Len(reqs)
      /\ nextId + Len(reqs) - 1 <= MaxIds /\ MaxIds \in Nat
  <2>1. MaxIds \in Nat BY ConstantsAssumption DEF ConstantsAssumption
  <2>2. nextId \in 1 .. MaxIds + 1 BY <1>1 DEF TypeOK
  <2>3. nextId + Len(reqs) - 1 <= MaxIds BY DEF ConnectToGameServer
  <2>4. Len(reqs) \in Nat /\ DOMAIN reqs = 1 .. Len(reqs) OBVIOUS
  <2>5. nextId \in Nat /\ nextId >= 1 BY <2>1, <2>2
  <2>6. QED BY <2>1, <2>3, <2>4, <2>5
<1>3. \A i \in DOMAIN reqs : reqs[i] \in Request /\ id(i) \in Ids /\ id(i) >= nextId
  BY <1>2 DEF Ids
<1>4. \A h \in Live : h < nextId /\ h \in Ids BY <1>1 DEF RouteInv, DeferredAreOwn, TypeOK
<1>5. /\ Live' = Live \cup {id(i) : i \in DOMAIN reqs}
      /\ routes' = [h \in Live' |-> IF h \in Live THEN routes[h]
                                    ELSE NewRoute(reqs[h - nextId + 1])]
  BY DEF ConnectToGameServer, Live
<1>6. ASSUME NEW i \in DOMAIN reqs
      PROVE  /\ id(i) \in Live' \ Live
             /\ routes'[id(i)].client = reqs[i].client
             /\ routes'[id(i)].server = reqs[i].server
             /\ routes'[id(i)].state = "ConnectingPrimary" <=> reqs[i].primary
  <2>1. id(i) \in Live' BY <1>5
  <2>2. id(i) \notin Live
    <3>1. id(i) >= nextId /\ id(i) \in Int BY <1>2, <1>3 DEF Ids
    <3>2. QED BY <1>2, <1>4, <3>1
  <2>3. id(i) - nextId + 1 = i BY <1>2
  <2>4. routes'[id(i)] = NewRoute(reqs[i]) BY <1>5, <2>1, <2>2, <2>3
  <2>5. QED BY <2>1, <2>2, <2>4 DEF NewRoute
<1>7. \A h \in Live' \ Live : \E i \in DOMAIN reqs : h = id(i) BY <1>5
<1>8. \A i, j \in DOMAIN reqs : id(i) = id(j) => i = j BY <1>2
<1>9. /\ parent' = [s \in Servers |->
                      IF s \in touched /\ conns[s] = "none" THEN "pending" ELSE conns[s]]
      /\ splitJoins' = [s \in Servers |-> IF s \in flushed THEN {} ELSE splitJoins[s] \cup new(s)]
      /\ SendSplitJoins(sent)
  BY DEF ConnectToGameServer
<1>10. \A s \in flushed : /\ s \in Servers /\ conns[s] = "open" /\ parent[s] = "open"
                          /\ splitJoins[s] = {} /\ parent'[s] = "open"
  <2>1. \A s \in flushed : s \in Servers /\ conns[s] = "open"
    BY <1>3 DEF CanSplitJoin, Request
  <2>2. \A s \in Servers : conns[s] = "open" => parent'[s] = "open" BY <1>9
  <2>3. \A s \in Servers : conns[s] = "open" => parent[s] \in {"open", "unregistered"}
    OBVIOUS
  <2>4. \A s \in Servers : parent[s] \in {"open", "unregistered"} => splitJoins[s] = {}
    BY DEF QueuesWait
  <2>5. QED BY <2>1, <2>2, <2>3, <2>4
<1>11. \A r \in sent : \E i \in DOMAIN reqs :
           /\ reqs[i].server \in flushed
           /\ r.id = id(i) /\ r.pc = pc(i) /\ r \in SplitJoin
  <2>1. ASSUME NEW s \in flushed, NEW r \in new(s)
        PROVE  \E i \in DOMAIN reqs : /\ reqs[i].server \in flushed
                                      /\ r.id = id(i) /\ r.pc = pc(i) /\ r \in SplitJoin
    <3>1. PICK i \in DOMAIN reqs : reqs[i].server = s /\ r = [id |-> id(i), pc |-> pc(i)]
      BY <2>1
    <3>2. id(i) \in Ids /\ pc(i) \in PC BY <1>3 DEF PC
    <3> HIDE DEF id, pc, flushed
    <3>3. QED BY <2>1, <3>1, <3>2 DEF SplitJoin
  <2> HIDE DEF id, pc, flushed, new
  <2>2. QED BY <1>10, <2>1
<1>12. \A i \in DOMAIN reqs : reqs[i].server \in flushed =>
           \E r \in sent : r.id = id(i) /\ r.pc = pc(i)
  <2>1. ASSUME NEW i \in DOMAIN reqs
        PROVE  [id |-> id(i), pc |-> pc(i)] \in new(reqs[i].server)
    OBVIOUS
  <2>2. ASSUME NEW i \in DOMAIN reqs, reqs[i].server \in flushed
        PROVE  [id |-> id(i), pc |-> pc(i)] \in sent
    <3> HIDE DEF id, pc, flushed, new
    <3>1. QED BY <2>1, <2>2
  <2> HIDE DEF id, pc, flushed, new, sent
  <2>3. QED BY <2>2
<1>13. /\ sent \subseteq SplitJoin
       /\ \A q, r \in sent : q.id = r.id => q.pc = r.pc
  <2> HIDE DEF id, flushed, new, sent, pc
  <2>1. QED BY <1>8, <1>11
<1>14. /\ \A r \in sent : pcs'[r.id] = <<r.pc>>
       /\ \A h \in Ids : (\A r \in sent : r.id # h) => pcs'[h] = pcs[h]
       /\ \A c \in Clients : \/ home'[c] = home[c]
                             \/ \E r \in sent : /\ home'[c] = r.id
                                                /\ routes'[r.id].client = c
                                                /\ routes'[r.id].state = "ConnectingPrimary"
       /\ \A r \in sent :
            routes'[r.id].client \in Clients /\ routes'[r.id].state = "ConnectingPrimary" =>
              \E q \in sent : /\ home'[routes'[r.id].client] = q.id
                              /\ routes'[q.id].client = routes'[r.id].client
                              /\ routes'[q.id].state = "ConnectingPrimary"
  <2> HIDE DEF sent
  <2>1. QED BY <1>9, <1>13, SendSplitJoinsSends
<1> HIDE DEF id, flushed, sent, touched
<1>15. \A r \in sent : r.id \in Live' \ Live BY <1>6, <1>11
<1>16. ASSUME NEW i \in DOMAIN reqs, reqs[i].server \notin flushed
       PROVE  pcs'[id(i)] = pcs[id(i)] /\ [id |-> id(i), pc |-> pc(i)] \in splitJoins'[reqs[i].server]
              /\ parent'[reqs[i].server] \in {"pending", "closed"}
  <2>1. \A r \in sent : r.id # id(i) BY <1>8, <1>11, <1>16
  <2>2. reqs[i].server \in Servers /\ id(i) \in Ids BY <1>3 DEF Request
  <2>3. [id |-> id(i), pc |-> pc(i)] \in new(reqs[i].server) OBVIOUS
  <2>4. reqs[i].server \in touched BY DEF touched
  <2>5. conns[reqs[i].server] \in {"none", "pending", "closed"}
    BY <1>16, <2>4 DEF flushed, CanSplitJoin
  <2> HIDE DEF new, pc
  <2>6. QED BY <1>9, <1>14, <1>16, <2>1, <2>2, <2>3, <2>4, <2>5
<1>17. ASSUME NEW s \in Servers
       PROVE  /\ parent[s] \in {"pending", "open", "closed"} => parent'[s] = parent[s]
              /\ splitJoins[s] \subseteq splitJoins'[s]
  <2> HIDE DEF new
  <2>1. QED BY <1>9, <1>10
<1>18. ASSUME NEW s \in Servers, NEW r \in splitJoins'[s] \ splitJoins[s]
       PROVE  /\ r.id \in Live' \ Live
              /\ routes'[r.id].server = s
              /\ r.pc = IF routes'[r.id].state = "ConnectingPrimary" THEN "game" ELSE "noPawn"
              /\ parent'[s] \in {"pending", "closed"}
              /\ pcs'[r.id] = <<>>
  <2>1. s \notin flushed /\ r \in new(s) BY <1>9, <1>18
  <2>2. PICK i \in DOMAIN reqs : reqs[i].server = s /\ r = [id |-> id(i), pc |-> pc(i)]
    BY <2>1
  <2>3. r.id = id(i) /\ r.pc = pc(i) BY <2>2
  <2>4. /\ id(i) \in Live' \ Live /\ routes'[id(i)].server = s
        /\ routes'[id(i)].state = "ConnectingPrimary" <=> reqs[i].primary
    BY <1>6, <2>2
  <2>5. pcs'[id(i)] = pcs[id(i)] /\ parent'[s] \in {"pending", "closed"}
    BY <1>16, <2>1, <2>2
  <2>6. pcs[id(i)] = <<>> BY <1>3, <2>4 DEF SentControllers
  <2>7. QED BY <2>3, <2>4, <2>5, <2>6
<1>19. \A h \in Ids \ (Live' \ Live) : pcs'[h] = pcs[h] BY <1>14, <1>15
<1>20. ASSUME NEW h \in Live' \ Live
       PROVE  \/ Requested(h)' /\ pcs'[h] = <<>>
              \/ /\ pcs'[h] = <<IF routes'[h].state = "ConnectingPrimary" THEN "game" ELSE "noPawn">>
                 /\ parent'[routes'[h].server] = "open"
  <2>1. PICK i \in DOMAIN reqs : h = id(i) BY <1>7
  <2>2. /\ routes'[h].server = reqs[i].server
        /\ routes'[h].state = "ConnectingPrimary" <=> reqs[i].primary
    BY <1>6, <2>1
  <2>3. CASE reqs[i].server \in flushed
    <3>1. PICK r \in sent : r.id = h /\ r.pc = pc(i) BY <1>12, <2>1, <2>3
    <3>2. pcs'[h] = <<r.pc>> BY <1>14, <3>1
    <3>3. QED BY <1>10, <2>2, <2>3, <3>1, <3>2
  <2>4. CASE reqs[i].server \notin flushed
    <3>1. pcs'[h] = pcs[h] /\ [id |-> h, pc |-> pc(i)] \in splitJoins'[reqs[i].server]
      BY <1>16, <2>1, <2>4
    <3>2. pcs[h] = <<>> BY <1>3, <2>1 DEF SentControllers
    <3>3. reqs[i].server \in Servers BY <1>3 DEF Request
    <3> HIDE DEF pc
    <3>4. [id |-> h, pc |-> pc(i)].id = h OBVIOUS
    <3>5. Requested(h)' BY <3>1, <3>3, <3>4 DEF Requested
    <3>6. QED BY <3>1, <3>2, <3>5
  <2>5. QED BY <2>3, <2>4
<1>21. ASSUME NEW c \in Clients, home'[c] # home[c]
       PROVE  /\ home'[c] \in Live' \ Live
              /\ routes'[home'[c]].client = c
              /\ routes'[home'[c]].state = "ConnectingPrimary"
              /\ pcs'[home'[c]] # <<>>
  <2>1. PICK r \in sent : /\ home'[c] = r.id /\ routes'[r.id].client = c
                          /\ routes'[r.id].state = "ConnectingPrimary"
    BY <1>14, <1>21
  <2>2. pcs'[r.id] = <<r.pc>> BY <1>14
  <2>3. <<r.pc>> # <<>> OBVIOUS
  <2>4. QED BY <1>15, <2>1, <2>2, <2>3
<1>22. ASSUME NEW h \in Live' \ Live, routes'[h].state = "ConnectingPrimary", pcs'[h] # <<>>
       PROVE  home'[routes'[h].client] \in {g \in Live' \ Live :
                  /\ routes'[g].client = routes'[h].client
                  /\ routes'[g].state = "ConnectingPrimary"}
  <2>1. PICK i \in DOMAIN reqs : h = id(i) BY <1>7
  <2>2. routes'[h].client \in Clients BY <1>3, <1>6, <2>1 DEF Request
  <2>3. h \in Ids /\ pcs[h] = <<>> BY <1>3, <2>1 DEF SentControllers
  <2>4. PICK r \in sent : r.id = h BY <1>14, <1>22, <2>3
  <2>5. QED BY <1>14, <1>15, <1>22, <2>2, <2>4
<1> HIDE DEF new
<1>23. QED BY <1>17, <1>18, <1>19, <1>20, <1>21, <1>22 DEF Connects

LEMMA ConnectHandshakes ==
  ASSUME HandshakeInv, Running, Connects,
         /\ Live \subseteq Live' /\ nextId' >= nextId
         /\ \A h \in Live : routes'[h] = routes[h]
         /\ \A h \in Live' \ Live : /\ nextId <= h /\ h \in Ids
                                    /\ ~routes'[h].conn
                                    /\ routes'[h].state \in StillConnecting
                                    /\ routes'[h].server \in Servers,
         nextId \in Int, nextId' \in Int,
         DepartedClients', UNCHANGED <<deferred, closedChildren>>,
         \A s \in Range(gameServers') : parent'[s] \in {"none", "pending", "open", "closed"}
  PROVE  Handshakes'
<1>1. /\ RouteInv /\ TypeOK /\ QueuesWait /\ QueuedJoins /\ SentControllers
      /\ OpenHandshakes /\ FinishedHandshakes /\ Homes /\ Entries
  BY DEF HandshakeInv, Handshakes, RouteInv
<1>2. /\ routes \in [Live -> Route] /\ \A h \in Live : h \in Ids /\ routes[h].server \in Servers
      /\ \A s \in Servers : splitJoins[s] \subseteq SplitJoin
      /\ home \in [Clients -> Ids \cup {NoId}] /\ closedChildren \subseteq Ids
      /\ deferred \in [Clients -> Deferred] /\ MaxIds \in Nat
  BY <1>1, ConstantsAssumption DEF TypeOK, Route, ConstantsAssumption
<1>3. \A h \in Live' \ Live : h \notin closedChildren
  BY <1>1, <1>2 DEF Entries, Ids
<1>4. /\ \A s \in Servers : parent[s] \in {"pending", "open", "closed"} => parent'[s] = parent[s]
      /\ \A s \in Servers : splitJoins[s] \subseteq splitJoins'[s]
      /\ \A h \in Ids \ (Live' \ Live) : pcs'[h] = pcs[h]
  BY DEF Connects
<1>a. \A h \in Live' \ Live : pcs'[h] = <<>> \/ parent'[routes'[h].server] = "open"
  BY DEF Connects
<1>5. QueuedJoins'
  <2>1. ASSUME NEW s \in Servers, NEW r \in splitJoins'[s]
        PROVE  /\ parent'[s] \in {"pending", "closed"}
               /\ r.id \in Live' \ closedChildren'
               /\ routes'[r.id].server = s
               /\ ~routes'[r.id].conn
               /\ pcs'[r.id] = <<>>
               /\ \A q \in splitJoins'[s] : q.id = r.id => q.pc = r.pc
    <3>a. \A q \in splitJoins[s] : q.id \in Live BY <1>1 DEF QueuedJoins
    <3>b. \A q \in splitJoins'[s] \ splitJoins[s] :
            /\ q.id \in Live' \ Live
            /\ q.pc = IF routes'[q.id].state = "ConnectingPrimary" THEN "game" ELSE "noPawn"
      BY DEF Connects
    <3>1. CASE r \in splitJoins[s]
      <4>1. /\ parent[s] \in {"pending", "closed"} /\ r.id \in Live \ closedChildren
            /\ routes[r.id].server = s /\ ~routes[r.id].conn /\ pcs[r.id] = <<>>
            /\ \A q \in splitJoins[s] : q.id = r.id => q.pc = r.pc
        BY <1>1, <3>1 DEF QueuedJoins
      <4>2. \A q \in splitJoins'[s] : q.id = r.id => q.pc = r.pc BY <3>b, <4>1
      <4>3. QED BY <1>2, <1>4, <4>1, <4>2
    <3>2. CASE r \notin splitJoins[s]
      <4>1. /\ r.id \in Live' \ Live /\ routes'[r.id].server = s
            /\ parent'[s] \in {"pending", "closed"} /\ pcs'[r.id] = <<>>
        BY <3>2, <2>1 DEF Connects
      <4>2. \A q \in splitJoins'[s] : q.id = r.id => q.pc = r.pc
        BY <2>1, <3>2, <3>a, <3>b
      <4>3. QED BY <1>3, <4>1, <4>2
    <3>3. QED BY <3>1, <3>2
  <2>2. QED BY <2>1 DEF QueuedJoins
<1>6. SentControllers'
  <2>1. ASSUME NEW h \in Ids, pcs'[h] # <<>>
        PROVE  h \in Live' \ closedChildren' /\ parent'[routes'[h].server] = "open"
    <3>1. CASE h \in Live' \ Live
      <4>1. parent'[routes'[h].server] = "open" BY <2>1, <3>1 DEF Connects
      <4>2. QED BY <1>3, <3>1, <4>1
    <3>2. CASE h \notin Live' \ Live
      <4>1. pcs[h] # <<>> BY <1>4, <2>1, <3>2
      <4>2. h \in Live \ closedChildren /\ parent[routes[h].server] = "open"
        BY <1>1, <4>1 DEF SentControllers
      <4>3. QED BY <1>2, <1>4, <4>2
    <3>3. QED BY <3>1, <3>2
  <2>2. QED BY <2>1 DEF SentControllers
<1>7. OpenHandshakes'
  <2>1. ASSUME NEW h \in Live', ~routes'[h].conn, h \notin closedChildren',
               parent'[routes'[h].server] # "closed", pcs'[h] = <<>>
        PROVE  Requested(h)'
    <3>1. CASE h \in Live' \ Live
      <4>1. Requested(h)' \/ pcs'[h] = <<IF routes'[h].state = "ConnectingPrimary" THEN "game" ELSE "noPawn">>
        BY <3>1 DEF Connects
      <4>2. QED BY <2>1, <4>1
    <3>2. CASE h \in Live
      <4>1. ~routes[h].conn /\ h \notin closedChildren /\ pcs[h] = <<>>
        BY <1>2, <1>4, <2>1, <3>2
      <4>2. parent[routes[h].server] # "closed" BY <1>2, <1>4, <2>1, <3>2
      <4>3. Requested(h) BY <1>1, <3>2, <4>1, <4>2 DEF OpenHandshakes
      <4>4. QED BY <1>4, <4>3 DEF Requested
    <3>3. QED BY <3>1, <3>2
  <2>2. QED BY <2>1 DEF OpenHandshakes
<1>8. FinishedHandshakes'
  <2>1. \A h \in Live' : routes'[h].state \notin StillConnecting \cup {"PendingClose"} =>
           routes'[h].conn
    BY <1>1 DEF FinishedHandshakes
  <2>2. ASSUME NEW c \in Clients, NEW h \in {deferred'[c].prev, deferred'[c].game} \ {NoId},
               h \in Live'
        PROVE  routes'[h].conn
    <3>1. h < nextId BY <1>1, <2>2 DEF RouteInv, DeferredAreOwn
    <3>2. h \in Live BY <2>2, <3>1 DEF Ids
    <3>3. routes[h].conn BY <1>1, <2>2, <3>2 DEF FinishedHandshakes
    <3>4. QED BY <3>2, <3>3
  <2>3. QED BY <2>1, <2>2 DEF FinishedHandshakes
<1>9. Homes'
  <2>1. ASSUME NEW c \in Clients, home'[c] # NoId
        PROVE  /\ client'[c] # "closed"
               /\ home'[c] \in Live' \ closedChildren'
               /\ routes'[home'[c]].client = c
               /\ parent'[routes'[home'[c]].server] = "open"
    <3>1. CASE home'[c] = home[c]
      <4>1. /\ home[c] \in Live \ closedChildren /\ routes[home[c]].client = c
            /\ parent[routes[home[c]].server] = "open" /\ client[c] # "closed"
        BY <1>1, <2>1, <3>1 DEF Homes
      <4>2. routes[home[c]].state # "PendingClose"
        BY <1>1, <4>1 DEF RouteInv, DepartedClients
      <4>3. routes'[home[c]] = routes[home[c]] /\ home[c] \in Live' BY <4>1
      <4>4. client'[c] # "closed" BY <4>1, <4>2, <4>3 DEF DepartedClients
      <4>5. QED BY <1>2, <1>4, <3>1, <4>1, <4>3, <4>4
    <3>2. CASE home'[c] # home[c]
      <4>1. /\ home'[c] \in Live' \ Live /\ routes'[home'[c]].client = c
            /\ pcs'[home'[c]] # <<>> /\ routes'[home'[c]].state = "ConnectingPrimary"
        BY <3>2 DEF Connects
      <4>2. parent'[routes'[home'[c]].server] = "open" BY <1>a, <4>1
      <4>3. client'[c] # "closed" BY <4>1 DEF DepartedClients
      <4>4. QED BY <1>3, <4>1, <4>2, <4>3
    <3>3. QED BY <3>1, <3>2
  <2>2. QED BY <2>1 DEF Homes
<1>10. Entries'
  <2>1. \A h \in closedChildren' : h < nextId' BY <1>1, <1>2 DEF Entries, Ids
  <2>2. QED BY <2>1 DEF Entries
<1>11. QED BY <1>5, <1>6, <1>7, <1>8, <1>9, <1>10 DEF Handshakes

LEMMA NewRouteOpens ==
  ASSUME NEW req \in Request
  PROVE  /\ ~NewRoute(req).conn /\ NewRoute(req).state \in StillConnecting
         /\ NewRoute(req).server \in Servers
BY DEF NewRoute, Request, StillConnecting

\* Joining and registering connect routes in the same way.
LEMMA ConnectionsHandshakes ==
  ASSUME HandshakeInv, Running, NEW reqs \in Seq(Request),
         NEW conns \in [Servers -> {"unregistered", "none", "pending", "open", "closed",
                                    "destroyed"}],
         \A s \in Servers : \/ conns[s] = parent[s]
                            \/ parent[s] = "unregistered" /\ conns[s] = "none",
         \A i \in DOMAIN reqs :
            conns[reqs[i].server] \in {"none", "pending", "open", "closed"},
         \A s \in Range(gameServers') :
            s \in Servers /\ conns[s] \in {"none", "pending", "open", "closed"},
         ConnectToGameServer(conns, reqs), DepartedClients',
         UNCHANGED <<deferred, closedChildren>>
  PROVE  Handshakes'
<1>1. RouteInv /\ QueuesWait /\ SentControllers /\ TypeOK
  BY DEF HandshakeInv, Handshakes, RouteInv
<1>2. Connects BY <1>1, ConnectSends
<1>3. /\ Live \subseteq Live' /\ nextId' >= nextId
      /\ \A h \in Live : routes'[h] = routes[h]
      /\ \A h \in Live' \ Live : /\ nextId <= h /\ h < nextId'
                                 /\ \E i \in DOMAIN reqs : routes'[h] = NewRoute(reqs[i])
  BY <1>1, ConnectAdds
<1>4. Live' \subseteq Ids BY <1>1, ConnectType
<1>5. \A i \in DOMAIN reqs : reqs[i] \in Request OBVIOUS
<1>6. \A h \in Live' \ Live : /\ ~routes'[h].conn /\ routes'[h].state \in StillConnecting
                              /\ routes'[h].server \in Servers
  BY <1>3, <1>5, NewRouteOpens
<1>7. nextId \in Int /\ nextId' \in Int
  <2>1. nextId \in 1 .. MaxIds + 1 BY <1>1 DEF TypeOK
  <2>2. nextId' \in 1 .. MaxIds + 1 BY <1>1, ConnectType
  <2>3. QED BY <2>1, <2>2
<1>8. \A s \in Range(gameServers') : parent'[s] \in {"none", "pending", "open", "closed"}
  BY DEF ConnectToGameServer
<1>9. QED BY <1>2, <1>3, <1>4, <1>6, <1>7, <1>8, ConnectHandshakes

LEMMA JoinHandshakes ==
  ASSUME HandshakeInv, NEW c \in Clients, Join(c)
  PROVE  Handshakes'
<1>1. PICK p \in PrimaryChoices :
         ConnectToGameServer(parent, [i \in 1 .. Len(gameServers) |->
               [client |-> c, server |-> gameServers[i], primary |-> i - 1 = p]])
  BY DEF Join
<1> DEFINE reqs == [i \in 1 .. Len(gameServers) |->
               [client |-> c, server |-> gameServers[i], primary |-> i - 1 = p]]
<1>2. gameServers \in Seq(Servers) /\ Len(gameServers) \in Nat
      /\ \A i \in 1 .. Len(gameServers) : gameServers[i] \in Range(gameServers) \cap Servers
  <2>1. gameServers \in Seq(Servers) BY DEF HandshakeInv, RouteInv, TypeOK
  <2>2. QED BY <2>1 DEF Range
<1>a. \A s \in Range(gameServers) : s \in Servers BY <1>2 DEF Range
<1>3. reqs \in Seq(Request) BY <1>2 DEF Request
<1>4. parent \in [Servers -> {"unregistered", "none", "pending", "open", "closed",
                              "destroyed"}]
  BY DEF HandshakeInv, RouteInv, TypeOK
<1>5. Running /\ UNCHANGED <<gameServers, deferred, closedChildren>>
  BY DEF Join, primVars
<1>6. \A s \in Range(gameServers) : parent[s] \in {"none", "pending", "open", "closed"}
  BY <1>5 DEF HandshakeInv, Handshakes, Entries
<1>7. \A i \in DOMAIN reqs : parent[reqs[i].server] \in {"none", "pending", "open", "closed"}
  BY <1>2, <1>6
<1>8. ConnectToGameServer(parent, reqs) BY <1>1
<1>9. \A s \in Range(gameServers') :
         s \in Servers /\ parent[s] \in {"none", "pending", "open", "closed"}
  <2>1. gameServers' = gameServers BY <1>5
  <2>2. Range(gameServers') = Range(gameServers) BY <2>1
  <2> HIDE DEF reqs
  <2>3. QED BY <1>6, <1>a, <2>2
<1> HIDE DEF reqs
<1>10. DepartedClients' BY JoinInv DEF HandshakeInv
<1>11. QED BY <1>3, <1>4, <1>5, <1>7, <1>8, <1>9, <1>10, ConnectionsHandshakes

LEMMA RegisterAndConnectHandshakes ==
  ASSUME HandshakeInv, NEW s \in Servers, RegisterGameServerAndConnectClients(s)
  PROVE  Handshakes'
<1>1. PICK order \in {f \in [1 .. Cardinality(OpenConnections) -> OpenConnections] :
                        IsInjective(f)} :
        ConnectToGameServer([parent EXCEPT ![s] = "none"],
             [i \in DOMAIN order |->
                 [client |-> order[i], server |-> s, primary |-> FALSE]])
  BY DEF RegisterGameServerAndConnectClients
<1> DEFINE reqs  == [i \in DOMAIN order |->
                       [client |-> order[i], server |-> s, primary |-> FALSE]]
           conns == [parent EXCEPT ![s] = "none"]
<1>2. /\ open \subseteq Clients /\ IsFiniteSet(Clients)
      /\ order \in [1 .. Cardinality(open) -> open]
  BY ConstantsAssumption
     DEF HandshakeInv, RouteInv, TypeOK, OpenConnections, ConstantsAssumption
<1>3. DOMAIN order = 1 .. Cardinality(open) /\ Cardinality(open) \in Nat
      /\ \A i \in DOMAIN order : order[i] \in open
  BY <1>2, ArrayType
<1>4. reqs \in Seq(Request) /\ \A i \in DOMAIN reqs : reqs[i].server = s
  <2>1. \A i \in DOMAIN order :
           [client |-> order[i], server |-> s, primary |-> FALSE] \in Request
    BY <1>2, <1>3 DEF Request
  <2>2. reqs \in [1 .. Cardinality(open) -> Request] BY <1>3, <2>1
  <2>3. Cardinality(open) \in Nat BY <1>3
  <2>4. \A i \in DOMAIN reqs : reqs[i].server = s OBVIOUS
  <2> HIDE DEF reqs
  <2>5. QED BY <2>2, <2>3, <2>4
<1>5. /\ parent \in [Servers -> {"unregistered", "none", "pending", "open", "closed",
                                 "destroyed"}]
      /\ gameServers \in Seq(Servers) /\ parent[s] = "unregistered"
  BY DEF HandshakeInv, RouteInv, TypeOK, RegisterGameServerAndConnectClients
<1>6. Running /\ gameServers' = Append(gameServers, s) /\ UNCHANGED <<deferred, closedChildren>>
  BY DEF RegisterGameServerAndConnectClients, primVars
<1>7. /\ conns \in [Servers -> {"unregistered", "none", "pending", "open", "closed",
                                "destroyed"}]
      /\ conns[s] = "none" /\ \A t \in Servers \ {s} : conns[t] = parent[t]
  BY <1>5
<1>8. Range(gameServers') = Range(gameServers) \cup {s} /\ Range(gameServers) \subseteq Servers
  BY <1>5, <1>6 DEF Range
<1>9. \A t \in Range(gameServers) : parent[t] \in {"none", "pending", "open", "closed"}
  BY <1>6 DEF HandshakeInv, Handshakes, Entries
<1>10. \A t \in Range(gameServers') :
          t \in Servers /\ conns[t] \in {"none", "pending", "open", "closed"}
  BY <1>5, <1>7, <1>8, <1>9
<1>11. ConnectToGameServer(conns, reqs) BY <1>1
<1> HIDE DEF reqs, conns
<1>12. DepartedClients' BY RegisterAndConnectInv DEF HandshakeInv
<1>13. QED BY <1>4, <1>5, <1>6, <1>7, <1>10, <1>11, <1>12, ConnectionsHandshakes

-----------------------------------------------------------------------------
(* Steps that keep the routes.                                             *)

LEMMA FinalizedKeeps ==
  ASSUME NEW S, NEW rs \in [S -> Route], NEW prev, NEW game, NEW h \in S
  PROVE  /\ Finalized(rs, prev, game)[h].server = rs[h].server
         /\ Finalized(rs, prev, game)[h].conn = rs[h].conn
         /\ Finalized(rs, prev, game)[h].state =
               IF h = game THEN "ConnectedPrimary"
               ELSE IF h = prev THEN "Connected" ELSE rs[h].state
<1> DEFINE st == IF h = game THEN "ConnectedPrimary"
                 ELSE IF h = prev THEN "Connected" ELSE rs[h].state
<1>1. Finalized(rs, prev, game)[h] = [rs[h] EXCEPT !.state = st] BY DEF Finalized
<1>2. rs[h] \in Route /\ st \in RouteState BY DEF Route, RouteState
<1> HIDE DEF st
<1>3. QED BY <1>1, <1>2, StateChange DEF st

LEMMA AwaitingKeeps ==
  ASSUME NEW S, NEW rs \in [S -> Route], NEW h \in S, NEW g \in S
  PROVE  /\ Awaiting(rs, h)[g].server = rs[g].server
         /\ Awaiting(rs, h)[g].conn = rs[g].conn
         /\ Awaiting(rs, h)[g].state = IF g = h THEN "PendingReassign" ELSE rs[g].state
<1> DEFINE w == [rs[h] EXCEPT !.state = "PendingReassign"]
<1>1. Awaiting(rs, h) = [rs EXCEPT ![h] = w] BY DEF Awaiting
<1>2. w.server = rs[h].server /\ w.conn = rs[h].conn /\ w.state = "PendingReassign"
  BY StateChange DEF RouteState
<1> HIDE DEF w
<1>3. QED BY <1>1, <1>2

\* A player controller arrives: a route without a child gets one, and states change only
\* on routes with a child.
LEMMA ReceivedHandshakes ==
  ASSUME HandshakeInv, Running, Live' = Live,
         \A g \in Live : /\ routes'[g].client = routes[g].client
                         /\ routes'[g].server = routes[g].server
                         /\ \/ routes'[g].conn = routes[g].conn
                            \/ routes'[g].conn /\ pcs[g] # <<>>
                         /\ routes'[g].state = routes[g].state \/ routes'[g].conn,
         \A g \in Ids : /\ pcs'[g] # <<>> => pcs[g] # <<>>
                        /\ pcs'[g] = pcs[g] \/ (g \in Live /\ routes'[g].conn),
         \A c \in Clients : \A g \in {deferred'[c].prev, deferred'[c].game} \ {NoId} :
             g \in Live => routes'[g].conn,
         UNCHANGED <<gameServers, parent, splitJoins, nextId, client, home, closedChildren>>
  PROVE  Handshakes'
<1>1. /\ QueuedJoins /\ SentControllers /\ OpenHandshakes /\ FinishedHandshakes
      /\ Homes /\ Entries
      /\ Live \subseteq Ids
  BY DEF HandshakeInv, Handshakes, RouteInv, TypeOK
<1>2. QueuedJoins'
  <2>1. ASSUME NEW s \in Servers, NEW r \in splitJoins[s]
        PROVE  /\ parent[s] \in {"pending", "closed"} /\ r.id \in Live \ closedChildren
               /\ routes'[r.id].server = s /\ ~routes'[r.id].conn /\ pcs'[r.id] = <<>>
               /\ \A q \in splitJoins[s] : q.id = r.id => q.pc = r.pc
    <3>1. /\ parent[s] \in {"pending", "closed"} /\ r.id \in Live \ closedChildren
          /\ routes[r.id].server = s /\ ~routes[r.id].conn /\ pcs[r.id] = <<>>
          /\ \A q \in splitJoins[s] : q.id = r.id => q.pc = r.pc
      BY <1>1 DEF QueuedJoins
    <3>2. QED BY <1>1, <3>1
  <2>2. QED BY <2>1 DEF QueuedJoins
<1>3. SentControllers' BY <1>1 DEF SentControllers
<1>4. OpenHandshakes'
  <2>1. ASSUME NEW h \in Live, ~routes'[h].conn
        PROVE  \/ h \in closedChildren \/ parent[routes'[h].server] = "closed"
               \/ Requested(h) \/ pcs'[h] # <<>>
    BY <1>1, <2>1 DEF OpenHandshakes
  <2>2. Live' = Live /\ parent' = parent /\ closedChildren' = closedChildren OBVIOUS
  <2>3. \A h : Requested(h)' <=> Requested(h) BY DEF Requested
  <2>4. QED BY <2>1, <2>2, <2>3 DEF OpenHandshakes
<1>5. FinishedHandshakes' BY <1>1 DEF FinishedHandshakes
<1>6. Homes' BY <1>1 DEF Homes
<1>7. Entries' BY <1>1 DEF Entries
<1>8. QED BY <1>2, <1>3, <1>4, <1>5, <1>6, <1>7 DEF Handshakes

LEMMA ReceivedQueue ==
  ASSUME TypeOK, NEW h \in Ids, NEW pc, Received(h, pc)
  PROVE  /\ \A g \in Ids \ {h} : pcs'[g] = pcs[g]
         /\ \A g \in Ids : pcs'[g] # <<>> => pcs[g] # <<>>
         /\ h \in Live /\ pcs[h] # <<>>
         /\ pcs'[h] = Tail(pcs[h])
BY DEF TypeOK, Received

LEMMA AssignConnectingHandshakes ==
  ASSUME HandshakeInv, NEW h \in Ids, AssignConnecting(h) \/ AssignConnectingPrimary(h)
  PROVE  Handshakes'
<1>1. PICK pc \in PC, st \in {"Connected", "ConnectedPrimary"} :
        /\ Received(h, pc)
        /\ routes' = [routes EXCEPT ![h].state = st, ![h].conn = TRUE, ![h].pc = pc]
  BY DEF AssignConnecting, AssignConnectingPrimary
<1>2. TypeOK /\ HandshakeInv /\ Running BY <1>1 DEF HandshakeInv, RouteInv, Received
<1>3. /\ \A g \in Ids \ {h} : pcs'[g] = pcs[g]
      /\ \A g \in Ids : pcs'[g] # <<>> => pcs[g] # <<>>
      /\ h \in Live /\ pcs[h] # <<>>
  BY <1>1, <1>2, ReceivedQueue
<1>4. routes \in [Live -> Route] BY <1>2 DEF TypeOK
<1>5. Live' = Live /\ \A g \in Live \ {h} : routes'[g] = routes[g]
  BY <1>1, <1>4 DEF Live
<1>6. /\ routes'[h].client = routes[h].client /\ routes'[h].server = routes[h].server
      /\ routes'[h].conn
  BY <1>1, <1>3, <1>4 DEF Route
<1>7. UNCHANGED <<gameServers, parent, splitJoins, nextId, client, home, closedChildren,
                  deferred>>
  BY DEF AssignConnecting, AssignConnectingPrimary, serverVars, joinVars, primVars, clientVars
<1>8. \A c \in Clients : \A g \in {deferred[c].prev, deferred[c].game} \ {NoId} :
          g \in Live => routes'[g].conn
  BY <1>2, <1>5, <1>6 DEF HandshakeInv, Handshakes, FinishedHandshakes
<1>9. QED BY <1>2, <1>3, <1>5, <1>6, <1>7, <1>8, ReceivedHandshakes

\* Both player controllers of a migration are received in the same way.
LEMMA ReassignReceives ==
  ASSUME HandshakeInv, NEW h \in Ids, ReassignNoPawn(h) \/ ReassignGame(h)
  PROVE  /\ h \in Live
         /\ \E pc, rs, prev, game, d :
               /\ pc \in PC /\ Received(h, pc) /\ Reassigns(h, rs, prev, game, d)
               /\ \A g \in Live : rs[g].server = routes[g].server /\ rs[g].conn = routes[g].conn
<1>1. RouteInv /\ TypeOK BY DEF HandshakeInv, RouteInv
<1>2. \E pc \in PC : \/ pc = "noPawn" /\ ReassignNoPawn(h)
                     \/ pc = "game" /\ ReassignGame(h)
  <2>1. "noPawn" \in PC /\ "game" \in PC BY DEF PC
  <2>2. CASE ReassignNoPawn(h) BY <2>1, <2>2, Zenon
  <2>3. CASE ReassignGame(h) BY <2>1, <2>3, Zenon
  <2>4. QED BY <2>2, <2>3
<1>3. PICK pc \in PC : \/ pc = "noPawn" /\ ReassignNoPawn(h)
                       \/ pc = "game" /\ ReassignGame(h)
  BY <1>2
<1> DEFINE rs == [routes EXCEPT ![h].pc = pc]
<1>4. Received(h, pc) BY <1>3 DEF ReassignNoPawn, ReassignGame
<1>5. h \in Live /\ \E prev, game, d : Reassigns(h, rs, prev, game, d)
  BY <1>1, <1>3, ReassignNoPawnReassigns, ReassignGameReassigns
<1>6. \A g \in Live : rs[g].server = routes[g].server /\ rs[g].conn = routes[g].conn
  BY <1>1, <1>5 DEF TypeOK, Route
<1> HIDE DEF rs
<1>7. QED BY <1>4, <1>5, <1>6

\* Both ends of a reassignment have a child already, and are routes of one client; no other
\* route is written.
LEMMA ReassignKeeps ==
  ASSUME HandshakeInv, Running, NEW h \in Live,
         NEW rs, NEW prev, NEW game, NEW d, Reassigns(h, rs, prev, game, d),
         \A g \in Live : rs[g].server = routes[g].server /\ rs[g].conn = routes[g].conn
  PROVE  /\ Live' = Live
         /\ \A g \in Live : /\ routes'[g].client = routes[g].client
                            /\ routes'[g].server = routes[g].server
                            /\ routes'[g].conn = routes[g].conn
                            /\ \/ routes'[g].state = routes[g].state
                               \/ routes'[g].state \in Established
         /\ \A g \in Live : g \notin {h, prev, game} => routes'[g].state = routes[g].state
         /\ \A g \in {h, prev, game} \cap Live :
               routes[g].conn /\ routes[g].client = routes[h].client
<1> DEFINE c == routes[h].client
<1>1. /\ TypeOK /\ RouteInv /\ FinishedHandshakes
      /\ routes \in [Live -> Route]
  BY DEF HandshakeInv, Handshakes, RouteInv, TypeOK
<1>2. /\ rs \in [Live -> Route]
      /\ \A g \in Live : rs[g].client = routes[g].client
      /\ \A g \in Live : rs[g].state = routes[g].state
      /\ {prev, game} \subseteq {h, deferred[c].prev, deferred[c].game} \ {NoId}
      /\ routes' = Finalized(rs, prev, game) \/ routes' = Awaiting(rs, h)
      /\ routes[h].state \in Established
  BY DEF Reassigns
<1>3. \A g \in Live : rs[g].server = routes[g].server /\ rs[g].conn = routes[g].conn
  OBVIOUS
<1>4. c \in Clients BY <1>1 DEF Route
<1>5. \A g \in {h, prev, game} \cap Live : routes[g].conn
  BY <1>1, <1>2, <1>4 DEF FinishedHandshakes, Established, StillConnecting
<1>6. \A g \in {h, prev, game} \cap Live : routes[g].client = c
  BY <1>1, <1>2, <1>4 DEF RouteInv, DeferredAreOwn
<1>7. Live' = DOMAIN routes' BY DEF Live
<1>8. CASE routes' = Finalized(rs, prev, game)
  <2>1. DOMAIN routes' = Live /\ \A g \in Live : routes'[g].client = rs[g].client
    BY <1>2, <1>8, FinalizedType
  <2>2. \A g \in Live : /\ routes'[g].server = rs[g].server
                        /\ routes'[g].conn = rs[g].conn
                        /\ routes'[g].state = IF g = game THEN "ConnectedPrimary"
                                              ELSE IF g = prev THEN "Connected" ELSE rs[g].state
    BY <1>2, <1>8, FinalizedKeeps
  <2>3. QED BY <1>2, <1>3, <1>5, <1>6, <1>7, <2>1, <2>2 DEF Established
<1>9. CASE routes' = Awaiting(rs, h)
  <2>1. DOMAIN routes' = Live /\ \A g \in Live : routes'[g].client = rs[g].client
    BY <1>2, <1>9, AwaitingType
  <2>2. \A g \in Live : /\ routes'[g].server = rs[g].server
                        /\ routes'[g].conn = rs[g].conn
                        /\ routes'[g].state = IF g = h THEN "PendingReassign" ELSE rs[g].state
    BY <1>2, <1>9, AwaitingKeeps
  <2>3. QED BY <1>2, <1>3, <1>5, <1>6, <1>7, <2>1, <2>2 DEF Established
<1>10. QED BY <1>2, <1>8, <1>9

LEMMA ReassignHandshakes ==
  ASSUME HandshakeInv, NEW h \in Ids, ReassignNoPawn(h) \/ ReassignGame(h)
  PROVE  Handshakes'
<1> DEFINE c == routes[h].client
<1>1. /\ TypeOK /\ RouteInv /\ Running /\ FinishedHandshakes
      /\ UNCHANGED <<gameServers, parent, splitJoins, home, closedChildren>>
  BY DEF HandshakeInv, Handshakes, RouteInv, ReassignNoPawn, ReassignGame, Received, serverVars
<1>2. PICK pc, rs, prev, game, d :
         /\ pc \in PC /\ Received(h, pc) /\ Reassigns(h, rs, prev, game, d)
         /\ \A g \in Live : rs[g].server = routes[g].server /\ rs[g].conn = routes[g].conn
  BY ReassignReceives
<1>3. /\ \A g \in Ids \ {h} : pcs'[g] = pcs[g]
      /\ \A g \in Ids : pcs'[g] # <<>> => pcs[g] # <<>>
      /\ h \in Live
  BY <1>1, <1>2, ReceivedQueue
<1>4. /\ Live' = Live
      /\ \A g \in Live : /\ routes'[g].client = routes[g].client
                         /\ routes'[g].server = routes[g].server
                         /\ routes'[g].conn = routes[g].conn
                         /\ g \notin {h, prev, game} => routes'[g].state = routes[g].state
      /\ \A g \in {h, prev, game} \cap Live : routes[g].conn
  BY <1>1, <1>2, <1>3, ReassignKeeps
<1>5. /\ {d.prev, d.game} \subseteq {h, NoId}
      /\ deferred' = [deferred EXCEPT ![c] = d] /\ UNCHANGED <<nextId, client>>
  BY <1>2 DEF Reassigns
<1>6. c \in Clients BY <1>1, <1>3 DEF TypeOK, Route
<1>7. \A g \in Live : routes'[g].state = routes[g].state \/ routes'[g].conn BY <1>4
<1>8. \A e \in Clients : \A g \in {deferred'[e].prev, deferred'[e].game} \ {NoId} :
          g \in Live => routes'[g].conn
  <2>1. deferred \in [Clients -> Deferred] BY <1>1 DEF TypeOK
  <2>2. \A e \in Clients \ {c} : deferred'[e] = deferred[e] BY <1>5, <2>1
  <2>3. deferred'[c] = d BY <1>5, <1>6, <2>1
  <2>4. QED BY <1>1, <1>3, <1>4, <1>5, <2>2, <2>3 DEF FinishedHandshakes
<1>9. \A g \in Ids : pcs'[g] = pcs[g] \/ (g \in Live /\ routes'[g].conn)
  BY <1>3, <1>4
<1>10. QED BY <1>1, <1>3, <1>4, <1>5, <1>7, <1>8, <1>9, ReceivedHandshakes

-----------------------------------------------------------------------------
(* Steps that take routes away, and steps of the environment.              *)

\* Routes disappear only with what was on its way to them, and with their queue entries.
LEMMA FewerHandshakes ==
  ASSUME HandshakeInv, Running, Live' \subseteq Live,
         \A h \in Live' : /\ routes'[h].client = routes[h].client
                          /\ routes'[h].server = routes[h].server
                          /\ routes'[h].conn = routes[h].conn
                          /\ routes'[h].state \in {routes[h].state, "PendingClose"},
         \A s \in Servers : splitJoins'[s] \subseteq splitJoins[s],
         \A s \in Servers : \A r \in splitJoins'[s] : r.id \in Live' /\ parent'[s] = parent[s],
         \A h \in Live' : /\ parent'[routes[h].server] = parent[routes[h].server]
                          /\ splitJoins'[routes[h].server] = splitJoins[routes[h].server]
                          /\ pcs'[h] = pcs[h],
         \A h \in Ids \ Live' : pcs'[h] = <<>>,
         \A c \in Clients : home'[c] # NoId =>
             home'[c] = home[c] /\ home[c] \in Live' /\ client'[c] = client[c],
         \A c \in Clients : deferred'[c] \in {deferred[c], NoReassignment},
         \A s \in Range(gameServers') : s \in Range(gameServers) /\ parent'[s] = parent[s],
         UNCHANGED <<nextId, closedChildren>>
  PROVE  Handshakes'
<1>1. /\ QueuedJoins /\ SentControllers /\ OpenHandshakes /\ FinishedHandshakes
      /\ Homes /\ Entries
      /\ Live \subseteq Ids /\ \A h \in Live : routes[h].server \in Servers
      /\ \A s \in Servers : splitJoins[s] \subseteq SplitJoin
  BY DEF HandshakeInv, Handshakes, RouteInv, TypeOK, Route
<1>2. QueuedJoins'
  <2>1. ASSUME NEW s \in Servers, NEW r \in splitJoins'[s]
        PROVE  /\ parent'[s] \in {"pending", "closed"} /\ r.id \in Live' \ closedChildren
               /\ routes'[r.id].server = s /\ ~routes'[r.id].conn /\ pcs'[r.id] = <<>>
               /\ \A q \in splitJoins'[s] : q.id = r.id => q.pc = r.pc
    <3>1. r \in splitJoins[s] /\ r.id \in Live' /\ parent'[s] = parent[s] OBVIOUS
    <3>2. /\ parent[s] \in {"pending", "closed"} /\ r.id \in Live \ closedChildren
          /\ routes[r.id].server = s /\ ~routes[r.id].conn /\ pcs[r.id] = <<>>
          /\ \A q \in splitJoins[s] : q.id = r.id => q.pc = r.pc
      BY <1>1, <3>1 DEF QueuedJoins
    <3>3. QED BY <3>1, <3>2
  <2>2. QED BY <2>1 DEF QueuedJoins
<1>3. SentControllers'
  <2>1. ASSUME NEW h \in Ids, pcs'[h] # <<>>
        PROVE  h \in Live' \ closedChildren /\ parent'[routes'[h].server] = "open"
    <3>1. h \in Live' BY <2>1
    <3>2. pcs[h] # <<>> BY <2>1, <3>1
    <3>3. h \notin closedChildren /\ parent[routes[h].server] = "open"
      BY <1>1, <3>2 DEF SentControllers
    <3>4. QED BY <3>1, <3>3
  <2>2. QED BY <2>1 DEF SentControllers
<1>4. OpenHandshakes'
  <2>1. ASSUME NEW h \in Live', ~routes'[h].conn, h \notin closedChildren,
               parent'[routes'[h].server] # "closed", pcs'[h] = <<>>
        PROVE  Requested(h)'
    <3>1. /\ h \in Live /\ ~routes[h].conn /\ parent[routes[h].server] # "closed"
          /\ pcs[h] = <<>>
      BY <2>1
    <3>2. PICK s \in Servers : \E r \in splitJoins[s] : r.id = h
      BY <1>1, <2>1, <3>1 DEF OpenHandshakes, Requested
    <3>3. routes[h].server = s BY <1>1, <3>2 DEF QueuedJoins
    <3>4. splitJoins'[s] = splitJoins[s] BY <2>1, <3>3
    <3>5. QED BY <3>2, <3>4 DEF Requested
  <2>2. QED BY <2>1 DEF OpenHandshakes
<1>5. FinishedHandshakes'
  <2>1. \A h \in Live' : routes'[h].state \notin StillConnecting \cup {"PendingClose"} =>
           routes'[h].conn
    BY <1>1 DEF FinishedHandshakes
  <2>2. \A c \in Clients : \A h \in {deferred'[c].prev, deferred'[c].game} \ {NoId} :
           h \in {deferred[c].prev, deferred[c].game} \ {NoId}
    BY DEF NoReassignment
  <2>3. QED BY <1>1, <2>1, <2>2 DEF FinishedHandshakes
<1>6. Homes' BY <1>1 DEF Homes
<1>7. Entries' BY <1>1 DEF Entries
<1>8. QED BY <1>2, <1>3, <1>4, <1>5, <1>6, <1>7 DEF Handshakes

LEMMA AssignPendingCloseHandshakes ==
  ASSUME HandshakeInv, NEW h \in Ids, AssignPendingClose(h)
  PROVE  Handshakes'
<1>1. Live' = Live \ {h} /\ \A g \in Live' : routes'[g] = routes[g]
  BY DEF AssignPendingClose, Live, Restrict
<1>2. /\ Running /\ h \in Live /\ pcs[h] # <<>> /\ routes[h].state = "PendingClose"
      /\ pcs' = [pcs EXCEPT ![h] = <<>>]
      /\ UNCHANGED <<serverVars, joinVars, primVars, clientVars, fault, home, gameVars>>
  BY DEF AssignPendingClose
<1>3. /\ pcs \in [Ids -> Seq(PC)] /\ Live \subseteq Ids
      /\ QueuedJoins /\ SentControllers /\ Homes /\ DepartedClients
      /\ \A g \in Live : routes[g].client \in Clients
  BY <1>2 DEF HandshakeInv, Handshakes, RouteInv, TypeOK, Route
<1>4. \A s \in Servers : \A r \in splitJoins[s] : r.id \in Live'
  BY <1>1, <1>2, <1>3 DEF QueuedJoins
<1>5. \A g \in Ids \ Live' : pcs'[g] = <<>>
  BY <1>1, <1>2, <1>3 DEF SentControllers
<1>6. \A c \in Clients : home[c] # NoId => home[c] \in Live'
  BY <1>1, <1>2, <1>3 DEF Homes, DepartedClients
<1>7. \A g \in Live' : pcs'[g] = pcs[g] BY <1>1, <1>2, <1>3
<1>8. UNCHANGED <<gameServers, parent, splitJoins, nextId, deferred, client, home,
                  closedChildren>>
  BY <1>2 DEF serverVars, joinVars, primVars, clientVars
<1>9. QED BY <1>1, <1>2, <1>4, <1>5, <1>6, <1>7, <1>8, FewerHandshakes

LEMMA HandleClosedHandshakes ==
  ASSUME HandshakeInv, NEW c \in Clients, HandleClosedProxyConnection(c)
  PROVE  Handshakes'
<1> DEFINE closed == {h \in RoutesOf(c) : routes[h].state \notin StillConnecting}
<1>1. /\ Running /\ client[c] # "closed"
      /\ client' = [client EXCEPT ![c] = "closed"]
      /\ routes' = [h \in Live \ closed |->
                      IF routes[h].client = c
                        THEN [routes[h] EXCEPT !.state = "PendingClose"] ELSE routes[h]]
      /\ pcs' = [h \in Ids |-> IF h \in closed THEN <<>> ELSE pcs[h]]
      /\ home' = [home EXCEPT ![c] = NoId]
      /\ deferred' = [deferred EXCEPT ![c] = NoReassignment]
      /\ UNCHANGED <<gameServers, parent, splitJoins, nextId, closedChildren>>
  BY DEF HandleClosedProxyConnection, serverVars, joinVars
<1>2. /\ QueuedJoins /\ SentControllers /\ FinishedHandshakes /\ Homes /\ DepartedClients
      /\ Live \subseteq Ids /\ home \in [Clients -> Ids \cup {NoId}]
      /\ client \in [Clients -> {"offline", "accepted", "joined", "closed"}]
      /\ deferred \in [Clients -> Deferred]
      /\ \A h \in Live : routes[h] \in Route
  BY <1>1 DEF HandshakeInv, Handshakes, RouteInv, TypeOK
<1>3. \A h \in closed : h \in Live /\ routes[h].conn /\ routes[h].client = c
  BY <1>1, <1>2 DEF FinishedHandshakes, DepartedClients, RoutesOf
<1> HIDE DEF closed
<1>4. Live' = Live \ closed BY <1>1 DEF Live
<1>5. \A h \in Live' : /\ routes'[h].client = routes[h].client
                       /\ routes'[h].server = routes[h].server
                       /\ routes'[h].conn = routes[h].conn
                       /\ routes'[h].state \in {routes[h].state, "PendingClose"}
  <2>1. \A h \in Live : LET r == [routes[h] EXCEPT !.state = "PendingClose"]
                        IN  /\ r.client = routes[h].client /\ r.server = routes[h].server
                            /\ r.conn = routes[h].conn /\ r.state = "PendingClose"
    BY <1>2, StateChange DEF RouteState
  <2>2. \A h \in Live' : routes'[h] = IF routes[h].client = c
                           THEN [routes[h] EXCEPT !.state = "PendingClose"] ELSE routes[h]
    BY <1>1, <1>4
  <2>3. QED BY <1>4, <2>1, <2>2
<1>6. \A s \in Servers : \A r \in splitJoins[s] : r.id \in Live'
  BY <1>2, <1>3, <1>4 DEF QueuedJoins
<1>7. /\ \A h \in Ids \ Live' : pcs'[h] = <<>>
      /\ \A h \in Live' : pcs'[h] = pcs[h]
  BY <1>1, <1>2, <1>4 DEF SentControllers
<1>8. \A e \in Clients : home'[e] # NoId =>
          home'[e] = home[e] /\ home[e] \in Live' /\ client'[e] = client[e]
  BY <1>1, <1>2, <1>3, <1>4 DEF Homes
<1>9. \A e \in Clients : deferred'[e] \in {deferred[e], NoReassignment} BY <1>1, <1>2
<1>10. QED BY <1>1, <1>4, <1>5, <1>6, <1>7, <1>8, <1>9, FewerHandshakes

\* What is left when game servers are taken out of the array.
LEMMA RemoveKeeps ==
  ASSUME HandshakeInv, Running, NEW gone \in SUBSET Servers, RemoveGameServers(gone)
  PROVE  /\ Live' \subseteq Live /\ \A h \in Live' : routes'[h] = routes[h]
         /\ \A s \in Servers : splitJoins'[s] \subseteq splitJoins[s]
         /\ \A s \in Servers : \A r \in splitJoins'[s] : r.id \in Live' /\ parent'[s] = parent[s]
         /\ \A h \in Live' : /\ parent'[routes[h].server] = parent[routes[h].server]
                             /\ splitJoins'[routes[h].server] = splitJoins[routes[h].server]
                             /\ pcs'[h] = pcs[h]
         /\ \A h \in Ids \ Live' : pcs'[h] = <<>>
         /\ \A c \in Clients : \/ home'[c] = home[c] /\ (home[c] # NoId => home[c] \in Live')
                               \/ home'[c] = NoId /\ home[c] \notin Live'
<1> DEFINE closed == {h \in Live : routes[h].server \in gone}
<1>1. /\ parent' = [s \in Servers |-> IF s \in gone THEN "destroyed" ELSE parent[s]]
      /\ splitJoins' = [s \in Servers |-> IF s \in gone THEN {} ELSE splitJoins[s]]
      /\ routes' = Restrict(routes, Live \ closed)
      /\ pcs' = [h \in Ids |-> IF h \in closed THEN <<>> ELSE pcs[h]]
      /\ home' = [c \in Clients |-> IF home[c] \in closed THEN NoId ELSE home[c]]
  BY DEF RemoveGameServers
<1>2. /\ QueuedJoins /\ SentControllers /\ Homes
      /\ Live \subseteq Ids /\ \A h \in Live : routes[h].server \in Servers
  BY DEF HandshakeInv, Handshakes, RouteInv, TypeOK, Route
<1>3. \A h \in closed : routes[h].server \in gone /\ h \in Live OBVIOUS
<1>4. \A h \in Live \ closed : routes[h].server \notin gone OBVIOUS
<1> HIDE DEF closed
<1>5. Live' = Live \ closed /\ \A h \in Live' : routes'[h] = routes[h]
  BY <1>1 DEF Live, Restrict
<1>6. /\ \A s \in Servers : splitJoins'[s] \subseteq splitJoins[s]
      /\ \A s \in Servers : \A r \in splitJoins'[s] : r.id \in Live' /\ parent'[s] = parent[s]
  <2>1. \A s \in Servers : splitJoins'[s] \subseteq splitJoins[s] BY <1>1
  <2>2. ASSUME NEW s \in Servers, NEW r \in splitJoins'[s]
        PROVE  r.id \in Live' /\ parent'[s] = parent[s]
    <3>1. s \notin gone /\ r \in splitJoins[s] BY <1>1, <2>2
    <3>2. r.id \in Live /\ routes[r.id].server = s BY <1>2, <3>1 DEF QueuedJoins
    <3>3. r.id \in Live' BY <1>3, <1>5, <3>1, <3>2
    <3>4. QED BY <1>1, <3>1, <3>3
  <2>3. QED BY <2>1, <2>2
<1>7. \A h \in Live' : /\ parent'[routes[h].server] = parent[routes[h].server]
                       /\ splitJoins'[routes[h].server] = splitJoins[routes[h].server]
                       /\ pcs'[h] = pcs[h]
  BY <1>1, <1>2, <1>4, <1>5
<1>8. \A h \in Ids \ Live' : pcs'[h] = <<>> BY <1>1, <1>2, <1>5 DEF SentControllers
<1>9. \A c \in Clients : \/ home'[c] = home[c] /\ (home[c] # NoId => home[c] \in Live')
                         \/ home'[c] = NoId /\ home[c] \notin Live'
  BY <1>1, <1>2, <1>5 DEF Homes
<1>10. QED BY <1>5, <1>6, <1>7, <1>8, <1>9

LEMMA RemoveHandshakes ==
  ASSUME HandshakeInv, Running, NEW gone \in SUBSET Servers, RemoveGameServers(gone),
         UNCHANGED <<nextId, randomize, primVars, clientVars, fault, gameVars>>
  PROVE  Handshakes'
<1> DEFINE kept == Range(gameServers) \ gone
<1>1. parent' = [s \in Servers |-> IF s \in gone THEN "destroyed" ELSE parent[s]]
  BY DEF RemoveGameServers
<1>2. PICK rest \in [1 .. Cardinality(kept) -> kept] : gameServers' = rest
  BY DEF RemoveGameServers
<1>3. Range(gameServers) \subseteq Servers
  <2>1. gameServers \in Seq(Servers) BY DEF HandshakeInv, RouteInv, TypeOK
  <2>2. QED BY <2>1 DEF Range
<1>4. \A s \in Range(gameServers') : s \in Range(gameServers) /\ parent'[s] = parent[s]
  <2>1. Range(gameServers') \subseteq kept BY <1>2 DEF Range
  <2>2. QED BY <1>1, <1>3, <2>1
<1>5. UNCHANGED <<nextId, deferred, client, closedChildren>> BY DEF primVars, clientVars
<1>6. /\ Live' \subseteq Live /\ \A h \in Live' : routes'[h] = routes[h]
      /\ \A s \in Servers : splitJoins'[s] \subseteq splitJoins[s]
      /\ \A s \in Servers : \A r \in splitJoins'[s] : r.id \in Live' /\ parent'[s] = parent[s]
      /\ \A h \in Live' : /\ parent'[routes[h].server] = parent[routes[h].server]
                          /\ splitJoins'[routes[h].server] = splitJoins[routes[h].server]
                          /\ pcs'[h] = pcs[h]
      /\ \A h \in Ids \ Live' : pcs'[h] = <<>>
      /\ \A c \in Clients : \/ home'[c] = home[c] /\ (home[c] # NoId => home[c] \in Live')
                            \/ home'[c] = NoId /\ home[c] \notin Live'
  BY RemoveKeeps
<1>7. \A h \in Live' : /\ routes'[h].client = routes[h].client
                       /\ routes'[h].server = routes[h].server
                       /\ routes'[h].conn = routes[h].conn
                       /\ routes'[h].state \in {routes[h].state, "PendingClose"}
  BY <1>6
<1>8. \A c \in Clients : home'[c] # NoId =>
          home'[c] = home[c] /\ home[c] \in Live' /\ client'[c] = client[c]
  BY <1>5, <1>6
<1>9. \A c \in Clients : deferred'[c] \in {deferred[c], NoReassignment} BY <1>5
<1>10. QED BY <1>4, <1>5, <1>6, <1>7, <1>8, <1>9, FewerHandshakes

LEMMA AcceptHandshakes ==
  ASSUME HandshakeInv, NEW c \in Clients, Accept(c)
  PROVE  Handshakes'
<1>1. /\ Running /\ client[c] = "offline" /\ client' = [client EXCEPT ![c] = "accepted"]
      /\ UNCHANGED <<serverVars, routes, joinVars, primVars, fault, envVars>>
  BY DEF Accept
<1>2. /\ client \in [Clients -> {"offline", "accepted", "joined", "closed"}]
      /\ QueuedJoins /\ SentControllers /\ OpenHandshakes /\ FinishedHandshakes
      /\ Homes /\ Entries
  BY <1>1 DEF HandshakeInv, Handshakes, RouteInv, TypeOK
<1>3. UNCHANGED <<gameServers, parent, splitJoins, routes, nextId, deferred, pcs, home,
                  closedChildren>>
  BY <1>1 DEF serverVars, joinVars, primVars, envVars
<1>4. QueuedJoins' /\ SentControllers' /\ FinishedHandshakes' /\ Entries'
  BY <1>2, <1>3 DEF QueuedJoins, SentControllers, FinishedHandshakes, Entries, Live
<1>5. OpenHandshakes' BY <1>2, <1>3 DEF OpenHandshakes, Live, Requested
<1>6. Homes' BY <1>1, <1>2, <1>3 DEF Homes, Live
<1>7. QED BY <1>4, <1>5, <1>6 DEF Handshakes

LEMMA RegisterGameServerHandshakes ==
  ASSUME HandshakeInv, NEW s \in Servers, RegisterGameServer(s)
  PROVE  Handshakes'
<1>1. /\ Running /\ parent[s] = "unregistered"
      /\ gameServers' = Append(gameServers, s)
      /\ parent' = [parent EXCEPT ![s] = "none"]
      /\ UNCHANGED <<splitJoins, routes, nextId, deferred, client, pcs, home, closedChildren>>
  BY DEF RegisterGameServer, joinVars, primVars, clientVars, envVars
<1>2. /\ gameServers \in Seq(Servers)
      /\ parent \in [Servers -> {"unregistered", "none", "pending", "open", "closed",
                                 "destroyed"}]
      /\ \A h \in Live : routes[h].server \in Servers
      /\ QueuedJoins /\ SentControllers /\ OpenHandshakes /\ FinishedHandshakes
      /\ Homes /\ Entries
  BY <1>1 DEF HandshakeInv, Handshakes, RouteInv, TypeOK, Route
<1>3. \A t \in Servers : \/ parent'[t] = parent[t]
                         \/ parent[t] = "unregistered" /\ parent'[t] = "none"
  BY <1>1, <1>2
<1>4. QueuedJoins' BY <1>1, <1>2, <1>3 DEF QueuedJoins, Live
<1>5. SentControllers' BY <1>1, <1>2, <1>3 DEF SentControllers, Live
<1>6. OpenHandshakes'
  BY <1>1, <1>2, <1>3 DEF OpenHandshakes, Live, Requested
<1>7. FinishedHandshakes' BY <1>1, <1>2 DEF FinishedHandshakes, Live
<1>8. Homes' BY <1>1, <1>2, <1>3 DEF Homes, Live
<1>9. Entries'
  <2>1. Range(gameServers') = Range(gameServers) \cup {s} BY <1>1, <1>2 DEF Range
  <2>2. Range(gameServers) \subseteq Servers BY <1>2 DEF Range
  <2>3. parent'[s] = "none" BY <1>1, <1>2
  <2>4. \A t \in Range(gameServers) : parent[t] \in {"none", "pending", "open", "closed"}
    BY <1>2 DEF Entries
  <2>5. \A t \in Range(gameServers') : parent'[t] \in {"none", "pending", "open", "closed"}
    BY <1>1, <1>2, <2>1, <2>2, <2>3, <2>4
  <2>6. QED BY <1>1, <1>2, <2>5 DEF Entries
<1>10. QED BY <1>4, <1>5, <1>6, <1>7, <1>8, <1>9 DEF Handshakes

\* The parent connection opens: every request in the queue becomes a player controller
\* on its way, and only requests of clients that are still there give a pawn a home.
LEMMA ParentConnectedHandshakes ==
  ASSUME HandshakeInv, NEW s \in Servers, ParentConnected(s)
  PROVE  Handshakes'
<1>1. /\ Running /\ parent[s] = "pending" /\ parent' = [parent EXCEPT ![s] = "open"]
      /\ routes' = routes /\ splitJoins' = [splitJoins EXCEPT ![s] = {}]
      /\ SendSplitJoins(splitJoins[s])
      /\ UNCHANGED <<gameServers, nextId, deferred, client, closedChildren>>
  BY DEF ParentConnected, joinVars, primVars, clientVars
<1>2. /\ parent \in [Servers -> {"unregistered", "none", "pending", "open", "closed",
                                 "destroyed"}]
      /\ splitJoins \in [Servers -> SUBSET SplitJoin]
      /\ Live \subseteq Ids
      /\ \A h \in Live : routes[h].server \in Servers /\ routes[h].client \in Clients
      /\ DepartedClients
      /\ QueuedJoins /\ SentControllers /\ OpenHandshakes /\ FinishedHandshakes
      /\ Homes /\ Entries
  BY <1>1 DEF HandshakeInv, Handshakes, RouteInv, TypeOK, Route
<1> DEFINE sent == splitJoins[s]
<1>3. /\ sent \subseteq SplitJoin
      /\ \A r \in sent : /\ r.id \in Live \ closedChildren
                         /\ routes[r.id].server = s
      /\ \A q, r \in sent : q.id = r.id => q.pc = r.pc
  BY <1>2 DEF QueuedJoins
<1>4. SendSplitJoins(sent) BY <1>1
<1>5. \A t \in Servers : /\ t # s => parent'[t] = parent[t] /\ splitJoins'[t] = splitJoins[t]
                         /\ parent'[s] = "open" /\ splitJoins'[s] = {}
  BY <1>1, <1>2
<1>6. \A h \in Ids : Requested(h) /\ routes[h].server = s => \E r \in sent : r.id = h
  <2>1. ASSUME NEW t \in Servers, NEW q \in splitJoins[t], routes[q.id].server = s
        PROVE  t = s
    BY <1>2, <2>1 DEF QueuedJoins
  <2>2. QED BY <2>1 DEF Requested
<1> HIDE DEF sent
<1>7. /\ \A r \in sent : pcs'[r.id] = <<r.pc>>
      /\ \A h \in Ids : (\A r \in sent : r.id # h) => pcs'[h] = pcs[h]
      /\ \A c \in Clients : \/ home'[c] = home[c]
                            \/ \E r \in sent : /\ home'[c] = r.id
                                               /\ routes'[r.id].client = c
                                               /\ routes'[r.id].state = "ConnectingPrimary"
  BY <1>3, <1>4, SendSplitJoinsSends
<1>8. Live' = Live BY <1>1 DEF Live
<1>9. \A h \in Ids : pcs'[h] # <<>> => pcs[h] # <<>> \/ \E r \in sent : r.id = h
  BY <1>7
<1>10. \A r \in sent : pcs'[r.id] # <<>> BY <1>7
<1>11. QueuedJoins'
  <2>1. ASSUME NEW t \in Servers, NEW r \in splitJoins'[t]
        PROVE  /\ parent'[t] \in {"pending", "closed"} /\ r.id \in Live' \ closedChildren'
               /\ routes'[r.id].server = t /\ ~routes'[r.id].conn /\ pcs'[r.id] = <<>>
               /\ \A q \in splitJoins'[t] : q.id = r.id => q.pc = r.pc
    <3>1. t # s /\ r \in splitJoins[t] BY <1>5, <2>1
    <3>2. /\ parent[t] \in {"pending", "closed"} /\ r.id \in Live \ closedChildren
          /\ routes[r.id].server = t /\ ~routes[r.id].conn /\ pcs[r.id] = <<>>
          /\ \A q \in splitJoins[t] : q.id = r.id => q.pc = r.pc
      BY <1>2, <3>1 DEF QueuedJoins
    <3>3. pcs'[r.id] = <<>> BY <1>2, <1>3, <1>9, <3>1, <3>2
    <3>4. QED BY <1>1, <1>5, <1>8, <3>1, <3>2, <3>3
  <2>2. QED BY <2>1 DEF QueuedJoins
<1>12. SentControllers'
  <2>1. ASSUME NEW h \in Ids, pcs'[h] # <<>>
        PROVE  h \in Live' \ closedChildren' /\ parent'[routes'[h].server] = "open"
    <3>1. CASE pcs[h] # <<>>
      BY <1>1, <1>2, <1>5, <1>8, <3>1 DEF SentControllers
    <3>2. CASE \E r \in sent : r.id = h
      BY <1>1, <1>3, <1>5, <1>8, <3>2
    <3>3. QED BY <1>9, <2>1, <3>1, <3>2
  <2>2. QED BY <2>1 DEF SentControllers
<1>13. OpenHandshakes'
  <2>1. ASSUME NEW h \in Live, ~routes[h].conn, h \notin closedChildren,
               parent'[routes[h].server] # "closed", pcs'[h] = <<>>
        PROVE  Requested(h)'
    <3>1. \A r \in sent : r.id # h BY <1>10, <2>1
    <3>2. pcs[h] = <<>> BY <1>2, <1>7, <2>1, <3>1
    <3>3. parent[routes[h].server] # "closed" BY <1>1, <1>2, <1>5, <2>1
    <3>4. Requested(h) BY <1>2, <2>1, <3>2, <3>3 DEF OpenHandshakes
    <3>5. routes[h].server # s BY <1>2, <1>6, <3>1, <3>4
    <3>6. PICK t \in Servers : \E r \in splitJoins[t] : r.id = h BY <3>4 DEF Requested
    <3>7. t # s BY <1>2, <3>5, <3>6 DEF QueuedJoins
    <3>8. QED BY <1>5, <3>6, <3>7 DEF Requested
  <2>2. QED BY <1>1, <1>8, <2>1 DEF OpenHandshakes
<1>14. FinishedHandshakes' BY <1>1, <1>2, <1>8 DEF FinishedHandshakes
<1>15. Homes'
  <2>1. ASSUME NEW c \in Clients, home'[c] # NoId
        PROVE  /\ client'[c] # "closed" /\ home'[c] \in Live' \ closedChildren'
               /\ routes'[home'[c]].client = c /\ parent'[routes'[home'[c]].server] = "open"
    <3>1. CASE home'[c] = home[c]
      <4>1. /\ client[c] # "closed" /\ home[c] \in Live \ closedChildren
            /\ routes[home[c]].client = c /\ parent[routes[home[c]].server] = "open"
        BY <1>2, <2>1, <3>1 DEF Homes
      <4>2. QED BY <1>1, <1>2, <1>5, <1>8, <3>1, <4>1
    <3>2. CASE \E r \in sent : /\ home'[c] = r.id /\ routes'[r.id].client = c
                               /\ routes'[r.id].state = "ConnectingPrimary"
      <4>1. /\ home'[c] \in Live \ closedChildren /\ routes[home'[c]].server = s
            /\ routes[home'[c]].client = c /\ routes[home'[c]].state = "ConnectingPrimary"
        BY <1>1, <1>3, <3>2
      <4>2. client[c] # "closed" BY <1>2, <4>1 DEF DepartedClients
      <4>3. QED BY <1>1, <1>5, <1>8, <4>1, <4>2
    <3>3. QED BY <1>7, <3>1, <3>2
  <2>2. QED BY <2>1 DEF Homes
<1>16. Entries'
  <2>1. \A t \in Range(gameServers) \cap Servers :
            parent'[t] \in {"none", "pending", "open", "closed"}
    BY <1>2, <1>5 DEF Entries
  <2>2. Range(gameServers) \subseteq Servers
    <3>1. gameServers \in Seq(Servers) BY DEF HandshakeInv, RouteInv, TypeOK
    <3>2. QED BY <3>1 DEF Range
  <2>3. QED BY <1>1, <1>2, <2>1, <2>2 DEF Entries
<1>17. QED BY <1>11, <1>12, <1>13, <1>14, <1>15, <1>16 DEF Handshakes

\* A lost parent connection takes with it what was on its way and the pawns behind it.
LEMMA ParentLostHandshakes ==
  ASSUME HandshakeInv, NEW s \in Servers, ParentLost(s)
  PROVE  Handshakes'
<1> DEFINE lost == {h \in Live : routes[h].server = s}
<1>1. /\ Running /\ parent[s] \in {"pending", "open"}
      /\ parent' = [parent EXCEPT ![s] = "closed"]
      /\ pcs' = [h \in Ids |-> IF h \in lost THEN <<>> ELSE pcs[h]]
      /\ home' = [c \in Clients |-> IF home[c] \in lost THEN NoId ELSE home[c]]
      /\ UNCHANGED <<gameServers, splitJoins, routes, nextId, deferred, client,
                     closedChildren>>
  BY DEF ParentLost, joinVars, primVars, clientVars
<1>2. /\ parent \in [Servers -> {"unregistered", "none", "pending", "open", "closed",
                                 "destroyed"}]
      /\ Live \subseteq Ids
      /\ \A h \in Live : routes[h].server \in Servers
      /\ QueuedJoins /\ SentControllers /\ OpenHandshakes /\ FinishedHandshakes
      /\ Homes /\ Entries
  BY <1>1 DEF HandshakeInv, Handshakes, RouteInv, TypeOK, Route
<1>3. /\ \A t \in Servers \ {s} : parent'[t] = parent[t]
      /\ parent'[s] = "closed"
      /\ Live' = Live
  BY <1>1, <1>2 DEF Live
<1>4. \A h \in Live : h \in lost <=> routes[h].server = s OBVIOUS
<1> HIDE DEF lost
<1>5. QueuedJoins' BY <1>1, <1>2, <1>3 DEF QueuedJoins
<1>6. SentControllers' BY <1>1, <1>2, <1>3, <1>4 DEF SentControllers
<1>7. OpenHandshakes'
  BY <1>1, <1>2, <1>3, <1>4 DEF OpenHandshakes, Requested
<1>8. FinishedHandshakes' BY <1>1, <1>2, <1>3 DEF FinishedHandshakes
<1>9. Homes' BY <1>1, <1>2, <1>3, <1>4 DEF Homes
<1>10. Entries'
  <2>1. Range(gameServers) \subseteq Servers
    <3>1. gameServers \in Seq(Servers) BY DEF HandshakeInv, RouteInv, TypeOK
    <3>2. QED BY <3>1 DEF Range
  <2>2. QED BY <1>1, <1>2, <1>3, <2>1 DEF Entries
<1>11. QED BY <1>5, <1>6, <1>7, <1>8, <1>9, <1>10 DEF Handshakes

LEMMA CloseChildHandshakes ==
  ASSUME HandshakeInv, NEW h \in Ids, CloseChildConnection(h)
  PROVE  Handshakes'
<1>1. /\ Running /\ h \in Live /\ ~Requested(h)
      /\ closedChildren' = closedChildren \cup {h}
      /\ pcs' = [pcs EXCEPT ![h] = <<>>]
      /\ home' = [c \in Clients |-> IF home[c] = h THEN NoId ELSE home[c]]
      /\ UNCHANGED <<gameServers, parent, splitJoins, routes, nextId, deferred, client>>
  BY DEF CloseChildConnection, serverVars, joinVars, primVars, clientVars
<1>2. /\ pcs \in [Ids -> Seq(PC)] /\ Live \subseteq Ids /\ \A g \in Live : g < nextId
      /\ QueuedJoins /\ SentControllers /\ OpenHandshakes /\ FinishedHandshakes
      /\ Homes /\ Entries
  BY <1>1 DEF HandshakeInv, Handshakes, RouteInv, TypeOK, DeferredAreOwn
<1>3. /\ Live' = Live /\ pcs'[h] = <<>>
      /\ \A g \in Ids \ {h} : pcs'[g] = pcs[g]
  BY <1>1, <1>2 DEF Live
<1>4. QueuedJoins'
  <2>1. \A s \in Servers : \A r \in splitJoins[s] : r.id # h BY <1>1 DEF Requested
  <2>2. QED BY <1>1, <1>2, <1>3, <2>1 DEF QueuedJoins
<1>5. SentControllers' BY <1>1, <1>2, <1>3 DEF SentControllers
<1>6. OpenHandshakes' BY <1>1, <1>2, <1>3 DEF OpenHandshakes, Requested
<1>7. FinishedHandshakes' BY <1>1, <1>2, <1>3 DEF FinishedHandshakes
<1>8. Homes' BY <1>1, <1>2, <1>3 DEF Homes
<1>9. Entries' BY <1>1, <1>2 DEF Entries
<1>10. QED BY <1>4, <1>5, <1>6, <1>7, <1>8, <1>9 DEF Handshakes

\* Both ends of a migration are open children, so that nothing is queued for them.
LEMMA MigrateHandshakes ==
  ASSUME HandshakeInv, NEW c \in Clients, NEW h \in Ids, Migrate(c, h)
  PROVE  Handshakes'
<1> DEFINE from == home[c]
<1>1. /\ Running /\ from # NoId /\ h \in Live /\ routes[h].client = c
      /\ parent[routes[h].server] = "open" /\ h \notin closedChildren /\ ~Requested(h)
      /\ home' = [home EXCEPT ![c] = h]
      /\ UNCHANGED <<gameServers, parent, splitJoins, routes, nextId, deferred, client,
                     closedChildren>>
  BY DEF Migrate, RoutesOf, serverVars, joinVars, primVars, clientVars
<1>2. /\ pcs \in [Ids -> Seq(PC)] /\ Live \subseteq Ids
      /\ home \in [Clients -> Ids \cup {NoId}]
      /\ QueuedJoins /\ SentControllers /\ OpenHandshakes /\ FinishedHandshakes
      /\ Homes /\ Entries
  BY <1>1 DEF HandshakeInv, Handshakes, RouteInv, TypeOK
<1>3. PICK lost : pcs' = [g \in Ids |-> IF g \in lost THEN pcs[g]
                                        ELSE IF g = from THEN Append(pcs[g], "noPawn")
                                        ELSE IF g = h THEN Append(pcs[g], "game")
                                        ELSE pcs[g]]
  BY DEF Migrate
<1>4. /\ Live' = Live
      /\ \A g \in Ids : g \notin {from, h} => pcs'[g] = pcs[g]
  BY <1>1, <1>3 DEF Live
<1>5. /\ client[c] # "closed" /\ from \in Live \ closedChildren
      /\ parent[routes[from].server] = "open"
  BY <1>1, <1>2 DEF Homes
<1>6. \A g \in Ids : pcs[g] # <<>> => pcs'[g] # <<>>
  <2>1. ASSUME NEW g \in Ids, pcs[g] # <<>> PROVE pcs'[g] # <<>>
    <3>1. pcs[g] \in Seq(PC) BY <1>2
    <3>2. Append(pcs[g], "noPawn") # <<>> /\ Append(pcs[g], "game") # <<>> BY <3>1
    <3>3. QED BY <1>3, <2>1, <3>2
  <2>2. QED BY <2>1
<1>7. QueuedJoins'
  <2>1. \A s \in Servers : \A r \in splitJoins[s] : r.id \notin {from, h}
    <3>1. \A s \in Servers : \A r \in splitJoins[s] :
             routes[r.id].server = s /\ parent[s] \in {"pending", "closed"}
      BY <1>2 DEF QueuedJoins
    <3>2. QED BY <1>1, <1>5, <3>1
  <2>2. \A s \in Servers : \A r \in splitJoins[s] : r.id \in Ids BY <1>2 DEF QueuedJoins
  <2>3. QED BY <1>1, <1>2, <1>4, <2>1, <2>2 DEF QueuedJoins
<1>8. SentControllers' BY <1>1, <1>2, <1>4, <1>5 DEF SentControllers
<1>9. OpenHandshakes'
  BY <1>1, <1>2, <1>4, <1>6 DEF OpenHandshakes, Requested
<1>10. FinishedHandshakes' BY <1>1, <1>2, <1>4 DEF FinishedHandshakes
<1>11. Homes' BY <1>1, <1>2, <1>4, <1>5 DEF Homes
<1>12. Entries' BY <1>1, <1>2 DEF Entries
<1>13. QED BY <1>7, <1>8, <1>9, <1>10, <1>11, <1>12 DEF Handshakes

LEMMA StutterHandshakes ==
  ASSUME Handshakes, UNCHANGED vars
  PROVE  Handshakes'
<1>1. UNCHANGED <<gameServers, parent, splitJoins, routes, nextId, deferred, client, pcs, home,
                  closedChildren>>
  BY DEF vars, serverVars, joinVars, primVars, clientVars, envVars
<1>2. QueuedJoins' /\ SentControllers' /\ FinishedHandshakes' /\ Homes' /\ Entries'
  BY <1>1 DEF Handshakes, QueuedJoins, SentControllers, FinishedHandshakes, Homes,
              Entries, Live
<1>3. OpenHandshakes' BY <1>1 DEF Handshakes, OpenHandshakes, Live, Requested
<1>4. QED BY <1>2, <1>3 DEF Handshakes

-----------------------------------------------------------------------------
(* The invariant.                                                          *)

LEMMA NextHandshakeInv ==
  ASSUME HandshakeInv, [Next]_vars
  PROVE  HandshakeInv'
<1>1. RouteInv' BY NextRouteInv DEF HandshakeInv
<1>2. CASE ~Running /\ UNCHANGED vars
  <2>1. UNCHANGED <<parent, splitJoins, fault>> BY <1>2 DEF vars, serverVars
  <2>2. QED BY <1>1, <1>2, <2>1 DEF HandshakeInv, QueuesWait, Running
<1>3. ASSUME Handshakes' PROVE HandshakeInv'
  <2>1. QueuesWait'
    BY <1>3 DEF Handshakes, QueuedJoins, QueuesWait
  <2>2. QED BY <1>1, <1>3, <2>1 DEF HandshakeInv
<1>4. CASE \/ \E c \in Clients : JoinDividesByZero(c)
           \/ \E s \in Servers : ParentSearchFaults(s)
           \/ ShutdownFaults
  <2>1. UNCHANGED <<parent, splitJoins>> /\ fault' # "none"
    BY <1>4 DEF JoinDividesByZero, ParentSearchFaults, ShutdownFaults, serverVars
  <2>2. QED BY <1>1, <2>1 DEF HandshakeInv, QueuesWait, Running
<1>5. CASE Shutdown
  <2>1. splitJoins' = [s \in Servers |-> {}] /\ fault' # "none" BY <1>5 DEF Shutdown
  <2>2. QED BY <1>1, <2>1 DEF HandshakeInv, QueuesWait, Running
<1>6. CASE Running /\ UNCHANGED vars
  BY <1>3, <1>6, StutterHandshakes DEF HandshakeInv
<1>7. ASSUME NEW c \in Clients, Accept(c) \/ Join(c) \/ HandleClosedProxyConnection(c)
      PROVE  Handshakes'
  BY <1>7, AcceptHandshakes, JoinHandshakes, HandleClosedHandshakes
<1>8. ASSUME NEW s \in Servers,
             \/ ParentConnected(s) \/ ParentLost(s) \/ RegisterGameServer(s)
             \/ RegisterGameServerAndConnectClients(s)
      PROVE  Handshakes'
  BY <1>8, ParentConnectedHandshakes, ParentLostHandshakes, RegisterGameServerHandshakes,
     RegisterAndConnectHandshakes
<1>9. ASSUME NEW s \in Servers, UnregisterGameServer(s) PROVE Handshakes'
  <2>1. /\ Running /\ RemoveGameServers({s}) /\ {s} \in SUBSET Servers
        /\ UNCHANGED <<nextId, randomize, primVars, clientVars, fault, gameVars>>
    BY <1>9 DEF UnregisterGameServer
  <2>2. QED BY <2>1, RemoveHandshakes
<1>10. ASSUME DetectGameServerDisconnections PROVE Handshakes'
  <2>1. LostServers \in SUBSET Servers
    <3>1. gameServers \in Seq(Servers) BY DEF HandshakeInv, RouteInv, TypeOK
    <3>2. QED BY <3>1 DEF LostServers, Range
  <2>2. /\ Running /\ RemoveGameServers(LostServers)
        /\ UNCHANGED <<nextId, randomize, primVars, clientVars, fault, gameVars>>
    BY <1>10 DEF DetectGameServerDisconnections
  <2>3. QED BY <2>1, <2>2, RemoveHandshakes
<1>11. ASSUME NEW h \in Ids, GameServerAssignPlayerController(h) \/ CloseChildConnection(h)
       PROVE  Handshakes'
  BY <1>11, AssignConnectingHandshakes, ReassignHandshakes, AssignPendingCloseHandshakes, CloseChildHandshakes DEF GameServerAssignPlayerController
<1>12. ASSUME NEW c \in Clients, NEW h \in Ids, Migrate(c, h) PROVE Handshakes'
  BY <1>12, MigrateHandshakes
<1>13. QED
  BY <1>2, <1>3, <1>4, <1>5, <1>6, <1>7, <1>8, <1>9, <1>10, <1>11, <1>12 DEF Next

THEOREM HandshakeInvariant == Spec => []HandshakeInv
<1>1. Init => HandshakeInv
  BY InitHandshakes, InitType, InitRouteInv DEF HandshakeInv, RouteInv
<1>2. HandshakeInv /\ [Next]_vars => HandshakeInv' BY NextHandshakeInv
<1>3. QED BY <1>1, <1>2, PTL DEF Spec

\* Every route without a child connection is waiting for exactly one thing that can give
\* it one, as long as its server is there and has not closed the child; nothing is queued
\* behind a parent connection that is open (FlushSplitJoinRequests).
THEOREM HandshakesStayInProgress == Spec => []HandshakesInProgress
<1>1. ASSUME HandshakeInv PROVE HandshakesInProgress
  <2>1. \A s \in Servers : splitJoins[s] # {} => parent[s] \in {"pending", "closed"}
    BY <1>1 DEF HandshakeInv, QueuesWait
  <2>2. ASSUME Running, NEW h \in Live
        PROVE  /\ routes[h].conn \/ h \in closedChildren => ~Requested(h)
               /\ ~routes[h].conn /\ h \notin closedChildren /\ parent[routes[h].server] # "closed"
                     => (Requested(h) <=> pcs[h] = <<>>)
    <3>1. QueuedJoins /\ OpenHandshakes BY <1>1, <2>2 DEF HandshakeInv, Handshakes
    <3>2. Requested(h) => /\ h \notin closedChildren /\ ~routes[h].conn /\ pcs[h] = <<>>
      BY <3>1 DEF QueuedJoins, Requested
    <3>3. QED BY <3>1, <3>2 DEF OpenHandshakes
  <2>3. QED BY <2>1, <2>2 DEF HandshakesInProgress
<1>2. QED BY <1>1, HandshakeInvariant, PTL
=============================================================================
