------------------------- MODULE ProxyEntriesProofs -------------------------
(***************************************************************************)
(* A client gets a second route to a game server in one way only: by its   *)
(* NMT_Join, to a server that registered while its connection was open.    *)
(*                                                                         *)
(* Two calls create routes: NMT_Join creates those of one client to every  *)
(* entry, and a registration creates those of every open client to one new *)
(* entry.  Neither doubles a route by itself: the array has no entry       *)
(* twice, and no route leads to a server that registers.  The inductive    *)
(* invariant says so; what is left is a join that meets the route of an    *)
(* earlier registration.                                                   *)
(***************************************************************************)
EXTENDS ProxyHandshakeProofs

USE DEF NoId, gameVars

\* A game server has one entry.
OneEntryPerServer ==
    \A i, j \in DOMAIN gameServers : gameServers[i] = gameServers[j] => i = j

\* Entries, and the servers that routes lead to, have been registered.
ServersWereRegistered ==
    /\ \A s \in Range(gameServers) : parent[s] # "unregistered"
    /\ \A h \in Live : parent[routes[h].server] # "unregistered"

EntriesInv == OneEntryPerServer /\ ServersWereRegistered

\* What JoinsAloneDouble says of one step.
JoinDoubles ==
    \A g, h \in Live' :
        /\ g # h /\ SamePlace(routes[g], routes[h])'
        /\ ~({g, h} \subseteq Live)
        => LET c == routes'[g].client
           IN  /\ client[c] = "accepted" /\ client'[c] = "joined"
               /\ {g, h} \cap Live # {}

-----------------------------------------------------------------------------
LEMMA InitEntries == Init => EntriesInv
<1> SUFFICES ASSUME Init PROVE EntriesInv OBVIOUS
<1>1. /\ gameServers = StartupServers /\ routes = <<>> /\ open = {}
      /\ parent = [s \in Servers |->
                     IF s \in Range(StartupServers) THEN "none" ELSE "unregistered"]
  BY DEF Init
<1>2. Live = {} BY <1>1 DEF Live
<1>3. Range(StartupServers) \subseteq Servers
  <2>1. StartupServers \in Seq(Servers) BY ConstantsAssumption DEF ConstantsAssumption
  <2>2. QED BY <2>1 DEF Range
<1>4. OneEntryPerServer
  BY <1>1, ConstantsAssumption DEF ConstantsAssumption, OneEntryPerServer
<1>5. ServersWereRegistered BY <1>1, <1>2, <1>3 DEF ServersWereRegistered
<1>6. QED BY <1>4, <1>5 DEF EntriesInv

\* Steps that create no route and register no entry.
LEMMA KeptEntries ==
  ASSUME RouteInv, EntriesInv, Live' \subseteq Live,
         \A h \in Live' : routes'[h].server = routes[h].server,
         OneEntryPerServer', Range(gameServers') \subseteq Range(gameServers),
         \A s \in Servers : parent'[s] = "unregistered" => parent[s] = "unregistered"
  PROVE  EntriesInv' /\ JoinDoubles
<1>1. gameServers \in Seq(Servers) /\ routes \in [Live -> Route] BY DEF RouteInv, TypeOK
<1>2. Range(gameServers) \subseteq Servers BY <1>1 DEF Range
<1>3. \A h \in Live : routes[h].server \in Servers BY <1>1 DEF Route
<1>4. ServersWereRegistered'
  <2>1. \A s \in Range(gameServers') : parent'[s] # "unregistered"
    BY <1>2 DEF EntriesInv, ServersWereRegistered
  <2>2. \A h \in Live' : parent'[routes'[h].server] # "unregistered"
    BY <1>3 DEF EntriesInv, ServersWereRegistered
  <2>3. QED BY <2>1, <2>2 DEF ServersWereRegistered
<1>5. JoinDoubles BY DEF JoinDoubles
<1>6. QED BY <1>4, <1>5 DEF EntriesInv

\* Most steps keep the entries as well.
LEMMA SameEntries ==
  ASSUME RouteInv, EntriesInv, Live' \subseteq Live,
         \A h \in Live' : routes'[h].server = routes[h].server,
         \A s \in Servers : parent'[s] = "unregistered" => parent[s] = "unregistered",
         gameServers' = gameServers
  PROVE  EntriesInv' /\ JoinDoubles
<1>1. OneEntryPerServer' BY DEF EntriesInv, OneEntryPerServer
<1>2. QED BY <1>1, KeptEntries

-----------------------------------------------------------------------------
(* New routes.                                                             *)

\* The routes that ConnectToGameServer creates, one for each request.
LEMMA ConnectRequests ==
  ASSUME TypeOK, NEW reqs \in Seq(Request), NEW conns, ConnectToGameServer(conns, reqs)
  PROVE  \A h \in Live' \ Live : /\ h - nextId + 1 \in DOMAIN reqs
                                 /\ routes'[h].client = reqs[h - nextId + 1].client
                                 /\ routes'[h].server = reqs[h - nextId + 1].server
<1>1. /\ Live' = Live \cup {nextId + i - 1 : i \in DOMAIN reqs}
      /\ routes' = [h \in Live' |-> IF h \in Live THEN routes[h]
                                    ELSE NewRoute(reqs[h - nextId + 1])]
  BY DEF ConnectToGameServer, Live, Advanced
<1>2. Len(reqs) \in Nat /\ DOMAIN reqs = 1 .. Len(reqs) OBVIOUS
<1>3. nextId \in Nat
  <2>1. nextId \in 1 .. MaxIds + 1 /\ MaxIds \in Nat
    BY ConstantsAssumption DEF TypeOK, ConstantsAssumption
  <2>2. QED BY <2>1
<1>4. SUFFICES ASSUME NEW h \in Live' \ Live
               PROVE  /\ h - nextId + 1 \in DOMAIN reqs
                      /\ routes'[h].client = reqs[h - nextId + 1].client
                      /\ routes'[h].server = reqs[h - nextId + 1].server
  OBVIOUS
<1>5. PICK i \in DOMAIN reqs : h = nextId + i - 1 BY <1>1, <1>4
<1>6. h - nextId + 1 = i BY <1>2, <1>3, <1>5
<1>7. routes'[h] = NewRoute(reqs[i]) BY <1>1, <1>4, <1>6
<1>8. QED BY <1>5, <1>6, <1>7 DEF NewRoute

\* Requests that differ from each other give routes that differ from each other.
LEMMA ConnectOnce ==
  ASSUME TypeOK,
         NEW reqs \in Seq(Request), NEW conns, ConnectToGameServer(conns, reqs),
         \A i, j \in DOMAIN reqs :
            reqs[i].client = reqs[j].client /\ reqs[i].server = reqs[j].server => i = j,
         NEW g \in Live' \ Live, NEW h \in Live' \ Live,
         routes'[g].client = routes'[h].client, routes'[g].server = routes'[h].server
  PROVE  g = h
<1>1. \A f \in Live' \ Live : /\ f - nextId + 1 \in DOMAIN reqs
                              /\ routes'[f].client = reqs[f - nextId + 1].client
                              /\ routes'[f].server = reqs[f - nextId + 1].server
  BY ConnectRequests
<1>2. nextId \in Int /\ \A f \in Live' : f \in Int
  <2>1. nextId \in 1 .. MaxIds + 1 /\ MaxIds \in Nat /\ Live \subseteq Ids
    BY ConstantsAssumption DEF TypeOK, ConstantsAssumption
  <2>2. Live' = Live \cup {nextId + i - 1 : i \in DOMAIN reqs}
    BY DEF ConnectToGameServer, Live, Advanced
  <2>3. DOMAIN reqs \subseteq Int OBVIOUS
  <2>4. QED BY <2>1, <2>2, <2>3 DEF Ids
<1>3. g - nextId + 1 = h - nextId + 1 BY <1>1
<1>4. QED BY <1>2, <1>3

\* The entry that is new to the array, if any, and the servers the requests name are
\* registered afterwards.
LEMMA ConnectEntries ==
  ASSUME TypeOK, EntriesInv,
         NEW reqs \in Seq(Request), NEW conns, ConnectToGameServer(conns, reqs),
         \A s \in Servers : conns[s] = "unregistered" => parent[s] = "unregistered",
         \A i \in DOMAIN reqs : conns[reqs[i].server] # "unregistered",
         \A s \in Range(gameServers') : s \in Servers /\ conns[s] # "unregistered",
         OneEntryPerServer'
  PROVE  EntriesInv'
<1>1. \A h \in Live : routes'[h] = routes[h] BY ConnectAdds
<1>2. \A h \in Live' \ Live : /\ h - nextId + 1 \in DOMAIN reqs
                              /\ routes'[h].client = reqs[h - nextId + 1].client
                              /\ routes'[h].server = reqs[h - nextId + 1].server
  BY ConnectRequests
<1>3. \A s \in Servers : parent'[s] \in {conns[s], "pending"}
  BY DEF ConnectToGameServer
<1>4. \A i \in DOMAIN reqs : reqs[i].server \in Servers
  <2>1. \A i \in DOMAIN reqs : reqs[i] \in Request OBVIOUS
  <2>2. QED BY <2>1 DEF Request
<1>5. \A h \in Live : routes[h].server \in Servers BY DEF TypeOK, Route
<1>6. ServersWereRegistered'
  <2>1. \A s \in Range(gameServers') : parent'[s] # "unregistered" BY <1>3
  <2>2. ASSUME NEW h \in Live' PROVE parent'[routes'[h].server] # "unregistered"
    <3>1. CASE h \in Live
      BY <1>1, <1>3, <1>5, <3>1 DEF EntriesInv, ServersWereRegistered
    <3>2. CASE h \notin Live BY <1>2, <1>3, <1>4, <3>2
    <3>3. QED BY <3>1, <3>2
  <2>3. QED BY <2>1, <2>2 DEF ServersWereRegistered
<1>7. QED BY <1>6 DEF EntriesInv

\* All requests are of the client that joins, one for each entry.
LEMMA JoinEntries ==
  ASSUME RouteInv, EntriesInv, NEW c \in Clients, Join(c)
  PROVE  EntriesInv' /\ JoinDoubles
<1>1. PICK p \in PrimaryChoices :
         ConnectToGameServer(parent, [i \in 1 .. Len(gameServers) |->
               [client |-> c, server |-> gameServers[i], primary |-> i - 1 = p]])
  BY DEF Join
<1> DEFINE reqs == [i \in 1 .. Len(gameServers) |->
               [client |-> c, server |-> gameServers[i], primary |-> i - 1 = p]]
<1>2. gameServers \in Seq(Servers) /\ Len(gameServers) \in Nat
      /\ DOMAIN gameServers = 1 .. Len(gameServers)
      /\ client \in [Clients -> {"offline", "accepted", "joined", "closed"}] /\ TypeOK
  <2>1. gameServers \in Seq(Servers)
        /\ client \in [Clients -> {"offline", "accepted", "joined", "closed"}] /\ TypeOK
    BY DEF RouteInv, TypeOK
  <2>2. QED BY <2>1
<1>3. reqs \in Seq(Request) BY <1>2 DEF Request
<1>4. client[c] = "accepted" /\ client' = [client EXCEPT ![c] = "joined"]
      /\ gameServers' = gameServers
  BY DEF Join
<1>5. /\ DOMAIN reqs = DOMAIN gameServers
      /\ \A i \in DOMAIN reqs : reqs[i].client = c /\ reqs[i].server = gameServers[i]
  BY <1>2
<1>6. ConnectToGameServer(parent, reqs) BY <1>1
<1> HIDE DEF reqs
<1>7. JoinDoubles
  <2>1. \A i, j \in DOMAIN reqs :
            reqs[i].client = reqs[j].client /\ reqs[i].server = reqs[j].server => i = j
    BY <1>5 DEF EntriesInv, OneEntryPerServer
  <2>2. client'[c] = "joined" BY <1>2, <1>4
  <2>3. \A f \in Live' \ Live : routes'[f].client = c
    BY <1>2, <1>3, <1>5, <1>6, ConnectRequests
  <2>4. ASSUME NEW g \in Live', NEW h \in Live', g # h,
               routes'[g].client = routes'[h].client,
               routes'[g].server = routes'[h].server,
               ~({g, h} \subseteq Live)
        PROVE  routes'[g].client = c /\ {g, h} \cap Live # {}
    <3>1. routes'[g].client = c BY <2>3, <2>4
    <3>2. ~(g \in Live' \ Live /\ h \in Live' \ Live)
      BY <1>2, <1>3, <1>6, <2>1, <2>4, ConnectOnce
    <3>3. QED BY <3>1, <3>2
  <2>5. QED BY <1>4, <2>2, <2>4 DEF JoinDoubles, SamePlace
<1>8. OneEntryPerServer' BY <1>4 DEF EntriesInv, OneEntryPerServer
<1>9. \A s \in Range(gameServers) : s \in Servers /\ parent[s] # "unregistered"
  BY <1>2 DEF EntriesInv, ServersWereRegistered, Range
<1>10. Range(gameServers') = Range(gameServers) BY <1>4
<1>11. \A i \in DOMAIN reqs : parent[reqs[i].server] # "unregistered"
  <2>1. \A i \in DOMAIN reqs : reqs[i].server \in Range(gameServers) BY <1>5 DEF Range
  <2>2. QED BY <1>9, <2>1
<1>12. QED
  BY <1>2, <1>3, <1>6, <1>7, <1>8, <1>9, <1>10, <1>11, ConnectEntries

\* All requests are for the server that registers, one for each open client.
LEMMA RegisterAndConnectEntries ==
  ASSUME RouteInv, EntriesInv, NEW s \in Servers, RegisterGameServerAndConnectClients(s)
  PROVE  EntriesInv' /\ JoinDoubles
<1>1. PICK order \in {f \in [1 .. Cardinality(OpenConnections) -> OpenConnections] :
                        IsInjective(f)} :
        ConnectToGameServer([parent EXCEPT ![s] = "none"],
             [i \in DOMAIN order |->
                 [client |-> order[i], server |-> s, primary |-> FALSE]])
  BY DEF RegisterGameServerAndConnectClients
<1> DEFINE reqs  == [i \in DOMAIN order |->
                       [client |-> order[i], server |-> s, primary |-> FALSE]]
           conns == [parent EXCEPT ![s] = "none"]
<1>2. /\ open \subseteq Clients /\ IsFiniteSet(Clients) /\ TypeOK
      /\ order \in [1 .. Cardinality(open) -> open]
      /\ gameServers \in Seq(Servers)
      /\ parent \in [Servers -> {"unregistered", "none", "pending", "open", "closed",
                                 "destroyed"}]
  BY ConstantsAssumption DEF RouteInv, TypeOK, OpenConnections, ConstantsAssumption
<1>3. DOMAIN order = 1 .. Cardinality(open) /\ Cardinality(open) \in Nat
      /\ \A i \in DOMAIN order : order[i] \in open
  BY <1>2, ArrayType
<1>4. \A i, j \in DOMAIN order : order[i] = order[j] => i = j BY <1>1 DEF IsInjective
<1>5. reqs \in Seq(Request)
  <2>1. \A i \in DOMAIN order :
           [client |-> order[i], server |-> s, primary |-> FALSE] \in Request
    BY <1>2, <1>3 DEF Request
  <2>2. reqs \in [1 .. Cardinality(open) -> Request] BY <1>3, <2>1
  <2>3. Cardinality(open) \in Nat BY <1>3
  <2> HIDE DEF reqs
  <2>4. QED BY <2>2, <2>3
<1>6. /\ DOMAIN reqs = DOMAIN order
      /\ \A i \in DOMAIN reqs : reqs[i].client = order[i] /\ reqs[i].server = s
  OBVIOUS
<1>7. parent[s] = "unregistered" /\ gameServers' = Append(gameServers, s)
  BY DEF RegisterGameServerAndConnectClients
<1>8. /\ conns[s] = "none" /\ \A t \in Servers \ {s} : conns[t] = parent[t]
  BY <1>2
<1>9. ConnectToGameServer(conns, reqs) BY <1>1
<1> HIDE DEF reqs, conns
<1>10. \A t \in Range(gameServers) : t \in Servers /\ t # s /\ parent[t] # "unregistered"
  BY <1>2, <1>7 DEF EntriesInv, ServersWereRegistered, Range
<1>11. OneEntryPerServer'
  <2>1. Len(gameServers) \in Nat /\ DOMAIN gameServers = 1 .. Len(gameServers)
    BY <1>2
  <2>2. /\ DOMAIN gameServers' = 1 .. Len(gameServers) + 1
        /\ gameServers'[Len(gameServers) + 1] = s
        /\ \A i \in DOMAIN gameServers : gameServers'[i] = gameServers[i]
    BY <1>2, <1>7
  <2>3. \A i \in DOMAIN gameServers : gameServers[i] # s BY <1>10 DEF Range
  <2>4. \A i \in DOMAIN gameServers' : i \in DOMAIN gameServers \/ i = Len(gameServers) + 1
    BY <2>1, <2>2
  <2>5. QED BY <2>2, <2>3, <2>4 DEF EntriesInv, OneEntryPerServer
<1>12. JoinDoubles
  <2>1. \A i, j \in DOMAIN reqs :
            reqs[i].client = reqs[j].client /\ reqs[i].server = reqs[j].server => i = j
    BY <1>4, <1>6
  <2>2. \A f \in Live : routes'[f].server # s
    <3>1. \A f \in Live : routes'[f] = routes[f] BY <1>2, <1>5, <1>9, ConnectAdds
    <3>2. QED BY <1>7, <3>1 DEF EntriesInv, ServersWereRegistered
  <2>3. \A f \in Live' \ Live : routes'[f].server = s
    BY <1>2, <1>5, <1>6, <1>9, ConnectRequests
  <2>4. ASSUME NEW g \in Live', NEW h \in Live',
               routes'[g].client = routes'[h].client,
               routes'[g].server = routes'[h].server,
               ~({g, h} \subseteq Live)
        PROVE  g = h
    <3>1. g \in Live' \ Live /\ h \in Live' \ Live BY <2>2, <2>3, <2>4
    <3>2. QED BY <1>2, <1>5, <1>9, <2>1, <2>4, <3>1, ConnectOnce
  <2>5. QED BY <2>4 DEF JoinDoubles, SamePlace
<1>13. \A t \in Range(gameServers') : t \in Servers /\ conns[t] # "unregistered"
  <2>1. Range(gameServers') = Range(gameServers) \cup {s} BY <1>2, <1>7 DEF Range
  <2>2. QED BY <1>8, <1>10, <2>1
<1>14. \A t \in Servers : conns[t] = "unregistered" => parent[t] = "unregistered"
  BY <1>8
<1>15. \A i \in DOMAIN reqs : conns[reqs[i].server] # "unregistered" BY <1>6, <1>8
<1>16. QED
  BY <1>2, <1>5, <1>9, <1>11, <1>12, <1>13, <1>14, <1>15, ConnectEntries

-----------------------------------------------------------------------------
(* Steps that keep or remove routes.                                       *)

LEMMA AssignConnectingEntries ==
  ASSUME RouteInv, EntriesInv, NEW h \in Ids,
         AssignConnecting(h) \/ AssignConnectingPrimary(h)
  PROVE  EntriesInv' /\ JoinDoubles
<1>1. PICK pc \in PC, st \in {"Connected", "ConnectedPrimary"} :
        /\ h \in Live
        /\ routes' = [routes EXCEPT ![h].state = st, ![h].conn = TRUE, ![h].pc = pc]
  BY DEF AssignConnecting, AssignConnectingPrimary, Received
<1>2. routes \in [Live -> Route] BY DEF RouteInv, TypeOK
<1>3. Live' = Live BY <1>1, <1>2 DEF Live
<1>4. \A g \in Live : routes'[g].server = routes[g].server BY <1>1, <1>2 DEF Route
<1>5. UNCHANGED <<gameServers, parent>>
  BY DEF AssignConnecting, AssignConnectingPrimary, serverVars
<1>6. QED BY <1>3, <1>4, <1>5, SameEntries

LEMMA ReassignEntries ==
  ASSUME RouteInv, EntriesInv, NEW h \in Live,
         NEW rs, NEW prev, NEW game, NEW d, Reassigns(h, rs, prev, game, d),
         \A g \in Live : rs[g].server = routes[g].server,
         UNCHANGED <<gameServers, parent>>
  PROVE  EntriesInv' /\ JoinDoubles
<1>1. /\ rs \in [Live -> Route]
      /\ \A g \in Live : rs[g].client = routes[g].client
      /\ routes' = Finalized(rs, prev, game) \/ routes' = Awaiting(rs, h)
      /\ client' = client /\ open' = open
  BY DEF Reassigns
<1>2. /\ Live' = Live
      /\ \A g \in Live : /\ routes'[g].client = routes[g].client
                         /\ routes'[g].server = routes[g].server
  <2>1. Live' = DOMAIN routes' BY DEF Live
  <2>2. CASE routes' = Finalized(rs, prev, game)
    <3>1. DOMAIN routes' = Live /\ \A g \in Live : routes'[g].client = rs[g].client
      BY <1>1, <2>2, FinalizedType
    <3>2. \A g \in Live : routes'[g].server = rs[g].server
      BY <1>1, <2>2, FinalizedKeeps
    <3>3. QED BY <1>1, <2>1, <3>1, <3>2
  <2>3. CASE routes' = Awaiting(rs, h)
    <3>1. DOMAIN routes' = Live /\ \A g \in Live : routes'[g].client = rs[g].client
      BY <1>1, <2>3, AwaitingType
    <3>2. \A g \in Live : routes'[g].server = rs[g].server
      BY <1>1, <2>3, AwaitingKeeps
    <3>3. QED BY <1>1, <2>1, <3>1, <3>2
  <2>4. QED BY <1>1, <2>2, <2>3
<1>3. QED BY <1>1, <1>2, SameEntries

LEMMA ReassignNoPawnEntries ==
  ASSUME RouteInv, EntriesInv, NEW h \in Ids, ReassignNoPawn(h)
  PROVE  EntriesInv' /\ JoinDoubles
<1> DEFINE rs == [routes EXCEPT ![h].pc = "noPawn"]
<1>1. h \in Live /\ \E prev, game, d : Reassigns(h, rs, prev, game, d)
  BY ReassignNoPawnReassigns
<1>2. \A g \in Live : rs[g].server = routes[g].server BY <1>1 DEF RouteInv, TypeOK, Route
<1>3. UNCHANGED <<gameServers, parent>> BY DEF ReassignNoPawn, serverVars
<1> HIDE DEF rs
<1>4. QED BY <1>1, <1>2, <1>3, ReassignEntries

LEMMA ReassignGameEntries ==
  ASSUME RouteInv, EntriesInv, NEW h \in Ids, ReassignGame(h)
  PROVE  EntriesInv' /\ JoinDoubles
<1> DEFINE rs == [routes EXCEPT ![h].pc = "game"]
<1>1. h \in Live /\ \E prev, game, d : Reassigns(h, rs, prev, game, d)
  BY ReassignGameReassigns
<1>2. \A g \in Live : rs[g].server = routes[g].server BY <1>1 DEF RouteInv, TypeOK, Route
<1>3. UNCHANGED <<gameServers, parent>> BY DEF ReassignGame, serverVars
<1> HIDE DEF rs
<1>4. QED BY <1>1, <1>2, <1>3, ReassignEntries

LEMMA AssignPendingCloseEntries ==
  ASSUME RouteInv, EntriesInv, NEW h \in Ids, AssignPendingClose(h)
  PROVE  EntriesInv' /\ JoinDoubles
<1>1. /\ routes' = Restrict(routes, Live \ {h})
      /\ UNCHANGED <<gameServers, parent, client, open>>
  BY DEF AssignPendingClose, serverVars, clientVars
<1>2. Live' = Live \ {h} /\ \A g \in Live' : routes'[g] = routes[g]
  BY <1>1 DEF Live, Restrict
<1>3. QED BY <1>1, <1>2, SameEntries

LEMMA HandleClosedEntries ==
  ASSUME RouteInv, EntriesInv, NEW c \in Clients, HandleClosedProxyConnection(c)
  PROVE  EntriesInv' /\ JoinDoubles
<1>1. UNCHANGED <<gameServers, parent>> BY DEF HandleClosedProxyConnection, serverVars
<1>2. /\ Live' \subseteq Live
      /\ \A h \in Live' : routes'[h] = IF routes[h].client = c
                                         THEN [routes[h] EXCEPT !.state = "PendingClose"]
                                         ELSE routes[h]
  BY DEF HandleClosedProxyConnection, Live
<1>3. routes \in [Live -> Route] BY DEF RouteInv, TypeOK
<1>4. \A h \in Live' : routes'[h].server = routes[h].server
  <2>1. \A h \in Live :
          [routes[h] EXCEPT !.state = "PendingClose"].server = routes[h].server
    BY <1>3, StateChange DEF RouteState
  <2>2. QED BY <1>2, <2>1
<1>5. QED BY <1>1, <1>2, <1>4, SameEntries

\* The entries that are left keep their order, so they are still different.
LEMMA RemoveEntries ==
  ASSUME RouteInv, EntriesInv, NEW gone \in SUBSET Servers, RemoveGameServers(gone)
  PROVE  EntriesInv' /\ JoinDoubles
<1> DEFINE kept   == Range(gameServers) \ gone
           closed == {h \in Live : routes[h].server \in gone}
           At(s)  == CHOOSE i \in DOMAIN gameServers : gameServers[i] = s
<1>1. gameServers \in Seq(Servers) /\ Range(gameServers) \subseteq Servers
  <2>1. gameServers \in Seq(Servers) BY DEF RouteInv, TypeOK
  <2>2. QED BY <2>1 DEF Range
<1>2. PICK rest \in [1 .. Cardinality(kept) -> kept] :
        /\ \A i, j \in DOMAIN rest : i < j => At(rest[i]) < At(rest[j])
        /\ gameServers' = rest
  BY DEF RemoveGameServers
<1>3. \A s \in Range(gameServers) : At(s) \in DOMAIN gameServers
  BY DEF Range
<1>4. DOMAIN gameServers \subseteq Int BY <1>1
<1>5. IsFiniteSet(kept) /\ Cardinality(kept) \in Nat
  <2>1. IsFiniteSet(Servers) BY ConstantsAssumption DEF ConstantsAssumption
  <2>2. IsFiniteSet(kept) BY <1>1, <2>1, FS_Subset
  <2>3. QED BY <2>2, FS_CardinalityType
<1>6. DOMAIN rest \subseteq Int /\ \A i \in DOMAIN rest : rest[i] \in Range(gameServers)
  <2>1. DOMAIN rest = 1 .. Cardinality(kept) OBVIOUS
  <2>2. \A i \in DOMAIN rest : rest[i] \in kept BY <2>1
  <2>3. kept \subseteq Range(gameServers) OBVIOUS
  <2> HIDE DEF kept
  <2>4. DOMAIN rest \subseteq Int BY <1>5, <2>1
  <2>5. QED BY <2>2, <2>3, <2>4
<1>7. OneEntryPerServer'
  <2> HIDE DEF At, kept
  <2>1. ASSUME NEW i \in DOMAIN rest, NEW j \in DOMAIN rest, rest[i] = rest[j]
        PROVE  i = j
    <3>1. At(rest[i]) \in Int /\ At(rest[j]) = At(rest[i]) BY <1>3, <1>4, <1>6, <2>1
    <3>2. ~(i < j) /\ ~(j < i) BY <1>2, <2>1, <3>1
    <3>3. QED BY <1>6, <3>2
  <2>2. QED BY <1>2, <2>1 DEF OneEntryPerServer
<1>8. Range(gameServers') \subseteq Range(gameServers) BY <1>2, <1>6 DEF Range
<1>9. Live' \subseteq Live /\ \A h \in Live' : routes'[h] = routes[h]
  <2>1. routes' = Restrict(routes, Live \ closed) BY DEF RemoveGameServers
  <2> HIDE DEF closed
  <2>2. QED BY <2>1 DEF Live, Restrict
<1>10. \A s \in Servers : parent'[s] = "unregistered" => parent[s] = "unregistered"
  BY DEF RemoveGameServers
<1>11. QED BY <1>7, <1>8, <1>9, <1>10, KeptEntries

LEMMA ShutdownEntries ==
  ASSUME RouteInv, EntriesInv, Shutdown
  PROVE  EntriesInv' /\ JoinDoubles
<1>1. /\ Live' \subseteq Live
      /\ \A h \in Live' : routes'[h] = [routes[h] EXCEPT !.state = "PendingClose"]
  BY DEF Shutdown, Live
<1>2. routes \in [Live -> Route] BY DEF RouteInv, TypeOK
<1>3. \A h \in Live' : routes'[h].server = routes[h].server
  <2>1. \A h \in Live :
          [routes[h] EXCEPT !.state = "PendingClose"].server = routes[h].server
    BY <1>2, StateChange DEF RouteState
  <2>2. QED BY <1>1, <2>1
<1>4. gameServers' = <<>> /\ \A s \in Servers : parent'[s] \in {parent[s], "destroyed"}
  BY DEF Shutdown
<1>5. OneEntryPerServer' BY <1>4 DEF OneEntryPerServer
<1>6. Range(gameServers') \subseteq Range(gameServers) BY <1>4 DEF Range
<1>7. QED BY <1>1, <1>3, <1>4, <1>5, <1>6, KeptEntries

LEMMA RegisterGameServerEntries ==
  ASSUME RouteInv, EntriesInv, NEW s \in Servers, RegisterGameServer(s)
  PROVE  EntriesInv' /\ JoinDoubles
<1>1. /\ parent[s] = "unregistered" /\ gameServers' = Append(gameServers, s)
      /\ parent' = [parent EXCEPT ![s] = "none"]
      /\ routes' = routes
  BY DEF RegisterGameServer
<1>2. /\ gameServers \in Seq(Servers) /\ routes \in [Live -> Route]
      /\ parent \in [Servers -> {"unregistered", "none", "pending", "open", "closed",
                                 "destroyed"}]
  BY DEF RouteInv, TypeOK
<1>3. \A t \in Range(gameServers) : t \in Servers /\ t # s /\ parent[t] # "unregistered"
  BY <1>1, <1>2 DEF EntriesInv, ServersWereRegistered, Range
<1>4. OneEntryPerServer'
  <2>1. Len(gameServers) \in Nat /\ DOMAIN gameServers = 1 .. Len(gameServers)
    BY <1>2
  <2>2. /\ DOMAIN gameServers' = 1 .. Len(gameServers) + 1
        /\ gameServers'[Len(gameServers) + 1] = s
        /\ \A i \in DOMAIN gameServers : gameServers'[i] = gameServers[i]
    BY <1>1, <1>2
  <2>3. \A i \in DOMAIN gameServers : gameServers[i] # s BY <1>3 DEF Range
  <2>4. \A i \in DOMAIN gameServers' : i \in DOMAIN gameServers \/ i = Len(gameServers) + 1
    BY <2>1, <2>2
  <2>5. QED BY <2>2, <2>3, <2>4 DEF EntriesInv, OneEntryPerServer
<1>5. Live' = Live BY <1>1 DEF Live
<1>6. ServersWereRegistered'
  <2>1. Range(gameServers') = Range(gameServers) \cup {s} BY <1>1, <1>2 DEF Range
  <2>2. parent'[s] = "none" /\ \A t \in Servers \ {s} : parent'[t] = parent[t]
    BY <1>1, <1>2
  <2>3. \A t \in Range(gameServers') : parent'[t] # "unregistered" BY <1>3, <2>1, <2>2
  <2>4. \A h \in Live : routes[h].server \in Servers BY <1>2 DEF Route
  <2>5. \A h \in Live : parent[routes[h].server] # "unregistered"
    BY DEF EntriesInv, ServersWereRegistered
  <2>6. \A h \in Live' : parent'[routes'[h].server] # "unregistered"
    BY <1>1, <1>5, <2>2, <2>4, <2>5
  <2>7. QED BY <2>3, <2>6 DEF ServersWereRegistered
<1>7. JoinDoubles BY <1>5 DEF JoinDoubles
<1>8. QED BY <1>4, <1>6, <1>7 DEF EntriesInv

LEMMA OtherEntries ==
  ASSUME RouteInv, EntriesInv,
         \/ \E c \in Clients : Accept(c) \/ JoinDividesByZero(c)
         \/ \E s \in Servers : \/ ParentSearchFaults(s)
                               \/ ParentConnected(s)
                               \/ ParentLost(s)
         \/ \E h \in Ids : CloseChildConnection(h)
         \/ \E c \in Clients, h \in Ids : Migrate(c, h)
         \/ ShutdownFaults
         \/ UNCHANGED vars
  PROVE  EntriesInv' /\ JoinDoubles
<1>1. parent \in [Servers -> {"unregistered", "none", "pending", "open", "closed",
                              "destroyed"}]
  BY DEF RouteInv, TypeOK
<1>2. UNCHANGED <<gameServers, routes>>
  BY DEF Accept, JoinDividesByZero, ParentSearchFaults, ParentConnected, ParentLost,
         CloseChildConnection, Migrate, ShutdownFaults, serverVars, vars
<1>3. \/ parent' = parent
      \/ \E s \in Servers : parent' = [parent EXCEPT ![s] = "open"]
      \/ \E s \in Servers : parent' = [parent EXCEPT ![s] = "closed"]
  BY DEF Accept, JoinDividesByZero, ParentSearchFaults, ParentConnected, ParentLost,
         CloseChildConnection, Migrate, ShutdownFaults, serverVars, vars
<1>4. \A s \in Servers : parent'[s] = "unregistered" => parent[s] = "unregistered"
  BY <1>1, <1>3
<1>5. Live' = Live BY <1>2 DEF Live
<1>6. QED BY <1>2, <1>4, <1>5, SameEntries

-----------------------------------------------------------------------------
LEMMA NextEntries ==
  ASSUME RouteInv, EntriesInv, [Next]_vars
  PROVE  EntriesInv' /\ JoinDoubles
<1>1. ASSUME NEW c \in Clients, Join(c) \/ HandleClosedProxyConnection(c)
      PROVE  EntriesInv' /\ JoinDoubles
  BY <1>1, JoinEntries, HandleClosedEntries
<1>2. ASSUME NEW s \in Servers,
             RegisterGameServer(s) \/ RegisterGameServerAndConnectClients(s)
      PROVE  EntriesInv' /\ JoinDoubles
  BY <1>2, RegisterGameServerEntries, RegisterAndConnectEntries
<1>3. ASSUME NEW s \in Servers, UnregisterGameServer(s) PROVE EntriesInv' /\ JoinDoubles
  <2>1. RemoveGameServers({s}) /\ {s} \in SUBSET Servers BY <1>3 DEF UnregisterGameServer
  <2>2. QED BY <2>1, RemoveEntries
<1>4. ASSUME DetectGameServerDisconnections PROVE EntriesInv' /\ JoinDoubles
  <2>1. LostServers \in SUBSET Servers
    <3>1. gameServers \in Seq(Servers) BY DEF RouteInv, TypeOK
    <3>2. QED BY <3>1 DEF LostServers, Range
  <2>2. RemoveGameServers(LostServers) BY <1>4 DEF DetectGameServerDisconnections
  <2>3. QED BY <2>1, <2>2, RemoveEntries
<1>5. ASSUME NEW h \in Ids, GameServerAssignPlayerController(h)
      PROVE  EntriesInv' /\ JoinDoubles
  BY <1>5, AssignConnectingEntries, ReassignNoPawnEntries, ReassignGameEntries,
     AssignPendingCloseEntries DEF GameServerAssignPlayerController
<1>6. QED
  BY <1>1, <1>2, <1>3, <1>4, <1>5, ShutdownEntries, OtherEntries DEF Next

\* The array of entries has no server twice, and every route leads to a server that was
\* registered (RegisterGameServer, UnregisterGameServer).
THEOREM EntriesInvariant == Spec => []EntriesInv
<1>1. Init => RouteInv /\ EntriesInv
  BY InitEntries, InitType, InitRouteInv DEF RouteInv
<1>2. RouteInv /\ EntriesInv /\ [Next]_vars => RouteInv' /\ EntriesInv'
  BY NextRouteInv, NextEntries
<1>3. QED BY <1>1, <1>2, PTL DEF Spec

\* Nothing but an NMT_Join gives a client a second route to a game server, and only to one
\* that registered while its connection was already open, in every environment
\* (RegisterGameServerAndConnectClients asks for USOCK_Open, not for a join).
THEOREM OnlyJoinsDouble == Spec => JoinsAloneDouble
<1>1. RouteInv /\ EntriesInv /\ [Next]_vars => [JoinDoubles]_vars BY NextEntries
<1>2. QED
  BY <1>1, RouteInvariant, EntriesInvariant, PTL DEF Spec, JoinsAloneDouble, JoinDoubles
=============================================================================
