----------------------------- MODULE ProxyViews -----------------------------
(***************************************************************************)
(* Where the game servers think a client looks.  A server that does not    *)
(* have the pawn replicates what is near the position that the proxy tells *)
(* its no-pawn player controller; UProxyNetDriver works that position out  *)
(* before every replication (PrepareStateForRelevancy) and sends it when   *)
(* it is new, but not more often than an interval allows.  The routes move *)
(* underneath as in ProxyRoutes: a migration replaces player controllers.  *)
(***************************************************************************)
EXTENDS ProxyRoutes

CONSTANTS
    Places,  \* positions
    Origin   \* FVector(0, 0, 0), where a no-pawn player controller starts

ASSUME OriginAssumption == Origin \in Places

VARIABLES
    looks,    \* the view point of the controller in primaryOf, by client
    lastPos,  \* LastViewTargetPos of each route
    told      \* what the newest player controller of each child was last told

viewVars == <<vars, looks, lastPos, told>>

ViewInit ==
    /\ Init
    /\ looks   = [c \in Clients |-> Origin]
    /\ lastPos = <<>>
    /\ told    = [h \in Ids |-> Origin]

View(h) == looks[routes[h].client]

\* The routes that the second loop of PrepareStateForRelevancy does not pass over.
NoPawnRoutes == {h \in Live : /\ routes[h].pc = "noPawn"
                              /\ primaryOf[routes[h].client] # NoId}

\* SetRemoteViewTarget: the position is new, and the interval is over for those in due.
Updated(due) == {h \in NoPawnRoutes \cap due : lastPos[h] # View(h)}

\* The routes whose LastViewTargetPos is written.
MutantRemembersEarly(due) == NoPawnRoutes  \* before the interval is looked at
MutantRemembersNothing(due) == {}
Remembered(due) == Updated(due)

\* ServerSetViewTargetPosition is for the controller that the route has: the call is lost
\* when the server has replaced that one.
Told(due) == {h \in Updated(due) : pcs[h] = <<>> /\ h \notin closedChildren}

\* ServerReplicateActors starts with it, on every tick.
PrepareStateForRelevancy(due) ==
    /\ Running
    /\ lastPos' = [h \in Live |-> IF h \in Remembered(due) THEN View(h) ELSE lastPos[h]]
    /\ told'    = [h \in Ids  |-> IF h \in Told(due) THEN View(h) ELSE told[h]]
    /\ UNCHANGED <<vars, looks>>

\* The client looks elsewhere.
Look(c, p) ==
    /\ Running
    /\ primaryOf[c] # NoId
    /\ looks' = [looks EXCEPT ![c] = p]
    /\ UNCHANGED <<vars, lastPos, told>>

\* What the handlers of ProxyRoutes do to a route's position: ConnectToGameServer sets
\* it, and a player controller that replaces another one on the same route leaves it.
Positions == [h \in Live' |-> IF h \in Live THEN lastPos[h] ELSE Origin]

\* A controller that a game server creates has been told nothing.
NewControllers == {h \in Ids : Len(pcs'[h]) > Len(pcs[h])}

Routing(A) ==
    /\ A
    /\ lastPos' = Positions
    /\ told'    = [h \in Ids |-> IF h \in NewControllers THEN Origin ELSE told[h]]
    /\ UNCHANGED looks

ViewNext ==
    \/ Routing(Next)
    \/ \E due \in SUBSET Live : PrepareStateForRelevancy(due)
    \/ \E c \in Clients, p \in Places : Look(c, p)

\* The proxy ticks and its clock goes on, so that the interval of every route is over
\* again and again.
ViewFairness ==
    /\ \A s \in Servers : WF_viewVars(Routing(ParentConnected(s)))
    /\ \A h \in Ids :
          /\ WF_viewVars(Routing(GameServerAssignPlayerController(h)))
          /\ WF_viewVars(\E due \in SUBSET Live : h \in due /\ PrepareStateForRelevancy(due))

ViewSpec == ViewInit /\ [][ViewNext]_viewVars /\ ViewFairness

-----------------------------------------------------------------------------
(* Properties.                                                             *)

\* What a game server believes about a client without a pawn there is what the proxy
\* believes to have told it, or nothing at all when its player controller was replaced
\* (LastViewTargetPos, SetRemoteViewTarget).
BelievesOrStarts ==
    \A h \in NoPawnRoutes : told[h] \in {lastPos[h], Origin}

\* Route h has a no-pawn controller for good, and its client looks at p.
Watches(h, p) == h \in NoPawnRoutes /\ pcs[h] = <<>> /\ View(h) = p

\* The position is known there, or taken to be: a position sent to a controller is not
\* sent again to the one that replaces it.
Knows(h, p) == told[h] = p \/ (h \in Live /\ told[h] = Origin /\ lastPos[h] = p)

\* A client that looks at p for ever has every server without its pawn told so, whatever
\* the interval has held back and however its pawn has moved
\* (net.proxy.NonPrimarySetViewTargetInterval).
ViewsFollow ==
    \A h \in Ids, p \in Places : <>[]Watches(h, p) => <>[]Knows(h, p)
=============================================================================
