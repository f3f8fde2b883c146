--------------------------- MODULE ClientSession ---------------------------
(***************************************************************************)
(* What the proxy promises to a client whose pawn moves from game server   *)
(* to game server.  The servers that take its RPCs and those it gets RPCs  *)
(* from change in two steps; a server that comes to be one of them owns    *)
(* the pawn, and player controllers are never obeyed on two servers.       *)
(***************************************************************************)
CONSTANTS Clients, Servers

VARIABLES
    session,  \* the state of each client's session
    gone      \* clients that have left

vars == <<session, gone>>

\* A session is four sets of servers: the one that owns the pawn, those that get RPCs of
\* the client, those whose RPCs the client gets, and those whose RPCs on player
\* controllers it gets.
Nobody == [pawn |-> {}, talksTo |-> {}, hears |-> {}, obeys |-> {}]

At(a) == [pawn |-> {a}, talksTo |-> {a}, hears |-> {a}, obeys |-> {a}]

\* The pawn has moved from server a to server b, and the client knows nothing of it yet;
\* then either a no longer commands the player, or b takes part in the conversation.
Leaving(a, b) == [pawn |-> {b}, talksTo |-> {a},    hears |-> {a},    obeys |-> {a}]
Silent(a, b)  == [pawn |-> {b}, talksTo |-> {a},    hears |-> {a},    obeys |-> {}]
Between(a, b) == [pawn |-> {b}, talksTo |-> {a, b}, hears |-> {a, b}, obeys |-> {a}]

Init ==
    /\ session = [c \in Clients |-> Nobody]
    /\ gone    = {}

Becomes(c, from, to) ==
    /\ c \notin gone
    /\ session[c] = from
    /\ session' = [session EXCEPT ![c] = to]
    /\ UNCHANGED gone

\* The client enters the game on server b.
Enter(c, b) == Becomes(c, Nobody, At(b))

\* The pawn moves, and the hand-over follows it in two steps.
MovePawn(c, a, b)   == Becomes(c, At(a), Leaving(a, b))
FallSilent(c, a, b) == Becomes(c, Leaving(a, b), Silent(a, b))
TakeRPCs(c, a, b)   == Becomes(c, Leaving(a, b), Between(a, b))
HandOver(c, a, b)   == Becomes(c, Silent(a, b), At(b)) \/ Becomes(c, Between(a, b), At(b))

Leave(c) ==
    /\ c \notin gone
    /\ session' = [session EXCEPT ![c] = Nobody]
    /\ gone'    = gone \cup {c}

Next == \E c \in Clients :
    \/ Leave(c)
    \/ \E b \in Servers : Enter(c, b)
    \/ \E a, b \in Servers :
          /\ a # b
          /\ \/ MovePawn(c, a, b)
             \/ FallSilent(c, a, b)
             \/ TakeRPCs(c, a, b)
             \/ HandOver(c, a, b)

Spec == Init /\ [][Next]_vars
=============================================================================
