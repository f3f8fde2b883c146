-------------------------- MODULE ObjectOwnership --------------------------
(***************************************************************************)
(* What the migration of objects between game servers promises: an object  *)
(* is in at most one server's world or in one message on its way, never in *)
(* two places, and an object that is lost stays lost.                      *)
(***************************************************************************)
EXTENDS Integers

CONSTANTS Objects, Servers, Home

VARIABLES
    holders,  \* the servers that have the object in their world
    copies    \* the messages on their way that carry the object

vars == <<holders, copies>>

Init ==
    /\ holders = [o \in Objects |-> {Home[o]}]
    /\ copies  = [o \in Objects |-> 0]

\* The object leaves the world of its server: in a message, or nowhere.
Depart(o) ==
    /\ holders[o] # {}
    /\ holders' = [holders EXCEPT ![o] = {}]
    /\ \E n \in {0, 1} : copies' = [copies EXCEPT ![o] = n]

\* The message arrives.
Arrive(o, s) ==
    /\ copies[o] = 1
    /\ copies'  = [copies EXCEPT ![o] = 0]
    /\ holders' = [holders EXCEPT ![o] = {s}]

\* The objects in lost disappear with a process, a connection or an unheard message.
Lose(lost) ==
    /\ holders' = [o \in Objects |-> IF o \in lost THEN {} ELSE holders[o]]
    /\ copies'  = [o \in Objects |-> IF o \in lost THEN 0 ELSE copies[o]]

Next ==
    \/ \E o \in Objects : Depart(o)
    \/ \E o \in Objects, s \in Servers : Arrive(o, s)
    \/ \E lost \in SUBSET Objects : Lose(lost)

Spec == Init /\ [][Next]_vars
=============================================================================
