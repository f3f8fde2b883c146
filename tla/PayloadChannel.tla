--------------------------- MODULE PayloadChannel ---------------------------
(***************************************************************************)
(* What one direction of a beacon promises to the migrations that use it:  *)
(* payloads arrive whole, once and in the order they were sent, except     *)
(* those that were on their way when the connection was lost.              *)
(***************************************************************************)
EXTENDS Sequences

CONSTANT Payloads

VARIABLES
    transit,  \* payloads on their way
    received  \* payloads that the other side was given

Init == transit = <<>> /\ received = <<>>

Send(p) ==
    /\ transit' = Append(transit, p)
    /\ UNCHANGED received

Receive ==
    /\ transit # <<>>
    /\ transit'  = Tail(transit)
    /\ received' = Append(received, Head(transit))

Break ==
    /\ transit' = <<>>
    /\ UNCHANGED received

Next == (\E p \in Payloads : Send(p)) \/ Receive \/ Break

Spec == Init /\ [][Next]_<<transit, received>>
=============================================================================
