--------------------------- MODULE MCBeaconMesh ---------------------------
(* Instances of BeaconMesh for TLC: three servers, s1 first in address order. *)
EXTENDS BeaconMesh, TLC

CONSTANTS s1, s2, s3

AddressOrderDef == SelectSeq(<<s1, s2, s3>>, LAMBDA s : s \in Servers)

\* Every server has the same list, its own address included ("Assume every server wil
\* receive the same list of addresses", RegisterServer).
SameLists == [s \in Servers |-> AddressOrderDef]

\* Every server has the addresses of the others, as the README's launch examples do.
OthersLists ==
    [s \in Servers |-> SelectSeq(AddressOrderDef, LAMBDA p : p # s)]

TypeHashDef == [s \in Servers |-> CASE s = s1 -> 7 [] s = s2 -> 1019 [] s = s3 -> 2040]
=============================================================================
