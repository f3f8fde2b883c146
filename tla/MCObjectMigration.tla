------------------------- MODULE MCObjectMigration -------------------------
(* Instances of ObjectMigration for TLC. *)
EXTENDS ObjectMigration, TLC

CONSTANTS s1, s2, s3, o1, o2

AddressOrderDef == SelectSeq(<<s1, s2, s3>>, LAMBDA s : s \in Servers)

\* Every server has the addresses of the others, as the README's launch examples do.
OthersLists ==
    [s \in Servers |-> SelectSeq(AddressOrderDef, LAMBDA p : p # s)]

TypeHashDef == [s \in Servers |-> CASE s = s1 -> 7 [] s = s2 -> 1019 [] s = s3 -> 2040]
HomeDef     == [o \in Objects |-> IF o = o1 THEN s1 ELSE s2]
=============================================================================
