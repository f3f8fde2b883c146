-------------------------- MODULE MCChunkTransfer --------------------------
(* An instance of ChunkTransfer for TLC: sizes around the ends of one, two and three     *)
(* chunks.                                                                               *)
EXTENDS ChunkTransfer, TLC

CONSTANTS o1, o2
=============================================================================
