--------------------------- MODULE ChunkTransfer ---------------------------
(***************************************************************************)
(* The serialized data of a migrating object on one direction of a beacon. *)
(* UDSTMSubsystem::HandleOutgoingMigration sends data that does not fit    *)
(* into one RPC in chunks; ADSTMBeaconClient::HandleReceivedChunk puts them*)
(* together again, per object, in the PendingChunks of the beacon actor.   *)
(*                                                                         *)
(* A payload is known by the number of its migration and its size, and a   *)
(* byte by the payload and its place in it.  RPCs are reliable and arrive  *)
(* in order until the connection is lost; the beacon of the next connection*)
(* is a new actor with no pending chunks.                                  *)
(***************************************************************************)
EXTENDS Integers, Sequences

CONSTANTS
    Objects,       \* objects that migrate over the beacon
    Sizes,         \* sizes of serialized objects
    MaxChunkSize,  \* the sender's MaxChunkSize, and the receiver's 60000
    MaxMigrations  \* bound: migrations over this direction

ASSUME ChunkAssumption ==
    /\ Sizes \subseteq Nat
    /\ MaxChunkSize \in Nat \ {0}
    /\ MaxMigrations \in Nat

Numbers  == 1 .. MaxMigrations
Payload  == [object : Objects, number : Numbers, size : Sizes]
Zero     == <<0, 0>>                     \* a byte of SetNumZeroed
Bytes    == (Numbers \X Nat) \cup {Zero}
Data(p)  == [j \in 1 .. p.size |-> <<p.number, j>>]

\* FChunkAssembly; an entry with no chunks is one that PendingChunks does not have.
Assembly == [TotalChunks : Nat, TotalSize : Nat, ChunksReceived : Nat, data : Seq(Bytes)]
NoAssembly == [TotalChunks |-> 0, TotalSize |-> 0, ChunksReceived |-> 0, data |-> <<>>]

VARIABLES
    here,           \* objects in the sender's world
    there,          \* objects in the receiver's world
    sent,           \* payloads sent, in order
    wire,           \* RPCs on their way
    PendingChunks,  \* PendingChunks of the receiving beacon actor
    received        \* <<object, data>> broadcast by OnMigrationDataReceived

vars == <<here, there, sent, wire, PendingChunks, received>>

Init ==
    /\ here          = Objects
    /\ there         = {}
    /\ sent          = <<>>
    /\ wire          = <<>>
    /\ PendingChunks = [o \in Objects |-> NoAssembly]
    /\ received      = <<>>

-----------------------------------------------------------------------------
\* The sender's side.
Smaller(a, b) == IF a < b THEN a ELSE b

MutantTotalChunks(size) == size \div MaxChunkSize  \* the division rounds down
TotalChunks(size) == (size + MaxChunkSize - 1) \div MaxChunkSize

\* Chunk i of payload p, and the RPC for a payload that fits.
Chunk(p, i) ==
    LET offset == i * MaxChunkSize
    IN  [object |-> p.object, number |-> p.number, index |-> i,
         chunks |-> TotalChunks(p.size), size |-> p.size,
         data |-> [j \in 1 .. Smaller(MaxChunkSize, p.size - offset) |-> Data(p)[offset + j]]]

Whole(p) == [object |-> p.object, number |-> p.number, index |-> 0,
             chunks |-> 0, size |-> p.size, data |-> Data(p)]

MutantFits(size) == size <= MaxChunkSize + 1  \* an RPC more than full
Fits(size) == size <= MaxChunkSize

RPCsOf(p) ==
    IF Fits(p.size) THEN <<Whole(p)>>
    ELSE [i \in 1 .. TotalChunks(p.size) |-> Chunk(p, i - 1)]

\* HandleOutgoingMigration with a beacon: all RPCs of an object go out at once.
HandleOutgoingMigration(o, size) ==
    LET p == [object |-> o, number |-> Len(sent) + 1, size |-> size]
    IN  /\ o \in here
        /\ Len(sent) < MaxMigrations
        /\ here' = here \ {o}
        /\ sent' = Append(sent, p)
        /\ wire' = wire \o RPCsOf(p)
        /\ UNCHANGED <<there, PendingChunks, received>>

-----------------------------------------------------------------------------
\* The receiver's side.
\* OnMigrationDataReceived: the object is put into the receiver's world.
Broadcast(o, data) ==
    /\ received' = Append(received, <<o, data>>)
    /\ there'    = there \cup {o}

\* (Server|Client)ReceiveMigratedObject.
ReceiveMigratedObject ==
    /\ wire # <<>> /\ Head(wire).chunks = 0
    /\ wire' = Tail(wire)
    /\ Broadcast(Head(wire).object, Head(wire).data)
    /\ UNCHANGED <<here, sent, PendingChunks>>

\* The assembly after one more chunk: begun if it is the first, and with the bytes in place.
Begun(a, rpc) ==
    IF a.TotalChunks # 0 THEN a
    ELSE [TotalChunks |-> rpc.chunks, TotalSize |-> rpc.size, ChunksReceived |-> 0,
          data |-> [j \in 1 .. rpc.size |-> Zero]]

Copied(a, rpc) ==
    LET offset == rpc.index * MaxChunkSize
        bytes  == Smaller(Len(rpc.data), rpc.size - offset)
    IN  [a EXCEPT !.data = [j \in DOMAIN @ |->
                               IF j \in offset + 1 .. offset + bytes THEN rpc.data[j - offset]
                               ELSE @[j]],
                  !.ChunksReceived = @ + 1]

\* The entry that is left when all chunks are there.
Removed(a) == NoAssembly

\* (Server|Client)ReceiveMigratedObjectChunk and HandleReceivedChunk.
HandleReceivedChunk ==
    LET rpc == Head(wire)
        a   == Copied(Begun(PendingChunks[rpc.object], rpc), rpc)
    IN  /\ wire # <<>> /\ Head(wire).chunks > 0
        /\ wire' = Tail(wire)
        /\ IF a.ChunksReceived >= a.TotalChunks
             THEN /\ PendingChunks' = [PendingChunks EXCEPT ![rpc.object] = Removed(a)]
                  /\ Broadcast(rpc.object, a.data)
             ELSE /\ PendingChunks' = [PendingChunks EXCEPT ![rpc.object] = a]
                  /\ UNCHANGED <<there, received>>
        /\ UNCHANGED <<here, sent>>

-----------------------------------------------------------------------------
\* The object comes back on the other direction.
ComesBack(o) ==
    /\ o \in there
    /\ here'  = here \cup {o}
    /\ there' = there \ {o}
    /\ UNCHANGED <<sent, wire, PendingChunks, received>>

\* The connection is lost, and dialled again with a new beacon at both ends.
MutantNewBeacon == PendingChunks  \* the chunks of the lost connection are kept
NewBeacon == [o \in Objects |-> NoAssembly]

ConnectionLost ==
    /\ wire' = <<>>
    /\ PendingChunks' = NewBeacon
    /\ UNCHANGED <<here, there, sent, received>>

Next ==
    \/ \E o \in Objects, size \in Sizes : HandleOutgoingMigration(o, size)
    \/ ReceiveMigratedObject
    \/ HandleReceivedChunk
    \/ \E o \in Objects : ComesBack(o)
    \/ ConnectionLost

Spec == Init /\ [][Next]_vars

-----------------------------------------------------------------------------
(* Properties.                                                             *)

RPC == [object : Objects, number : Numbers, index : Nat, chunks : Nat, size : Sizes,
        data : Seq(Bytes)]

\* The types of HandleOutgoingMigration and FChunkAssembly; no RPC parameter is longer than
\* MaxChunkSize ("UE replication limits TArray<uint8> RPC params to 65535 elements").
ChunkTypeOK ==
    /\ here \subseteq Objects
    /\ there \subseteq Objects
    /\ sent \in Seq(Payload)
    /\ wire \in Seq(RPC)
    /\ \A i \in DOMAIN wire : Len(wire[i].data) <= MaxChunkSize
    /\ PendingChunks \in [Objects -> Assembly]
    /\ received \in Seq(Objects \X Seq(Bytes))

\* An entry of PendingChunks is never left behind: its next chunk is the next RPC, so that
\* an object that comes back and leaves again finds no old entry (HandleReceivedChunk takes
\* the chunk count and the buffer of whatever entry it finds).
AssembliesGoOn ==
    \A o \in Objects : PendingChunks[o] # NoAssembly =>
        /\ wire # <<>>
        /\ Head(wire).object = o
        /\ Head(wire).index = PendingChunks[o].ChunksReceived
        /\ Head(wire).chunks = PendingChunks[o].TotalChunks
        /\ Len(PendingChunks[o].data) = Head(wire).size

\* What is broadcast is what was serialized, byte for byte and in order, whatever its size
\* and whenever the connection is lost: the payloads on their way are the one of the next
\* RPC and those that were sent after it.
Transit ==
    IF wire = <<>> THEN <<>>
    ELSE LET first == Head(wire).number
         IN  [i \in 1 .. Len(sent) - first + 1 |->
                 <<sent[first + i - 1].object, Data(sent[first + i - 1])>>]

Channel == INSTANCE PayloadChannel WITH
    Payloads <- {<<p.object, Data(p)>> : p \in Payload},
    transit  <- Transit,
    received <- received

PayloadsArriveWhole == Channel!Spec
=============================================================================
