------------------------ MODULE ChunkTransferProofs ------------------------
(***************************************************************************)
(* Theorems about ChunkTransfer, for every size of the objects and of the  *)
(* chunks: an assembly is never left behind, and what is broadcast is what *)
(* was serialized.                                                         *)
(***************************************************************************)
EXTENDS ChunkTransfer, SequenceTheorems, TLAPS

-----------------------------------------------------------------------------
(* The places of the chunks of a payload.                                  *)

LEMMA Products ==
  /\ \A i, j \in Nat : i <= j => i * MaxChunkSize <= j * MaxChunkSize
  /\ \A i \in Nat : /\ i * MaxChunkSize \in Nat
                    /\ (i + 1) * MaxChunkSize = i * MaxChunkSize + MaxChunkSize
<1> PICK m \in Nat \ {0} : m = MaxChunkSize BY ChunkAssumption
<1>1. ASSUME NEW i \in Nat PROVE i * m \in Nat /\ (i + 1) * m = i * m + m OBVIOUS
<1>2. ASSUME NEW i \in Nat, NEW j \in Nat, i <= j PROVE i * m <= j * m
  <2>1. j - i \in Nat BY <1>2
  <2>2. (j - i) * m \in Nat BY <2>1
  <2>3. j * m = i * m + (j - i) * m OBVIOUS
  <2>4. i * m \in Nat BY <1>1
  <2>5. QED BY <2>2, <2>3, <2>4
<1>3. QED BY <1>1, <1>2

\* The last chunk is not empty, and it ends where the payload ends.
LEMMA ChunkCount ==
  ASSUME NEW size \in Nat, ~Fits(size)
  PROVE  /\ TotalChunks(size) \in Nat /\ TotalChunks(size) > 1
         /\ (TotalChunks(size) - 1) * MaxChunkSize < size
         /\ size <= TotalChunks(size) * MaxChunkSize
<1> PICK m \in Nat \ {0} : m = MaxChunkSize BY ChunkAssumption
<1> DEFINE n == TotalChunks(size)
<1>1. n = (size + m - 1) \div m BY DEF TotalChunks
<1>2. size > m BY DEF Fits
<1>3. n \in Int /\ m * n <= size + m - 1 /\ size + m - 1 < m * n + m BY <1>1
<1> HIDE DEF n
<1>4. n > 1
  <2>1. SUFFICES ASSUME n <= 1 PROVE FALSE BY <1>3
  <2>2. m * n <= m BY <1>3, <2>1
  <2>3. QED BY <1>2, <1>3, <2>2
<1>5. n * m = m * n /\ (n - 1) * m = m * n - m BY <1>3
<1>6. n * m \in Int /\ m * n \in Int BY <1>3
<1>7. size <= n * m /\ (n - 1) * m < size BY <1>3, <1>5, <1>6
<1>8. QED BY <1>3, <1>4, <1>7 DEF n

\* How many RPCs a payload takes, and the RPC with index i.
Blocks(p)   == IF Fits(p.size) THEN 1 ELSE TotalChunks(p.size)
RPCAt(p, i) == IF Fits(p.size) THEN Whole(p) ELSE Chunk(p, i)

LEMMA BlocksType == \A p \in Payload : Blocks(p) \in Nat /\ Blocks(p) >= 1
<1> SUFFICES ASSUME NEW p \in Payload PROVE Blocks(p) \in Nat /\ Blocks(p) >= 1 OBVIOUS
<1>1. p.size \in Nat BY ChunkAssumption DEF Payload
<1>2. QED BY <1>1, ChunkCount DEF Blocks

LEMMA RPCsOfPayload ==
  ASSUME NEW p \in Payload
  PROVE  /\ RPCsOf(p) = [i \in 1 .. Blocks(p) |-> RPCAt(p, i - 1)]
         /\ Len(RPCsOf(p)) = Blocks(p)
<1>1. Blocks(p) \in Nat BY BlocksType
<1>2. CASE Fits(p.size)
  <2>1. RPCsOf(p) = <<Whole(p)>> /\ Blocks(p) = 1 BY <1>2 DEF RPCsOf, Blocks
  <2>2. \A i : RPCAt(p, i) = Whole(p) BY <1>2 DEF RPCAt
  <2>3. QED BY <2>1, <2>2
<1>3. CASE ~Fits(p.size)
  <2>1. RPCsOf(p) = [i \in 1 .. Blocks(p) |-> Chunk(p, i - 1)]
    BY <1>3 DEF RPCsOf, Blocks
  <2>2. \A i : RPCAt(p, i) = Chunk(p, i) BY <1>3 DEF RPCAt
  <2>3. RPCsOf(p) = [i \in 1 .. Blocks(p) |-> RPCAt(p, i - 1)] BY <2>1, <2>2
  <2>4. QED BY <1>1, <2>3
<1>4. QED BY <1>2, <1>3

LEMMA DataType ==
  ASSUME NEW p \in Payload
  PROVE  Data(p) \in Seq(Bytes) /\ Len(Data(p)) = p.size
<1>1. p.size \in Nat /\ p.number \in Numbers BY ChunkAssumption DEF Payload
<1>2. \A j \in 1 .. p.size : <<p.number, j>> \in Bytes BY <1>1 DEF Bytes
<1>3. Data(p) \in [1 .. p.size -> Bytes] BY <1>2 DEF Data
<1>4. QED BY <1>1, <1>3

\* Chunk i holds the bytes from offset i * MaxChunkSize.
LEMMA ChunkData ==
  ASSUME NEW p \in Payload, ~Fits(p.size), NEW i \in Nat, i < Blocks(p)
  PROVE  LET r == Chunk(p, i)  offset == i * MaxChunkSize
         IN  /\ offset \in Nat /\ offset < p.size
             /\ r.data \in Seq(Bytes)
             /\ Len(r.data) = Smaller(MaxChunkSize, p.size - offset)
             /\ Len(r.data) <= MaxChunkSize
             /\ \A j \in DOMAIN r.data : r.data[j] = <<p.number, offset + j>>
<1> DEFINE offset == i * MaxChunkSize
           k == Smaller(MaxChunkSize, p.size - offset)
           r == Chunk(p, i)
<1>1. p.size \in Nat /\ p.number \in Numbers BY ChunkAssumption DEF Payload
<1>2. offset \in Nat BY Products
<1>3. offset < p.size
  <2> PICK n \in Nat : n = Blocks(p) - 1 BY BlocksType
  <2>1. Blocks(p) = TotalChunks(p.size) BY DEF Blocks
  <2>2. n * MaxChunkSize < p.size BY <1>1, <2>1, ChunkCount
  <2>3. i <= n BY BlocksType
  <2>4. offset <= n * MaxChunkSize /\ n * MaxChunkSize \in Nat BY <2>3, Products
  <2>5. QED BY <1>1, <1>2, <2>2, <2>4
<1>4. r.data = [j \in 1 .. k |-> Data(p)[offset + j]] BY DEF Chunk
<1> HIDE DEF offset, r
<1>5. k \in Nat /\ k <= MaxChunkSize /\ offset + k <= p.size
  BY <1>1, <1>2, <1>3, ChunkAssumption DEF Smaller
<1> HIDE DEF k
<1>6. ASSUME NEW j \in 1 .. k PROVE r.data[j] = <<p.number, offset + j>>
  <2>1. offset + j \in 1 .. p.size BY <1>1, <1>2, <1>5
  <2>2. QED BY <1>4, <2>1 DEF Data
<1>7. \A j \in 1 .. k : <<p.number, offset + j>> \in Bytes BY <1>1, <1>2, <1>5 DEF Bytes
<1>8. r.data \in [1 .. k -> Bytes] BY <1>4, <1>6, <1>7
<1>9. r.data \in Seq(Bytes) /\ Len(r.data) = k /\ DOMAIN r.data = 1 .. k BY <1>5, <1>8
<1>10. QED BY <1>2, <1>3, <1>5, <1>6, <1>9 DEF k, r, offset

LEMMA RPCFacts ==
  ASSUME NEW p \in Payload, NEW i \in Nat, i < Blocks(p)
  PROVE  LET r == RPCAt(p, i)
         IN  /\ r \in RPC /\ Len(r.data) <= MaxChunkSize
             /\ r.object = p.object /\ r.number = p.number /\ r.index = i /\ r.size = p.size
             /\ r.chunks = IF Fits(p.size) THEN 0 ELSE Blocks(p)
<1>1. /\ p.object \in Objects /\ p.number \in Numbers /\ p.size \in Sizes
      /\ p.size \in Nat
  BY ChunkAssumption DEF Payload
<1>2. CASE Fits(p.size)
  <2>1. RPCAt(p, i) = Whole(p) /\ Blocks(p) = 1 /\ i = 0 BY <1>2 DEF RPCAt, Blocks
  <2>2. Data(p) \in Seq(Bytes) /\ Len(Data(p)) <= MaxChunkSize
    BY <1>2, DataType DEF Fits
  <2>3. QED BY <1>1, <1>2, <2>1, <2>2 DEF Whole, RPC
<1>3. CASE ~Fits(p.size)
  <2> DEFINE r == Chunk(p, i)
  <2>1. RPCAt(p, i) = r /\ Blocks(p) = TotalChunks(p.size) BY <1>3 DEF RPCAt, Blocks
  <2>2. Blocks(p) \in Nat /\ Blocks(p) > 1 BY <1>1, <1>3, <2>1, ChunkCount
  <2>3. r.data \in Seq(Bytes) /\ Len(r.data) <= MaxChunkSize BY <1>3, ChunkData
  <2>4. /\ r.object = p.object /\ r.number = p.number /\ r.index = i /\ r.size = p.size
        /\ r.chunks = Blocks(p)
    BY <2>1 DEF Chunk
  <2>5. r \in RPC
    <3>1. r = [object |-> r.object, number |-> r.number, index |-> r.index,
               chunks |-> r.chunks, size |-> r.size, data |-> r.data]
      BY DEF Chunk
    <3> HIDE DEF r
    <3>2. QED BY <1>1, <2>2, <2>3, <2>4, <3>1 DEF RPC
  <2> HIDE DEF r
  <2>6. QED BY <1>3, <2>1, <2>2, <2>3, <2>4, <2>5
<1>4. QED BY <1>2, <1>3

-----------------------------------------------------------------------------
(* What is on the wire w when s was sent: the RPCs of consecutive payloads,*)
(* from some RPC on to the last one.                                       *)

OnWire(s, r) == /\ r.number \in DOMAIN s
                /\ r.index \in Nat /\ r.index < Blocks(s[r.number])
                /\ r = RPCAt(s[r.number], r.index)

Ending(s, r) == r.index = Blocks(s[r.number]) - 1

Follows(s, r, q) == IF Ending(s, r) THEN q.number = r.number + 1 /\ q.index = 0
                                    ELSE q.number = r.number /\ q.index = r.index + 1

Numbered(s) == \A n \in DOMAIN s : s[n].number = n

Consecutive(s, w) ==
    /\ w \in Seq(RPC)
    /\ \A i \in DOMAIN w : OnWire(s, w[i])
    /\ \A i \in DOMAIN w : i + 1 \in DOMAIN w => Follows(s, w[i], w[i + 1])
    /\ w # <<>> => Ending(s, w[Len(w)]) /\ w[Len(w)].number = Len(s)

LEMMA FirstRPC ==
  ASSUME NEW s \in Seq(Payload), Numbered(s), NEW w, Consecutive(s, w), w # <<>>
  PROVE  LET r == Head(w)  p == s[r.number]
         IN  /\ r = w[1] /\ r \in RPC /\ OnWire(s, r)
             /\ r.number \in 1 .. Len(s) /\ p \in Payload /\ p.number = r.number
             /\ r.index \in Nat /\ r.index < Blocks(p) /\ r = RPCAt(p, r.index)
<1>1. w \in Seq(RPC) /\ 1 \in DOMAIN w /\ Head(w) = w[1] BY DEF Consecutive
<1>2. OnWire(s, w[1]) /\ w[1] \in RPC BY <1>1 DEF Consecutive
<1>3. /\ DOMAIN s = 1 .. Len(s)
      /\ \A n \in DOMAIN s : s[n] \in Payload /\ s[n].number = n
  BY DEF Numbered
<1>4. QED BY <1>1, <1>2, <1>3 DEF OnWire

\* The first RPC is taken from the wire.
LEMMA Taken ==
  ASSUME NEW s \in Seq(Payload), NEW w, Consecutive(s, w), w # <<>>
  PROVE  /\ Consecutive(s, Tail(w))
         /\ IF Tail(w) = <<>> THEN Ending(s, Head(w)) /\ Head(w).number = Len(s)
                              ELSE Follows(s, Head(w), Head(Tail(w)))
<1>1. w \in Seq(RPC) /\ Len(w) \in Nat /\ Len(w) >= 1 /\ DOMAIN w = 1 .. Len(w)
  BY DEF Consecutive
<1>2. PICK v : v = Tail(w) OBVIOUS
<1>3. /\ v \in Seq(RPC) /\ Len(v) = Len(w) - 1 /\ DOMAIN v = 1 .. Len(w) - 1
      /\ \A i \in 1 .. Len(w) - 1 : v[i] = w[i + 1]
  <2>1. /\ Tail(w) \in Seq(RPC) /\ Len(Tail(w)) = Len(w) - 1
        /\ \A i \in 1 .. Len(Tail(w)) : Tail(w)[i] = w[i + 1]
    BY <1>1, HeadTailProperties
  <2>2. QED BY <1>2, <2>1
<1>4. Head(w) = w[1] BY <1>1
<1>5. ASSUME NEW i \in DOMAIN v PROVE OnWire(s, v[i])
  <2>1. i + 1 \in DOMAIN w /\ v[i] = w[i + 1] BY <1>1, <1>3
  <2>2. OnWire(s, w[i + 1]) BY <2>1 DEF Consecutive
  <2>3. QED BY <2>1, <2>2
<1>6. ASSUME NEW i \in DOMAIN v, i + 1 \in DOMAIN v PROVE Follows(s, v[i], v[i + 1])
  <2>1. i + 1 \in DOMAIN w /\ (i + 1) + 1 \in DOMAIN w BY <1>1, <1>3, <1>6
  <2>2. Follows(s, w[i + 1], w[(i + 1) + 1]) BY <2>1 DEF Consecutive
  <2>3. QED BY <1>3, <1>6, <2>2
<1>7. CASE v = <<>>
  <2>1. Len(w) = 1
    <3>1. Len(v) = 0 BY <1>7
    <3>2. Len(v) = Len(w) - 1 /\ Len(w) \in Nat BY <1>1, <1>3
    <3>3. QED BY <3>1, <3>2
  <2>2. Ending(s, w[1]) /\ w[1].number = Len(s)
    <3>1. Ending(s, w[Len(w)]) /\ w[Len(w)].number = Len(s) BY DEF Consecutive
    <3>2. QED BY <2>1, <3>1
  <2>3. Consecutive(s, v) BY <1>3, <1>5, <1>6, <1>7 DEF Consecutive
  <2>4. QED BY <1>2, <1>4, <1>7, <2>2, <2>3
<1>8. CASE v # <<>>
  <2>1. Len(v) >= 1 /\ Head(v) = v[1] BY <1>8
  <2>2. v[Len(v)] = w[Len(w)] /\ v[1] = w[2] BY <1>1, <1>3, <2>1
  <2>3. Ending(s, w[Len(w)]) /\ w[Len(w)].number = Len(s) BY <1>1 DEF Consecutive
  <2>4. Follows(s, w[1], w[2])
    <3>1. 1 \in DOMAIN w /\ 1 + 1 \in DOMAIN w BY <1>1, <1>3, <2>1
    <3>2. Follows(s, w[1], w[1 + 1]) BY <3>1 DEF Consecutive
    <3>3. QED BY <3>2
  <2>5. Consecutive(s, v) BY <1>3, <1>5, <1>6, <2>2, <2>3 DEF Consecutive
  <2>6. QED BY <1>2, <1>4, <1>8, <2>1, <2>2, <2>4, <2>5
<1>9. QED BY <1>7, <1>8

\* The RPCs of one more payload go out.
LEMMA Added ==
  ASSUME NEW s \in Seq(Payload), NEW w, Consecutive(s, w),
         NEW p \in Payload, p.number = Len(s) + 1
  PROVE  Consecutive(Append(s, p), w \o RPCsOf(p))
<1> DEFINE rpcs == RPCsOf(p)
<1>1. PICK b \in Nat : b = Blocks(p) /\ b >= 1 BY BlocksType
<1>2. rpcs = [i \in 1 .. b |-> RPCAt(p, i - 1)] BY <1>1, RPCsOfPayload
<1>3. PICK t : t = Append(s, p) OBVIOUS
<1>4. /\ t \in Seq(Payload) /\ Len(t) = Len(s) + 1 /\ DOMAIN t = 1 .. Len(s) + 1 /\ DOMAIN s = 1 .. Len(s)
      /\ t[Len(s) + 1] = p /\ \A n \in 1 .. Len(s) : t[n] = s[n]
      /\ Len(s) \in Nat
  BY <1>3
<1> HIDE DEF rpcs
<1>5. ASSUME NEW i \in 1 .. b
      PROVE  /\ rpcs[i] \in RPC /\ OnWire(t, rpcs[i])
             /\ rpcs[i].number = Len(t) /\ rpcs[i].index = i - 1
             /\ Ending(t, rpcs[i]) <=> i = b
  <2>1. i - 1 \in Nat /\ i - 1 < b BY <1>1
  <2>2. rpcs[i] = RPCAt(p, i - 1) BY <1>2
  <2>3. rpcs[i] \in RPC /\ rpcs[i].number = p.number /\ rpcs[i].index = i - 1
    BY <1>1, <2>1, <2>2, RPCFacts
  <2>4. rpcs[i].number = Len(t) /\ rpcs[i].number \in DOMAIN t /\ t[rpcs[i].number] = p
    BY <1>4, <2>3
  <2>5. OnWire(t, rpcs[i]) BY <1>1, <2>1, <2>2, <2>3, <2>4 DEF OnWire
  <2>6. Ending(t, rpcs[i]) <=> i = b BY <1>1, <2>3, <2>4 DEF Ending
  <2>7. QED BY <2>3, <2>4, <2>5, <2>6
<1>6. rpcs \in Seq(RPC) /\ Len(rpcs) = b /\ DOMAIN rpcs = 1 .. b
  <2>1. rpcs \in [1 .. b -> RPC] BY <1>2, <1>5
  <2>2. QED BY <2>1
<1>7. w \in Seq(RPC) /\ Len(w) \in Nat /\ DOMAIN w = 1 .. Len(w) BY DEF Consecutive
<1>8. PICK v : v = w \o rpcs OBVIOUS
<1>9. /\ v \in Seq(RPC) /\ Len(v) = Len(w) + b /\ DOMAIN v = 1 .. Len(w) + b
      /\ \A i \in 1 .. Len(w) : v[i] = w[i]
      /\ \A i \in 1 .. b : v[Len(w) + i] = rpcs[i]
  <2>1. /\ w \o rpcs \in Seq(RPC) /\ Len(w \o rpcs) = Len(w) + b
        /\ \A i \in 1 .. Len(w) + b :
              (w \o rpcs)[i] = IF i <= Len(w) THEN w[i] ELSE rpcs[i - Len(w)]
    BY <1>6, <1>7, ConcatProperties
  <2>2. ASSUME NEW i \in 1 .. b PROVE v[Len(w) + i] = rpcs[i]
    <3>1. Len(w) + i \in 1 .. Len(w) + b /\ ~(Len(w) + i <= Len(w)) BY <1>7
    <3>2. (Len(w) + i) - Len(w) = i BY <1>7
    <3>3. QED BY <1>8, <2>1, <3>1, <3>2
  <2>3. ASSUME NEW i \in 1 .. Len(w) PROVE v[i] = w[i]
    <3>1. i \in 1 .. Len(w) + b /\ i <= Len(w) BY <1>7
    <3>2. QED BY <1>8, <2>1, <3>1
  <2>4. DOMAIN v = 1 .. Len(w) + b BY <1>8, <2>1
  <2>5. QED BY <1>8, <2>1, <2>2, <2>3, <2>4
<1>10. ASSUME NEW i \in 1 .. Len(w)
       PROVE  /\ OnWire(t, w[i]) /\ t[w[i].number] = s[w[i].number]
              /\ Ending(t, w[i]) <=> Ending(s, w[i])
  <2>1. OnWire(s, w[i]) BY <1>7 DEF Consecutive
  <2>2. w[i].number \in 1 .. Len(s) BY <1>4, <2>1 DEF OnWire
  <2>3. w[i].number \in DOMAIN t /\ t[w[i].number] = s[w[i].number] BY <1>4, <2>2
  <2>4. QED BY <2>1, <2>3 DEF OnWire, Ending
<1>11. ASSUME NEW i \in DOMAIN v PROVE OnWire(t, v[i])
  <2>1. CASE i <= Len(w) BY <1>7, <1>9, <1>10, <2>1
  <2>2. CASE i > Len(w)
    <3>1. PICK k \in 1 .. b : i = Len(w) + k
      <4>1. i - Len(w) \in 1 .. b BY <1>7, <1>9, <2>2
      <4>2. i = Len(w) + (i - Len(w)) BY <1>7, <1>9
      <4>3. QED BY <4>1, <4>2
    <3>2. QED BY <1>5, <1>9, <3>1
  <2>3. QED BY <1>7, <1>9, <2>1, <2>2
<1>12. ASSUME NEW i \in DOMAIN v, i + 1 \in DOMAIN v PROVE Follows(t, v[i], v[i + 1])
  <2>1. CASE i < Len(w)
    <3>1. i \in DOMAIN w /\ i + 1 \in DOMAIN w BY <1>7, <1>9, <2>1
    <3>2. Follows(s, w[i], w[i + 1]) BY <3>1 DEF Consecutive
    <3>3. v[i] = w[i] /\ v[i + 1] = w[i + 1] BY <1>7, <1>9, <3>1
    <3>4. QED BY <1>7, <1>10, <3>1, <3>2, <3>3 DEF Follows
  <2>2. CASE i = Len(w)
    <3>1. Ending(s, w[i]) /\ w[i].number = Len(s)
      BY <1>7, <1>9, <2>2 DEF Consecutive
    <3>2. i \in 1 .. Len(w) /\ 1 \in 1 .. b BY <1>1, <1>9, <2>2
    <3>3. v[i] = w[i] /\ v[i + 1] = rpcs[1] BY <1>9, <2>2, <3>2
    <3>4. Ending(t, w[i]) BY <1>10, <3>1, <3>2
    <3>5. rpcs[1].number = Len(s) + 1 /\ rpcs[1].index = 0 BY <1>4, <1>5, <3>2
    <3>6. QED BY <3>1, <3>3, <3>4, <3>5 DEF Follows
  <2>3. CASE i > Len(w)
    <3>1. PICK k \in 1 .. b : i = Len(w) + k
      <4>1. i - Len(w) \in 1 .. b BY <1>7, <1>9, <2>3
      <4>2. i = Len(w) + (i - Len(w)) BY <1>7, <1>9
      <4>3. QED BY <4>1, <4>2
    <3>2. k + 1 \in 1 .. b /\ i + 1 = Len(w) + (k + 1)
      <4>1. i \in Int /\ k \in Int /\ Len(w) \in Int BY <1>7, <1>9
      <4>2. i + 1 = Len(w) + (k + 1) BY <3>1, <4>1
      <4>3. i < Len(v) BY <1>7, <1>9, <1>12
      <4>4. k < b BY <1>7, <1>9, <3>1, <4>1, <4>3
      <4>5. QED BY <4>1, <4>2, <4>4
    <3>3. v[i] = rpcs[k] /\ v[i + 1] = rpcs[k + 1] BY <1>9, <3>1, <3>2
    <3>4. ~Ending(t, rpcs[k]) BY <1>5, <3>2
    <3>5. /\ rpcs[k].number = Len(t) /\ rpcs[k].index = k - 1
          /\ rpcs[k + 1].number = Len(t) /\ rpcs[k + 1].index = (k + 1) - 1
      BY <1>5, <3>2
    <3>6. QED BY <3>3, <3>4, <3>5 DEF Follows
  <2>4. QED BY <1>7, <1>9, <2>1, <2>2, <2>3
<1>13. Ending(t, v[Len(v)]) /\ v[Len(v)].number = Len(t)
  <2>1. b \in 1 .. b /\ v[Len(v)] = rpcs[b] BY <1>1, <1>9
  <2>2. QED BY <1>5, <2>1
<1>14. Consecutive(t, v) BY <1>9, <1>11, <1>12, <1>13 DEF Consecutive
<1>15. QED BY <1>3, <1>8, <1>14 DEF rpcs

-----------------------------------------------------------------------------
(* The invariant.                                                          *)

SentType ==
    /\ here \subseteq Objects /\ there \subseteq Objects
    /\ sent \in Seq(Payload) /\ Len(sent) <= MaxMigrations /\ Numbered(sent)

\* The assembly of payload p with k chunks.
Assembled(p, k) ==
    [TotalChunks |-> TotalChunks(p.size), TotalSize |-> p.size, ChunksReceived |-> k,
     data |-> [j \in 1 .. p.size |-> IF j <= k * MaxChunkSize THEN <<p.number, j>> ELSE Zero]]

\* The receiver has the chunks of a payload that come before the first RPC on the wire.
Pending(s, w, o) ==
    IF w # <<>> /\ Head(w).object = o /\ Head(w).index > 0
      THEN Assembled(s[Head(w).number], Head(w).index)
      ELSE NoAssembly

ChunkInv ==
    /\ SentType
    /\ Consecutive(sent, wire)
    /\ PendingChunks = [o \in Objects |-> Pending(sent, wire, o)]
    /\ received \in Seq(Objects \X Seq(Bytes))

LEMMA AssembledType ==
  ASSUME NEW p \in Payload, ~Fits(p.size), NEW k \in Nat
  PROVE  /\ Assembled(p, k) \in Assembly /\ Assembled(p, k) # NoAssembly
         /\ Len(Assembled(p, k).data) = p.size
<1>1. p.size \in Nat /\ p.number \in Numbers BY ChunkAssumption DEF Payload
<1>2. TotalChunks(p.size) \in Nat /\ TotalChunks(p.size) > 1 BY <1>1, ChunkCount
<1> DEFINE d == Assembled(p, k).data
<1>3. d = [j \in 1 .. p.size |-> IF j <= k * MaxChunkSize THEN <<p.number, j>> ELSE Zero]
  BY DEF Assembled
<1>4. \A j \in 1 .. p.size : <<p.number, j>> \in Bytes BY <1>1 DEF Bytes
<1>5. Zero \in Bytes BY DEF Bytes
<1> HIDE DEF d
<1>6. d \in [1 .. p.size -> Bytes] BY <1>3, <1>4, <1>5
<1>7. d \in Seq(Bytes) /\ Len(d) = p.size BY <1>1, <1>6
<1>8. Assembled(p, k) = [TotalChunks |-> TotalChunks(p.size), TotalSize |-> p.size,
                         ChunksReceived |-> k, data |-> d]
  BY <1>3 DEF Assembled
<1>9. Assembled(p, k) \in Assembly BY <1>1, <1>2, <1>7, <1>8 DEF Assembly
<1>10. Assembled(p, k) # NoAssembly BY <1>2 DEF Assembled, NoAssembly
<1>11. QED BY <1>7, <1>9, <1>10 DEF d

\* One more chunk: the assembly has one more, and with the last it has the payload.
LEMMA OneMoreChunk ==
  ASSUME NEW p \in Payload, ~Fits(p.size), NEW i \in Nat, i < Blocks(p),
         NEW a, a = (IF i > 0 THEN Assembled(p, i) ELSE NoAssembly)
  PROVE  /\ Copied(Begun(a, Chunk(p, i)), Chunk(p, i)) = Assembled(p, i + 1)
         /\ i + 1 = Blocks(p) => Assembled(p, i + 1).data = Data(p)
<1> DEFINE r == Chunk(p, i)
           offset == i * MaxChunkSize
           bytes == Smaller(Len(r.data), r.size - offset)
<1>1. p.size \in Nat BY ChunkAssumption DEF Payload
<1>2. /\ offset \in Nat /\ offset < p.size
      /\ Len(r.data) = Smaller(MaxChunkSize, p.size - offset)
      /\ r.data \in Seq(Bytes)
      /\ \A j \in DOMAIN r.data : r.data[j] = <<p.number, offset + j>>
  BY ChunkData
<1>3. /\ r.index = i /\ r.size = p.size /\ r.chunks = TotalChunks(p.size)
  BY DEF Chunk
<1>4. TotalChunks(p.size) \in Nat /\ TotalChunks(p.size) > 1 /\ Blocks(p) = TotalChunks(p.size)
  BY <1>1, ChunkCount DEF Blocks
<1>5. (i + 1) * MaxChunkSize = offset + MaxChunkSize /\ (i + 1) * MaxChunkSize \in Nat
  BY Products
<1> HIDE DEF r
<1>6. Begun(a, r) = Assembled(p, i)
  <2>1. CASE i > 0
    <3>1. a.TotalChunks # 0 BY <1>4, <2>1 DEF Assembled
    <3>2. QED BY <2>1, <3>1 DEF Begun
  <2>2. CASE i = 0
    <3>1. a = NoAssembly /\ a.TotalChunks = 0 BY <2>2 DEF NoAssembly
    <3>2. i * MaxChunkSize = 0 BY <2>2, ChunkAssumption
    <3>3. [j \in 1 .. p.size |-> Zero]
            = [j \in 1 .. p.size |-> IF j <= i * MaxChunkSize THEN <<p.number, j>> ELSE Zero]
      BY <3>2
    <3>4. QED BY <1>3, <2>2, <3>1, <3>3 DEF Begun, Assembled
  <2>3. QED BY <2>1, <2>2
<1> HIDE DEF offset
<1>7. bytes = Len(r.data) /\ bytes \in Nat /\ DOMAIN r.data = 1 .. bytes
      /\ bytes = Smaller(MaxChunkSize, p.size - offset)
  BY <1>1, <1>2, <1>3, ChunkAssumption DEF Smaller
<1> DEFINE old == Assembled(p, i).data
           new == [j \in DOMAIN old |-> IF j \in offset + 1 .. offset + bytes
                                        THEN r.data[j - offset] ELSE old[j]]
           done == [j \in 1 .. p.size |->
                      IF j <= (i + 1) * MaxChunkSize THEN <<p.number, j>> ELSE Zero]
<1>8. old = [j \in 1 .. p.size |-> IF j <= offset THEN <<p.number, j>> ELSE Zero]
  BY DEF Assembled, offset
<1> HIDE DEF bytes, old
<1>9. DOMAIN new = 1 .. p.size BY <1>8
<1>10. ASSUME NEW j \in 1 .. p.size
       PROVE  new[j] = IF j <= (i + 1) * MaxChunkSize THEN <<p.number, j>> ELSE Zero
  <2>1. CASE j \in offset + 1 .. offset + bytes
    <3>1. j - offset \in 1 .. bytes BY <1>2, <1>7, <2>1
    <3>2. r.data[j - offset] = <<p.number, offset + (j - offset)>> BY <1>2, <1>7, <3>1
    <3>3. offset + (j - offset) = j BY <1>2
    <3>4. j <= offset + MaxChunkSize
      BY <1>1, <1>2, <1>7, <2>1, ChunkAssumption DEF Smaller
    <3>5. QED BY <1>5, <1>8, <2>1, <3>2, <3>3, <3>4
  <2>2. CASE j \notin offset + 1 .. offset + bytes
    <3>1. new[j] = IF j <= offset THEN <<p.number, j>> ELSE Zero BY <1>8, <2>2
    <3>2. j <= offset <=> j <= offset + MaxChunkSize
      BY <1>1, <1>2, <1>7, <2>2, ChunkAssumption DEF Smaller
    <3>3. QED BY <1>5, <3>1, <3>2
  <2>3. QED BY <2>1, <2>2
<1>11. new = done BY <1>9, <1>10
<1> HIDE DEF new
<1>12. Copied(Assembled(p, i), r)
         = [Assembled(p, i) EXCEPT !.data = new, !.ChunksReceived = @ + 1]
  BY <1>3 DEF Copied, new, old, offset, bytes
<1> HIDE DEF done
<1>13. Copied(Assembled(p, i), r) = Assembled(p, i + 1)
  BY <1>11, <1>12 DEF Assembled, done
<1>14. ASSUME i + 1 = Blocks(p) PROVE Assembled(p, i + 1).data = Data(p)
  <2>1. Assembled(p, i + 1).data = done BY DEF Assembled, done
  <2>2. p.size <= (i + 1) * MaxChunkSize BY <1>1, <1>4, <1>14, ChunkCount
  <2>3. \A j \in 1 .. p.size : j <= (i + 1) * MaxChunkSize BY <1>1, <1>5, <2>2
  <2>4. QED BY <2>1, <2>3 DEF done, Data
<1>15. QED BY <1>6, <1>13, <1>14 DEF r

-----------------------------------------------------------------------------
(* The payloads on their way.                                              *)

Sendable == {<<p.object, Data(p)>> : p \in Payload}

Item(s, n) == <<s[n].object, Data(s[n])>>

\* Transit, of any wire.
OnTheirWay(s, w) ==
    IF w = <<>> THEN <<>>
    ELSE [i \in 1 .. Len(s) - Head(w).number + 1 |-> Item(s, Head(w).number + i - 1)]

LEMMA TransitIs == Transit = OnTheirWay(sent, wire) /\ Transit' = OnTheirWay(sent', wire')
BY DEF Transit, OnTheirWay, Item

LEMMA OnTheirWayFacts ==
  ASSUME NEW s \in Seq(Payload), Numbered(s), NEW w, Consecutive(s, w), w # <<>>
  PROVE  LET first == Head(w).number  z == OnTheirWay(s, w)
         IN  /\ first \in 1 .. Len(s)
             /\ z \in Seq(Sendable) /\ Len(z) = Len(s) - first + 1 /\ z # <<>>
             /\ \A i \in 1 .. Len(z) : z[i] = Item(s, first + i - 1)
             /\ Head(z) = Item(s, first)
<1> PICK first : first = Head(w).number OBVIOUS
<1> PICK z : z = OnTheirWay(s, w) OBVIOUS
<1>1. first \in 1 .. Len(s) /\ Len(s) \in Nat BY FirstRPC
<1> PICK n \in Nat : n = Len(s) - first + 1 BY <1>1
<1>2. z = [i \in 1 .. n |-> Item(s, first + i - 1)] BY DEF OnTheirWay
<1>3. ASSUME NEW i \in 1 .. n PROVE Item(s, first + i - 1) \in Sendable
  <2>1. first + i - 1 \in 1 .. Len(s) BY <1>1
  <2>2. s[first + i - 1] \in Payload BY <2>1
  <2>3. QED BY <2>2 DEF Item, Sendable
<1>4. z \in [1 .. n -> Sendable] BY <1>2, <1>3
<1>5. z \in Seq(Sendable) /\ Len(z) = n BY <1>4
<1>6. n >= 1 BY <1>1
<1>7. z # <<>> /\ Head(z) = z[1] BY <1>5, <1>6
<1>8. 1 \in 1 .. n /\ first + 1 - 1 = first BY <1>1, <1>6
<1>9. QED BY <1>1, <1>2, <1>5, <1>7, <1>8

LEMMA SameSequence ==
  ASSUME NEW S, NEW y \in Seq(S), NEW z \in Seq(S), Len(y) = Len(z),
         \A i \in 1 .. Len(y) : y[i] = z[i]
  PROVE  y = z
<1>1. y \in [1 .. Len(y) -> S] /\ z \in [1 .. Len(z) -> S] BY LenProperties
<1>2. QED BY <1>1

LEMMA FirstOfAdded ==
  ASSUME NEW w \in Seq(RPC), NEW p \in Payload
  PROVE  /\ w \o RPCsOf(p) # <<>>
         /\ Head(w \o RPCsOf(p)) = IF w = <<>> THEN RPCAt(p, 0) ELSE Head(w)
<1> PICK b \in Nat : b = Blocks(p) /\ b >= 1 BY BlocksType
<1>0. PICK rpcs : rpcs = RPCsOf(p) OBVIOUS
<1>1. rpcs = [i \in 1 .. b |-> RPCAt(p, i - 1)] BY <1>0, RPCsOfPayload
<1>2. ASSUME NEW i \in 1 .. b PROVE rpcs[i] \in RPC
  <2>1. i - 1 \in Nat /\ i - 1 < b OBVIOUS
  <2>2. QED BY <1>1, <2>1, RPCFacts
<1>3. rpcs \in [1 .. b -> RPC] BY <1>1, <1>2
<1>4. rpcs \in Seq(RPC) /\ Len(rpcs) = b BY <1>3
<1>5. PICK v : v = w \o rpcs OBVIOUS
<1>6. /\ v \in Seq(RPC) /\ Len(v) = Len(w) + b /\ Len(w) \in Nat
      /\ \A i \in 1 .. Len(w) + b : v[i] = IF i <= Len(w) THEN w[i] ELSE rpcs[i - Len(w)]
  <2>1. /\ w \o rpcs \in Seq(RPC) /\ Len(w \o rpcs) = Len(w) + Len(rpcs)
        /\ \A i \in 1 .. Len(w) + Len(rpcs) :
              (w \o rpcs)[i] = IF i <= Len(w) THEN w[i] ELSE rpcs[i - Len(w)]
    BY <1>4, ConcatProperties
  <2>2. Len(w) \in Nat OBVIOUS
  <2>3. QED BY <1>4, <1>5, <2>1, <2>2
<1>7. Len(v) >= 1 BY <1>6
<1>8. v # <<>> /\ Head(v) = v[1] BY <1>6, <1>7
<1>9. CASE w = <<>>
  <2>1. Len(w) = 0 BY <1>9
  <2>2. v[1] = rpcs[1] BY <1>6, <2>1
  <2>3. rpcs[1] = RPCAt(p, 0) BY <1>1
  <2>4. QED BY <1>0, <1>5, <1>8, <1>9, <2>2, <2>3
<1>10. CASE w # <<>>
  <2>1. Len(w) >= 1 /\ Head(w) = w[1] BY <1>10
  <2>2. v[1] = w[1] BY <1>6, <2>1
  <2>3. QED BY <1>0, <1>5, <1>8, <1>10, <2>1, <2>2
<1>11. QED BY <1>9, <1>10

LEMMA TransitAdded ==
  ASSUME NEW s \in Seq(Payload), Numbered(s), NEW w, Consecutive(s, w),
         NEW p \in Payload, p.number = Len(s) + 1
  PROVE  /\ Numbered(Append(s, p))
         /\ OnTheirWay(Append(s, p), w \o RPCsOf(p))
              = Append(OnTheirWay(s, w), <<p.object, Data(p)>>)
<1>1. PICK t : t = Append(s, p) OBVIOUS
<1>2. PICK v : v = w \o RPCsOf(p) OBVIOUS
<1>3. PICK item : item = <<p.object, Data(p)>> OBVIOUS
<1> DEFINE z == OnTheirWay(s, w)
           y == OnTheirWay(t, v)
<1> PICK n \in Nat : n = Len(s) OBVIOUS
<1>4. /\ t \in Seq(Payload) /\ Len(t) = n + 1
      /\ t[n + 1] = p /\ \A i \in 1 .. n : t[i] = s[i]
  BY <1>1, AppendProperties
<1>5. Numbered(t)
  <2>1. \A i \in 1 .. n : t[i].number = i BY <1>4 DEF Numbered
  <2>2. DOMAIN t = 1 .. n + 1 BY <1>4
  <2>3. QED BY <1>4, <2>1, <2>2 DEF Numbered
<1>6. Consecutive(t, v) BY <1>1, <1>2, Added
<1>7. w \in Seq(RPC) BY DEF Consecutive
<1>8. v # <<>> /\ Head(v) = IF w = <<>> THEN RPCAt(p, 0) ELSE Head(w)
  BY <1>2, <1>7, FirstOfAdded
<1>9. /\ y \in Seq(Sendable) /\ Len(y) = (n + 1) - Head(v).number + 1
      /\ \A i \in 1 .. Len(y) : y[i] = Item(t, Head(v).number + i - 1)
  BY <1>4, <1>5, <1>6, <1>8, OnTheirWayFacts
<1>10. item \in Sendable /\ Item(t, n + 1) = item BY <1>3, <1>4 DEF Sendable, Item
<1>11. CASE w = <<>>
  <2>1. Blocks(p) \in Nat /\ 0 < Blocks(p) BY BlocksType
  <2>2. RPCAt(p, 0).number = p.number BY <2>1, RPCFacts
  <2>3. Head(v).number = n + 1 BY <1>8, <1>11, <2>2
  <2>4. z = <<>> BY <1>11 DEF OnTheirWay
  <2> HIDE DEF y, z
  <2>5. Len(y) = 1 BY <1>9, <2>3
  <2>6. y[1] = item
    <3>1. 1 \in 1 .. Len(y) BY <2>5
    <3>2. y[1] = Item(t, (n + 1) + 1 - 1) BY <1>9, <2>3, <3>1
    <3>3. (n + 1) + 1 - 1 = n + 1 OBVIOUS
    <3>4. QED BY <1>10, <3>2, <3>3
  <2>7. /\ <<item>> \in Seq(Sendable) /\ Len(<<item>>) = 1 /\ <<item>>[1] = item
    BY <1>10
  <2>8. \A i \in 1 .. Len(y) : y[i] = <<item>>[i] BY <2>5, <2>6, <2>7
  <2>9. Len(y) = Len(<<item>>) BY <2>5, <2>7
  <2>10. y = <<item>> BY <1>9, <2>7, <2>8, <2>9, SameSequence
  <2>11. Append(z, item) = <<item>> BY <2>4
  <2>12. QED BY <1>1, <1>2, <1>3, <1>5, <2>10, <2>11 DEF y, z
<1>12. CASE w # <<>>
  <2>1. PICK first : first = Head(w).number OBVIOUS
  <2>2. /\ first \in 1 .. n /\ z \in Seq(Sendable) /\ Len(z) = n - first + 1
        /\ \A i \in 1 .. Len(z) : z[i] = Item(s, first + i - 1)
    BY <1>12, <2>1, OnTheirWayFacts
  <2>3. Head(v).number = first BY <1>8, <1>12, <2>1
  <2>4. PICK k : k = n - first + 1 OBVIOUS
  <2>5. k \in Nat
    <3>1. first \in 1 .. n BY <2>2
    <3>2. QED BY <2>4, <3>1
  <2> HIDE DEF y, z
  <2>6. Len(z) = k /\ Len(y) = k + 1
    <3>1. Len(z) = k BY <2>2, <2>4
    <3>2. first \in 1 .. n BY <2>2
    <3>3. Len(y) = (n + 1) - first + 1 BY <1>9, <2>3
    <3>4. QED BY <2>4, <3>1, <3>2, <3>3
  <2>7. PICK x : x = Append(z, item) OBVIOUS
  <2>8. x \in Seq(Sendable) /\ Len(x) = k + 1 /\ x[k + 1] = item /\ \A i \in 1 .. k : x[i] = z[i]
    BY <1>10, <2>2, <2>6, <2>7, AppendProperties
  <2>9. ASSUME NEW i \in 1 .. k PROVE y[i] = x[i]
    <3>1. first + i - 1 \in 1 .. n BY <2>2, <2>4, <2>5
    <3>2. Item(t, first + i - 1) = Item(s, first + i - 1) BY <1>4, <3>1 DEF Item
    <3>3. i \in 1 .. Len(y) /\ i \in 1 .. Len(z) BY <2>6
    <3>4. y[i] = Item(t, first + i - 1) BY <1>9, <2>3, <3>3
    <3>5. QED BY <2>2, <2>8, <3>2, <3>3, <3>4
  <2>10. y[k + 1] = x[k + 1]
    <3>1. k + 1 \in 1 .. Len(y) /\ first + (k + 1) - 1 = n + 1 BY <2>2, <2>4, <2>5, <2>6
    <3>2. y[k + 1] = Item(t, first + (k + 1) - 1) BY <1>9, <2>3, <3>1
    <3>3. QED BY <1>10, <2>8, <3>1, <3>2
  <2>11. \A i \in 1 .. Len(y) : y[i] = x[i]
    <3>1. \A i \in 1 .. k + 1 : i \in 1 .. k \/ i = k + 1 BY <2>5
    <3>2. QED BY <2>6, <2>9, <2>10, <3>1
  <2>12. Len(y) = Len(x) BY <2>6, <2>8
  <2>13. y = x BY <1>9, <2>8, <2>11, <2>12, SameSequence
  <2>14. QED BY <1>1, <1>2, <1>3, <1>5, <2>7, <2>13 DEF y, z
<1>13. QED BY <1>11, <1>12

LEMMA TransitTaken ==
  ASSUME NEW s \in Seq(Payload), Numbered(s), NEW w, Consecutive(s, w), w # <<>>
  PROVE  IF Ending(s, Head(w)) THEN OnTheirWay(s, Tail(w)) = Tail(OnTheirWay(s, w))
                               ELSE OnTheirWay(s, Tail(w)) = OnTheirWay(s, w)
<1> PICK v : v = Tail(w) OBVIOUS
<1> PICK first : first = Head(w).number OBVIOUS
<1> PICK z : z = OnTheirWay(s, w) OBVIOUS
<1> PICK y : y = OnTheirWay(s, v) OBVIOUS
<1>1. /\ first \in 1 .. Len(s) /\ z \in Seq(Sendable) /\ Len(z) = Len(s) - first + 1
      /\ \A i \in 1 .. Len(z) : z[i] = Item(s, first + i - 1) /\ z # <<>>
  BY OnTheirWayFacts
<1>2. /\ Consecutive(s, v)
      /\ IF v = <<>> THEN Ending(s, Head(w)) /\ first = Len(s)
                     ELSE Follows(s, Head(w), Head(v))
  BY Taken
<1>3. /\ Tail(z) \in Seq(Sendable) /\ Len(Tail(z)) = Len(z) - 1
      /\ \A i \in 1 .. Len(Tail(z)) : Tail(z)[i] = z[i + 1]
  BY <1>1, HeadTailProperties
<1>4. Len(s) \in Nat /\ Len(z) \in Nat BY <1>1
<1>5. CASE v = <<>>
  <2>1. y = <<>> /\ y \in Seq(Sendable) /\ Len(y) = 0 BY <1>5 DEF OnTheirWay
  <2>2. Len(Tail(z)) = 0
    <3>1. first = Len(s) BY <1>2, <1>5
    <3>2. Len(z) = 1 BY <1>1, <1>4, <3>1
    <3>3. QED BY <1>3, <3>2
  <2>3. \A i \in 1 .. Len(y) : y[i] = Tail(z)[i] BY <2>1
  <2>4. y = Tail(z) BY <1>3, <2>1, <2>2, <2>3, SameSequence
  <2>5. QED BY <1>2, <1>5, <2>4
<1>6. CASE v # <<>> /\ Ending(s, Head(w))
  <2>1. Head(v).number = first + 1 BY <1>2, <1>6 DEF Follows
  <2>2. /\ y \in Seq(Sendable) /\ Len(y) = Len(s) - (first + 1) + 1
        /\ \A i \in 1 .. Len(y) : y[i] = Item(s, (first + 1) + i - 1)
    BY <1>2, <1>6, <2>1, OnTheirWayFacts
  <2>3. Len(y) = Len(Tail(z)) BY <1>1, <1>3, <1>4, <2>2
  <2>4. ASSUME NEW i \in 1 .. Len(y) PROVE y[i] = Tail(z)[i]
    <3>1. i + 1 \in 1 .. Len(z) BY <1>3, <1>4, <2>3
    <3>2. first + (i + 1) - 1 = (first + 1) + i - 1 BY <1>1
    <3>3. z[i + 1] = Item(s, (first + 1) + i - 1) BY <1>1, <3>1, <3>2
    <3>4. QED BY <1>3, <2>2, <2>3, <3>3
  <2>5. y = Tail(z) BY <1>3, <2>2, <2>3, <2>4, SameSequence
  <2>6. QED BY <1>6, <2>5
<1>7. CASE v # <<>> /\ ~Ending(s, Head(w))
  <2>1. Head(v).number = first BY <1>2, <1>7 DEF Follows
  <2>2. y = z BY <1>7, <2>1 DEF OnTheirWay
  <2>3. QED BY <1>7, <2>2
<1>8. QED BY <1>5, <1>6, <1>7

-----------------------------------------------------------------------------
(* Every step keeps the invariant, and is a step of PayloadChannel.        *)

ChannelStep == [Channel!Next]_<<Transit, received>>

LEMMA ChunkTypes == ChunkInv => ChunkTypeOK
<1> SUFFICES ASSUME ChunkInv PROVE ChunkTypeOK OBVIOUS
<1>1. SentType /\ Numbered(sent) /\ Consecutive(sent, wire) /\ sent \in Seq(Payload)
  BY DEF ChunkInv, SentType
<1>2. wire \in Seq(RPC) BY <1>1 DEF Consecutive
<1>3. ASSUME NEW i \in DOMAIN wire PROVE Len(wire[i].data) <= MaxChunkSize
  <2>1. OnWire(sent, wire[i]) BY <1>1, <1>3 DEF Consecutive
  <2>2. sent[wire[i].number] \in Payload BY <1>1, <2>1 DEF OnWire
  <2>3. QED BY <2>1, <2>2, RPCFacts DEF OnWire
<1>4. ASSUME NEW o \in Objects PROVE Pending(sent, wire, o) \in Assembly
  <2>1. NoAssembly \in Assembly
    <3>1. <<>> \in Seq(Bytes) OBVIOUS
    <3>2. QED BY <3>1 DEF NoAssembly, Assembly
  <2>2. CASE wire # <<>> /\ Head(wire).object = o /\ Head(wire).index > 0
    <3>1. PICK p \in Payload : p = sent[Head(wire).number] BY <1>1, <2>2, FirstRPC
    <3>2. Head(wire).index \in Nat /\ Head(wire).index < Blocks(p)
      BY <1>1, <2>2, <3>1, FirstRPC
    <3>3. ~Fits(p.size) BY <2>2, <3>2 DEF Blocks
    <3>4. QED BY <2>2, <3>1, <3>2, <3>3, AssembledType DEF Pending
  <2>3. QED BY <2>1, <2>2 DEF Pending
<1>5. PendingChunks \in [Objects -> Assembly] BY <1>4 DEF ChunkInv
<1>6. QED BY <1>1, <1>2, <1>3, <1>5 DEF ChunkInv, SentType, ChunkTypeOK

LEMMA NoChunkPending ==
  ASSUME NEW s, NEW w, w = <<>> \/ Head(w).index = 0, NEW o
  PROVE  Pending(s, w, o) = NoAssembly
BY DEF Pending

LEMMA SendStep ==
  ASSUME ChunkInv, NEW o \in Objects, NEW size \in Sizes, HandleOutgoingMigration(o, size)
  PROVE  ChunkInv' /\ ChannelStep
<1> DEFINE p == [object |-> o, number |-> Len(sent) + 1, size |-> size]
<1>1. SentType /\ Numbered(sent) /\ Consecutive(sent, wire) /\ sent \in Seq(Payload)
  BY DEF ChunkInv, SentType
<1>2. p \in Payload /\ p.object = o /\ p.number = Len(sent) + 1
  <2>1. Len(sent) \in Nat /\ Len(sent) < MaxMigrations
    BY <1>1 DEF HandleOutgoingMigration
  <2>2. Len(sent) + 1 \in Numbers BY <2>1, ChunkAssumption DEF Numbers
  <2>3. QED BY <2>2 DEF Payload
<1>3. /\ o \in here /\ Len(sent) < MaxMigrations
      /\ here' = here \ {o} /\ sent' = Append(sent, p) /\ wire' = wire \o RPCsOf(p)
      /\ UNCHANGED <<there, PendingChunks, received>>
  BY DEF HandleOutgoingMigration
<1> HIDE DEF p
<1>4. Consecutive(sent, wire)' BY <1>1, <1>2, <1>3, Added
<1>5. /\ Numbered(sent)'
      /\ OnTheirWay(sent', wire') = Append(OnTheirWay(sent, wire), <<p.object, Data(p)>>)
  BY <1>1, <1>2, <1>3, TransitAdded
<1>6. SentType'
  <2>1. sent' \in Seq(Payload) /\ Len(sent') = Len(sent) + 1 BY <1>1, <1>2, <1>3
  <2>2. Len(sent) \in Nat BY <1>1
  <2>3. Len(sent') <= MaxMigrations BY <1>3, <2>1, <2>2, ChunkAssumption
  <2>4. QED BY <1>1, <1>3, <1>5, <2>1, <2>3 DEF SentType
<1>7. ASSUME NEW x \in Objects PROVE Pending(sent', wire', x) = Pending(sent, wire, x)
  <2>1. wire \in Seq(RPC) BY <1>1 DEF Consecutive
  <2>2. wire' # <<>> /\ Head(wire') = IF wire = <<>> THEN RPCAt(p, 0) ELSE Head(wire)
    BY <1>2, <1>3, <2>1, FirstOfAdded
  <2>3. CASE wire = <<>>
    <3>1. Blocks(p) \in Nat /\ 0 < Blocks(p) BY <1>2, BlocksType
    <3>2. Head(wire').index = 0 BY <1>2, <2>2, <2>3, <3>1, RPCFacts
    <3>3. QED BY <2>3, <3>2, NoChunkPending
  <2>4. CASE wire # <<>>
    <3>1. Head(wire).number \in 1 .. Len(sent) BY <1>1, <2>4, FirstRPC
    <3>2. sent'[Head(wire).number] = sent[Head(wire).number]
      BY <1>1, <1>2, <1>3, <3>1, AppendProperties
    <3>3. QED BY <2>2, <2>4, <3>2 DEF Pending
  <2>5. QED BY <2>3, <2>4
<1>8. PendingChunks' = [x \in Objects |-> Pending(sent', wire', x)]
  BY <1>3, <1>7 DEF ChunkInv
<1>9. ChunkInv' BY <1>3, <1>4, <1>6, <1>8 DEF ChunkInv
<1>10. Channel!Send(<<p.object, Data(p)>>)
  BY <1>3, <1>5, TransitIs DEF Channel!Send
<1>11. QED BY <1>2, <1>9, <1>10 DEF ChannelStep, Channel!Next

\* The payload whose last RPC arrives is the first on its way, and it is given to the game.
LEMMA LastArrives ==
  ASSUME ChunkInv, wire # <<>>, Ending(sent, Head(wire)), wire' = Tail(wire), sent' = sent,
         here' = here, NEW p \in Payload, p = sent[Head(wire).number],
         PendingChunks' = [o \in Objects |-> NoAssembly], Broadcast(p.object, Data(p))
  PROVE  ChunkInv' /\ ChannelStep
<1>1. SentType /\ Numbered(sent) /\ Consecutive(sent, wire) /\ sent \in Seq(Payload)
  BY DEF ChunkInv, SentType
<1>2. Consecutive(sent, wire') /\ (wire' = <<>> \/ Head(wire').index = 0)
  BY <1>1, Taken DEF Follows
<1>3. \A o \in Objects : Pending(sent, wire', o) = NoAssembly BY <1>2, NoChunkPending
<1>4. /\ received' = Append(received, <<p.object, Data(p)>>)
      /\ there' = there \cup {p.object}
  BY DEF Broadcast
<1>5. p.object \in Objects /\ Data(p) \in Seq(Bytes) BY DataType DEF Payload
<1>6. received' \in Seq(Objects \X Seq(Bytes))
  <2>1. received \in Seq(Objects \X Seq(Bytes)) BY DEF ChunkInv
  <2>2. <<p.object, Data(p)>> \in Objects \X Seq(Bytes) BY <1>5
  <2>3. QED BY <1>4, <2>1, <2>2, AppendProperties
<1>7. SentType' BY <1>1, <1>4, <1>5 DEF SentType, Numbered
<1>8. ChunkInv' BY <1>2, <1>3, <1>6, <1>7 DEF ChunkInv
<1>9. /\ OnTheirWay(sent, wire') = Tail(OnTheirWay(sent, wire))
      /\ OnTheirWay(sent, wire) # <<>>
      /\ Head(OnTheirWay(sent, wire)) = <<p.object, Data(p)>>
  BY <1>1, TransitTaken, OnTheirWayFacts DEF Item
<1>10. Channel!Receive BY <1>4, <1>9, TransitIs DEF Channel!Receive
<1>11. QED BY <1>8, <1>10 DEF ChannelStep, Channel!Next

\* The first RPC, and the assembly it finds.
LEMMA Arriving ==
  ASSUME ChunkInv, wire # <<>>
  PROVE  \E p \in Payload, i \in Nat :
            /\ p = sent[Head(wire).number] /\ i = Head(wire).index /\ i < Blocks(p)
            /\ Head(wire) = RPCAt(p, i) /\ Head(wire).object = p.object
            /\ Head(wire).chunks = IF Fits(p.size) THEN 0 ELSE Blocks(p)
            /\ p.object \in Objects
            /\ \A o \in Objects : PendingChunks[o] =
                  IF o = p.object /\ i > 0 THEN Assembled(p, i) ELSE NoAssembly
<1>1. Numbered(sent) /\ Consecutive(sent, wire) /\ sent \in Seq(Payload)
  BY DEF ChunkInv, SentType
<1>2. PICK p \in Payload : p = sent[Head(wire).number] BY <1>1, FirstRPC
<1>3. PICK i \in Nat : i = Head(wire).index BY <1>1, FirstRPC
<1>4. i < Blocks(p) /\ Head(wire) = RPCAt(p, i) BY <1>1, <1>2, <1>3, FirstRPC
<1>5. /\ Head(wire).object = p.object
      /\ Head(wire).chunks = IF Fits(p.size) THEN 0 ELSE Blocks(p)
  BY <1>4, RPCFacts
<1>6. p.object \in Objects BY DEF Payload
<1>7. ASSUME NEW o \in Objects
      PROVE  PendingChunks[o] = IF o = p.object /\ i > 0 THEN Assembled(p, i) ELSE NoAssembly
  <2>1. PendingChunks[o] = Pending(sent, wire, o) BY DEF ChunkInv
  <2>2. QED BY <1>2, <1>3, <1>5, <2>1 DEF Pending
<1>8. QED BY <1>2, <1>3, <1>4, <1>5, <1>6, <1>7

LEMMA WholeStep ==
  ASSUME ChunkInv, ReceiveMigratedObject
  PROVE  ChunkInv' /\ ChannelStep
<1>1. /\ wire # <<>> /\ Head(wire).chunks = 0 /\ wire' = Tail(wire)
      /\ Broadcast(Head(wire).object, Head(wire).data)
      /\ UNCHANGED <<here, sent, PendingChunks>>
  BY DEF ReceiveMigratedObject
<1>2. PICK p \in Payload, i \in Nat :
            /\ p = sent[Head(wire).number] /\ i = Head(wire).index /\ i < Blocks(p)
            /\ Head(wire) = RPCAt(p, i) /\ Head(wire).object = p.object
            /\ Head(wire).chunks = IF Fits(p.size) THEN 0 ELSE Blocks(p)
            /\ p.object \in Objects
            /\ \A o \in Objects : PendingChunks[o] =
                  IF o = p.object /\ i > 0 THEN Assembled(p, i) ELSE NoAssembly
  BY <1>1, Arriving
<1>3. Fits(p.size) BY <1>1, <1>2, BlocksType
<1>4. Blocks(p) = 1 /\ i = 0 BY <1>2, <1>3 DEF Blocks
<1>5. Head(wire).data = Data(p) BY <1>2, <1>3 DEF RPCAt, Whole
<1>6. Ending(sent, Head(wire)) BY <1>2, <1>4 DEF Ending
<1>7. PendingChunks' = [o \in Objects |-> NoAssembly]
  <2>1. PendingChunks = [o \in Objects |-> Pending(sent, wire, o)] BY DEF ChunkInv
  <2>2. \A o \in Objects : Pending(sent, wire, o) = NoAssembly
    BY <1>2, <1>4, NoChunkPending
  <2>3. QED BY <1>1, <2>1, <2>2
<1>8. QED BY <1>1, <1>2, <1>5, <1>6, <1>7, LastArrives

LEMMA ChunkStep ==
  ASSUME ChunkInv, HandleReceivedChunk
  PROVE  ChunkInv' /\ ChannelStep
<1> DEFINE rpc == Head(wire)
           a == Copied(Begun(PendingChunks[rpc.object], rpc), rpc)
<1>1. /\ wire # <<>> /\ rpc.chunks > 0 /\ wire' = Tail(wire) /\ UNCHANGED <<here, sent>>
      /\ IF a.ChunksReceived >= a.TotalChunks
           THEN /\ PendingChunks' = [PendingChunks EXCEPT ![rpc.object] = Removed(a)]
                /\ Broadcast(rpc.object, a.data)
           ELSE /\ PendingChunks' = [PendingChunks EXCEPT ![rpc.object] = a]
                /\ UNCHANGED <<there, received>>
  BY DEF HandleReceivedChunk
<1>2. PICK p \in Payload, i \in Nat :
            /\ p = sent[Head(wire).number] /\ i = Head(wire).index /\ i < Blocks(p)
            /\ Head(wire) = RPCAt(p, i) /\ Head(wire).object = p.object
            /\ Head(wire).chunks = IF Fits(p.size) THEN 0 ELSE Blocks(p)
            /\ p.object \in Objects
            /\ \A o \in Objects : PendingChunks[o] =
                  IF o = p.object /\ i > 0 THEN Assembled(p, i) ELSE NoAssembly
  BY <1>1, Arriving
<1>3. ~Fits(p.size) /\ rpc = Chunk(p, i) BY <1>1, <1>2 DEF RPCAt
<1>4. /\ a = Assembled(p, i + 1)
      /\ i + 1 = Blocks(p) => Assembled(p, i + 1).data = Data(p)
  <2>1. PICK b : b = PendingChunks[rpc.object] OBVIOUS
  <2>2. b = IF i > 0 THEN Assembled(p, i) ELSE NoAssembly BY <1>2, <2>1
  <2>3. QED BY <1>2, <1>3, <2>1, <2>2, OneMoreChunk
<1> HIDE DEF a
<1>5. a.ChunksReceived = i + 1 /\ a.TotalChunks = Blocks(p)
  BY <1>3, <1>4 DEF Assembled, Blocks
<1>6. Blocks(p) \in Nat BY BlocksType
<1>7. PendingChunks = [o \in Objects |-> Pending(sent, wire, o)] BY DEF ChunkInv
<1>8. CASE i + 1 = Blocks(p)
  <2>1. /\ PendingChunks' = [PendingChunks EXCEPT ![p.object] = NoAssembly]
        /\ Broadcast(p.object, Data(p))
    BY <1>1, <1>2, <1>4, <1>5, <1>6, <1>8 DEF Removed
  <2>2. PendingChunks' = [o \in Objects |-> NoAssembly] BY <1>2, <1>7, <2>1
  <2>3. Ending(sent, Head(wire)) BY <1>2, <1>8 DEF Ending
  <2>4. QED BY <1>1, <1>2, <2>1, <2>2, <2>3, LastArrives
<1>9. CASE i + 1 # Blocks(p)
  <2>1. ~(a.ChunksReceived >= a.TotalChunks) BY <1>2, <1>5, <1>6, <1>9
  <2>2. /\ PendingChunks' = [PendingChunks EXCEPT ![p.object] = Assembled(p, i + 1)]
        /\ UNCHANGED <<there, received>>
    BY <1>1, <1>2, <1>4, <2>1
  <2>3. SentType /\ Numbered(sent) /\ Consecutive(sent, wire) /\ sent \in Seq(Payload)
    BY DEF ChunkInv, SentType
  <2>4. ~Ending(sent, Head(wire)) BY <1>2, <1>6, <1>9 DEF Ending
  <2>5. /\ Consecutive(sent, wire') /\ wire' # <<>>
        /\ Head(wire').number = Head(wire).number /\ Head(wire').index = i + 1
    BY <1>1, <1>2, <2>3, <2>4, Taken DEF Follows
  <2>6. Head(wire').object = p.object
    <3>1. /\ sent[Head(wire').number] = p /\ Head(wire').index < Blocks(p)
          /\ Head(wire') = RPCAt(p, Head(wire').index) /\ Head(wire').index \in Nat
      BY <1>2, <2>3, <2>5, FirstRPC
    <3>2. QED BY <3>1, RPCFacts
  <2>7. ASSUME NEW o \in Objects PROVE PendingChunks'[o] = Pending(sent, wire', o)
    <3>1. PendingChunks'[o] = IF o = p.object THEN Assembled(p, i + 1) ELSE PendingChunks[o]
      BY <1>7, <2>2
    <3>2. o # p.object => PendingChunks[o] = NoAssembly BY <1>2
    <3>3. i + 1 > 0 BY <1>2
    <3>4. QED BY <1>2, <2>5, <2>6, <3>1, <3>2, <3>3 DEF Pending
  <2>8. PendingChunks' = [o \in Objects |-> Pending(sent, wire', o)] BY <1>7, <2>2, <2>7
  <2>9. SentType' BY <1>1, <2>2, <2>3 DEF SentType, Numbered
  <2>10. ChunkInv' BY <1>1, <2>2, <2>5, <2>8, <2>9 DEF ChunkInv
  <2>11. OnTheirWay(sent, wire') = OnTheirWay(sent, wire) BY <1>1, <2>3, <2>4, TransitTaken
  <2>12. UNCHANGED <<Transit, received>> BY <1>1, <2>2, <2>11, TransitIs
  <2>13. QED BY <2>10, <2>12 DEF ChannelStep
<1>10. QED BY <1>8, <1>9

LEMMA ChunkNext ==
  ASSUME ChunkInv, [Next]_vars
  PROVE  ChunkInv' /\ ChannelStep
<1>1. ASSUME NEW o \in Objects, NEW size \in Sizes, HandleOutgoingMigration(o, size)
      PROVE  ChunkInv' /\ ChannelStep
  BY <1>1, SendStep
<1>2. CASE ReceiveMigratedObject BY <1>2, WholeStep
<1>3. CASE HandleReceivedChunk BY <1>3, ChunkStep
<1>4. ASSUME NEW o \in Objects, ComesBack(o) PROVE ChunkInv' /\ ChannelStep
  <2>1. /\ here' = here \cup {o} /\ there' = there \ {o}
        /\ UNCHANGED <<sent, wire, PendingChunks, received>>
    BY <1>4 DEF ComesBack
  <2>2. SentType' BY <2>1 DEF ChunkInv, SentType, Numbered
  <2>3. ChunkInv' BY <2>1, <2>2 DEF ChunkInv
  <2>4. UNCHANGED <<Transit, received>> BY <2>1 DEF Transit
  <2>5. QED BY <2>3, <2>4 DEF ChannelStep
<1>5. CASE ConnectionLost
  <2>1. /\ wire' = <<>> /\ PendingChunks' = [o \in Objects |-> NoAssembly]
        /\ UNCHANGED <<here, there, sent, received>>
    BY <1>5 DEF ConnectionLost, NewBeacon
  <2>2. SentType' BY <2>1 DEF ChunkInv, SentType, Numbered
  <2>3. Consecutive(sent, wire') BY <2>1 DEF Consecutive
  <2>4. \A o \in Objects : Pending(sent, wire', o) = NoAssembly BY <2>1, NoChunkPending
  <2>5. ChunkInv' BY <2>1, <2>2, <2>3, <2>4 DEF ChunkInv
  <2>6. Channel!Break BY <2>1 DEF Channel!Break, Transit
  <2>7. QED BY <2>5, <2>6 DEF ChannelStep, Channel!Next
<1>6. CASE UNCHANGED vars
  <2>1. UNCHANGED <<here, there, sent, wire, PendingChunks, received>> BY <1>6 DEF vars
  <2>2. SentType' BY <2>1 DEF ChunkInv, SentType, Numbered
  <2>3. ChunkInv' BY <2>1, <2>2 DEF ChunkInv
  <2>4. UNCHANGED <<Transit, received>> BY <2>1 DEF Transit
  <2>5. QED BY <2>3, <2>4 DEF ChannelStep
<1>7. QED BY <1>1, <1>2, <1>3, <1>4, <1>5, <1>6 DEF Next

LEMMA ChunkInit == Init => ChunkInv
<1> SUFFICES ASSUME Init PROVE ChunkInv OBVIOUS
<1>1. SentType
  <2>1. sent = <<>> /\ here = Objects /\ there = {} BY DEF Init
  <2>2. sent \in Seq(Payload) /\ Len(sent) = 0 /\ DOMAIN sent = {} BY <2>1
  <2>3. QED BY <2>1, <2>2, ChunkAssumption DEF SentType, Numbered
<1>2. Consecutive(sent, wire) BY DEF Init, Consecutive
<1>3. \A o \in Objects : Pending(sent, wire, o) = NoAssembly BY NoChunkPending DEF Init
<1>4. QED BY <1>1, <1>2, <1>3 DEF Init, ChunkInv

THEOREM ChunkInvariant == Spec => []ChunkInv
<1>1. ChunkInv /\ [Next]_vars => ChunkInv' BY ChunkNext
<1>2. QED BY <1>1, ChunkInit, PTL DEF Spec

\* HandleOutgoingMigration and FChunkAssembly keep their types, and no RPC is longer than
\* MaxChunkSize, whatever the sizes.
THEOREM ChunkTypeCorrect == Spec => []ChunkTypeOK
BY ChunkInvariant, ChunkTypes, PTL

\* No entry of PendingChunks is left behind, whatever the sizes and whenever the connection
\* is lost.
THEOREM NoAssemblyIsLeft == Spec => []AssembliesGoOn
<1>1. ASSUME ChunkInv PROVE AssembliesGoOn
  <2> SUFFICES ASSUME NEW o \in Objects, PendingChunks[o] # NoAssembly
               PROVE  /\ wire # <<>>
                      /\ Head(wire).object = o
                      /\ Head(wire).index = PendingChunks[o].ChunksReceived
                      /\ Head(wire).chunks = PendingChunks[o].TotalChunks
                      /\ Len(PendingChunks[o].data) = Head(wire).size
    BY DEF AssembliesGoOn
  <2>1. PendingChunks[o] = Pending(sent, wire, o) BY <1>1 DEF ChunkInv
  <2>2. wire # <<>> BY <2>1 DEF Pending
  <2>3. PICK p \in Payload, i \in Nat :
            /\ p = sent[Head(wire).number] /\ i = Head(wire).index /\ i < Blocks(p)
            /\ Head(wire) = RPCAt(p, i) /\ Head(wire).object = p.object
            /\ Head(wire).chunks = IF Fits(p.size) THEN 0 ELSE Blocks(p)
            /\ p.object \in Objects
            /\ \A x \in Objects : PendingChunks[x] =
                  IF x = p.object /\ i > 0 THEN Assembled(p, i) ELSE NoAssembly
    BY <1>1, <2>2, Arriving
  <2>4. o = p.object /\ i > 0 /\ PendingChunks[o] = Assembled(p, i) BY <2>3
  <2>5. ~Fits(p.size) /\ Blocks(p) = TotalChunks(p.size) BY <2>3, <2>4 DEF Blocks
  <2>6. PendingChunks[o].ChunksReceived = i /\ PendingChunks[o].TotalChunks = Blocks(p)
    BY <2>4, <2>5 DEF Assembled
  <2>7. Len(PendingChunks[o].data) = p.size BY <2>4, <2>5, AssembledType
  <2>8. Head(wire).size = p.size BY <2>3, RPCFacts
  <2>9. QED BY <2>2, <2>3, <2>4, <2>5, <2>6, <2>7, <2>8
<1>2. QED BY <1>1, ChunkInvariant, PTL

\* What is broadcast is what was serialized, byte for byte, once and in order, for every
\* size of the objects and of the chunks.
THEOREM ChunksImplementThePayloadChannel == Spec => PayloadsArriveWhole
<1>1. Init => Channel!Init BY DEF Init, Channel!Init, Transit
<1>2. ChunkInv /\ [Next]_vars => [Channel!Next]_<<Transit, received>>
  BY ChunkNext DEF ChannelStep
<1>3. QED BY <1>1, <1>2, ChunkInvariant, PTL DEF Spec, PayloadsArriveWhole, Channel!Spec
=============================================================================
