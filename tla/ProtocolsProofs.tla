-------------------------- MODULE ProtocolsProofs --------------------------
(***************************************************************************)
(* Proofs about Protocols, for every prime, every number and size of       *)
(* chunks, every list of blocks and all three protocols.                   *)
(***************************************************************************)
EXTENDS Protocols, CodecProofs

---------------------------------------------------------------------------
\* The objects, and what the operations that assign their fields leave.

Object(d, p, c, l, b, w) ==
    [decoder |-> d, proofs |-> p, ctx |-> c, byteLen |-> l, block |-> b, blockBytes |-> w]
Twin(d, p, w, c) == [decoder |-> d, proofs |-> p, blockBytes |-> w, ctx |-> c]

\* A new object has nothing.
LEMMA NewObjectIs == NewObject = Object(NewDecoder, <<>>, Err, 0, Err, Err)
BY DEF NewObject, Object

\* IngestAnnouncement keeps the length, and BFKW's its context.
LEMMA AnnouncementIs ==
    ASSUME NEW d, NEW p, NEW c, NEW l, NEW b, NEW w, NEW s, NEW n, NEW len
    PROVE  IngestAnnouncement(s, Object(d, p, c, l, b, w), n, len) =
               Object(d, p, IF s = "BFKW" THEN Ok(HashPoints(n)) ELSE c, len, b, w)
<1> DEFINE o == Object(d, p, c, l, b, w)
           x == IF s = "BFKW" THEN Ok(HashPoints(n)) ELSE c
<1>1. o.ctx = c
      BY DEF Object
<1>2. IngestAnnouncement(s, o, n, len) =
          [[o EXCEPT !.byteLen = len] EXCEPT !.ctx = IF s = "BFKW" THEN Ok(HashPoints(n)) ELSE @]
  <2> HIDE DEF o
  <2> QED BY SMTT(30) DEF IngestAnnouncement
<1>3. [o EXCEPT !.byteLen = len] = Object(d, p, c, len, b, w)
      BY SMTT(30) DEF Object
<1>4. [Object(d, p, c, len, b, w) EXCEPT !.ctx = IF s = "BFKW" THEN Ok(HashPoints(n)) ELSE @] =
          Object(d, p, x, len, b, w)
      BY SMTT(30) DEF Object
<1> HIDE DEF o
<1> QED BY <1>2, <1>3, <1>4 DEF o

\* ingest of a block keeps the first one it can read.
LEMMA IngestBlockIs ==
    ASSUME NEW d, NEW p, NEW c, NEW l, NEW w, NEW bytes, NEW block, block # Err,
           DecodeBlock(bytes) = block
    PROVE  IngestBlock(Object(d, p, c, l, Err, w), bytes) =
               [object |-> Object(d, p, c, l, block, Ok(bytes)), answer |-> "innovative"]
<1> DEFINE o == Object(d, p, c, l, Err, w)
<1>1. o.block = Err
      BY DEF Object
<1>2. IngestBlock(o, bytes) =
          [object |-> [[o EXCEPT !.block = block] EXCEPT !.blockBytes = Ok(bytes)],
           answer |-> "innovative"]
  <2> HIDE DEF o
  <2> QED BY <1>1, SMTT(30) DEF IngestBlock
<1>3. [o EXCEPT !.block = block] = Object(d, p, c, l, block, w)
      BY SMTT(30) DEF Object
<1>4. [Object(d, p, c, l, block, w) EXCEPT !.blockBytes = Ok(bytes)] =
          Object(d, p, c, l, block, Ok(bytes))
      BY SMTT(30) DEF Object
<1> HIDE DEF o
<1> QED BY <1>2, <1>3, <1>4 DEF o

\* and rejects what it cannot read.
LEMMA IngestNoBlock ==
    ASSUME NEW d, NEW p, NEW c, NEW l, NEW w, NEW bytes, DecodeBlock(bytes) = Err
    PROVE  IngestBlock(Object(d, p, c, l, Err, w), bytes) =
               [object |-> Object(d, p, c, l, Err, w), answer |-> "rejected"]
BY DEF IngestBlock, Object

\* decode takes the baseline's block out and leaves its bytes.
LEMMA TakeBlockIs ==
    ASSUME NEW d, NEW p, NEW c, NEW l, NEW b, NEW w
    PROVE  TakeBlock(Object(d, p, c, l, b, w)) =
               [object |-> Object(d, p, c, l, Err, w), block |-> b]
<1> DEFINE o == Object(d, p, c, l, b, w)
<1>1. [o EXCEPT !.block = Err] = Object(d, p, c, l, Err, w)
      BY SMTT(30) DEF Object
<1>2. o.block = b
      BY DEF Object
<1> HIDE DEF o
<1> QED BY <1>1, <1>2 DEF TakeBlock, o

\* reset leaves a new object, of each protocol's.
LEMMA ResetBaselineIs ==
    ASSUME NEW l, NEW b, NEW w
    PROVE  ResetBaseline(Object(NewDecoder, <<>>, Err, l, b, w)) = NewObject
<1> DEFINE o == Object(NewDecoder, <<>>, Err, l, b, w)
<1>1. ResetBaseline(o) = [[[o EXCEPT !.block = Err] EXCEPT !.blockBytes = Err] EXCEPT !.byteLen = 0]
  <2> HIDE DEF o
  <2> QED BY SMTT(30) DEF ResetBaseline
<1>2. [o EXCEPT !.block = Err] = Object(NewDecoder, <<>>, Err, l, Err, w)
      BY SMTT(30) DEF Object
<1>3. [Object(NewDecoder, <<>>, Err, l, Err, w) EXCEPT !.blockBytes = Err] =
          Object(NewDecoder, <<>>, Err, l, Err, Err)
      BY SMTT(30) DEF Object
<1>4. [Object(NewDecoder, <<>>, Err, l, Err, Err) EXCEPT !.byteLen = 0] =
          Object(NewDecoder, <<>>, Err, 0, Err, Err)
      BY SMTT(30) DEF Object
<1> HIDE DEF o
<1> QED BY <1>1, <1>2, <1>3, <1>4, NewObjectIs DEF o

LEMMA ResetPedersenIs ==
    ASSUME NEW d, NEW p, NEW l, ResetDecoder(d) = NewDecoder
    PROVE  ResetPedersen(Object(d, p, Err, l, Err, Err)) = NewObject
<1> DEFINE o == Object(d, p, Err, l, Err, Err)
<1>1. o.decoder = d
      BY DEF Object
<1>2. ResetPedersen(o) =
          [[[o EXCEPT !.decoder = NewDecoder] EXCEPT !.proofs = <<>>] EXCEPT !.byteLen = 0]
  <2> HIDE DEF o
  <2> QED BY <1>1, SMTT(30) DEF ResetPedersen
<1>3. [o EXCEPT !.decoder = NewDecoder] = Object(NewDecoder, p, Err, l, Err, Err)
      BY SMTT(30) DEF Object
<1>4. [Object(NewDecoder, p, Err, l, Err, Err) EXCEPT !.proofs = <<>>] =
          Object(NewDecoder, <<>>, Err, l, Err, Err)
      BY SMTT(30) DEF Object
<1>5. [Object(NewDecoder, <<>>, Err, l, Err, Err) EXCEPT !.byteLen = 0] =
          Object(NewDecoder, <<>>, Err, 0, Err, Err)
      BY SMTT(30) DEF Object
<1> HIDE DEF o
<1> QED BY <1>2, <1>3, <1>4, <1>5, NewObjectIs DEF o

LEMMA ResetBfkwIs ==
    ASSUME NEW d, NEW p, NEW c, NEW l, ResetDecoder(d) = NewDecoder
    PROVE  ResetBfkw(Object(d, p, c, l, Err, Err)) = NewObject
<1> DEFINE o == Object(d, p, c, l, Err, Err)
<1>1. o.decoder = d
      BY DEF Object
<1>2. ResetBfkw(o) =
          [[[[o EXCEPT !.decoder = NewDecoder] EXCEPT !.proofs = <<>>] EXCEPT !.ctx = Err]
              EXCEPT !.byteLen = 0]
  <2> HIDE DEF o
  <2> QED BY <1>1, SMTT(30) DEF ResetBfkw
<1>3. [o EXCEPT !.decoder = NewDecoder] = Object(NewDecoder, p, c, l, Err, Err)
      BY SMTT(30) DEF Object
<1>4. [Object(NewDecoder, p, c, l, Err, Err) EXCEPT !.proofs = <<>>] =
          Object(NewDecoder, <<>>, c, l, Err, Err)
      BY SMTT(30) DEF Object
<1>5. [Object(NewDecoder, <<>>, c, l, Err, Err) EXCEPT !.ctx = Err] =
          Object(NewDecoder, <<>>, Err, l, Err, Err)
      BY SMTT(30) DEF Object
<1>6. [Object(NewDecoder, <<>>, Err, l, Err, Err) EXCEPT !.byteLen = 0] =
          Object(NewDecoder, <<>>, Err, 0, Err, Err)
      BY SMTT(30) DEF Object
<1> DEFINE n == [Object(NewDecoder, p, c, l, Err, Err) EXCEPT !.proofs = <<>>]
<1>7. ResetBfkw(o) = [[n EXCEPT !.ctx = Err] EXCEPT !.byteLen = 0]
  <2> HIDE DEF o
  <2> QED BY <1>2, <1>3 DEF o
<1>8. [[n EXCEPT !.ctx = Err] EXCEPT !.byteLen = 0] = NewObject
  <2> HIDE DEF n
  <2> QED BY <1>4, <1>5, <1>6, NewObjectIs DEF n
<1> HIDE DEF o
<1> QED BY <1>7, <1>8 DEF o

\* What propose makes of a new object.
PedersenProofs(n) == [i \in 1 .. N |-> SignBlock(Chunks[n])]
BfkwProofs(n) == [i \in 1 .. N |-> BfkwSign(HashPoints(n), i, Chunks[n][i])]

LEMMA ProposeBaselineIs ==
    ASSUME NEW n
    PROVE  ProposeBaseline(NewObject, n) =
               Object(NewDecoder, <<>>, Err, EncodeSize(Blocks[n]), Ok(Blocks[n]), Ok(Write(Blocks[n])))
<1> DEFINE b == Ok(Blocks[n])   w == Ok(Write(Blocks[n]))   l == EncodeSize(Blocks[n])
<1> HIDE DEF b, w, l
<1>1. ProposeBaseline(NewObject, n) =
          [[[NewObject EXCEPT !.block = b] EXCEPT !.blockBytes = w] EXCEPT !.byteLen = l]
      BY SMTT(30) DEF ProposeBaseline, b, w, l
<1>2. [Object(NewDecoder, <<>>, Err, 0, Err, Err) EXCEPT !.block = b] =
          Object(NewDecoder, <<>>, Err, 0, b, Err)
      BY SMTT(30) DEF Object
<1>3. [Object(NewDecoder, <<>>, Err, 0, b, Err) EXCEPT !.blockBytes = w] =
          Object(NewDecoder, <<>>, Err, 0, b, w)
      BY SMTT(30) DEF Object
<1>4. [Object(NewDecoder, <<>>, Err, 0, b, w) EXCEPT !.byteLen = l] =
          Object(NewDecoder, <<>>, Err, l, b, w)
      BY SMTT(30) DEF Object
<1> QED BY <1>1, <1>2, <1>3, <1>4, NewObjectIs DEF b, w, l

LEMMA ProposePedersenIs ==
    ASSUME NEW n
    PROVE  ProposePedersen(NewObject, n) =
               Object(FullDecoder(Chunks[n]), PedersenProofs(n), Err, EncodeSize(Blocks[n]), Err, Err)
<1> DEFINE d == FullDecoder(Chunks[n])   p == PedersenProofs(n)   l == EncodeSize(Blocks[n])
<1> HIDE DEF d, p, l
<1>1. ProposePedersen(NewObject, n) =
          [[[NewObject EXCEPT !.decoder = d] EXCEPT !.proofs = p] EXCEPT !.byteLen = l]
      BY SMTT(30) DEF ProposePedersen, PedersenProofs, d, p, l
<1>2. [Object(NewDecoder, <<>>, Err, 0, Err, Err) EXCEPT !.decoder = d] =
          Object(d, <<>>, Err, 0, Err, Err)
      BY SMTT(30) DEF Object
<1>3. [Object(d, <<>>, Err, 0, Err, Err) EXCEPT !.proofs = p] = Object(d, p, Err, 0, Err, Err)
      BY SMTT(30) DEF Object
<1>4. [Object(d, p, Err, 0, Err, Err) EXCEPT !.byteLen = l] = Object(d, p, Err, l, Err, Err)
      BY SMTT(30) DEF Object
<1> QED BY <1>1, <1>2, <1>3, <1>4, NewObjectIs DEF d, p, l

LEMMA ProposeBfkwIs ==
    ASSUME NEW n
    PROVE  ProposeBfkw(NewObject, n) =
               Object(FullDecoder(Chunks[n]), BfkwProofs(n), Ok(HashPoints(n)),
                      EncodeSize(Blocks[n]), Err, Err)
<1> DEFINE d == FullDecoder(Chunks[n])   p == BfkwProofs(n)   c == Ok(HashPoints(n))
           l == EncodeSize(Blocks[n])
<1> HIDE DEF d, p, c, l
<1>1. ProposeBfkw(NewObject, n) =
          [[[[NewObject EXCEPT !.decoder = d] EXCEPT !.proofs = p] EXCEPT !.ctx = c]
              EXCEPT !.byteLen = l]
      BY SMTT(30) DEF ProposeBfkw, BfkwProofs, d, p, c, l
<1>2. [Object(NewDecoder, <<>>, Err, 0, Err, Err) EXCEPT !.decoder = d] =
          Object(d, <<>>, Err, 0, Err, Err)
      BY SMTT(30) DEF Object
<1>3. [Object(d, <<>>, Err, 0, Err, Err) EXCEPT !.proofs = p] = Object(d, p, Err, 0, Err, Err)
      BY SMTT(30) DEF Object
<1>4. [Object(d, p, Err, 0, Err, Err) EXCEPT !.ctx = c] = Object(d, p, c, 0, Err, Err)
      BY SMTT(30) DEF Object
<1>5. [Object(d, p, c, 0, Err, Err) EXCEPT !.byteLen = l] = Object(d, p, c, l, Err, Err)
      BY SMTT(30) DEF Object
<1> QED BY <1>1, <1>2, <1>3, <1>4, <1>5, NewObjectIs DEF d, p, c, l

\* Pedersen's context plays no part.
LEMMA ContextFree ==
    ASSUME NEW x, NEW y, NEW d, NEW p, NEW packet
    PROVE  CodedReceive("Pedersen", x, d, p, packet) = CodedReceive("Pedersen", y, d, p, packet)
BY DEF CodedReceive, Verify

\* The context an object of the scheme has for block id.
ContextFor(s, id) == IF s = "BFKW" THEN Ok(HashPoints(id)) ELSE Err

\* ingest of a packet that can be read.
LEMMA IngestPacketIs ==
    ASSUME NEW s \in {"Pedersen", "BFKW"}, NEW d, NEW p, NEW id, NEW l, NEW b, NEW w, NEW wire,
           NEW packet, Deserialize(s, wire, M) = Ok(packet),
           NEW out, out = CodedReceive(s, HashPoints(id), d, p, packet)
    PROVE  IngestPacket(s, Object(d, p, ContextFor(s, id), l, b, w), wire) =
               [object |-> Object(out.decoder, out.proofs, ContextFor(s, id), l, b, w),
                answer |-> out.answer]
<1> DEFINE c == ContextFor(s, id)
           o == Object(d, p, c, l, b, w)
           r == CodedReceive(s, o.ctx[1], o.decoder, o.proofs, packet)
<1>1. o.ctx = c /\ o.decoder = d /\ o.proofs = p
      BY DEF Object
<1>2. Ok(packet) # Err /\ Ok(packet)[1] = packet /\ (s = "BFKW" => c # Err /\ c[1] = HashPoints(id))
      BY DEF Ok, Err, ContextFor
<1> HIDE DEF c, o
<1>3. r = out
  <2>1. CASE s = "BFKW"
        BY <1>1, <1>2, <2>1
  <2>2. CASE s = "Pedersen"
        BY <1>1, <2>2, ContextFree
  <2> QED BY <2>1, <2>2
<1>4. IngestPacket(s, o, wire) =
          [object |-> [[o EXCEPT !.decoder = r.decoder] EXCEPT !.proofs = r.proofs],
           answer |-> r.answer]
      BY <1>1, <1>2, SMTT(30) DEF IngestPacket
<1> HIDE DEF r
<1>5. [Object(d, p, c, l, b, w) EXCEPT !.decoder = out.decoder] =
          Object(out.decoder, p, c, l, b, w)
      BY SMTT(30) DEF Object
<1>6. [Object(out.decoder, p, c, l, b, w) EXCEPT !.proofs = out.proofs] =
          Object(out.decoder, out.proofs, c, l, b, w)
      BY SMTT(30) DEF Object
<1> QED BY <1>3, <1>4, <1>5, <1>6 DEF o, c

\* ingest of what cannot be read changes nothing.
LEMMA IngestUnreadable ==
    ASSUME NEW s, NEW o, NEW wire, Deserialize(s, wire, M) = Err
    PROVE  IngestPacket(s, o, wire) = [object |-> o, answer |-> "rejected"]
BY DEF IngestPacket

---------------------------------------------------------------------------
\* The twin.

\* receive of a block takes the first bytes.
LEMMA TwinBlockIs ==
    ASSUME NEW d, NEW p, NEW c, NEW bytes
    PROVE  SimReceiveBlock(Twin(d, p, Err, c), bytes) =
               [state |-> Twin(d, p, Ok(bytes), c), answer |-> "innovative"]
<1> DEFINE t == Twin(d, p, Err, c)
<1>1. t.blockBytes = Err
      BY DEF Twin
<1>2. [t EXCEPT !.blockBytes = Ok(bytes)] = Twin(d, p, Ok(bytes), c)
      BY SMTT(30) DEF Twin
<1> HIDE DEF t
<1> QED BY <1>1, <1>2 DEF SimReceiveBlock, t

\* and leaves what it has.
LEMMA TwinBlockKept ==
    ASSUME NEW t, t.blockBytes # Err, NEW bytes
    PROVE  SimReceiveBlock(t, bytes) = [state |-> t, answer |-> "redundant"]
BY DEF SimReceiveBlock

\* receive of a packet: what it keeps, and what it answers.
LEMMA TwinPacketIs ==
    ASSUME NEW s \in {"Pedersen", "BFKW"}, NEW d, NEW p, NEW id, NEW w, NEW packet,
           NEW out, out = CodedReceive(s, HashPoints(id), d, p, packet)
    PROVE  SimReceivePacket(s, Twin(d, p, w, ContextFor(s, id)), packet) =
               [state |-> Twin(out.decoder, out.proofs, w, ContextFor(s, id)), answer |-> out.answer]
<1> DEFINE c == ContextFor(s, id)
           t == Twin(d, p, w, c)
           r == CodedReceive(s, t.ctx[1], t.decoder, t.proofs, packet)
<1>1. t.ctx = c /\ t.decoder = d /\ t.proofs = p
      BY DEF Twin
<1>2. s = "BFKW" => c[1] = HashPoints(id)
      BY DEF Ok, ContextFor
<1> HIDE DEF c, t
<1>3. r = out
  <2>1. CASE s = "BFKW"
        BY <1>1, <1>2, <2>1
  <2>2. CASE s = "Pedersen"
        BY <1>1, <2>2, ContextFree
  <2> QED BY <2>1, <2>2
<1>4. SimReceivePacket(s, t, packet) =
          [state |-> [[t EXCEPT !.decoder = r.decoder] EXCEPT !.proofs = r.proofs],
           answer |-> r.answer]
      BY SMTT(30) DEF SimReceivePacket
<1> HIDE DEF r
<1>5. [Twin(d, p, w, c) EXCEPT !.decoder = out.decoder] = Twin(out.decoder, p, w, c)
      BY SMTT(30) DEF Twin
<1>6. [Twin(out.decoder, p, w, c) EXCEPT !.proofs = out.proofs] =
          Twin(out.decoder, out.proofs, w, c)
      BY SMTT(30) DEF Twin
<1> QED BY <1>3, <1>4, <1>5, <1>6 DEF t, c

\* A new state of the simulator.
LEMMA SimReceiverIs ==
    ASSUME NEW s, NEW n
    PROVE  SimReceiver(s, n) = Twin(NewDecoder, <<>>, Err, ContextFor(s, BlockHash(n)))
BY DEF SimReceiver, Twin, ContextFor

---------------------------------------------------------------------------
\* The blocks.

\* All blocks have the size configured.
LEMMA BlockSized ==
    ASSUME NEW n \in 1 .. NumBlocks
    PROVE  Blocks[n] \in Sized(BlockSize)
<1> DEFINE b == Blocks[n]
<1>1. Blocks \in Seq(Block) /\ n \in DOMAIN Blocks
      BY BlocksAssumption DEF NumBlocks
<1>2. b \in Block /\ Len(b.transactions) = BlockSize /\ BlockSize \in Nat
      BY <1>1, BlocksAssumption
<1> HIDE DEF b
<1>3. /\ b = [header |-> b.header, transactions |-> b.transactions]
      /\ b.header \in [1 .. HeaderBytes -> Byte] /\ b.transactions \in Seq(Byte)
      BY <1>2 DEF Block
<1>4. b.transactions \in [1 .. BlockSize -> Byte]
      BY <1>2, <1>3
<1>5. b \in Sized(BlockSize)
      BY <1>3, <1>4 DEF Sized
<1> QED BY <1>5 DEF b

\* A block of the size configured is split, into chunks of one length; its bytes are read
\* back, and so are its chunks with the length announced.
LEMMA BlockIs ==
    ASSUME NEW n \in 1 .. NumBlocks
    PROVE  /\ M \in Nat /\ Chunks[n] \in [1 .. N -> Vec(M)]
           /\ DecodeBlock(Write(Blocks[n])) = Ok(Blocks[n])
           /\ FromChunks(Chunks[n], EncodeSize(Blocks[n])) = Ok(Blocks[n])
<1> DEFINE b == Blocks[n]
<1>1. BlockSize \in Nat /\ BlockSize < HalfPowers[4] /\ BlockSize <= Limit
      BY BlocksAssumption
<1>2. b \in Sized(BlockSize)
      BY BlockSized
<1> HIDE DEF b
<1>3. PICK cs : AsChunks(b, M) = Ok(cs) /\ IsChunked(cs, Write(b), M)
      BY <1>1, <1>2, Fits DEF M
<1>4. M \in Nat \ {0} /\ EncodeSize(b) <= (N * M) * DataBytes
      BY <1>1, <1>2, Fits DEF M
<1>5. Chunks[n] = cs
      BY <1>3 DEF Chunks, Ok, b
<1>6. /\ Write(b) # <<>> /\ EncodeSize(b) \in Nat \ {0} /\ Len(Write(b)) = EncodeSize(b)
      /\ Write(b) \in Seq(Byte)
  <2>1. /\ Write(b) # <<>> /\ EncodeSize(b) \in Nat \ {0} /\ Len(Write(b)) = EncodeSize(b)
        BY <1>1, <1>2, WriteLength
  <2>2. Write(b) \in Seq(Byte)
        BY <1>1, <1>2, WrittenIs DEF IsWritten
  <2> QED BY <2>1, <2>2
<1>7. cs \in [1 .. N -> Vec(M)]
      BY <1>3, <1>4, <1>6, ChunkedIs
<1>8. FromChunks(cs, EncodeSize(b)) = Ok(b)
  <2> DEFINE top == (N * M) * DataBytes
  <2>1. FromChunks(cs, EncodeSize(b)) =
            IF EncodeSize(b) > top \/ EncodeSize(b) < EncodeSize(b) \/ BlockSize > Limit
            THEN Err ELSE Ok(b)
        BY <1>1, <1>2, <1>3, <1>4, <1>6, ChunksRead
  <2>2. top \in Nat
        BY <1>4, ChunksAssumption, PackingAssumption
  <2>3. ~(EncodeSize(b) > top) /\ ~(EncodeSize(b) < EncodeSize(b)) /\ ~(BlockSize > Limit)
    <3>1. EncodeSize(b) <= top
          BY <1>4
    <3>2. Limit \in Nat
          BY CodecAssumption
    <3> HIDE DEF top
    <3> QED BY <1>1, <1>6, <2>2, <3>1, <3>2
  <2> QED BY <2>1, <2>3
<1>9. DecodeBlock(Write(b)) = Ok(b)
  <2>1. ReadBlock(Write(b)) = Ok([block |-> b, taken |-> Len(Write(b))])
        BY <1>1, <1>2, WriteRead
  <2> QED BY <2>1 DEF DecodeBlock, Ok, Err
<1> QED BY <1>4, <1>5, <1>7, <1>8, <1>9 DEF b

\* The beginning of a block is no block.
LEMMA CutOffIs ==
    ASSUME NEW n \in 1 .. NumBlocks, NEW bytes \in CutOff(Write(Blocks[n]))
    PROVE  bytes \in Seq(Byte) /\ DecodeBlock(bytes) = Err /\ bytes # Write(Blocks[n])
<1> DEFINE b == Blocks[n]   w == Write(b)
<1>1. b \in Sized(BlockSize) /\ BlockSize \in Nat /\ BlockSize < HalfPowers[4]
      BY BlockSized, BlocksAssumption
<1> HIDE DEF b
<1>2. w \in Seq(Byte) /\ Len(w) = EncodeSize(b) /\ EncodeSize(b) \in Nat
      BY <1>1, WrittenIs, WriteLength DEF IsWritten
<1> HIDE DEF w
<1>3. PICK k \in 0 .. Len(w) - 1 : bytes = SubSeq(w, 1, k)
      BY DEF CutOff, w, b
<1>4. /\ bytes \in Seq(Byte) /\ Len(bytes) = k /\ k \in Nat /\ k < Len(w)
      /\ \A i \in 1 .. k : bytes[i] = w[i]
      BY <1>2, <1>3
<1>5. IsStart(bytes, Write(b), k) /\ k \in Nat /\ k < EncodeSize(b)
  <2>1. IsStart(bytes, w, k)
        BY <1>2, <1>4 DEF IsStart, At
  <2> QED BY <1>2, <1>4, <2>1 DEF w
<1>6. ReadBlock(bytes) = Err
      BY <1>1, <1>5, WrittenIsRead
<1>7. bytes # w
      BY <1>2, <1>4
<1> QED BY <1>4, <1>6, <1>7 DEF DecodeBlock, w, b

\* A proposer's packets are those of its chunks, under the id given.
LEMMA PacketIs ==
    ASSUME NEW s, NEW n, NEW id, NEW b
    PROVE  Packet(s, n, id, b) = PacketFor(s, id, Chunks[n], b)
BY DEF Packet, PacketFor, EncodedChunk, ChunkOf, SignFor

\* The proofs propose makes, of the protocol s.
ProposerProofs(s, n) == IF s = "Pedersen" THEN PedersenProofs(n) ELSE BfkwProofs(n)

\* A proposer keeps the whole block: every chunk with its proof.
LEMMA ProposerKeeps ==
    ASSUME NEW s \in {"Pedersen", "BFKW"}, NEW n \in 1 .. NumBlocks
    PROVE  /\ Kept(FullDecoder(Chunks[n]), ProposerProofs(s, n), s, n, Chunks[n], M)
           /\ FullDecoder(Chunks[n]).coded # <<>>
<1> DEFINE chunks == Chunks[n]
           d == FullDecoder(chunks)
<1>1. M \in Nat /\ chunks \in [1 .. N -> Vec(M)]
      BY BlockIs
<1>2. N \in Nat \ {0}
      BY ChunksAssumption
<1> HIDE DEF chunks
<1>3. Filled(d, chunks, M, N)
      BY <1>1, FullDecoderIs
<1> HIDE DEF d
<1>4. /\ Collected(d, chunks, M, N) /\ Len(d.coded) = N
      /\ \A l \in 1 .. N : d.coded[l] = [w |-> chunks[l], b |-> Unit(l)]
      BY <1>3 DEF Filled, Collected
<1>5. ASSUME NEW l \in 1 .. N PROVE d.coded[l].b = Unit(l)
  <2>1. d.coded[l] = [w |-> chunks[l], b |-> Unit(l)]
        BY <1>4
  <2> QED BY <2>1
<1>6. ProposerProofs(s, n) = [l \in 1 .. N |-> SignFor(s, n, chunks, Unit(l))]
  <2>1. CASE s = "Pedersen"
        BY <2>1 DEF ProposerProofs, PedersenProofs, SignFor, chunks
  <2>2. CASE s = "BFKW"
    <3>1. s # "Pedersen"
          BY <2>2
    <3>2. ASSUME NEW l \in 1 .. N
          PROVE  BfkwSign(HashPoints(n), l, chunks[l]) = SignFor(s, n, chunks, Unit(l))
          BY <1>1, <3>1, SignUnit
    <3>3. ProposerProofs(s, n) = [l \in 1 .. N |-> BfkwSign(HashPoints(n), l, chunks[l])]
          BY <3>1 DEF ProposerProofs, BfkwProofs, chunks
    <3> QED BY <3>2, <3>3
  <2> QED BY <2>1, <2>2
<1>7. Signed(ProposerProofs(s, n), d.coded, s, n, chunks)
      BY <1>4, <1>5, <1>6 DEF Signed
<1>8. d.coded # <<>>
      BY <1>2, <1>4
<1> QED BY <1>4, <1>7, <1>8 DEF Kept, d, chunks

\* A new decoder keeps nothing of any block.
LEMMA NothingKept ==
    ASSUME NEW s, NEW id, NEW n \in 1 .. NumBlocks
    PROVE  Kept(NewDecoder, <<>>, s, id, Chunks[n], M)
<1>1. Collected(NewDecoder, Chunks[n], M, 0)
      BY BlockIs, NewIs
<1>2. NewDecoder.coded = <<>> /\ Len(<<>>) = 0
      BY DEF NewDecoder
<1>3. Signed(<<>>, NewDecoder.coded, s, id, Chunks[n])
      BY <1>2 DEF Signed
<1> QED BY <1>1, <1>2, <1>3 DEF Kept

---------------------------------------------------------------------------
\* The invariant.

Idle == {"init", "stopped"}
Active == {"decoding", "useful", "forwarded", "decoded"}

\* The bytes the baseline's twin has: those of the block, once the object has them, or a
\* beginning of them.
TwinBytes(w, n, at) ==
    \/ w = IF at = "decoding" THEN Err ELSE Ok(Write(Blocks[n]))
    \/ \E bytes \in CutOff(Write(Blocks[n])) : w = Ok(bytes)

\* The baseline's object and its twin at some stage of block n: useful bytes are kept, and
\* their block until it is decoded.
BlockReceived(o, t, n, at) ==
    /\ o = Object(NewDecoder, <<>>, Err, EncodeSize(Blocks[n]),
                  IF at \in {"useful", "forwarded"} THEN Ok(Blocks[n]) ELSE Err,
                  IF at = "decoding" THEN Err ELSE Ok(Write(Blocks[n])))
    /\ t = Twin(NewDecoder, <<>>, t.blockBytes, Err)
    /\ TwinBytes(t.blockBytes, n, at)

\* Misled, of any state of the twin, and the answers then.
HoldsCut(t, s, n) ==
    s = "Baseline" /\ t.blockBytes # Err /\ t.blockBytes # Ok(Write(Blocks[n]))
Answering(a, cut, at) ==
    /\ a \in [object : Answers, twin : Answers]
    /\ ~cut => a.object = a.twin \/ a = [object |-> "rejected", twin |-> "none"]
    /\ cut => \/ at = "decoding" /\ a.object = "rejected"
              \/ /\ at \in {"useful", "forwarded", "decoded"}
                 /\ a = [object |-> "innovative", twin |-> "redundant"]

\* A coded protocol's: both keep the same chunks of block n, with proofs made for the
\* number in the one and for the hash in the other, and at least one once one was useful.
CodedReceived(o, t, s, n, at) ==
    /\ o = Object(o.decoder, o.proofs, ContextFor(s, n), EncodeSize(Blocks[n]), Err, Err)
    /\ t = Twin(o.decoder, t.proofs, Err, ContextFor(s, BlockHash(n)))
    /\ Kept(o.decoder, o.proofs, s, n, Chunks[n], M)
    /\ Kept(o.decoder, t.proofs, s, BlockHash(n), Chunks[n], M)
    /\ at # "decoding" => o.decoder.coded # <<>>

Receiving(o, t, s, n, at) ==
    \/ at \in Idle /\ o = NewObject /\ t = SimReceiver(s, n)
    \/ at \in Active /\ s = "Baseline" /\ BlockReceived(o, t, n, at)
    \/ at \in Active /\ s # "Baseline" /\ CodedReceived(o, t, s, n, at)

Proposing(o, s, n) == o = IF n = 0 THEN NewObject ELSE ProposeWith(s, NewObject, n)

\* A block received has been proposed, the objects are what the calls so far make of new
\* ones, whatever packets they were given, and the twins gave one answer and one block,
\* but where the simulator's was misled.
ProtocolInv ==
    /\ strategy \in Strategies /\ height \in 0 .. NumBlocks /\ current \in 1 .. NumBlocks + 1
    /\ stage \in Idle \cup Active /\ (stage \in Active => current <= height)
    /\ Proposing(proposer, strategy, height)
    /\ Receiving(receiver, twin, strategy, current, stage)
    /\ Answering(answer, HoldsCut(twin, strategy, current), stage)
    /\ stage # "decoded" => output = [object |-> Err, twin |-> Err]
    /\ DecodesProposed

\* What propose makes of a new object.
CodedObject(s, n) ==
    Object(FullDecoder(Chunks[n]), ProposerProofs(s, n), ContextFor(s, n), EncodeSize(Blocks[n]),
           Err, Err)
BlockObject(n) ==
    Object(NewDecoder, <<>>, Err, EncodeSize(Blocks[n]), Ok(Blocks[n]), Ok(Write(Blocks[n])))

LEMMA ProposeIs ==
    ASSUME NEW s \in Strategies, NEW n
    PROVE  ProposeWith(s, NewObject, n) = IF s = "Baseline" THEN BlockObject(n) ELSE CodedObject(s, n)
<1>1. CASE s = "Baseline"
      BY <1>1, ProposeBaselineIs DEF ProposeWith, BlockObject
<1>2. CASE s = "Pedersen"
  <2>1. ProposeWith(s, NewObject, n) = ProposePedersen(NewObject, n)
        BY <1>2 DEF ProposeWith
  <2>2. ProposerProofs(s, n) = PedersenProofs(n) /\ ContextFor(s, n) = Err /\ s # "Baseline"
        BY <1>2 DEF ProposerProofs, ContextFor
  <2> QED BY <2>1, <2>2, ProposePedersenIs DEF CodedObject
<1>3. CASE s = "BFKW"
  <2>1. ProposeWith(s, NewObject, n) = ProposeBfkw(NewObject, n)
        BY <1>3 DEF ProposeWith
  <2>2. /\ ProposerProofs(s, n) = BfkwProofs(n) /\ ContextFor(s, n) = Ok(HashPoints(n))
        /\ s # "Baseline"
        BY <1>3 DEF ProposerProofs, ContextFor
  <2> QED BY <2>1, <2>2, ProposeBfkwIs DEF CodedObject
<1> QED BY <1>1, <1>2, <1>3 DEF Strategies

\* A coded protocol's reset, of an object that keeps something of a block.
LEMMA ResetCodedIs ==
    ASSUME NEW s \in Strategies, s # "Baseline", NEW d, NEW p, NEW n, NEW l, NEW id, NEW k,
           Kept(d, p, s, id, Chunks[k], M)
    PROVE  ResetObject(s, Object(d, p, ContextFor(s, n), l, Err, Err)) = NewObject
<1>1. ResetDecoder(d) = NewDecoder
      BY ResetIs DEF Kept
<1>2. CASE s = "Pedersen"
      BY <1>1, <1>2, ResetPedersenIs DEF ResetObject, ContextFor
<1>3. CASE s = "BFKW"
      BY <1>1, <1>3, ResetBfkwIs DEF ResetObject, ContextFor
<1> QED BY <1>2, <1>3 DEF Strategies

\* The proposer's reset undoes what it proposed.
LEMMA ResetProposer ==
    ASSUME NEW s \in Strategies, NEW n \in 1 .. NumBlocks
    PROVE  ResetObject(s, ProposeWith(s, NewObject, n)) = NewObject
<1>1. CASE s = "Baseline"
      BY <1>1, ProposeIs, ResetBaselineIs DEF ResetObject, BlockObject
<1>2. CASE s # "Baseline"
  <2>1. s \in {"Pedersen", "BFKW"}
        BY <1>2 DEF Strategies
  <2>2. Kept(FullDecoder(Chunks[n]), ProposerProofs(s, n), s, n, Chunks[n], M)
        BY <2>1, ProposerKeeps
  <2>3. ResetObject(s, CodedObject(s, n)) = NewObject
        BY <1>2, <2>2, ResetCodedIs DEF CodedObject
  <2> QED BY <1>2, <2>3, ProposeIs
<1> QED BY <1>1, <1>2

\* The receiver's undoes what it received.
LEMMA ResetReceiver ==
    ASSUME NEW s \in Strategies, NEW n, NEW o, NEW t, Receiving(o, t, s, n, "decoded")
    PROVE  ResetObject(s, o) = NewObject
<1>1. "decoded" \notin Idle
      BY DEF Idle
<1>2. CASE s = "Baseline" /\ BlockReceived(o, t, n, "decoded")
  <2>1. o = Object(NewDecoder, <<>>, Err, EncodeSize(Blocks[n]), Err, Ok(Write(Blocks[n])))
        BY <1>2 DEF BlockReceived
  <2> QED BY <1>2, <2>1, ResetBaselineIs DEF ResetObject
<1>3. CASE s # "Baseline" /\ CodedReceived(o, t, s, n, "decoded")
  <2> DEFINE d == o.decoder   p == o.proofs
  <2>1. /\ o = Object(d, p, ContextFor(s, n), EncodeSize(Blocks[n]), Err, Err)
        /\ Kept(d, p, s, n, Chunks[n], M)
        BY <1>3 DEF CodedReceived
  <2> HIDE DEF d, p
  <2> QED BY <1>3, <2>1, ResetCodedIs
<1> QED BY <1>1, <1>2, <1>3 DEF Receiving

\* A packet of a block's proposer is authentic.
LEMMA Authentic ==
    ASSUME NEW s, NEW id, NEW m \in Nat, NEW chunks \in [1 .. N -> Vec(m)], NEW b \in Vector,
           NEW packet, packet = PacketFor(s, id, chunks, b)
    PROVE  /\ Verify(s, HashPoints(id), packet.chunk, packet.proof)
           /\ packet.chunk = ChunkOf(chunks, b) /\ packet.chunk \in CodedChunk(m)
           /\ packet.chunk.b = b /\ packet.proof = SignFor(s, id, chunks, b)
<1> DEFINE x == ChunkOf(chunks, b)
           p == SignFor(s, id, chunks, b)
<1>1. packet.chunk = x /\ packet.proof = p
      BY DEF PacketFor
<1>2. x \in CodedChunk(m) /\ x.b = b
      BY ChunkIs
<1> HIDE DEF x, p
<1>3. p = SignFor(s, id, chunks, b) /\ x = ChunkOf(chunks, b)
      BY DEF x, p
<1>4. Verify(s, HashPoints(id), x, p)
      BY <1>2, <1>3, VerifiedIs
<1> QED BY <1>1, <1>2, <1>4 DEF x, p

\* An object and its twin take a packet of the block alike.
TakenAlike(out, simOut, s, n) ==
    /\ out.decoder = simOut.decoder /\ out.answer = simOut.answer
    /\ out.answer \in {"innovative", "redundant"}
    /\ Kept(out.decoder, out.proofs, s, n, Chunks[n], M)
    /\ Kept(out.decoder, simOut.proofs, s, BlockHash(n), Chunks[n], M)
    /\ out.answer = "innovative" => out.decoder.coded # <<>>

LEMMA ReceiveAlike ==
    ASSUME NEW s, NEW n \in 1 .. NumBlocks, NEW b \in Vector, NEW d, NEW p, NEW q,
           Kept(d, p, s, n, Chunks[n], M), Kept(d, q, s, BlockHash(n), Chunks[n], M),
           NEW packet, packet = PacketFor(s, n, Chunks[n], b),
           NEW simPacket, simPacket = PacketFor(s, BlockHash(n), Chunks[n], b),
           NEW out, out = CodedReceive(s, HashPoints(n), d, p, packet),
           NEW simOut, simOut = CodedReceive(s, HashPoints(BlockHash(n)), d, q, simPacket)
    PROVE  TakenAlike(out, simOut, s, n)
<1> DEFINE chunks == Chunks[n]
           id == BlockHash(n)
<1>1. M \in Nat /\ chunks \in [1 .. N -> Vec(M)]
      BY BlockIs
<1>2. packet = PacketFor(s, n, chunks, b)
      OBVIOUS
<1>3. simPacket = PacketFor(s, id, chunks, b)
      OBVIOUS
<1>4. Kept(d, p, s, n, chunks, M) /\ Kept(d, q, s, id, chunks, M)
      OBVIOUS
<1> HIDE DEF chunks, id
<1>5. /\ Verify(s, HashPoints(n), packet.chunk, packet.proof)
      /\ packet.chunk = ChunkOf(chunks, b) /\ packet.chunk \in CodedChunk(M)
      /\ packet.proof = SignFor(s, n, chunks, b)
      BY <1>1, <1>2, Authentic
<1>6. /\ Verify(s, HashPoints(id), simPacket.chunk, simPacket.proof)
      /\ simPacket.chunk = ChunkOf(chunks, b) /\ simPacket.chunk \in CodedChunk(M)
      /\ simPacket.proof = SignFor(s, id, chunks, b)
      BY <1>1, <1>3, Authentic
<1>7. /\ Outcome(out, d, p, packet, s, n, chunks, M)
      /\ Kept(out.decoder, out.proofs, s, n, chunks, M)
      BY <1>1, <1>4, <1>5, ReceivedIs
<1>8. Kept(simOut.decoder, simOut.proofs, s, id, chunks, M)
  <2>1. simOut = CodedReceive(s, HashPoints(id), d, q, simPacket)
        BY DEF id
  <2> QED BY <1>1, <1>4, <1>6, <2>1, ReceivedIs
<1>9. simOut = IF Adds(d, packet.chunk)
               THEN [decoder |-> Added(d, packet.chunk), proofs |-> Append(q, simPacket.proof),
                     answer |-> "innovative"]
               ELSE [decoder |-> d, proofs |-> q, answer |-> "redundant"]
      BY <1>5, <1>6 DEF CodedReceive, id
<1>10. out.decoder = simOut.decoder /\ out.answer = simOut.answer /\ out.answer \in {"innovative", "redundant"}
      BY <1>5, <1>7, <1>9 DEF Outcome
<1>11. out.answer = "innovative" => out.decoder.coded # <<>>
  <2>1. ASSUME out.answer = "innovative" PROVE out.decoder.coded # <<>>
    <3> DEFINE r == Len(d.coded)
    <3>1. OneMore(out.decoder, d, chunks, M, r, packet.chunk)
          BY <1>7, <2>1 DEF Outcome
    <3>2. r \in Nat
      <4>1. Collected(d, chunks, M, r)
            BY <1>4 DEF Kept
      <4> HIDE DEF r
      <4> QED BY <4>1, CollectedParts
    <3> HIDE DEF r
    <3>3. Len(out.decoder.coded) = r + 1 /\ Len(<<>>) = 0
          BY <3>1 DEF OneMore, Collected
    <3> QED BY <3>2, <3>3
  <2> QED BY <2>1
<1> QED BY <1>7, <1>8, <1>10, <1>11 DEF TakenAlike, chunks, id

\* A peer that has nothing yet finds a packet of the block useful.
LEMMA FreshTakes ==
    ASSUME NEW s, NEW id, NEW n \in 1 .. NumBlocks, NEW b \in Vector \ {Zero}, NEW packet,
           packet = PacketFor(s, id, Chunks[n], b)
    PROVE  CodedReceive(s, HashPoints(id), NewDecoder, <<>>, packet).answer = "innovative"
<1> DEFINE chunks == Chunks[n]
<1>1. M \in Nat /\ chunks \in [1 .. N -> Vec(M)] /\ packet = PacketFor(s, id, chunks, b)
      BY BlockIs
<1> HIDE DEF chunks
<1>2. Verify(s, HashPoints(id), packet.chunk, packet.proof) /\ packet.chunk.b = b
      BY <1>1, Authentic
<1>3. Adds(NewDecoder, packet.chunk)
      BY <1>2, NewAdds
<1> QED BY <1>2, <1>3 DEF CodedReceive

\* What the proposer of block n sends comes off the wire as it was.
LEMMA WireOf ==
    ASSUME NEW s, NEW id, NEW n \in 1 .. NumBlocks, NEW b \in Vector \ {Zero}
    PROVE  Deserialize(s, Serialize(s, PacketFor(s, id, Chunks[n], b)), M) =
               Ok(PacketFor(s, id, Chunks[n], b))
<1> DEFINE chunks == Chunks[n]
<1>1. M \in Nat /\ chunks \in [1 .. N -> Vec(M)]
      BY BlockIs
<1> HIDE DEF chunks
<1>2. Deserialize(s, Serialize(s, PacketFor(s, id, chunks, b)), M) = Ok(PacketFor(s, id, chunks, b))
      BY <1>1, HonestRead
<1> QED BY <1>2 DEF chunks

\* Object and twin, of a coded protocol, are given a packet of the block.
LEMMA CodedTakes ==
    ASSUME NEW s \in {"Pedersen", "BFKW"}, NEW n \in 1 .. NumBlocks, NEW b \in Honest,
           NEW o, NEW t, CodedReceived(o, t, s, n, "decoding"),
           NEW taken, taken = IngestData(s, o, Serialize(s, Packet(s, n, n, b))),
           NEW simTaken, simTaken = SimReceive(s, t, SimPacket(s, n, b))
    PROVE  /\ taken.answer = simTaken.answer /\ taken.answer \in Answers
           /\ CodedReceived(taken.object, simTaken.state, s, n,
                            IF taken.answer = "innovative" THEN "useful" ELSE "decoding")
<1> DEFINE d == o.decoder   p == o.proofs   q == t.proofs   id == BlockHash(n)
           l == EncodeSize(Blocks[n])
           packet == PacketFor(s, n, Chunks[n], b)
           simPacket == PacketFor(s, id, Chunks[n], b)
           out == CodedReceive(s, HashPoints(n), d, p, packet)
           simOut == CodedReceive(s, HashPoints(id), d, q, simPacket)
<1>1. b \in Vector \ {Zero} /\ b \in Vector /\ s # "Baseline"
      BY DEF Honest
<1>2. /\ o = Object(d, p, ContextFor(s, n), l, Err, Err)
      /\ t = Twin(d, q, Err, ContextFor(s, id))
      /\ Kept(d, p, s, n, Chunks[n], M) /\ Kept(d, q, s, id, Chunks[n], M)
      BY DEF CodedReceived
<1>3. Packet(s, n, n, b) = packet /\ SimPacket(s, n, b) = simPacket
      BY PacketIs DEF SimPacket
<1>4. Deserialize(s, Serialize(s, packet), M) = Ok(packet)
      BY <1>1, WireOf
<1>5. TakenAlike(out, simOut, s, n)
      BY <1>1, <1>2, ReceiveAlike
<1> HIDE DEF d, p, q, l, packet, simPacket
<1>6. taken = [object |-> Object(out.decoder, out.proofs, ContextFor(s, n), l, Err, Err),
               answer |-> out.answer]
  <2>1. taken = IngestPacket(s, Object(d, p, ContextFor(s, n), l, Err, Err), Serialize(s, packet))
        BY <1>1, <1>2, <1>3 DEF IngestData
  <2> HIDE DEF out
  <2>2. out = CodedReceive(s, HashPoints(n), d, p, packet)
        BY DEF out
  <2> QED BY <1>4, <2>1, <2>2, IngestPacketIs
<1>7. simTaken = [state |-> Twin(simOut.decoder, simOut.proofs, Err, ContextFor(s, id)),
                  answer |-> simOut.answer]
  <2>1. simTaken = SimReceivePacket(s, Twin(d, q, Err, ContextFor(s, id)), simPacket)
        BY <1>1, <1>2, <1>3 DEF SimReceive
  <2> HIDE DEF simOut, id
  <2>2. simOut = CodedReceive(s, HashPoints(id), d, q, simPacket)
        BY DEF simOut
  <2> QED BY <2>1, <2>2, TwinPacketIs
<1> HIDE DEF out, simOut
<1>8. /\ out.decoder = simOut.decoder /\ out.answer = simOut.answer /\ out.answer \in Answers
      /\ Kept(out.decoder, out.proofs, s, n, Chunks[n], M)
      /\ Kept(out.decoder, simOut.proofs, s, id, Chunks[n], M)
      /\ out.answer = "innovative" => out.decoder.coded # <<>>
      BY <1>5 DEF TakenAlike, Answers
<1>9. taken.answer = out.answer /\ simTaken.answer = out.answer
      BY <1>6, <1>7, <1>8
<1> DEFINE to == taken.object   st == simTaken.state
<1>10. /\ to = Object(out.decoder, out.proofs, ContextFor(s, n), l, Err, Err)
       /\ st = Twin(out.decoder, simOut.proofs, Err, ContextFor(s, id))
      BY <1>6, <1>7, <1>8
<1> HIDE DEF to, st
<1>11. to.decoder = out.decoder /\ to.proofs = out.proofs /\ st.proofs = simOut.proofs
      BY <1>10 DEF Object, Twin
<1>12. CodedReceived(to, st, s, n, IF taken.answer = "innovative" THEN "useful" ELSE "decoding")
      BY <1>8, <1>9, <1>10, <1>11 DEF CodedReceived, l
<1> QED BY <1>8, <1>9, <1>12 DEF to, st

\* What is cut off is rejected and changes nothing,
LEMMA CutRejected ==
    ASSUME NEW s \in {"Pedersen", "BFKW"}, NEW n \in 1 .. NumBlocks, NEW b \in Honest, NEW o,
           NEW wire \in CutOff(Serialize(s, Packet(s, n, n, b)))
    PROVE  IngestData(s, o, wire) = [object |-> o, answer |-> "rejected"]
<1> DEFINE chunks == Chunks[n]
           whole == Serialize(s, PacketFor(s, n, chunks, b))
<1>1. b \in Vector \ {Zero} /\ M \in Nat /\ chunks \in [1 .. N -> Vec(M)] /\ s # "Baseline"
      BY BlockIs DEF Honest
<1>2. wire \in CutOff(whole)
      BY PacketIs
<1> HIDE DEF chunks, whole
<1>3. whole = Serialize(s, PacketFor(s, n, chunks, b))
      BY DEF whole
<1>4. PICK k \in 0 .. Len(whole) - 1 : wire = SubSeq(whole, 1, k)
      BY <1>2 DEF CutOff
<1>5. Deserialize(s, wire, M) = Err
      BY <1>1, <1>3, <1>4, CutRead
<1> QED BY <1>1, <1>5, IngestUnreadable DEF IngestData

\* and so is what was altered, by the object
LEMMA AlteredRejected ==
    ASSUME NEW s \in {"Pedersen", "BFKW"}, NEW n \in 1 .. NumBlocks, NEW b \in Honest,
           NEW o, NEW t, CodedReceived(o, t, s, n, "decoding"), NEW i \in 1 .. M,
           NEW wire, wire = AlteredWire(Serialize(s, Packet(s, n, n, b)), i)
    PROVE  IngestData(s, o, wire) = [object |-> o, answer |-> "rejected"]
<1> DEFINE d == o.decoder   p == o.proofs   chunks == Chunks[n]
           l == EncodeSize(Blocks[n])
           whole == Serialize(s, PacketFor(s, n, chunks, b))
<1>1. b \in Vector \ {Zero} /\ M \in Nat /\ chunks \in [1 .. N -> Vec(M)] /\ s # "Baseline"
      BY BlockIs DEF Honest
<1>2. o = Object(d, p, ContextFor(s, n), l, Err, Err)
      BY DEF CodedReceived
<1>3. wire = Altered(whole, i)
      BY PacketIs DEF AlteredWire, Altered
<1> HIDE DEF d, p, l, chunks, whole
<1>4. whole = Serialize(s, PacketFor(s, n, chunks, b))
      BY DEF whole
<1>5. PICK packet : /\ Deserialize(s, wire, M) = Ok(packet)
                    /\ ~Verify(s, HashPoints(n), packet.chunk, packet.proof)
      BY <1>1, <1>3, <1>4, AlteredRead
<1> DEFINE out == CodedReceive(s, HashPoints(n), d, p, packet)
<1>6. out = [decoder |-> d, proofs |-> p, answer |-> "rejected"]
      BY <1>5 DEF CodedReceive
<1> HIDE DEF out
<1>7. out = CodedReceive(s, HashPoints(n), d, p, packet)
      BY DEF out
<1>8. IngestPacket(s, Object(d, p, ContextFor(s, n), l, Err, Err), wire) =
          [object |-> Object(out.decoder, out.proofs, ContextFor(s, n), l, Err, Err),
           answer |-> out.answer]
      BY <1>5, <1>7, IngestPacketIs
<1>9. out.decoder = d /\ out.proofs = p /\ out.answer = "rejected"
      BY <1>6
<1> QED BY <1>1, <1>2, <1>8, <1>9 DEF IngestData

\* and by the twin.
LEMMA TwinRejects ==
    ASSUME NEW s \in {"Pedersen", "BFKW"}, NEW n \in 1 .. NumBlocks, NEW b \in Honest,
           NEW o, NEW t, CodedReceived(o, t, s, n, "decoding"), NEW i \in 1 .. M,
           NEW packet, packet = AlteredPacket(SimPacket(s, n, b), i)
    PROVE  SimReceive(s, t, packet) = [state |-> t, answer |-> "rejected"]
<1> DEFINE d == o.decoder   q == t.proofs   chunks == Chunks[n]   id == BlockHash(n)
           w == ChunkOf(chunks, b).w   u == [w EXCEPT ![i] = (@ + 1) % P]
           proof == SignFor(s, id, chunks, b)
           x == [w |-> u, b |-> b]
<1>1. b \in Vector /\ M \in Nat /\ chunks \in [1 .. N -> Vec(M)] /\ s # "Baseline"
      BY BlockIs DEF Honest
<1>2. t = Twin(d, q, Err, ContextFor(s, id))
      BY DEF CodedReceived
<1>3. w \in Vec(M) /\ ChunkOf(chunks, b) = [w |-> w, b |-> b]
  <2>1. ChunkOf(chunks, b) \in CodedChunk(M)
        BY <1>1, ChunkIs
  <2>2. ChunkOf(chunks, b) = [w |-> LinearCombination(chunks, b), b |-> b]
        BY DEF ChunkOf
  <2>3. w = LinearCombination(chunks, b)
        BY <2>2
  <2> QED BY <2>1, <2>2, <2>3 DEF CodedChunk
<1>4. packet = [chunk |-> x, proof |-> proof]
  <2>1. SimPacket(s, n, b) = [chunk |-> [w |-> w, b |-> b], proof |-> proof]
        BY <1>3, PacketIs DEF SimPacket, PacketFor
  <2> HIDE DEF w, proof
  <2> DEFINE y == [chunk |-> [w |-> w, b |-> b], proof |-> proof]
  <2>2. [y EXCEPT !.chunk.w[i] = (@ + 1) % P] = [chunk |-> x, proof |-> proof]
        BY SMTT(30)
  <2> QED BY <2>1, <2>2 DEF AlteredPacket
<1> HIDE DEF w, proof
<1>5. u \in Vec(M) /\ u # w
  <2>1. w[i] \in 0 .. P - 1 /\ P \in Nat \ {0, 1}
        BY <1>3, PrimeAssumption DEF Vec, Field
  <2>2. (w[i] + 1) % P \in Field /\ (w[i] + 1) % P # w[i]
    <3>1. w[i] + 1 \in Int
          BY <2>1
    <3>2. (w[i] + 1) % P \in Field
          BY <3>1, Remainder
    <3>3. (w[i] + 1) % P # w[i]
          BY <2>1
    <3> QED BY <3>2, <3>3
  <2> QED BY <1>3, <2>2 DEF Vec
<1> HIDE DEF u
<1>6. x \in CodedChunk(M) /\ x.b = b /\ x.w = u /\ ChunkOf(chunks, b).w = w
      BY <1>1, <1>3, <1>5 DEF CodedChunk, w
<1> HIDE DEF x, chunks, id
<1>7. x # ChunkOf(chunks, x.b)
      BY <1>5, <1>6
<1>8. ~Verify(s, HashPoints(id), x, proof)
      BY <1>1, <1>6, <1>7, VerifiedIs DEF proof
<1>9. packet.chunk = x /\ packet.proof = proof
      BY <1>4
<1> HIDE DEF d, q
<1> DEFINE out == CodedReceive(s, HashPoints(id), d, q, packet)
<1>10. out = [decoder |-> d, proofs |-> q, answer |-> "rejected"]
       BY <1>8, <1>9 DEF CodedReceive
<1> HIDE DEF out
<1>11. out = CodedReceive(s, HashPoints(id), d, q, packet)
       BY DEF out
<1>12. SimReceivePacket(s, Twin(d, q, Err, ContextFor(s, id)), packet) =
           [state |-> Twin(out.decoder, out.proofs, Err, ContextFor(s, id)), answer |-> out.answer]
       BY <1>11, TwinPacketIs
<1>13. out.decoder = d /\ out.proofs = q /\ out.answer = "rejected"
       BY <1>10
<1> QED BY <1>1, <1>2, <1>12, <1>13 DEF SimReceive

\* Object and twin of the baseline are given the bytes of the block.
LEMMA BlockTakes ==
    ASSUME NEW n \in 1 .. NumBlocks, NEW o, NEW t, BlockReceived(o, t, n, "decoding"),
           NEW bytes, bytes = Write(Blocks[n]),
           NEW taken, taken = IngestData("Baseline", o, bytes),
           NEW simTaken, simTaken = SimReceive("Baseline", t, bytes)
    PROVE  /\ taken.answer = "innovative"
           /\ simTaken.answer =
                  IF HoldsCut(simTaken.state, "Baseline", n) THEN "redundant" ELSE "innovative"
           /\ BlockReceived(taken.object, simTaken.state, n, "useful")
<1> DEFINE l == EncodeSize(Blocks[n])   block == Ok(Blocks[n])   w == t.blockBytes
<1>1. /\ o = Object(NewDecoder, <<>>, Err, l, Err, Err) /\ t = Twin(NewDecoder, <<>>, w, Err)
      /\ TwinBytes(w, n, "decoding")
      BY DEF BlockReceived
<1>2. DecodeBlock(bytes) = block /\ block # Err
      BY BlockIs DEF Ok, Err
<1> HIDE DEF l, block, w
<1>3. taken = [object |-> Object(NewDecoder, <<>>, Err, l, block, Ok(bytes)), answer |-> "innovative"]
      BY <1>1, <1>2, IngestBlockIs DEF IngestData
<1>4. taken.object = Object(NewDecoder, <<>>, Err, l, block, Ok(bytes))
      BY <1>3
<1>5. CASE w = Err
  <2>1. simTaken = [state |-> Twin(NewDecoder, <<>>, Ok(bytes), Err), answer |-> "innovative"]
        BY <1>1, <1>5, TwinBlockIs DEF SimReceive
  <2>2. simTaken.state = Twin(NewDecoder, <<>>, Ok(bytes), Err) /\ simTaken.answer = "innovative"
        BY <2>1
  <2> DEFINE st == simTaken.state
  <2> HIDE DEF st
  <2>3. st.blockBytes = Ok(bytes) /\ st = Twin(NewDecoder, <<>>, st.blockBytes, Err)
        BY <2>2 DEF Twin, st
  <2>4. TwinBytes(st.blockBytes, n, "useful") /\ ~HoldsCut(st, "Baseline", n)
        BY <2>3 DEF TwinBytes, HoldsCut
  <2>5. BlockReceived(taken.object, st, n, "useful")
        BY <1>4, <2>3, <2>4 DEF BlockReceived, l, block
  <2> QED BY <1>3, <2>2, <2>4, <2>5 DEF st
<1>6. CASE w # Err
  <2>1. PICK part \in CutOff(Write(Blocks[n])) : w = Ok(part)
        BY <1>1, <1>6 DEF TwinBytes
  <2>2. part # Write(Blocks[n])
        BY CutOffIs
  <2>3. w # Ok(Write(Blocks[n]))
        BY <2>1, <2>2 DEF Ok
  <2>4. simTaken = [state |-> t, answer |-> "redundant"]
        BY <1>6, TwinBlockKept DEF SimReceive, w
  <2>5. simTaken.state = t /\ simTaken.answer = "redundant"
        BY <2>4
  <2>6. HoldsCut(t, "Baseline", n)
        BY <1>6, <2>3 DEF HoldsCut, w
  <2>7. TwinBytes(w, n, "useful")
        BY <2>1 DEF TwinBytes
  <2>8. BlockReceived(taken.object, t, n, "useful")
        BY <1>1, <1>4, <2>7 DEF BlockReceived, l, block, w
  <2> QED BY <1>3, <2>5, <2>6, <2>8
<1> QED BY <1>5, <1>6

\* They are given a beginning of the block: the object rejects it, the twin is misled.
LEMMA BlockMisleads ==
    ASSUME NEW n \in 1 .. NumBlocks, NEW o, NEW t, BlockReceived(o, t, n, "decoding"),
           NEW bytes \in CutOff(Write(Blocks[n])),
           NEW taken, taken = IngestData("Baseline", o, bytes),
           NEW simTaken, simTaken = SimReceive("Baseline", t, bytes)
    PROVE  /\ taken.answer = "rejected" /\ simTaken.answer \in Answers
           /\ HoldsCut(simTaken.state, "Baseline", n)
           /\ BlockReceived(taken.object, simTaken.state, n, "decoding")
<1> DEFINE l == EncodeSize(Blocks[n])   w == t.blockBytes
<1>1. /\ o = Object(NewDecoder, <<>>, Err, l, Err, Err) /\ t = Twin(NewDecoder, <<>>, w, Err)
      /\ TwinBytes(w, n, "decoding")
      BY DEF BlockReceived
<1>2. DecodeBlock(bytes) = Err
      BY CutOffIs
<1> HIDE DEF l, w
<1>3. taken = [object |-> o, answer |-> "rejected"]
      BY <1>1, <1>2, IngestNoBlock DEF IngestData
<1>4. taken.object = o /\ taken.answer = "rejected"
      BY <1>3
<1>5. /\ simTaken.state = Twin(NewDecoder, <<>>, simTaken.state.blockBytes, Err)
      /\ \E part \in CutOff(Write(Blocks[n])) : simTaken.state.blockBytes = Ok(part)
      /\ simTaken.answer \in Answers
  <2>1. CASE w = Err
    <3>1. simTaken = [state |-> Twin(NewDecoder, <<>>, Ok(bytes), Err), answer |-> "innovative"]
          BY <1>1, <2>1, TwinBlockIs DEF SimReceive
    <3>2. simTaken.state = Twin(NewDecoder, <<>>, Ok(bytes), Err) /\ simTaken.answer = "innovative"
          BY <3>1
    <3>3. simTaken.state.blockBytes = Ok(bytes)
          BY <3>2 DEF Twin
    <3> QED BY <3>2, <3>3 DEF Answers
  <2>2. CASE w # Err
    <3>1. simTaken = [state |-> t, answer |-> "redundant"]
          BY <2>2, TwinBlockKept DEF SimReceive, w
    <3>2. simTaken.state = t /\ simTaken.answer = "redundant"
          BY <3>1
    <3>3. \E part \in CutOff(Write(Blocks[n])) : w = Ok(part)
          BY <1>1, <2>2 DEF TwinBytes
    <3> QED BY <1>1, <3>2, <3>3 DEF Answers, w
  <2> QED BY <2>1, <2>2
<1> DEFINE st == simTaken.state
<1> HIDE DEF st
<1>6. PICK part \in CutOff(Write(Blocks[n])) : st.blockBytes = Ok(part)
      BY <1>5 DEF st
<1>7. part # Write(Blocks[n])
      BY CutOffIs
<1>8. st.blockBytes # Err /\ st.blockBytes # Ok(Write(Blocks[n]))
      BY <1>6, <1>7 DEF Ok, Err
<1>9. TwinBytes(st.blockBytes, n, "decoding")
      BY <1>6 DEF TwinBytes
<1>10. BlockReceived(o, st, n, "decoding")
       BY <1>1, <1>5, <1>9 DEF BlockReceived, l, st
<1> QED BY <1>4, <1>5, <1>8, <1>10 DEF HoldsCut, st

---------------------------------------------------------------------------
\* Every step keeps the invariant.

\* A new twin has not been misled.
LEMMA FreshTwin ==
    ASSUME NEW s, NEW n
    PROVE  ~HoldsCut(SimReceiver(s, n), s, n)
BY SimReceiverIs DEF HoldsCut, Twin

LEMMA InitInv == Init => ProtocolInv
<1> SUFFICES ASSUME Init PROVE ProtocolInv
    OBVIOUS
<1>1. NumBlocks \in Nat
      BY BlocksAssumption DEF NumBlocks
<1>2. stage \in Idle /\ stage \notin Active
      BY DEF Init, Idle, Active
<1>3. Receiving(receiver, twin, strategy, current, stage)
      BY <1>2 DEF Init, Receiving
<1>4. Proposing(proposer, strategy, height)
      BY DEF Init, Proposing
<1>5. DecodesProposed
      BY DEF Init, DecodesProposed
<1>6. Answering(answer, HoldsCut(twin, strategy, current), stage)
  <2>1. ~HoldsCut(twin, strategy, current)
        BY FreshTwin DEF Init
  <2>2. answer = [object |-> "none", twin |-> "none"] /\ "none" \in Answers
        BY DEF Init, Answers
  <2> QED BY <2>1, <2>2 DEF Answering
<1> QED BY <1>1, <1>2, <1>3, <1>4, <1>5, <1>6 DEF Init, ProtocolInv

\* A new block replaces what was proposed before.
LEMMA ProposeInv == ProtocolInv /\ Propose => ProtocolInv'
<1> SUFFICES ASSUME ProtocolInv, Propose PROVE ProtocolInv'
    OBVIOUS
<1>1. NumBlocks \in Nat
      BY BlocksAssumption DEF NumBlocks
<1>2. /\ strategy \in Strategies /\ height \in 0 .. NumBlocks /\ height < NumBlocks
      /\ height' = height + 1
      BY DEF ProtocolInv, Propose
<1>3. (IF height > 0 THEN ResetObject(strategy, proposer) ELSE proposer) = NewObject
  <2>1. CASE height = 0
        BY <2>1 DEF ProtocolInv, Proposing
  <2>2. CASE height # 0
    <3>1. proposer = ProposeWith(strategy, NewObject, height) /\ height \in 1 .. NumBlocks
          BY <1>1, <1>2, <2>2 DEF ProtocolInv, Proposing
    <3>2. ResetObject(strategy, ProposeWith(strategy, NewObject, height)) = NewObject
          BY <1>2, <3>1, ResetProposer
    <3> QED BY <3>1, <3>2
  <2> QED BY <2>1, <2>2
<1>4. proposer' = ProposeWith(strategy, NewObject, height')
      BY <1>2, <1>3 DEF Propose
<1>5. Proposing(proposer', strategy, height')
      BY <1>2, <1>4 DEF Proposing
<1>6. height' \in 0 .. NumBlocks /\ (stage \in Active => current <= height')
  <2>1. current \in 1 .. NumBlocks + 1 /\ (stage \in Active => current <= height)
        BY DEF ProtocolInv
  <2> QED BY <1>1, <1>2, <2>1
<1>7. UNCHANGED <<strategy, receiver, twin, current, stage, answer, output>>
      BY DEF Propose
<1>8. DecodesProposed'
      BY <1>7 DEF ProtocolInv, DecodesProposed, Misled
<1>9. strategy' \in Strategies /\ height' \in 0 .. NumBlocks /\ current' \in 1 .. NumBlocks + 1
      BY <1>6, <1>7 DEF ProtocolInv
<1>10. Receiving(receiver', twin', strategy', current', stage')
      BY <1>7 DEF ProtocolInv
<1>11. Answering(answer', HoldsCut(twin', strategy', current'), stage')
      BY <1>7 DEF ProtocolInv
<1>12. /\ stage' \in Idle \cup Active /\ (stage' \in Active => current' <= height')
       /\ stage' # "decoded" => output' = [object |-> Err, twin |-> Err]
       BY <1>6, <1>7 DEF ProtocolInv
<1>13. Proposing(proposer', strategy', height')
      BY <1>5, <1>7
<1> QED BY <1>8, <1>9, <1>10, <1>11, <1>12, <1>13 DEF ProtocolInv

\* An announcement begins a block.
LEMMA AnnouncedInv == ProtocolInv /\ Announced => ProtocolInv'
<1> SUFFICES ASSUME ProtocolInv, Announced PROVE ProtocolInv'
    OBVIOUS
<1> DEFINE s == strategy   n == current   l == EncodeSize(Blocks[current])
<1>1. NumBlocks \in Nat
      BY BlocksAssumption DEF NumBlocks
<1>2. n \in 1 .. NumBlocks /\ s \in Strategies /\ n <= height
      BY <1>1 DEF ProtocolInv, Announced
<1>3. stage = "init" /\ "init" \notin Active /\ stage' = "decoding" /\ "decoding" \in Active
      BY DEF Announced, Active
<1>4. receiver = NewObject /\ twin = SimReceiver(s, n)
      BY <1>3 DEF ProtocolInv, Receiving
<1>5. receiver' = Object(NewDecoder, <<>>, ContextFor(s, n), l, Err, Err)
  <2>1. receiver' = IngestAnnouncement(s, Object(NewDecoder, <<>>, Err, 0, Err, Err), n, l)
        BY <1>4, NewObjectIs DEF Announced
  <2> HIDE DEF s, n, l
  <2> QED BY <2>1, AnnouncementIs DEF ContextFor
<1>6. twin = Twin(NewDecoder, <<>>, Err, ContextFor(s, BlockHash(n)))
      BY <1>4, SimReceiverIs
<1>7. Receiving(receiver', twin, s, n, "decoding")
  <2>1. CASE s = "Baseline"
    <3>1. twin.blockBytes = Err
          BY <1>6 DEF Twin
    <3>2. TwinBytes(twin.blockBytes, n, "decoding")
          BY <3>1 DEF TwinBytes
    <3>3. BlockReceived(receiver', twin, n, "decoding")
          BY <1>5, <1>6, <2>1, <3>1, <3>2 DEF BlockReceived, ContextFor
    <3> QED BY <1>3, <2>1, <3>3 DEF Receiving
  <2>2. CASE s # "Baseline"
    <3>1. Kept(NewDecoder, <<>>, s, n, Chunks[n], M) /\ Kept(NewDecoder, <<>>, s, BlockHash(n), Chunks[n], M)
          BY <1>2, NothingKept
    <3>2. receiver'.decoder = NewDecoder /\ receiver'.proofs = <<>> /\ twin.proofs = <<>>
          BY <1>5, <1>6 DEF Object, Twin
    <3>3. CodedReceived(receiver', twin, s, n, "decoding")
          BY <1>5, <1>6, <3>1, <3>2 DEF CodedReceived
    <3> QED BY <1>3, <2>2, <3>3 DEF Receiving
  <2> QED BY <2>1, <2>2
<1>8. UNCHANGED <<strategy, height, proposer, twin, current, answer, output>>
      BY DEF Announced
<1>9. DecodesProposed'
      BY <1>3 DEF DecodesProposed
<1>10. Answering(answer', HoldsCut(twin', strategy', current'), stage')
  <2>1. ~HoldsCut(twin, strategy, current)
        BY <1>4, FreshTwin
  <2>2. Answering(answer, HoldsCut(twin, strategy, current), stage)
        BY DEF ProtocolInv
  <2>3. Answering(answer, HoldsCut(twin, strategy, current), "decoding")
        BY <2>1, <2>2 DEF Answering
  <2> QED BY <1>3, <1>8, <2>3
<1>11. output' = [object |-> Err, twin |-> Err]
      BY <1>3, <1>8 DEF ProtocolInv
<1>12. Receiving(receiver', twin', strategy', current', stage')
      BY <1>3, <1>7, <1>8
<1>13. Proposing(proposer', strategy', height')
      BY <1>8 DEF ProtocolInv
<1>14. /\ strategy' \in Strategies /\ height' \in 0 .. NumBlocks /\ current' \in 1 .. NumBlocks + 1
       /\ current' <= height' /\ stage' \in Idle \cup Active
      BY <1>2, <1>3, <1>8 DEF ProtocolInv
<1> QED BY <1>9, <1>10, <1>11, <1>12, <1>13, <1>14 DEF ProtocolInv

\* A packet that leaves object and twin as a stage allows, with answers it allows.
LEMMA IngestedInv ==
    ASSUME ProtocolInv, stage = "decoding", NEW taken, NEW simTaken, Ingested(taken, simTaken),
           NEW at, at = IF taken.answer = "innovative" THEN "useful" ELSE "decoding",
           Receiving(taken.object, simTaken.state, strategy, current, at),
           Answering([object |-> taken.answer, twin |-> simTaken.answer],
                     HoldsCut(simTaken.state, strategy, current), at)
    PROVE  ProtocolInv'
<1>1. /\ receiver' = taken.object /\ twin' = simTaken.state
      /\ answer' = [object |-> taken.answer, twin |-> simTaken.answer]
      /\ stage' = at
      /\ UNCHANGED <<strategy, height, proposer, current, output>>
      BY DEF Ingested
<1>2. stage' \in Active /\ stage' # "decoded" /\ stage \in Active
      BY <1>1 DEF Active
<1>3. Receiving(receiver', twin', strategy', current', stage')
      BY <1>1
<1>4. Answering(answer', HoldsCut(twin', strategy', current'), stage')
      BY <1>1
<1>5. DecodesProposed'
      BY <1>2 DEF DecodesProposed
<1>6. output' = [object |-> Err, twin |-> Err]
      BY <1>1 DEF ProtocolInv
<1>7. Proposing(proposer', strategy', height')
      BY <1>1 DEF ProtocolInv
<1>8. /\ strategy' \in Strategies /\ height' \in 0 .. NumBlocks /\ current' \in 1 .. NumBlocks + 1
      /\ current' <= height' /\ stage' \in Idle \cup Active
      BY <1>1, <1>2 DEF ProtocolInv
<1> QED BY <1>3, <1>4, <1>5, <1>6, <1>7, <1>8 DEF ProtocolInv

\* What is received where a block is being collected.
LEMMA Collecting ==
    ASSUME ProtocolInv, stage \in Active
    PROVE  /\ current \in 1 .. NumBlocks /\ strategy \in Strategies
           /\ strategy = "Baseline" => BlockReceived(receiver, twin, current, stage)
           /\ strategy # "Baseline" => /\ strategy \in {"Pedersen", "BFKW"}
                                       /\ CodedReceived(receiver, twin, strategy, current, stage)
<1>1. NumBlocks \in Nat
      BY BlocksAssumption DEF NumBlocks
<1>2. current \in 1 .. NumBlocks + 1 /\ current <= height /\ height \in 0 .. NumBlocks
      BY DEF ProtocolInv
<1>3. stage \notin Idle
      BY DEF Idle, Active
<1> QED BY <1>1, <1>2, <1>3 DEF ProtocolInv, Receiving, Strategies

LEMMA ReceiveBlockInv == ProtocolInv /\ ReceiveBlock => ProtocolInv'
<1> SUFFICES ASSUME ProtocolInv, ReceiveBlock PROVE ProtocolInv'
    OBVIOUS
<1> DEFINE n == current   bytes == Write(Blocks[current])
           taken == IngestData("Baseline", receiver, bytes)
           simTaken == SimReceive("Baseline", twin, bytes)
<1>1. stage = "decoding" /\ strategy = "Baseline" /\ stage \in Active /\ "useful" \in Active
      BY DEF ReceiveBlock, Active
<1>2. n \in 1 .. NumBlocks /\ BlockReceived(receiver, twin, n, "decoding")
      BY <1>1, Collecting
<1>3. Ingested(taken, simTaken)
      BY <1>1 DEF ReceiveBlock
<1> HIDE DEF taken, simTaken, n
<1>4. /\ taken.answer = "innovative"
      /\ simTaken.answer =
             IF HoldsCut(simTaken.state, "Baseline", n) THEN "redundant" ELSE "innovative"
      /\ BlockReceived(taken.object, simTaken.state, n, "useful")
  <2>1. bytes = Write(Blocks[n])
        BY DEF n
  <2> HIDE DEF bytes
  <2> QED BY <1>2, <2>1, BlockTakes DEF taken, simTaken
<1>5. Receiving(taken.object, simTaken.state, strategy, n, "useful")
      BY <1>1, <1>4 DEF Receiving
<1>6. Answering([object |-> taken.answer, twin |-> simTaken.answer],
                HoldsCut(simTaken.state, strategy, n), "useful")
      BY <1>1, <1>4 DEF Answering, Answers
<1> QED BY <1>1, <1>3, <1>4, <1>5, <1>6, IngestedInv DEF n

\* A beginning of the block misleads the twin.
LEMMA ReceiveCutBlockInv == ProtocolInv /\ ReceiveCutBlock => ProtocolInv'
<1> SUFFICES ASSUME ProtocolInv, ReceiveCutBlock PROVE ProtocolInv'
    OBVIOUS
<1>1. stage = "decoding" /\ strategy = "Baseline" /\ stage \in Active /\ "decoding" \in Active
      BY DEF ReceiveCutBlock, Active
<1> DEFINE n == current
<1>2. n \in 1 .. NumBlocks /\ BlockReceived(receiver, twin, n, "decoding")
      BY <1>1, Collecting
<1>3. PICK bytes \in CutOff(Write(Blocks[n])) :
          Ingested(IngestData("Baseline", receiver, bytes), SimReceive("Baseline", twin, bytes))
      BY <1>1 DEF ReceiveCutBlock
<1> DEFINE taken == IngestData("Baseline", receiver, bytes)
           simTaken == SimReceive("Baseline", twin, bytes)
<1>4. Ingested(taken, simTaken)
      BY <1>3
<1> HIDE DEF taken, simTaken, n
<1>5. /\ taken.answer = "rejected" /\ simTaken.answer \in Answers
      /\ HoldsCut(simTaken.state, "Baseline", n)
      /\ BlockReceived(taken.object, simTaken.state, n, "decoding")
      BY <1>2, <1>3, BlockMisleads DEF taken, simTaken
<1>6. Receiving(taken.object, simTaken.state, strategy, n, "decoding")
      BY <1>1, <1>5 DEF Receiving
<1>7. Answering([object |-> taken.answer, twin |-> simTaken.answer],
                HoldsCut(simTaken.state, strategy, n), "decoding")
      BY <1>1, <1>5 DEF Answering, Answers
<1> QED BY <1>1, <1>4, <1>5, <1>6, <1>7, IngestedInv DEF n

LEMMA ReceivePacketInv ==
    ASSUME ProtocolInv, NEW b \in Honest, ReceivePacket(b)
    PROVE  ProtocolInv'
<1> DEFINE s == strategy   n == current
           taken == IngestData(s, receiver, Serialize(s, Packet(s, n, n, b)))
           simTaken == SimReceive(s, twin, SimPacket(s, n, b))
<1>1. stage = "decoding" /\ stage \in Active /\ {"useful", "decoding"} \subseteq Active
      BY DEF ReceivePacket, Active
<1>2. /\ n \in 1 .. NumBlocks /\ s \in {"Pedersen", "BFKW"} /\ s # "Baseline"
      /\ CodedReceived(receiver, twin, s, n, "decoding")
      BY <1>1, Collecting DEF ReceivePacket
<1>3. Ingested(taken, simTaken)
      BY DEF ReceivePacket
<1> HIDE DEF s, n
<1> DEFINE at == IF taken.answer = "innovative" THEN "useful" ELSE "decoding"
<1>4. /\ taken.answer = simTaken.answer /\ taken.answer \in Answers
      /\ CodedReceived(taken.object, simTaken.state, s, n, at)
      BY <1>2, CodedTakes
<1> HIDE DEF taken, simTaken
<1>5. Receiving(taken.object, simTaken.state, s, n, at)
      BY <1>1, <1>2, <1>4 DEF Receiving
<1>6. Answering([object |-> taken.answer, twin |-> simTaken.answer],
                HoldsCut(simTaken.state, s, n), at)
      BY <1>2, <1>4 DEF Answering, HoldsCut
<1>7. at = IF taken.answer = "innovative" THEN "useful" ELSE "decoding"
      OBVIOUS
<1> HIDE DEF at
<1> QED BY <1>1, <1>3, <1>5, <1>6, <1>7, IngestedInv DEF s, n

\* What object and twin reject, or the twin is not given, changes neither.
LEMMA RejectedInv ==
    ASSUME ProtocolInv, stage = "decoding", strategy # "Baseline", NEW taken, NEW simTaken,
           Ingested(taken, simTaken), taken = [object |-> receiver, answer |-> "rejected"],
           NEW a \in {"none", "rejected"}, simTaken = [state |-> twin, answer |-> a]
    PROVE  ProtocolInv'
<1>1. /\ taken.object = receiver /\ taken.answer = "rejected"
      /\ simTaken.state = twin /\ simTaken.answer = a
      OBVIOUS
<1>2. Receiving(taken.object, simTaken.state, strategy, current, "decoding")
      BY <1>1 DEF ProtocolInv
<1>3. Answering([object |-> taken.answer, twin |-> simTaken.answer],
                HoldsCut(simTaken.state, strategy, current), "decoding")
      BY <1>1 DEF Answering, HoldsCut, Answers
<1> HIDE DEF ProtocolInv
<1> QED BY <1>1, <1>2, <1>3, IngestedInv

LEMMA ReceiveCutPacketInv ==
    ASSUME ProtocolInv, NEW b \in Honest, ReceiveCutPacket(b)
    PROVE  ProtocolInv'
<1> DEFINE s == strategy   n == current
<1>1. stage = "decoding" /\ stage \in Active
      BY DEF ReceiveCutPacket, Active
<1>2. n \in 1 .. NumBlocks /\ s \in {"Pedersen", "BFKW"} /\ s # "Baseline"
      BY <1>1, Collecting DEF ReceiveCutPacket
<1>3. PICK wire \in CutOff(Serialize(s, Packet(s, n, n, b))) :
          Ingested(IngestData(s, receiver, wire), [state |-> twin, answer |-> "none"])
      BY DEF ReceiveCutPacket
<1>4. IngestData(s, receiver, wire) = [object |-> receiver, answer |-> "rejected"]
  <2> HIDE DEF s, n
  <2> QED BY <1>2, <1>3, CutRejected
<1> QED BY <1>1, <1>2, <1>3, <1>4, RejectedInv

LEMMA ReceiveAlteredInv ==
    ASSUME ProtocolInv, NEW b \in Honest, ReceiveAltered(b)
    PROVE  ProtocolInv'
<1> DEFINE s == strategy   n == current
<1>1. stage = "decoding" /\ stage \in Active
      BY DEF ReceiveAltered, Active
<1>2. /\ n \in 1 .. NumBlocks /\ s \in {"Pedersen", "BFKW"} /\ s # "Baseline"
      /\ CodedReceived(receiver, twin, s, n, "decoding")
      BY <1>1, Collecting DEF ReceiveAltered
<1>3. PICK i \in 1 .. M :
          Ingested(IngestData(s, receiver, AlteredWire(Serialize(s, Packet(s, n, n, b)), i)),
                   SimReceive(s, twin, AlteredPacket(SimPacket(s, n, b), i)))
      BY DEF ReceiveAltered
<1> DEFINE wire == AlteredWire(Serialize(s, Packet(s, n, n, b)), i)
           packet == AlteredPacket(SimPacket(s, n, b), i)
<1>4. IngestData(s, receiver, wire) = [object |-> receiver, answer |-> "rejected"]
  <2> HIDE DEF s, n
  <2> QED BY <1>2, <1>3, AlteredRejected
<1>5. SimReceive(s, twin, packet) = [state |-> twin, answer |-> "rejected"]
  <2> HIDE DEF s, n
  <2> QED BY <1>2, <1>3, TwinRejects
<1>6. Ingested(IngestData(s, receiver, wire), SimReceive(s, twin, packet))
      BY <1>3
<1> HIDE DEF wire, packet
<1> QED BY <1>1, <1>2, <1>4, <1>5, <1>6, RejectedInv

\* A coded receiver that has something recodes it.
LEMMA CodedRecodes ==
    ASSUME NEW s, s # "Baseline", NEW n, NEW o, NEW t, NEW at, at # "decoding",
           CodedReceived(o, t, s, n, at)
    PROVE  Recode(s, o, [l \in 1 .. Len(o.decoder.coded) |-> 1]) # Err
<1> DEFINE r == Len(o.decoder.coded)
           alphas == [l \in 1 .. r |-> 1]
<1>1. r \in Nat /\ o.decoder.coded # <<>>
  <2>1. Collected(o.decoder, Chunks[n], M, r) /\ o.decoder.coded # <<>>
        BY DEF CodedReceived, Kept
  <2> HIDE DEF r
  <2> QED BY <2>1, CollectedParts
<1>2. Len(alphas) = Len(o.decoder.coded)
      BY <1>1
<1> HIDE DEF alphas
<1> QED BY <1>1, <1>2 DEF Recode, RecodePacket, Ok, Err, alphas

LEMMA ForwardInv == ProtocolInv /\ Forward => ProtocolInv'
<1> SUFFICES ASSUME ProtocolInv, Forward PROVE ProtocolInv'
    OBVIOUS
<1> DEFINE s == strategy   n == current   o == receiver
           alphas == [l \in 1 .. Len(o.decoder.coded) |-> 1]
<1>1. stage = "useful" /\ stage \in Active /\ "forwarded" \in Active
      BY DEF Forward, Active
<1>2. /\ s = "Baseline" => BlockReceived(o, twin, n, "useful")
      /\ s # "Baseline" => CodedReceived(o, twin, s, n, "useful")
      BY <1>1, Collecting
<1>3. Recode(s, o, alphas) # Err
  <2>1. CASE s = "Baseline"
    <3>1. o.blockBytes = Ok(Write(Blocks[n]))
          BY <1>2, <2>1 DEF BlockReceived, Object
    <3> QED BY <2>1, <3>1 DEF Recode, RecodeBlock, Ok, Err
  <2>2. CASE s # "Baseline"
        BY <1>2, <2>2, CodedRecodes
  <2> QED BY <2>1, <2>2
<1>4. stage' = "forwarded"
      BY <1>3 DEF Forward
<1>5. Receiving(o, twin, s, n, "forwarded")
  <2>1. CASE s = "Baseline"
    <3>1. BlockReceived(o, twin, n, "forwarded")
          BY <1>2, <2>1 DEF BlockReceived, TwinBytes
    <3> QED BY <1>1, <2>1, <3>1 DEF Receiving
  <2>2. CASE s # "Baseline"
    <3>1. CodedReceived(o, twin, s, n, "forwarded")
          BY <1>2, <2>2 DEF CodedReceived
    <3> QED BY <1>1, <2>2, <3>1 DEF Receiving
  <2> QED BY <2>1, <2>2
<1>6. UNCHANGED <<strategy, height, proposer, receiver, twin, current, answer, output>>
      BY DEF Forward
<1>7. DecodesProposed'
      BY <1>4 DEF DecodesProposed
<1>8. Answering(answer', HoldsCut(twin', strategy', current'), stage')
  <2>1. Answering(answer, HoldsCut(twin, strategy, current), "useful")
        BY <1>1 DEF ProtocolInv
  <2>2. Answering(answer, HoldsCut(twin, strategy, current), "forwarded")
        BY <2>1 DEF Answering
  <2> QED BY <1>4, <1>6, <2>2
<1> QED BY <1>1, <1>4, <1>5, <1>6, <1>7, <1>8 DEF ProtocolInv

\* What object and twin decode, of the baseline
LEMMA BlockDecodes ==
    ASSUME NEW n \in 1 .. NumBlocks, NEW o, NEW t, BlockReceived(o, t, n, "forwarded"), NEW len
    PROVE  /\ Decode("Baseline", o).block = Ok(Blocks[n])
           /\ SimDecode("Baseline", t, len) =
                  IF HoldsCut(t, "Baseline", n) THEN Err ELSE Ok(Blocks[n])
           /\ BlockReceived(Decode("Baseline", o).object, t, n, "decoded")
<1> DEFINE l == EncodeSize(Blocks[n])   block == Ok(Blocks[n])   bytes == Write(Blocks[n])
           w == t.blockBytes
<1>1. /\ o = Object(NewDecoder, <<>>, Err, l, block, Ok(bytes))
      /\ t = Twin(NewDecoder, <<>>, w, Err) /\ TwinBytes(w, n, "forwarded")
      BY DEF BlockReceived
<1>2. DecodeBlock(bytes) = block
      BY BlockIs
<1>3. SimDecode("Baseline", t, len) = IF HoldsCut(t, "Baseline", n) THEN Err ELSE block
  <2>1. CASE w = Ok(bytes)
    <3>1. w[1] = bytes /\ ~HoldsCut(t, "Baseline", n)
          BY <2>1 DEF Ok, HoldsCut
    <3> QED BY <1>2, <3>1 DEF SimDecode, SimDecodeBlock
  <2>2. CASE w # Ok(bytes)
    <3>1. PICK part \in CutOff(Write(Blocks[n])) : w = Ok(part)
          BY <1>1, <2>2 DEF TwinBytes
    <3>2. DecodeBlock(part) = Err
          BY CutOffIs
    <3>3. w[1] = part /\ HoldsCut(t, "Baseline", n)
          BY <2>2, <3>1 DEF Ok, Err, HoldsCut
    <3> QED BY <3>2, <3>3 DEF SimDecode, SimDecodeBlock
  <2> QED BY <2>1, <2>2
<1> HIDE DEF l, block, bytes, w
<1>4. Decode("Baseline", o) = [object |-> Object(NewDecoder, <<>>, Err, l, Err, Ok(bytes)), block |-> block]
      BY <1>1, TakeBlockIs DEF Decode
<1>5. Decode("Baseline", o).object = Object(NewDecoder, <<>>, Err, l, Err, Ok(bytes))
      BY <1>4
<1>6. TwinBytes(w, n, "decoded")
      BY <1>1 DEF TwinBytes
<1>7. BlockReceived(Decode("Baseline", o).object, t, n, "decoded")
      BY <1>1, <1>5, <1>6 DEF BlockReceived, l, bytes, w
<1> QED BY <1>3, <1>4, <1>7 DEF block

\* and of a coded protocol: the block of the chunks.
LEMMA CodedDecodes ==
    ASSUME NEW s, s # "Baseline", NEW n \in 1 .. NumBlocks, NEW o, NEW t,
           CodedReceived(o, t, s, n, "forwarded"), ObjectComplete(s, o)
    PROVE  /\ Decode(s, o).block = Ok(Blocks[n])
           /\ SimDecode(s, t, SimByteLen(n)) = Ok(Blocks[n])
           /\ Decode(s, o).object = o
<1> DEFINE d == o.decoder   r == Len(o.decoder.coded)
<1>1. Collected(d, Chunks[n], M, r)
      BY DEF CodedReceived, Kept
<1>2. IsComplete(d)
      BY DEF ObjectComplete
<1>3. o.byteLen = EncodeSize(Blocks[n]) /\ t.decoder = d
      BY DEF CodedReceived, Object, Twin
<1> HIDE DEF d, r
<1>4. r = N
      BY <1>1, <1>2, CollectedParts DEF IsComplete, IsFull
<1>5. DecodedChunks(d) = Chunks[n]
      BY <1>1, <1>4, DecodeIs
<1>6. FromChunks(DecodedChunks(d), o.byteLen) = Ok(Blocks[n])
      BY <1>3, <1>5, BlockIs
<1>7. Decode(s, o) = [object |-> o, block |-> Ok(Blocks[n])]
      BY <1>2, <1>6 DEF Decode, DecodeChunksOf, d
<1>8. SimDecode(s, t, SimByteLen(n)) = Ok(Blocks[n])
      BY <1>3, <1>6 DEF SimDecode, SimDecodeChunks, SimByteLen
<1> QED BY <1>7, <1>8

LEMMA CompleteInv == ProtocolInv /\ Complete => ProtocolInv'
<1> SUFFICES ASSUME ProtocolInv, Complete PROVE ProtocolInv'
    OBVIOUS
<1> DEFINE s == strategy   n == current   o == receiver
           decoded == Decode(s, o)   simDecoded == SimDecode(s, twin, SimByteLen(n))
<1>1. stage = "forwarded" /\ stage \in Active /\ "decoded" \in Active
      BY DEF Complete, Active
<1>2. /\ n \in 1 .. NumBlocks
      /\ s = "Baseline" => BlockReceived(o, twin, n, "forwarded")
      /\ s # "Baseline" => CodedReceived(o, twin, s, n, "forwarded")
      BY <1>1, Collecting
<1>3. ObjectComplete(s, o)
      BY DEF Complete
<1>4. /\ receiver' = decoded.object /\ output' = [object |-> decoded.block, twin |-> simDecoded]
      /\ stage' = IF decoded.block = Err THEN "panicked" ELSE "decoded"
      /\ UNCHANGED <<strategy, height, proposer, twin, current, answer>>
      BY DEF Complete
<1> HIDE DEF s, n, o
<1>5. /\ decoded.block = Ok(Blocks[n])
      /\ simDecoded = IF HoldsCut(twin, s, n) THEN Err ELSE Ok(Blocks[n])
      /\ Receiving(decoded.object, twin, s, n, "decoded")
  <2>1. CASE s = "Baseline"
    <3>1. /\ decoded.block = Ok(Blocks[n])
          /\ simDecoded = IF HoldsCut(twin, s, n) THEN Err ELSE Ok(Blocks[n])
          /\ BlockReceived(decoded.object, twin, n, "decoded")
          BY <1>2, <2>1, BlockDecodes
    <3> QED BY <1>1, <2>1, <3>1 DEF Receiving
  <2>2. CASE s # "Baseline"
    <3>1. /\ decoded.block = Ok(Blocks[n]) /\ simDecoded = Ok(Blocks[n]) /\ decoded.object = o
          BY <1>2, <1>3, <2>2, CodedDecodes
    <3>2. CodedReceived(decoded.object, twin, s, n, "decoded")
          BY <1>2, <2>2, <3>1 DEF CodedReceived
    <3>3. ~HoldsCut(twin, s, n)
          BY <2>2 DEF HoldsCut
    <3> QED BY <1>1, <2>2, <3>1, <3>2, <3>3 DEF Receiving
  <2> QED BY <2>1, <2>2
<1> HIDE DEF decoded, simDecoded
<1>6. stage' = "decoded"
      BY <1>4, <1>5 DEF Ok, Err
<1>7. DecodesProposed'
  <2>1. Misled' = HoldsCut(twin, s, n)
        BY <1>4 DEF Misled, HoldsCut, s, n
  <2> QED BY <1>4, <1>5, <2>1 DEF DecodesProposed, n
<1>8. Receiving(receiver', twin', strategy', current', stage')
      BY <1>4, <1>5, <1>6 DEF s, n
<1>9. Answering(answer', HoldsCut(twin', strategy', current'), stage')
  <2>1. Answering(answer, HoldsCut(twin, strategy, current), "forwarded")
        BY <1>1 DEF ProtocolInv
  <2>2. Answering(answer, HoldsCut(twin, strategy, current), "decoded")
        BY <2>1 DEF Answering
  <2> QED BY <1>4, <1>6, <2>2
<1> QED BY <1>1, <1>4, <1>6, <1>7, <1>8, <1>9 DEF ProtocolInv

LEMMA IncompleteInv == ProtocolInv /\ Incomplete => ProtocolInv'
<1> SUFFICES ASSUME ProtocolInv, Incomplete PROVE ProtocolInv'
    OBVIOUS
<1> DEFINE s == strategy   n == current   o == receiver
<1>1. stage = "forwarded" /\ stage \in Active /\ "decoding" \in Active
      BY DEF Incomplete, Active
<1>2. /\ s = "Baseline" => BlockReceived(o, twin, n, "forwarded")
      /\ s # "Baseline" => CodedReceived(o, twin, s, n, "forwarded")
      BY <1>1, Collecting
<1>3. s # "Baseline"
  <2>1. ASSUME s = "Baseline" PROVE FALSE
    <3>1. o.block = Ok(Blocks[n])
          BY <1>2, <2>1 DEF BlockReceived, Object
    <3> QED BY <2>1, <3>1 DEF Incomplete, ObjectComplete, Ok, Err
  <2> QED BY <2>1
<1>4. CodedReceived(o, twin, s, n, "decoding")
      BY <1>2, <1>3 DEF CodedReceived
<1>5. Receiving(o, twin, s, n, "decoding")
      BY <1>1, <1>3, <1>4 DEF Receiving
<1>6. stage' = "decoding" /\ UNCHANGED <<strategy, height, proposer, receiver, twin, current, answer, output>>
      BY DEF Incomplete
<1>7. DecodesProposed'
      BY <1>6 DEF DecodesProposed
<1>8. Answering(answer', HoldsCut(twin', strategy', current'), stage')
  <2>1. ~HoldsCut(twin, strategy, current)
        BY <1>3 DEF HoldsCut
  <2>2. Answering(answer, HoldsCut(twin, strategy, current), stage)
        BY DEF ProtocolInv
  <2>3. Answering(answer, HoldsCut(twin, strategy, current), "decoding")
        BY <2>1, <2>2 DEF Answering
  <2> QED BY <1>6, <2>3
<1> QED BY <1>1, <1>5, <1>6, <1>7, <1>8 DEF ProtocolInv

LEMMA AdvanceInv == ProtocolInv /\ Advance => ProtocolInv'
<1> SUFFICES ASSUME ProtocolInv, Advance PROVE ProtocolInv'
    OBVIOUS
<1>1. stage = "decoded" /\ stage \in Active
      BY DEF Advance, Active
<1>2. current \in 1 .. NumBlocks /\ strategy \in Strategies
      BY <1>1, Collecting
<1>3. receiver' = NewObject
  <2>1. ResetObject(strategy, receiver) = NewObject
        BY <1>1, <1>2, ResetReceiver DEF ProtocolInv
  <2> QED BY <2>1 DEF Advance
<1>4. stage' \in Idle /\ stage' \notin Active
      BY DEF Advance, Idle, Active
<1>5. /\ twin' = SimReceiver(strategy, current') /\ current' \in 1 .. NumBlocks + 1
      /\ answer' = [object |-> "none", twin |-> "none"]
      /\ output' = [object |-> Err, twin |-> Err]
      /\ UNCHANGED <<strategy, height, proposer>>
  <2>1. NumBlocks \in Nat
        BY BlocksAssumption DEF NumBlocks
  <2> QED BY <1>2, <2>1 DEF Advance
<1>6. Receiving(receiver', twin', strategy', current', stage')
      BY <1>3, <1>4, <1>5 DEF Receiving
<1>7. DecodesProposed'
      BY <1>4 DEF DecodesProposed, Active
<1>8. Answering(answer', HoldsCut(twin', strategy', current'), stage')
  <2>1. ~HoldsCut(twin', strategy', current')
        BY <1>5, FreshTwin
  <2> QED BY <1>5, <2>1 DEF Answering, Answers
<1> QED BY <1>4, <1>5, <1>6, <1>7, <1>8 DEF ProtocolInv

LEMMA NextInv == ProtocolInv /\ [Next]_protocolVars => ProtocolInv'
<1>1. ProtocolInv /\ UNCHANGED protocolVars => ProtocolInv'
      BY DEF ProtocolInv, DecodesProposed, Misled, protocolVars
<1>2. ASSUME ProtocolInv, NEW b \in Honest,
             ReceivePacket(b) \/ ReceiveCutPacket(b) \/ ReceiveAltered(b)
      PROVE  ProtocolInv'
      BY <1>2, ReceivePacketInv, ReceiveCutPacketInv, ReceiveAlteredInv
<1> QED BY <1>1, <1>2, ProposeInv, AnnouncedInv, ReceiveBlockInv, ReceiveCutBlockInv, ForwardInv,
           CompleteInv, IncompleteInv, AdvanceInv DEF Next

LEMMA Invariant == Spec => []ProtocolInv
BY InitInv, NextInv, PTL DEF Spec

---------------------------------------------------------------------------
\* What follows from the invariant.

\* The types of a proof,
LEMMA SignTyped ==
    ASSUME strategy \in {"Pedersen", "BFKW"}, NEW id \in 1 .. 2 * NumBlocks + 1, M \in Nat,
           NEW chunks \in [1 .. N -> Vec(M)], NEW b \in Vector
    PROVE  SignFor(strategy, id, chunks, b) \in Proofs
<1>1. Data = Vec(M)
      BY DEF Data, Vec
<1>2. CASE strategy = "Pedersen"
  <2>1. SignFor(strategy, id, chunks, b) = [commitments |-> chunks, signature |-> chunks]
        BY <1>2, PedersenSigns
  <2> QED BY <1>1, <1>2, <2>1 DEF Proofs
<1>3. CASE strategy # "Pedersen"
  <2> DEFINE w == Comb(chunks, b, N, M)
  <2>1. w \in Vec(M) /\ b \in Vec(N) /\ N \in Nat
        BY ChunkIs, Vectors
  <2>2. SignFor(strategy, id, chunks, b) = Signature(id, w, b)
        BY <1>3, BfkwSigns
  <2> HIDE DEF w
  <2>3. w \o b \in [1 .. M + N -> Field]
        BY <2>1, Joined DEF Vec
  <2> QED BY <1>3, <2>2, <2>3 DEF Proofs, Signature
<1> QED BY <1>2, <1>3

\* and of what is collected.
LEMMA KeptTyped ==
    ASSUME strategy \in {"Pedersen", "BFKW"}, NEW n \in 1 .. NumBlocks,
           NEW id \in 1 .. 2 * NumBlocks + 1, NEW o,
           Kept(o.decoder, o.proofs, strategy, id, Chunks[n], M)
    PROVE  CollectsOK(o)
<1> DEFINE d == o.decoder   p == o.proofs   chunks == Chunks[n]   r == Len(d.coded)
<1>1. M \in Nat /\ chunks \in [1 .. N -> Vec(M)] /\ Data = Vec(M)
      BY BlockIs DEF Data, Vec
<1>2. Collected(d, chunks, M, r) /\ p = [l \in 1 .. r |-> SignFor(strategy, id, chunks, d.coded[l].b)]
      BY DEF Kept, Signed
<1> HIDE DEF d, p, chunks, r
<1>3. r \in 0 .. N /\ r \in Nat /\ N \in Nat /\ Rank(d.echelon) = r
      BY <1>2, CollectedParts
<1>4. d.coded \in Seq([w : Data, b : Vector]) /\ Len(d.coded) = r
      BY <1>1, <1>2 DEF Collected
<1>5. ASSUME NEW l \in 1 .. r PROVE SignFor(strategy, id, chunks, d.coded[l].b) \in Proofs
  <2> DEFINE V == [w : Data, b : Vector]   s == d.coded
  <2>1. s \in Seq(V) /\ Len(s) = r
        BY <1>4
  <2> HIDE DEF V, s
  <2>2. s[l] \in V
        BY <1>3, <2>1
  <2>3. d.coded[l].b \in Vector
        BY <2>2 DEF V, s
  <2> QED BY <1>1, <2>3, SignTyped
<1>6. p \in [1 .. r -> Proofs]
      BY <1>2, <1>5
<1>7. p \in Seq(Proofs) /\ Len(p) = r
      BY <1>3, <1>6
<1> QED BY <1>3, <1>4, <1>7 DEF CollectsOK, d, p, r

LEMMA NewTyped ==
    ASSUME NEW o, o.decoder = NewDecoder, o.proofs = <<>>
    PROVE  CollectsOK(o)
<1>1. /\ Len(<<>>) = 0 /\ NewDecoder.coded = <<>> /\ Rank(NewDecoder.echelon) = 0
      /\ <<>> \in Seq(Proofs) /\ <<>> \in Seq([w : Data, b : Vector])
      BY DEF NewDecoder, Rank, New
<1> QED BY <1>1, ChunksAssumption DEF CollectsOK

\* What the proposer's object is.
LEMMA ProposerIs ==
    ASSUME ProtocolInv
    PROVE  \/ height = 0 /\ proposer = Object(NewDecoder, <<>>, Err, 0, Err, Err)
           \/ height \in 1 .. NumBlocks /\ strategy = "Baseline" /\ proposer = BlockObject(height)
           \/ /\ height \in 1 .. NumBlocks /\ strategy \in {"Pedersen", "BFKW"}
              /\ proposer = CodedObject(strategy, height)
<1>1. NumBlocks \in Nat /\ height \in 0 .. NumBlocks /\ strategy \in Strategies
      BY BlocksAssumption DEF NumBlocks, ProtocolInv
<1>2. CASE height = 0
      BY <1>2, NewObjectIs DEF ProtocolInv, Proposing
<1>3. CASE height # 0
  <2>1. height \in 1 .. NumBlocks /\ proposer = ProposeWith(strategy, NewObject, height)
        BY <1>1, <1>3 DEF ProtocolInv, Proposing
  <2> QED BY <1>1, <2>1, ProposeIs DEF Strategies
<1> QED BY <1>2, <1>3

\* Between blocks an object has nothing; during one it has what Collecting says.
LEMMA ReceiverIs ==
    ASSUME ProtocolInv
    PROVE  \/ /\ stage \in Idle /\ stage \notin Active /\ receiver = Object(NewDecoder, <<>>, Err, 0, Err, Err)
              /\ twin = Twin(NewDecoder, <<>>, Err, ContextFor(strategy, BlockHash(current)))
           \/ stage \in Active /\ stage \notin Idle
<1>1. stage \in Idle \cup Active /\ (stage \in Active <=> stage \notin Idle)
      BY DEF ProtocolInv, Idle, Active
<1>2. ASSUME stage \in Idle PROVE receiver = NewObject /\ twin = SimReceiver(strategy, current)
      BY <1>1, <1>2 DEF ProtocolInv, Receiving
<1> QED BY <1>1, <1>2, NewObjectIs, SimReceiverIs

\* What an object has but the chunks is nothing, or block n's.
LEMMA ObjectTyped ==
    ASSUME NEW o, CollectsOK(o), NEW n \in 1 .. NumBlocks,
           o.ctx = Err \/ o.ctx = Ok(HashPoints(n)), o.byteLen = 0 \/ o.byteLen = EncodeSize(Blocks[n]),
           o.block = Err \/ o.block = Ok(Blocks[n]),
           o.blockBytes = Err \/ o.blockBytes = Ok(Write(Blocks[n]))
    PROVE  ObjectOK(o)
BY DEF ObjectOK

LEMMA EmptyTyped ==
    ASSUME NEW o, o = Object(NewDecoder, <<>>, Err, 0, Err, Err)
    PROVE  ObjectOK(o)
<1>1. /\ o.decoder = NewDecoder /\ o.proofs = <<>> /\ o.ctx = Err /\ o.byteLen = 0
      /\ o.block = Err /\ o.blockBytes = Err
      BY DEF Object
<1>2. CollectsOK(o)
      BY <1>1, NewTyped
<1> QED BY <1>1, <1>2 DEF ObjectOK

LEMMA ProposerTyped ==
    ASSUME ProtocolInv
    PROVE  ObjectOK(proposer)
<1>1. CASE height = 0 /\ proposer = Object(NewDecoder, <<>>, Err, 0, Err, Err)
      BY <1>1, EmptyTyped
<1>2. CASE height \in 1 .. NumBlocks /\ proposer = BlockObject(height)
  <2>1. /\ proposer.decoder = NewDecoder /\ proposer.proofs = <<>> /\ proposer.ctx = Err
        /\ proposer.byteLen = EncodeSize(Blocks[height]) /\ proposer.block = Ok(Blocks[height])
        /\ proposer.blockBytes = Ok(Write(Blocks[height]))
        BY <1>2 DEF BlockObject, Object
  <2>2. CollectsOK(proposer)
        BY <2>1, NewTyped
  <2> QED BY <1>2, <2>1, <2>2, ObjectTyped
<1>3. CASE /\ height \in 1 .. NumBlocks /\ strategy \in {"Pedersen", "BFKW"}
           /\ proposer = CodedObject(strategy, height)
  <2>1. /\ proposer.decoder = FullDecoder(Chunks[height])
        /\ proposer.proofs = ProposerProofs(strategy, height)
        /\ proposer.ctx = ContextFor(strategy, height)
        /\ proposer.byteLen = EncodeSize(Blocks[height])
        /\ proposer.block = Err /\ proposer.blockBytes = Err
        BY <1>3 DEF CodedObject, Object
  <2>2. Kept(proposer.decoder, proposer.proofs, strategy, height, Chunks[height], M)
        BY <1>3, <2>1, ProposerKeeps
  <2>3. height \in 1 .. 2 * NumBlocks + 1
        BY <1>3, BlocksAssumption DEF NumBlocks
  <2>4. CollectsOK(proposer)
        BY <1>3, <2>2, <2>3, KeptTyped
  <2> QED BY <1>3, <2>1, <2>4, ObjectTyped DEF ContextFor
<1> QED BY <1>1, <1>2, <1>3, ProposerIs

\* What receiver and twin are, at any stage.
LEMMA ReceiverTyped ==
    ASSUME ProtocolInv
    PROVE  /\ ObjectOK(receiver) /\ CollectsOK(twin)
           /\ twin.ctx = ContextFor(strategy, BlockHash(current))
           /\ twin.blockBytes = Err \/ twin.blockBytes[1] \in Seq(Byte)
<1>1. CASE stage \notin Active
  <2>1. /\ receiver = Object(NewDecoder, <<>>, Err, 0, Err, Err)
        /\ twin = Twin(NewDecoder, <<>>, Err, ContextFor(strategy, BlockHash(current)))
        BY <1>1, ReceiverIs
  <2>2. /\ twin.decoder = NewDecoder /\ twin.proofs = <<>> /\ twin.blockBytes = Err
        /\ twin.ctx = ContextFor(strategy, BlockHash(current))
        BY <2>1 DEF Twin
  <2> QED BY <2>1, <2>2, EmptyTyped, NewTyped
<1>2. CASE stage \in Active /\ strategy = "Baseline"
  <2> DEFINE n == current   w == twin.blockBytes
  <2>1. n \in 1 .. NumBlocks /\ BlockReceived(receiver, twin, n, stage)
        BY <1>2, Collecting
  <2>2. /\ receiver.decoder = NewDecoder /\ receiver.proofs = <<>> /\ receiver.ctx = Err
        /\ receiver.byteLen = EncodeSize(Blocks[n])
        /\ receiver.block = Err \/ receiver.block = Ok(Blocks[n])
        /\ receiver.blockBytes = Err \/ receiver.blockBytes = Ok(Write(Blocks[n]))
        BY <2>1 DEF BlockReceived, Object
  <2>3. twin = Twin(NewDecoder, <<>>, w, Err) /\ TwinBytes(w, n, stage)
        BY <2>1 DEF BlockReceived
  <2>4. twin.decoder = NewDecoder /\ twin.proofs = <<>> /\ twin.ctx = Err
    <3> HIDE DEF w
    <3> QED BY <2>3 DEF Twin
  <2>5. w = Err \/ w[1] \in Seq(Byte)
    <3>1. CASE w = Ok(Write(Blocks[n]))
      <4>1. Write(Blocks[n]) \in Seq(Byte)
            BY <2>1, BlockSized, BlocksAssumption, WrittenIs DEF IsWritten
      <4> QED BY <3>1, <4>1 DEF Ok
    <3>2. CASE \E bytes \in CutOff(Write(Blocks[n])) : w = Ok(bytes)
          BY <2>1, <3>2, CutOffIs DEF Ok
    <3> QED BY <2>3, <3>1, <3>2 DEF TwinBytes
  <2>6. CollectsOK(receiver) /\ CollectsOK(twin)
        BY <2>2, <2>4, NewTyped
  <2>7. ObjectOK(receiver)
    <3> HIDE DEF n
    <3> QED BY <2>1, <2>2, <2>6, ObjectTyped
  <2> QED BY <1>2, <2>4, <2>5, <2>6, <2>7 DEF ContextFor
<1>3. CASE stage \in Active /\ strategy # "Baseline"
  <2> DEFINE n == current   s == strategy
  <2>1. n \in 1 .. NumBlocks /\ s \in {"Pedersen", "BFKW"} /\ CodedReceived(receiver, twin, s, n, stage)
        BY <1>3, Collecting
  <2>2. /\ receiver.ctx = ContextFor(s, n) /\ receiver.byteLen = EncodeSize(Blocks[n])
        /\ receiver.block = Err /\ receiver.blockBytes = Err
        BY <2>1 DEF CodedReceived, Object
  <2>3. /\ twin.decoder = receiver.decoder /\ twin.ctx = ContextFor(s, BlockHash(n))
        /\ twin.blockBytes = Err
        BY <2>1 DEF CodedReceived, Twin
  <2>4. /\ Kept(receiver.decoder, receiver.proofs, s, n, Chunks[n], M)
        /\ Kept(twin.decoder, twin.proofs, s, BlockHash(n), Chunks[n], M)
        BY <2>1, <2>3 DEF CodedReceived
  <2>5. n \in 1 .. 2 * NumBlocks + 1 /\ BlockHash(n) \in 1 .. 2 * NumBlocks + 1
        BY <2>1, BlocksAssumption DEF NumBlocks, BlockHash
  <2> HIDE DEF n
  <2>6. CollectsOK(receiver) /\ CollectsOK(twin)
        BY <2>1, <2>4, <2>5, KeptTyped
  <2>7. ObjectOK(receiver)
        BY <2>1, <2>2, <2>6, ObjectTyped DEF ContextFor
  <2> QED BY <2>3, <2>6, <2>7 DEF n
<1> QED BY <1>1, <1>2, <1>3

\* A protocol object never has more than N chunks, a chunk without its proof and its row,
\* or anything of two blocks in one field; and BFKW's has the context to verify with from
\* the announcement until the reset (pedersen.rs, bfkw.rs: ingest, propose, reset).
THEOREM ProtocolTypes == Spec => []ProtocolTypeOK
<1>1. ASSUME ProtocolInv PROVE ProtocolTypeOK
  <2>1. strategy = "BFKW" => (receiver.ctx = Err <=> stage \in {"init", "stopped"})
    <3> SUFFICES ASSUME strategy = "BFKW" PROVE receiver.ctx = Err <=> stage \in Idle
        BY DEF Idle
    <3>1. CASE stage \in Idle
          BY <1>1, <3>1, ReceiverIs DEF Object
    <3>2. CASE stage \in Active
      <4>1. receiver.ctx = Ok(HashPoints(current))
            BY <1>1, <3>2, Collecting DEF CodedReceived, Object, ContextFor
      <4> QED BY <3>2, <4>1 DEF Ok, Err, Idle, Active
    <3> QED BY <1>1, <3>1, <3>2, ReceiverIs
  <2>2. /\ strategy \in Strategies /\ height \in 0 .. NumBlocks /\ current \in 1 .. NumBlocks + 1
        /\ stage \in {"init", "decoding", "useful", "forwarded", "decoded", "stopped", "panicked"}
        BY <1>1 DEF ProtocolInv, Idle, Active
  <2>3. answer \in [object : Answers, twin : Answers]
        BY <1>1 DEF ProtocolInv, Answering
  <2>4. \A block \in {output.object, output.twin} :
            block = Err \/ \E n \in 1 .. NumBlocks : block = Ok(Blocks[n])
    <3>1. CASE stage = "decoded"
      <4>1. current \in 1 .. NumBlocks
            BY <1>1, <3>1, Collecting DEF Active
      <4>2. /\ output.object = Ok(Blocks[current])
            /\ output.twin = Err \/ output.twin = Ok(Blocks[current])
            BY <1>1, <3>1 DEF ProtocolInv, DecodesProposed
      <4> QED BY <4>1, <4>2
    <3>2. CASE stage # "decoded"
      <4>1. output.object = Err /\ output.twin = Err
            BY <1>1, <3>2 DEF ProtocolInv
      <4> QED BY <4>1
    <3> QED BY <3>1, <3>2
  <2> QED BY <1>1, <2>1, <2>2, <2>3, <2>4, ProposerTyped, ReceiverTyped DEF ProtocolTypeOK, ContextFor
<1>2. ProtocolInv => ProtocolTypeOK
      BY <1>1
<1> QED BY <1>2, Invariant, PTL

\* In the actor's order of calls recode has something to recode, and decode a whole block
\* that comes back (node/src: the asserts, expects and slices of recode and decode).
THEOREM PanicsNever == Spec => []NeverPanics
<1>1. ProtocolInv => NeverPanics
      BY DEF ProtocolInv, NeverPanics, Idle, Active
<1> QED BY <1>1, Invariant, PTL

\* The block decoded is the block proposed under that number, in the node, whatever
\* damaged packets came between, and in the simulator, unless the baseline's state took
\* bytes that are no block first (decode of the three protocols and of NodeState).
THEOREM DecodesWhatWasProposed == Spec => []DecodesProposed
<1>1. ProtocolInv => DecodesProposed
      BY DEF ProtocolInv
<1> QED BY <1>1, Invariant, PTL

\* The node's protocols and the simulator's strategies answer every packet alike, altered
\* ones too, keep the same chunks and are complete at the same time, and part only where
\* the baseline is given the beginning of a block: the one decodes it on receipt and
\* rejects it, the other keeps it (node/src/pedersen.rs, bfkw.rs, baseline.rs beside
\* crates/strategy).
THEOREM TwinsAlwaysAgree == Spec => []TwinsAgree
<1>1. ASSUME ProtocolInv PROVE TwinsAgree
  <2>1. Misled <=> HoldsCut(twin, strategy, current)
        BY DEF Misled, HoldsCut
  <2>2. AnswersAgree
        BY <1>1, <2>1 DEF ProtocolInv, Answering, AnswersAgree
  <2>3. ASSUME ~Misled, stage \in {"decoding", "useful", "forwarded"}
        PROVE  /\ ObjectComplete(strategy, receiver) = SimCanDecode(strategy, twin)
               /\ receiver.decoder = twin.decoder
    <3>1. stage \in Active
          BY <2>3 DEF Active
    <3>2. CASE strategy = "Baseline"
      <4>1. BlockReceived(receiver, twin, current, stage) /\ current \in 1 .. NumBlocks
            BY <1>1, <3>1, <3>2, Collecting
      <4>2. receiver.decoder = NewDecoder
            BY <4>1 DEF BlockReceived, Object
      <4>3. twin.decoder = NewDecoder
        <5>1. twin = Twin(NewDecoder, <<>>, twin.blockBytes, Err)
              BY <4>1 DEF BlockReceived
        <5> DEFINE w == twin.blockBytes
        <5> HIDE DEF w
        <5>2. twin = Twin(NewDecoder, <<>>, w, Err)
              BY <5>1 DEF w
        <5> QED BY <5>2 DEF Twin
      <4>4. (receiver.block # Err) = (stage # "decoding")
            BY <2>3, <4>1 DEF BlockReceived, Object, Ok, Err
      <4>5. twin.blockBytes = IF stage = "decoding" THEN Err ELSE Ok(Write(Blocks[current]))
        <5>1. TwinBytes(twin.blockBytes, current, stage)
              BY <4>1 DEF BlockReceived
        <5>2. ASSUME NEW part \in CutOff(Write(Blocks[current])), twin.blockBytes = Ok(part)
              PROVE  FALSE
          <6>1. part # Write(Blocks[current])
                BY <4>1, CutOffIs
          <6> QED BY <2>3, <3>2, <5>2, <6>1 DEF Misled, Ok, Err
        <5> QED BY <5>1, <5>2 DEF TwinBytes
      <4>6. (twin.blockBytes # Err) = (stage # "decoding")
            BY <4>5 DEF Ok, Err
      <4> QED BY <3>2, <4>2, <4>3, <4>4, <4>6 DEF ObjectComplete, SimCanDecode
    <3>3. CASE strategy # "Baseline"
      <4>1. receiver.decoder = twin.decoder
            BY <1>1, <3>1, <3>3, Collecting DEF CodedReceived, Twin
      <4> QED BY <3>3, <4>1 DEF ObjectComplete, SimCanDecode
    <3> QED BY <3>2, <3>3
  <2> QED BY <2>2, <2>3 DEF TwinsAgree
<1>2. ProtocolInv => TwinsAgree
      BY <1>1
<1> QED BY <1>2, Invariant, PTL

\* A peer that has heard the announcement and nothing else.
Peer(s, n) == IngestAnnouncement(s, NewObject, n, EncodeSize(Blocks[n]))

LEMMA PeerIs ==
    ASSUME NEW s, NEW n
    PROVE  Peer(s, n) = Object(NewDecoder, <<>>, ContextFor(s, n), EncodeSize(Blocks[n]), Err, Err)
BY NewObjectIs, AnnouncementIs DEF Peer, ContextFor

\* It takes the packets of a coded protocol,
LEMMA PeerTakesPacket ==
    ASSUME NEW s \in {"Pedersen", "BFKW"}, NEW n \in 1 .. NumBlocks, NEW b \in Vector \ {Zero},
           NEW wire, wire = Serialize(s, PacketFor(s, n, Chunks[n], b))
    PROVE  IngestData(s, Peer(s, n), wire).answer = "innovative"
<1> DEFINE packet == PacketFor(s, n, Chunks[n], b)
           out == CodedReceive(s, HashPoints(n), NewDecoder, <<>>, packet)
           l == EncodeSize(Blocks[n])
           o == Peer(s, n)
<1>1. Deserialize(s, wire, M) = Ok(packet)
      BY WireOf
<1>2. out.answer = "innovative"
      BY FreshTakes
<1>3. o = Object(NewDecoder, <<>>, ContextFor(s, n), l, Err, Err)
      BY PeerIs
<1> HIDE DEF packet, out, l, o
<1>4. out = CodedReceive(s, HashPoints(n), NewDecoder, <<>>, packet)
      BY DEF out
<1>5. IngestPacket(s, o, wire) =
          [object |-> Object(out.decoder, out.proofs, ContextFor(s, n), l, Err, Err),
           answer |-> out.answer]
      BY <1>1, <1>3, <1>4, IngestPacketIs
<1>6. IngestData(s, o, wire) = IngestPacket(s, o, wire)
      BY DEF IngestData
<1> QED BY <1>2, <1>5, <1>6 DEF o

\* and of the baseline the bytes of the block.
LEMMA PeerTakesBlock ==
    ASSUME NEW n \in 1 .. NumBlocks
    PROVE  IngestData("Baseline", Peer("Baseline", n), Write(Blocks[n])).answer = "innovative"
<1> DEFINE block == Ok(Blocks[n])   bytes == Write(Blocks[n])   l == EncodeSize(Blocks[n])
           o == Peer("Baseline", n)
<1>1. o = Object(NewDecoder, <<>>, Err, l, Err, Err)
      BY PeerIs DEF ContextFor
<1>2. DecodeBlock(bytes) = block /\ block # Err
      BY BlockIs DEF Ok, Err
<1> HIDE DEF block, bytes, l, o
<1>3. IngestBlock(o, bytes) =
          [object |-> Object(NewDecoder, <<>>, Err, l, block, Ok(bytes)), answer |-> "innovative"]
      BY <1>1, <1>2, IngestBlockIs
<1> QED BY <1>3 DEF IngestData, o, bytes

\* What an object of the baseline sends, a peer takes,
LEMMA SentBlock ==
    ASSUME strategy = "Baseline", NEW n \in 1 .. NumBlocks, NEW o,
           o.blockBytes \in {Err, Ok(Write(Blocks[n]))}, NEW wire \in Sends(o)
    PROVE  IngestData(strategy, Peer(strategy, n), wire[1]).answer = "innovative"
<1>1. wire = Ok(Write(Blocks[n]))
      BY DEF Sends, RecodeBlock
<1>2. wire[1] = Write(Blocks[n])
      BY <1>1 DEF Ok
<1> QED BY <1>2, PeerTakesBlock

\* and what one of a coded protocol sends too, whatever it has.
LEMMA SentPacket ==
    ASSUME strategy \in {"Pedersen", "BFKW"}, NEW n \in 1 .. NumBlocks, NEW o,
           Kept(o.decoder, o.proofs, strategy, n, Chunks[n], M), NEW wire \in Sends(o)
    PROVE  IngestData(strategy, Peer(strategy, n), wire[1]).answer = "innovative"
<1> DEFINE s == strategy   d == o.decoder   chunks == Chunks[n]
<1>1. PICK alphas \in RandomCoefficients(Len(d.coded)) :
          wire = RecodePacket(s, o, alphas) /\ wire # Err
      BY DEF Sends
<1>2. d.coded # <<>> /\ wire = Ok(Serialize(s, CodedForward(s, d, o.proofs, alphas)))
      BY <1>1 DEF RecodePacket
<1>3. M \in Nat /\ chunks \in [1 .. N -> Vec(M)] /\ Kept(d, o.proofs, s, n, chunks, M)
      BY BlockIs
<1> HIDE DEF s, d, chunks
<1>4. PICK b \in Vector \ {Zero} : CodedForward(s, d, o.proofs, alphas) = PacketFor(s, n, chunks, b)
      BY <1>1, <1>2, <1>3, ForwardedIs
<1>5. wire[1] = Serialize(s, PacketFor(s, n, Chunks[n], b))
      BY <1>2, <1>4 DEF Ok, chunks
<1>6. s \in {"Pedersen", "BFKW"}
      BY DEF s
<1>7. IngestData(s, Peer(s, n), wire[1]).answer = "innovative"
      BY <1>5, <1>6, PeerTakesPacket
<1> QED BY <1>7 DEF s

\* What the twin forwards, a new node of the simulator takes.
LEMMA ForwardedTaken ==
    ASSUME ProtocolInv, current <= NumBlocks, NEW packet \in SimForwards(strategy, twin)
    PROVE  SimReceive(strategy, SimReceiver(strategy, current), packet).answer = "innovative"
<1> DEFINE s == strategy   n == current   id == BlockHash(current)   d == twin.decoder
           sigs == twin.proofs   chunks == Chunks[current]
<1>1. n \in 1 .. NumBlocks /\ s \in Strategies
      BY BlocksAssumption DEF ProtocolInv, NumBlocks
<1>2. CASE s = "Baseline"
      BY <1>2, SimReceiverIs, TwinBlockIs DEF SimReceive
<1>3. CASE s # "Baseline"
  <2>1. s \in {"Pedersen", "BFKW"}
        BY <1>1, <1>3 DEF Strategies
  <2>2. d.coded # <<>> /\ packet \in SimForwardPackets(s, twin)
        BY <1>3 DEF SimForwards
  <2>3. PICK alphas \in RandomCoefficients(Len(d.coded)) : packet = CodedForward(s, d, sigs, alphas)
        BY <2>2 DEF SimForwardPackets
  <2>4. Kept(d, sigs, s, id, chunks, M)
    <3>1. stage \in Active
      <4>1. NewDecoder.coded = <<>>
            BY DEF NewDecoder
      <4>2. twin # Twin(NewDecoder, <<>>, Err, ContextFor(strategy, BlockHash(current)))
            BY <2>2, <4>1 DEF Twin
      <4> QED BY <4>2, ReceiverIs
    <3>2. CodedReceived(receiver, twin, s, n, stage)
          BY <1>3, <3>1, Collecting
    <3>3. twin.decoder = receiver.decoder
          BY <3>2 DEF CodedReceived, Twin
    <3> QED BY <3>2, <3>3 DEF CodedReceived
  <2>5. M \in Nat /\ chunks \in [1 .. N -> Vec(M)]
        BY <1>1, BlockIs
  <2> HIDE DEF d, sigs, s, id, chunks
  <2>6. PICK b \in Vector \ {Zero} : packet = PacketFor(s, id, chunks, b)
        BY <2>2, <2>3, <2>4, <2>5, ForwardedIs
  <2> DEFINE out == CodedReceive(s, HashPoints(id), NewDecoder, <<>>, packet)
  <2>7. out.answer = "innovative"
        BY <1>1, <2>6, FreshTakes DEF chunks
  <2>8. SimReceiver(s, n) = Twin(NewDecoder, <<>>, Err, ContextFor(s, id))
        BY SimReceiverIs DEF id
  <2> HIDE DEF out, n
  <2>9. out = CodedReceive(s, HashPoints(id), NewDecoder, <<>>, packet)
        BY DEF out
  <2>10. SimReceivePacket(s, Twin(NewDecoder, <<>>, Err, ContextFor(s, id)), packet) =
             [state |-> Twin(out.decoder, out.proofs, Err, ContextFor(s, id)), answer |-> out.answer]
         BY <2>1, <2>9, TwinPacketIs
  <2>11. SimReceive(s, SimReceiver(s, n), packet).answer = "innovative"
         BY <1>3, <2>7, <2>8, <2>10 DEF SimReceive
  <2> QED BY <2>11 DEF s, n
<1> QED BY <1>2, <1>3

\* Whatever an honest node sends of a block, a peer that has heard its announcement takes:
\* the packets of the proposer and those recoded at any rank, with empty chunks and zero
\* elements, off the wire (proof.rs serialize, deserialize, read_field, read_group).
THEOREM PeersAlwaysUnderstand == Spec => []PeersUnderstand
<1>1. ASSUME ProtocolInv, NEW n \in 1 .. NumBlocks, n = height, NEW wire \in Sends(proposer)
      PROVE  IngestData(strategy, Peer(strategy, n), wire[1]).answer = "innovative"
  <2>1. height # 0
        BY <1>1
  <2>2. CASE strategy = "Baseline"
    <3>1. proposer.blockBytes = Ok(Write(Blocks[n]))
          BY <1>1, <2>1, <2>2, ProposerIs DEF BlockObject, Object
    <3> QED BY <1>1, <2>2, <3>1, SentBlock
  <2>3. CASE strategy # "Baseline"
    <3>1. strategy \in {"Pedersen", "BFKW"} /\ proposer = CodedObject(strategy, n)
          BY <1>1, <2>1, <2>3, ProposerIs
    <3>2. proposer.decoder = FullDecoder(Chunks[n]) /\ proposer.proofs = ProposerProofs(strategy, n)
          BY <3>1 DEF CodedObject, Object
    <3>3. Kept(proposer.decoder, proposer.proofs, strategy, n, Chunks[n], M)
          BY <3>1, <3>2, ProposerKeeps
    <3> QED BY <1>1, <3>1, <3>3, SentPacket
  <2> QED BY <2>2, <2>3
<1>2. ASSUME ProtocolInv, NEW n \in 1 .. NumBlocks, n = current, NEW wire \in Sends(receiver)
      PROVE  IngestData(strategy, Peer(strategy, n), wire[1]).answer = "innovative"
  <2>1. CASE strategy = "Baseline"
    <3>1. receiver.blockBytes \in {Err, Ok(Write(Blocks[n]))}
      <4>1. CASE stage \in Active
            BY <1>2, <2>1, <4>1, Collecting DEF BlockReceived, Object
      <4> QED BY <1>2, <4>1, ReceiverIs DEF Object
    <3> QED BY <1>2, <2>1, <3>1, SentBlock
  <2>2. CASE strategy # "Baseline"
    <3>1. strategy \in {"Pedersen", "BFKW"}
          BY <1>2, <2>2 DEF ProtocolInv, Strategies
    <3>2. Kept(receiver.decoder, receiver.proofs, strategy, n, Chunks[n], M)
      <4>1. CASE stage \in Active
            BY <1>2, <2>2, <4>1, Collecting DEF CodedReceived
      <4>2. CASE stage \notin Active
        <5>1. receiver.decoder = NewDecoder /\ receiver.proofs = <<>>
              BY <1>2, <4>2, ReceiverIs DEF Object
        <5> QED BY <1>2, <5>1, NothingKept
      <4> QED BY <4>1, <4>2
    <3> QED BY <1>2, <3>1, <3>2, SentPacket
  <2> QED BY <2>1, <2>2
<1>3. ASSUME ProtocolInv PROVE PeersUnderstand
      BY <1>1, <1>2, <1>3, ForwardedTaken DEF PeersUnderstand, Peer
<1>4. ProtocolInv => PeersUnderstand
      BY <1>3
<1> QED BY <1>4, Invariant, PTL
=============================================================================
