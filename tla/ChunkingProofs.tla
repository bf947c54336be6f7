--------------------------- MODULE ChunkingProofs --------------------------
(***************************************************************************)
(* Blocks come back from their chunks: for every block size the codec's    *)
(* length prefix can state in four bytes, every chunk count, field and     *)
(* window size, as_chunks never panics on a block of block_size bytes, and *)
(* from_chunks gives back that block, with the announced length or a       *)
(* longer one, and nothing with a shorter one.                             *)
(***************************************************************************)
EXTENDS Chunking, CodecProofs

---------------------------------------------------------------------------
\* The behaviour.

\* The block is one of the configured size; once it is split its chunks and length are
\* what propose makes of it, and then it comes back, unless it is beyond the limit.
ChunkInv ==
    /\ blockSize \in 0 .. MaxBlockSize /\ block \in Sized(blockSize)
    /\ stage \in {"proposed", "split", "rebuilt", "panicked"}
    /\ stage # "proposed" => /\ chunks = AsChunks(block, ComputeM(blockSize, N))
                             /\ byteLen = EncodeSize(block)
    /\ stage = "rebuilt" => rebuilt = Ok(block)
    /\ stage = "panicked" => blockSize > Limit

LEMMA InitChunks == Init => ChunkInv
<1>1. SUFFICES ASSUME Init PROVE block \in Sized(blockSize)
    BY DEF Init, ChunkInv
<1>2. PICK header \in [1 .. HeaderBytes -> Byte], txs \in [1 .. blockSize -> Byte] :
            block = [header |-> header, transactions |-> txs]
    BY <1>1 DEF Init
<1> QED BY <1>2 DEF Sized

\* The sizes a behaviour chooses from.
LEMMA Sizes == ChunkInv => blockSize \in Nat /\ blockSize < HalfPowers[4]
<1>1. HalfPowers[4] \in Int
  <2>1. Half \in Int
      BY CodecAssumption
  <2>2. Half * Half \in Int
      BY <2>1
  <2>3. Half * Half * Half \in Int
      BY <2>1, <2>2
  <2>4. Half * Half * Half * Half \in Int
      BY <2>1, <2>3
  <2> QED BY <2>4 DEF HalfPowers
<1> QED BY <1>1, BlockSizeAssumption DEF ChunkInv

LEMMA SplitChunks == ChunkInv /\ Split => ChunkInv' /\ stage' = "split"
<1> SUFFICES ASSUME ChunkInv, Split PROVE ChunkInv' /\ stage' = "split"
    OBVIOUS
<1>1. PICK cs : AsChunks(block, ComputeM(blockSize, N)) = Ok(cs)
    BY Fits, Sizes DEF ChunkInv
<1>2. chunks' = Ok(cs) /\ stage' = "split"
    BY <1>1 DEF Split, Ok, Err
<1> QED BY <1>2 DEF ChunkInv, Split

\* What a split block's chunks give for a length.
LEMMA SplitRead ==
    ASSUME ChunkInv, stage # "proposed", NEW len \in Nat
    PROVE  /\ FromChunks(chunks[1], len) \in {Err, Ok(block)}
           /\ len < byteLen => FromChunks(chunks[1], len) = Err
           /\ FromChunks(chunks[1], byteLen) = IF blockSize > Limit THEN Err ELSE Ok(block)
<1> DEFINE m == ComputeM(blockSize, N)
<1>1. blockSize \in Nat /\ blockSize < HalfPowers[4] /\ block \in Sized(blockSize)
    BY Sizes DEF ChunkInv
<1>2. PICK cs : AsChunks(block, m) = Ok(cs) /\ IsChunked(cs, Write(block), m)
    BY <1>1, Fits
<1>3. m \in Nat \ {0} /\ EncodeSize(block) <= (N * m) * DataBytes
    BY <1>1, Fits
<1>4. chunks[1] = cs /\ byteLen = EncodeSize(block)
    BY <1>2 DEF ChunkInv, Ok
<1>5. EncodeSize(block) \in Nat
    BY <1>1, WriteLength
<1> HIDE DEF m
<1>6. ASSUME NEW l \in Nat
      PROVE  FromChunks(cs, l) = IF l > (N * m) * DataBytes \/ l < EncodeSize(block) \/ blockSize > Limit
                                 THEN Err ELSE Ok(block)
    BY <1>1, <1>2, <1>3, ChunksRead
<1>7. FromChunks(cs, byteLen) = IF blockSize > Limit THEN Err ELSE Ok(block)
  <2>1. (N * m) * DataBytes \in Nat
      BY <1>3, ChunksAssumption, PackingAssumption
  <2>2. ~(byteLen > (N * m) * DataBytes) /\ ~(byteLen < EncodeSize(block))
    <3> DEFINE top == (N * m) * DataBytes
    <3> HIDE DEF top
    <3> QED BY <1>3, <1>4, <1>5, <2>1 DEF top
  <2> QED BY <1>4, <1>5, <1>6, <2>2
<1>8. FromChunks(cs, len) \in {Err, Ok(block)}
    BY <1>6
<1>9. len < byteLen => FromChunks(cs, len) = Err
    BY <1>4, <1>6
<1> QED BY <1>4, <1>7, <1>8, <1>9

LEMMA RebuildChunks == ChunkInv /\ Rebuild => ChunkInv'
<1> SUFFICES ASSUME ChunkInv, Rebuild PROVE ChunkInv'
    OBVIOUS
<1>1. rebuilt' = IF blockSize > Limit THEN Err ELSE Ok(block)
    BY SplitRead DEF Rebuild
<1>2. stage' = IF blockSize > Limit THEN "panicked" ELSE "rebuilt"
    BY <1>1 DEF Rebuild, Ok, Err
<1> QED BY <1>1, <1>2 DEF ChunkInv, Rebuild

LEMMA StepChunks == ChunkInv /\ [Next]_chunkingVars => ChunkInv'
<1>1. ChunkInv /\ UNCHANGED chunkingVars => ChunkInv'
    BY DEF ChunkInv, chunkingVars
<1> QED BY <1>1, SplitChunks, RebuildChunks DEF Next

\* as_chunks never panics on a block of the configured size: compute_m counts in units
\* of N windows, and 100 bytes for header and length prefix (config.rs compute_m,
\* block.rs as_chunks).
THEOREM NeverTooLarge == Spec => []NeverOverflows
<1>1. ChunkInv => NeverOverflows
  <2> SUFFICES ASSUME ChunkInv PROVE AsChunks(block, ComputeM(blockSize, N)) # Err
      BY DEF NeverOverflows
  <2>1. PICK cs : AsChunks(block, ComputeM(blockSize, N)) = Ok(cs)
      BY Fits, Sizes DEF ChunkInv
  <2> QED BY <2>1 DEF Ok, Err
<1> QED BY <1>1, InitChunks, StepChunks, PTL DEF Spec

\* A split block is split: no step of a proposer ends in a panic before the chunks
\* have been handed out.
THEOREM SplitSucceeds == Spec => [][Split => stage' = "split"]_chunkingVars
<1>1. ChunkInv /\ [Next]_chunkingVars => [Split => stage' = "split"]_chunkingVars
    BY SplitChunks
<1> QED BY <1>1, InitChunks, StepChunks, PTL DEF Spec

\* A block survives the way through windows, padding, chunks and back, byte by byte
\* (block.rs as_chunks, from_chunks); one with more transactions than read_cfg reads is
\* lost, never altered.
THEOREM ComesBack == Spec => []RoundTrip
<1>1. ChunkInv => RoundTrip
    BY DEF ChunkInv, RoundTrip, Sized
<1> QED BY <1>1, InitChunks, StepChunks, PTL DEF Spec

\* The announced length is the least that rebuilds the block, and no other length
\* rebuilds another block (block.rs from_chunks, which cuts the padding off).
THEOREM TightLength == Spec => []LengthIsTight
<1>1. ChunkInv => LengthIsTight
  <2> SUFFICES ASSUME ChunkInv, stage = "rebuilt",
                      NEW len \in 0 .. N * ComputeM(blockSize, N) * DataBytes + 1
               PROVE  FromChunks(chunks[1], len) \in
                          IF len < byteLen THEN {Err} ELSE {Err, Ok(block)}
      BY DEF LengthIsTight
  <2>1. len \in Nat
      OBVIOUS
  <2> QED BY <2>1, SplitRead
<1> QED BY <1>1, InitChunks, StepChunks, PTL DEF Spec
===========================================================================
