------------------------------ MODULE Chunking -----------------------------
(***************************************************************************)
(* A block on its way to chunks and back: its proposer splits it with the  *)
(* dimension computed from block_size, and a node of the same              *)
(* configuration rebuilds it from the chunks and the announced length.     *)
(***************************************************************************)
EXTENDS BlockCodec

CONSTANT MaxBlockSize    \* bound: block_size configured in one behaviour

ASSUME BlockSizeAssumption == MaxBlockSize \in Nat /\ MaxBlockSize < HalfPowers[4]

VARIABLES blockSize,   \* block_size, of the configuration all nodes share
          block,       \* the block proposed
          chunks,      \* Result of as_chunks
          byteLen,     \* the length that travels with the announcement
          rebuilt,     \* Result of from_chunks
          stage        \* how far the block has come

chunkingVars == <<blockSize, block, chunks, byteLen, rebuilt, stage>>

---------------------------------------------------------------------------

\* Blocks as generate_random_block makes them: block_size bytes of transactions.
Init ==
    /\ blockSize \in 0 .. MaxBlockSize
    /\ \E header \in [1 .. HeaderBytes -> Byte], txs \in [1 .. blockSize -> Byte] :
            block = [header |-> header, transactions |-> txs]
    /\ chunks = Err
    /\ byteLen = 0
    /\ rebuilt = Err
    /\ stage = "proposed"

Split ==
    /\ stage = "proposed"
    /\ chunks' = AsChunks(block, ComputeM(blockSize, N))
    /\ byteLen' = EncodeSize(block)
    /\ stage' = IF chunks' = Err THEN "panicked" ELSE "split"
    /\ UNCHANGED <<blockSize, block, rebuilt>>

Rebuild ==
    /\ stage = "split"
    /\ rebuilt' = FromChunks(chunks[1], byteLen)
    /\ stage' = IF rebuilt' = Err THEN "panicked" ELSE "rebuilt"
    /\ UNCHANGED <<blockSize, block, chunks, byteLen>>

Next == Split \/ Rebuild

Spec == Init /\ [][Next]_chunkingVars

---------------------------------------------------------------------------

\* The slack of compute_m covers header and length prefix: a block of block_size
\* bytes never has more elements than its chunks have places, and no chunk is empty.
NeverOverflows == stage = "proposed" => AsChunks(block, ComputeM(blockSize, N)) # Err

\* A block survives the way through windows, padding, chunks and back, byte by byte;
\* one with more transactions than the codec reads is lost in decode, never altered.
RoundTrip ==
    /\ stage = "rebuilt" => rebuilt = Ok(block)
    /\ stage = "panicked" => Len(block.transactions) > Limit

\* The announced length is the least that rebuilds the block: with a shorter one decode
\* panics, with a longer one it panics or gives the same block, never another one.
LengthIsTight ==
    stage = "rebuilt" =>
        \A len \in 0 .. N * ComputeM(blockSize, N) * DataBytes + 1 :
            FromChunks(chunks[1], len) \in IF len < byteLen THEN {Err} ELSE {Err, Ok(block)}
=============================================================================
