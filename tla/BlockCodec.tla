----------------------------- MODULE BlockCodec ----------------------------
(***************************************************************************)
(* Blocks as bytes and as chunks: the codec, as_chunks and from_chunks of  *)
(* crates/primitives/types/src/block.rs, and the chunk dimension compute_m *)
(* of crates/node/src/config.rs.                                           *)
(***************************************************************************)
EXTENDS Packing

CONSTANTS HeaderBytes,   \* the six fixed-width fields before the transactions (96)
          Half,          \* a length is written in digits to this base (128)
          Slack,         \* what compute_m adds to block_size (100)
          Limit          \* MAX_TRANSACTIONS_BYTES (16 MiB)

\* A length below Half^4 takes at most four bytes.
HalfPowers == <<Half, Half * Half, Half * Half * Half, Half * Half * Half * Half>>

ASSUME CodecAssumption ==
    /\ HeaderBytes \in Nat /\ Half \in Nat \ {0, 1} /\ Base = 2 * Half
    /\ Slack \in Nat /\ Slack >= HeaderBytes + 4
    /\ Limit \in Nat

---------------------------------------------------------------------------
\* The codec.

Block == [header : [1 .. HeaderBytes -> Byte], transactions : Seq(Byte)]

PrefixBytes(len) ==
    IF len < HalfPowers[1] THEN 1
    ELSE IF len < HalfPowers[2] THEN 2
    ELSE IF len < HalfPowers[3] THEN 3 ELSE 4

\* The codec's length prefix: digits from the lowest, each but the last marked.
LengthPrefix(len) ==
    [i \in 1 .. PrefixBytes(len) |->
        Digit(Half, len, i - 1) + (IF i < PrefixBytes(len) THEN Half ELSE 0)]

ReadLength(bytes) ==
    IF \A i \in 1 .. Len(bytes) : bytes[i] >= Half THEN Err
    ELSE LET size == CHOOSE i \in 1 .. Len(bytes) :
                        bytes[i] < Half /\ \A j \in 1 .. i - 1 : bytes[j] >= Half
         IN  Ok([size |-> size,
                 value |-> Number(Half, [i \in 1 .. size |-> bytes[size + 1 - i] % Half])])

\* encode_size
EncodeSize(b) == HeaderBytes + PrefixBytes(Len(b.transactions)) + Len(b.transactions)

Write(b) == b.header \o LengthPrefix(Len(b.transactions)) \o b.transactions

\* read_cfg: what follows the block is left in the buffer.  The block, and the bytes
\* it took.
ReadBlock(bytes) ==
    LET rest == SubSeq(bytes, HeaderBytes + 1, Len(bytes))
        length == ReadLength(rest)
        first == length[1].size + 1
        last == length[1].size + length[1].value
    IN  IF \/ Len(bytes) < HeaderBytes
           \/ length = Err
           \/ length[1].value > Limit
           \/ Len(rest) < last
        THEN Err
        ELSE Ok([block |-> [header |-> SubSeq(bytes, 1, HeaderBytes),
                            transactions |-> SubSeq(rest, first, last)],
                 taken |-> HeaderBytes + last])

---------------------------------------------------------------------------
\* Chunks.

\* Mutant of the next: rounds down.
ComputeMDown(size, n) == (size + Slack) \div (DataBytes * n)
ComputeM(size, n) == CeilDiv(size + Slack, DataBytes * n)

\* as_chunks: Err where the code panics, for too many elements or empty chunks.
AsChunks(b, m) ==
    LET elements == BytesToFieldElements(Write(b))
        element(i) == IF i <= Len(elements) THEN elements[i] ELSE 0
    IN  IF Len(elements) > N * m \/ m = 0 THEN Err
        ELSE Ok([k \in 1 .. N |-> [j \in 1 .. m |-> element((k - 1) * m + j)]])

\* Mutant of the next: the padding is not cut off.
FromChunksUncut(cs, len) ==
    LET read == ReadBlock(FieldElementsToBytes(FlattenSeq(cs)))
    IN  IF read = Err THEN Err ELSE Ok(read[1].block)

\* from_chunks: Err where the code panics, for another number of chunks, a length
\* beyond the bytes there are, or bytes that are no block.
FromChunks(cs, len) ==
    LET bytes == FieldElementsToBytes(FlattenSeq(cs))
        read == ReadBlock(SubSeq(bytes, 1, len))
    IN  IF Len(cs) # N \/ len > Len(bytes) \/ read = Err THEN Err
        ELSE Ok(read[1].block)
=============================================================================
