----------------------------- MODULE Integrity -----------------------------
(***************************************************************************)
(* Signed packets and their wire form: SignedPacket                        *)
(* (crates/strategy/core/src/proof.rs), and what the Pedersen and the BFKW *)
(* scheme sign, verify, combine and serialise (crates/strategy/pedersen,   *)
(* crates/strategy/bfkw).  Groups are symbolic: a commitment is the vector *)
(* it binds, a signature the message it signs, under the one signing key   *)
(* there is.  A wire form is the list of the fixed-size values on it.      *)
(***************************************************************************)
EXTENDS BlockDecoder

MaxCommitments == 1024
ASSUME CommitmentsAssumption == N <= MaxCommitments

IsIdentity(v) == \A i \in DOMAIN v : v[i] = 0

\* The codec's Read of a scalar was made for secret keys, that of a point for public
\* keys and signatures: they reject zero and the identity.
CodecReadScalar(x) == IF x = 0 THEN Err ELSE Ok(x)
CodecReadGroup(point, vector) == IF IsIdentity(vector) THEN Err ELSE Ok(point)

\* read_field, read_group: zero and the identity are handled apart.  The mutant
\* leaves the identity to the codec.
ReadField(x) == IF x = 0 THEN Ok(0) ELSE CodecReadScalar(x)
ReadGroupStrictly(v) == CodecReadGroup(v, v)
ReadGroup(v) == IF IsIdentity(v) THEN Ok(v) ELSE CodecReadGroup(v, v)

---------------------------------------------------------------------------
\* Pedersen.

\* CommitmentKey::commit, ::verify
Commit(v) == v
KeyVerify(chunk, commitments) ==
    Commit(chunk.w) = LinearCombination(commitments, chunk.b)

\* sign_block: one proof for all packets of a block.
SignBlock(chunks) ==
    LET commitments == [i \in 1 .. N |-> Commit(chunks[i])]
    IN  [commitments |-> commitments, signature |-> commitments]

\* The signature first, then the data.  Nothing ties a proof to a block number.
PedersenVerify(chunk, proof) ==
    /\ proof.signature = proof.commitments
    /\ KeyVerify(chunk, proof.commitments)

PedersenCombine(proofs, alphas) == proofs[1]

SerializePedersen(proof) ==
    <<Len(proof.commitments)>> \o proof.commitments \o <<proof.signature>>

DeserializePedersen(items) ==
    LET n == items[1]
        groups == [i \in 1 .. n |-> ReadGroup(items[i + 1])]
    IN  IF \/ items = <<>>
           \/ n > MaxCommitments
           \/ Len(items) < n + 2
           \/ \E i \in 1 .. n : groups[i] = Err
        THEN Err
        ELSE Ok([commitments |-> [i \in 1 .. n |-> groups[i][1]], signature |-> items[n + 2]])

---------------------------------------------------------------------------
\* BFKW.

MixedId == -1

\* BfkwContext: the hash points of a block, that is, its id.
HashPoints(id) == [id |-> id]

\* sign: the i-th chunk, augmented with its basis vector.
BfkwSign(ctx, i, v) == [id |-> ctx.id, message |-> v \o Unit(i)]

\* combine.  Signatures of different blocks do not combine to one of a block.  The
\* mutant uses Pedersen's rule.
BfkwCombineFirst(proofs, alphas) == proofs[1]
BfkwCombine(proofs, alphas) ==
    [id |-> IF \A l \in 1 .. Len(proofs) : proofs[l].id = proofs[1].id
            THEN proofs[1].id ELSE MixedId,
     message |-> LinearCombination([l \in 1 .. Len(proofs) |-> proofs[l].message], alphas)]

\* sign_coded
BfkwSignCoded(ctx, chunks, b) ==
    BfkwCombine([i \in 1 .. N |-> BfkwSign(ctx, i, chunks[i])], b)

\* The mutant of the next trusts any signature of the block.
BfkwVerifyId(ctx, chunk, proof) == proof.id = ctx.id
BfkwVerify(ctx, chunk, proof) ==
    proof = [id |-> ctx.id, message |-> chunk.w \o chunk.b]

SerializeBfkw(proof) == <<proof>>

\* Unlike a commitment, a signature that is the identity is not readable.
DeserializeBfkw(items) ==
    IF items = <<>> THEN Err ELSE CodecReadGroup(items[1], items[1].message)

---------------------------------------------------------------------------
\* Both schemes.

Verify(scheme, ctx, chunk, proof) ==
    IF scheme = "Pedersen" THEN PedersenVerify(chunk, proof)
    ELSE BfkwVerify(ctx, chunk, proof)

Combine(scheme, proofs, alphas) ==
    IF scheme = "Pedersen" THEN PedersenCombine(proofs, alphas)
    ELSE BfkwCombine(proofs, alphas)

\* SignedPacket::serialize: data, coefficients, proof.
Serialize(scheme, packet) ==
    packet.chunk.w \o packet.chunk.b \o
        (IF scheme = "Pedersen" THEN SerializePedersen(packet.proof)
         ELSE SerializeBfkw(packet.proof))

\* SignedPacket::deserialize: m scalars, N scalars, the proof.
Deserialize(scheme, wire, m) ==
    LET scalars == [i \in 1 .. m + N |-> ReadField(wire[i])]
        items == SubSeq(wire, m + N + 1, Len(wire))
        proof == IF scheme = "Pedersen" THEN DeserializePedersen(items)
                 ELSE DeserializeBfkw(items)
    IN  IF \/ Len(wire) < m + N
           \/ \E i \in 1 .. m + N : scalars[i] = Err
           \/ proof = Err
        THEN Err
        ELSE Ok([chunk |-> [w |-> [i \in 1 .. m |-> scalars[i][1]],
                            b |-> [i \in 1 .. N |-> scalars[m + i][1]]],
                 proof |-> proof[1]])

---------------------------------------------------------------------------
\* Receiving and forwarding, the same for both schemes.

\* coded_receive: the decoder and the proofs after it, and what it returns.
CodedReceive(scheme, ctx, d, proofs, packet) ==
    IF ~Verify(scheme, ctx, packet.chunk, packet.proof)
    THEN [decoder |-> d, proofs |-> proofs, answer |-> "rejected"]
    ELSE IF Adds(d, packet.chunk)
    THEN [decoder |-> Added(d, packet.chunk),
          proofs |-> Append(proofs, packet.proof), answer |-> "innovative"]
    ELSE [decoder |-> d, proofs |-> proofs, answer |-> "redundant"]

\* coded_forward, for one peer: one set of coefficients for data and proof.
CodedForward(scheme, d, proofs, alphas) ==
    [chunk |-> ReencodeWith(d, alphas), proof |-> Combine(scheme, proofs, alphas)]
=============================================================================
