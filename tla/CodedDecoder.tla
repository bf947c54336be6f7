---------------------------- MODULE CodedDecoder ---------------------------
(***************************************************************************)
(* The decoder a coded node keeps for one block, with its integrity proofs:*)
(* BlockDecoder and the proofs Vec beside it, under any sequence of calls. *)
(***************************************************************************)
EXTENDS Integrity

CONSTANTS Original,    \* the block's N chunks
          Scheme       \* "Pedersen" or "BFKW"

ASSUME SchemeAssumption == Scheme \in {"Pedersen", "BFKW"}

\* Elements of a chunk: compute_m gives at least one.
Elements == Len(Original[1])

ASSUME OriginalAssumption ==
    Elements \in Nat \ {0} /\ Original \in [1 .. N -> [1 .. Elements -> Field]]

VARIABLES decoder,     \* BlockDecoder
          proofs,      \* the node's proofs Vec
          answer,      \* what the last ingest returned
          space        \* history: the span of the coefficient vectors kept

decoderVars == <<decoder, proofs, answer, space>>

BlockId == 0
Context == HashPoints(BlockId)
Data(b) == LinearCombination(Original, b)
Chunk(b) == [b |-> b, w |-> Data(b)]

\* A proof over the chunk with coefficients b, as the proposer signs it.
Sign(b) ==
    IF Scheme = "Pedersen" THEN SignBlock(Original) ELSE BfkwSignCoded(Context, Original, b)

Verified(packet) == Verify(Scheme, Context, packet.chunk, packet.proof)

\* A packet damaged or forged on its way: other data or other coefficients under a
\* proof the proposer gave for b.
Damage(x) == [x EXCEPT ![1] = (@ + 1) % P]
Packets ==
    UNION {{[chunk |-> Chunk(b), proof |-> Sign(b)],
            [chunk |-> [Chunk(b) EXCEPT !.w = Damage(@)], proof |-> Sign(b)],
            [chunk |-> [Chunk(b) EXCEPT !.b = Damage(@)], proof |-> Sign(b)]} :
           b \in Vector}

---------------------------------------------------------------------------

Init ==
    /\ decoder = NewDecoder
    /\ proofs = <<>>
    /\ answer = "none"
    /\ space = {Zero}

Tracked == space' = IF decoder' = decoder THEN space ELSE SpanOf(Coeffs(decoder'))

Receive(packet) ==
    LET received == CodedReceive(Scheme, Context, decoder, proofs, packet)
    IN  /\ decoder' = received.decoder
        /\ proofs' = received.proofs
        /\ answer' = received.answer
        /\ Tracked

\* Protocol::reset
Reset ==
    /\ decoder' = ResetDecoder(decoder)
    /\ proofs' = <<>>
    /\ answer' = "none"
    /\ Tracked

\* The end of propose, of the node's protocols: a new decoder at full rank on the original
\* chunks, with a proof for each.  (The simulator's Pedersen proposer keeps one proof; its
\* state is never asked to receive or to forward.)
Propose ==
    /\ decoder' = FullDecoder(Original)
    /\ proofs' = [k \in 1 .. N |-> Sign(Unit(k))]
    /\ answer' = "none"
    /\ Tracked

Next == Reset \/ Propose \/ \E packet \in Packets : Receive(packet)

Spec == Init /\ [][Next]_decoderVars

---------------------------------------------------------------------------

\* Whatever order packets arrive in, the rows stay in echelon form, each beginning with
\* a one at its pivot, where no later row has anything; and the transformation still
\* leads to them from the coefficient vectors of the chunks kept, of which there are as
\* many as rows and as proofs.  Pivots need not be increasing.
EchelonForm ==
    LET e == decoder.echelon
        r == Rank(e)
    IN  /\ Len(decoder.coded) = r /\ Len(proofs) = r /\ r <= N
        /\ \A j \in 1 .. r :
              /\ e.rows[j][e.pivots[j]] = 1
              /\ \A k \in 1 .. e.pivots[j] - 1 : e.rows[j][k] = 0
              /\ \A i \in 1 .. j - 1 : e.rows[j][e.pivots[i]] = 0
              /\ e.rows[j] = LinearCombination(Coeffs(decoder), SubSeq(e.transform[j], 1, r))

\* At full rank decode gives the original chunks, whichever packets were accepted
\* and in whatever order (coding.rs decode: B^-1 times W).
DecodesOriginal == IsComplete(decoder) => DecodedChunks(decoder) = Original

\* A packet re-encoded at any rank, with any coefficients random_coefficients can
\* draw, verifies and is never the useless zero vector.
ReencodedVerifies ==
    decoder.coded # <<>> =>
        \A alphas \in RandomCoefficients(Len(decoder.coded)) :
            LET packet == CodedForward(Scheme, decoder, proofs, alphas)
            IN  Verified(packet) /\ packet.chunk.b # Zero

\* A packet is kept exactly when it is the proposer's, the data of its coefficients
\* under the proof for them, and outside the span of what was kept before: nothing
\* useful is dropped, nothing useless or damaged is stored.
KeepsTheUseful ==
    \A packet \in Packets :
        Verified(packet) /\ Adds(decoder, packet.chunk)
            <=> /\ packet.chunk = Chunk(packet.chunk.b)
                /\ packet.proof = Sign(packet.chunk.b)
                /\ packet.chunk.b \notin space

\* The decoder implements the abstract one, which knows a space and has no matrix.
Abstract == INSTANCE SpanDecoder WITH space <- space, answer <- answer
ImplementsSpan == Abstract!SpanSpec
=============================================================================
