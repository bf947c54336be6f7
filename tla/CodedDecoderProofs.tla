------------------------- MODULE CodedDecoderProofs ------------------------
(***************************************************************************)
(* Proofs about CodedDecoder, for every prime, every number and length of  *)
(* chunks, every block and both integrity schemes.                         *)
(***************************************************************************)
EXTENDS CodedDecoder, IntegrityProofs

---------------------------------------------------------------------------
\* The block.

\* The block is a list of chunks of one length.
LEMMA OriginalIs ==
    /\ Elements \in Nat /\ Original \in [1 .. N -> Vec(Elements)]
    /\ N \in Nat /\ N \in Nat \ {0} /\ 1 \in 1 .. N /\ Vector = Vec(N)
<1>1. N \in Nat /\ N \in Nat \ {0} /\ 1 \in 1 .. N /\ Vector = Vec(N)
      BY ChunksAssumption, Vectors
<1>2. Elements \in Nat /\ Original \in [1 .. N -> Vec(Elements)]
      BY OriginalAssumption DEF Vec
<1> QED BY <1>1, <1>2

\* The block's chunk with coefficients b, and the proof its proposer gives for it.
LEMMA ChunkSigned ==
    ASSUME NEW b
    PROVE  /\ Chunk(b) = ChunkOf(Original, b)
           /\ Sign(b) = SignFor(Scheme, BlockId, Original, b)
<1>1. Chunk(b) = ChunkOf(Original, b)
      BY DEF Chunk, ChunkOf, Data
<1> QED BY <1>1 DEF Sign, SignFor, Context

\* A chunk verifies under a proof of the proposer's exactly when it is the chunk of the
\* block with its coefficients and the proof the one for them.
LEMMA AuthenticIs ==
    ASSUME NEW packet, packet.chunk \in CodedChunk(Elements),
           NEW c \in Vector, packet.proof = Sign(c)
    PROVE  Verified(packet) <=> /\ packet.chunk = Chunk(packet.chunk.b)
                                /\ packet.proof = Sign(packet.chunk.b)
<1>1. packet.proof = SignFor(Scheme, BlockId, Original, c)
      BY ChunkSigned
<1> DEFINE x == packet.chunk
           p == packet.proof
<1>2. x \in CodedChunk(Elements) /\ p = SignFor(Scheme, BlockId, Original, c)
      BY <1>1
<1>3. Verified(packet) <=> Verify(Scheme, HashPoints(BlockId), x, p)
      BY DEF Verified, Context
<1> HIDE DEF x, p
<1>4. Verify(Scheme, HashPoints(BlockId), x, p) <=>
          x = ChunkOf(Original, x.b) /\ p = SignFor(Scheme, BlockId, Original, x.b)
      BY <1>2, OriginalIs, VerifiedIs
<1> QED BY <1>3, <1>4, ChunkSigned DEF x, p

\* The packets that arrive: chunks as far as their types go, with a proof the proposer gave.
LEMMA PacketsAre ==
    ASSUME NEW packet \in Packets
    PROVE  packet.chunk \in CodedChunk(Elements) /\ \E c \in Vector : packet.proof = Sign(c)
<1>1. PICK c \in Vector :
          \/ packet = [chunk |-> Chunk(c), proof |-> Sign(c)]
          \/ packet = [chunk |-> [Chunk(c) EXCEPT !.w = Damage(@)], proof |-> Sign(c)]
          \/ packet = [chunk |-> [Chunk(c) EXCEPT !.b = Damage(@)], proof |-> Sign(c)]
      BY Zenon DEF Packets
<1>2. ASSUME NEW n \in Nat, NEW v \in Vec(n) PROVE Damage(v) \in Vec(n)
  <2>1. ASSUME NEW i \in 1 .. n PROVE (v[i] + 1) % P \in Field
    <3>1. v[i] + 1 \in Int
          BY InField DEF Vec
    <3> QED BY <3>1, Remainder
  <2> QED BY <2>1 DEF Damage, Vec
<1>3. Chunk(c) \in CodedChunk(Elements)
      BY ChunkSigned, OriginalIs, ChunkIs
<1>4. [Chunk(c) EXCEPT !.w = Damage(@)] \in CodedChunk(Elements)
  <2>1. Damage(Chunk(c).w) \in Vec(Elements)
        BY <1>2, <1>3, OriginalIs DEF CodedChunk
  <2> QED BY <1>3, <2>1 DEF CodedChunk
<1>5. [Chunk(c) EXCEPT !.b = Damage(@)] \in CodedChunk(Elements)
  <2>1. Damage(Chunk(c).b) \in Vector
        BY <1>2, <1>3, OriginalIs DEF CodedChunk
  <2> QED BY <1>3, <2>1 DEF CodedChunk
<1> QED BY <1>1, <1>3, <1>4, <1>5

---------------------------------------------------------------------------
\* The invariant.

\* What is kept is collected of the block and signed, and spans the space.
DecoderInv ==
    /\ Kept(decoder, proofs, Scheme, BlockId, Original, Elements)
    /\ space = Span(Coeffs(decoder), Len(decoder.coded))

\* The space is tracked: the span of what is kept, after any step that changes it.
LEMMA TrackedIs ==
    ASSUME NEW r \in Nat, space = Span(Coeffs(decoder), Len(decoder.coded)), Tracked,
           Len(decoder'.coded) = r, Coeffs(decoder') \in [1 .. r -> Vector]
    PROVE  space' = Span(Coeffs(decoder'), r)
<1>1. CASE decoder' = decoder
      BY <1>1 DEF Tracked
<1>2. CASE decoder' # decoder
      BY <1>2, SpanIs DEF Tracked
<1> QED BY <1>1, <1>2

\* Initially nothing is kept.
LEMMA InitInv == Init => DecoderInv
<1> SUFFICES ASSUME Init PROVE DecoderInv
    OBVIOUS
<1>1. /\ decoder = NewDecoder /\ proofs = <<>> /\ space = {Zero}
      /\ decoder.coded = <<>> /\ Len(decoder.coded) = 0
      BY DEF Init, NewDecoder
<1>2. Collected(decoder, Original, Elements, 0)
      BY <1>1, OriginalIs, NewIs
<1>3. Signed(proofs, decoder.coded, Scheme, BlockId, Original)
      BY <1>1 DEF Signed
<1>4. space = Span(Coeffs(decoder), 0)
      BY <1>1, SpanNone
<1> QED BY <1>1, <1>2, <1>3, <1>4 DEF DecoderInv, Kept

\* What a call of receive does to what is kept: an authentic packet outside the span is
\* added and answered as innovative, and nothing else changes anything.
Received(packet) ==
    \/ /\ packet.chunk.b \in Vector \ space /\ answer' = "innovative"
       /\ Collected(decoder', Original, Elements, Len(decoder.coded) + 1)
       /\ Coeffs(decoder') = More(Coeffs(decoder), packet.chunk.b, Len(decoder.coded))
    \/ decoder' = decoder /\ proofs' = proofs /\ answer' \in {"redundant", "rejected"}

\* Receiving, under the invariant.
LEMMA ReceiveIs ==
    ASSUME DecoderInv, NEW packet \in Packets, Receive(packet)
    PROVE  /\ Received(packet)
           /\ Kept(decoder', proofs', Scheme, BlockId, Original, Elements)
<1> DEFINE out == CodedReceive(Scheme, HashPoints(BlockId), decoder, proofs, packet)
           v == packet.chunk.b
<1>1. decoder' = out.decoder /\ proofs' = out.proofs /\ answer' = out.answer
      BY DEF Receive, Context
<1>2. packet.chunk \in CodedChunk(Elements) /\ v \in Vector
      BY PacketsAre DEF CodedChunk
<1>3. PICK c \in Vector : packet.proof = SignFor(Scheme, BlockId, Original, c)
      BY PacketsAre, ChunkSigned
<1>4. Kept(decoder, proofs, Scheme, BlockId, Original, Elements)
      BY DEF DecoderInv
<1> HIDE DEF out
<1>5. /\ Outcome(out, decoder, proofs, packet, Scheme, BlockId, Original, Elements)
      /\ Kept(out.decoder, out.proofs, Scheme, BlockId, Original, Elements)
      BY <1>2, <1>3, <1>4, OriginalIs, ReceivedIs DEF out
<1>6. ASSUME /\ out.answer = "innovative" /\ v \notin Span(Coeffs(decoder), Len(decoder.coded))
             /\ OneMore(out.decoder, decoder, Original, Elements, Len(decoder.coded), packet.chunk)
      PROVE  Received(packet)
      BY <1>1, <1>2, <1>6 DEF OneMore, DecoderInv, Received
<1>7. ASSUME \E word \in {"redundant", "rejected"} :
                 out = [decoder |-> decoder, proofs |-> proofs, answer |-> word]
      PROVE  Received(packet)
      BY <1>1, <1>7 DEF Received
<1>8. Received(packet)
      BY <1>5, <1>6, <1>7 DEF Outcome
<1> QED BY <1>1, <1>5, <1>8

\* Receiving keeps the invariant.
LEMMA ReceiveInv ==
    ASSUME DecoderInv, NEW packet \in Packets, Receive(packet)
    PROVE  DecoderInv'
<1>1. /\ Received(packet) /\ Tracked
      /\ Kept(decoder', proofs', Scheme, BlockId, Original, Elements)
      BY ReceiveIs DEF Receive
<1> DEFINE r == Len(decoder'.coded)
<1>2. Collected(decoder', Original, Elements, r)
      BY <1>1 DEF Kept
<1>3. r \in Nat /\ Coeffs(decoder') \in [1 .. r -> Vector]
  <2> HIDE DEF r
  <2> QED BY <1>2, CollectedParts, OriginalIs
<1>4. space' = Span(Coeffs(decoder'), r)
      BY <1>1, <1>3, TrackedIs DEF DecoderInv
<1> QED BY <1>1, <1>4 DEF DecoderInv

\* Resetting leaves a new decoder, which knows nothing.
LEMMA ResetInv ==
    ASSUME DecoderInv, Reset
    PROVE  DecoderInv' /\ space' = {Zero}
<1>1. decoder' = NewDecoder /\ proofs' = <<>> /\ Tracked
  <2>1. ResetDecoder(decoder) = NewDecoder
        BY ResetIs DEF DecoderInv, Kept
  <2> QED BY <2>1 DEF Reset
<1>2. decoder'.coded = <<>> /\ Len(decoder'.coded) = 0
      BY <1>1 DEF NewDecoder
<1>3. Collected(decoder', Original, Elements, 0)
      BY <1>1, OriginalIs, NewIs
<1>4. Coeffs(decoder') \in [1 .. 0 -> Vector]
      BY <1>3, CollectedParts, OriginalIs
<1>5. space' = Span(Coeffs(decoder'), 0)
      BY <1>1, <1>2, <1>4, TrackedIs DEF DecoderInv
<1>6. Signed(proofs', decoder'.coded, Scheme, BlockId, Original)
      BY <1>1, <1>2 DEF Signed
<1> QED BY <1>2, <1>3, <1>5, <1>6, SpanNone DEF DecoderInv, Kept

\* Proposing leaves a full decoder, which knows everything.
LEMMA ProposeInv ==
    ASSUME DecoderInv, Propose
    PROVE  DecoderInv' /\ space' = Vector
<1> DEFINE d == FullDecoder(Original)
<1>1. decoder' = d /\ proofs' = [k \in 1 .. N |-> Sign(Unit(k))] /\ Tracked
      BY DEF Propose
<1>2. Filled(d, Original, Elements, N)
      BY OriginalIs, FullDecoderIs
<1> HIDE DEF d
<1>3. /\ Collected(d, Original, Elements, N) /\ Len(d.coded) = N
      /\ \A l \in 1 .. N : d.coded[l] = [w |-> Original[l], b |-> Unit(l)]
      /\ EchelonOf(d.echelon, Coeffs(d), N)
      BY <1>2 DEF Filled, Collected
<1>4. Coeffs(d) \in [1 .. N -> Vector]
      BY <1>3, CollectedParts, OriginalIs
<1>5. space' = Span(Coeffs(d), N)
      BY <1>1, <1>3, <1>4, OriginalIs, TrackedIs DEF DecoderInv
<1>6. Signed(proofs', d.coded, Scheme, BlockId, Original)
  <2>1. ASSUME NEW l \in 1 .. N
        PROVE  Sign(Unit(l)) = SignFor(Scheme, BlockId, Original, d.coded[l].b)
    <3>1. d.coded[l] = [w |-> Original[l], b |-> Unit(l)]
          BY <1>3
    <3> QED BY <3>1, ChunkSigned
  <2> QED BY <1>1, <1>3, <2>1 DEF Signed
<1> QED BY <1>1, <1>3, <1>5, <1>6, FullSpan DEF DecoderInv, Kept

\* Every step keeps the invariant.
LEMMA NextInv == DecoderInv /\ [Next]_decoderVars => DecoderInv'
<1> SUFFICES ASSUME DecoderInv, [Next]_decoderVars PROVE DecoderInv'
    OBVIOUS
<1>1. CASE Reset
      BY <1>1, ResetInv
<1>2. CASE Propose
      BY <1>2, ProposeInv
<1>3. ASSUME NEW packet \in Packets, Receive(packet) PROVE DecoderInv'
      BY <1>3, ReceiveInv
<1>4. CASE UNCHANGED decoderVars
      BY <1>4 DEF decoderVars, DecoderInv
<1> QED BY <1>1, <1>2, <1>3, <1>4 DEF Next

\* The invariant always holds.
LEMMA Invariant == Spec => []DecoderInv
BY InitInv, NextInv, PTL DEF Spec

---------------------------------------------------------------------------
\* What follows from the invariant.

\* IncrementalEchelon::add_row keeps the echelon form, whichever independent rows are
\* inserted and in whatever order, and its transformation leads to it from them.
THEOREM EchelonFormAlways == Spec => []EchelonForm
<1>1. ASSUME DecoderInv PROVE EchelonForm
  <2> DEFINE d == decoder
             e == decoder.echelon
             r == Len(decoder.coded)
  <2>1. Collected(d, Original, Elements, r)
        BY <1>1 DEF DecoderInv, Kept
  <2>2. Len(proofs) = r
    <3>1. r \in Nat
      <4> HIDE DEF d, r
      <4> QED BY <2>1, CollectedParts
    <3> QED BY <1>1, <3>1 DEF DecoderInv, Kept, Signed
  <2>3. Len(d.coded) = r
        OBVIOUS
  <2> HIDE DEF r
  <2>4. Rank(d.echelon) = r /\ r \in 0 .. N /\ r \in Nat /\ Coeffs(d) \in [1 .. r -> Vec(N)] /\ N \in Nat
        BY <2>1, CollectedParts
  <2>5. EchelonOf(d.echelon, Coeffs(d), r)
        BY <2>1 DEF Collected
  <2>6. Leads(e, r) /\ LedTo(e, Coeffs(d), r) /\ RowsTyped(e, r) /\ r <= N
        BY <2>4, <2>5 DEF EchelonOf
  <2> HIDE DEF d, e
  <2>7. ASSUME NEW j \in 1 .. r
        PROVE  e.rows[j] = LinearCombination(Coeffs(d), SubSeq(e.transform[j], 1, r))
    <3> DEFINE t == e.transform[j]
               s == SubSeq(t, 1, r)
    <3>1. t \in Vector /\ e.rows[j] = Comb(Coeffs(d), t, r, N)
          BY <2>6 DEF RowsTyped, LedTo
    <3>2. \A l \in 1 .. r : s[l] = t[l]
      <4>1. t \in Seq(Field) /\ Len(t) = N
            BY <2>4, <3>1 DEF Vector
      <4> HIDE DEF t
      <4> QED BY <2>4, <4>1
    <3> HIDE DEF t, s
    <3>3. Comb(Coeffs(d), s, r, N) = Comb(Coeffs(d), t, r, N)
          BY <2>4, <3>2, CombEqual
    <3>4. LinearCombination(Coeffs(d), s) = Comb(Coeffs(d), s, r, N)
      <4>1. r \in Nat \ {0}
            BY <2>4
      <4> QED BY <2>4, <4>1, CombIs
    <3> QED BY <3>1, <3>3, <3>4 DEF s, t
  <2>8. Rank(e) = r
        BY <2>4 DEF d, e
  <2>9. /\ Len(decoder.coded) = r /\ Len(proofs) = r /\ r <= N
        /\ \A j \in 1 .. r :
              /\ e.rows[j][e.pivots[j]] = 1
              /\ \A k \in 1 .. e.pivots[j] - 1 : e.rows[j][k] = 0
              /\ \A i \in 1 .. j - 1 : e.rows[j][e.pivots[i]] = 0
              /\ e.rows[j] = LinearCombination(Coeffs(decoder), SubSeq(e.transform[j], 1, r))
        BY <2>2, <2>3, <2>6, <2>7 DEF Leads, d
  <2> QED BY <2>8, <2>9 DEF EchelonForm, e
<1> QED BY <1>1, Invariant, PTL

\* BlockDecoder::decode, B^-1 times W, gives the original chunks at full rank.
THEOREM DecodesOriginalAlways == Spec => []DecodesOriginal
<1>1. ASSUME DecoderInv, IsComplete(decoder) PROVE DecodedChunks(decoder) = Original
  <2> DEFINE d == decoder
             r == Len(decoder.coded)
  <2>1. Collected(d, Original, Elements, r)
        BY <1>1 DEF DecoderInv, Kept
  <2> HIDE DEF r
  <2>2. Rank(d.echelon) = r
        BY <2>1, CollectedParts
  <2>3. r = N
        BY <1>1, <2>2 DEF IsComplete, IsFull
  <2> HIDE DEF d
  <2>4. DecodedChunks(d) = Original
        BY <2>1, <2>3, DecodeIs
  <2> QED BY <2>4 DEF d
<1>2. DecoderInv => DecodesOriginal
      BY <1>1 DEF DecodesOriginal
<1> QED BY <1>2, Invariant, PTL

\* coded_receive keeps exactly the authentic chunks outside the span of what it has.
THEOREM KeepsTheUsefulAlways == Spec => []KeepsTheUseful
<1>1. ASSUME DecoderInv, NEW packet \in Packets
      PROVE  Verified(packet) /\ Adds(decoder, packet.chunk)
                 <=> /\ packet.chunk = Chunk(packet.chunk.b)
                     /\ packet.proof = Sign(packet.chunk.b)
                     /\ packet.chunk.b \notin space
  <2> DEFINE d == decoder
             r == Len(decoder.coded)
             chunk == packet.chunk
  <2>1. Collected(d, Original, Elements, r) /\ space = Span(Coeffs(d), r)
        BY <1>1 DEF DecoderInv, Kept
  <2>2. PICK c \in Vector : packet.proof = Sign(c)
        BY PacketsAre
  <2>3. packet.chunk \in CodedChunk(Elements) /\ packet.chunk.b \in Vector
        BY PacketsAre DEF CodedChunk
  <2>4. Verified(packet) <=> packet.chunk = Chunk(packet.chunk.b) /\ packet.proof = Sign(packet.chunk.b)
        BY <2>2, <2>3, AuthenticIs
  <2> HIDE DEF d, r, chunk
  <2>5. chunk.b \in Vector
        BY <2>3 DEF chunk
  <2>6. Adds(d, chunk) <=> chunk.b \notin Span(Coeffs(d), r)
        BY <2>1, <2>5, AddsIs
  <2> QED BY <2>1, <2>4, <2>6 DEF d, chunk
<1>2. DecoderInv => KeepsTheUseful
      BY <1>1 DEF KeepsTheUseful
<1> QED BY <1>2, Invariant, PTL

\* coded_forward: what is re-encoded for a peer verifies there, data and combined proof
\* alike, and is never the zero vector.
THEOREM ReencodedVerifiesAlways == Spec => []ReencodedVerifies
<1>1. ASSUME DecoderInv, decoder.coded # <<>>, NEW alphas \in RandomCoefficients(Len(decoder.coded))
      PROVE  /\ Verified(CodedForward(Scheme, decoder, proofs, alphas))
             /\ CodedForward(Scheme, decoder, proofs, alphas).chunk.b # Zero
  <2> DEFINE packet == CodedForward(Scheme, decoder, proofs, alphas)
  <2>1. Kept(decoder, proofs, Scheme, BlockId, Original, Elements)
        BY <1>1 DEF DecoderInv
  <2>2. PICK b \in Vector \ {Zero} : packet = PacketFor(Scheme, BlockId, Original, b)
        BY <1>1, <2>1, OriginalIs, ForwardedIs
  <2> HIDE DEF packet
  <2>3. packet.chunk = ChunkOf(Original, b) /\ packet.proof = SignFor(Scheme, BlockId, Original, b)
        BY <2>2 DEF PacketFor
  <2>4. packet.chunk \in CodedChunk(Elements) /\ packet.chunk.b = b
        BY <2>3, OriginalIs, ChunkIs
  <2>5. packet.chunk = Chunk(b) /\ packet.proof = Sign(b)
        BY <2>3, ChunkSigned
  <2>6. Verified(packet)
        BY <2>4, <2>5, AuthenticIs
  <2> QED BY <2>4, <2>6 DEF packet
<1>2. DecoderInv => ReencodedVerifies
      BY <1>1 DEF ReencodedVerifies
<1> QED BY <1>2, Invariant, PTL

---------------------------------------------------------------------------
\* Refinement.

\* Learning a vector extends the space by its multiples.
LEMMA LearnIs ==
    ASSUME DecoderInv, DecoderInv', NEW packet \in Packets, Received(packet), decoder' # decoder
    PROVE  Abstract!Learn
<1> DEFINE r == Len(decoder.coded)
           v == packet.chunk.b
           vecs == Coeffs(decoder')
           old == Coeffs(decoder)
<1>1. /\ v \in Vector /\ v \notin space /\ answer' = "innovative"
      /\ Collected(decoder', Original, Elements, r + 1) /\ vecs = More(old, v, r)
      BY DEF Received
<1>2. space = Span(old, r) /\ Collected(decoder, Original, Elements, r)
      BY DEF DecoderInv, Kept
<1>3. space' = Span(vecs, Len(decoder'.coded))
      BY DEF DecoderInv
<1>4. Len(decoder'.coded) = r + 1
      BY <1>1 DEF Collected
<1> HIDE DEF r
<1>5. r \in Nat /\ old \in [1 .. r -> Vector] /\ vecs \in [1 .. r + 1 -> Vector]
      BY <1>1, <1>2, CollectedParts, OriginalIs
<1> HIDE DEF v, vecs, old
<1>6. vecs[r + 1] = v /\ Span(vecs, r) = Span(old, r)
      BY <1>1, <1>5, MoreVectors
<1>7. Span(vecs, r + 1) = {Plus(u, vecs[r + 1], c, N) : u \in Span(vecs, r), c \in Field}
      BY <1>5, SpanSnoc
<1>8. space' = {[i \in 1 .. N |-> (u[i] + c * v[i]) % P] : u \in space, c \in Field}
      BY <1>2, <1>3, <1>4, <1>6, <1>7 DEF Plus
<1>9. space' = Abstract!Extended(v)
      BY <1>8 DEF Abstract!Extended, Abstract!Field, Field
<1>10. v \in Abstract!Vector \ space
      BY <1>1 DEF Abstract!Vector, Abstract!Field, Vector, Field
<1> QED BY <1>1, <1>9, <1>10 DEF Abstract!Learn

\* The decoder implements SpanDecoder: of all its rows, pivots and proofs, what matters
\* to a caller is the space the coefficient vectors kept span.
THEOREM ImplementsSpanAlways == Spec => ImplementsSpan
<1>1. Init => Abstract!SpanInit
      BY DEF Init, Abstract!SpanInit, Abstract!Zero, Zero
<1>2. ASSUME DecoderInv, DecoderInv', [Next]_decoderVars
      PROVE  [Abstract!SpanNext]_Abstract!spanVars
  <2>1. CASE Reset
    <3>1. space' = {Zero} /\ answer' = "none"
          BY <1>2, <2>1, ResetInv DEF Reset
    <3>2. Abstract!Forget
          BY <3>1 DEF Abstract!Forget, Abstract!Zero, Zero
    <3> QED BY <3>2 DEF Abstract!SpanNext
  <2>2. CASE Propose
    <3>1. space' = Vector /\ answer' = "none"
          BY <1>2, <2>2, ProposeInv DEF Propose
    <3>2. Abstract!LearnAll
          BY <3>1 DEF Abstract!LearnAll, Abstract!Vector, Abstract!Field, Vector, Field
    <3> QED BY <3>2 DEF Abstract!SpanNext
  <2>3. ASSUME NEW packet \in Packets, Receive(packet) PROVE Abstract!SpanNext
    <3>1. Received(packet)
          BY <1>2, <2>3, ReceiveIs
    <3>2. CASE decoder' # decoder
      <4>1. Abstract!Learn
            BY <1>2, <3>1, <3>2, LearnIs
      <4> QED BY <4>1 DEF Abstract!SpanNext
    <3>3. CASE decoder' = decoder
      <4>1. space' = space
            BY <1>2, <3>3 DEF DecoderInv
      <4>2. answer' \in {"redundant", "rejected"}
        <5>1. Collected(decoder', Original, Elements, Len(decoder'.coded))
              BY <1>2 DEF DecoderInv, Kept
        <5>2. ~ Collected(decoder', Original, Elements, Len(decoder.coded) + 1)
          <6>1. Len(decoder.coded) \in Nat
                BY <3>3, <5>1, CollectedParts
          <6> QED BY <3>3, <6>1 DEF Collected
        <5> QED BY <3>1, <5>2 DEF Received
      <4> QED BY <4>1, <4>2 DEF Abstract!SpanNext, Abstract!NothingNew, Abstract!Refuse
    <3> QED BY <3>2, <3>3
  <2>4. CASE UNCHANGED decoderVars
        BY <2>4 DEF decoderVars, Abstract!spanVars
  <2> QED BY <1>2, <2>1, <2>2, <2>3, <2>4 DEF Next
<1>3. DecoderInv /\ DecoderInv' /\ [Next]_decoderVars => [Abstract!SpanNext]_Abstract!spanVars
      BY <1>2
<1>4. Spec => Abstract!SpanSpec
      BY <1>1, <1>3, Invariant, PTL DEF Spec, Abstract!SpanSpec
<1> QED BY <1>4 DEF ImplementsSpan
=============================================================================
