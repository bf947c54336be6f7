----------------------------- MODULE Protocols -----------------------------
(***************************************************************************)
(* The three implementations of Protocol (crates/node/src/baseline.rs,     *)
(* pedersen.rs, bfkw.rs) with the state they keep per block, driven as the *)
(* actor drives them: a proposer's object, and a receiver's, which gets    *)
(* what any honest node may send, and damaged packets.  Beside the         *)
(* receiver's object runs its twin, the simulator's NodeState              *)
(* (crates/strategy), which is given the same packets.                     *)
(***************************************************************************)
EXTENDS BlockCodec, Integrity

CONSTANTS BlockSize,     \* block_size, of the configuration all nodes share
          Blocks         \* the blocks proposed, in order

\* Blocks as generate_random_block makes them, of a size the codec reads.
ASSUME BlocksAssumption ==
    /\ BlockSize \in Nat /\ BlockSize < HalfPowers[4] /\ BlockSize <= Limit
    /\ Blocks \in Seq(Block) /\ \A n \in DOMAIN Blocks : Len(Blocks[n].transactions) = BlockSize

VARIABLES strategy,      \* "Baseline", "Pedersen" or "BFKW"
          height,        \* how many blocks have been proposed
          proposer,      \* the proposer's protocol object
          receiver,      \* the receiver's
          twin,          \* NodeState of the simulator, for the same packets
          current,       \* the receiver's block
          stage,         \* where the receiver's actor is
          answer,        \* what ingest returned, of the object and of the twin
          output         \* Result of decode, of the object and of the twin

protocolVars == <<strategy, height, proposer, receiver, twin, current, stage, answer, output>>

Strategies == {"Baseline", "Pedersen", "BFKW"}
Answers == {"none", "innovative", "redundant", "rejected"}
NumBlocks == Len(Blocks)
M == ComputeM(BlockSize, N)

---------------------------------------------------------------------------
\* The objects.  A field a strategy does not have keeps its first value.

NewObject ==
    [decoder |-> NewDecoder, proofs |-> <<>>, ctx |-> Err, byteLen |-> 0,
     block |-> Err, blockBytes |-> Err]

Chunks == [n \in 1 .. NumBlocks |-> AsChunks(Blocks[n], M)[1]]

\* propose overwrites whatever the object held.
ProposeBaseline(o, n) ==
    [o EXCEPT !.block = Ok(Blocks[n]), !.blockBytes = Ok(Write(Blocks[n])),
              !.byteLen = EncodeSize(Blocks[n])]
ProposePedersen(o, n) ==
    [o EXCEPT !.decoder = FullDecoder(Chunks[n]),
              !.proofs = [i \in 1 .. N |-> SignBlock(Chunks[n])],
              !.byteLen = EncodeSize(Blocks[n])]
ProposeBfkw(o, n) ==
    [o EXCEPT !.decoder = FullDecoder(Chunks[n]),
              !.proofs = [i \in 1 .. N |-> BfkwSign(HashPoints(n), i, Chunks[n][i])],
              !.ctx = Ok(HashPoints(n)),
              !.byteLen = EncodeSize(Blocks[n])]
ProposeWith(s, o, n) ==
    CASE s = "Baseline" -> ProposeBaseline(o, n)
      [] s = "Pedersen" -> ProposePedersen(o, n)
      [] s = "BFKW"     -> ProposeBfkw(o, n)

\* encode_chunks: one coded chunk.
EncodedChunk(n, b) == [w |-> LinearCombination(Chunks[n], b), b |-> b]

\* The packet of block n, of the id given, with coefficients b, as its proposer makes it.
Packet(s, n, id, b) ==
    [chunk |-> EncodedChunk(n, b),
     proof |-> IF s = "Pedersen" THEN SignBlock(Chunks[n])
               ELSE BfkwSignCoded(HashPoints(id), Chunks[n], b)]

\* ingest of an announcement.  Only BFKW keeps more than the length.  One mutant keeps
\* no length, the other takes the context of the block before.
IngestNoLength(s, o, n, len) ==
    [o EXCEPT !.ctx = IF s = "BFKW" THEN Ok(HashPoints(n)) ELSE @]
IngestLateContext(s, o, n, len) ==
    [o EXCEPT !.byteLen = len, !.ctx = IF s = "BFKW" THEN Ok(HashPoints(n - 1)) ELSE @]
IngestAnnouncement(s, o, n, len) ==
    [o EXCEPT !.byteLen = len, !.ctx = IF s = "BFKW" THEN Ok(HashPoints(n)) ELSE @]

\* Block::decode: a block, and nothing after it.
DecodeBlock(bytes) ==
    LET read == ReadBlock(bytes)
    IN  IF read = Err \/ read[1].taken # Len(bytes) THEN Err ELSE Ok(read[1].block)

\* ingest of data: the object after it, and the answer.
IngestBlock(o, bytes) ==
    LET block == DecodeBlock(bytes)
    IN  IF o.block # Err THEN [object |-> o, answer |-> "redundant"]
        ELSE IF block = Err THEN [object |-> o, answer |-> "rejected"]
        ELSE [object |-> [o EXCEPT !.block = block, !.blockBytes = Ok(bytes)],
              answer |-> "innovative"]

IngestPacket(s, o, wire) ==
    LET packet == Deserialize(s, wire, M)
        received == CodedReceive(s, o.ctx[1], o.decoder, o.proofs, packet[1])
    IN  IF (s = "BFKW" /\ o.ctx = Err) \/ packet = Err
        THEN [object |-> o, answer |-> "rejected"]
        ELSE [object |-> [o EXCEPT !.decoder = received.decoder, !.proofs = received.proofs],
              answer |-> received.answer]

IngestData(s, o, wire) ==
    IF s = "Baseline" THEN IngestBlock(o, wire) ELSE IngestPacket(s, o, wire)

ObjectComplete(s, o) == IF s = "Baseline" THEN o.block # Err ELSE IsComplete(o.decoder)

\* recode, for one peer.  Err where the code panics.
RecodeBlock(o) == o.blockBytes
RecodePacket(s, o, alphas) ==
    IF o.decoder.coded = <<>> \/ Len(alphas) # Len(o.decoder.coded) THEN Err
    ELSE Ok(Serialize(s, CodedForward(s, o.decoder, o.proofs, alphas)))
Recode(s, o, alphas) == IF s = "Baseline" THEN RecodeBlock(o) ELSE RecodePacket(s, o, alphas)

\* decode: the object after it, and the block; Err where the code panics.
TakeBlock(o) == [object |-> [o EXCEPT !.block = Err], block |-> o.block]
DecodeChunksOf(o) ==
    [object |-> o,
     block |-> IF IsComplete(o.decoder) THEN FromChunks(DecodedChunks(o.decoder), o.byteLen)
               ELSE Err]
Decode(s, o) == IF s = "Baseline" THEN TakeBlock(o) ELSE DecodeChunksOf(o)

\* reset.  The mutant keeps the proofs.
ResetNotProofs(s, o) == [NewObject EXCEPT !.proofs = o.proofs]
ResetBaseline(o) == [o EXCEPT !.block = Err, !.blockBytes = Err, !.byteLen = 0]
ResetPedersen(o) == [o EXCEPT !.decoder = ResetDecoder(@), !.proofs = <<>>, !.byteLen = 0]
ResetBfkw(o) ==
    [o EXCEPT !.decoder = ResetDecoder(@), !.proofs = <<>>, !.ctx = Err, !.byteLen = 0]
ResetObject(s, o) ==
    CASE s = "Baseline" -> ResetBaseline(o)
      [] s = "Pedersen" -> ResetPedersen(o)
      [] s = "BFKW"     -> ResetBfkw(o)

---------------------------------------------------------------------------
\* The simulator's strategies.  BFKW's contexts are made from the block's hash.

BlockHash(n) == NumBlocks + n

\* init_proposer: a packet for one of the proposer's peers.
SimPacket(s, n, b) == Packet(s, n, BlockHash(n), b)

SimReceiver(s, n) ==
    [decoder |-> NewDecoder, proofs |-> <<>>, blockBytes |-> Err,
     ctx |-> IF s = "BFKW" THEN Ok(HashPoints(BlockHash(n))) ELSE Err]

\* receive.  The baseline takes any bytes for a block.
SimReceiveBlock(st, bytes) ==
    IF st.blockBytes # Err THEN [state |-> st, answer |-> "redundant"]
    ELSE [state |-> [st EXCEPT !.blockBytes = Ok(bytes)], answer |-> "innovative"]
SimReceivePacket(s, st, packet) ==
    LET received == CodedReceive(s, st.ctx[1], st.decoder, st.proofs, packet)
    IN  [state |-> [st EXCEPT !.decoder = received.decoder, !.proofs = received.proofs],
         answer |-> received.answer]

SimReceive(s, st, packet) ==
    IF s = "Baseline" THEN SimReceiveBlock(st, packet) ELSE SimReceivePacket(s, st, packet)

SimCanDecode(s, st) ==
    IF s = "Baseline" THEN st.blockBytes # Err ELSE IsComplete(st.decoder)

\* forward, for one peer, when the engine calls it.
SimForwardBlock(st) == Range(st.blockBytes)
SimForwardPackets(s, st) ==
    {CodedForward(s, st.decoder, st.proofs, alphas) :
        alphas \in RandomCoefficients(Len(st.decoder.coded))}
SimForwards(s, st) ==
    IF s = "Baseline" THEN SimForwardBlock(st)
    ELSE IF st.decoder.coded = <<>> THEN {} ELSE SimForwardPackets(s, st)

\* decode: Err where the code panics.  The length is the one init_proposer returned.
SimByteLen(n) == EncodeSize(Blocks[n])
SimDecodeBlock(st) == DecodeBlock(st.blockBytes[1])
SimDecodeChunks(st, len) == FromChunks(DecodedChunks(st.decoder), len)
SimDecode(s, st, len) ==
    IF s = "Baseline" THEN SimDecodeBlock(st) ELSE SimDecodeChunks(st, len)

---------------------------------------------------------------------------

Honest == Vector \ {Zero}

Init ==
    /\ strategy \in Strategies
    /\ height = 0
    /\ proposer = NewObject
    /\ receiver = NewObject
    /\ current = 1
    /\ twin = SimReceiver(strategy, 1)
    /\ stage = "init"
    /\ answer = [object |-> "none", twin |-> "none"]
    /\ output = [object |-> Err, twin |-> Err]

\* One turn of the proposer's loop.
Propose ==
    /\ height < NumBlocks
    /\ height' = height + 1
    /\ LET o == IF height > 0 THEN ResetObject(strategy, proposer) ELSE proposer
       IN  proposer' = ProposeWith(strategy, o, height + 1)
    /\ UNCHANGED <<strategy, receiver, twin, current, stage, answer, output>>

Announced ==
    /\ stage = "init"
    /\ current <= height
    /\ receiver' = IngestAnnouncement(strategy, receiver, current, EncodeSize(Blocks[current]))
    /\ stage' = "decoding"
    /\ UNCHANGED <<strategy, height, proposer, twin, current, answer, output>>

Ingested(taken, twinTaken) ==
    /\ receiver' = taken.object
    /\ twin' = twinTaken.state
    /\ answer' = [object |-> taken.answer, twin |-> twinTaken.answer]
    /\ stage' = IF taken.answer = "innovative" THEN "useful" ELSE "decoding"
    /\ UNCHANGED <<strategy, height, proposer, current, output>>

ReceiveBlock ==
    /\ stage = "decoding"
    /\ strategy = "Baseline"
    /\ LET bytes == Write(Blocks[current])
       IN  Ingested(IngestData(strategy, receiver, bytes), SimReceive(strategy, twin, bytes))

ReceivePacket(b) ==
    /\ stage = "decoding"
    /\ strategy # "Baseline"
    /\ LET packet == Packet(strategy, current, current, b)
           simPacket == SimPacket(strategy, current, b)
       IN  Ingested(IngestData(strategy, receiver, Serialize(strategy, packet)),
                    SimReceive(strategy, twin, simPacket))

\* A packet may have been damaged on the way: only its beginning arrives,
CutOff(wire) == {SubSeq(wire, 1, k) : k \in 0 .. Len(wire) - 1}

ReceiveCutBlock ==
    /\ stage = "decoding"
    /\ strategy = "Baseline"
    /\ \E bytes \in CutOff(Write(Blocks[current])) :
           Ingested(IngestData(strategy, receiver, bytes), SimReceive(strategy, twin, bytes))

\* The packets of the simulator's coded strategies are values and cannot be cut off.
ReceiveCutPacket(b) ==
    /\ stage = "decoding"
    /\ strategy # "Baseline"
    /\ \E wire \in CutOff(Serialize(strategy, Packet(strategy, current, current, b))) :
           Ingested(IngestData(strategy, receiver, wire), [state |-> twin, answer |-> "none"])

\* or one element of its data is another, on the wire or in the value.
AlteredWire(wire, i) == [wire EXCEPT ![i] = (@ + 1) % P]
AlteredPacket(packet, i) == [packet EXCEPT !.chunk.w[i] = (@ + 1) % P]

ReceiveAltered(b) ==
    /\ stage = "decoding"
    /\ strategy # "Baseline"
    /\ \E i \in 1 .. M :
           LET wire == Serialize(strategy, Packet(strategy, current, current, b))
           IN  Ingested(IngestData(strategy, receiver, AlteredWire(wire, i)),
                        SimReceive(strategy, twin, AlteredPacket(SimPacket(strategy, current, b), i)))

\* After a useful packet the actor forwards, if the strategy's condition says so ...
Forward ==
    /\ stage = "useful"
    /\ LET complete == ObjectComplete(strategy, receiver)
           forwards == IF strategy = "Baseline" THEN complete ELSE ~complete
           alphas == [l \in 1 .. Len(receiver.decoder.coded) |-> 1]
       IN  stage' = IF forwards /\ Recode(strategy, receiver, alphas) = Err
                    THEN "panicked" ELSE "forwarded"
    /\ UNCHANGED <<strategy, height, proposer, receiver, twin, current, answer, output>>

\* ... and decodes if it can.
Complete ==
    /\ stage = "forwarded"
    /\ ObjectComplete(strategy, receiver)
    /\ LET decoded == Decode(strategy, receiver)
       IN  /\ receiver' = decoded.object
           /\ output' = [object |-> decoded.block,
                         twin |-> SimDecode(strategy, twin, SimByteLen(current))]
           /\ stage' = IF decoded.block = Err THEN "panicked" ELSE "decoded"
    /\ UNCHANGED <<strategy, height, proposer, twin, current, answer>>

Incomplete ==
    /\ stage = "forwarded"
    /\ ~ObjectComplete(strategy, receiver)
    /\ stage' = "decoding"
    /\ UNCHANGED <<strategy, height, proposer, receiver, twin, current, answer, output>>

\* Between blocks the object is reset; the simulator makes new states.
Advance ==
    /\ stage = "decoded"
    /\ receiver' = ResetObject(strategy, receiver)
    /\ twin' = SimReceiver(strategy, current + 1)
    /\ current' = current + 1
    /\ stage' = IF current = NumBlocks THEN "stopped" ELSE "init"
    /\ answer' = [object |-> "none", twin |-> "none"]
    /\ output' = [object |-> Err, twin |-> Err]
    /\ UNCHANGED <<strategy, height, proposer>>

Next ==
    \/ Propose \/ Announced \/ ReceiveBlock \/ ReceiveCutBlock
    \/ \E b \in Honest : ReceivePacket(b) \/ ReceiveCutPacket(b) \/ ReceiveAltered(b)
    \/ Forward \/ Complete \/ Incomplete \/ Advance

Spec == Init /\ [][Next]_protocolVars

---------------------------------------------------------------------------

\* What a decoder collects of a block, and what a proof is.
Data == [1 .. M -> Field]
Proofs ==
    IF strategy = "Pedersen"
    THEN [commitments : [1 .. N -> Data], signature : [1 .. N -> Data]]
    ELSE [id : 1 .. 2 * NumBlocks + 1, message : [1 .. M + N -> Field]]

\* Chunks of the length all nodes compute, no more than N of them, and for each a row of
\* the echelon form and a proof.
CollectsOK(o) ==
    /\ o.decoder.coded \in Seq([w : Data, b : Vector])
    /\ Len(o.decoder.coded) <= N
    /\ Rank(o.decoder.echelon) = Len(o.decoder.coded)
    /\ o.proofs \in Seq(Proofs)
    /\ Len(o.proofs) = Len(o.decoder.coded)

\* What else an object keeps is nothing, or of a block.
ObjectOK(o) ==
    /\ CollectsOK(o)
    /\ o.ctx = Err \/ \E n \in 1 .. NumBlocks : o.ctx = Ok(HashPoints(n))
    /\ o.byteLen = 0 \/ \E n \in 1 .. NumBlocks : o.byteLen = EncodeSize(Blocks[n])
    /\ o.block = Err \/ \E n \in 1 .. NumBlocks : o.block = Ok(Blocks[n])
    /\ o.blockBytes = Err \/ \E n \in 1 .. NumBlocks : o.blockBytes = Ok(Write(Blocks[n]))

\* The variables' types.  An object holds no more than N chunks, with a proof for each;
\* what it has beside them is one block's; and BFKW's receiver has a context from the
\* announcement to the reset.
ProtocolTypeOK ==
    /\ strategy \in Strategies /\ height \in 0 .. NumBlocks
    /\ current \in 1 .. NumBlocks + 1
    /\ stage \in {"init", "decoding", "useful", "forwarded", "decoded", "stopped", "panicked"}
    /\ ObjectOK(proposer) /\ ObjectOK(receiver)
    /\ strategy = "BFKW" =>
            (receiver.ctx = Err <=> stage \in {"init", "stopped"})
    /\ CollectsOK(twin)
    /\ twin.ctx = IF strategy = "BFKW" THEN Ok(HashPoints(BlockHash(current))) ELSE Err
    /\ twin.blockBytes = Err \/ twin.blockBytes[1] \in Seq(Byte)
    /\ answer \in [object : Answers, twin : Answers]
    /\ \A block \in {output.object, output.twin} :
            block = Err \/ \E n \in 1 .. NumBlocks : block = Ok(Blocks[n])

\* In the actor's order of calls no assertion, expect or slice of the three protocols
\* panics: recode has something to recode, decode a whole block.
NeverPanics == stage # "panicked"

\* The simulator's baseline takes the first bytes it is given, without looking at them:
\* the twin holds on to a beginning of a block, which the node's object has rejected.
Misled ==
    /\ strategy = "Baseline"
    /\ twin.blockBytes # Err /\ twin.blockBytes # Ok(Write(Blocks[current]))

\* What decode returns is the block proposed under that number, whichever packets
\* brought it, damaged ones among them.  So does decode of the simulator's strategies,
\* which panics when the twin was misled.
DecodesProposed ==
    stage = "decoded" =>
        output = [object |-> Ok(Blocks[current]),
                  twin |-> IF Misled THEN Err ELSE Ok(Blocks[current])]

\* The packets the object sends when it may.
Sends(o) ==
    IF strategy = "Baseline" THEN {RecodeBlock(o)} \ {Err}
    ELSE {RecodePacket(strategy, o, alphas) :
            alphas \in RandomCoefficients(Len(o.decoder.coded))} \ {Err}

\* Whatever a proposer or a receiver at any rank sends, a peer that has heard the
\* announcement of that block and knows nothing else finds readable, authentic and
\* useful: with zero elements, zero coefficients and commitments to empty chunks too.
\* So does a node of the simulator with what the twin forwards (the baseline's whatever
\* it is).
PeersUnderstand ==
    /\ current <= NumBlocks =>
          \A packet \in SimForwards(strategy, twin) :
              SimReceive(strategy, SimReceiver(strategy, current), packet).answer = "innovative"
    /\ \A n \in 1 .. NumBlocks :
          LET peer == IngestAnnouncement(strategy, NewObject, n, EncodeSize(Blocks[n]))
              sent == (IF n = height THEN Sends(proposer) ELSE {})
                          \union (IF n = current THEN Sends(receiver) ELSE {})
          IN  \A wire \in sent : IngestData(strategy, peer, wire[1]).answer = "innovative"

\* What object and twin answered to the packet they were given last.
AnswersAgree ==
    /\ ~Misled =>
          answer.object = answer.twin \/ answer = [object |-> "rejected", twin |-> "none"]
    /\ Misled =>
          \/ stage = "decoding" /\ answer.object = "rejected"
          \/ /\ stage \in {"useful", "forwarded", "decoded"}
             /\ answer = [object |-> "innovative", twin |-> "redundant"]

\* The simulator's strategies and the node's protocols give every packet that can be
\* given to both the same answer, the altered ones included, keep the same chunks, and
\* are complete together.  They part where a block cut off comes first: then the
\* object rejects what is no block and takes the block when it comes, while the twin
\* took what is no block and finds the block redundant.  What is cut off of a coded
\* packet only the object is given, and rejects.
TwinsAgree ==
    /\ AnswersAgree
    /\ ~Misled /\ stage \in {"decoding", "useful", "forwarded"} =>
          /\ ObjectComplete(strategy, receiver) = SimCanDecode(strategy, twin)
          /\ receiver.decoder = twin.decoder
=============================================================================
