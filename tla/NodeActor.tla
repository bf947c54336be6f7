----------------------------- MODULE NodeActor -----------------------------
(***************************************************************************)
(* The receiver side of the P2P node: `NodeActor::run_receiver` and        *)
(* `NodeActor::route` (crates/node/src/actor.rs), with the per-block state *)
(* of the three `Protocol` implementations (baseline, pedersen, bfkw).     *)
(*                                                                         *)
(* A receiver is one task.  It takes one message at a time from two        *)
(* channels, `announce` and `data`, in any order, and runs `route` on it:  *)
(* a message of an earlier block is dropped, one of a later block is       *)
(* buffered, one of the current block starts a work queue which the loop   *)
(* drains, pushing buffered messages as the node's state advances.  One    *)
(* iteration of that loop is one action here.                              *)
(*                                                                         *)
(* The environment is open: any honest message of any block may arrive at  *)
(* any time, any number of times.  Module Network closes it.               *)
(*                                                                         *)
(* Packets and what they let a node derive: module PacketSpace.            *)
(***************************************************************************)
EXTENDS PacketSpace, Sequences

CONSTANTS Receiver,     \* the receiving nodes
          Peer,         \* everyone who can send to them
          NoPeer,       \* "sender unknown": a message out of the buffer
          NumBlocks     \* --num-blocks

ASSUME BlocksAssumption == NumBlocks \in Nat
ASSUME PeerAssumption == NoPeer \notin Peer

VARIABLES phase,          \* ActorState: "Init" or "Decoding" ...
          block,          \* ... and the block number it carries
          bufAnn,         \* buffer: announcements held, per block
          bufData,        \* buffer: data packets held, per block, in order
          work,           \* route's work queue
          forwarded,      \* forwarded anything for this block yet?
          ctx,            \* the block the protocol's announcement state is of
          accepted,       \* the decoder's independent packets
          decoded_count,  \* run_receiver's counter
          running         \* FALSE once a channel was closed

\* History: what arrived, what was decoded, what was sent.
VARIABLES got,        \* data packets received
          heard,      \* blocks whose announcement was received
          decoded,    \* one record per decoded block, in order
          failed,     \* ingests that returned Err (packets_failed)
          fwds,       \* forwarding rounds, per block
          rebcast     \* announcement re-broadcasts, per block

actorVars == <<phase, block, bufAnn, bufData, work, forwarded, running>>
protocolVars == <<ctx, accepted, decoded_count>>
historyVars == <<got, heard, decoded, failed, fwds, rebcast>>
nodeVars == <<actorVars, protocolVars, historyVars>>

-----------------------------------------------------------------------------
NoBlock == -1
Blocks == 0 .. NumBlocks - 1     \* the blocks the proposer announces
BlockNum == 0 .. NumBlocks       \* the block numbers a receiver can reach

Packet == [block : Blocks, vec : Vec]
AnnMsg == [ch : {"announce"}, block : Blocks, from : Peer \cup {NoPeer}]
DataMsg == [ch : {"data"}, block : Blocks, vec : Vec, from : Peer \cup {NoPeer}]
Message == AnnMsg \cup DataMsg

\* What a peer puts on the wire: the sender is always known there.
Announcement(b, p) == [ch |-> "announce", block |-> b, from |-> p]
Data(b, v, p) == [ch |-> "data", block |-> b, vec |-> v, from |-> p]

\* The work-queue items that a buffer entry of block b turns into.
AnnItemsButOne(b, n) == [i \in 1 .. n - 1 |-> Announcement(b, NoPeer)]              \* mutant
AnnItems(b, n) == [i \in 1 .. n |-> Announcement(b, NoPeer)]
DataItemsButOne(b, vs) == [i \in 1 .. Len(vs) - 1 |-> Data(b, vs[i], NoPeer)]        \* mutant
DataItems(b, vs) == [i \in 1 .. Len(vs) |-> Data(b, vs[i], NoPeer)]

\* Per-receiver, per-block tables, and one with an entry replaced.
CountTable == [Receiver -> [BlockNum -> Nat]]
QueueTable == [Receiver -> [BlockNum -> Seq(Vec)]]
SetAt(f, r, b, x) == [f EXCEPT ![r] = [@ EXCEPT ![b] = x]]

Vecs(S) == {p.vec : p \in S}
CompleteAtOnce(S) == S # {}      \* mutant: full rank is not required
Complete(S) == Span[Vecs(S)] = Vec

Init ==
    /\ phase = [r \in Receiver |-> "Init"]
    /\ block = [r \in Receiver |-> 0]
    /\ bufAnn = [r \in Receiver |-> [b \in BlockNum |-> 0]]
    /\ bufData = [r \in Receiver |-> [b \in BlockNum |-> <<>>]]
    /\ work = [r \in Receiver |-> <<>>]
    /\ forwarded = [r \in Receiver |-> FALSE]
    /\ ctx = [r \in Receiver |-> NoBlock]
    /\ accepted = [r \in Receiver |-> {}]
    /\ decoded_count = [r \in Receiver |-> 0]
    /\ running = [r \in Receiver |-> TRUE]
    /\ got = [r \in Receiver |-> {}]
    /\ heard = [r \in Receiver |-> {}]
    /\ decoded = [r \in Receiver |-> <<>>]
    /\ failed = [r \in Receiver |-> 0]
    /\ fwds = [r \in Receiver |-> [b \in BlockNum |-> 0]]
    /\ rebcast = [r \in Receiver |-> [b \in BlockNum |-> 0]]

-----------------------------------------------------------------------------
(***************************************************************************)
(* run_receiver and the head of route.                                     *)
(***************************************************************************)

\* The select loop waits for a message: the last one is dealt with and some
\* block is still to come.
Listening(r) ==
    /\ running[r]
    /\ work[r] = <<>>
    /\ decoded_count[r] < NumBlocks

\* The comparisons of the message's block with the node's.  The mutant forgets one.
Stale(r, m) == m.block < block[r]
FutureOrStale(r, m) == m.block # block[r]
Future(r, m) == m.block > block[r]
Current(r, m) == m.block = block[r]

Record(r, m) ==
    /\ got' = IF m.ch = "data"
              THEN [got EXCEPT ![r] = @ \cup {[block |-> m.block, vec |-> m.vec]}]
              ELSE got
    /\ heard' = IF m.ch = "announce" THEN [heard EXCEPT ![r] = @ \cup {m.block}] ELSE heard
    /\ UNCHANGED <<decoded, failed, fwds, rebcast>>

\* A message of an earlier block is discarded.
RouteStale(r, m) ==
    /\ Listening(r)
    /\ Stale(r, m)
    /\ Record(r, m)
    /\ UNCHANGED <<actorVars, protocolVars>>

\* A message of a later block waits in the buffer, without its sender.
RouteFuture(r, m) ==
    /\ Listening(r)
    /\ Future(r, m)
    /\ bufAnn' = IF m.ch = "announce"
                 THEN SetAt(bufAnn, r, m.block, bufAnn[r][m.block] + 1)
                 ELSE bufAnn
    /\ bufData' = IF m.ch = "data"
                  THEN SetAt(bufData, r, m.block, Append(bufData[r][m.block], m.vec))
                  ELSE bufData
    /\ Record(r, m)
    /\ UNCHANGED <<phase, block, work, forwarded, running, protocolVars>>

\* A message of the current block starts the work queue.
RouteCurrent(r, m) ==
    /\ Listening(r)
    /\ Current(r, m)
    /\ work' = [work EXCEPT ![r] = <<m>>]
    /\ Record(r, m)
    /\ UNCHANGED <<phase, block, bufAnn, bufData, forwarded, running, protocolVars>>

Receive(r, m) == RouteStale(r, m) \/ RouteFuture(r, m) \/ RouteCurrent(r, m)

\* recv() returned Err: the loop breaks for good.
ChannelClosed(r) ==
    /\ Listening(r)
    /\ running' = [running EXCEPT ![r] = FALSE]
    /\ UNCHANGED <<phase, block, bufAnn, bufData, work, forwarded, protocolVars, historyVars>>

-----------------------------------------------------------------------------
(***************************************************************************)
(* One iteration of route's work loop.                                     *)
(***************************************************************************)

\* The loop holds an item of the current block.
WorkingAnyBlock(r) == work[r] # <<>>     \* mutant: the check for stale items is missing
Working(r) == work[r] # <<>> /\ Head(work[r]).block = block[r]
PopTo(r, rest) == work' = [work EXCEPT ![r] = Tail(@) \o rest]

\* The state moved on since the item was queued.
SkipItem(r) ==
    /\ work[r] # <<>>
    /\ Head(work[r]).block # block[r]
    /\ PopTo(r, <<>>)
    /\ UNCHANGED <<phase, block, bufAnn, bufData, forwarded, running, protocolVars, historyVars>>

\* Mutant of the next action: the channel is not looked at.
IngestAnything(r) ==
    /\ Working(r)
    /\ phase[r] = "Init"
    /\ phase' = [phase EXCEPT ![r] = "Decoding"]
    /\ ctx' = [ctx EXCEPT ![r] = block[r]]
    /\ rebcast' = SetAt(rebcast, r, block[r], rebcast[r][block[r]] + 1)
    /\ PopTo(r, DataItems(block[r], bufData[r][block[r]]))
    /\ bufAnn' = SetAt(bufAnn, r, block[r], 0)
    /\ bufData' = SetAt(bufData, r, block[r], <<>>)
    /\ UNCHANGED <<block, forwarded, running, accepted, decoded_count,
                   got, heard, decoded, failed, fwds>>

\* The announcement the node waits for: ingest it, start decoding, pass it on
\* to every peer and queue the data that came before it.  Honest announcements are read
\* without an error; one that is not would change nothing, and is not modelled, nor is
\* a message too short for a block number, which run_receiver drops, as it does the probe.
IngestAnnouncement(r) ==
    /\ Working(r)
    /\ phase[r] = "Init"
    /\ Head(work[r]).ch = "announce"
    /\ phase' = [phase EXCEPT ![r] = "Decoding"]
    /\ ctx' = [ctx EXCEPT ![r] = block[r]]
    /\ rebcast' = SetAt(rebcast, r, block[r], rebcast[r][block[r]] + 1)
    /\ PopTo(r, DataItems(block[r], bufData[r][block[r]]))
    /\ bufAnn' = SetAt(bufAnn, r, block[r], 0)
    /\ bufData' = SetAt(bufData, r, block[r], <<>>)
    /\ UNCHANGED <<block, forwarded, running, accepted, decoded_count,
                   got, heard, decoded, failed, fwds>>

\* Mutant of the next action: every copy is passed on.
FloodAnnouncement(r) ==
    /\ Working(r)
    /\ phase[r] = "Decoding"
    /\ Head(work[r]).ch = "announce"
    /\ PopTo(r, <<>>)
    /\ rebcast' = SetAt(rebcast, r, block[r], rebcast[r][block[r]] + 1)
    /\ UNCHANGED <<phase, block, bufAnn, bufData, forwarded, running, protocolVars,
                   got, heard, decoded, failed, fwds>>

\* Another copy of an announcement already dealt with.
IgnoreAnnouncement(r) ==
    /\ Working(r)
    /\ phase[r] = "Decoding"
    /\ Head(work[r]).ch = "announce"
    /\ PopTo(r, <<>>)
    /\ UNCHANGED <<phase, block, bufAnn, bufData, forwarded, running, protocolVars, historyVars>>

\* Data before its announcement: back to the buffer.
BufferData(r) ==
    /\ Working(r)
    /\ phase[r] = "Init"
    /\ Head(work[r]).ch = "data"
    /\ PopTo(r, <<>>)
    /\ bufData' = SetAt(bufData, r, block[r], Append(bufData[r][block[r]], Head(work[r]).vec))
    /\ UNCHANGED <<phase, block, bufAnn, forwarded, running, protocolVars, historyVars>>

-----------------------------------------------------------------------------
(***************************************************************************)
(* Protocol::ingest on the data channel, and what route does with it.      *)
(***************************************************************************)

\* Verification needs the context of the packet's own block.  That is always there, so
\* the branch of a packet that fails is never taken; NoIngestError says so.
Verifies(r, m) == ctx[r] = m.block

\* A packet outside what the decoder can derive raises its rank.
Innovative(r, m) == m.vec \notin Span[Vecs(accepted[r])]

\* Mutant: data is ingested whether the announcement is in or not.
IngestingEarly(r) ==
    /\ Working(r)
    /\ Head(work[r]).ch = "data"

Ingesting(r) ==
    /\ Working(r)
    /\ phase[r] = "Decoding"
    /\ Head(work[r]).ch = "data"

\* The decoder's packets once the head of the queue is among them.
Extended(r) == accepted[r] \cup {[block |-> block[r], vec |-> Head(work[r]).vec]}

\* Ok(false) or Err: counted, nothing else.
RejectData(r) ==
    /\ Ingesting(r)
    /\ LET m == Head(work[r])
       IN  /\ ~Verifies(r, m) \/ ~Innovative(r, m)
           /\ failed' = IF Verifies(r, m) THEN failed ELSE [failed EXCEPT ![r] = @ + 1]
    /\ PopTo(r, <<>>)
    /\ UNCHANGED <<phase, block, bufAnn, bufData, forwarded, running, protocolVars,
                   got, heard, decoded, fwds, rebcast>>

\* Mutant: forward at every rank increase.
ShouldForwardAlways(complete, already) == TRUE

\* The match on forward_condition().
ShouldForward(complete, already) ==
    CASE ForwardWhen = "AfterDecode" -> complete /\ ~already
      [] ForwardWhen = "UntilDecode" -> ~complete
      [] ForwardWhen = "OneShot" -> ~already

Forwards(r) == ShouldForward(Complete(Extended(r)), forwarded[r])

\* Ok(true), rank still short of N: maybe forward a recoding.
AcceptData(r) ==
    /\ Ingesting(r)
    /\ Verifies(r, Head(work[r]))
    /\ Innovative(r, Head(work[r]))
    /\ ~Complete(Extended(r))
    /\ accepted' = [accepted EXCEPT ![r] = Extended(r)]
    /\ forwarded' = [forwarded EXCEPT ![r] = @ \/ Forwards(r)]
    /\ fwds' = IF Forwards(r) THEN SetAt(fwds, r, block[r], fwds[r][block[r]] + 1) ELSE fwds
    /\ PopTo(r, <<>>)
    /\ UNCHANGED <<phase, block, bufAnn, bufData, running, ctx, decoded_count,
                   got, heard, decoded, failed, rebcast>>

\* Protocol::reset: announcement state and decoder.  The mutants forget one.
ResetDecoderOnly(r) == accepted' = [accepted EXCEPT ![r] = {}] /\ UNCHANGED ctx
ResetContextOnly(r) ==
    /\ accepted' = [accepted EXCEPT ![r] = Extended(r)]
    /\ ctx' = [ctx EXCEPT ![r] = NoBlock]
ResetProtocol(r) ==
    /\ accepted' = [accepted EXCEPT ![r] = {}]
    /\ ctx' = [ctx EXCEPT ![r] = NoBlock]

\* Ok(true), full rank: maybe forward, then decode, reset the protocol, move
\* to the next block and queue what is buffered for it, announcements first.
CompleteBlock(r) ==
    /\ Ingesting(r)
    /\ Verifies(r, Head(work[r]))
    /\ Innovative(r, Head(work[r]))
    /\ Complete(Extended(r))
    /\ fwds' = IF Forwards(r) THEN SetAt(fwds, r, block[r], fwds[r][block[r]] + 1) ELSE fwds
    /\ decoded' = [decoded EXCEPT ![r] = Append(@, [ctx |-> ctx[r], packets |-> Extended(r)])]
    /\ decoded_count' = [decoded_count EXCEPT ![r] = @ + 1]
    /\ ResetProtocol(r)
    /\ forwarded' = [forwarded EXCEPT ![r] = FALSE]
    /\ phase' = [phase EXCEPT ![r] = "Init"]
    /\ LET next == block[r] + 1
       IN  /\ block' = [block EXCEPT ![r] = next]
           /\ PopTo(r, AnnItems(next, bufAnn[r][next]) \o DataItems(next, bufData[r][next]))
           /\ bufAnn' = SetAt(bufAnn, r, next, 0)
           /\ bufData' = SetAt(bufData, r, next, <<>>)
    /\ UNCHANGED <<running, got, heard, failed, rebcast>>

-----------------------------------------------------------------------------
Step(r) ==
    \/ SkipItem(r)
    \/ IngestAnnouncement(r)
    \/ IgnoreAnnouncement(r)
    \/ BufferData(r)
    \/ RejectData(r)
    \/ AcceptData(r)
    \/ CompleteBlock(r)

\* Whatever honest peers send: the sender is known on arrival.
Arriving == {m \in Message : m.from # NoPeer}

Next ==
    \E r \in Receiver :
        \/ \E m \in Arriving : Receive(r, m)
        \/ ChannelClosed(r)
        \/ Step(r)

\* The loop never awaits anything but sends, so a started route finishes.
Fairness == \A r \in Receiver : WF_nodeVars(Step(r))

Spec == Init /\ [][Next]_nodeVars
FairSpec == Spec /\ Fairness

-----------------------------------------------------------------------------
(***************************************************************************)
(* Properties.                                                             *)
(***************************************************************************)

DecodedRecord == [ctx : Blocks, packets : SUBSET Packet]

\* Every variable keeps its type; the work queue and the buffer hold messages of
\* announced blocks only.
TypeOK ==
    /\ phase \in [Receiver -> {"Init", "Decoding"}]
    /\ block \in [Receiver -> BlockNum]
    /\ bufAnn \in CountTable
    /\ bufData \in QueueTable
    /\ \A r \in Receiver : bufAnn[r][NumBlocks] = 0 /\ bufData[r][NumBlocks] = <<>>
    /\ work \in [Receiver -> Seq(Message)]
    /\ forwarded \in [Receiver -> BOOLEAN]
    /\ ctx \in [Receiver -> Blocks \cup {NoBlock}]
    /\ accepted \in [Receiver -> SUBSET Packet]
    /\ decoded_count \in [Receiver -> BlockNum]
    /\ running \in [Receiver -> BOOLEAN]
    /\ got \in [Receiver -> SUBSET Packet]
    /\ heard \in [Receiver -> SUBSET Blocks]
    /\ decoded \in [Receiver -> Seq(DecodedRecord)]
    /\ failed \in [Receiver -> Nat]
    /\ fwds \in CountTable
    /\ rebcast \in CountTable

\* The protocol object is reused from block to block.  Its announcement state
\* and its decoder are always those of the current block: the announcement is
\* in exactly while decoding, and no accepted packet is of another block.
IsolatedAt(r) ==
    /\ ctx[r] = IF phase[r] = "Decoding" THEN block[r] ELSE NoBlock
    /\ phase[r] = "Init" => accepted[r] = {}
    /\ \A p \in accepted[r] : p.block = block[r]

BlockIsolation == \A r \in Receiver : IsolatedAt(r)

\* No honest packet ever fails to ingest ("data received before announcement",
\* or a check against another block's context), in whatever order messages come.
NoIngestError == \A r \in Receiver : failed[r] = 0

\* Blocks are decoded once each and in order; decode() ran with the announcement
\* of its own block, on packets of that block only, and on enough of them.
DecodedAt(r) ==
    /\ decoded_count[r] = block[r]
    /\ Len(decoded[r]) = block[r]
    /\ \A i \in 1 .. block[r] :
           /\ decoded[r][i].ctx = i - 1
           /\ \A p \in decoded[r][i].packets : p.block = i - 1
           /\ Span[Vecs(decoded[r][i].packets)] = Vec

DecodedInOrder == \A r \in Receiver : DecodedAt(r)

\* A packet is held if it waits in the buffer or the work queue, or if the
\* decoder can derive it.
InBuffer(r, p) ==
    \E i \in 1 .. Len(bufData[r][p.block]) : bufData[r][p.block][i] = p.vec
InWork(r, p) ==
    \E i \in 1 .. Len(work[r]) :
        work[r][i].ch = "data" /\ work[r][i].block = p.block /\ work[r][i].vec = p.vec
Derived(r, p) == p.block = block[r] /\ p.vec \in Span[Vecs(accepted[r])]

\* A data packet that arrived, early or not, is held until its block is decoded.
KeptAt(r) ==
    \A p \in got[r] : p.block >= block[r] => InBuffer(r, p) \/ InWork(r, p) \/ Derived(r, p)

\* What a node holds for a message, or made of it, has arrived: as an announcement
\* heard, or as a packet of the very block it is kept under.
Arrived(r, m) ==
    IF m.ch = "announce"
    THEN m.block \in heard[r]
    ELSE [block |-> m.block, vec |-> m.vec] \in got[r]

\* Nothing is made up: through buffering (which forgets the sender), draining,
\* requeueing and reset, whatever waits in the buffer or the queue, is in the decoder
\* or was decoded came in as that block's; a node decodes, and moves on, only with
\* the announcement.
OriginAt(r) ==
    /\ \A b \in BlockNum : bufAnn[r][b] > 0 => b \in heard[r]
    /\ \A b \in BlockNum : \A i \in 1 .. Len(bufData[r][b]) :
           [block |-> b, vec |-> bufData[r][b][i]] \in got[r]
    /\ \A i \in 1 .. Len(work[r]) : Arrived(r, work[r][i])
    /\ accepted[r] \subseteq got[r]
    /\ phase[r] = "Decoding" => block[r] \in heard[r]
    /\ \A b \in Blocks : b < block[r] =>
           b \in heard[r] /\ decoded[r][b + 1].packets \subseteq got[r]

NothingInvented == \A r \in Receiver : OriginAt(r)

\* An announcement that arrived is in the buffer or the work queue or was ingested.  So a listening node in Init(n) has not heard of block n.
AnnInWork(r, b) ==
    \E i \in 1 .. Len(work[r]) : work[r][i].ch = "announce" /\ work[r][i].block = b
AnnKeptAt(r) ==
    \A b \in heard[r] :
        /\ b > block[r] => bufAnn[r][b] > 0
        /\ b = block[r] => phase[r] = "Decoding" \/ AnnInWork(r, b)

\* Nothing that arrived is lost through buffering, draining, requeueing and reset,
\* whatever the order of the two channels.
NothingLost == \A r \in Receiver : KeptAt(r) /\ AnnKeptAt(r)

\* The buffer holds nothing a node has no more use for: no earlier block, no
\* announcement of the current one, and nothing of it once it is decoding.
PrunedAt(r) ==
    /\ \A b \in BlockNum : b < block[r] => bufAnn[r][b] = 0 /\ bufData[r][b] = <<>>
    /\ bufAnn[r][block[r]] = 0
    /\ phase[r] = "Decoding" => bufData[r][block[r]] = <<>>

\* The work queue never runs ahead of the node: a skipped item is a stale one.
NotAheadAt(r) == \A i \in 1 .. Len(work[r]) : work[r][i].block <= block[r]

\* What waits is waiting for its turn: nothing out of turn is kept or worked on.
NothingOutOfTurn == \A r \in Receiver : PrunedAt(r) /\ NotAheadAt(r)

\* A node passes an announcement on once per block, as it starts decoding it,
\* however many copies reach it: the flood ends.
AnnouncedAt(r) ==
    \A b \in BlockNum :
        rebcast[r][b] = IF b < block[r] \/ (b = block[r] /\ phase[r] = "Decoding")
                        THEN 1 ELSE 0

AnnouncedOnce == \A r \in Receiver : AnnouncedAt(r)

\* How often a node forwards a block it has taken S packets of.
ForwardRounds(S, complete) ==
    CASE ForwardWhen = "AfterDecode" -> IF complete THEN 1 ELSE 0
      [] ForwardWhen = "OneShot" -> IF S = {} THEN 0 ELSE 1
      [] ForwardWhen = "UntilDecode" -> IF complete THEN Cardinality(S) - 1 ELSE Cardinality(S)

\* Forwarding follows the strategy's condition for every block, the ones drained
\* from the buffer included: AfterDecode forwards once, as the block completes,
\* OneShot once, at the first useful packet, UntilDecode at every rank increase
\* short of the completing one.
ForwardAt(r) ==
    /\ \A b \in BlockNum : b < block[r] =>
          fwds[r][b] = ForwardRounds(decoded[r][b + 1].packets, TRUE)
    /\ fwds[r][block[r]] = ForwardRounds(accepted[r], FALSE)
    /\ \A b \in BlockNum : b > block[r] => fwds[r][b] = 0

ForwardPolicy == \A r \in Receiver : ForwardAt(r)

\* As ForwardCondition::UntilDecode is documented: every rank increase is
\* forwarded, the decode-completing one included.
ForwardsEveryRankIncrease ==
    \A r \in Receiver : \A b \in Blocks :
        b < block[r] => fwds[r][b] = Cardinality(decoded[r][b + 1].packets)

\* Enough arrived for block b.
Supplied(r, b) ==
    /\ b \in heard[r]
    /\ Complete({p \in got[r] : p.block = b})

\* A node that was sent the announcement and enough packets of every block
\* decodes them all, whatever the order, unless its channels were closed first.
SuppliedNodeDecodes ==
    \A r \in Receiver :
        (\A b \in Blocks : Supplied(r, b)) ~> (decoded_count[r] = NumBlocks \/ ~running[r])
=============================================================================
