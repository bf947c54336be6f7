# RLNC block propagation: TLA+ models, checks and proofs

A verification project for `roynalnaruto/rlnc`, a Rust workspace that propagates
blocks through a peer-to-peer network with random linear network coding. Paths
below are under `src/crates/` of the repository.

## 1. Inventory

| Part | Source | State | Operations | Modelled in |
|---|---|---|---|---|
| Receiver actor | `node/src/actor.rs` (`run_receiver`, `route`) | `state` (`Init(n)`/`Decoding(n)`), `buffer`, `forwarded`, the local work queue, `decoded_count` | take a message, route it, run the work loop | `NodeActor` |
| Proposer actor | `node/src/actor.rs` (`run_proposer`) | block counter | probe, propose, announce, send data | `Network` |
| Protocols | `node/src/{protocol,baseline,pedersen,bfkw}.rs` | decoder, proofs, announcement context, `byte_len`, the block's bytes | `propose`, `ingest`, `is_complete`, `recode`, `decode`, `reset` | `Protocols` (in full), `NodeActor` (what the actor sees) |
| P2P layer | commonware-p2p, wired in `node/src/main.rs` | connections, mailboxes, quotas | `send`, `recv` | `Network` (external) |
| Echelon form | `primitives/math/src/{echelon,linalg}.rs` | rows, pivots, transformation | `add_row`, `inverse`, `reset`, `linear_combination`, `reencode` | `LinearAlgebra`, `Echelon` |
| Block decoder | `primitives/types/src/coding.rs` | coded chunks, echelon | `add`, `decode`, `reencode_with`, `reset` | `BlockDecoder`, `CodedDecoder` |
| Schemes and strategies | `strategy/core`, `strategy/pedersen`, `strategy/bfkw`, `strategy/baseline` | proofs, simulator node states | `coded_receive`, `coded_forward`, sign, `verify`, `combine`, wire forms; `init_*`, `receive`, `can_decode`, `forward`, `decode` | `Integrity` (symbolic groups), `Protocols` |
| Block codec, packing | `primitives/types/src/{block,util}.rs`, `compute_m` | none | `write`, `read_cfg`, `as_chunks`, `from_chunks`, `pack`, `unpack` | `Packing`, `BlockCodec`, `Chunking` |
| Simulator engine | `sim/src/{engine,strategy}.rs` | event heap, node states, decode times, counters | `run`: set up, pop, receive, forward, report | `SimEngine` |
| Simulator topology | `sim/src/topology.rs` | peers of each node | `random_mesh` | `Mesh` |
| Deployment generator | `deploy/src/main.rs` | a directory of files | `generate local`, `generate docker` | `Deployment` |
| Node start-up | `node/src/{config,main}.rs` | none | read two files, set up identity, peers, protocol | `Deployment` |
| Metrics, simulator configuration, comparison | `node/src/metrics.rs`, `sim/src/{config,metrics}.rs`, `sim/src/bin` | counters | printing, means | no |

**Interactions.** The proposer announces a block to everyone connected and sends
one coded packet to each of `mesh_degree` random peers, once. A receiver that
ingests the announcement it waits for re-broadcasts it to everyone, decodes, and
forwards recodings under its strategy's `ForwardCondition`; at full rank it
decodes the block, resets the *same* protocol object, and goes on to the next block
with what it had buffered. Announcements and data travel on two independent
channels.

The simulator runs the same strategies without actors: one loop pops packets off a
time-ordered heap, gives them to the receiving node's strategy and, when that
strategy's condition says so, pushes one recoding per peer of a random mesh.

All nodes read files that one generator wrote. Nothing on the wire states the
strategy, the chunk dimension, the number of blocks or the proposer's key: that
nodes agree on them rests on those files.

**What is hard.** One task per node, so no shared memory; the difficulty is in
*orders*: data before announcement, blocks ahead of their turn, repeated
announcements, several blocks drained inside one call, items of a finished block
left in the queue, state that must be reset between blocks. In the network:
nothing is retried, so loss and too few packets decide liveness. In the
decoder: elimination, transformation, chunks and proofs are parallel structures
that must move together at every rank. In the simulator: nothing is
retransmitted either, so who is reached, when, and whether the run ends rest on
the mesh, the order of the heap, the forwarding condition and on recodings
never being zero. Between bytes and field elements: padding, lengths, and the
codec's refusal of zero and of the identity. In a deployment: u16 arithmetic,
files of an earlier generation, and two programs that must derive one key.
`PROJECT.json` lists each hazard with its line and the properties that would catch it.

**What makes each part correct.**

* Receiver: state of one block never meets another's; nothing useful is
  dropped; no honest message fails; blocks decode once and in order; floods end;
  forwarding follows the policy; a supplied node finishes.
* Network: recoding creates no information; nobody decodes more than what got out of
  the proposer; nobody runs ahead of the proposer; blocks reach everyone.
* Decoder: it accepts exactly the authentic packets that raise the rank,
  decodes to the original, and what it re-encodes verifies at the next hop.
* Protocols: the object that serves one block after another panics in no order of
  calls the actor makes, decodes what was proposed, and sends what a newcomer
  can read, verify and use; the simulator's twin of it behaves alike, but for one case.
* Codec: a block of the configured size fits, and comes back byte by byte.
* Deployment: the nodes of one generation form one network.
* Simulator: time never runs backwards; every node is reached, along a shortest
  path; only complete nodes are skipped; each packet is accounted for; the
  loop ends; the report says what happened.

## 2. Modules

| Module | What it is |
|---|---|
| `PacketSpace` | The packets of a block and what they let one derive; extended by `NodeActor` and `SimEngine`. |
| `NodeActor` | The receivers in an open environment. |
| `MCNodeActor` | One receiver with a bounded number of deliveries. |
| `Network` | `NodeActor` composed with the proposer and the P2P layer. |
| `MCNetwork` | Packet spaces and topologies for it. |
| `NetworkProofs` | `NodeActor`: inductive invariant and nine theorems; `Network`: its safety; for every value of the constants. |
| `LinearAlgebra` | Vectors over a prime field and the span of a list of them. |
| `Packing` | Bytes to field elements and back. |
| `BlockCodec` | A block as bytes and as chunks; `compute_m`. |
| `Chunking` | One block on its way to chunks and back. |
| `CodecProofs` | Lemmas: digits, windows, the length prefix; a block's bytes and chunks are read back. |
| `ChunkingProofs` | Blocks fit and come back byte by byte, for every value of the constants. |
| `Echelon` | `IncrementalEchelon` as operators on a record. |
| `BlockDecoder` | `BlockDecoder` as operators on a record. |
| `Integrity` | Packets, the two integrity schemes, wire forms, `coded_receive` and `coded_forward`. |
| `CodedDecoder` | The decoder and its proofs as a state machine. |
| `SpanDecoder` | The abstract decoder: a linear space, and an answer. |
| `MCCodedDecoder` | A block of three chunks. |
| `IntegrityProofs` | Lemmas, from the field up: induction and folds, vectors and spans, elimination and inversion, what the decoder keeps, the two schemes, their wire forms. |
| `CodedDecoderProofs` | The decoder is right and implements the abstract one, for every prime, rank and block. |
| `Protocols` | The three `Protocol` objects and the simulator's strategies beside them; composes `BlockCodec` and `Integrity`. |
| `MCProtocols` | Two small blocks. |
| `ProtocolsProofs` | The protocols never panic, decode what was proposed, understand each other and agree with the simulator's strategies (and where they do not), for every value of the constants. |
| `Deployment` | The generator, its directory, and the nodes started from it. |
| `MCDeployment` | Two streams of keys. |
| `DeploymentProofs` | Nodes of one generation are one network, for every value of the constants. |
| `Mesh` | Every mesh `random_mesh` can return. |
| `ShortestPaths` | The abstract propagation: nearest nodes first, along shortest paths. |
| `SimEngine` | The simulator's event loop. |
| `MCSimEngine` | Packet spaces and symmetries for it. |
| `SimEngineProofs` | Meshes reach everyone; the abstract propagation is a shortest-path search; the simulator implements it, and its safety: for every value of the constants. |

### NodeActor

Variables and code: `phase`, `block` are `ActorState`; `bufAnn`, `bufData` are
`buffer` split by channel (announcements of one block are all alike, so only
their number is kept; `route` never looks at how the two kinds interleave);
`work` is the queue local to `route`; `ctx` and `accepted` are what the protocol
holds from the announcement and from data; `running` tells whether the loop broke.
`got`, `heard`, `decoded`, `failed`, `fwds`, `rebcast` are history.

`RouteStale`, `RouteFuture` and `RouteCurrent` are the head of `route`; each
branch of its loop is an action, one per iteration: `SkipItem`,
`IngestAnnouncement`, `IgnoreAnnouncement`, `BufferData`, `RejectData`, `AcceptData`,
`CompleteBlock`. A route is not atomic (it awaits sends), but
`run_receiver` takes no message before it returns: `Listening` needs an empty queue.

A packet is a point of `Vec`; `Span` says what a set of packets lets one derive.
Only closure properties of `Span` are assumed, so the model covers
coefficient vectors with linear span and the baseline's single packet alike.
`Complete` is `Span[...] = Vec`, `Innovative` is "outside the span" (that
the real decoder decides these is what the `CodedDecoder` runs show).
`Verifies` asks for the context of the packet's own block, as BFKW does; the
other two protocols ask for less. Packets are honest here, so `RejectData` never
happens unless the order of messages is at fault, which `NoIngestError` excludes;
damaged packets are in `Protocols` and `CodedDecoder`. For the same reason
`IngestAnnouncement` has only the `Ok(true)` branch: the others, and the messages that
`run_receiver` drops for being shorter than a block number (the probe is one), change
nothing.

### Network

`net` holds messages under way per sender, receiver and channel, in order.
`Transmit` lets any subset be dropped when `Lossy`. `Propose` is one turn of the
proposer's loop; its sends are one step, which loses no behaviour of interest:
the proposer reads nothing, and per-link order and loss are free. `injected` is history:
the packets of a block that got out, those a lossy `Transmit` drops at once not among
them (`GotOut`).
`NodeStep` conjoins a step of `NodeActor` with what it sends. A forwarded packet
is any point in the span of what the node knows. The random coefficients are
non-zero, so this allows a few more packets than the code can draw.

### Packing, BlockCodec, Chunking

The definitions are parameterised by what the code fixes: bytes of `Base` values (256),
`DataBytes` per element (31), a header of `HeaderBytes` (96), length digits to the base
`Half` (128), the `Slack` of `compute_m` (100), `Limit` (16 MiB).
A field element is its number; `Pack` puts the window at the high end, `Unpack` drops
the leading byte. `AsChunks` and `FromChunks` give `Err` where the code panics. The
varint prefix belongs to commonware-codec and is modelled from its use.
`Chunking` runs one block through `propose` (`Split`) and `decode` (`Rebuild`).

### Echelon, BlockDecoder, Integrity, CodedDecoder, SpanDecoder

`Echelon` transcribes `add_row` and `inverse` with folds over row indices;
skipping a zero factor in the code is subtracting zero. Groups are symbolic in `Integrity`:
a commitment is the vector it binds, a Pedersen
proof the signed list of commitments to the proposer's chunks, a BFKW
signature the message it signs with the block's id, combined linearly.
So binding and unforgeability are assumptions. A wire form is the list of its
fixed-size values; reading one keeps every early error and both special cases
(`read_field`, `read_group`). A BFKW signature that is the identity is not readable,
as in the code; only a combination of nothing would be one.

`CodedDecoder` keeps the decoder, the proofs beside it and the answer of the last ingest,
under any sequence of calls. Packets arriving are the proposer's for every coefficient
vector, and the same with data or coefficients damaged. `SpanDecoder` knows no
matrix: `ImplementsSpan` maps its `space` to the span of the coefficients kept.

### Protocols

`proposer` and `receiver` are two protocol objects with the union of the fields of the
three implementations; `ProposeWith`, `IngestAnnouncement`, `IngestData`, `Recode`,
`Decode`, `ResetObject` are the trait's methods, one operator per implementation. `stage` is
where the actor is in its loop: an ingest that returned `Ok(true)` is followed by
`Forward`, then `Complete` or `Incomplete`; `Complete` by `Advance`, which resets.
`Err` from an operator of a code path that panics leads to stage `panicked`.
`twin` is the simulator's `NodeState`, which gets the same packets as values, where the
object gets bytes; its BFKW context is made from the block hash, not the number.
A packet arrives in any honest form (any non-zero coefficient vector), or damaged:

* A coded packet with another element in its data (`ReceiveAltered`) is given to both, as
  bytes and as a value, and both answers are computed.
* A block cut off anywhere (`ReceiveCutBlock`) is given to both as well: the baseline's
  packets are bytes in the simulator too.
* A coded packet cut off anywhere (`ReceiveCutPacket`) is given to the object only: the
  simulator's packets are values and have no beginning. The twin's answer is then `none`.

The second is where node and simulator part. `BaselineProtocol::ingest` decodes what it is
given and rejects a beginning of a block; `BaselineStrategy::receive` keeps the first bytes that
come, and the block itself is then redundant to it, `can_decode` holds, and `decode` panics.
The twin is then `Misled`; `TwinsAgree` and `DecodesProposed` say what happens in either case. Bytes
of *another* block are left out: the baseline has no integrity check, both take them, and
nothing promises otherwise. The simulator's engine never damages a packet, so none of its
runs gets there.

The twin decodes with the length that its own `init_proposer` returned (`SimByteLen`), the
object with the one announced.

### Deployment

`files`, `peersFile` and `services` are the output directory: node files, `peers.yaml`,
and the services of the compose file. `Generate` runs the program with any
options of one of its two modes (`mode` is chosen at the start); the directory keeps what earlier
runs left, as in the code: `generate_docker` removes old node files, `generate_local` overwrites. Writes
happen in the code's order, so an overflow (debug builds) leaves what was written
before it, and a release build wraps. `Start` is `main` up to the actor, for any service of
the compose file, or any node file of a local directory: the documented commands name a file and
`peers.yaml` and look at nothing else. `fresh` is history: the nodes whose file is of the
generation that wrote `peers.yaml`. `generate_local` removes no files, so after it another
node's file may be older, and a node started from it has a key that `peers.yaml` does not list, or
that of another node. The properties are therefore about the nodes that are `Meant` to be one
network: all that run under Docker, and the `fresh` ones in a local directory, also where the
generation panicked halfway. What the model takes of the operator, and the generator does not check:
nodes are stopped before the next generation, and a container's metrics port is not its p2p
port. The key
pair drawn from a seed is `DrawnFrom(seed)` in both programs: that
`bls12381::PrivateKey::random` and `Scalar::random` draw the same key from the same
generator is a property of commonware-cryptography and assumed. `Omit` is the operator
who takes the documentation of `NodeConfig` at its word.

### Mesh, ShortestPaths, SimEngine

`Meshes` is the set of results of `random_mesh`: a path from node 0 through all nodes,
each node filled up to `Degree` peers. `SimEngine` starts from any of them.

`event_queue`, `accepted` (the decoders in `states`), `decode_times`,
`has_forwarded`, `upload`, `download` and the packet counters are variables of
`run`; `metrics` is its result. `now`, `rounds`, `skipped`, `injected` and
`reached` are history. Each turn of the loop is one action, by what becomes of
the packet: `Skip`, `Useful` or `Redundant`; the last two share `Conclude`, the rest
of the loop body. `Finish` is section 5 of `run`.

Abstractions. All packets of one run have the same size, so every
hop takes the same `Delay`, and bytes are counted in packets. Percentile indices are computed
exactly, where the code multiplies in `f64`. The heap
says nothing of the order of equal times, so any earliest event may be popped. Simulated
packets are authentic, so the `Err` branch of `receive` is left out. The
proposer starts with all of `Vec`. A packet is any non-zero point: the code's
coefficients are non-zero, its chunks independent. This allows more packets
than the code can draw, and all that it can.

`ShortestPaths` has neither packets nor a queue. `SimEngine` keeps its variables
as `neighbors` and `reached`; a `Useful` step to a new node is `Reach`, everything
else a stutter.

## 3. Runs

| Run | Question | Bounds |
|---|---|---|
| `node_coded` | Does the receiver keep its promises in any order of messages? | 1 receiver, 2 blocks of rank 2 over the three points of a plane, 7 deliveries with repetition |
| `network_safety` | Is recoding sound, and is nothing decoded of which too little got out? | 2 receivers, 1 block, loss, links coming up one by one |
| `network_baseline` | Does everyone decode with the baseline, never ahead of the proposer? | 2 receivers, 2 blocks, no loss, everyone a target |
| `decoder_bfkw` | Is the decoder right at every rank and order, does it keep exactly what is useful, and implement the span? | 3 chunks over GF(3), all 27 coefficient vectors, damaged packets |
| `sim_baseline` | Does everyone get the block, does the loop end, and is the report right? | 4 nodes, degree 2, all meshes, under fairness |
| `sim_until_decode` | Do forwarding, counters and contacts agree for coded packets, in any order of ties? | 4 nodes, degree 2, all meshes, rank two over GF(2) |
| `chunking` | Do blocks of every content and size fit and come back? | bytes of 4 values, windows of 2, blocks of 0 to 4 bytes, 2 chunks, `Limit` 3 |
| `protocols` | Do the three protocols and their twins work from bytes to bytes, block after block, and where do they part? | 2 blocks with a padded, empty second chunk, 2 chunks over GF(5), every coefficient vector, packets cut off anywhere and altered anywhere |
| `deployment` | Do the nodes of one generation form one network, whatever else is in the directory? | 2 or 4 nodes, 8 ports, 2 seeds, 2 strategies, debug and release, any number of generations |
| `node_until_decode_doc`, `network_too_few`, `deployment_defaults` | Findings, below | smallest instance that shows them |

**Why the bounds suffice.** Receivers do not share state, so one receiver in an
open environment sees every order. Seven deliveries allow both announcements,
both packets of both blocks, and one repetition, in every order: completing a block
needs three messages, and every branch of `route` fires with both blocks
buffered. Rank two is the smallest with an incomplete accepted set, three
points the smallest where a redundant packet differs from all accepted ones.
Two receivers
are enough for recodings of recodings. GF(3) with three chunks has pivots in every
order, swaps and non-trivial inverses; GF(5) in `protocols` distinguishes an element from its inverse.
`chunking` has full and short last windows, elements of padding only, prefixes of one, two and
three bytes, and a block over the limit. In `protocols` zero elements, zero coefficients and
commitments to an empty chunk all occur; two blocks are enough for a reset. In `deployment`
four nodes use up all eight ports, so a wrap and an overflow happen at both start ports, and the
two sizes leave stale files, as does an overflow halfway.
Four nodes with two peers each are the smallest meshes with shortcuts, cycles, and a
path of three hops; rank two lets packets be useful, redundant and late (skipped).
`sim_until_decode` takes receivers, and the three points, to be interchangeable:
`SimSpec` and all its properties treat them alike, and it checks safety only.
For safety, the proof modules remove the bounds of the node, network, decoder,
chunking, protocols, deployment and simulator runs.

**Fairness.** `Step` is weakly fair: once `route` has started it awaits only sends,
which complete. In `Network`, timers fire (`Probe`, `Propose`), connections
come up (`Connect`), and a select loop with messages waiting takes one (`Deliver`).
The number of messages is finite, so no link is passed over for ever. Nothing forces
a dropped message to arrive. The simulator is one loop: while it
can go on, it does (`WF(Next)`). Deadlock is not checked in the node, network and
simulator runs, because these processes end: a node stops after its last block, a
network runs empty, and `run` returns.

## 4. Findings

1. `node_until_decode_doc`: `strategy/core/src/lib.rs:26` defines UntilDecode as
   forwarding "on every rank increase, including the decode-completing one"; the
   node forwards only while incomplete (`actor.rs:434`). The simulator follows the
   comment (`sim/src/engine.rs:167`), so the two measure different protocols.
   The consequence: a receiver that completes with the packet only it had forwards nothing and
   resets its decoder, and its neighbours may stay short of that packet for ever.
2. `network_too_few`: a proposer sends `min(mesh_degree, peers)` packets per
   block and never more. With fewer than `N` no receiver can decode, and all of them wait
   in `Decoding` for ever. `N` is 10, the default mesh degree 8, and the five-node example of
   `src/docs/instructions.md` yields 4.
3. `deployment_defaults`: `node/src/config.rs:74,77` documents `block_size` and `num_blocks` as
   "proposer only", and both have defaults. But every node computes the chunk dimension from its
   `block_size` (`node/src/main.rs:49`), and a receiver stops after its `num_blocks`. A receiver
   without them cannot read the packets, or stops early or never. The generator writes
   both everywhere (`OneNetwork`).

Seen while reading, without a run: `random_mesh` underflows for degree 0
(`topology.rs:53`); a peer that connects
after block 0 was announced never decodes unless a neighbour re-broadcasts later;
packets for nodes that have decoded are counted as sent but neither as useful nor as redundant
(`sim/src/engine.rs:138`), so for the baseline the redundant packets of `sim/src/metrics.rs` are
always 0 (`PacketsAccounted` says what does hold); `proposer_signing_key` is documented
as a secret scalar (`config.rs:67`) and used as the seed of a generator; a block with more than
16 MiB of transactions can be proposed, and makes every coded receiver panic
(`block.rs:108`, the second half of `RoundTrip`); the Prometheus host port is computed as
`metrics_port + nodes + 1` (`deploy/src/main.rs:431`), its comment says 9090+N; `packet_wire_size`
of Pedersen leaves out the four bytes of the commitment count
(`node/src/pedersen.rs:192`, against `strategy/pedersen/src/pedersen.rs:114`); a local
generation into a used directory that is smaller, or panics halfway, leaves older node files beside the
new `peers.yaml`, which the commands of `src/docs/instructions.md` still start
(`deploy/src/main.rs:288`; `generate_docker` removes them, line 322); the simulator's baseline
takes any bytes for a block (`strategy/baseline/src/lib.rs:60`), and then says that it "has enough
data to decode the block" (`strategy/core/src/lib.rs:81`) but panics in `decode` (line 88);
the simulator's Pedersen proposer keeps one proof beside `N` chunks
(`strategy/pedersen/src/strategy.rs:108`), where the node's keeps `N`
(`CodedDecoder`'s `Propose` is the node's): harmless, since the engine never lets the proposer
receive or forward, and Pedersen's `combine` only looks at the first.

## 5. Proofs

`NetworkProofs` proves of `NodeActor`, for every finite packet space, closure operator, set of
receivers and peers, number of blocks and forward condition:

`TypeCorrect`, `Isolation`, `IngestNeverFails`, `InOrder`, `Retention`,
`Housekeeping`, `FloodOnce`, `Forwarding`: the receiver's safety invariants, one by one.

Assumptions are the named ones of `NodeActor`: `NumBlocks` is a natural number,
`NoPeer` is not a peer, `Vec` is finite, `ForwardWhen` is one of three, and
`Span` is extensive and closed (`S \subseteq Span[T]` gives `Span[S] \subseteq Span[T]`).

The argument is one inductive invariant, `IInv`: `TypeOK` and, per receiver, all the
properties at once with one strengthening, `FlagAt` (the `forwarded` flag says
whether the block was forwarded; the accepted set is finite). They
need each other: that ingests never fail rests on isolation (context is the
block's while decoding); that nothing is lost rests on the queue never being
ahead and on pruning (a skipped item is stale); counting forwards rests on
accepted sets growing by one. One lemma per action shows it preserves the local invariant of
the receiver that moves, with one step per conjunct; a frame lemma covers the
others. Table lemmas (`SetAt`) and drain lemmas (what `AnnItems` and `DataItems`
hold) are stated once.

`Provenance`, in the same module, is `Spec => []NothingInvented`: whatever a receiver
buffers, queues, accepts or decodes arrived, as a packet or an announcement of that
very block. It is inductive relative to `IInv`, which says how long the list of
decoded blocks is, with one lemma per action again.

It then adds the proposer and the P2P layer, for any topology, loss and mesh
degree (`Network`'s assumptions: the peers are the receivers and the proposer,
`MeshDegree` is a natural number, links are pairs of peers):

* `NetworkTypeCorrect`: only messages of existing blocks from known senders are under way.
  So the network is one environment of the open receiver specification (the lemma
  `NetworkIsEnvironment`: `Network` is built on `NodeActor`'s own steps, so no more than this is
  needed), and all theorems about receivers hold in it.
* `NoInformation`, `OnlyDecodable`, `StaysBehind`: `NoInformationCreated`, `DecodableOnly`
  and `BehindProposer`. The strengthening, `SourceInv`, says that everything under way is
  `Genuine` (announced, or derivable from what got out of the proposer), that receivers
  were told nothing else, and that nothing of a block is out before its turn.
  A packet that survives its send is one of those that got out (`SurvivorsWithin`).
  A recoding is genuine because what it is made of was received (`Provenance`), is of
  one block (`Isolation`), and `Span` is closed.

`SimEngineProofs` is about the simulator, for any number of
nodes, degree, delay, packet space and forward condition. It assumes what the
code asserts or relies on: `Degree < NumNodes`, a degree of one or more if there are
two nodes, `Delay` a natural number, at least one non-zero packet, and, for
`AfterDecode`, that any packet is the whole block.

* `MeshReachesAll`: a set with the proposer in it that no link leaves is all nodes,
  for the first node of the Hamiltonian path outside it would follow one inside.
* `ShortestTimes`, `EverybodyReached`: in the abstract propagation contact times are
  shortest-path times, and an empty frontier means that all are reached. The strengthening,
  `Abreast`, says that no node reached is later than one hop beyond the frontier.
* `SimInvariant`: `SimInv` is `SimTypeOK`, `Timely`, `DecodedWhenComplete` and
  `NothingMadeUp` with three more: `Contacted` (a receiver was reached exactly if
  it accepted something), `Sourced` (what is under way left a reached node, no
  earlier than it was reached) and `Pending` (for every link of the frontier a
  packet is under way, sent when its origin was reached). `Pending` is where the forward
  conditions matter: each of the three forwards on first contact. With `Pending`,
  the earliest event to a new node is over a nearest link, which gives
  `ImplementsShortestPaths` (`SimSpec => PathSpec`), and from it `SimShortest` and
  `NobodyIsLeftOut`.
* `EveryPacketAccounted`: the counters, with the strengthening that the number of
  a transmission never exceeds its sender's count, so that new events differ from
  all those in the queue.
* `ForwardingAsDocumented` (`SimSpec => []ForwardsAsDocumented`): a receiver sends to all its
  peers once per accepted packet, once after decoding, or once, as its condition says.
* `ReportIsAlwaysRight` (`SimSpec => []ReportIsRight`): the report's counts and
  percentiles: each time is the least decode time by which the nodes that had decoded
  were more than that percentage of all decoders but one (`PercentileIs`: the entry of the sorted list at
  the percentile's index). The strengthening for the counts, `SumInv`, equates the sum of the nodes' counters with the
  number
  of packets, as the size of a set with one element per unit counted (a sum over
  nodes is a fold; it is that size by induction over the set of nodes).

`CodecProofs` and `ChunkingProofs` are about the codec, for every base, window, chunk count, header, and slack
that covers the header and a prefix of four bytes, and every block size below `Half^4`
(2^28 in the program).

* `Capacity`: at most `size + Slack` bytes need at most `N * ComputeM(size, N)` windows, because
  rounding up once, in units of `N` windows, covers rounding up in single windows (`DivBounds`,
  `CeilDivLeast`).
* `WriteLength`: a serialised block of `size` bytes of transactions has at most `size + Slack`
  bytes.
* `NeverTooLarge` (`Spec => []NeverOverflows`) and `SplitSucceeds` (no `Split` ends in a
  panic) follow with `BlockInv`: the block is one of the configured size.
* `ComesBack` (`Spec => []RoundTrip`): a rebuilt block is the original, unless it is over the
  limit, and then it is refused. The invariant, `ChunkInv`, says that the chunks are those of
  the block and the answer is that of `FromChunks` on them. What remains is that
  `FromChunks` undoes `AsChunks`, in the order of the code: digits determine a number
  and a number its digits (`DigitsOfNumber`, `NumberOfDigits`, by induction on the number of
  digits); element `w` unpacks to window `w` of the bytes, the last one padded
  (`WindowOf`, `Unpacked`); the elements' bytes one after the other are the bytes and
  zeros (`Flattened`, `BytesBack`); and a reader of a prefix stops where its writer did,
  so the padding is never looked at (`PrefixRead`, `WrittenIsRead`).
* `TightLength` (`Spec => []LengthIsTight`): the padding is less than one window.

`IntegrityProofs` and `CodedDecoderProofs` are about the decoder, for every
prime `P`, every number of chunks and elements, both schemes, and every original block. They assume
the named assumptions of the modules: `P` is prime (that non-zero elements have inverses is
proved), there is a chunk, and the proposer's chunks are `N` vectors of one
length (`OriginalAssumption`). `DecoderInv` is the inductive invariant:

* the rows are in echelon form (`Leads`): each begins with a one at its pivot, and is
  zero at the pivots of the earlier rows;
* the transformation leads from the coefficients kept to the rows (`LedTo`), so at full
  rank it leads to the inverse;
* in the span of the coefficients only zero vanishes at all pivots (`Detects`);
* each chunk kept is its coefficients times the original, and each proof kept is
  that of its chunk (`Collected`, `Signed`; `Kept` is both): so decoding undoes the combination,
  and a recoding, which combines all three alike, is a packet as the proposer makes them
  (`ForwardedIs`) and verifies.

`add_row` is a fold over rows. After reducing by the first `k` rows a vector is zero at
their pivots, and the tracked combination says which vector of their span was
taken away. So a vector of the span reduces to zero (`Detects`), another does not,
and what is left of it leads the next row. Theorems:
`EchelonFormAlways`, `DecodesOriginalAlways`, `KeepsTheUsefulAlways`, `ReencodedVerifiesAlways`, and
the refinement `ImplementsSpanAlways` (`Spec => ImplementsSpan`): seen through the span of the
coefficients kept, every step is a step of `SpanDecoder` or a stutter.

`ProtocolsProofs` is about the three protocol objects and their twins, for every prime, base,
window, header and number of chunks, every block size and every list of blocks of that size.
It assumes of the block size what the code needs: the length prefix has four bytes
(`BlockSize < HalfPowers[4]`), and a reader refuses more than `MAX_TRANSACTIONS_BYTES`
(`BlockSize <= Limit`; above it a coded receiver does panic, see the findings); and of
the number of chunks that a reader of Pedersen's proofs accepts as many commitments
(`N <= MaxCommitments`, 1024). The inductive invariant, `ProtocolInv`, says what each object is:

* between blocks, a *new* object: `reset` undoes whatever the block's calls did
  (`ResetReceiver`, one lemma per implementation), so nothing of a block reaches the next;
* within a block, for the baseline the block and its bytes, as far as it has come; for a coded
  protocol the context of this block, its length, and chunks and proofs `Kept` of this
  block. The twin has the same decoder, with proofs that are `Kept` for the block's *hash*.

An object takes what it reads off the wire, its twin the packet itself. What makes them agree is
that reading undoes writing for every packet a block has (`HonestRead`: zero elements
and identities, which the codec alone would refuse, included), that a cut wire form is not readable
(`CutRead`, `CutRejected`), that one with other data reads as a packet that does not verify (`AlteredRead`,
`AlteredRejected`) and that the twin does not accept as a value either (`TwinRejects`), and that
verification under another id accepts the same chunks (`ReceiveAlike`). A beginning of a block
is no block (`CutOffIs`), so the object rejects it and the twin keeps it (`BlockMisleads`).
Decoding then gives the chunks of the block (`DecodeIs`), and these give
the block (`ChunksRead`). Theorems:

* `ProtocolTypes` (`ProtocolTypeOK`): an object never holds more than `N` chunks, each of `M` elements and
  with a proof of its scheme's form, because the rows of the echelon form are independent; and
  nothing else it keeps is of two blocks.
* `PanicsNever` (`NeverPanics`).
* `DecodesWhatWasProposed` (`DecodesProposed`): blocks survive chunking, coding, the wire,
  elimination and rebuilding, whichever packets arrived and in whatever order.
* `TwinsAlwaysAgree` (`TwinsAgree`): node and simulator agree on every packet both can be given, except
  as said above under `Protocols`.
* `PeersAlwaysUnderstand` (`PeersUnderstand`): a recoding is a packet of the block with
  coefficients that are not all zero, and to a decoder that has nothing any such packet is useful.

`DeploymentProofs` is about the deployment, for every number of ports and nodes, every stream
of different keys, and all options (`DeploymentAssumption`). The inductive invariant,
`DeployInv`, says that there are options of one generation which `peers.yaml`, every
`fresh` file and every node that is `Meant` agree with, but for the two fields an
operator may change, and that Docker has no other files; or that there are no files (`OneGeneration`).
Stale files of a larger generation and generations that panic halfway are the cases that
matter: under Docker they are gone, in a local directory they are not `fresh`. From it:

* `KeysListedOnce`: wherever there is a node file, `peers.yaml` lists no key twice, so no node
  panics over it. Sorting loses no identity, because
  each of `n` different numbers has its own place among them (`Places`).
* `AllKnowEachOther`, `AlwaysOneNetwork`: `KnownToEachOther` and `OneNetwork`.
* `AddressesAlwaysTrue`: `AddressesTrue`. P2p ports have the parity of the first, metrics
  ports the other one, and wrapping keeps it, because the number of ports is even.
  `PortsAssumption` says so, and that there are two ports for each node. The generator does
  not check the latter: with more than 32768 nodes on one machine a release build would
  give two of them one port.

**Induction over data.** The library's induction theorems take an operator, which the
installed provers cannot instantiate. The proofs use induction over a *set* instead: a subset
of `Nat` that contains 0 and, with each number, the next is all of `Nat` (`Induction`, `BoundedInduction`,
and `SubsetInduction` for finite sets), which the least-element theorem for
`Nat` gives. A fold is unfolded once by showing that a function satisfying its
recursive equation exists (`FoldExists`); what it computes then follows by this induction
(`FoldChain`). Hypotheses with quantifiers are wrapped in named operators (`Joins`,
`UpTo`, `Computes`), so that a lemma can be cited without matching under a binder.

**Model-checked only:** the three runs that expect a violation; liveness (under fairness: out of
this prover's reach), which includes that the simulator's loop ends; and `ENABLED` conditions.

## 6. Plan

Done, in this order: `NodeActor`, its proofs, `Network`, the decoder modules, the
network's proofs, the simulator and its proofs, the codec and its proofs, the protocols
with their wire forms, the deployment, the decoder's proofs, the codec's round trip, the
deployment's proofs, the protocols' proofs.

Next:

1. A late joiner and a restarting receiver in `Network`.

## 7. Not modelled, and why

Group and pairing arithmetic (symbolic; assumed binding and unforgeable), and the hash to
the group. The syntax of YAML and hex, log and table output, the exported counters, and the
text of the compose and Prometheus files: they have no protocol state. The simulator's
configuration and its means over several runs: default values and floating-point sums.
Discovery, quotas and mailboxes of commonware-p2p: third-party, seen as loss and connection
order. Delays: fairness only. `NoopScheme`: no program of the workspace uses it.
