----------------------------- MODULE SimEngine -----------------------------
(***************************************************************************)
(* The discrete-event simulator: `run` (crates/sim/src/engine.rs) over a   *)
(* mesh of module Mesh, for any strategy of crates/strategy.               *)
(*                                                                         *)
(* One action is one turn of the event loop.  The event heap is a set of   *)
(* events; `pop` takes any one of the earliest, as the heap does not say   *)
(* which of equals comes first.  All packets of a strategy have the same   *)
(* size, so one hop takes the constant Delay and bytes are counted in      *)
(* packets.  Every packet is authentic, so `receive` never returns Err.    *)
(***************************************************************************)
EXTENDS PacketSpace, ShortestPaths, FiniteSetsExt, Functions

\* Packets under way are never zero: random_coefficients draws no zero and the
\* chunks combined are independent.
Packet == Vec \ Span[{}]

ASSUME PacketAssumption == Packet # {}

\* AfterDecode is the baseline's, whose packet is the whole block.
ASSUME AfterDecodeAssumption ==
    ForwardWhen = "AfterDecode" => \A v \in Packet : Span[{v}] = Vec

VARIABLES event_queue,        \* transmissions under way
          accepted,           \* states: what each node holds (the proposer: everything)
          decode_times,       \* when each node decoded; Never if it did not
          has_forwarded,      \* has the node forwarded anything?
          upload, download,   \* packets sent by, and to, each node
          total_packets, useful_packets, redundant_packets,
          metrics             \* what run returns, once it does: at most one record

\* History (with `reached` of ShortestPaths).
VARIABLES now,       \* the time of the last event
          rounds,    \* how often each node transmitted
          skipped,   \* events that met a node already decoded
          injected   \* the packets the proposer sent

stateVars == <<accepted, decode_times, has_forwarded>>
counters == <<upload, download, total_packets, useful_packets, redundant_packets>>
simVars == <<neighbors, reached, event_queue, stateVars, counters, metrics, now, rounds, skipped, injected>>

RecodingsAny(S) == Packet      \* mutant: packets made up
RecodingsOrZero(S) == Span[S]  \* mutant: zero coefficients are drawn
Recodings(S) == Span[S] \ Span[{}]
Decodable(S) == Span[S] = Vec

\* An Event of the code is `to`, `time` and `packet`; `from` and `round` tell apart
\* two that are equal otherwise, as the heap does.
Event == [from : Node, round : Nat, to : Node, time : Nat, packet : Packet]

\* The round-th transmission of node n, at time t: packet[p] for each peer p.
Transmission(n, round, t, packet) ==
    {[from |-> n, round |-> round, to |-> p, time |-> t + Delay, packet |-> packet[p]] :
        p \in neighbors[n]}

-----------------------------------------------------------------------------
\* Sections 1 to 3 of run: the mesh, the proposer, its transmission to each peer.
Init ==
    /\ PathInit
    /\ \E packet \in [neighbors[Proposer] -> Packet] :
           /\ event_queue = Transmission(Proposer, 1, 0, packet)
           /\ injected = {packet[p] : p \in neighbors[Proposer]}
    /\ accepted = [n \in Node |-> IF n = Proposer THEN Vec ELSE {}]
    /\ decode_times = [n \in Node |-> IF n = Proposer THEN 0 ELSE Never]
    /\ has_forwarded = [n \in Node |-> FALSE]
    /\ upload = [n \in Node |-> IF n = Proposer THEN Degree ELSE 0]
    /\ download = [n \in Node |-> IF n \in neighbors[Proposer] THEN 1 ELSE 0]
    /\ total_packets = Degree
    /\ useful_packets = 0
    /\ redundant_packets = 0
    /\ metrics = {}
    /\ now = 0
    /\ rounds = [n \in Node |-> IF n = Proposer THEN 1 ELSE 0]
    /\ skipped = 0

\* The heap is ordered by Reverse(time).  The mutant forgets Reverse.
PopsLatest(e) == \A f \in event_queue : f.time <= e.time
Pops(e) == \A f \in event_queue : e.time <= f.time

SkipPeek(e) ==      \* mutant of the next: the event stays in the queue
    /\ Pops(e)
    /\ decode_times[e.to] # Never
    /\ UNCHANGED simVars

\* The node has decoded already: nothing happens.
Skip(e) ==
    /\ Pops(e)
    /\ decode_times[e.to] # Never
    /\ event_queue' = event_queue \ {e}
    /\ now' = e.time
    /\ skipped' = skipped + 1
    /\ UNCHANGED <<neighbors, reached, stateVars, counters, metrics, rounds, injected>>

ShouldForwardButLast(n, rank_increased, known) ==      \* mutant: as the node does
    CASE ForwardWhen = "AfterDecode" -> Decodable(known)
      [] ForwardWhen = "OneShot" -> rank_increased /\ ~has_forwarded[n]
      [] ForwardWhen = "UntilDecode" -> rank_increased /\ ~Decodable(known)

ShouldForward(n, rank_increased, known) ==
    CASE ForwardWhen = "AfterDecode" -> Decodable(known)
      [] ForwardWhen = "OneShot" -> rank_increased /\ ~has_forwarded[n]
      [] ForwardWhen = "UntilDecode" -> rank_increased

\* What a transmission adds to the counters.
AccountOnce(n) ==       \* mutant: once, not once per peer
    /\ upload' = [upload EXCEPT ![n] = @ + 1]
    /\ download' = [p \in Node |-> IF p \in neighbors[n] THEN download[p] + 1 ELSE download[p]]
    /\ total_packets' = total_packets + 1

Account(n) ==
    /\ upload' = [upload EXCEPT ![n] = @ + Degree]
    /\ download' = [p \in Node |-> IF p \in neighbors[n] THEN download[p] + 1 ELSE download[p]]
    /\ total_packets' = total_packets + Degree

\* The node of event e, now holding `known`, sends a recoding to each of its peers.
Forward(e, known) ==
    LET n == e.to
    IN  /\ \E packet \in [neighbors[n] -> Recodings(known)] :
               event_queue' = (event_queue \ {e})
                                  \cup Transmission(n, rounds[n] + 1, e.time, packet)
        /\ has_forwarded' = [has_forwarded EXCEPT ![n] = TRUE]
        /\ rounds' = [rounds EXCEPT ![n] = @ + 1]
        /\ Account(n)

KeepQuiet(e) ==
    /\ event_queue' = event_queue \ {e}
    /\ UNCHANGED <<has_forwarded, rounds, upload, download, total_packets>>

\* The rest of the loop body, the same after a useful and a redundant packet.
Conclude(e, rank_increased, known) ==
    /\ Pops(e)
    /\ decode_times[e.to] = Never
    /\ accepted' = [accepted EXCEPT ![e.to] = known]
    /\ IF ShouldForward(e.to, rank_increased, known) THEN Forward(e, known) ELSE KeepQuiet(e)
    /\ decode_times' = IF Decodable(known) THEN [decode_times EXCEPT ![e.to] = e.time]
                                           ELSE decode_times
    /\ now' = e.time
    /\ UNCHANGED <<neighbors, metrics, skipped, injected>>

\* receive returns Ok(true): the first copy, or an independent packet.
Useful(e) ==
    /\ e.packet \notin Span[accepted[e.to]]
    /\ Conclude(e, TRUE, accepted[e.to] \cup {e.packet})
    /\ useful_packets' = useful_packets + 1
    /\ reached' = IF reached[e.to] = Never THEN [reached EXCEPT ![e.to] = e.time] ELSE reached
    /\ UNCHANGED redundant_packets

\* receive returns Ok(false).
Redundant(e) ==
    /\ e.packet \in Span[accepted[e.to]]
    /\ Conclude(e, FALSE, accepted[e.to])
    /\ redundant_packets' = redundant_packets + 1
    /\ UNCHANGED <<reached, useful_packets>>

-----------------------------------------------------------------------------
\* Section 5: the metrics.

Decoders == {n \in Node : decode_times[n] # Never}

\* sorted_times[idx], counted from zero.
DecodedBy(t) == {n \in Decoders : decode_times[n] <= t}
TimeSortedDown(idx) ==          \* mutant: sorted the other way
    CHOOSE t \in {decode_times[n] : n \in Decoders} :
        /\ idx < Cardinality({n \in Decoders : decode_times[n] >= t})
        /\ \A n \in Decoders : decode_times[n] > t =>
               Cardinality({p \in Decoders : decode_times[p] >= decode_times[n]}) <= idx

SortedTime(idx) ==
    CHOOSE t \in {decode_times[n] : n \in Decoders} :
        /\ idx < Cardinality(DecodedBy(t))
        /\ \A n \in Decoders : decode_times[n] < t => Cardinality(DecodedBy(decode_times[n])) <= idx

\* percentile_idx
PercentileIdx(pct) == ((Cardinality(Decoders) - 1) * pct) \div 100

\* upload.iter().sum()
Total(bytes) == FoldFunction(+, 0, bytes)

Finish ==
    /\ event_queue = {}
    /\ metrics = {}
    /\ metrics' = {[nodes_decoded |-> Cardinality(Decoders),
                    total_sent |-> Total(upload),
                    propagation_time |-> SortedTime(Cardinality(Decoders) - 1),
                    p50_time |-> SortedTime(PercentileIdx(50)),
                    p99_time |-> SortedTime(PercentileIdx(99))]}
    /\ UNCHANGED <<neighbors, reached, event_queue, stateVars, counters, now, rounds, skipped, injected>>

Next == Finish \/ \E e \in event_queue : Skip(e) \/ Useful(e) \/ Redundant(e)

SimSpec == Init /\ [][Next]_simVars

\* run is a loop: while it can go on, it does.
FairSimSpec == SimSpec /\ WF_simVars(Next)

-----------------------------------------------------------------------------
(***************************************************************************)
(* Properties.                                                             *)
(***************************************************************************)

\* The type invariant of run's variables.
SimTypeOK ==
    /\ PathTypeOK
    /\ event_queue \subseteq Event /\ IsFiniteSet(event_queue)
    /\ accepted \in [Node -> SUBSET Vec]
    /\ decode_times \in [Node -> Nat \cup {Never}]
    /\ has_forwarded \in [Node -> BOOLEAN]
    /\ upload \in [Node -> Nat] /\ download \in [Node -> Nat]
    /\ total_packets \in Nat /\ useful_packets \in Nat /\ redundant_packets \in Nat
    /\ now \in Nat /\ rounds \in [Node -> Nat] /\ skipped \in Nat
    /\ injected \subseteq Packet

\* Simulated time never runs backwards: what is under way arrives now or within
\* one hop from now.
Timely == \A e \in event_queue : now <= e.time /\ e.time <= now + Delay

\* A node is marked decoded exactly when its decoder is complete, so that no packet
\* is skipped that could have been useful.
DecodedWhenComplete ==
    \A n \in Node :
        /\ decode_times[n] # Never <=> Span[accepted[n]] = Vec
        /\ decode_times[n] # Never =>
               reached[n] # Never /\ reached[n] <= decode_times[n] /\ decode_times[n] <= now

\* Every packet sent is under way or was dealt with in one of three ways: none is
\* lost, doubled or counted twice.
PacketsAccounted ==
    total_packets = useful_packets + redundant_packets + skipped + Cardinality(event_queue)

\* A node sends as often as its strategy's ForwardCondition documents, each
\* time to all its peers.
AsOftenAsAllowed(n) ==
    CASE ForwardWhen = "AfterDecode" -> IF decode_times[n] # Never THEN 1 ELSE 0
      [] ForwardWhen = "OneShot" -> IF accepted[n] # {} THEN 1 ELSE 0
      [] ForwardWhen = "UntilDecode" -> Cardinality(accepted[n])
ForwardsAsDocumented ==
    \A n \in Node \ {Proposer} :
        /\ rounds[n] = AsOftenAsAllowed(n)
        /\ upload[n] = Degree * rounds[n]
        /\ has_forwarded[n] <=> rounds[n] > 0

\* When the queue is empty every node has received something useful; with the
\* baseline, every node has the block.
NobodyLeftOut ==
    event_queue = {} =>
        /\ Reached = Node
        /\ ForwardWhen = "AfterDecode" => Decoders = Node

\* Recoding makes nothing up: decoders and packets stay within the proposer's packets.
NothingMadeUp ==
    /\ \A n \in Node \ {Proposer} : accepted[n] \subseteq Span[injected]
    /\ \A e \in event_queue : e.packet \in Span[injected]

\* t is the least decode time by which the nodes that had decoded were more than pct percent
\* of all decoders but one: more than the index of the percentile, which counts from 0.
IsPercentile(t, pct) ==
    LET others == Cardinality(Decoders) - 1
    IN  /\ \E n \in Decoders : t = decode_times[n]
        /\ 100 * Cardinality(DecodedBy(t)) > pct * others
        /\ \A n \in Decoders : decode_times[n] < t =>
               100 * Cardinality(DecodedBy(decode_times[n])) <= pct * others

\* The report is right: its times are the percentiles they are named for, the last that of
\* all nodes; what is uploaded is downloaded, and is what all packets amount to.
ReportIsRight ==
    \A m \in metrics :
        /\ m.total_sent = total_packets
        /\ Total(download) = total_packets
        /\ m.nodes_decoded = Cardinality(Decoders)
        /\ IsPercentile(m.p50_time, 50)
        /\ IsPercentile(m.p99_time, 99)
        /\ IsPercentile(m.propagation_time, 100)

\* The simulation ends.
Terminates == <>(metrics # {})
=============================================================================
