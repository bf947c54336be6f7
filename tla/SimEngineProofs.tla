-------------------------- MODULE SimEngineProofs --------------------------
(***************************************************************************)
(* Proofs about the meshes random_mesh builds, about module ShortestPaths, *)
(* and about the simulator, for every mesh, packet space and strategy.     *)
(***************************************************************************)
EXTENDS SimEngine, FiniteSetTheorems, WellFoundedInduction, TLAPS

-----------------------------------------------------------------------------
\* Meshes, and the abstract propagation.

\* A set of nodes that the links of a mesh do not leave, with the proposer in it, is
\* all nodes: the first node of the Hamiltonian path outside it would follow one inside.
LEMMA MeshReachesAll ==
    ASSUME NEW mesh \in Meshes, NEW S \in SUBSET Node, Proposer \in S,
           \A n \in S : mesh[n] \subseteq S
    PROVE  S = Node
<1>1. NumNodes \in Nat
      BY FS_CardinalityType, MeshAssumption DEF NumNodes
<1>2. PICK path \in Paths :
          mesh \in {m \in [Node -> SUBSET Node] : \A n \in Node : m[n] \in Fillings(path, n)}
      BY DEF Meshes
<1>3. \A n \in Node : Successors(path, n) \subseteq mesh[n]
      BY <1>2 DEF Fillings
<1> DEFINE T == {i \in 1 .. NumNodes : path[i] \notin S}
<1>4. ASSUME T # {} PROVE FALSE
  <2>1. T \subseteq Nat
        BY <1>1
  <2>2. PICK i \in T : \A j \in T : ~ (<<j, i>> \in OpToRel(<, Nat))
        BY <1>4, <2>1, NatLessThanWellFounded, WFMin
  <2>3. \A j \in T : ~ (j < i)
        BY <2>1, <2>2 DEF OpToRel
  <2>4. i \in 1 .. NumNodes /\ i # 1
        BY <1>2 DEF Paths
  <2>5. i - 1 \in 1 .. NumNodes - 1 /\ i - 1 < i /\ i - 1 \in 1 .. NumNodes /\ (i - 1) + 1 = i
        BY <1>1, <2>4
  <2>6. path[i - 1] \in S
        BY <2>3, <2>5
  <2>7. path[i] \in Successors(path, path[i - 1])
        BY <2>5 DEF Successors
  <2>8. path[i] \in S
        BY <1>3, <2>6, <2>7
  <2> QED BY <2>2, <2>8
<1>5. \A n \in Node : \E i \in 1 .. NumNodes : path[i] = n
      BY DEF Paths
<1> QED BY <1>4, <1>5

\* Every node of a mesh has Degree peers.
LEMMA MeshDegree ==
    ASSUME NEW mesh \in Meshes, NEW n \in Node
    PROVE  mesh[n] \in SUBSET Node /\ Cardinality(mesh[n]) = Degree
<1>1. PICK path \in Paths :
          /\ mesh \in [Node -> SUBSET Node]
          /\ mesh[n] \in Fillings(path, n)
      BY DEF Meshes
<1> DEFINE old == Successors(path, n)
<1>2. PICK more \in SUBSET Candidates(path, n) :
          /\ Cardinality(more) = Degree - Cardinality(old)
          /\ mesh[n] = old \cup more
      BY <1>1 DEF Fillings
<1>3. old \subseteq mesh[n] /\ old \cap more = {} /\ old \in SUBSET Node /\ more \in SUBSET Node
      BY <1>1, <1>2 DEF Candidates
<1>4. IsFiniteSet(old) /\ IsFiniteSet(more)
      BY <1>3, FS_Subset, MeshAssumption
<1>5. Cardinality(old) \in Nat /\ Cardinality(more) \in Nat /\ Degree \in Nat
      BY <1>4, FS_CardinalityType, MeshAssumption
<1>6. Cardinality(old \cap more) = 0
      BY <1>3, FS_EmptySet
<1>7. Cardinality(old \cup more) = Cardinality(old) + Cardinality(more) - Cardinality(old \cap more)
      BY <1>4, FS_Union
<1> QED BY <1>1, <1>2, <1>5, <1>6, <1>7

-----------------------------------------------------------------------------
\* No node reached is more than a hop later than a node that still leads somewhere.
Abreast == \A q \in Reached : \A link \in Frontier : reached[q] <= reached[link[1]] + Delay

PathInv == PathTypeOK /\ neighbors \in Meshes /\ Shortest /\ Abreast

\* Initially the proposer alone has been reached.
LEMMA PathInvInit == PathInit => PathInv
<1> SUFFICES ASSUME PathInit PROVE PathInv
    OBVIOUS
<1>1. Proposer \in Node /\ Delay \in Nat
      BY MeshAssumption, DelayAssumption
<1>2. PathTypeOK
      BY <1>1 DEF PathInit, PathTypeOK, Meshes, Never
<1>3. Reached = {Proposer} /\ reached[Proposer] = 0
      BY <1>1 DEF PathInit, Reached, Never
<1>4. Shortest
      BY <1>1, <1>3 DEF Shortest
<1>5. Abreast
      BY <1>1, <1>3 DEF Abreast, Frontier
<1> QED BY <1>2, <1>4, <1>5 DEF PathInv, PathInit

\* Reaching the nearest node keeps the invariant: it is one hop beyond the frontier.
LEMMA PathInvStep ==
    ASSUME PathInv, NEW n \in Node, NEW p \in Node, Reach(n, p)
    PROVE  PathInv'
<1>1. Proposer \in Node /\ Delay \in Nat
      BY MeshAssumption, DelayAssumption
<1>2. /\ reached \in [Node -> Nat \cup {Never}]
      /\ n \in Reached /\ p \notin Reached /\ p \in neighbors[n] /\ p # n
      /\ reached[n] \in Nat
      BY DEF PathInv, PathTypeOK, Reach, Nearest, Frontier, Reached
<1>3. /\ reached' = [reached EXCEPT ![p] = reached[n] + Delay]
      /\ neighbors' = neighbors
      BY DEF Reach
<1>4. PathTypeOK'
      BY <1>1, <1>2, <1>3 DEF PathInv, PathTypeOK
<1>5. /\ reached'[p] = reached[n] + Delay
      /\ \A m \in Reached : m # p /\ reached'[m] = reached[m] /\ reached[m] \in Nat
      BY <1>2, <1>3 DEF Reached
<1>6. Reached' = Reached \cup {p}
      BY <1>1, <1>2, <1>3 DEF Reached, Never
<1>7. \A m \in Reached : p \in neighbors[m] => reached[n] <= reached[m]
  <2> SUFFICES ASSUME NEW m \in Reached, p \in neighbors[m] PROVE reached[n] <= reached[m]
      OBVIOUS
  <2>1. <<m, p>> \in Frontier
        BY <1>2 DEF Frontier
  <2> QED BY <2>1 DEF Reach, Nearest
<1>8. \A q \in Reached : reached[q] <= reached[n] + Delay
  <2>1. <<n, p>> \in Frontier
        BY DEF Reach, Nearest
  <2> QED BY <2>1 DEF PathInv, Abreast
<1>9. Shortest'
  <2>1. reached'[Proposer] = 0
    <3>1. Proposer \in Reached
          BY <1>1 DEF PathInv, Shortest, Reached, Never
    <3> QED BY <3>1, <1>5 DEF PathInv, Shortest
  <2>2. ASSUME NEW m \in Reached', NEW q \in neighbors[m] \cap Reached'
        PROVE  reached'[q] <= reached'[m] + Delay
    <3>1. CASE m = p /\ q = p
          BY <1>1, <1>2, <1>5, <3>1
    <3>2. CASE m = p /\ q # p
      <4>1. q \in Reached
            BY <1>6, <3>2
      <4> QED BY <1>1, <1>2, <1>5, <1>8, <3>2, <4>1
    <3>3. CASE m # p /\ q = p
      <4>1. m \in Reached
            BY <1>6, <3>3
      <4> QED BY <1>1, <1>2, <1>5, <1>7, <3>3, <4>1
    <3>4. CASE m # p /\ q # p
      <4>1. m \in Reached /\ q \in Reached
            BY <1>6, <3>4
      <4> QED BY <1>5, <4>1 DEF PathInv, Shortest
    <3> QED BY <3>1, <3>2, <3>3, <3>4
  <2>3. ASSUME NEW q \in Reached' \ {Proposer}
        PROVE  \E m \in Reached' : q \in neighbors[m] /\ reached'[q] = reached'[m] + Delay
    <3>1. CASE q = p
          BY <1>2, <1>5, <1>6, <3>1
    <3>2. CASE q # p
      <4>1. PICK m \in Reached : q \in neighbors[m] /\ reached[q] = reached[m] + Delay
            BY <1>6, <3>2 DEF PathInv, Shortest
      <4> QED BY <1>5, <1>6, <3>2, <4>1
    <3> QED BY <3>1, <3>2
  <2> QED BY <1>3, <2>1, <2>2, <2>3 DEF Shortest
<1>10. Abreast'
  <2> SUFFICES ASSUME NEW q \in Reached', NEW link \in Frontier'
               PROVE  reached'[q] <= reached'[link[1]] + Delay
      BY DEF Abreast
  <2>1. link[1] \in Reached' /\ link[2] \in Node \ Reached' /\ link[2] \in neighbors[link[1]]
        BY <1>3 DEF Frontier
  <2>2. reached'[q] <= reached[n] + Delay
        BY <1>1, <1>2, <1>5, <1>6, <1>8
  <2>3. CASE link[1] = p
        BY <1>1, <1>2, <1>5, <1>6, <2>2, <2>3
  <2>4. CASE link[1] # p
    <3>1. link[1] \in Reached
          BY <1>6, <2>1, <2>4
    <3>2. link \in Frontier
          BY <1>6, <2>1, <3>1 DEF Frontier
    <3>3. reached[n] <= reached[link[1]]
          BY <3>2 DEF Reach, Nearest
    <3> QED BY <1>1, <1>2, <1>5, <1>6, <2>2, <3>1, <3>3
  <2> QED BY <2>3, <2>4
<1> QED BY <1>3, <1>4, <1>9, <1>10 DEF PathInv

\* The invariant is inductive.
LEMMA PathInvInductive == PathInv /\ [PathNext]_pathVars => PathInv'
<1> SUFFICES ASSUME PathInv, [PathNext]_pathVars PROVE PathInv'
    OBVIOUS
<1>1. CASE PathNext
      BY <1>1, PathInvStep DEF PathNext
<1>2. CASE UNCHANGED pathVars
      BY <1>2 DEF pathVars, PathInv, PathTypeOK, Shortest, Abreast, Reached, Frontier
<1> QED BY <1>1, <1>2

\* The strengthening of Shortest (engine.rs: `arrival`) holds throughout.
THEOREM PathInvariant == PathSpec => []PathInv
<1> QED BY PathInvInit, PathInvInductive, PTL DEF PathSpec

\* Times are those of shortest paths, whatever the mesh.
THEOREM ShortestTimes == PathSpec => []Shortest
<1>1. PathInv => Shortest
      BY DEF PathInv
<1> QED BY <1>1, PathInvariant, PTL

\* While a node is not reached there is a link to follow.
THEOREM EverybodyReached == PathSpec => []AllReached
<1>1. PathInv => AllReached
  <2> SUFFICES ASSUME PathInv, Frontier = {} PROVE Reached = Node
      BY DEF AllReached
  <2>1. Proposer \in Reached
        BY MeshAssumption DEF PathInv, Shortest, Reached, Never
  <2>2. \A n \in Reached : neighbors[n] \subseteq Reached
    <3> SUFFICES ASSUME NEW n \in Reached, NEW p \in neighbors[n], p \notin Reached PROVE FALSE
        OBVIOUS
    <3>1. n \in Node /\ p \in Node
          BY DEF PathInv, PathTypeOK, Reached
    <3>2. <<n, p>> \in Frontier
          BY <3>1 DEF Frontier
    <3> QED BY <3>2
  <2>3. Reached \in SUBSET Node /\ neighbors \in Meshes
        BY DEF PathInv, Reached
  <2> QED BY <2>1, <2>2, <2>3, MeshReachesAll
<1> QED BY <1>1, PathInvariant, PTL

-----------------------------------------------------------------------------
\* The inductive invariant.

\* Packets, decoders and contact times of the receivers go together.
Contacted ==
    /\ reached[Proposer] # Never /\ decode_times[Proposer] # Never
    /\ \A n \in Reached : reached[n] <= now
    /\ \A n \in Node \ {Proposer} :
           /\ accepted[n] \subseteq Packet
           /\ reached[n] = Never <=> accepted[n] = {}
           /\ has_forwarded[n] => reached[n] # Never

\* What is under way was sent by a node that had been reached, over one of its links.
Sourced ==
    \A e \in event_queue :
        /\ e.from \in Reached
        /\ e.to \in neighbors[e.from]
        /\ reached[e.from] + Delay <= e.time

\* A node reached has sent something to each peer that is still to be reached.
Pending ==
    \A link \in Frontier :
        \E e \in event_queue : e.to = link[2] /\ e.time = reached[link[1]] + Delay

SimInv ==
    /\ SimTypeOK
    /\ neighbors \in Meshes
    /\ Timely
    /\ DecodedWhenComplete
    /\ NothingMadeUp
    /\ Contacted
    /\ Sourced
    /\ Pending

\* One turn of the event loop.
Turn(e) == Skip(e) \/ Useful(e) \/ Redundant(e)

-----------------------------------------------------------------------------
\* Facts about the packet space.

\* Span, as a closure operator.
LEMMA SpanFacts ==
    /\ \A S \in SUBSET Vec : Span[S] \in SUBSET Vec /\ S \subseteq Span[S]
    /\ \A S, T \in SUBSET Vec : S \subseteq Span[T] => Span[S] \subseteq Span[T]
    /\ \A S, T \in SUBSET Vec : S \subseteq T => Span[S] \subseteq Span[T]
<1>1. \A S \in SUBSET Vec : Span[S] \in SUBSET Vec /\ S \subseteq Span[S]
      BY SpanAssumption
<1>2. \A S, T \in SUBSET Vec : S \subseteq Span[T] => Span[S] \subseteq Span[T]
      BY SpanAssumption
<1>3. ASSUME NEW S \in SUBSET Vec, NEW T \in SUBSET Vec, S \subseteq T
      PROVE  Span[S] \subseteq Span[T]
  <2>1. S \subseteq Span[T]
        BY <1>1, <1>3
  <2> QED BY <1>2, <2>1
<1> QED BY <1>1, <1>2, <1>3

\* With the baseline any packet at all completes a decoder.
LEMMA OnePacketIsAll ==
    ASSUME ForwardWhen = "AfterDecode",
           NEW S \in SUBSET Packet, S # {}
    PROVE  Span[S] = Vec
<1>1. PICK v \in S : TRUE
      OBVIOUS
<1>2. {v} \in SUBSET Vec /\ S \in SUBSET Vec /\ {v} \subseteq S /\ v \in Packet
      BY <1>1 DEF Packet
<1>3. Span[{v}] = Vec
      BY <1>2, AfterDecodeAssumption
<1>4. Span[{v}] \subseteq Span[S] /\ Span[S] \in SUBSET Vec
      BY <1>2, SpanFacts
<1> QED BY <1>3, <1>4

\* A transmission is a finite set of well-formed events, all one hop ahead.
LEMMA TransmissionFacts ==
    ASSUME neighbors \in [Node -> SUBSET Node],
           NEW n \in Node, NEW round \in Nat, NEW t \in Nat,
           NEW S \in SUBSET Vec,
           NEW packet \in [neighbors[n] -> Recodings(S)]
    PROVE  /\ Transmission(n, round, t, packet) \subseteq Event
           /\ IsFiniteSet(Transmission(n, round, t, packet))
           /\ Cardinality(Transmission(n, round, t, packet)) = Cardinality(neighbors[n])
           /\ \A e \in Transmission(n, round, t, packet) :
                  /\ e.from = n /\ e.round = round /\ e.time = t + Delay
                  /\ e.to \in neighbors[n] /\ e.packet \in Span[S]
           /\ \A p \in neighbors[n] :
                  \E e \in Transmission(n, round, t, packet) : e.to = p /\ e.time = t + Delay
<1>1. Delay \in Nat
      BY DelayAssumption
<1>2. Recodings(S) \subseteq Packet /\ Recodings(S) \subseteq Span[S]
      BY SpanFacts DEF Recodings, Packet
<1>3. Transmission(n, round, t, packet) \subseteq Event
      BY <1>1, <1>2 DEF Transmission, Event
<1>4. IsFiniteSet(neighbors[n])
      BY MeshAssumption, FS_Subset
<1> DEFINE event == [p \in neighbors[n] |->
                        [from |-> n, round |-> round, to |-> p, time |-> t + Delay,
                         packet |-> packet[p]]]
           T == Transmission(n, round, t, packet)
<1>5. event \in Bijection(neighbors[n], T)
  <2>1. event \in [neighbors[n] -> T]
        BY DEF Transmission
  <2>2. \A p, q \in neighbors[n] : event[p] = event[q] => p = q
    <3>1. \A p \in neighbors[n] : event[p].to = p
          OBVIOUS
    <3> QED BY <3>1
  <2>3. \A e \in T : \E p \in neighbors[n] : event[p] = e
        BY DEF Transmission
  <2> QED BY <2>1, <2>2, <2>3 DEF Bijection, Injection, Surjection, IsInjective
<1>6. IsFiniteSet(T) /\ Cardinality(T) = Cardinality(neighbors[n])
      BY <1>4, <1>5, FS_Bijection DEF ExistsBijection
<1>7. \A e \in T :
          /\ e.from = n /\ e.round = round /\ e.time = t + Delay
          /\ e.to \in neighbors[n] /\ e.packet \in Span[S]
      BY <1>2 DEF Transmission
<1>8. ASSUME NEW p \in neighbors[n]
      PROVE  \E e \in T : e.to = p /\ e.time = t + Delay
  <2>1. event[p] \in T /\ event[p].to = p /\ event[p].time = t + Delay
        BY DEF Transmission
  <2> QED BY <2>1
<1> HIDE DEF event
<1> QED BY <1>3, <1>6, <1>7, <1>8

-----------------------------------------------------------------------------
\* What every turn does, whichever action it is.

\* What every turn does, whichever branch it takes.
LEMMA TurnFacts ==
    ASSUME SimInv, NEW e \in event_queue, Turn(e)
    PROVE  /\ e \in Event /\ Pops(e)
           /\ now' = e.time /\ neighbors' = neighbors /\ injected' = injected
           /\ accepted'[e.to] \in SUBSET Vec
           /\ accepted' = [accepted EXCEPT ![e.to] = accepted'[e.to]]
           /\ accepted[e.to] \subseteq accepted'[e.to]
           /\ accepted'[e.to] \subseteq accepted[e.to] \cup {e.packet}
           /\ decode_times[e.to] # Never => accepted'[e.to] = accepted[e.to]
           /\ \/ KeepQuiet(e)
              \/ Forward(e, accepted'[e.to]) /\ decode_times[e.to] = Never
<1>1. /\ e \in Event /\ event_queue \subseteq Event
      /\ accepted \in [Node -> SUBSET Vec]
      /\ e.to \in Node /\ e.packet \in Vec
      BY DEF SimInv, SimTypeOK, Event, Packet
<1>2. CASE Skip(e)
      BY <1>1, <1>2 DEF Skip, KeepQuiet, stateVars, counters
<1>3. CASE Useful(e)
  <2>1. Conclude(e, TRUE, accepted[e.to] \cup {e.packet})
        BY <1>3 DEF Useful
  <2>2. accepted'[e.to] = accepted[e.to] \cup {e.packet}
        BY <1>1, <2>1 DEF Conclude
  <2>3. KeepQuiet(e) \/ Forward(e, accepted'[e.to])
        BY <2>1, <2>2 DEF Conclude
  <2> QED BY <1>1, <2>1, <2>2, <2>3 DEF Conclude
<1>4. CASE Redundant(e)
  <2>1. Conclude(e, FALSE, accepted[e.to])
        BY <1>4 DEF Redundant
  <2>2. accepted'[e.to] = accepted[e.to]
        BY <1>1, <2>1 DEF Conclude
  <2>3. KeepQuiet(e) \/ Forward(e, accepted'[e.to])
        BY <2>1, <2>2 DEF Conclude
  <2> QED BY <1>1, <2>1, <2>2, <2>3 DEF Conclude
<1> QED BY <1>2, <1>3, <1>4 DEF Turn

\* A node is reached by its first useful packet, and then forwards.
LEMMA ContactFacts ==
    ASSUME SimInv, NEW e \in event_queue, Turn(e)
    PROVE  /\ reached[e.to] # Never => reached' = reached
           /\ reached[e.to] = Never =>
                  /\ e.to # Proposer
                  /\ reached' = [reached EXCEPT ![e.to] = e.time]
                  /\ Forward(e, accepted'[e.to])
<1>1. /\ e.to \in Node /\ e.packet \in Packet /\ e.packet \in Vec
      /\ accepted \in [Node -> SUBSET Vec]
      BY DEF SimInv, SimTypeOK, Event, Packet
<1>2. CASE Skip(e)
  <2>1. reached[e.to] # Never /\ reached' = reached
        BY <1>1, <1>2 DEF Skip, SimInv, DecodedWhenComplete
  <2> QED BY <2>1
<1>3. CASE Redundant(e)
  <2>1. reached' = reached /\ e.packet \in Span[accepted[e.to]]
        BY <1>3 DEF Redundant
  <2>2. accepted[e.to] # {}
        BY <1>1, <2>1 DEF Packet
  <2>3. reached[e.to] # Never
        BY <1>1, <2>2 DEF SimInv, Contacted
  <2> QED BY <2>1, <2>3
<1>4. CASE Useful(e)
  <2>1. /\ Conclude(e, TRUE, accepted[e.to] \cup {e.packet})
        /\ reached' = IF reached[e.to] = Never THEN [reached EXCEPT ![e.to] = e.time] ELSE reached
        BY <1>4 DEF Useful
  <2>2. accepted'[e.to] = accepted[e.to] \cup {e.packet}
        BY <1>1, <2>1 DEF Conclude
  <2>3. ASSUME reached[e.to] = Never PROVE e.to # Proposer /\ Forward(e, accepted'[e.to])
    <3>1. e.to # Proposer
          BY <2>3 DEF SimInv, Contacted
    <3>2. accepted[e.to] = {} /\ ~ has_forwarded[e.to]
          BY <1>1, <2>3, <3>1 DEF SimInv, Contacted
    <3>3. CASE ForwardWhen = "AfterDecode"
      <4>1. Span[accepted[e.to] \cup {e.packet}] = Vec
            BY <1>1, <3>2, <3>3, OnePacketIsAll
      <4>2. ShouldForward(e.to, TRUE, accepted[e.to] \cup {e.packet})
            BY <3>3, <4>1 DEF ShouldForward, Decodable
      <4> QED BY <2>1, <2>2, <3>1, <4>2 DEF Conclude
    <3>4. CASE ForwardWhen = "OneShot" \/ ForwardWhen = "UntilDecode"
      <4>1. ShouldForward(e.to, TRUE, accepted[e.to] \cup {e.packet})
            BY <3>2, <3>4 DEF ShouldForward
      <4> QED BY <2>1, <2>2, <3>1, <4>1 DEF Conclude
    <3> QED BY <3>3, <3>4, ForwardAssumption
  <2> QED BY <2>1, <2>3
<1> QED BY <1>2, <1>3, <1>4 DEF Turn

\* The queue loses the event and gains the node's transmission, if there is one.
LEMMA QueueFacts ==
    ASSUME SimInv, NEW e \in event_queue, Turn(e)
    PROVE  \E sent \in SUBSET Event :
               /\ event_queue' = (event_queue \ {e}) \cup sent
               /\ IsFiniteSet(sent)
               /\ \A f \in sent :
                      /\ f.from = e.to /\ f.round = rounds[e.to] + 1
                      /\ f.time = e.time + Delay
                      /\ f.to \in neighbors[e.to] /\ f.packet \in Span[accepted'[e.to]]
               /\ \/ /\ sent = {} /\ reached' = reached /\ reached[e.to] # Never
                     /\ UNCHANGED <<has_forwarded, rounds, upload, download, total_packets>>
                  \/ /\ decode_times[e.to] = Never
                     /\ has_forwarded' = [has_forwarded EXCEPT ![e.to] = TRUE]
                     /\ rounds' = [rounds EXCEPT ![e.to] = @ + 1]
                     /\ Account(e.to)
                     /\ Cardinality(sent) = Cardinality(neighbors[e.to])
                     /\ \A p \in neighbors[e.to] : \E f \in sent : f.to = p
<1>1. e.to \in Node /\ e.time \in Nat /\ rounds[e.to] + 1 \in Nat
      BY DEF SimInv, SimTypeOK, Event
<1>2. neighbors \in [Node -> SUBSET Node]
      BY DEF SimInv, SimTypeOK, PathTypeOK
<1>3. CASE reached[e.to] # Never /\ KeepQuiet(e)
  <2>1. event_queue' = (event_queue \ {e}) \cup {} /\ IsFiniteSet({}) /\ {} \in SUBSET Event
        BY <1>3, FS_EmptySet DEF KeepQuiet
  <2>2. /\ reached' = reached
        /\ UNCHANGED <<has_forwarded, rounds, upload, download, total_packets>>
        BY <1>3, ContactFacts DEF KeepQuiet
  <2> QED BY <1>3, <2>1, <2>2
<1>4. CASE Forward(e, accepted'[e.to]) /\ decode_times[e.to] = Never
  <2>1. PICK packet \in [neighbors[e.to] -> Recodings(accepted'[e.to])] :
            event_queue' = (event_queue \ {e})
                               \cup Transmission(e.to, rounds[e.to] + 1, e.time, packet)
        BY <1>4 DEF Forward
  <2>2. accepted'[e.to] \in SUBSET Vec
        BY TurnFacts
  <2> DEFINE sent == Transmission(e.to, rounds[e.to] + 1, e.time, packet)
  <2>3. /\ sent \in SUBSET Event /\ IsFiniteSet(sent)
        /\ Cardinality(sent) = Cardinality(neighbors[e.to])
        /\ \A f \in sent :
               /\ f.from = e.to /\ f.round = rounds[e.to] + 1
               /\ f.time = e.time + Delay
               /\ f.to \in neighbors[e.to] /\ f.packet \in Span[accepted'[e.to]]
        /\ \A p \in neighbors[e.to] : \E f \in sent : f.to = p
        BY <1>1, <1>2, <2>2, TransmissionFacts
  <2>4. /\ has_forwarded' = [has_forwarded EXCEPT ![e.to] = TRUE]
        /\ rounds' = [rounds EXCEPT ![e.to] = @ + 1]
        /\ Account(e.to)
        BY <1>4 DEF Forward
  <2> HIDE DEF sent
  <2> QED BY <1>4, <2>1, <2>3, <2>4 DEF sent
<1>5. reached[e.to] = Never => decode_times[e.to] = Never
      BY <1>1 DEF SimInv, DecodedWhenComplete
<1> QED BY <1>3, <1>4, <1>5, TurnFacts, ContactFacts

-----------------------------------------------------------------------------
\* One lemma per part of the invariant.

\* A turn keeps the types.
LEMMA TypeStep ==
    ASSUME SimInv, NEW e \in event_queue, Turn(e)
    PROVE  SimTypeOK'
<1>1. PICK sent \in SUBSET Event :
          /\ event_queue' = (event_queue \ {e}) \cup sent
          /\ IsFiniteSet(sent)
          /\ \/ UNCHANGED <<has_forwarded, rounds, upload, download, total_packets>>
             \/ /\ has_forwarded' = [has_forwarded EXCEPT ![e.to] = TRUE]
                /\ rounds' = [rounds EXCEPT ![e.to] = @ + 1]
                /\ Account(e.to)
      BY QueueFacts
<1>2. SimTypeOK /\ e.to \in Node /\ e.time \in Nat /\ Degree \in Nat
      BY MeshAssumption DEF SimInv, SimTypeOK, Event
<1>3. event_queue' \subseteq Event /\ IsFiniteSet(event_queue')
  <2>1. IsFiniteSet(event_queue \ {e})
        BY <1>2, FS_RemoveElement DEF SimTypeOK
  <2>2. IsFiniteSet((event_queue \ {e}) \cup sent)
        BY <1>1, <2>1, FS_Union
  <2> QED BY <1>1, <1>2, <2>2 DEF SimTypeOK
<1>4. PathTypeOK'
      BY <1>2, TurnFacts, ContactFacts DEF SimTypeOK, PathTypeOK
<1>5. accepted' \in [Node -> SUBSET Vec] /\ now' \in Nat /\ injected' \subseteq Packet
      BY <1>2, TurnFacts DEF SimTypeOK
<1>6. decode_times' \in [Node -> Nat \cup {Never}]
  <2>1. decode_times' = decode_times \/ decode_times' = [decode_times EXCEPT ![e.to] = e.time]
    <3>1. CASE Skip(e)
          BY <3>1 DEF Skip, stateVars
    <3>2. CASE Useful(e)
          BY <3>2 DEF Useful, Conclude
    <3>3. CASE Redundant(e)
          BY <3>3 DEF Redundant, Conclude
    <3> QED BY <3>1, <3>2, <3>3 DEF Turn
  <2> QED BY <1>2, <2>1 DEF SimTypeOK
<1>7. /\ has_forwarded' \in [Node -> BOOLEAN] /\ rounds' \in [Node -> Nat]
      /\ upload' \in [Node -> Nat] /\ download' \in [Node -> Nat] /\ total_packets' \in Nat
  <2>1. CASE UNCHANGED <<has_forwarded, rounds, upload, download, total_packets>>
        BY <1>2, <2>1 DEF SimTypeOK
  <2>2. CASE /\ has_forwarded' = [has_forwarded EXCEPT ![e.to] = TRUE]
             /\ rounds' = [rounds EXCEPT ![e.to] = @ + 1]
             /\ Account(e.to)
    <3>1. has_forwarded' \in [Node -> BOOLEAN] /\ rounds' \in [Node -> Nat]
          BY <1>2, <2>2 DEF SimTypeOK
    <3>2. upload' \in [Node -> Nat] /\ total_packets' \in Nat
          BY <1>2, <2>2 DEF SimTypeOK, Account
    <3>3. download' \in [Node -> Nat]
          BY <1>2, <2>2 DEF SimTypeOK, Account
    <3> QED BY <3>1, <3>2, <3>3
  <2> QED BY <1>1, <2>1, <2>2
<1>8. useful_packets' \in Nat /\ redundant_packets' \in Nat /\ skipped' \in Nat
  <2>1. /\ useful_packets' = useful_packets \/ useful_packets' = useful_packets + 1
        /\ redundant_packets' = redundant_packets \/ redundant_packets' = redundant_packets + 1
        /\ skipped' = skipped \/ skipped' = skipped + 1
    <3>1. CASE Skip(e)
          BY <3>1 DEF Skip, counters
    <3>2. CASE Useful(e)
          BY <3>2 DEF Useful, Conclude
    <3>3. CASE Redundant(e)
          BY <3>3 DEF Redundant, Conclude
    <3> QED BY <3>1, <3>2, <3>3 DEF Turn
  <2> QED BY <1>2, <2>1 DEF SimTypeOK
<1> QED BY <1>3, <1>4, <1>5, <1>6, <1>7, <1>8 DEF SimTypeOK

\* A turn pops the earliest event and adds events one hop ahead.
LEMMA TimelyStep ==
    ASSUME SimInv, NEW e \in event_queue, Turn(e)
    PROVE  Timely'
<1>1. PICK sent \in SUBSET Event :
          /\ event_queue' = (event_queue \ {e}) \cup sent
          /\ \A f \in sent : f.time = e.time + Delay
      BY QueueFacts
<1>2. /\ Delay \in Nat /\ now \in Nat /\ e.time \in Nat
      /\ \A f \in event_queue : f.time \in Nat
      BY DelayAssumption DEF SimInv, SimTypeOK, Event
<1>3. now' = e.time /\ Pops(e)
      BY TurnFacts
<1> SUFFICES ASSUME NEW f \in event_queue' PROVE e.time <= f.time /\ f.time <= e.time + Delay
    BY <1>3 DEF Timely
<1>4. CASE f \in event_queue
      BY <1>2, <1>3, <1>4 DEF Pops, SimInv, Timely
<1>5. CASE f \in sent
      BY <1>1, <1>2, <1>5
<1> QED BY <1>1, <1>4, <1>5

\* A turn marks the node decoded if it completes it.
LEMMA DecodedStep ==
    ASSUME SimInv, NEW e \in event_queue, Turn(e)
    PROVE  DecodedWhenComplete'
<1>1. /\ e.to \in Node /\ e.time \in Nat /\ now \in Nat /\ now <= e.time /\ now' = e.time
      /\ accepted \in [Node -> SUBSET Vec]
      /\ decode_times \in [Node -> Nat \cup {Never}]
      /\ reached \in [Node -> Nat \cup {Never}]
      /\ Never \notin Nat
      BY TurnFacts DEF SimInv, SimTypeOK, PathTypeOK, Event, Timely, Never
<1>2. /\ accepted' = [accepted EXCEPT ![e.to] = accepted'[e.to]]
      /\ accepted'[e.to] \in SUBSET Vec
      BY TurnFacts
<1>3. reached' = reached \/ (reached[e.to] = Never /\ reached' = [reached EXCEPT ![e.to] = e.time])
      BY ContactFacts
<1>4. reached'[e.to] # Never /\ reached'[e.to] \in Nat /\ reached'[e.to] <= e.time
  <2>1. CASE reached[e.to] = Never
        BY <1>1, <2>1, ContactFacts
  <2>2. CASE reached[e.to] # Never
    <3>1. e.to \in Reached
          BY <1>1, <2>2 DEF Reached
    <3>2. reached[e.to] <= now
          BY <3>1 DEF SimInv, Contacted
    <3> QED BY <1>1, <2>2, <3>2, ContactFacts
  <2> QED BY <2>1, <2>2
<1>5. \/ decode_times' = decode_times /\ accepted'[e.to] = accepted[e.to]
      \/ /\ decode_times[e.to] = Never
         /\ decode_times' = IF Span[accepted'[e.to]] = Vec
                            THEN [decode_times EXCEPT ![e.to] = e.time] ELSE decode_times
  <2>1. CASE Skip(e)
        BY <2>1 DEF Skip, stateVars
  <2>2. CASE Useful(e)
        BY <1>1, <2>2 DEF Useful, Conclude, Decodable
  <2>3. CASE Redundant(e)
        BY <1>1, <2>3 DEF Redundant, Conclude, Decodable
  <2> QED BY <2>1, <2>2, <2>3 DEF Turn
<1> SUFFICES ASSUME NEW n \in Node
             PROVE  /\ decode_times'[n] # Never <=> Span[accepted'[n]] = Vec
                    /\ decode_times'[n] # Never =>
                           /\ reached'[n] # Never
                           /\ reached'[n] <= decode_times'[n]
                           /\ decode_times'[n] <= e.time
    BY <1>1 DEF DecodedWhenComplete
<1>6. /\ decode_times[n] # Never <=> Span[accepted[n]] = Vec
      /\ decode_times[n] # Never =>
             reached[n] # Never /\ reached[n] <= decode_times[n] /\ decode_times[n] <= now
      BY DEF SimInv, DecodedWhenComplete
<1>7. CASE n # e.to
  <2>1. accepted'[n] = accepted[n] /\ decode_times'[n] = decode_times[n] /\ reached'[n] = reached[n]
        BY <1>1, <1>2, <1>3, <1>5, <1>7
  <2>2. decode_times[n] # Never => decode_times[n] <= e.time
        BY <1>1, <1>6
  <2> QED BY <1>6, <2>1, <2>2
<1>8. CASE n = e.to /\ decode_times' = decode_times /\ accepted'[e.to] = accepted[e.to]
  <2>1. decode_times[n] # Never => reached'[n] = reached[n] /\ decode_times[n] <= e.time
        BY <1>1, <1>3, <1>6, <1>8
  <2> QED BY <1>6, <1>8, <2>1
<1>9. CASE /\ n = e.to /\ decode_times[e.to] = Never
           /\ decode_times' = IF Span[accepted'[e.to]] = Vec
                              THEN [decode_times EXCEPT ![e.to] = e.time] ELSE decode_times
      BY <1>1, <1>4, <1>9
<1> QED BY <1>5, <1>7, <1>8, <1>9

\* Recoding stays within the span of the proposer's packets.
LEMMA MadeUpStep ==
    ASSUME SimInv, NEW e \in event_queue, Turn(e)
    PROVE  NothingMadeUp'
<1>1. PICK sent \in SUBSET Event :
          /\ event_queue' = (event_queue \ {e}) \cup sent
          /\ \A f \in sent : f.packet \in Span[accepted'[e.to]]
          /\ sent = {} \/ decode_times[e.to] = Never
      BY QueueFacts
<1>2. /\ e.to \in Node /\ injected \in SUBSET Vec /\ accepted \in [Node -> SUBSET Vec]
      BY DEF SimInv, SimTypeOK, Event, Packet
<1>3. /\ injected' = injected
      /\ accepted' = [accepted EXCEPT ![e.to] = accepted'[e.to]]
      /\ accepted'[e.to] \in SUBSET Vec
      /\ accepted'[e.to] \subseteq accepted[e.to] \cup {e.packet}
      BY TurnFacts
<1>4. /\ \A n \in Node \ {Proposer} : accepted[n] \subseteq Span[injected]
      /\ \A f \in event_queue : f.packet \in Span[injected]
      BY DEF SimInv, NothingMadeUp
<1>5. \A n \in Node \ {Proposer} : accepted'[n] \subseteq Span[injected]
  <2> SUFFICES ASSUME NEW n \in Node \ {Proposer} PROVE accepted'[n] \subseteq Span[injected]
      OBVIOUS
  <2>1. CASE n = e.to
        BY <1>2, <1>3, <1>4, <2>1
  <2>2. CASE n # e.to
        BY <1>2, <1>3, <1>4, <2>2
  <2> QED BY <2>1, <2>2
<1>6. ASSUME NEW f \in sent PROVE f.packet \in Span[injected]
  <2>1. e.to # Proposer
        BY <1>1 DEF SimInv, Contacted
  <2>2. Span[accepted'[e.to]] \subseteq Span[injected]
        BY <1>2, <1>3, <1>5, <2>1, SpanFacts
  <2> QED BY <1>1, <2>2
<1> QED BY <1>1, <1>3, <1>4, <1>5, <1>6 DEF NothingMadeUp

\* Who is reached after a turn.
LEMMA ReachedFacts ==
    ASSUME SimInv, NEW e \in event_queue, Turn(e)
    PROVE  /\ reached \in [Node -> Nat \cup {Never}] /\ e.to \in Node /\ e.time \in Nat
           /\ Never \notin Nat /\ Delay \in Nat /\ now \in Nat /\ now <= e.time
           /\ Reached' = Reached \cup {e.to}
           /\ \A n \in Reached : reached'[n] = reached[n] /\ reached[n] \in Nat /\ reached[n] <= now
           /\ reached'[e.to] \in Nat /\ reached'[e.to] <= e.time
           /\ e.to \notin Reached => reached'[e.to] = e.time
<1>1. /\ reached \in [Node -> Nat \cup {Never}] /\ e.to \in Node /\ e.time \in Nat
      /\ Never \notin Nat /\ Delay \in Nat /\ now \in Nat /\ now <= e.time
      BY DelayAssumption DEF SimInv, SimTypeOK, PathTypeOK, Event, Timely, Never
<1>2. \A n \in Reached : reached[n] \in Nat /\ reached[n] <= now
      BY <1>1 DEF Reached, SimInv, Contacted
<1>3. CASE reached[e.to] # Never
  <2>1. e.to \in Reached /\ reached' = reached
        BY <1>1, <1>3, ContactFacts DEF Reached
  <2>2. Reached' = Reached
        BY <2>1 DEF Reached
  <2> QED BY <1>1, <1>2, <2>1, <2>2
<1>4. CASE reached[e.to] = Never
  <2>1. e.to \notin Reached /\ reached' = [reached EXCEPT ![e.to] = e.time]
        BY <1>4, ContactFacts DEF Reached
  <2>2. Reached' = Reached \cup {e.to}
        BY <1>1, <2>1 DEF Reached
  <2> QED BY <1>1, <1>2, <2>1, <2>2
<1> QED BY <1>3, <1>4

\* The first packet a node receives is useful to it.
LEMMA ContactedStep ==
    ASSUME SimInv, NEW e \in event_queue, Turn(e)
    PROVE  Contacted'
<1>1. PICK sent \in SUBSET Event :
          \/ has_forwarded' = has_forwarded
          \/ has_forwarded' = [has_forwarded EXCEPT ![e.to] = TRUE]
      BY QueueFacts
<1>2. /\ has_forwarded \in [Node -> BOOLEAN] /\ accepted \in [Node -> SUBSET Vec]
      /\ e.packet \in Packet /\ Proposer \in Node
      BY MeshAssumption DEF SimInv, SimTypeOK, Event
<1>3. /\ now' = e.time
      /\ accepted' = [accepted EXCEPT ![e.to] = accepted'[e.to]]
      /\ accepted[e.to] \subseteq accepted'[e.to]
      /\ accepted'[e.to] \subseteq accepted[e.to] \cup {e.packet}
      BY TurnFacts
<1>4. reached'[Proposer] # Never /\ decode_times'[Proposer] # Never
  <2>1. Proposer \in Reached /\ decode_times[Proposer] # Never
        BY <1>2 DEF Reached, SimInv, Contacted
  <2>2. reached'[Proposer] # Never
        BY <2>1, ReachedFacts
  <2>3. accepted[Proposer] \subseteq accepted'[Proposer] /\ Span[accepted[Proposer]] = Vec
        BY <1>2, <1>3, <2>1, ReachedFacts DEF SimInv, DecodedWhenComplete
  <2>4. accepted' \in [Node -> SUBSET Vec]
        BY TypeStep DEF SimTypeOK
  <2>5. Span[accepted'[Proposer]] = Vec
    <3>1. accepted[Proposer] \in SUBSET Vec /\ accepted'[Proposer] \in SUBSET Vec
          BY <1>2, <2>4
    <3>2. /\ Span[accepted[Proposer]] \subseteq Span[accepted'[Proposer]]
          /\ Span[accepted'[Proposer]] \in SUBSET Vec
          BY <2>3, <3>1, SpanFacts
    <3> QED BY <2>3, <3>2
  <2>6. DecodedWhenComplete'
        BY DecodedStep
  <2>7. decode_times'[Proposer] # Never
        BY <1>2, <2>5, <2>6 DEF DecodedWhenComplete
  <2> QED BY <2>2, <2>7
<1>5. \A n \in Reached' : reached'[n] <= e.time
  <2> SUFFICES ASSUME NEW n \in Reached' PROVE reached'[n] <= e.time
      OBVIOUS
  <2>1. CASE n = e.to
        BY <2>1, ReachedFacts
  <2>2. CASE n \in Reached
        BY <2>2, ReachedFacts
  <2> QED BY <2>1, <2>2, ReachedFacts
<1>6. ASSUME NEW n \in Node \ {Proposer}
      PROVE  /\ accepted'[n] \subseteq Packet
             /\ reached'[n] = Never <=> accepted'[n] = {}
             /\ has_forwarded'[n] => reached'[n] # Never
  <2>1. /\ accepted[n] \subseteq Packet
        /\ reached[n] = Never <=> accepted[n] = {}
        /\ has_forwarded[n] => reached[n] # Never
        BY DEF SimInv, Contacted
  <2>2. CASE n # e.to
    <3>1. accepted'[n] = accepted[n] /\ has_forwarded'[n] = has_forwarded[n]
          BY <1>1, <1>2, <1>3, <2>2
    <3>2. reached'[n] = reached[n]
          BY <2>2, ReachedFacts, ContactFacts
    <3> QED BY <2>1, <3>1, <3>2
  <2>3. CASE n = e.to
    <3>1. reached'[n] # Never
          BY <2>3, ReachedFacts
    <3>2. accepted'[n] # {}
      <4>1. CASE accepted[n] # {}
            BY <1>3, <2>3, <4>1
      <4>2. CASE accepted[n] = {}
        <5>1. CASE Useful(e)
          <6>1. accepted' = [accepted EXCEPT ![e.to] = accepted[e.to] \cup {e.packet}]
                BY <5>1 DEF Useful, Conclude
          <6> QED BY <1>2, <2>3, <6>1
        <5>2. CASE Skip(e)
              BY <2>1, <2>3, <4>2, <5>2, ReachedFacts DEF Skip, SimInv, DecodedWhenComplete
        <5>3. CASE Redundant(e)
              BY <1>2, <2>3, <4>2, <5>3 DEF Redundant, Packet
        <5> QED BY <5>1, <5>2, <5>3 DEF Turn
      <4> QED BY <4>1, <4>2
    <3> QED BY <1>2, <1>3, <2>1, <2>3, <3>1, <3>2
  <2> QED BY <2>2, <2>3
<1> QED BY <1>3, <1>4, <1>5, <1>6 DEF Contacted

\* Only nodes that were reached send, and only to their peers.
LEMMA SourcedStep ==
    ASSUME SimInv, NEW e \in event_queue, Turn(e)
    PROVE  Sourced'
<1>1. PICK sent \in SUBSET Event :
          /\ event_queue' = (event_queue \ {e}) \cup sent
          /\ \A f \in sent :
                 f.from = e.to /\ f.time = e.time + Delay /\ f.to \in neighbors[e.to]
      BY QueueFacts
<1>2. neighbors' = neighbors /\ event_queue \subseteq Event
      BY TurnFacts DEF SimInv, SimTypeOK
<1> SUFFICES ASSUME NEW f \in event_queue'
             PROVE  f.from \in Reached' /\ f.to \in neighbors[f.from] /\ reached'[f.from] + Delay <= f.time
    BY <1>2 DEF Sourced
<1>3. CASE f \in event_queue
  <2>1. f.from \in Reached /\ f.to \in neighbors[f.from] /\ reached[f.from] + Delay <= f.time
        BY <1>3 DEF SimInv, Sourced
  <2> QED BY <2>1, ReachedFacts
<1>4. CASE f \in sent
      BY <1>1, <1>4, ReachedFacts
<1> QED BY <1>1, <1>3, <1>4

\* A node reached for the first time sends to all its peers; the event popped is
\* missed only by links to its receiver, which is reached now.
LEMMA PendingStep ==
    ASSUME SimInv, NEW e \in event_queue, Turn(e)
    PROVE  Pending'
<1>1. PICK sent \in SUBSET Event :
          /\ event_queue' = (event_queue \ {e}) \cup sent
          /\ \A f \in sent : f.time = e.time + Delay
          /\ reached[e.to] = Never => \A p \in neighbors[e.to] : \E f \in sent : f.to = p
      BY QueueFacts
<1>2. neighbors' = neighbors
      BY TurnFacts
<1> SUFFICES ASSUME NEW link \in Frontier'
             PROVE  \E f \in event_queue' : f.to = link[2] /\ f.time = reached'[link[1]] + Delay
    BY DEF Pending
<1>3. /\ link[1] \in Reached' /\ link[2] \in Node /\ link[2] \notin Reached'
      /\ link[2] \in neighbors[link[1]] /\ link = <<link[1], link[2]>>
      BY <1>2 DEF Frontier
<1>4. CASE link[1] \in Reached
  <2>1. link \in Frontier /\ link[2] # e.to
        BY <1>3, <1>4, ReachedFacts DEF Frontier
  <2>2. PICK f \in event_queue : f.to = link[2] /\ f.time = reached[link[1]] + Delay
        BY <2>1 DEF SimInv, Pending
  <2>3. f # e
        BY <2>1, <2>2
  <2> QED BY <1>1, <1>4, <2>2, <2>3, ReachedFacts
<1>5. CASE link[1] \notin Reached
  <2>1. link[1] = e.to /\ reached[e.to] = Never /\ reached'[e.to] = e.time
        BY <1>3, <1>5, ReachedFacts DEF Reached
  <2>2. PICK f \in sent : f.to = link[2]
        BY <1>1, <1>3, <2>1
  <2> QED BY <1>1, <2>1, <2>2
<1> QED BY <1>4, <1>5

\* What the proposer sends first, before the loop.
LEMMA FirstTransmission ==
    ASSUME Init, neighbors \in Meshes, neighbors \in [Node -> SUBSET Node]
    PROVE  /\ event_queue \subseteq Event /\ IsFiniteSet(event_queue)
           /\ Cardinality(event_queue) = Cardinality(neighbors[Proposer])
           /\ \A e \in event_queue : /\ e.from = Proposer /\ e.round = 1
                                     /\ e.time = Delay /\ e.to \in neighbors[Proposer]
           /\ \A p \in neighbors[Proposer] : \E e \in event_queue : e.to = p
<1>1. Proposer \in Node /\ Delay \in Nat /\ Vec \in SUBSET Vec
      BY MeshAssumption, DelayAssumption
<1>2. PICK packet \in [neighbors[Proposer] -> Packet] :
          event_queue = Transmission(Proposer, 1, 0, packet)
      BY DEF Init
<1>3. Recodings(Vec) = Packet
  <2>1. Span[Vec] = Vec
        BY <1>1, SpanFacts
  <2> QED BY <2>1 DEF Recodings, Packet
<1>4. packet \in [neighbors[Proposer] -> Recodings(Vec)] /\ 0 + Delay = Delay
      BY <1>1, <1>2, <1>3
<1>5. \A e \in event_queue : e.round = 1
      BY <1>2 DEF Transmission
<1>6. event_queue \subseteq Event /\ IsFiniteSet(event_queue)
      BY <1>1, <1>2, <1>4, TransmissionFacts
<1>7. Cardinality(event_queue) = Cardinality(neighbors[Proposer])
      BY <1>1, <1>2, <1>4, TransmissionFacts
<1>8. \A e \in event_queue : e.from = Proposer /\ e.time = Delay /\ e.to \in neighbors[Proposer]
      BY <1>2, <1>4 DEF Transmission
<1>9. \A p \in neighbors[Proposer] : \E e \in event_queue : e.to = p
  <2> SUFFICES ASSUME NEW p \in neighbors[Proposer] PROVE \E e \in event_queue : e.to = p
      OBVIOUS
  <2> DEFINE e == [from |-> Proposer, round |-> 1, to |-> p, time |-> 0 + Delay,
                   packet |-> packet[p]]
  <2>1. e \in event_queue
        BY <1>2 DEF Transmission
  <2>2. e.to = p
        OBVIOUS
  <2> QED BY <2>1, <2>2
<1> QED BY <1>5, <1>6, <1>7, <1>8, <1>9

\* The invariant holds when the loop starts.
LEMMA SimInvInit == Init => SimInv
<1> SUFFICES ASSUME Init PROVE SimInv
    OBVIOUS
<1>1. PathInv
      BY PathInvInit DEF Init
<1>2. neighbors \in Meshes /\ PathTypeOK /\ neighbors \in [Node -> SUBSET Node]
      BY <1>1 DEF PathInv, PathTypeOK
<1>3. /\ Proposer \in Node /\ Degree \in Nat /\ Delay \in Nat /\ Never \notin Nat
      /\ Vec \in SUBSET Vec /\ Packet \subseteq Vec
      BY MeshAssumption, DelayAssumption DEF Never, Packet
<1>4. PICK packet \in [neighbors[Proposer] -> Packet] :
          /\ event_queue = Transmission(Proposer, 1, 0, packet)
          /\ injected = {packet[p] : p \in neighbors[Proposer]}
      BY DEF Init
<1>5. Recodings(Vec) = Packet /\ Span[Vec] = Vec
  <2>1. Span[Vec] = Vec
        BY <1>3, SpanFacts
  <2> QED BY <2>1 DEF Recodings, Packet
<1>6. /\ event_queue \subseteq Event /\ IsFiniteSet(event_queue)
      /\ \A e \in event_queue : e.from = Proposer /\ e.time = Delay /\ e.to \in neighbors[Proposer]
      /\ \A p \in neighbors[Proposer] : \E e \in event_queue : e.to = p
      BY <1>2, FirstTransmission
<1>7. /\ reached \in [Node -> Nat \cup {Never}] /\ reached[Proposer] = 0
      /\ Reached = {Proposer}
      /\ \A n \in Node \ {Proposer} : reached[n] = Never
      BY <1>3 DEF Init, PathInit, Reached, Never
<1>8. SimTypeOK
      BY <1>2, <1>3, <1>4, <1>6 DEF Init, SimTypeOK
<1>9. Timely
      BY <1>3, <1>6 DEF Timely, Init
<1>10. DecodedWhenComplete
  <2> SUFFICES ASSUME NEW n \in Node
               PROVE  /\ decode_times[n] # Never <=> Span[accepted[n]] = Vec
                      /\ decode_times[n] # Never =>
                             reached[n] # Never /\ reached[n] <= decode_times[n] /\ decode_times[n] <= now
      BY DEF DecodedWhenComplete
  <2>1. Span[{}] # Vec
        BY PacketAssumption DEF Packet
  <2>2. CASE n = Proposer
        BY <1>3, <1>5, <1>7, <2>2 DEF Init, Never
  <2>3. CASE n # Proposer
        BY <2>1, <2>3 DEF Init
  <2> QED BY <2>2, <2>3
<1>11. NothingMadeUp
  <2>1. injected \in SUBSET Vec
        BY <1>3, <1>4
  <2>2. injected \subseteq Span[injected]
        BY <2>1, SpanFacts
  <2>3. \A e \in event_queue : e.packet \in injected
        BY <1>4 DEF Transmission
  <2> QED BY <2>2, <2>3 DEF NothingMadeUp, Init
<1>12. Contacted
      BY <1>3, <1>7 DEF Contacted, Init, Never
<1>13. Sourced
      BY <1>3, <1>6, <1>7 DEF Sourced
<1>14. Pending
      BY <1>3, <1>6, <1>7 DEF Pending, Frontier
<1> QED BY <1>2, <1>8, <1>9, <1>10, <1>11, <1>12, <1>13, <1>14 DEF SimInv

\* The invariant is inductive.
LEMMA SimInvInductive == SimInv /\ [Next]_simVars => SimInv'
<1> SUFFICES ASSUME SimInv, [Next]_simVars PROVE SimInv'
    OBVIOUS
<1>1. ASSUME NEW e \in event_queue, Turn(e) PROVE SimInv'
  <2>1. neighbors' \in Meshes
        BY <1>1, TurnFacts DEF SimInv
  <2> QED BY <1>1, <2>1, TypeStep, TimelyStep, DecodedStep, MadeUpStep, ContactedStep,
             SourcedStep, PendingStep DEF SimInv
<1>2. CASE Finish
      BY <1>2 DEF Finish, stateVars, counters, SimInv, SimTypeOK, PathTypeOK, Timely,
                  DecodedWhenComplete, NothingMadeUp, Contacted, Sourced, Pending, Reached, Frontier
<1>3. CASE UNCHANGED simVars
      BY <1>3 DEF simVars, stateVars, counters, SimInv, SimTypeOK, PathTypeOK, Timely,
                  DecodedWhenComplete, NothingMadeUp, Contacted, Sourced, Pending, Reached, Frontier
<1> QED BY <1>1, <1>2, <1>3 DEF Next, Turn

\* The inductive invariant holds before and after every turn of the event loop.
THEOREM SimInvariant == SimSpec => []SimInv
<1> QED BY SimInvInit, SimInvInductive, PTL DEF SimSpec

\* The variables keep their types.  (engine.rs: run)
THEOREM SimTypeCorrect == SimSpec => []SimTypeOK
<1> QED BY SimInvariant, PTL DEF SimInv

\* Simulated time never runs backwards.  (engine.rs: the heap of Reverse events)
THEOREM TimeMovesForward == SimSpec => []Timely
<1> QED BY SimInvariant, PTL DEF SimInv

\* A node is skipped exactly when it has nothing to learn.  (engine.rs: decode_times)
THEOREM SkipsOnlyComplete == SimSpec => []DecodedWhenComplete
<1> QED BY SimInvariant, PTL DEF SimInv

\* Recoding makes nothing up.  (helpers.rs: coded_forward)
THEOREM NoInformationMadeUp == SimSpec => []NothingMadeUp
<1> QED BY SimInvariant, PTL DEF SimInv

\* The event loop is a shortest-path computation: a turn reaches the nearest node
\* not yet reached, or changes nothing of who was reached and when.
THEOREM ImplementsShortestPaths == SimSpec => PathSpec
<1>1. Init => PathInit
      BY DEF Init
<1>2. ASSUME SimInv, NEW e \in event_queue, Turn(e) PROVE [PathNext]_pathVars
  <2>1. neighbors' = neighbors /\ Pops(e)
        BY <1>2, TurnFacts
  <2>2. CASE reached' = reached
        BY <2>1, <2>2 DEF pathVars
  <2>3. CASE reached' # reached
    <3>1. reached[e.to] = Never /\ reached' = [reached EXCEPT ![e.to] = e.time]
          BY <1>2, <2>3, ContactFacts
    <3>2. /\ e.from \in Reached /\ e.to \in neighbors[e.from]
          /\ reached[e.from] + Delay <= e.time
          BY <1>2 DEF SimInv, Sourced
    <3>3. e.to \in Node \ Reached /\ e.from \in Node
          BY <1>2, <3>1, <3>2, ReachedFacts DEF Reached
    <3>4. \A link \in Frontier : e.time <= reached[link[1]] + Delay
      <4> SUFFICES ASSUME NEW link \in Frontier PROVE e.time <= reached[link[1]] + Delay
          OBVIOUS
      <4>1. PICK f \in event_queue : f.time = reached[link[1]] + Delay
            BY <1>2 DEF SimInv, Pending
      <4> QED BY <2>1, <4>1 DEF Pops
    <3>5. <<e.from, e.to>> \in Frontier
          BY <3>2, <3>3 DEF Frontier
    <3>6. /\ reached[e.from] \in Nat /\ Delay \in Nat /\ e.time \in Nat
          /\ \A link \in Frontier : reached[link[1]] \in Nat
          BY <1>2, <3>2, ReachedFacts DEF Frontier
    <3>7. e.time = reached[e.from] + Delay
      <4>1. e.time <= reached[e.from] + Delay
            BY <3>4, <3>5
      <4> QED BY <3>2, <3>6, <4>1
    <3>8. \A link \in Frontier : reached[e.from] <= reached[link[1]]
          BY <3>4, <3>6, <3>7
    <3>9. Reach(e.from, e.to)
          BY <2>1, <3>1, <3>5, <3>7, <3>8 DEF Reach, Nearest
    <3> QED BY <3>3, <3>9 DEF PathNext
  <2> QED BY <2>2, <2>3
<1>3. SimInv /\ [Next]_simVars => [PathNext]_pathVars
  <2>1. Finish => UNCHANGED pathVars
        BY DEF Finish, pathVars
  <2>2. UNCHANGED simVars => UNCHANGED pathVars
        BY DEF simVars, pathVars
  <2> QED BY <1>2, <2>1, <2>2 DEF Next, Turn
<1> QED BY <1>1, <1>3, SimInvariant, PTL DEF SimSpec, PathSpec

\* Contact times are those of shortest paths in the mesh.
THEOREM SimShortest == SimSpec => []Shortest
<1> QED BY ImplementsShortestPaths, ShortestTimes, PTL

\* When the queue runs empty every node has been reached, and with the baseline every
\* node has the block, whatever mesh was drawn.
THEOREM NobodyIsLeftOut == SimSpec => []NobodyLeftOut
<1>1. SimInv /\ AllReached => NobodyLeftOut
  <2> SUFFICES ASSUME SimInv, AllReached, event_queue = {}
               PROVE  /\ Reached = Node
                      /\ ForwardWhen = "AfterDecode" => Decoders = Node
      BY DEF NobodyLeftOut
  <2>1. Reached = Node
        BY DEF SimInv, Pending, AllReached
  <2>2. ASSUME ForwardWhen = "AfterDecode", NEW n \in Node PROVE decode_times[n] # Never
    <3>1. CASE n = Proposer
          BY <3>1 DEF SimInv, Contacted
    <3>2. CASE n # Proposer
      <4>1. accepted[n] # {} /\ accepted[n] \in SUBSET Packet
            BY <2>1, <3>2 DEF SimInv, Contacted, Reached
      <4>2. Span[accepted[n]] = Vec
            BY <2>2, <4>1, OnePacketIsAll
      <4> QED BY <4>2 DEF SimInv, DecodedWhenComplete
    <3> QED BY <3>1, <3>2
  <2> QED BY <2>1, <2>2 DEF Decoders
<1>2. PathSpec => []AllReached
      BY EverybodyReached
<1> QED BY <1>1, <1>2, ImplementsShortestPaths, SimInvariant, PTL

-----------------------------------------------------------------------------
\* Accounting.  A transmission's events differ from all others: their round is new.
Numbered == \A e \in event_queue : e.round <= rounds[e.from]

CountInv == PacketsAccounted /\ Numbered

\* The proposer's packets are counted before the loop.
LEMMA CountInit == Init => CountInv
<1> SUFFICES ASSUME Init PROVE CountInv
    OBVIOUS
<1>1. /\ neighbors \in Meshes /\ neighbors \in [Node -> SUBSET Node]
      /\ Proposer \in Node /\ Degree \in Nat
      BY SimInvInit, MeshAssumption DEF SimInv, SimTypeOK, PathTypeOK
<1>4. /\ Cardinality(event_queue) = Cardinality(neighbors[Proposer])
      /\ \A e \in event_queue : e.from = Proposer /\ e.round = 1
      BY <1>1, FirstTransmission
<1>5. Cardinality(event_queue) = Degree
      BY <1>1, <1>4, MeshDegree
<1>6. PacketsAccounted
      BY <1>1, <1>5 DEF Init, PacketsAccounted
<1>7. Numbered
      BY <1>1, <1>4 DEF Init, Numbered
<1> QED BY <1>6, <1>7 DEF CountInv

\* One packet is dealt with, `sent` are added.
LEMMA Balance ==
    \A past, queue, sent \in Nat : (past + queue) + sent = (past + 1) + (queue - 1 + sent)
<1> QED OBVIOUS

\* Each turn takes one packet out, counts it, and counts what it adds.
LEMMA CountStep ==
    ASSUME SimInv, CountInv, NEW e \in event_queue, Turn(e)
    PROVE  CountInv'
<1>1. PICK sent \in SUBSET Event :
          /\ event_queue' = (event_queue \ {e}) \cup sent
          /\ IsFiniteSet(sent)
          /\ \A f \in sent : f.from = e.to /\ f.round = rounds[e.to] + 1
          /\ \/ sent = {} /\ rounds' = rounds /\ total_packets' = total_packets
             \/ /\ rounds' = [rounds EXCEPT ![e.to] = @ + 1]
                /\ Account(e.to)
                /\ Cardinality(sent) = Cardinality(neighbors[e.to])
      BY QueueFacts
<1>2. /\ SimTypeOK /\ event_queue \subseteq Event /\ IsFiniteSet(event_queue)
      /\ e.to \in Node /\ rounds \in [Node -> Nat] /\ Degree \in Nat
      /\ total_packets \in Nat /\ useful_packets \in Nat /\ redundant_packets \in Nat /\ skipped \in Nat
      BY MeshAssumption DEF SimInv, SimTypeOK, Event
<1>3. Cardinality(event_queue) \in Nat /\ Cardinality(event_queue \ {e}) = Cardinality(event_queue) - 1
      /\ IsFiniteSet(event_queue \ {e})
      BY <1>2, FS_CardinalityType, FS_RemoveElement
<1>4. (event_queue \ {e}) \cap sent = {}
  <2> SUFFICES ASSUME NEW f \in event_queue, f \in sent PROVE FALSE
      OBVIOUS
  <2>1. f.round = rounds[e.to] + 1 /\ f.from = e.to
        BY <1>1
  <2>2. f.round <= rounds[e.to]
        BY <2>1 DEF CountInv, Numbered
  <2> QED BY <1>2, <2>1, <2>2
<1>5. Cardinality(event_queue') = Cardinality(event_queue) - 1 + Cardinality(sent)
  <2>1. Cardinality((event_queue \ {e}) \cap sent) = 0
        BY <1>4, FS_EmptySet
  <2>2. Cardinality(event_queue') = Cardinality(event_queue \ {e}) + Cardinality(sent)
                                       - Cardinality((event_queue \ {e}) \cap sent)
        BY <1>1, <1>3, FS_Union
  <2>3. Cardinality(sent) \in Nat
        BY <1>1, FS_CardinalityType
  <2> QED BY <1>3, <2>1, <2>2, <2>3
<1>6. total_packets' = total_packets + Cardinality(sent) /\ Cardinality(sent) \in Nat
  <2>1. CASE sent = {} /\ total_packets' = total_packets
        BY <1>2, <2>1, FS_EmptySet
  <2>2. CASE Account(e.to) /\ Cardinality(sent) = Cardinality(neighbors[e.to])
    <3>1. Cardinality(sent) = Degree
          BY <1>2, <2>2, MeshDegree DEF SimInv
    <3> QED BY <1>2, <2>2, <3>1 DEF Account
  <2> QED BY <1>1, <2>1, <2>2
<1>7. useful_packets' + redundant_packets' + skipped'
          = useful_packets + redundant_packets + skipped + 1
  <2>1. CASE Skip(e)
        BY <1>2, <2>1 DEF Skip, counters
  <2>2. CASE Useful(e)
        BY <1>2, <2>2 DEF Useful, Conclude
  <2>3. CASE Redundant(e)
        BY <1>2, <2>3 DEF Redundant, Conclude
  <2> QED BY <2>1, <2>2, <2>3 DEF Turn
<1>8. PacketsAccounted'
  <2>1. /\ useful_packets' \in Nat /\ redundant_packets' \in Nat /\ skipped' \in Nat
        BY TypeStep DEF SimTypeOK
  <2>2. total_packets = useful_packets + redundant_packets + skipped + Cardinality(event_queue)
        BY DEF CountInv, PacketsAccounted
  <2>3. useful_packets + redundant_packets + skipped \in Nat
        BY <1>2
  <2>4. (useful_packets + redundant_packets + skipped + Cardinality(event_queue)) + Cardinality(sent)
            = (useful_packets + redundant_packets + skipped + 1)
                  + (Cardinality(event_queue) - 1 + Cardinality(sent))
        BY <1>3, <1>6, <2>3, Balance, Zenon
  <2> QED BY <1>5, <1>6, <1>7, <2>2, <2>4, Zenon DEF PacketsAccounted
<1>9. Numbered'
  <2> SUFFICES ASSUME NEW f \in event_queue' PROVE f.round <= rounds'[f.from]
      BY DEF Numbered
  <2>1. CASE f \in event_queue
    <3>1. f.round <= rounds[f.from] /\ f.round \in Nat /\ f.from \in Node
          BY <1>2, <2>1 DEF CountInv, Numbered, Event
    <3>2. rounds[f.from] <= rounds'[f.from] /\ rounds[f.from] \in Nat /\ rounds'[f.from] \in Nat
          BY <1>1, <1>2, <3>1
    <3> QED BY <3>1, <3>2
  <2>2. CASE f \in sent
    <3>1. sent # {}
          BY <2>2
    <3>2. rounds' = [rounds EXCEPT ![e.to] = @ + 1]
          BY <1>1, <3>1
    <3>3. rounds'[e.to] = rounds[e.to] + 1 /\ rounds[e.to] + 1 \in Nat
          BY <1>2, <3>2
    <3>4. f.from = e.to /\ f.round = rounds[e.to] + 1
          BY <1>1, <2>2
    <3> QED BY <3>3, <3>4
  <2> QED BY <1>1, <2>1, <2>2
<1> QED BY <1>8, <1>9 DEF CountInv

\* No packet is lost, doubled or counted twice.  (engine.rs: total_packets and its parts)
THEOREM EveryPacketAccounted == SimSpec => []PacketsAccounted
<1>1. SimInv /\ CountInv /\ [Next]_simVars => CountInv'
  <2>1. Finish /\ CountInv => CountInv'
        BY DEF Finish, counters, CountInv, PacketsAccounted, Numbered
  <2>2. UNCHANGED simVars /\ CountInv => CountInv'
        BY DEF simVars, counters, CountInv, PacketsAccounted, Numbered
  <2> QED BY <2>1, <2>2, CountStep DEF Next, Turn
<1>2. CountInv => PacketsAccounted
      BY DEF CountInv
<1> QED BY <1>1, <1>2, CountInit, SimInvariant, PTL DEF SimSpec

-----------------------------------------------------------------------------
\* Forwarding.  A receiver's packets can be counted.
ForwardInv ==
    /\ ForwardsAsDocumented
    /\ \A n \in Node \ {Proposer} : IsFiniteSet(accepted[n])

\* No receiver has anything, and none has sent anything, before the loop.
LEMMA ForwardInit == Init => ForwardInv
<1> SUFFICES ASSUME Init, NEW n \in Node \ {Proposer}
             PROVE  /\ rounds[n] = AsOftenAsAllowed(n) /\ upload[n] = Degree * rounds[n]
                    /\ has_forwarded[n] <=> rounds[n] > 0
                    /\ IsFiniteSet(accepted[n])
    BY DEF ForwardInv, ForwardsAsDocumented
<1>1. /\ rounds[n] = 0 /\ upload[n] = 0 /\ has_forwarded[n] = FALSE
      /\ accepted[n] = {} /\ decode_times[n] = Never
      BY DEF Init
<1>2. IsFiniteSet({}) /\ Cardinality({}) = 0
      BY FS_EmptySet
<1>3. AsOftenAsAllowed(n) = 0
      BY <1>1, <1>2, ForwardAssumption DEF AsOftenAsAllowed
<1>4. Degree * 0 = 0
      BY MeshAssumption
<1> QED BY <1>1, <1>2, <1>3, <1>4

\* What a turn at node n makes of its rounds, uploads and mark: they grow together or not.
Sends(n) ==
    /\ rounds'[n] = rounds[n] + 1 /\ upload'[n] = upload[n] + Degree /\ has_forwarded'[n] = TRUE
Rests(n) ==
    /\ rounds'[n] = rounds[n] /\ upload'[n] = upload[n] /\ has_forwarded'[n] = has_forwarded[n]

\* A turn at one node leaves the others at rest.
LEMMA OthersRest ==
    ASSUME SimInv, NEW e \in event_queue, Turn(e), NEW n \in Node, n # e.to
    PROVE  Rests(n) /\ accepted'[n] = accepted[n] /\ decode_times'[n] = decode_times[n]
<1>1. /\ KeepQuiet(e) \/ Forward(e, accepted'[e.to])
      /\ accepted' = [accepted EXCEPT ![e.to] = accepted'[e.to]]
      BY TurnFacts
<1>2. /\ rounds \in [Node -> Nat] /\ upload \in [Node -> Nat] /\ has_forwarded \in [Node -> BOOLEAN]
      /\ accepted \in [Node -> SUBSET Vec] /\ decode_times \in [Node -> Nat \cup {Never}]
      BY DEF SimInv, SimTypeOK
<1>3. Rests(n)
  <2>1. CASE KeepQuiet(e)
        BY <2>1 DEF KeepQuiet, Rests
  <2>2. CASE Forward(e, accepted'[e.to])
        BY <1>2, <2>2 DEF Forward, Account, Rests
  <2> QED BY <1>1, <2>1, <2>2
<1>4. accepted'[n] = accepted[n]
      BY <1>1, <1>2
<1>5. decode_times'[n] = decode_times[n]
  <2>1. CASE Skip(e)
        BY <2>1 DEF Skip, stateVars
  <2>2. CASE Useful(e)
        BY <1>2, <2>2 DEF Useful, Conclude
  <2>3. CASE Redundant(e)
        BY <1>2, <2>3 DEF Redundant, Conclude
  <2> QED BY <2>1, <2>2, <2>3 DEF Turn
<1> QED BY <1>3, <1>4, <1>5

\* The end of a turn: the node sends if it should.
LEMMA ConcludeFacts ==
    ASSUME SimInv, NEW e \in event_queue, NEW more \in BOOLEAN, NEW known, Conclude(e, more, known)
    PROVE  /\ ShouldForward(e.to, more, known) => Sends(e.to)
           /\ ~ ShouldForward(e.to, more, known) => Rests(e.to)
           /\ decode_times[e.to] = Never /\ accepted'[e.to] = known
           /\ decode_times'[e.to] # Never <=> Decodable(known)
<1>1. /\ rounds \in [Node -> Nat] /\ upload \in [Node -> Nat] /\ has_forwarded \in [Node -> BOOLEAN]
      /\ accepted \in [Node -> SUBSET Vec] /\ decode_times \in [Node -> Nat \cup {Never}]
      /\ e.to \in Node /\ e.time \in Nat
      BY DEF SimInv, SimTypeOK, Event
<1>2. ASSUME ShouldForward(e.to, more, known) PROVE Sends(e.to)
  <2>1. Forward(e, known)
        BY <1>2 DEF Conclude
  <2> QED BY <1>1, <2>1 DEF Forward, Account, Sends
<1>3. ASSUME ~ ShouldForward(e.to, more, known) PROVE Rests(e.to)
  <2>1. KeepQuiet(e)
        BY <1>3 DEF Conclude
  <2> QED BY <2>1 DEF KeepQuiet, Rests
<1>4. decode_times[e.to] = Never /\ accepted'[e.to] = known
      BY <1>1 DEF Conclude
<1>5. decode_times'[e.to] # Never <=> Decodable(known)
  <2>1. e.time # Never
        BY <1>1 DEF Never
  <2> QED BY <1>1, <1>4, <2>1 DEF Conclude
<1> QED BY <1>2, <1>3, <1>4, <1>5

\* How often a node that holds `known` and decoded at time t (or Never) should have sent.
AllowedFor(known, t) ==
    CASE ForwardWhen = "AfterDecode" -> IF t # Never THEN 1 ELSE 0
      [] ForwardWhen = "OneShot" -> IF known # {} THEN 1 ELSE 0
      [] ForwardWhen = "UntilDecode" -> Cardinality(known)

\* The documented number depends on what the node holds and on when it decoded.
LEMMA AllowedIs ==
    ASSUME NEW n
    PROVE  /\ AsOftenAsAllowed(n) = AllowedFor(accepted[n], decode_times[n])
           /\ AsOftenAsAllowed(n)' = AllowedFor(accepted'[n], decode_times'[n])
BY DEF AsOftenAsAllowed, AllowedFor

\* A node that has not decoded, has forwarded as documented, and now has its turn.
LEMMA ForwardTurn ==
    ASSUME SimInv, ForwardInv, NEW e \in event_queue, Turn(e), NEW n \in Node \ {Proposer}, n = e.to
    PROVE  /\ rounds'[n] = AllowedFor(accepted'[n], decode_times'[n])
           /\ Sends(n) \/ Rests(n)
           /\ IsFiniteSet(accepted'[n])
<1> DEFINE S == accepted[n]
           t == decode_times[n]
<1>1. /\ n \in Node /\ e.packet \in Vec /\ S \in SUBSET Vec
      /\ rounds \in [Node -> Nat] /\ has_forwarded \in [Node -> BOOLEAN]
      BY DEF SimInv, SimTypeOK, Event, Packet
<1>2. /\ rounds[n] = AllowedFor(S, t)
      /\ has_forwarded[n] <=> rounds[n] > 0
      /\ IsFiniteSet(S)
      BY AllowedIs DEF ForwardInv, ForwardsAsDocumented
<1>3. t # Never <=> Decodable(S)
      BY <1>1 DEF SimInv, DecodedWhenComplete, Decodable
<1> HIDE DEF S
<1>4. CASE Skip(e)
  <2>1. Rests(n) /\ accepted'[n] = S /\ decode_times'[n] = t
        BY <1>4 DEF Skip, Rests, stateVars, counters, S
  <2>2. AllowedFor(accepted'[n], decode_times'[n]) = AllowedFor(S, t)
        BY <2>1 DEF AllowedFor
  <2> QED BY <1>2, <2>1, <2>2 DEF Rests
<1>5. CASE Redundant(e)
  <2>1. Conclude(e, FALSE, S)
        BY <1>5 DEF Redundant, S
  <2>2. /\ ShouldForward(n, FALSE, S) => Sends(n)
        /\ ~ ShouldForward(n, FALSE, S) => Rests(n)
        /\ t = Never /\ accepted'[n] = S
        /\ decode_times'[n] # Never <=> Decodable(S)
        BY <2>1, ConcludeFacts
  <2>3. ~ ShouldForward(n, FALSE, S)
        BY <1>3, <2>2, ForwardAssumption DEF ShouldForward
  <2>4. AllowedFor(accepted'[n], decode_times'[n]) = AllowedFor(S, t)
        BY <1>3, <2>2 DEF AllowedFor
  <2> QED BY <1>2, <2>2, <2>3, <2>4 DEF Rests
<1>6. CASE Useful(e)
  <2> DEFINE T == S \cup {e.packet}
  <2>1. Conclude(e, TRUE, T) /\ e.packet \notin S
    <3>1. S \subseteq Span[S]
          BY <1>1, SpanFacts
    <3> QED BY <1>6, <3>1 DEF Useful, S
  <2>2. /\ IsFiniteSet(T) /\ Cardinality(T) = Cardinality(S) + 1 /\ T # {}
        /\ Cardinality(S) \in Nat /\ (S = {} <=> Cardinality(S) = 0)
        BY <1>2, <2>1, FS_AddElement, FS_CardinalityType, FS_EmptySet
  <2> HIDE DEF T
  <2>3. /\ ShouldForward(n, TRUE, T) => Sends(n)
        /\ ~ ShouldForward(n, TRUE, T) => Rests(n)
        /\ t = Never /\ accepted'[n] = T
        /\ decode_times'[n] # Never <=> Decodable(T)
        BY <2>1, ConcludeFacts
  <2>4. rounds[n] \in Nat
        BY <1>1
  <2>5. rounds'[n] = AllowedFor(accepted'[n], decode_times'[n])
    <3>1. CASE ForwardWhen = "AfterDecode"
      <4>1. rounds[n] = 0
            BY <1>2, <2>3, <3>1 DEF AllowedFor
      <4>2. ShouldForward(n, TRUE, T) <=> Decodable(T)
            BY <3>1 DEF ShouldForward
      <4>3. AllowedFor(accepted'[n], decode_times'[n]) = IF Decodable(T) THEN 1 ELSE 0
            BY <2>3, <3>1 DEF AllowedFor
      <4>4. CASE Decodable(T)
            BY <2>3, <4>1, <4>2, <4>3, <4>4 DEF Sends
      <4>5. CASE ~ Decodable(T)
            BY <2>3, <4>1, <4>2, <4>3, <4>5 DEF Rests
      <4> QED BY <4>4, <4>5
    <3>2. CASE ForwardWhen = "OneShot"
      <4>1. rounds[n] = IF S # {} THEN 1 ELSE 0
            BY <1>2, <3>2 DEF AllowedFor
      <4>2. ShouldForward(n, TRUE, T) <=> ~ has_forwarded[n]
            BY <3>2 DEF ShouldForward
      <4>3. AllowedFor(accepted'[n], decode_times'[n]) = 1
            BY <2>2, <2>3, <3>2 DEF AllowedFor
      <4>4. CASE S = {}
        <5>1. rounds[n] = 0 /\ ~ has_forwarded[n]
              BY <1>2, <4>1, <4>4
        <5>2. Sends(n)
              BY <2>3, <4>2, <5>1
        <5> QED BY <4>3, <5>1, <5>2 DEF Sends
      <4>5. CASE S # {}
        <5>1. rounds[n] = 1 /\ has_forwarded[n]
              BY <1>2, <4>1, <4>5
        <5>2. Rests(n)
              BY <2>3, <4>2, <5>1
        <5> QED BY <4>3, <5>1, <5>2 DEF Rests
      <4> QED BY <4>4, <4>5
    <3>3. CASE ForwardWhen = "UntilDecode"
      <4>1. rounds[n] = Cardinality(S)
            BY <1>2, <3>3 DEF AllowedFor
      <4>2. ShouldForward(n, TRUE, T)
            BY <3>3 DEF ShouldForward
      <4>3. AllowedFor(accepted'[n], decode_times'[n]) = Cardinality(T)
            BY <2>3, <3>3 DEF AllowedFor
      <4> QED BY <2>2, <2>3, <4>1, <4>2, <4>3 DEF Sends
    <3> QED BY <3>1, <3>2, <3>3, ForwardAssumption
  <2> QED BY <2>2, <2>3, <2>5
<1> QED BY <1>4, <1>5, <1>6 DEF Turn

\* Every turn leaves every receiver with the transmissions its condition documents.
LEMMA ForwardStep ==
    ASSUME SimInv, ForwardInv, NEW e \in event_queue, Turn(e)
    PROVE  ForwardInv'
<1> SUFFICES ASSUME NEW n \in Node \ {Proposer}
             PROVE  /\ rounds'[n] = AsOftenAsAllowed(n)' /\ upload'[n] = Degree * rounds'[n]
                    /\ has_forwarded'[n] <=> rounds'[n] > 0
                    /\ IsFiniteSet(accepted'[n])
    BY DEF ForwardInv, ForwardsAsDocumented
<1>1. /\ rounds[n] = AsOftenAsAllowed(n) /\ upload[n] = Degree * rounds[n]
      /\ has_forwarded[n] <=> rounds[n] > 0
      /\ IsFiniteSet(accepted[n])
      BY DEF ForwardInv, ForwardsAsDocumented
<1>2. rounds[n] \in Nat /\ Degree \in Nat /\ n \in Node /\ has_forwarded[n] \in BOOLEAN
      BY MeshAssumption DEF SimInv, SimTypeOK
<1>3. ASSUME Sends(n)
      PROVE  upload'[n] = Degree * rounds'[n] /\ (has_forwarded'[n] <=> rounds'[n] > 0)
  <2>1. Degree * (rounds[n] + 1) = Degree * rounds[n] + Degree
        BY <1>2, Z3
  <2> QED BY <1>1, <1>2, <1>3, <2>1 DEF Sends
<1>4. ASSUME Rests(n)
      PROVE  upload'[n] = Degree * rounds'[n] /\ (has_forwarded'[n] <=> rounds'[n] > 0)
      BY <1>1, <1>4 DEF Rests
<1>5. CASE n = e.to
      BY <1>3, <1>4, <1>5, ForwardTurn, AllowedIs
<1>6. CASE n # e.to
  <2>1. Rests(n) /\ accepted'[n] = accepted[n] /\ decode_times'[n] = decode_times[n]
        BY <1>2, <1>6, OthersRest
  <2>2. AsOftenAsAllowed(n)' = AsOftenAsAllowed(n)
        BY <2>1, AllowedIs
  <2> QED BY <1>1, <1>4, <2>1, <2>2 DEF Rests
<1> QED BY <1>5, <1>6

\* Every receiver forwards as often as its strategy's ForwardCondition documents, each
\* time to Degree peers.  (engine.rs: should_forward)
THEOREM ForwardingAsDocumented == SimSpec => []ForwardsAsDocumented
<1>1. SimInv /\ ForwardInv /\ [Next]_simVars => ForwardInv'
  <2>1. Finish /\ ForwardInv => ForwardInv'
        BY DEF Finish, counters, stateVars, ForwardInv, ForwardsAsDocumented, AsOftenAsAllowed
  <2>2. UNCHANGED simVars /\ ForwardInv => ForwardInv'
        BY DEF simVars, counters, stateVars, ForwardInv, ForwardsAsDocumented, AsOftenAsAllowed
  <2> QED BY <2>1, <2>2, ForwardStep DEF Next, Turn
<1>2. ForwardInv => ForwardsAsDocumented
      BY DEF ForwardInv
<1> QED BY <1>1, <1>2, ForwardInit, SimInvariant, PTL DEF SimSpec


-----------------------------------------------------------------------------
\* Sums.  The sum of f over a set is the number of its units: the pairs of an argument
\* and a number up to the value there.
Units(f, s) == UNION {{n} \X (1 .. f[n]) : n \in s}

\* The element the fold of Functions takes out of a set first.
Some(s) == CHOOSE x \in s : TRUE

\* A family of subsets of a finite set that has {} and, with s less one element, s,
\* has them all: a least subset outside it would be {}.
LEMMA SubsetInduction ==
    ASSUME NEW S, IsFiniteSet(S), NEW G, {} \in G,
           \A s \in SUBSET S : s # {} /\ s \ {Some(s)} \in G => s \in G
    PROVE  \A s \in SUBSET S : s \in G
<1> DEFINE T == (SUBSET S) \ G
           R == StrictSubsetOrdering(S)
<1>1. SUFFICES ASSUME T # {} PROVE FALSE
      OBVIOUS
<1>2. PICK X \in T : \A Y \in T : <<Y, X>> \notin R
  <2>1. IsWellFoundedOn(R, FiniteSubsetsOf(S))
        BY FS_StrictSubsetOrderingWellFounded
  <2>2. T \subseteq FiniteSubsetsOf(S)
        BY FS_FiniteSubsetsOfFinite
  <2> HIDE DEF T, R
  <2> QED BY <1>1, <2>1, <2>2, WFMin
<1>3. X \in SUBSET S /\ X \notin G /\ X # {}
      OBVIOUS
<1> DEFINE Y == X \ {Some(X)}
<1>4. Some(X) \in X
      BY <1>3 DEF Some
<1>5. Y \in SUBSET S /\ <<Y, X>> \in R
      BY <1>3, <1>4 DEF StrictSubsetOrdering
<1>6. Y \in G
      BY <1>2, <1>5
<1> QED BY <1>3, <1>6

\* Units of one argument more.
LEMMA UnitsStep ==
    ASSUME NEW f \in [Node -> Nat], NEW s \in SUBSET Node, NEW x \in s,
           IsFiniteSet(Units(f, s \ {x}))
    PROVE  /\ IsFiniteSet(Units(f, s))
           /\ Cardinality(Units(f, s)) = f[x] + Cardinality(Units(f, s \ {x}))
<1> DEFINE rest == Units(f, s \ {x})
           own == {x} \X (1 .. f[x])
<1>1. f[x] \in Nat
      OBVIOUS
<1>2. IsFiniteSet({x}) /\ Cardinality({x}) = 1 /\ IsFiniteSet(1 .. f[x]) /\ Cardinality(1 .. f[x]) = f[x]
  <2>1. IsFiniteSet(1 .. f[x]) /\ Cardinality(1 .. f[x]) = IF 1 > f[x] THEN 0 ELSE f[x] - 1 + 1
        BY <1>1, FS_Interval
  <2>2. IsFiniteSet({x}) /\ Cardinality({x}) = 1
        BY FS_Singleton
  <2> QED BY <1>1, <2>1, <2>2
<1>3. IsFiniteSet(own) /\ Cardinality(own) = 1 * f[x]
      BY <1>2, FS_Product
<1>4. Units(f, s) = own \cup rest /\ own \cap rest = {}
      BY DEF Units
<1> HIDE DEF rest, own
<1>5. /\ IsFiniteSet(own \cup rest)
      /\ Cardinality(own \cup rest) = Cardinality(own) + Cardinality(rest) - Cardinality(own \cap rest)
      BY <1>3, FS_Union DEF rest
<1>6. Cardinality(own \cap rest) = 0 /\ Cardinality(rest) \in Nat
      BY <1>4, FS_EmptySet, FS_CardinalityType DEF rest
<1> QED BY <1>1, <1>3, <1>4, <1>5, <1>6 DEF rest

\* There are finitely many.
LEMMA UnitsFinite ==
    ASSUME NEW f \in [Node -> Nat]
    PROVE  \A s \in SUBSET Node : IsFiniteSet(Units(f, s))
<1> DEFINE G == {s \in SUBSET Node : IsFiniteSet(Units(f, s))}
<1>1. {} \in G
  <2>1. Units(f, {}) = {}
        BY DEF Units
  <2> QED BY <2>1, FS_EmptySet
<1>2. ASSUME NEW s \in SUBSET Node, s # {}, s \ {Some(s)} \in G PROVE s \in G
  <2>1. Some(s) \in s
        BY <1>2 DEF Some
  <2>2. IsFiniteSet(Units(f, s \ {Some(s)}))
        BY <1>2
  <2> QED BY <2>1, <2>2, UnitsStep
<1> HIDE DEF G
<1>3. \A s \in SUBSET Node : s \in G
      BY <1>1, <1>2, SubsetInduction, MeshAssumption
<1> QED BY <1>3 DEF G

\* Total counts the units.
LEMMA SumIsCount ==
    ASSUME NEW f \in [Node -> Nat]
    PROVE  Total(f) = Cardinality(Units(f, Node))
<1> DEFINE Computes(iter) ==
               iter = [s \in SUBSET DOMAIN f |->
                           IF s = {} THEN 0 ELSE f[Some(s)] + iter[s \ {Some(s)}]]
           fold == CHOOSE iter : Computes(iter)
           it == [s \in SUBSET Node |-> Cardinality(Units(f, s))]
<1>1. Total(f) = fold[DOMAIN f]
      BY Zenon DEF Total, FoldFunction, FoldFunctionOnSet, MapThenFoldSet, Some
<1>2. ASSUME NEW s \in SUBSET Node, s # {}
      PROVE  /\ Some(s) \in s /\ s \ {Some(s)} \in SUBSET Node
             /\ it[s] = f[Some(s)] + it[s \ {Some(s)}]
  <2>1. Some(s) \in s
        BY <1>2 DEF Some
  <2>2. s \ {Some(s)} \in SUBSET Node
        OBVIOUS
  <2>3. Cardinality(Units(f, s)) = f[Some(s)] + Cardinality(Units(f, s \ {Some(s)}))
        BY <2>1, <2>2, UnitsFinite, UnitsStep
  <2> QED BY <2>1, <2>2, <2>3
<1>3. it[{}] = 0
  <2>1. Units(f, {}) = {}
        BY DEF Units
  <2> QED BY <2>1, FS_EmptySet
<1>4. Computes(it)
  <2>1. DOMAIN f = Node
        OBVIOUS
  <2>2. \A s \in SUBSET Node : it[s] = IF s = {} THEN 0 ELSE f[Some(s)] + it[s \ {Some(s)}]
        BY <1>2, <1>3
  <2>3. it = [s \in SUBSET Node |-> it[s]]
        OBVIOUS
  <2> HIDE DEF it
  <2> QED BY <2>1, <2>2, <2>3
<1> HIDE DEF it, Computes
<1>5. Computes(fold)
      BY <1>4
<1> HIDE DEF fold
<1>6. fold[{}] = 0 /\ \A s \in SUBSET Node : s # {} => fold[s] = f[Some(s)] + fold[s \ {Some(s)}]
      BY <1>5 DEF Computes
<1> DEFINE G == {s \in SUBSET Node : fold[s] = it[s]}
<1>7. {} \in G
      BY <1>3, <1>6
<1>8. \A s \in SUBSET Node : s # {} /\ s \ {Some(s)} \in G => s \in G
      BY <1>2, <1>6
<1> HIDE DEF G
<1>9. \A s \in SUBSET Node : s \in G
      BY <1>7, <1>8, SubsetInduction, MeshAssumption
<1> QED BY <1>1, <1>9 DEF G, it

\* A disjoint part more.
LEMMA DisjointCount ==
    ASSUME NEW A, NEW B, IsFiniteSet(A), IsFiniteSet(B), A \cap B = {}
    PROVE  Cardinality(A \cup B) = Cardinality(A) + Cardinality(B)
<1>1. /\ Cardinality(A) \in Nat /\ Cardinality(B) \in Nat
      /\ Cardinality(A \cup B) = Cardinality(A) + Cardinality(B) - Cardinality(A \cap B)
      /\ Cardinality(A \cap B) = 0
      BY FS_CardinalityType, FS_Union, FS_EmptySet
<1> QED BY <1>1

\* A sum grows by what one term grows.
LEMMA RaiseOne ==
    ASSUME NEW f \in [Node -> Nat], NEW n \in Node, NEW d \in Nat
    PROVE  Cardinality(Units([f EXCEPT ![n] = @ + d], Node)) = Cardinality(Units(f, Node)) + d
<1> DEFINE g == [f EXCEPT ![n] = @ + d]
           more == {n} \X (f[n] + 1 .. f[n] + d)
<1>1. f[n] \in Nat /\ g[n] = f[n] + d /\ \A p \in Node : p # n => g[p] = f[p]
      OBVIOUS
<1>2. IsFiniteSet(more) /\ Cardinality(more) = d
  <2> DEFINE a == f[n] + 1
             b == f[n] + d
  <2>1. IsFiniteSet(a .. b) /\ Cardinality(a .. b) = IF a > b THEN 0 ELSE b - a + 1
    <3>1. a \in Int /\ b \in Int
          BY <1>1
    <3> HIDE DEF a, b
    <3> QED BY <3>1, FS_Interval
  <2>2. Cardinality(a .. b) = d
        BY <1>1, <2>1
  <2>3. IsFiniteSet({n}) /\ Cardinality({n}) = 1
        BY FS_Singleton
  <2>4. IsFiniteSet(more) /\ Cardinality(more) = 1 * d
        BY <2>1, <2>2, <2>3, FS_Product, ZenonT(60)
  <2> QED BY <2>4
<1>3. Units(g, Node) = Units(f, Node) \cup more
  <2>1. 1 .. g[n] = (1 .. f[n]) \cup (f[n] + 1 .. f[n] + d)
        BY <1>1
  <2>2. {n} \X (1 .. g[n]) = ({n} \X (1 .. f[n])) \cup more
        BY <2>1
  <2>3. \A p \in Node : p # n => {p} \X (1 .. g[p]) = {p} \X (1 .. f[p])
        BY <1>1
  <2> HIDE DEF g, more
  <2>4. \A u : u \in Units(g, Node) <=> u \in Units(f, Node) \/ u \in more
        BY <2>2, <2>3 DEF Units
  <2> QED BY <2>4
<1>4. Units(f, Node) \cap more = {}
  <2> SUFFICES ASSUME NEW p \in Node, NEW u \in {p} \X (1 .. f[p]), u \in more PROVE FALSE
      BY DEF Units
  <2>1. p = n
        OBVIOUS
  <2> QED BY <1>1, <2>1
<1>5. IsFiniteSet(Units(f, Node))
      BY UnitsFinite
<1> HIDE DEF g, more
<1>6. Cardinality(Units(g, Node)) = Cardinality(Units(f, Node)) + Cardinality(more)
      BY <1>2, <1>3, <1>4, <1>5, DisjointCount
<1> QED BY <1>2, <1>6 DEF g

\* A sum grows by the number of terms that grow by one.
LEMMA RaiseEach ==
    ASSUME NEW f \in [Node -> Nat], NEW T \in SUBSET Node
    PROVE  Cardinality(Units([p \in Node |-> IF p \in T THEN f[p] + 1 ELSE f[p]], Node))
               = Cardinality(Units(f, Node)) + Cardinality(T)
<1> DEFINE g == [p \in Node |-> IF p \in T THEN f[p] + 1 ELSE f[p]]
           unit == [p \in T |-> <<p, f[p] + 1>>]
           more == {unit[p] : p \in T}
<1>1. \A p \in Node : f[p] \in Nat /\ g[p] = IF p \in T THEN f[p] + 1 ELSE f[p]
      OBVIOUS
<1>2. IsFiniteSet(more) /\ Cardinality(more) = Cardinality(T)
  <2>1. unit \in [T -> more]
        OBVIOUS
  <2>2. \A p, q \in T : unit[p] = unit[q] => p = q
        OBVIOUS
  <2>3. \A u \in more : \E p \in T : unit[p] = u
        OBVIOUS
  <2>4. unit \in Bijection(T, more)
        BY <2>1, <2>2, <2>3 DEF Bijection, Injection, Surjection, IsInjective
  <2>5. IsFiniteSet(T)
        BY MeshAssumption, FS_Subset
  <2> HIDE DEF unit, more
  <2> QED BY <2>4, <2>5, FS_Bijection DEF ExistsBijection
<1>3. Units(g, Node) = Units(f, Node) \cup more
  <2>1. ASSUME NEW p \in T PROVE {p} \X (1 .. g[p]) = ({p} \X (1 .. f[p])) \cup {unit[p]}
    <3>1. 1 .. g[p] = (1 .. f[p]) \cup {f[p] + 1}
          BY <1>1
    <3> QED BY <3>1
  <2>2. \A p \in Node \ T : {p} \X (1 .. g[p]) = {p} \X (1 .. f[p])
        BY <1>1
  <2> HIDE DEF g, unit
  <2>3. \A u : u \in Units(g, Node) <=> u \in Units(f, Node) \/ u \in more
        BY <2>1, <2>2 DEF Units
  <2> QED BY <2>3
<1>4. Units(f, Node) \cap more = {}
  <2> SUFFICES ASSUME NEW p \in Node, NEW u \in {p} \X (1 .. f[p]), NEW q \in T, u = unit[q]
               PROVE FALSE
      BY DEF Units
  <2>1. p = q
        OBVIOUS
  <2>2. f[p] + 1 \in 1 .. f[p]
        BY <2>1
  <2> QED BY <1>1, <2>2
<1>5. IsFiniteSet(Units(f, Node))
      BY UnitsFinite
<1> HIDE DEF g, more
<1>6. Cardinality(Units(g, Node)) = Cardinality(Units(f, Node)) + Cardinality(more)
      BY <1>2, <1>3, <1>4, <1>5, DisjointCount
<1> QED BY <1>2, <1>6 DEF g

-----------------------------------------------------------------------------
\* The report.

\* What was sent, and what was addressed to someone, is what there is in all; and there
\* is no report while something is under way.
SumInv ==
    /\ Cardinality(Units(upload, Node)) = total_packets
    /\ Cardinality(Units(download, Node)) = total_packets
    /\ metrics # {} => event_queue = {}

\* Before the loop: the proposer's transmission.
LEMMA SumInit == Init => SumInv
<1> SUFFICES ASSUME Init PROVE SumInv
    OBVIOUS
<1> DEFINE none == [n \in Node |-> 0]
<1>1. /\ neighbors \in Meshes /\ neighbors \in [Node -> SUBSET Node]
      /\ Proposer \in Node /\ Degree \in Nat
      BY SimInvInit, MeshAssumption DEF SimInv, SimTypeOK, PathTypeOK
<1>2. none \in [Node -> Nat] /\ Cardinality(Units(none, Node)) = 0
  <2>1. Units(none, Node) = {}
        BY DEF Units
  <2> QED BY <2>1, FS_EmptySet
<1>3. upload = [none EXCEPT ![Proposer] = @ + Degree]
      BY <1>1 DEF Init
<1>4. download = [p \in Node |-> IF p \in neighbors[Proposer] THEN none[p] + 1 ELSE none[p]]
      BY <1>1 DEF Init
<1>5. Cardinality(neighbors[Proposer]) = Degree /\ neighbors[Proposer] \in SUBSET Node
      BY <1>1, MeshDegree
<1> HIDE DEF none
<1>6. Cardinality(Units(upload, Node)) = 0 + Degree
      BY <1>1, <1>2, <1>3, RaiseOne
<1>7. Cardinality(Units(download, Node)) = 0 + Degree
      BY <1>2, <1>4, <1>5, RaiseEach
<1>8. total_packets = Degree /\ metrics = {}
      BY DEF Init
<1> QED BY <1>1, <1>6, <1>7, <1>8 DEF SumInv

\* A turn adds the same to all three sums.
LEMMA SumStep ==
    ASSUME SimInv, SumInv, NEW e \in event_queue, Turn(e)
    PROVE  SumInv' /\ metrics' = {}
<1>1. /\ neighbors \in Meshes /\ neighbors \in [Node -> SUBSET Node] /\ Degree \in Nat /\ e.to \in Node
      /\ upload \in [Node -> Nat] /\ download \in [Node -> Nat] /\ total_packets \in Nat
      BY MeshAssumption DEF SimInv, SimTypeOK, PathTypeOK, Event
<1>2. metrics = {} /\ metrics' = metrics
  <2>1. metrics = {}
        BY DEF SumInv
  <2>2. metrics' = metrics
        BY DEF Turn, Skip, Useful, Redundant, Conclude
  <2> QED BY <2>1, <2>2
<1>3. UNCHANGED <<upload, download, total_packets>> \/ Account(e.to)
  <2>1. KeepQuiet(e) \/ Forward(e, accepted'[e.to])
        BY TurnFacts
  <2> QED BY <2>1 DEF KeepQuiet, Forward
<1>4. CASE UNCHANGED <<upload, download, total_packets>>
      BY <1>2, <1>4 DEF SumInv
<1>5. CASE Account(e.to)
  <2>1. /\ upload' = [upload EXCEPT ![e.to] = @ + Degree]
        /\ download' = [p \in Node |-> IF p \in neighbors[e.to] THEN download[p] + 1 ELSE download[p]]
        /\ total_packets' = total_packets + Degree
        BY <1>5 DEF Account
  <2>2. Cardinality(neighbors[e.to]) = Degree /\ neighbors[e.to] \in SUBSET Node
        BY <1>1, MeshDegree
  <2>3. Cardinality(Units(upload', Node)) = Cardinality(Units(upload, Node)) + Degree
        BY <1>1, <2>1, RaiseOne
  <2>4. Cardinality(Units(download', Node)) = Cardinality(Units(download, Node)) + Degree
        BY <1>1, <2>1, <2>2, RaiseEach
  <2>5. Units(upload, Node)' = Units(upload', Node) /\ Units(download, Node)' = Units(download', Node)
        BY DEF Units
  <2>6. /\ Cardinality(Units(upload, Node)) = total_packets
        /\ Cardinality(Units(download, Node)) = total_packets
        BY DEF SumInv
  <2> QED BY <1>2, <2>1, <2>3, <2>4, <2>5, <2>6 DEF SumInv
<1> QED BY <1>2, <1>3, <1>4, <1>5

\* A set of natural numbers that is not empty has a least one.
LEMMA LeastMember ==
    ASSUME NEW A \in SUBSET Nat, A # {}
    PROVE  \E least \in A : \A a \in A : least <= a
<1>1. PICK least \in A : \A a \in A : ~ (<<a, least>> \in OpToRel(<, Nat))
      BY NatLessThanWellFounded, WFMin
<1>2. \A a \in A : ~ (a < least)
      BY <1>1 DEF OpToRel
<1> QED BY <1>2

\* What sorted_times[idx] is: the time by which more than idx nodes have decoded, while
\* at any earlier time of one of them at most idx have.
IsSortedTime(t, idx) ==
    /\ t \in Nat /\ \E n \in Decoders : t = decode_times[n]
    /\ idx < Cardinality(DecodedBy(t))
    /\ \A n \in Decoders : decode_times[n] < t => Cardinality(DecodedBy(decode_times[n])) <= idx

\* The facts about decode times that the report rests on.
LEMMA DecoderFacts ==
    ASSUME SimInv
    PROVE  /\ IsFiniteSet(Decoders) /\ Cardinality(Decoders) \in Nat \ {0}
           /\ \A n \in Decoders : decode_times[n] \in Nat /\ decode_times[n] <= now
           /\ now \in Nat
           /\ \A t : IsFiniteSet(DecodedBy(t)) /\ Cardinality(DecodedBy(t)) \in Nat
<1>1. /\ decode_times \in [Node -> Nat \cup {Never}] /\ now \in Nat /\ Proposer \in Node
      /\ decode_times[Proposer] # Never
      /\ \A n \in Node : decode_times[n] # Never => decode_times[n] <= now
      BY MeshAssumption DEF SimInv, SimTypeOK, Contacted, DecodedWhenComplete
<1>2. Decoders \in SUBSET Node /\ Proposer \in Decoders
      BY <1>1 DEF Decoders
<1>3. IsFiniteSet(Decoders) /\ Cardinality(Decoders) \in Nat /\ Cardinality(Decoders) # 0
      BY <1>2, MeshAssumption, FS_Subset, FS_CardinalityType, FS_EmptySet
<1>4. \A n \in Decoders : decode_times[n] \in Nat /\ decode_times[n] <= now
      BY <1>1 DEF Decoders
<1>5. ASSUME NEW t PROVE IsFiniteSet(DecodedBy(t)) /\ Cardinality(DecodedBy(t)) \in Nat
  <2>1. DecodedBy(t) \in SUBSET Decoders
        BY DEF DecodedBy
  <2> QED BY <1>3, <2>1, FS_Subset, FS_CardinalityType
<1> QED BY <1>1, <1>3, <1>4, <1>5

\* The sorted list has an entry at every index below the number of nodes that decoded:
\* the least time by which more nodes than the index had.
LEMMA SortedTimeIs ==
    ASSUME SimInv, NEW idx \in Nat, idx < Cardinality(Decoders)
    PROVE  IsSortedTime(SortedTime(idx), idx)
<1> DEFINE A == {t \in Nat : idx < Cardinality(DecodedBy(t))}
<1>1. /\ \A n \in Decoders : decode_times[n] \in Nat /\ decode_times[n] <= now
      /\ now \in Nat
      /\ \A t : Cardinality(DecodedBy(t)) \in Nat
      BY DecoderFacts
<1>2. now \in A
  <2>1. DecodedBy(now) = Decoders
        BY <1>1 DEF DecodedBy
  <2> QED BY <1>1, <2>1
<1>3. PICK t \in A : \A a \in A : t <= a
  <2>1. A \in SUBSET Nat /\ A # {}
        BY <1>2
  <2> HIDE DEF A
  <2> QED BY <2>1, LeastMember
<1>4. t \in Nat /\ idx < Cardinality(DecodedBy(t))
      OBVIOUS
<1>5. \E n \in Decoders : t = decode_times[n]
  <2> SUFFICES ASSUME \A n \in Decoders : t # decode_times[n] PROVE FALSE
      OBVIOUS
  <2>1. DecodedBy(t) = DecodedBy(t - 1)
    <3>1. \A n \in Decoders : decode_times[n] <= t <=> decode_times[n] <= t - 1
          BY <1>1, <1>4
    <3> QED BY <3>1 DEF DecodedBy
  <2>2. t - 1 \notin A
    <3> SUFFICES ASSUME t - 1 \in A PROVE FALSE
        OBVIOUS
    <3>1. t <= t - 1
          BY <1>3
    <3> QED BY <1>4, <3>1
  <2>3. t = 0
        BY <1>4, <2>1, <2>2
  <2>4. DecodedBy(t) = {}
    <3>1. \A n \in Decoders : ~ (decode_times[n] <= t)
          BY <1>1, <2>3
    <3> QED BY <3>1 DEF DecodedBy
  <2>5. Cardinality(DecodedBy(t)) = 0
        BY <2>4, FS_EmptySet
  <2> QED BY <1>4, <2>5
<1>6. ASSUME NEW n \in Decoders, decode_times[n] < t
      PROVE  Cardinality(DecodedBy(decode_times[n])) <= idx
  <2>1. decode_times[n] \in Nat
        BY <1>1
  <2>2. decode_times[n] \notin A
        BY <1>3, <1>4, <1>6, <2>1
  <2>3. Cardinality(DecodedBy(decode_times[n])) \in Nat
        BY <1>1
  <2> QED BY <2>1, <2>2, <2>3
<1> DEFINE times == {decode_times[n] : n \in Decoders}
           Fits(x) == /\ idx < Cardinality(DecodedBy(x))
                      /\ \A n \in Decoders : decode_times[n] < x =>
                             Cardinality(DecodedBy(decode_times[n])) <= idx
<1>7. t \in times /\ Fits(t)
      BY <1>4, <1>5, <1>6
<1>8. SortedTime(idx) = CHOOSE x \in times : Fits(x)
      BY DEF SortedTime
<1> HIDE DEF times, Fits, A
<1>9. SortedTime(idx) \in times /\ Fits(SortedTime(idx))
      BY <1>7, <1>8
<1> QED BY <1>1, <1>9 DEF times, Fits, IsSortedTime

\* The entry at the index of a percentile is that percentile.
LEMMA PercentileIs ==
    ASSUME SimInv, NEW pct \in {50, 99, 100}
    PROVE  IsPercentile(SortedTime(PercentileIdx(pct)), pct)
<1> DEFINE k == Cardinality(Decoders) - 1
           idx == PercentileIdx(pct)
           t == SortedTime(idx)
<1>1. k \in Nat /\ Cardinality(Decoders) = k + 1
      BY DecoderFacts
<1>2. idx = (k * pct) \div 100
      BY DEF PercentileIdx
<1> HIDE DEF k, idx
<1>3. idx \in Nat /\ idx <= k /\ 100 * idx <= pct * k /\ pct * k < 100 * (idx + 1)
  <2>1. CASE pct = 50
        BY <1>1, <1>2, <2>1, Z3
  <2>2. CASE pct = 99
        BY <1>1, <1>2, <2>2, Z3
  <2>3. CASE pct = 100
        BY <1>1, <1>2, <2>3, Z3
  <2> QED BY <2>1, <2>2, <2>3
<1>4. IsSortedTime(t, idx)
  <2>1. idx < Cardinality(Decoders)
        BY <1>1, <1>3
  <2> QED BY <1>3, <2>1, SortedTimeIs
<1> HIDE DEF t
<1>5. \A u : Cardinality(DecodedBy(u)) \in Nat
      BY DecoderFacts
<1>6. 100 * Cardinality(DecodedBy(t)) > pct * k
      BY <1>1, <1>3, <1>4, <1>5 DEF IsSortedTime
<1>7. ASSUME NEW n \in Decoders, decode_times[n] < t
      PROVE  100 * Cardinality(DecodedBy(decode_times[n])) <= pct * k
      BY <1>1, <1>3, <1>4, <1>5, <1>7 DEF IsSortedTime
<1>8. \E n \in Decoders : t = decode_times[n]
      BY <1>4 DEF IsSortedTime
<1>9. IsPercentile(t, pct)
      BY <1>6, <1>7, <1>8 DEF IsPercentile, k
<1> QED BY <1>9 DEF t, idx

\* It stays that as long as nobody decodes.
LEMMA PercentileStays ==
    ASSUME decode_times' = decode_times, NEW t, NEW pct, IsPercentile(t, pct)
    PROVE  IsPercentile(t, pct)'
<1>1. Decoders' = Decoders
      BY DEF Decoders
<1>2. ASSUME NEW u PROVE DecodedBy(u)' = DecodedBy(u)
      BY <1>1 DEF DecodedBy
<1>3. \A n \in Decoders : DecodedBy(decode_times[n])' = DecodedBy(decode_times[n])
      BY <1>2
<1> QED BY <1>1, <1>2, <1>3 DEF IsPercentile

\* The report of section 5 is right when it is made.
LEMMA FinishRight ==
    ASSUME SimInv, SumInv, Finish
    PROVE  ReportIsRight'
<1> DEFINE k == Cardinality(Decoders)
           p50 == SortedTime(PercentileIdx(50))
           p99 == SortedTime(PercentileIdx(99))
           last == SortedTime(k - 1)
           report == [nodes_decoded |-> k, total_sent |-> Total(upload),
                      propagation_time |-> last, p50_time |-> p50, p99_time |-> p99]
<1>1. IsPercentile(p50, 50) /\ IsPercentile(p99, 99)
      BY PercentileIs
<1>2. IsPercentile(last, 100)
  <2>1. PercentileIdx(100) = k - 1
    <3>1. k - 1 \in Nat
          BY DecoderFacts
    <3>2. ((k - 1) * 100) \div 100 = k - 1
      <4> HIDE DEF k
      <4> QED BY <3>1, Z3
    <3> QED BY <3>2 DEF PercentileIdx
  <2>2. IsPercentile(SortedTime(PercentileIdx(100)), 100)
        BY PercentileIs
  <2> QED BY <2>1, <2>2
<1>8. Total(upload) = total_packets /\ Total(download) = total_packets
  <2>1. upload \in [Node -> Nat] /\ download \in [Node -> Nat]
        BY DEF SimInv, SimTypeOK
  <2> QED BY <2>1, SumIsCount DEF SumInv
<1>9. metrics' = {report}
      BY DEF Finish
<1>10. /\ decode_times' = decode_times /\ total_packets' = total_packets /\ download' = download
       BY DEF Finish, stateVars, counters
<1>11. Decoders' = Decoders
       BY <1>10 DEF Decoders
<1> QED
  <2> SUFFICES ASSUME NEW m \in metrics'
               PROVE  /\ m.total_sent = total_packets'
                      /\ Total(download') = total_packets'
                      /\ m.nodes_decoded = Cardinality(Decoders')
                      /\ IsPercentile(m.p50_time, 50)'
                      /\ IsPercentile(m.p99_time, 99)'
                      /\ IsPercentile(m.propagation_time, 100)'
      BY DEF ReportIsRight
  <2>1. m = report
        BY <1>9
  <2> HIDE DEF k, p50, p99, last
  <2>2. /\ m.nodes_decoded = k /\ m.total_sent = Total(upload)
        /\ m.propagation_time = last /\ m.p50_time = p50 /\ m.p99_time = p99
        BY <2>1, Zenon
  <2> HIDE DEF report
  <2>3. m.total_sent = total_packets' /\ Total(download') = total_packets'
        BY <1>8, <1>10, <2>2, Zenon
  <2>4. m.nodes_decoded = Cardinality(Decoders')
        BY <1>11, <2>2 DEF k
  <2>5. /\ IsPercentile(m.p50_time, 50) /\ IsPercentile(m.p99_time, 99)
        /\ IsPercentile(m.propagation_time, 100)
        BY <1>1, <1>2, <2>2
  <2>6. /\ IsPercentile(m.p50_time, 50)' /\ IsPercentile(m.p99_time, 99)'
        /\ IsPercentile(m.propagation_time, 100)'
        BY <1>10, <2>5, PercentileStays
  <2> QED BY <2>3, <2>4, <2>6

\* The report of run says what happened: each of its times is the least by which the nodes
\* that had decoded were more than its percentage of all decoders but one, and all that was
\* uploaded was downloaded.  (engine.rs: section 5)
THEOREM ReportIsAlwaysRight == SimSpec => []ReportIsRight
<1> DEFINE Inv == SumInv /\ ReportIsRight
<1>1. Init => Inv
  <2>1. Init => ReportIsRight
        BY DEF Init, ReportIsRight
  <2> QED BY <2>1, SumInit
<1>2. SimInv /\ Inv /\ [Next]_simVars => Inv'
  <2> SUFFICES ASSUME SimInv, Inv, [Next]_simVars PROVE Inv'
      OBVIOUS
  <2>1. CASE Finish
    <3>1. SumInv'
          BY <2>1 DEF Finish, counters, SumInv, Units
    <3> QED BY <2>1, <3>1, FinishRight
  <2>2. ASSUME NEW e \in event_queue, Turn(e) PROVE Inv'
    <3>1. SumInv' /\ metrics' = {}
          BY <2>2, SumStep
    <3>2. ReportIsRight'
          BY <3>1 DEF ReportIsRight
    <3> QED BY <3>1, <3>2
  <2>3. CASE UNCHANGED simVars
    <3>1. UNCHANGED <<event_queue, decode_times, upload, download, total_packets, metrics>>
          BY <2>3 DEF simVars, stateVars, counters
    <3>2. SumInv'
          BY <3>1 DEF SumInv, Units
    <3>3. ReportIsRight'
      <4>1. Decoders' = Decoders
            BY <3>1 DEF Decoders
      <4>2. \A t, pct : IsPercentile(t, pct) => IsPercentile(t, pct)'
            BY <3>1, PercentileStays
      <4> QED BY <3>1, <4>1, <4>2 DEF ReportIsRight
    <3> QED BY <3>2, <3>3
  <2> QED BY <2>1, <2>2, <2>3 DEF Next, Turn
<1>3. Inv => ReportIsRight
      OBVIOUS
<1> HIDE DEF Inv
<1> QED BY <1>1, <1>2, <1>3, SimInvariant, PTL DEF SimSpec
=============================================================================
