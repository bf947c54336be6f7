-------------------------------- MODULE Mesh --------------------------------
(***************************************************************************)
(* Topology::random_mesh (crates/sim/src/topology.rs): every mesh it can   *)
(* return.  Node i sends to neighbors[i]; links have a direction.          *)
(***************************************************************************)
EXTENDS Integers, FiniteSets

CONSTANTS Node,        \* the simulated nodes
          Proposer,    \* node 0
          Degree       \* peers each node sends to

NumNodes == Cardinality(Node)

\* random_mesh asserts degree < num_nodes.  With two nodes or more it also needs a
\* degree of one: `degree - peers.len()` underflows otherwise.
ASSUME MeshAssumption ==
    /\ IsFiniteSet(Node)
    /\ Proposer \in Node
    /\ Degree \in Nat
    /\ Degree < NumNodes
    /\ NumNodes > 1 => Degree > 0

\* Node 0 followed by a shuffle of all others.
Paths ==
    {path \in [1 .. NumNodes -> Node] :
        /\ path[1] = Proposer
        /\ \A n \in Node : \E i \in 1 .. NumNodes : path[i] = n}

\* Phase 1: the Hamiltonian path.  The mutant forgets its first link.
SuccessorsButOne(path, n) == {path[i + 1] : i \in {j \in 2 .. NumNodes - 1 : path[j] = n}}
Successors(path, n) == {path[i + 1] : i \in {j \in 1 .. NumNodes - 1 : path[j] = n}}

\* Phase 2: peers a node may be filled up with, so that it has Degree of them.
Candidates(path, n) == Node \ ({n} \cup Successors(path, n))

Fillings(path, n) ==
    {Successors(path, n) \cup more : more \in
        {S \in SUBSET Candidates(path, n) :
            Cardinality(S) = Degree - Cardinality(Successors(path, n))}}

Meshes ==
    UNION {{mesh \in [Node -> SUBSET Node] : \A n \in Node : mesh[n] \in Fillings(path, n)} :
           path \in Paths}
=============================================================================
