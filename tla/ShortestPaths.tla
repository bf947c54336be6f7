--------------------------- MODULE ShortestPaths ---------------------------
(***************************************************************************)
(* What a simulated propagation amounts to, with no packets, no queue and  *)
(* no strategy in it: every node is reached when the shortest path to it   *)
(* from the proposer has been travelled, nearest nodes first.              *)
(***************************************************************************)
EXTENDS Mesh

CONSTANT Delay       \* the time one hop takes

ASSUME DelayAssumption == Delay \in Nat

VARIABLES neighbors,   \* the mesh
          reached      \* when a node first learned something; Never if it did not

pathVars == <<neighbors, reached>>

Never == -1

Reached == {n \in Node : reached[n] # Never}

PathInit ==
    /\ neighbors \in Meshes
    /\ reached = [n \in Node |-> IF n = Proposer THEN 0 ELSE Never]

\* A link from a node reached to one not reached, none leaving an earlier node.
Frontier == {link \in Reached \X (Node \ Reached) : link[2] \in neighbors[link[1]]}

Nearest(n, p) ==
    /\ <<n, p>> \in Frontier
    /\ \A link \in Frontier : reached[n] <= reached[link[1]]

Reach(n, p) ==
    /\ Nearest(n, p)
    /\ reached' = [reached EXCEPT ![p] = reached[n] + Delay]
    /\ UNCHANGED neighbors

PathNext == \E n, p \in Node : Reach(n, p)

PathSpec == PathInit /\ [][PathNext]_pathVars

-----------------------------------------------------------------------------

\* Times are times and links lead to nodes.
PathTypeOK ==
    /\ neighbors \in [Node -> SUBSET Node]
    /\ reached \in [Node -> Nat \cup {Never}]

\* The times (engine.rs: `arrival`) are those of shortest paths: no link between nodes reached is a
\* shortcut, and every node but the proposer was reached over a link from another.
Shortest ==
    /\ reached[Proposer] = 0
    /\ \A n \in Reached : \A p \in neighbors[n] \cap Reached : reached[p] <= reached[n] + Delay
    /\ \A p \in Reached \ {Proposer} :
           \E n \in Reached : p \in neighbors[n] /\ reached[p] = reached[n] + Delay

\* Nobody is left out once there is nowhere to go: random_mesh's Hamiltonian path.
AllReached == Frontier = {} => Reached = Node
=============================================================================
