---------------------------- MODULE MCSimEngine ----------------------------
\* Packet spaces and symmetries for small simulations.
EXTENDS SimEngine, TLC

\* The coefficient plane over GF(2): any two of its three points span it.
CONSTANTS zero, e1, e2, e12
PlaneVec == {zero, e1, e2, e12}
PlaneSpan ==
    [S \in SUBSET PlaneVec |->
        IF Cardinality(S \ {zero}) > 1 THEN PlaneVec ELSE S \cup {zero}]

\* The baseline strategy: one packet is the whole block.
WholeVec == {"full"}
WholeSpan == [S \in SUBSET WholeVec |-> S]

\* Receivers are interchangeable, and so are the three points.
Alike == Permutations(Node \ {Proposer}) \cup Permutations(PlaneVec \ {zero})
=============================================================================
