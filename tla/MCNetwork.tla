----------------------------- MODULE MCNetwork -----------------------------
(***************************************************************************)
(* Small instances of Network.                                             *)
(***************************************************************************)
EXTENDS Network

\* The coefficient plane over GF(2): any two of its three points span it.
PlaneVec == {"e1", "e2", "e12"}
PlaneSpan == [S \in SUBSET PlaneVec |-> IF Cardinality(S) > 1 THEN PlaneVec ELSE S]

\* The baseline strategy: one packet is the whole block.
WholeVec == {"full"}
WholeSpan == [S \in SUBSET WholeVec |-> S]

\* Nobody, or everybody, is connected when the proposer starts.
NoLinks == {}
AllLinks == {w \in Wires : Cardinality(w) = 2}
=============================================================================
