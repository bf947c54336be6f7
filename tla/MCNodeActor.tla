---------------------------- MODULE MCNodeActor ----------------------------
(***************************************************************************)
(* One receiver in an open environment that delivers at most MaxRecv       *)
(* messages, in any order and with repetitions.                            *)
(***************************************************************************)
EXTENDS NodeActor

CONSTANT MaxRecv      \* bound: messages delivered in one behaviour

VARIABLE budget       \* how many more may be delivered

\* The coefficient plane over GF(2): any two of its three points span it.
PlaneVec == {"e1", "e2", "e12"}
PlaneSpan == [S \in SUBSET PlaneVec |-> IF Cardinality(S) > 1 THEN PlaneVec ELSE S]

\* The baseline strategy: one packet is the whole block.
WholeVec == {"full"}
WholeSpan == [S \in SUBSET WholeVec |-> S]

mcVars == <<nodeVars, budget>>

MCInit == Init /\ budget = MaxRecv

Deliver(r) ==
    /\ budget > 0
    /\ budget' = budget - 1
    /\ \E m \in Arriving : Receive(r, m)

MCNext ==
    \E r \in Receiver :
        \/ Deliver(r)
        \/ ChannelClosed(r) /\ UNCHANGED budget
        \/ Step(r) /\ UNCHANGED budget

MCSpec == MCInit /\ [][MCNext]_mcVars /\ \A r \in Receiver : WF_mcVars(Step(r) /\ UNCHANGED budget)
=============================================================================
