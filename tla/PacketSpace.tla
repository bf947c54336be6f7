---------------------------- MODULE PacketSpace ----------------------------
(***************************************************************************)
(* The packets of a block, as the protocol and the simulator see them.     *)
(*                                                                         *)
(* A packet is abstracted to the point of Vec its coefficient vector       *)
(* stands for.  What a decoder knows is Span[S], S the packets it          *)
(* accepted; it is complete when that is all of Vec.  For the coded        *)
(* strategies Vec is the coefficient space and Span linear span (module    *)
(* LinearAlgebra); for the baseline Vec is a single point, the block.      *)
(***************************************************************************)
EXTENDS Integers, FiniteSets

CONSTANTS Vec,          \* the packets of a block
          Span,         \* what a set of packets lets a node derive
          ForwardWhen   \* the strategy's ForwardCondition

ASSUME VecAssumption == IsFiniteSet(Vec)
ASSUME ForwardAssumption == ForwardWhen \in {"AfterDecode", "OneShot", "UntilDecode"}

\* Span is a closure operator.
ASSUME SpanAssumption ==
    /\ Span \in [SUBSET Vec -> SUBSET Vec]
    /\ \A S \in SUBSET Vec : S \subseteq Span[S]
    /\ \A S, T \in SUBSET Vec : S \subseteq Span[T] => Span[S] \subseteq Span[T]
=============================================================================
