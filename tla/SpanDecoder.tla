---------------------------- MODULE SpanDecoder ----------------------------
(***************************************************************************)
(* What a coded decoder promises, with no matrix, no elimination and no    *)
(* proof in it: it holds the space spanned by the coefficient vectors of   *)
(* the authentic packets it was given, and tells the caller whether a      *)
(* packet was innovative, redundant or not authentic.                      *)
(***************************************************************************)
EXTENDS LinearAlgebra

VARIABLES space,     \* the set of vectors known
          answer     \* what the last call returned

spanVars == <<space, answer>>

Extended(v) ==
    {[i \in 1 .. N |-> (u[i] + c * v[i]) % P] : u \in space, c \in Field}

SpanInit == space = {Zero} /\ answer = "none"

Learn ==
    \E v \in Vector \ space :
        /\ space' = Extended(v)
        /\ answer' = "innovative"

NothingNew == answer' = "redundant" /\ UNCHANGED space

Refuse == answer' = "rejected" /\ UNCHANGED space

LearnAll == space' = Vector /\ answer' = "none"

Forget == space' = {Zero} /\ answer' = "none"

SpanNext == Learn \/ NothingNew \/ Refuse \/ LearnAll \/ Forget

SpanSpec == SpanInit /\ [][SpanNext]_spanVars
=============================================================================
