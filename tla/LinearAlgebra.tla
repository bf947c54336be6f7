--------------------------- MODULE LinearAlgebra ---------------------------
(***************************************************************************)
(* Vectors over a prime field: crates/primitives/math/src/linalg.rs and    *)
(* the field operations the decoder uses.  The program's field has a       *)
(* 255-bit prime; the definitions are for any prime P.                     *)
(***************************************************************************)
EXTENDS Integers, Sequences, FiniteSets, SequencesExt

CONSTANTS P,     \* the field's prime
          N      \* chunks per block: the length of a coefficient vector

ASSUME PrimeAssumption == P \in Nat \ {0, 1} /\ \A d \in 2 .. P - 1 : P % d # 0
ASSUME ChunksAssumption == N \in Nat \ {0}

\* A Result or an Option: one value, or nothing.
Ok(x) == <<x>>
Err == <<>>

Field == 0 .. P - 1
NonZero == Field \ {0}
Inv(x) == CHOOSE y \in Field : (x * y) % P = 1

Vector == [1 .. N -> Field]
Zero == [i \in 1 .. N |-> 0]
Unit(k) == [i \in 1 .. N |-> IF i = k THEN 1 ELSE 0]

\* One scaling, one elimination step, on a whole vector.
Scale(v, c) == [i \in 1 .. N |-> (v[i] * c) % P]
SubScaled(v, e, c) == [i \in 1 .. N |-> (v[i] - c * e[i]) % P]

\* sum of coeffs[l] * vecs[l], for vectors of any one length.
ModSum(terms) == FoldLeft(LAMBDA acc, term : (acc + term) % P, 0, terms)
LinearCombination(vecs, coeffs) ==
    [i \in DOMAIN vecs[1] |-> ModSum([l \in 1 .. Len(vecs) |-> coeffs[l] * vecs[l][i]])]

\* reencode: the same combination of data and of coefficient vectors.
Reencode(datas, coeffs, alphas) ==
    [w |-> LinearCombination(datas, alphas), b |-> LinearCombination(coeffs, alphas)]

\* random_coefficients: Scalar::random never returns zero.
RandomCoefficients(n) == [1 .. n -> NonZero]

\* What a list of coefficient vectors spans, by definition.
SpanOf(vecs) ==
    {LinearCombination(<<Zero>> \o vecs, <<0>> \o c) : c \in [1 .. Len(vecs) -> Field]}
=============================================================================
