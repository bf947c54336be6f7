---------------------------- MODULE BlockDecoder ---------------------------
(***************************************************************************)
(* BlockDecoder (crates/primitives/types/src/coding.rs): the independent   *)
(* coded chunks collected so far, and the echelon form that decides which  *)
(* are independent.                                                        *)
(***************************************************************************)
EXTENDS Echelon

NewDecoder == [echelon |-> New, coded |-> <<>>]

IsComplete(d) == IsFull(d.echelon)

Coeffs(d) == [l \in 1 .. Len(d.coded) |-> d.coded[l].b]
Datas(d) == [l \in 1 .. Len(d.coded) |-> d.coded[l].w]

\* add returns true: not full, and the row is independent.
Adds(d, chunk) == ~IsComplete(d) /\ Independent(d.echelon, chunk.b)

Added(d, chunk) ==
    [echelon |-> Appended(d.echelon, chunk.b), coded |-> Append(d.coded, chunk)]

\* The proposer's decoder: the original chunks under the unit vectors.
FullDecoder(chunks) ==
    FoldLeft(LAMBDA d, i : Added(d, [w |-> chunks[i], b |-> Unit(i)]), NewDecoder,
             [i \in 1 .. N |-> i])

\* decode: the inverse of the coefficients times the data.
DecodedChunks(d) ==
    LET inverse == InverseOf(d.echelon)
    IN  [k \in 1 .. N |-> LinearCombination(Datas(d), inverse[k])]

\* reencode_with
ReencodeWith(d, alphas) == Reencode(Datas(d), Coeffs(d), alphas)

ResetDecoder(d) == [d EXCEPT !.coded = <<>>, !.echelon = Cleared(@)]
=============================================================================
