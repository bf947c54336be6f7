------------------------------ MODULE Echelon ------------------------------
(***************************************************************************)
(* IncrementalEchelon (crates/primitives/math/src/echelon.rs): a row       *)
(* echelon form built one row at a time, with the transformation that      *)
(* leads to it from the rows inserted.                                     *)
(***************************************************************************)
EXTENDS LinearAlgebra

New == [rows |-> <<>>, pivots |-> <<>>, transform |-> <<>>]

Rank(e) == Len(e.rows)
IsFull(e) == Rank(e) = N

\* reset
Cleared(e) == [e EXCEPT !.rows = <<>>, !.pivots = <<>>, !.transform = <<>>]

\* Subtract a multiple of echelon row j to clear its pivot column, in the row and
\* in the transformation alike.  The mutant forgets the transformation.
ClearRowOnly(e, x, j) ==
    [x EXCEPT !.row = SubScaled(@, e.rows[j], x.row[e.pivots[j]])]
ClearPivot(e, x, j) ==
    LET factor == x.row[e.pivots[j]]
    IN  [row |-> SubScaled(x.row, e.rows[j], factor),
         trow |-> SubScaled(x.trow, e.transform[j], factor)]

\* A row and its unit transformation, reduced by every echelon row in turn.
Reduced(e, row) ==
    FoldLeft(LAMBDA x, j : ClearPivot(e, x, j),
             [row |-> row, trow |-> Unit(Rank(e) + 1)],
             [j \in 1 .. Rank(e) |-> j])

\* The first non-zero column.
Pivot(row) ==
    CHOOSE i \in 1 .. N : row[i] # 0 /\ \A k \in 1 .. i - 1 : row[k] = 0

Independent(e, row) == Reduced(e, row).row # Zero

\* Mutant of the next: the pivot is not scaled to one.
AppendedRaw(e, row) ==
    LET x == Reduced(e, row)
    IN  [rows |-> Append(e.rows, x.row),
         pivots |-> Append(e.pivots, Pivot(x.row)),
         transform |-> Append(e.transform, x.trow)]

\* add_row when it returns true.
Appended(e, row) ==
    LET x == Reduced(e, row)
        p == Pivot(x.row)
        inv == Inv(x.row[p])
    IN  [rows |-> Append(e.rows, Scale(x.row, inv)),
         pivots |-> Append(e.pivots, p),
         transform |-> Append(e.transform, Scale(x.trow, inv))]

\* Back-substitution from the last row up: rows above j lose column pivots[j].
ClearAbove(e, j) ==
    LET factor(i) == IF i < j THEN e.rows[i][e.pivots[j]] ELSE 0
    IN  [e EXCEPT !.rows = [i \in 1 .. N |-> SubScaled(@[i], @[j], factor(i))],
                  !.transform = [i \in 1 .. N |-> SubScaled(@[i], @[j], factor(i))]]

BackSubstituted(e) ==
    FoldLeft(ClearAbove, e, [k \in 1 .. N |-> N + 1 - k])

\* inverse: row pivots[j] of the result is row j of the transformation.  The mutant
\* leaves the rows in the order they were inserted.
InverseUnordered(e) == BackSubstituted(e).transform
InverseOf(e) ==
    LET b == BackSubstituted(e)
    IN  [k \in 1 .. N |-> b.transform[CHOOSE j \in 1 .. N : b.pivots[j] = k]]
=============================================================================
