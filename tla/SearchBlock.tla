----------------------------- MODULE SearchBlock -----------------------------
(***************************************************************************)
(* The search space of ChebFD: one flat array, VecRows rows at a stride    *)
(* that shrinks with the rank.  A cell holds an entry of a vector: its row,*)
(* the vector, and what the orthogonalisation did to it; or zero; or Junk, *)
(* a sum of entries that do not belong together.  Rows from NR on are the  *)
(* padding of SCS.                                                         *)
(***************************************************************************)
EXTENDS Localization

CONSTANTS
  NR,        \* nr: rows of the matrix
  VecRows    \* matrixVecRows: rows of the vectors

ASSUME RowsAssumption == NR \in Nat /\ VecRows \in Nat /\ NR <= VecRows

Zero == [kind |-> "zero"]
Junk == [kind |-> "junk"]
Cell(r, v, mark) == [kind |-> "entry", row |-> r, vec |-> v, mark |-> mark]

At(e, stride, r, c) == e[r * stride + c]

\* Column c of the block is one vector in the rows of the matrix.
IsVector(e, stride, c) ==
  \A r \in 0 .. NR - 1 :
    LET x == At(e, stride, r, c)
    IN /\ x.kind = "entry" /\ x.row = r
       /\ x.vec = At(e, stride, 0, c).vec /\ x.mark = At(e, stride, 0, c).mark

PaddingZero(e, stride, cols) ==
  \A r \in NR .. VecRows - 1 : \A c \in 0 .. cols - 1 : At(e, stride, r, c) = Zero

\* The block of a number of vectors, v the names and mark their history.
Holds(e, cols, V(_), Mark(_)) ==
  /\ PaddingZero(e, cols, cols)
  /\ \A c \in 0 .. cols - 1 : \A r \in 0 .. NR - 1 : At(e, cols, r, c) = Cell(r, V(c), Mark(c))

-----------------------------------------------------------------------------
\* randomInitBlock
RandomBlock(nv) ==
  [i \in 0 .. VecRows * nv - 1 |->
     IF i \div nv < NR THEN Cell(i \div nv, i % nv, "raw") ELSE Zero]

\* applyFilter over the block of width nc: an owned row needs its whole column, a padding
\* row only itself, and anything there but zero is multiplied up.
Filtered(e, nc) ==
  [i \in DOMAIN e |->
     LET r == i \div nc
         c == i % nc
     IN IF r >= VecRows THEN e[i]
        ELSE IF r < NR
        THEN IF IsVector(e, nc, c) THEN Cell(r, c, "raw") ELSE Junk
        ELSE IF e[i] = Zero THEN Zero ELSE Junk]

-----------------------------------------------------------------------------
(* orthoMGS: e, nc columns at stride nc; Kept are the columns whose norm   *)
(* is not below tol after the projections.                                 *)

\* The columns, in the rows of the matrix.
Columns(e, nc) ==
  [c \in 0 .. nc - 1 |-> IF IsVector(e, nc, c) THEN [vec |-> e[c].vec, mark |-> e[c].mark] ELSE Junk]

\* Step k of the loop over the columns, on the state [cols, m]: the projection on the
\* first m columns, which have norm 1, then the test, the scaling and the compaction.
OrthoColumn(s, k, Kept) ==
  LET basis == {s.cols[j].vec : j \in 0 .. s.m - 1}
      unit == [vec |-> s.cols[k].vec, mark |-> [orth |-> basis, unit |-> TRUE]]
  IN IF k \notin Kept THEN [s EXCEPT !.cols[k].mark = [orth |-> basis, unit |-> FALSE]]
     ELSE [cols |-> [s.cols EXCEPT ![k] = unit, ![s.m] = unit], m |-> s.m + 1]

\* Cell i of stride m comes from its place at stride nc.
MoveCell(a, i, nc, m) == [a EXCEPT ![i] = a[(i \div m) * nc + (i % m)]]

\* (Fault) The repack goes through the rows from the last to the first.
RepackBackwards(e, nc, m) ==
  LET a[n \in 0 .. NR * m] == IF n = 0 THEN e ELSE MoveCell(a[n - 1], NR * m - n, nc, m)
  IN a[NR * m]

\* The accepted columns move from stride nc to stride m, row by row.
Repack(e, nc, m) ==
  LET a[n \in 0 .. NR * m] == IF n = 0 THEN e ELSE MoveCell(a[n - 1], n - 1, nc, m)
  IN a[NR * m]

\* The state after the loop over the columns.
OrthoLoop(e, nc, Kept) ==
  LET s[k \in 0 .. nc] ==
        IF k = 0 THEN [cols |-> Columns(e, nc), m |-> 0] ELSE OrthoColumn(s[k - 1], k - 1, Kept)
  IN s[nc]

OrthoMGS(e, nc, Kept) ==
  LET s == OrthoLoop(e, nc, Kept)
      after == [i \in DOMAIN e |->
                  IF i < NR * nc THEN Cell(i \div nc, s.cols[i % nc].vec, s.cols[i % nc].mark)
                  ELSE e[i]]
  IN [m |-> s.m, e |-> IF s.m # nc THEN Repack(after, nc, s.m) ELSE after]

\* The padding rows of the solver's block at the new stride.
Repad(e, m) ==
  [i \in DOMAIN e |-> IF i \in NR * m .. VecRows * m - 1 THEN Zero ELSE e[i]]

-----------------------------------------------------------------------------
(* jacobiEigen: diag[d] is the eigenvalue found for direction d.  The      *)
(* selection sort swaps the values and the vectors.                        *)

Swapped(f, i, j) == [f EXCEPT ![i] = f[j], ![j] = f[i]]

\* (Fault) The vectors stay where they are.
SortStepValuesOnly(s, i) ==
  LET n == Cardinality(DOMAIN s.eval)
      best == CHOOSE j \in i .. n - 1 :
                /\ \A l \in i .. n - 1 : s.eval[j] <= s.eval[l]
                /\ \A l \in i .. j - 1 : s.eval[j] < s.eval[l]
  IN [s EXCEPT !.eval = Swapped(s.eval, i, best)]

SortStep(s, i) ==
  LET n == Cardinality(DOMAIN s.eval)
      best == CHOOSE j \in i .. n - 1 :
                /\ \A l \in i .. n - 1 : s.eval[j] <= s.eval[l]
                /\ \A l \in i .. j - 1 : s.eval[j] < s.eval[l]
  IN [eval |-> Swapped(s.eval, i, best), evec |-> Swapped(s.evec, i, best)]

JacobiEigen(diag) ==
  LET n == Cardinality(DOMAIN diag)
      s[i \in 0 .. n - 1] ==
        IF i = 0 THEN [eval |-> diag, evec |-> [d \in DOMAIN diag |-> d]]
        ELSE SortStep(s[i - 1], i - 1)
  IN s[n - 1]

(* One pass of chebOrthoCholQR2 on m columns: directions below tol are     *)
(* dropped, the others scaled; the update runs over all VecRows rows.      *)
CholQRPass(e, m, diag, tol) ==
  LET s == JacobiEigen(diag)
      j0 == Min({j \in 0 .. m - 1 : s.eval[j] >= tol} \cup {m})
      mNew == m - j0
      Entry(r, j) ==
        IF \A c \in 0 .. m - 1 : At(e, m, r, c) = Zero THEN Zero
        ELSE IF r < NR /\ \A c \in 0 .. m - 1 : IsVector(e, m, c)
        THEN Cell(r, s.evec[j0 + j], s.eval[j0 + j])
        ELSE Junk
  IN [m |-> mNew,
      e |-> [i \in DOMAIN e |->
               IF i < VecRows * mNew THEN Entry(i \div mNew, i % mNew) ELSE e[i]]]
=============================================================================
