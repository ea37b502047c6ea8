----------------------------- MODULE BlockAlgebra -----------------------------
(***************************************************************************)
(* The values of the ChebFD blocks.  An entry is p(A') applied to one      *)
(* column of a block the host filled, at one row: the entry's name and the *)
(* coefficients of p.  A' = alpha A + beta; the products with A alone are  *)
(* counted in the same way, no pass mixes the two.  Sums of entries of     *)
(* different columns, or over rows that are not all of one column, are not *)
(* values any pass should see: they are Poison, like memory nobody wrote.  *)
(***************************************************************************)
EXTENDS Integers, Sequences, SequencesExt

CONSTANTS
  Degree,   \* the largest filter degree
  Gc        \* the filter coefficients gc[0 .. Degree]

Coefs == 0 .. Degree

ASSUME CoefficientsAssumption == Degree \in Nat /\ Gc \in [Coefs -> Int]

Monomial(d) == [k \in Coefs |-> IF k = d THEN 1 ELSE 0]
Shift(p) == [k \in Coefs |-> IF k = 0 THEN 0 ELSE p[k - 1]]
Comb(a, p, b, q) == [k \in Coefs |-> a * p[k] + b * q[k]]

Poison == [name |-> <<"poison">>, p |-> Monomial(0)]
Zero == [name |-> <<>>, p |-> [k \in Coefs |-> 0]]
Entry(array, t, r, c) == [name |-> <<array, t, r, c>>, p |-> Monomial(0)]
Value(name, p) == IF p = Zero.p THEN Zero ELSE [name |-> name, p |-> p]

\* a v, and a v + b w
Scaled(a, v) == Value(v.name, Comb(a, v.p, 0, v.p))
Sum(v, w) ==
  CASE v = Zero -> w
    [] w = Zero -> v
    [] v # Zero /\ w # Zero /\ v.name = w.name -> Value(v.name, Comb(1, v.p, 1, w.p))
    [] OTHER -> Poison

\* One row of A' times a column: col[r] are the entries of the column.
Applied(col, r) ==
  IF \A s \in DOMAIN col : col[s] = Zero THEN Zero
  ELSE IF \A s \in DOMAIN col :
            /\ Len(col[s].name) = 4
            /\ col[s].p = col[r].p
            /\ col[s].name = [col[r].name EXCEPT ![3] = s]
       THEN Value(col[r].name, Shift(col[r].p))
       ELSE Poison

\* x <- p(A') x on the host: the recurrence of applyFilter on the polynomials, with
\* u = T_(n-2), w = T_(n-1) and the accumulator x before step n.
Forward[n \in 3 .. Degree + 1] ==
  IF n = 3
  THEN LET u == Shift(Monomial(0))
           w == Comb(2, Shift(u), -1, Monomial(0))
       IN [u |-> u, w |-> w,
           x |-> Comb(1, Comb(Gc[0], Monomial(0), Gc[1], u), Gc[2], w)]
  ELSE LET b == Forward[n - 1]
           t == Comb(2, Shift(b.w), -1, b.u)
       IN [u |-> b.w, w |-> t, x |-> Comb(1, b.x, Gc[n - 1], t)]

\* The filter polynomial of degree np >= 2.
Filter(np) == Forward[np + 1].x
=============================================================================
