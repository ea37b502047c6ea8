---------------------------- MODULE MatrixKernels ----------------------------
(***************************************************************************)
(* What the kernels of all formats have in common.  Memory is a function   *)
(* from the names of buffers to arrays.  A call is a record of the buffers *)
(* it is given, "none" for NULL, and of width and leading dimension:       *)
(*     y = cA * (A x) + cP * p + cQ * q + cR * r,   acc = acc + gc * y     *)
(***************************************************************************)
EXTENDS Integers, Sequences, FiniteSets, TLC

Zero == [kind |-> "zero"]
Null == [kind |-> "null"]
Outside == [kind |-> "outside"]
Garbage == [kind |-> "garbage"]

At(mem, name, i) ==
  IF name = "none" THEN Null ELSE IF i \in DOMAIN mem[name] THEN mem[name][i] ELSE Outside

\* The element of x that belongs to element e of y and column c of the matrix.
Gather(mem, a, e, c) == At(mem, a.x, c * a.ld + (e % a.ld))

\* An element of y: sum is the sequence of the products, <<coefficient, element of x>>.
LinComb(sum, p, q, r) ==
  IF sum = <<>> /\ {p, q, r} \subseteq {Zero, Null} THEN Zero
  ELSE [kind |-> "comb", sum |-> sum, p |-> p, q |-> q, r |-> r]

Combined(mem, a, sum, e) == LinComb(sum, At(mem, a.p, e), At(mem, a.q, e), At(mem, a.r, e))

Accumulated(old, t) == IF old = Zero /\ t = Zero THEN Zero ELSE [kind |-> "acc", old |-> old, add |-> t]

\* The elements y are written, and accumulated if the call says so.
Written(mem, a, y) ==
  LET stored == [mem EXCEPT ![a.y] = y @@ @]
  IN IF a.acc = "none" THEN stored
     ELSE [stored EXCEPT ![a.acc] = [e \in DOMAIN y |-> Accumulated(At(mem, a.acc, e), y[e])] @@ @]

\* All elements of a set of rows, in a call without a leading dimension.
Elements(rows, width) == {r * width + v : r \in rows, v \in 0 .. width - 1}
=============================================================================
