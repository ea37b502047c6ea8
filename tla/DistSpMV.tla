------------------------------ MODULE DistSpMV ------------------------------
(***************************************************************************)
(* What solverApplyA (solverCommon.c) promises its callers, whatever the   *)
(* build overlaps and however MPI moves the data.                          *)
(*                                                                         *)
(* Every rank computes a sequence of products.  Its k-th product multiplies*)
(* its rows with the k-th vector of ALL ranks: each coefficient meets the  *)
(* k-th value of its global column, once.  Between the start of a product  *)
(* and its completion the output vector holds nothing a caller may use.    *)
(***************************************************************************)
EXTENDS Integers

CONSTANTS
  Ranks,      \* the MPI processes
  MaxApply,   \* products per rank (bound)
  None        \* the output of a product that has not completed

VARIABLES
  plan,       \* the distributed matrix, chosen once
  started,    \* [Ranks -> products begun]
  result      \* [Ranks -> None or the terms of the latest product]

vars == <<plan, started, result>>

\* The product of the rows of r with the k-th global vector: the sum in row i has
\* one term per entry, <<global column whose value was used, vector number>>.
Product(p, r, k) ==
  [i \in 0 .. p.nr[r] - 1 |-> [j \in 1 .. p.len[r][i] |-> <<p.val[r][i][j - 1], k>>]]

\* A rank begins its next product.
Start(r) ==
  /\ started[r] < MaxApply
  /\ started' = [started EXCEPT ![r] = @ + 1]
  /\ result' = [result EXCEPT ![r] = None]
  /\ UNCHANGED plan

\* It completes it.  It cannot have used a vector its sources have not reached.
Finish(r) ==
  /\ started[r] > 0
  /\ result[r] = None
  /\ \A q \in plan.sources[r] : started[q] >= started[r]
  /\ result' = [result EXCEPT ![r] = Product(plan, r, started[r])]
  /\ UNCHANGED <<plan, started>>

Init ==
  /\ started = [r \in Ranks |-> 0]
  /\ result = [r \in Ranks |-> None]

Next == \E r \in Ranks : Start(r) \/ Finish(r)

Spec == Init /\ [][Next]_vars
=============================================================================
