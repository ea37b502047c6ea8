--------------------------- MODULE SolverContract ---------------------------
(***************************************************************************)
(* What an iterative solver promises one rank: when it stops, for which    *)
(* reason and after how many iterations (StopReason in solver.h, the       *)
(* stopping tests of solveCG and solveGMRES).                              *)
(*                                                                         *)
(* A norm is one of four: zero, at most eps * ||b||, above it, not a       *)
(* number.  In fixed mode (eps = 0) only zero means anything.              *)
(***************************************************************************)
EXTENDS Integers

CONSTANT None

VARIABLES
  param,      \* [solver, tolerance, itermax, ...] of the run
  iterations, \* applications of the matrix that count as iterations
  norm,       \* the latest estimate of the residual norm
  reason      \* None until the solver returns

vars == <<param, iterations, norm, reason>>

Norms == {"zero", "below", "above"}

\* normr <= absTol; absTol is -1 in fixed mode.
Met(n) == param.tolerance /\ n \in {"zero", "below"}

\* Nothing stands in the way of another iteration.
Open ==
  /\ norm \in {"below", "above"} /\ ~Met(norm)
  /\ iterations < param.itermax

Init == iterations = 0 /\ norm = None /\ reason = None

\* The residual is computed from scratch: before the first iteration and, in
\* GMRES, at a restart.
Measure ==
  /\ reason = None
  /\ norm = None \/ (param.solver = "GMRES" /\ Open)
  /\ norm' \in Norms
  /\ UNCHANGED <<param, iterations, reason>>

Iterate ==
  /\ reason = None
  /\ Open
  /\ iterations' = iterations + 1
  /\ norm' \in Norms \cup {"nan"}
  /\ UNCHANGED <<param, reason>>

StopsFor(why) ==
  CASE why = "ZERO_RHS"  -> norm = None /\ iterations = 0
    [] why = "EXACT"     -> norm = "zero"
    [] why = "CONVERGED" -> Met(norm)
    [] why = "BREAKDOWN" -> param.solver = "GMRES" /\ iterations > 0
    [] why = "ITERMAX"   -> /\ iterations = param.itermax
                            /\ norm \in {"below", "above"} /\ ~Met(norm)

Stop ==
  /\ reason = None
  /\ \E why \in {"ZERO_RHS", "EXACT", "CONVERGED", "BREAKDOWN", "ITERMAX"} :
       StopsFor(why) /\ reason' = why
  /\ UNCHANGED <<param, iterations, norm>>

Next == Measure \/ Iterate \/ Stop

Spec == Init /\ [][Next]_vars
=============================================================================
