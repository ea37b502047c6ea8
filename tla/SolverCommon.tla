---------------------------- MODULE SolverCommon ----------------------------
(***************************************************************************)
(* What solveCG and solveGMRES share (solverCommon.c, solver.c): every     *)
(* rank runs the same loop on its own variables; the ranks meet in the     *)
(* exchange of a matrix product and in the Allreduce of a dot product.     *)
(*                                                                         *)
(* pc is the collective a rank has entered and not left.  An action takes  *)
(* the rank from there to the next one, with all the code in between.      *)
(*                                                                         *)
(* Numbers are classes of SolverContract.  What an Allreduce returns is    *)
(* <<class, column>>: the class of the norm the rank derives from it and,  *)
(* for the last dot product of an Arnoldi column, what the column is like: *)
(* regular, a breakdown (h_next within rounding of zero) or a breakdown    *)
(* whose diagonal is zero as well.  Overflow and underflow are left out.   *)
(***************************************************************************)
EXTENDS Integers, Sequences

CONSTANTS
  Ranks,     \* the MPI processes
  Sources,   \* [Ranks -> the ranks whose values its product needs]
  Params,    \* parameters a run may have
  None

ASSUME ParamsAssumption ==
  /\ Sources \in [Ranks -> SUBSET Ranks]
  /\ \A p \in Params :
       /\ p.solver \in {"CG", "GMRES"}
       /\ p.tolerance \in BOOLEAN       \* eps > 0
       /\ p.exact \in BOOLEAN           \* the exact solution is known
       /\ p.itermax \in Nat \ {0}       \* solverResolve rejects less
       /\ p.restart \in Int
  /\ None \notin {"zero", "below", "above", "nan"}
  /\ None \notin {"ZERO_RHS", "EXACT", "CONVERGED", "BREAKDOWN", "ITERMAX"}

VARIABLES
  param,     \* Parameter, the same on all ranks
  pc,        \* [Ranks -> collective the rank is in]
  started,   \* [Ranks -> products entered]
  reduced,   \* [Ranks -> reductions entered]
  result,    \* what the reductions returned
  k,         \* [Ranks -> completed iterations]
  normr,     \* [Ranks -> residual norm, None before the first]
  reason,    \* [Ranks -> StopReason, None while undecided]
  j,         \* [Ranks -> column of the restart cycle]
  i,         \* [Ranks -> dot product of the column]
  finite     \* [Ranks -> no NaN or Inf in x]

vars == <<param, pc, started, reduced, result, k, normr, reason, j, i, finite>>

Classes == {"zero", "below", "above"}
Scalar(n) == <<n, "regular">>

Running == \A r \in Ranks : pc[r] # "aborted"

-----------------------------------------------------------------------------
(* Entering and leaving the collectives.                                   *)

EnterProduct(r, s) ==
  /\ pc' = [pc EXCEPT ![r] = s]
  /\ started' = [started EXCEPT ![r] = @ + 1]
  /\ UNCHANGED reduced

EnterReduction(r, s) ==
  /\ pc' = [pc EXCEPT ![r] = s]
  /\ reduced' = [reduced EXCEPT ![r] = @ + 1]
  /\ UNCHANGED started

Leave(r, s) ==
  /\ pc' = [pc EXCEPT ![r] = s]
  /\ UNCHANGED <<started, reduced>>

\* solverApplyA returns when its sources have begun the same product (DistSpMV).
Product(r, s) ==
  /\ Running /\ pc[r] = s
  /\ \A q \in Sources[r] : started[q] >= started[r]
  /\ UNCHANGED <<param, result>>

\* (Fault) A dot product without its Allreduce.
LocalDot(r, s, v) ==
  /\ Running /\ pc[r] = s
  /\ UNCHANGED <<param, result>>

\* ddot / commReduction return v, when every rank is there and to every rank.
Reduction(r, s, v) ==
  /\ Running /\ pc[r] = s
  /\ \A q \in Ranks : reduced[q] >= reduced[r]
  /\ IF reduced[r] <= Len(result)
     THEN v = result[reduced[r]] /\ UNCHANGED result
     ELSE result' = Append(result, v)
  /\ UNCHANGED param

\* What a residual can be: the first one is b itself, as x = 0, and b is not zero;
\* it is below the threshold for eps >= 1.
Residuals(r) == IF k[r] = 0 THEN {"below", "above"} ELSE Classes

\* normr <= absTol, which is -1 in fixed mode.
Met(n) == param.tolerance /\ n \in {"zero", "below"}

-----------------------------------------------------------------------------
Init ==
  /\ param \in Params
  /\ pc = [r \in Ranks |-> "enter"]
  /\ started = [r \in Ranks |-> 0]
  /\ reduced = [r \in Ranks |-> 0]
  /\ result = <<>>
  /\ k = [r \in Ranks |-> 0]
  /\ normr = [r \in Ranks |-> None]
  /\ reason = [r \in Ranks |-> None]
  /\ j = [r \in Ranks |-> 0]
  /\ i = [r \in Ranks |-> 0]
  /\ finite = [r \in Ranks |-> TRUE]

\* solveGMRES rejects its restart length; either solver goes on to ||b||.
Enter(r) ==
  /\ Running /\ pc[r] = "enter"
  /\ IF param.solver = "GMRES" /\ param.restart < 1
     THEN Leave(r, "aborted")
     ELSE EnterReduction(r, "normb")
  /\ UNCHANGED <<param, result, k, normr, reason, j, i, finite>>

\* max|x - xexact| over the ranks, where the exact solution is known.
CheckResidual(r) ==
  IF param.exact THEN EnterReduction(r, "error") ELSE Leave(r, "done")

\* solverStopInit: a zero right-hand side ends the solve, else the first residual.
StopInit(r) ==
  \E n \in {"zero", "above"} :
    /\ Reduction(r, "normb", Scalar(n))
    /\ IF n = "zero"
       THEN /\ reason' = [reason EXCEPT ![r] = "ZERO_RHS"]
            /\ CheckResidual(r)
       ELSE /\ EnterProduct(r, IF param.solver = "CG" THEN "initial" ELSE "residual")
            /\ UNCHANGED reason
    /\ UNCHANGED <<k, normr, j, i, finite>>

\* (Fault) The true residual is only printed, so only the master computes it.
StopLoopOnMaster(r, why) ==
  /\ reason' = [reason EXCEPT ![r] = why]
  /\ IF r = 0 THEN EnterProduct(r, "verify") ELSE CheckResidual(r)

\* The loop is left for this reason; what follows is solverResidualNorm.
StopLoop(r, why) ==
  /\ reason' = [reason EXCEPT ![r] = why]
  /\ EnterProduct(r, "verify")

\* The product and the dot product of the true residual, after the timer.
Verify(r) ==
  /\ Product(r, "verify")
  /\ EnterReduction(r, "true")
  /\ UNCHANGED <<k, normr, reason, j, i, finite>>

TrueResidual(r) ==
  /\ Reduction(r, "true", Scalar("above"))
  /\ CheckResidual(r)
  /\ UNCHANGED <<k, normr, reason, j, i, finite>>

Error(r) ==
  /\ Reduction(r, "error", Scalar("above"))
  /\ Leave(r, "done")
  /\ UNCHANGED <<k, normr, reason, j, i, finite>>

CommonStep(r) == Enter(r) \/ StopInit(r) \/ Verify(r) \/ TrueResidual(r) \/ Error(r)
=============================================================================
