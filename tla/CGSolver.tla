------------------------------ MODULE CGSolver ------------------------------
(***************************************************************************)
(* The loop of solveCG (CGSolver.c) on one rank.  rtrans is the squared    *)
(* norm of the current residual, so normr has the class of both.           *)
(***************************************************************************)
EXTENDS SolverCommon

\* ap = A x.
Initial(r) ==
  /\ Product(r, "initial")
  /\ EnterReduction(r, "rtrans")
  /\ UNCHANGED <<k, normr, reason, j, i, finite>>

\* (Fault) One iteration too many.
LoopTestLate(r, n) ==
  IF n = "zero" THEN StopLoop(r, "EXACT")
  ELSE IF Met(n) THEN StopLoop(r, "CONVERGED")
  ELSE IF k[r] > param.itermax THEN StopLoop(r, "ITERMAX")
  ELSE EnterProduct(r, "apply") /\ UNCHANGED reason

\* (Fault) The limit is tested first: convergence in the last iteration is missed.
LoopTestSwapped(r, n) ==
  IF n = "zero" THEN StopLoop(r, "EXACT")
  ELSE IF k[r] = param.itermax THEN StopLoop(r, "ITERMAX")
  ELSE IF Met(n) THEN StopLoop(r, "CONVERGED")
  ELSE EnterProduct(r, "apply") /\ UNCHANGED reason

\* The tests at the head of the loop; p is updated and multiplied if none holds.
LoopTest(r, n) ==
  IF n = "zero" THEN StopLoop(r, "EXACT")
  ELSE IF Met(n) THEN StopLoop(r, "CONVERGED")
  ELSE IF k[r] = param.itermax THEN StopLoop(r, "ITERMAX")
  ELSE EnterProduct(r, "apply") /\ UNCHANGED reason

\* rtrans = r'r, of the first residual or of the iteration just done.
Rtrans(r) ==
  \E n \in Residuals(r) :
    /\ Reduction(r, "rtrans", Scalar(n))
    /\ normr' = [normr EXCEPT ![r] = n]
    /\ LoopTest(r, n)
    /\ UNCHANGED <<k, j, i, finite>>

\* ap = A p.
Apply(r) ==
  /\ Product(r, "apply")
  /\ EnterReduction(r, "pAp")
  /\ UNCHANGED <<k, normr, reason, j, i, finite>>

\* p'Ap: zero means the matrix is not SPD; otherwise x and r take the step.
Curvature(r) ==
  \E n \in {"zero", "above"} :
    /\ Reduction(r, "pAp", Scalar(n))
    /\ IF n = "zero"
       THEN Leave(r, "aborted") /\ UNCHANGED k
       ELSE k' = [k EXCEPT ![r] = @ + 1] /\ EnterReduction(r, "rtrans")
    /\ UNCHANGED <<normr, reason, j, i, finite>>

CGStep(r) == Initial(r) \/ Rtrans(r) \/ Apply(r) \/ Curvature(r)
=============================================================================
