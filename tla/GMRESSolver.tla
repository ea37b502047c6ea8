---------------------------- MODULE GMRESSolver -----------------------------
(***************************************************************************)
(* The restart cycles of solveGMRES (GMRESSolver.c) on one rank, with the  *)
(* modified Gram-Schmidt of gmresOrthoMGS.                                 *)
(***************************************************************************)
EXTENDS SolverCommon

\* (Fault) Every cycle is a full one.
JlimitFull(r) == param.restart

\* The columns of this cycle: a full one, or what itermax leaves.
Jlimit(r) ==
  IF k[r] + param.restart <= param.itermax THEN param.restart ELSE param.itermax - k[r]

\* solverResidualNorm: r = b - A x, first and at every restart.
Residual(r) ==
  /\ Product(r, "residual")
  /\ EnterReduction(r, "norm")
  /\ UNCHANGED <<k, normr, reason, j, i, finite>>

\* The tests at the head of a cycle, whose first column starts if none holds.
CycleStart(r) ==
  \E n \in Residuals(r) :
    /\ Reduction(r, "norm", Scalar(n))
    /\ normr' = [normr EXCEPT ![r] = n]
    /\ IF n = "zero" THEN StopLoop(r, "EXACT")
       ELSE IF Met(n) THEN StopLoop(r, "CONVERGED")
       ELSE EnterProduct(r, "arnoldi") /\ UNCHANGED reason
    /\ UNCHANGED <<k, j, i, finite>>

\* V[j+1] = A V[j].
Arnoldi(r) ==
  /\ Product(r, "arnoldi")
  /\ i' = [i EXCEPT ![r] = 0]
  /\ EnterReduction(r, "hij")
  /\ UNCHANGED <<k, normr, reason, j, finite>>

\* One dot product of gmresOrthoMGS per V[i], i = 0 .. j, then the norm of V[j+1].
Hij(r) ==
  /\ Reduction(r, "hij", Scalar("above"))
  /\ i' = [i EXCEPT ![r] = @ + 1]
  /\ EnterReduction(r, IF i[r] < j[r] THEN "hij" ELSE "hnext")
  /\ UNCHANGED <<k, normr, reason, j, finite>>

\* What the last dot product of a column can say: without a breakdown the estimate
\* stays above zero; a breakdown leaves any estimate, or none at all where the
\* rotation divides zero by zero.
ColumnResults ==
  {<<n, "regular">> : n \in {"below", "above"}}
    \cup {<<n, "breakdown">> : n \in Classes}
    \cup {<<"nan", "singular">>}

\* The tests after the inner loop; GMRES goes on while k < itermax.
EndCycle(r, n, column, done) ==
  /\ k' = [k EXCEPT ![r] = done]
  /\ j' = [j EXCEPT ![r] = 0]
  /\ finite' = [finite EXCEPT ![r] = @ /\ column # "singular"]
  /\ IF column # "regular" THEN StopLoop(r, "BREAKDOWN")
     ELSE IF Met(n) THEN StopLoop(r, "CONVERGED")
     ELSE IF done < param.itermax THEN EnterProduct(r, "residual") /\ UNCHANGED reason
     ELSE StopLoop(r, "ITERMAX")

\* The end of a column, rotations and estimate included: another one, or back
\* substitution, the update of x and the tests of the outer loop.
Hnext(r) ==
  \E v \in ColumnResults :
    /\ Reduction(r, "hnext", v)
    /\ normr' = [normr EXCEPT ![r] = v[1]]
    /\ IF v[2] # "regular" \/ Met(v[1]) \/ j[r] + 1 = Jlimit(r)
       THEN EndCycle(r, v[1], v[2], k[r] + j[r] + 1)
       ELSE /\ j' = [j EXCEPT ![r] = @ + 1]
            /\ EnterProduct(r, "arnoldi")
            /\ UNCHANGED <<k, reason, finite>>
    /\ UNCHANGED i

GMRESStep(r) == Residual(r) \/ CycleStart(r) \/ Arnoldi(r) \/ Hij(r) \/ Hnext(r)
=============================================================================
