-------------------------- MODULE SolverRun_proofs --------------------------
(***************************************************************************)
(* Proofs about SolverRun, for every set of ranks, every exchange pattern  *)
(* and every parameter set.                                                *)
(*                                                                         *)
(* First what a single rank's variables satisfy at each place of the code  *)
(* (PlaceInv), which gives TypeOK, ColumnsFit and the refinement.  Then    *)
(* that all ranks are on one track: the ranks that have left a reduction   *)
(* are where the result takes a rank from where the others still are.      *)
(***************************************************************************)
EXTENDS SolverRun, SequenceTheorems, TLAPS

-----------------------------------------------------------------------------
(* One rank.                                                               *)

\* A norm that lets the solver go on.
OpenNorm(n) == n \in {"below", "above"} /\ ~Met(n)

\* Nothing has been measured or counted.
Untouched(r) == k[r] = 0 /\ normr[r] = None

\* The reason holds (StopsFor of SolverContract).
ReasonHolds(r) ==
  \/ reason[r] = "EXACT" /\ normr[r] = "zero"
  \/ reason[r] = "CONVERGED" /\ Met(normr[r])
  \/ reason[r] = "BREAKDOWN" /\ param.solver = "GMRES" /\ k[r] > 0
  \/ reason[r] = "ITERMAX" /\ k[r] = param.itermax /\ OpenNorm(normr[r])

\* What the variables of a rank are at each place of solveCG and solveGMRES.
PlaceInv(r) ==
  /\ pc[r] \in {"initial", "rtrans", "apply", "pAp"} => param.solver = "CG"
  /\ pc[r] \in {"residual", "norm", "arnoldi", "hij", "hnext"} =>
       param.solver = "GMRES" /\ param.restart >= 1
  /\ pc[r] = "normb" => param.solver = "CG" \/ param.restart >= 1
  /\ pc[r] \notin {"verify", "true", "error", "done"} => reason[r] = None
  /\ pc[r] \in {"enter", "normb", "initial"} => Untouched(r)
  /\ pc[r] \notin {"arnoldi", "hij", "hnext"} => j[r] = 0
  /\ pc[r] = "rtrans" => Untouched(r) \/ (k[r] > 0 /\ OpenNorm(normr[r]))
  /\ pc[r] \in {"apply", "pAp"} => OpenNorm(normr[r]) /\ k[r] < param.itermax
  /\ pc[r] \in {"residual", "norm"} =>
       Untouched(r) \/ (OpenNorm(normr[r]) /\ k[r] < param.itermax)
  /\ pc[r] \in {"arnoldi", "hij", "hnext"} =>
       /\ OpenNorm(normr[r])
       /\ k[r] + j[r] < param.itermax /\ j[r] < param.restart
  /\ pc[r] = "hij" => i[r] <= j[r]
  /\ pc[r] \in {"verify", "true"} => ReasonHolds(r)

\* What holds of each rank by itself.
LocalInv == TypeOK /\ \A r \in Ranks : PlaceInv(r)

\* What the run's parameters are.
LEMMA ParamFacts ==
  ASSUME param \in Params
  PROVE  /\ param.solver \in {"CG", "GMRES"}
         /\ param.tolerance \in BOOLEAN /\ param.exact \in BOOLEAN
         /\ param.itermax \in Nat /\ param.itermax > 0
         /\ param.restart \in Int
PROOF
<1> QED
  BY ParamsAssumption

\* A reduction leaves the sequence of results one: it may grow by one typed result.
LEMMA ReductionTyped ==
  ASSUME LocalInv, NEW r \in Ranks, NEW s,
         NEW v \in (Classes \cup {"nan"}) \X {"regular", "breakdown", "singular"},
         Reduction(r, s, v)
  PROVE  result' \in Seq((Classes \cup {"nan"}) \X {"regular", "breakdown", "singular"})
PROOF
<1> DEFINE Results == (Classes \cup {"nan"}) \X {"regular", "breakdown", "singular"}
<1> HIDE DEF Results
<1>1. result \in Seq(Results) /\ v \in Results
  BY DEF LocalInv, TypeOK, Results
<1>2. Append(result, v) \in Seq(Results)
  BY <1>1, AppendProperties
<1> QED
  BY <1>1, <1>2 DEF Reduction, Results

\* The results a dot product can have.
LEMMA ScalarTyped ==
  ASSUME NEW n \in Classes
  PROVE  Scalar(n) \in (Classes \cup {"nan"}) \X {"regular", "breakdown", "singular"}
PROOF
<1> QED
  BY DEF Scalar

\* A place of the code says nothing about the other ranks.
LEMMA Elsewhere ==
  ASSUME NEW q \in Ranks, PlaceInv(q), param' = param,
         pc'[q] = pc[q], k'[q] = k[q], normr'[q] = normr[q],
         reason'[q] = reason[q], j'[q] = j[q], i'[q] = i[q]
  PROVE  PlaceInv(q)'
PROOF
<1> QED
  BY DEF PlaceInv, ReasonHolds, OpenNorm, Untouched, Met

\* Where a rank may be.
Places == {"enter", "done", "aborted"} \cup Products \cup Reductions

\* The three ways to another place: typed, and only for one rank.
LEMMA Moves ==
  ASSUME TypeOK, NEW r \in Ranks, NEW s \in Places,
         EnterProduct(r, s) \/ EnterReduction(r, s) \/ Leave(r, s)
  PROVE  /\ pc' \in [Ranks -> Places] /\ pc'[r] = s
         /\ started' \in [Ranks -> Nat] /\ reduced' \in [Ranks -> Nat]
         /\ \A q \in Ranks \ {r} :
              pc'[q] = pc[q] /\ started'[q] = started[q] /\ reduced'[q] = reduced[q]
PROOF
<1>1. /\ pc \in [Ranks -> Places]
      /\ started \in [Ranks -> Nat] /\ reduced \in [Ranks -> Nat]
  BY DEF TypeOK, Places
<1>2. CASE EnterProduct(r, s)
  BY <1>1, <1>2 DEF EnterProduct
<1>3. CASE EnterReduction(r, s)
  BY <1>1, <1>3 DEF EnterReduction
<1>4. CASE Leave(r, s)
  BY <1>1, <1>4 DEF Leave
<1> QED
  BY <1>2, <1>3, <1>4

\* Entering a solver (argument checks passed) leads to a place its facts hold at.
LEMMA EnterLocal ==
  ASSUME LocalInv, NEW r \in Ranks, Enter(r)
  PROVE  LocalInv'
PROOF
<1>0. PICK s \in {"normb", "aborted"} :
        /\ EnterReduction(r, s) \/ Leave(r, s)
        /\ s = "normb" => param.solver # "GMRES" \/ ~(param.restart < 1)
  BY DEF Enter
<1>1. s \in Places
  BY DEF Places, Reductions
<1>2. UNCHANGED <<param, result, k, normr, reason, j, i, finite>> /\ pc[r] = "enter"
  BY DEF Enter
<1>3. TypeOK'
  BY <1>0, <1>1, <1>2, Moves DEF LocalInv, TypeOK, Places
<1>4. ASSUME NEW q \in Ranks PROVE PlaceInv(q)'
  <2>1. CASE q = r
    <3>1. pc'[r] = s
      BY <1>0, <1>1, Moves DEF LocalInv
    <3>2. s = "normb" => param.solver = "CG" \/ param.restart >= 1
      BY <1>0, ParamFacts DEF LocalInv, TypeOK
    <3> QED
      BY <2>1, <3>1, <3>2, <1>2 DEF LocalInv, PlaceInv, Untouched
  <2>2. CASE q # r
    BY <1>0, <1>1, <1>2, <2>2, Moves, Elsewhere DEF LocalInv
  <2> QED
    BY <2>1, <2>2
<1> QED
  BY <1>3, <1>4 DEF LocalInv

\* The variables of the other ranks, the places apart (Moves).
OthersKeep(r) ==
  \A q \in Ranks \ {r} :
    /\ k'[q] = k[q] /\ normr'[q] = normr[q] /\ reason'[q] = reason[q]
    /\ j'[q] = j[q] /\ i'[q] = i[q] /\ finite'[q] = finite[q]

\* What a step of one rank has to show.
LEMMA LocalFrame ==
  ASSUME LocalInv, NEW r \in Ranks, NEW s \in Places,
         EnterProduct(r, s) \/ EnterReduction(r, s) \/ Leave(r, s),
         param' = param,
         result' \in Seq((Classes \cup {"nan"}) \X {"regular", "breakdown", "singular"}),
         k' \in [Ranks -> 0 .. param.itermax],
         normr' \in [Ranks -> Classes \cup {"nan", None}],
         reason' \in [Ranks -> Reasons \cup {None}],
         j' \in [Ranks -> 0 .. param.itermax],
         i' \in [Ranks -> 0 .. param.itermax],
         finite' \in [Ranks -> BOOLEAN],
         OthersKeep(r),
         pc'[r] = s => PlaceInv(r)'
  PROVE  LocalInv'
PROOF
<1>1. TypeOK'
  BY Moves DEF LocalInv, TypeOK, Places
<1>2. ASSUME NEW q \in Ranks PROVE PlaceInv(q)'
  <2>1. CASE q = r
    BY <2>1, Moves DEF LocalInv
  <2>2. CASE q # r
    BY <2>2, Moves, Elsewhere DEF LocalInv, OthersKeep
  <2> QED
    BY <2>1, <2>2
<1> QED
  BY <1>1, <1>2 DEF LocalInv

\* solverStopInit: a zero right-hand side ends the solve, any other opens the first product.
LEMMA StopInitLocal ==
  ASSUME LocalInv, NEW r \in Ranks, StopInit(r)
  PROVE  LocalInv'
PROOF
<1>0. PICK n \in {"zero", "above"} :
        /\ Reduction(r, "normb", Scalar(n))
        /\ IF n = "zero"
           THEN /\ reason' = [reason EXCEPT ![r] = "ZERO_RHS"]
                /\ CheckResidual(r)
           ELSE /\ EnterProduct(r, IF param.solver = "CG" THEN "initial" ELSE "residual")
                /\ UNCHANGED reason
        /\ UNCHANGED <<k, normr, j, i, finite>>
  BY DEF StopInit
<1>1. result' \in Seq((Classes \cup {"nan"}) \X {"regular", "breakdown", "singular"})
  BY <1>0, ReductionTyped, ScalarTyped DEF Classes
<1>2. pc[r] = "normb" /\ param' = param
  BY <1>0 DEF Reduction
<1>3. Untouched(r) /\ j[r] = 0 /\ reason[r] = None
  BY <1>2 DEF LocalInv, PlaceInv
<1>4. CASE n = "zero"
  <2>1. PICK s \in {"error", "done"} : EnterReduction(r, s) \/ Leave(r, s)
    BY <1>0, <1>4 DEF CheckResidual
  <2>2. s \in Places
    BY DEF Places, Reductions
  <2>3. reason' \in [Ranks -> Reasons \cup {None}] /\ OthersKeep(r)
    BY <1>0, <1>4 DEF LocalInv, TypeOK, OthersKeep, Reasons
  <2>4. pc'[r] = s => PlaceInv(r)'
    BY <1>0, <1>3, <2>1 DEF PlaceInv
  <2> QED
    BY <1>0, <1>1, <1>2, <2>1, <2>2, <2>3, <2>4, LocalFrame DEF LocalInv, TypeOK
<1>5. CASE n # "zero"
  <2>1. PICK s \in {"initial", "residual"} :
          /\ EnterProduct(r, s)
          /\ s = "initial" <=> param.solver = "CG"
    BY <1>0, <1>5
  <2>2. s \in Places
    BY DEF Places, Products
  <2>3. UNCHANGED <<k, normr, reason, j, i, finite>> /\ OthersKeep(r)
    BY <1>0, <1>5 DEF OthersKeep
  <2>4. pc'[r] = s => PlaceInv(r)'
    BY <1>2, <1>3, <2>1, <2>3, ParamFacts DEF LocalInv, TypeOK, PlaceInv, Untouched
  <2> QED
    BY <1>1, <1>2, <2>1, <2>2, <2>3, <2>4, LocalFrame DEF LocalInv, TypeOK
<1> QED
  BY <1>4, <1>5

\* The products that are followed by a reduction with nothing in between.
LEMMA ProductLocal ==
  ASSUME LocalInv, NEW r \in Ranks,
         Verify(r) \/ Initial(r) \/ Apply(r) \/ Residual(r)
  PROVE  LocalInv'
PROOF
<1>1. PICK s \in {"true", "rtrans", "pAp", "norm"} :
        /\ EnterReduction(r, s)
        /\ pc[r] = CASE s = "true" -> "verify" [] s = "rtrans" -> "initial"
                     [] s = "pAp" -> "apply" [] s = "norm" -> "residual"
  BY DEF Verify, Initial, Apply, Residual, Product
<1>2. /\ UNCHANGED <<param, result, k, normr, reason, j, i, finite>>
      /\ OthersKeep(r)
  BY DEF Verify, Initial, Apply, Residual, Product, OthersKeep
<1>3. s \in Places
  BY DEF Places, Reductions
<1>4. pc'[r] = s => PlaceInv(r)'
  BY <1>1, <1>2 DEF LocalInv, PlaceInv, Untouched, ReasonHolds, OpenNorm, Met
<1> QED
  BY <1>1, <1>2, <1>3, <1>4, LocalFrame DEF LocalInv, TypeOK

\* The product of an Arnoldi step leads to its first scalar product.
LEMMA ArnoldiLocal ==
  ASSUME LocalInv, NEW r \in Ranks, Arnoldi(r)
  PROVE  LocalInv'
PROOF
<1>1. /\ EnterReduction(r, "hij") /\ pc[r] = "arnoldi"
      /\ UNCHANGED <<param, result, k, normr, reason, j, finite>>
      /\ i' = [i EXCEPT ![r] = 0]
  BY DEF Arnoldi, Product
<1>2. /\ i' \in [Ranks -> 0 .. param.itermax] /\ OthersKeep(r) /\ i'[r] = 0
      /\ j[r] \in Nat
  BY <1>1, ParamFacts DEF LocalInv, TypeOK, OthersKeep
<1>3. "hij" \in Places
  BY DEF Places, Reductions
<1>4. pc'[r] = "hij" => PlaceInv(r)'
  BY <1>1, <1>2 DEF LocalInv, PlaceInv, OpenNorm, Met
<1> QED
  BY <1>1, <1>2, <1>3, <1>4, LocalFrame DEF LocalInv, TypeOK

\* The two last reductions of a solve, verified residual and error norm.
LEMMA EndLocal ==
  ASSUME LocalInv, NEW r \in Ranks, TrueResidual(r) \/ Error(r)
  PROVE  LocalInv'
PROOF
<1>1. PICK s \in {"error", "done"} : EnterReduction(r, s) \/ Leave(r, s)
  BY DEF TrueResidual, Error, CheckResidual
<1>2. /\ UNCHANGED <<param, k, normr, reason, j, i, finite>> /\ OthersKeep(r)
      /\ pc[r] \in {"true", "error"}
  BY DEF TrueResidual, Error, Reduction, OthersKeep
<1>3. result' \in Seq((Classes \cup {"nan"}) \X {"regular", "breakdown", "singular"})
  BY ReductionTyped, ScalarTyped DEF TrueResidual, Error, Classes
<1>4. s \in Places
  BY DEF Places, Reductions
<1>5. pc'[r] = s => PlaceInv(r)'
  BY <1>1, <1>2 DEF LocalInv, PlaceInv
<1> QED
  BY <1>1, <1>2, <1>3, <1>4, <1>5, LocalFrame DEF LocalInv, TypeOK

\* The loop test of either solver: the reason it stops for holds.
LEMMA RtransLocal ==
  ASSUME LocalInv, NEW r \in Ranks, Rtrans(r)
  PROVE  LocalInv'
PROOF
<1>0. PICK n \in Residuals(r) :
        /\ Reduction(r, "rtrans", Scalar(n))
        /\ normr' = [normr EXCEPT ![r] = n]
        /\ LoopTest(r, n)
        /\ UNCHANGED <<k, j, i, finite>>
  BY DEF Rtrans
<1>1. n \in Classes
  BY DEF Residuals, Classes
<1>2. result' \in Seq((Classes \cup {"nan"}) \X {"regular", "breakdown", "singular"})
  BY <1>0, <1>1, ReductionTyped, ScalarTyped
<1>3. /\ pc[r] = "rtrans" /\ param' = param /\ j[r] = 0
      /\ param.solver = "CG" /\ reason[r] = None
      /\ k[r] \in 0 .. param.itermax
  BY <1>0 DEF LocalInv, PlaceInv, TypeOK, Reduction
<1>4. normr' \in [Ranks -> Classes \cup {"nan", None}] /\ normr'[r] = n
  BY <1>0, <1>1 DEF LocalInv, TypeOK
<1>5. CASE \E why \in {"EXACT", "CONVERGED", "ITERMAX"} :
             /\ StopLoop(r, why)
             /\ CASE why = "EXACT" -> n = "zero"
                  [] why = "CONVERGED" -> Met(n)
                  [] why = "ITERMAX" -> k[r] = param.itermax /\ OpenNorm(n)
  <2>1. PICK why \in {"EXACT", "CONVERGED", "ITERMAX"} :
             /\ StopLoop(r, why)
             /\ CASE why = "EXACT" -> n = "zero"
                  [] why = "CONVERGED" -> Met(n)
                  [] why = "ITERMAX" -> k[r] = param.itermax /\ OpenNorm(n)
    BY <1>5
  <2>2. reason' \in [Ranks -> Reasons \cup {None}] /\ reason'[r] = why /\ OthersKeep(r)
    BY <1>0, <2>1 DEF StopLoop, LocalInv, TypeOK, Reasons, OthersKeep
  <2>3. EnterProduct(r, "verify") /\ "verify" \in Places
    BY <2>1 DEF StopLoop, Places, Products
  <2>4. ReasonHolds(r)'
    BY <1>0, <1>3, <1>4, <2>1, <2>2 DEF ReasonHolds, Met, OpenNorm
  <2>5. pc'[r] = "verify" => PlaceInv(r)'
    BY <1>0, <1>3, <2>4 DEF PlaceInv
  <2> QED
    BY <1>0, <1>2, <1>3, <1>4, <2>2, <2>3, <2>5, LocalFrame DEF LocalInv, TypeOK
<1>6. CASE /\ EnterProduct(r, "apply") /\ UNCHANGED reason
           /\ OpenNorm(n) /\ k[r] # param.itermax
  <2>1. OthersKeep(r)
    BY <1>0, <1>6 DEF OthersKeep, LocalInv, TypeOK
  <2>2. "apply" \in Places
    BY DEF Places, Products
  <2>3. pc'[r] = "apply" => PlaceInv(r)'
    <3>1. OpenNorm(normr[r])'
      BY <1>3, <1>4, <1>6 DEF OpenNorm, Met
    <3>2. k'[r] < param'.itermax
      BY <1>0, <1>3, <1>6, ParamFacts DEF LocalInv, TypeOK
    <3> QED
      BY <1>0, <1>3, <1>6, <3>1, <3>2 DEF PlaceInv
  <2> QED
    BY <1>0, <1>2, <1>3, <1>4, <1>6, <2>1, <2>2, <2>3, LocalFrame DEF LocalInv, TypeOK
<1> QED
  BY <1>0, <1>1, <1>5, <1>6 DEF LoopTest, OpenNorm, Classes

\* CG's p.Ap: a breakdown leaves the rank, anything else counts the iteration.
LEMMA CurvatureLocal ==
  ASSUME LocalInv, NEW r \in Ranks, Curvature(r)
  PROVE  LocalInv'
PROOF
<1>0. PICK n \in {"zero", "above"} :
        /\ Reduction(r, "pAp", Scalar(n))
        /\ IF n = "zero"
           THEN Leave(r, "aborted") /\ UNCHANGED k
           ELSE k' = [k EXCEPT ![r] = @ + 1] /\ EnterReduction(r, "rtrans")
        /\ UNCHANGED <<normr, reason, j, i, finite>>
  BY DEF Curvature
<1>1. result' \in Seq((Classes \cup {"nan"}) \X {"regular", "breakdown", "singular"})
  BY <1>0, ReductionTyped, ScalarTyped DEF Classes
<1>2. /\ pc[r] = "pAp" /\ param' = param
      /\ OpenNorm(normr[r]) /\ k[r] < param.itermax /\ k[r] \in 0 .. param.itermax
      /\ param.itermax \in Nat /\ k \in [Ranks -> 0 .. param.itermax]
  BY <1>0, ParamFacts DEF Reduction, LocalInv, PlaceInv, TypeOK
<1>4. CASE n = "zero"
  <2>1. "aborted" \in Places /\ OthersKeep(r)
    BY <1>0, <1>4 DEF Places, OthersKeep
  <2>2. pc'[r] = "aborted" => PlaceInv(r)'
    BY <1>0, <1>2, <1>4 DEF LocalInv, PlaceInv
  <2> QED
    BY <1>0, <1>1, <1>2, <1>4, <2>1, <2>2, LocalFrame DEF LocalInv, TypeOK
<1>5. CASE n # "zero"
  <2>1. /\ k' \in [Ranks -> 0 .. param.itermax] /\ k'[r] = k[r] + 1
        /\ \A q \in Ranks \ {r} : k'[q] = k[q]
    BY <1>0, <1>2, <1>5
  <2>2. "rtrans" \in Places /\ OthersKeep(r)
    BY <1>0, <2>1 DEF Places, Reductions, OthersKeep
  <2>3. pc'[r] = "rtrans" => PlaceInv(r)'
    BY <1>0, <1>2, <2>1 DEF LocalInv, PlaceInv, OpenNorm, Met
  <2> QED
    BY <1>0, <1>1, <1>2, <1>5, <2>1, <2>2, <2>3, LocalFrame DEF LocalInv, TypeOK
<1> QED
  BY <1>4, <1>5

\* The norm at the start of a GMRES cycle stops the loop or opens the cycle.
LEMMA CycleStartLocal ==
  ASSUME LocalInv, NEW r \in Ranks, CycleStart(r)
  PROVE  LocalInv'
PROOF
<1>0. PICK n \in Residuals(r) :
        /\ Reduction(r, "norm", Scalar(n))
        /\ normr' = [normr EXCEPT ![r] = n]
        /\ IF n = "zero" THEN StopLoop(r, "EXACT")
           ELSE IF Met(n) THEN StopLoop(r, "CONVERGED")
           ELSE EnterProduct(r, "arnoldi") /\ UNCHANGED reason
        /\ UNCHANGED <<k, j, i, finite>>
  BY DEF CycleStart
<1>1. n \in Classes
  BY DEF Residuals, Classes
<1>2. result' \in Seq((Classes \cup {"nan"}) \X {"regular", "breakdown", "singular"})
  BY <1>0, <1>1, ReductionTyped, ScalarTyped
<1>3. /\ pc[r] = "norm" /\ param' = param /\ j[r] = 0
      /\ param.solver = "GMRES" /\ reason[r] = None
      /\ param.restart >= 1 /\ param.restart \in Int
      /\ Untouched(r) \/ k[r] < param.itermax
      /\ k[r] \in 0 .. param.itermax /\ param.itermax \in Nat /\ param.itermax > 0
  BY <1>0, ParamFacts DEF LocalInv, PlaceInv, TypeOK, Reduction
<1>4. normr' \in [Ranks -> Classes \cup {"nan", None}] /\ normr'[r] = n
  BY <1>0, <1>1 DEF LocalInv, TypeOK
<1>5. CASE \E why \in {"EXACT", "CONVERGED"} :
             /\ StopLoop(r, why)
             /\ IF why = "EXACT" THEN n = "zero" ELSE Met(n)
  <2>1. PICK why \in {"EXACT", "CONVERGED"} :
             /\ StopLoop(r, why)
             /\ IF why = "EXACT" THEN n = "zero" ELSE Met(n)
    BY <1>5
  <2>2. reason' \in [Ranks -> Reasons \cup {None}] /\ reason'[r] = why /\ OthersKeep(r)
    BY <1>0, <2>1 DEF StopLoop, LocalInv, TypeOK, Reasons, OthersKeep
  <2>3. EnterProduct(r, "verify") /\ "verify" \in Places
    BY <2>1 DEF StopLoop, Places, Products
  <2>4. ReasonHolds(r)'
    BY <1>0, <1>3, <1>4, <2>1, <2>2 DEF ReasonHolds, Met
  <2>5. pc'[r] = "verify" => PlaceInv(r)'
    BY <1>0, <1>3, <2>4 DEF PlaceInv
  <2> QED
    BY <1>0, <1>2, <1>3, <1>4, <2>2, <2>3, <2>5, LocalFrame DEF LocalInv, TypeOK
<1>6. CASE EnterProduct(r, "arnoldi") /\ UNCHANGED reason /\ OpenNorm(n)
  <2>1. OthersKeep(r)
    BY <1>0, <1>6 DEF OthersKeep, LocalInv, TypeOK
  <2>2. "arnoldi" \in Places
    BY DEF Places, Products
  <2>3. pc'[r] = "arnoldi" => PlaceInv(r)'
    <3>1. OpenNorm(normr[r])'
      BY <1>3, <1>4, <1>6 DEF OpenNorm, Met
    <3>2. k'[r] + j'[r] < param'.itermax /\ j'[r] < param'.restart
      BY <1>0, <1>3 DEF Untouched
    <3> QED
      BY <1>0, <1>3, <1>6, <3>1, <3>2 DEF PlaceInv
  <2> QED
    BY <1>0, <1>2, <1>3, <1>4, <1>6, <2>1, <2>2, <2>3, LocalFrame DEF LocalInv, TypeOK
<1> QED
  BY <1>0, <1>1, <1>5, <1>6 DEF OpenNorm, Classes

\* One coefficient of the Hessenberg column; the last one is followed by the norm.
LEMMA HijLocal ==
  ASSUME LocalInv, NEW r \in Ranks, Hij(r)
  PROVE  LocalInv'
PROOF
<1> DEFINE s == IF i[r] < j[r] THEN "hij" ELSE "hnext"
<1>1. /\ Reduction(r, "hij", Scalar("above"))
      /\ i' = [i EXCEPT ![r] = @ + 1]
      /\ EnterReduction(r, s)
      /\ UNCHANGED <<param, k, normr, reason, j, finite>>
      /\ pc[r] = "hij"
  BY DEF Hij, Reduction
<1>2. result' \in Seq((Classes \cup {"nan"}) \X {"regular", "breakdown", "singular"})
  BY <1>1, ReductionTyped, ScalarTyped DEF Classes
<1>3. /\ OpenNorm(normr[r]) /\ i[r] <= j[r] /\ param.itermax \in Nat
      /\ k[r] + j[r] < param.itermax /\ j[r] < param.restart
      /\ k[r] \in Nat /\ j[r] \in Nat /\ i[r] \in Nat
      /\ i \in [Ranks -> 0 .. param.itermax]
  BY <1>1, ParamFacts DEF LocalInv, PlaceInv, TypeOK
<1>4. /\ i' \in [Ranks -> 0 .. param.itermax] /\ i'[r] = i[r] + 1
      /\ OthersKeep(r)
  BY <1>1, <1>3 DEF OthersKeep
<1>5. s \in Places
  BY DEF Places, Reductions
<1>6. pc'[r] = s => PlaceInv(r)'
  BY <1>1, <1>3, <1>4 DEF LocalInv, PlaceInv, OpenNorm, Met
<1> QED
  BY <1>1, <1>2, <1>4, <1>5, <1>6, LocalFrame DEF LocalInv, TypeOK

\* The columns of a cycle fit its length and what itermax leaves.
LEMMA HnextLocal ==
  ASSUME LocalInv, NEW r \in Ranks, Hnext(r)
  PROVE  LocalInv'
PROOF
<1>0. PICK v \in ColumnResults :
        /\ Reduction(r, "hnext", v)
        /\ normr' = [normr EXCEPT ![r] = v[1]]
        /\ IF v[2] # "regular" \/ Met(v[1]) \/ j[r] + 1 = Jlimit(r)
           THEN EndCycle(r, v[1], v[2], k[r] + j[r] + 1)
           ELSE /\ j' = [j EXCEPT ![r] = @ + 1]
                /\ EnterProduct(r, "arnoldi")
                /\ UNCHANGED <<k, reason, finite>>
        /\ UNCHANGED i
  BY DEF Hnext
<1> DEFINE n == v[1]  column == v[2]  done == k[r] + j[r] + 1
<1>1. /\ v \in (Classes \cup {"nan"}) \X {"regular", "breakdown", "singular"}
      /\ n \in Classes \cup {"nan"}
      /\ column = "regular" => n \in {"below", "above"}
  BY DEF ColumnResults, Classes
<1>2. result' \in Seq((Classes \cup {"nan"}) \X {"regular", "breakdown", "singular"})
  BY <1>0, <1>1, ReductionTyped
<1>3. /\ pc[r] = "hnext" /\ param' = param
      /\ param.solver = "GMRES" /\ reason[r] = None
      /\ param.restart >= 1 /\ param.restart \in Int
      /\ k[r] + j[r] < param.itermax /\ j[r] < param.restart
      /\ k[r] \in Nat /\ j[r] \in Nat /\ param.itermax \in Nat
      /\ k \in [Ranks -> 0 .. param.itermax] /\ j \in [Ranks -> 0 .. param.itermax]
  <2>1. pc[r] = "hnext" /\ param' = param
    BY <1>0 DEF Reduction
  <2>2. /\ param.solver = "GMRES" /\ reason[r] = None /\ param.restart >= 1
        /\ k[r] + j[r] < param.itermax /\ j[r] < param.restart
    BY <2>1 DEF LocalInv, PlaceInv
  <2> QED
    BY <2>1, <2>2, ParamFacts DEF LocalInv, TypeOK
<1>4. normr' \in [Ranks -> Classes \cup {"nan", None}] /\ normr'[r] = n
  BY <1>0, <1>1 DEF LocalInv, TypeOK
<1>5. CASE EndCycle(r, n, column, done)
  <2>1. /\ k' = [k EXCEPT ![r] = done] /\ j' = [j EXCEPT ![r] = 0]
        /\ finite' = [finite EXCEPT ![r] = @ /\ column # "singular"]
    BY <1>5 DEF EndCycle
  <2>2. /\ k' \in [Ranks -> 0 .. param.itermax] /\ k'[r] = done
        /\ j' \in [Ranks -> 0 .. param.itermax] /\ j'[r] = 0
    BY <1>3, <2>1
  <2>3. finite' \in [Ranks -> BOOLEAN]
    BY <2>1 DEF LocalInv, TypeOK
  <2>4. CASE \E why \in {"BREAKDOWN", "CONVERGED", "ITERMAX"} :
               /\ StopLoop(r, why)
               /\ why = "CONVERGED" => Met(n)
               /\ why = "ITERMAX" => OpenNorm(n) /\ ~(done < param.itermax)
    <3>1. PICK why \in {"BREAKDOWN", "CONVERGED", "ITERMAX"} :
               /\ StopLoop(r, why)
               /\ why = "CONVERGED" => Met(n)
               /\ why = "ITERMAX" => OpenNorm(n) /\ ~(done < param.itermax)
      BY <2>4
    <3>2. reason' \in [Ranks -> Reasons \cup {None}] /\ reason'[r] = why /\ OthersKeep(r)
      BY <1>0, <2>1, <3>1 DEF StopLoop, LocalInv, TypeOK, Reasons, OthersKeep
    <3>3. EnterProduct(r, "verify") /\ "verify" \in Places
      BY <3>1 DEF StopLoop, Places, Products
    <3>4. ReasonHolds(r)'
      BY <1>3, <1>4, <2>2, <3>1, <3>2 DEF ReasonHolds, Met, OpenNorm
    <3>5. pc'[r] = "verify" => PlaceInv(r)'
      BY <2>2, <3>4 DEF PlaceInv
    <3> QED
      BY <1>0, <1>2, <1>3, <1>4, <2>2, <2>3, <3>2, <3>3, <3>5, LocalFrame
      DEF LocalInv, TypeOK
  <2>5. CASE /\ EnterProduct(r, "residual") /\ UNCHANGED reason
             /\ done < param.itermax /\ OpenNorm(n)
    <3>1. OthersKeep(r) /\ "residual" \in Places
      BY <1>0, <2>1, <2>5 DEF OthersKeep, LocalInv, TypeOK, Places, Products
    <3>2. pc'[r] = "residual" => PlaceInv(r)'
      BY <1>3, <1>4, <2>2, <2>5 DEF PlaceInv, OpenNorm, Met
    <3> QED
      BY <1>0, <1>2, <1>3, <1>4, <2>2, <2>3, <2>5, <3>1, <3>2, LocalFrame
      DEF LocalInv, TypeOK
  <2> QED
    BY <1>1, <1>5, <2>4, <2>5 DEF EndCycle, OpenNorm
<1>6. CASE /\ column = "regular" /\ ~Met(n) /\ done # k[r] + Jlimit(r)
           /\ j' = [j EXCEPT ![r] = @ + 1]
           /\ EnterProduct(r, "arnoldi")
           /\ UNCHANGED <<k, reason, finite>>
  <2>1. done < param.itermax /\ j[r] + 1 < param.restart
    BY <1>3, <1>6 DEF Jlimit
  <2>2. /\ j' \in [Ranks -> 0 .. param.itermax] /\ j'[r] = j[r] + 1
        /\ OthersKeep(r) /\ "arnoldi" \in Places
    BY <1>0, <1>3, <1>6, <2>1 DEF OthersKeep, LocalInv, TypeOK, Places, Products
  <2>3. OpenNorm(normr[r])'
    BY <1>1, <1>3, <1>4, <1>6 DEF OpenNorm, Met
  <2>4. pc'[r] = "arnoldi" => PlaceInv(r)'
    BY <1>3, <1>6, <2>1, <2>2, <2>3 DEF PlaceInv
  <2> QED
    BY <1>0, <1>2, <1>3, <1>4, <1>6, <2>2, <2>4, LocalFrame DEF LocalInv, TypeOK
<1>7. Jlimit(r) \in Int
  BY <1>3 DEF Jlimit
<1> QED
  BY <1>0, <1>3, <1>5, <1>6, <1>7

\* Every step keeps the invariant.
LEMMA LocalStep ==
  ASSUME LocalInv, [Next]_vars
  PROVE  LocalInv'
PROOF
<1>1. ASSUME NEW r \in Ranks, RankStep(r) PROVE LocalInv'
  BY <1>1, EnterLocal, StopInitLocal, ProductLocal, EndLocal, RtransLocal,
    CurvatureLocal, CycleStartLocal, ArnoldiLocal, HijLocal, HnextLocal
  DEF RankStep, CommonStep, CGStep, GMRESStep
<1>2. CASE UNCHANGED vars
  BY <1>2 DEF vars, LocalInv, TypeOK, PlaceInv, Untouched, ReasonHolds, OpenNorm, Met
<1> QED
  BY <1>1, <1>2 DEF Next, Finished

\* A step of a rank is its own: it leaves the variables of the others alone.
LEMMA StepLocal ==
  ASSUME LocalInv, NEW r \in Ranks, RankStep(r), NEW q \in Ranks \ {r}
  PROVE  /\ param' = param
         /\ pc'[q] = pc[q] /\ started'[q] = started[q] /\ reduced'[q] = reduced[q]
         /\ k'[q] = k[q] /\ normr'[q] = normr[q] /\ reason'[q] = reason[q]
         /\ j'[q] = j[q] /\ i'[q] = i[q] /\ finite'[q] = finite[q]
PROOF
<1> USE DEF LocalInv, TypeOK, EnterProduct, EnterReduction, Leave, Product, Reduction,
      CheckResidual, StopLoop
<1>1. CASE Enter(r)
  BY <1>1 DEF Enter
<1>2. CASE StopInit(r)
  BY <1>2 DEF StopInit
<1>3. CASE Verify(r) \/ TrueResidual(r) \/ Error(r)
  BY <1>3 DEF Verify, TrueResidual, Error
<1>4. CASE Initial(r) \/ Apply(r)
  BY <1>4 DEF Initial, Apply
<1>5. CASE Rtrans(r)
  BY <1>5 DEF Rtrans, LoopTest
<1>6. CASE Curvature(r)
  BY <1>6 DEF Curvature
<1>7. CASE Residual(r) \/ Arnoldi(r)
  BY <1>7 DEF Residual, Arnoldi
<1>8. CASE CycleStart(r)
  BY <1>8 DEF CycleStart
<1>9. CASE Hij(r)
  BY <1>9 DEF Hij
<1>10. CASE Hnext(r)
  BY <1>10 DEF Hnext, EndCycle
<1> QED
  BY <1>1, <1>2, <1>3, <1>4, <1>5, <1>6, <1>7, <1>8, <1>9, <1>10
  DEF RankStep, CommonStep, CGStep, GMRESStep

\* Every rank starts outside the solver with nothing measured.
LEMMA LocalInit ==
  ASSUME Init
  PROVE  LocalInv
PROOF
<1>1. TypeOK
  <2>1. result \in Seq((Classes \cup {"nan"}) \X {"regular", "breakdown", "singular"})
    BY DEF Init
  <2>2. 0 \in 0 .. param.itermax
    BY ParamFacts DEF Init
  <2> QED
    BY <2>1, <2>2 DEF Init, TypeOK
<1>2. ASSUME NEW r \in Ranks PROVE PlaceInv(r)
  BY DEF Init, PlaceInv, Untouched
<1> QED
  BY <1>1, <1>2 DEF LocalInv

\* What a rank's variables are at each place, in every reachable state.
THEOREM LocalInvariant == Spec => []LocalInv
PROOF
<1> QED
  BY LocalInit, LocalStep, PTL DEF Spec

\* The types; in particular no rank counts more than itermax iterations.
THEOREM TypeCorrect == Spec => []TypeOK
PROOF
<1>1. LocalInv => TypeOK
  BY DEF LocalInv
<1> QED
  BY <1>1, LocalInvariant, PTL

\* Every Arnoldi column and every vector it is made orthogonal to lies inside the
\* restart + 1 vectors of V, and is one of the itermax iterations (gmresOrthoMGS).
THEOREM ColumnsAlwaysFit == Spec => []ColumnsFit
PROOF
<1>1. ASSUME LocalInv PROVE ColumnsFit
  <2>1. ASSUME NEW r \in Ranks, pc[r] \in {"arnoldi", "hij", "hnext"}
        PROVE  /\ j[r] + 1 <= param.restart
               /\ k[r] + j[r] + 1 <= param.itermax
               /\ pc[r] = "hij" => i[r] <= j[r]
    <3>1. /\ k[r] + j[r] < param.itermax /\ j[r] < param.restart
          /\ pc[r] = "hij" => i[r] <= j[r]
      BY <1>1, <2>1 DEF LocalInv, PlaceInv
    <3>2. /\ k[r] \in Nat /\ j[r] \in Nat
          /\ param.itermax \in Nat /\ param.restart \in Int
      BY <1>1, ParamFacts DEF LocalInv, TypeOK
    <3> QED
      BY <3>1, <3>2
  <2> QED
    BY <2>1 DEF ColumnsFit
<1> QED
  BY <1>1, LocalInvariant, PTL

-----------------------------------------------------------------------------
(* Each rank keeps what SolverContract promises.                           *)

\* SolverContract as it reads for rank r.
LEMMA ContractOf ==
  ASSUME NEW r \in Ranks
  PROVE  /\ C(r)!vars = <<param, Iterations(r), normr[r], Reported(r)>>
         /\ C(r)!Init <=> Iterations(r) = 0 /\ normr[r] = None /\ Reported(r) = None
         /\ C(r)!Open <=> OpenNorm(normr[r]) /\ Iterations(r) < param.itermax
PROOF
<1> QED
  BY DEF C!vars, C!Init, C!Open, C!Met, OpenNorm, Met

\* A norm taken where the contract has none, or before the next test, measures.
LEMMA ContractMeasure ==
  ASSUME NEW r \in Ranks, Reported(r) = None,
         normr[r] = None \/ (param.solver = "GMRES" /\ C(r)!Open),
         normr'[r] \in Classes,
         param' = param, Iterations(r)' = Iterations(r), Reported(r)' = Reported(r)
  PROVE  C(r)!Next
PROOF
<1> QED
  BY DEF C!Next, C!Measure, C!Norms, Classes

\* One more iteration, with the test still open, iterates.
LEMMA ContractIterate ==
  ASSUME NEW r \in Ranks, Reported(r) = None, C(r)!Open,
         Iterations(r)' = Iterations(r) + 1, normr'[r] \in Classes \cup {"nan"},
         param' = param, Reported(r)' = Reported(r)
  PROVE  C(r)!Next
PROOF
<1> QED
  BY DEF C!Next, C!Iterate, C!Norms, Classes

\* A reason reported while it holds stops.
LEMMA ContractStop ==
  ASSUME NEW r \in Ranks, Reported(r) = None, NEW why \in Reasons,
         C(r)!StopsFor(why), Reported(r)' = why,
         param' = param, Iterations(r)' = Iterations(r), normr'[r] = normr[r]
  PROVE  C(r)!Next
PROOF
<1> QED
  BY DEF C!Next, C!Stop, Reasons

\* A step of another rank is none of rank r's.
LEMMA ContractElsewhere ==
  ASSUME NEW q \in Ranks, param' = param, pc'[q] = pc[q], k'[q] = k[q],
         j'[q] = j[q], normr'[q] = normr[q], reason'[q] = reason[q]
  PROVE  UNCHANGED C(q)!vars
PROOF
<1> QED
  BY DEF C!vars, Iterations, Reported

\* Only Rtrans, CycleStart, Hnext and the end of the run change what the contract sees.
LEMMA ContractStutter ==
  ASSUME LocalInv, NEW r \in Ranks,
         Enter(r) \/ Verify(r) \/ Initial(r) \/ Apply(r) \/ Residual(r) \/ Arnoldi(r)
           \/ Hij(r) \/ Error(r) \/ Curvature(r)
  PROVE  UNCHANGED C(r)!vars
PROOF
<1>1. pc \in [Ranks -> Places] /\ k[r] \in Nat /\ j[r] \in Nat /\ k \in [Ranks -> 0 .. param.itermax]
  BY ParamFacts DEF LocalInv, TypeOK, Places
<1>2. CASE Enter(r)
  <2>1. pc[r] = "enter" /\ pc'[r] \in {"normb", "aborted"}
    BY <1>1, <1>2 DEF Enter, Leave, EnterReduction
  <2>2. UNCHANGED <<param, k, normr, reason, j>>
    BY <1>2 DEF Enter
  <2> QED
    BY <2>1, <2>2 DEF C!vars, Iterations, Reported
<1>3. CASE Verify(r) \/ Initial(r) \/ Apply(r) \/ Residual(r) \/ Arnoldi(r)
  <2>1. /\ pc[r] \in {"verify", "initial", "apply", "residual", "arnoldi"}
        /\ pc'[r] \in {"true", "rtrans", "pAp", "norm", "hij"}
        /\ pc'[r] = "rtrans" => pc[r] = "initial"
    BY <1>1, <1>3
    DEF Verify, Initial, Apply, Residual, Arnoldi, Product, EnterReduction
  <2>2. UNCHANGED <<param, k, normr, reason, j>>
    BY <1>3 DEF Verify, Initial, Apply, Residual, Arnoldi, Product
  <2>3. pc[r] = "initial" => k[r] = 0
    BY DEF LocalInv, PlaceInv, Untouched
  <2> QED
    BY <2>1, <2>2, <2>3 DEF C!vars, Iterations, Reported
<1>4. CASE Hij(r)
  <2>1. pc[r] = "hij" /\ pc'[r] \in {"hij", "hnext"}
    BY <1>1, <1>4 DEF Hij, Reduction, EnterReduction
  <2>2. UNCHANGED <<param, k, normr, reason, j>>
    BY <1>4 DEF Hij, Reduction
  <2> QED
    BY <2>1, <2>2 DEF C!vars, Iterations, Reported
<1>5. CASE Error(r)
  <2>1. pc[r] = "error" /\ pc'[r] = "done"
    BY <1>1, <1>5 DEF Error, Reduction, Leave
  <2>2. UNCHANGED <<param, k, normr, reason, j>>
    BY <1>5 DEF Error, Reduction
  <2> QED
    BY <2>1, <2>2 DEF C!vars, Iterations, Reported
<1>6. CASE Curvature(r)
  <2>1. /\ pc[r] = "pAp"
        /\ UNCHANGED <<param, normr, reason, j>>
        /\ \/ pc'[r] = "aborted" /\ k'[r] = k[r]
           \/ pc'[r] = "rtrans" /\ k'[r] = k[r] + 1
    BY <1>1, <1>6 DEF Curvature, Reduction, Leave, EnterReduction
  <2> QED
    BY <1>1, <2>1 DEF C!vars, Iterations, Reported
<1> QED
  BY <1>2, <1>3, <1>4, <1>5, <1>6

\* A zero right-hand side is the first thing that can stop a solver.
LEMMA StopInitKeeps ==
  ASSUME LocalInv, NEW r \in Ranks, StopInit(r)
  PROVE  [C(r)!Next]_(C(r)!vars)
PROOF
<1>1. /\ pc[r] = "normb" /\ UNCHANGED <<param, k, normr, j>>
      /\ \/ reason'[r] = "ZERO_RHS" /\ pc'[r] \in {"error", "done"}
         \/ reason'[r] = reason[r] /\ pc'[r] \in {"initial", "residual"}
  BY DEF StopInit, Reduction, CheckResidual, EnterReduction, Leave, EnterProduct,
    LocalInv, TypeOK
<1>2. k[r] = 0 /\ normr[r] = None /\ j[r] = 0
  BY <1>1 DEF LocalInv, PlaceInv, Untouched
<1>3. Iterations(r) = 0 /\ Iterations(r)' = 0 /\ Reported(r) = None
  BY <1>1, <1>2 DEF Iterations, Reported
<1>4. CASE reason'[r] = "ZERO_RHS" /\ pc'[r] \in {"error", "done"}
  <2>1. C(r)!StopsFor("ZERO_RHS")
    BY <1>2, <1>3 DEF C!StopsFor
  <2>2. Reported(r)' = "ZERO_RHS"
    BY <1>4 DEF Reported
  <2> QED
    BY <1>1, <1>3, <2>1, <2>2, ContractStop DEF Reasons
<1>5. CASE reason'[r] = reason[r] /\ pc'[r] \in {"initial", "residual"}
  <2>1. Reported(r)' = None
    BY <1>5 DEF Reported
  <2> QED
    BY <1>1, <1>3, <2>1 DEF C!vars
<1> QED
  BY <1>1, <1>4, <1>5

\* The norm of r'r is the first one or that of the iteration Curvature counted.
LEMMA RtransKeeps ==
  ASSUME LocalInv, NEW r \in Ranks, Rtrans(r)
  PROVE  C(r)!Next
PROOF
<1>1. /\ pc[r] = "rtrans" /\ UNCHANGED <<param, k, j>>
      /\ normr'[r] \in Classes
      /\ pc'[r] \in {"verify", "apply"}
  BY DEF Rtrans, Residuals, Reduction, LoopTest, StopLoop, EnterProduct, LocalInv, TypeOK, Classes
<1>2. /\ (Untouched(r) \/ (k[r] > 0 /\ OpenNorm(normr[r]))) /\ j[r] = 0
      /\ k[r] \in 0 .. param.itermax /\ param.itermax \in Nat
  BY <1>1, ParamFacts DEF LocalInv, PlaceInv, TypeOK
<1>3. Reported(r) = None /\ Reported(r)' = None
  BY <1>1 DEF Reported
<1>4. CASE Untouched(r)
  <2>1. Iterations(r)' = Iterations(r)
    BY <1>1, <1>4 DEF Iterations, Untouched
  <2> QED
    BY <1>1, <1>3, <1>4, <2>1, ContractMeasure DEF Untouched
<1>5. CASE k[r] > 0 /\ OpenNorm(normr[r])
  <2>1. j[r] = 0
    BY <1>1 DEF LocalInv, PlaceInv
  <2>2. Iterations(r) = k[r] - 1 /\ Iterations(r)' = k[r]
    BY <1>1, <1>2, <1>5, <2>1 DEF Iterations
  <2>3. C(r)!Open
    BY <1>2, <1>5, <2>2, ContractOf
  <2> QED
    BY <1>1, <1>2, <1>3, <2>2, <2>3, ContractIterate
<1> QED
  BY <1>2, <1>4, <1>5

\* A cycle starts from a residual of its own.
LEMMA CycleStartKeeps ==
  ASSUME LocalInv, NEW r \in Ranks, CycleStart(r)
  PROVE  C(r)!Next
PROOF
<1>1. /\ pc[r] = "norm" /\ UNCHANGED <<param, k, j>>
      /\ normr'[r] \in Classes
      /\ pc'[r] \in {"verify", "arnoldi"}
  BY DEF CycleStart, Residuals, Reduction, StopLoop, EnterProduct, LocalInv, TypeOK, Classes
<1>2. /\ Untouched(r) \/ (OpenNorm(normr[r]) /\ k[r] < param.itermax)
      /\ param.solver = "GMRES" /\ j[r] = 0 /\ k[r] \in Nat
  BY <1>1, ParamFacts DEF LocalInv, PlaceInv, TypeOK
<1>3. Reported(r) = None /\ Reported(r)' = None
  BY <1>1 DEF Reported
<1>4. Iterations(r) = k[r] /\ Iterations(r)' = k[r]
  BY <1>1, <1>2 DEF Iterations
<1>5. normr[r] = None \/ C(r)!Open
  BY <1>2, <1>4, ContractOf DEF Untouched
<1> QED
  BY <1>1, <1>2, <1>3, <1>4, <1>5, ContractMeasure

\* Every column is an iteration, whether its cycle goes on or not.
LEMMA HnextKeeps ==
  ASSUME LocalInv, NEW r \in Ranks, Hnext(r)
  PROVE  C(r)!Next
PROOF
<1>1. PICK v \in ColumnResults :
        /\ Reduction(r, "hnext", v)
        /\ normr' = [normr EXCEPT ![r] = v[1]]
        /\ IF v[2] # "regular" \/ Met(v[1]) \/ j[r] + 1 = Jlimit(r)
           THEN EndCycle(r, v[1], v[2], k[r] + j[r] + 1)
           ELSE /\ j' = [j EXCEPT ![r] = @ + 1]
                /\ EnterProduct(r, "arnoldi")
                /\ UNCHANGED <<k, reason, finite>>
  BY DEF Hnext
<1>2. pc[r] = "hnext" /\ param' = param
  BY <1>1 DEF Reduction
<1>3. /\ pc \in [Ranks -> Places]
      /\ k \in [Ranks -> 0 .. param.itermax] /\ j \in [Ranks -> 0 .. param.itermax]
      /\ k[r] \in Nat /\ j[r] \in Nat
      /\ OpenNorm(normr[r]) /\ k[r] + j[r] < param.itermax
  BY <1>2, ParamFacts DEF LocalInv, PlaceInv, TypeOK, Places
<1>4. normr'[r] \in Classes \cup {"nan"}
  BY <1>1 DEF ColumnResults, Classes, LocalInv, TypeOK
<1>5. /\ pc'[r] \in {"verify", "residual", "arnoldi"}
      /\ k'[r] \in Int /\ j'[r] \in Int
      /\ k'[r] + j'[r] = k[r] + j[r] + 1
  <2>1. CASE EndCycle(r, v[1], v[2], k[r] + j[r] + 1)
    BY <1>3, <2>1 DEF EndCycle, StopLoop, EnterProduct
  <2>2. CASE /\ j' = [j EXCEPT ![r] = @ + 1]
             /\ EnterProduct(r, "arnoldi") /\ k' = k
    BY <1>3, <2>2 DEF EnterProduct
  <2> QED
    BY <1>1, <2>1, <2>2
<1>6. Reported(r) = None /\ Reported(r)' = None
  BY <1>2, <1>5 DEF Reported
<1>7. Iterations(r) = k[r] + j[r] /\ Iterations(r)' = k'[r] + j'[r]
  BY <1>2, <1>3, <1>5 DEF Iterations
<1>8. C(r)!Open
  BY <1>3, <1>7, ContractOf
<1> QED
  BY <1>2, <1>4, <1>5, <1>6, <1>7, <1>8, ContractIterate

\* The reason is reported after the true residual; it still holds then.
LEMMA TrueResidualKeeps ==
  ASSUME LocalInv, NEW r \in Ranks, TrueResidual(r)
  PROVE  C(r)!Next
PROOF
<1>1. /\ pc[r] = "true" /\ UNCHANGED <<param, k, j, normr, reason>>
      /\ pc'[r] \in {"error", "done"}
  BY DEF TrueResidual, Reduction, CheckResidual, EnterReduction, Leave, LocalInv, TypeOK
<1>2. /\ ReasonHolds(r) /\ j[r] = 0 /\ k[r] \in Nat
      /\ reason[r] \in Reasons
  BY <1>1, ParamFacts DEF LocalInv, PlaceInv, TypeOK, ReasonHolds, Reasons
<1>3. Iterations(r) = k[r] /\ Iterations(r)' = k[r]
  BY <1>1, <1>2 DEF Iterations
<1>4. Reported(r) = None /\ Reported(r)' = reason[r]
  BY <1>1 DEF Reported
<1>5. C(r)!StopsFor(reason[r])
  BY <1>2, <1>3 DEF C!StopsFor, C!Met, Met, ReasonHolds, OpenNorm
<1> QED
  BY <1>1, <1>2, <1>3, <1>4, <1>5, ContractStop

\* Every step of the ranks is, for each of them, one of the contract or none.
LEMMA ContractStep ==
  ASSUME LocalInv, [Next]_vars
  PROVE  \A r \in Ranks : [C(r)!Next]_(C(r)!vars)
PROOF
<1> SUFFICES ASSUME NEW q \in Ranks PROVE [C(q)!Next]_(C(q)!vars)
  OBVIOUS
<1>1. ASSUME NEW r \in Ranks, RankStep(r), q # r PROVE UNCHANGED C(q)!vars
  <2>1. /\ param' = param /\ pc'[q] = pc[q] /\ k'[q] = k[q]
        /\ j'[q] = j[q] /\ normr'[q] = normr[q] /\ reason'[q] = reason[q]
    BY <1>1, StepLocal
  <2> QED
    BY <2>1, ContractElsewhere
<1>2. ASSUME RankStep(q) PROVE [C(q)!Next]_(C(q)!vars)
  BY <1>2, ContractStutter, StopInitKeeps, RtransKeeps, CycleStartKeeps, HnextKeeps,
    TrueResidualKeeps
  DEF RankStep, CommonStep, CGStep, GMRESStep
<1>3. ASSUME UNCHANGED vars PROVE UNCHANGED C(q)!vars
  BY <1>3, ContractElsewhere DEF vars
<1> QED
  BY <1>1, <1>2, <1>3 DEF Next, Finished

\* A rank outside its solver has promised nothing.
LEMMA ContractInit ==
  ASSUME Init, NEW r \in Ranks
  PROVE  C(r)!Init
PROOF
<1> QED
  BY ContractOf DEF Init, Iterations, Reported

\* Refinement: every rank, by itself, is a solver as SolverContract describes it.  It
\* never begins an iteration after a reason to stop, and what it puts into
\* SolverResult is a reason that held, with the iterations done.
THEOREM ContractKept == Spec => RanksKeepContract
PROOF
<1>1. Init => \A r \in Ranks : C(r)!Init
  BY ContractInit
<1>2. LocalInv /\ [Next]_vars => [\A r \in Ranks : [C(r)!Next]_(C(r)!vars)]_vars
  BY ContractStep
<1> QED
  BY <1>1, <1>2, LocalInvariant, PTL DEF Spec, RanksKeepContract

-----------------------------------------------------------------------------
(* All ranks are on one path.  Where a rank goes from a collective is a    *)
(* function of its own variables and of what the collective returned:      *)
(* After and Through below are the actions in that form.                   *)

\* The variables of one rank.
State(r) ==
  [pc |-> pc[r], started |-> started[r], reduced |-> reduced[r], k |-> k[r],
   normr |-> normr[r], reason |-> reason[r], j |-> j[r], i |-> i[r], finite |-> finite[r]]

\* The tolerance test of parameter set p on a norm.
MetBy(p, n) == p.tolerance /\ n \in {"zero", "below"}

\* A restart cycle ends with this column.
CycleEnds(p, s, v) ==
  \/ v[2] # "regular" \/ MetBy(p, v[1])
  \/ s.j + 1 = IF s.k + p.restart <= p.itermax THEN p.restart ELSE p.itermax - s.k

\* The reason of the loop tests, None if the loop goes on.
LoopReason(p, s, n) ==
  IF n = "zero" THEN "EXACT" ELSE IF MetBy(p, n) THEN "CONVERGED"
  ELSE IF s.pc = "rtrans" /\ s.k = p.itermax THEN "ITERMAX" ELSE None

\* Why the solve stops with this column, if it does.
CycleReason(p, s, v) ==
  IF v[2] # "regular" THEN "BREAKDOWN" ELSE IF MetBy(p, v[1]) THEN "CONVERGED"
  ELSE IF s.k + s.j + 1 < p.itermax THEN None ELSE "ITERMAX"

\* The reason once reduction v has returned to a rank in state s.
ReasonAfter(p, s, v) ==
  CASE s.pc = "normb" /\ v[1] = "zero" -> "ZERO_RHS"
    [] s.pc \in {"rtrans", "norm"} /\ LoopReason(p, s, v[1]) # None -> LoopReason(p, s, v[1])
    [] s.pc = "hnext" /\ CycleEnds(p, s, v) /\ CycleReason(p, s, v) # None -> CycleReason(p, s, v)
    [] OTHER -> s.reason

\* Where a solve without verification ends.
Last(p) == IF p.exact THEN "error" ELSE "done"

\* Where a rank is after the reduction.
PcAfter(p, s, v) ==
  CASE s.pc = "normb" -> IF v[1] = "zero" THEN Last(p)
                         ELSE IF p.solver = "CG" THEN "initial" ELSE "residual"
    [] s.pc = "rtrans" -> IF LoopReason(p, s, v[1]) # None THEN "verify" ELSE "apply"
    [] s.pc = "pAp" -> IF v[1] = "zero" THEN "aborted" ELSE "rtrans"
    [] s.pc = "norm" -> IF LoopReason(p, s, v[1]) # None THEN "verify" ELSE "arnoldi"
    [] s.pc = "hij" -> IF s.i < s.j THEN "hij" ELSE "hnext"
    [] s.pc = "hnext" -> IF ~CycleEnds(p, s, v) THEN "arnoldi"
                         ELSE IF CycleReason(p, s, v) # None THEN "verify" ELSE "residual"
    [] s.pc = "true" -> Last(p)
    [] s.pc = "error" -> "done"

\* A rank in state s, when the reduction it is in has returned v.
After(p, s, v) ==
  [pc      |-> PcAfter(p, s, v),
   started |-> IF PcAfter(p, s, v) \in Products THEN s.started + 1 ELSE s.started,
   reduced |-> IF PcAfter(p, s, v) \in Reductions THEN s.reduced + 1 ELSE s.reduced,
   k       |-> IF s.pc = "pAp" /\ v[1] # "zero" THEN s.k + 1
               ELSE IF s.pc = "hnext" /\ CycleEnds(p, s, v) THEN s.k + s.j + 1 ELSE s.k,
   normr   |-> IF s.pc \in {"rtrans", "norm", "hnext"} THEN v[1] ELSE s.normr,
   reason  |-> ReasonAfter(p, s, v),
   j       |-> IF s.pc # "hnext" THEN s.j ELSE IF CycleEnds(p, s, v) THEN 0 ELSE s.j + 1,
   i       |-> IF s.pc = "hij" THEN s.i + 1 ELSE s.i,
   finite  |-> IF s.pc = "hnext" /\ CycleEnds(p, s, v)
               THEN s.finite /\ v[2] # "singular" ELSE s.finite]

\* Where a rank is after its matrix product.
PcThrough(s) ==
  CASE s.pc = "initial" -> "rtrans" [] s.pc = "apply" -> "pAp" [] s.pc = "residual" -> "norm"
    [] s.pc = "arnoldi" -> "hij"    [] s.pc = "verify" -> "true"

\* A rank in state s, when its matrix product is done.
Through(s) ==
  [pc |-> PcThrough(s), started |-> s.started, reduced |-> s.reduced + 1, k |-> s.k,
   normr |-> s.normr, reason |-> s.reason, j |-> s.j,
   i |-> IF s.pc = "arnoldi" THEN 0 ELSE s.i, finite |-> s.finite]

\* A rank in state s, when it enters the solver and is not turned away.
Entered(s) ==
  [pc |-> "normb", started |-> s.started, reduced |-> s.reduced + 1, k |-> s.k,
   normr |-> s.normr, reason |-> s.reason, j |-> s.j, i |-> s.i, finite |-> s.finite]

\* A rank in state t has gone from s through one reduction at most.
Ahead(p, res, s, t) ==
  \/ s.pc = "enter" /\ t = Entered(s)
  \/ s.pc \in Products /\ t = Through(s)
  \/ /\ s.pc \in Reductions /\ s.reduced <= Len(res)
     /\ LET out == After(p, s, res[s.reduced])
        IN  t = out \/ (out.pc \in Products /\ t = Through(out))

\* One of two ranks is where the other is or has been.
OnePath(p, res, s, t) == s = t \/ Ahead(p, res, s, t) \/ Ahead(p, res, t, s)

\* No rank is more than one reduction ahead of the results; one that waits in none
\* has been through all of them.
CountInv ==
  \A r \in Ranks :
    /\ reduced[r] \in Len(result) .. Len(result) + 1
    /\ pc[r] \notin Reductions => reduced[r] = Len(result)
    /\ pc[r] = "enter" => reduced[r] = 0
    /\ pc[r] \in Reductions => reduced[r] > 0

\* All ranks are on one path through the solver.
PathInv == Running => \A q, r \in Ranks : OnePath(param, result, State(q), State(r))

\* The inductive invariant.
StepInv == LocalInv /\ CountInv /\ PathInv

\* What the reduction a rank in state s is in may return.
Returns(s) ==
  CASE s.pc \in {"normb", "pAp"} -> {Scalar(n) : n \in {"zero", "above"}}
    [] s.pc \in {"rtrans", "norm"} ->
         {Scalar(n) : n \in IF s.k = 0 THEN {"below", "above"} ELSE Classes}
    [] s.pc = "hnext" -> ColumnResults
    [] OTHER -> {Scalar("above")}

\* A step of rank r leaves a reduction that returned v.
Leaves(r, v) ==
  /\ \E s \in Reductions : Reduction(r, s, v)
  /\ v \in Returns(State(r))
  /\ State(r)' = After(param, State(r), v)

\* The counts are those of the place entered.
Counted(r) ==
  /\ started'[r] = IF pc'[r] \in Products THEN started[r] + 1 ELSE started[r]
  /\ reduced'[r] = IF pc'[r] \in Reductions THEN reduced[r] + 1 ELSE reduced[r]

\* The record State bundles a rank's variables.
LEMMA StateFields ==
  ASSUME NEW r \in Ranks
  PROVE  /\ State(r).pc = pc[r] /\ State(r).started = started[r]
         /\ State(r).reduced = reduced[r] /\ State(r).k = k[r]
         /\ State(r).normr = normr[r] /\ State(r).reason = reason[r]
         /\ State(r).j = j[r] /\ State(r).i = i[r] /\ State(r).finite = finite[r]
PROOF
<1> QED
  BY DEF State

\* Leaving a reduction is After, reduction by reduction; here solverStopInit's.
LEMMA StopInitLeaves ==
  ASSUME LocalInv, NEW r \in Ranks, StopInit(r)
  PROVE  \E v : Leaves(r, v)
PROOF
<1>0. PICK n \in {"zero", "above"} :
        /\ Reduction(r, "normb", Scalar(n))
        /\ IF n = "zero"
           THEN /\ reason' = [reason EXCEPT ![r] = "ZERO_RHS"]
                /\ CheckResidual(r)
           ELSE /\ EnterProduct(r, IF param.solver = "CG" THEN "initial" ELSE "residual")
                /\ UNCHANGED reason
        /\ UNCHANGED <<k, normr, j, i, finite>>
  BY DEF StopInit
<1> DEFINE s == State(r)  v == Scalar(n)
<1>1. /\ s.pc = "normb" /\ s.started = started[r] /\ s.reduced = reduced[r]
      /\ s.k = k[r] /\ s.normr = normr[r] /\ s.reason = reason[r]
      /\ s.j = j[r] /\ s.i = i[r] /\ s.finite = finite[r]
      /\ v[1] = n
  BY <1>0, StateFields DEF Reduction, Scalar
<1>2. v \in Returns(s)
  BY <1>0, <1>1 DEF Returns, Residuals
<1> HIDE DEF s, v
<1>3. pc'[r] = PcAfter(param, s, v) /\ reason'[r] = ReasonAfter(param, s, v)
  BY <1>0, <1>1 DEF PcAfter, ReasonAfter, Last, CheckResidual, EnterReduction, Leave,
    EnterProduct, LocalInv, TypeOK
<1>4. Counted(r)
  BY <1>0 DEF Counted, CheckResidual, EnterReduction, Leave, EnterProduct, LocalInv,
    TypeOK, Products, Reductions
<1>5. State(r)' = After(param, s, v)
  BY <1>0, <1>1, <1>3, <1>4 DEF State, After, Counted
<1> QED
  BY <1>0, <1>1, <1>2, <1>5 DEF Leaves, s, v, Reductions

\* The same for the verified residual of either solver.
LEMMA TrueResidualLeaves ==
  ASSUME LocalInv, NEW r \in Ranks, TrueResidual(r)
  PROVE  \E v : Leaves(r, v)
PROOF
<1>0. /\ Reduction(r, "true", Scalar("above")) /\ CheckResidual(r)
      /\ UNCHANGED <<k, normr, reason, j, i, finite>>
  BY DEF TrueResidual
<1> DEFINE s == State(r)  v == Scalar("above")
<1>1. /\ s.pc = "true" /\ s.started = started[r] /\ s.reduced = reduced[r]
      /\ s.k = k[r] /\ s.normr = normr[r] /\ s.reason = reason[r]
      /\ s.j = j[r] /\ s.i = i[r] /\ s.finite = finite[r]
  BY <1>0, StateFields DEF Reduction, Scalar
<1>2. v \in Returns(s)
  BY <1>0, <1>1 DEF Returns, Residuals
<1> HIDE DEF s, v
<1>3. pc'[r] = PcAfter(param, s, v) /\ reason'[r] = ReasonAfter(param, s, v)
  BY <1>0, <1>1 DEF PcAfter, ReasonAfter, Last, CheckResidual, EnterReduction, Leave, LocalInv, TypeOK
<1>4. Counted(r)
  BY <1>0 DEF Counted, CheckResidual, EnterReduction, Leave, LocalInv, TypeOK, Products, Reductions
<1>5. /\ k'[r] = s.k /\ normr'[r] = s.normr
      /\ j'[r] = s.j /\ i'[r] = s.i /\ finite'[r] = s.finite
  BY <1>0, <1>1 DEF LocalInv, TypeOK
<1>6. State(r)' = After(param, s, v)
  BY <1>1, <1>3, <1>4, <1>5 DEF State, After, Counted
<1> QED
  BY <1>0, <1>1, <1>2, <1>6 DEF Leaves, s, v, Reductions

\* The same for the error norm, the last reduction of a solve.
LEMMA ErrorLeaves ==
  ASSUME LocalInv, NEW r \in Ranks, Error(r)
  PROVE  \E v : Leaves(r, v)
PROOF
<1>0. /\ Reduction(r, "error", Scalar("above")) /\ Leave(r, "done")
      /\ UNCHANGED <<k, normr, reason, j, i, finite>>
  BY DEF Error
<1> DEFINE s == State(r)  v == Scalar("above")
<1>1. /\ s.pc = "error" /\ s.started = started[r] /\ s.reduced = reduced[r]
      /\ s.k = k[r] /\ s.normr = normr[r] /\ s.reason = reason[r]
      /\ s.j = j[r] /\ s.i = i[r] /\ s.finite = finite[r]
  BY <1>0, StateFields DEF Reduction, Scalar
<1>2. v \in Returns(s)
  BY <1>0, <1>1 DEF Returns, Residuals
<1> HIDE DEF s, v
<1>3. pc'[r] = PcAfter(param, s, v) /\ reason'[r] = ReasonAfter(param, s, v)
  BY <1>0, <1>1 DEF PcAfter, ReasonAfter, Leave, LocalInv, TypeOK
<1>4. Counted(r)
  BY <1>0 DEF Counted, Leave, LocalInv, TypeOK, Products, Reductions
<1>5. /\ k'[r] = s.k /\ normr'[r] = s.normr
      /\ j'[r] = s.j /\ i'[r] = s.i /\ finite'[r] = s.finite
  BY <1>0, <1>1 DEF LocalInv, TypeOK
<1>6. State(r)' = After(param, s, v)
  BY <1>1, <1>3, <1>4, <1>5 DEF State, After, Counted
<1> QED
  BY <1>0, <1>1, <1>2, <1>6 DEF Leaves, s, v, Reductions

\* The same for CG's residual norm.
LEMMA RtransLeaves ==
  ASSUME LocalInv, NEW r \in Ranks, Rtrans(r)
  PROVE  \E v : Leaves(r, v)
PROOF
<1>0. PICK n \in Residuals(r) :
        /\ Reduction(r, "rtrans", Scalar(n))
        /\ normr' = [normr EXCEPT ![r] = n]
        /\ LoopTest(r, n)
        /\ UNCHANGED <<k, j, i, finite>>
  BY DEF Rtrans
<1> DEFINE s == State(r)  v == Scalar(n)
<1>1. /\ s.pc = "rtrans" /\ s.started = started[r] /\ s.reduced = reduced[r]
      /\ s.k = k[r] /\ s.normr = normr[r] /\ s.reason = reason[r]
      /\ s.j = j[r] /\ s.i = i[r] /\ s.finite = finite[r]
      /\ v[1] = n
  BY <1>0, StateFields DEF Reduction, Scalar
<1>2. v \in Returns(s)
  BY <1>0, <1>1 DEF Returns, Residuals
<1> HIDE DEF s, v
<1>3. pc'[r] = PcAfter(param, s, v) /\ reason'[r] = ReasonAfter(param, s, v)
  BY <1>0, <1>1, ParamsAssumption DEF PcAfter, ReasonAfter, LoopReason, MetBy, Met, LoopTest, StopLoop, EnterProduct, LocalInv, TypeOK
<1>4. Counted(r)
  BY <1>0 DEF Counted, LoopTest, StopLoop, EnterProduct, LocalInv, TypeOK, Products, Reductions
<1>5. /\ k'[r] = s.k /\ normr'[r] = n
      /\ j'[r] = s.j /\ i'[r] = s.i /\ finite'[r] = s.finite
  BY <1>0, <1>1 DEF LocalInv, TypeOK
<1>6. State(r)' = After(param, s, v)
  BY <1>1, <1>3, <1>4, <1>5 DEF State, After, Counted
<1> QED
  BY <1>0, <1>1, <1>2, <1>6 DEF Leaves, s, v, Reductions

\* The same for CG's p.Ap.
LEMMA CurvatureLeaves ==
  ASSUME LocalInv, NEW r \in Ranks, Curvature(r)
  PROVE  \E v : Leaves(r, v)
PROOF
<1>0. PICK n \in {"zero", "above"} :
        /\ Reduction(r, "pAp", Scalar(n))
        /\ IF n = "zero"
           THEN Leave(r, "aborted") /\ UNCHANGED k
           ELSE k' = [k EXCEPT ![r] = @ + 1] /\ EnterReduction(r, "rtrans")
        /\ UNCHANGED <<normr, reason, j, i, finite>>
  BY DEF Curvature
<1> DEFINE s == State(r)  v == Scalar(n)
<1>1. /\ s.pc = "pAp" /\ s.started = started[r] /\ s.reduced = reduced[r]
      /\ s.k = k[r] /\ s.normr = normr[r] /\ s.reason = reason[r]
      /\ s.j = j[r] /\ s.i = i[r] /\ s.finite = finite[r]
      /\ v[1] = n
  BY <1>0, StateFields DEF Reduction, Scalar
<1>2. v \in Returns(s)
  BY <1>0, <1>1 DEF Returns, Residuals
<1> HIDE DEF s, v
<1>3. pc'[r] = PcAfter(param, s, v) /\ reason'[r] = ReasonAfter(param, s, v)
  BY <1>0, <1>1 DEF PcAfter, ReasonAfter, Leave, EnterReduction, LocalInv, TypeOK
<1>4. Counted(r)
  BY <1>0 DEF Counted, Leave, EnterReduction, LocalInv, TypeOK, Products, Reductions
<1>5. /\ k'[r] = (IF n # "zero" THEN s.k + 1 ELSE s.k) /\ normr'[r] = s.normr
      /\ j'[r] = s.j /\ i'[r] = s.i /\ finite'[r] = s.finite
  BY <1>0, <1>1 DEF LocalInv, TypeOK
<1>6. State(r)' = After(param, s, v)
  BY <1>1, <1>3, <1>4, <1>5 DEF State, After, Counted
<1> QED
  BY <1>0, <1>1, <1>2, <1>6 DEF Leaves, s, v, Reductions

\* The same for the norm that starts a GMRES cycle.
LEMMA CycleStartLeaves ==
  ASSUME LocalInv, NEW r \in Ranks, CycleStart(r)
  PROVE  \E v : Leaves(r, v)
PROOF
<1>0. PICK n \in Residuals(r) :
        /\ Reduction(r, "norm", Scalar(n))
        /\ normr' = [normr EXCEPT ![r] = n]
        /\ IF n = "zero" THEN StopLoop(r, "EXACT")
           ELSE IF Met(n) THEN StopLoop(r, "CONVERGED")
           ELSE EnterProduct(r, "arnoldi") /\ UNCHANGED reason
        /\ UNCHANGED <<k, j, i, finite>>
  BY DEF CycleStart
<1> DEFINE s == State(r)  v == Scalar(n)
<1>1. /\ s.pc = "norm" /\ s.started = started[r] /\ s.reduced = reduced[r]
      /\ s.k = k[r] /\ s.normr = normr[r] /\ s.reason = reason[r]
      /\ s.j = j[r] /\ s.i = i[r] /\ s.finite = finite[r]
      /\ v[1] = n
  BY <1>0, StateFields DEF Reduction, Scalar
<1>2. v \in Returns(s)
  BY <1>0, <1>1 DEF Returns, Residuals
<1> HIDE DEF s, v
<1>3. pc'[r] = PcAfter(param, s, v) /\ reason'[r] = ReasonAfter(param, s, v)
  BY <1>0, <1>1, ParamsAssumption DEF PcAfter, ReasonAfter, LoopReason, MetBy, Met, StopLoop, EnterProduct, LocalInv, TypeOK
<1>4. Counted(r)
  BY <1>0 DEF Counted, StopLoop, EnterProduct, LocalInv, TypeOK, Products, Reductions
<1>5. /\ k'[r] = s.k /\ normr'[r] = n
      /\ j'[r] = s.j /\ i'[r] = s.i /\ finite'[r] = s.finite
  BY <1>0, <1>1 DEF LocalInv, TypeOK
<1>6. State(r)' = After(param, s, v)
  BY <1>1, <1>3, <1>4, <1>5 DEF State, After, Counted
<1> QED
  BY <1>0, <1>1, <1>2, <1>6 DEF Leaves, s, v, Reductions

\* The same for a scalar product of the orthogonalisation.
LEMMA HijLeaves ==
  ASSUME LocalInv, NEW r \in Ranks, Hij(r)
  PROVE  \E v : Leaves(r, v)
PROOF
<1>0. /\ Reduction(r, "hij", Scalar("above"))
      /\ i' = [i EXCEPT ![r] = @ + 1]
      /\ EnterReduction(r, IF i[r] < j[r] THEN "hij" ELSE "hnext")
      /\ UNCHANGED <<k, normr, reason, j, finite>>
  BY DEF Hij
<1> DEFINE s == State(r)  v == Scalar("above")
<1>1. /\ s.pc = "hij" /\ s.started = started[r] /\ s.reduced = reduced[r]
      /\ s.k = k[r] /\ s.normr = normr[r] /\ s.reason = reason[r]
      /\ s.j = j[r] /\ s.i = i[r] /\ s.finite = finite[r]
  BY <1>0, StateFields DEF Reduction, Scalar
<1>2. v \in Returns(s)
  BY <1>0, <1>1 DEF Returns, Residuals
<1> HIDE DEF s, v
<1>3. pc'[r] = PcAfter(param, s, v) /\ reason'[r] = ReasonAfter(param, s, v)
  BY <1>0, <1>1 DEF PcAfter, ReasonAfter, EnterReduction, LocalInv, TypeOK
<1>4. Counted(r)
  BY <1>0 DEF Counted, EnterReduction, LocalInv, TypeOK, Products, Reductions
<1>5. /\ k'[r] = s.k /\ normr'[r] = s.normr
      /\ j'[r] = s.j /\ i'[r] = s.i + 1 /\ finite'[r] = s.finite
  BY <1>0, <1>1 DEF LocalInv, TypeOK
<1>6. State(r)' = After(param, s, v)
  BY <1>1, <1>3, <1>4, <1>5 DEF State, After, Counted
<1> QED
  BY <1>0, <1>1, <1>2, <1>6 DEF Leaves, s, v, Reductions

\* The same for the norm that ends an Arnoldi step.
LEMMA HnextLeaves ==
  ASSUME LocalInv, NEW r \in Ranks, Hnext(r)
  PROVE  \E v : Leaves(r, v)
PROOF
<1>0. PICK v \in ColumnResults :
        /\ Reduction(r, "hnext", v)
        /\ normr' = [normr EXCEPT ![r] = v[1]]
        /\ IF v[2] # "regular" \/ Met(v[1]) \/ j[r] + 1 = Jlimit(r)
           THEN EndCycle(r, v[1], v[2], k[r] + j[r] + 1)
           ELSE /\ j' = [j EXCEPT ![r] = @ + 1]
                /\ EnterProduct(r, "arnoldi")
                /\ UNCHANGED <<k, reason, finite>>
        /\ UNCHANGED i
  BY DEF Hnext
<1> DEFINE s == State(r)
<1>1. /\ s.pc = "hnext" /\ s.started = started[r] /\ s.reduced = reduced[r]
      /\ s.k = k[r] /\ s.normr = normr[r] /\ s.reason = reason[r]
      /\ s.j = j[r] /\ s.i = i[r] /\ s.finite = finite[r]
  BY <1>0, StateFields DEF Reduction, Scalar
<1>2. v \in Returns(s)
  BY <1>0, <1>1 DEF Returns, Residuals
<1> HIDE DEF s
<1>3. ASSUME CycleEnds(param, s, v)
      PROVE  /\ pc'[r] = PcAfter(param, s, v) /\ reason'[r] = ReasonAfter(param, s, v)
             /\ k'[r] = s.k + s.j + 1 /\ j'[r] = 0
             /\ finite'[r] = (s.finite /\ v[2] # "singular")
  <2>1. EndCycle(r, v[1], v[2], s.k + s.j + 1)
    BY <1>0, <1>1, <1>3 DEF CycleEnds, MetBy, Met, Jlimit
  <2>2. /\ k' = [k EXCEPT ![r] = s.k + s.j + 1] /\ j' = [j EXCEPT ![r] = 0]
        /\ finite' = [finite EXCEPT ![r] = @ /\ v[2] # "singular"]
    BY <2>1 DEF EndCycle
  <2>3. /\ k'[r] = s.k + s.j + 1 /\ j'[r] = 0
        /\ finite'[r] = (s.finite /\ v[2] # "singular")
    BY <1>1, <2>2 DEF LocalInv, TypeOK
  <2>4. CASE CycleReason(param, s, v) = None
    <3>1. EnterProduct(r, "residual") /\ UNCHANGED reason
      BY <2>1, <2>4, ParamsAssumption DEF EndCycle, CycleReason, MetBy, Met
    <3> QED
      BY <1>1, <1>3, <2>3, <2>4, <3>1
      DEF PcAfter, ReasonAfter, EnterProduct, LocalInv, TypeOK
  <2>5. CASE CycleReason(param, s, v) # None
    <3>1. StopLoop(r, CycleReason(param, s, v))
      BY <2>1, <2>5 DEF EndCycle, CycleReason, MetBy, Met
    <3> QED
      BY <1>1, <1>3, <2>3, <2>5, <3>1
      DEF PcAfter, ReasonAfter, StopLoop, EnterProduct, LocalInv, TypeOK
  <2> QED
    BY <2>4, <2>5
<1>4. ASSUME ~CycleEnds(param, s, v)
      PROVE  /\ pc'[r] = PcAfter(param, s, v) /\ reason'[r] = ReasonAfter(param, s, v)
             /\ k'[r] = s.k /\ j'[r] = s.j + 1 /\ finite'[r] = s.finite
  <2>1. /\ j' = [j EXCEPT ![r] = @ + 1] /\ EnterProduct(r, "arnoldi")
        /\ UNCHANGED <<k, reason, finite>>
    BY <1>0, <1>1, <1>4 DEF CycleEnds, MetBy, Met, Jlimit
  <2> QED
    BY <1>1, <1>4, <2>1 DEF PcAfter, ReasonAfter, EnterProduct, LocalInv, TypeOK
<1>5. Counted(r)
  BY <1>0 DEF Counted, EndCycle, StopLoop, EnterProduct, LocalInv, TypeOK, Products, Reductions
<1>6. normr'[r] = v[1] /\ i'[r] = s.i
  BY <1>0, <1>1 DEF LocalInv, TypeOK
<1>7. State(r)' = After(param, s, v)
  BY <1>1, <1>3, <1>4, <1>5, <1>6 DEF State, After, Counted
<1> QED
  BY <1>0, <1>1, <1>2, <1>7 DEF Leaves, s, Reductions

\* A matrix product takes a rank where Through says.
LEMMA Crosses ==
  ASSUME LocalInv, NEW r \in Ranks,
         Verify(r) \/ Initial(r) \/ Apply(r) \/ Residual(r) \/ Arnoldi(r)
  PROVE  /\ pc[r] \in Products /\ UNCHANGED result
         /\ \A q \in Sources[r] : started[q] >= started[r]
         /\ State(r)' = Through(State(r))
PROOF
<1> DEFINE s == State(r)
<1>1. PICK t \in {"true", "rtrans", "pAp", "norm", "hij"} :
        EnterReduction(r, t) /\ t = PcThrough(s)
  BY StateFields DEF Verify, Initial, Apply, Residual, Arnoldi, Product, PcThrough
<1>2. /\ pc[r] \in Products /\ UNCHANGED result
      /\ \A q \in Sources[r] : started[q] >= started[r]
      /\ UNCHANGED <<k, normr, reason, j, finite>>
      /\ i'[r] = IF pc[r] = "arnoldi" THEN 0 ELSE i[r]
  BY DEF Verify, Initial, Apply, Residual, Arnoldi, Product, Products, LocalInv, TypeOK
<1>3. /\ pc'[r] = PcThrough(s) /\ started'[r] = started[r]
      /\ reduced'[r] = reduced[r] + 1
  BY <1>1 DEF EnterReduction, LocalInv, TypeOK
<1>4. State(r)' = Through(s)
  BY <1>2, <1>3 DEF State, Through
<1> QED
  BY <1>2, <1>4

\* Every step of a rank is one of three: it enters the solver (or is turned away), its
\* product is done, or it leaves a reduction.
LEMMA RankMoves ==
  ASSUME LocalInv, NEW r \in Ranks, RankStep(r)
  PROVE  \/ /\ pc[r] = "enter" /\ UNCHANGED result
            /\ pc'[r] = "aborted" \/ State(r)' = Entered(State(r))
            /\ pc'[r] \in {"normb", "aborted"}
            /\ pc'[r] = "aborted" => UNCHANGED reduced
         \/ /\ pc[r] \in Products /\ UNCHANGED result
            /\ \A q \in Sources[r] : started[q] >= started[r]
            /\ State(r)' = Through(State(r))
         \/ \E v : Leaves(r, v)
PROOF
<1>1. CASE Enter(r)
  <2>1. pc[r] = "enter" /\ UNCHANGED <<result, k, normr, reason, j, i, finite>>
    BY <1>1 DEF Enter
  <2>2. CASE Leave(r, "aborted")
    BY <2>1, <2>2 DEF Leave, LocalInv, TypeOK
  <2>3. CASE EnterReduction(r, "normb")
    <3>1. pc'[r] = "normb" /\ started'[r] = started[r] /\ reduced'[r] = reduced[r] + 1
      BY <2>3 DEF EnterReduction, LocalInv, TypeOK
    <3>2. State(r)' = Entered(State(r))
      BY <2>1, <3>1 DEF State, Entered
    <3> QED
      BY <2>1, <3>1, <3>2
  <2> QED
    BY <1>1, <2>2, <2>3 DEF Enter
<1> QED
  BY <1>1, Crosses, StopInitLeaves, TrueResidualLeaves, ErrorLeaves, RtransLeaves,
    CurvatureLeaves, CycleStartLeaves, HijLeaves, HnextLeaves
  DEF RankStep, CommonStep, CGStep, GMRESStep

\* What After, Through and Entered do to the counts.
States ==
  [pc : Places, started : Nat, reduced : Nat, k : Nat, normr : Classes \cup {"nan", None},
   reason : Reasons \cup {None}, j : Nat, i : Nat, finite : BOOLEAN]

\* A rank's bundle has the types of its variables.
LEMMA StateTyped ==
  ASSUME LocalInv, NEW r \in Ranks
  PROVE  State(r) \in States
PROOF
<1>1. param.itermax \in Nat
  BY ParamFacts DEF LocalInv, TypeOK
<1> QED
  BY <1>1 DEF LocalInv, TypeOK, States, State, Places

\* Past a reduction a rank has left, or is in the next product or reduction.
LEMMA AfterCounts ==
  ASSUME NEW p, NEW s \in States, NEW v, s.pc \in Reductions
  PROVE  LET t == After(p, s, v)
         IN  \/ t.pc \in {"done", "aborted"} /\ t.started = s.started /\ t.reduced = s.reduced
             \/ t.pc \in Products /\ t.started = s.started + 1 /\ t.reduced = s.reduced
             \/ t.pc \in Reductions /\ t.started = s.started /\ t.reduced = s.reduced + 1
PROOF
<1>1. After(p, s, v).pc = PcAfter(p, s, v)
  BY DEF After
<1>2. PcAfter(p, s, v) \in {"done", "aborted"} \cup Products \cup Reductions
  BY DEF PcAfter, Last, Products, Reductions
<1>3. /\ {"done", "aborted"} \cap (Products \cup Reductions) = {}
      /\ Products \cap Reductions = {}
  BY DEF Products, Reductions
<1>4. /\ After(p, s, v).started = IF PcAfter(p, s, v) \in Products THEN s.started + 1 ELSE s.started
      /\ After(p, s, v).reduced = IF PcAfter(p, s, v) \in Reductions THEN s.reduced + 1 ELSE s.reduced
  BY DEF After
<1> QED
  BY <1>1, <1>2, <1>3, <1>4

\* Past a product a rank is in the next reduction.
LEMMA ThroughCounts ==
  ASSUME NEW s, s.pc \in Products
  PROVE  /\ Through(s).pc \in Reductions
         /\ Through(s).started = s.started /\ Through(s).reduced = s.reduced + 1
PROOF
<1>1. PcThrough(s) \in Reductions
  BY DEF PcThrough, Products, Reductions
<1> QED
  BY <1>1 DEF Through

\* Products, reductions and the places outside them are apart.
LEMMA Disjoint ==
  /\ "enter" \notin Products \cup Reductions
  /\ "done" \notin Products \cup Reductions
  /\ "aborted" \notin Products \cup Reductions
  /\ Products \cap Reductions = {}
  /\ "normb" \in Reductions
PROOF
<1> QED
  BY DEF Products, Reductions

\* A rank cannot be behind one that has entered as few reductions.
LEMMA NotBehind ==
  ASSUME NEW p, NEW res, NEW s \in States, NEW u \in States,
         s.pc \in Reductions, u.reduced >= s.reduced
  PROVE  ~Ahead(p, res, u, s)
PROOF
<1>0. s.reduced \in Nat /\ u.reduced \in Nat
  BY DEF States
<1>1. ASSUME u.pc = "enter", s = Entered(u) PROVE FALSE
  BY <1>0, <1>1 DEF Entered
<1>2. ASSUME u.pc \in Products, s = Through(u) PROVE FALSE
  BY <1>0, <1>2, ThroughCounts
<1>3. ASSUME u.pc \in Reductions, NEW v, s = After(p, u, v) PROVE FALSE
  BY <1>0, <1>3, AfterCounts, Disjoint
<1>4. ASSUME u.pc \in Reductions, NEW v, After(p, u, v).pc \in Products,
             s = Through(After(p, u, v))
      PROVE  FALSE
  <2>1. After(p, u, v).reduced = u.reduced
    BY <1>4, AfterCounts, Disjoint
  <2> QED
    BY <1>0, <1>4, <2>1, ThroughCounts
<1> QED
  BY <1>1, <1>2, <1>3, <1>4 DEF Ahead

\* The three moves stay on the path of any other rank.
LEMMA EnterPath ==
  ASSUME NEW p, NEW res, NEW s \in States, NEW u \in States,
         OnePath(p, res, s, u), s.pc = "enter"
  PROVE  OnePath(p, res, Entered(s), u)
PROOF
<1>1. ASSUME Ahead(p, res, u, s) PROVE FALSE
  <2>1. ASSUME u.pc = "enter", s = Entered(u) PROVE FALSE
    BY <2>1 DEF Entered
  <2>2. ASSUME u.pc \in Products, s = Through(u) PROVE FALSE
    BY <2>2, ThroughCounts, Disjoint
  <2>3. ASSUME u.pc \in Reductions, NEW v, s = After(p, u, v) PROVE FALSE
    BY <2>3, AfterCounts, Disjoint
  <2>4. ASSUME NEW o, o.pc \in Products, s = Through(o) PROVE FALSE
    BY <2>4, ThroughCounts, Disjoint
  <2> QED
    BY <1>1, <2>1, <2>2, <2>3, <2>4 DEF Ahead
<1>2. ASSUME Ahead(p, res, s, u) PROVE u = Entered(s)
  BY <1>2, Disjoint DEF Ahead
<1>3. ASSUME s = u PROVE Ahead(p, res, u, Entered(s))
  BY <1>3 DEF Ahead
<1> QED
  BY <1>1, <1>2, <1>3 DEF OnePath

\* A rank that crosses a product stays on one path with any other rank.
LEMMA CrossPath ==
  ASSUME NEW p, NEW res, NEW s \in States, NEW u \in States,
         OnePath(p, res, s, u), s.pc \in Products
  PROVE  OnePath(p, res, Through(s), u)
PROOF
<1>1. ASSUME Ahead(p, res, u, s) PROVE Ahead(p, res, u, Through(s))
  <2>1. ASSUME u.pc = "enter", s = Entered(u) PROVE FALSE
    BY <2>1, Disjoint DEF Entered
  <2>2. ASSUME NEW o, o.pc \in Products, s = Through(o) PROVE FALSE
    BY <2>2, ThroughCounts, Disjoint
  <2> QED
    BY <1>1, <2>1, <2>2 DEF Ahead
<1>2. ASSUME Ahead(p, res, s, u) PROVE u = Through(s)
  BY <1>2, Disjoint DEF Ahead
<1>3. ASSUME s = u PROVE Ahead(p, res, u, Through(s))
  BY <1>3 DEF Ahead
<1> QED
  BY <1>1, <1>2, <1>3 DEF OnePath

\* So does a rank that takes the result of its reduction and goes on.
LEMMA LeavePath ==
  ASSUME NEW p, NEW res, NEW s \in States, NEW u \in States,
         OnePath(p, res, s, u), s.pc \in Reductions, s.reduced <= Len(res),
         u.reduced >= s.reduced
  PROVE  OnePath(p, res, After(p, s, res[s.reduced]), u)
PROOF
<1> DEFINE t == After(p, s, res[s.reduced])
<1>1. ~Ahead(p, res, u, s)
  BY NotBehind
<1>2. ASSUME Ahead(p, res, s, u) PROVE u = t \/ (t.pc \in Products /\ u = Through(t))
  BY <1>2, Disjoint DEF Ahead
<1>3. ASSUME t.pc \in Products, u = Through(t) PROVE Ahead(p, res, t, u)
  BY <1>3 DEF Ahead
<1>4. ASSUME s = u PROVE Ahead(p, res, u, t)
  BY <1>4 DEF Ahead
<1> HIDE DEF t
<1> QED
  BY <1>1, <1>2, <1>3, <1>4 DEF OnePath, t

\* The first rank to leave a reduction finds all the others in it.
LEMMA TogetherInNew ==
  ASSUME NEW p, NEW res, NEW s \in States, NEW u \in States,
         OnePath(p, res, s, u), s.pc \in Reductions, ~(s.reduced <= Len(res)),
         u.reduced >= s.reduced
  PROVE  u = s
PROOF
<1>1. ~Ahead(p, res, u, s)
  BY NotBehind
<1>2. ~Ahead(p, res, s, u)
  BY Disjoint DEF Ahead
<1> QED
  BY <1>1, <1>2 DEF OnePath

\* A new result is the last of the results.
LEMMA ResultGrows ==
  ASSUME LocalInv, NEW v
  PROVE  /\ Len(result) \in Nat
         /\ Len(Append(result, v)) = Len(result) + 1
         /\ Append(result, v)[Len(result) + 1] = v
PROOF
<1> DEFINE Results == ((Classes \cup {"nan"}) \X {"regular", "breakdown", "singular"}) \cup {v}
<1>1. result \in Seq((Classes \cup {"nan"}) \X {"regular", "breakdown", "singular"})
  BY DEF LocalInv, TypeOK
<1>2. result \in Seq(Results)
  <2>1. (Classes \cup {"nan"}) \X {"regular", "breakdown", "singular"} \subseteq Results
    OBVIOUS
  <2> HIDE DEF Results
  <2> QED
    BY <1>1, <2>1
<1>3. v \in Results
  OBVIOUS
<1> HIDE DEF Results
<1> QED
  BY <1>2, <1>3, AppendProperties, LenProperties

\* The counters still say which reduction a rank is in, after every step.
LEMMA CountStep ==
  ASSUME LocalInv, CountInv, NEW r \in Ranks, RankStep(r)
  PROVE  CountInv'
PROOF
<1>1. /\ State(r) \in States
      /\ State(r).pc = pc[r] /\ State(r).started = started[r] /\ State(r).reduced = reduced[r]
      /\ State(r)'.pc = pc'[r] /\ State(r)'.reduced = reduced'[r]
  BY StateTyped DEF State
<1>2. /\ Len(result) \in Nat
      /\ \A q \in Ranks : reduced[q] \in Nat
  BY ResultGrows DEF LocalInv, TypeOK
<1>3. \A q \in Ranks \ {r} : pc'[q] = pc[q] /\ reduced'[q] = reduced[q]
  BY StepLocal
<1>4. CASE pc[r] = "enter" /\ UNCHANGED result
  <2>1. reduced[r] = 0 /\ Len(result) = 0
    BY <1>2, <1>4, Disjoint DEF CountInv
  <2>2. \/ pc'[r] = "aborted" /\ reduced'[r] = 0
        \/ pc'[r] = "normb" /\ reduced'[r] = 1
    <3>1. CASE pc'[r] = "aborted"
      BY <1>4, <2>1, <3>1, RankMoves, Disjoint DEF Leaves, Reduction
    <3>2. CASE pc'[r] # "aborted"
      <4>1. State(r)' = Entered(State(r)) \/ \E v : Leaves(r, v)
        BY <1>4, <3>2, RankMoves, Disjoint
      <4>2. State(r)' = Entered(State(r))
        BY <1>4, <4>1, Disjoint DEF Leaves, Reduction
      <4> QED
        BY <1>1, <2>1, <4>2 DEF Entered
    <3> QED
      BY <3>1, <3>2
  <2> QED
    BY <1>3, <1>4, <2>1, <2>2, Disjoint DEF CountInv
<1>5. CASE pc[r] \in Products /\ UNCHANGED result /\ State(r)' = Through(State(r))
  <2>1. pc'[r] \in Reductions /\ reduced'[r] = reduced[r] + 1
    BY <1>1, <1>5, ThroughCounts
  <2>2. reduced[r] = Len(result)
    BY <1>5, Disjoint DEF CountInv
  <2> QED
    BY <1>2, <1>3, <1>5, <2>1, <2>2, Disjoint DEF CountInv
<1>6. ASSUME NEW v, Leaves(r, v) PROVE CountInv'
  <2>1. pc[r] \in Reductions /\ \A q \in Ranks : reduced[q] >= reduced[r]
    BY <1>6 DEF Leaves, Reduction
  <2>2. \/ pc'[r] \in {"done", "aborted"} \cup Products /\ reduced'[r] = reduced[r]
        \/ pc'[r] \in Reductions /\ reduced'[r] = reduced[r] + 1
    BY <1>1, <1>6, <2>1, AfterCounts DEF Leaves
  <2>3. CASE reduced[r] <= Len(result)
    <3>1. result' = result /\ reduced[r] = Len(result)
      BY <1>2, <1>6, <2>3 DEF Leaves, Reduction, CountInv
    <3> QED
      BY <1>2, <1>3, <2>1, <2>2, <3>1, Disjoint DEF CountInv
  <2>4. CASE ~(reduced[r] <= Len(result))
    <3>1. result' = Append(result, v)
      BY <1>6, <2>4 DEF Leaves, Reduction
    <3>2. Len(result') = Len(result) + 1
      BY <3>1, ResultGrows
    <3>3. \A q \in Ranks : reduced[q] = Len(result) + 1 /\ pc[q] \in Reductions
      <4> TAKE q \in Ranks
      <4>1. /\ reduced[q] \in Len(result) .. Len(result) + 1
            /\ reduced[r] \in Len(result) .. Len(result) + 1
            /\ pc[q] \notin Reductions => reduced[q] = Len(result)
        BY DEF CountInv
      <4>2. reduced[q] = Len(result) + 1
        BY <1>2, <2>1, <2>4, <4>1
      <4> QED
        BY <1>2, <4>1, <4>2
    <3> QED
      BY <1>2, <1>3, <2>2, <3>2, <3>3, Disjoint DEF CountInv
  <2> QED
    BY <2>3, <2>4
<1> QED
  BY <1>4, <1>5, <1>6, RankMoves

\* Any two ranks are still on one path after every step.
LEMMA PathStep ==
  ASSUME StepInv, NEW r \in Ranks, RankStep(r), Running'
  PROVE  \A q, u \in Ranks : OnePath(param, result, State(q), State(u))'
PROOF
<1>0. LocalInv /\ CountInv
  BY DEF StepInv
<1>1. Running /\ param' = param
  BY DEF RankStep, CommonStep, CGStep, GMRESStep, Enter, StopInit, Verify, TrueResidual,
    Error, Initial, Rtrans, Apply, Curvature, Residual, CycleStart, Arnoldi, Hij, Hnext,
    Reduction, Product
<1>2. \A q, u \in Ranks : OnePath(param, result, State(q), State(u))
  BY <1>1 DEF StepInv, PathInv
<1>3. param' = param /\ \A q \in Ranks \ {r} : State(q)' = State(q)
  BY <1>0, <1>1, StepLocal DEF State
<1>4. /\ \A q \in Ranks : State(q) \in States
      /\ \A q \in Ranks : State(q).pc = pc[q] /\ State(q).reduced = reduced[q]
      /\ pc'[r] # "aborted"
  BY <1>0, StateTyped, StateFields DEF Running
<1> DEFINE s == State(r)  t == State(r)'
<1>5. SUFFICES /\ \A q \in Ranks \ {r} : OnePath(param, result', t, State(q))
               /\ \A q, u \in Ranks \ {r} : OnePath(param, result', State(q), State(u))
  BY <1>3 DEF OnePath
<1>6. CASE UNCHANGED result /\ s.pc = "enter" /\ t = Entered(s)
  BY <1>2, <1>4, <1>6, EnterPath
<1>7. CASE UNCHANGED result /\ s.pc \in Products /\ t = Through(s)
  BY <1>2, <1>4, <1>7, CrossPath
<1>8. ASSUME NEW v, Leaves(r, v) PROVE <1>5!1
  <2>1. /\ s.pc \in Reductions /\ t = After(param, s, v)
        /\ \A q \in Ranks : State(q).reduced >= s.reduced
    BY <1>4, <1>8 DEF Leaves, Reduction
  <2>2. CASE s.reduced <= Len(result)
    <3>1. result' = result /\ v = result[s.reduced]
      BY <1>4, <1>8, <2>2 DEF Leaves, Reduction
    <3> QED
      BY <1>2, <1>4, <2>1, <2>2, <3>1, LeavePath
  <2>3. CASE ~(s.reduced <= Len(result))
    <3>1. result' = Append(result, v)
      BY <1>4, <1>8, <2>3 DEF Leaves, Reduction
    <3>2. \A q \in Ranks : State(q) = s
      BY <1>2, <1>4, <2>1, <2>3, TogetherInNew
    <3>3. s.reduced = Len(result) + 1
      BY <1>0, <1>4, <2>3, ResultGrows DEF CountInv
    <3>4. result'[s.reduced] = v /\ s.reduced <= Len(result')
      BY <1>0, <3>1, <3>3, ResultGrows
    <3>5. Ahead(param, result', s, t)
      BY <2>1, <3>4 DEF Ahead
    <3> QED
      BY <3>2, <3>5 DEF OnePath
  <2> QED
    BY <2>2, <2>3
<1> QED
  BY <1>0, <1>4, <1>6, <1>7, <1>8, RankMoves

\* The invariant of the lockstep is inductive.
LEMMA StepInvHolds ==
  /\ Init => StepInv
  /\ StepInv /\ [Next]_vars => StepInv'
PROOF
<1>1. ASSUME Init PROVE StepInv
  <2>1. CountInv
    <3>1. Len(result) = 0
      BY <1>1 DEF Init
    <3>2. \A r \in Ranks : pc[r] = "enter" /\ reduced[r] = 0
      BY <1>1 DEF Init
    <3>3. 0 \in Len(result) .. Len(result) + 1
      BY <3>1
    <3> QED
      BY <3>1, <3>2, <3>3, Disjoint DEF CountInv
  <2>2. PathInv
    BY ZenonT(30), <1>1 DEF Init, PathInv, OnePath, State
  <2> QED
    BY <1>1, <2>1, <2>2, LocalInit DEF StepInv
<1>2. ASSUME StepInv, [Next]_vars PROVE StepInv'
  <2>1. LocalInv'
    BY <1>2, LocalStep DEF StepInv
  <2>2. CASE UNCHANGED vars
    <3>1. CountInv'
      BY <1>2, <2>2 DEF StepInv, CountInv, vars
    <3>2. PathInv'
      <4>1. Running' = Running /\ param' = param /\ result' = result
            /\ \A q \in Ranks : State(q)' = State(q)
        BY <2>2 DEF vars, Running, State
      <4> QED
        BY <1>2, <4>1 DEF StepInv, PathInv
    <3> QED
      BY <2>1, <3>1, <3>2 DEF StepInv
  <2>3. ASSUME NEW r \in Ranks, RankStep(r) PROVE StepInv'
    BY <1>2, <2>1, <2>3, CountStep, PathStep DEF StepInv, PathInv
  <2> QED
    BY <1>2, <2>2, <2>3 DEF Next, Finished
<1> QED
  BY <1>1, <1>2

\* Ranks that have entered the same number of exchanges and of reductions are at the
\* same place with the same count, norm and reason, and no rank is two reductions
\* ahead: the ranks leave every loop together, whatever the number of ranks, the
\* pattern of the exchange and the order in which they run.
THEOREM AlwaysInStep == Spec => []InStep
PROOF
<1>1. ASSUME StepInv, Running, NEW q \in Ranks, NEW r \in Ranks, Position(q) = Position(r)
      PROVE  Control(q) = Control(r)
  <2>1. /\ State(q) \in States /\ State(r) \in States
        /\ OnePath(param, result, State(q), State(r))
    BY <1>1, StateTyped DEF StepInv, PathInv
  <2>2. /\ State(q).started = State(r).started /\ State(q).reduced = State(r).reduced
        /\ State(q).pc = "done" <=> State(r).pc = "done"
        /\ State(q).pc # "aborted" /\ State(r).pc # "aborted"
    BY <1>1 DEF Position, State, Running
  <2>3. ASSUME NEW s \in States, NEW t \in States, Ahead(param, result, s, t),
               s.started = t.started, s.reduced = t.reduced,
               s.pc = "done" <=> t.pc = "done", t.pc # "aborted"
        PROVE  FALSE
    <3>0. s.started \in Nat /\ s.reduced \in Nat
      BY DEF States
    <3>1. ASSUME t = Entered(s) PROVE FALSE
      BY <2>3, <3>0, <3>1 DEF Entered
    <3>2. ASSUME s.pc \in Products, t = Through(s) PROVE FALSE
      BY <2>3, <3>0, <3>2, ThroughCounts
    <3>3. ASSUME s.pc \in Reductions, NEW v, t = After(param, s, v) PROVE FALSE
      BY <2>3, <3>0, <3>3, AfterCounts, Disjoint
    <3>4. ASSUME s.pc \in Reductions, NEW v, After(param, s, v).pc \in Products,
                 t = Through(After(param, s, v))
          PROVE  FALSE
      <4>1. After(param, s, v).started = s.started + 1
        BY <3>4, AfterCounts, Disjoint
      <4> QED
        BY <2>3, <3>0, <3>4, <4>1, ThroughCounts
    <3> QED
      BY <2>3, <3>1, <3>2, <3>3, <3>4 DEF Ahead
  <2>4. State(q) = State(r)
    BY <2>1, <2>2, <2>3 DEF OnePath
  <2> QED
    BY <2>4, StateFields DEF Control
<1>2. ASSUME StepInv PROVE InStep
  BY <1>1, <1>2 DEF InStep, StepInv, CountInv
<1> QED
  BY <1>2, StepInvHolds, PTL DEF Spec

-----------------------------------------------------------------------------
(* What follows for the end of the run.                                    *)

\* What has been returned to others suits a rank that has yet to see it.
FitsInv ==
  \A r \in Ranks :
    pc[r] \in Reductions /\ reduced[r] <= Len(result) =>
      result[reduced[r]] \in Returns(State(r))

\* Nothing keeps rank r where it is: it waits for no one, and what its reduction
\* returned to others is something its own code can go on from.
Ready(r) ==
  \/ pc[r] = "enter"
  \/ pc[r] \in Products /\ \A q \in Sources[r] : started[q] >= started[r]
  \/ /\ pc[r] \in Reductions /\ \A q \in Ranks : reduced[q] >= reduced[r]
     /\ reduced[r] <= Len(result) => result[reduced[r]] \in Returns(State(r))

\* Some rank can go on, as long as one has not finished.
NoCircularWait ==
  Running /\ (\E r \in Ranks : pc[r] # "done") => \E r \in Ranks : Ready(r)

\* What the caller of the solver sees on rank r.
Outcome(r) == <<k[r], normr[r], reason[r], finite[r]>>

\* Two callers see the same.
SameOutcome ==
  Running =>
    \A q, r \in Ranks : pc[q] = "done" /\ pc[r] = "done" => Outcome(q) = Outcome(r)

\* The results a rank has yet to see still suit it after every step.
LEMMA FitsStep ==
  ASSUME StepInv, FitsInv, NEW r \in Ranks, RankStep(r)
  PROVE  FitsInv'
PROOF
<1>1. /\ LocalInv /\ CountInv /\ Running
      /\ \A q, u \in Ranks : OnePath(param, result, State(q), State(u))
  BY DEF StepInv, PathInv, RankStep, CommonStep, CGStep, GMRESStep, Enter, StopInit, Verify,
    TrueResidual, Error, Initial, Rtrans, Apply, Curvature, Residual, CycleStart, Arnoldi,
    Hij, Hnext, Reduction, Product
<1>2. CountInv'
  BY <1>1, CountStep
<1>3. \A q \in Ranks \ {r} : State(q)' = State(q) /\ pc'[q] = pc[q] /\ reduced'[q] = reduced[q]
  BY <1>1, StepLocal DEF State
<1>4. /\ \A q \in Ranks : State(q) \in States /\ reduced[q] \in Nat
      /\ \A q \in Ranks : State(q).pc = pc[q] /\ State(q).reduced = reduced[q]
      /\ Len(result) \in Nat
  BY <1>1, StateTyped, StateFields, ResultGrows DEF LocalInv, TypeOK
<1>5. CASE UNCHANGED result /\ reduced'[r] = reduced[r] + 1
  <2>1. reduced[r] \in Len(result) .. Len(result) + 1
    BY <1>1 DEF CountInv
  <2>2. ~(reduced'[r] <= Len(result'))
    BY <1>4, <1>5, <2>1
  <2> QED
    BY <1>3, <1>5, <2>2 DEF FitsInv
<1>6. CASE UNCHANGED result /\ pc'[r] \notin Reductions
  BY <1>3, <1>6 DEF FitsInv
<1>7. ASSUME NEW v, Leaves(r, v), result' = Append(result, v) PROVE FitsInv'
  <2>1. /\ pc[r] \in Reductions /\ v \in Returns(State(r))
        /\ \A q \in Ranks : reduced[q] >= reduced[r]
        /\ ~(reduced[r] <= Len(result))
    <3>1. /\ pc[r] \in Reductions /\ v \in Returns(State(r))
          /\ \A q \in Ranks : reduced[q] >= reduced[r]
          /\ reduced[r] <= Len(result) => result' = result
      BY <1>7 DEF Leaves, Reduction
    <3>2. result' # result
      BY <1>1, <1>4, <1>7, ResultGrows
    <3> QED
      BY <3>1, <3>2
  <2>2. \A q \in Ranks : State(q) = State(r)
    BY <1>1, <1>4, <2>1, TogetherInNew
  <2>3. reduced[r] = Len(result) + 1
    BY <1>1, <1>4, <2>1 DEF CountInv
  <2>4. result'[reduced[r]] = v /\ Len(result') = Len(result) + 1
    BY <1>1, <1>7, <2>3, ResultGrows
  <2>5. \A q \in Ranks \ {r} : result'[reduced'[q]] \in Returns(State(q)')
    BY <1>3, <1>4, <2>1, <2>2, <2>4
  <2>6. \/ pc'[r] \notin Reductions
        \/ reduced'[r] = reduced[r] + 1
    <3>1. State(r)'.pc = pc'[r] /\ State(r)'.reduced = reduced'[r]
      BY DEF State
    <3> QED
      BY <1>4, <1>7, <2>1, <3>1, AfterCounts, Disjoint DEF Leaves
  <2>7. pc'[r] \in Reductions => ~(reduced'[r] <= Len(result'))
    BY <1>4, <2>3, <2>4, <2>6
  <2> QED
    BY <2>5, <2>7 DEF FitsInv
<1>8. ASSUME NEW v, Leaves(r, v), result' = result
      PROVE  pc'[r] \notin Reductions \/ reduced'[r] = reduced[r] + 1
  <2>1. State(r)'.pc = pc'[r] /\ State(r)'.reduced = reduced'[r]
    BY DEF State
  <2>2. pc[r] \in Reductions
    BY <1>8 DEF Leaves, Reduction
  <2> QED
    BY <1>4, <1>8, <2>1, <2>2, AfterCounts, Disjoint DEF Leaves
<1>9. \/ UNCHANGED result /\ (pc'[r] \notin Reductions \/ reduced'[r] = reduced[r] + 1)
      \/ \E v : Leaves(r, v) /\ result' = Append(result, v)
  <2>1. State(r)'.pc = pc'[r] /\ State(r)'.reduced = reduced'[r]
    BY DEF State
  <2>2. CASE \E v : Leaves(r, v)
    BY <1>8, <2>2 DEF Leaves, Reduction
  <2>3. ASSUME State(r)' = Entered(State(r)) PROVE reduced'[r] = reduced[r] + 1
    BY <1>4, <2>1, <2>3 DEF Entered
  <2>4. ASSUME pc[r] \in Products, State(r)' = Through(State(r))
        PROVE  reduced'[r] = reduced[r] + 1
    BY <1>4, <2>1, <2>4, ThroughCounts
  <2> QED
    BY <1>1, <2>2, <2>3, <2>4, RankMoves, Disjoint
<1> QED
  BY <1>5, <1>6, <1>7, <1>9

\* Both invariants hold of every reachable state.
LEMMA FitsInvariant == Spec => [](StepInv /\ FitsInv)
PROOF
<1>1. Init => FitsInv
  BY Disjoint DEF Init, FitsInv
<1>2. StepInv /\ FitsInv /\ UNCHANGED vars => FitsInv'
  BY DEF vars, FitsInv, State
<1>3. StepInv /\ FitsInv /\ [Next]_vars => (StepInv /\ FitsInv)'
  BY <1>2, FitsStep, StepInvHolds DEF Next, Finished
<1> QED
  BY <1>1, <1>3, StepInvHolds, PTL DEF Spec

\* The ranks never wait for each other in a circle, in the exchanges, in the
\* reductions or in a mixture of both: while the solver runs there is a rank that
\* waits for no other, whatever the pattern of the exchange, symmetric or not.
THEOREM NoRankWaitsForever == Spec => []NoCircularWait
PROOF
<1>1. ASSUME StepInv, FitsInv, Running, NEW d \in Ranks, pc[d] # "done"
      PROVE  \E r \in Ranks : Ready(r)
  <2> SUFFICES ASSUME \A r \in Ranks : ~Ready(r) PROVE FALSE
    OBVIOUS
  <2>1. /\ LocalInv /\ CountInv
        /\ \A q, r \in Ranks : OnePath(param, result, State(q), State(r))
    BY <1>1 DEF StepInv, PathInv
  <2>2. /\ \A r \in Ranks : State(r) \in States /\ reduced[r] \in Nat /\ started[r] \in Nat
        /\ \A r \in Ranks : State(r).pc = pc[r] /\ State(r).reduced = reduced[r]
                            /\ State(r).started = started[r]
        /\ Len(result) \in Nat
    BY <2>1, StateTyped, StateFields, ResultGrows DEF LocalInv, TypeOK
  <2>3. ASSUME NEW r \in Ranks
        PROVE  pc[r] \in Products \cup Reductions \cup {"done"}
    BY <1>1, <2>1 DEF Ready, LocalInv, TypeOK, Running
  \* A rank in a reduction waits for one that is behind.
  <2>4. ASSUME NEW r \in Ranks, pc[r] \in Reductions PROVE reduced[r] = Len(result) + 1
    <3>1. CASE reduced[r] = Len(result)
      <4>1. ASSUME NEW q \in Ranks PROVE reduced[q] >= reduced[r]
        <5>1. reduced[q] \in Len(result) .. Len(result) + 1
          BY <2>1 DEF CountInv
        <5> QED
          BY <2>2, <3>1, <5>1
      <4>2. result[reduced[r]] \in Returns(State(r))
        BY <1>1, <2>2, <2>4, <3>1 DEF FitsInv
      <4> QED
        BY <2>4, <4>1, <4>2 DEF Ready
    <3> QED
      BY <2>1, <2>2, <3>1 DEF CountInv
  \* A rank in a product finds its sources in it or behind it.
  <2>5. ASSUME NEW r \in Ranks, pc[r] \in Products PROVE FALSE
    <3>1. ASSUME NEW q \in Ranks PROVE started[q] >= started[r]
      <4>1. ASSUME Ahead(param, result, State(q), State(r)) PROVE FALSE
        <5>1. State(q).pc \notin Products
          BY <2>2, <2>5, <4>1, ThroughCounts, Disjoint DEF Ahead, Entered
        <5>2. State(q).pc # "enter"
          BY <2>3, <2>2, Disjoint
        <5>3. ~(State(q).reduced <= Len(result) /\ State(q).pc \in Reductions)
          BY <2>2, <2>4
        <5> QED
          BY <4>1, <5>1, <5>2, <5>3 DEF Ahead
      <4>2. ASSUME Ahead(param, result, State(r), State(q)) PROVE started[q] = started[r]
        <5>1. State(q) = Through(State(r))
          BY <2>2, <2>5, <4>2, Disjoint DEF Ahead
        <5> QED
          BY <2>2, <2>5, <5>1, ThroughCounts
      <4>3. CASE State(q) = State(r)
        BY <2>2, <4>3
      <4> QED
        BY <2>1, <2>2, <4>1, <4>2, <4>3 DEF OnePath
    <3>2. Sources[r] \subseteq Ranks
      BY ParamsAssumption
    <3> QED
      BY <2>5, <3>1, <3>2 DEF Ready
  \* So the ranks are in one reduction, or done, and those in it are not behind these.
  <2>6. pc[d] \in Reductions /\ reduced[d] = Len(result) + 1
    BY <1>1, <2>3, <2>4, <2>5
  <2>7. ASSUME NEW q \in Ranks PROVE pc[q] # "done"
    <3>1. ASSUME pc[q] = "done" PROVE ~Ahead(param, result, State(q), State(d))
      BY <2>2, <3>1, Disjoint DEF Ahead
    <3>2. ~Ahead(param, result, State(d), State(q))
      BY <2>2, <2>6, Disjoint DEF Ahead
    <3> QED
      BY <2>1, <2>2, <2>6, <3>1, <3>2, Disjoint DEF OnePath
  <2>8. \A q \in Ranks : reduced[q] = Len(result) + 1
    BY <2>3, <2>4, <2>5, <2>7
  <2> QED
    BY <2>2, <2>6, <2>8 DEF Ready
<1>2. ASSUME StepInv, FitsInv PROVE NoCircularWait
  BY <1>1, <1>2 DEF NoCircularWait
<1> QED
  BY <1>2, FitsInvariant, PTL

\* All ranks come back from the solver with the same iterations, norm and reason.
THEOREM OutcomesAgree == Spec => []SameOutcome
PROOF
<1>1. ASSUME StepInv, Running, NEW q \in Ranks, NEW r \in Ranks,
             pc[q] = "done", pc[r] = "done"
      PROVE  Outcome(q) = Outcome(r)
  <2>1. OnePath(param, result, State(q), State(r))
    BY <1>1 DEF StepInv, PathInv
  <2>2. State(q).pc = "done" /\ State(r).pc = "done"
    BY <1>1, StateFields
  <2>3. State(q) = State(r)
    BY <2>1, <2>2, Disjoint DEF OnePath, Ahead
  <2> QED
    BY <2>3, StateFields DEF Outcome
<1>2. ASSUME StepInv PROVE SameOutcome
  BY <1>1, <1>2 DEF SameOutcome
<1> QED
  BY <1>2, StepInvHolds, PTL DEF Spec

=============================================================================
