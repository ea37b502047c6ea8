------------------------------ MODULE SolverRun ------------------------------
(***************************************************************************)
(* solveCG or solveGMRES on all ranks, and what may be said of the run.    *)
(***************************************************************************)
EXTENDS CGSolver, GMRESSolver

RankStep(r) == CommonStep(r) \/ CGStep(r) \/ GMRESStep(r)

\* main goes on to print the result, or commAbort has ended the job.
Finished ==
  /\ (\A r \in Ranks : pc[r] = "done") \/ ~Running
  /\ UNCHANGED vars

Next == (\E r \in Ranks : RankStep(r)) \/ Finished

Spec == Init /\ [][Next]_vars

\* Every rank is a process that runs.
FairSpec == Spec /\ \A r \in Ranks : WF_vars(RankStep(r))

-----------------------------------------------------------------------------
Products == {"initial", "apply", "residual", "arnoldi", "verify"}
Reductions == {"normb", "rtrans", "pAp", "norm", "hij", "hnext", "true", "error"}
Reasons == {"ZERO_RHS", "EXACT", "CONVERGED", "BREAKDOWN", "ITERMAX"}

\* The types.  No rank counts more than itermax iterations, whatever the restart
\* length.
TypeOK ==
  /\ param \in Params
  /\ pc \in [Ranks -> {"enter", "done", "aborted"} \cup Products \cup Reductions]
  /\ started \in [Ranks -> Nat]
  /\ reduced \in [Ranks -> Nat]
  /\ result \in Seq((Classes \cup {"nan"}) \X {"regular", "breakdown", "singular"})
  /\ k \in [Ranks -> 0 .. param.itermax]
  /\ normr \in [Ranks -> Classes \cup {"nan", None}]
  /\ reason \in [Ranks -> Reasons \cup {None}]
  /\ j \in [Ranks -> 0 .. param.itermax]
  /\ i \in [Ranks -> 0 .. param.itermax]
  /\ finite \in [Ranks -> BOOLEAN]

\* How far a rank has come, and all that decides where it goes from there.
Position(r) == <<started[r], reduced[r], pc[r] = "done">>
Control(r) == <<pc[r], k[r], normr[r], reason[r], j[r], i[r], finite[r]>>

\* Ranks that have entered the same number of exchanges and of reductions are in
\* the same place with the same count, norm and reason: none has left a loop of
\* solveCG or solveGMRES that another is still in (which would wait for ever).  No rank is two reductions ahead.
InStep ==
  Running =>
    /\ \A q, r \in Ranks : Position(q) = Position(r) => Control(q) = Control(r)
    /\ \A r \in Ranks : reduced[r] \in Len(result) .. Len(result) + 1

\* V has restart + 1 vectors and H as many rows: the column a rank works on, and the
\* vectors it orthogonalises against, are inside them, and the column is one of the
\* itermax iterations, in the last, shorter cycle too (jlimit in solveGMRES).
ColumnsFit ==
  \A r \in Ranks : pc[r] \in {"arnoldi", "hij", "hnext"} =>
    /\ j[r] + 1 <= param.restart
    /\ k[r] + j[r] + 1 <= param.itermax
    /\ pc[r] = "hij" => i[r] <= j[r]

\* CG counts an iteration before its norm is there, GMRES a whole cycle at its end.
Iterations(r) ==
  k[r] + j[r] - (IF pc[r] = "rtrans" /\ k[r] > 0 THEN 1 ELSE 0)

Reported(r) == IF pc[r] \in {"error", "done"} THEN reason[r] ELSE None

C(r) == INSTANCE SolverContract WITH
          iterations <- Iterations(r), norm <- normr[r], reason <- Reported(r)

\* Each rank, by itself, keeps what SolverContract promises: never an iteration after
\* a reason to stop, and the reason in SolverResult is the one that held, with the
\* iterations actually done.
\* (This is \A r \in Ranks : C(r)!Spec, in the form TLC takes.)
RanksKeepContract ==
  /\ \A r \in Ranks : C(r)!Init
  /\ [][\A r \in Ranks : [C(r)!Next]_(C(r)!vars)]_vars

\* Every rank comes to the end of the solver or the job is aborted; in particular no
\* rank is left in an exchange or an Allreduce others do not take part in.
Ends == <>((\A r \in Ranks : pc[r] = "done") \/ ~Running)

\* "The solver SHALL NOT produce NaN or Inf values in these cases"
\* (openspec/specs/solver-stopping-criteria/spec.md:60), a breakdown being one.
NoNaN == \A r \in Ranks : reason[r] = "BREAKDOWN" => finite[r]
=============================================================================
