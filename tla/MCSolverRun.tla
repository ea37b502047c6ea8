----------------------------- MODULE MCSolverRun -----------------------------
(* Instances of SolverRun for TLC.                                         *)
EXTENDS SolverRun

\* Ranks 0 and 1 exchange values, rank 2 needs values of 1 but sends none.
Edges == [r \in Ranks |-> CASE r = 0 -> {1} [] r = 1 -> {0} [] OTHER -> {1}]

CGParams ==
  [solver : {"CG"}, tolerance : BOOLEAN, exact : BOOLEAN, itermax : {1, 3}, restart : {30}]

\* A short last cycle, a cycle longer than itermax, and a length it rejects.
GMRESParams ==
  [solver : {"GMRES"}, tolerance : BOOLEAN, exact : {FALSE}, itermax : {4}, restart : {0, 1, 3}]
    \cup [solver : {"GMRES"}, tolerance : {TRUE}, exact : {TRUE}, itermax : {2}, restart : {30}]

AllParams == CGParams \cup GMRESParams
FixedGMRES ==
  [solver : {"GMRES"}, tolerance : {FALSE}, exact : {FALSE}, itermax : {2}, restart : {2}]
=============================================================================
