-------------------------------- MODULE ChebFD --------------------------------
(***************************************************************************)
(* Chebyshev filter diagonalisation: the parameters of a run (parameter.c),*)
(* their checks (verify_params, chebFilterInit), and solveChebFD with its  *)
(* search space, its section timers and its resources, in the CPU build    *)
(* and in the GPU build.  The numerics are choices: which columns survive  *)
(* the orthogonalisation, the eigenvalues found, the residuals.            *)
(***************************************************************************)
EXTENDS SearchBlock

CONSTANTS
  Builds,         \* of {"cpu", "gpu"}: CHEB_GPU
  Inputs,         \* [files, other]: the parameter files, each a sequence of lines [key, val],
                  \* and the parameters without a pair [Np, NS, kernel, mu, nb, eps, itermax]
  Gershgorin,     \* bounds gershgorinBounds may find: pairs
  NaN,
  Values,         \* eigenvalues a projection may have, numbers on the scale of the bounds
  Residuals,      \* residuals, in units of 1 / Unit
  Unit,
  EpsDefault,     \* the tolerance used for eps <= 0 (1e-8), in the same units
  IterDefault,    \* iterations for itermax <= 0 (50)
  WidthMax        \* spMMVMBlockWidthOk: the widest block of the host kernel

ASSUME ToleranceAssumption ==
  /\ {Unit, EpsDefault, IterDefault, WidthMax} \subseteq Nat \ {0}
  /\ Residuals \subseteq Nat /\ Values \subseteq Int

\* atoi gives an integer for every value in a file.
ASSUME ParametersAssumption == \A i \in Inputs : i.other.itermax \in Int /\ i.other.NS \in Int

Timer == INSTANCE SectionTimer
Sections == {"filter", "ortho", "rr", "resid", "span"}

VARIABLES
  pc,         \* where solveChebFD is
  build, given, other,   \* the build, the parameter files, the other parameters
  cheb,       \* the bounds and the target: [a, b, lo, hi] each [val, from], and the flags
  iter, NS, m,           \* iter, NS, and the rank of this iteration
  Y,          \* the search block
  spectrum,   \* what the last orthogonalisation found: the columns kept, or the eigenvalues
  ritz, sel,  \* the Ritz values, ascending, and the indices in the target, while in use
  found, accEval,        \* NT_found, accEval (beyond NT_found it is stale)
  last,       \* the pairs accepted by the last complete iteration: history variable
  converged,
  timer, live,           \* section timer; resources allocated
  rc          \* what solveChebFD returns

vars == <<pc, build, given, other, cheb, iter, NS, m, Y, spectrum, ritz, sel, found,
          accEval, last, converged, timer, live, rc>>

inputs == <<build, given, other>>
results == <<found, accEval, last, converged>>

-----------------------------------------------------------------------------
(* Parameters.                                                             *)

Default(v) == [val |-> v, from |-> "default"]

\* initParameter
NoParameters ==
  [a |-> Default(0), b |-> Default(0), lo |-> Default(0), hi |-> Default(0),
   haveBounds |-> FALSE, haveTarget |-> FALSE]

KeysOf(f) == {f[i].key : i \in 1 .. Len(f)}

\* The lines of a file: each sets the value of its key, so that a key's last one counts.
LastLine(f, key) == Max({i \in 1 .. Len(f) : f[i].key = key})
ReadLine(old, f, key) ==
  IF key \in KeysOf(f) THEN [val |-> f[LastLine(f, key)].val, from |-> "file"] ELSE old
ReadLines(c, f) ==
  [c EXCEPT !.a = ReadLine(@, f, "a"), !.b = ReadLine(@, f, "b"),
            !.lo = ReadLine(@, f, "lo"), !.hi = ReadLine(@, f, "hi")]

\* (Fault) One of a pair is enough.
PairOfEither(c, f, one, two, had) ==
  [ok |-> TRUE, have |-> had \/ one \in KeysOf(f) \/ two \in KeysOf(f)]

\* Both of a pair were given, in this file or before it, or neither.
Pair(c, f, one, two, had) ==
  [ok |-> (had \/ one \in KeysOf(f)) = (had \/ two \in KeysOf(f)), have |-> had \/ one \in KeysOf(f)]

\* readParameter; ok is FALSE where it exits.
ReadParameter(c, f) ==
  LET read == ReadLines(c, f)
      bounds == Pair(c, f, "a", "b", c.haveBounds)
      target == Pair(c, f, "lo", "hi", c.haveTarget)
  IN [ok |-> bounds.ok /\ target.ok,
      cheb |-> [read EXCEPT !.haveBounds = bounds.have, !.haveTarget = target.have]]

\* Comparisons with NaN are false.
Lt(x, y) == x # NaN /\ y # NaN /\ x < y
Leq(x, y) == x # NaN /\ y # NaN /\ x <= y

\* verify_params
ParamsOk ==
  /\ cheb.haveTarget /\ Lt(cheb.lo.val, cheb.hi.val)
  /\ other.Np >= 2 /\ other.NS >= 2
  /\ other.kernel \in 0 .. 3
  /\ build = "cpu" => other.NS <= WidthMax
  /\ other.nb >= 0

\* chebFilterInit succeeds.
FilterOk(a, b, lo, hi) ==
  /\ Lt(a, b)
  /\ Lt(lo, hi) /\ Leq(a, lo) /\ Leq(hi, b)
  /\ other.Np >= 2
  /\ other.kernel = 3 => other.mu >= 1

Tol == IF other.eps > 0 THEN other.eps ELSE EpsDefault
MaxIter == IF other.itermax > 0 THEN other.itermax ELSE IterDefault

\* res <= sqrt(tol)
Accepted(res) == res * res <= Tol * Unit

-----------------------------------------------------------------------------
Init ==
  /\ pc = "read"
  /\ build \in Builds /\ \E i \in Inputs : given = i.files /\ other = i.other
  /\ cheb = NoParameters
  /\ iter = 0 /\ NS = 0 /\ m = 0
  /\ Y = <<>> /\ spectrum = <<>> /\ ritz = <<>> /\ sel = <<>>
  /\ found = 0 /\ accEval = <<>> /\ last = <<>> /\ converged = FALSE
  /\ timer = Timer!Create({}, FALSE) /\ live = {}
  /\ rc = 0

\* The next -f of the command line, if there is one.
Read ==
  /\ pc = "read" /\ given # <<>>
  /\ LET r == ReadParameter(cheb, Head(given))
     IN IF r.ok THEN cheb' = r.cheb /\ pc' = "read" ELSE cheb' = cheb /\ pc' = "exit"
  /\ given' = Tail(given)
  /\ UNCHANGED <<build, other, iter, NS, m, Y, spectrum, ritz, sel, results, timer, live, rc>>

\* solveChebFD up to step 1: bounds of the file, or Gershgorin's.
VerifyParams ==
  /\ pc = "read" /\ given = <<>>
  /\ IF ~ParamsOk THEN pc' = "done" /\ rc' = -1 /\ cheb' = cheb
     ELSE /\ pc' = "init" /\ rc' = rc
          /\ IF cheb.haveBounds THEN cheb' = cheb
             ELSE \E g \in Gershgorin :
                    cheb' = [cheb EXCEPT !.a = [val |-> g[1], from |-> "matrix"],
                                         !.b = [val |-> g[2], from |-> "matrix"]]
  /\ UNCHANGED <<inputs, iter, NS, m, Y, spectrum, ritz, sel, results, timer, live>>

\* chebFilterInit, allocChebData, randomInitBlock
Setup ==
  /\ pc = "init"
  /\ IF FilterOk(cheb.a.val, cheb.b.val, cheb.lo.val, cheb.hi.val)
     THEN /\ pc' = "stream"
          /\ live' = live \cup {"filter", "blocks"}
          /\ NS' = other.NS
          /\ Y' = RandomBlock(other.NS)
          /\ accEval' = [i \in 1 .. other.NS |-> "stale"]
          /\ rc' = rc
     ELSE pc' = "done" /\ rc' = -1 /\ UNCHANGED <<live, NS, Y, accEval>>
  /\ UNCHANGED <<inputs, cheb, iter, m, spectrum, ritz, sel, found, last, converged, timer>>

\* (Fault) The blocks stay allocated when there is no stream context.
NoStreamLeak == live' = live \ {"filter"}

NoStream == live' = live \ {"blocks", "filter"}

\* gpu_vstream_init (it may get no memory), and the timer with the span it starts.
OpenStream ==
  /\ pc = "stream"
  /\ \/ /\ build = "gpu"
        /\ NoStream
        /\ pc' = "done" /\ rc' = -1 /\ UNCHANGED <<timer, iter>>
     \/ /\ live' = live \cup {"timer"} \cup (IF build = "gpu" THEN {"stream"} ELSE {})
        /\ timer' = Timer!Start(Timer!Create(Sections, build = "gpu"), "span")
        /\ pc' = "loop" /\ iter' = 1 /\ rc' = rc
  /\ UNCHANGED <<inputs, cheb, NS, m, Y, spectrum, ritz, sel, results>>

\* The streamed passes leave the device idle before the stop is recorded.
Timed(t, s) == Timer!Stop(Timer!CaughtUp(Timer!Start(t, s)), s)

\* Head of the loop, and step 5.
Filter ==
  /\ pc = "loop" /\ iter <= MaxIter
  /\ Timer!CanSync(timer)
  /\ timer' = Timed(Timer!Sync(timer), "filter")
  /\ Y' = Filtered(Y, NS)
  /\ m' = NS
  /\ spectrum' = <<>>
  /\ pc' = "ortho"
  /\ UNCHANGED <<inputs, cheb, iter, NS, ritz, sel, results, live, rc>>

\* After step 6: a block without columns ends the loop.
Orthogonalised(rank, e, t) ==
  /\ m' = rank
  /\ timer' = Timer!Stop(Timer!CaughtUp(t), "ortho")
  /\ IF rank = 0 THEN pc' = "report" /\ Y' = e
     ELSE pc' = "rr" /\ Y' = IF build = "cpu" THEN Repad(e, rank) ELSE e

Orthogonalise ==
  /\ pc = "ortho" /\ build = "cpu"
  /\ \E Kept \in SUBSET (0 .. NS - 1) :
       /\ spectrum' = Kept
       /\ LET r == OrthoMGS(Y, NS, Kept)
          IN Orthogonalised(r.m, r.e, Timer!Start(timer, "ortho"))
  /\ UNCHANGED <<inputs, cheb, iter, NS, ritz, sel, results, live, rc>>

\* Eigenvalues of the Gram matrix, of which 1 is the square of the tolerance.
CholQRPass1 ==
  /\ pc = "ortho" /\ build = "gpu"
  /\ \E diag \in [0 .. NS - 1 -> 0 .. 2] :
       /\ spectrum' = diag
       /\ LET r == CholQRPass(Y, NS, diag, 1)
              t == Timer!Start(timer, "ortho")
          IN IF r.m = 0 THEN Orthogonalised(0, Y, t)
             ELSE m' = r.m /\ Y' = r.e /\ timer' = Timer!CaughtUp(t) /\ pc' = "ortho2"
  /\ UNCHANGED <<inputs, cheb, iter, NS, ritz, sel, results, live, rc>>

CholQRPass2 ==
  /\ pc = "ortho2"
  /\ \E diag \in [0 .. m - 1 -> 0 .. 2] :
       /\ spectrum' = diag
       /\ LET r == CholQRPass(Y, m, diag, 1)
          IN Orthogonalised(r.m, IF r.m = 0 THEN Y ELSE r.e, timer)
  /\ UNCHANGED <<inputs, cheb, iter, NS, ritz, sel, results, live, rc>>

\* Step 7, and the Ritz values in the target.
RayleighRitz ==
  /\ pc = "rr"
  /\ \E diag \in [0 .. m - 1 -> Values] :
       LET s == JacobiEigen(diag)
       IN /\ ritz' = s.eval
          /\ sel' = Ascending({k \in 0 .. m - 1 : cheb.lo.val <= s.eval[k] /\ s.eval[k] <= cheb.hi.val})
  /\ timer' = Timed(timer, "rr")
  /\ pc' = "resid"
  /\ UNCHANGED <<inputs, cheb, iter, NS, m, Y, spectrum, results, live, rc>>

\* (Fault) One bad pair in the target does not count, one good one does not either.
ConvergedOnAny(accepted) == \E p \in ToSet(accepted) : p.res <= Tol

ConvergedNow(accepted) == accepted # <<>> /\ \A p \in ToSet(accepted) : p.res <= Tol

\* Step 8: res[t] is the residual of pair sel[t].
Residual ==
  /\ pc = "resid"
  /\ \E res \in [1 .. Len(sel) -> Residuals] :
       LET good == Ascending({t \in 1 .. Len(sel) : Accepted(res[t])})
           accepted == [i \in 1 .. Len(good) |-> [val |-> ritz[sel[good[i]]], res |-> res[good[i]]]]
       IN /\ found' = Len(accepted)
          /\ accEval' = [i \in 1 .. other.NS |->
                           IF i <= Len(accepted) THEN accepted[i].val ELSE "stale"]
          /\ last' = accepted
          /\ converged' = ConvergedNow(accepted)
  /\ timer' = Timed(timer, "resid")
  /\ ritz' = <<>> /\ sel' = <<>>
  /\ pc' = "next"
  /\ UNCHANGED <<inputs, cheb, iter, NS, m, Y, spectrum, live, rc>>

\* Step 8b, and the end of the loop.
Restart ==
  /\ pc = "next" /\ ~converged
  /\ NS' = m /\ iter' = iter + 1
  /\ pc' = "loop"
  /\ UNCHANGED <<inputs, cheb, m, Y, spectrum, ritz, sel, results, timer, live, rc>>

Leave ==
  /\ \/ pc = "next" /\ converged
     \/ pc = "loop" /\ iter > MaxIter
  /\ pc' = "report"
  /\ UNCHANGED <<inputs, cheb, iter, NS, m, Y, spectrum, ritz, sel, results, timer, live, rc>>

\* The span ends and the stream context goes.
StopSpan ==
  /\ pc = "report"
  /\ timer' = Timer!Stop(timer, "span")
  /\ live' = live \ {"stream"}
  /\ pc' = "sync"
  /\ UNCHANGED <<inputs, cheb, iter, NS, m, Y, spectrum, ritz, sel, results, rc>>

Report ==
  /\ pc = "sync" /\ Timer!CanSync(timer)
  /\ timer' = Timer!Sync(timer)
  /\ live' = live \ {"timer", "blocks", "filter"}
  /\ rc' = found
  /\ pc' = "done"
  /\ UNCHANGED <<inputs, cheb, iter, NS, m, Y, spectrum, ritz, sel, results>>

\* The device completes the next record.
DeviceRecord ==
  /\ timer.device /\ timer.done < timer.now
  /\ timer' = [timer EXCEPT !.done = @ + 1]
  /\ UNCHANGED <<pc, inputs, cheb, iter, NS, m, Y, spectrum, ritz, sel, results, live, rc>>

Ended == pc \in {"done", "exit"}
Finished == Ended /\ UNCHANGED vars

Solver ==
  \/ Read \/ VerifyParams \/ Setup \/ OpenStream
  \/ Filter \/ Orthogonalise \/ CholQRPass1 \/ CholQRPass2
  \/ RayleighRitz \/ Residual \/ Restart \/ Leave
  \/ StopSpan \/ Report

Next == Solver \/ DeviceRecord \/ Finished

\* One thread runs the solver, and its steps are those that change pc or given.  It has a
\* step to take (ENABLED Solver) unless it has ended or waits for the device, which works
\* off its stream.
Waits == pc = "sync" \/ (pc = "loop" /\ iter <= MaxIter)
CanStep == ~Ended /\ (Waits => Timer!CanSync(timer))
Fairness == ([]<>~CanStep \/ []<><<TRUE>>_<<pc, given>>) /\ WF_vars(DeviceRecord)

Spec == Init /\ [][Next]_vars /\ Fairness
-----------------------------------------------------------------------------
(* Properties.                                                             *)

\* The types.  The rank never exceeds the columns the arrays were made for, an index in
\* sel is one of the rank's, and no cell of the block is a sum of things that do not
\* belong together: the repack and the padding leave nothing to the next filter that it
\* would multiply up.
TypeOK ==
  /\ build \in Builds /\ rc \in -1 .. Len(accEval)
  /\ iter \in 0 .. MaxIter + 1 /\ NS \in 0 .. Len(accEval) /\ m \in 0 .. NS
  /\ found \in 0 .. Len(accEval)
  /\ pc = "resid" => \A t \in 1 .. Len(sel) : sel[t] \in 0 .. m - 1
  /\ \A i \in DOMAIN Y : Y[i] # Junk

\* What the orthogonalisation of each build leaves: the columns kept, each orthogonal to
\* those before it and of norm 1; or every direction not below the tolerance, each
\* scaled by the root of its own eigenvalue.
KeptBefore(c) == {k \in spectrum : CountBelow(spectrum, k) < c}
NthKept(c) == Ascending(spectrum)[c + 1]
Directions == {d \in DOMAIN spectrum : spectrum[d] >= 1}

\* Whenever Rayleigh-Ritz, the residuals or the next filter read the block, it holds an
\* orthonormal basis of the directions that survived, all of them and each once, packed at
\* a stride equal to the rank, with zero in the padding rows.
Orthonormal ==
  pc \in {"rr", "resid", "next"} \/ (pc = "loop" /\ iter > 1) =>
    IF build = "cpu"
    THEN /\ m = Cardinality(spectrum)
         /\ Holds(Y, m, NthKept, LAMBDA c : [orth |-> KeptBefore(c), unit |-> TRUE])
    ELSE /\ m = Cardinality(Directions)
         /\ \E of \in [0 .. m - 1 -> Directions] :
              /\ \A d \in Directions : \E c \in 0 .. m - 1 : of[c] = d
              /\ Holds(Y, m, LAMBDA c : of[c], LAMBDA c : spectrum[of[c]])

\* The solver iterates only with a target and bounds that were given in pairs or found
\* from the matrix, never with a default left in one of them, and with the target inside
\* the bounds, in spite of NaN.
AdmissibleRun ==
  pc \notin {"read", "exit", "init", "done"} =>
    /\ cheb.lo.from = "file" /\ cheb.hi.from = "file"
    /\ cheb.a.from = cheb.b.from /\ cheb.a.from # "default"
    /\ Leq(cheb.a.val, cheb.lo.val) /\ Lt(cheb.lo.val, cheb.hi.val)
    /\ Leq(cheb.hi.val, cheb.b.val)

\* The eigenvalues reported are those accepted by the last iteration that came to its
\* residuals, also when the one after it collapsed; they lie in the target, with residuals
\* up to sqrt(tol), or up to tol where convergence is reported; and a run that neither
\* converged nor collapsed has done all its iterations.
Reported ==
  pc = "done" /\ rc >= 0 =>
    /\ SubSeq(accEval, 1, rc) = [i \in 1 .. Len(last) |-> last[i].val]
    /\ \A p \in ToSet(last) :
         /\ cheb.lo.val <= p.val /\ p.val <= cheb.hi.val
         /\ p.res * p.res <= Tol * Unit
         /\ converged => p.res <= Tol
    /\ converged => rc > 0
    /\ converged \/ m = 0 \/ iter = MaxIter + 1

\* When the times are reported no interval of a section is missing or counted twice, on
\* the device and on the host, and the span covers them all.
Collapsed == m = 0
ItersRun == IF iter > MaxIter THEN MaxIter ELSE iter
TimersExact ==
  pc = "done" /\ rc >= 0 =>
    /\ \A s \in Sections \ {"span"} :
         LET n == IF s \in {"rr", "resid"} /\ Collapsed THEN ItersRun - 1 ELSE ItersRun
         IN timer.sec[s].counts = n /\ timer.sec[s].totalSec = n /\ timer.sec[s].wallSec = n
    /\ timer.sec["span"].counts = 1
    /\ timer.sec["span"].totalSec = timer.now - 1 /\ timer.sec["span"].wallSec = timer.now - 1

\* On every path solveChebFD ends (or the program exits before it), with everything it
\* allocated freed.
Terminates == <>[](Ended /\ live = {})
=============================================================================
