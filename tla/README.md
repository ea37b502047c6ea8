# A verification model of SparseBench

SparseBench is an MPI + OpenMP (+ CUDA/HIP) benchmark of sparse solvers: it
builds or reads a sparse matrix, spreads its rows over the MPI ranks, works out
which vector entries each rank needs from which other, and then runs CG, GMRES,
Chebyshev filter diagonalisation or bare sparse matrix-vector products on it.
This directory holds TLA+ models of its distributed core, of the matrix formats
and their kernels, of the streamed passes on the GPU and of the solvers, the TLC
runs that check them on small instances, and theorems proved with TLAPS: how a file
is spread, how the communication is set up, the halo exchange and the solvers, for
every number of ranks, matrix, exchange pattern and parameter set; the parameters,
the timers, the search space and the report of ChebFD for every run; and what the streamed
passes compute, for every size and every order the device takes. Source paths are relative to `src/` of the repository's `src/`.

## 1. Inventory

| Component | State it keeps | Operations | Interacts with | Hard behaviour |
|---|---|---|---|---|
| Matrix input (`matrix.c`, `mmio.c`, `matrixBinfile.c`, `matrixScamac.c`) | MMMatrix, GMatrix | generate, read, distribute, convert to CRS | collectives | files with empty rows, ranks without rows, widths of counters |
| Communication setup (`commLocalization` in `comm.c`) | CommType, localized GMatrix | identify externals, find owners, graph topology, reorder, localize, tell the owners | all ranks, MPI graph topology, Isend/Irecv | neighbour order, sends in flight, coinciding start rows |
| Formats and kernels (`matrix-CRS.c`, `matrix-SCS.c`, `matrix-CCRS.c`, `cuda_spmv_*.cu`) | Matrix, permutations | convertMatrix, spMVM and its split halves, spMMVM, chebfdOp | setup (`commRemapSendIndices`) | row permutation against send indices, padding, launch shapes |
| Halo exchange (`commExchange*` in `comm.c`) | send buffer, open request | begin, test, end, blocking exchange | MPI, kernels | a buffer in use by MPI while ranks go on, ranks drifting apart |
| Overlapped product (`solverApplyA` in `solverCommon.c`) | row cursor, product | local chunks, wait, external part | exchange, kernels | assignment against accumulation, stale halos |
| Solvers (`CGSolver.c`, `GMRESSolver.c`, `chebFDSolver.c`, `chebFilter.c`) | vectors, scalars, stop reason | iterate, restart, accept | exchange, reductions | all ranks take the same branch, breakdowns, exact solutions |
| Registry and results (`solverRegistry.c`, `solver.c`) | selected variant, SolverResult | resolve, print | command line | reported reason and count |
| GPU streaming (`cuda_vector_stream.cu`) | slots, two streams, events, partial sums | filter, A Y, Gram, update, residuals | GPU runtime | reuse of a slot, the drain at the end, partial blocks |
| Timers (`section_timer.c`, `cuda_section_timer.cu`, `profiler.c`) | pending event pairs, sums | start, stop, read | streams | a pair overwritten |
| Parameters (`parameter.c`, `cli.c`) | Parameter | parse | - | pairs of bounds over several files |

What makes each correct:

* **Input** - the row ranges of the ranks are a partition of the rows, a rank has
  exactly the entries of its rows, and the sizes it passes on are right.
* **Setup** - both ends of every edge agree on what travels and in which order;
  every matrix entry points at the slot that will hold its column's value.
* **Exchange and product** - a kernel that reads the halo finds the values of the
  vector it multiplies, every sum has every term once, and nobody waits for ever.
* **Formats** - every format and every kernel gives each row of the result the
  row of the source, once, and touches nothing else.
* **Solvers** - every rank takes the same branch and reports the true reason; the
  search space of ChebFD stays an orthonormal basis as it shrinks.
* **Streaming** - the result is that of a sequential pass, each block once.
* **Timers** - no interval is missing or counted twice.

`PROJECT.json` lists every component with its status, and under "hazards" the
places in the code where a mistake would be hard to test for.

## 2. Modules

```
 MMDistribute        .mtx file -> GMatrix on every rank
      |  FilledIsConsecutive: the assumption on start rows of HaloSetup
      v
 HaloSetup           GMatrix -> communication plan      (uses Localization)
      |  PlanEstablished: the assumption PlanOK of HaloExchange (ExchangePlan)
      v
 HaloExchange        products on the plan  ==implements==>  DistSpMV

 SolverRun           CGSolver, GMRESSolver on SolverCommon  ==implements==>
                     SolverContract on every rank (a product is DistSpMV's)

 MatrixProduct       source -> GMatrix -> format -> kernels, on one rank
      |              (MatrixSource; Localization; MatrixCRS, MatrixCCRS, MatrixSCS
      |               and DeviceKernels on MatrixKernels)
      v  a product of ChebFD is one of these
 ChebFD              parameters, solveChebFD  (uses SearchBlock, SectionTimer)
      |  its passes over the search block are, in the GPU build,
      v
 VectorStream        two streams, events     ==implements==>  BlockPipeline
                     (values: BlockAlgebra)
```

**ExchangePlan** has no state. It names what setup leaves on every rank (the
fields of `CommType` and of the localized matrix) and `PlanOK`, the conditions
under which an exchange can be exact: both ends of an edge agree, the halo is
tiled by its sources, what is packed is what the receiver's slot stands for, the
matrix points at the right slots with locals first. It is the contract between
`HaloSetup`, which establishes it, and `HaloExchange`, which assumes it.

**Localization** holds the rank-local algorithms of `commLocalization` as pure
operators: `identifyExternals`, the binary search of `findExternalOwningRanks`
(a recursive function with the code's `left`/`right`/`mid`), `reorderExternals`,
`localizeMatrix`, `reorderMatrixForOverlap`.

**HaloSetup** runs them on all ranks. One action per stretch between points where
ranks meet: `Identify` (up to the Allgather), `FindOwningRanks` (up to the graph
creation), `RetrieveTopology`, `ReorderAndLocalize`, `PostMessages` (the Irecv
and Isend of `buildElementsToSend`), `WaitAll` (both Waitall, the subtraction,
the frees), `ConvertMatrix`, `RemapSendIndices`. MPI is the rest: it lists
neighbours in any order (the standard fixes none), copies a posted send early
(`Buffer`) or leaves it in the sender's array until it is received (`Receive`).
`needed` becomes `Garbage` when the code frees the array, so a message taken too
late would carry garbage. SCS, CRS and CCRS differ here only in the permutation
of a rank's rows: `ConvertMatrix` takes any, the identity (CRS) included.

**HaloExchange** runs `solverApplyA` on every rank, again and again:

| Action | Code |
|---|---|
| `BeginExchange` | `commExchangeBegin`, or `commExchange` up to the collective: pack, post |
| `LocalChunk` | one turn of the chunk loop: `spMVM_local_range`, `commExchangeTest` |
| `Depart`, `Arrive` | MPI reads a block of the send buffer / stores one in the halo |
| `EndExchange` | `commExchangeEnd`, or the return of `commExchange` |
| `Compute` | `spMVM_external`, or the full `spMVM` |
| `NextVector` | the caller: a reduction if `Synchronous`, then the owned part of the next vector |

A block departs from the send buffer as it is *then*, and arrives in the vector
as it is *then*, at any time while the request is open: reuse and early reads
show. Numbers are replaced by what they stand for: `<<g, v>>` is component `g` of
the `v`-th vector multiplied, and a row of the product is the sequence of values
that went into its sum, so `=` against `+=`, a missing, doubled, misplaced or stale
term all differ. The vector number is a ghost: the code has no such counter.
`Synchronous = TRUE` is a solver (every product of CG is followed by an
Allreduce before the next), `FALSE` the SpMV benchmark loop of `main.c`, which has
no reduction. `NextVector` either keeps the halo of the last vector or replaces it
by anything, as solvers do that pass another vector next (GMRES).

**DistSpMV** is what `solverApplyA` promises: a rank begins its next product and
later, when its sources have begun theirs, holds the exact product with the k-th
vector. `HaloExchange` implements it under `resultBar` (the product is visible
once `solverApplyA` has returned).

**MMDistribute** is `initMatrix` for a `.mtx` file: the master reads and sorts;
Bcast, Scatter, Scatterv from rank 0 with the counts and offsets of `scanMM`;
`matrixConvertfromMM`; and from `commLocalization` what happens to `nc`. Memory
the code reads before writing it (`senddispls` of a rank without rows, `mLocal.nc`)
holds any of the integers in `Leftover`.

**SolverRun** is a solve on all ranks, composed of **SolverCommon** (what
`solverCommon.c` and `solver.c` give both solvers: the right-hand side, the
collectives, verification), **CGSolver** and **GMRESSolver**. Every rank has its own copy of the
control variables of `solveCG` or `solveGMRES` (`k`, `normr`, `reason`, `j`, `i`);
nothing in the model makes the copies equal. `pc` is the collective a rank is in, and an action
takes it from there through all the code up to the next one. A product returns
when the sources of the rank have begun theirs, the guard of `Finish` in `DistSpMV`; a dot product
when all ranks have entered the same Allreduce, with the same value on each
(`result`). What a dot product says is any class of norm - zero, at most the
threshold, above it - that the place it is taken at allows, and for the last one of
an Arnoldi column whether the column is regular, a breakdown, or a breakdown whose
diagonal is zero too; `finite` says that no NaN has reached `x`.

**SolverContract** is the solver seen by one rank's caller: measure, iterate, stop
with a reason that holds. CG counts an iteration before its norm is there, GMRES a
cycle at a time; `Iterations` and `Reported` of `SolverRun` map both to the contract.

**MatrixProduct** takes one rank from a source to results. `GenerateMatrix`, or
`WriteFile` and `ReadFile` (**MatrixSource**: `matrixGenerate` for both stencils,
`matrixBinWrite`, `matrixBinRead`), `Localize` (the operators of `Localization`),
`ConvertMatrix` to **MatrixCRS**, **MatrixCCRS** or **MatrixSCS** (the window sort by
`compareDescSCS`, chunks, padding, permuted columns), then calls: `Call` lays out
the vectors with their leading dimension, `Iterate` is one iteration of the
kernel's parallel loop on the host, or one thread block of its launch on the device
(**DeviceKernels**: `vecTile`, the grids, the kernels for pairs and quads of
columns), in any order; `MultiplyAgain` passes the result as the next vector, whose
halo the exchange refreshes; `Return` frees. An element of a vector is named by
buffer, product, global row and column, and a sum is the sequence of what went into
it. **MatrixKernels** has what the kernels share: gathering, `y = cA A x + cP p +
cQ q + cR r`, accumulation. An element two threads write, or one reached by a
vector access it is not aligned for, holds `Garbage`.

**VectorStream** is a streaming context from `gpu_vstream_init` (`VStreamInit`) to its end:

| Action | Code |
|---|---|
| `Enter`, `Return` | the five `gpu_vstream_*` passes; the search space may be any before each |
| `HostQueues` | the next copy, kernel, record or wait goes on its stream's queue |
| `HostSyncs`, `HostWorks` | `gpuStreamSynchronize`; what runs on the legacy stream, `ensurePartial`, counters |
| `Marks`, `Starts`, `Ends` | a stream passes a record or a wait, begins and ends a copy or a kernel |

An entry is the list of API calls the host makes in it (`FilterEntry` ...
`RitzEntry`), built from `ColBlockPipeline` and `RowChunkPipeline` as in the code;
only queue order and events order the device. A wait is for the records its event has
when it is queued (`Queued`). Copies and kernels begin and end in two
steps, so an overlap on a buffer is a state. **BlockAlgebra** has the values: an
entry of the search space and the polynomial of A applied to it, `Poison` for what
nobody wrote or what mixes columns. The filter's recurrence is compared with the
host's (`applyFilter`). **BlockPipeline** is what the passes promise, without
streams: each block is loaded, computed and drained once and in order, a slot taken
again only when it is free.

**ChebFD** is `solveChebFD` in both builds, with the parameter files before it
(`Read`), its checks (`VerifyParams`, `Setup`), the streaming context or the lack of
memory for one (`OpenStream`), the loop (`Filter`, `Orthogonalise` or
`CholQRPass1` and `CholQRPass2`, `RayleighRitz`, `Residual`, `Restart`) and its end
(`Leave`, `StopSpan`, `Report`). What numerics decide is a choice: which columns
survive, the eigenvalues of the Gram matrix and of the projection, the residuals.
**SearchBlock** has the flat array with its shrinking stride and what
the orthogonalisations and the repacking do to it, cell by cell. **SectionTimer** has
both timers; time is the number of records made, and the device completes its
records later (`DeviceRecord`).

The modules named `<module>_proofs` hold the theorems of section 4, one for each of
`MMDistribute`, `Localization` (lemmas only), `HaloSetup`, `HaloExchange`, `SolverRun`,
`VectorStream` and `ChebFD`; `VectorMemory_proofs` has what the streams of `VectorStream`
compute. Each extends its module; no run uses them.

Operators marked `(Fault)` are altered forms of the definition that follows them.
No specification uses them; PROJECT.json's "mutants" say which property notices
which one when it takes the place of the original.

## 3. Runs

| Run | Question | Instance |
|---|---|---|
| `setup` | Does the setup end in a plan on which an exchange is exact, whatever MPI chooses? | 3 ranks, 6 matrices, all neighbour orders, all row permutations |
| `overlap` | Is the overlapped product exact, and does it implement `DistSpMV`? | 3 ranks, 2 plans, 3 products, 2 chunks, reductions |
| `blocking` | The same for the blocking exchange without reductions | 3 ranks, 3 plans, 3 products |
| `distribute` | Which files are distributed correctly, and does every rank end? | 3 ranks, 6 files |
| `solve` | Do the ranks agree, is the reason true, does the solve end? | 3 ranks, 8 parameter sets of CG, 7 of GMRES |
| `gap`, `nc`, `rowless` | Three statements of the docs and comments that the code does not keep | one file each |
| `nan` | One more, on breakdowns | GMRES, 2 iterations |
| `streams` | Do two streams give what a sequential pass gives, whatever they overlap? | 3 shapes of search space, every pair of passes |
| `chebfd` | Is the basis kept, the report true, the time complete, everything freed? | 23 inputs, both builds |
| `formats` | Is each row of a product the source's row, in every format and kernel? | 7 sources on 1 to 3 ranks, 8 formats and shapes, host and device |

*setup*: `PlanEstablished`, `RowsPreserved`, `SendArraysAlive`, `OwnersFound`,
`Terminates`. *overlap*: `HaloFresh`, `ProductExact`, `BacklogBounded`, the
inductive invariant `IInv`, the refinement `ImplementsDistSpMV`, `AllDone`.
*distribute*: `FilledIsConsecutive`, `RowsOfTheFile`, `Ends`. *solve*: `InStep`,
`ColumnsFit`, the refinement `RanksKeepContract`, `Ends`. *streams*: `NoRace`,
`ResultExact`, `ScratchFinite`, `PartialFits`, the refinement `PipelineKept`.
*chebfd*: `Orthonormal`, `AdmissibleRun`, `Reported`, `TimersExact`, `Terminates`.
*formats*: `ProductExact`, `BoundsExact`. Each of these runs checks its module's `TypeOK` too
(`blocking` apart, where `IInv` has it). Each property is
stated in words above its definition.

**Bounds.** Three ranks are the smallest number where a rank has two neighbours
(displacements other than 0, two neighbour orders), where the sources and the
destinations of a rank can differ, and where two ranks exchange nothing. Four
rows split 2 + 1 + 1 give a rank with two rows to permute and halo segments of
different length; the matrices have rows with locals and externals interleaved,
an empty row, a row of externals only, non-symmetric patterns, an uncoupled rank
and a rank without rows. With three products a rank that only sends
can be two exchanges or more ahead of its receiver: buffers are reused twice and, without
reductions, blocks queue on an edge. Two chunks of rank 0's two rows make one
chunk boundary; the other ranks have the last chunk only. Three ranks of
`solve` have one pair that exchanges and one that only receives; CG runs 1 or 3 iterations
(limit at once, or every reason after an iteration), GMRES 4 in cycles of 1 and 3
(a restart and a shortened last cycle) or 2 in a cycle longer than that. 
*streams*: with one column a block a search space of four columns fills each of
the two slots twice, so the wait before a refill and the drain two blocks back
happen, and seven rows in chunks of one tile of two do the same for rows, the last
chunk partial. Blocks of two columns out of three leave a partial last block; a block
wider than the search space and a chunk larger than it never refill. Two entries
on one context (`MaxCalls`) show what one leaves to the next, degrees 2 to 4 (`Degree`) both
parities of the recurrence; `PartialMax` makes the Gram pass shrink its ranges and
the residual pass enlarge the buffer.

*chebfd*: two rows and one of padding, up to three columns: enough for a block to
lose a column at either end, for its stride to shrink twice, and for the repack to
read a row it has written. Residuals are below the tolerance, between it and its
root, and above both, in units of 1/16; four eigenvalues lie outside, on and inside
the target. The files are complete, split, repeated, one-sided, empty and NaN. The
smallest tolerance and iteration counts are those of the inputs, and the default.

*formats*: the 27-point and the 7-point stencil on one rank and on two, where the
planes at a domain's end meet the next rank's; a file with an empty row in the middle and one
at the end, and a column twice in a row, on one rank and two; two rows on three ranks.
C and sigma are equal, one a multiple of the other either way, and neither. Blocks of 1 to 4
columns at leading dimensions 3 and 4 take the kernels for one, two and four columns and the
flat ones, with tiles of two threads of which the last is partial.

The bounds `MaxApply`, `NudgeChunks`, `itermax`, `MaxCalls`, `Degree` and the
constants of the MC modules are the only ones.

**Fairness.** Weak fairness of each rank's own step: a rank is a process that runs.
Weak fairness of `Depart`/`Arrive` and of `Receive`: MPI must move data of a
request whose owner is in `MPI_Wait`, `MPI_Waitall` or a blocking collective, and
every rank gets there without help (the chunk loop never waits). `Buffer` has
none: MPI need not buffer a send.
In `ChebFD` one host thread takes the solver's steps: if it can go on for good it
does (`CanStep`: unless it has ended, or waits for an event the device has not
reached), and the device works off its stream (weak fairness of `DeviceRecord`). `VectorStream` and
`MatrixProduct` have safety properties only; that an entry of the former cannot get stuck
is the deadlock check.
`Finished` stutters when all is done (or a rank has called `commAbort`), so
deadlock is checked in every passing run.

**What the code does otherwise than it says** (findings of PROJECT.json):

* `nan` - a GMRES breakdown is taken for an exact solution, but on a singular
  matrix the column's diagonal may be zero too: the rotation divides zero by zero,
  `x` is NaN and the reason reported is "breakdown", against "SHALL NOT produce
  NaN or Inf" (`openspec/specs/solver-stopping-criteria/spec.md:60`).
* `nc` - `commDistributeMatrix` never sets `mLocal->nc`, in either build;
  `matrixConvertfromMM` copies it and `commLocalization` adds the number of
  externals. The vectors sized with it need not span the halo (`main.c:262`).
* `gap` - a rank's range is read off its first and last entry; an empty row at
  its end belongs to nobody, against "Every rank gets a consecutive number of rows"
  (`MPI-Algorithm.md:27`). `FilledIsConsecutive` says for which files it holds.
* `rowless` - for a rank without rows `scanMM` leaves the offset unwritten and
  still yields a count, so "No matrix entries received" need not be noticed.

`HaloSetup` assumes consecutive rows and an `nc` that starts as the number of owned rows, as the
generator produces them; for Matrix Market files `nc`, `gap` and `rowless` say when
that is not so.

## 4. Proofs

What is proved, for all values of the constants that satisfy the named assumptions. The
modules' ASSUMEs are the only hypotheses; TLC evaluates each in the runs of its module.

| Theorem | Statement | Assumes |
|---|---|---|
| `MMDistribute_proofs` | | `FilesAssumption`: lines are a non-empty sequence of positions in the file's rows and columns |
| `Invariance`, `TypeCorrect` | `[]Inv`, `[]TypeOK` | |
| `FilledConsecutive` | `[]FilledIsConsecutive` | |
| `RowsAsInFile` | `[]RowsOfTheFile` | |
| `HaloSetup_proofs` | | `SetupAssumption`: the ranks' rows follow each other; the matrix is square |
| `Invariance`, `TypeCorrect` | `[]Inv`, `[]TypeOK` | |
| `ArraysOutliveSends` | `[]SendArraysAlive` | |
| `RightRankAsked` | `[]OwnersFound` | |
| `EntriesSurvive` | `[]RowsPreserved` | |
| `PlanIsRight` | `[]PlanEstablished` | |
| `HaloExchange_proofs` | | `PlansAssumption` (`PlanOK`), `BoundsAssumption` (bounds above 0) |
| `Invariance`, `TypeCorrect` | `[]IInv`, `[]TypeOK` | |
| `HaloIsFresh`, `ProductIsExact` | `[]HaloFresh`, `[]ProductExact` | |
| `BacklogIsBounded` | `[]BacklogBounded` | |
| `Implements` | `ImplementsDistSpMV` | |
| `SolverRun_proofs` | | `ParamsAssumption`: `itermax` above 0, as `solverResolve` makes sure; any exchange pattern |
| `TypeCorrect` | `[]TypeOK` | |
| `ColumnsAlwaysFit` | `[]ColumnsFit` | |
| `ContractKept` | `RanksKeepContract` | |
| `AlwaysInStep` | `[]InStep` | |
| `NoRankWaitsForever` | `[]NoCircularWait` | |
| `OutcomesAgree` | `[]SameOutcome` | |
| `ChebFD_proofs` | | `ToleranceAssumption`: defaults above 0; `ParametersAssumption`: `itermax` and `NS` are integers; `RowsAssumption`: the rows of the matrix are among those of the vectors |
| `OnlyAdmissibleRuns` | `[]AdmissibleRun` | |
| `TimesAreExact` | `[]TimersExact` | |
| `SearchSpaceTypes` | `[]TypeOK` | |
| `BasisIsOrthonormal` | `[]Orthonormal` | |
| `ReportIsSound` | `[]Reported` | |
| `VectorStream_proofs` | | `TilingAssumption`: tile sizes above 0; `ContextsAssumption`: the block has a row and a column (`gpu_vstream_init` refuses the other); `CallsAssumption`: entries on 1 to `NS` columns, a filter of degree 2 or more, as `solveChebFD` makes sure (`chebFDSolver.c:445`), an update that leaves 1 to `m` columns, as `chebOrthoCholQR2` makes sure; `NoneAssumption`: None is no buffer |
| `StreamInvariant`, `StreamTypes` | `[]StreamInv`, `[]TypeOK` | |
| `NoRaces` | `[]NoRace` | |
| `PartialsFit` | `[]PartialFits` | |
| `PassesArePipelines` | `PipelineKept` | |
| `BlocksInStep` | `[]InStep` | |
| `VectorMemory_proofs` | | the same, and `CoefficientsAssumption`: integer filter coefficients up to `Degree` |
| `MemoryInvariant` | `[]MemInv` | |
| `ResultsAreExact` | `[]ResultExact` | |
| `ScratchStaysFinite` | `[]ScratchFinite` | |
| `ClenshawIsTheFilter` | the filter of the device is that of the host, in every degree | |

`Square` is what `findExternalOwningRanks` takes for granted: it looks for a column among
the ranks' start *rows*. `PlanIsRight` says that every plan the setup ends in
satisfies `PlanOK`, whatever the matrix, MPI's orders and the row permutations are, so
the assumption of `HaloExchange_proofs` holds of the plans the program has.

**Distribution.** By row, and in a row by column one way or the other, the entries are in a
strict linear order, so each has its own number of entries in front of it, and the sorted
array has it there. The scan over it gives every rank a stretch
that ends where the next one begins (the cut of a rank is the number of entries of the
rows before it). `Inv` says what the master and each rank hold at each step
(`Typed`, `MasterInv`, `CountInv`, `PartInv`, `MatrixInv`): from the Scatterv on, a
rank with entries holds its stretch, and the rows from its first entry's to its last's. For a
file with entries in the first and last row of every rank, these are the rows of the
partition, which gives both properties.

**Setup.** First what a rank computes, as functions of the matrix and of the neighbour
list MPI gave it: externals sorted and each once, owners found, the buckets of
`reorderExternals` without gaps, displacements that tile, rows that split.
`Localization_proofs` has the algorithms: `SearchFinds` (the binary search ends at
the owner, also where ranks without rows share a start row), `BucketsFilled`, `PrefixSum`,
`SplitRowSplits`. Then `Inv`: every rank's variables are these functions once it is past
the step that computes them (`ExternalsInv`, `ListsInv`, `RowsInv`), a message MPI has not taken is posted by a rank that is still in its wait, and what MPI has
copied is what was in the array (`RequestsInv`); what has been received lies in the
destination's part of the elements, in global, local or permuted numbers by the step the
rank is at (`ElementsInv`); no list of neighbours exists before every rank has named its
edges (`GraphComplete`).
`PlanEstablished` is read off the final state: what a sender packs stands for what the
receiver's slots stand for, since both derive from the one list of the receiver.

**Exchange.** `HaloFresh` and `ProductExact` are not inductive: that the halo
is right after the wait depends on what was in flight before it. `IInv` adds

* `RequestInv` - a request is open only between begin and wait, and only towards
  the neighbours of the plan;
* `VectorInv` - owned slots hold the current vector, and from begin until the next
  one the send buffer holds it packed;
* `ChanInv` - an edge carries exactly the blocks of the exchanges its sender has
  handed to MPI (`Departed`) and its receiver has not got (`Arrived`), in order.
  The two counts can differ by more than one, since nothing but the data holds a
  sender back; the receiver's next block is still that of its own exchange;
* `HaloInv` - the segment of a source whose block has arrived is current;
* `ProductInv` - the chunks done hold local sums, a returned product is exact;
* `LagInv` - with reductions, nobody is past one that another rank has not entered.

Each action has a lemma that it preserves each conjunct it can disturb.
`EndExchange` is where the argument closes: no source is left, every halo slot
lies in some source's segment (`BuffersTiled`), so `HaloInv` speaks of all of it.
The refinement maps `BeginExchange` to `Start`, `Compute` to `Finish` (whose
guard, that every source has begun its own k-th product, comes from `ChanInv`:
what has arrived has departed), everything else to a stutter.

**Solvers.** `PlaceInv` says what one rank's variables are at each place of the code, and
needs no other rank: it gives the types, the columns of the Arnoldi basis, and the
refinement of `SolverContract`. That the ranks agree is about two of them: `CountInv` (a
rank is in the reduction the others are in, or has just left it) and `PathInv`, of every
pair (`OnePath`): they are at the same place with the same variables, or one is where the
result of the last reduction, and products, take it from where the other still is. A step of
one rank keeps it because its outcome is a function of its state and of the result all ranks
get. `InStep` and `SameOutcome` follow. `NoCircularWait` is safety too: there is always a rank
that waits for no other, and what its reduction has returned to others is something its own
code goes on from (`FitsInv`). That it then does go on is left to fairness.

**ChebFD.** `ParamInv`: a flag stands for both of its pair, whatever files have been read,
and past each check what it checks holds, NaN included. `TimesInv` follows the timer through
the loop: at each step which sections have the interval of this iteration, and which may be
pending on the device. The sections that are started again without a synchronisation are those
where nothing is pending - `filter` empties all at the head of the loop - which is why no
interval is read before it is complete. At the report an iteration that collapsed has two
sections less.

For the search space `ChebFD_proofs` first says what one step leaves in the cells,
for any rows, width and choice of columns. `RepackMoves`: cell `i` of the narrower block comes
from `Origin(i)`, and as `Origin(i) >= i` grows with `i`, an ascending repack never reads
a cell it has written (`MovedTo` is the array in the middle of it: new up to `t`, old from
there on). `OrthoLoopCompacts`: at column `k` the first `CountBelow(Kept, k)` columns are the
basis of the columns kept so far, the columns from `k` on are untouched. `JacobiSorts`: the
selection sort leaves the values ascending and a permutation of the directions with them
(`Eigen`), so the directions above the tolerance are its last ones (`LastDirections`) and
`CholQRKeeps` follows. `SpaceInv` has three parts: `SizesInv` (the width never grows, the rank
is its column count past the orthogonalisation, and the next width at the head of the loop),
`BlockInv` (what the block holds at each step; `Clean` is what the padding needs, that behind
the block there is old data but never a mixture) and `ResultInv` (the values kept are those
of `last`, which changes only with them, so a collapse in the next iteration leaves both).
TLC checked the three on the instance of the run before they were proved.

**Streams.** What orders the device is in the list of calls an entry makes, so the proof
is about these lists first. `SoundProgram` has three parts. `Guarded`: each copy and each
kernel has, a few calls before it, the wait that keeps it from the other stream's work on
its buffers. `Closed`: whatever is queued on a stream is followed by a synchronisation
with it. `Ensured`: no kernel has more partial sums than the first call of the entry made
room for. A guard lies within two rounds of a pass, so it carries over from the rounds to
any number of them (`GuardedJoin`, `GuardedFlatten`), and every entry is sound
(`EveryProgramIsSound`). It also puts, between any two operations on different streams
that share a buffer, a record behind the first and a wait for that event before the
second (`GuardedIsOrdered`). `StreamInv` then says how far an entry has come: each queue
is what its stream has not done yet of the calls made so far (`Line`), the records in it
are those not yet complete (`Counted`), and while a record is queued the waits made after
it are (`Held`). Of two operations at the heads of their queues one was called later; if they
shared a buffer, its wait would be done with the record still behind the other
(`HeadsApart`). That gives `NoRace`.

`PassesArePipelines` maps the records completed on the streams to loads and kernels, the
copies back to drains. It cannot be seen from the queues alone why a slot that is loaded again
is free: it follows from what the *program* queued before. So a program is read as a run of a
small automaton (`Trace`), which counts loads, kernels and drains, and of how many blocks the
copy stream has waited for the kernel (`seen`) and the compute stream for the load (`ready`);
`Allowed` is what a pass may queue at such a count. That every entry is a run of it which ends
with all blocks done is proved from the loops (`Planned`): one round of `colBlockPipeline` or
`rowChunkPipeline` takes `AtBlock(i)` to `AtBlock(i + 1)`, for any number of kernels in
between. Then each stream is at a place of its own in the run (`Behind`), the copies of the
host at a third, and `Staged` says what relates them: what has completed is what the run counts
at these places, and what one stream has waited for, the other has done. `PipeInv` is `Staged`
for the entry under way; every step of it is a step of `BlockPipeline` or a stutter. The
return needs `Closed` again: a host behind its last synchronisation has empty queues, so what
is done is what the run counts at its end. `BlocksInStep` is what `BlockPipeline` itself gives,
for every number of blocks: `drained <= computed <= loaded`, and never more than `NSLOT` apart
where a slot could be lost.

**What the streams compute.** `VectorMemory_proofs` goes on from `StreamInv`, in three parts.

*Any order is the serial one.* `M[j]` is memory after the first `j` calls of an entry, each
done before the next is made (`RunTo`). While the streams work, no state need be any `M[j]`: one
stream is ahead, the other behind. But each buffer for itself is at a place of the run: if the calls
that change `b` are done up to place `x` and not beyond (`Cut`), `mem[b] = M[x][b]` (`Serial`).
An operation that ends finds each buffer it reads or writes as `M` has it just before that call
(`HeadFinds`): whatever changes it earlier is done, since a queued one would stand
behind the wait that `GuardedIsOrdered` puts between the two; whatever changes it later is
still queued. So its result is `M`'s result (`SerialDone`), whatever the other stream did.

*The serial run.* What `M` is is told by claims (`ColDesc`, `RowDesc`): which blocks or chunks are
drained, which are loaded, and what the slots and registers hold. Each operation leads from one claim to
another (`LoadGives`, `DrainFits`, `AccumFits` ...), a round of a loop from one place to the next, and the
loops are chained over any number of rounds (`LeadsAll`). A column block holds `p(A')` of its
columns, with `p` a polynomial of integer coefficients; the columns beyond a partial block hold
no poison (`Calm`): a kernel over the full width finds there what was zeroed or loaded before. The registers of
the filter hold Clenshaw's sums; that these end in the polynomial of the host's recurrence is
`ClenshawIsTheFilter`, by way of the polynomials of the second kind. A chunk of rows is cut by the
tiles, sub-ranges and thread blocks of a launch into groups that are disjoint and miss no row
(`PiecesAre`), and the terms of a row are in no sum before its chunk (`TermsGrow`), so each row is
added once. The update in place reads a row before anything has been written over it:
chunk `i` goes back at the smaller stride, hence in front of the rows not yet read, which is what
the comment at `cuda_vector_stream.cu:704` argues.

*The invariant.* `MemInv`: between the entries the buffers are `Calm`; within one there is a
program, a place in it and a run `M` of it whose claims hold, and memory is `Serial`. When an entry
returns nothing is queued, so memory is the last `M` (`AtReturn`), and the last claim is
`ResultExact`. `ScratchFinite` holds at every moment, since every buffer is that of some `M[j]`. The
run `M` is not a state of the model, so the invariant is beyond TLC; what it implies
is what the run `streams` checks.

**Induction.** The provers cannot instantiate the library's induction theorems, whose parameter
is an operator. Where a proof needs induction (the searches, sums over ranks, the fill of a
bucket, the loops of the orthogonalisation, the repack and the sort) it takes the least counterexample of a set of naturals (`Least` in
`Localization_proofs`), and a recursive function is shown to exist by its value in closed form.

**Model-checked only.** Liveness (`AllDone`, `Terminates`, `Ends` of each module): fairness and
ENABLED are out of the prover's reach. Also `MatrixProduct`: a
row of a product is the sequence of terms a format's loops fold together, and what such a fold
computes for every matrix is induction over data, with operators for parameters.

## 5. Not modelled

* **Numbers.** Floating-point values and rounding: the order of a row's terms is kept,
  sums are not evaluated; the norms of a solver are classes, and overflow or underflow
  in them is left out, as is an MPI whose Allreduce returns different bits on different
  ranks. What ChebFD decides by them is a choice.
* **Widths of integers.** `nnz` is computed in `size_t` and stored in `CG_UINT`
  (`matrix.c:122`); the SCS kernels index a block of vectors with a 32-bit product
  (`col * numVecs + v` in `matrix-SCS.c`) where it is allocated with a `size_t` one.
  Both need matrices far beyond what TLC can hold. Binary files are modelled with
  32-bit indices: with 64-bit ones `matrixBinfile.c` counts `MPI_UNSIGNED` words of the wrong
  width, as its own FIXME says; complex values are left out as well.
* **A binary file that exists.** `matrixBinWrite` does not truncate it and takes the
  end of the file for the end of its header (`matrixBinfile.c:68`), so the matrix lands
  behind the old one. No document says what writing over a file should do.
* **ScaMaC** (`matrixScamac.c`, `ext/scamac`): vendored, and most of the lines of the
  repository; the wrapper copies its rows. **mmio.c**: third-party.
* **Output and options**: the registry's look-up by name, results printed, dumps,
  the profiler's sums, the other keys and options, affinity, allocation, markers.
* **GPU vector kernels** (`cuda_vector_ops.cu`): element-wise, or a library's
  reduction. The unstreamed Gram and residual kernels are only called by a test;
  `sectionTimerSetStream` by nobody. Prefetching and byte counts of a context are left out.
* **Exits**: the master on a bad file, and a process that dies (MPI aborts the run).
* **Inside a step**: threads of one host loop iteration write what no other does; a thread
  block is executed at once.

The repository's own code is about a third of its lines, the rest is vendored or
generated (`ext/`, tables of a random number generator, example matrices).

## 6. Plan

Done: `ExchangePlan`, `Localization`, `HaloSetup`, `HaloExchange`, `DistSpMV`,
`MMDistribute`, `SolverRun` with `SolverContract`; `VectorStream` with `BlockPipeline`;
`ChebFD` with `SearchBlock` and `SectionTimer`; `MatrixProduct` with the sources, the formats
and the device kernels; their runs and findings, and proofs of every safety property of all but
the last. What is left is to prove more of it: **MatrixProduct**, the permutation of SELL-C-sigma and
its chunk offsets first.
