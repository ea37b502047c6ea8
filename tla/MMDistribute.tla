---------------------------- MODULE MMDistribute ----------------------------
(***************************************************************************)
(* How a Matrix Market file becomes the distributed GMatrix that HaloSetup *)
(* starts from: initMatrix (main.c) has the master read the file and every *)
(* rank go through commDistributeMatrix (comm.c), matrixConvertfromMM      *)
(* (matrix.c) and the first lines of commLocalization.                     *)
(*                                                                         *)
(* Bcast, Scatter and Scatterv have rank 0 as their root: the root does    *)
(* not wait for the others, the others wait for the root.  An entry is     *)
(* <<row, column>>; numeric values only travel with it.                    *)
(***************************************************************************)
EXTENDS Localization

CONSTANTS
  Size,       \* number of MPI processes
  Files,      \* the files a run may start from: [nr, sym, lines]
  Leftover,   \* integers that memory nobody has written may hold
  None        \* not there yet

Ranks == 0 .. Size - 1

\* lines is the sequence of distinct 1-based <<row, column>> pairs of the file.
ASSUME FilesAssumption ==
  /\ Size \in Nat \ {0}
  /\ Leftover \subseteq Int /\ Leftover # {}
  /\ \A f \in Files :
       /\ f.nr \in Nat
       /\ f.lines \in Seq((1 .. f.nr) \X (1 .. f.nr)) /\ f.lines # <<>>

VARIABLES
  file,        \* the file
  pc,          \* [Ranks -> step]
  entries,     \* the master's sorted MMEntry array
  sendcounts,  \* the master's [Ranks -> count]
  senddispls,  \* the master's [Ranks -> offset]
  totalNr,     \* [Ranks -> rows of the whole matrix]
  count,       \* [Ranks -> entries to receive]
  mm,          \* [Ranks -> mLocal: startRow, nr, nc, entries]
  m            \* [Ranks -> GMatrix: startRow, nr, nc, rows]

vars == <<file, pc, entries, sendcounts, senddispls, totalNr, count, mm, m>>

Steps == <<"read", "bcast", "scatter", "scatterv", "convert", "localize", "done", "aborted">>
StepNo(s) == CHOOSE i \in DOMAIN Steps : Steps[i] = s
Past(q, s) == StepNo(pc[q]) > StepNo(s)

Goto(r, s) == pc' = [pc EXCEPT ![r] = s]

\* A collective with root 0: others get the data once the root has sent it.
FromRoot(r, s) == r = 0 \/ Past(0, s)

Running == \A r \in Ranks : pc[r] # "aborted"

-----------------------------------------------------------------------------
(* The helpers.                                                            *)

\* The entries of a file: 0-based, the mirror image added for symmetric ones.
FileEntries(f) ==
  LET stored == {<<l[1] - 1, l[2] - 1>> : l \in ToSet(f.lines)}
  IN  stored \cup {e \in {<<s[2], s[1]>> : s \in stored} : f.sym}

\* Sorted by row.  The second qsort is stable where it is a merge sort; where it
\* is not the columns of a row come in another order.
Before(d, e, ascending) ==
  \/ d[1] < e[1]
  \/ d[1] = e[1] /\ IF ascending[e[1]] THEN d[2] < e[2] ELSE d[2] > e[2]

SortedByRow(E, ascending) ==
  [n \in 1 .. Cardinality(E) |->
     CHOOSE e \in E : Cardinality({d \in E : Before(d, e, ascending)}) = n - 1]

SizeOfRank(r, N) == N \div Size + (IF N % Size > r THEN 1 ELSE 0)

\* scanMM for rows startRow .. stopRow: the first entry of startRow - what the
\* caller's array held where there is none - and the distance from there to
\* the first entry of stopRow + 1 or past the last entry.
ScanOffset(e, startRow, held) ==
  LET at == {i \in DOMAIN e : e[i][1] = startRow}
  IN  IF at = {} THEN held ELSE Min(at) - 1

\* (Fault) Stopping at the last row instead of behind it.
ScanCountShort(e, stopRow, offset) ==
  LET next == {i \in DOMAIN e : e[i][1] = stopRow}
  IN  IF next = {} THEN Len(e) - offset ELSE Min(next) - 1 - offset

ScanCount(e, stopRow, offset) ==
  LET next == {i \in DOMAIN e : e[i][1] = stopRow + 1}
  IN  IF next = {} THEN Len(e) - offset ELSE Min(next) - 1 - offset

\* calculateMMSendCounts: rank i's rows follow those of the ranks before it.
FirstRow(r, N) == Prefix([i \in 1 .. Size |-> SizeOfRank(i - 1, N)], r + 1)
LastRow(r, N)  == FirstRow(r, N) + SizeOfRank(r, N) - 1

SendDispls(e, N, held) == [r \in Ranks |-> ScanOffset(e, FirstRow(r, N), held[r])]
SendCounts(e, N, held) ==
  [r \in Ranks |-> ScanCount(e, LastRow(r, N), SendDispls(e, N, held)[r])]

\* (Fault) Rows counted from the matrix's first row, not the rank's.
RowsOfGlobal(e, startRow, nr) ==
  [i \in 0 .. nr - 1 |->
     LET at == {j \in DOMAIN e : e[j][1] = i}
     IN  [k \in 1 .. Cardinality(at) |-> e[k][2]]]

\* (Fault) One row too many, as the row pointers have one entry more.
RowsOfPlusOne(e, startRow, nr) ==
  [i \in 0 .. nr |-> [j \in DOMAIN e |-> e[j][2]]]

\* Row i of a rank's CRS: the next valsPerRow[i] entries of its part.
RowsOf(e, startRow, nr) ==
  LET valsPerRow(i) == Cardinality({j \in DOMAIN e : e[j][1] - startRow = i})
      rowPtr(i) == Cardinality({j \in DOMAIN e : e[j][1] - startRow < i})
  IN  [i \in 0 .. nr - 1 |-> [k \in 1 .. valsPerRow(i) |-> e[rowPtr(i) + k][2]]]

-----------------------------------------------------------------------------
Init ==
  /\ file \in Files
  /\ pc = [r \in Ranks |-> IF r = 0 THEN "read" ELSE "bcast"]
  /\ entries = None
  /\ sendcounts = None /\ senddispls = None
  /\ totalNr = [r \in Ranks |-> None]
  /\ count = [r \in Ranks |-> None]
  /\ mm = [r \in Ranks |-> None]
  /\ m = [r \in Ranks |-> None]

\* MMMatrixRead, on the master.
Read ==
  /\ Running /\ pc[0] = "read"
  /\ \E ascending \in [0 .. file.nr - 1 -> BOOLEAN] :
       entries' = SortedByRow(FileEntries(file), ascending)
  /\ Goto(0, "bcast")
  /\ UNCHANGED <<file, sendcounts, senddispls, totalNr, count, mm, m>>

\* The sizes of the matrix; the master then cuts its entries.
Bcast(r) ==
  /\ Running /\ pc[r] = "bcast"
  /\ FromRoot(r, "bcast")
  /\ totalNr' = [totalNr EXCEPT ![r] = file.nr]
  /\ IF r = 0
     THEN \E held \in [Ranks -> Leftover] :
            /\ senddispls' = SendDispls(entries, file.nr, held)
            /\ sendcounts' = SendCounts(entries, file.nr, held)
     ELSE UNCHANGED <<sendcounts, senddispls>>
  /\ Goto(r, "scatter")
  /\ UNCHANGED <<file, entries, count, mm, m>>

Scatter(r) ==
  /\ Running /\ pc[r] = "scatter"
  /\ FromRoot(r, "scatter")
  /\ count' = [count EXCEPT ![r] = sendcounts[r]]
  /\ Goto(r, "scatterv")
  /\ UNCHANGED <<file, entries, sendcounts, senddispls, totalNr, mm, m>>

\* A part MPI can send: inside the array.  Anything else ends the run.
ValidPart(r) ==
  /\ count[r] > 0
  /\ senddispls[r] >= 0
  /\ senddispls[r] + count[r] <= Len(entries)

\* Scatterv, and the rank's row range, read off its first and last entry.
\* mLocal->nc is not assigned.
Scatterv(r) ==
  LET part == SubSeq(entries, senddispls[r] + 1, senddispls[r] + count[r])
  IN  /\ Running /\ pc[r] = "scatterv"
      /\ FromRoot(r, "scatterv")
      /\ ValidPart(r)
      /\ \E nc \in Leftover :
           mm' = [mm EXCEPT ![r] =
                    [startRow |-> part[1][1], nr |-> part[count[r]][1] - part[1][1] + 1,
                     nc |-> nc, entries |-> part]]
      /\ Goto(r, "convert")
      /\ UNCHANGED <<file, entries, sendcounts, senddispls, totalNr, count, m>>

\* (Fault) Only an empty part noticed.
AbortWhenEmpty(r) ==
  /\ Running /\ pc[r] = "scatterv"
  /\ FromRoot(r, "scatterv")
  /\ count[r] = 0
  /\ Goto(r, "aborted")
  /\ UNCHANGED <<file, entries, sendcounts, senddispls, totalNr, count, mm, m>>

\* "No matrix entries received", or an error of MPI_Scatterv: commAbort.
Abort(r) ==
  /\ Running /\ pc[r] = "scatterv"
  /\ FromRoot(r, "scatterv")
  /\ ~ValidPart(r)
  /\ Goto(r, "aborted")
  /\ UNCHANGED <<file, entries, sendcounts, senddispls, totalNr, count, mm, m>>

\* matrixConvertfromMM.
Convert(r) ==
  /\ Running /\ pc[r] = "convert"
  /\ m' = [m EXCEPT ![r] =
             [startRow |-> mm[r].startRow, nr |-> mm[r].nr, nc |-> mm[r].nc,
              rows |-> RowsOf(mm[r].entries, mm[r].startRow, mm[r].nr)]]
  /\ Goto(r, "localize")
  /\ UNCHANGED <<file, entries, sendcounts, senddispls, totalNr, count, mm>>

\* The rank's part of the distributed matrix, as Localization looks at it.
Part(r) ==
  [start |-> [q \in {r} |-> m[q].startRow],
   nr    |-> [q \in {r} |-> m[q].nr],
   rows  |-> [g \in m[r].startRow .. m[r].startRow + m[r].nr - 1 |->
                m[r].rows[g - m[r].startRow]]]

Externals(r) == IdentifyExternals(Part(r), r)

\* commLocalization as far as the size of the vectors goes: nc += extCount, after
\* the collectives that wait for every rank.
Localize(r) ==
  /\ Running /\ pc[r] = "localize"
  /\ \A q \in Ranks : Past(q, "convert")
  /\ m' = [m EXCEPT ![r].nc = @ + Len(Externals(r))]
  /\ Goto(r, "done")
  /\ UNCHANGED <<file, entries, sendcounts, senddispls, totalNr, count, mm>>

AllDone == \A r \in Ranks : pc[r] = "done"

Finished ==
  /\ AllDone \/ ~Running
  /\ UNCHANGED vars

RankStep(r) ==
  \/ Bcast(r) \/ Scatter(r) \/ Scatterv(r) \/ Abort(r) \/ Convert(r) \/ Localize(r)

Next ==
  \/ Read
  \/ \E r \in Ranks : RankStep(r)
  \/ Finished

Spec == Init /\ [][Next]_vars

\* Every rank keeps running.
FairSpec ==
  /\ Spec
  /\ WF_vars(Read)
  /\ \A r \in Ranks : WF_vars(RankStep(r))

-----------------------------------------------------------------------------
(* Properties.                                                             *)

TypeOK ==
  /\ file \in Files
  /\ pc \in [Ranks -> ToSet(Steps)]
  /\ totalNr \in [Ranks -> {file.nr, None}]
  /\ \A r \in Ranks :
       /\ mm[r] # None => mm[r].nr \in 1 .. file.nr /\ mm[r].startRow \in 0 .. file.nr - 1
       /\ m[r] # None => DOMAIN m[r].rows = 0 .. mm[r].nr - 1

\* "Every rank gets a consecutive number of rows" (MPI-Algorithm.md): the row
\* ranges start at row 0, follow each other without gap and end at the last row
\* of the file - what the owner search of commLocalization relies on.
ConsecutiveRows ==
  AllDone =>
    /\ m[0].startRow = 0
    /\ \A r \in Ranks :
         m[r].startRow + m[r].nr = IF r + 1 \in Ranks THEN m[r + 1].startRow ELSE file.nr

\* Every rank's range has rows, and entries in its first and in its last one:
\* scanMM finds both ends.
BoundaryRowsFilled ==
  LET filled == {e[1] : e \in FileEntries(file)}
  IN  \A r \in Ranks : FirstRow(r, file.nr) \in filled /\ LastRow(r, file.nr) \in filled

\* For such a file the distribution is a partition of its rows.
FilledIsConsecutive == BoundaryRowsFilled => ConsecutiveRows

\* For such a file each row a rank got holds the columns the file has in that row,
\* each once, empty rows inside a range included.
RowsOfTheFile ==
  BoundaryRowsFilled =>
    \A r \in Ranks : m[r] # None =>
      \A i \in 0 .. m[r].nr - 1 :
        /\ ToSet(m[r].rows[i]) =
             {e[2] : e \in {f \in FileEntries(file) : f[1] = m[r].startRow + i}}
        /\ IsInjective(m[r].rows[i])

\* "Input vectors must span nc (locals + externals after localization)" (main.c).
VectorsSpanSlots ==
  AllDone => \A r \in Ranks : m[r].nc = m[r].nr + Len(Externals(r))

\* A rank for which the matrix has no rows stops with "No matrix entries received"
\* (comm.c) and does not go on.
RowlessRankStops ==
  \A r \in Ranks : SizeOfRank(r, file.nr) = 0 => mm[r] = None

\* The distribution ends on every rank, in the matrix or in commAbort.
Ends == <>(AllDone \/ ~Running)
=============================================================================
