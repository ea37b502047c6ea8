---------------------------- MODULE Localization ----------------------------
(***************************************************************************)
(* The rank-local computations of commLocalization (comm.c), as functions. *)
(*                                                                         *)
(* A is the distributed GMatrix: A.start[r] and A.nr[r] delimit the rows   *)
(* of rank r, and A.rows[g] is the sequence of global columns stored in    *)
(* row g, in entry order.  A coefficient is named by its global column, so *)
(* a localized entry is [col |-> local column, val |-> global column].     *)
(* Arrays over externals are sequences (first element at 1); vector slots  *)
(* and displacements count from 0 as in the code.                          *)
(***************************************************************************)
EXTENDS Integers, SequencesExt

StopRow(A, r) == A.start[r] + A.nr[r] - 1

IsExternal(A, r, c) == c < A.start[r] \/ c > StopRow(A, r)

\* How many members of S are smaller than i: the counter of a loop over S.
CountBelow(S, i) == Cardinality({k \in S : k < i})

\* The members of a finite set of integers in ascending order.
Ascending(S) == [n \in 1 .. Cardinality(S) |-> CHOOSE i \in S : CountBelow(S, i) = n - 1]

\* The external columns of r's rows.
ExternalColumns(A, r) ==
  {c \in UNION {ToSet(A.rows[g]) : g \in A.start[r] .. StopRow(A, r)} : IsExternal(A, r, c)}

\* Collect the external columns, sort them, drop duplicates.
IdentifyExternals(A, r) == Ascending(ExternalColumns(A, r))

\* (Fault) < where a rank's first row has to count as its own.
OwningRankStrict(A, g) ==
  LET last == Cardinality(DOMAIN A.start) - 1
      search[open \in (0 .. last + 1) \X (-1 .. last)] ==
        LET left  == open[1]
            right == open[2]
            mid   == left + (right - left) \div 2
        IN  IF left > right THEN left - 1
            ELSE IF A.start[mid] < g THEN search[<<mid + 1, right>>]
            ELSE search[<<left, mid - 1>>]
  IN  search[<<0, last>>]

\* (Fault) The end of the search taken for its result.
OwningRankNext(A, g) == OwningRankStrict(A, g + 1) + 1

\* The binary search over the gathered start rows; open is the part left .. right
\* still to be searched.
OwningRank(A, g) ==
  LET last == Cardinality(DOMAIN A.start) - 1
      search[open \in (0 .. last + 1) \X (-1 .. last)] ==
        LET left  == open[1]
            right == open[2]
            mid   == left + (right - left) \div 2
        IN  IF left > right THEN left - 1
            ELSE IF A.start[mid] <= g THEN search[<<mid + 1, right>>]
            ELSE search[<<left, mid - 1>>]
  IN  search[<<0, last>>]

FindOwners(A, ext) == [i \in DOMAIN ext |-> OwningRank(A, ext[i])]

\* recvFromNeighbors: how many of the externals rank q owns.
RecvFrom(own, q) == Cardinality({i \in DOMAIN own : own[i] = q})

\* The running sum of the counts before the i-th.
Prefix(counts, i) ==
  LET cursor[n \in 0 .. Len(counts)] == IF n = 0 THEN 0 ELSE cursor[n - 1] + counts[n]
  IN  cursor[i - 1]

\* reorderExternals: external i goes into the bucket of its owner, buckets in
\* the order of the sources list, externals in a bucket in their old order.
ExtLocalIndex(nr, own, sources, recvCounts) ==
  [i \in DOMAIN own |->
     LET b == CHOOSE b \in DOMAIN sources : sources[b] = own[i]
     IN  nr + Prefix(recvCounts, b) + CountBelow({k \in DOMAIN own : own[k] = own[i]}, i)]

\* extLocalToGlobalReordered[extLocalIndex[i] - numRows] = extLocalToGlobal[i].
Reordered(nr, ext, idx) ==
  [s \in 1 .. Len(ext) |-> ext[CHOOSE i \in DOMAIN ext : idx[i] - nr = s - 1]]

\* localizeMatrix on one row.
LocalizeRow(A, r, row, ext, idx) ==
  [j \in DOMAIN row |->
     [col |-> IF IsExternal(A, r, row[j])
              THEN idx[CHOOSE i \in DOMAIN ext : ext[i] = row[j]]
              ELSE row[j] - A.start[r],
      val |-> row[j]]]

\* (Fault) Externals filled in from the back.
SplitRowFromBack(nr, row) ==
  LET local == {j \in DOMAIN row : row[j].col < nr}
      order == Ascending(local) \o Reverse(Ascending(DOMAIN row \ local))
  IN  [entries |-> [n \in DOMAIN row |-> row[order[n]]], localEnd |-> Cardinality(local)]

\* reorderMatrixForOverlap on one localized row: locals to the front, externals
\* behind them, both in their old order; with rowLocalEnd.
SplitRow(nr, row) ==
  LET local == {j \in DOMAIN row : row[j].col < nr}
      order == Ascending(local) \o Ascending(DOMAIN row \ local)
  IN  [entries |-> [n \in DOMAIN row |-> row[order[n]]], localEnd |-> Cardinality(local)]
=============================================================================
