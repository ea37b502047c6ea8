-------------------------- MODULE HaloSetup_proofs --------------------------
(***************************************************************************)
(* The setup of the communication hands the solvers a plan on which a halo *)
(* exchange is exact, whatever the matrix, the number of ranks, the orders *)
(* in which MPI lists neighbours and completes requests, and the           *)
(* permutation a matrix format sorts its rows by.                          *)
(*                                                                         *)
(* The first part says what the ranks compute, as functions of the matrix  *)
(* and of the neighbour list a rank was given; the second that the         *)
(* messages carry just that; the third reads the plan off the final state. *)
(***************************************************************************)
EXTENDS HaloSetup, Localization_proofs

(***************************************************************************)
(* What a rank computes from the matrix and its neighbour list.            *)
(***************************************************************************)

\* The externals of r, their owners, and how many they are.
ExtOf(M, r) == IdentifyExternals(M, r)
OwnOf(M, r) == FindOwners(M, ExtOf(M, r))
ExtCount(M, r) == Cardinality(ExternalColumns(M, r))

\* The neighbours of r either way.
SourcesOf(M, r) == {s \in Procs : RecvFrom(OwnOf(M, r), s) > 0}
DestsOf(M, q) == {r \in Procs : q \in SourcesOf(M, r)}

\* The counts that go with a list of them.
RecvCountsOf(M, r, list) == [i \in DOMAIN list |-> RecvFrom(OwnOf(M, r), list[i])]
SendCountsOf(M, q, list) == [i \in DOMAIN list |-> RecvFrom(OwnOf(M, list[i]), q)]

\* The halo slot of each external, and the order r asks for them in.
IndexOf(M, r, list) == ExtLocalIndex(M.nr[r], OwnOf(M, r), list, RecvCountsOf(M, r, list))
NeedOf(M, r, list) == Reordered(M.nr[r], ExtOf(M, r), IndexOf(M, r, list))

\* The ranks start in order, and the rows of one end where those of the next start.
LEMMA RowsFollow ==
  ASSUME NEW M \in Matrices
  PROVE  /\ Size \in Nat /\ Size - 1 \in Nat
         /\ M.start \in [0 .. Size - 1 -> Nat] /\ M.nr \in [0 .. Size - 1 -> Nat]
         /\ M.start[0] = 0
         /\ StartsAscend(M.start, Size - 1)
         /\ \A r \in 0 .. Size - 1 : r + 1 \in 0 .. Size - 1 => M.start[r + 1] = M.start[r] + M.nr[r]
<1>1. Size \in Nat /\ Size - 1 \in Nat /\ Procs = 0 .. Size - 1
  BY SetupAssumption DEF Procs
<1>2. /\ M.start \in [0 .. Size - 1 -> Nat] /\ M.nr \in [0 .. Size - 1 -> Nat]
      /\ M.start[0] = 0
      /\ \A r \in 0 .. Size - 1 : r + 1 \in 0 .. Size - 1 => M.start[r + 1] = M.start[r] + M.nr[r]
  BY <1>1, SetupAssumption DEF RowPartition
<1>3. \A r \in 0 .. (Size - 1) - 1 : M.start[r] <= M.start[r + 1]
  <2>1. TAKE r \in 0 .. (Size - 1) - 1
  <2>2. r \in 0 .. Size - 1 /\ r + 1 \in 0 .. Size - 1
    BY <1>1
  <2>3. M.start[r + 1] = M.start[r] + M.nr[r] /\ M.start[r] \in Nat /\ M.nr[r] \in Nat
    BY <1>2, <2>2
  <2> QED BY <2>3
<1>4. StartsAscend(M.start, Size - 1)
  BY <1>1, <1>2, <1>3, StepsAscend
<1> QED BY <1>1, <1>2, <1>4

\* A rank that starts no later than a row, when the later ranks start after it,
\* has that row.
LEMMA OwnerHasRow ==
  ASSUME NEW M \in Matrices, NEW g \in GlobalRows(M), NEW o \in 0 .. Size - 1,
         M.start[o] <= g, \A r \in 0 .. Size - 1 : o < r => g < M.start[r]
  PROVE  g \in M.start[o] .. StopRow(M, o)
<1>1. /\ Size \in Nat /\ Size - 1 \in Nat
      /\ M.start \in [0 .. Size - 1 -> Nat] /\ M.nr \in [0 .. Size - 1 -> Nat]
      /\ \A r \in 0 .. Size - 1 : r + 1 \in 0 .. Size - 1 => M.start[r + 1] = M.start[r] + M.nr[r]
  BY RowsFollow
<1>2. M.start[o] \in Nat /\ M.nr[o] \in Nat /\ o \in Int
  BY <1>1
<1>3. Size - 1 \in 0 .. Size - 1
  BY <1>1
<1>4. M.start[Size - 1] \in Nat /\ M.nr[Size - 1] \in Nat
  BY <1>1, <1>3
<1>5. g \in Int /\ g <= M.start[Size - 1] + M.nr[Size - 1] - 1
  BY <1>4 DEF GlobalRows
<1>6. g <= M.start[o] + M.nr[o] - 1
  <2>1. CASE o = Size - 1
    BY <2>1, <1>5
  <2>2. CASE o # Size - 1
    <3>1. o + 1 \in 0 .. Size - 1 /\ o < o + 1
      BY <2>2, <1>1
    <3>2. g < M.start[o + 1] /\ M.start[o + 1] = M.start[o] + M.nr[o]
      BY <3>1, <1>1
    <3> QED BY <3>2, <1>2, <1>5
  <2> QED BY <2>1, <2>2
<1> QED BY <1>2, <1>5, <1>6 DEF StopRow

\* A rank's rows are global rows.
LEMMA OwnRowsGlobal ==
  ASSUME NEW M \in Matrices, NEW r \in Procs, NEW g \in M.start[r] .. StopRow(M, r)
  PROVE  g \in GlobalRows(M) /\ g \in Nat
<1>1. /\ Size \in Nat /\ Size - 1 \in Nat
      /\ M.start \in [0 .. Size - 1 -> Nat] /\ M.nr \in [0 .. Size - 1 -> Nat]
      /\ StartsAscend(M.start, Size - 1)
      /\ \A p \in 0 .. Size - 1 : p + 1 \in 0 .. Size - 1 => M.start[p + 1] = M.start[p] + M.nr[p]
  BY RowsFollow
<1>2. r \in 0 .. Size - 1 /\ r \in Int /\ Size - 1 \in 0 .. Size - 1
  BY <1>1 DEF Procs
<1>3. M.start[r] \in Nat /\ M.nr[r] \in Nat /\ M.start[Size - 1] \in Nat /\ M.nr[Size - 1] \in Nat
  BY <1>1, <1>2
<1>4. g \in Int /\ M.start[r] <= g /\ g <= M.start[r] + M.nr[r] - 1
  BY <1>3 DEF StopRow
<1>5. M.start[r] + M.nr[r] <= M.start[Size - 1] + M.nr[Size - 1]
  <2>1. CASE r = Size - 1
    BY <2>1, <1>3
  <2>2. CASE r # Size - 1
    <3>1. r + 1 \in 0 .. Size - 1 /\ r + 1 <= Size - 1
      BY <2>2, <1>1, <1>2
    <3>2. M.start[r + 1] = M.start[r] + M.nr[r]
      BY <3>1, <1>1, <1>2
    <3>3. M.start[r + 1] <= M.start[Size - 1]
      BY <3>1, <1>1, <1>2 DEF StartsAscend
    <3> QED BY <3>2, <3>3, <1>3
  <2> QED BY <2>1, <2>2
<1> QED BY <1>3, <1>4, <1>5 DEF GlobalRows

\* What a rank's rows refer to beyond its own rows is a finite set of global rows.
LEMMA ExternalsAreRows ==
  ASSUME NEW M \in Matrices, NEW r \in Procs
  PROVE  /\ IsFiniteSet(ExternalColumns(M, r))
         /\ \A c \in ExternalColumns(M, r) : c \in GlobalRows(M) /\ c \in Nat /\ IsExternal(M, r, c)
<1>1. \A c \in ExternalColumns(M, r) : c \in GlobalRows(M) /\ IsExternal(M, r, c)
  <2>1. TAKE c \in ExternalColumns(M, r)
  <2>2. IsExternal(M, r, c)
    BY DEF ExternalColumns
  <2>3. PICK g \in M.start[r] .. StopRow(M, r) : c \in ToSet(M.rows[g])
    BY DEF ExternalColumns
  <2>4. M.rows[g] \in Seq(GlobalRows(M))
    BY OwnRowsGlobal, SetupAssumption DEF Square
  <2>5. c \in GlobalRows(M)
    BY <2>3, <2>4 DEF ToSet
  <2> QED BY <2>2, <2>5
<1>2. Size - 1 \in 0 .. Size - 1 /\ M.start \in [0 .. Size - 1 -> Nat] /\ M.nr \in [0 .. Size - 1 -> Nat]
  BY RowsFollow
<1>3. M.start[Size - 1] + M.nr[Size - 1] - 1 \in Int
  BY <1>2
<1>4. IsFiniteSet(GlobalRows(M)) /\ \A c \in GlobalRows(M) : c \in Nat
  BY <1>3, FS_Interval DEF GlobalRows
<1>5. IsFiniteSet(ExternalColumns(M, r))
  BY <1>1, <1>4, FS_Subset, Zenon
<1> QED BY <1>1, <1>4, <1>5

\* identifyExternals lists them in ascending order, each once.
LEMMA ExternalsListed ==
  ASSUME NEW M \in Matrices, NEW r \in Procs
  PROVE  /\ ExtCount(M, r) \in Nat
         /\ ExtOf(M, r) \in [1 .. ExtCount(M, r) -> ExternalColumns(M, r)]
         /\ Len(ExtOf(M, r)) = ExtCount(M, r)
         /\ \A i, j \in 1 .. ExtCount(M, r) : ExtOf(M, r)[i] = ExtOf(M, r)[j] => i = j
         /\ \A c \in ExternalColumns(M, r) : \E i \in 1 .. ExtCount(M, r) : ExtOf(M, r)[i] = c
<1> DEFINE S == ExternalColumns(M, r)
<1>1. IsFiniteSet(S) /\ \A c \in S : c \in Int
  BY ExternalsAreRows
<1>2. /\ Cardinality(S) \in Nat
      /\ Ascending(S) \in [1 .. Cardinality(S) -> S]
      /\ \A i, j \in 1 .. Cardinality(S) : Ascending(S)[i] = Ascending(S)[j] => i = j
      /\ \A c \in S : \E i \in 1 .. Cardinality(S) : Ascending(S)[i] = c
  <2> HIDE DEF S
  <2> QED BY <1>1, AscendingSorts
<1>3. Len(Ascending(S)) = Cardinality(S)
  <2> HIDE DEF S
  <2> QED BY <1>2, LengthOf
<1> QED BY <1>2, <1>3, Zenon DEF ExtOf, IdentifyExternals, ExtCount

\* findExternalOwningRanks names the rank that has the row of each external.
LEMMA OwnersHaveRows ==
  ASSUME NEW M \in Matrices, NEW r \in Procs
  PROVE  /\ OwnOf(M, r) \in [1 .. ExtCount(M, r) -> Procs]
         /\ \A i \in 1 .. ExtCount(M, r) :
              ExtOf(M, r)[i] \in M.start[OwnOf(M, r)[i]] .. StopRow(M, OwnOf(M, r)[i])
<1> DEFINE n == ExtCount(M, r)
           x == ExtOf(M, r)
<1>1. n \in Nat /\ x \in [1 .. n -> ExternalColumns(M, r)]
  BY ExternalsListed
<1>2. OwnOf(M, r) = [i \in 1 .. n |-> OwningRank(M, x[i])]
  <2>1. DOMAIN x = 1 .. n
    BY <1>1
  <2> HIDE DEF n
  <2> QED BY <2>1 DEF OwnOf, FindOwners
<1>3. ASSUME NEW i \in 1 .. n
      PROVE  /\ OwningRank(M, x[i]) \in Procs
             /\ x[i] \in M.start[OwningRank(M, x[i])] .. StopRow(M, OwningRank(M, x[i]))
  <2> DEFINE g == x[i]
  <2>1. g \in GlobalRows(M) /\ g \in Nat
    BY <1>1, ExternalsAreRows
  <2>2. /\ Size - 1 \in Nat
        /\ M.start \in [0 .. Size - 1 -> Nat] /\ M.start[0] = 0
        /\ StartsAscend(M.start, Size - 1)
    BY RowsFollow
  <2> HIDE DEF g
  <2>3. /\ OwningRank(M, g) \in 0 .. Size - 1
        /\ M.start[OwningRank(M, g)] <= g
        /\ \A p \in 0 .. Size - 1 : OwningRank(M, g) < p => g < M.start[p]
    <3>1. M.start[0] <= g
      BY <2>1, <2>2
    <3> QED BY <2>1, <2>2, <3>1, SearchFinds
  <2>4. g \in M.start[OwningRank(M, g)] .. StopRow(M, OwningRank(M, g))
    BY <2>1, <2>3, OwnerHasRow
  <2> QED BY <2>3, <2>4 DEF g, Procs
<1> HIDE DEF n, x
<1> QED BY <1>2, <1>3 DEF n, x

\* How many externals each rank has: a count, positive where there is one.
LEMMA CountsCount ==
  ASSUME NEW M \in Matrices, NEW r \in Procs, NEW s
  PROVE  /\ RecvFrom(OwnOf(M, r), s) \in Nat
         /\ \A i \in 1 .. ExtCount(M, r) : OwnOf(M, r)[i] = s => RecvFrom(OwnOf(M, r), s) > 0
<1> DEFINE n == ExtCount(M, r)
           o == OwnOf(M, r)
           mine == {i \in 1 .. n : o[i] = s}
<1>1. n \in Nat /\ DOMAIN o = 1 .. n
  BY ExternalsListed, OwnersHaveRows
<1>2. IsFiniteSet(mine)
  <2>1. IsFiniteSet(1 .. n) /\ mine \in SUBSET (1 .. n)
    BY <1>1, IntervalSize, Zenon
  <2> QED BY <2>1, FS_Subset, Zenon
<1>3. RecvFrom(o, s) = Cardinality(mine)
  BY <1>1, Zenon DEF RecvFrom
<1>4. Cardinality(mine) \in Nat /\ (mine # {} => Cardinality(mine) > 0)
  <2> HIDE DEF mine
  <2> QED BY <1>2, FS_CardinalityType, FS_EmptySet
<1>5. \A i \in 1 .. n : o[i] = s => mine # {}
  OBVIOUS
<1> QED BY <1>3, <1>4, <1>5

\* The list of sources, in any order, sorts the externals into buckets.
LEMMA SourcesBucket ==
  ASSUME NEW M \in Matrices, NEW r \in Procs, NEW list \in Orders(SourcesOf(M, r))
  PROVE  /\ Len(list) \in Nat
         /\ list \in [1 .. Len(list) -> SourcesOf(M, r)]
         /\ \A i, j \in 1 .. Len(list) : list[i] = list[j] => i = j
         /\ \A q \in SourcesOf(M, r) : \E i \in 1 .. Len(list) : list[i] = q
         /\ RecvCountsOf(M, r, list) \in [1 .. Len(list) -> Nat]
         /\ \A i \in 1 .. Len(list) : RecvCountsOf(M, r, list)[i] > 0
         /\ Bucketed(ExtCount(M, r), OwnOf(M, r), Len(list), list, RecvCountsOf(M, r, list))
<1> DEFINE S == SourcesOf(M, r)
           m == Len(list)
           n == ExtCount(M, r)
           o == OwnOf(M, r)
           counts == RecvCountsOf(M, r, list)
<1>1. IsFiniteSet(S)
  <2>1. IsFiniteSet(Procs) /\ S \in SUBSET Procs
    <3>1. Size - 1 \in Int
      BY RowsFollow
    <3> QED BY <3>1, FS_Interval DEF Procs, SourcesOf
  <2> QED BY <2>1, FS_Subset, Zenon
<1>2. /\ m \in Nat
      /\ list \in [1 .. m -> S]
      /\ \A i, j \in 1 .. m : list[i] = list[j] => i = j
      /\ \A q \in S : \E i \in 1 .. m : list[i] = q
  <2> HIDE DEF S
  <2>1. list \in SetToSeqs(S)
    BY DEF Orders, S
  <2> QED BY <1>1, <2>1, ListNames
<1>3. counts = [i \in 1 .. m |-> RecvFrom(o, list[i])]
  <2>1. DOMAIN list = 1 .. m
    BY <1>2
  <2> HIDE DEF m
  <2> QED BY <2>1 DEF RecvCountsOf
<1>4. \A i \in 1 .. m : RecvFrom(o, list[i]) \in Nat /\ RecvFrom(o, list[i]) > 0
  <2>1. \A i \in 1 .. m : list[i] \in S
    BY <1>2
  <2>2. \A s \in S : RecvFrom(o, s) > 0
    BY DEF SourcesOf
  <2>3. \A s : RecvFrom(o, s) \in Nat
    BY CountsCount
  <2> HIDE DEF m, S, o
  <2> QED BY <2>1, <2>2, <2>3
<1>5. counts \in [1 .. m -> Nat] /\ \A i \in 1 .. m : counts[i] > 0
  <2> HIDE DEF m, o, counts
  <2> QED BY <1>3, <1>4
<1>6. Bucketed(n, o, m, list, counts)
  <2>1. DOMAIN o = 1 .. n /\ \A i \in 1 .. n : o[i] \in Procs
    BY OwnersHaveRows
  <2>2. DOMAIN list = 1 .. m
    BY <1>2
  <2>3. \A b \in 1 .. m : counts[b] = RecvFrom(o, list[b])
    <3> HIDE DEF m, o, counts
    <3> QED BY <1>3
  <2>4. \A i \in 1 .. n : \E b \in 1 .. m : o[i] = list[b]
    <3>1. TAKE i \in 1 .. n
    <3>2. RecvFrom(o, o[i]) > 0
      BY CountsCount
    <3>3. o[i] \in S
      BY <2>1, <3>2 DEF SourcesOf
    <3> QED BY <1>2, <3>3
  <2> HIDE DEF n, o, m, counts
  <2> QED BY <1>2, <2>1, <2>2, <2>3, <2>4, Zenon DEF Bucketed
<1> QED BY <1>2, <1>5, <1>6

\* The halo slots take the externals one to one, and the list a rank sends the
\* sources names in its b-th block rows of the b-th source only.
LEMMA NeedSorted ==
  ASSUME NEW M \in Matrices, NEW r \in Procs, NEW list \in Orders(SourcesOf(M, r))
  PROVE  LET n      == ExtCount(M, r)
             m      == Len(list)
             nr     == M.nr[r]
             counts == RecvCountsOf(M, r, list)
             idx    == IndexOf(M, r, list)
             need   == NeedOf(M, r, list)
         IN  /\ Prefix(counts, m + 1) = n
             /\ idx \in [1 .. n -> nr .. nr + n - 1]
             /\ need \in [1 .. n -> GlobalRows(M)]
             /\ \A i \in 1 .. n : need[idx[i] - nr + 1] = ExtOf(M, r)[i]
             /\ \A b \in 1 .. m : \A k \in 1 .. counts[b] :
                  /\ Prefix(counts, b) + k \in 1 .. n
                  /\ need[Prefix(counts, b) + k] \in M.start[list[b]] .. StopRow(M, list[b])
<1> DEFINE n      == ExtCount(M, r)
           m      == Len(list)
           nr     == M.nr[r]
           o      == OwnOf(M, r)
           x      == ExtOf(M, r)
           counts == RecvCountsOf(M, r, list)
           idx    == IndexOf(M, r, list)
           need   == NeedOf(M, r, list)
<1>1. /\ n \in Nat
      /\ x \in [1 .. n -> ExternalColumns(M, r)]
      /\ Len(x) = n
      /\ \A c \in ExternalColumns(M, r) : c \in GlobalRows(M)
  BY ExternalsListed, ExternalsAreRows
<1>2. m \in Nat /\ counts \in [1 .. m -> Nat] /\ Bucketed(n, o, m, list, counts)
  BY SourcesBucket
<1>3. nr \in Nat
  <2>1. M.nr \in [0 .. Size - 1 -> Nat]
    BY RowsFollow
  <2> QED BY <2>1 DEF Procs
<1>4. Prefix(counts, m + 1) = n
  <2> HIDE DEF n, m, o, counts
  <2> QED BY <1>1, <1>2, BucketsAddUp
<1>5. /\ idx \in [1 .. n -> nr .. nr + n - 1]
      /\ \A i, j \in 1 .. n : idx[i] = idx[j] => i = j
      /\ \A s \in nr .. nr + n - 1 : \E i \in 1 .. n : idx[i] = s
      /\ \A i \in 1 .. n, b \in 1 .. m :
           o[i] = list[b] <=> idx[i] \in nr + Prefix(counts, b) .. nr + Prefix(counts, b) + counts[b] - 1
  <2>1. idx = ExtLocalIndex(nr, o, list, counts)
    BY DEF IndexOf
  <2> HIDE DEF n, m, nr, o, counts, idx
  <2>2. LET f == ExtLocalIndex(nr, o, list, counts)
        IN  /\ f \in [1 .. n -> nr .. nr + n - 1]
            /\ \A i, j \in 1 .. n : f[i] = f[j] => i = j
            /\ \A s \in nr .. nr + n - 1 : \E i \in 1 .. n : f[i] = s
            /\ \A i \in 1 .. n, b \in 1 .. m :
                 o[i] = list[b] <=> f[i] \in nr + Prefix(counts, b)
                                             .. nr + Prefix(counts, b) + counts[b] - 1
    <3>1. n \in Nat /\ m \in Nat /\ nr \in Nat
      BY <1>1, <1>2, <1>3
    <3>2. counts \in [1 .. m -> Nat] /\ Bucketed(n, o, m, list, counts)
      BY <1>2
    <3> QED BY ZenonT(30), <3>1, <3>2, BucketsFilled
  <2> QED BY <2>1, <2>2, Zenon
<1>6. need = [s \in 1 .. n |-> x[CHOOSE i \in 1 .. n : idx[i] - nr = s - 1]]
  <2>1. DOMAIN x = 1 .. n
    BY <1>1
  <2>2. need = Reordered(nr, x, idx)
    BY DEF NeedOf
  <2> HIDE DEF n, nr, x, idx, need
  <2> QED BY <1>1, <2>1, <2>2 DEF Reordered
<1>7. \A i \in 1 .. n : idx[i] \in Int /\ idx[i] - nr + 1 \in 1 .. n /\ need[idx[i] - nr + 1] = x[i]
  <2> HIDE DEF n, nr, x, idx, need
  <2>1. TAKE i \in 1 .. n
  <2>2. idx[i] \in nr .. nr + n - 1
    BY <1>5
  <2>3. idx[i] \in Int /\ idx[i] - nr + 1 \in 1 .. n
    BY <2>2, <1>1, <1>3
  <2>4. (CHOOSE j \in 1 .. n : idx[j] - nr = (idx[i] - nr + 1) - 1) = i
    <3>1. \A j \in 1 .. n : idx[j] - nr = (idx[i] - nr + 1) - 1 => idx[j] = idx[i]
      <4>1. TAKE j \in 1 .. n
      <4>2. idx[j] \in Int /\ idx[i] \in Int /\ nr \in Int
        BY <1>5, <1>1, <1>3
      <4> QED BY <4>2
    <3>2. idx[i] - nr = (idx[i] - nr + 1) - 1
      BY <2>3, <1>3
    <3> QED BY <3>1, <3>2, <1>5
  <2> QED BY <2>3, <2>4, <1>6
<1>8. \A s \in 1 .. n : \E i \in 1 .. n : idx[i] - nr + 1 = s
  <2> HIDE DEF n, nr, idx
  <2>1. TAKE s \in 1 .. n
  <2>2. nr + s - 1 \in nr .. nr + n - 1
    BY <1>1, <1>3
  <2>3. PICK i \in 1 .. n : idx[i] = nr + s - 1
    BY <2>2, <1>5
  <2>4. idx[i] - nr + 1 = s
    BY <2>3, <1>3
  <2> QED BY <2>4
<1>9. need \in [1 .. n -> GlobalRows(M)]
  <2>1. \A s \in 1 .. n : need[s] \in GlobalRows(M)
    <3> HIDE DEF n, nr, x, idx, need
    <3>1. TAKE s \in 1 .. n
    <3>2. PICK i \in 1 .. n : idx[i] - nr + 1 = s
      BY <1>8
    <3>3. need[s] = x[i]
      BY <3>2, <1>7
    <3>4. x[i] \in GlobalRows(M)
      BY <1>1
    <3> QED BY <3>3, <3>4
  <2> HIDE DEF n, nr, x, idx, need
  <2> QED BY <1>6, <2>1
<1>10. ASSUME NEW b \in 1 .. m, NEW k \in 1 .. counts[b]
       PROVE  /\ Prefix(counts, b) + k \in 1 .. n
              /\ need[Prefix(counts, b) + k] \in M.start[list[b]] .. StopRow(M, list[b])
  <2> DEFINE d == Prefix(counts, b)
  <2>1. d \in Nat /\ d + counts[b] <= n /\ counts[b] \in Nat
    <3>1. /\ Prefix(counts, b) \in Nat /\ Prefix(counts, b + 1) = Prefix(counts, b) + counts[b]
      <4> HIDE DEF m, counts
      <4>1. b \in 1 .. m + 1
        BY <1>2
      <4> QED BY <4>1, <1>2, PrefixSum
    <3>2. Prefix(counts, b + 1) <= Prefix(counts, m + 1)
      <4> HIDE DEF m, counts
      <4>1. b + 1 \in 1 .. m + 1 /\ m + 1 \in 1 .. m + 1 /\ b + 1 <= m + 1
        BY <1>2
      <4> QED BY <4>1, <1>2, PrefixGrows
    <3>3. counts[b] \in Nat
      BY <1>2
    <3> HIDE DEF m, counts, n
    <3> QED BY <3>1, <3>2, <3>3, <1>4
  <2> HIDE DEF d
  <2>2. k \in Int /\ 1 <= k /\ k <= counts[b]
    BY <2>1
  <2>3. d + k \in 1 .. n
    <3> HIDE DEF n, counts
    <3> QED BY <2>1, <2>2, <1>1
  <2>4. PICK i \in 1 .. n : idx[i] - nr + 1 = d + k
    <3> HIDE DEF n, counts, idx, nr
    <3> QED BY <2>3, <1>8
  <2>5. idx[i] \in nr + d .. nr + d + counts[b] - 1
    <3> HIDE DEF n, counts, idx, nr
    <3>1. idx[i] \in Int /\ nr \in Int /\ d \in Int /\ counts[b] \in Int
      BY <1>7, <1>3, <2>1
    <3>2. idx[i] = nr + d + (k - 1)
      BY <3>1, <2>2, <2>4
    <3> QED BY <3>1, <3>2, <2>2
  <2>6. o[i] = list[b]
    <3> HIDE DEF n, m, counts, idx, nr, o
    <3> QED BY <2>5, <1>5 DEF d
  <2>7. x[i] \in M.start[o[i]] .. StopRow(M, o[i])
    BY OwnersHaveRows
  <2>8. need[d + k] = x[i]
    <3> HIDE DEF n, m, counts, idx, nr, o, need, x
    <3> QED BY <2>4, <1>7
  <2> QED BY <2>3, <2>6, <2>7, <2>8 DEF d
<1> HIDE DEF n, m, nr, o, x, counts, idx, need
<1>11. /\ Prefix(counts, m + 1) = n
       /\ idx \in [1 .. n -> nr .. nr + n - 1]
       /\ need \in [1 .. n -> GlobalRows(M)]
       /\ \A i \in 1 .. n : need[idx[i] - nr + 1] = x[i]
       /\ \A b \in 1 .. m : \A k \in 1 .. counts[b] :
            /\ Prefix(counts, b) + k \in 1 .. n
            /\ need[Prefix(counts, b) + k] \in M.start[list[b]] .. StopRow(M, list[b])
  BY <1>4, <1>5, <1>7, <1>9, <1>10
<1> QED BY <1>11, Zenon DEF n, m, nr, o, x, counts, idx, need

(***************************************************************************)
(* The inductive invariant: what each rank has computed so far, and what   *)
(* the messages under way hold.                                            *)
(***************************************************************************)

\* The steps from a certain one on.
Converted == {"remap", "done"}
Exchanged == Converted \cup {"convert"}
Posted    == Exchanged \cup {"wait"}
Localized == Posted \cup {"post"}
Listed    == Localized \cup {"localize"}
Graphed   == Listed \cup {"graph"}
Gathered  == Graphed \cup {"gather"}

\* The rows a rank has after localizeMatrix and reorderMatrixForOverlap, and what
\* a permutation of the rows makes of their columns.
SplitRowsOf(M, r, list) ==
  [i \in 0 .. M.nr[r] - 1 |->
     SplitRow(M.nr[r], LocalizeRow(M, r, M.rows[M.start[r] + i], ExtOf(M, r), IndexOf(M, r, list)))]

\* The rows after the permutation f.
Renumbered(split, nr, f) == [i \in 0 .. nr - 1 |-> RenumberRow(split[i], nr, f)]

\* What r tells source q that it needs.
Message(M, r, list, q) ==
  [k \in 1 .. RecvCountsOf(M, r, list)[IndexIn(list, q)] |->
     NeedOf(M, r, list)[Prefix(RecvCountsOf(M, r, list), IndexIn(list, q)) + k]]

\* Where q keeps what destination r told it.
Place(M, q, list, r, k) == Prefix(SendCountsOf(M, q, list), IndexIn(list, r)) + k - 1

\* What has become of a global row in the elements of q.
Sent(q, g) ==
  IF pc[q] = "wait" THEN g
  ELSE IF pc[q] = "done" THEN perm[q][g - A.start[q]]
  ELSE g - A.start[q]

\* The types that a step needs to be evaluated at all.
Typed ==
  /\ A \in Matrices
  /\ pc \in [Procs -> {"identify"} \cup Gathered]
  /\ request \in [Procs \X Procs -> {"none", "posted", "buffered", "received"}]
  /\ nc \in [Procs -> Nat]
  /\ DOMAIN ext = Procs /\ DOMAIN own = Procs /\ DOMAIN sources = Procs /\ DOMAIN dests = Procs
  /\ DOMAIN needed = Procs /\ DOMAIN rows = Procs /\ DOMAIN elements = Procs
  /\ DOMAIN perm = Procs /\ DOMAIN wire = Procs \X Procs

\* Every rank has named its edges before any list of neighbours exists.
GraphComplete == \A r, q \in Procs : pc[r] \in Listed => pc[q] \in Graphed

\* The columns and owners a rank has are those of the matrix.
ExternalsInv(r) ==
  /\ pc[r] \in Gathered => ext[r] = ExtOf(A, r)
  /\ own[r] = IF pc[r] \in Graphed THEN OwnOf(A, r) ELSE <<>>

\* The neighbour lists are orders of the neighbours the matrix gives a rank.
ListsInv(r) ==
  IF pc[r] \in Listed
  THEN sources[r] \in Orders(SourcesOf(A, r)) /\ dests[r] \in Orders(DestsOf(A, r))
  ELSE sources[r] = <<>> /\ dests[r] = <<>>

\* The localized matrix follows from the list of sources.
RowsInv(r) ==
  /\ nc[r] = IF pc[r] \in Localized THEN A.nr[r] + ExtCount(A, r) ELSE A.nr[r]
  /\ pc[r] \in {"post", "wait"} => needed[r] = NeedOf(A, r, sources[r])
  /\ pc[r] \in {"post", "wait", "convert"} => rows[r] = SplitRowsOf(A, r, sources[r])
  /\ pc[r] \in Converted =>
       /\ perm[r] \in [OldRows(r) -> OldRows(r)] /\ IsInjective(perm[r])
       /\ rows[r] = Renumbered(SplitRowsOf(A, r, sources[r]), A.nr[r], perm[r])

\* A message is under way between neighbours only, its array lives as long as MPI
\* may read it, and what MPI has copied is what was in it.
RequestsInv(r) ==
  \A q \in Procs :
    /\ request[<<r, q>>] # "none" => pc[r] \in Posted /\ q \in ToSet(sources[r])
    /\ request[<<r, q>>] = "posted" => pc[r] = "wait"
    /\ request[<<r, q>>] = "buffered" => wire[<<r, q>>] = Message(A, r, sources[r], q)
    /\ request[<<r, q>>] = "received" => pc[q] \in Posted

\* What a rank has received it keeps in the destination's part of its elements.
ElementsInv(q) ==
  /\ pc[q] \in Posted =>
       /\ elements[q] = [n \in 0 .. Prefix(SendCountsOf(A, q, dests[q]), Len(dests[q]) + 1) - 1
                           |-> elements[q][n]]
       /\ \A r \in ToSet(dests[q]) : request[<<r, q>>] = "received" =>
            \A k \in 1 .. RecvFrom(OwnOf(A, r), q) :
              elements[q][Place(A, q, dests[q], r, k)] = Sent(q, Message(A, r, sources[r], q)[k])
  /\ pc[q] \in Exchanged => \A r \in ToSet(dests[q]) : request[<<r, q>>] = "received"

RankInv(r) ==
  ExternalsInv(r) /\ ListsInv(r) /\ RowsInv(r) /\ RequestsInv(r) /\ ElementsInv(r)

\* The inductive invariant.
Inv == Typed /\ GraphComplete /\ \A r \in Procs : RankInv(r)

\* The steps come in their order.
LEMMA StepOrder ==
  /\ StepNo("identify") = 1 /\ StepNo("gather") = 2 /\ StepNo("graph") = 3
  /\ StepNo("localize") = 4 /\ StepNo("post") = 5 /\ StepNo("wait") = 6
  /\ StepNo("convert") = 7 /\ StepNo("remap") = 8 /\ StepNo("done") = 9
<1>1. /\ DOMAIN Steps = 1 .. 9
      /\ Steps[1] = "identify" /\ Steps[2] = "gather" /\ Steps[3] = "graph"
      /\ Steps[4] = "localize" /\ Steps[5] = "post" /\ Steps[6] = "wait"
      /\ Steps[7] = "convert" /\ Steps[8] = "remap" /\ Steps[9] = "done"
  BY DEF Steps
<1>2. \A i \in 1 .. 9 : i \in {1, 2, 3, 4, 5, 6, 7, 8, 9}
  OBVIOUS
<1> QED BY <1>1, <1>2 DEF StepNo

\* How far a rank has come, by the step it is at.
LEMMA ReachedSteps ==
  ASSUME Typed, NEW q \in Procs
  PROVE  /\ Reached(q, "gather") <=> pc[q] \in Gathered
         /\ Reached(q, "graph") <=> pc[q] \in Graphed
         /\ Reached(q, "post") <=> pc[q] \in Localized
         /\ Reached(q, "wait") <=> pc[q] \in Posted
<1>1. pc[q] \in {"identify", "gather", "graph", "localize", "post", "wait", "convert", "remap", "done"}
  BY DEF Typed, Gathered, Graphed, Listed, Localized, Posted, Exchanged, Converted
<1> QED BY <1>1, StepOrder DEF Reached, Gathered, Graphed, Listed, Localized, Posted, Exchanged, Converted

\* The steps a rank can be at.
LEMMA StepSets ==
  /\ Posted = {"wait", "convert", "remap", "done"}
  /\ Localized = {"post", "wait", "convert", "remap", "done"}
  /\ Listed = {"localize", "post", "wait", "convert", "remap", "done"}
  /\ Graphed = {"graph", "localize", "post", "wait", "convert", "remap", "done"}
  /\ Gathered = {"gather", "graph", "localize", "post", "wait", "convert", "remap", "done"}
  /\ Exchanged = {"convert", "remap", "done"}
  /\ Converted = {"remap", "done"}
  /\ {"identify"} \cup Gathered
       = {"identify", "gather", "graph", "localize", "post", "wait", "convert", "remap", "done"}
BY DEF Gathered, Graphed, Listed, Localized, Posted, Exchanged, Converted

\* Before anything is done, nothing is known.
LEMMA InitInv == Init => Inv
<1> SUFFICES ASSUME Init PROVE Inv
  OBVIOUS
<1>1. A \in Matrices /\ A.nr \in [Procs -> Nat]
  BY RowsFollow DEF Init, Procs
<1>2. Typed
  BY <1>1 DEF Init, Typed
<1>3. \A r \in Procs : pc[r] = "identify"
  BY DEF Init
<1>4. GraphComplete
  BY <1>3, StepSets DEF GraphComplete
<1>5. ASSUME NEW r \in Procs PROVE RankInv(r)
  <2>1. ExternalsInv(r) /\ ListsInv(r) /\ RowsInv(r)
    BY <1>3, StepSets DEF Init, ExternalsInv, ListsInv, RowsInv
  <2>2. RequestsInv(r)
    BY DEF Init, RequestsInv
  <2>3. ElementsInv(r)
    BY <1>3, StepSets DEF ElementsInv
  <2> QED BY <2>1, <2>2, <2>3 DEF RankInv
<1> QED BY <1>2, <1>4, <1>5 DEF Inv

\* The lists name the neighbours the matrix gives a rank, and no other.
LEMMA ListedRanks ==
  ASSUME Inv, NEW r \in Procs, pc[r] \in Listed
  PROVE  /\ ToSet(sources[r]) = SourcesOf(A, r) /\ SourcesOf(A, r) \subseteq Procs
         /\ ToSet(dests[r]) = DestsOf(A, r) /\ DestsOf(A, r) \subseteq Procs
         /\ sources[r] \in Orders(SourcesOf(A, r)) /\ dests[r] \in Orders(DestsOf(A, r))
<1>1. IsFiniteSet(Procs)
  <2>1. Size - 1 \in Int
    BY RowsFollow DEF Inv, Typed
  <2> QED BY <2>1, FS_Interval DEF Procs
<1>2. sources[r] \in Orders(SourcesOf(A, r)) /\ dests[r] \in Orders(DestsOf(A, r))
  BY DEF Inv, RankInv, ListsInv
<1>3. ASSUME NEW S, S \subseteq Procs, NEW list \in Orders(S)
      PROVE  ToSet(list) = S
  <2>1. IsFiniteSet(S)
    BY <1>1, <1>3, FS_Subset
  <2>2. /\ list \in [1 .. Cardinality(S) -> S]
        /\ \A q \in S : \E i \in 1 .. Cardinality(S) : list[i] = q
    BY <2>1, ListNames DEF Orders
  <2> QED BY <2>2 DEF ToSet
<1>4. SourcesOf(A, r) \subseteq Procs /\ DestsOf(A, r) \subseteq Procs
  BY DEF SourcesOf, DestsOf
<1> QED BY <1>2, <1>3, <1>4

\* Nothing of rank r changes.
SameAt(r) ==
  /\ A' = A
  /\ pc'[r] = pc[r] /\ ext'[r] = ext[r] /\ own'[r] = own[r] /\ sources'[r] = sources[r]
  /\ dests'[r] = dests[r] /\ needed'[r] = needed[r] /\ rows'[r] = rows[r] /\ nc'[r] = nc[r]
  /\ elements'[r] = elements[r] /\ perm'[r] = perm[r]

\* A rank keeps what the invariant says of its externals, its lists and its rows
\* while it does nothing itself.
LEMMA OwnPartKept ==
  ASSUME NEW r \in Procs, SameAt(r), RankInv(r)
  PROVE  ExternalsInv(r)' /\ ListsInv(r)' /\ RowsInv(r)'
<1>1. ExternalsInv(r)'
  BY DEF SameAt, RankInv, ExternalsInv
<1>2. ListsInv(r)'
  BY DEF SameAt, RankInv, ListsInv
<1>3. RowsInv(r)'
  BY DEF SameAt, RankInv, RowsInv, OldRows
<1> QED BY <1>1, <1>2, <1>3

\* The same of its messages, when no message moves.
LEMMA MessagesKept ==
  ASSUME NEW r \in Procs, RequestsInv(r), A' = A, pc'[r] = pc[r], sources'[r] = sources[r],
         \A q \in Procs : /\ request'[<<r, q>>] = request[<<r, q>>]
                          /\ wire'[<<r, q>>] = wire[<<r, q>>]
                          /\ pc[q] \in Posted => pc'[q] \in Posted
  PROVE  RequestsInv(r)'
BY DEF RequestsInv

\* And of what it has received.
LEMMA ElementsKept ==
  ASSUME NEW q \in Procs, ElementsInv(q), A' = A, pc'[q] = pc[q], dests'[q] = dests[q],
         elements'[q] = elements[q], perm'[q] = perm[q],
         \A r \in ToSet(dests[q]) :
           pc[q] \in Posted =>
             /\ request'[<<r, q>>] = "received" <=> request[<<r, q>>] = "received"
             /\ request[<<r, q>>] = "received" => sources'[r] = sources[r]
  PROVE  ElementsInv(q)'
<1>1. pc[q] \in Exchanged => pc[q] \in Posted
  BY StepSets
<1> QED BY <1>1 DEF ElementsInv, Sent

\* A step of another rank that moves no message leaves everything said of r true.
LEMMA OtherKept ==
  ASSUME Inv, NEW r \in Procs, SameAt(r), request' = request, wire' = wire,
         \A q \in Procs : pc[q] \in Posted => pc'[q] \in Posted /\ sources'[q] = sources[q]
  PROVE  RankInv(r)'
<1>1. RankInv(r)
  BY DEF Inv
<1>2. RequestsInv(r)'
  BY <1>1, MessagesKept DEF SameAt, RankInv
<1>3. \A q \in ToSet(dests[r]) :
        pc[r] \in Posted => (request[<<q, r>>] = "received" => sources'[q] = sources[q])
  <2> SUFFICES ASSUME NEW q \in ToSet(dests[r]), pc[r] \in Posted, request[<<q, r>>] = "received"
               PROVE  sources'[q] = sources[q]
    OBVIOUS
  <2>1. q \in Procs
    BY ListedRanks, StepSets
  <2>2. pc[q] \in Posted
    BY <2>1 DEF Inv, RankInv, RequestsInv
  <2> QED BY <2>1, <2>2
<1>4. ElementsInv(r)'
  BY <1>1, <1>3, ElementsKept DEF SameAt, RankInv
<1> QED BY <1>1, <1>2, <1>4, OwnPartKept DEF RankInv

\* A step of rank p that moves no message: it is enough to look at p.
LEMMA LocalStep ==
  ASSUME Inv, NEW p \in Procs, Typed', A' = A, request' = request, wire' = wire,
         \A r \in Procs : r # p => SameAt(r),
         RankInv(p)',
         pc[p] \in Posted => pc'[p] \in Posted /\ sources'[p] = sources[p],
         pc[p] \in Graphed => pc'[p] \in Graphed,
         pc'[p] \in Listed => \A q \in Procs : pc[q] \in Graphed
  PROVE  Inv'
<1>1. \A q \in Procs : pc[q] \in Posted => pc'[q] \in Posted /\ sources'[q] = sources[q]
  BY DEF SameAt
<1>2. ASSUME NEW r \in Procs PROVE RankInv(r)'
  <2>1. CASE r = p
    BY <2>1
  <2>2. CASE r # p
    BY <2>2, <1>1, OtherKept
  <2> QED BY <2>1, <2>2
<1>3. GraphComplete'
  <2> SUFFICES ASSUME NEW r \in Procs, NEW q \in Procs, pc'[r] \in Listed
               PROVE  pc'[q] \in Graphed
    BY DEF GraphComplete
  <2>1. pc[q] \in Graphed
    BY DEF SameAt, Inv, GraphComplete
  <2> QED BY <2>1 DEF SameAt
<1> QED BY <1>2, <1>3 DEF Inv

\* Step 1 names the external columns.
LEMMA IdentifyInv ==
  ASSUME Inv, NEW p \in Procs, Identify(p)
  PROVE  Inv'
<1>1. /\ pc[p] = "identify" /\ pc'[p] = "gather"
      /\ A' = A /\ request' = request /\ wire' = wire
      /\ ext'[p] = ExtOf(A, p)
      /\ own'[p] = own[p] /\ sources'[p] = sources[p] /\ dests'[p] = dests[p]
      /\ nc'[p] = nc[p]
  BY DEF Identify, Goto, Inv, Typed, ExtOf
<1>2. \A r \in Procs : r # p => SameAt(r)
  BY DEF Identify, Goto, Inv, Typed, SameAt
<1>3. Typed'
  BY StepSets DEF Identify, Goto, Inv, Typed
<1>4. RankInv(p)'
  <2>1. RankInv(p)
    BY DEF Inv
  <2>2. ExternalsInv(p)'
    BY <1>1, <2>1, StepSets DEF RankInv, ExternalsInv
  <2>3. ListsInv(p)'
    BY <1>1, <2>1, StepSets DEF RankInv, ListsInv
  <2>4. RowsInv(p)'
    BY <1>1, <2>1, StepSets DEF RankInv, RowsInv
  <2>5. RequestsInv(p)'
    BY <1>1, <2>1, StepSets DEF RankInv, RequestsInv
  <2>6. ElementsInv(p)'
    BY <1>1, <2>1, StepSets DEF RankInv, ElementsInv
  <2> QED BY <2>2, <2>3, <2>4, <2>5, <2>6 DEF RankInv
<1>5. /\ pc[p] \notin Posted /\ pc[p] \notin Graphed /\ pc'[p] \notin Listed
  BY <1>1, StepSets
<1> QED BY <1>1, <1>2, <1>3, <1>4, <1>5, LocalStep

\* Step 2 finds their owners.
LEMMA FindOwningRanksInv ==
  ASSUME Inv, NEW p \in Procs, FindOwningRanks(p)
  PROVE  Inv'
<1>1. /\ pc[p] = "gather" /\ pc'[p] = "graph"
      /\ A' = A /\ request' = request /\ wire' = wire
      /\ ext'[p] = ext[p] /\ own'[p] = FindOwners(A, ext[p])
      /\ sources'[p] = sources[p] /\ dests'[p] = dests[p]
      /\ nc'[p] = nc[p]
  BY DEF FindOwningRanks, Goto, Inv, Typed
<1>2. \A r \in Procs : r # p => SameAt(r)
  BY DEF FindOwningRanks, Goto, Inv, Typed, SameAt
<1>3. Typed'
  BY StepSets DEF FindOwningRanks, Goto, Inv, Typed
<1>4. RankInv(p)'
  <2>1. RankInv(p)
    BY DEF Inv
  <2>2. ExternalsInv(p)'
    BY <1>1, <2>1, StepSets DEF RankInv, ExternalsInv, OwnOf
  <2>3. ListsInv(p)'
    BY <1>1, <2>1, StepSets DEF RankInv, ListsInv
  <2>4. RowsInv(p)'
    BY <1>1, <2>1, StepSets DEF RankInv, RowsInv
  <2>5. RequestsInv(p)'
    BY <1>1, <2>1, StepSets DEF RankInv, RequestsInv
  <2>6. ElementsInv(p)'
    BY <1>1, <2>1, StepSets DEF RankInv, ElementsInv
  <2> QED BY <2>2, <2>3, <2>4, <2>5, <2>6 DEF RankInv
<1>5. /\ pc[p] \notin Posted /\ pc'[p] \in Graphed /\ pc'[p] \notin Listed
  BY <1>1, StepSets
<1> QED BY <1>1, <1>2, <1>3, <1>4, <1>5, LocalStep

\* Once every rank has named its edges, everybody's owners are known.
LEMMA EverybodysOwners ==
  ASSUME Inv, NEW r \in Procs, pc[r] \in Listed \/ \A q \in Procs : Reached(q, "graph")
  PROVE  \A q \in Procs : /\ pc[q] \in Graphed
                          /\ ext[q] = ExtOf(A, q)
                          /\ own[q] = OwnOf(A, q)
                          /\ SourceSet(q) = SourcesOf(A, q)
<1>1. TAKE q \in Procs
<1>2. pc[q] \in Graphed /\ pc[q] \in Gathered
  BY ReachedSteps, StepSets DEF Inv, GraphComplete
<1>3. ext[q] = ExtOf(A, q) /\ own[q] = OwnOf(A, q)
  BY <1>2 DEF Inv, RankInv, ExternalsInv
<1> QED BY <1>2, <1>3 DEF SourceSet, SourcesOf

\* The counts that go with the lists are those the matrix gives.
LEMMA CountsKnown ==
  ASSUME Inv, NEW r \in Procs, pc[r] \in Listed
  PROVE  /\ RecvCounts(r) = RecvCountsOf(A, r, sources[r])
         /\ SendCounts(r) = SendCountsOf(A, r, dests[r])
<1>1. \A q \in Procs : own[q] = OwnOf(A, q)
  BY EverybodysOwners
<1>2. \A i \in DOMAIN dests[r] : dests[r][i] \in Procs
  BY ListedRanks DEF ToSet
<1> QED BY <1>1, <1>2 DEF RecvCounts, SendCounts, RecvCountsOf, SendCountsOf

\* MPI_Dist_graph_neighbors lists the neighbours.
LEMMA RetrieveTopologyInv ==
  ASSUME Inv, NEW p \in Procs, RetrieveTopology(p)
  PROVE  Inv'
<1>1. /\ pc[p] = "graph" /\ pc'[p] = "localize"
      /\ A' = A /\ request' = request /\ wire' = wire
      /\ ext'[p] = ext[p] /\ own'[p] = own[p] /\ nc'[p] = nc[p]
  BY DEF RetrieveTopology, Goto, Inv, Typed
<1>2. \A r \in Procs : r # p => SameAt(r)
  BY DEF RetrieveTopology, Goto, Inv, Typed, SameAt
<1>3. Typed'
  BY StepSets DEF RetrieveTopology, Goto, Inv, Typed
<1>4. \A q \in Procs : pc[q] \in Graphed /\ SourceSet(q) = SourcesOf(A, q)
  BY EverybodysOwners DEF RetrieveTopology
<1>5. {q \in Procs : p \in SourceSet(q)} = DestsOf(A, p)
  BY <1>4 DEF DestsOf
<1>6. RankInv(p)'
  <2>1. RankInv(p)
    BY DEF Inv
  <2>2. ExternalsInv(p)'
    BY <1>1, <2>1, StepSets DEF RankInv, ExternalsInv
  <2>3. ListsInv(p)'
    <3>1. sources'[p] \in Orders(SourcesOf(A, p)) /\ dests'[p] \in Orders(DestsOf(A, p))
      BY <1>4, <1>5 DEF RetrieveTopology, Inv, Typed
    <3> QED BY <1>1, <3>1, StepSets DEF ListsInv
  <2>4. RowsInv(p)'
    BY <1>1, <2>1, StepSets DEF RankInv, RowsInv
  <2>5. RequestsInv(p)'
    BY <1>1, <2>1, StepSets DEF RankInv, RequestsInv
  <2>6. ElementsInv(p)'
    BY <1>1, <2>1, StepSets DEF RankInv, ElementsInv
  <2> QED BY <2>2, <2>3, <2>4, <2>5, <2>6 DEF RankInv
<1>7. pc[p] \notin Posted /\ pc'[p] \in Graphed
  BY <1>1, StepSets
<1> QED BY <1>1, <1>2, <1>3, <1>4, <1>6, <1>7, LocalStep

\* Step 3 renumbers the columns.
LEMMA ReorderAndLocalizeInv ==
  ASSUME Inv, NEW p \in Procs, ReorderAndLocalize(p)
  PROVE  Inv'
<1> DEFINE idx == ExtLocalIndex(A.nr[p], own[p], sources[p], RecvCounts(p))
<1>1. /\ pc[p] = "localize" /\ pc'[p] = "post"
      /\ A' = A /\ request' = request /\ wire' = wire
      /\ ext'[p] = ext[p] /\ own'[p] = own[p] /\ nc'[p] = nc[p] + Len(ext[p])
      /\ sources'[p] = sources[p] /\ dests'[p] = dests[p]
      /\ needed'[p] = Reordered(A.nr[p], ext[p], idx)
      /\ rows'[p] = [i \in OldRows(p) |->
           SplitRow(A.nr[p], LocalizeRow(A, p, A.rows[A.start[p] + i], ext[p], idx))]
  BY DEF ReorderAndLocalize, Goto, Inv, Typed
<1>2. \A r \in Procs : r # p => SameAt(r)
  BY DEF ReorderAndLocalize, Goto, Inv, Typed, SameAt
<1>3. /\ ext[p] = ExtOf(A, p) /\ own[p] = OwnOf(A, p)
      /\ RecvCounts(p) = RecvCountsOf(A, p, sources[p])
  BY <1>1, EverybodysOwners, CountsKnown, StepSets
<1>4. Len(ext[p]) = ExtCount(A, p) /\ ExtCount(A, p) \in Nat
  BY <1>3, ExternalsListed DEF Inv, Typed
<1>5. nc[p] = A.nr[p]
  BY <1>1, StepSets DEF Inv, RankInv, RowsInv
<1>6. Typed'
  <2>1. nc' \in [Procs -> Nat]
    BY <1>4 DEF ReorderAndLocalize, Inv, Typed
  <2> QED BY <2>1, StepSets DEF ReorderAndLocalize, Goto, Inv, Typed
<1>7. RankInv(p)'
  <2>1. RankInv(p)
    BY DEF Inv
  <2>2. ExternalsInv(p)'
    BY <1>1, <2>1, StepSets DEF RankInv, ExternalsInv
  <2>3. ListsInv(p)'
    BY <1>1, <2>1, StepSets DEF RankInv, ListsInv
  <2>4. RowsInv(p)'
    <3>1. needed'[p] = NeedOf(A, p, sources[p])
      BY <1>1, <1>3 DEF NeedOf, IndexOf
    <3>2. rows'[p] = SplitRowsOf(A, p, sources[p])
      BY <1>1, <1>3 DEF SplitRowsOf, IndexOf, OldRows
    <3>3. nc'[p] = A.nr[p] + ExtCount(A, p)
      BY <1>1, <1>4, <1>5
    <3> QED BY <1>1, <3>1, <3>2, <3>3, StepSets DEF RowsInv
  <2>5. RequestsInv(p)'
    BY <1>1, <2>1, StepSets DEF RankInv, RequestsInv
  <2>6. ElementsInv(p)'
    BY <1>1, <2>1, StepSets DEF RankInv, ElementsInv
  <2> QED BY <2>2, <2>3, <2>4, <2>5, <2>6 DEF RankInv
<1>8. pc[p] \notin Posted /\ pc'[p] \in Graphed /\ pc[p] \in Listed
  BY <1>1, StepSets
<1>9. \A q \in Procs : pc[q] \in Graphed
  BY <1>8, EverybodysOwners
<1> QED BY <1>1, <1>2, <1>6, <1>7, <1>8, <1>9, LocalStep

\* The place of a neighbour in a list of neighbours.
LEMMA IndexFound ==
  ASSUME NEW m \in Nat, NEW S, NEW list \in [1 .. m -> S],
         \A i, j \in 1 .. m : list[i] = list[j] => i = j,
         NEW b \in 1 .. m
  PROVE  IndexIn(list, list[b]) = b
BY DEF IndexIn

\* A message consists of rows of the rank it goes to.
LEMMA MessageWanted ==
  ASSUME NEW M \in Matrices, NEW r \in Procs, NEW list \in Orders(SourcesOf(M, r)),
         NEW q \in SourcesOf(M, r)
  PROVE  /\ IndexIn(list, q) \in 1 .. Len(list) /\ list[IndexIn(list, q)] = q
         /\ RecvCountsOf(M, r, list)[IndexIn(list, q)] = RecvFrom(OwnOf(M, r), q)
         /\ RecvFrom(OwnOf(M, r), q) \in Nat
         /\ Message(M, r, list, q)
              \in [1 .. RecvFrom(OwnOf(M, r), q) -> M.start[q] .. StopRow(M, q)]
<1> DEFINE m == Len(list)
           counts == RecvCountsOf(M, r, list)
           need == NeedOf(M, r, list)
<1>1. /\ m \in Nat /\ list \in [1 .. m -> SourcesOf(M, r)]
      /\ \A i, j \in 1 .. m : list[i] = list[j] => i = j
      /\ \E i \in 1 .. m : list[i] = q
  BY SourcesBucket
<1>2. PICK b \in 1 .. m : list[b] = q
  BY <1>1
<1>3. IndexIn(list, q) = b
  <2> HIDE DEF m
  <2> QED BY <1>1, <1>2, IndexFound
<1>4. counts[b] = RecvFrom(OwnOf(M, r), q)
  BY <1>1, <1>2 DEF RecvCountsOf
<1>5. \A k \in 1 .. counts[b] : need[Prefix(counts, b) + k] \in M.start[q] .. StopRow(M, q)
  <2>1. \A c \in 1 .. m : \A k \in 1 .. counts[c] :
          need[Prefix(counts, c) + k] \in M.start[list[c]] .. StopRow(M, list[c])
    BY NeedSorted, Zenon
  <2> HIDE DEF m, counts, need
  <2> QED BY <2>1, <1>2
<1>6. Message(M, r, list, q) = [k \in 1 .. counts[b] |-> need[Prefix(counts, b) + k]]
  BY <1>3, Zenon DEF Message
<1>7. RecvFrom(OwnOf(M, r), q) \in Nat
  BY CountsCount
<1> HIDE DEF m, counts, need
<1>8. Message(M, r, list, q) \in [1 .. counts[b] -> M.start[q] .. StopRow(M, q)]
  BY <1>5, <1>6
<1> QED BY <1>2, <1>3, <1>4, <1>7, <1>8 DEF counts, m

\* The list of destinations and what each gets.
LEMMA DestsCount ==
  ASSUME NEW M \in Matrices, NEW q \in Procs, NEW list \in Orders(DestsOf(M, q))
  PROVE  /\ Len(list) \in Nat
         /\ list \in [1 .. Len(list) -> DestsOf(M, q)]
         /\ \A i, j \in 1 .. Len(list) : list[i] = list[j] => i = j
         /\ \A r \in DestsOf(M, q) : \E i \in 1 .. Len(list) : list[i] = r
         /\ SendCountsOf(M, q, list) \in [1 .. Len(list) -> Nat]
         /\ \A i \in 1 .. Len(list) : SendCountsOf(M, q, list)[i] = RecvFrom(OwnOf(M, list[i]), q)
<1> DEFINE S == DestsOf(M, q)
           m == Len(list)
           counts == SendCountsOf(M, q, list)
<1>1. IsFiniteSet(S)
  <2>1. IsFiniteSet(Procs) /\ S \in SUBSET Procs
    <3>1. Size - 1 \in Int
      BY RowsFollow
    <3> QED BY <3>1, FS_Interval DEF Procs, DestsOf
  <2> QED BY <2>1, FS_Subset, Zenon
<1>2. /\ m \in Nat
      /\ list \in [1 .. m -> S]
      /\ \A i, j \in 1 .. m : list[i] = list[j] => i = j
      /\ \A s \in S : \E i \in 1 .. m : list[i] = s
  <2> HIDE DEF S
  <2>1. list \in SetToSeqs(S)
    BY DEF Orders, S
  <2> QED BY <1>1, <2>1, ListNames
<1>3. counts = [i \in 1 .. m |-> RecvFrom(OwnOf(M, list[i]), q)]
  <2>1. DOMAIN list = 1 .. m
    BY <1>2
  <2> HIDE DEF m
  <2> QED BY <2>1 DEF SendCountsOf
<1>4. \A i \in 1 .. m : RecvFrom(OwnOf(M, list[i]), q) \in Nat
  <2>1. \A i \in 1 .. m : list[i] \in Procs
    <3>1. S \subseteq Procs
      BY DEF DestsOf
    <3> HIDE DEF S, m
    <3> QED BY <1>2, <3>1
  <2> HIDE DEF m
  <2> QED BY <2>1, CountsCount
<1> HIDE DEF m, S, counts
<1>5. counts \in [1 .. m -> Nat] /\ \A i \in 1 .. m : counts[i] = RecvFrom(OwnOf(M, list[i]), q)
  BY <1>3, <1>4
<1> QED BY <1>2, <1>5 DEF m, S, counts

\* The places of the b-th neighbour in a buffer, from 0.
Block(counts, b) == Prefix(counts, b) .. Prefix(counts, b) + counts[b] - 1

\* The blocks of a buffer lie in it, do not overlap and leave no gap.
LEMMA BlocksTile ==
  ASSUME NEW m \in Nat, NEW counts \in [1 .. m -> Nat]
  PROVE  /\ Prefix(counts, m + 1) \in Nat
         /\ \A b \in 1 .. m : /\ Prefix(counts, b) \in Nat
                              /\ counts[b] \in Nat
                              /\ Prefix(counts, b) + counts[b] <= Prefix(counts, m + 1)
         /\ \A b, c \in 1 .. m : b # c => \A n \in Block(counts, b) : n \notin Block(counts, c)
         /\ \A n \in 0 .. Prefix(counts, m + 1) - 1 : \E b \in 1 .. m : n \in Block(counts, b)
<1>1. m + 1 \in 1 .. m + 1 /\ \A b \in 1 .. m : b \in 1 .. m + 1 /\ b + 1 \in 1 .. m + 1 /\ b \in Int
  OBVIOUS
<1>2. \A i \in 1 .. m + 1 : Prefix(counts, i) \in Nat
  BY PrefixSum
<1>3. ASSUME NEW b \in 1 .. m
      PROVE  /\ Prefix(counts, b) \in Nat
             /\ counts[b] \in Nat
             /\ Prefix(counts, b) + counts[b] <= Prefix(counts, m + 1)
  <2>1. b < m + 1
    OBVIOUS
  <2> QED BY <1>1, <1>2, <2>1, PrefixGrows
<1>4. ASSUME NEW b \in 1 .. m, NEW c \in 1 .. m, b # c
      PROVE  \A n \in Block(counts, b) : n \notin Block(counts, c)
  <2>1. b < c \/ c < b
    BY <1>4
  <2>2. b < c => Prefix(counts, b) + counts[b] <= Prefix(counts, c)
    BY <1>1, PrefixGrows
  <2>3. c < b => Prefix(counts, c) + counts[c] <= Prefix(counts, b)
    BY <1>1, PrefixGrows
  <2>4. /\ Prefix(counts, b) \in Nat /\ counts[b] \in Nat
        /\ Prefix(counts, c) \in Nat /\ counts[c] \in Nat
    BY <1>3
  <2> QED BY SMTT(20), <2>1, <2>2, <2>3, <2>4 DEF Block
<1>5. ASSUME NEW n \in 0 .. Prefix(counts, m + 1) - 1
      PROVE  \E b \in 1 .. m : n \in Block(counts, b)
  <2>1. n \in Nat /\ n < Prefix(counts, m + 1)
    BY <1>1, <1>2
  <2>2. PICK b \in 1 .. m : Prefix(counts, b) <= n /\ n < Prefix(counts, b) + counts[b]
    BY <2>1, PrefixTiles
  <2>3. n \in Block(counts, b)
    BY <1>3, <2>1, <2>2 DEF Block
  <2> QED BY <2>3
<1> QED BY <1>1, <1>2, <1>3, <1>4, <1>5

\* What the elements of q hold for a destination is one block of them.
LEMMA PlacesTile ==
  ASSUME NEW M \in Matrices, NEW q \in Procs, NEW list \in Orders(DestsOf(M, q))
  PROVE  LET counts == SendCountsOf(M, q, list)
             total  == Prefix(counts, Len(list) + 1)
             part(r) == Block(counts, IndexIn(list, r))
         IN  /\ total \in Nat
             /\ \A r \in DestsOf(M, q) :
                  /\ IndexIn(list, r) \in 1 .. Len(list) /\ list[IndexIn(list, r)] = r
                  /\ counts[IndexIn(list, r)] = RecvFrom(OwnOf(M, r), q)
                  /\ Prefix(counts, IndexIn(list, r)) \in Nat
                  /\ RecvFrom(OwnOf(M, r), q) \in Nat
                  /\ \A k \in 1 .. RecvFrom(OwnOf(M, r), q) :
                       /\ Place(M, q, list, r, k) \in part(r)
                       /\ Place(M, q, list, r, k) \in 0 .. total - 1
                       /\ Place(M, q, list, r, k) - Prefix(counts, IndexIn(list, r)) + 1 = k
             /\ \A r, s \in DestsOf(M, q) : r # s => \A n \in part(r) : n \notin part(s)
             /\ \A n \in 0 .. total - 1 : \E r \in DestsOf(M, q) :
                  \E k \in 1 .. RecvFrom(OwnOf(M, r), q) : n = Place(M, q, list, r, k)
<1> DEFINE m == Len(list)
           S == DestsOf(M, q)
           counts == SendCountsOf(M, q, list)
           total == Prefix(counts, m + 1)
           at(r) == IndexIn(list, r)
<1>1. /\ m \in Nat
      /\ list \in [1 .. m -> S]
      /\ \A i, j \in 1 .. m : list[i] = list[j] => i = j
      /\ \A r \in S : \E i \in 1 .. m : list[i] = r
      /\ counts \in [1 .. m -> Nat]
      /\ \A i \in 1 .. m : counts[i] = RecvFrom(OwnOf(M, list[i]), q)
  BY DestsCount
<1>2. /\ total \in Nat
      /\ \A b \in 1 .. m : /\ Prefix(counts, b) \in Nat
                           /\ counts[b] \in Nat
                           /\ Prefix(counts, b) + counts[b] <= total
      /\ \A b, c \in 1 .. m : b # c => \A n \in Block(counts, b) : n \notin Block(counts, c)
      /\ \A n \in 0 .. total - 1 : \E b \in 1 .. m : n \in Block(counts, b)
  <2> HIDE DEF m, counts
  <2> QED BY <1>1, BlocksTile
<1>3. \A b \in 1 .. m : at(list[b]) = b
  <2> HIDE DEF m, S
  <2> QED BY <1>1, IndexFound
<1>4. ASSUME NEW r \in S
      PROVE  at(r) \in 1 .. m /\ list[at(r)] = r /\ counts[at(r)] = RecvFrom(OwnOf(M, r), q)
  <2>1. PICK b \in 1 .. m : list[b] = r
    BY <1>1
  <2> HIDE DEF m, S, counts, at
  <2> QED BY <1>1, <1>3, <2>1
<1>5. \A r, k : Place(M, q, list, r, k) = Prefix(counts, at(r)) + k - 1
  BY DEF Place
<1> HIDE DEF m, S, counts, total, at
<1>6. ASSUME NEW r \in S
      PROVE  /\ Prefix(counts, at(r)) \in Nat
             /\ RecvFrom(OwnOf(M, r), q) \in Nat
             /\ \A k \in 1 .. RecvFrom(OwnOf(M, r), q) :
                  /\ Place(M, q, list, r, k) \in Block(counts, at(r))
                  /\ Place(M, q, list, r, k) \in 0 .. total - 1
                  /\ Place(M, q, list, r, k) - Prefix(counts, at(r)) + 1 = k
  <2>1. /\ Prefix(counts, at(r)) \in Nat /\ counts[at(r)] \in Nat
        /\ Prefix(counts, at(r)) + counts[at(r)] <= total
        /\ counts[at(r)] = RecvFrom(OwnOf(M, r), q)
    BY <1>2, <1>4
  <2>2. ASSUME NEW k \in 1 .. counts[at(r)], NEW w, w = Prefix(counts, at(r)) + k - 1
        PROVE  /\ w \in Block(counts, at(r))
               /\ w \in 0 .. total - 1
               /\ w - Prefix(counts, at(r)) + 1 = k
    BY <2>1, <2>2, <1>2 DEF Block
  <2> QED BY <2>1, <2>2, <1>5
<1>7. \A r, s \in S : r # s => \A n \in Block(counts, at(r)) : n \notin Block(counts, at(s))
  BY <1>2, <1>4
<1>8. ASSUME NEW n \in 0 .. total - 1
      PROVE  \E r \in S : \E k \in 1 .. RecvFrom(OwnOf(M, r), q) : n = Place(M, q, list, r, k)
  <2>1. PICK b \in 1 .. m : n \in Block(counts, b)
    BY <1>2
  <2>2. /\ list[b] \in S /\ at(list[b]) = b
        /\ counts[b] = RecvFrom(OwnOf(M, list[b]), q)
        /\ Prefix(counts, b) \in Nat /\ counts[b] \in Nat
    BY <1>1, <1>2, <1>3
  <2>3. n - Prefix(counts, b) + 1 \in 1 .. counts[b]
        /\ n = Prefix(counts, b) + (n - Prefix(counts, b) + 1) - 1
    BY <2>1, <2>2 DEF Block
  <2>4. n = Place(M, q, list, list[b], n - Prefix(counts, b) + 1)
    BY <2>2, <2>3, <1>5
  <2> QED BY <2>2, <2>3, <2>4
<1>9. /\ total \in Nat
      /\ \A r \in S :
           /\ at(r) \in 1 .. m /\ list[at(r)] = r
           /\ counts[at(r)] = RecvFrom(OwnOf(M, r), q)
           /\ Prefix(counts, at(r)) \in Nat
           /\ RecvFrom(OwnOf(M, r), q) \in Nat
           /\ \A k \in 1 .. RecvFrom(OwnOf(M, r), q) :
                /\ Place(M, q, list, r, k) \in Block(counts, at(r))
                /\ Place(M, q, list, r, k) \in 0 .. total - 1
                /\ Place(M, q, list, r, k) - Prefix(counts, at(r)) + 1 = k
      /\ \A r, s \in S : r # s => \A n \in Block(counts, at(r)) : n \notin Block(counts, at(s))
      /\ \A n \in 0 .. total - 1 :
           \E r \in S : \E k \in 1 .. RecvFrom(OwnOf(M, r), q) : n = Place(M, q, list, r, k)
  BY <1>2, <1>4, <1>6, <1>7, <1>8
<1> QED BY <1>9, Zenon DEF m, S, counts, total, at

\* Step 4 posts a rank's messages.
LEMMA PostMessagesInv ==
  ASSUME Inv, NEW p \in Procs, PostMessages(p)
  PROVE  Inv'
<1>1. /\ pc[p] = "post" /\ pc'[p] = "wait"
      /\ A' = A /\ wire' = wire
      /\ ext'[p] = ext[p] /\ own'[p] = own[p] /\ nc'[p] = nc[p]
      /\ sources'[p] = sources[p] /\ dests'[p] = dests[p]
      /\ needed'[p] = needed[p] /\ rows'[p] = rows[p]
      /\ elements'[p] = [i \in 0 .. TotalSendCount(p) - 1 |-> Garbage]
  BY DEF PostMessages, Goto, Inv, Typed
<1>2. \A r \in Procs : r # p => SameAt(r)
  BY DEF PostMessages, Goto, Inv, Typed, SameAt
<1>3. \A r, q \in Procs :
        request'[<<r, q>>] = IF r = p /\ q \in ToSet(sources[p]) THEN "posted" ELSE request[<<r, q>>]
  BY DEF PostMessages
<1>4. Typed'
  <2>1. request' \in [Procs \X Procs -> {"none", "posted", "buffered", "received"}]
    BY DEF PostMessages, Inv, Typed
  <2> QED BY <2>1, StepSets DEF PostMessages, Goto, Inv, Typed
<1>5. \A q \in Procs : /\ pc[q] \in Posted => pc'[q] \in Posted
                       /\ pc[q] \in Graphed => pc'[q] \in Graphed
                       /\ pc'[q] \in Listed => pc[q] \in Listed
                       /\ sources'[q] = sources[q]
  BY <1>1, <1>2, StepSets DEF SameAt
<1>6. GraphComplete'
  BY <1>5 DEF Inv, GraphComplete
<1>7. \A q \in Procs : request[<<p, q>>] = "none"
  BY <1>1, StepSets DEF Inv, RankInv, RequestsInv, Typed
<1>8. \A q \in Procs : request[<<q, p>>] # "received"
  BY <1>1, StepSets DEF Inv, RankInv, RequestsInv
<1>9. RankInv(p)'
  <2>1. RankInv(p)
    BY DEF Inv
  <2>2. ExternalsInv(p)'
    BY <1>1, <2>1, StepSets DEF RankInv, ExternalsInv
  <2>3. ListsInv(p)'
    BY <1>1, <2>1, StepSets DEF RankInv, ListsInv
  <2>4. RowsInv(p)'
    BY <1>1, <2>1, StepSets DEF RankInv, RowsInv
  <2>5. RequestsInv(p)'
    BY <1>1, <1>3, <1>7, StepSets DEF RequestsInv
  <2>6. ElementsInv(p)'
    <3>1. \A r \in Procs : request'[<<r, p>>] # "received"
      BY <1>3, <1>8
    <3>2. ToSet(dests[p]) \subseteq Procs
      BY <1>1, ListedRanks, StepSets
    <3>3. TotalSendCount(p) = Prefix(SendCountsOf(A, p, dests[p]), Len(dests[p]) + 1)
      BY <1>1, CountsKnown, StepSets DEF TotalSendCount
    <3>4. pc'[p] \notin Exchanged
      BY <1>1, StepSets
    <3> QED BY <1>1, <3>1, <3>2, <3>3, <3>4 DEF ElementsInv
  <2> QED BY <2>2, <2>3, <2>4, <2>5, <2>6 DEF RankInv
<1>10. ASSUME NEW r \in Procs, r # p PROVE RankInv(r)'
  <2>1. RankInv(r) /\ SameAt(r)
    BY <1>2, <1>10 DEF Inv
  <2>2. RequestsInv(r)'
    BY <2>1, <1>1, <1>3, <1>5, <1>10, MessagesKept DEF RankInv, SameAt
  <2>3. pc[r] \in Posted => ToSet(dests[r]) \subseteq Procs
    BY ListedRanks, StepSets
  <2>4. \A s \in ToSet(dests[r]) : pc[r] \in Posted =>
          /\ request'[<<s, r>>] = "received" <=> request[<<s, r>>] = "received"
          /\ request[<<s, r>>] = "received" => sources'[s] = sources[s]
    BY <2>3, <1>3, <1>5, <1>7
  <2>5. ElementsInv(r)'
    BY <2>1, <2>4, ElementsKept DEF RankInv, SameAt
  <2> QED BY <2>1, <2>2, <2>5, OwnPartKept DEF RankInv
<1> QED BY <1>4, <1>6, <1>9, <1>10 DEF Inv

\* The elements of q: their number, and what its destinations have told it.
LEMMA ElementsKnown ==
  ASSUME Inv, NEW q \in Procs, pc[q] \in Posted
  PROVE  /\ DOMAIN elements[q] = 0 .. Prefix(SendCountsOf(A, q, dests[q]), Len(dests[q]) + 1) - 1
         /\ ToSet(dests[q]) = DestsOf(A, q)
         /\ \A r \in DestsOf(A, q) : request[<<r, q>>] = "received" =>
              /\ r \in Procs /\ q \in SourcesOf(A, r)
              /\ sources[r] \in Orders(SourcesOf(A, r))
              /\ \A k \in 1 .. RecvFrom(OwnOf(A, r), q) :
                   /\ Place(A, q, dests[q], r, k) \in DOMAIN elements[q]
                   /\ elements[q][Place(A, q, dests[q], r, k)]
                        = Sent(q, Message(A, r, sources[r], q)[k])
                   /\ Message(A, r, sources[r], q)[k] \in A.start[q] .. StopRow(A, q)
<1>1. pc[q] \in Listed /\ A \in Matrices
  BY StepSets DEF Inv, Typed
<1>2. ToSet(dests[q]) = DestsOf(A, q) /\ dests[q] \in Orders(DestsOf(A, q))
  BY <1>1, ListedRanks
<1>3. ElementsInv(q)
  BY DEF Inv, RankInv
<1>4. DOMAIN elements[q] = 0 .. Prefix(SendCountsOf(A, q, dests[q]), Len(dests[q]) + 1) - 1
  BY <1>3 DEF ElementsInv
<1>5. ASSUME NEW r \in DestsOf(A, q), request[<<r, q>>] = "received"
      PROVE  r \in Procs /\ q \in SourcesOf(A, r) /\ sources[r] \in Orders(SourcesOf(A, r))
  <2>1. r \in Procs /\ q \in SourcesOf(A, r)
    BY DEF DestsOf
  <2>2. pc[r] \in Listed
    BY <2>1, <1>5, StepSets DEF Inv, RankInv, RequestsInv
  <2> QED BY <2>1, <2>2, ListedRanks
<1>6. ASSUME NEW r \in DestsOf(A, q), request[<<r, q>>] = "received",
             NEW k \in 1 .. RecvFrom(OwnOf(A, r), q)
      PROVE  /\ Place(A, q, dests[q], r, k) \in DOMAIN elements[q]
             /\ elements[q][Place(A, q, dests[q], r, k)] = Sent(q, Message(A, r, sources[r], q)[k])
             /\ Message(A, r, sources[r], q)[k] \in A.start[q] .. StopRow(A, q)
  <2>1. Place(A, q, dests[q], r, k) \in DOMAIN elements[q]
    BY <1>1, <1>2, <1>4, PlacesTile
  <2>2. elements[q][Place(A, q, dests[q], r, k)] = Sent(q, Message(A, r, sources[r], q)[k])
    BY <1>2, <1>3, <1>6 DEF ElementsInv
  <2>3. Message(A, r, sources[r], q)
          \in [1 .. RecvFrom(OwnOf(A, r), q) -> A.start[q] .. StopRow(A, q)]
    BY <1>1, <1>5, <1>6, MessageWanted
  <2> QED BY <2>1, <2>2, <2>3
<1> QED BY <1>2, <1>4, <1>5, <1>6

\* A rank that changes its elements place by place changes what it was told.
LEMMA ElementsMove ==
  ASSUME Inv, NEW q \in Procs, pc[q] \in Posted, pc'[q] \in Posted,
         A' = A, dests'[q] = dests[q], request' = request,
         \A r \in Procs : sources'[r] = sources[r],
         \A r \in ToSet(dests[q]) : request[<<r, q>>] = "received",
         elements'[q] = [n \in DOMAIN elements[q] |-> elements'[q][n]],
         \A r \in DestsOf(A, q) : \A k \in 1 .. RecvFrom(OwnOf(A, r), q) :
           elements'[q][Place(A, q, dests[q], r, k)] = Sent(q, Message(A, r, sources[r], q)[k])'
  PROVE  ElementsInv(q)'
<1>1. /\ DOMAIN elements[q] = 0 .. Prefix(SendCountsOf(A, q, dests[q]), Len(dests[q]) + 1) - 1
      /\ ToSet(dests[q]) = DestsOf(A, q)
      /\ \A r \in DestsOf(A, q) : r \in Procs
  BY ElementsKnown
<1>2. elements'[q] = [n \in 0 .. Prefix(SendCountsOf(A, q, dests[q]), Len(dests[q]) + 1) - 1
                        |-> elements'[q][n]]
  BY <1>1
<1>3. ASSUME NEW r \in ToSet(dests'[q]), NEW k \in 1 .. RecvFrom(OwnOf(A', r), q)
      PROVE  elements'[q][Place(A', q, dests'[q], r, k)] = Sent(q, Message(A, r, sources[r], q)[k])'
  BY <1>1
<1>4. \A r \in ToSet(dests'[q]) : request'[<<r, q>>] = "received"
  OBVIOUS
<1> QED BY <1>2, <1>3, <1>4 DEF ElementsInv

\* Rank p finishes the exchange: rows of the matrix become rows of the rank.
LEMMA WaitAllInv ==
  ASSUME Inv, NEW p \in Procs, WaitAll(p)
  PROVE  Inv'
<1> DEFINE f == [n \in DOMAIN elements[p] |->
                   IF elements[p][n] = Garbage THEN Garbage ELSE elements[p][n] - A.start[p]]
<1>1. /\ pc[p] = "wait" /\ pc'[p] = "convert"
      /\ A' = A /\ request' = request /\ wire' = wire
      /\ ext'[p] = ext[p] /\ own'[p] = own[p] /\ nc'[p] = nc[p]
      /\ sources' = sources /\ dests'[p] = dests[p]
      /\ rows'[p] = rows[p] /\ perm'[p] = perm[p]
      /\ elements'[p] = f
  BY DEF WaitAll, Goto, Inv, Typed
<1>2. \A r \in Procs : r # p => SameAt(r)
  BY DEF WaitAll, Goto, Inv, Typed, SameAt
<1>3. Typed'
  BY StepSets DEF WaitAll, Goto, Inv, Typed
<1>4. RankInv(p)'
  <2>1. RankInv(p)
    BY DEF Inv
  <2>2. ExternalsInv(p)'
    BY <1>1, <2>1, StepSets DEF RankInv, ExternalsInv
  <2>3. ListsInv(p)'
    BY <1>1, <2>1, StepSets DEF RankInv, ListsInv
  <2>4. RowsInv(p)'
    BY <1>1, <2>1, StepSets DEF RankInv, RowsInv
  <2>5. RequestsInv(p)'
    <3>1. \A q \in Procs : request[<<p, q>>] # "posted"
      BY <2>1 DEF WaitAll, RankInv, RequestsInv
    <3> QED BY <1>1, <1>2, <2>1, <3>1, StepSets DEF SameAt, RankInv, RequestsInv
  <2>6. ElementsInv(p)'
    <3>1. pc[p] \in Posted /\ pc'[p] \in Posted
      BY <1>1, StepSets
    <3>2. \A r \in ToSet(dests[p]) : request[<<r, p>>] = "received"
      BY DEF WaitAll
    <3>3. ASSUME NEW r \in DestsOf(A, p), NEW k \in 1 .. RecvFrom(OwnOf(A, r), p)
          PROVE  elements'[p][Place(A, p, dests[p], r, k)]
                   = Sent(p, Message(A, r, sources[r], p)[k])'
      <4>1. /\ Place(A, p, dests[p], r, k) \in DOMAIN elements[p]
            /\ elements[p][Place(A, p, dests[p], r, k)] = Sent(p, Message(A, r, sources[r], p)[k])
            /\ Message(A, r, sources[r], p)[k] \in A.start[p] .. StopRow(A, p)
        BY <3>1, <3>2, ElementsKnown
      <4>2. Message(A, r, sources[r], p)[k] # Garbage
        <5>1. A.start[p] \in Nat /\ A.nr[p] \in Nat
          BY RowsFollow DEF Inv, Typed, Procs
        <5>2. \A g \in A.start[p] .. StopRow(A, p) : g \in Int
          BY <5>1 DEF StopRow
        <5> QED BY <4>1, <5>2, SetupAssumption
      <4>3. Sent(p, Message(A, r, sources[r], p)[k]) = Message(A, r, sources[r], p)[k]
        BY <1>1 DEF Sent
      <4>4. Sent(p, Message(A, r, sources[r], p)[k])' = Message(A, r, sources[r], p)[k] - A.start[p]
        BY <1>1 DEF Sent
      <4> QED BY <1>1, <4>1, <4>2, <4>3, <4>4
    <3>4. elements'[p] = [n \in DOMAIN elements[p] |-> elements'[p][n]]
      BY <1>1
    <3> HIDE DEF f
    <3> QED BY <1>1, <3>1, <3>2, <3>3, <3>4, ElementsMove
  <2> QED BY <2>2, <2>3, <2>4, <2>5, <2>6 DEF RankInv
<1>5. pc'[p] \in Posted /\ pc'[p] \in Graphed /\ pc[p] \in Listed
  BY <1>1, StepSets
<1>6. \A q \in Procs : pc[q] \in Graphed
  BY <1>5, EverybodysOwners
<1> HIDE DEF f
<1> QED BY <1>1, <1>2, <1>3, <1>4, <1>5, <1>6, LocalStep

\* The format renumbers its rows and their local columns.
LEMMA ConvertMatrixInv ==
  ASSUME Inv, NEW p \in Procs, ConvertMatrix(p)
  PROVE  Inv'
<1>1. /\ pc[p] = "convert" /\ pc'[p] = "remap"
      /\ A' = A /\ request' = request /\ wire' = wire
      /\ ext'[p] = ext[p] /\ own'[p] = own[p] /\ nc'[p] = nc[p]
      /\ sources' = sources /\ dests'[p] = dests[p]
      /\ elements'[p] = elements[p]
  BY DEF ConvertMatrix, Goto, Inv, Typed
<1>2. \A r \in Procs : r # p => SameAt(r)
  BY DEF ConvertMatrix, Goto, Inv, Typed, SameAt
<1>3. Typed'
  BY StepSets DEF ConvertMatrix, Goto, Inv, Typed
<1>4. RankInv(p)'
  <2>1. RankInv(p)
    BY DEF Inv
  <2>2. ExternalsInv(p)'
    BY <1>1, <2>1, StepSets DEF RankInv, ExternalsInv
  <2>3. ListsInv(p)'
    BY <1>1, <2>1, StepSets DEF RankInv, ListsInv
  <2>4. RowsInv(p)'
    <3>1. PICK f \in [OldRows(p) -> OldRows(p)] :
            /\ IsInjective(f)
            /\ perm' = [perm EXCEPT ![p] = f]
            /\ rows' = [rows EXCEPT ![p] =
                          [i \in OldRows(p) |-> RenumberRow(rows[p][i], A.nr[p], f)]]
      BY DEF ConvertMatrix
    <3>2. perm'[p] = f
      BY <3>1 DEF Inv, Typed
    <3>3. rows'[p] = Renumbered(rows[p], A.nr[p], f)
      BY <3>1 DEF Inv, Typed, Renumbered, OldRows
    <3>4. rows[p] = SplitRowsOf(A, p, sources[p])
      BY <1>1, <2>1 DEF RankInv, RowsInv
    <3>5. nc'[p] = A.nr[p] + ExtCount(A, p)
      BY <1>1, <2>1, StepSets DEF RankInv, RowsInv
    <3> QED BY <1>1, <3>1, <3>2, <3>3, <3>4, <3>5, StepSets DEF RowsInv, OldRows
  <2>5. RequestsInv(p)'
    BY <1>1, <1>2, <2>1, StepSets DEF SameAt, RankInv, RequestsInv
  <2>6. ElementsInv(p)'
    BY <1>1, <2>1, StepSets DEF RankInv, ElementsInv, Sent
  <2> QED BY <2>2, <2>3, <2>4, <2>5, <2>6 DEF RankInv
<1>5. pc'[p] \in Posted /\ pc'[p] \in Graphed /\ pc[p] \in Listed
  BY <1>1, StepSets
<1>6. \A q \in Procs : pc[q] \in Graphed
  BY <1>5, EverybodysOwners
<1> QED BY <1>1, <1>2, <1>3, <1>4, <1>5, <1>6, LocalStep

\* commRemapSendIndices follows the renumbering.
LEMMA RemapSendIndicesInv ==
  ASSUME Inv, NEW p \in Procs, RemapSendIndices(p)
  PROVE  Inv'
<1> DEFINE f == [n \in DOMAIN elements[p] |-> perm[p][elements[p][n]]]
<1>1. /\ pc[p] = "remap" /\ pc'[p] = "done"
      /\ A' = A /\ request' = request /\ wire' = wire
      /\ ext'[p] = ext[p] /\ own'[p] = own[p] /\ nc'[p] = nc[p]
      /\ sources' = sources /\ dests'[p] = dests[p]
      /\ rows'[p] = rows[p] /\ perm'[p] = perm[p] /\ needed'[p] = needed[p]
      /\ elements'[p] = f
  BY DEF RemapSendIndices, Goto, Inv, Typed
<1>2. \A r \in Procs : r # p => SameAt(r)
  BY DEF RemapSendIndices, Goto, Inv, Typed, SameAt
<1>3. Typed'
  BY StepSets DEF RemapSendIndices, Goto, Inv, Typed
<1>4. RankInv(p)'
  <2>1. RankInv(p)
    BY DEF Inv
  <2>2. ExternalsInv(p)'
    BY <1>1, <2>1, StepSets DEF RankInv, ExternalsInv
  <2>3. ListsInv(p)'
    BY <1>1, <2>1, StepSets DEF RankInv, ListsInv
  <2>4. RowsInv(p)'
    BY <1>1, <2>1, StepSets DEF RankInv, RowsInv, OldRows
  <2>5. RequestsInv(p)'
    BY <1>1, <1>2, <2>1, StepSets DEF SameAt, RankInv, RequestsInv
  <2>6. ElementsInv(p)'
    <3>1. pc[p] \in Posted /\ pc'[p] \in Posted /\ pc[p] \in Exchanged
      BY <1>1, StepSets
    <3>2. \A r \in ToSet(dests[p]) : request[<<r, p>>] = "received"
      BY <2>1, <3>1 DEF RankInv, ElementsInv
    <3>3. ASSUME NEW r \in DestsOf(A, p), NEW k \in 1 .. RecvFrom(OwnOf(A, r), p)
          PROVE  elements'[p][Place(A, p, dests[p], r, k)]
                   = Sent(p, Message(A, r, sources[r], p)[k])'
      <4>1. /\ Place(A, p, dests[p], r, k) \in DOMAIN elements[p]
            /\ elements[p][Place(A, p, dests[p], r, k)] = Sent(p, Message(A, r, sources[r], p)[k])
        BY <3>1, <3>2, ElementsKnown
      <4>2. Sent(p, Message(A, r, sources[r], p)[k]) = Message(A, r, sources[r], p)[k] - A.start[p]
        BY <1>1 DEF Sent
      <4>3. Sent(p, Message(A, r, sources[r], p)[k])'
              = perm[p][Message(A, r, sources[r], p)[k] - A.start[p]]
        BY <1>1 DEF Sent
      <4> QED BY <1>1, <4>1, <4>2, <4>3
    <3>4. elements'[p] = [n \in DOMAIN elements[p] |-> elements'[p][n]]
      BY <1>1
    <3> HIDE DEF f
    <3> QED BY <1>1, <3>1, <3>2, <3>3, <3>4, ElementsMove
  <2> QED BY <2>2, <2>3, <2>4, <2>5, <2>6 DEF RankInv
<1>5. pc'[p] \in Posted /\ pc'[p] \in Graphed /\ pc[p] \in Listed
  BY <1>1, StepSets
<1>6. \A q \in Procs : pc[q] \in Graphed
  BY <1>5, EverybodysOwners
<1> HIDE DEF f
<1> QED BY <1>1, <1>2, <1>3, <1>4, <1>5, <1>6, LocalStep

\* While r waits, its array still holds its messages.
LEMMA SegmentIsMessage ==
  ASSUME Inv, NEW r \in Procs, pc[r] = "wait", NEW q \in ToSet(sources[r])
  PROVE  needed[r] # Garbage /\ Segment(r, q) = Message(A, r, sources[r], q)
<1> DEFINE list == sources[r]
           i == IndexIn(list, q)
           counts == RecvCountsOf(A, r, list)
           need == NeedOf(A, r, list)
<1>1. A \in Matrices /\ pc[r] \in Listed
  BY StepSets DEF Inv, Typed
<1>2. list \in Orders(SourcesOf(A, r)) /\ q \in SourcesOf(A, r)
  BY <1>1, ListedRanks
<1>3. i \in 1 .. Len(list) /\ DOMAIN list = 1 .. Len(list)
  BY <1>1, <1>2, MessageWanted, SourcesBucket
<1>4. needed[r] = need
  BY DEF Inv, RankInv, RowsInv
<1>5. need # Garbage
  <2>1. need \in [1 .. ExtCount(A, r) -> GlobalRows(A)]
    BY <1>1, <1>2, NeedSorted, Zenon
  <2>2. ExtCount(A, r) \in Nat
    BY <1>1, ExternalsListed
  <2>3. \A g \in GlobalRows(A) : g \in Int
    <3>1. A.start[Size - 1] \in Nat /\ A.nr[Size - 1] \in Nat
      BY <1>1, RowsFollow
    <3> QED BY <3>1 DEF GlobalRows
  <2> HIDE DEF need
  <2>4. need \in [1 .. ExtCount(A, r) -> Int]
    BY <2>1, <2>3
  <2>5. need \in Seq(Int)
    BY <2>2, <2>4, LengthOf
  <2> QED BY <2>5, SetupAssumption
<1>6. RecvCounts(r) = counts
  BY <1>1, CountsKnown
<1>7. Rdispls(r)[i] = Prefix(counts, i)
  BY <1>3, <1>6 DEF Rdispls
<1>8. Segment(r, q) = [k \in 1 .. counts[i] |->
                         IF needed[r] = Garbage THEN Garbage ELSE needed[r][Rdispls(r)[i] + k]]
  BY <1>6, Zenon DEF Segment
<1>9. Message(A, r, list, q) = [k \in 1 .. counts[i] |-> need[Prefix(counts, i) + k]]
  BY Zenon DEF Message
<1> HIDE DEF list, i, counts, need
<1> QED BY <1>4, <1>5, <1>7, <1>8, <1>9 DEF list

\* MPI copies a message.
LEMMA BufferInv ==
  ASSUME Inv, NEW p \in Procs, NEW t \in Procs, Buffer(p, t)
  PROVE  Inv'
<1>1. /\ request[<<p, t>>] = "posted"
      /\ \A r, q \in Procs : r # p \/ q # t =>
           request'[<<r, q>>] = request[<<r, q>>] /\ wire'[<<r, q>>] = wire[<<r, q>>]
      /\ request'[<<p, t>>] = "buffered" /\ wire'[<<p, t>>] = Segment(p, t)
      /\ \A r \in Procs : SameAt(r)
  BY DEF Buffer, SameAt, Inv, Typed
<1>2. Typed'
  BY DEF Buffer, Inv, Typed
<1>3. GraphComplete'
  BY <1>1 DEF SameAt, Inv, GraphComplete
<1>4. pc[p] = "wait" /\ t \in ToSet(sources[p]) /\ pc[p] \in Posted
  BY <1>1 DEF Inv, RankInv, RequestsInv
<1>5. wire'[<<p, t>>] = Message(A, p, sources[p], t)
  BY <1>1, <1>4, SegmentIsMessage
<1>6. ASSUME NEW r \in Procs PROVE RankInv(r)'
  <2>1. RankInv(r) /\ SameAt(r)
    BY <1>1 DEF Inv
  <2>2. RequestsInv(r)'
    <3>1. CASE r = p
      <4> SUFFICES ASSUME NEW q \in Procs
                   PROVE  /\ request'[<<p, q>>] # "none" => pc'[p] \in Posted /\ q \in ToSet(sources'[p])
                          /\ request'[<<p, q>>] = "posted" => pc'[p] = "wait"
                          /\ request'[<<p, q>>] = "buffered"
                               => wire'[<<p, q>>] = Message(A', p, sources'[p], q)
                          /\ request'[<<p, q>>] = "received" => pc'[q] \in Posted
        BY <3>1 DEF RequestsInv
      <4>1. pc' = pc /\ A' = A /\ sources' = sources
        BY DEF Buffer
      <4>2. CASE q = t
        BY <4>1, <4>2, <1>1, <1>4, <1>5
      <4>3. CASE q # t
        BY <4>1, <4>3, <1>1, <2>1, <3>1 DEF RankInv, RequestsInv
      <4> QED BY <4>2, <4>3
    <3>2. CASE r # p
      BY <3>2, <1>1, <2>1, MessagesKept DEF SameAt, RankInv
    <3> QED BY <3>1, <3>2
  <2>3. \A s \in ToSet(dests[r]) : pc[r] \in Posted =>
          /\ request'[<<s, r>>] = "received" <=> request[<<s, r>>] = "received"
          /\ request[<<s, r>>] = "received" => sources'[s] = sources[s]
    <3>1. pc[r] \in Posted => \A s \in ToSet(dests[r]) : s \in Procs
      BY ListedRanks, StepSets
    <3> QED BY <3>1, <1>1 DEF SameAt
  <2>4. ElementsInv(r)'
    BY <2>1, <2>3, ElementsKept DEF RankInv, SameAt
  <2> QED BY <2>1, <2>2, <2>4, OwnPartKept DEF RankInv
<1> QED BY <1>2, <1>3, <1>6 DEF Inv

\* A message arrives in its part of the receiver's elements.
LEMMA ReceiveInv ==
  ASSUME Inv, NEW p \in Procs, NEW t \in Procs, Receive(p, t)
  PROVE  Inv'
<1> DEFINE list == dests[t]
           i == IndexIn(list, p)
           counts == SendCountsOf(A, t, list)
           msg == Message(A, p, sources[p], t)
           told == IF request[<<p, t>>] = "buffered" THEN wire[<<p, t>>] ELSE Segment(p, t)
<1>1. /\ request[<<p, t>>] \in {"posted", "buffered"}
      /\ A' = A /\ pc' = pc /\ sources' = sources /\ dests' = dests /\ perm' = perm /\ wire' = wire
      /\ \A r, q \in Procs : r # p \/ q # t => request'[<<r, q>>] = request[<<r, q>>]
      /\ request'[<<p, t>>] = "received"
      /\ \A r \in Procs : r # t => SameAt(r)
  BY DEF Receive, SameAt, Inv, Typed
<1>2. elements'[t] = [n \in DOMAIN elements[t] |->
                        IF n \in Sdispls(t)[i] .. Sdispls(t)[i] + SendCounts(t)[i] - 1
                        THEN told[n - Sdispls(t)[i] + 1] ELSE elements[t][n]]
  BY DEF Receive, Inv, Typed
<1>3. A \in Matrices /\ pc[p] \in Posted /\ t \in ToSet(sources[p]) /\ pc[t] \in Posted
  <2>1. A \in Matrices /\ pc[p] \in Posted /\ t \in ToSet(sources[p])
    BY <1>1 DEF Inv, Typed, RankInv, RequestsInv
  <2>2. pc[t] \in Posted
    BY ReachedSteps DEF Receive, Inv
  <2> QED BY <2>1, <2>2
<1>4. /\ pc[p] \in Listed /\ pc[t] \in Listed
      /\ t \in SourcesOf(A, p) /\ p \in DestsOf(A, t) /\ p \in ToSet(list)
      /\ list \in Orders(DestsOf(A, t))
  BY <1>3, ListedRanks, StepSets DEF DestsOf
<1>5. pc[t] = "wait"
  <2>1. pc[t] \notin Exchanged
    BY <1>1, <1>4 DEF Inv, RankInv, ElementsInv
  <2> QED BY <1>3, <2>1, StepSets
<1>6. told = msg
  <2>1. CASE request[<<p, t>>] = "buffered"
    BY <2>1 DEF Inv, RankInv, RequestsInv
  <2>2. CASE request[<<p, t>>] = "posted"
    <3>1. pc[p] = "wait"
      BY <2>2 DEF Inv, RankInv, RequestsInv
    <3> QED BY <2>2, <3>1, <1>3, SegmentIsMessage
  <2> QED BY <1>1, <2>1, <2>2
<1>7. SendCounts(t) = counts /\ Sdispls(t)[i] = Prefix(counts, i)
  <2>1. SendCounts(t) = counts
    BY <1>4, CountsKnown
  <2>2. i \in DOMAIN list
    BY <1>3, <1>4, PlacesTile, DestsCount
  <2> QED BY <2>1, <2>2 DEF Sdispls
<1>8. elements'[t] = [n \in DOMAIN elements[t] |->
                        IF n \in Block(counts, i) THEN msg[n - Prefix(counts, i) + 1]
                        ELSE elements[t][n]]
  <2> HIDE DEF list, i, counts, msg, told
  <2> QED BY <1>2, <1>6, <1>7 DEF Block
<1>9. Typed'
  BY DEF Receive, Inv, Typed
<1>10. GraphComplete'
  BY <1>1 DEF Inv, GraphComplete
<1>11. ASSUME NEW r \in Procs PROVE RequestsInv(r)'
  <2>1. RequestsInv(r)
    BY DEF Inv, RankInv
  <2> SUFFICES ASSUME NEW q \in Procs
               PROVE  /\ request'[<<r, q>>] # "none" => pc[r] \in Posted /\ q \in ToSet(sources[r])
                      /\ request'[<<r, q>>] = "posted" => pc[r] = "wait"
                      /\ request'[<<r, q>>] = "buffered"
                           => wire[<<r, q>>] = Message(A, r, sources[r], q)
                      /\ request'[<<r, q>>] = "received" => pc[q] \in Posted
    BY <1>1 DEF RequestsInv
  <2>2. CASE r = p /\ q = t
    BY <2>2, <1>1, <1>3
  <2>3. CASE r # p \/ q # t
    BY <2>1, <2>3, <1>1 DEF RequestsInv
  <2> QED BY <2>2, <2>3
<1>12. ElementsInv(t)'
  <2>1. /\ DOMAIN elements[t] = 0 .. Prefix(counts, Len(list) + 1) - 1
        /\ ToSet(list) = DestsOf(A, t)
        /\ \A r \in DestsOf(A, t) : request[<<r, t>>] = "received" =>
             /\ r \in Procs
             /\ \A k \in 1 .. RecvFrom(OwnOf(A, r), t) :
                  /\ Place(A, t, list, r, k) \in DOMAIN elements[t]
                  /\ elements[t][Place(A, t, list, r, k)] = Sent(t, Message(A, r, sources[r], t)[k])
    BY <1>3, ElementsKnown
  <2>2. elements'[t] = [n \in 0 .. Prefix(counts, Len(list) + 1) - 1 |-> elements'[t][n]]
    <3> HIDE DEF list, counts, i, msg
    <3> QED BY <2>1, <1>8
  <2>3. ASSUME NEW r \in DestsOf(A, t), request'[<<r, t>>] = "received",
               NEW k \in 1 .. RecvFrom(OwnOf(A, r), t)
        PROVE  elements'[t][Place(A, t, list, r, k)] = Message(A, r, sources[r], t)[k]
    <3>1. r \in Procs
      BY DEF DestsOf
    <3>2. CASE r = p
      <4>1. /\ Place(A, t, list, p, k) \in Block(counts, i)
            /\ Place(A, t, list, p, k) \in 0 .. Prefix(counts, Len(list) + 1) - 1
            /\ Place(A, t, list, p, k) - Prefix(counts, i) + 1 = k
        BY SMTT(20), <1>3, <1>4, <3>2, PlacesTile
      <4> HIDE DEF list, counts, i
      <4> QED BY <4>1, <3>2, <1>8, <2>1
    <3>3. CASE r # p
      <4>1. request[<<r, t>>] = "received"
        BY <3>1, <3>3, <2>3, <1>1
      <4>2. /\ Place(A, t, list, r, k) \in DOMAIN elements[t]
            /\ elements[t][Place(A, t, list, r, k)] = Sent(t, Message(A, r, sources[r], t)[k])
        BY <4>1, <2>1
      <4>3. Place(A, t, list, r, k) \notin Block(counts, i)
        <5>1. /\ \A s \in DestsOf(A, t) : \A c \in 1 .. RecvFrom(OwnOf(A, s), t) :
                   Place(A, t, list, s, c) \in Block(counts, IndexIn(list, s))
              /\ \A s, u \in DestsOf(A, t) : s # u =>
                   \A n \in Block(counts, IndexIn(list, s)) : n \notin Block(counts, IndexIn(list, u))
          BY <1>3, <1>4, PlacesTile, Zenon
        <5> QED BY <5>1, <1>4, <3>3
      <4>4. Sent(t, Message(A, r, sources[r], t)[k]) = Message(A, r, sources[r], t)[k]
        BY <1>5 DEF Sent
      <4> HIDE DEF list, counts, i
      <4> QED BY <4>2, <4>3, <4>4, <1>8
    <3> QED BY <3>2, <3>3
  <2>4. pc'[t] = "wait" /\ pc'[t] \notin Exchanged
    BY <1>1, <1>5, StepSets
  <2>5. ASSUME NEW r \in ToSet(dests'[t]), request'[<<r, t>>] = "received",
               NEW k \in 1 .. RecvFrom(OwnOf(A', r), t)
        PROVE  elements'[t][Place(A', t, dests'[t], r, k)] = Sent(t, Message(A, r, sources[r], t)[k])'
    <3>1. Sent(t, Message(A, r, sources[r], t)[k])' = Message(A, r, sources[r], t)[k]
      BY <1>1, <1>5 DEF Sent
    <3> QED BY <3>1, <2>1, <2>3, <2>5, <1>1
  <2>6. elements'[t] = [n \in 0 .. Prefix(SendCountsOf(A', t, dests'[t]), Len(dests'[t]) + 1) - 1
                           |-> elements'[t][n]]
    BY <2>2, <1>1
  <2> QED BY <2>4, <2>5, <2>6 DEF ElementsInv
<1>13. ASSUME NEW r \in Procs PROVE RankInv(r)'
  <2>1. RankInv(r)
    BY DEF Inv
  <2>2. ExternalsInv(r)' /\ ListsInv(r)' /\ RowsInv(r)'
    BY <2>1 DEF Receive, RankInv, ExternalsInv, ListsInv, RowsInv, OldRows
  <2>3. CASE r = t
    BY <2>2, <2>3, <1>11, <1>12 DEF RankInv
  <2>4. CASE r # t
    <3>1. \A s \in ToSet(dests[r]) : pc[r] \in Posted =>
            /\ request'[<<s, r>>] = "received" <=> request[<<s, r>>] = "received"
            /\ request[<<s, r>>] = "received" => sources'[s] = sources[s]
      <4>1. pc[r] \in Posted => \A s \in ToSet(dests[r]) : s \in Procs
        BY ListedRanks, StepSets
      <4> QED BY <4>1, <2>4, <1>1
    <3>2. SameAt(r)
      BY <2>4, <1>1
    <3>3. ElementsInv(r)'
      BY <2>1, <3>1, <3>2, ElementsKept DEF RankInv, SameAt
    <3> QED BY <2>2, <3>3, <1>11 DEF RankInv
  <2> QED BY <2>3, <2>4
<1> QED BY <1>9, <1>10, <1>13 DEF Inv

\* The invariant holds in every state the setup reaches.
THEOREM Invariance == Spec => []Inv
<1>1. Init => Inv
  BY InitInv
<1>2. Inv /\ [Next]_vars => Inv'
  <2> SUFFICES ASSUME Inv, [Next]_vars PROVE Inv'
    OBVIOUS
  <2>1. ASSUME NEW r \in Procs, RankStep(r) PROVE Inv'
    BY <2>1, IdentifyInv, FindOwningRanksInv, RetrieveTopologyInv, ReorderAndLocalizeInv,
       PostMessagesInv, WaitAllInv, ConvertMatrixInv, RemapSendIndicesInv DEF RankStep
  <2>2. ASSUME NEW r \in Procs, NEW q \in Procs, Buffer(r, q) \/ Receive(r, q) PROVE Inv'
    BY <2>2, BufferInv, ReceiveInv
  <2>3. CASE UNCHANGED vars
    BY <2>3 DEF vars, Inv, Typed, GraphComplete, RankInv, ExternalsInv, ListsInv, RowsInv, OldRows,
                RequestsInv, ElementsInv, Sent
  <2> QED BY <2>1, <2>2, <2>3 DEF Next, Finished
<1> QED BY <1>1, <1>2, PTL DEF Spec

\* What a rank has is of its type at every step of commLocalization: owners and
\* neighbours are ranks.
THEOREM TypeCorrect == Spec => []TypeOK
<1>1. Inv => TypeOK
  <2> SUFFICES ASSUME Inv PROVE TypeOK
    OBVIOUS
  <2>1. A \in Matrices
    BY DEF Inv, Typed
  <2>2. pc \in [Procs -> ToSet(Steps)]
    <3>1. ToSet(Steps) = {"identify"} \cup Gathered
      <4>1. /\ DOMAIN Steps = 1 .. 9
            /\ Steps[1] = "identify" /\ Steps[2] = "gather" /\ Steps[3] = "graph"
            /\ Steps[4] = "localize" /\ Steps[5] = "post" /\ Steps[6] = "wait"
            /\ Steps[7] = "convert" /\ Steps[8] = "remap" /\ Steps[9] = "done"
        BY DEF Steps
      <4>2. 1 .. 9 = {1, 2, 3, 4, 5, 6, 7, 8, 9}
        OBVIOUS
      <4> QED BY <4>1, <4>2, StepSets DEF ToSet
    <3> QED BY <3>1 DEF Inv, Typed
  <2>0. <<>> \in Seq(Procs)
    OBVIOUS
  <2>3. ASSUME NEW r \in Procs PROVE own[r] \in Seq(Procs)
    <3>1. CASE pc[r] \in Graphed
      <4>1. OwnOf(A, r) \in [1 .. ExtCount(A, r) -> Procs] /\ ExtCount(A, r) \in Nat
        BY <2>1, OwnersHaveRows, ExternalsListed
      <4>2. own[r] = OwnOf(A, r)
        BY <3>1 DEF Inv, RankInv, ExternalsInv
      <4> QED BY <4>1, <4>2, LengthOf
    <3>2. CASE pc[r] \notin Graphed
      BY <2>0, <3>2, Zenon DEF Inv, RankInv, ExternalsInv
    <3> QED BY <3>1, <3>2
  <2>4. ASSUME NEW r \in Procs PROVE sources[r] \in Seq(Procs) /\ dests[r] \in Seq(Procs)
    <3>1. CASE pc[r] \in Listed
      <4>1. /\ sources[r] \in Orders(SourcesOf(A, r)) /\ SourcesOf(A, r) \subseteq Procs
            /\ dests[r] \in Orders(DestsOf(A, r)) /\ DestsOf(A, r) \subseteq Procs
        BY <3>1, ListedRanks
      <4>2. Len(sources[r]) \in Nat /\ sources[r] \in [1 .. Len(sources[r]) -> SourcesOf(A, r)]
        BY <2>1, <4>1, SourcesBucket
      <4>3. Len(dests[r]) \in Nat /\ dests[r] \in [1 .. Len(dests[r]) -> DestsOf(A, r)]
        BY <2>1, <4>1, DestsCount
      <4>4. sources[r] \in [1 .. Len(sources[r]) -> Procs] /\ dests[r] \in [1 .. Len(dests[r]) -> Procs]
        BY <4>1, <4>2, <4>3
      <4> QED BY <4>2, <4>3, <4>4, LengthOf
    <3>2. CASE pc[r] \notin Listed
      BY <2>0, <3>2, Zenon DEF Inv, RankInv, ListsInv
    <3> QED BY <3>1, <3>2
  <2> QED BY <2>1, <2>2, <2>3, <2>4 DEF Inv, Typed, TypeOK
<1> QED BY <1>1, Invariance, PTL

\* The array of an MPI_Isend is neither freed nor reused before MPI has copied or
\* delivered what is in it.
THEOREM ArraysOutliveSends == Spec => []SendArraysAlive
<1>1. Inv => SendArraysAlive
  <2> SUFFICES ASSUME Inv, NEW r \in Procs, NEW q \in Procs, request[<<r, q>>] = "posted"
               PROVE  needed[r] # Garbage
    BY DEF SendArraysAlive
  <2>1. pc[r] = "wait" /\ q \in ToSet(sources[r])
    BY DEF Inv, RankInv, RequestsInv
  <2> QED BY <2>1, SegmentIsMessage
<1> QED BY <1>1, Invariance, PTL

\* Every external is asked for from the rank that has its row, also where ranks
\* without rows share a start row.
THEOREM RightRankAsked == Spec => []OwnersFound
<1>1. Inv => OwnersFound
  <2> SUFFICES ASSUME Inv, NEW r \in Procs, NEW i \in DOMAIN own[r]
               PROVE  ext[r][i] \in A.start[own[r][i]] .. StopRow(A, own[r][i])
    BY DEF OwnersFound
  <2>1. CASE pc[r] \in Graphed
    <3>1. own[r] = OwnOf(A, r) /\ ext[r] = ExtOf(A, r) /\ A \in Matrices
      BY <2>1, StepSets DEF Inv, Typed, RankInv, ExternalsInv
    <3>2. DOMAIN own[r] = 1 .. ExtCount(A, r)
      BY <3>1, OwnersHaveRows
    <3> QED BY <3>1, <3>2, OwnersHaveRows
  <2>2. CASE pc[r] \notin Graphed
    BY <2>2 DEF Inv, RankInv, ExternalsInv
  <2> QED BY <2>1, <2>2
<1> QED BY <1>1, Invariance, PTL

(***************************************************************************)
(* The plan the setup ends with.                                           *)
(***************************************************************************)

\* A permutation of the rows leaves no place empty.
LEMMA PermFills ==
  ASSUME NEW n \in Nat, NEW f \in [0 .. n - 1 -> 0 .. n - 1], IsInjective(f),
         NEW s \in 0 .. n - 1
  PROVE  \E i \in 0 .. n - 1 : f[i] = s
<1> DEFINE S == 0 .. n - 1
<1>1. IsFiniteSet(S)
  BY FS_Interval
<1> HIDE DEF S
<1>2. f \in [S -> S] /\ IsInjective(f)
  BY DEF S
<1>3. f \in Injection(S, S)
  BY <1>2 DEF Injection
<1>4. f \in Surjection(S, S)
  BY <1>1, <1>3, FS_Injection
<1>5. \A t \in S : \E i \in S : f[i] = t
  BY <1>4 DEF Surjection
<1> QED BY <1>5 DEF S

\* A permutation of the rows can be undone.
LEMMA PermOnto ==
  ASSUME NEW n \in Nat, NEW f \in [0 .. n - 1 -> 0 .. n - 1], IsInjective(f)
  PROVE  \A i \in 0 .. n - 1 : (CHOOSE j \in 0 .. n - 1 : f[j] = f[i]) = i
BY DEF IsInjective

\* The rows of a rank as sequences of global rows.
LEMMA RowsAreSequences ==
  ASSUME NEW M \in Matrices, NEW r \in Procs, NEW i \in 0 .. M.nr[r] - 1
  PROVE  LET g == M.start[r] + i
         IN  /\ g \in M.start[r] .. StopRow(M, r)
             /\ Len(M.rows[g]) \in Nat
             /\ M.rows[g] \in [1 .. Len(M.rows[g]) -> GlobalRows(M)]
<1>1. M.start[r] \in Nat /\ M.nr[r] \in Nat
  BY RowsFollow DEF Procs
<1>2. M.start[r] + i \in M.start[r] .. StopRow(M, r)
  BY <1>1 DEF StopRow
<1>3. M.rows[M.start[r] + i] \in Seq(GlobalRows(M))
  BY <1>2, OwnRowsGlobal, SetupAssumption DEF Square
<1> QED BY <1>2, <1>3

\* The localized column of an entry.
ColumnOf(M, r, list, c) ==
  IF IsExternal(M, r, c)
  THEN IndexOf(M, r, list)[CHOOSE i \in DOMAIN ExtOf(M, r) : ExtOf(M, r)[i] = c]
  ELSE c - M.start[r]

\* localizeMatrix finds a column: an own row at its distance from the first, an
\* external in the halo slot that gets it.
LEMMA ColumnFound ==
  ASSUME NEW M \in Matrices, NEW r \in Procs, NEW list \in Orders(SourcesOf(M, r)),
         NEW g \in M.start[r] .. StopRow(M, r), NEW c \in ToSet(M.rows[g]), c \in GlobalRows(M)
  PROVE  /\ ColumnOf(M, r, list, c) \in 0 .. M.nr[r] + ExtCount(M, r) - 1
         /\ c \in Nat
         /\ IsExternal(M, r, c) <=> M.nr[r] <= ColumnOf(M, r, list, c)
         /\ IsExternal(M, r, c) =>
              NeedOf(M, r, list)[ColumnOf(M, r, list, c) - M.nr[r] + 1] = c
         /\ ~IsExternal(M, r, c) => M.start[r] + ColumnOf(M, r, list, c) = c
<1> DEFINE n == ExtCount(M, r)
           x == ExtOf(M, r)
           nr == M.nr[r]
           idx == IndexOf(M, r, list)
           need == NeedOf(M, r, list)
           col == ColumnOf(M, r, list, c)
<1>1. M.start[r] \in Nat /\ nr \in Nat
  BY RowsFollow DEF Procs
<1>2. c \in Nat
  <2>1. M.start[Size - 1] \in Nat /\ M.nr[Size - 1] \in Nat
    BY RowsFollow
  <2> QED BY <2>1 DEF GlobalRows
<1>3. /\ n \in Nat /\ DOMAIN x = 1 .. n
      /\ \A i, j \in 1 .. n : x[i] = x[j] => i = j
      /\ \A e \in ExternalColumns(M, r) : \E i \in 1 .. n : x[i] = e
  BY ExternalsListed
<1>4. CASE IsExternal(M, r, c)
  <2>1. c \in ExternalColumns(M, r)
    BY <1>4 DEF ExternalColumns
  <2>2. PICK i \in 1 .. n : x[i] = c
    BY <1>3, <2>1
  <2>3. (CHOOSE j \in DOMAIN x : x[j] = c) = i
    <3> HIDE DEF n, x
    <3> QED BY <1>3, <2>2
  <2>4. col = idx[i]
    BY <1>4, <2>3 DEF ColumnOf
  <2>5. idx \in [1 .. n -> nr .. nr + n - 1] /\ need[idx[i] - nr + 1] = x[i]
    BY NeedSorted, Zenon
  <2>6. idx[i] \in nr .. nr + n - 1
    <3> HIDE DEF n, nr, idx
    <3> QED BY <2>5
  <2> HIDE DEF n, x, nr, idx, need, col
  <2>7. col \in 0 .. nr + n - 1 /\ nr <= col
    BY <1>1, <1>3, <2>4, <2>6
  <2>8. need[col - nr + 1] = c
    BY <2>2, <2>4, <2>5
  <2> QED BY <1>2, <1>4, <2>7, <2>8 DEF n, nr, need, col
<1>5. CASE ~IsExternal(M, r, c)
  <2>1. col = c - M.start[r]
    BY <1>5 DEF ColumnOf
  <2>2. M.start[r] <= c /\ c <= M.start[r] + nr - 1
    BY <1>1, <1>2, <1>5 DEF IsExternal, StopRow
  <2> HIDE DEF n, nr, col
  <2>3. col \in 0 .. nr + n - 1 /\ ~(nr <= col) /\ M.start[r] + col = c
    BY <1>1, <1>2, <1>3, <2>1, <2>2
  <2> QED BY <1>2, <1>5, <2>3 DEF n, nr, col
<1> QED BY <1>4, <1>5

\* The entries of row g that refer to rows of r.
Inner(M, r, g) == {j \in 1 .. Len(M.rows[g]) : ~IsExternal(M, r, M.rows[g][j])}

\* A localized row has the entries of the row, those of the rank's own rows first,
\* both parts in their old order, each pointing at the slot of its column.
LEMMA RowSplit ==
  ASSUME NEW M \in Matrices, NEW r \in Procs, NEW list \in Orders(SourcesOf(M, r)),
         NEW i \in 0 .. M.nr[r] - 1
  PROVE  LET g   == M.start[r] + i
             n   == Len(M.rows[g])
             row == SplitRowsOf(M, r, list)[i]
         IN  /\ row.localEnd \in 0 .. n
             /\ row.localEnd = Cardinality(Inner(M, r, g))
             /\ \E order : /\ Partitions(order, n, Inner(M, r, g))
                           /\ DOMAIN row.entries = 1 .. n
                           /\ \A j \in 1 .. n :
                                /\ row.entries[j].col = ColumnOf(M, r, list, M.rows[g][order[j]])
                                /\ row.entries[j].val = M.rows[g][order[j]]
<1> DEFINE g == M.start[r] + i
           orig == M.rows[g]
           n == Len(orig)
           nr == M.nr[r]
           loc == LocalizeRow(M, r, orig, ExtOf(M, r), IndexOf(M, r, list))
           row == SplitRowsOf(M, r, list)[i]
           C(c) == ColumnOf(M, r, list, c)
<1>1. g \in M.start[r] .. StopRow(M, r) /\ n \in Nat /\ orig \in [1 .. n -> GlobalRows(M)]
  BY RowsAreSequences
<1>2. loc = [j \in 1 .. n |-> [col |-> C(orig[j]), val |-> orig[j]]]
  <2>1. DOMAIN orig = 1 .. n
    BY <1>1
  <2>2. loc = [j \in DOMAIN orig |-> [col |-> C(orig[j]), val |-> orig[j]]]
    BY Zenon DEF LocalizeRow, ColumnOf
  <2> HIDE DEF orig, loc, n, C
  <2> QED BY <2>1, <2>2
<1>3. row = SplitRow(nr, loc)
  BY DEF SplitRowsOf
<1>4. {j \in 1 .. n : loc[j].col < nr} = Inner(M, r, g)
  <2>1. ASSUME NEW j \in 1 .. n
        PROVE  loc[j].col < nr <=> ~IsExternal(M, r, orig[j])
    <3>1. orig[j] \in ToSet(orig) /\ orig[j] \in GlobalRows(M)
      BY <1>1 DEF ToSet
    <3>2. /\ C(orig[j]) \in 0 .. nr + ExtCount(M, r) - 1
          /\ IsExternal(M, r, orig[j]) <=> nr <= C(orig[j])
      BY <1>1, <3>1, ColumnFound
    <3>3. nr \in Nat /\ ExtCount(M, r) \in Nat
      BY RowsFollow, ExternalsListed DEF Procs
    <3>4. loc[j].col = C(orig[j])
      <4> HIDE DEF loc, orig, n, C
      <4> QED BY <1>2
    <3>5. \A c \in 0 .. nr + ExtCount(M, r) - 1 : c < nr <=> ~(nr <= c)
      BY <3>3
    <3> HIDE DEF loc, orig, n, C, nr
    <3> QED BY <3>2, <3>4, <3>5
  <2> HIDE DEF loc
  <2> QED BY <2>1 DEF Inner
<1>5. Splits(n, loc, nr, row)
  <2>1. DOMAIN loc = 1 .. n
    <3> HIDE DEF loc, orig, n, C
    <3> QED BY <1>2
  <2>2. n \in Nat
    BY <1>1
  <2> HIDE DEF loc, orig, n, row, nr
  <2> QED BY <1>3, <2>1, <2>2, SplitRowSplits
<1>6. PICK order :
        /\ Partitions(order, n, {j \in 1 .. n : loc[j].col < nr})
        /\ row.entries = [j \in 1 .. n |-> loc[order[j]]]
  BY <1>5, Zenon DEF Splits
<1>7. \A j \in 1 .. n : order[j] \in 1 .. n
  <2> HIDE DEF loc, n, nr
  <2> QED BY <1>6 DEF Partitions
<1>8. /\ DOMAIN row.entries = 1 .. n
      /\ \A j \in 1 .. n : row.entries[j].col = C(orig[order[j]]) /\ row.entries[j].val = orig[order[j]]
  <2> HIDE DEF loc, orig, n, row, nr, C
  <2> QED BY <1>2, <1>6, <1>7
<1>9. Partitions(order, n, Inner(M, r, g))
  BY <1>4, <1>6, Zenon
<1> HIDE DEF g, orig, n, row, loc, nr, C
<1>10. /\ row.localEnd \in 0 .. n
       /\ row.localEnd = Cardinality(Inner(M, r, g))
       /\ Partitions(order, n, Inner(M, r, g))
       /\ DOMAIN row.entries = 1 .. n
       /\ \A j \in 1 .. n : row.entries[j].col = C(orig[order[j]]) /\ row.entries[j].val = orig[order[j]]
  <2>1. row.localEnd \in 0 .. n /\ row.localEnd = Cardinality({j \in 1 .. n : loc[j].col < nr})
    BY <1>5, Zenon DEF Splits
  <2> QED BY <1>4, <1>8, <1>9, <2>1, Zenon
<1> QED BY <1>10, Zenon DEF g, orig, n, row, C

\* The global row a slot of r's vectors stands for when f permutes the rows.
SlotRow(M, r, list, f, s) ==
  IF s < M.nr[r] THEN M.start[r] + (CHOOSE i \in 0 .. M.nr[r] - 1 : f[i] = s)
  ELSE NeedOf(M, r, list)[s - M.nr[r] + 1]

\* Every entry of a row points at the slot of its column, the local ones first.
PointsRight(M, r, list, f, row) ==
  /\ Len(row.entries) \in Nat
  /\ DOMAIN row.entries = 1 .. Len(row.entries)
  /\ row.localEnd \in 0 .. Len(row.entries)
  /\ \A j \in 1 .. Len(row.entries) :
       /\ row.entries[j].val \in Nat
       /\ row.entries[j].col \in 0 .. M.nr[r] + ExtCount(M, r) - 1
       /\ SlotRow(M, r, list, f, row.entries[j].col) = row.entries[j].val
       /\ row.entries[j].col < M.nr[r] <=> j <= row.localEnd

\* In the rows the solvers get, every entry points at the slot of its column.
LEMMA FinalRow ==
  ASSUME NEW M \in Matrices, NEW r \in Procs, NEW list \in Orders(SourcesOf(M, r)),
         NEW f \in [0 .. M.nr[r] - 1 -> 0 .. M.nr[r] - 1], IsInjective(f),
         NEW i \in 0 .. M.nr[r] - 1
  PROVE  PointsRight(M, r, list, f, Renumbered(SplitRowsOf(M, r, list), M.nr[r], f)[i])
<1> DEFINE g == M.start[r] + i
           orig == M.rows[g]
           n == Len(orig)
           nr == M.nr[r]
           split == SplitRowsOf(M, r, list)[i]
           row == Renumbered(SplitRowsOf(M, r, list), nr, f)[i]
           C(c) == ColumnOf(M, r, list, c)
           R(s) == SlotRow(M, r, list, f, s)
<1>1. g \in M.start[r] .. StopRow(M, r) /\ n \in Nat /\ orig \in [1 .. n -> GlobalRows(M)]
  BY RowsAreSequences
<1>2. nr \in Nat /\ ExtCount(M, r) \in Nat
  BY RowsFollow, ExternalsListed DEF Procs
<1>3. PICK order : /\ Partitions(order, n, Inner(M, r, g))
                   /\ DOMAIN split.entries = 1 .. n
                   /\ \A j \in 1 .. n : /\ split.entries[j].col = C(orig[order[j]])
                                        /\ split.entries[j].val = orig[order[j]]
  BY RowSplit, Zenon
<1>4. split.localEnd \in 0 .. n /\ split.localEnd = Cardinality(Inner(M, r, g))
  BY RowSplit, Zenon
<1>5. row = RenumberRow(split, nr, f)
  BY DEF Renumbered
<1>6. /\ DOMAIN row.entries = 1 .. n
      /\ row.localEnd = split.localEnd
      /\ row.entries = [j \in 1 .. n |->
           [col |-> IF split.entries[j].col < nr THEN f[split.entries[j].col] ELSE split.entries[j].col,
            val |-> split.entries[j].val]]
  <2> HIDE DEF n, nr, split, row
  <2> QED BY <1>3, <1>5 DEF RenumberRow
<1>7. Len(row.entries) = n
  <2> HIDE DEF n, nr, split, row
  <2> QED BY <1>1, <1>6, LengthOf
<1>8. ASSUME NEW j \in 1 .. n
      PROVE  /\ row.entries[j].val \in Nat
             /\ row.entries[j].col \in 0 .. nr + ExtCount(M, r) - 1
             /\ R(row.entries[j].col) = row.entries[j].val
             /\ row.entries[j].col < nr <=> j <= row.localEnd
  <2> DEFINE c == orig[order[j]]
             s == C(c)
             e == row.entries[j]
  <2>1. order[j] \in 1 .. n /\ (order[j] \in Inner(M, r, g) <=> j <= split.localEnd)
    <3>1. /\ order[j] \in 1 .. n
          /\ order[j] \in Inner(M, r, g) <=> j <= Cardinality(Inner(M, r, g))
      <4> HIDE DEF n, split, C, orig, g
      <4>1. order \in [1 .. n -> 1 .. n]
        BY <1>3, Zenon DEF Partitions
      <4>2. order[j] \in Inner(M, r, g) <=> j <= Cardinality(Inner(M, r, g))
        BY <1>3, Zenon DEF Partitions
      <4> QED BY <4>1, <4>2
    <3> QED BY <3>1, <1>4
  <2>2. c \in ToSet(orig) /\ c \in GlobalRows(M)
    BY <1>1, <2>1 DEF ToSet
  <2>3. /\ s \in 0 .. nr + ExtCount(M, r) - 1
        /\ c \in Nat
        /\ IsExternal(M, r, c) <=> nr <= s
        /\ IsExternal(M, r, c) => NeedOf(M, r, list)[s - nr + 1] = c
        /\ ~IsExternal(M, r, c) => M.start[r] + s = c
    BY <1>1, <2>2, ColumnFound
  <2>4. j <= split.localEnd <=> ~IsExternal(M, r, c)
    BY <2>1 DEF Inner
  <2>5. e.col = (IF s < nr THEN f[s] ELSE s) /\ e.val = c
    <3> HIDE DEF n, nr, split, row, orig, C
    <3> QED BY <1>3, <1>6
  <2> HIDE DEF n, nr, split, row, orig, C, c, s, e
  <2> HIDE DEF R
  <2>6. s \in Int /\ (s < nr <=> ~IsExternal(M, r, c))
    BY <2>3, <1>2
  <2>7. CASE IsExternal(M, r, c)
    <3>1. e.col = s /\ ~(s < nr)
      BY <2>5, <2>6, <2>7
    <3>2. R(s) = c
      BY <2>3, <2>7, <3>1, Zenon DEF SlotRow, nr, R
    <3>3. e.col \in 0 .. nr + ExtCount(M, r) - 1
      BY <2>3, <3>1
    <3>5. R(e.col) = e.val /\ e.val \in Nat
      BY <2>3, <2>5, <3>1, <3>2
    <3>4. ~(e.col < nr) /\ ~(j <= row.localEnd)
      BY <2>4, <2>7, <3>1, <1>6
    <3> QED BY <3>3, <3>4, <3>5 DEF e
  <2>8. CASE ~IsExternal(M, r, c)
    <3>1. s \in 0 .. nr - 1 /\ e.col = f[s]
      BY <2>3, <2>5, <2>6, <2>8, <1>2
    <3>2. f[s] \in 0 .. nr - 1
      BY <3>1 DEF nr
    <3>3. f[s] < nr /\ f[s] \in 0 .. nr + ExtCount(M, r) - 1
      BY <3>2, <1>2
    <3>4. (CHOOSE k \in 0 .. nr - 1 : f[k] = f[s]) = s
      BY <1>2, <3>1, PermOnto DEF nr
    <3>5. R(f[s]) = M.start[r] + s
      BY <3>3, <3>4, Zenon DEF SlotRow, nr, R
    <3>6. e.col \in 0 .. nr + ExtCount(M, r) - 1 /\ R(e.col) = e.val /\ e.val \in Nat
      BY <2>3, <2>5, <2>8, <3>1, <3>3, <3>5
    <3>7. e.col < nr /\ j <= row.localEnd
      BY <2>4, <2>8, <3>1, <3>3, <1>6
    <3> QED BY <3>6, <3>7 DEF e
  <2> QED BY <2>7, <2>8 DEF e
<1> HIDE DEF g, orig, n, nr, split, row, C, R
<1>9. /\ Len(row.entries) \in Nat
      /\ DOMAIN row.entries = 1 .. Len(row.entries)
      /\ row.localEnd \in 0 .. Len(row.entries)
      /\ \A j \in 1 .. Len(row.entries) :
           /\ row.entries[j].val \in Nat
           /\ row.entries[j].col \in 0 .. nr + ExtCount(M, r) - 1
           /\ R(row.entries[j].col) = row.entries[j].val
           /\ row.entries[j].col < nr <=> j <= row.localEnd
  BY <1>1, <1>4, <1>6, <1>7, <1>8
<1>10. PointsRight(M, r, list, f, row)
  <2>1. \A j \in 1 .. Len(row.entries) :
          /\ row.entries[j].val \in Nat
          /\ row.entries[j].col \in 0 .. M.nr[r] + ExtCount(M, r) - 1
          /\ SlotRow(M, r, list, f, row.entries[j].col) = row.entries[j].val
          /\ row.entries[j].col < M.nr[r] <=> j <= row.localEnd
    <3>1. TAKE j \in 1 .. Len(row.entries)
    <3>2. row.entries[j].val \in Nat
      BY <1>9
    <3>3. row.entries[j].col \in 0 .. M.nr[r] + ExtCount(M, r) - 1
      BY <1>9 DEF nr
    <3>4. R(row.entries[j].col) = row.entries[j].val
      BY <1>9
    <3>5. row.entries[j].col < M.nr[r] <=> j <= row.localEnd
      BY <1>9 DEF nr
    <3> QED BY <3>2, <3>3, <3>4, <3>5, Zenon DEF R
  <2> QED BY <1>9, <2>1, Zenon DEF PointsRight
<1> QED BY <1>10 DEF row, nr

\* The entries of a row are those of global row g, own columns first, each kind in
\* its old order.
Keeps(M, r, g, entries) ==
  \E from \in [DOMAIN M.rows[g] -> DOMAIN M.rows[g]] :
    /\ IsInjective(from)
    /\ DOMAIN entries = DOMAIN M.rows[g]
    /\ \A j \in DOMAIN M.rows[g] : entries[j].val = M.rows[g][from[j]]
    /\ \A j, k \in DOMAIN M.rows[g] : j < k =>
         IF IsExternal(M, r, M.rows[g][from[j]])
         THEN IsExternal(M, r, M.rows[g][from[k]]) /\ from[j] < from[k]
         ELSE ~IsExternal(M, r, M.rows[g][from[k]]) => from[j] < from[k]

\* A localized row keeps its entries, and so does a renumbered one.
LEMMA RowKept ==
  ASSUME NEW M \in Matrices, NEW r \in Procs, NEW list \in Orders(SourcesOf(M, r)),
         NEW i \in 0 .. M.nr[r] - 1, NEW f
  PROVE  LET g == M.start[r] + i
         IN  /\ Keeps(M, r, g, SplitRowsOf(M, r, list)[i].entries)
             /\ Keeps(M, r, g, Renumbered(SplitRowsOf(M, r, list), M.nr[r], f)[i].entries)
<1> DEFINE g == M.start[r] + i
           orig == M.rows[g]
           n == Len(orig)
           split == SplitRowsOf(M, r, list)[i]
           S == Inner(M, r, g)
           outer(c) == IsExternal(M, r, c)
<1>1. n \in Nat /\ DOMAIN orig = 1 .. n
  <2>1. n \in Nat /\ orig \in [1 .. n -> GlobalRows(M)]
    BY RowsAreSequences
  <2> QED BY <2>1
<1>2. PICK order : /\ Partitions(order, n, S)
                   /\ DOMAIN split.entries = 1 .. n
                   /\ \A j \in 1 .. n :
                        /\ split.entries[j].col = ColumnOf(M, r, list, orig[order[j]])
                        /\ split.entries[j].val = orig[order[j]]
  BY RowSplit, Zenon
<1>3. order \in [1 .. n -> 1 .. n] /\ \A a, b \in 1 .. n : order[a] = order[b] => a = b
  BY <1>2, Zenon DEF Partitions
<1>4. IsInjective(order)
  BY <1>3 DEF IsInjective
<1>5. \A j \in 1 .. n : order[j] \in S <=> ~outer(orig[order[j]])
  BY <1>3 DEF Inner
<1>6. \A j \in 1 .. n : order[j] \in S <=> j <= Cardinality(S)
  BY <1>2, Zenon DEF Partitions
<1>7. \A j, k \in 1 .. n : j < k /\ (order[j] \in S <=> order[k] \in S) => order[j] < order[k]
  BY <1>2, Zenon DEF Partitions
<1>8. Cardinality(S) \in Nat
  <2>1. Cardinality(S) = split.localEnd /\ split.localEnd \in 0 .. n
    BY RowSplit, Zenon
  <2> QED BY <2>1, <1>1
<1> HIDE DEF g, orig, n, split, S, outer
<1>9. \A j, k \in 1 .. n : j < k =>
        IF outer(orig[order[j]]) THEN outer(orig[order[k]]) /\ order[j] < order[k]
        ELSE ~outer(orig[order[k]]) => order[j] < order[k]
  <2> SUFFICES ASSUME NEW j \in 1 .. n, NEW k \in 1 .. n, j < k
               PROVE  /\ outer(orig[order[j]]) => outer(orig[order[k]]) /\ order[j] < order[k]
                      /\ ~outer(orig[order[j]]) =>
                           (~outer(orig[order[k]]) => order[j] < order[k])
    OBVIOUS
  <2>1. j \in Int /\ k \in Int
    BY <1>1
  <2>2. order[k] \in S => order[j] \in S
    BY <2>1, <1>6, <1>8
  <2> QED BY <2>2, <1>5, <1>7
<1>10. ASSUME NEW entries, DOMAIN entries = 1 .. n,
              \A j \in 1 .. n : entries[j].val = orig[order[j]]
       PROVE  Keeps(M, r, g, entries)
  <2>1. /\ order \in [DOMAIN orig -> DOMAIN orig]
        /\ IsInjective(order)
        /\ DOMAIN entries = DOMAIN orig
        /\ \A j \in DOMAIN orig : entries[j].val = orig[order[j]]
        /\ \A j, k \in DOMAIN orig : j < k =>
             IF outer(orig[order[j]]) THEN outer(orig[order[k]]) /\ order[j] < order[k]
             ELSE ~outer(orig[order[k]]) => order[j] < order[k]
    BY <1>1, <1>3, <1>4, <1>9, <1>10, Zenon
  <2> QED BY <2>1, Zenon DEF Keeps, orig, outer
<1>11. Keeps(M, r, g, split.entries)
  BY <1>2, <1>10
<1> DEFINE row == Renumbered(SplitRowsOf(M, r, list), M.nr[r], f)[i]
<1>12. row = RenumberRow(split, M.nr[r], f)
  BY DEF Renumbered, split
<1>13. DOMAIN row.entries = 1 .. n /\ \A j \in 1 .. n : row.entries[j].val = split.entries[j].val
  <2> HIDE DEF row
  <2> QED BY <1>2, <1>12 DEF RenumberRow
<1> HIDE DEF row
<1>14. \A j \in 1 .. n : row.entries[j].val = orig[order[j]]
  BY <1>2, <1>13
<1>15. Keeps(M, r, g, row.entries)
  BY <1>10, <1>13, <1>14
<1> QED BY <1>11, <1>15, Zenon DEF g, split, row

\* localizeMatrix, reorderMatrixForOverlap and the renumbering lose no entry of a
\* row, take none twice and leave the two kinds in their order.
THEOREM EntriesSurvive == Spec => []RowsPreserved
<1>1. Inv => RowsPreserved
  <2> SUFFICES ASSUME Inv, NEW r \in Procs, Reached(r, "post"), NEW i \in OldRows(r)
               PROVE  Keeps(A, r, A.start[r] + i, rows[r][i].entries)
    BY Zenon DEF RowsPreserved, Keeps
  <2>1. pc[r] \in Localized /\ pc[r] \in Listed /\ A \in Matrices
    BY ReachedSteps, StepSets DEF Inv, Typed
  <2>2. sources[r] \in Orders(SourcesOf(A, r))
    BY <2>1, ListedRanks
  <2>3. i \in 0 .. A.nr[r] - 1
    BY DEF OldRows
  <2>4. \/ rows[r] = SplitRowsOf(A, r, sources[r])
        \/ rows[r] = Renumbered(SplitRowsOf(A, r, sources[r]), A.nr[r], perm[r])
    BY <2>1, StepSets DEF Inv, RankInv, RowsInv
  <2>5. /\ Keeps(A, r, A.start[r] + i, SplitRowsOf(A, r, sources[r])[i].entries)
        /\ Keeps(A, r, A.start[r] + i,
                 Renumbered(SplitRowsOf(A, r, sources[r]), A.nr[r], perm[r])[i].entries)
    BY <2>1, <2>2, <2>3, RowKept
  <2> QED BY <2>4, <2>5, Zenon
<1> QED BY <1>1, Invariance, PTL

\* Where the halo of a rank has what a source sends, and where a rank's elements
\* have what a destination gets.
RecvAt(M, r, list, q) == Prefix(RecvCountsOf(M, r, list), IndexIn(list, q))
SendAt(M, q, list, r) == Prefix(SendCountsOf(M, q, list), IndexIn(list, r))

\* What the sources send tiles the halo.
LEMMA HaloTiles ==
  ASSUME NEW M \in Matrices, NEW r \in Procs, NEW list \in Orders(SourcesOf(M, r))
  PROVE  LET count(q) == RecvFrom(OwnOf(M, r), q)
             part(q)  == RecvAt(M, r, list, q) .. RecvAt(M, r, list, q) + count(q) - 1
         IN  /\ \A q \in SourcesOf(M, r) :
                  /\ RecvAt(M, r, list, q) \in Nat /\ count(q) \in Nat
                  /\ RecvAt(M, r, list, q) + count(q) <= ExtCount(M, r)
             /\ \A q, s \in SourcesOf(M, r) : q # s => \A n \in part(q) : n \notin part(s)
             /\ \A n \in 0 .. ExtCount(M, r) - 1 : \E q \in SourcesOf(M, r) : n \in part(q)
<1> DEFINE m == Len(list)
           S == SourcesOf(M, r)
           counts == RecvCountsOf(M, r, list)
           at(q) == IndexIn(list, q)
           count(q) == RecvFrom(OwnOf(M, r), q)
           part(q)  == RecvAt(M, r, list, q) .. RecvAt(M, r, list, q) + count(q) - 1
           n == ExtCount(M, r)
<1>1. m \in Nat /\ list \in [1 .. m -> S] /\ counts \in [1 .. m -> Nat]
  BY SourcesBucket
<1>2. \A q \in S : at(q) \in 1 .. m /\ list[at(q)] = q /\ counts[at(q)] = count(q)
  BY MessageWanted
<1>3. Prefix(counts, m + 1) = n
  BY NeedSorted, Zenon
<1>4. \A i, j \in 1 .. m : list[i] = list[j] => i = j
  BY SourcesBucket
<1>5. \A q \in S : RecvAt(M, r, list, q) = Prefix(counts, at(q))
  BY DEF RecvAt
<1> HIDE DEF m, S, counts, at, count, n
<1>6. \A q \in S : part(q) = Block(counts, at(q))
  BY <1>2, <1>5 DEF Block
<1>7. /\ \A b \in 1 .. m : /\ Prefix(counts, b) \in Nat
                           /\ counts[b] \in Nat
                           /\ Prefix(counts, b) + counts[b] <= n
      /\ \A b, c \in 1 .. m : b # c => \A k \in Block(counts, b) : k \notin Block(counts, c)
      /\ \A k \in 0 .. n - 1 : \E b \in 1 .. m : k \in Block(counts, b)
  BY <1>1, <1>3, BlocksTile
<1>8. \A q \in S : /\ RecvAt(M, r, list, q) \in Nat /\ count(q) \in Nat
                   /\ RecvAt(M, r, list, q) + count(q) <= n
  <2>1. TAKE q \in S
  <2>2. /\ Prefix(counts, at(q)) \in Nat /\ counts[at(q)] \in Nat
        /\ Prefix(counts, at(q)) + counts[at(q)] <= n
    BY <1>2, <1>7
  <2> QED BY <1>2, <1>5, <2>2
<1>9. \A q, s \in S : q # s => \A k \in part(q) : k \notin part(s)
  <2> SUFFICES ASSUME NEW q \in S, NEW s \in S, q # s, NEW k \in Block(counts, at(q))
               PROVE  k \notin Block(counts, at(s))
    BY <1>6
  <2>1. at(q) # at(s)
    BY <1>2
  <2> QED BY <1>2, <1>7, <2>1
<1>10. \A k \in 0 .. n - 1 : \E q \in S : k \in part(q)
  <2>1. TAKE k \in 0 .. n - 1
  <2>2. PICK b \in 1 .. m : k \in Block(counts, b)
    BY <1>7
  <2>3. list[b] \in S /\ at(list[b]) = b
    BY <1>1, <1>2, <1>4
  <2>4. k \in part(list[b])
    BY <1>6, <2>2, <2>3
  <2> QED BY <2>3, <2>4
<1> QED BY <1>8, <1>9, <1>10, Zenon DEF S, count, n

\* Every slot stands for a row, and an owned one for the row moved there.
LEMMA SlotsStand ==
  ASSUME NEW M \in Matrices, NEW r \in Procs, NEW list \in Orders(SourcesOf(M, r)),
         NEW f \in [0 .. M.nr[r] - 1 -> 0 .. M.nr[r] - 1], IsInjective(f)
  PROVE  /\ \A s \in 0 .. M.nr[r] + ExtCount(M, r) - 1 : SlotRow(M, r, list, f, s) \in Nat
         /\ \A i \in 0 .. M.nr[r] - 1 : SlotRow(M, r, list, f, f[i]) = M.start[r] + i
<1> DEFINE nr == M.nr[r]
           n == ExtCount(M, r)
           need == NeedOf(M, r, list)
<1>1. nr \in Nat /\ M.start[r] \in Nat /\ n \in Nat
  BY RowsFollow, ExternalsListed DEF Procs
<1>2. f \in [0 .. nr - 1 -> 0 .. nr - 1] /\ IsInjective(f)
  OBVIOUS
<1>6. \A t \in 0 .. nr - 1 : \E i \in 0 .. nr - 1 : f[i] = t
  <2> HIDE DEF n, need, nr
  <2> QED BY <1>1, <1>2, PermFills
<1>3. \A k \in 1 .. n : need[k] \in Nat
  <2>1. need \in [1 .. n -> GlobalRows(M)]
    BY NeedSorted, Zenon
  <2>2. \A g \in GlobalRows(M) : g \in Nat
    <3>1. M.start[Size - 1] \in Nat /\ M.nr[Size - 1] \in Nat
      BY RowsFollow
    <3> QED BY <3>1 DEF GlobalRows
  <2> HIDE DEF need, n
  <2> QED BY <2>1, <2>2
<1>4. ASSUME NEW s \in 0 .. nr + n - 1
      PROVE  SlotRow(M, r, list, f, s) \in Nat
  <2>1. CASE s < nr
    <3>1. (CHOOSE i \in 0 .. nr - 1 : f[i] = s) \in 0 .. nr - 1
      <4>1. s \in 0 .. nr - 1
        BY <1>1, <2>1
      <4> HIDE DEF nr
      <4>2. \E i \in 0 .. nr - 1 : f[i] = s
        BY <4>1, <1>6
      <4> QED BY <4>2
    <3>2. SlotRow(M, r, list, f, s) = M.start[r] + (CHOOSE i \in 0 .. nr - 1 : f[i] = s)
      BY <2>1 DEF SlotRow
    <3> HIDE DEF nr
    <3> QED BY <3>1, <3>2, <1>1
  <2>2. CASE ~(s < nr)
    <3>1. s - nr + 1 \in 1 .. n
      BY <1>1, <2>2
    <3>2. SlotRow(M, r, list, f, s) = need[s - nr + 1]
      BY <2>2 DEF SlotRow
    <3> QED BY <3>1, <3>2, <1>3
  <2> QED BY <2>1, <2>2
<1>5. ASSUME NEW i \in 0 .. nr - 1
      PROVE  SlotRow(M, r, list, f, f[i]) = M.start[r] + i
  <2>1. f[i] < nr
    <3>1. f[i] \in 0 .. nr - 1
      OBVIOUS
    <3> QED BY <3>1, <1>1
  <2>2. SlotRow(M, r, list, f, f[i]) = M.start[r] + (CHOOSE j \in 0 .. nr - 1 : f[j] = f[i])
    BY <2>1 DEF SlotRow
  <2>3. (CHOOSE j \in 0 .. nr - 1 : f[j] = f[i]) = i
    <3> HIDE DEF nr
    <3> QED BY <1>1, <1>2, PermOnto
  <2> HIDE DEF nr
  <2> QED BY <2>2, <2>3
<1> QED BY <1>4, <1>5

\* What the invariant says of a rank that has finished.
LEMMA DoneRank ==
  ASSUME Inv, AllDone, NEW r \in Procs
  PROVE  /\ A \in Matrices /\ A.nr[r] \in Nat /\ ExtCount(A, r) \in Nat /\ nc \in [Procs -> Nat]
         /\ pc[r] \in Listed /\ pc[r] \in Posted
         /\ ToSet(sources[r]) = SourcesOf(A, r) /\ SourcesOf(A, r) \subseteq Procs
         /\ ToSet(dests[r]) = DestsOf(A, r) /\ DestsOf(A, r) \subseteq Procs
         /\ sources[r] \in Orders(SourcesOf(A, r)) /\ dests[r] \in Orders(DestsOf(A, r))
         /\ RecvCounts(r) = RecvCountsOf(A, r, sources[r])
         /\ SendCounts(r) = SendCountsOf(A, r, dests[r])
         /\ nc[r] = A.nr[r] + ExtCount(A, r)
         /\ perm[r] \in [0 .. A.nr[r] - 1 -> 0 .. A.nr[r] - 1] /\ IsInjective(perm[r])
         /\ rows[r] = Renumbered(SplitRowsOf(A, r, sources[r]), A.nr[r], perm[r])
         /\ \A q \in DestsOf(A, r) : request[<<q, r>>] = "received"
<1>1. pc[r] = "done" /\ pc[r] \in Listed /\ pc[r] \in Posted /\ pc[r] \in Localized
      /\ pc[r] \in Converted /\ pc[r] \in Exchanged
  BY StepSets DEF AllDone
<1>2. A \in Matrices /\ nc \in [Procs -> Nat]
  BY DEF Inv, Typed
<1>3. A.nr[r] \in Nat /\ ExtCount(A, r) \in Nat
  BY <1>2, RowsFollow, ExternalsListed DEF Procs
<1>4. /\ ToSet(sources[r]) = SourcesOf(A, r) /\ SourcesOf(A, r) \subseteq Procs
      /\ ToSet(dests[r]) = DestsOf(A, r) /\ DestsOf(A, r) \subseteq Procs
      /\ sources[r] \in Orders(SourcesOf(A, r)) /\ dests[r] \in Orders(DestsOf(A, r))
  BY <1>1, ListedRanks
<1>5. /\ RecvCounts(r) = RecvCountsOf(A, r, sources[r])
      /\ SendCounts(r) = SendCountsOf(A, r, dests[r])
  BY <1>1, CountsKnown
<1>6. /\ nc[r] = A.nr[r] + ExtCount(A, r)
      /\ perm[r] \in [0 .. A.nr[r] - 1 -> 0 .. A.nr[r] - 1] /\ IsInjective(perm[r])
      /\ rows[r] = Renumbered(SplitRowsOf(A, r, sources[r]), A.nr[r], perm[r])
  BY <1>1 DEF Inv, RankInv, RowsInv, OldRows
<1>7. \A q \in DestsOf(A, r) : request[<<q, r>>] = "received"
  BY <1>1, <1>4 DEF Inv, RankInv, ElementsInv
<1> QED BY <1>1, <1>2, <1>3, <1>4, <1>5, <1>6, <1>7

\* The fields of the plan at a rank that has finished.
PlanAt(p, r) ==
  /\ p.nr[r] = A.nr[r] /\ p.nc[r] = A.nr[r] + ExtCount(A, r)
  /\ p.totalSendCount[r] = Prefix(SendCountsOf(A, r, dests[r]), Len(dests[r]) + 1)
  /\ p.sources[r] = SourcesOf(A, r) /\ p.destinations[r] = DestsOf(A, r)
  /\ p.recvCounts[r] = [q \in SourcesOf(A, r) |-> RecvFrom(OwnOf(A, r), q)]
  /\ p.rdispls[r] = [q \in SourcesOf(A, r) |-> RecvAt(A, r, sources[r], q)]
  /\ p.sendCounts[r] = [q \in DestsOf(A, r) |-> RecvFrom(OwnOf(A, q), r)]
  /\ p.sdispls[r] = [q \in DestsOf(A, r) |-> SendAt(A, r, dests[r], q)]
  /\ p.elementsToSend[r] = elements[r]
  /\ p.glob[r] = [s \in 0 .. A.nr[r] + ExtCount(A, r) - 1 |->
                    SlotRow(A, r, sources[r], perm[r], s)]

\* The neighbours' part of the plan.
LEMMA PlanNeighbours ==
  ASSUME Inv, AllDone, NEW r \in Procs
  PROVE  PlanAt(Plan, r)
<1> DEFINE p == Plan
           srcs == sources[r]
           dsts == dests[r]
<1>1. /\ A \in Matrices /\ A.nr[r] \in Nat
      /\ ToSet(srcs) = SourcesOf(A, r) /\ SourcesOf(A, r) \subseteq Procs
      /\ ToSet(dsts) = DestsOf(A, r) /\ DestsOf(A, r) \subseteq Procs
      /\ srcs \in Orders(SourcesOf(A, r)) /\ dsts \in Orders(DestsOf(A, r))
      /\ RecvCounts(r) = RecvCountsOf(A, r, srcs)
      /\ SendCounts(r) = SendCountsOf(A, r, dsts)
      /\ nc[r] = A.nr[r] + ExtCount(A, r)
  BY DoneRank
<1>2. p.nr[r] = A.nr[r] /\ p.nc[r] = A.nr[r] + ExtCount(A, r)
  BY <1>1 DEF Plan
<1>3. p.totalSendCount[r] = Prefix(SendCountsOf(A, r, dsts), Len(dsts) + 1)
  <2>1. p.totalSendCount[r] = TotalSendCount(r)
    BY DEF Plan
  <2>2. TotalSendCount(r) = Prefix(SendCounts(r), Len(dsts) + 1)
    BY DEF TotalSendCount
  <2> QED BY <2>1, <2>2, <1>1, Zenon
<1>4. p.sources[r] = SourcesOf(A, r) /\ p.destinations[r] = DestsOf(A, r)
  <2>1. p.sources[r] = ToSet(srcs) /\ p.destinations[r] = ToSet(dsts)
    BY DEF Plan
  <2> QED BY <2>1, <1>1
<1>5. /\ \A q \in SourcesOf(A, r) :
           IndexIn(srcs, q) \in 1 .. Len(srcs)
           /\ RecvCountsOf(A, r, srcs)[IndexIn(srcs, q)] = RecvFrom(OwnOf(A, r), q)
      /\ DOMAIN srcs = 1 .. Len(srcs)
  <2>1. srcs \in [1 .. Len(srcs) -> SourcesOf(A, r)]
    BY <1>1, SourcesBucket
  <2> QED BY <1>1, <2>1, MessageWanted
<1>6. /\ \A q \in DestsOf(A, r) :
           IndexIn(dsts, q) \in 1 .. Len(dsts)
           /\ SendCountsOf(A, r, dsts)[IndexIn(dsts, q)] = RecvFrom(OwnOf(A, q), r)
      /\ DOMAIN dsts = 1 .. Len(dsts)
  <2>1. dsts \in [1 .. Len(dsts) -> DestsOf(A, r)]
    BY <1>1, DestsCount
  <2>2. \A q \in DestsOf(A, r) :
           IndexIn(dsts, q) \in 1 .. Len(dsts)
           /\ SendCountsOf(A, r, dsts)[IndexIn(dsts, q)] = RecvFrom(OwnOf(A, q), r)
    <3>1. TAKE q \in DestsOf(A, r)
    <3> QED BY <1>1, PlacesTile
  <2> QED BY <2>1, <2>2
<1>7. p.recvCounts[r] = [q \in SourcesOf(A, r) |-> RecvFrom(OwnOf(A, r), q)]
  <2>1. p.recvCounts[r] = ByRank(srcs, RecvCounts(r))
    BY DEF Plan
  <2>2. ByRank(srcs, RecvCounts(r)) = [q \in SourcesOf(A, r) |-> RecvCountsOf(A, r, srcs)[IndexIn(srcs, q)]]
    BY <1>1, Zenon DEF ByRank
  <2> HIDE DEF p, srcs
  <2> QED BY <2>1, <2>2, <1>5
<1>8. p.rdispls[r] = [q \in SourcesOf(A, r) |-> RecvAt(A, r, srcs, q)]
  <2>1. p.rdispls[r] = ByRank(srcs, Rdispls(r))
    BY DEF Plan
  <2>2. ByRank(srcs, Rdispls(r)) = [q \in SourcesOf(A, r) |-> Rdispls(r)[IndexIn(srcs, q)]]
    BY <1>1, Zenon DEF ByRank
  <2>3. Rdispls(r) = [i \in 1 .. Len(srcs) |-> Prefix(RecvCountsOf(A, r, srcs), i)]
    BY <1>1, <1>5, Zenon DEF Rdispls
  <2>4. \A q \in SourcesOf(A, r) : Rdispls(r)[IndexIn(srcs, q)] = RecvAt(A, r, srcs, q)
    <3> HIDE DEF srcs
    <3> QED BY <2>3, <1>5 DEF RecvAt
  <2> HIDE DEF p, srcs
  <2> QED BY <2>1, <2>2, <2>4
<1>9. p.sendCounts[r] = [q \in DestsOf(A, r) |-> RecvFrom(OwnOf(A, q), r)]
  <2>1. p.sendCounts[r] = ByRank(dsts, SendCounts(r))
    BY DEF Plan
  <2>2. ByRank(dsts, SendCounts(r)) = [q \in DestsOf(A, r) |-> SendCountsOf(A, r, dsts)[IndexIn(dsts, q)]]
    BY <1>1, Zenon DEF ByRank
  <2> HIDE DEF p, dsts
  <2> QED BY <2>1, <2>2, <1>6
<1>10. p.sdispls[r] = [q \in DestsOf(A, r) |-> SendAt(A, r, dsts, q)]
  <2>1. p.sdispls[r] = ByRank(dsts, Sdispls(r))
    BY DEF Plan
  <2>2. ByRank(dsts, Sdispls(r)) = [q \in DestsOf(A, r) |-> Sdispls(r)[IndexIn(dsts, q)]]
    BY <1>1, Zenon DEF ByRank
  <2>3. Sdispls(r) = [i \in 1 .. Len(dsts) |-> Prefix(SendCountsOf(A, r, dsts), i)]
    BY <1>1, <1>6, Zenon DEF Sdispls
  <2>4. \A q \in DestsOf(A, r) : Sdispls(r)[IndexIn(dsts, q)] = SendAt(A, r, dsts, q)
    <3> HIDE DEF dsts
    <3> QED BY <2>3, <1>6 DEF SendAt
  <2> HIDE DEF p, dsts
  <2> QED BY <2>1, <2>2, <2>4
<1>11. p.elementsToSend[r] = elements[r]
  BY DEF Plan
<1>12. p.glob[r] = [s \in 0 .. A.nr[r] + ExtCount(A, r) - 1 |-> SlotRow(A, r, srcs, perm[r], s)]
  <2>1. p.glob[r] = [s \in 0 .. nc[r] - 1 |-> Glob(r, s)]
    BY DEF Plan
  <2>2. own[r] = OwnOf(A, r) /\ ext[r] = ExtOf(A, r)
    BY DoneRank, EverybodysOwners
  <2>3. Reordered(A.nr[r], ext[r], ExtLocalIndex(A.nr[r], own[r], sources[r], RecvCounts(r)))
          = NeedOf(A, r, srcs)
    BY <1>1, <2>2, Zenon DEF NeedOf, IndexOf
  <2>4. \A s : Glob(r, s) = SlotRow(A, r, srcs, perm[r], s)
    <3>1. TAKE s
    <3>2. CASE s < A.nr[r]
      BY <3>2 DEF Glob, SlotRow, OldRows
    <3>3. CASE ~(s < A.nr[r])
      <4>1. Glob(r, s) = Reordered(A.nr[r], ext[r], ExtLocalIndex(A.nr[r], own[r], sources[r],
                                     RecvCounts(r)))[s - A.nr[r] + 1]
        BY <3>3, Zenon DEF Glob
      <4>2. SlotRow(A, r, srcs, perm[r], s) = NeedOf(A, r, srcs)[s - A.nr[r] + 1]
        BY <3>3, Zenon DEF SlotRow
      <4> QED BY <4>1, <4>2, <2>3, Zenon
    <3> QED BY <3>2, <3>3
  <2>5. nc[r] - 1 = A.nr[r] + ExtCount(A, r) - 1
    BY <1>1, ExternalsListed
  <2> HIDE DEF p, srcs
  <2> QED BY <2>1, <2>4, <2>5
<1> QED BY <1>2, <1>3, <1>4, <1>7, <1>8, <1>9, <1>10, <1>11, <1>12, Zenon DEF PlanAt

\* The final row i of rank r.
RowAt(r, i) == rows[r][CHOOSE j \in OldRows(r) : perm[r][j] = i]

\* The matrix part of the plan.
RowsAt(p, r) ==
  /\ p.len[r] = [i \in OldRows(r) |-> Len(RowAt(r, i).entries)]
  /\ p.localEnd[r] = [i \in OldRows(r) |-> RowAt(r, i).localEnd]
  /\ p.boundaryRows[r] = {i \in OldRows(r) : RowAt(r, i).localEnd < Len(RowAt(r, i).entries)}
  /\ \A i \in OldRows(r) :
       /\ p.col[r][i] = [j \in 0 .. Len(RowAt(r, i).entries) - 1 |-> RowAt(r, i).entries[j + 1].col]
       /\ p.val[r][i] = [j \in 0 .. Len(RowAt(r, i).entries) - 1 |-> RowAt(r, i).entries[j + 1].val]
       /\ PointsRight(A, r, sources[r], perm[r], RowAt(r, i))

\* The rows the solvers get point right.
LEMMA PlanRows ==
  ASSUME Inv, AllDone, NEW r \in Procs
  PROVE  RowsAt(Plan, r)
<1> DEFINE p == Plan
<1>1. \A i \in OldRows(r) : NewRows(r)[i] = RowAt(r, i) /\ RowEntries(r, i) = RowAt(r, i).entries
  BY DEF NewRows, RowAt, RowEntries
<1>2. p.len[r] = [i \in OldRows(r) |-> Len(RowEntries(r, i))]
  BY DEF Plan
<1>3. p.localEnd[r] = [i \in OldRows(r) |-> NewRows(r)[i].localEnd]
  BY DEF Plan
<1>4. p.boundaryRows[r] = {i \in OldRows(r) : NewRows(r)[i].localEnd < Len(RowEntries(r, i))}
  BY DEF Plan
<1>5. p.col[r] = [i \in OldRows(r) |->
                    [j \in 0 .. Len(RowEntries(r, i)) - 1 |-> RowEntries(r, i)[j + 1].col]]
  BY DEF Plan
<1>6. p.val[r] = [i \in OldRows(r) |->
                    [j \in 0 .. Len(RowEntries(r, i)) - 1 |-> RowEntries(r, i)[j + 1].val]]
  BY DEF Plan
<1> HIDE DEF p
<1>7. p.len[r] = [i \in OldRows(r) |-> Len(RowAt(r, i).entries)]
  BY <1>1, <1>2
<1>8. p.localEnd[r] = [i \in OldRows(r) |-> RowAt(r, i).localEnd]
  BY <1>1, <1>3
<1>9. p.boundaryRows[r] = {i \in OldRows(r) : RowAt(r, i).localEnd < Len(RowAt(r, i).entries)}
  BY <1>1, <1>4
<1>10. ASSUME NEW i \in OldRows(r)
       PROVE  /\ p.col[r][i] = [j \in 0 .. Len(RowAt(r, i).entries) - 1 |-> RowAt(r, i).entries[j + 1].col]
              /\ p.val[r][i] = [j \in 0 .. Len(RowAt(r, i).entries) - 1 |-> RowAt(r, i).entries[j + 1].val]
              /\ PointsRight(A, r, sources[r], perm[r], RowAt(r, i))
  <2>1. p.col[r][i] = [j \in 0 .. Len(RowEntries(r, i)) - 1 |-> RowEntries(r, i)[j + 1].col]
    BY <1>5
  <2>2. p.val[r][i] = [j \in 0 .. Len(RowEntries(r, i)) - 1 |-> RowEntries(r, i)[j + 1].val]
    BY <1>6
  <2>3. RowEntries(r, i) = RowAt(r, i).entries
    BY <1>1
  <2> DEFINE old == CHOOSE j \in OldRows(r) : perm[r][j] = i
  <2>4. old \in 0 .. A.nr[r] - 1
    <3>1. /\ A.nr[r] \in Nat /\ IsInjective(perm[r])
          /\ perm[r] \in [0 .. A.nr[r] - 1 -> 0 .. A.nr[r] - 1]
      BY DoneRank
    <3>2. \A s \in 0 .. A.nr[r] - 1 : \E j \in 0 .. A.nr[r] - 1 : perm[r][j] = s
      <4> DEFINE n == A.nr[r]
                 f == perm[r]
      <4>1. n \in Nat /\ f \in [0 .. n - 1 -> 0 .. n - 1] /\ IsInjective(f)
        BY <3>1
      <4> HIDE DEF n, f
      <4>2. \A s \in 0 .. n - 1 : \E j \in 0 .. n - 1 : f[j] = s
        BY <4>1, PermFills
      <4> QED BY <4>2 DEF n, f
    <3> QED BY <3>2 DEF OldRows
  <2>5. RowAt(r, i) = Renumbered(SplitRowsOf(A, r, sources[r]), A.nr[r], perm[r])[old]
    BY DoneRank DEF RowAt
  <2> HIDE DEF old
  <2>6. PointsRight(A, r, sources[r], perm[r], RowAt(r, i))
    BY <2>4, <2>5, DoneRank, FinalRow
  <2> QED BY <2>1, <2>2, <2>3, <2>6
<1> QED BY <1>7, <1>8, <1>9, <1>10, Zenon DEF RowsAt, p

\* The part of the send buffer that goes to a destination, and what is in it: the
\* k-th slot holds the row the k-th halo slot of the destination stands for.
LEMMA SentIsStored ==
  ASSUME Inv, AllDone, NEW r \in Procs, NEW q \in SourcesOf(A, r),
         NEW k \in 0 .. RecvFrom(OwnOf(A, r), q) - 1
  PROVE  LET slot == elements[q][SendAt(A, q, dests[q], r) + k]
         IN  /\ slot \in 0 .. A.nr[q] - 1
             /\ SlotRow(A, q, sources[q], perm[q], slot)
                  = SlotRow(A, r, sources[r], perm[r], A.nr[r] + RecvAt(A, r, sources[r], q) + k)
<1> DEFINE slot == elements[q][SendAt(A, q, dests[q], r) + k]
           msg == Message(A, r, sources[r], q)[k + 1]
           cnt == RecvFrom(OwnOf(A, r), q)
           at == RecvAt(A, r, sources[r], q)
<1>1. q \in Procs /\ r \in DestsOf(A, q) /\ A \in Matrices
  BY DoneRank DEF DestsOf
<1>2. pc[q] \in Posted /\ pc[q] = "done" /\ request[<<r, q>>] = "received"
  BY <1>1, DoneRank DEF AllDone
<1>3. /\ A.nr[q] \in Nat /\ A.nr[r] \in Nat
      /\ A.start[q] \in Nat
      /\ sources[r] \in Orders(SourcesOf(A, r)) /\ sources[q] \in Orders(SourcesOf(A, q))
      /\ dests[q] \in Orders(DestsOf(A, q))
      /\ perm[q] \in [0 .. A.nr[q] - 1 -> 0 .. A.nr[q] - 1] /\ IsInjective(perm[q])
  BY <1>1, DoneRank, RowsFollow DEF Procs
<1>4. cnt \in Nat /\ at \in Nat /\ k \in Nat /\ k + 1 \in 1 .. cnt
  <2>1. cnt \in Nat /\ at \in Nat
    BY <1>1, <1>3, HaloTiles
  <2> HIDE DEF at
  <2> QED BY <2>1
<1>5. SendAt(A, q, dests[q], r) + k = Place(A, q, dests[q], r, k + 1)
  <2>1. SendAt(A, q, dests[q], r) \in Nat
    BY <1>1, <1>3, PlacesTile DEF SendAt
  <2>2. Place(A, q, dests[q], r, k + 1) = SendAt(A, q, dests[q], r) + (k + 1) - 1
    BY DEF Place, SendAt
  <2> QED BY <2>1, <2>2, <1>4
<1>6. slot = Sent(q, msg) /\ msg \in A.start[q] .. StopRow(A, q)
  <2>1. /\ elements[q][Place(A, q, dests[q], r, k + 1)] = Sent(q, Message(A, r, sources[r], q)[k + 1])
        /\ Message(A, r, sources[r], q)[k + 1] \in A.start[q] .. StopRow(A, q)
    BY <1>1, <1>2, <1>4, ElementsKnown
  <2> QED BY <2>1, <1>5
<1>7. slot = perm[q][msg - A.start[q]]
  BY <1>2, <1>6 DEF Sent
<1>8. msg - A.start[q] \in 0 .. A.nr[q] - 1 /\ msg \in Int
  <2>1. msg \in A.start[q] .. StopRow(A, q)
    BY <1>6
  <2>2. StopRow(A, q) = A.start[q] + A.nr[q] - 1
    BY DEF StopRow
  <2> DEFINE lo == A.start[q]
             n == A.nr[q]
  <2>3. msg \in lo .. lo + n - 1 /\ lo \in Nat /\ n \in Nat
    BY <2>1, <2>2, <1>3
  <2> HIDE DEF msg, lo, n
  <2>4. msg - lo \in 0 .. n - 1 /\ msg \in Int
    BY <2>3
  <2> QED BY <2>4 DEF lo, n
<1>9. slot \in 0 .. A.nr[q] - 1
  <2> HIDE DEF msg, slot
  <2> QED BY <1>3, <1>7, <1>8
<1>10. SlotRow(A, q, sources[q], perm[q], slot) = msg
  <2>1. SlotRow(A, q, sources[q], perm[q], perm[q][msg - A.start[q]]) = A.start[q] + (msg - A.start[q])
    BY <1>1, <1>3, <1>8, SlotsStand
  <2>2. A.start[q] + (msg - A.start[q]) = msg
    <3> HIDE DEF msg
    <3> QED BY <1>3, <1>8
  <2> QED BY <2>1, <2>2, <1>7
<1>11. SlotRow(A, r, sources[r], perm[r], A.nr[r] + at + k) = NeedOf(A, r, sources[r])[at + (k + 1)]
  <2>1. ~(A.nr[r] + at + k < A.nr[r]) /\ (A.nr[r] + at + k) - A.nr[r] + 1 = at + (k + 1)
    <3> HIDE DEF at
    <3> QED BY SMTT(20), <1>3, <1>4
  <2>2. SlotRow(A, r, sources[r], perm[r], A.nr[r] + at + k)
          = NeedOf(A, r, sources[r])[(A.nr[r] + at + k) - A.nr[r] + 1]
    BY <2>1, Zenon DEF SlotRow
  <2> QED BY <2>1, <2>2, Zenon
<1>12. msg = NeedOf(A, r, sources[r])[at + (k + 1)]
  <2>1. RecvCountsOf(A, r, sources[r])[IndexIn(sources[r], q)] = cnt
    BY <1>1, <1>3, MessageWanted
  <2>2. Message(A, r, sources[r], q) = [j \in 1 .. cnt |-> NeedOf(A, r, sources[r])[at + j]]
    BY <2>1, Zenon DEF Message, RecvAt
  <2> HIDE DEF at, cnt
  <2> QED BY <2>2, <1>4
<1> QED BY <1>9, <1>10, <1>11, <1>12 DEF slot, at

\* Every element a rank sends is one of its rows.
LEMMA ElementsOwned ==
  ASSUME Inv, AllDone, NEW q \in Procs
  PROVE  elements[q] \in [0 .. Prefix(SendCountsOf(A, q, dests[q]), Len(dests[q]) + 1) - 1
                            -> 0 .. A.nr[q] - 1]
<1> DEFINE total == Prefix(SendCountsOf(A, q, dests[q]), Len(dests[q]) + 1)
<1>1. A \in Matrices /\ dests[q] \in Orders(DestsOf(A, q)) /\ pc[q] \in Posted
  BY DoneRank
<1>2. elements[q] = [n \in 0 .. total - 1 |-> elements[q][n]]
  BY <1>1 DEF Inv, RankInv, ElementsInv
<1>3. ASSUME NEW n \in 0 .. total - 1
      PROVE  elements[q][n] \in 0 .. A.nr[q] - 1
  <2>1. \E r \in DestsOf(A, q) : \E k \in 1 .. RecvFrom(OwnOf(A, r), q) :
          n = Place(A, q, dests[q], r, k)
    BY <1>1, PlacesTile
  <2>2. PICK r \in DestsOf(A, q) : \E k \in 1 .. RecvFrom(OwnOf(A, r), q) :
          n = Place(A, q, dests[q], r, k)
    BY <2>1
  <2>3. PICK k \in 1 .. RecvFrom(OwnOf(A, r), q) : n = Place(A, q, dests[q], r, k)
    BY <2>2
  <2>4. r \in Procs /\ q \in SourcesOf(A, r)
    BY DEF DestsOf
  <2>5. RecvFrom(OwnOf(A, r), q) \in Nat
    BY <1>1, <2>4, CountsCount
  <2>6. k - 1 \in 0 .. RecvFrom(OwnOf(A, r), q) - 1
    BY <2>5
  <2>7. elements[q][SendAt(A, q, dests[q], r) + (k - 1)] \in 0 .. A.nr[q] - 1
    BY <2>4, <2>6, SentIsStored
  <2>8. SendAt(A, q, dests[q], r) + (k - 1) = n
    <3>1. SendAt(A, q, dests[q], r) \in Nat
      BY <1>1, PlacesTile DEF SendAt
    <3>2. n = SendAt(A, q, dests[q], r) + k - 1
      BY <2>3 DEF Place, SendAt
    <3> QED BY <3>1, <3>2, <2>5
  <2> QED BY <2>7, <2>8
<1> HIDE DEF total
<1> QED BY <1>2, <1>3 DEF total

\* Both ends of an edge know of it and expect the same number of elements.
LEMMA PlanEdges ==
  ASSUME Inv, AllDone, NEW p, \A r \in Procs : PlanAt(p, r)
  PROVE  EdgesAgree(Procs, p)
<1> SUFFICES ASSUME NEW r \in Procs, NEW q \in Procs
             PROVE  /\ q \in p.sources[r] <=> r \in p.destinations[q]
                    /\ q \in p.sources[r] => p.recvCounts[r][q] = p.sendCounts[q][r]
  BY DEF EdgesAgree
<1>1. /\ p.sources[r] = SourcesOf(A, r) /\ p.destinations[q] = DestsOf(A, q)
      /\ p.recvCounts[r] = [s \in SourcesOf(A, r) |-> RecvFrom(OwnOf(A, r), s)]
      /\ p.sendCounts[q] = [s \in DestsOf(A, q) |-> RecvFrom(OwnOf(A, s), q)]
  BY DEF PlanAt
<1>2. q \in SourcesOf(A, r) <=> r \in DestsOf(A, q)
  BY DEF DestsOf
<1> QED BY <1>1, <1>2

\* Sending stays in the send buffer, receiving tiles the halo.
LEMMA PlanBuffers ==
  ASSUME Inv, AllDone, NEW p, \A r \in Procs : PlanAt(p, r)
  PROVE  BuffersTiled(Procs, p)
<1> SUFFICES ASSUME NEW r \in Procs
             PROVE  /\ \A q \in p.destinations[r] : SendSegment(p, r, q) \subseteq SendSlots(p, r)
                    /\ \A q \in p.sources[r] : HaloSegment(p, r, q) \subseteq HaloSlots(p, r)
                    /\ \A s \in HaloSlots(p, r) : \E q \in p.sources[r] : s \in HaloSegment(p, r, q)
                    /\ \A q1, q2 \in p.sources[r] :
                         q1 # q2 => HaloSegment(p, r, q1) \cap HaloSegment(p, r, q2) = {}
  BY DEF BuffersTiled
<1> DEFINE nr == A.nr[r]
           n == ExtCount(A, r)
           S == SourcesOf(A, r)
           D == DestsOf(A, r)
           at(q) == RecvAt(A, r, sources[r], q)
           cnt(q) == RecvFrom(OwnOf(A, r), q)
           from(q) == SendAt(A, r, dests[r], q)
           given(q) == RecvFrom(OwnOf(A, q), r)
           total == Prefix(SendCountsOf(A, r, dests[r]), Len(dests[r]) + 1)
<1>1. /\ p.nr[r] = nr /\ p.nc[r] = nr + n /\ p.totalSendCount[r] = total
      /\ p.sources[r] = S /\ p.destinations[r] = D
      /\ p.recvCounts[r] = [q \in S |-> cnt(q)] /\ p.rdispls[r] = [q \in S |-> at(q)]
      /\ p.sendCounts[r] = [q \in D |-> given(q)] /\ p.sdispls[r] = [q \in D |-> from(q)]
  BY DEF PlanAt
<1>2. /\ nr \in Nat /\ n \in Nat /\ A \in Matrices
      /\ sources[r] \in Orders(S) /\ dests[r] \in Orders(D)
  BY DoneRank
<1>3. /\ \A q \in S : at(q) \in Nat /\ cnt(q) \in Nat /\ at(q) + cnt(q) <= n
      /\ \A q, s \in S : q # s =>
           \A k \in at(q) .. at(q) + cnt(q) - 1 : k \notin at(s) .. at(s) + cnt(s) - 1
      /\ \A k \in 0 .. n - 1 : \E q \in S : k \in at(q) .. at(q) + cnt(q) - 1
  <2>1. \A q \in S : at(q) \in Nat /\ cnt(q) \in Nat /\ at(q) + cnt(q) <= n
    BY <1>2, HaloTiles
  <2>2. \A q, s \in S : q # s =>
           \A k \in at(q) .. at(q) + cnt(q) - 1 : k \notin at(s) .. at(s) + cnt(s) - 1
    BY <1>2, HaloTiles, Zenon
  <2>3. \A k \in 0 .. n - 1 : \E q \in S : k \in at(q) .. at(q) + cnt(q) - 1
    BY <1>2, HaloTiles, Zenon
  <2> QED BY <2>1, <2>2, <2>3
<1>4. \A q \in D : from(q) \in Nat /\ given(q) \in Nat /\ from(q) + given(q) <= total /\ total \in Nat
  <2>1. TAKE q \in D
  <2> DEFINE counts == SendCountsOf(A, r, dests[r])
             m == Len(dests[r])
             b == IndexIn(dests[r], q)
  <2>2. b \in 1 .. m /\ counts[b] = given(q)
    BY <1>2, PlacesTile
  <2>3. m \in Nat /\ counts \in [1 .. m -> Nat]
    BY <1>2, DestsCount
  <2>4. from(q) = Prefix(counts, b) /\ total = Prefix(counts, m + 1)
    BY DEF SendAt
  <2> HIDE DEF counts, m, b, from, given, total
  <2>5. /\ Prefix(counts, m + 1) \in Nat /\ Prefix(counts, b) \in Nat /\ counts[b] \in Nat
        /\ Prefix(counts, b) + counts[b] <= Prefix(counts, m + 1)
    BY <2>2, <2>3, BlocksTile
  <2> QED BY <2>2, <2>4, <2>5
<1> HIDE DEF nr, n, S, D, at, cnt, from, given, total
<1>5. /\ \A q \in D : SendSegment(p, r, q) = from(q) .. from(q) + given(q) - 1
      /\ SendSlots(p, r) = 0 .. total - 1
  BY <1>1 DEF SendSegment, SendSlots
<1>6. /\ \A q \in S : HaloSegment(p, r, q) = nr + at(q) .. nr + at(q) + cnt(q) - 1
      /\ HaloSlots(p, r) = nr .. nr + n - 1
  <2>1. \A q \in S : p.rdispls[r][q] = at(q) /\ p.recvCounts[r][q] = cnt(q)
    BY <1>1
  <2>2. \A q \in S : HaloSegment(p, r, q) = nr + at(q) .. nr + at(q) + cnt(q) - 1
    BY <1>1, <2>1, Zenon DEF HaloSegment
  <2>3. HaloSlots(p, r) = nr .. (nr + n) - 1
    BY <1>1, Zenon DEF HaloSlots
  <2> QED BY <2>2, <2>3, <1>2
<1>7. ASSUME NEW q \in D PROVE SendSegment(p, r, q) \subseteq SendSlots(p, r)
  BY <1>4, <1>5
<1>8. ASSUME NEW q \in S PROVE HaloSegment(p, r, q) \subseteq HaloSlots(p, r)
  <2>1. at(q) \in Nat /\ cnt(q) \in Nat /\ at(q) + cnt(q) <= n
    BY <1>3
  <2> QED BY <2>1, <1>2, <1>6
<1>9. ASSUME NEW s \in HaloSlots(p, r)
      PROVE  \E q \in S : s \in HaloSegment(p, r, q)
  <2>1. s \in Int /\ s - nr \in 0 .. n - 1
    BY <1>2, <1>6
  <2>2. PICK q \in S : s - nr \in at(q) .. at(q) + cnt(q) - 1
    BY <2>1, <1>3
  <2>3. at(q) \in Nat /\ cnt(q) \in Nat
    BY <1>3
  <2>4. s \in nr + at(q) .. nr + at(q) + cnt(q) - 1
    BY <2>1, <2>2, <2>3, <1>2
  <2> QED BY <2>4, <1>6
<1>10. ASSUME NEW q1 \in S, NEW q2 \in S, q1 # q2
       PROVE  HaloSegment(p, r, q1) \cap HaloSegment(p, r, q2) = {}
  <2> SUFFICES ASSUME NEW s \in HaloSegment(p, r, q1), s \in HaloSegment(p, r, q2)
               PROVE  FALSE
    OBVIOUS
  <2>1. /\ at(q1) \in Nat /\ cnt(q1) \in Nat /\ at(q2) \in Nat /\ cnt(q2) \in Nat
    BY <1>3
  <2>2. s \in nr + at(q1) .. nr + at(q1) + cnt(q1) - 1 /\ s \in nr + at(q2) .. nr + at(q2) + cnt(q2) - 1
    BY <1>6
  <2>3. s - nr \in at(q1) .. at(q1) + cnt(q1) - 1 /\ s - nr \in at(q2) .. at(q2) + cnt(q2) - 1
    BY <2>1, <2>2, <1>2
  <2> QED BY <2>3, <1>3, <1>10
<1> QED BY <1>1, <1>7, <1>8, <1>9, <1>10

\* What a rank packs for another is what that one expects.
LEMMA PlanSends ==
  ASSUME Inv, AllDone, NEW p, \A r \in Procs : PlanAt(p, r)
  PROVE  SendsWhatIsNeeded(Procs, p)
<1> SUFFICES ASSUME NEW r \in Procs, NEW q \in p.sources[r],
                    NEW k \in 0 .. p.recvCounts[r][q] - 1
             PROVE  p.glob[r][p.nr[r] + p.rdispls[r][q] + k]
                      = p.glob[q][p.elementsToSend[q][p.sdispls[q][r] + k]]
  BY DEF SendsWhatIsNeeded
<1>1. q \in SourcesOf(A, r) /\ q \in Procs /\ r \in DestsOf(A, q)
  BY DoneRank DEF PlanAt, DestsOf
<1>2. /\ p.nr[r] = A.nr[r]
      /\ p.recvCounts[r][q] = RecvFrom(OwnOf(A, r), q)
      /\ p.rdispls[r][q] = RecvAt(A, r, sources[r], q)
      /\ p.glob[r] = [s \in 0 .. A.nr[r] + ExtCount(A, r) - 1 |->
                        SlotRow(A, r, sources[r], perm[r], s)]
  <2>1. PlanAt(p, r)
    OBVIOUS
  <2>2. /\ p.nr[r] = A.nr[r]
        /\ p.recvCounts[r] = [s \in SourcesOf(A, r) |-> RecvFrom(OwnOf(A, r), s)]
        /\ p.rdispls[r] = [s \in SourcesOf(A, r) |-> RecvAt(A, r, sources[r], s)]
    BY <2>1, Zenon DEF PlanAt
  <2>3. p.glob[r] = [s \in 0 .. A.nr[r] + ExtCount(A, r) - 1 |->
                       SlotRow(A, r, sources[r], perm[r], s)]
    BY <2>1, Zenon DEF PlanAt
  <2>4. p.recvCounts[r][q] = RecvFrom(OwnOf(A, r), q) /\ p.rdispls[r][q] = RecvAt(A, r, sources[r], q)
    BY <2>2, <1>1
  <2> QED BY <2>2, <2>3, <2>4, Zenon
<1>3. /\ p.sdispls[q][r] = SendAt(A, q, dests[q], r)
      /\ p.elementsToSend[q] = elements[q]
      /\ p.glob[q] = [s \in 0 .. A.nr[q] + ExtCount(A, q) - 1 |->
                        SlotRow(A, q, sources[q], perm[q], s)]
  <2>1. PlanAt(p, q)
    BY <1>1
  <2>2. /\ p.sdispls[q] = [s \in DestsOf(A, q) |-> SendAt(A, q, dests[q], s)]
        /\ p.elementsToSend[q] = elements[q]
        /\ p.glob[q] = [s \in 0 .. A.nr[q] + ExtCount(A, q) - 1 |->
                          SlotRow(A, q, sources[q], perm[q], s)]
    BY <2>1, Zenon DEF PlanAt
  <2>3. p.sdispls[q][r] = SendAt(A, q, dests[q], r)
    BY <2>2, <1>1
  <2> QED BY <2>2, <2>3, Zenon
<1> DEFINE slot == elements[q][SendAt(A, q, dests[q], r) + k]
           at == RecvAt(A, r, sources[r], q)
           cnt == RecvFrom(OwnOf(A, r), q)
           halo == A.nr[r] + at + k
<1>4. /\ slot \in 0 .. A.nr[q] - 1
      /\ SlotRow(A, q, sources[q], perm[q], slot) = SlotRow(A, r, sources[r], perm[r], halo)
  BY <1>1, <1>2, SentIsStored
<1>5. A.nr[r] \in Nat /\ ExtCount(A, r) \in Nat /\ A.nr[q] \in Nat /\ ExtCount(A, q) \in Nat
  BY <1>1, DoneRank
<1>6. at \in Nat /\ cnt \in Nat /\ at + cnt <= ExtCount(A, r)
  BY <1>1, DoneRank, HaloTiles
<1>7. k \in 0 .. cnt - 1
  BY <1>2
<1> HIDE DEF slot, at, cnt
<1>8. halo \in 0 .. A.nr[r] + ExtCount(A, r) - 1
  BY <1>5, <1>6, <1>7
<1>9. slot \in 0 .. A.nr[q] + ExtCount(A, q) - 1
  BY <1>4, <1>5
<1> HIDE DEF halo
<1>10. p.glob[r][halo] = p.glob[q][slot]
  BY <1>2, <1>3, <1>4, <1>8, <1>9
<1> QED BY <1>2, <1>3, <1>10 DEF slot, halo, at

\* Every field of the plan is of its type.
LEMMA PlanTyped ==
  ASSUME Inv, AllDone, NEW p, p.nr = A.nr, p.nc = nc, p.totalSendCount \in [Procs -> Nat],
         p.sources \in [Procs -> SUBSET Procs], p.destinations \in [Procs -> SUBSET Procs],
         \A r \in Procs : PlanAt(p, r) /\ RowsAt(p, r)
  PROVE  PlanType(Procs, p)
<1>1. p.nr \in [Procs -> Nat] /\ p.nc \in [Procs -> Nat]
  BY RowsFollow DEF Procs, Inv, Typed
<1>2. ASSUME NEW r \in Procs
      PROVE  /\ p.recvCounts[r] \in [p.sources[r] -> Nat]
             /\ p.rdispls[r] \in [p.sources[r] -> Nat]
             /\ p.sendCounts[r] \in [p.destinations[r] -> Nat]
             /\ p.sdispls[r] \in [p.destinations[r] -> Nat]
  <2>1. PlanAt(p, r)
    OBVIOUS
  <2>2. /\ p.sources[r] = SourcesOf(A, r) /\ p.destinations[r] = DestsOf(A, r)
        /\ p.recvCounts[r] = [q \in SourcesOf(A, r) |-> RecvFrom(OwnOf(A, r), q)]
        /\ p.rdispls[r] = [q \in SourcesOf(A, r) |-> RecvAt(A, r, sources[r], q)]
        /\ p.sendCounts[r] = [q \in DestsOf(A, r) |-> RecvFrom(OwnOf(A, q), r)]
        /\ p.sdispls[r] = [q \in DestsOf(A, r) |-> SendAt(A, r, dests[r], q)]
    BY <2>1, Zenon DEF PlanAt
  <2>3. \A q \in SourcesOf(A, r) :
          RecvFrom(OwnOf(A, r), q) \in Nat /\ RecvAt(A, r, sources[r], q) \in Nat
    BY DoneRank, HaloTiles
  <2>4. \A q \in DestsOf(A, r) :
          RecvFrom(OwnOf(A, q), r) \in Nat /\ SendAt(A, r, dests[r], q) \in Nat
    BY DoneRank, PlacesTile DEF SendAt
  <2> QED BY <2>2, <2>3, <2>4
<1>3. ASSUME NEW r \in Procs
      PROVE  /\ p.elementsToSend[r] \in [SendSlots(p, r) -> OwnedSlots(p, r)]
             /\ p.glob[r] \in [Slots(p, r) -> Nat]
  <2> DEFINE n == A.nr[r] + ExtCount(A, r)
             total == Prefix(SendCountsOf(A, r, dests[r]), Len(dests[r]) + 1)
  <2>1. PlanAt(p, r)
    OBVIOUS
  <2>2. p.nr[r] = A.nr[r] /\ p.nc[r] = n /\ p.totalSendCount[r] = total /\ p.elementsToSend[r] = elements[r]
    BY <2>1, Zenon DEF PlanAt
  <2>3. p.glob[r] = [s \in 0 .. A.nr[r] + ExtCount(A, r) - 1 |->
                       SlotRow(A, r, sources[r], perm[r], s)]
    BY <2>1, Zenon DEF PlanAt
  <2>4. \A s \in 0 .. A.nr[r] + ExtCount(A, r) - 1 : SlotRow(A, r, sources[r], perm[r], s) \in Nat
    BY DoneRank, SlotsStand
  <2>5. Slots(p, r) = 0 .. A.nr[r] + ExtCount(A, r) - 1
    <3>1. A.nr[r] \in Nat /\ ExtCount(A, r) \in Nat
      BY DoneRank
    <3>2. n - 1 = A.nr[r] + ExtCount(A, r) - 1
      BY <3>1
    <3> QED BY <3>2, <2>2, Zenon DEF Slots
  <2>6. elements[r] \in [0 .. total - 1 -> 0 .. A.nr[r] - 1]
    BY ElementsOwned
  <2> HIDE DEF total, n
  <2>7. p.elementsToSend[r] \in [SendSlots(p, r) -> OwnedSlots(p, r)]
    BY <2>2, <2>6 DEF SendSlots, OwnedSlots
  <2>8. p.glob[r] \in [Slots(p, r) -> Nat]
    BY <2>3, <2>4, <2>5
  <2> QED BY <2>7, <2>8
<1>4. ASSUME NEW r \in Procs
      PROVE  /\ p.len[r] \in [OwnedSlots(p, r) -> Nat]
             /\ p.localEnd[r] \in [OwnedSlots(p, r) -> Nat]
             /\ p.boundaryRows[r] \in SUBSET OwnedSlots(p, r)
             /\ \A i \in OwnedSlots(p, r) :
                  /\ p.localEnd[r][i] <= p.len[r][i]
                  /\ p.col[r][i] \in [Entries(p, r, i) -> Slots(p, r)]
                  /\ p.val[r][i] \in [Entries(p, r, i) -> Nat]
  <2> DEFINE row(i) == RowAt(r, i)
             slots == Slots(p, r)
  <2>1. OwnedSlots(p, r) = OldRows(r)
    BY DEF OwnedSlots, OldRows, PlanAt
  <2>2. slots = 0 .. A.nr[r] + ExtCount(A, r) - 1
    <3>1. A.nr[r] \in Nat /\ ExtCount(A, r) \in Nat
      BY DoneRank
    <3>2. p.nc[r] = A.nr[r] + ExtCount(A, r)
      <4>1. PlanAt(p, r)
        OBVIOUS
      <4> QED BY <4>1, Zenon DEF PlanAt
    <3>3. p.nc[r] - 1 = A.nr[r] + ExtCount(A, r) - 1
      BY <3>1, <3>2
    <3> QED BY <3>3, Zenon DEF Slots
  <2>3. /\ p.len[r] = [i \in OldRows(r) |-> Len(row(i).entries)]
        /\ p.localEnd[r] = [i \in OldRows(r) |-> row(i).localEnd]
        /\ p.boundaryRows[r] = {i \in OldRows(r) : row(i).localEnd < Len(row(i).entries)}
        /\ \A i \in OldRows(r) :
             /\ p.col[r][i] = [j \in 0 .. Len(row(i).entries) - 1 |-> row(i).entries[j + 1].col]
             /\ p.val[r][i] = [j \in 0 .. Len(row(i).entries) - 1 |-> row(i).entries[j + 1].val]
             /\ PointsRight(A, r, sources[r], perm[r], row(i))
    <3>1. RowsAt(p, r)
      OBVIOUS
    <3> QED BY <3>1, Zenon DEF RowsAt
  <2>4. \A i \in OldRows(r) :
          /\ Len(row(i).entries) \in Nat
          /\ row(i).localEnd \in 0 .. Len(row(i).entries)
          /\ \A j \in 1 .. Len(row(i).entries) :
               row(i).entries[j].val \in Nat /\ row(i).entries[j].col \in slots
    BY <2>2, <2>3 DEF PointsRight
  <2> HIDE DEF row, slots
  <2>5. p.len[r] \in [OldRows(r) -> Nat] /\ p.localEnd[r] \in [OldRows(r) -> Nat]
    <3>1. \A i \in OldRows(r) : Len(row(i).entries) \in Nat /\ row(i).localEnd \in Nat
      BY <2>4
    <3> QED BY <2>3, <3>1
  <2>6. p.boundaryRows[r] \in SUBSET OldRows(r)
    BY <2>3
  <2>7. ASSUME NEW i \in OldRows(r)
        PROVE  /\ p.localEnd[r][i] <= p.len[r][i]
               /\ p.col[r][i] \in [Entries(p, r, i) -> slots]
               /\ p.val[r][i] \in [Entries(p, r, i) -> Nat]
    <3> DEFINE n == Len(row(i).entries)
    <3>1. n \in Nat /\ row(i).localEnd \in 0 .. n
      BY <2>4
    <3>2. p.len[r][i] = n /\ p.localEnd[r][i] = row(i).localEnd
      BY <2>3
    <3>3. Entries(p, r, i) = 0 .. n - 1
      BY <3>2, Zenon DEF Entries
    <3>4. \A j \in 0 .. n - 1 : row(i).entries[j + 1].val \in Nat /\ row(i).entries[j + 1].col \in slots
      <4>1. TAKE j \in 0 .. n - 1
      <4>2. j + 1 \in 1 .. n
        BY <3>1
      <4> QED BY <4>2, <2>4
    <3>5. /\ p.col[r][i] = [j \in 0 .. n - 1 |-> row(i).entries[j + 1].col]
          /\ p.val[r][i] = [j \in 0 .. n - 1 |-> row(i).entries[j + 1].val]
      BY <2>3
    <3> HIDE DEF n
    <3>6. p.localEnd[r][i] <= p.len[r][i]
      BY <3>1, <3>2
    <3> QED BY <3>3, <3>4, <3>5, <3>6
  <2> QED BY <2>1, <2>5, <2>6, <2>7, Zenon DEF slots
<1> QED BY <1>1, <1>2, <1>3, <1>4, Zenon DEF PlanType

\* Every entry points at the slot that stands for its column, the local ones first.
LEMMA PlanMatrix ==
  ASSUME Inv, AllDone, NEW p, \A r \in Procs : PlanAt(p, r) /\ RowsAt(p, r)
  PROVE  MatrixLocalized(Procs, p)
<1> SUFFICES ASSUME NEW r \in Procs
             PROVE  /\ p.nr[r] <= p.nc[r]
                    /\ \A i \in OwnedSlots(p, r) :
                         /\ i \in p.boundaryRows[r] <=> p.localEnd[r][i] < p.len[r][i]
                         /\ \A j \in Entries(p, r, i) :
                              /\ p.glob[r][p.col[r][i][j]] = p.val[r][i][j]
                              /\ p.col[r][i][j] \in OwnedSlots(p, r) <=> j < p.localEnd[r][i]
  BY DEF MatrixLocalized
<1> DEFINE nr == A.nr[r]
           row(i) == RowAt(r, i)
           G(s) == SlotRow(A, r, sources[r], perm[r], s)
<1>1. nr \in Nat /\ ExtCount(A, r) \in Nat
  BY DoneRank
<1>2. PlanAt(p, r) /\ RowsAt(p, r)
  OBVIOUS
<1>3. p.nr[r] = nr /\ p.nc[r] = nr + ExtCount(A, r)
  BY <1>2, Zenon DEF PlanAt
<1>4. p.glob[r] = [s \in 0 .. nr + ExtCount(A, r) - 1 |-> G(s)]
  BY <1>2, Zenon DEF PlanAt
<1>5. OwnedSlots(p, r) = 0 .. nr - 1 /\ OldRows(r) = 0 .. nr - 1
  BY <1>3 DEF OwnedSlots, OldRows
<1>6. ASSUME NEW i \in OldRows(r)
      PROVE  /\ i \in p.boundaryRows[r] <=> p.localEnd[r][i] < p.len[r][i]
             /\ \A j \in Entries(p, r, i) :
                  /\ p.glob[r][p.col[r][i][j]] = p.val[r][i][j]
                  /\ p.col[r][i][j] \in OwnedSlots(p, r) <=> j < p.localEnd[r][i]
  <2> DEFINE n == Len(row(i).entries)
             end == row(i).localEnd
             e(j) == row(i).entries[j]
  <2>1. /\ p.len[r] = [k \in OldRows(r) |-> Len(row(k).entries)]
        /\ p.localEnd[r] = [k \in OldRows(r) |-> row(k).localEnd]
        /\ p.boundaryRows[r] = {k \in OldRows(r) : row(k).localEnd < Len(row(k).entries)}
    BY <1>2, Zenon DEF RowsAt
  <2>2. /\ p.col[r][i] = [j \in 0 .. n - 1 |-> e(j + 1).col]
        /\ p.val[r][i] = [j \in 0 .. n - 1 |-> e(j + 1).val]
        /\ PointsRight(A, r, sources[r], perm[r], row(i))
    BY <1>2, Zenon DEF RowsAt
  <2>3. /\ n \in Nat /\ end \in 0 .. n
        /\ \A j \in 1 .. n : /\ e(j).col \in 0 .. nr + ExtCount(A, r) - 1
                             /\ G(e(j).col) = e(j).val
                             /\ e(j).col < nr <=> j <= end
    BY <2>2, Zenon DEF PointsRight
  <2> HIDE DEF row, G, nr
  <2>4. p.len[r][i] = n /\ p.localEnd[r][i] = end /\ (i \in p.boundaryRows[r] <=> end < n)
    BY <2>1
  <2>5. Entries(p, r, i) = 0 .. n - 1
    BY <2>4, Zenon DEF Entries
  <2> HIDE DEF n, end, e
  <2>6. ASSUME NEW j \in 0 .. n - 1
        PROVE  /\ p.glob[r][p.col[r][i][j]] = p.val[r][i][j]
               /\ p.col[r][i][j] \in OwnedSlots(p, r) <=> j < end
    <3>1. j \in Int /\ 0 <= j /\ j + 1 \in 1 .. n /\ end \in Int
      BY <2>3
    <3>2. p.col[r][i][j] = e(j + 1).col /\ p.val[r][i][j] = e(j + 1).val
      BY <2>2
    <3> DEFINE s == e(j + 1).col
    <3>3. /\ s \in 0 .. nr + ExtCount(A, r) - 1
          /\ G(s) = e(j + 1).val
          /\ s < nr <=> j + 1 <= end
      BY <3>1, <2>3
    <3> HIDE DEF s
    <3>4. p.glob[r][s] = G(s)
      BY <1>4, <3>3
    <3>5. s \in 0 .. nr - 1 <=> j < end
      BY <1>1, <3>1, <3>3
    <3> QED BY <3>2, <3>3, <3>4, <3>5, <1>5 DEF s
  <2> QED BY <2>4, <2>5, <2>6
<1> HIDE DEF nr
<1>7. p.nr[r] <= p.nc[r]
  BY <1>1, <1>3
<1> QED BY <1>5, <1>6, <1>7

\* When every rank has finished, whatever the orders of the lists, of the messages
\* and of the rows were, an exchange over the plan they hold is exact.
THEOREM PlanIsRight == Spec => []PlanEstablished
<1>1. Inv => PlanEstablished
  <2> SUFFICES ASSUME Inv, AllDone PROVE PlanOK(Procs, Plan)
    BY DEF PlanEstablished
  <2>1. \A r \in Procs : PlanAt(Plan, r) /\ RowsAt(Plan, r)
    BY PlanNeighbours, PlanRows
  <2>2. Plan.nr = A.nr /\ Plan.nc = nc
    BY DEF Plan
  <2>3. Plan.totalSendCount \in [Procs -> Nat]
    <3>1. Plan.totalSendCount = [r \in Procs |-> TotalSendCount(r)]
      BY DEF Plan
    <3>2. ASSUME NEW r \in Procs PROVE Plan.totalSendCount[r] \in Nat
      <4>1. Plan.totalSendCount[r] = Prefix(SendCountsOf(A, r, dests[r]), Len(dests[r]) + 1)
        BY <2>1, Zenon DEF PlanAt
      <4> QED BY <4>1, DoneRank, PlacesTile
    <3> QED BY <3>1, <3>2
  <2>4. Plan.sources \in [Procs -> SUBSET Procs] /\ Plan.destinations \in [Procs -> SUBSET Procs]
    <3>1. /\ Plan.sources = [r \in Procs |-> ToSet(sources[r])]
          /\ Plan.destinations = [r \in Procs |-> ToSet(dests[r])]
      BY DEF Plan
    <3>2. \A r \in Procs : ToSet(sources[r]) \subseteq Procs /\ ToSet(dests[r]) \subseteq Procs
      BY DoneRank
    <3> QED BY <3>1, <3>2
  <2> DEFINE p == Plan
  <2>5. /\ \A r \in Procs : PlanAt(p, r) /\ RowsAt(p, r)
        /\ p.nr = A.nr /\ p.nc = nc
        /\ p.totalSendCount \in [Procs -> Nat]
        /\ p.sources \in [Procs -> SUBSET Procs] /\ p.destinations \in [Procs -> SUBSET Procs]
    BY <2>1, <2>2, <2>3, <2>4
  <2> HIDE DEF p
  <2>6. PlanType(Procs, p)
    BY <2>5, PlanTyped
  <2>7. EdgesAgree(Procs, p) /\ BuffersTiled(Procs, p) /\ SendsWhatIsNeeded(Procs, p)
    BY <2>5, PlanEdges, PlanBuffers, PlanSends
  <2>8. MatrixLocalized(Procs, p)
    BY <2>5, PlanMatrix
  <2> QED BY <2>6, <2>7, <2>8 DEF PlanOK, p
<1> QED BY <1>1, Invariance, PTL
=============================================================================
