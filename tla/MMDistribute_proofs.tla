------------------------- MODULE MMDistribute_proofs -------------------------
(***************************************************************************)
(* What the distribution of a Matrix Market file leaves on the ranks, for  *)
(* every file, every number of ranks, whatever the order the sort leaves   *)
(* the columns of a row in and whatever unwritten memory holds.            *)
(*                                                                         *)
(* First the sort and the scan for a rank's entries, as functions; then    *)
(* what each rank holds at each step; then, for files with an entry in     *)
(* each rank's first and last row, that the ranks' rows follow each other  *)
(* and are the file's.                                                     *)
(***************************************************************************)
EXTENDS MMDistribute, Localization_proofs

(***************************************************************************)
(* The two sorts.                                                          *)
(***************************************************************************)

\* The entries of E that stand before e.
InFront(E, e, ascending) == {d \in E : Before(d, e, ascending)}

\* Entries whose row and column are numbers.
Positions(E) == \A e \in E : e = <<e[1], e[2]>> /\ e[1] \in Nat /\ e[2] \in Nat

\* The order of the entries is a strict linear one.
LEMMA BeforeOrders ==
  ASSUME NEW ascending, NEW E, Positions(E), NEW c \in E, NEW d \in E, NEW e \in E
  PROVE  /\ ~Before(e, e, ascending)
         /\ d # e => Before(d, e, ascending) \/ Before(e, d, ascending)
         /\ Before(c, d, ascending) /\ Before(d, e, ascending) => Before(c, e, ascending)
         /\ Before(d, e, ascending) => d[1] <= e[1]
PROOF
<1>1. /\ c[1] \in Nat /\ c[2] \in Nat /\ d[1] \in Nat /\ d[2] \in Nat /\ e[1] \in Nat /\ e[2] \in Nat
      /\ d = <<d[1], d[2]>> /\ e = <<e[1], e[2]>>
  BY DEF Positions
<1>2. d # e => d[1] # e[1] \/ d[2] # e[2]
  BY <1>1, Zenon
<1> QED
  BY <1>1, <1>2 DEF Before

\* Every entry has its own number of entries in front of it.
LEMMA InFrontCounts ==
  ASSUME NEW ascending, NEW E, IsFiniteSet(E), Positions(E), NEW e \in E
  PROVE  /\ Cardinality(InFront(E, e, ascending)) \in 0 .. Cardinality(E) - 1
         /\ \A d \in E : Before(e, d, ascending) =>
              Cardinality(InFront(E, e, ascending)) < Cardinality(InFront(E, d, ascending))
PROOF
<1> DEFINE before(d) == InFront(E, d, ascending)
<1>1. \A d : /\ IsFiniteSet(before(d)) /\ Cardinality(before(d)) \in Nat
             /\ Cardinality(before(d)) <= Cardinality(E)
             /\ Cardinality(before(d)) = Cardinality(E) => before(d) = E
  <2>1. \A d : before(d) \in SUBSET E
    BY DEF InFront
  <2> HIDE DEF before
  <2> QED
    BY <2>1, FS_Subset, FS_CardinalityType
<1>2. Cardinality(E) \in Nat
  BY FS_CardinalityType
<1>3. Cardinality(before(e)) # Cardinality(E)
  <2>1. e \notin before(e)
    BY BeforeOrders DEF InFront
  <2> HIDE DEF before
  <2> QED
    BY <1>1, <2>1
<1>4. ASSUME NEW d \in E, Before(e, d, ascending)
      PROVE  Cardinality(before(e)) < Cardinality(before(d))
  <2>0. \A c \in E : Before(c, e, ascending) => Before(c, d, ascending)
    BY <1>4, BeforeOrders
  <2>1. before(e) \cup {e} \in SUBSET before(d) /\ e \notin before(e)
    BY <1>4, <2>0, BeforeOrders DEF InFront
  <2> HIDE DEF before
  <2>2. Cardinality(before(e) \cup {e}) = Cardinality(before(e)) + 1
    BY <1>1, <2>1, FS_AddElement
  <2>3. Cardinality(before(e) \cup {e}) <= Cardinality(before(d))
    BY <1>1, <2>1, FS_Subset
  <2> QED
    BY <1>1, <2>2, <2>3
<1> HIDE DEF before
<1>5. Cardinality(before(e)) \in 0 .. Cardinality(E) - 1
  BY <1>1, <1>2, <1>3
<1> QED
  BY <1>4, <1>5 DEF before

\* Every place has its entry.
LEMMA InFrontOnto ==
  ASSUME NEW ascending, NEW E, IsFiniteSet(E), Positions(E), NEW n \in 0 .. Cardinality(E) - 1
  PROVE  \E e \in E : Cardinality(InFront(E, e, ascending)) = n
PROOF
<1> DEFINE k == Cardinality(E)
           f == [e \in E |-> Cardinality(InFront(E, e, ascending))]
<1>1. k \in Nat
  BY FS_CardinalityType
<1>2. \A e \in E : f[e] \in 0 .. k - 1
  BY InFrontCounts
<1>3. ASSUME NEW d \in E, NEW e \in E, f[d] = f[e] PROVE d = e
  <2>1. ~(f[d] < f[e]) /\ ~(f[e] < f[d])
    BY <1>1, <1>2, <1>3
  <2>2. ~Before(d, e, ascending) /\ ~Before(e, d, ascending)
    BY <2>1, InFrontCounts
  <2> QED
    BY <2>2, BeforeOrders
<1>4. f \in Injection(E, 0 .. k - 1)
  BY <1>2, <1>3 DEF Injection, IsInjective
<1>5. IsFiniteSet(0 .. k - 1) /\ Cardinality(0 .. k - 1) = k
  BY <1>1, FS_Interval
<1> HIDE DEF f
<1>6. f \in Surjection(E, 0 .. k - 1)
  BY <1>4, <1>5, FS_Injection
<1>7. PICK e \in E : f[e] = n
  BY <1>6 DEF Surjection
<1> QED
  BY <1>7 DEF f

\* s has each entry of E once, row after row.
RowSorted(s, E) ==
  /\ Cardinality(E) \in Nat
  /\ s \in [1 .. Cardinality(E) -> E]
  /\ \A i, j \in 1 .. Cardinality(E) : i < j => s[i][1] <= s[j][1]
  /\ \A i, j \in 1 .. Cardinality(E) : s[i] = s[j] => i = j
  /\ \A e \in E : \E i \in 1 .. Cardinality(E) : s[i] = e

\* The sorts order the entries by row.
LEMMA SortsByRow ==
  ASSUME NEW ascending, NEW E, IsFiniteSet(E), Positions(E)
  PROVE  RowSorted(SortedByRow(E, ascending), E)
PROOF
<1> DEFINE k == Cardinality(E)
           place(e) == Cardinality(InFront(E, e, ascending))
           s == SortedByRow(E, ascending)
<1>1. k \in Nat
  BY FS_CardinalityType
<1>2. ASSUME NEW n \in 1 .. k PROVE s[n] \in E /\ place(s[n]) = n - 1
  <2>1. n - 1 \in 0 .. k - 1
    BY <1>1
  <2>2. \E e \in E : place(e) = n - 1
    BY <2>1, InFrontOnto
  <2>3. s[n] = CHOOSE e \in E : place(e) = n - 1
    BY Zenon DEF SortedByRow, InFront
  <2> HIDE DEF place
  <2> QED
    BY <2>2, <2>3, Zenon
<1>3. s \in [1 .. k -> E]
  BY <1>2, Zenon DEF SortedByRow
<1>4. ASSUME NEW d \in E, NEW e \in E
      PROVE  /\ place(d) \in 0 .. k - 1 /\ place(e) \in 0 .. k - 1
             /\ place(d) = place(e) => d = e
             /\ place(d) < place(e) => d[1] <= e[1]
  <2>1. place(d) \in 0 .. k - 1 /\ place(e) \in 0 .. k - 1
    BY InFrontCounts
  <2>2. Before(d, e, ascending) => place(d) < place(e)
    BY InFrontCounts
  <2>3. Before(e, d, ascending) => place(e) < place(d)
    BY InFrontCounts
  <2> HIDE DEF place
  <2>4. place(d) = place(e) => d = e
    BY <1>1, <2>1, <2>2, <2>3, BeforeOrders
  <2>5. place(d) < place(e) => d[1] <= e[1]
    <3>1. d[1] \in Nat /\ e[1] \in Nat
      BY DEF Positions
    <3>2. CASE d = e
      BY <3>1, <3>2
    <3>3. CASE d # e
      BY <1>1, <2>1, <2>3, <3>3, BeforeOrders
    <3> QED BY <3>2, <3>3
  <2> QED BY <2>1, <2>4, <2>5
<1> HIDE DEF place, s
<1>5. ASSUME NEW i \in 1 .. k, NEW j \in 1 .. k, i < j PROVE s[i][1] <= s[j][1]
  BY <1>1, <1>2, <1>4, <1>5
<1>6. ASSUME NEW i \in 1 .. k, NEW j \in 1 .. k, s[i] = s[j] PROVE i = j
  BY <1>1, <1>2, <1>6
<1>7. ASSUME NEW e \in E PROVE \E i \in 1 .. k : s[i] = e
  <2> DEFINE i == place(e) + 1
  <2>1. i \in 1 .. k /\ place(e) = i - 1
    BY <1>1, <1>4
  <2>2. s[i] \in E /\ place(s[i]) = i - 1
    BY <1>2, <2>1
  <2>3. s[i] = e
    BY <1>4, <2>1, <2>2
  <2> QED BY <2>1, <2>3
<1> QED
  BY <1>1, <1>3, <1>5, <1>6, <1>7 DEF RowSorted, s

\* The entries of a file are finitely many, and lie in its rows and columns.
LEMMA EntriesOfFile ==
  ASSUME NEW f \in Files
  PROVE  /\ f.nr \in Nat
         /\ IsFiniteSet(FileEntries(f)) /\ Positions(FileEntries(f))
         /\ \A e \in FileEntries(f) : e[1] \in 0 .. f.nr - 1 /\ e[2] \in 0 .. f.nr - 1
PROOF
<1> DEFINE square == (0 .. f.nr - 1) \X (0 .. f.nr - 1)
<1>1. f.nr \in Nat /\ f.lines \in Seq((1 .. f.nr) \X (1 .. f.nr))
  BY FilesAssumption
<1>2. \A l \in ToSet(f.lines) : l[1] \in 1 .. f.nr /\ l[2] \in 1 .. f.nr
  <2>1. \A i \in DOMAIN f.lines : f.lines[i] \in (1 .. f.nr) \X (1 .. f.nr)
    BY <1>1, LenProperties, ElementOfSeq
  <2> QED
    BY <2>1 DEF ToSet
<1>3. \A e \in FileEntries(f) :
        e = <<e[1], e[2]>> /\ e[1] \in 0 .. f.nr - 1 /\ e[2] \in 0 .. f.nr - 1
  <2> SUFFICES ASSUME NEW e \in FileEntries(f)
               PROVE  e = <<e[1], e[2]>> /\ e[1] \in 0 .. f.nr - 1 /\ e[2] \in 0 .. f.nr - 1
    OBVIOUS
  <2>1. PICK l \in ToSet(f.lines) : e = <<l[1] - 1, l[2] - 1>> \/ e = <<l[2] - 1, l[1] - 1>>
    BY DEF FileEntries
  <2> QED
    BY <1>1, <1>2, <2>1
<1>4. IsFiniteSet(square)
  <2>1. IsFiniteSet(0 .. f.nr - 1)
    <3>1. f.nr - 1 \in Int
      BY <1>1
    <3> QED
      BY SMTT(20), <3>1, FS_Interval
  <2> QED
    BY <2>1, FS_Product, Zenon
<1>5. FileEntries(f) \in SUBSET square
  BY <1>3
<1>6. IsFiniteSet(FileEntries(f))
  BY <1>4, <1>5, FS_Subset
<1> QED
  BY <1>1, <1>3, <1>6 DEF Positions

(***************************************************************************)
(* The rows each rank is meant to get.                                     *)
(***************************************************************************)

\* They follow each other from the first row of the file to the last.
LEMMA RowsShared ==
  ASSUME NEW N \in Nat
  PROVE  /\ FirstRow(0, N) = 0
         /\ FirstRow(Size, N) = N
         /\ \A r \in Ranks : /\ FirstRow(r, N) \in Nat /\ SizeOfRank(r, N) \in Nat
                             /\ FirstRow(r + 1, N) = FirstRow(r, N) + SizeOfRank(r, N)
                             /\ FirstRow(r + 1, N) \in Nat
                             /\ SizeOfRank(r, N) = 0 => FirstRow(r, N) = N
PROOF
<1> DEFINE sizes == [i \in 1 .. Size |-> SizeOfRank(i - 1, N)]
           q == N \div Size
           rest == N % Size
           closed(r) == r * q + (IF rest > r THEN r ELSE rest)
           T == {r \in 0 .. Size : FirstRow(r, N) # closed(r)}
<1>1. Size \in Nat /\ Size > 0
  BY FilesAssumption
<1>2. q \in Nat /\ rest \in 0 .. Size - 1 /\ N = Size * q + rest
  BY <1>1
<1>3. \A r \in Ranks : /\ r \in Nat /\ r < Size
                       /\ SizeOfRank(r, N) = q + (IF rest > r THEN 1 ELSE 0)
                       /\ SizeOfRank(r, N) \in Nat
  BY <1>1, <1>2 DEF Ranks, SizeOfRank
<1>4. sizes \in [1 .. Size -> Nat]
  <2>1. \A i \in 1 .. Size : i - 1 \in Ranks
    BY <1>1 DEF Ranks
  <2> QED
    BY <1>3, <2>1
<1>5. /\ Prefix(sizes, 1) = 0
      /\ \A i \in 1 .. Size : Prefix(sizes, i + 1) = Prefix(sizes, i) + sizes[i]
      /\ \A i \in 1 .. Size + 1 : Prefix(sizes, i) \in Nat
  BY <1>1, <1>4, PrefixSum
<1>6. \A r : FirstRow(r, N) = Prefix(sizes, r + 1)
  BY Zenon DEF FirstRow
<1>7. FirstRow(0, N) = 0
  <2>1. 0 + 1 = 1
    OBVIOUS
  <2> QED
    BY <1>5, <1>6, <2>1, Zenon
<1>8. ASSUME NEW r \in Ranks
      PROVE  /\ FirstRow(r, N) \in Nat
             /\ FirstRow(r + 1, N) = FirstRow(r, N) + SizeOfRank(r, N)
  <2>1. r + 1 \in 1 .. Size /\ r + 1 \in 1 .. Size + 1 /\ (r + 1) - 1 = r
    BY <1>1, <1>3
  <2>2. sizes[r + 1] = SizeOfRank(r, N)
    BY <2>1, Zenon
  <2> HIDE DEF sizes
  <2> QED
    BY <1>5, <1>6, <2>1, <2>2
<1> HIDE DEF sizes, q, rest
<1>9. closed(0) = 0
  BY <1>2
<1>10. ASSUME NEW r \in Ranks PROVE closed(r + 1) = closed(r) + SizeOfRank(r, N)
  <2>1. (r + 1) * q = r * q + q /\ r * q \in Nat
    BY <1>2, <1>3
  <2> QED
    BY <1>2, <1>3, <2>1
<1>11. T = {}
  <2> SUFFICES ASSUME T # {} PROVE FALSE
    OBVIOUS
  <2>1. \A r \in T : r \in Nat
    OBVIOUS
  <2>2. PICK r \in T : \A p \in T : r <= p
    BY <2>1, Least
  <2>3. r # 0 /\ r \in 0 .. Size
    BY <1>7, <1>9
  <2>4. r - 1 \in Ranks /\ r - 1 \in 0 .. Size /\ (r - 1) + 1 = r
    BY <1>1, <2>3 DEF Ranks
  <2>5. r - 1 \notin T
    BY <2>2, <2>3
  <2>6. FirstRow(r - 1, N) = closed(r - 1)
    BY <2>4, <2>5
  <2> HIDE DEF closed
  <2>7. FirstRow(r, N) = closed(r)
    BY <1>8, <1>10, <2>4, <2>6
  <2> QED
    BY <2>7
<1>12. FirstRow(Size, N) = N
  <2>1. FirstRow(Size, N) = closed(Size)
    BY <1>1, <1>11
  <2> QED
    BY <1>1, <1>2, <2>1
<1>13. ASSUME NEW r \in Ranks, SizeOfRank(r, N) = 0 PROVE FirstRow(r, N) = N
  <2>1. q = 0 /\ ~(rest > r)
    BY <1>2, <1>3, <1>13
  <2>2. FirstRow(r, N) = closed(r)
    BY <1>1, <1>3, <1>11
  <2>3. r * q = 0 /\ Size * q = 0
    BY <1>1, <1>3, <2>1
  <2> QED
    BY <1>2, <2>1, <2>2, <2>3
<1> QED
  BY <1>3, <1>7, <1>8, <1>12, <1>13

(***************************************************************************)
(* The scan for the entries of a rank.                                     *)
(***************************************************************************)

\* In the sorted array the entries of rows before g come first, k of them.
Cutoff(e, g, k) ==
  /\ k \in 0 .. Len(e)
  /\ \A i \in 1 .. Len(e) : e[i][1] < g <=> i <= k

\* What the sort and the file say of the array.
Sorted(e, f) ==
  /\ Len(e) \in Nat /\ DOMAIN e = 1 .. Len(e)
  /\ e \in Seq(FileEntries(f))
  /\ \A i \in 1 .. Len(e) : e[i] \in FileEntries(f)
  /\ \A i \in 1 .. Len(e) : e[i][1] \in 0 .. f.nr - 1 /\ e[i][2] \in 0 .. f.nr - 1
                            /\ e[i] = <<e[i][1], e[i][2]>>
  /\ \A i, j \in 1 .. Len(e) : i < j => e[i][1] <= e[j][1]
  /\ \A i, j \in 1 .. Len(e) : e[i] = e[j] => i = j
  /\ \A d \in FileEntries(f) : \E i \in 1 .. Len(e) : e[i] = d

\* MMMatrixRead leaves such an array.
LEMMA ReadSorts ==
  ASSUME NEW f \in Files, NEW ascending
  PROVE  Sorted(SortedByRow(FileEntries(f), ascending), f)
PROOF
<1> DEFINE E == FileEntries(f)
           e == SortedByRow(E, ascending)
           k == Cardinality(E)
<1>1. IsFiniteSet(E) /\ Positions(E)
      /\ \A d \in E : d[1] \in 0 .. f.nr - 1 /\ d[2] \in 0 .. f.nr - 1
  BY EntriesOfFile
<1>2. RowSorted(e, E)
  BY <1>1, SortsByRow
<1> HIDE DEF E, e
<1>3. k \in Nat /\ e \in [1 .. k -> E]
  BY <1>2 DEF RowSorted
<1>4. e \in Seq(E) /\ Len(e) = k
  BY <1>3, LengthOf
<1>5. \A i \in 1 .. k : e[i] \in E
  BY <1>3
<1>6. \A i \in 1 .. k : e[i][1] \in 0 .. f.nr - 1 /\ e[i][2] \in 0 .. f.nr - 1
                        /\ e[i] = <<e[i][1], e[i][2]>>
  BY <1>1, <1>5 DEF Positions
<1>7. DOMAIN e = 1 .. k
  BY <1>3
<1> QED
  BY <1>2, <1>3, <1>4, <1>5, <1>6, <1>7 DEF RowSorted, Sorted, E, e

\* For each row there is one place to cut at.
LEMMA CutoffFound ==
  ASSUME NEW f \in Files, NEW e, Sorted(e, f), NEW g \in Nat
  PROVE  \E k : Cutoff(e, g, k)
PROOF
<1> DEFINE n == Len(e)
           T == {i \in 1 .. n + 1 : i = n + 1 \/ ~(e[i][1] < g)}
<1>1. n \in Nat /\ f.nr \in Nat
  BY EntriesOfFile DEF Sorted
<1>2. \A i \in 1 .. n : e[i][1] \in Int
  BY <1>1 DEF Sorted
<1>3. n + 1 \in T /\ \A i \in T : i \in Nat
  BY <1>1
<1>4. PICK t \in T : \A i \in T : t <= i
  BY <1>3, Least
<1>5. t \in 1 .. n + 1
  OBVIOUS
<1>6. ASSUME NEW i \in 1 .. n PROVE e[i][1] < g <=> i <= t - 1
  <2>1. CASE i < t
    BY <1>1, <1>4, <1>5, <2>1
  <2>2. CASE ~(i < t)
    <3>1. t \in 1 .. n /\ ~(e[t][1] < g) /\ t <= i
      BY <1>1, <1>5, <2>2
    <3>2. e[t][1] <= e[i][1]
      <4>1. CASE t = i
        BY <1>2, <3>1, <4>1
      <4>2. CASE t < i
        BY <3>1, <4>2 DEF Sorted
      <4> QED BY <1>1, <3>1, <4>1, <4>2
    <3> QED BY <1>1, <1>2, <2>2, <3>1, <3>2
  <2> QED BY <2>1, <2>2
<1>7. Cutoff(e, g, t - 1)
  BY <1>1, <1>5, <1>6 DEF Cutoff
<1> QED
  BY <1>7

\* The places of the entries of row g.
At(e, g) == {i \in DOMAIN e : e[i][1] = g}

\* The first entry of a row, where there is one, is the one behind the cut.
LEMMA FirstOfRow ==
  ASSUME NEW f \in Files, NEW e, Sorted(e, f), NEW g \in Nat, NEW k, Cutoff(e, g, k),
         \E d \in FileEntries(f) : d[1] = g
  PROVE  /\ At(e, g) # {} /\ Min(At(e, g)) - 1 = k
         /\ k < Len(e) /\ e[k + 1][1] = g
PROOF
<1> DEFINE n == Len(e)
           at == At(e, g)
<1>1. n \in Nat /\ f.nr \in Nat /\ DOMAIN e = 1 .. n
  BY EntriesOfFile DEF Sorted
<1>2. \A i \in 1 .. n : e[i][1] \in Int
  BY <1>1 DEF Sorted
<1>3. PICK d \in FileEntries(f) : d[1] = g
  OBVIOUS
<1>4. PICK i \in 1 .. n : e[i] = d
  BY DEF Sorted
<1>5. i > k /\ k \in 0 .. n
  BY <1>1, <1>2, <1>3, <1>4 DEF Cutoff
<1>6. k + 1 \in 1 .. n
  BY <1>1, <1>5
<1>7. e[k + 1][1] = g
  <2>1. ~(e[k + 1][1] < g)
    BY <1>5, <1>6 DEF Cutoff
  <2>2. e[k + 1][1] <= g
    <3>1. CASE k + 1 = i
      BY <1>2, <1>3, <1>4, <3>1
    <3>2. CASE k + 1 < i
      BY <1>3, <1>4, <1>6, <3>2 DEF Sorted
    <3> QED BY <1>5, <3>1, <3>2
  <2> QED BY <1>2, <1>6, <2>1, <2>2
<1>8. k + 1 \in at
  BY <1>1, <1>6, <1>7 DEF At
<1>9. \A j \in at : j \in Int /\ k + 1 <= j
  BY <1>1, <1>2, <1>5 DEF Cutoff, At
<1> HIDE DEF at
<1>10. Min(at) \in at /\ \A j \in at : Min(at) <= j
  <2>1. \E x \in at : \A y \in at : x =< y
    BY <1>8, <1>9
  <2> QED BY <2>1, Zenon DEF Min
<1>11. Min(at) = k + 1
  BY <1>5, <1>8, <1>9, <1>10
<1>12. Min(at) - 1 = k /\ k < n
  BY <1>5, <1>6, <1>11
<1>13. at # {}
  BY <1>8
<1> QED
  BY <1>7, <1>12, <1>13 DEF at

\* A later row is cut at no earlier place.
LEMMA CutoffsAscend ==
  ASSUME NEW f \in Files, NEW e, Sorted(e, f), NEW g \in Int, NEW h \in Int, g <= h,
         NEW k, Cutoff(e, g, k), NEW l, Cutoff(e, h, l)
  PROVE  k <= l
PROOF
<1>1. f.nr \in Nat /\ Len(e) \in Nat /\ k \in 0 .. Len(e) /\ l \in 0 .. Len(e)
  BY EntriesOfFile DEF Sorted, Cutoff
<1>2. CASE k = 0
  BY <1>1, <1>2
<1>3. CASE k # 0
  <2>1. k \in 1 .. Len(e)
    BY <1>1, <1>3
  <2>2. e[k][1] < g /\ e[k][1] \in Int
    BY <1>1, <2>1 DEF Cutoff, Sorted
  <2>3. e[k][1] < h
    BY <2>2
  <2> QED
    BY <2>1, <2>3 DEF Cutoff
<1> QED BY <1>2, <1>3

\* Each rank's first and last row have an entry in the file.
Filled(f) ==
  LET filled == {e[1] : e \in FileEntries(f)}
  IN  \A r \in Ranks : FirstRow(r, f.nr) \in filled /\ LastRow(r, f.nr) \in filled

\* For such a file every rank has rows.
LEMMA FilledHasRows ==
  ASSUME NEW f \in Files, Filled(f), NEW r \in Ranks
  PROVE  /\ FirstRow(r, f.nr) \in Nat /\ FirstRow(r + 1, f.nr) \in Nat
         /\ FirstRow(r, f.nr) < FirstRow(r + 1, f.nr)
         /\ LastRow(r, f.nr) + 1 = FirstRow(r + 1, f.nr)
         /\ LastRow(r, f.nr) \in Nat
PROOF
<1> DEFINE N == f.nr
<1>1. N \in Nat /\ \A e \in FileEntries(f) : e[1] \in 0 .. N - 1
  BY EntriesOfFile
<1>2. FirstRow(r, N) \in 0 .. N - 1
  BY <1>1 DEF Filled
<1>3. /\ FirstRow(r, N) \in Nat /\ SizeOfRank(r, N) \in Nat
      /\ FirstRow(r + 1, N) = FirstRow(r, N) + SizeOfRank(r, N)
      /\ SizeOfRank(r, N) = 0 => FirstRow(r, N) = N
  BY <1>1, RowsShared
<1>4. SizeOfRank(r, N) # 0
  BY <1>1, <1>2, <1>3
<1>5. LastRow(r, N) = FirstRow(r, N) + SizeOfRank(r, N) - 1
  BY DEF LastRow
<1> QED
  BY <1>3, <1>4, <1>5

\* scanMM then finds where the entries of the rows first .. last are: from the first
\* entry of the first row to the last entry of the last one.
LEMMA ScanOfRows ==
  ASSUME NEW f \in Files, NEW e, Sorted(e, f), NEW held,
         NEW first \in Nat, NEW last \in Nat, NEW past \in Nat, first < past, last + 1 = past,
         NEW k, Cutoff(e, first, k), NEW l, Cutoff(e, past, l),
         first \in {d[1] : d \in FileEntries(f)}, last \in {d[1] : d \in FileEntries(f)},
         past = f.nr \/ past \in {d[1] : d \in FileEntries(f)}
  PROVE  /\ ScanOffset(e, first, held) = k
         /\ ScanCount(e, last, k) = l - k
         /\ k < l
         /\ e[k + 1][1] = first
         /\ e[l][1] = last
PROOF
<1> DEFINE N == f.nr
           n == Len(e)
<1>2. N \in Nat /\ n \in Nat /\ k \in 0 .. n /\ l \in 0 .. n /\ DOMAIN e = 1 .. n
  BY EntriesOfFile DEF Sorted, Cutoff
<1>4. /\ At(e, first) # {} /\ Min(At(e, first)) - 1 = k
      /\ k < n /\ e[k + 1][1] = first
  <2>1. \E d \in FileEntries(f) : d[1] = first
    OBVIOUS
  <2>2. At(e, first) # {} /\ Min(At(e, first)) - 1 = k
    BY SMTT(20), <2>1, FirstOfRow
  <2>3. k < Len(e) /\ e[k + 1][1] = first
    BY SMTT(20), <2>1, FirstOfRow
  <2> QED
    BY <2>2, <2>3
<1>5. ScanOffset(e, first, held) = k
  BY <1>4, Zenon DEF ScanOffset, At
<1>6. ScanCount(e, last, k) = l - k
  <2>1. CASE past \in {d[1] : d \in FileEntries(f)}
    <3>1. At(e, past) # {} /\ Min(At(e, past)) - 1 = l
      <4>1. \E d \in FileEntries(f) : d[1] = past
        BY <2>1
      <4> QED
        BY <4>1, FirstOfRow
    <3>2. At(e, last + 1) # {} /\ Min(At(e, last + 1)) - 1 = l
      BY <3>1
    <3> QED
      BY <3>2, Zenon DEF ScanCount, At
  <2>2. CASE past = N
    <3>1. \A i \in 1 .. n : e[i][1] # N
      <4>1. \A i \in 1 .. n : e[i][1] \in 0 .. N - 1
        BY DEF Sorted
      <4> QED
        BY <1>2, <4>1
    <3>2. At(e, last + 1) = {}
      BY <1>2, <2>2, <3>1 DEF At
    <3>3. l = n
      <4>1. CASE n = 0
        BY <1>2, <4>1
      <4>2. CASE n # 0
        <5>0. n \in 1 .. n
          BY <1>2, <4>2
        <5>1. e[n][1] < past
          <6>1. e[n][1] \in 0 .. N - 1
            BY <5>0 DEF Sorted
          <6> QED
            BY <1>2, <2>2, <6>1
        <5>2. n <= l
          BY <5>0, <5>1 DEF Cutoff
        <5> QED
          BY <1>2, <5>2
      <4> QED BY <4>1, <4>2
    <3> QED
      BY <3>2, <3>3, Zenon DEF ScanCount, At
  <2> QED BY <2>1, <2>2
<1>8. PICK d \in FileEntries(f) : d[1] = last
  OBVIOUS
<1>9. PICK i \in 1 .. n : e[i] = d
  BY DEF Sorted
<1>10. e[i][1] < past /\ ~(e[i][1] < first)
  BY <1>8, <1>9
<1>11. k < i /\ i <= l
  BY <1>2, <1>9, <1>10 DEF Cutoff
<1>12. l \in 1 .. n
  BY <1>2, <1>11
<1>13. e[l][1] < past /\ e[l][1] \in Int
  BY <1>2, <1>12 DEF Cutoff, Sorted
<1>14. last <= e[l][1]
  <2>1. CASE i = l
    BY <1>8, <1>9, <2>1
  <2>2. CASE i < l
    BY <1>8, <1>9, <1>12, <2>2 DEF Sorted
  <2> QED BY <1>2, <1>11, <2>1, <2>2
<1>15. e[l][1] = last
  BY <1>13, <1>14
<1>16. k < l
  BY <1>2, <1>11
<1> QED
  BY <1>4, <1>5, <1>6, <1>15, <1>16

\* So the master cuts its entries where each rank's rows begin and end.
LEMMA ScanFinds ==
  ASSUME NEW f \in Files, Filled(f), NEW e, Sorted(e, f), NEW r \in Ranks, NEW held
  PROVE  \E k, l \in Nat :
           /\ SendDispls(e, f.nr, held)[r] = k
           /\ SendCounts(e, f.nr, held)[r] = l - k
           /\ k < l
           /\ e[k + 1][1] = FirstRow(r, f.nr)
           /\ e[l][1] = LastRow(r, f.nr)
           /\ Cutoff(e, FirstRow(r, f.nr), k)
           /\ Cutoff(e, LastRow(r, f.nr) + 1, l)
PROOF
<1> DEFINE first == FirstRow(r, f.nr)
           last == LastRow(r, f.nr)
           past == FirstRow(r + 1, f.nr)
<1>1. /\ first \in Nat /\ past \in Nat /\ first < past /\ last + 1 = past /\ last \in Nat
  BY FilledHasRows
<1>2. first \in {d[1] : d \in FileEntries(f)} /\ last \in {d[1] : d \in FileEntries(f)}
  BY DEF Filled
<1>3. past = f.nr \/ past \in {d[1] : d \in FileEntries(f)}
  <2>1. CASE r + 1 \in Ranks
    BY <2>1 DEF Filled
  <2>2. CASE r + 1 \notin Ranks
    <3>1. r + 1 = Size
      BY <2>2, FilesAssumption DEF Ranks
    <3>2. f.nr \in Nat
      BY EntriesOfFile
    <3> QED
      BY <3>1, <3>2, RowsShared
  <2> QED BY <2>1, <2>2
<1>4. PICK k : Cutoff(e, first, k)
  BY <1>1, CutoffFound
<1>5. PICK l : Cutoff(e, past, l)
  BY <1>1, CutoffFound
<1>6. /\ ScanOffset(e, first, held[r]) = k /\ ScanCount(e, last, k) = l - k
      /\ k < l /\ e[k + 1][1] = first /\ e[l][1] = last
  <2> HIDE DEF first, last, past
  <2> QED
    BY <1>1, <1>2, <1>3, <1>4, <1>5, ScanOfRows
<1>7. SendDispls(e, f.nr, held)[r] = k
  BY <1>6, Zenon DEF SendDispls
<1>8. SendCounts(e, f.nr, held)[r] = l - k
  BY <1>6, <1>7, Zenon DEF SendCounts
<1>9. k \in Nat /\ l \in Nat /\ Cutoff(e, last + 1, l)
  BY <1>1, <1>4, <1>5 DEF Cutoff, Sorted
<1> QED
  BY <1>4, <1>6, <1>7, <1>8, <1>9

(***************************************************************************)
(* The rows of a rank.                                                     *)
(***************************************************************************)

\* A part of the array: its entries are those of the array, further along.
LEMMA PartOfArray ==
  ASSUME NEW f \in Files, NEW e, Sorted(e, f), NEW k \in Nat, NEW c \in Nat, k + c <= Len(e)
  PROVE  /\ DOMAIN SubSeq(e, k + 1, k + c) = 1 .. c
         /\ \A j \in 1 .. c : SubSeq(e, k + 1, k + c)[j] = e[k + j]
PROOF
<1> DEFINE part == SubSeq(e, k + 1, k + c)
<1>1. \A i \in k + 1 .. k + c : e[i] \in FileEntries(f)
  BY DEF Sorted
<1>2. /\ part \in Seq(FileEntries(f))
      /\ Len(part) = IF k + 1 <= k + c THEN (k + c) - (k + 1) + 1 ELSE 0
      /\ \A j \in 1 .. (k + c) - (k + 1) + 1 : part[j] = e[(k + 1) + j - 1]
  <2>1. k + 1 \in Int /\ k + c \in Int
    OBVIOUS
  <2> QED
    BY <1>1, <2>1, SubSeqProperties
<1> HIDE DEF part
<1>3. Len(part) = c
  BY <1>2
<1>4. DOMAIN part = 1 .. c
  BY <1>2, <1>3, LenProperties
<1>5. (k + c) - (k + 1) + 1 = c /\ \A j \in 1 .. c : (k + 1) + j - 1 = k + j
  OBVIOUS
<1> QED
  BY <1>2, <1>4, <1>5 DEF part

\* Where in a part the entries of its row i are, and those of the rows before.
OfRow(e, startRow, i)   == {j \in DOMAIN e : e[j][1] - startRow = i}
AboveRow(e, startRow, i) == {j \in DOMAIN e : e[j][1] - startRow < i}

\* Row i of the CRS a part is converted to.
LEMMA RowTaken ==
  ASSUME NEW e, NEW startRow, NEW nr, NEW i \in 0 .. nr - 1
  PROVE  RowsOf(e, startRow, nr)[i] =
           [x \in 1 .. Cardinality(OfRow(e, startRow, i)) |->
              e[Cardinality(AboveRow(e, startRow, i)) + x][2]]
BY Zenon DEF RowsOf, OfRow, AboveRow

\* The columns the file has in row g.
Columns(f, g) == {e[2] : e \in {c \in FileEntries(f) : c[1] = g}}

\* The CRS of the part that begins with row first and ends with row last has the
\* file's columns in each row, each once.
LEMMA RowsOfPart ==
  ASSUME NEW f \in Files, NEW e, Sorted(e, f), NEW first \in Nat, NEW last \in Nat,
         NEW k, Cutoff(e, first, k), NEW l, Cutoff(e, last + 1, l), k <= l,
         NEW i \in 0 .. last - first
  PROVE  LET row == RowsOf(SubSeq(e, k + 1, k + (l - k)), first, last - first + 1)[i]
         IN  /\ ToSet(row) = Columns(f, first + i)
             /\ IsInjective(row)
PROOF
<1> DEFINE part == SubSeq(e, k + 1, k + (l - k))
           nr == last - first + 1
           row == RowsOf(part, first, nr)[i]
           g == first + i
<1>1. /\ Len(e) \in Nat /\ k \in Nat /\ l \in Nat /\ l <= Len(e) /\ l - k \in Nat
      /\ k + (l - k) = l
  BY DEF Sorted, Cutoff
<1>2. DOMAIN part = 1 .. l - k /\ \A j \in 1 .. l - k : part[j] = e[k + j]
  BY <1>1, PartOfArray
<1>3. g \in Nat /\ g + 1 \in Nat /\ first <= g /\ g + 1 <= last + 1
  OBVIOUS
<1>4. PICK a : Cutoff(e, g, a)
  BY <1>3, CutoffFound
<1>5. PICK b : Cutoff(e, g + 1, b)
  BY <1>3, CutoffFound
<1>6. k <= a /\ a <= b /\ b <= l
  <2>1. k <= a
    BY <1>3, <1>4, CutoffsAscend
  <2>2. a <= b
    <3>1. g <= g + 1 BY <1>3
    <3> QED BY <1>3, <1>4, <1>5, <3>1, CutoffsAscend
  <2>3. b <= l
    <3>1. last + 1 \in Int /\ g + 1 \in Int OBVIOUS
    <3> QED BY <1>3, <1>5, <3>1, CutoffsAscend
  <2> QED BY <2>1, <2>2, <2>3
<1>7. a \in Nat /\ b \in Nat
  BY <1>4, <1>5 DEF Cutoff
<1>8. \A j \in 1 .. Len(e) : e[j][1] \in Int
  <2>1. f.nr \in Nat BY EntriesOfFile
  <2> QED BY <2>1 DEF Sorted
<1>9. \A j \in 1 .. Len(e) : /\ e[j][1] < g <=> j <= a
                             /\ e[j][1] < g + 1 <=> j <= b
  BY <1>4, <1>5 DEF Cutoff
<1>10. \A j \in 1 .. Len(e) : e[j][1] = g <=> j > a /\ j <= b
  BY <1>3, <1>7, <1>8, <1>9
<1> HIDE DEF part
<1>11. AboveRow(part, first, i) = 1 .. a - k
  <2>1. ASSUME NEW j \in 1 .. l - k PROVE part[j][1] - first < i <=> j <= a - k
    <3>1. part[j] = e[k + j] /\ k + j \in 1 .. Len(e)
      BY <1>1, <1>2
    <3>2. e[k + j][1] < g <=> k + j <= a
      BY <1>9, <3>1
    <3>3. e[k + j][1] \in Int
      BY <1>8, <3>1
    <3> QED
      BY <1>1, <1>7, <3>1, <3>2, <3>3
  <2>2. 1 .. a - k \subseteq 1 .. l - k
    BY <1>1, <1>6, <1>7
  <2>3. \A j \in 1 .. l - k : j <= a - k <=> j \in 1 .. a - k
    BY <1>1, <1>7
  <2> QED
    BY <1>2, <2>1, <2>2, <2>3 DEF AboveRow
<1>12. OfRow(part, first, i) = a - k + 1 .. b - k
  <2>1. ASSUME NEW j \in 1 .. l - k PROVE part[j][1] - first = i <=> j > a - k /\ j <= b - k
    <3>1. part[j] = e[k + j] /\ k + j \in 1 .. Len(e)
      BY <1>1, <1>2
    <3>2. e[k + j][1] = g <=> k + j > a /\ k + j <= b
      BY <1>10, <3>1
    <3>3. e[k + j][1] \in Int
      BY <1>8, <3>1
    <3>4. e[k + j][1] - first = i <=> e[k + j][1] = g
      BY <3>3
    <3>5. k + j > a /\ k + j <= b <=> j > a - k /\ j <= b - k
      BY <1>1, <1>7
    <3> QED
      BY <3>1, <3>2, <3>4, <3>5, Zenon
  <2>2. a - k + 1 .. b - k \subseteq 1 .. l - k
    BY <1>1, <1>6, <1>7
  <2>3. \A j \in 1 .. l - k : j > a - k /\ j <= b - k <=> j \in a - k + 1 .. b - k
    BY <1>1, <1>7
  <2> QED
    BY <1>2, <2>1, <2>2, <2>3 DEF OfRow
<1>13. Cardinality(1 .. a - k) = a - k
  BY <1>1, <1>6, <1>7, FS_Interval
<1>14. Cardinality(a - k + 1 .. b - k) = b - a
  <2>1. a - k + 1 \in Int /\ b - k \in Int
    BY <1>1, <1>7
  <2>2. Cardinality(a - k + 1 .. b - k)
          = IF a - k + 1 <= b - k THEN (b - k) - (a - k + 1) + 1 ELSE 0
    BY <2>1, FS_Interval
  <2> QED
    BY <1>1, <1>6, <1>7, <2>2
<1>15. row = [x \in 1 .. b - a |-> part[a - k + x][2]]
  <2>1. i \in 0 .. nr - 1
    OBVIOUS
  <2> HIDE DEF nr
  <2>2. row = [x \in 1 .. Cardinality(OfRow(part, first, i)) |->
                 part[Cardinality(AboveRow(part, first, i)) + x][2]]
    BY SMTT(20), <2>1, RowTaken
  <2> HIDE DEF row
  <2> QED
    BY <1>11, <1>12, <1>13, <1>14, <2>2, Zenon
<1> HIDE DEF row, nr
<1>16. DOMAIN row = 1 .. b - a
  BY <1>15
<1>17. \A x \in 1 .. b - a : row[x] = e[a + x][2] /\ a + x \in 1 .. Len(e) /\ e[a + x][1] = g
  <2> SUFFICES ASSUME NEW x \in 1 .. b - a
               PROVE  row[x] = e[a + x][2] /\ a + x \in 1 .. Len(e) /\ e[a + x][1] = g
    OBVIOUS
  <2>1. a - k + x \in 1 .. l - k /\ k + (a - k + x) = a + x /\ a + x \in 1 .. Len(e)
        /\ a + x > a /\ a + x <= b
    BY <1>1, <1>6, <1>7
  <2>2. part[a - k + x] = e[a + x]
    BY <1>2, <2>1
  <2>3. row[x] = part[a - k + x][2]
    BY <1>15
  <2> QED
    BY <1>10, <2>1, <2>2, <2>3
<1>18. ToSet(row) = Columns(f, g)
  <2>1. \A c \in ToSet(row) : c \in Columns(f, g)
    <3> SUFFICES ASSUME NEW c \in ToSet(row) PROVE c \in Columns(f, g)
      OBVIOUS
    <3>1. PICK x \in 1 .. b - a : c = row[x]
      BY <1>16 DEF ToSet
    <3>2. c = e[a + x][2] /\ e[a + x] \in FileEntries(f) /\ e[a + x][1] = g
      BY <1>17, <3>1 DEF Sorted
    <3> QED
      BY <3>2 DEF Columns
  <2>2. \A c \in Columns(f, g) : c \in ToSet(row)
    <3> SUFFICES ASSUME NEW c \in Columns(f, g) PROVE c \in ToSet(row)
      OBVIOUS
    <3>1. PICK d \in FileEntries(f) : d[1] = g /\ c = d[2]
      BY DEF Columns
    <3>2. PICK j \in 1 .. Len(e) : e[j] = d
      BY DEF Sorted
    <3>3. j > a /\ j <= b
      BY <1>10, <3>1, <3>2
    <3>4. j - a \in 1 .. b - a /\ a + (j - a) = j
      BY <1>7, <3>3
    <3>5. row[j - a] = c
      BY <1>17, <3>1, <3>2, <3>4
    <3> QED
      BY <1>16, <3>4, <3>5 DEF ToSet
  <2> HIDE DEF g
  <2> QED
    BY <2>1, <2>2
<1>19. IsInjective(row)
  <2> SUFFICES ASSUME NEW x \in 1 .. b - a, NEW y \in 1 .. b - a, row[x] = row[y] PROVE x = y
    BY <1>16 DEF IsInjective
  <2>1. e[a + x][1] = e[a + y][1] /\ e[a + x][2] = e[a + y][2]
        /\ a + x \in 1 .. Len(e) /\ a + y \in 1 .. Len(e)
    BY <1>17
  <2>2. e[a + x] = <<e[a + x][1], e[a + x][2]>> /\ e[a + y] = <<e[a + y][1], e[a + y][2]>>
    BY <2>1 DEF Sorted
  <2>3. e[a + x] = e[a + y]
    BY <2>1, <2>2
  <2>4. a + x = a + y
    BY <2>1, <2>3 DEF Sorted
  <2> QED
    BY <1>7, <2>4
<1> QED
  BY <1>18, <1>19 DEF row, nr, part

(***************************************************************************)
(* The distribution, step by step.                                         *)
(***************************************************************************)

\* The steps at which a rank has its part, and those at which it has its matrix.
Received  == {"convert", "localize", "done"}
Converted == {"localize", "done"}

\* What the variables range over.
Typed ==
  /\ file \in Files
  /\ pc \in [Ranks -> ToSet(Steps)]
  /\ totalNr \in [Ranks -> {file.nr, None}]
  /\ DOMAIN count = Ranks /\ DOMAIN mm = Ranks /\ DOMAIN m = Ranks

\* The master has read the file, and cut its entries, before anyone goes on.
MasterInv ==
  /\ \A r \in Ranks : pc[r] = "read" => r = 0
  /\ pc[0] # "read" => Sorted(entries, file)
  /\ \A r \in Ranks : pc[r] \notin {"read", "bcast"} => pc[0] \notin {"read", "bcast"}
  /\ pc[0] \notin {"read", "bcast"} =>
       \E held \in [Ranks -> Leftover] :
         /\ senddispls = SendDispls(entries, file.nr, held)
         /\ sendcounts = SendCounts(entries, file.nr, held)

\* A rank expects what the master has counted for it.
CountInv ==
  \A r \in Ranks : pc[r] \notin {"read", "bcast", "scatter"} => count[r] = sendcounts[r]

\* The part of the array that is sent to rank r.
PartOf(r) == SubSeq(entries, senddispls[r] + 1, senddispls[r] + count[r])

\* mm[r] is that part, and the rows from its first entry's to its last entry's.
HoldsPart(r) ==
  /\ ValidPart(r)
  /\ mm[r].startRow = PartOf(r)[1][1]
  /\ mm[r].nr = PartOf(r)[count[r]][1] - PartOf(r)[1][1] + 1
  /\ mm[r].entries = PartOf(r)

\* m[r] is the CRS of it.
HoldsMatrix(r) ==
  m[r] = [startRow |-> mm[r].startRow, nr |-> mm[r].nr, nc |-> m[r].nc,
          rows |-> RowsOf(mm[r].entries, mm[r].startRow, mm[r].nr)]

\* A rank has its part from the Scatterv on.
PartInv == \A r \in Ranks : IF pc[r] \in Received THEN HoldsPart(r) ELSE mm[r] = None

\* A rank has its matrix from the conversion on.
MatrixInv == \A r \in Ranks : IF pc[r] \in Converted THEN HoldsMatrix(r) ELSE m[r] = None

\* The inductive invariant.
Inv == Typed /\ MasterInv /\ CountInv /\ PartInv /\ MatrixInv

\* The names of the steps, and that the first two are the first two.
LEMMA StepNames ==
  /\ ToSet(Steps) = {"read", "bcast", "scatter", "scatterv", "convert", "localize",
                     "done", "aborted"}
  /\ ~(StepNo("bcast") > StepNo("bcast")) /\ ~(StepNo("read") > StepNo("bcast"))
PROOF
<1>1. ToSet(Steps) = {"read", "bcast", "scatter", "scatterv", "convert", "localize",
                      "done", "aborted"}
  BY DEF ToSet, Steps
<1>2. \A i \in DOMAIN Steps : /\ Steps[i] = "read" <=> i = 1
                              /\ Steps[i] = "bcast" <=> i = 2
  BY DEF Steps
<1>3. 1 \in DOMAIN Steps /\ 2 \in DOMAIN Steps
  BY DEF Steps
<1>4. StepNo("read") = 1
  BY <1>2, <1>3 DEF StepNo
<1>5. StepNo("bcast") = 2
  BY <1>2, <1>3 DEF StepNo
<1> QED
  BY <1>1, <1>4, <1>5

\* Rank 0 is one of the ranks.
LEMMA MasterIsRank == 0 \in Ranks
BY FilesAssumption DEF Ranks

\* The invariant holds at the start.
LEMMA InvInit == Init => Inv
PROOF
<1> SUFFICES ASSUME Init PROVE Inv
  OBVIOUS
<1> USE DEF Init
<1>1. \A r \in Ranks : pc[r] = (IF r = 0 THEN "read" ELSE "bcast")
  OBVIOUS
<1>2. Typed
  BY <1>1, StepNames DEF Typed
<1>3. MasterInv
  BY <1>1, MasterIsRank DEF MasterInv
<1>4. CountInv
  BY <1>1 DEF CountInv
<1>5. PartInv
  BY <1>1 DEF PartInv, Received
<1>6. MatrixInv
  BY <1>1 DEF MatrixInv, Converted
<1> QED BY <1>2, <1>3, <1>4, <1>5, <1>6 DEF Inv

\* Reading the file keeps it.
LEMMA ReadKeepsInv == Inv /\ Read => Inv'
PROOF
<1> SUFFICES ASSUME Inv, Read PROVE Inv'
  OBVIOUS
<1>1. Typed /\ MasterInv /\ CountInv /\ PartInv /\ MatrixInv
  BY DEF Inv
<1>2. /\ pc[0] = "read" /\ pc' = [pc EXCEPT ![0] = "bcast"]
      /\ UNCHANGED <<file, sendcounts, senddispls, totalNr, count, mm, m>>
  BY DEF Read, Goto
<1>3. PICK ascending : entries' = SortedByRow(FileEntries(file), ascending)
  BY DEF Read
<1>4. \A r \in Ranks : pc'[r] = IF r = 0 THEN "bcast" ELSE pc[r]
  BY <1>1, <1>2 DEF Typed
<1>5. \A r \in Ranks : pc'[r] \in {"read", "bcast"} /\ pc[r] \in {"read", "bcast"}
                       /\ (pc'[r] = "read" => r = 0)
  BY <1>1, <1>2, <1>4, MasterIsRank DEF MasterInv
<1>6. Typed'
  BY <1>1, <1>2, StepNames DEF Typed
<1>7. MasterInv'
  <2>1. Sorted(entries', file')
    BY <1>1, <1>2, <1>3, ReadSorts DEF Typed
  <2>2. pc'[0] \in {"read", "bcast"}
    BY <1>5, MasterIsRank
  <2> QED
    BY <1>5, <2>1, <2>2 DEF MasterInv
<1>8. CountInv'
  BY <1>5 DEF CountInv
<1>9. PartInv'
  BY <1>1, <1>2, <1>5 DEF PartInv, Received
<1>10. MatrixInv'
  BY <1>1, <1>2, <1>5 DEF MatrixInv, Converted
<1> QED BY <1>6, <1>7, <1>8, <1>9, <1>10 DEF Inv

\* The broadcast keeps it, on the master, which cuts its entries, and elsewhere.
LEMMA BcastKeepsInv == ASSUME NEW r \in Ranks PROVE Inv /\ Bcast(r) => Inv'
PROOF
<1> SUFFICES ASSUME Inv, Bcast(r) PROVE Inv'
  OBVIOUS
<1>1. Typed /\ MasterInv /\ CountInv /\ PartInv /\ MatrixInv
  BY DEF Inv
<1>2. /\ pc[r] = "bcast" /\ pc' = [pc EXCEPT ![r] = "scatter"]
      /\ totalNr' = [totalNr EXCEPT ![r] = file.nr]
      /\ UNCHANGED <<file, entries, count, mm, m>>
  BY DEF Bcast, Goto
<1>3. \A q \in Ranks : pc'[q] = IF q = r THEN "scatter" ELSE pc[q]
  BY <1>1, <1>2 DEF Typed
<1>4. Typed'
  BY <1>1, <1>2, StepNames DEF Typed
<1>5. PartInv'
  <2>1. CASE r = 0
    <3>1. \A q \in Ranks : pc[q] \in {"read", "bcast"}
      BY <1>1, <1>2, <2>1 DEF MasterInv
    <3> QED
      BY <1>1, <1>2, <1>3, <3>1 DEF PartInv, Received
  <2>2. CASE r # 0
    <3>1. UNCHANGED <<sendcounts, senddispls>>
      BY <2>2 DEF Bcast
    <3>2. \A q \in Ranks : pc'[q] \in Received <=> pc[q] \in Received
      BY <1>2, <1>3 DEF Received
    <3>3. \A q \in Ranks : HoldsPart(q)' = HoldsPart(q)
      BY <1>2, <3>1 DEF HoldsPart, PartOf, ValidPart
    <3> QED
      BY <1>1, <1>2, <3>2, <3>3 DEF PartInv
  <2> QED BY <2>1, <2>2
<1>6. MatrixInv'
  <2>1. \A q \in Ranks : pc'[q] \in Converted <=> pc[q] \in Converted
    BY <1>2, <1>3 DEF Converted
  <2>2. \A q \in Ranks : HoldsMatrix(q)' = HoldsMatrix(q)
    BY <1>2 DEF HoldsMatrix
  <2> QED
    BY <1>1, <1>2, <2>1, <2>2 DEF MatrixInv
<1>7. MasterInv' /\ CountInv'
  <2>1. CASE r = 0
    <3>1. PICK held \in [Ranks -> Leftover] :
            /\ senddispls' = SendDispls(entries, file.nr, held)
            /\ sendcounts' = SendCounts(entries, file.nr, held)
      BY <2>1 DEF Bcast
    <3>2. \A q \in Ranks : pc[q] \in {"read", "bcast"}
      BY <1>1, <1>2, <2>1 DEF MasterInv
    <3>3. pc'[0] = "scatter" /\ \A q \in Ranks : q # 0 => pc'[q] = "bcast"
      BY <1>1, <1>3, <2>1, <3>2 DEF MasterInv
    <3>4. Sorted(entries, file)
      BY <1>1, <1>2, <2>1 DEF MasterInv
    <3>5. MasterInv'
      BY <1>2, <3>1, <3>3, <3>4 DEF MasterInv
    <3>6. CountInv'
      BY <3>3 DEF CountInv
    <3> QED BY <3>5, <3>6
  <2>2. CASE r # 0
    <3>1. UNCHANGED <<sendcounts, senddispls>>
      BY <2>2 DEF Bcast
    <3>2. StepNo(pc[0]) > StepNo("bcast")
      BY <2>2 DEF Bcast, FromRoot, Past
    <3>3. pc[0] \notin {"read", "bcast"}
      BY <3>2, StepNames
    <3>4. pc'[0] = pc[0]
      BY <1>3, <2>2, MasterIsRank
    <3>5. MasterInv'
      BY <1>1, <1>2, <1>3, <3>1, <3>3, <3>4 DEF MasterInv
    <3>6. CountInv'
      BY <1>1, <1>2, <1>3, <3>1 DEF CountInv
    <3> QED BY <3>5, <3>6
  <2> QED BY <2>1, <2>2
<1> QED BY <1>4, <1>5, <1>6, <1>7 DEF Inv

\* A step of a rank that changes nothing of the master's keeps what the master knows.
LEMMA MasterKept ==
  ASSUME Inv, NEW r \in Ranks, NEW s \in ToSet(Steps) \ {"read", "bcast"},
         pc[r] \notin {"read", "bcast"}, pc' = [pc EXCEPT ![r] = s],
         UNCHANGED <<file, entries, sendcounts, senddispls, totalNr>>
  PROVE  /\ MasterInv'
         /\ pc' \in [Ranks -> ToSet(Steps)]
         /\ \A q \in Ranks : pc'[q] = IF q = r THEN s ELSE pc[q]
PROOF
<1>1. Typed /\ MasterInv
  BY DEF Inv
<1>2. pc' \in [Ranks -> ToSet(Steps)] /\ \A q \in Ranks : pc'[q] = IF q = r THEN s ELSE pc[q]
  BY <1>1 DEF Typed
<1>3. pc[0] \notin {"read", "bcast"} /\ pc'[0] \notin {"read", "bcast"}
  BY <1>1, <1>2, MasterIsRank DEF MasterInv
<1>4. MasterInv'
  BY <1>1, <1>2, <1>3 DEF MasterInv
<1> QED BY <1>2, <1>4

\* The Scatter keeps it.
LEMMA ScatterKeepsInv == ASSUME NEW r \in Ranks PROVE Inv /\ Scatter(r) => Inv'
PROOF
<1> SUFFICES ASSUME Inv, Scatter(r) PROVE Inv'
  OBVIOUS
<1>1. Typed /\ MasterInv /\ CountInv /\ PartInv /\ MatrixInv
  BY DEF Inv
<1>2. /\ pc[r] = "scatter" /\ pc' = [pc EXCEPT ![r] = "scatterv"]
      /\ count' = [count EXCEPT ![r] = sendcounts[r]]
      /\ UNCHANGED <<file, entries, sendcounts, senddispls, totalNr, mm, m>>
  BY DEF Scatter, Goto
<1>3. /\ MasterInv' /\ pc' \in [Ranks -> ToSet(Steps)]
      /\ \A q \in Ranks : pc'[q] = IF q = r THEN "scatterv" ELSE pc[q]
  BY <1>2, StepNames, MasterKept
<1>4. \A q \in Ranks : count'[q] = IF q = r THEN sendcounts[r] ELSE count[q]
  BY <1>1, <1>2 DEF Typed
<1>5. Typed'
  BY <1>1, <1>2, <1>3 DEF Typed
<1>6. CountInv'
  BY <1>1, <1>2, <1>3, <1>4 DEF CountInv
<1>7. PartInv'
  <2> SUFFICES ASSUME NEW q \in Ranks
               PROVE  IF pc'[q] \in Received THEN HoldsPart(q)' ELSE mm'[q] = None
    BY DEF PartInv
  <2>1. CASE q = r
    BY <1>1, <1>2, <1>3, <2>1 DEF PartInv, Received
  <2>2. CASE q # r
    <3>1. HoldsPart(q)' = HoldsPart(q)
      BY <1>2, <1>4, <2>2 DEF HoldsPart, PartOf, ValidPart
    <3> QED BY <1>1, <1>2, <1>3, <2>2, <3>1 DEF PartInv
  <2> QED BY <2>1, <2>2
<1>8. MatrixInv'
  <2>1. \A q \in Ranks : pc'[q] \in Converted <=> pc[q] \in Converted
    BY <1>2, <1>3 DEF Converted
  <2>2. \A q \in Ranks : HoldsMatrix(q)' = HoldsMatrix(q)
    BY <1>2 DEF HoldsMatrix
  <2> QED
    BY <1>1, <1>2, <2>1, <2>2 DEF MatrixInv
<1> QED BY <1>3, <1>5, <1>6, <1>7, <1>8 DEF Inv

\* The Scatterv keeps it: the rank now holds its part.
LEMMA ScattervKeepsInv == ASSUME NEW r \in Ranks PROVE Inv /\ Scatterv(r) => Inv'
PROOF
<1> SUFFICES ASSUME Inv, Scatterv(r) PROVE Inv'
  OBVIOUS
<1>1. Typed /\ MasterInv /\ CountInv /\ PartInv /\ MatrixInv
  BY DEF Inv
<1>2. /\ pc[r] = "scatterv" /\ pc' = [pc EXCEPT ![r] = "convert"] /\ ValidPart(r)
      /\ UNCHANGED <<file, entries, sendcounts, senddispls, totalNr, count, m>>
  BY DEF Scatterv, Goto
<1>3. PICK nc : mm' = [mm EXCEPT ![r] =
                        [startRow |-> PartOf(r)[1][1],
                         nr |-> PartOf(r)[count[r]][1] - PartOf(r)[1][1] + 1,
                         nc |-> nc, entries |-> PartOf(r)]]
  BY Zenon DEF Scatterv, PartOf
<1>4. /\ MasterInv' /\ pc' \in [Ranks -> ToSet(Steps)]
      /\ \A q \in Ranks : pc'[q] = IF q = r THEN "convert" ELSE pc[q]
  BY <1>2, StepNames, MasterKept
<1>5. \A q \in Ranks : q # r => mm'[q] = mm[q]
  BY <1>1, <1>3 DEF Typed
<1>6. Typed'
  BY <1>1, <1>2, <1>3, <1>4 DEF Typed
<1>7. CountInv'
  BY <1>1, <1>2, <1>4 DEF CountInv
<1>8. PartInv'
  <2>0. \A q \in Ranks : PartOf(q)' = PartOf(q) /\ ValidPart(q)' = ValidPart(q)
    BY <1>2 DEF PartOf, ValidPart
  <2> SUFFICES ASSUME NEW q \in Ranks
               PROVE  IF pc'[q] \in Received THEN HoldsPart(q)' ELSE mm'[q] = None
    BY DEF PartInv
  <2>1. CASE q = r
    <3>1. mm'[r] = [startRow |-> PartOf(r)[1][1],
                    nr |-> PartOf(r)[count[r]][1] - PartOf(r)[1][1] + 1,
                    nc |-> nc, entries |-> PartOf(r)]
      BY <1>1, <1>3 DEF Typed
    <3>2. HoldsPart(r)'
      BY <1>2, <2>0, <3>1 DEF HoldsPart
    <3> QED BY <1>4, <2>1, <3>2 DEF Received
  <2>2. CASE q # r
    <3>1. HoldsPart(q)' = HoldsPart(q)
      BY <1>2, <1>5, <2>0, <2>2 DEF HoldsPart
    <3> QED BY <1>1, <1>4, <1>5, <2>2, <3>1 DEF PartInv
  <2> QED BY <2>1, <2>2
<1>9. MatrixInv'
  <2> SUFFICES ASSUME NEW q \in Ranks
               PROVE  IF pc'[q] \in Converted THEN HoldsMatrix(q)' ELSE m'[q] = None
    BY DEF MatrixInv
  <2>1. CASE q = r
    BY <1>1, <1>2, <1>4, <2>1 DEF MatrixInv, Converted
  <2>2. CASE q # r
    <3>1. HoldsMatrix(q)' = HoldsMatrix(q)
      BY <1>2, <1>5, <2>2 DEF HoldsMatrix
    <3> QED BY <1>1, <1>2, <1>4, <2>2, <3>1 DEF MatrixInv
  <2> QED BY <2>1, <2>2
<1> QED BY <1>4, <1>6, <1>7, <1>8, <1>9 DEF Inv

\* A rank that stops keeps it.
LEMMA AbortKeepsInv == ASSUME NEW r \in Ranks PROVE Inv /\ Abort(r) => Inv'
PROOF
<1> SUFFICES ASSUME Inv, Abort(r) PROVE Inv'
  OBVIOUS
<1>1. Typed /\ MasterInv /\ CountInv /\ PartInv /\ MatrixInv
  BY DEF Inv
<1>2. /\ pc[r] = "scatterv" /\ pc' = [pc EXCEPT ![r] = "aborted"]
      /\ UNCHANGED <<file, entries, sendcounts, senddispls, totalNr, count, mm, m>>
  BY DEF Abort, Goto
<1>3. /\ MasterInv' /\ pc' \in [Ranks -> ToSet(Steps)]
      /\ \A q \in Ranks : pc'[q] = IF q = r THEN "aborted" ELSE pc[q]
  BY <1>2, StepNames, MasterKept
<1>4. Typed'
  BY <1>1, <1>2, <1>3 DEF Typed
<1>5. CountInv'
  BY <1>1, <1>2, <1>3 DEF CountInv
<1>6. PartInv'
  <2>1. \A q \in Ranks : pc'[q] \in Received <=> pc[q] \in Received
    BY <1>2, <1>3 DEF Received
  <2>2. \A q \in Ranks : HoldsPart(q)' = HoldsPart(q)
    BY <1>2 DEF HoldsPart, PartOf, ValidPart
  <2> QED BY <1>1, <1>2, <2>1, <2>2 DEF PartInv
<1>7. MatrixInv'
  <2>1. \A q \in Ranks : pc'[q] \in Converted <=> pc[q] \in Converted
    BY <1>2, <1>3 DEF Converted
  <2>2. \A q \in Ranks : HoldsMatrix(q)' = HoldsMatrix(q)
    BY <1>2 DEF HoldsMatrix
  <2> QED BY <1>1, <1>2, <2>1, <2>2 DEF MatrixInv
<1> QED BY <1>3, <1>4, <1>5, <1>6, <1>7 DEF Inv

\* The conversion keeps it: the rank now holds its matrix.
LEMMA ConvertKeepsInv == ASSUME NEW r \in Ranks PROVE Inv /\ Convert(r) => Inv'
PROOF
<1> SUFFICES ASSUME Inv, Convert(r) PROVE Inv'
  OBVIOUS
<1>1. Typed /\ MasterInv /\ CountInv /\ PartInv /\ MatrixInv
  BY DEF Inv
<1> DEFINE rows == RowsOf(mm[r].entries, mm[r].startRow, mm[r].nr)
<1>2. /\ pc[r] = "convert" /\ pc' = [pc EXCEPT ![r] = "localize"]
      /\ m' = [m EXCEPT ![r] = [startRow |-> mm[r].startRow, nr |-> mm[r].nr,
                                nc |-> mm[r].nc, rows |-> rows]]
      /\ UNCHANGED <<file, entries, sendcounts, senddispls, totalNr, count, mm>>
  BY DEF Convert, Goto
<1> HIDE DEF rows
<1>3. /\ MasterInv' /\ pc' \in [Ranks -> ToSet(Steps)]
      /\ \A q \in Ranks : pc'[q] = IF q = r THEN "localize" ELSE pc[q]
  BY <1>2, StepNames, MasterKept
<1>4. Typed'
  BY <1>1, <1>2, <1>3 DEF Typed
<1>5. CountInv'
  BY <1>1, <1>2, <1>3 DEF CountInv
<1>6. PartInv'
  <2>1. \A q \in Ranks : pc'[q] \in Received <=> pc[q] \in Received
    BY <1>2, <1>3 DEF Received
  <2>2. \A q \in Ranks : HoldsPart(q)' = HoldsPart(q)
    BY <1>2 DEF HoldsPart, PartOf, ValidPart
  <2> QED BY <1>1, <1>2, <2>1, <2>2 DEF PartInv
<1>7. MatrixInv'
  <2> SUFFICES ASSUME NEW q \in Ranks
               PROVE  IF pc'[q] \in Converted THEN HoldsMatrix(q)' ELSE m'[q] = None
    BY DEF MatrixInv
  <2>1. CASE q = r
    <3>1. m'[r] = [startRow |-> mm[r].startRow, nr |-> mm[r].nr,
                   nc |-> mm[r].nc, rows |-> rows]
      BY <1>1, <1>2 DEF Typed
    <3>2. m'[r] = [startRow |-> mm[r].startRow, nr |-> mm[r].nr,
                   nc |-> m'[r].nc, rows |-> rows]
      BY <3>1
    <3>3. HoldsMatrix(r)'
      BY <1>2, <3>2 DEF HoldsMatrix, rows
    <3> QED BY <1>3, <2>1, <3>3 DEF Converted
  <2>2. CASE q # r
    <3>1. m'[q] = m[q]
      BY <1>1, <1>2, <2>2 DEF Typed
    <3>2. HoldsMatrix(q)' = HoldsMatrix(q)
      BY <1>2, <3>1 DEF HoldsMatrix
    <3> QED BY <1>1, <1>3, <2>2, <3>1, <3>2 DEF MatrixInv
  <2> QED BY <2>1, <2>2
<1> QED BY <1>3, <1>4, <1>5, <1>6, <1>7 DEF Inv

\* Making room for the halo keeps it: only nc changes.
LEMMA LocalizeKeepsInv == ASSUME NEW r \in Ranks PROVE Inv /\ Localize(r) => Inv'
PROOF
<1> SUFFICES ASSUME Inv, Localize(r) PROVE Inv'
  OBVIOUS
<1>1. Typed /\ MasterInv /\ CountInv /\ PartInv /\ MatrixInv
  BY DEF Inv
<1> DEFINE rows == RowsOf(mm[r].entries, mm[r].startRow, mm[r].nr)
           nc == m[r].nc + Len(Externals(r))
<1>2. /\ pc[r] = "localize" /\ pc' = [pc EXCEPT ![r] = "done"]
      /\ m' = [m EXCEPT ![r] = [m[r] EXCEPT !.nc = nc]]
      /\ UNCHANGED <<file, entries, sendcounts, senddispls, totalNr, count, mm>>
  BY Zenon DEF Localize, Goto
<1> HIDE DEF nc
<1>3. /\ MasterInv' /\ pc' \in [Ranks -> ToSet(Steps)]
      /\ \A q \in Ranks : pc'[q] = IF q = r THEN "done" ELSE pc[q]
  BY <1>2, StepNames, MasterKept
<1>4. Typed'
  BY <1>1, <1>2, <1>3 DEF Typed
<1>5. CountInv'
  BY <1>1, <1>2, <1>3 DEF CountInv
<1>6. PartInv'
  <2>1. \A q \in Ranks : pc'[q] \in Received <=> pc[q] \in Received
    BY <1>2, <1>3 DEF Received
  <2>2. \A q \in Ranks : HoldsPart(q)' = HoldsPart(q)
    BY <1>2 DEF HoldsPart, PartOf, ValidPart
  <2> QED BY <1>1, <1>2, <2>1, <2>2 DEF PartInv
<1>7. MatrixInv'
  <2> SUFFICES ASSUME NEW q \in Ranks
               PROVE  IF pc'[q] \in Converted THEN HoldsMatrix(q)' ELSE m'[q] = None
    BY DEF MatrixInv
  <2>1. CASE q = r
    <3>1. HoldsMatrix(r)
      BY <1>1, <1>2 DEF MatrixInv, Converted
    <3>2. m[r] = [startRow |-> mm[r].startRow, nr |-> mm[r].nr, nc |-> m[r].nc, rows |-> rows]
      BY <3>1 DEF HoldsMatrix
    <3> HIDE DEF rows
    <3>3. m'[r] = [m[r] EXCEPT !.nc = nc]
      BY <1>1, <1>2 DEF Typed
    <3>4. m'[r] = [startRow |-> mm[r].startRow, nr |-> mm[r].nr, nc |-> nc, rows |-> rows]
      BY <3>2, <3>3
    <3>5. m'[r] = [startRow |-> mm[r].startRow, nr |-> mm[r].nr, nc |-> m'[r].nc, rows |-> rows]
      BY <3>4
    <3>6. HoldsMatrix(r)'
      BY <1>2, <3>5 DEF HoldsMatrix, rows
    <3> QED BY <1>3, <2>1, <3>6 DEF Converted
  <2>2. CASE q # r
    <3>1. m'[q] = m[q]
      BY <1>1, <1>2, <2>2 DEF Typed
    <3>2. HoldsMatrix(q)' = HoldsMatrix(q)
      BY <1>2, <3>1 DEF HoldsMatrix
    <3> QED BY <1>1, <1>3, <2>2, <3>1, <3>2 DEF MatrixInv
  <2> QED BY <2>1, <2>2
<1> QED BY <1>3, <1>4, <1>5, <1>6, <1>7 DEF Inv

\* Every step keeps it.
LEMMA InvNext == Inv /\ [Next]_vars => Inv'
PROOF
<1> SUFFICES ASSUME Inv, [Next]_vars PROVE Inv'
  OBVIOUS
<1>1. CASE Read
  BY <1>1, ReadKeepsInv
<1>2. ASSUME NEW r \in Ranks, RankStep(r) PROVE Inv'
  BY <1>2, BcastKeepsInv, ScatterKeepsInv, ScattervKeepsInv, AbortKeepsInv, ConvertKeepsInv,
     LocalizeKeepsInv DEF RankStep
<1>3. CASE UNCHANGED vars
  BY <1>3 DEF vars, Inv, Typed, MasterInv, CountInv, PartInv, MatrixInv, HoldsPart, HoldsMatrix,
              PartOf, ValidPart
<1> QED BY <1>1, <1>2, <1>3 DEF Next, Finished

\* What each rank holds at each step of the distribution, in every run.
THEOREM Invariance == Spec => []Inv
BY InvInit, InvNext, PTL DEF Spec

(***************************************************************************)
(* What follows.                                                           *)
(***************************************************************************)

\* What the scan answers are integers, whatever the memory held.
LEMMA ScansCount ==
  ASSUME NEW e, Len(e) \in Nat, DOMAIN e = 1 .. Len(e), NEW N, NEW held \in [Ranks -> Leftover],
         NEW r \in Ranks
  PROVE  SendDispls(e, N, held)[r] \in Int /\ SendCounts(e, N, held)[r] \in Int
PROOF
<1>1. ASSUME NEW g, At(e, g) # {} PROVE Min(At(e, g)) \in Int
  <2>1. \A i \in At(e, g) : i \in Nat
    BY DEF At
  <2>2. \E x \in At(e, g) : \A y \in At(e, g) : x =< y
    BY <1>1, <2>1, Least
  <2>3. Min(At(e, g)) \in At(e, g)
    BY <2>2, Zenon DEF Min
  <2> QED
    BY <2>1, <2>3
<1>2. held[r] \in Int
  BY FilesAssumption
<1>3. ScanOffset(e, FirstRow(r, N), held[r]) \in Int
  <2>1. ScanOffset(e, FirstRow(r, N), held[r]) =
          IF At(e, FirstRow(r, N)) = {} THEN held[r] ELSE Min(At(e, FirstRow(r, N))) - 1
    BY Zenon DEF ScanOffset, At
  <2> QED
    BY <1>1, <1>2, <2>1
<1>4. SendDispls(e, N, held)[r] \in Int
  BY <1>3, Zenon DEF SendDispls
<1> DEFINE offset == SendDispls(e, N, held)[r]
           stop == LastRow(r, N) + 1
<1>5. SendCounts(e, N, held)[r] =
        IF At(e, stop) = {} THEN Len(e) - offset ELSE Min(At(e, stop)) - 1 - offset
  BY Zenon DEF SendCounts, ScanCount, At
<1> HIDE DEF offset, stop
<1>6. SendCounts(e, N, held)[r] \in Int
  <2>1. offset \in Int
    BY <1>4 DEF offset
  <2> QED
    BY <1>1, <1>5, <2>1
<1> QED
  BY <1>4, <1>6

\* What a rank has received is within the file.
LEMMA PartWithinFile ==
  ASSUME Inv, NEW r \in Ranks, pc[r] \in Received
  PROVE  mm[r].nr \in 1 .. file.nr /\ mm[r].startRow \in 0 .. file.nr - 1
PROOF
<1> DEFINE k == senddispls[r]
           c == count[r]
<1>1. Typed /\ MasterInv /\ CountInv /\ PartInv
  BY DEF Inv
<1>2. file \in Files /\ file.nr \in Nat
  BY <1>1, FilesAssumption DEF Typed
<1>3. Sorted(entries, file) /\ pc[0] \notin {"read", "bcast"} /\ c = sendcounts[r]
  BY <1>1 DEF MasterInv, CountInv, Received
<1>4. PICK held \in [Ranks -> Leftover] :
        /\ senddispls = SendDispls(entries, file.nr, held)
        /\ sendcounts = SendCounts(entries, file.nr, held)
  BY <1>1, <1>3 DEF MasterInv
<1>5. k \in Int /\ c \in Int
  <2>1. Len(entries) \in Nat /\ DOMAIN entries = 1 .. Len(entries)
    BY <1>3 DEF Sorted
  <2> QED
    BY SMTT(20), <1>3, <1>4, <2>1, ScansCount
<1>6. HoldsPart(r)
  BY <1>1 DEF PartInv
<1>7. k \in Nat /\ c \in Nat /\ c > 0 /\ k + c <= Len(entries) /\ Len(entries) \in Nat
  BY <1>3, <1>5, <1>6 DEF HoldsPart, ValidPart, Sorted
<1>8. \A j \in 1 .. c : PartOf(r)[j] = entries[k + j]
  BY <1>2, <1>3, <1>7, PartOfArray DEF PartOf
<1>9. PartOf(r)[1] = entries[k + 1] /\ PartOf(r)[c] = entries[k + c]
  BY <1>7, <1>8
<1>10. k + 1 \in 1 .. Len(entries) /\ k + c \in 1 .. Len(entries) /\ k + 1 <= k + c
  BY <1>7
<1>11. entries[k + 1][1] \in 0 .. file.nr - 1 /\ entries[k + c][1] \in 0 .. file.nr - 1
  BY <1>3, <1>10 DEF Sorted
<1>12. entries[k + 1][1] <= entries[k + c][1]
  <2>1. CASE k + 1 = k + c
    BY <1>2, <1>11, <2>1
  <2>2. CASE k + 1 < k + c
    BY <1>3, <1>10, <2>2 DEF Sorted
  <2> QED BY <1>5, <1>10, <2>1, <2>2
<1>13. mm[r].startRow = entries[k + 1][1] /\ mm[r].nr = entries[k + c][1] - entries[k + 1][1] + 1
  BY <1>6, <1>9 DEF HoldsPart
<1> HIDE DEF k, c
<1> QED
  BY <1>2, <1>11, <1>12, <1>13

\* The fields of a matrix that is as it should be.
LEMMA FieldsOfMatrix ==
  ASSUME NEW r \in Ranks, HoldsMatrix(r)
  PROVE  /\ m[r].startRow = mm[r].startRow /\ m[r].nr = mm[r].nr
         /\ m[r].rows = RowsOf(mm[r].entries, mm[r].startRow, mm[r].nr)
PROOF
<1> DEFINE rows == RowsOf(mm[r].entries, mm[r].startRow, mm[r].nr)
           nc == m[r].nc
           M == [startRow |-> mm[r].startRow, nr |-> mm[r].nr, nc |-> nc, rows |-> rows]
<1>1. m[r] = M
  BY DEF HoldsMatrix
<1> HIDE DEF rows, nc
<1>2. M.startRow = mm[r].startRow /\ M.nr = mm[r].nr /\ M.rows = rows
  OBVIOUS
<1> HIDE DEF M
<1>3. m[r].startRow = mm[r].startRow /\ m[r].nr = mm[r].nr /\ m[r].rows = rows
  BY <1>1, <1>2
<1> QED
  BY <1>3 DEF rows

\* The type invariant: the rows a rank believes to own are rows of the file, and its
\* matrix has as many.
THEOREM TypeCorrect == Spec => []TypeOK
PROOF
<1>1. Inv => TypeOK
  <2> SUFFICES ASSUME Inv PROVE TypeOK
    OBVIOUS
  <2>1. Typed /\ PartInv /\ MatrixInv
    BY DEF Inv
  <2>2. ASSUME NEW r \in Ranks, mm[r] # None
        PROVE  mm[r].nr \in 1 .. file.nr /\ mm[r].startRow \in 0 .. file.nr - 1
    BY <2>1, <2>2, PartWithinFile DEF PartInv
  <2>3. ASSUME NEW r \in Ranks, m[r] # None PROVE DOMAIN m[r].rows = 0 .. mm[r].nr - 1
    <3>1. HoldsMatrix(r)
      BY <2>1, <2>3 DEF MatrixInv
    <3>2. m[r].rows = RowsOf(mm[r].entries, mm[r].startRow, mm[r].nr)
      BY <3>1, FieldsOfMatrix
    <3> QED
      BY <3>2 DEF RowsOf
  <2> QED
    BY <2>1, <2>2, <2>3 DEF Typed, TypeOK
<1> QED
  BY Invariance, <1>1, PTL

\* For a file with an entry in each rank's first and last row, what a rank has received
\* are the entries of exactly its rows.
LEMMA PartOfFilled ==
  ASSUME Inv, BoundaryRowsFilled, NEW r \in Ranks, pc[r] \in Received
  PROVE  /\ mm[r].startRow = FirstRow(r, file.nr)
         /\ mm[r].nr = LastRow(r, file.nr) - FirstRow(r, file.nr) + 1
         /\ \E k, l : /\ Cutoff(entries, FirstRow(r, file.nr), k)
                      /\ Cutoff(entries, LastRow(r, file.nr) + 1, l)
                      /\ k <= l
                      /\ mm[r].entries = SubSeq(entries, k + 1, k + (l - k))
PROOF
<1> DEFINE N == file.nr
           first == FirstRow(r, N)
           last == LastRow(r, N)
<1>1. Typed /\ MasterInv /\ CountInv /\ PartInv
  BY DEF Inv
<1>2. file \in Files /\ Filled(file)
  BY <1>1 DEF Typed, Filled, BoundaryRowsFilled
<1>3. Sorted(entries, file) /\ pc[0] \notin {"read", "bcast"} /\ count[r] = sendcounts[r]
  BY <1>1 DEF MasterInv, CountInv, Received
<1>4. PICK held \in [Ranks -> Leftover] :
        /\ senddispls = SendDispls(entries, file.nr, held)
        /\ sendcounts = SendCounts(entries, file.nr, held)
  BY <1>1, <1>3 DEF MasterInv
<1>8. PICK k \in Nat, l \in Nat :
        /\ SendDispls(entries, file.nr, held)[r] = k
        /\ SendCounts(entries, file.nr, held)[r] = l - k
        /\ k < l
        /\ entries[k + 1][1] = FirstRow(r, file.nr)
        /\ entries[l][1] = LastRow(r, file.nr)
        /\ Cutoff(entries, FirstRow(r, file.nr), k)
        /\ Cutoff(entries, LastRow(r, file.nr) + 1, l)
  BY <1>2, <1>3, ScanFinds
<1>9. senddispls[r] = k /\ count[r] = l - k
  BY <1>3, <1>4, <1>8
<1>10. /\ k \in Nat /\ l \in Nat /\ l <= Len(entries) /\ k <= l
       /\ l - k \in Nat /\ k + (l - k) = l /\ 1 \in 1 .. l - k /\ l - k \in 1 .. l - k
  <2>1. l <= Len(entries)
    BY <1>8 DEF Cutoff
  <2>2. k < l
    BY <1>8
  <2> QED
    BY <2>1, <2>2
<1>11. PartOf(r) = SubSeq(entries, k + 1, k + (l - k))
  BY <1>9 DEF PartOf
<1>12. \A j \in 1 .. l - k : PartOf(r)[j] = entries[k + j]
  BY <1>2, <1>3, <1>10, <1>11, PartOfArray
<1>13. PartOf(r)[1][1] = first /\ PartOf(r)[l - k][1] = last
  BY <1>8, <1>10, <1>12
<1>14. HoldsPart(r)
  BY <1>1 DEF PartInv
<1>15. /\ mm[r].startRow = first /\ mm[r].nr = last - first + 1
       /\ mm[r].entries = PartOf(r)
  BY <1>9, <1>13, <1>14 DEF HoldsPart
<1> QED
  BY <1>8, <1>10, <1>11, <1>15

\* For such a file the ranks' rows follow each other without a gap from the first row
\* to the last: the sum of the counts before a rank is where its first entry is.
THEOREM FilledConsecutive == Spec => []FilledIsConsecutive
PROOF
<1>1. Inv => FilledIsConsecutive
  <2> SUFFICES ASSUME Inv, BoundaryRowsFilled, AllDone
               PROVE  /\ m[0].startRow = 0
                      /\ \A r \in Ranks :
                           m[r].startRow + m[r].nr =
                             IF r + 1 \in Ranks THEN m[r + 1].startRow ELSE file.nr
    BY DEF FilledIsConsecutive, ConsecutiveRows
  <2> DEFINE N == file.nr
  <2>1. file \in Files /\ N \in Nat /\ Filled(file)
    BY FilesAssumption DEF Inv, Typed, Filled, BoundaryRowsFilled
  <2>2. \A r \in Ranks : pc[r] = "done"
    BY DEF AllDone
  <2>3. ASSUME NEW r \in Ranks
        PROVE  /\ m[r].startRow = FirstRow(r, N)
               /\ m[r].nr = LastRow(r, N) - FirstRow(r, N) + 1
    <3>1. /\ mm[r].startRow = FirstRow(r, N)
          /\ mm[r].nr = LastRow(r, N) - FirstRow(r, N) + 1
      BY <2>2, PartOfFilled DEF Received
    <3>2. HoldsMatrix(r)
      BY <2>2 DEF Inv, MatrixInv, Converted
    <3>3. m[r].startRow = mm[r].startRow /\ m[r].nr = mm[r].nr
      BY <3>2, FieldsOfMatrix
    <3> QED BY <3>1, <3>3
  <2>4. m[0].startRow = 0
    BY <2>1, <2>3, MasterIsRank, RowsShared
  <2>5. ASSUME NEW r \in Ranks
        PROVE  m[r].startRow + m[r].nr =
                 IF r + 1 \in Ranks THEN m[r + 1].startRow ELSE N
    <3>1. /\ FirstRow(r, N) \in Nat /\ LastRow(r, N) \in Nat
          /\ LastRow(r, N) + 1 = FirstRow(r + 1, N)
      BY <2>1, FilledHasRows
    <3>2. m[r].startRow + m[r].nr = FirstRow(r + 1, N)
      BY <2>3, <3>1
    <3>3. CASE r + 1 \in Ranks
      BY <2>3, <3>2, <3>3
    <3>4. CASE r + 1 \notin Ranks
      <4>1. r + 1 = Size
        BY <3>4, FilesAssumption DEF Ranks
      <4>2. FirstRow(r + 1, N) = N
        BY <2>1, <4>1, RowsShared
      <4> QED BY <3>2, <3>4, <4>2
    <3> QED BY <3>3, <3>4
  <2> QED BY <2>4, <2>5
<1> QED
  BY Invariance, <1>1, PTL

\* For such a file the rows of each rank's matrix are the rows of the file, whatever
\* the order the sort left the columns in.
THEOREM RowsAsInFile == Spec => []RowsOfTheFile
PROOF
<1>1. Inv => RowsOfTheFile
  <2> SUFFICES ASSUME Inv, BoundaryRowsFilled, NEW r \in Ranks, m[r] # None,
                      NEW i \in 0 .. m[r].nr - 1
               PROVE  /\ ToSet(m[r].rows[i]) = Columns(file, m[r].startRow + i)
                      /\ IsInjective(m[r].rows[i])
    BY Zenon DEF RowsOfTheFile, Columns
  <2> DEFINE first == FirstRow(r, file.nr)
             last == LastRow(r, file.nr)
  <2>1. pc[r] \in Received /\ HoldsMatrix(r)
    BY DEF Inv, MatrixInv, Converted, Received
  <2>2. /\ m[r].startRow = mm[r].startRow /\ m[r].nr = mm[r].nr
        /\ m[r].rows = RowsOf(mm[r].entries, mm[r].startRow, mm[r].nr)
    BY <2>1, FieldsOfMatrix
  <2>3. /\ mm[r].startRow = first /\ mm[r].nr = last - first + 1
        /\ \E k, l : /\ Cutoff(entries, first, k) /\ Cutoff(entries, last + 1, l) /\ k <= l
                     /\ mm[r].entries = SubSeq(entries, k + 1, k + (l - k))
    BY <2>1, PartOfFilled
  <2>4. PICK k, l : /\ Cutoff(entries, first, k) /\ Cutoff(entries, last + 1, l) /\ k <= l
                    /\ mm[r].entries = SubSeq(entries, k + 1, k + (l - k))
    BY <2>3
  <2>5. file \in Files /\ Filled(file) /\ Sorted(entries, file)
    <3>1. pc[0] # "read"
      BY <2>1 DEF Inv, MasterInv, Received
    <3> QED BY <3>1 DEF Inv, Typed, MasterInv, Filled, BoundaryRowsFilled
  <2>6. first \in Nat /\ last \in Nat
    BY <2>5, FilledHasRows
  <2> HIDE DEF first, last
  <2>7. i \in 0 .. last - first
    BY <2>2, <2>3, <2>6
  <2>8. LET row == RowsOf(SubSeq(entries, k + 1, k + (l - k)), first, last - first + 1)[i]
        IN  ToSet(row) = Columns(file, first + i) /\ IsInjective(row)
    BY <2>4, <2>5, <2>6, <2>7, RowsOfPart
  <2> QED
    BY <2>2, <2>3, <2>4, <2>8
<1> QED
  BY Invariance, <1>1, PTL

=============================================================================
