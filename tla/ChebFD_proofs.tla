----------------------------- MODULE ChebFD_proofs -----------------------------
(***************************************************************************)
(* What holds of every run of Chebyshev filter diagonalisation, for every  *)
(* parameter file, both builds, and whatever the numerics decide.          *)
(*                                                                         *)
(* First the search block: what its steps leave in its cells, for any      *)
(* number of rows and columns and any set of columns that survives: the    *)
(* filter, the orthogonalisation and the repacking of the host, and a pass *)
(* of Cholesky-QR with the eigenvalues it sorts.  Then the parameters:     *)
(* which bounds a run gets to its loop with.  Then the timer, as an object *)
(* of its own: what its operations do to the count and the sums of a       *)
(* section.  The invariant says how many intervals each section has seen   *)
(* at each step of the loop.                                               *)
(***************************************************************************)
EXTENDS ChebFD, Localization_proofs

(***************************************************************************)
(* Cells.                                                                  *)
(***************************************************************************)

\* An array for w columns, with no sum of things that do not belong together.
Clean(e, w) ==
  /\ DOMAIN e = 0 .. VecRows * w - 1
  /\ \A i \in DOMAIN e : e[i] # Junk

\* What row r of a column holds: an entry of the vector v, or the zero of the padding.
Filling(r, v, mark) == IF r < NR THEN Cell(r, v, mark) ELSE Zero

\* The first n columns at stride n are the vectors v, with the given history.
IsBlock(e, n, v, mark) ==
  \A r \in 0 .. VecRows - 1 : \A c \in 0 .. n - 1 : At(e, n, r, c) = Filling(r, v[c], mark[c])

\* The block of all columns, as randomInitBlock and the filter leave it.
Fresh(n) == [v |-> [c \in 0 .. n - 1 |-> c], mark |-> [c \in 0 .. n - 1 |-> "raw"]]

\* A row and a column are found again in the place of their cell.
LEMMA CellOf ==
  ASSUME NEW n \in Nat \ {0}, NEW r \in Nat, NEW c \in 0 .. n - 1
  PROVE  (r * n + c) \div n = r /\ (r * n + c) % n = c /\ r * n + c \in Nat
PROOF
<1> DEFINE i == r * n + c
           q == i \div n
           d == i % n
<1>1. r * n \in Nat /\ i \in Nat
  OBVIOUS
<1>2. q \in Int /\ d \in 0 .. n - 1 /\ i = n * q + d
  <2> HIDE DEF i
  <2> QED
    BY <1>1
<1> HIDE DEF q, d
<1>3. n * (q - r) = c - d
  <2>1. n * (q - r) = n * q - n * r /\ n * r = r * n
    BY <1>2
  <2> QED
    BY <1>1, <1>2, <2>1
<1>4. ~(q - r >= 1)
  <2> SUFFICES ASSUME q - r >= 1 PROVE FALSE
    OBVIOUS
  <2>1. n * (q - r) >= n
    BY <1>2
  <2> QED
    BY <1>2, <1>3, <2>1
<1>5. ~(q - r <= -1)
  <2> SUFFICES ASSUME q - r <= -1 PROVE FALSE
    OBVIOUS
  <2>1. n * (q - r) <= -n
    BY <1>2
  <2> QED
    BY <1>2, <1>3, <2>1
<1>6. q = r
  BY <1>2, <1>4, <1>5
<1>7. d = c
  BY <1>1, <1>2, <1>3, <1>6
<1> QED
  BY <1>1, <1>6, <1>7 DEF q, d

\* Every place is that of one row and one column.
LEMMA PlaceOf ==
  ASSUME NEW n \in Nat \ {0}, NEW i \in Nat
  PROVE  i \div n \in Nat /\ i % n \in 0 .. n - 1 /\ i = ((i \div n) * n) + (i % n)
PROOF
<1> DEFINE q == i \div n
           d == i % n
<1>1. q \in Int /\ d \in 0 .. n - 1 /\ i = n * q + d
  OBVIOUS
<1> HIDE DEF q, d
<1>2. ~(q <= -1)
  <2> SUFFICES ASSUME q <= -1 PROVE FALSE
    OBVIOUS
  <2>1. n * q <= -n
    BY <1>1
  <2> QED
    BY <1>1, <2>1
<1>3. n * q = q * n
  BY <1>1
<1> QED
  BY <1>1, <1>2, <1>3 DEF q, d

\* A place is before row l if and only if its row is.
LEMMA RowBefore ==
  ASSUME NEW n \in Nat \ {0}, NEW l \in Nat, NEW r \in Nat, NEW c \in 0 .. n - 1
  PROVE  r * n + c < l * n <=> r < l
PROOF
<1>0. r * n \in Nat /\ l * n \in Nat
  OBVIOUS
<1>1. ASSUME r < l PROVE r * n + c < l * n
  <2>1. (l - r) * n >= n
    BY <1>1
  <2>2. (l - r) * n = l * n - r * n
    OBVIOUS
  <2> QED
    BY <1>0, <2>1, <2>2
<1>2. ASSUME ~(r < l) PROVE ~(r * n + c < l * n)
  <2>1. (r - l) * n >= 0
    BY <1>2
  <2>2. (r - l) * n = r * n - l * n
    OBVIOUS
  <2> QED
    BY <1>0, <2>1, <2>2
<1> QED
  BY <1>1, <1>2

\* A narrower block lies within the array.
LEMMA Fits ==
  ASSUME NEW w \in Nat, NEW n \in 0 .. w, NEW l \in 0 .. VecRows
  PROVE  /\ l * n \in Nat /\ VecRows * w \in Nat
         /\ l * n <= VecRows * n /\ VecRows * n <= VecRows * w /\ l * n <= VecRows * w
PROOF
<1>0. VecRows \in Nat /\ l \in Nat /\ n \in Nat
  BY RowsAssumption
<1>1. l * n \in Nat /\ VecRows * w \in Nat /\ VecRows * n \in Nat
  BY <1>0
<1>2. (VecRows - l) * n >= 0 /\ (VecRows - l) * n = VecRows * n - l * n
  BY <1>0
<1>3. VecRows * (w - n) >= 0 /\ VecRows * (w - n) = VecRows * w - VecRows * n
  BY <1>0
<1> QED
  BY <1>1, <1>2, <1>3

\* The cell of a row and a column is one of the array's.
LEMMA CellInside ==
  ASSUME NEW w \in Nat, NEW n \in 1 .. w, NEW r \in 0 .. VecRows - 1, NEW c \in 0 .. n - 1
  PROVE  /\ r * n + c \in 0 .. VecRows * w - 1
         /\ r * n + c < VecRows * n
         /\ r * n + c < NR * n <=> r < NR
         /\ (r * n + c) \div n = r /\ (r * n + c) % n = c
PROOF
<1>1. VecRows \in Nat /\ NR \in Nat /\ r \in Nat /\ n \in Nat \ {0}
  BY RowsAssumption
<1>2. r * n + c < VecRows * n
  BY <1>1, RowBefore
<1>3. r * n + c < NR * n <=> r < NR
  BY <1>1, RowBefore
<1>4. (r * n + c) \div n = r /\ (r * n + c) % n = c /\ r * n + c \in Nat
  BY <1>1, CellOf
<1>5. VecRows * n <= VecRows * w /\ VecRows * w \in Nat /\ VecRows * n \in Nat
  BY <1>1, Fits
<1> QED
  BY <1>2, <1>3, <1>4, <1>5

\* Kinds of cells.
LEMMA Kinds ==
  \A r, v, mark : /\ Cell(r, v, mark) # Junk /\ Cell(r, v, mark) # Zero /\ Zero # Junk
                  /\ Filling(r, v, mark) # Junk
                  /\ Cell(r, v, mark).kind = "entry" /\ Cell(r, v, mark).row = r
                  /\ Cell(r, v, mark).vec = v /\ Cell(r, v, mark).mark = mark
PROOF
<1>1. \A r, v, mark : /\ Cell(r, v, mark).kind = "entry" /\ Cell(r, v, mark).row = r
                      /\ Cell(r, v, mark).vec = v /\ Cell(r, v, mark).mark = mark
  BY DEF Cell
<1>2. Zero.kind = "zero" /\ Junk.kind = "junk"
  BY DEF Zero, Junk
<1>3. \A r, v, mark : Cell(r, v, mark) # Junk /\ Cell(r, v, mark) # Zero
  BY <1>1, <1>2
<1>4. Zero # Junk
  BY <1>2
<1> QED
  BY <1>1, <1>3, <1>4 DEF Filling

(***************************************************************************)
(* The first block, and the filter.                                        *)
(***************************************************************************)

\* The random block is one.
LEMMA RandomIsBlock ==
  ASSUME NEW w \in Nat \ {0}
  PROVE  Clean(RandomBlock(w), w) /\ IsBlock(RandomBlock(w), w, Fresh(w).v, Fresh(w).mark)
PROOF
<1> DEFINE e == RandomBlock(w)
<1>0. w \in Nat /\ w \in 1 .. w
  OBVIOUS
<1>1. DOMAIN e = 0 .. VecRows * w - 1
  BY DEF RandomBlock
<1>2. \A i \in 0 .. VecRows * w - 1 :
        e[i] = Filling(i \div w, i % w, "raw")
  BY DEF RandomBlock, Filling
<1> HIDE DEF e
<1>3. Clean(e, w)
  BY <1>1, <1>2, Kinds DEF Clean
<1>4. ASSUME NEW r \in 0 .. VecRows - 1, NEW c \in 0 .. w - 1
      PROVE  At(e, w, r, c) = Filling(r, Fresh(w).v[c], Fresh(w).mark[c])
  <2>1. /\ r * w + c \in 0 .. VecRows * w - 1
        /\ (r * w + c) \div w = r /\ (r * w + c) % w = c
    BY <1>0, CellInside, ZenonT(40)
  <2>2. e[r * w + c] = Filling(r, c, "raw")
    BY <1>2, <2>1
  <2>3. Fresh(w).v[c] = c /\ Fresh(w).mark[c] = "raw"
    BY DEF Fresh
  <2> QED
    BY <2>2, <2>3 DEF At
<1> QED
  BY <1>3, <1>4 DEF IsBlock, e

\* A column of a block is one vector.
LEMMA BlockColumn ==
  ASSUME NEW e, NEW n \in Nat \ {0}, NEW v, NEW mark, IsBlock(e, n, v, mark), NEW c \in 0 .. n - 1
  PROVE  IsVector(e, n, c)
PROOF
<1> SUFFICES ASSUME NEW r \in 0 .. NR - 1
             PROVE  LET x == At(e, n, r, c)
                    IN /\ x.kind = "entry" /\ x.row = r
                       /\ x.vec = At(e, n, 0, c).vec /\ x.mark = At(e, n, 0, c).mark
  BY DEF IsVector
<1>1. r \in 0 .. VecRows - 1 /\ 0 \in 0 .. VecRows - 1 /\ r < NR /\ 0 < NR
  BY RowsAssumption
<1>2. At(e, n, r, c) = Cell(r, v[c], mark[c]) /\ At(e, n, 0, c) = Cell(0, v[c], mark[c])
  BY <1>1 DEF IsBlock, Filling
<1> QED
  BY <1>2, Kinds

\* The filter takes a block to the block of all its columns, wherever the array is longer.
LEMMA FilteredIsBlock ==
  ASSUME NEW w \in Nat, NEW n \in 1 .. w, NEW e, Clean(e, w), NEW v, NEW mark, IsBlock(e, n, v, mark)
  PROVE  /\ Clean(Filtered(e, n), w)
         /\ IsBlock(Filtered(e, n), n, Fresh(n).v, Fresh(n).mark)
PROOF
<1> DEFINE f == Filtered(e, n)
<1>0. n \in Nat \ {0} /\ VecRows \in Nat /\ NR \in Nat /\ NR <= VecRows
  BY RowsAssumption
<1>1. DOMAIN f = DOMAIN e /\ DOMAIN e = 0 .. VecRows * w - 1
  BY DEF Filtered, Clean
<1>2. \A c \in 0 .. n - 1 : IsVector(e, n, c)
  BY <1>0, BlockColumn
<1>3. ASSUME NEW i \in DOMAIN e
      PROVE  f[i] = IF i \div n >= VecRows THEN e[i]
                    ELSE Filling(i \div n, i % n, "raw")
  <2>1. i \in Nat
    BY <1>1
  <2>2. i \div n \in Nat /\ i % n \in 0 .. n - 1 /\ i = ((i \div n) * n) + (i % n)
    BY <1>0, <2>1, PlaceOf
  <2>3. CASE i \div n >= VecRows
    BY <2>3 DEF Filtered
  <2>4. CASE i \div n < NR
    BY <1>0, <1>2, <2>2, <2>4 DEF Filtered, Filling
  <2>5. CASE i \div n >= NR /\ i \div n < VecRows
    <3>1. e[i] = At(e, n, i \div n, i % n)
      BY <2>2 DEF At
    <3>2. At(e, n, i \div n, i % n) = Zero
      BY <1>0, <2>2, <2>5 DEF IsBlock, Filling
    <3> QED
      BY <1>0, <2>2, <2>5, <3>1, <3>2 DEF Filtered, Filling
  <2> QED
    BY <1>0, <2>2, <2>3, <2>4, <2>5
<1> HIDE DEF f
<1>4. Clean(f, w)
  BY <1>1, <1>3, Kinds DEF Clean
<1>5. ASSUME NEW r \in 0 .. VecRows - 1, NEW c \in 0 .. n - 1
      PROVE  At(f, n, r, c) = Filling(r, Fresh(n).v[c], Fresh(n).mark[c])
  <2>1. /\ r * n + c \in 0 .. VecRows * w - 1
        /\ (r * n + c) \div n = r /\ (r * n + c) % n = c
    BY CellInside
  <2>2. f[r * n + c] = Filling(r, c, "raw")
    BY <1>0, <1>1, <1>3, <2>1
  <2>3. Fresh(n).v[c] = c /\ Fresh(n).mark[c] = "raw"
    BY DEF Fresh
  <2> QED
    BY <2>2, <2>3 DEF At
<1> QED
  BY <1>4, <1>5 DEF IsBlock, f

(***************************************************************************)
(* The loop of orthoMGS over the columns.                                  *)
(***************************************************************************)

\* Counting the columns kept, one column at a time.
LEMMA KeptCounts ==
  ASSUME NEW n \in Nat, NEW S, S \subseteq 0 .. n - 1
  PROVE  /\ IsFiniteSet(S) /\ Cardinality(S) \in 0 .. n
         /\ CountBelow(S, 0) = 0 /\ CountBelow(S, n) = Cardinality(S)
         /\ \A k \in 0 .. n : CountBelow(S, k) \in 0 .. k /\ CountBelow(S, k) <= Cardinality(S)
         /\ \A k \in 0 .. n - 1 : CountBelow(S, k + 1) = CountBelow(S, k) + (IF k \in S THEN 1 ELSE 0)
PROOF
<1> DEFINE below(k) == {l \in S : l < k}
<1>0. \A l \in S : l \in Int /\ 0 <= l /\ l < n
  OBVIOUS
<1>10. \A k, l : l \in below(k) <=> l \in S /\ l < k
  OBVIOUS
<1> HIDE DEF below
<1>1. \A k \in 0 .. n : IsFiniteSet(0 .. k - 1) /\ Cardinality(0 .. k - 1) = k
  BY FS_Interval
<1>2. ASSUME NEW k \in 0 .. n PROVE below(k) \in SUBSET (0 .. k - 1)
  <2>1. ASSUME NEW l \in below(k) PROVE l \in 0 .. k - 1
    <3>1. l \in S /\ l < k
      BY <1>10
    <3> QED
      BY <1>0, <3>1
  <2> QED
    BY <2>1
<1>3. IsFiniteSet(S) /\ Cardinality(S) \in 0 .. n
  <2>1. IsFiniteSet(0 .. n - 1) /\ Cardinality(0 .. n - 1) = n
    BY <1>1
  <2>2. IsFiniteSet(S) /\ Cardinality(S) <= n
    BY <2>1, S \in SUBSET (0 .. n - 1), FS_Subset
  <2> QED
    BY <2>2, FS_CardinalityType
<1>4. \A k \in 0 .. n : IsFiniteSet(below(k)) /\ Cardinality(below(k)) \in 0 .. k
                        /\ Cardinality(below(k)) <= Cardinality(S)
  <2> SUFFICES ASSUME NEW k \in 0 .. n
               PROVE  IsFiniteSet(below(k)) /\ Cardinality(below(k)) \in 0 .. k
                      /\ Cardinality(below(k)) <= Cardinality(S)
    OBVIOUS
  <2>1. below(k) \in SUBSET S
    BY <1>10
  <2>2. below(k) \in SUBSET (0 .. k - 1)
    BY <1>2
  <2>3. IsFiniteSet(below(k)) /\ Cardinality(below(k)) <= k
    BY <1>1, <2>2, FS_Subset
  <2>4. Cardinality(below(k)) <= Cardinality(S)
    BY <1>3, <2>1, FS_Subset
  <2> QED
    BY <2>3, <2>4, FS_CardinalityType
<1>5. below(0) = {} /\ below(n) = S
  BY <1>0, <1>10
<1>6. ASSUME NEW k \in 0 .. n - 1
      PROVE  Cardinality(below(k + 1)) = Cardinality(below(k)) + (IF k \in S THEN 1 ELSE 0)
  <2>1. k \in 0 .. n /\ IsFiniteSet(below(k))
    BY <1>4
  <2>2. CASE k \in S
    <3>1. ASSUME NEW l PROVE l \in below(k + 1) <=> l \in below(k) \cup {k}
      <4>1. l \in S => (l < k + 1 <=> l < k \/ l = k)
        BY <1>0
      <4> QED
        BY <1>10, <2>2, <4>1
    <3>2. below(k + 1) = below(k) \cup {k} /\ k \notin below(k)
      BY <1>10, <3>1
    <3> QED
      BY <2>1, <2>2, <3>2, FS_AddElement
  <2>3. CASE k \notin S
    <3>1. ASSUME NEW l PROVE l \in below(k + 1) <=> l \in below(k)
      <4>1. l \in S => (l < k + 1 <=> l < k \/ l = k)
        BY <1>0
      <4> QED
        BY <1>10, <2>3, <4>1
    <3>3. below(k + 1) = below(k)
      BY <3>1
    <3>2. Cardinality(below(k)) \in Nat
      BY <2>1, FS_CardinalityType
    <3> QED
      BY <2>3, <3>2, <3>3
  <2> QED
    BY <2>2, <2>3
<1> QED
  <2>1. \A k : CountBelow(S, k) = Cardinality(below(k))
    BY DEF CountBelow, below
  <2> QED
    BY <1>3, <1>4, <1>5, <1>6, <2>1, FS_EmptySet

\* The c-th member is the one with c smaller ones.
LEMMA NthCounts ==
  ASSUME NEW S, IsFiniteSet(S), \A k \in S : k \in Int
  PROVE  /\ \A c \in 0 .. Cardinality(S) - 1 :
              Ascending(S)[c + 1] \in S /\ CountBelow(S, Ascending(S)[c + 1]) = c
         /\ \A k \in S : /\ CountBelow(S, k) \in 0 .. Cardinality(S) - 1
                         /\ Ascending(S)[CountBelow(S, k) + 1] = k
PROOF
<1>0. Cardinality(S) \in Nat
  BY FS_CardinalityType
<1>1. ASSUME NEW c \in 0 .. Cardinality(S) - 1
      PROVE  Ascending(S)[c + 1] \in S /\ CountBelow(S, Ascending(S)[c + 1]) = c
  <2>1. \E i \in S : CountBelow(S, i) = c
    BY CountBelowOnto
  <2>2. c + 1 \in 1 .. Cardinality(S) /\ (c + 1) - 1 = c
    BY <1>0
  <2>3. Ascending(S)[c + 1] = CHOOSE i \in S : CountBelow(S, i) = c
    BY <2>2 DEF Ascending
  <2> QED
    BY <2>1, <2>3
<1>2. ASSUME NEW k \in S
      PROVE  /\ CountBelow(S, k) \in 0 .. Cardinality(S) - 1
             /\ Ascending(S)[CountBelow(S, k) + 1] = k
  <2> DEFINE l == Ascending(S)[CountBelow(S, k) + 1]
  <2>1. CountBelow(S, k) \in 0 .. Cardinality(S) - 1
    BY CountBelowInjective
  <2>2. l \in S /\ CountBelow(S, l) = CountBelow(S, k)
    BY <1>1, <2>1
  <2> HIDE DEF l
  <2>3. ~(l < k) /\ ~(k < l)
    BY <2>1, <2>2, CountBelowInjective
  <2>4. l = k
    BY <2>2, <2>3
  <2> QED
    BY <2>1, <2>4 DEF l
<1> QED
  BY <1>1, <1>2

\* The states of the loop up to column l.
OrthoSteps(e, nc, Kept, l, s) ==
  [k \in 0 .. l |->
     IF k = 0 THEN [cols |-> Columns(e, nc), m |-> 0] ELSE OrthoColumn(s[k - 1], k - 1, Kept)]

\* The loop has states that follow its steps.
LEMMA OrthoRuns ==
  ASSUME NEW e, NEW nc \in Nat, NEW Kept
  PROVE  \E s : s = OrthoSteps(e, nc, Kept, nc, s)
PROOF
<1> DEFINE T == {l \in 0 .. nc : ~ \E s : s = OrthoSteps(e, nc, Kept, l, s)}
<1> SUFFICES ASSUME T # {} PROVE FALSE
  OBVIOUS
<1>1. \A l \in T : l \in Nat
  OBVIOUS
<1>2. PICK x \in T : \A l \in T : x <= l
  <2> HIDE DEF T
  <2> QED
    BY <1>1, Least
<1>3. x \in 0 .. nc /\ ~ \E s : s = OrthoSteps(e, nc, Kept, x, s)
  OBVIOUS
<1>4. CASE x = 0
  <2> DEFINE f == [k \in 0 .. x |-> [cols |-> Columns(e, nc), m |-> 0]]
  <2>1. f = OrthoSteps(e, nc, Kept, x, f)
    BY <1>4 DEF OrthoSteps
  <2> QED
    BY <1>3, <2>1
<1>5. CASE x # 0
  <2>1. x - 1 \in 0 .. nc /\ x - 1 \notin T
    BY <1>1, <1>2, <1>5
  <2>2. PICK s : s = OrthoSteps(e, nc, Kept, x - 1, s)
    BY <2>1
  <2> DEFINE f == [k \in 0 .. x |-> IF k = x THEN OrthoColumn(s[x - 1], x - 1, Kept) ELSE s[k]]
  <2>3. \A k \in 0 .. x - 1 :
          s[k] = IF k = 0 THEN [cols |-> Columns(e, nc), m |-> 0] ELSE OrthoColumn(s[k - 1], k - 1, Kept)
    BY <2>2 DEF OrthoSteps
  <2>4. ASSUME NEW k \in 0 .. x
        PROVE  f[k] = IF k = 0 THEN [cols |-> Columns(e, nc), m |-> 0]
                      ELSE OrthoColumn(f[k - 1], k - 1, Kept)
    <3>1. CASE k = x
      <4>1. f[k] = OrthoColumn(s[x - 1], x - 1, Kept) /\ f[k - 1] = s[x - 1]
        BY <1>3, <1>5, <3>1
      <4> QED
        BY <1>5, <3>1, <4>1
    <3>2. CASE k # x
      <4>1. k \in 0 .. x - 1 /\ f[k] = s[k]
        BY <1>3, <3>2
      <4>2. k # 0 => f[k - 1] = s[k - 1]
        BY <1>3, <3>2
      <4> QED
        BY <2>3, <4>1, <4>2
    <3> QED
      BY <3>1, <3>2
  <2>5. f = [k \in 0 .. x |-> f[k]]
    OBVIOUS
  <2> HIDE DEF f
  <2>6. f = OrthoSteps(e, nc, Kept, x, f)
    BY <2>4, <2>5 DEF OrthoSteps
  <2> QED
    BY <1>3, <2>6
<1> QED
  BY <1>4, <1>5

\* Column c of the basis: the c-th column kept, orthogonal to those kept before it.
Basis(u, Kept, c) ==
  [vec |-> u[Ascending(Kept)[c + 1]],
   mark |-> [orth |-> {u[l] : l \in {i \in Kept : CountBelow(Kept, i) < c}}, unit |-> TRUE]]

\* What the loop has done when it comes to column k: the basis so far is in front, and the
\* columns from k on are as they were.
Compacted(s, n, u, Kept, k) ==
  /\ s.m = CountBelow(Kept, k)
  /\ DOMAIN s.cols = 0 .. n - 1
  /\ \A c \in 0 .. CountBelow(Kept, k) - 1 : s.cols[c] = Basis(u, Kept, c)
  /\ \A c \in k .. n - 1 : s.cols[c].vec = u[c]

\* One column keeps this.
LEMMA OrthoColumnCompacts ==
  ASSUME NEW n \in Nat, NEW u, NEW Kept, Kept \subseteq 0 .. n - 1, NEW k \in 0 .. n - 1,
         NEW s, Compacted(s, n, u, Kept, k)
  PROVE  Compacted(OrthoColumn(s, k, Kept), n, u, Kept, k + 1)
PROOF
<1> DEFINE rk == CountBelow(Kept, k)
           basis == {s.cols[j].vec : j \in 0 .. s.m - 1}
           unit == [vec |-> s.cols[k].vec, mark |-> [orth |-> basis, unit |-> TRUE]]
           t == OrthoColumn(s, k, Kept)
<1>1. /\ rk \in 0 .. k /\ rk <= Cardinality(Kept) /\ Cardinality(Kept) \in 0 .. n
      /\ CountBelow(Kept, k + 1) = rk + (IF k \in Kept THEN 1 ELSE 0)
      /\ CountBelow(Kept, k + 1) <= Cardinality(Kept)
      /\ IsFiniteSet(Kept)
  <2>1. k \in 0 .. n /\ k + 1 \in 0 .. n
    OBVIOUS
  <2>2. /\ rk \in 0 .. k /\ rk <= Cardinality(Kept)
        /\ CountBelow(Kept, k + 1) <= Cardinality(Kept)
    BY <2>1, KeptCounts, ZenonT(40)
  <2>3. Cardinality(Kept) \in 0 .. n /\ IsFiniteSet(Kept)
    BY KeptCounts
  <2>4. CountBelow(Kept, k + 1) = CountBelow(Kept, k) + (IF k \in Kept THEN 1 ELSE 0)
    <3>1. \A i \in 0 .. n - 1 : CountBelow(Kept, i + 1) = CountBelow(Kept, i) + (IF i \in Kept THEN 1 ELSE 0)
      BY KeptCounts
    <3> QED
      BY <3>1
  <2> QED
    BY <2>2, <2>3, <2>4
<1>2. \A l \in Kept : l \in Int
  OBVIOUS
<1>3. s.m = rk /\ DOMAIN s.cols = 0 .. n - 1
  BY DEF Compacted
<1>6. ASSUME NEW j \in 0 .. rk - 1 PROVE s.cols[j].vec = u[Ascending(Kept)[j + 1]]
  <2>1. s.cols[j] = Basis(u, Kept, j)
    BY DEF Compacted
  <2> HIDE DEF rk, basis, unit, t
  <2> QED
    BY <2>1 DEF Basis
<1>4. CASE k \notin Kept
  <2>1. t = [s EXCEPT !.cols[k].mark = [orth |-> basis, unit |-> FALSE]]
    BY <1>4 DEF OrthoColumn
  <2>2. t.m = rk /\ DOMAIN t.cols = 0 .. n - 1 /\ \A c \in 0 .. n - 1 : c # k => t.cols[c] = s.cols[c]
    BY <1>3, <2>1 DEF Compacted
  <2> HIDE DEF rk, t
  <2>3. \A c \in 0 .. rk - 1 : t.cols[c] = Basis(u, Kept, c)
    BY <1>1, <2>2, SMTT(40) DEF Compacted, rk
  <2>4. \A c \in k + 1 .. n - 1 : t.cols[c].vec = u[c]
    BY <1>1, <2>2 DEF Compacted
  <2>5. CountBelow(Kept, k + 1) = rk
    BY <1>1, <1>4
  <2> QED
    BY <2>2, <2>3, <2>4, <2>5 DEF Compacted, t
<1>5. CASE k \in Kept
  <2>1. t = [cols |-> [s.cols EXCEPT ![k] = unit, ![s.m] = unit], m |-> s.m + 1]
    BY <1>5 DEF OrthoColumn
  <2>2. /\ t.m = rk + 1 /\ DOMAIN t.cols = 0 .. n - 1
        /\ t.cols[rk] = unit
        /\ \A c \in 0 .. n - 1 : c \notin {k, rk} => t.cols[c] = s.cols[c]
    <3> HIDE DEF rk, t, unit
    <3> QED
      BY <1>1, <1>3, <2>1
  <2> HIDE DEF rk, t
  <2>3. u[Ascending(Kept)[rk + 1]] = s.cols[k].vec
    <3>1. Ascending(Kept)[rk + 1] = k
      BY <1>1, <1>2, <1>5, NthCounts DEF rk
    <3> QED
      BY <3>1 DEF Compacted
  <2>4. basis = {u[l] : l \in {i \in Kept : CountBelow(Kept, i) < rk}}
    <3>1. ASSUME NEW j \in 0 .. rk - 1
          PROVE  \E l \in {i \in Kept : CountBelow(Kept, i) < rk} : s.cols[j].vec = u[l]
      <4>1. s.cols[j].vec = u[Ascending(Kept)[j + 1]]
        BY <1>6
      <4>2. j \in 0 .. Cardinality(Kept) - 1
        BY <1>1
      <4>3. Ascending(Kept)[j + 1] \in Kept /\ CountBelow(Kept, Ascending(Kept)[j + 1]) = j
        BY <1>1, <1>2, <4>2, NthCounts
      <4> DEFINE l == Ascending(Kept)[j + 1]
      <4>4. l \in {i \in Kept : CountBelow(Kept, i) < rk}
        BY <1>1, <4>3
      <4> QED
        BY <4>1, <4>4
    <3>2. ASSUME NEW l \in Kept, CountBelow(Kept, l) < rk
          PROVE  \E j \in 0 .. rk - 1 : s.cols[j].vec = u[l]
      <4> DEFINE j == CountBelow(Kept, l)
      <4>1. j \in 0 .. Cardinality(Kept) - 1 /\ Ascending(Kept)[j + 1] = l
        BY <1>1, <1>2, NthCounts
      <4>2. j \in 0 .. rk - 1
        BY <1>1, <3>2, <4>1
      <4> HIDE DEF j
      <4>3. s.cols[j].vec = u[Ascending(Kept)[j + 1]]
        BY <1>6, <4>2
      <4> QED
        BY <4>1, <4>2, <4>3
    <3>3. basis = {s.cols[j].vec : j \in 0 .. rk - 1}
      BY <1>3
    <3> DEFINE names == {u[l] : l \in {i \in Kept : CountBelow(Kept, i) < rk}}
    <3>4. \A x : x \in names <=> \E l \in Kept : CountBelow(Kept, l) < rk /\ x = u[l]
      OBVIOUS
    <3>5. \A x : x \in basis <=> \E j \in 0 .. rk - 1 : x = s.cols[j].vec
      BY <3>3
    <3> HIDE DEF basis, names
    <3>6. basis = names
      BY <3>1, <3>2, <3>4, <3>5, ZenonT(40)
    <3> QED
      BY <3>6 DEF names
  <2>5. t.cols[rk] = Basis(u, Kept, rk)
    BY <2>2, <2>3, <2>4 DEF Basis
  <2>6. \A c \in 0 .. (rk + 1) - 1 : t.cols[c] = Basis(u, Kept, c)
    <3> SUFFICES ASSUME NEW c \in 0 .. (rk + 1) - 1 PROVE t.cols[c] = Basis(u, Kept, c)
      OBVIOUS
    <3>1. CASE c = rk
      BY <2>5, <3>1
    <3>2. CASE c # rk
      <4>1. c \in 0 .. rk - 1 /\ c \in 0 .. n - 1 /\ c \notin {k, rk}
        BY <1>1, <3>2
      <4> QED
        BY <2>2, <4>1 DEF Compacted, rk
    <3> QED
      BY <3>1, <3>2
  <2>7. \A c \in k + 1 .. n - 1 : t.cols[c].vec = u[c]
    <3> SUFFICES ASSUME NEW c \in k + 1 .. n - 1 PROVE t.cols[c].vec = u[c]
      OBVIOUS
    <3>1. c \in 0 .. n - 1 /\ c \notin {k, rk} /\ c \in k .. n - 1
      BY <1>1
    <3> QED
      BY <2>2, <3>1 DEF Compacted
  <2>8. CountBelow(Kept, k + 1) = rk + 1
    BY <1>1, <1>5
  <2> QED
    BY <2>2, <2>6, <2>7, <2>8 DEF Compacted, t
<1> QED
  BY <1>4, <1>5

\* The first n columns of the block are the vectors u.
Reads(e, n, u) == \A c \in 0 .. n - 1 : IsVector(e, n, c) /\ e[c].vec = u[c]

\* The columns kept are in front, in their order, one for each.
HasKept(s, u, Kept) ==
  /\ s.m = Cardinality(Kept)
  /\ \A c \in 0 .. Cardinality(Kept) - 1 : s.cols[c] = Basis(u, Kept, c)

\* At its end the loop has the basis of the columns kept in front, one for each.
LEMMA OrthoLoopCompacts ==
  ASSUME NEW n \in Nat, NEW e, NEW u, NEW Kept, Kept \subseteq 0 .. n - 1, Reads(e, n, u)
  PROVE  HasKept(OrthoLoop(e, n, Kept), u, Kept)
PROOF
<1> DEFINE s == CHOOSE s : s = OrthoSteps(e, n, Kept, n, s)
<1>1. OrthoLoop(e, n, Kept) = s[n]
  BY DEF OrthoLoop, OrthoSteps
<1>2. s = OrthoSteps(e, n, Kept, n, s)
  BY OrthoRuns, Zenon
<1> HIDE DEF s
<1>3. \A k \in 0 .. n :
        s[k] = IF k = 0 THEN [cols |-> Columns(e, n), m |-> 0] ELSE OrthoColumn(s[k - 1], k - 1, Kept)
  BY <1>2 DEF OrthoSteps
<1> DEFINE T == {k \in 0 .. n : ~Compacted(s[k], n, u, Kept, k)}
<1>4. T = {}
  <2> SUFFICES ASSUME T # {} PROVE FALSE
    OBVIOUS
  <2>1. \A l \in T : l \in Nat
    OBVIOUS
  <2>2. PICK x \in T : \A l \in T : x <= l
    <3> HIDE DEF T
    <3> QED
      BY <2>1, Least
  <2>3. CASE x = 0
    <3>1. s[x] = [cols |-> Columns(e, n), m |-> 0]
      BY <1>3, <2>3
    <3>2. DOMAIN Columns(e, n) = 0 .. n - 1 /\ \A c \in 0 .. n - 1 : Columns(e, n)[c].vec = u[c]
      BY DEF Columns, Reads
    <3>3. CountBelow(Kept, 0) = 0
      BY KeptCounts
    <3> QED
      BY <2>2, <2>3, <3>1, <3>2, <3>3 DEF Compacted
  <2>4. CASE x # 0
    <3>1. x - 1 \in 0 .. n - 1 /\ x - 1 \notin T /\ (x - 1) + 1 = x
      BY <2>1, <2>2, <2>4
    <3>2. Compacted(s[x - 1], n, u, Kept, x - 1)
      BY <3>1
    <3>3. s[x] = OrthoColumn(s[x - 1], x - 1, Kept)
      BY <1>3, <2>4
    <3> HIDE DEF T
    <3>4. Compacted(s[x], n, u, Kept, (x - 1) + 1)
      BY <3>1, <3>2, <3>3, OrthoColumnCompacts
    <3> QED
      BY <2>2, <3>1, <3>4 DEF T
  <2> QED
    BY <2>3, <2>4
<1>5. Compacted(s[n], n, u, Kept, n)
  BY <1>4
<1>6. CountBelow(Kept, n) = Cardinality(Kept)
  BY KeptCounts
<1> QED
  BY <1>1, <1>5, <1>6 DEF Compacted, HasKept

(***************************************************************************)
(* The repacking, in place.                                                *)
(***************************************************************************)

\* Where cell i of stride rk is at stride nc.
Origin(i, nc, rk) == (i \div rk) * nc + (i % rk)

\* The arrays after each of the first l moves.
MoveSteps(e, nc, rk, l, a) ==
  [t \in 0 .. l |-> IF t = 0 THEN e ELSE MoveCell(a[t - 1], t - 1, nc, rk)]

\* The moves can be made one after the other.
LEMMA MovesRun ==
  ASSUME NEW e, NEW nc, NEW rk, NEW count \in Nat
  PROVE  \E a : a = MoveSteps(e, nc, rk, count, a)
PROOF
<1> DEFINE T == {l \in 0 .. count : ~ \E a : a = MoveSteps(e, nc, rk, l, a)}
<1> SUFFICES ASSUME T # {} PROVE FALSE
  OBVIOUS
<1>1. \A l \in T : l \in Nat
  OBVIOUS
<1>2. PICK x \in T : \A l \in T : x <= l
  <2> HIDE DEF T
  <2> QED
    BY <1>1, Least
<1>3. x \in 0 .. count /\ ~ \E a : a = MoveSteps(e, nc, rk, x, a)
  OBVIOUS
<1>4. CASE x = 0
  <2> DEFINE f == [t \in 0 .. x |-> e]
  <2>1. f = MoveSteps(e, nc, rk, x, f)
    BY <1>4 DEF MoveSteps
  <2> QED
    BY <1>3, <2>1
<1>5. CASE x # 0
  <2>1. x - 1 \in 0 .. count /\ x - 1 \notin T
    BY <1>1, <1>2, <1>5
  <2>2. PICK a : a = MoveSteps(e, nc, rk, x - 1, a)
    BY <2>1
  <2> DEFINE f == [t \in 0 .. x |-> IF t = x THEN MoveCell(a[x - 1], x - 1, nc, rk) ELSE a[t]]
  <2>3. \A t \in 0 .. x - 1 : a[t] = IF t = 0 THEN e ELSE MoveCell(a[t - 1], t - 1, nc, rk)
    BY <2>2 DEF MoveSteps
  <2>4. ASSUME NEW t \in 0 .. x
        PROVE  f[t] = IF t = 0 THEN e ELSE MoveCell(f[t - 1], t - 1, nc, rk)
    <3>1. CASE t = x
      <4>1. f[t] = MoveCell(a[x - 1], x - 1, nc, rk) /\ f[t - 1] = a[x - 1]
        BY <1>3, <1>5, <3>1
      <4> QED
        BY <1>5, <3>1, <4>1
    <3>2. CASE t # x
      <4>1. t \in 0 .. x - 1 /\ f[t] = a[t]
        BY <1>3, <3>2
      <4>2. t # 0 => f[t - 1] = a[t - 1]
        BY <1>3, <3>2
      <4> QED
        BY <2>3, <4>1, <4>2
    <3> QED
      BY <3>1, <3>2
  <2>5. f = [t \in 0 .. x |-> f[t]]
    OBVIOUS
  <2> HIDE DEF f
  <2>6. f = MoveSteps(e, nc, rk, x, f)
    BY <2>4, <2>5 DEF MoveSteps
  <2> QED
    BY <1>3, <2>6
<1> QED
  BY <1>4, <1>5

\* A cell comes from its own row, and never from a place before its new one.
LEMMA OriginAhead ==
  ASSUME NEW n \in Nat, NEW rk \in 1 .. n, NEW i \in 0 .. NR * rk - 1
  PROVE  /\ Origin(i, n, rk) \in Nat /\ Origin(i, n, rk) >= i
         /\ Origin(i, n, rk) < NR * n
PROOF
<1> DEFINE r == i \div rk
           c == i % rk
<1>0. rk \in Nat \ {0} /\ n \in Nat \ {0} /\ NR \in Nat /\ NR * rk \in Nat /\ i \in Nat
  BY RowsAssumption
<1>1. r \in Nat /\ c \in 0 .. rk - 1 /\ i = (r * rk) + c
  BY <1>0, PlaceOf
<1>2. Origin(i, n, rk) = r * n + c
  BY DEF Origin
<1> HIDE DEF r, c
<1>3. r * (n - rk) >= 0 /\ r * (n - rk) = r * n - r * rk /\ r * n \in Nat /\ r * rk \in Nat
  BY <1>0, <1>1
<1>4. r * n + c >= i
  BY <1>0, <1>1, <1>3
<1>5. r < NR
  BY <1>0, <1>1, RowBefore
<1>6. c \in 0 .. n - 1
  BY <1>0, <1>1
<1>7. r * n + c < NR * n
  BY <1>0, <1>1, <1>5, <1>6, RowBefore
<1> QED
  BY <1>1, <1>2, <1>3, <1>4, <1>7

\* What a number of moves has done: the cells before it are moved, the others untouched.
MovedTo(a, e, nc, rk, t) ==
  /\ DOMAIN a = DOMAIN e
  /\ \A i \in DOMAIN e : a[i] = IF i < t THEN e[Origin(i, nc, rk)] ELSE e[i]

\* The repacking moves every cell as it was, though it overwrites the array it reads.
LEMMA RepackMoves ==
  ASSUME NEW w \in Nat, NEW n \in 1 .. w, NEW rk \in 0 .. n,
         NEW e, DOMAIN e = 0 .. VecRows * w - 1
  PROVE  MovedTo(Repack(e, n, rk), e, n, rk, NR * rk)
PROOF
<1> DEFINE count == NR * rk
           a == CHOOSE a : a = MoveSteps(e, n, rk, count, a)
<1>0. NR \in 0 .. VecRows /\ VecRows \in Nat /\ NR \in Nat /\ n \in Nat /\ n \in 0 .. w
  BY RowsAssumption
<1>1. count \in Nat /\ NR * n <= VecRows * w /\ VecRows * w \in Nat /\ NR * n \in Nat
  BY <1>0, Fits
<1>2. Repack(e, n, rk) = a[count]
  BY DEF Repack, MoveSteps
<1> HIDE DEF count
<1>3. a = MoveSteps(e, n, rk, count, a)
  BY <1>1, MovesRun, Zenon
<1> HIDE DEF a
<1>4. \A t \in 0 .. count : a[t] = IF t = 0 THEN e ELSE MoveCell(a[t - 1], t - 1, n, rk)
  BY <1>3 DEF MoveSteps
<1> DEFINE T == {t \in 0 .. count : ~MovedTo(a[t], e, n, rk, t)}
<1>5. T = {}
  <2> SUFFICES ASSUME T # {} PROVE FALSE
    OBVIOUS
  <2>1. \A t \in T : t \in Nat
    OBVIOUS
  <2>2. PICK x \in T : \A t \in T : x <= t
    <3> HIDE DEF T
    <3> QED
      BY <2>1, Least
  <2>3. CASE x = 0
    <3>1. a[0] = e
      BY <1>1, <1>4
    <3>2. \A i \in DOMAIN e : ~(i < 0)
      OBVIOUS
    <3>3. MovedTo(a[0], e, n, rk, 0)
      BY <3>1, <3>2 DEF MovedTo
    <3> QED
      BY <2>2, <2>3, <3>3
  <2>4. CASE x # 0
    <3> DEFINE i == x - 1
    <3>1. i \in 0 .. count - 1 /\ i \in 0 .. count /\ i \notin T /\ i + 1 = x
      BY <1>1, <2>1, <2>2, <2>4
    <3>2. MovedTo(a[i], e, n, rk, i)
      BY <3>1
    <3>3. a[x] = MoveCell(a[i], i, n, rk)
      BY <1>4, <2>4
    <3> HIDE DEF T, i
    <3>4. rk \in 1 .. n /\ i \in 0 .. NR * rk - 1
      <4>1. rk # 0
        BY <1>0, <1>1, <3>1 DEF count
      <4> QED
        BY <3>1, <4>1 DEF count
    <3>5. /\ Origin(i, n, rk) \in Nat /\ Origin(i, n, rk) >= i /\ Origin(i, n, rk) < NR * n
      BY <1>0, <3>4, OriginAhead
    <3>6. Origin(i, n, rk) \in DOMAIN e /\ i \in DOMAIN e
      BY <1>1, <3>1, <3>5
    <3>7. a[i][Origin(i, n, rk)] = e[Origin(i, n, rk)]
      BY <3>1, <3>2, <3>5, <3>6 DEF MovedTo
    <3>8. a[x] = [a[i] EXCEPT ![i] = e[Origin(i, n, rk)]]
      BY <3>3, <3>7 DEF MoveCell, Origin
    <3>9. ASSUME NEW j \in DOMAIN e
          PROVE  a[x][j] = IF j < x THEN e[Origin(j, n, rk)] ELSE e[j]
      <4>0. j \in Int /\ i \in Int /\ x = i + 1
        BY <3>1
      <4>1. CASE j = i
        <5>1. a[x][j] = e[Origin(j, n, rk)]
          BY <3>6, <3>8, <4>1, <3>2 DEF MovedTo
        <5>2. j < x
          BY <4>0, <4>1
        <5> QED
          BY <5>1, <5>2
      <4>2. CASE j # i
        <5>1. a[x][j] = a[i][j]
          BY <3>2, <3>8, <4>2 DEF MovedTo
        <5>2. j < x <=> j < i
          BY <4>0, <4>2
        <5>3. a[i][j] = IF j < i THEN e[Origin(j, n, rk)] ELSE e[j]
          BY <3>2 DEF MovedTo
        <5> QED
          BY <5>1, <5>2, <5>3
      <4> QED
        BY <4>1, <4>2
    <3>10. DOMAIN a[x] = DOMAIN e
      BY <3>2, <3>8 DEF MovedTo
    <3>11. MovedTo(a[x], e, n, rk, x)
      BY <3>9, <3>10 DEF MovedTo
    <3> QED
      BY <2>2, <3>11 DEF T
  <2> QED
    BY <2>3, <2>4
<1>6. MovedTo(a[count], e, n, rk, count)
  BY <1>1, <1>5
<1> QED
  BY <1>2, <1>6 DEF count

(***************************************************************************)
(* orthoMGS, and the padding after it.                                     *)
(***************************************************************************)

\* In the rows of the matrix the first n columns are those named.
HasColumns(e, n, v, mark) ==
  \A r \in 0 .. NR - 1 : \A c \in 0 .. n - 1 : At(e, n, r, c) = Cell(r, v[c], mark[c])

\* The names and the history of the columns kept.
KeptBasis(Kept) ==
  [v |-> [c \in 0 .. Cardinality(Kept) - 1 |-> Ascending(Kept)[c + 1]],
   mark |-> [c \in 0 .. Cardinality(Kept) - 1 |->
               [orth |-> {k \in Kept : CountBelow(Kept, k) < c}, unit |-> TRUE]]]

\* orthoMGS leaves the basis of the columns kept, packed at its own number of columns.
LEMMA OrthoMGSKeeps ==
  ASSUME NEW w \in Nat, NEW n \in 1 .. w, NEW e, Clean(e, w),
         IsBlock(e, n, Fresh(n).v, Fresh(n).mark), NEW Kept, Kept \subseteq 0 .. n - 1
  PROVE  /\ OrthoMGS(e, n, Kept).m = Cardinality(Kept) /\ Cardinality(Kept) \in 0 .. n
         /\ Clean(OrthoMGS(e, n, Kept).e, w)
         /\ HasColumns(OrthoMGS(e, n, Kept).e, Cardinality(Kept), KeptBasis(Kept).v, KeptBasis(Kept).mark)
PROOF
<1> DEFINE s == OrthoLoop(e, n, Kept)
           u == [c \in 0 .. n - 1 |-> e[c].vec]
           k == Cardinality(Kept)
           after == [i \in DOMAIN e |->
                  IF i < NR * n THEN Cell(i \div n, s.cols[i % n].vec, s.cols[i % n].mark)
                  ELSE e[i]]
           f == IF s.m # n THEN Repack(after, n, s.m) ELSE after
           b == KeptBasis(Kept)
<1>0. NR \in 0 .. VecRows /\ VecRows \in Nat /\ NR \in Nat /\ n \in Nat \ {0} /\ n \in 0 .. w
  BY RowsAssumption
<1>1. OrthoMGS(e, n, Kept) = [m |-> s.m, e |-> f]
  BY DEF OrthoMGS
<1>2. /\ s.m = k
      /\ \A c \in 0 .. k - 1 : s.cols[c] = Basis(u, Kept, c)
  <2>1. Reads(e, n, u)
    BY <1>0, BlockColumn DEF Reads
  <2> HIDE DEF u, s, k, after, f, b
  <2>2. n \in Nat /\ Kept \subseteq 0 .. n - 1
    BY <1>0
  <2>3. HasKept(OrthoLoop(e, n, Kept), u, Kept)
    BY <2>1, <2>2, OrthoLoopCompacts
  <2> QED
    BY <2>3 DEF s, k, HasKept
<1>3. k \in 0 .. n /\ IsFiniteSet(Kept)
  BY <1>0, KeptCounts
<1> HIDE DEF s
<1>4. DOMAIN after = DOMAIN e /\ DOMAIN e = 0 .. VecRows * w - 1
  BY DEF Clean
<1>5. \A i \in DOMAIN e : after[i] # Junk
  BY Kinds DEF Clean
<1>6. ASSUME 0 < NR, NEW c \in 0 .. n - 1 PROVE u[c] = c
  <2>1. 0 \in 0 .. VecRows - 1 /\ 0 * n + c = c
    BY <1>0, <1>6
  <2>2. At(e, n, 0, c) = Cell(0, c, "raw")
    BY <1>6, <2>1 DEF IsBlock, Filling, Fresh
  <2>3. e[c] = Cell(0, c, "raw")
    BY <2>1, <2>2 DEF At
  <2> QED
    BY <2>3, Kinds
<1>7. ASSUME NEW r \in 0 .. NR - 1, NEW c \in 0 .. k - 1
      PROVE  /\ r * n + c \in DOMAIN e
             /\ after[r * n + c] = Cell(r, b.v[c], b.mark[c])
  <2>1. r \in 0 .. VecRows - 1 /\ c \in 0 .. n - 1 /\ r < NR /\ 0 < NR
    BY <1>0, <1>3
  <2>2. /\ r * n + c \in 0 .. VecRows * w - 1 /\ r * n + c < NR * n
        /\ (r * n + c) \div n = r /\ (r * n + c) % n = c
    BY <2>1, CellInside
  <2>3. after[r * n + c] = Cell(r, s.cols[c].vec, s.cols[c].mark)
    BY <1>4, <2>2
  <2>4. s.cols[c] = Basis(u, Kept, c)
    BY <1>2
  <2>5. \A l \in Kept : u[l] = l
    BY <1>6, <2>1
  <2>6. Ascending(Kept)[c + 1] \in Kept
    <3>1. \A l \in Kept : l \in Int
      OBVIOUS
    <3> QED
      BY <1>3, <3>1, NthCounts
  <2> HIDE DEF u, b, after, k, f
  <2>7. {u[l] : l \in {i \in Kept : CountBelow(Kept, i) < c}} = {i \in Kept : CountBelow(Kept, i) < c}
    BY <2>5
  <2>8. /\ s.cols[c].vec = Ascending(Kept)[c + 1]
        /\ s.cols[c].mark = [orth |-> {i \in Kept : CountBelow(Kept, i) < c}, unit |-> TRUE]
    <3> DEFINE names == {u[l] : l \in {i \in Kept : CountBelow(Kept, i) < c}}
               before == {i \in Kept : CountBelow(Kept, i) < c}
    <3>1. s.cols[c] = [vec |-> u[Ascending(Kept)[c + 1]], mark |-> [orth |-> names, unit |-> TRUE]]
      BY <2>4 DEF Basis
    <3>2. names = before /\ u[Ascending(Kept)[c + 1]] = Ascending(Kept)[c + 1]
      BY <2>5, <2>6, <2>7
    <3> HIDE DEF names
    <3>3. s.cols[c] = [vec |-> Ascending(Kept)[c + 1], mark |-> [orth |-> before, unit |-> TRUE]]
      BY <3>1, <3>2
    <3> HIDE DEF before
    <3>4. s.cols[c].vec = Ascending(Kept)[c + 1] /\ s.cols[c].mark = [orth |-> before, unit |-> TRUE]
      BY <3>3
    <3> QED
      BY <3>4 DEF before
  <2>9. b.v[c] = Ascending(Kept)[c + 1]
        /\ b.mark[c] = [orth |-> {i \in Kept : CountBelow(Kept, i) < c}, unit |-> TRUE]
    <3>1. c \in 0 .. Cardinality(Kept) - 1
      BY DEF k
    <3> QED
      BY <3>1 DEF b, KeptBasis
  <2> QED
    BY <1>4, <2>2, <2>3, <2>8, <2>9
<1> HIDE DEF after, u, b
<1>8. CASE s.m = n
  <2>1. f = after /\ k = n
    BY <1>2, <1>8
  <2>2. Clean(f, w)
    BY <1>4, <1>5, <2>1 DEF Clean
  <2>3. HasColumns(f, k, b.v, b.mark)
    BY <1>7, <2>1 DEF HasColumns, At
  <2> HIDE DEF f
  <2> QED
    BY <1>1, <1>2, <1>3, <2>2, <2>3 DEF b
<1>9. CASE s.m # n
  <2>1. f = Repack(after, n, k)
    BY <1>2, <1>9
  <2> HIDE DEF f, k
  <2>2. MovedTo(f, after, n, k, NR * k)
    BY <1>3, <1>4, <2>1, RepackMoves
  <2>3. DOMAIN f = DOMAIN e /\ \A i \in DOMAIN e : f[i] = IF i < NR * k THEN after[Origin(i, n, k)] ELSE after[i]
    BY <1>4, <2>2 DEF MovedTo
  <2>4. ASSUME NEW i \in DOMAIN e PROVE f[i] # Junk
    <3>1. CASE i < NR * k
      <4>1. k \in 1 .. n /\ i \in 0 .. NR * k - 1
        <5>1. k # 0 /\ NR * k \in Nat
          BY <1>0, <1>3, <1>4, <3>1
        <5> QED
          BY <1>3, <1>4, <3>1, <5>1
      <4>2. Origin(i, n, k) \in Nat /\ Origin(i, n, k) < NR * n
        BY <1>0, <4>1, OriginAhead
      <4>3. NR * n <= VecRows * w /\ VecRows * w \in Nat /\ NR * n \in Nat
        BY <1>0, Fits
      <4>4. Origin(i, n, k) \in DOMAIN e
        BY <1>4, <4>2, <4>3
      <4> QED
        BY <1>5, <2>3, <3>1, <4>4
    <3>2. CASE ~(i < NR * k)
      BY <1>5, <2>3, <3>2
    <3> QED
      BY <3>1, <3>2
  <2>5. Clean(f, w)
    BY <1>4, <2>3, <2>4 DEF Clean
  <2>6. ASSUME NEW r \in 0 .. NR - 1, NEW c \in 0 .. k - 1
        PROVE  At(f, k, r, c) = Cell(r, b.v[c], b.mark[c])
    <3>1. r \in 0 .. VecRows - 1 /\ k \in 1 .. w /\ r < NR
      BY <1>0, <1>3
    <3>2. /\ r * k + c \in 0 .. VecRows * w - 1 /\ r * k + c < NR * k
          /\ (r * k + c) \div k = r /\ (r * k + c) % k = c
      BY <3>1, CellInside, ZenonT(40)
    <3>3. Origin(r * k + c, n, k) = r * n + c
      BY <3>2 DEF Origin
    <3>4. f[r * k + c] = after[r * n + c]
      BY <1>4, <2>3, <3>2, <3>3
    <3> QED
      BY <1>7, <3>4 DEF At, k
  <2>7. HasColumns(f, k, b.v, b.mark)
    BY <2>6 DEF HasColumns
  <2> QED
    BY <1>1, <1>2, <1>3, <2>5, <2>7 DEF b, k
<1> QED
  BY <1>8, <1>9

\* With the padding zeroed at the new stride the columns are a block again.
LEMMA RepadIsBlock ==
  ASSUME NEW w \in Nat, NEW n \in 1 .. w, NEW e, Clean(e, w), NEW v, NEW mark, HasColumns(e, n, v, mark)
  PROVE  Clean(Repad(e, n), w) /\ IsBlock(Repad(e, n), n, v, mark)
PROOF
<1> DEFINE f == Repad(e, n)
<1>0. NR \in Nat /\ VecRows \in Nat /\ NR <= VecRows /\ n \in Nat \ {0}
  BY RowsAssumption
<1>1. DOMAIN f = DOMAIN e /\ DOMAIN e = 0 .. VecRows * w - 1
      /\ \A i \in DOMAIN e : f[i] = IF i \in NR * n .. VecRows * n - 1 THEN Zero ELSE e[i]
  BY DEF Repad, Clean
<1> HIDE DEF f
<1>2. Clean(f, w)
  BY <1>1, Kinds DEF Clean
<1>3. ASSUME NEW r \in 0 .. VecRows - 1, NEW c \in 0 .. n - 1
      PROVE  At(f, n, r, c) = Filling(r, v[c], mark[c])
  <2>1. /\ r * n + c \in 0 .. VecRows * w - 1 /\ r * n + c < VecRows * n
        /\ r * n + c < NR * n <=> r < NR
    BY CellInside
  <2>2. NR * n \in Nat /\ VecRows * n \in Nat
    BY <1>0
  <2>3. CASE r < NR
    <3>1. f[r * n + c] = e[r * n + c]
      BY <1>1, <2>1, <2>2, <2>3
    <3>2. r \in 0 .. NR - 1
      BY <1>0, <2>3
    <3>3. e[r * n + c] = Cell(r, v[c], mark[c])
      BY <3>2 DEF HasColumns, At
    <3> QED
      BY <2>3, <3>1, <3>3 DEF At, Filling
  <2>4. CASE ~(r < NR)
    <3>1. r * n + c \in NR * n .. VecRows * n - 1
      BY <2>1, <2>2, <2>4
    <3>2. f[r * n + c] = Zero
      BY <1>1, <2>1, <3>1
    <3> QED
      BY <2>4, <3>2 DEF At, Filling
  <2> QED
    BY <2>3, <2>4
<1> QED
  BY <1>2, <1>3 DEF IsBlock, f

(***************************************************************************)
(* The eigenvalues in order, and a pass of Cholesky-QR.                    *)
(***************************************************************************)

\* The first of the least values from lo to hi.
FirstLeast(f, lo, hi, j) ==
  /\ j \in lo .. hi
  /\ \A l \in lo .. hi : f[j] <= f[l]
  /\ \A l \in lo .. j - 1 : f[j] < f[l]

\* There always is one.
LEMMA HasLeast ==
  ASSUME NEW lo \in Nat, NEW hi \in Nat, lo <= hi, NEW f, \A l \in lo .. hi : f[l] \in Int
  PROVE  \E j : FirstLeast(f, lo, hi, j)
PROOF
<1> DEFINE T == {h \in lo .. hi : ~ \E j : FirstLeast(f, lo, h, j)}
<1> SUFFICES ASSUME T # {} PROVE FALSE
  OBVIOUS
<1>1. \A h \in T : h \in Nat
  OBVIOUS
<1>2. PICK x \in T : \A h \in T : x <= h
  <2> HIDE DEF T
  <2> QED
    BY <1>1, Least
<1>3. x \in lo .. hi /\ ~ \E j : FirstLeast(f, lo, x, j)
  OBVIOUS
<1>4. CASE x = lo
  <2>1. FirstLeast(f, lo, x, lo)
    BY <1>4 DEF FirstLeast
  <2> QED
    BY <1>3, <2>1
<1>5. CASE x # lo
  <2>1. x - 1 \in lo .. hi /\ x - 1 \notin T
    BY <1>1, <1>2, <1>3, <1>5
  <2>2. PICK j : FirstLeast(f, lo, x - 1, j)
    BY <2>1
  <2>3. j \in lo .. x - 1 /\ f[j] \in Int /\ f[x] \in Int /\ \A l \in lo .. x - 1 : f[l] \in Int
    BY <1>3, <2>2 DEF FirstLeast
  <2>4. CASE f[x] < f[j]
    <3>1. \A l \in lo .. x - 1 : f[x] < f[l]
      BY <2>2, <2>3, <2>4 DEF FirstLeast
    <3>2. \A l \in lo .. x : l \in lo .. x - 1 \/ l = x
      BY <1>3
    <3>3. FirstLeast(f, lo, x, x)
      BY <1>3, <2>3, <3>1, <3>2, SMTT(40) DEF FirstLeast
    <3> QED
      BY <1>3, <3>3
  <2>5. CASE ~(f[x] < f[j])
    <3>1. \A l \in lo .. x : l \in lo .. x - 1 \/ l = x
      BY <1>3
    <3>2. j \in lo .. x
      BY <1>3, <2>3
    <3>3. FirstLeast(f, lo, x, j)
      BY <2>2, <2>3, <2>5, <3>1, <3>2 DEF FirstLeast
    <3> QED
      BY <1>3, <3>3
  <2> QED
    BY <2>4, <2>5
<1> QED
  BY <1>4, <1>5

\* A list of values and of the directions they belong to, of which the first i are in order
\* and not above the rest.
Eigen(s, n, diag, i) ==
  /\ DOMAIN s.eval = 0 .. n - 1 /\ DOMAIN s.evec = 0 .. n - 1
  /\ \A a \in 0 .. n - 1 : s.evec[a] \in 0 .. n - 1 /\ s.eval[a] = diag[s.evec[a]] /\ s.eval[a] \in Int
  /\ \A a, b \in 0 .. n - 1 : s.evec[a] = s.evec[b] => a = b
  /\ \A d \in 0 .. n - 1 : \E a \in 0 .. n - 1 : s.evec[a] = d
  /\ \A a, b \in 0 .. n - 1 : a < i /\ a < b => s.eval[a] <= s.eval[b]

\* A step of the selection sort puts one more in its place, its direction with it.
LEMMA SortStepSorts ==
  ASSUME NEW n \in Nat, NEW diag, NEW i \in 0 .. n - 1, NEW s, Eigen(s, n, diag, i)
  PROVE  Eigen(SortStep(s, i), n, diag, i + 1)
PROOF
<1> DEFINE best == CHOOSE j : FirstLeast(s.eval, i, n - 1, j)
           t == SortStep(s, i)
<1>1. Cardinality(0 .. n - 1) = n
  BY FS_Interval
<1>2. \A a \in 0 .. n - 1 : s.eval[a] \in Int
  BY DEF Eigen
<1>3. \E j : FirstLeast(s.eval, i, n - 1, j)
  <2>1. i \in Nat /\ n - 1 \in Nat /\ i <= n - 1 /\ \A l \in i .. n - 1 : s.eval[l] \in Int
    BY <1>2
  <2> QED
    BY <2>1, HasLeast
<1>4. FirstLeast(s.eval, i, n - 1, best)
  BY <1>3
<1> DEFINE least == CHOOSE j \in i .. n - 1 :
                /\ \A l \in i .. n - 1 : s.eval[j] <= s.eval[l]
                /\ \A l \in i .. j - 1 : s.eval[j] < s.eval[l]
<1>5. t = [eval |-> Swapped(s.eval, i, least), evec |-> Swapped(s.evec, i, least)]
  <2>1. DOMAIN s.eval = 0 .. n - 1
    BY DEF Eigen
  <2> QED
    BY <1>1, <2>1 DEF SortStep
<1> HIDE DEF best
<1>6. /\ least \in i .. n - 1
      /\ \A l \in i .. n - 1 : s.eval[least] <= s.eval[l]
  BY <1>4 DEF FirstLeast
<1> HIDE DEF t, least
<1> DEFINE q(a) == IF a = i THEN least ELSE IF a = least THEN i ELSE a
<1>7. least \in 0 .. n - 1 /\ least >= i
  BY <1>6
<1>8. /\ DOMAIN t.eval = 0 .. n - 1 /\ DOMAIN t.evec = 0 .. n - 1
      /\ \A a \in 0 .. n - 1 : t.eval[a] = s.eval[q(a)] /\ t.evec[a] = s.evec[q(a)]
  BY <1>5, <1>7 DEF Swapped, Eigen
<1>9. \A a \in 0 .. n - 1 : q(a) \in 0 .. n - 1 /\ q(q(a)) = a
  BY <1>7
<1>10. \A a, b \in 0 .. n - 1 : q(a) = q(b) => a = b
  BY <1>9
<1>11. \A a \in 0 .. n - 1 : a < i => q(a) = a
  BY <1>7
<1>12. \A b \in 0 .. n - 1 : i < b => q(b) \in i .. n - 1
  BY <1>7
<1>13. q(i) = least
  OBVIOUS
<1>14. \A a, b \in 0 .. n - 1 : a < i /\ a < b => a < q(b)
  BY <1>7
<1> HIDE DEF q
<1>15. ASSUME NEW a \in 0 .. n - 1
       PROVE  t.evec[a] \in 0 .. n - 1 /\ t.eval[a] = diag[t.evec[a]] /\ t.eval[a] \in Int
  <2>1. q(a) \in 0 .. n - 1 /\ t.eval[a] = s.eval[q(a)] /\ t.evec[a] = s.evec[q(a)]
    BY <1>8, <1>9
  <2>2. \A c \in 0 .. n - 1 : s.evec[c] \in 0 .. n - 1 /\ s.eval[c] = diag[s.evec[c]] /\ s.eval[c] \in Int
    BY DEF Eigen
  <2> QED
    BY <2>1, <2>2
<1>16. ASSUME NEW a \in 0 .. n - 1, NEW b \in 0 .. n - 1, t.evec[a] = t.evec[b] PROVE a = b
  <2>1. s.evec[q(a)] = s.evec[q(b)] /\ q(a) \in 0 .. n - 1 /\ q(b) \in 0 .. n - 1
    BY <1>8, <1>9, <1>16
  <2>2. q(a) = q(b)
    BY <2>1 DEF Eigen
  <2> QED
    BY <1>10, <2>2
<1>17. ASSUME NEW d \in 0 .. n - 1 PROVE \E a \in 0 .. n - 1 : t.evec[a] = d
  <2>1. PICK a \in 0 .. n - 1 : s.evec[a] = d
    BY DEF Eigen
  <2>2. t.evec[q(a)] = d
    BY <1>8, <1>9, <2>1
  <2> QED
    BY <1>9, <2>2
<1>18. ASSUME NEW a \in 0 .. n - 1, NEW b \in 0 .. n - 1, a < i + 1, a < b
       PROVE  t.eval[a] <= t.eval[b]
  <2>1. CASE a = i
    <3>1. q(b) \in i .. n - 1
      BY <1>12, <1>18, <2>1
    <3>2. t.eval[a] = s.eval[least] /\ t.eval[b] = s.eval[q(b)]
      BY <1>8, <1>13, <2>1
    <3> QED
      BY <1>6, <3>1, <3>2
  <2>2. CASE a # i
    <3>1. a < i
      BY <1>18, <2>2
    <3>2. t.eval[a] = s.eval[a] /\ t.eval[b] = s.eval[q(b)] /\ a < q(b) /\ q(b) \in 0 .. n - 1
      BY <1>8, <1>9, <1>11, <1>14, <1>18, <3>1
    <3> QED
      BY <3>1, <3>2 DEF Eigen
  <2> QED
    BY <2>1, <2>2
<1>19. Eigen(t, n, diag, i + 1)
  BY <1>8, <1>15, <1>16, <1>17, <1>18 DEF Eigen
<1> QED
  BY <1>19 DEF t

\* The states of the sort.
SortSteps(diag, l, s) ==
  [i \in 0 .. l |->
     IF i = 0 THEN [eval |-> diag, evec |-> [d \in DOMAIN diag |-> d]] ELSE SortStep(s[i - 1], i - 1)]

\* The sort has states that follow its steps.
LEMMA SortRuns ==
  ASSUME NEW diag, NEW top \in Nat
  PROVE  \E s : s = SortSteps(diag, top, s)
PROOF
<1> DEFINE start == [eval |-> diag, evec |-> [d \in DOMAIN diag |-> d]]
           T == {l \in 0 .. top : ~ \E s : s = SortSteps(diag, l, s)}
<1> SUFFICES ASSUME T # {} PROVE FALSE
  OBVIOUS
<1>1. \A l \in T : l \in Nat
  OBVIOUS
<1>2. PICK x \in T : \A l \in T : x <= l
  <2> HIDE DEF T
  <2> QED
    BY <1>1, Least
<1>3. x \in 0 .. top /\ ~ \E s : s = SortSteps(diag, x, s)
  OBVIOUS
<1>4. CASE x = 0
  <2> DEFINE f == [i \in 0 .. x |-> start]
  <2>1. f = SortSteps(diag, x, f)
    BY <1>4 DEF SortSteps
  <2> QED
    BY <1>3, <2>1
<1>5. CASE x # 0
  <2>1. x - 1 \in 0 .. top /\ x - 1 \notin T
    BY <1>1, <1>2, <1>5
  <2>2. PICK s : s = SortSteps(diag, x - 1, s)
    BY <2>1
  <2> DEFINE f == [i \in 0 .. x |-> IF i = x THEN SortStep(s[x - 1], x - 1) ELSE s[i]]
  <2>3. \A i \in 0 .. x - 1 : s[i] = IF i = 0 THEN start ELSE SortStep(s[i - 1], i - 1)
    BY <2>2 DEF SortSteps
  <2>4. ASSUME NEW i \in 0 .. x
        PROVE  f[i] = IF i = 0 THEN start ELSE SortStep(f[i - 1], i - 1)
    <3>1. CASE i = x
      <4>1. f[i] = SortStep(s[x - 1], x - 1) /\ f[i - 1] = s[x - 1]
        BY <1>3, <1>5, <3>1
      <4> QED
        BY <1>5, <3>1, <4>1
    <3>2. CASE i # x
      <4>1. i \in 0 .. x - 1 /\ f[i] = s[i]
        BY <1>3, <3>2
      <4>2. i # 0 => f[i - 1] = s[i - 1]
        BY <1>3, <3>2
      <4> QED
        BY <2>3, <4>1, <4>2
    <3> QED
      BY <3>1, <3>2
  <2>5. f = [i \in 0 .. x |-> f[i]]
    OBVIOUS
  <2> HIDE DEF f
  <2>6. f = SortSteps(diag, x, f)
    BY <2>4, <2>5 DEF SortSteps
  <2> QED
    BY <1>3, <2>6
<1> QED
  BY <1>4, <1>5

\* jacobiEigen gives the values in ascending order, each with the direction it belongs to.
LEMMA JacobiSorts ==
  ASSUME NEW n \in Nat \ {0}, NEW diag \in [0 .. n - 1 -> Int]
  PROVE  Eigen(JacobiEigen(diag), n, diag, n)
PROOF
<1> DEFINE start == [eval |-> diag, evec |-> [d \in DOMAIN diag |-> d]]
           s == CHOOSE s : s = SortSteps(diag, n - 1, s)
<1>0. DOMAIN diag = 0 .. n - 1 /\ Cardinality(0 .. n - 1) = n /\ n - 1 \in Nat
  BY FS_Interval
<1>1. JacobiEigen(diag) = s[n - 1]
  BY <1>0 DEF JacobiEigen, SortSteps
<1>2. s = SortSteps(diag, n - 1, s)
  BY <1>0, SortRuns, Zenon
<1> HIDE DEF s
<1>3. \A i \in 0 .. n - 1 : s[i] = IF i = 0 THEN start ELSE SortStep(s[i - 1], i - 1)
  BY <1>2 DEF SortSteps
<1>4. Eigen(start, n, diag, 0)
  <2>1. \A a \in 0 .. n - 1 : start.evec[a] = a /\ start.eval[a] = diag[a] /\ diag[a] \in Int
    BY <1>0
  <2>2. DOMAIN start.eval = 0 .. n - 1 /\ DOMAIN start.evec = 0 .. n - 1
    BY <1>0
  <2> HIDE DEF start
  <2>3. \A a, b \in 0 .. n - 1 : ~(a < 0)
    OBVIOUS
  <2> QED
    BY <2>1, <2>2, <2>3 DEF Eigen
<1> HIDE DEF start
<1> DEFINE T == {i \in 0 .. n - 1 : ~Eigen(s[i], n, diag, i)}
<1>5. T = {}
  <2> SUFFICES ASSUME T # {} PROVE FALSE
    OBVIOUS
  <2>1. \A l \in T : l \in Nat
    OBVIOUS
  <2>2. PICK x \in T : \A l \in T : x <= l
    <3> HIDE DEF T
    <3> QED
      BY <2>1, Least
  <2>3. x # 0
    BY <1>3, <1>4, <2>2
  <2>4. x - 1 \in 0 .. n - 1 /\ x - 1 \notin T /\ (x - 1) + 1 = x /\ x \in 0 .. n - 1
    BY <2>1, <2>2, <2>3
  <2>5. Eigen(s[x - 1], n, diag, x - 1)
    BY <2>4
  <2>6. s[x] = SortStep(s[x - 1], x - 1)
    BY <1>3, <2>3, <2>4
  <2> HIDE DEF T
  <2>7. Eigen(s[x], n, diag, (x - 1) + 1)
    BY <2>4, <2>5, <2>6, SortStepSorts
  <2> QED
    BY <2>2, <2>4, <2>7 DEF T
<1>6. Eigen(s[n - 1], n, diag, n - 1)
  BY <1>0, <1>5
<1>7. \A a, b \in 0 .. n - 1 : a < b => a < n - 1
  OBVIOUS
<1>8. Eigen(s[n - 1], n, diag, n)
  BY <1>6, <1>7 DEF Eigen
<1> QED
  BY <1>1, <1>8

\* The directions of a pass that are kept.
Above(diag, n, tol) == {d \in 0 .. n - 1 : diag[d] >= tol}

\* The first of the sorted values that is not below the tolerance, and the directions of
\* the values from there on.
FirstKept(s, n, tol) == Min({j \in 0 .. n - 1 : s.eval[j] >= tol} \cup {n})
KeptFrom(s, n, j0) == [c \in 0 .. n - j0 - 1 |-> s.evec[j0 + c]]

\* They are all the directions not below the tolerance, each once, with their values.
KeepsLast(s, n, diag, tol) ==
  /\ FirstKept(s, n, tol) \in 0 .. n
  /\ n - FirstKept(s, n, tol) = Cardinality(Above(diag, n, tol))
  /\ KeptFrom(s, n, FirstKept(s, n, tol))
       \in [0 .. n - FirstKept(s, n, tol) - 1 -> Above(diag, n, tol)]
  /\ \A d \in Above(diag, n, tol) : \E c \in 0 .. n - FirstKept(s, n, tol) - 1 :
       KeptFrom(s, n, FirstKept(s, n, tol))[c] = d
  /\ \A c \in 0 .. n - FirstKept(s, n, tol) - 1 :
       s.eval[FirstKept(s, n, tol) + c] = diag[KeptFrom(s, n, FirstKept(s, n, tol))[c]]

\* The directions not below the tolerance are the last ones, in the order of their values.
LEMMA LastDirections ==
  ASSUME NEW n \in Nat \ {0}, NEW diag \in [0 .. n - 1 -> Int], NEW tol \in Int,
         NEW s, Eigen(s, n, diag, n)
  PROVE  KeepsLast(s, n, diag, tol)
PROOF
<1> DEFINE T == {j \in 0 .. n - 1 : s.eval[j] >= tol} \cup {n}
           j0 == Min(T)
           rk == n - j0
           of == [c \in 0 .. rk - 1 |-> s.evec[j0 + c]]
           D == Above(diag, n, tol)
<1>1. j0 \in T /\ \A j \in T : j0 <= j
  <2>1. \A j \in T : j \in Nat
    OBVIOUS
  <2>2. T # {}
    OBVIOUS
  <2> HIDE DEF T
  <2>3. \E x \in T : \A y \in T : x <= y
    BY <2>1, <2>2, Least
  <2> QED
    BY <2>3 DEF Min
<1> HIDE DEF j0
<1>2. j0 \in 0 .. n /\ rk \in 0 .. n
  BY <1>1
<1>3. ASSUME NEW j \in 0 .. n - 1 PROVE s.eval[j] >= tol <=> j >= j0
  <2>1. s.eval[j] \in Int
    BY DEF Eigen
  <2>2. s.eval[j] >= tol => j >= j0
    BY <1>1, <1>2
  <2>3. ASSUME j >= j0 PROVE s.eval[j] >= tol
    <3>1. j0 \in 0 .. n - 1 /\ s.eval[j0] >= tol
      BY <1>1, <1>2, <2>3
    <3>2. s.eval[j0] <= s.eval[j] /\ s.eval[j0] \in Int
      <4>1. CASE j = j0
        BY <2>1, <4>1
      <4>2. CASE j # j0
        BY <1>2, <2>3, <3>1, <4>2 DEF Eigen
      <4> QED BY <4>1, <4>2
    <3> QED
      BY <2>1, <3>1, <3>2
  <2> QED
    BY <2>2, <2>3
<1> HIDE DEF T, rk
<1>4. ASSUME NEW c \in 0 .. rk - 1
      PROVE  /\ j0 + c \in 0 .. n - 1 /\ of[c] = s.evec[j0 + c] /\ of[c] \in D
             /\ s.eval[j0 + c] = diag[of[c]]
  <2>1. j0 + c \in 0 .. n - 1 /\ j0 + c >= j0
    BY <1>2 DEF rk
  <2>2. of[c] = s.evec[j0 + c]
    OBVIOUS
  <2>3. s.evec[j0 + c] \in 0 .. n - 1 /\ s.eval[j0 + c] = diag[s.evec[j0 + c]]
    BY <2>1 DEF Eigen
  <2>4. s.eval[j0 + c] >= tol
    BY <1>3, <2>1
  <2> QED
    BY <2>1, <2>2, <2>3, <2>4 DEF Above
<1>5. ASSUME NEW d \in D PROVE \E c \in 0 .. rk - 1 : of[c] = d
  <2>1. d \in 0 .. n - 1 /\ diag[d] >= tol
    BY DEF Above
  <2>2. PICK a \in 0 .. n - 1 : s.evec[a] = d
    BY <2>1 DEF Eigen
  <2>3. s.eval[a] = diag[d]
    BY <2>2 DEF Eigen
  <2>4. a >= j0
    BY <1>3, <2>1, <2>3
  <2>5. a - j0 \in 0 .. rk - 1 /\ j0 + (a - j0) = a
    BY <1>2, <2>4 DEF rk
  <2>6. of[a - j0] = d
    BY <2>2, <2>5
  <2> QED
    BY <2>5, <2>6
<1>6. ASSUME NEW a \in 0 .. rk - 1, NEW b \in 0 .. rk - 1, of[a] = of[b] PROVE a = b
  <2>1. s.evec[j0 + a] = s.evec[j0 + b] /\ j0 + a \in 0 .. n - 1 /\ j0 + b \in 0 .. n - 1
    BY <1>4, <1>6
  <2>2. j0 + a = j0 + b
    BY <2>1 DEF Eigen
  <2> QED
    BY <1>2, <2>2
<1>7. of \in [0 .. rk - 1 -> D]
  BY <1>4
<1> HIDE DEF of
<1>8. of \in Bijection(0 .. rk - 1, D)
  <2>1. of \in Injection(0 .. rk - 1, D)
    BY <1>6, <1>7 DEF Injection, IsInjective
  <2>2. of \in Surjection(0 .. rk - 1, D)
    BY <1>5, <1>7 DEF Surjection
  <2> QED
    BY <2>1, <2>2 DEF Bijection
<1>9. rk = Cardinality(D)
  <2>0. rk \in Nat
    BY <1>2
  <2> HIDE DEF D
  <2>1. IsFiniteSet(0 .. rk - 1) /\ Cardinality(0 .. rk - 1) = rk
    <3>1. ASSUME NEW k \in Nat PROVE IsFiniteSet(0 .. k - 1) /\ Cardinality(0 .. k - 1) = k
      <4>1. 0 \in Int /\ k - 1 \in Int
        OBVIOUS
      <4>2. IsFiniteSet(0 .. k - 1) /\ Cardinality(0 .. k - 1) = IF 0 > k - 1 THEN 0 ELSE (k - 1) - 0 + 1
        BY <4>1, FS_Interval, Zenon
      <4> QED
        BY <4>2
    <3> QED
      BY <2>0, <3>1
  <2>2. ExistsBijection(0 .. rk - 1, D)
    BY <1>8 DEF ExistsBijection
  <2>3. Cardinality(D) = Cardinality(0 .. rk - 1)
    BY <2>1, <2>2, FS_Bijection
  <2> QED
    BY <2>1, <2>3
<1>10. FirstKept(s, n, tol) = j0
  BY DEF FirstKept, j0, T
<1>11. KeptFrom(s, n, j0) = of /\ n - j0 - 1 = rk - 1
  <2>1. n - j0 - 1 = rk - 1
    BY <1>2 DEF rk
  <2> QED
    BY <2>1 DEF KeptFrom, of
<1>12. \A c \in 0 .. rk - 1 : s.eval[j0 + c] = diag[of[c]]
  BY <1>4
<1>13. n - j0 = rk
  BY DEF rk
<1> HIDE DEF D
<1> QED
  BY <1>2, <1>5, <1>7, <1>9, <1>10, <1>11, <1>12, <1>13 DEF D, KeepsLast

\* A block of the directions in D, each once, with the eigenvalues they are scaled by.
IsBasisOf(e, rk, D, diag) ==
  \E of \in [0 .. rk - 1 -> D] :
    /\ \A d \in D : \E c \in 0 .. rk - 1 : of[c] = d
    /\ IsBlock(e, rk, of, [c \in 0 .. rk - 1 |-> diag[of[c]]])

\* A pass leaves a block of the directions kept, each once and scaled by its own value.
LEMMA CholQRKeeps ==
  ASSUME NEW w \in Nat, NEW n \in 1 .. w, NEW e, Clean(e, w), NEW v, NEW mark, IsBlock(e, n, v, mark),
         NEW diag \in [0 .. n - 1 -> Int], NEW tol \in Int
  PROVE  /\ CholQRPass(e, n, diag, tol).m = Cardinality(Above(diag, n, tol))
         /\ CholQRPass(e, n, diag, tol).m \in 0 .. n
         /\ Clean(CholQRPass(e, n, diag, tol).e, w)
         /\ IsBasisOf(CholQRPass(e, n, diag, tol).e, CholQRPass(e, n, diag, tol).m,
                      Above(diag, n, tol), diag)
PROOF
<1> DEFINE s == JacobiEigen(diag)
           j0 == FirstKept(s, n, tol)
           rk == n - j0
           D == Above(diag, n, tol)
           of == KeptFrom(s, n, j0)
           Entry(r, j) ==
             IF \A c \in 0 .. n - 1 : At(e, n, r, c) = Zero THEN Zero
             ELSE IF r < NR /\ \A c \in 0 .. n - 1 : IsVector(e, n, c)
             THEN Cell(r, s.evec[j0 + j], s.eval[j0 + j])
             ELSE Junk
           f == [i \in DOMAIN e |->
                   IF i < VecRows * rk THEN Entry(i \div rk, i % rk) ELSE e[i]]
<1>0. NR \in Nat /\ VecRows \in Nat /\ NR <= VecRows /\ n \in Nat \ {0} /\ n \in Nat
  BY RowsAssumption
<1>1. CholQRPass(e, n, diag, tol) = [m |-> rk, e |-> f]
  BY DEF CholQRPass, FirstKept
<1>2. /\ j0 \in 0 .. n /\ rk = Cardinality(D)
      /\ of \in [0 .. rk - 1 -> D]
      /\ \A d \in D : \E c \in 0 .. rk - 1 : of[c] = d
      /\ \A c \in 0 .. rk - 1 : s.eval[j0 + c] = diag[of[c]]
  <2>1. Eigen(s, n, diag, n)
    BY <1>0, JacobiSorts
  <2> HIDE DEF s
  <2>2. KeepsLast(s, n, diag, tol)
    BY <1>0, <2>1, LastDirections
  <2> QED
    BY <2>2 DEF KeepsLast
<1>3. rk \in 0 .. n
  BY <1>0, <1>2
<1>4. \A c \in 0 .. rk - 1 : s.evec[j0 + c] = of[c]
  BY DEF KeptFrom
<1>5. \A c \in 0 .. n - 1 : IsVector(e, n, c)
  BY <1>0, BlockColumn
<1> HIDE DEF s, j0, of, D
<1>6. ASSUME NEW r \in 0 .. VecRows - 1, NEW c \in 0 .. rk - 1
      PROVE  Entry(r, c) = Filling(r, of[c], diag[of[c]])
  <2>1. CASE r < NR
    <3>1. At(e, n, r, 0) # Zero /\ 0 \in 0 .. n - 1
      BY <1>0, <2>1, Kinds DEF IsBlock, Filling
    <3> QED
      BY <1>2, <1>4, <1>5, <2>1, <3>1 DEF Filling
  <2>2. CASE ~(r < NR)
    BY <2>2 DEF IsBlock, Filling
  <2> QED
    BY <2>1, <2>2
<1>7. DOMAIN f = DOMAIN e /\ DOMAIN e = 0 .. VecRows * w - 1
  BY DEF Clean
<1> HIDE DEF Entry, rk
<1>8. ASSUME NEW i \in DOMAIN e, i < VecRows * rk
      PROVE  f[i] = Filling(i \div rk, of[i % rk], diag[of[i % rk]])
  <2>1. i \in Nat
    BY <1>7
  <2>2. rk \in Nat \ {0}
    <3>1. rk # 0
      <4>1. VecRows * 0 = 0
        BY <1>0
      <4> QED
        BY <1>8, <2>1, <4>1
    <3> QED
      BY <1>3, <3>1
  <2>3. i \div rk \in Nat /\ i % rk \in 0 .. rk - 1 /\ i = ((i \div rk) * rk) + (i % rk)
    BY <2>1, <2>2, PlaceOf
  <2>4. i \div rk < VecRows
    <3> DEFINE q == i \div rk
               d == i % rk
    <3>1. q \in Nat /\ d \in 0 .. rk - 1 /\ i = (q * rk) + d
      BY <2>3
    <3> HIDE DEF q, d
    <3>2. q * rk + d < VecRows * rk <=> q < VecRows
      BY <1>0, <2>2, <3>1, RowBefore
    <3>3. q < VecRows
      BY <1>8, <3>1, <3>2
    <3> QED
      BY <3>3 DEF q
  <2>5. f[i] = Entry(i \div rk, i % rk)
    BY <1>8
  <2> HIDE DEF f
  <2> QED
    BY <1>0, <1>6, <2>3, <2>4, <2>5
<1>9. \A i \in DOMAIN e : ~(i < VecRows * rk) => f[i] = e[i]
  OBVIOUS
<1> HIDE DEF f
<1>10. Clean(f, w)
  BY <1>7, <1>8, <1>9, Kinds DEF Clean
<1>11. ASSUME NEW r \in 0 .. VecRows - 1, NEW c \in 0 .. rk - 1
       PROVE  At(f, rk, r, c) = Filling(r, of[c], diag[of[c]])
  <2>1. rk \in 1 .. w
    BY <1>0, <1>3
  <2>2. /\ r * rk + c \in 0 .. VecRows * w - 1 /\ r * rk + c < VecRows * rk
        /\ (r * rk + c) \div rk = r /\ (r * rk + c) % rk = c
    BY <2>1, CellInside, ZenonT(40)
  <2> QED
    BY <1>7, <1>8, <2>2 DEF At
<1>12. IsBlock(f, rk, of, [c \in 0 .. rk - 1 |-> diag[of[c]]])
  BY <1>11 DEF IsBlock
<1> DEFINE r == CholQRPass(e, n, diag, tol)
<1>13. r.m = rk /\ r.e = f
  BY <1>1
<1> HIDE DEF r
<1>14. IsBasisOf(f, rk, D, diag)
  BY <1>2, <1>12 DEF IsBasisOf
<1> QED
  BY <1>2, <1>3, <1>10, <1>13, <1>14 DEF r, D

(***************************************************************************)
(* The parameters.                                                         *)
(***************************************************************************)

\* Where the bounds and the target of a run come from.
Given(c) ==
  /\ c.lo.from = "file" /\ c.hi.from = "file"
  /\ c.a.from = c.b.from /\ c.a.from # "default"

\* The target is inside the bounds.
Inside(c) ==
  /\ Leq(c.a.val, c.lo.val) /\ Lt(c.lo.val, c.hi.val) /\ Leq(c.hi.val, c.b.val)

\* A flag stands for both of its pair, whatever files have been read.
Paired(c) ==
  /\ DOMAIN c = {"a", "b", "lo", "hi", "haveBounds", "haveTarget"}
  /\ c.haveBounds \in BOOLEAN /\ c.haveTarget \in BOOLEAN
  /\ c.haveBounds => c.a.from = "file" /\ c.b.from = "file"
  /\ c.haveTarget => c.lo.from = "file" /\ c.hi.from = "file"

\* The steps before the search space is set up, and those at which there is no run.
Outside == {"read", "exit", "done"}

\* Flags and values agree, and past a check what it checks holds.
ParamInv ==
  /\ Paired(cheb)
  /\ pc \notin Outside => Given(cheb)
  /\ pc \notin Outside \cup {"init"} => Inside(cheb)

\* A file that is accepted keeps flags and values in agreement.
LEMMA ReadKeepsPairs ==
  ASSUME NEW c, Paired(c), NEW f, ReadParameter(c, f).ok
  PROVE  Paired(ReadParameter(c, f).cheb)
PROOF
<1> DEFINE a == ReadLine(c.a, f, "a")
           b == ReadLine(c.b, f, "b")
           lo == ReadLine(c.lo, f, "lo")
           hi == ReadLine(c.hi, f, "hi")
           bounds == Pair(c, f, "a", "b", c.haveBounds)
           target == Pair(c, f, "lo", "hi", c.haveTarget)
           read == [c EXCEPT !.a = a, !.b = b, !.lo = lo, !.hi = hi]
           d == [read EXCEPT !.haveBounds = bounds.have, !.haveTarget = target.have]
<1>1. ReadParameter(c, f) = [ok |-> bounds.ok /\ target.ok, cheb |-> d]
  BY DEF ReadParameter, ReadLines
<1>2. \A old, key : /\ key \in KeysOf(f) => ReadLine(old, f, key).from = "file"
                    /\ key \notin KeysOf(f) => ReadLine(old, f, key) = old
  BY DEF ReadLine
<1>3. bounds.have = (c.haveBounds \/ "a" \in KeysOf(f))
      /\ target.have = (c.haveTarget \/ "lo" \in KeysOf(f))
  BY DEF Pair
<1>4. bounds.ok = ((c.haveBounds \/ "a" \in KeysOf(f)) = (c.haveBounds \/ "b" \in KeysOf(f)))
      /\ target.ok = ((c.haveTarget \/ "lo" \in KeysOf(f)) = (c.haveTarget \/ "hi" \in KeysOf(f)))
  BY DEF Pair
<1>5. bounds.ok /\ target.ok
  <2> DEFINE good == bounds.ok /\ target.ok
  <2>1. ReadParameter(c, f) = [ok |-> good, cheb |-> d]
    BY <1>1
  <2> HIDE DEF good, d
  <2>2. good
    BY <2>1
  <2> QED BY <2>2 DEF good
<1>6. bounds.have => a.from = "file" /\ b.from = "file"
  <2>1. CASE c.haveBounds
    BY <1>2, <2>1 DEF Paired
  <2>2. CASE ~c.haveBounds
    BY <1>2, <1>3, <1>4, <1>5, <2>2 DEF Paired
  <2> QED BY <2>1, <2>2
<1>7. target.have => lo.from = "file" /\ hi.from = "file"
  <2>1. CASE c.haveTarget
    BY <1>2, <2>1 DEF Paired
  <2>2. CASE ~c.haveTarget
    BY <1>2, <1>3, <1>4, <1>5, <2>2 DEF Paired
  <2> QED BY <2>1, <2>2
<1>8. bounds.have \in BOOLEAN /\ target.have \in BOOLEAN
  BY <1>3 DEF Paired
<1> HIDE DEF a, b, lo, hi, bounds, target
<1>9. DOMAIN d = {"a", "b", "lo", "hi", "haveBounds", "haveTarget"}
      /\ d.a = a /\ d.b = b /\ d.lo = lo /\ d.hi = hi
      /\ d.haveBounds = bounds.have /\ d.haveTarget = target.have
  BY DEF Paired
<1> HIDE DEF d
<1>10. Paired(d)
  BY <1>6, <1>7, <1>8, <1>9 DEF Paired
<1> QED
  BY <1>1, <1>10

\* Reading the files keeps the parameters right.
LEMMA ReadKeepsParams == ParamInv /\ Read => ParamInv'
PROOF
<1> SUFFICES ASSUME ParamInv, Read PROVE ParamInv'
  OBVIOUS
<1>1. pc' \in Outside
  BY DEF Read, Outside
<1>2. Paired(cheb')
  BY ReadKeepsPairs DEF Read, ParamInv
<1> QED
  BY <1>1, <1>2 DEF ParamInv

\* The checks before step 1 do: the bounds are the file's, or the matrix's.
LEMMA VerifyKeepsParams == ParamInv /\ VerifyParams => ParamInv'
PROOF
<1> SUFFICES ASSUME ParamInv, VerifyParams PROVE ParamInv'
  OBVIOUS
<1>1. CASE ~ParamsOk
  BY <1>1 DEF VerifyParams, ParamInv, Outside
<1>2. CASE ParamsOk /\ cheb.haveBounds
  <2>1. pc' = "init" /\ cheb' = cheb /\ cheb.haveTarget
    BY <1>2 DEF VerifyParams, ParamsOk
  <2>2. Given(cheb)
    BY <1>2, <2>1 DEF ParamInv, Paired, Given
  <2> QED
    BY <2>1, <2>2 DEF ParamInv, Outside
<1>3. CASE ParamsOk /\ ~cheb.haveBounds
  <2>1. PICK g \in Gershgorin : cheb' = [cheb EXCEPT !.a = [val |-> g[1], from |-> "matrix"],
                                                    !.b = [val |-> g[2], from |-> "matrix"]]
    BY <1>3 DEF VerifyParams
  <2>2. pc' = "init" /\ cheb.haveTarget
    BY <1>3 DEF VerifyParams, ParamsOk
  <2>3. /\ DOMAIN cheb' = DOMAIN cheb
        /\ cheb'.a.from = "matrix" /\ cheb'.b.from = "matrix"
        /\ cheb'.lo = cheb.lo /\ cheb'.hi = cheb.hi
        /\ cheb'.haveBounds = cheb.haveBounds /\ cheb'.haveTarget = cheb.haveTarget
    BY <2>1 DEF ParamInv, Paired
  <2>4. Paired(cheb') /\ Given(cheb')
    BY <1>3, <2>2, <2>3 DEF ParamInv, Paired, Given
  <2> QED
    BY <2>2, <2>4 DEF ParamInv, Outside
<1> QED BY <1>1, <1>2, <1>3

\* The filter is set up for a target inside the bounds only; no later step touches either.
LEMMA LaterStepsKeepParams ==
  ASSUME ParamInv, cheb' = cheb,
         \/ Setup
         \/ pc \notin Outside \cup {"init"}
         \/ pc' = pc
         \/ pc' \in Outside
  PROVE  ParamInv'
PROOF
<1>1. CASE Setup
  <2>1. FilterOk(cheb.a.val, cheb.b.val, cheb.lo.val, cheb.hi.val) => Inside(cheb)
    BY DEF FilterOk, Inside
  <2>2. pc = "init" /\ (pc' = "done" \/ FilterOk(cheb.a.val, cheb.b.val, cheb.lo.val, cheb.hi.val))
    BY <1>1 DEF Setup
  <2> QED
    BY <2>1, <2>2 DEF ParamInv, Outside
<1>2. CASE ~Setup
  BY <1>2 DEF ParamInv
<1> QED BY <1>1, <1>2

\* Every step keeps the parameters right.
LEMMA ParamsKept == ParamInv /\ [Next]_vars => ParamInv'
PROOF
<1> SUFFICES ASSUME ParamInv, [Next]_vars PROVE ParamInv'
  OBVIOUS
<1>1. CASE Read
  BY <1>1, ReadKeepsParams
<1>2. CASE VerifyParams
  BY <1>2, VerifyKeepsParams
<1>3. CASE Setup
  <2>1. cheb' = cheb
    BY <1>3 DEF Setup
  <2> QED
    BY <1>3, <2>1, LaterStepsKeepParams
<1>4. CASE \/ OpenStream \/ Filter \/ Orthogonalise \/ CholQRPass1 \/ CholQRPass2
           \/ RayleighRitz \/ Residual \/ Restart \/ Leave \/ StopSpan \/ Report
  <2>1. cheb' = cheb /\ pc \notin Outside \cup {"init"}
    BY <1>4 DEF OpenStream, Filter, Orthogonalise, CholQRPass1, CholQRPass2, RayleighRitz,
                Residual, Restart, Leave, StopSpan, Report, Outside
  <2> QED
    BY <2>1, LaterStepsKeepParams
<1>5. CASE DeviceRecord \/ UNCHANGED vars
  <2>1. cheb' = cheb /\ pc' = pc
    BY <1>5 DEF DeviceRecord, vars
  <2> QED
    BY <2>1, LaterStepsKeepParams
<1> QED
  BY <1>1, <1>2, <1>3, <1>4, <1>5 DEF Next, Solver, Finished

\* A run gets into its loop only with a target and bounds that were given in pairs or found
\* from the matrix, and with the target inside the bounds.
THEOREM OnlyAdmissibleRuns == Spec => []AdmissibleRun
PROOF
<1>1. Init => ParamInv
  BY DEF Init, NoParameters, Default, ParamInv, Paired, Outside
<1>2. ParamInv => AdmissibleRun
  BY DEF ParamInv, AdmissibleRun, Given, Inside, Outside
<1> QED
  BY <1>1, <1>2, ParamsKept, PTL DEF Spec

(***************************************************************************)
(* The timer.  A step of the loop takes one unit of time in its section.   *)
(* On the device the interval stays pending, its pair of records not yet   *)
(* read, until the next synchronisation.                                   *)
(***************************************************************************)
SectionRec == [start : Int, stop : Int, pending : BOOLEAN, totalSec : Int,
               wallStart : Int, wallSec : Int, counts : Int]
TimerRec == [device : BOOLEAN, now : Int, done : Int, sec : [Sections -> SectionRec]]

\* A section with n intervals, all of them added.
Settled(p, n) == ~p.pending /\ p.counts = n /\ p.totalSec = n /\ p.wallSec = n

\* One with n intervals, the last of which the device has still to report.
InFlight(p, n) ==
  /\ p.pending /\ p.stop = p.start + 1
  /\ p.counts = n - 1 /\ p.totalSec = n - 1 /\ p.wallSec = n

Ran(p, n) == Settled(p, n) \/ InFlight(p, n)

\* What is the same of two timers but for one section and the clocks.
SameBut(t, u, s) ==
  /\ u \in TimerRec /\ u.device = t.device
  /\ \A r \in Sections \ {s} : u.sec[r] = t.sec[r]

\* A timer with one section and the clock set anew.
With(t, s, p, at) == [t EXCEPT !.now = at, !.sec[s] = p]

\* No other section is.
LEMMA OneSectionSet ==
  ASSUME NEW t \in TimerRec, NEW s \in Sections, NEW p \in SectionRec, NEW at \in Int
  PROVE  /\ SameBut(t, With(t, s, p, at), s)
         /\ With(t, s, p, at).now = at /\ With(t, s, p, at).sec[s] = p
PROOF
<1> DEFINE sec == [t.sec EXCEPT ![s] = p]
           u == [t EXCEPT !.now = at, !.sec = sec]
<1>1. sec \in [Sections -> SectionRec] /\ sec[s] = p /\ \A r \in Sections \ {s} : sec[r] = t.sec[r]
  BY DEF TimerRec
<1> HIDE DEF sec
<1>2. u \in TimerRec /\ u.now = at /\ u.done = t.done /\ u.device = t.device /\ u.sec = sec
  BY <1>1 DEF TimerRec
<1>3. With(t, s, p, at) = u
  BY DEF sec, TimerRec, With
<1> QED
  BY <1>1, <1>2, <1>3 DEF SameBut

\* The operations keep the type of a section.
LEMMA SectionTypes ==
  ASSUME NEW p \in SectionRec, NEW at \in Int, NEW device \in BOOLEAN
  PROVE  /\ Timer!Started(p, at) \in SectionRec
         /\ Timer!Stopped(p, at, device) \in SectionRec
         /\ Timer!Added(p, at) \in SectionRec
PROOF
<1>1. Timer!Started(p, at) \in SectionRec
  BY DEF Timer!Started, SectionRec
<1>2. Timer!Stopped(p, at, device) \in SectionRec
  <2> DEFINE wall == p.wallSec + (at - p.wallStart)
             total == p.totalSec + (at - p.start)
             counts == p.counts + 1
  <2>1. wall \in Int /\ total \in Int /\ counts \in Int
    BY DEF SectionRec
  <2>2. Timer!Stopped(p, at, device) =
          IF device THEN [p EXCEPT !.stop = at, !.pending = TRUE, !.wallSec = wall]
          ELSE [p EXCEPT !.totalSec = total, !.wallSec = wall, !.counts = counts]
    BY DEF Timer!Stopped
  <2> HIDE DEF wall, total, counts
  <2> QED
    BY <2>1, <2>2 DEF SectionRec
<1>3. Timer!Added(p, at) \in SectionRec
  <2> DEFINE total == p.totalSec + at
             counts == p.counts + 1
  <2>1. total \in Int /\ counts \in Int
    BY DEF SectionRec
  <2>2. Timer!Added(p, at) = [p EXCEPT !.totalSec = total, !.counts = counts, !.pending = FALSE]
    BY DEF Timer!Added
  <2> HIDE DEF total, counts
  <2> QED
    BY <2>1, <2>2 DEF SectionRec
<1> QED BY <1>1, <1>2, <1>3

\* Starting a section with nothing pending reads the clock for it and looks at no other.
LEMMA StartSection ==
  ASSUME NEW t \in TimerRec, NEW s \in Sections, ~t.sec[s].pending
  PROVE  /\ SameBut(t, Timer!Start(t, s), s)
         /\ Timer!Start(t, s).now = t.now + 1
         /\ Timer!Start(t, s).sec[s] = Timer!Started(t.sec[s], t.now + 1)
PROOF
<1> DEFINE at == t.now + 1
           p == Timer!Started(t.sec[s], at)
<1>1. Timer!DrainSection(t, s) = t
  BY DEF Timer!DrainSection
<1>2. Timer!Start(t, s) = With(t, s, p, at)
  BY <1>1 DEF Timer!Start, With
<1>3. at \in Int /\ t.sec[s] \in SectionRec
  BY DEF TimerRec
<1> HIDE DEF at
<1>4. p \in SectionRec
  BY <1>3, SectionTypes
<1> HIDE DEF p
<1>5. SameBut(t, Timer!Start(t, s), s) /\ Timer!Start(t, s).now = at /\ Timer!Start(t, s).sec[s] = p
  BY <1>2, <1>3, <1>4, OneSectionSet
<1> QED
  BY <1>5 DEF at, p

\* Stopping it changes no other.
LEMMA StopSection ==
  ASSUME NEW t \in TimerRec, NEW s \in Sections
  PROVE  /\ SameBut(t, Timer!Stop(t, s), s)
         /\ Timer!Stop(t, s).now = t.now + 1
         /\ Timer!Stop(t, s).sec[s] = Timer!Stopped(t.sec[s], t.now + 1, t.device)
PROOF
<1> DEFINE at == t.now + 1
           p == Timer!Stopped(t.sec[s], at, t.device)
<1>1. Timer!Stop(t, s) = With(t, s, p, at)
  BY DEF Timer!Stop, With
<1>2. at \in Int /\ t.sec[s] \in SectionRec /\ t.device \in BOOLEAN
  BY DEF TimerRec
<1> HIDE DEF at
<1>3. p \in SectionRec
  BY <1>2, SectionTypes
<1> HIDE DEF p
<1>4. SameBut(t, Timer!Stop(t, s), s) /\ Timer!Stop(t, s).now = at /\ Timer!Stop(t, s).sec[s] = p
  BY <1>1, <1>2, <1>3, OneSectionSet
<1> QED
  BY <1>4 DEF at, p

\* A section stopped one unit after its start has one interval more.
LEMMA StoppedInTime ==
  ASSUME NEW p \in SectionRec, NEW device \in BOOLEAN, NEW at \in Int, NEW n \in Int,
         Settled(p, n), p.start = at - 1, p.wallStart = at - 1
  PROVE  Ran(Timer!Stopped(p, at, device), n + 1)
PROOF
<1> DEFINE q == Timer!Stopped(p, at, device)
<1>1. CASE device
  <2>1. q.pending /\ q.stop = at /\ q.start = p.start /\ q.counts = p.counts
        /\ q.totalSec = p.totalSec /\ q.wallSec = p.wallSec + (at - p.wallStart)
    BY <1>1 DEF SectionRec, Timer!Stopped
  <2> HIDE DEF q
  <2>2. InFlight(q, n + 1)
    BY <2>1 DEF Settled, InFlight, SectionRec
  <2> QED BY <2>2 DEF Ran, q
<1>2. CASE ~device
  <2>1. q.pending = p.pending /\ q.counts = p.counts + 1
        /\ q.totalSec = p.totalSec + (at - p.start) /\ q.wallSec = p.wallSec + (at - p.wallStart)
    BY <1>2 DEF SectionRec, Timer!Stopped
  <2> HIDE DEF q
  <2>2. Settled(q, n + 1)
    BY <2>1 DEF Settled, SectionRec
  <2> QED BY <2>2 DEF Ran, q
<1> QED BY <1>1, <1>2

\* The device catching up changes no section.
LEMMA CatchUp ==
  ASSUME NEW t \in TimerRec
  PROVE  LET u == Timer!CaughtUp(t)
         IN u \in TimerRec /\ u.device = t.device /\ u.now = t.now /\ u.sec = t.sec
PROOF
BY DEF Timer!CaughtUp, TimerRec

\* A section timed over one step has one interval more.
LEMMA TimedOnce ==
  ASSUME NEW t \in TimerRec, NEW s \in Sections, NEW n \in Int, Settled(t.sec[s], n)
  PROVE  /\ SameBut(t, Timed(t, s), s)
         /\ Timed(t, s).now = t.now + 2
         /\ Ran(Timed(t, s).sec[s], n + 1)
PROOF
<1> DEFINE u == Timer!Start(t, s)
           v == Timer!CaughtUp(u)
           w == Timer!Stop(v, s)
<1>1. t.sec[s] \in SectionRec /\ t.now \in Int
  BY DEF TimerRec
<1>2. SameBut(t, u, s) /\ u.now = t.now + 1
      /\ u.sec[s] = Timer!Started(t.sec[s], t.now + 1)
  BY StartSection DEF Settled
<1>3. v \in TimerRec /\ v.device = u.device /\ v.now = u.now /\ v.sec = u.sec
  BY <1>2, CatchUp DEF SameBut
<1>4. Timed(t, s) = w
  BY DEF Timed
<1> HIDE DEF u, v
<1>5. SameBut(v, w, s) /\ w.now = v.now + 1 /\ w.sec[s] = Timer!Stopped(v.sec[s], v.now + 1, v.device)
  BY <1>3, StopSection
<1> HIDE DEF w
<1>6. v.sec[s].start = t.now + 1 /\ v.sec[s].wallStart = t.now + 1 /\ Settled(v.sec[s], n)
      /\ v.sec[s] \in SectionRec
  <2> DEFINE at == t.now + 1
             p == t.sec[s]
             q == Timer!Started(p, at)
  <2>1. at \in Int
    BY <1>1
  <2>2. v.sec[s] = q /\ v.sec[s] \in SectionRec
    BY <1>2, <1>3 DEF TimerRec
  <2> HIDE DEF at, p
  <2>3. q.start = at /\ q.wallStart = at /\ q.pending = p.pending /\ q.counts = p.counts
        /\ q.totalSec = p.totalSec /\ q.wallSec = p.wallSec
    BY <1>1, <2>1 DEF SectionRec, Timer!Started, p
  <2>4. Settled(q, n)
    BY <2>3 DEF Settled, p
  <2> QED
    BY <2>2, <2>3, <2>4 DEF at
<1>7. v.device \in BOOLEAN /\ v.now + 1 = t.now + 2
  BY <1>1, <1>2, <1>3 DEF TimerRec
<1>8. Ran(w.sec[s], n + 1)
  BY <1>1, <1>5, <1>6, <1>7, StoppedInTime
<1>9. SameBut(t, w, s)
  BY <1>2, <1>3, <1>5 DEF SameBut
<1> QED
  BY <1>4, <1>5, <1>7, <1>8, <1>9

\* Draining gives a section what is pending, once the device is past its stop.
LEMMA Drained ==
  ASSUME NEW t \in TimerRec, NEW s \in Sections, Timer!Complete(t, s)
  PROVE  LET p == t.sec[s]
             q == Timer!DrainSection(t, s).sec[s]
         IN /\ q \in SectionRec
            /\ ~p.pending => q = p
            /\ p.pending /\ p.start < p.stop => q = Timer!Added(p, p.stop - p.start)
PROOF
<1> DEFINE p == t.sec[s]
           e == Timer!Elapsed(t, p)
<1>1. p \in SectionRec /\ t.done \in Int
  BY DEF TimerRec
<1>2. CASE ~p.pending
  BY <1>1, <1>2 DEF Timer!DrainSection
<1>3. CASE p.pending
  <2>1. e \in Int
    BY <1>1 DEF SectionRec, Timer!Elapsed, Timer!NotReady
  <2>2. p.start < p.stop => e = p.stop - p.start
    BY <1>3 DEF Timer!Elapsed, Timer!Complete
  <2>3. Timer!DrainSection(t, s) = [t EXCEPT !.sec[s] = Timer!Added(p, e)]
    BY <1>3 DEF Timer!DrainSection
  <2> HIDE DEF e
  <2>4. Timer!Added(p, e) \in SectionRec
    BY <1>1, <2>1, SectionTypes
  <2>5. Timer!DrainSection(t, s).sec[s] = Timer!Added(p, e)
    BY <2>3 DEF TimerRec
  <2> QED
    BY <1>3, <2>2, <2>4, <2>5
<1> QED BY <1>2, <1>3

\* A synchronised timer has every interval of every section.
LEMMA SyncSettles ==
  ASSUME NEW t \in TimerRec, Timer!CanSync(t)
  PROVE  /\ Timer!Sync(t) \in TimerRec
         /\ Timer!Sync(t).now = t.now
         /\ \A s \in Sections : Timer!Sync(t).sec[s] = Timer!DrainSection(t, s).sec[s]
         /\ \A s \in Sections, n \in Int : Ran(t.sec[s], n) => Settled(Timer!Sync(t).sec[s], n)
PROOF
<1> DEFINE u == Timer!Sync(t)
<1>1. DOMAIN t.sec = Sections
  BY DEF TimerRec
<1>2. \A s \in Sections : Timer!Complete(t, s)
  BY <1>1 DEF Timer!CanSync
<1>3. u = [t EXCEPT !.sec = [s \in Sections |-> Timer!DrainSection(t, s).sec[s]]]
  BY <1>1 DEF Timer!Sync
<1>4. \A s \in Sections : Timer!DrainSection(t, s).sec[s] \in SectionRec
  BY <1>2, Drained
<1>5. u \in TimerRec /\ u.now = t.now
      /\ \A s \in Sections : u.sec[s] = Timer!DrainSection(t, s).sec[s]
  <2> DEFINE drained == [s \in Sections |-> Timer!DrainSection(t, s).sec[s]]
  <2>1. drained \in [Sections -> SectionRec] /\ \A s \in Sections : drained[s] = Timer!DrainSection(t, s).sec[s]
    BY <1>4
  <2> HIDE DEF drained, u
  <2>2. u = [t EXCEPT !.sec = drained]
    BY <1>3 DEF drained
  <2> QED
    BY <2>1, <2>2 DEF TimerRec
<1> HIDE DEF u
<1>6. ASSUME NEW s \in Sections, NEW n \in Int, Ran(t.sec[s], n)
      PROVE  Settled(u.sec[s], n)
  <2> DEFINE p == t.sec[s]
             q == Timer!DrainSection(t, s).sec[s]
  <2>1. p \in SectionRec
    BY DEF TimerRec
  <2>2. /\ ~p.pending => q = p
        /\ p.pending /\ p.start < p.stop => q = Timer!Added(p, p.stop - p.start)
    BY <1>2, Drained
  <2> HIDE DEF p, q
  <2>3. Settled(q, n)
    <3>1. CASE Settled(p, n)
      BY <2>2, <3>1 DEF Settled
    <3>2. CASE InFlight(p, n)
      <4>1. q = Timer!Added(p, p.stop - p.start)
        BY <2>1, <2>2, <3>2 DEF InFlight, SectionRec
      <4>2. /\ ~q.pending /\ q.counts = p.counts + 1 /\ q.wallSec = p.wallSec
            /\ q.totalSec = p.totalSec + (p.stop - p.start)
        BY <2>1, <4>1 DEF SectionRec, Timer!Added
      <4> QED
        BY <2>1, <3>2, <4>2 DEF InFlight, Settled, SectionRec
    <3> QED
      BY <1>6, <3>1, <3>2 DEF Ran, p
  <2> QED
    BY <1>5, <2>3 DEF q
<1> QED
  BY <1>5, <1>6 DEF u

(***************************************************************************)
(* The intervals of each section, step by step.                            *)
(***************************************************************************)
Work == Sections \ {"span"}

\* In iteration i the sections in past have run, the others are as after the last one,
\* with nothing pending.
Progress(t, i, past) ==
  \A s \in Work : IF s \in past THEN Ran(t.sec[s], i) ELSE Settled(t.sec[s], i - 1)

\* The span runs from the timer's first record.
SpanOpen(t) ==
  /\ Settled(t.sec["span"], 0) /\ t.now >= 1
  /\ t.sec["span"].start = 1 /\ t.sec["span"].wallStart = 1

\* It ended with the last.
SpanClosed(t) ==
  LET p == t.sec["span"]
  IN /\ p.wallSec = t.now - 1
     /\ IF p.pending
        THEN p.start = 1 /\ p.stop = t.now /\ t.now > 1 /\ p.counts = 0 /\ p.totalSec = 0
        ELSE p.counts = 1 /\ p.totalSec = t.now - 1

\* The intervals a section has at the end of the loop.
Intervals(s) == IF s \in {"rr", "resid"} /\ Collapsed THEN ItersRun - 1 ELSE ItersRun

InLoop == {"loop", "ortho", "ortho2", "rr", "resid", "next"}
Measured == {"report", "sync"}

\* A run that came to its timer, and did not give up.
Timing == pc \in InLoop \cup Measured \/ (pc = "done" /\ rc # -1)

\* A pass of CholQR has started the section that the second stops.
OrthoStarted(t) == t.sec["ortho"].start = t.now /\ t.sec["ortho"].wallStart = t.now

\* The head of the loop finds every section of the iterations so far, and a rank.
HeadInv ==
  /\ iter \in 1 .. MaxIter + 1
  /\ iter > 1 => m # 0
  /\ \A s \in Work : Ran(timer.sec[s], iter - 1)

\* Where a step inside an iteration finds the sections in past.
BodyInv(past) == iter \in 1 .. MaxIter /\ Progress(timer, iter, past)

\* What the timer holds at each step.
StepInv ==
  /\ pc = "loop" => HeadInv
  /\ pc \in {"ortho", "ortho2"} => BodyInv({"filter"})
  /\ pc = "ortho2" => OrthoStarted(timer)
  /\ pc = "rr" => BodyInv({"filter", "ortho"}) /\ m # 0
  /\ pc = "resid" => BodyInv({"filter", "ortho", "rr"}) /\ m # 0
  /\ pc = "next" => BodyInv(Work) /\ m # 0
  /\ pc \in Measured => iter \in Int /\ \A s \in Work : Ran(timer.sec[s], Intervals(s))
  /\ pc = "done" /\ rc # -1 =>
       /\ \A s \in Work : Settled(timer.sec[s], Intervals(s))
       /\ ~timer.sec["span"].pending /\ SpanClosed(timer)

TimesInv ==
  /\ other.itermax \in Int
  /\ Timing => timer \in TimerRec
  /\ pc \in InLoop \cup {"report"} => SpanOpen(timer)
  /\ pc = "sync" => SpanClosed(timer)
  /\ StepInv

\* At least one iteration is asked for.
LEMMA SomeIteration == ASSUME other.itermax \in Int PROVE MaxIter \in Int /\ MaxIter >= 1
PROOF
BY ToleranceAssumption DEF MaxIter

\* The two kinds of sections.
LEMMA WorkOrSpan ==
  /\ "span" \in Sections /\ "span" \notin Work
  /\ Work = {"filter", "ortho", "rr", "resid"} /\ Work \subseteq Sections
PROOF
BY DEF Work, Sections

\* A section that has run counts as one of the iteration, and no other is disturbed.
LEMMA OneMore ==
  ASSUME NEW t, NEW u, NEW s \in Work, NEW i \in Int, NEW past, Progress(t, i, past),
         SameBut(t, u, s), Ran(u.sec[s], i)
  PROVE  Progress(u, i, past \cup {s})
PROOF
<1> SUFFICES ASSUME NEW r \in Work
             PROVE  IF r \in past \cup {s} THEN Ran(u.sec[r], i) ELSE Settled(u.sec[r], i - 1)
  BY DEF Progress
<1>1. CASE r = s
  BY <1>1
<1>2. CASE r # s
  <2>1. u.sec[r] = t.sec[r]
    BY <1>2, WorkOrSpan DEF SameBut
  <2>2. IF r \in past THEN Ran(t.sec[r], i) ELSE Settled(t.sec[r], i - 1)
    BY DEF Progress
  <2> QED
    BY <1>2, <2>1, <2>2
<1> QED BY <1>1, <1>2

\* No section of the loop touches the span.
LEMMA SpanStaysOpen ==
  ASSUME NEW t \in TimerRec, NEW u, NEW s \in Work, SameBut(t, u, s), SpanOpen(t), u.now >= t.now
  PROVE  SpanOpen(u)
PROOF
<1>1. u.sec["span"] = t.sec["span"] /\ t.now \in Int /\ u.now \in Int
  BY WorkOrSpan DEF SameBut, TimerRec
<1> QED
  BY <1>1 DEF SpanOpen

\* A section of the loop timed in its turn.
LEMMA TimedInTurn ==
  ASSUME NEW t \in TimerRec, NEW s \in Work, NEW i \in Int, NEW past, s \notin past,
         Progress(t, i, past), SpanOpen(t)
  PROVE  Timed(t, s) \in TimerRec /\ Progress(Timed(t, s), i, past \cup {s}) /\ SpanOpen(Timed(t, s))
PROOF
<1> DEFINE u == Timed(t, s)
<1>1. Settled(t.sec[s], i - 1) /\ s \in Sections /\ i - 1 \in Int /\ (i - 1) + 1 = i
  BY WorkOrSpan DEF Progress
<1>2. SameBut(t, u, s) /\ u.now = t.now + 2 /\ Ran(u.sec[s], i)
  <2> DEFINE n == i - 1
  <2>1. n \in Int /\ Settled(t.sec[s], n) /\ n + 1 = i
    BY <1>1
  <2> HIDE DEF n
  <2> QED
    BY <1>1, <2>1, TimedOnce
<1> HIDE DEF u
<1>3. u.now >= t.now
  BY <1>2 DEF TimerRec
<1>4. u \in TimerRec
  BY <1>2 DEF SameBut
<1> QED
  BY <1>2, <1>3, <1>4, OneMore, SpanStaysOpen DEF u

\* Before the loop, and where a run gives up, no times are claimed.
LEMMA OutsideTheLoop ==
  ASSUME other'.itermax \in Int, ~Timing', pc' \notin InLoop \cup Measured
  PROVE  TimesInv'
PROOF
BY DEF TimesInv, StepInv, Timing, InLoop, Measured

\* The parameters are read and checked without a timer.
LEMMA SetupTimes == TimesInv /\ (Read \/ VerifyParams \/ Setup) => TimesInv'
PROOF
<1> SUFFICES ASSUME TimesInv, Read \/ VerifyParams \/ Setup PROVE TimesInv'
  OBVIOUS
<1>1. other' = other
  BY DEF Read, VerifyParams, Setup, inputs
<1>2. pc' \in {"read", "exit", "init", "stream"} \/ (pc' = "done" /\ rc' = -1)
  BY DEF Read, VerifyParams, Setup
<1>3. ~Timing' /\ pc' \notin InLoop \cup Measured
  BY <1>2 DEF Timing, InLoop, Measured
<1>4. other'.itermax \in Int
  BY <1>1 DEF TimesInv
<1> QED
  BY <1>3, <1>4, OutsideTheLoop

\* A new timer has nothing in any section but the start of the span.
LEMMA OpenTimes == TimesInv /\ OpenStream => TimesInv'
PROOF
<1> SUFFICES ASSUME TimesInv, OpenStream PROVE TimesInv'
  OBVIOUS
<1>1. other' = other /\ other'.itermax \in Int
  BY DEF OpenStream, inputs, TimesInv
<1>2. CASE pc' = "done"
  <2>1. rc' = -1
    BY <1>2 DEF OpenStream
  <2> QED
    BY <1>1, <1>2, <2>1, OutsideTheLoop DEF Timing, InLoop, Measured
<1>3. CASE pc' # "done"
  <2> DEFINE device == (build = "gpu")
             t == Timer!Create(Sections, device)
  <2>1. pc' = "loop" /\ iter' = 1 /\ timer' = Timer!Start(t, "span")
    BY <1>3 DEF OpenStream
  <2>2. Timer!Unused \in SectionRec /\ Settled(Timer!Unused, 0)
    BY DEF Timer!Unused, SectionRec, Settled
  <2>3. device \in BOOLEAN
    OBVIOUS
  <2> HIDE DEF device
  <2>4. t \in TimerRec /\ t.now = 0 /\ \A s \in Sections : t.sec[s] = Timer!Unused
    BY <2>2, <2>3 DEF Timer!Create, TimerRec
  <2> HIDE DEF t
  <2>5. SameBut(t, timer', "span") /\ timer'.now = 1
        /\ timer'.sec["span"] = Timer!Started(Timer!Unused, 1)
    <3>1. ~t.sec["span"].pending /\ t.sec["span"] = Timer!Unused /\ t.now + 1 = 1
      BY <2>2, <2>4, WorkOrSpan DEF Settled
    <3> QED
      BY <2>1, <2>4, <3>1, StartSection, WorkOrSpan
  <2>6. SpanOpen(timer')
    <3>1. LET p == Timer!Started(Timer!Unused, 1)
          IN Settled(p, 0) /\ p.start = 1 /\ p.wallStart = 1
      BY DEF Timer!Started, Timer!Unused, Settled
    <3> QED
      BY <2>5, <3>1 DEF SpanOpen
  <2>7. \A s \in Work : Ran(timer'.sec[s], 0)
    BY <2>2, <2>4, <2>5, WorkOrSpan DEF SameBut, Ran
  <2>8. HeadInv'
    <3>1. iter' \in 1 .. MaxIter' + 1 /\ ~(iter' > 1) /\ iter' - 1 = 0
      BY <1>1, <2>1, SomeIteration DEF TimesInv, MaxIter
    <3> QED
      BY <2>7, <3>1 DEF HeadInv
  <2>9. timer' \in TimerRec
    BY <2>5 DEF SameBut
  <2> QED
    BY <1>1, <2>1, <2>6, <2>8, <2>9 DEF TimesInv, StepInv, Measured
<1> QED BY <1>2, <1>3

\* At the head of the loop what is pending is added, and the filter is timed.
LEMMA FilterTimes == TimesInv /\ Filter => TimesInv'
PROOF
<1> SUFFICES ASSUME TimesInv, Filter PROVE TimesInv'
  OBVIOUS
<1> DEFINE t == Timer!Sync(timer)
<1>1. /\ pc = "loop" /\ pc' = "ortho" /\ iter' = iter /\ other' = other /\ iter <= MaxIter
      /\ Timer!CanSync(timer) /\ timer' = Timed(t, "filter")
  BY DEF Filter, inputs
<1>2. timer \in TimerRec /\ SpanOpen(timer) /\ HeadInv /\ other.itermax \in Int
  BY <1>1 DEF TimesInv, StepInv, Timing, InLoop
<1>3. /\ t \in TimerRec /\ t.now = timer.now
      /\ \A s \in Sections : t.sec[s] = Timer!DrainSection(timer, s).sec[s]
      /\ \A s \in Sections, n \in Int : Ran(timer.sec[s], n) => Settled(t.sec[s], n)
  BY <1>1, <1>2, SyncSettles
<1>4. iter \in Int /\ iter \in 1 .. MaxIter
  BY <1>1, <1>2, SomeIteration DEF HeadInv
<1> HIDE DEF t
<1>5. Progress(t, iter, {})
  <2>1. iter - 1 \in Int
    BY <1>4
  <2> QED
    BY <1>2, <1>3, <2>1, WorkOrSpan DEF Progress, HeadInv
<1>6. SpanOpen(t)
  <2>1. t.sec["span"] = timer.sec["span"]
    <3>1. ~timer.sec["span"].pending
      BY <1>2 DEF SpanOpen, Settled
    <3>2. Timer!DrainSection(timer, "span") = timer
      BY <3>1 DEF Timer!DrainSection
    <3> QED
      BY <1>3, <3>2, WorkOrSpan
  <2> QED
    BY <1>2, <1>3, <2>1 DEF SpanOpen
<1>7. timer' \in TimerRec /\ Progress(timer', iter, {} \cup {"filter"}) /\ SpanOpen(timer')
  BY <1>1, <1>3, <1>4, <1>5, <1>6, TimedInTurn, WorkOrSpan
<1>8. BodyInv({"filter"})'
  <2>1. iter' \in 1 .. MaxIter' /\ {} \cup {"filter"} = {"filter"}
    BY <1>1, <1>4 DEF MaxIter
  <2>2. Progress(timer', iter', {"filter"})
    BY <1>1, <1>7, <2>1
  <2> QED
    BY <2>1, <2>2 DEF BodyInv
<1> QED
  BY <1>1, <1>2, <1>7, <1>8 DEF TimesInv, StepInv, Measured

\* After the orthogonalisation the loop goes on with a rank, or ends without one: then the
\* last two sections have an interval less.
LEMMA OrthogonalisedTimes ==
  ASSUME TimesInv, NEW t \in TimerRec, iter \in 1 .. MaxIter, other' = other, iter' = iter,
         NEW rank, m' = rank, rank = 0 => pc' = "report", rank # 0 => pc' = "rr",
         timer' = t, Progress(t, iter, {"filter", "ortho"}), SpanOpen(t)
  PROVE  TimesInv'
PROOF
<1>1. other'.itermax \in Int /\ MaxIter' = MaxIter /\ MaxIter \in Int /\ iter \in Int /\ iter <= MaxIter
  BY SomeIteration DEF TimesInv, MaxIter
<1>2. CASE rank = 0
  <2>1. pc' = "report" /\ m' = 0
    BY <1>2
  <2>2. Collapsed' /\ ItersRun' = iter
    BY <1>1, <2>1 DEF Collapsed, ItersRun
  <2>3. ASSUME NEW s \in Work PROVE Ran(timer'.sec[s], Intervals(s)')
    <3>1. IF s \in {"filter", "ortho"} THEN Ran(t.sec[s], iter) ELSE Settled(t.sec[s], iter - 1)
      BY DEF Progress
    <3>2. s \in {"filter", "ortho"} <=> s \notin {"rr", "resid"}
      BY WorkOrSpan
    <3>3. Intervals(s)' = IF s \in {"rr", "resid"} THEN iter - 1 ELSE iter
      BY <2>2 DEF Intervals
    <3> QED
      BY <3>1, <3>2, <3>3 DEF Ran
  <2> QED
    BY <1>1, <2>1, <2>3 DEF TimesInv, StepInv, InLoop
<1>3. CASE rank # 0
  <2>1. pc' = "rr" /\ m' # 0
    BY <1>3
  <2>2. BodyInv({"filter", "ortho"})'
    BY <1>1 DEF BodyInv
  <2> QED
    BY <1>1, <2>1, <2>2 DEF TimesInv, StepInv, Measured
<1> QED BY <1>2, <1>3

\* Modified Gram-Schmidt is timed like any other step.
LEMMA OrthogonaliseTimes == TimesInv /\ Orthogonalise => TimesInv'
PROOF
<1> SUFFICES ASSUME TimesInv, Orthogonalise PROVE TimesInv'
  OBVIOUS
<1> DEFINE t == Timed(timer, "ortho")
<1>1. pc = "ortho" /\ iter' = iter /\ other' = other
  BY DEF Orthogonalise, inputs
<1>2. PICK rank : m' = rank /\ timer' = t /\ (rank = 0 => pc' = "report") /\ (rank # 0 => pc' = "rr")
  BY DEF Orthogonalise, Orthogonalised, Timed
<1>3. timer \in TimerRec /\ SpanOpen(timer) /\ BodyInv({"filter"})
  BY <1>1 DEF TimesInv, StepInv, Timing, InLoop
<1>4. iter \in Int /\ "ortho" \notin {"filter"} /\ {"filter"} \cup {"ortho"} = {"filter", "ortho"}
  BY <1>3 DEF BodyInv
<1>5. t \in TimerRec /\ Progress(t, iter, {"filter", "ortho"}) /\ SpanOpen(t)
  <2>1. Progress(t, iter, {"filter"} \cup {"ortho"}) /\ t \in TimerRec /\ SpanOpen(t)
    BY <1>3, <1>4, TimedInTurn, WorkOrSpan DEF BodyInv
  <2> QED BY <1>4, <2>1
<1> HIDE DEF t
<1> QED
  BY <1>1, <1>2, <1>3, <1>5, OrthogonalisedTimes DEF BodyInv

\* The first pass of CholQR starts the section, and stops it where no direction is left.
LEMMA CholQRPass1Times == TimesInv /\ CholQRPass1 => TimesInv'
PROOF
<1> SUFFICES ASSUME TimesInv, CholQRPass1 PROVE TimesInv'
  OBVIOUS
<1> DEFINE u == Timer!Start(timer, "ortho")
           t == Timed(timer, "ortho")
<1>1. pc = "ortho" /\ iter' = iter /\ other' = other
  BY DEF CholQRPass1, inputs
<1>2. \/ m' = 0 /\ timer' = t /\ pc' = "report"
      \/ timer' = Timer!CaughtUp(u) /\ pc' = "ortho2"
  BY DEF CholQRPass1, Orthogonalised, Timed
<1>3. timer \in TimerRec /\ SpanOpen(timer) /\ BodyInv({"filter"}) /\ other.itermax \in Int
  BY <1>1 DEF TimesInv, StepInv, Timing, InLoop
<1>4. iter \in Int /\ iter - 1 \in Int
      /\ "ortho" \notin {"filter"} /\ {"filter"} \cup {"ortho"} = {"filter", "ortho"}
  BY <1>3 DEF BodyInv
<1>5. CASE timer' = t /\ m' = 0 /\ pc' = "report"
  <2>1. Progress(t, iter, {"filter"} \cup {"ortho"}) /\ t \in TimerRec /\ SpanOpen(t)
    BY <1>3, <1>4, TimedInTurn, WorkOrSpan DEF BodyInv
  <2>2. Progress(t, iter, {"filter", "ortho"})
    BY <1>4, <2>1
  <2> HIDE DEF t
  <2> QED
    BY <1>1, <1>3, <1>5, <2>1, <2>2, OrthogonalisedTimes DEF BodyInv
<1>6. CASE timer' = Timer!CaughtUp(u) /\ pc' = "ortho2"
  <2>1. Settled(timer.sec["ortho"], iter - 1) /\ "ortho" \in Work /\ "ortho" \in Sections
    BY <1>3, WorkOrSpan DEF BodyInv, Progress
  <2>2. SameBut(timer, u, "ortho") /\ u.now = timer.now + 1
        /\ u.sec["ortho"] = Timer!Started(timer.sec["ortho"], timer.now + 1)
    BY <1>3, <2>1, StartSection DEF Settled
  <2>3. timer' \in TimerRec /\ timer'.now = u.now /\ timer'.sec = u.sec
    BY <1>6, <2>2, CatchUp DEF SameBut
  <2> HIDE DEF u
  <2>4. Settled(u.sec["ortho"], iter - 1) /\ OrthoStarted(timer')
    <3> DEFINE p == timer.sec["ortho"]
               at == timer.now + 1
               q == Timer!Started(p, at)
    <3>1. p \in SectionRec
      BY <1>3, <2>1 DEF TimerRec
    <3> HIDE DEF at
    <3>2. q.start = at /\ q.wallStart = at /\ q.pending = p.pending /\ q.counts = p.counts
          /\ q.totalSec = p.totalSec /\ q.wallSec = p.wallSec
      BY <3>1 DEF SectionRec, Timer!Started
    <3>3. u.sec["ortho"] = q /\ timer'.sec["ortho"] = q /\ timer'.now = at
      BY <2>2, <2>3 DEF at
    <3> HIDE DEF q
    <3> QED
      BY <2>1, <3>2, <3>3 DEF Settled, OrthoStarted
  <2>5. Progress(timer', iter, {"filter"})
    <3> SUFFICES ASSUME NEW s \in Work
                 PROVE  IF s \in {"filter"} THEN Ran(timer'.sec[s], iter)
                        ELSE Settled(timer'.sec[s], iter - 1)
      BY DEF Progress
    <3>1. CASE s = "ortho"
      BY <2>3, <2>4, <3>1
    <3>2. CASE s # "ortho"
      <4>1. timer'.sec[s] = timer.sec[s]
        BY <2>2, <2>3, <3>2, WorkOrSpan DEF SameBut
      <4> QED
        BY <1>3, <4>1 DEF BodyInv, Progress
    <3> QED BY <3>1, <3>2
  <2>6. SpanOpen(timer')
    <3>1. SpanOpen(u)
      <4>1. u.now >= timer.now
        BY <1>3, <2>2 DEF TimerRec
      <4> QED
        BY <1>3, <2>1, <2>2, <4>1, SpanStaysOpen
    <3> QED
      BY <2>3, <3>1 DEF SpanOpen
  <2>7. BodyInv({"filter"})'
    BY <1>1, <1>3, <2>5 DEF BodyInv, MaxIter
  <2> QED
    BY <1>1, <1>3, <1>6, <2>3, <2>4, <2>6, <2>7 DEF TimesInv, StepInv, Measured
<1> QED BY <1>2, <1>5, <1>6

\* The second pass stops the section, one unit after its start.
LEMMA CholQRPass2Times == TimesInv /\ CholQRPass2 => TimesInv'
PROOF
<1> SUFFICES ASSUME TimesInv, CholQRPass2 PROVE TimesInv'
  OBVIOUS
<1> DEFINE u == Timer!CaughtUp(timer)
           t == Timer!Stop(u, "ortho")
<1>1. pc = "ortho2" /\ iter' = iter /\ other' = other
  BY DEF CholQRPass2, inputs
<1>2. PICK rank : m' = rank /\ timer' = t /\ (rank = 0 => pc' = "report") /\ (rank # 0 => pc' = "rr")
  BY DEF CholQRPass2, Orthogonalised
<1>3. timer \in TimerRec /\ SpanOpen(timer) /\ BodyInv({"filter"}) /\ OrthoStarted(timer)
  BY <1>1 DEF TimesInv, StepInv, Timing, InLoop
<1>4. iter \in Int /\ iter - 1 \in Int /\ {"filter"} \cup {"ortho"} = {"filter", "ortho"}
  BY <1>3 DEF BodyInv
<1>5. Settled(timer.sec["ortho"], iter - 1) /\ "ortho" \in Work /\ "ortho" \in Sections
  BY <1>3, WorkOrSpan DEF BodyInv, Progress
<1>6. u \in TimerRec /\ u.device = timer.device /\ u.now = timer.now /\ u.sec = timer.sec
  BY <1>3, CatchUp
<1> HIDE DEF u
<1>7. SameBut(u, t, "ortho") /\ t.now = u.now + 1
      /\ t.sec["ortho"] = Timer!Stopped(u.sec["ortho"], u.now + 1, u.device)
  BY <1>5, <1>6, StopSection
<1> HIDE DEF t
<1>8. Ran(t.sec["ortho"], iter)
  <2> DEFINE p == u.sec["ortho"]
             at == u.now + 1
             n == iter - 1
  <2>1. p \in SectionRec /\ at \in Int /\ u.device \in BOOLEAN
    BY <1>5, <1>6 DEF TimerRec
  <2>2. p.start = at - 1 /\ p.wallStart = at - 1
    BY <1>3, <1>6 DEF OrthoStarted, TimerRec
  <2>3. n \in Int /\ n + 1 = iter /\ Settled(p, n)
    BY <1>4, <1>5, <1>6
  <2>4. t.sec["ortho"] = Timer!Stopped(p, at, u.device)
    BY <1>7
  <2> HIDE DEF p, at, n
  <2>5. Ran(Timer!Stopped(p, at, u.device), n + 1)
    BY <2>1, <2>2, <2>3, StoppedInTime
  <2> QED
    BY <2>3, <2>4, <2>5
<1>9. SameBut(timer, t, "ortho") /\ t.now >= timer.now /\ t \in TimerRec
  BY <1>3, <1>6, <1>7 DEF SameBut, TimerRec
<1>10. Progress(t, iter, {"filter"} \cup {"ortho"})
  BY <1>3, <1>4, <1>5, <1>8, <1>9, OneMore DEF BodyInv
<1>11. SpanOpen(t)
  BY <1>3, <1>5, <1>9, SpanStaysOpen
<1>12. Progress(t, iter, {"filter", "ortho"})
  BY <1>4, <1>10
<1> QED
  BY <1>1, <1>2, <1>3, <1>9, <1>11, <1>12, OrthogonalisedTimes DEF BodyInv

\* Rayleigh-Ritz and the residuals are timed.
LEMMA LastStepsTimes == TimesInv /\ (RayleighRitz \/ Residual) => TimesInv'
PROOF
<1> SUFFICES ASSUME TimesInv, RayleighRitz \/ Residual PROVE TimesInv'
  OBVIOUS
<1>1. iter' = iter /\ other' = other /\ m' = m
  BY DEF RayleighRitz, Residual, inputs
<1>2. CASE RayleighRitz
  <2> DEFINE t == Timed(timer, "rr")
             past == {"filter", "ortho"}
  <2>1. pc = "rr" /\ pc' = "resid" /\ timer' = t
    BY <1>2 DEF RayleighRitz
  <2>2. timer \in TimerRec /\ SpanOpen(timer) /\ BodyInv(past) /\ m # 0 /\ other.itermax \in Int
    BY <2>1 DEF TimesInv, StepInv, Timing, InLoop
  <2>3. iter \in Int /\ "rr" \notin past /\ past \cup {"rr"} = {"filter", "ortho", "rr"}
    BY <2>2 DEF BodyInv
  <2> HIDE DEF past
  <2>4. t \in TimerRec /\ Progress(t, iter, past \cup {"rr"}) /\ SpanOpen(t)
    BY <2>2, <2>3, TimedInTurn, WorkOrSpan DEF BodyInv
  <2> HIDE DEF t
  <2>5. BodyInv({"filter", "ortho", "rr"})'
    BY <1>1, <2>1, <2>2, <2>3, <2>4 DEF BodyInv, MaxIter
  <2> QED
    BY <1>1, <2>1, <2>2, <2>4, <2>5 DEF TimesInv, StepInv, Measured
<1>3. CASE Residual
  <2> DEFINE t == Timed(timer, "resid")
             past == {"filter", "ortho", "rr"}
  <2>1. pc = "resid" /\ pc' = "next" /\ timer' = t
    BY <1>3 DEF Residual
  <2>2. timer \in TimerRec /\ SpanOpen(timer) /\ BodyInv(past) /\ m # 0 /\ other.itermax \in Int
    BY <2>1 DEF TimesInv, StepInv, Timing, InLoop
  <2>3. iter \in Int /\ "resid" \notin past /\ past \cup {"resid"} = Work
    BY <2>2, WorkOrSpan DEF BodyInv
  <2> HIDE DEF past
  <2>4. t \in TimerRec /\ Progress(t, iter, past \cup {"resid"}) /\ SpanOpen(t)
    BY <2>2, <2>3, TimedInTurn, WorkOrSpan DEF BodyInv
  <2> HIDE DEF t
  <2>5. BodyInv(Work)'
    BY <1>1, <2>1, <2>2, <2>3, <2>4 DEF BodyInv, MaxIter
  <2> QED
    BY <1>1, <2>1, <2>2, <2>4, <2>5 DEF TimesInv, StepInv, Measured
<1> QED BY <1>2, <1>3

\* The next iteration starts where this one ended.
LEMMA RestartTimes == TimesInv /\ Restart => TimesInv'
PROOF
<1> SUFFICES ASSUME TimesInv, Restart PROVE TimesInv'
  OBVIOUS
<1>1. /\ pc = "next" /\ pc' = "loop" /\ iter' = iter + 1 /\ other' = other
      /\ m' = m /\ timer' = timer
  BY DEF Restart, inputs
<1>2. timer \in TimerRec /\ SpanOpen(timer) /\ BodyInv(Work) /\ m # 0 /\ other.itermax \in Int
  BY <1>1 DEF TimesInv, StepInv, Timing, InLoop
<1>3. iter' \in 1 .. MaxIter' + 1 /\ iter' - 1 = iter
  BY <1>1, <1>2, SomeIteration DEF BodyInv, MaxIter
<1>4. HeadInv'
  BY <1>1, <1>2, <1>3 DEF HeadInv, BodyInv, Progress
<1> QED
  BY <1>1, <1>2, <1>4 DEF TimesInv, StepInv, Measured

\* The loop is left after an iteration that converged, or after all of them.
LEMMA LeaveTimes == TimesInv /\ Leave => TimesInv'
PROOF
<1> SUFFICES ASSUME TimesInv, Leave PROVE TimesInv'
  OBVIOUS
<1>1. pc' = "report" /\ iter' = iter /\ other' = other /\ m' = m /\ timer' = timer
  BY DEF Leave, inputs
<1>2. pc = "next" \/ (pc = "loop" /\ iter > MaxIter)
  BY DEF Leave
<1>3. timer \in TimerRec /\ SpanOpen(timer) /\ other.itermax \in Int
  BY <1>2 DEF TimesInv, Timing, InLoop
<1>4. MaxIter' = MaxIter /\ MaxIter \in Int /\ MaxIter >= 1
  BY <1>1, <1>3, SomeIteration DEF MaxIter
<1>5. m # 0 /\ iter \in Int /\ \A s \in Work : Ran(timer.sec[s], ItersRun)
  <2>1. CASE pc = "next"
    <3>1. BodyInv(Work) /\ m # 0
      BY <2>1 DEF TimesInv, StepInv
    <3>2. ItersRun = iter
      BY <1>4, <3>1 DEF BodyInv, ItersRun
    <3> QED
      BY <3>1, <3>2 DEF BodyInv, Progress
  <2>2. CASE pc = "loop" /\ iter > MaxIter
    <3>1. HeadInv
      BY <2>2 DEF TimesInv, StepInv
    <3>2. ItersRun = iter - 1 /\ iter > 1
      BY <1>4, <2>2, <3>1 DEF HeadInv, ItersRun
    <3> QED
      BY <1>4, <3>1, <3>2 DEF HeadInv
  <2> QED BY <1>2, <2>1, <2>2
<1>6. \A s \in Work : Ran(timer'.sec[s], Intervals(s)')
  BY <1>1, <1>4, <1>5 DEF Intervals, Collapsed, ItersRun
<1> QED
  BY <1>1, <1>3, <1>5, <1>6 DEF TimesInv, StepInv, InLoop

\* The span is stopped with the last record.
LEMMA StopSpanTimes == TimesInv /\ StopSpan => TimesInv'
PROOF
<1> SUFFICES ASSUME TimesInv, StopSpan PROVE TimesInv'
  OBVIOUS
<1> DEFINE t == Timer!Stop(timer, "span")
<1>1. /\ pc = "report" /\ pc' = "sync" /\ iter' = iter /\ other' = other /\ m' = m
      /\ timer' = t
  BY DEF StopSpan, inputs
<1>2. timer \in TimerRec /\ SpanOpen(timer) /\ other.itermax \in Int
      /\ iter \in Int /\ \A s \in Work : Ran(timer.sec[s], Intervals(s))
  BY <1>1 DEF TimesInv, StepInv, Timing, Measured
<1>3. SameBut(timer, t, "span") /\ t.now = timer.now + 1
      /\ t.sec["span"] = Timer!Stopped(timer.sec["span"], timer.now + 1, timer.device)
  BY <1>2, StopSection, WorkOrSpan
<1> HIDE DEF t
<1>4. SpanClosed(t)
  <2> DEFINE p == timer.sec["span"]
             at == timer.now + 1
             q == Timer!Stopped(p, at, timer.device)
  <2>1. p \in SectionRec /\ at \in Int /\ at > 1 /\ timer.device \in BOOLEAN
        /\ Settled(p, 0) /\ p.start = 1 /\ p.wallStart = 1
    BY <1>2, WorkOrSpan DEF SpanOpen, TimerRec
  <2>2. t.sec["span"] = q /\ t.now = at
    BY <1>3
  <2> HIDE DEF p, at
  <2>3. CASE timer.device
    <3>1. q.pending /\ q.stop = at /\ q.start = p.start /\ q.counts = p.counts
          /\ q.totalSec = p.totalSec /\ q.wallSec = p.wallSec + (at - p.wallStart)
      BY <2>1, <2>3 DEF SectionRec, Timer!Stopped
    <3> HIDE DEF q
    <3> QED
      BY <2>1, <2>2, <3>1 DEF Settled, SpanClosed
  <2>4. CASE ~timer.device
    <3>1. q.pending = p.pending /\ q.counts = p.counts + 1
          /\ q.totalSec = p.totalSec + (at - p.start) /\ q.wallSec = p.wallSec + (at - p.wallStart)
      BY <2>1, <2>4 DEF SectionRec, Timer!Stopped
    <3> HIDE DEF q
    <3> QED
      BY <2>1, <2>2, <3>1 DEF Settled, SpanClosed
  <2> QED BY <2>3, <2>4
<1>5. \A s \in Work : Ran(timer'.sec[s], Intervals(s)')
  <2>1. \A s \in Work : timer'.sec[s] = timer.sec[s]
    BY <1>1, <1>3, WorkOrSpan DEF SameBut
  <2>2. \A s \in Work : Intervals(s)' = Intervals(s)
    BY <1>1 DEF Intervals, Collapsed, ItersRun, MaxIter
  <2> QED
    BY <1>2, <2>1, <2>2
<1>6. timer' \in TimerRec
  BY <1>1, <1>3 DEF SameBut
<1> QED
  BY <1>1, <1>2, <1>4, <1>5, <1>6 DEF TimesInv, StepInv, InLoop

\* The report waits for the device, and adds what is pending.
LEMMA ReportTimes == TimesInv /\ Report => TimesInv'
PROOF
<1> SUFFICES ASSUME TimesInv, Report PROVE TimesInv'
  OBVIOUS
<1> DEFINE t == Timer!Sync(timer)
<1>1. /\ pc = "sync" /\ pc' = "done" /\ iter' = iter /\ other' = other /\ m' = m
      /\ timer' = t /\ Timer!CanSync(timer)
  BY DEF Report, inputs
<1>2. timer \in TimerRec /\ SpanClosed(timer) /\ other.itermax \in Int
      /\ iter \in Int /\ \A s \in Work : Ran(timer.sec[s], Intervals(s))
  BY <1>1 DEF TimesInv, StepInv, Timing, Measured
<1>3. /\ t \in TimerRec /\ t.now = timer.now
      /\ \A s \in Sections : t.sec[s] = Timer!DrainSection(timer, s).sec[s]
      /\ \A s \in Sections, n \in Int : Ran(timer.sec[s], n) => Settled(t.sec[s], n)
  BY <1>1, <1>2, SyncSettles
<1>4. Timer!Complete(timer, "span")
  BY <1>1, <1>2, WorkOrSpan DEF Timer!CanSync, TimerRec
<1> HIDE DEF t
<1>5. ~t.sec["span"].pending /\ SpanClosed(t)
  <2> DEFINE p == timer.sec["span"]
             q == Timer!DrainSection(timer, "span").sec["span"]
  <2>1. /\ ~p.pending => q = p
        /\ p.pending /\ p.start < p.stop => q = Timer!Added(p, p.stop - p.start)
    BY <1>2, <1>4, Drained, WorkOrSpan
  <2>2. p \in SectionRec /\ timer.now \in Int
    BY <1>2, WorkOrSpan DEF TimerRec
  <2>3. t.sec["span"] = q /\ t.now = timer.now
    BY <1>3, WorkOrSpan
  <2>4. /\ p.wallSec = timer.now - 1
        /\ p.pending => p.start = 1 /\ p.stop = timer.now /\ timer.now > 1
                        /\ p.counts = 0 /\ p.totalSec = 0
        /\ ~p.pending => p.counts = 1 /\ p.totalSec = timer.now - 1
    BY <1>2 DEF SpanClosed
  <2> HIDE DEF p, q
  <2>5. CASE ~p.pending
    BY <2>1, <2>3, <2>4, <2>5 DEF SpanClosed
  <2>6. CASE p.pending
    <3>1. q = Timer!Added(p, p.stop - p.start)
      BY <2>1, <2>2, <2>4, <2>6
    <3>2. /\ ~q.pending /\ q.counts = p.counts + 1 /\ q.wallSec = p.wallSec
          /\ q.totalSec = p.totalSec + (p.stop - p.start)
      BY <2>2, <3>1 DEF SectionRec, Timer!Added
    <3> QED
      BY <2>2, <2>3, <2>4, <2>6, <3>2 DEF SpanClosed
  <2> QED BY <2>5, <2>6
<1>6. \A s \in Work : Settled(timer'.sec[s], Intervals(s)')
  <2>1. \A s \in Work : Intervals(s)' = Intervals(s)
    BY <1>1 DEF Intervals, Collapsed, ItersRun, MaxIter
  <2>2. \A s \in Work : Intervals(s) \in Int
    BY <1>2, SomeIteration DEF Intervals, ItersRun
  <2> QED
    BY <1>1, <1>2, <1>3, <2>1, <2>2, WorkOrSpan
<1> QED
  BY <1>1, <1>2, <1>3, <1>5, <1>6 DEF TimesInv, StepInv, InLoop, Measured

\* What the device completes is on none of the records read so far.
LEMMA DeviceTimes == TimesInv /\ DeviceRecord => TimesInv'
PROOF
<1> SUFFICES ASSUME TimesInv, DeviceRecord PROVE TimesInv'
  OBVIOUS
<1>1. /\ pc' = pc /\ rc' = rc /\ iter' = iter /\ other' = other /\ m' = m
      /\ timer' = [timer EXCEPT !.done = @ + 1]
  BY DEF DeviceRecord, inputs
<1>2. CASE ~Timing
  BY <1>1, <1>2, OutsideTheLoop DEF TimesInv, Timing
<1>3. CASE Timing
  <2>1. timer \in TimerRec
    BY <1>3 DEF TimesInv
  <2>2. timer' \in TimerRec /\ timer'.sec = timer.sec /\ timer'.now = timer.now
    BY <1>1, <2>1 DEF TimerRec
  <2>3. SpanOpen(timer') = SpanOpen(timer) /\ SpanClosed(timer') = SpanClosed(timer)
        /\ OrthoStarted(timer') = OrthoStarted(timer)
    BY <2>2 DEF SpanOpen, SpanClosed, OrthoStarted
  <2>4. /\ \A past : BodyInv(past)' = BodyInv(past)
        /\ HeadInv' = HeadInv
        /\ \A s : Intervals(s)' = Intervals(s)
    BY <1>1, <2>2 DEF BodyInv, Progress, HeadInv, Intervals, Collapsed, ItersRun, MaxIter
  <2>5. StepInv'
    BY <1>1, <2>2, <2>3, <2>4 DEF TimesInv, StepInv
  <2> QED
    BY <1>1, <2>2, <2>3, <2>5 DEF TimesInv, Timing
<1> QED BY <1>2, <1>3

\* Every step keeps the times right.
LEMMA TimesKept == TimesInv /\ [Next]_vars => TimesInv'
PROOF
<1> SUFFICES ASSUME TimesInv, [Next]_vars PROVE TimesInv'
  OBVIOUS
<1>1. CASE Read \/ VerifyParams \/ Setup
  BY <1>1, SetupTimes
<1>2. CASE OpenStream \/ Filter \/ Restart \/ Leave
  BY <1>2, OpenTimes, FilterTimes, RestartTimes, LeaveTimes
<1>3. CASE Orthogonalise \/ CholQRPass1 \/ CholQRPass2 \/ RayleighRitz \/ Residual
  BY <1>3, OrthogonaliseTimes, CholQRPass1Times, CholQRPass2Times, LastStepsTimes
<1>4. CASE StopSpan \/ Report \/ DeviceRecord
  BY <1>4, StopSpanTimes, ReportTimes, DeviceTimes
<1>5. CASE UNCHANGED vars
  BY <1>5 DEF vars, inputs, TimesInv, StepInv, Timing, BodyInv, HeadInv, Intervals, Collapsed,
              ItersRun, MaxIter
<1> QED
  BY <1>1, <1>2, <1>3, <1>4, <1>5 DEF Next, Solver, Finished

\* When a run reports, every section has exactly the intervals of the iterations made, on the
\* device and on the host, none missing and none twice; the span covers all of them.
THEOREM TimesAreExact == Spec => []TimersExact
PROOF
<1>1. Init => TimesInv
  <2> SUFFICES ASSUME Init PROVE TimesInv
    OBVIOUS
  <2>1. pc = "read" /\ other.itermax \in Int
    BY ParametersAssumption DEF Init
  <2> QED
    BY <2>1 DEF TimesInv, StepInv, Timing, InLoop, Measured
<1>2. TimesInv => TimersExact
  <2> SUFFICES ASSUME TimesInv, pc = "done", rc >= 0 PROVE TimersExact
    BY DEF TimersExact
  <2>1. /\ timer \in TimerRec /\ ~timer.sec["span"].pending /\ SpanClosed(timer)
        /\ \A s \in Work : Settled(timer.sec[s], Intervals(s))
    BY DEF TimesInv, StepInv, Timing
  <2>2. \A s \in Work : LET n == IF s \in {"rr", "resid"} /\ Collapsed THEN ItersRun - 1 ELSE ItersRun
                         IN timer.sec[s].counts = n /\ timer.sec[s].totalSec = n
                            /\ timer.sec[s].wallSec = n
    BY <2>1 DEF Settled, Intervals
  <2>3. timer.sec["span"].counts = 1 /\ timer.sec["span"].totalSec = timer.now - 1
        /\ timer.sec["span"].wallSec = timer.now - 1
    BY <2>1 DEF SpanClosed
  <2> QED
    BY <2>2, <2>3 DEF TimersExact, Work
<1> QED
  BY <1>1, <1>2, TimesKept, PTL DEF Spec

(***************************************************************************)
(* The search space and the results.                                       *)
(***************************************************************************)

\* The sizes: the arrays are made for the width asked for, the block never gets wider, and
\* an iteration past its orthogonalisation has a column left.
SizesInv ==
  /\ build \in Builds /\ other.itermax \in Int /\ other.NS \in Int
  /\ pc = "init" => other.NS >= 2
  /\ pc \in {"read", "init"} => Len(accEval) = 0
  /\ Len(accEval) \in Nat /\ rc \in -1 .. Len(accEval)
  /\ NS \in 0 .. Len(accEval) /\ m \in 0 .. NS /\ found \in 0 .. Len(accEval)
  /\ pc \in {"stream"} \cup InLoop => Len(accEval) = other.NS /\ NS >= 1
  /\ iter \in 0 .. MaxIter + 1
  /\ pc \in InLoop => iter >= 1
  /\ pc \in InLoop \ {"loop"} => iter <= MaxIter /\ m >= 1
  /\ pc = "loop" /\ iter > 1 => m = NS

\* The block of each build after its orthogonalisation.
KeptColumns ==
  /\ m = Cardinality(spectrum)
  /\ IsBlock(Y, m, KeptBasis(spectrum).v, KeptBasis(spectrum).mark)
KeptDirections == m = Cardinality(Directions) /\ IsBasisOf(Y, m, Directions, spectrum)

\* What is in the block at each step: all columns before the orthogonalisation, the basis
\* after it; and never a sum of things that do not belong together.
Filled == pc \in {"stream", "ortho"} \/ (pc = "loop" /\ iter = 1)
Based == pc \in {"rr", "resid", "next"} \/ (pc = "loop" /\ iter > 1)
BlockInv ==
  /\ Clean(Y, Len(accEval))
  /\ Filled => IsBlock(Y, NS, Fresh(NS).v, Fresh(NS).mark)
  /\ pc = "ortho2" => build = "gpu" /\ KeptDirections
  /\ Based => IF build = "cpu" THEN KeptColumns ELSE KeptDirections

\* The pairs chosen for the residuals are of the rank, and in the target.
InTarget(c, v) == c.lo.val <= v /\ v <= c.hi.val
Selected ==
  /\ Len(sel) \in 0 .. m
  /\ \A t \in 1 .. Len(sel) : sel[t] \in 0 .. m - 1 /\ InTarget(cheb, ritz[sel[t]])

\* A pair that was accepted.
Good(p) == InTarget(cheb, p.val) /\ Accepted(p.res) /\ (converged => p.res <= Tol)

\* The eigenvalues kept are those of the pairs last accepted, and the loop is not left for
\* nothing.
Stopped == pc \in Measured \/ (pc = "done" /\ rc # -1)
ResultInv ==
  /\ pc = "resid" => Selected
  /\ pc \in {"read", "init", "stream"} => found = 0
  /\ Len(last) = found /\ DOMAIN last = 1 .. found
  /\ \A i \in 1 .. found : accEval[i] = last[i].val /\ Good(last[i])
  /\ converged => found > 0
  /\ Stopped => converged \/ m = 0 \/ iter = MaxIter + 1
  /\ pc = "done" /\ rc # -1 => rc = found

SpaceInv == SizesInv /\ BlockInv /\ ResultInv

\* The invariant implies what the runs check.
LEMMA SpaceIsTyped == SpaceInv => TypeOK
PROOF
<1> SUFFICES ASSUME SpaceInv PROVE TypeOK
  OBVIOUS
<1>1. \A i \in DOMAIN Y : Y[i] # Junk
  BY DEF SpaceInv, BlockInv, Clean
<1>2. pc = "resid" => \A t \in 1 .. Len(sel) : sel[t] \in 0 .. m - 1
  BY DEF SpaceInv, ResultInv, Selected
<1> QED
  BY <1>1, <1>2 DEF SpaceInv, SizesInv, TypeOK

\* A block of vectors holds them, with zero in the padding rows.
LEMMA BlockHolds ==
  ASSUME NEW e, NEW n \in Nat, NEW v, NEW mark, IsBlock(e, n, v, mark)
  PROVE  /\ PaddingZero(e, n, n)
         /\ \A c \in 0 .. n - 1 : \A r \in 0 .. NR - 1 : At(e, n, r, c) = Cell(r, v[c], mark[c])
PROOF
<1>1. ASSUME NEW r \in NR .. VecRows - 1, NEW c \in 0 .. n - 1 PROVE At(e, n, r, c) = Zero
  <2>1. r \in 0 .. VecRows - 1 /\ ~(r < NR)
    BY RowsAssumption
  <2> QED
    BY <2>1 DEF IsBlock, Filling
<1>2. ASSUME NEW c \in 0 .. n - 1, NEW r \in 0 .. NR - 1 PROVE At(e, n, r, c) = Cell(r, v[c], mark[c])
  <2>1. r \in 0 .. VecRows - 1 /\ r < NR
    BY RowsAssumption
  <2> QED
    BY <2>1 DEF IsBlock, Filling
<1> QED
  BY <1>1, <1>2 DEF PaddingZero

\* The basis of each build is the one promised.
LEMMA SpaceIsOrthonormal == SpaceInv => Orthonormal
PROOF
<1> SUFFICES ASSUME SpaceInv, Based
             PROVE  IF build = "cpu"
                    THEN /\ m = Cardinality(spectrum)
                         /\ Holds(Y, m, NthKept, LAMBDA c : [orth |-> KeptBefore(c), unit |-> TRUE])
                    ELSE /\ m = Cardinality(Directions)
                         /\ \E of \in [0 .. m - 1 -> Directions] :
                              /\ \A d \in Directions : \E c \in 0 .. m - 1 : of[c] = d
                              /\ Holds(Y, m, LAMBDA c : of[c], LAMBDA c : spectrum[of[c]])
  BY DEF Orthonormal, Based
<1>0. m \in Nat
  BY DEF SpaceInv, SizesInv
<1>1. CASE build = "cpu"
  <2>1. m = Cardinality(spectrum) /\ IsBlock(Y, m, KeptBasis(spectrum).v, KeptBasis(spectrum).mark)
    BY <1>1 DEF SpaceInv, BlockInv, KeptColumns
  <2>2. \A c \in 0 .. m - 1 : /\ KeptBasis(spectrum).v[c] = NthKept(c)
                              /\ KeptBasis(spectrum).mark[c] = [orth |-> KeptBefore(c), unit |-> TRUE]
    BY <2>1 DEF KeptBasis, NthKept, KeptBefore
  <2>3. /\ PaddingZero(Y, m, m)
        /\ \A c \in 0 .. m - 1 : \A r \in 0 .. NR - 1 :
             At(Y, m, r, c) = Cell(r, KeptBasis(spectrum).v[c], KeptBasis(spectrum).mark[c])
    BY <1>0, <2>1, BlockHolds
  <2>4. \A c \in 0 .. m - 1 : \A r \in 0 .. NR - 1 :
          At(Y, m, r, c) = Cell(r, NthKept(c), [orth |-> KeptBefore(c), unit |-> TRUE])
    BY <2>2, <2>3
  <2>5. Holds(Y, m, NthKept, LAMBDA c : [orth |-> KeptBefore(c), unit |-> TRUE])
    BY <2>3, <2>4 DEF Holds
  <2> QED
    BY <1>1, <2>1, <2>5
<1>2. CASE build # "cpu"
  <2>1. m = Cardinality(Directions) /\ IsBasisOf(Y, m, Directions, spectrum)
    BY <1>2 DEF SpaceInv, BlockInv, KeptDirections
  <2>2. PICK of \in [0 .. m - 1 -> Directions] :
          /\ \A d \in Directions : \E c \in 0 .. m - 1 : of[c] = d
          /\ IsBlock(Y, m, of, [c \in 0 .. m - 1 |-> spectrum[of[c]]])
    BY <2>1 DEF IsBasisOf
  <2> DEFINE mark == [c \in 0 .. m - 1 |-> spectrum[of[c]]]
  <2>3. \A c \in 0 .. m - 1 : mark[c] = spectrum[of[c]]
    OBVIOUS
  <2>4. IsBlock(Y, m, of, mark)
    BY <2>2
  <2> HIDE DEF mark
  <2>5. PaddingZero(Y, m, m)
        /\ \A c \in 0 .. m - 1 : \A r \in 0 .. NR - 1 : At(Y, m, r, c) = Cell(r, of[c], mark[c])
    BY <1>0, <2>4, BlockHolds
  <2>6. \A c \in 0 .. m - 1 : \A r \in 0 .. NR - 1 : At(Y, m, r, c) = Cell(r, of[c], spectrum[of[c]])
    BY <2>3, <2>5
  <2>7. Holds(Y, m, LAMBDA c : of[c], LAMBDA c : spectrum[of[c]])
    BY <2>5, <2>6 DEF Holds
  <2> QED
    BY <1>2, <2>1, <2>2, <2>7
<1> QED BY <1>1, <1>2

\* The report is of the pairs last accepted.
LEMMA SpaceIsReported == SpaceInv => Reported
PROOF
<1> SUFFICES ASSUME SpaceInv, pc = "done", rc >= 0
             PROVE  /\ SubSeq(accEval, 1, rc) = [i \in 1 .. Len(last) |-> last[i].val]
                    /\ \A p \in ToSet(last) :
                         /\ cheb.lo.val <= p.val /\ p.val <= cheb.hi.val
                         /\ p.res * p.res <= Tol * Unit
                         /\ converged => p.res <= Tol
                    /\ converged => rc > 0
                    /\ converged \/ m = 0 \/ iter = MaxIter + 1
  BY DEF Reported
<1>1. rc = found /\ Stopped /\ found \in Nat
  BY DEF SpaceInv, ResultInv, SizesInv, Stopped
<1>2. Len(last) = found /\ DOMAIN last = 1 .. found
      /\ \A i \in 1 .. found : accEval[i] = last[i].val /\ Good(last[i])
  BY DEF SpaceInv, ResultInv
<1>3. SubSeq(accEval, 1, rc) = [i \in 1 .. Len(last) |-> last[i].val]
  <2>1. SubSeq(accEval, 1, rc) = [i \in 1 .. (1 + rc - 1) |-> accEval[i + 1 - 1]]
    BY <1>1
  <2> QED
    BY <1>1, <1>2, <2>1
<1>4. \A p \in ToSet(last) : Good(p)
  BY <1>2 DEF ToSet
<1> QED
  BY <1>1, <1>3, <1>4 DEF SpaceInv, ResultInv, Good, InTarget, Accepted

\* Nothing is claimed of the block or of the results at the start.
LEMMA SpaceAtInit == Init => SpaceInv
PROOF
<1> SUFFICES ASSUME Init PROVE SpaceInv
  OBVIOUS
<1>1. /\ pc = "read" /\ build \in Builds /\ other.itermax \in Int /\ other.NS \in Int
      /\ iter = 0 /\ NS = 0 /\ m = 0 /\ rc = 0 /\ found = 0
      /\ Y = <<>> /\ accEval = <<>> /\ last = <<>> /\ converged = FALSE
  BY ParametersAssumption DEF Init
<1>2. MaxIter \in Int /\ MaxIter >= 1
  BY <1>1, SomeIteration
<1>3. Len(accEval) = 0 /\ Len(last) = 0 /\ DOMAIN last = 1 .. 0
  BY <1>1
<1>4. SizesInv
  BY <1>1, <1>2, <1>3 DEF SizesInv, InLoop
<1>5. Clean(Y, 0)
  <2>1. DOMAIN Y = {} /\ 0 .. VecRows * 0 - 1 = {}
    BY <1>1, RowsAssumption
  <2> QED
    BY <2>1 DEF Clean
<1>6. BlockInv
  BY <1>1, <1>3, <1>5 DEF BlockInv, Filled, Based
<1>7. ResultInv
  BY <1>1, <1>3 DEF ResultInv, Stopped, Measured
<1> QED
  BY <1>4, <1>6, <1>7 DEF SpaceInv

\* Steps that leave the block, the rank and the results alone.
Untouched ==
  UNCHANGED <<build, other, NS, m, Y, spectrum, ritz, sel, results>>

\* The iteration bound is a parameter.
LEMMA SameParameters == ASSUME other' = other PROVE MaxIter' = MaxIter /\ Tol' = Tol
PROOF
BY DEF MaxIter, Tol

\* A pair that is good stays good.
LEMMA StaysGood ==
  ASSUME cheb' = cheb, other' = other, converged' = converged
  PROVE  \A p : Good(p)' <=> Good(p)
PROOF
<1>1. Tol' = Tol
  BY SameParameters
<1> QED
  BY <1>1 DEF Good, InTarget, Accepted

\* Reading the files, and the checks, come before there is a block.
LEMMA ReadKeepsSpace == SpaceInv /\ (Read \/ VerifyParams) => SpaceInv'
PROOF
<1> SUFFICES ASSUME SpaceInv, Read \/ VerifyParams PROVE SpaceInv'
  OBVIOUS
<1>1. Untouched /\ iter' = iter /\ pc = "read"
  BY DEF Read, VerifyParams, Untouched, inputs
<1>2. \/ pc' \in {"read", "exit"} /\ rc' = rc
      \/ pc' = "done" /\ rc' = -1
      \/ pc' = "init" /\ rc' = rc /\ other.NS >= 2
  BY DEF Read, VerifyParams, ParamsOk
<1>3. MaxIter' = MaxIter
  BY <1>1, SameParameters DEF Untouched
<1>4. SizesInv'
  BY <1>1, <1>2, <1>3 DEF SpaceInv, SizesInv, Untouched, InLoop, results
<1>5. BlockInv'
  BY <1>1, <1>2 DEF SpaceInv, BlockInv, Untouched, Filled, Based, results
<1>6. ResultInv'
  BY <1>1, <1>2 DEF SpaceInv, ResultInv, Untouched, Stopped, Measured, results
<1> QED
  BY <1>4, <1>5, <1>6 DEF SpaceInv

\* The setup makes the random block.
LEMMA SetupKeepsSpace == SpaceInv /\ Setup => SpaceInv'
PROOF
<1> SUFFICES ASSUME SpaceInv, Setup PROVE SpaceInv'
  OBVIOUS
<1>1. /\ pc = "init" /\ build' = build /\ other' = other /\ cheb' = cheb /\ iter' = iter /\ m' = m
      /\ spectrum' = spectrum /\ ritz' = ritz /\ sel' = sel
      /\ found' = found /\ last' = last /\ converged' = converged
  BY DEF Setup, inputs
<1>2. MaxIter' = MaxIter
  BY <1>1, SameParameters
<1>3. /\ found = 0 /\ m = 0 /\ NS = 0 /\ other.NS \in Nat /\ other.NS >= 2 /\ rc \in -1 .. 0
      /\ Len(last) = 0 /\ DOMAIN last = 1 .. 0 /\ ~converged
  BY <1>1 DEF SpaceInv, SizesInv, ResultInv
<1>4. CASE pc' = "stream"
  <2>1. /\ NS' = other.NS /\ Y' = RandomBlock(other.NS) /\ rc' = rc
        /\ accEval' = [i \in 1 .. other.NS |-> "stale"]
    BY <1>4 DEF Setup
  <2>2. Len(accEval') = other.NS
    BY <1>3, <2>1
  <2>3. SizesInv'
    BY <1>1, <1>2, <1>3, <1>4, <2>1, <2>2 DEF SpaceInv, SizesInv, InLoop
  <2>4. Clean(Y', other.NS) /\ IsBlock(Y', other.NS, Fresh(other.NS).v, Fresh(other.NS).mark)
    BY <1>3, <2>1, RandomIsBlock
  <2>5. BlockInv'
    BY <1>4, <2>1, <2>2, <2>4 DEF BlockInv, Filled, Based
  <2>6. ResultInv'
    BY <1>1, <1>3, <1>4 DEF ResultInv, Stopped, Measured
  <2> QED
    BY <2>3, <2>5, <2>6 DEF SpaceInv
<1>5. CASE pc' # "stream"
  <2>1. pc' = "done" /\ rc' = -1 /\ NS' = NS /\ Y' = Y /\ accEval' = accEval
    BY <1>5 DEF Setup
  <2>2. SizesInv'
    BY <1>1, <1>2, <2>1 DEF SpaceInv, SizesInv, InLoop
  <2>3. BlockInv'
    BY <2>1 DEF SpaceInv, BlockInv, Filled, Based
  <2>4. ResultInv'
    BY <1>1, <1>3, <2>1 DEF ResultInv, Stopped, Measured
  <2> QED
    BY <2>2, <2>3, <2>4 DEF SpaceInv
<1> QED BY <1>4, <1>5

\* With the stream the loop begins, or the solver gives up.
LEMMA OpenKeepsSpace == SpaceInv /\ OpenStream => SpaceInv'
PROOF
<1> SUFFICES ASSUME SpaceInv, OpenStream PROVE SpaceInv'
  OBVIOUS
<1>1. pc = "stream" /\ Untouched /\ cheb' = cheb
  BY DEF OpenStream, Untouched, inputs
<1>2. MaxIter' = MaxIter /\ MaxIter \in Int /\ MaxIter >= 1
  BY <1>1, SameParameters, SomeIteration DEF Untouched, SpaceInv, SizesInv
<1>3. \/ pc' = "done" /\ rc' = -1 /\ iter' = iter
      \/ pc' = "loop" /\ iter' = 1 /\ rc' = rc
  BY DEF OpenStream
<1>4. SizesInv'
  BY <1>1, <1>2, <1>3 DEF SpaceInv, SizesInv, Untouched, InLoop, results
<1>5. BlockInv'
  BY <1>1, <1>3 DEF SpaceInv, BlockInv, Untouched, Filled, Based, results
<1>6. found = 0 /\ Len(last) = 0 /\ DOMAIN last = 1 .. 0 /\ ~converged
  BY <1>1 DEF SpaceInv, ResultInv
<1>7. ResultInv'
  BY <1>1, <1>3, <1>6 DEF ResultInv, Untouched, Stopped, Measured, results
<1> QED
  BY <1>4, <1>5, <1>7 DEF SpaceInv

\* The filter takes the block to that of all its columns, in the first iteration and, by the
\* rank becoming the width, in the later ones.
LEMMA FilterKeepsSpace == SpaceInv /\ Filter => SpaceInv'
PROOF
<1> SUFFICES ASSUME SpaceInv, Filter PROVE SpaceInv'
  OBVIOUS
<1>1. /\ pc = "loop" /\ pc' = "ortho" /\ iter <= MaxIter /\ m' = NS /\ NS' = NS
      /\ Y' = Filtered(Y, NS) /\ iter' = iter /\ rc' = rc
      /\ build' = build /\ other' = other /\ cheb' = cheb
      /\ found' = found /\ accEval' = accEval /\ last' = last /\ converged' = converged
  BY DEF Filter, inputs, results
<1>2. MaxIter' = MaxIter
  BY <1>1, SameParameters
<1> DEFINE w == Len(accEval)
<1>3. w \in Nat /\ NS \in 1 .. w /\ Clean(Y, w) /\ iter >= 1 /\ iter \in Int
  BY <1>1, SomeIteration DEF SpaceInv, SizesInv, BlockInv, InLoop
<1>4. \E v, mark : IsBlock(Y, NS, v, mark)
  <2>1. CASE iter = 1
    BY <1>1, <2>1 DEF SpaceInv, BlockInv, Filled
  <2>2. CASE iter > 1
    <3>1. m = NS /\ Based
      BY <1>1, <2>2 DEF SpaceInv, SizesInv, Based
    <3>2. CASE build = "cpu"
      BY <3>1, <3>2 DEF SpaceInv, BlockInv, KeptColumns
    <3>3. CASE build # "cpu"
      BY <3>1, <3>3 DEF SpaceInv, BlockInv, KeptDirections, IsBasisOf
    <3> QED BY <3>2, <3>3
  <2> QED
    BY <1>3, <2>1, <2>2
<1> HIDE DEF w
<1>5. Clean(Y', w) /\ IsBlock(Y', NS, Fresh(NS).v, Fresh(NS).mark)
  BY <1>1, <1>3, <1>4, FilteredIsBlock
<1>6. SizesInv'
  BY <1>1, <1>2, <1>3 DEF SpaceInv, SizesInv, InLoop
<1>7. BlockInv'
  BY <1>1, <1>5 DEF BlockInv, Filled, Based, w
<1>8. ResultInv'
  BY <1>1, StaysGood DEF SpaceInv, ResultInv, Stopped, Measured
<1> QED
  BY <1>6, <1>7, <1>8 DEF SpaceInv

\* The orthogonalisation leaves its basis, or nothing.
LEMMA AfterOrtho ==
  ASSUME SpaceInv, pc \in {"ortho", "ortho2"}, UNCHANGED <<inputs, cheb, iter, NS, results, rc>>,
         m' \in 0 .. NS, Clean(Y', Len(accEval)),
         \/ m' = 0 /\ pc' = "report"
         \/ m' # 0 /\ pc' = "rr" /\ (IF build = "cpu" THEN KeptColumns' ELSE KeptDirections')
         \/ m' # 0 /\ pc' = "ortho2" /\ build = "gpu" /\ KeptDirections'
  PROVE  SpaceInv'
PROOF
<1>1. /\ build' = build /\ other' = other /\ cheb' = cheb /\ iter' = iter /\ NS' = NS /\ rc' = rc
      /\ found' = found /\ accEval' = accEval /\ last' = last /\ converged' = converged
  BY DEF inputs, results
<1>2. MaxIter' = MaxIter
  BY <1>1, SameParameters
<1>3. SizesInv'
  BY <1>1, <1>2 DEF SpaceInv, SizesInv, InLoop
<1>4. BlockInv'
  BY <1>1 DEF BlockInv, Filled, Based
<1>5. ResultInv'
  BY <1>1, <1>2, StaysGood DEF SpaceInv, ResultInv, Stopped, Measured
<1> QED
  BY <1>3, <1>4, <1>5 DEF SpaceInv

\* Modified Gram-Schmidt keeps the columns chosen, packed and padded.
LEMMA OrthogonaliseKeepsSpace == SpaceInv /\ Orthogonalise => SpaceInv'
PROOF
<1> SUFFICES ASSUME SpaceInv, Orthogonalise PROVE SpaceInv'
  OBVIOUS
<1> DEFINE w == Len(accEval)
<1>1. /\ pc = "ortho" /\ build = "cpu" /\ UNCHANGED <<inputs, cheb, iter, NS, results, rc>>
      /\ build' = build
  BY DEF Orthogonalise, inputs
<1>2. w \in Nat /\ NS \in 1 .. w /\ NS \in Nat
  BY <1>1 DEF SpaceInv, SizesInv, InLoop
<1>3. Clean(Y, w) /\ IsBlock(Y, NS, Fresh(NS).v, Fresh(NS).mark)
  BY <1>1 DEF SpaceInv, BlockInv, Filled
<1>4. PICK Kept \in SUBSET (0 .. NS - 1) :
        /\ spectrum' = Kept
        /\ Orthogonalised(OrthoMGS(Y, NS, Kept).m, OrthoMGS(Y, NS, Kept).e, Timer!Start(timer, "ortho"))
  BY DEF Orthogonalise
<1> DEFINE r == OrthoMGS(Y, NS, Kept)
           k == Cardinality(Kept)
<1> HIDE DEF w
<1>5. /\ r.m = k /\ k \in 0 .. NS /\ Clean(r.e, w)
      /\ HasColumns(r.e, k, KeptBasis(Kept).v, KeptBasis(Kept).mark)
  BY <1>2, <1>3, OrthoMGSKeeps, ZenonT(40)
<1> HIDE DEF r
<1>6. Orthogonalised(r.m, r.e, Timer!Start(timer, "ortho"))
  BY <1>4 DEF r
<1>7. m' = k
  BY <1>5, <1>6 DEF Orthogonalised
<1> HIDE DEF k
<1>8. CASE k = 0
  <2>1. pc' = "report" /\ Y' = r.e
    BY <1>5, <1>6, <1>8 DEF Orthogonalised
  <2> QED
    BY <1>1, <1>5, <1>7, <1>8, <2>1, AfterOrtho DEF w
<1>9. CASE k # 0
  <2>1. pc' = "rr" /\ Y' = Repad(r.e, k)
    BY <1>1, <1>5, <1>6, <1>9 DEF Orthogonalised
  <2>2. k \in 1 .. w
    BY <1>2, <1>5, <1>9
  <2>3. Clean(Y', w) /\ IsBlock(Y', k, KeptBasis(Kept).v, KeptBasis(Kept).mark)
    BY <1>2, <1>5, <2>1, <2>2, RepadIsBlock
  <2>4. KeptColumns'
    BY <1>4, <1>7, <2>3 DEF KeptColumns, k
  <2> QED
    BY <1>1, <1>5, <1>7, <1>9, <2>1, <2>3, <2>4, AfterOrtho DEF w
<1> QED BY <1>8, <1>9

\* A pass of Cholesky-QR on a block with n columns, and the directions it keeps.
LEMMA PassKeeps ==
  ASSUME NEW w \in Nat, NEW n \in 1 .. w, NEW e, Clean(e, w), NEW v, NEW mark, IsBlock(e, n, v, mark),
         NEW diag \in [0 .. n - 1 -> 0 .. 2]
  PROVE  LET r == CholQRPass(e, n, diag, 1)
             D == {d \in DOMAIN diag : diag[d] >= 1}
         IN  r.m = Cardinality(D) /\ r.m \in 0 .. n /\ Clean(r.e, w) /\ IsBasisOf(r.e, r.m, D, diag)
PROOF
<1>1. diag \in [0 .. n - 1 -> Int] /\ 1 \in Int /\ n \in Nat
  OBVIOUS
<1>2. {d \in DOMAIN diag : diag[d] >= 1} = Above(diag, n, 1)
  BY DEF Above
<1>3. /\ CholQRPass(e, n, diag, 1).m = Cardinality(Above(diag, n, 1))
      /\ CholQRPass(e, n, diag, 1).m \in 0 .. n
      /\ Clean(CholQRPass(e, n, diag, 1).e, w)
      /\ IsBasisOf(CholQRPass(e, n, diag, 1).e, CholQRPass(e, n, diag, 1).m, Above(diag, n, 1), diag)
  BY <1>1, CholQRKeeps
<1> QED
  BY <1>2, <1>3

\* The first pass leaves the directions for the second, or nothing.
LEMMA Pass1KeepsSpace == SpaceInv /\ CholQRPass1 => SpaceInv'
PROOF
<1> SUFFICES ASSUME SpaceInv, CholQRPass1 PROVE SpaceInv'
  OBVIOUS
<1> DEFINE w == Len(accEval)
<1>1. /\ pc = "ortho" /\ build = "gpu" /\ UNCHANGED <<inputs, cheb, iter, NS, results, rc>>
      /\ build' = build
  BY DEF CholQRPass1, inputs
<1>2. w \in Nat /\ NS \in 1 .. w /\ NS \in Nat
  BY <1>1 DEF SpaceInv, SizesInv, InLoop
<1>3. Clean(Y, w) /\ IsBlock(Y, NS, Fresh(NS).v, Fresh(NS).mark)
  BY <1>1 DEF SpaceInv, BlockInv, Filled
<1>4. PICK diag \in [0 .. NS - 1 -> 0 .. 2] :
        /\ spectrum' = diag
        /\ \/ m' = 0 /\ pc' = "report" /\ Y' = Y
           \/ /\ CholQRPass(Y, NS, diag, 1).m # 0
              /\ m' = CholQRPass(Y, NS, diag, 1).m
              /\ Y' = CholQRPass(Y, NS, diag, 1).e
              /\ pc' = "ortho2"
  BY DEF CholQRPass1, Orthogonalised
<1> DEFINE r == CholQRPass(Y, NS, diag, 1)
           D == {d \in DOMAIN diag : diag[d] >= 1}
<1> HIDE DEF w
<1>5. r.m = Cardinality(D) /\ r.m \in 0 .. NS /\ Clean(r.e, w) /\ IsBasisOf(r.e, r.m, D, diag)
  BY <1>2, <1>3, PassKeeps
<1>6. CASE m' = 0 /\ pc' = "report" /\ Y' = Y
  BY <1>1, <1>2, <1>3, <1>6, AfterOrtho DEF w
<1>7. CASE r.m # 0 /\ m' = r.m /\ Y' = r.e /\ pc' = "ortho2"
  <2>1. Directions' = D
    BY <1>4 DEF Directions
  <2> HIDE DEF r, D
  <2>2. KeptDirections'
    BY <1>4, <1>5, <1>7, <2>1 DEF KeptDirections
  <2> QED
    BY <1>1, <1>5, <1>7, <2>2, AfterOrtho DEF w
<1> QED BY <1>4, <1>6, <1>7

\* The second pass goes on from the block of the first.
LEMMA Pass2KeepsSpace == SpaceInv /\ CholQRPass2 => SpaceInv'
PROOF
<1> SUFFICES ASSUME SpaceInv, CholQRPass2 PROVE SpaceInv'
  OBVIOUS
<1> DEFINE w == Len(accEval)
<1>1. /\ pc = "ortho2" /\ UNCHANGED <<inputs, cheb, iter, NS, results, rc>>
      /\ build' = build
  BY DEF CholQRPass2, inputs
<1>2. w \in Nat /\ NS \in 1 .. w /\ NS \in Nat /\ m \in 1 .. NS /\ m \in 1 .. w
  BY <1>1 DEF SpaceInv, SizesInv, InLoop
<1>3. Clean(Y, w) /\ build = "gpu" /\ KeptDirections
  BY <1>1 DEF SpaceInv, BlockInv
<1>4. PICK v, mark : IsBlock(Y, m, v, mark)
  BY <1>3 DEF KeptDirections, IsBasisOf
<1>5. PICK diag \in [0 .. m - 1 -> 0 .. 2] :
        /\ spectrum' = diag
        /\ m' = CholQRPass(Y, m, diag, 1).m
        /\ \/ m' = 0 /\ pc' = "report" /\ Y' = Y
           \/ m' # 0 /\ pc' = "rr" /\ Y' = CholQRPass(Y, m, diag, 1).e
  BY <1>3 DEF CholQRPass2, Orthogonalised
<1> DEFINE r == CholQRPass(Y, m, diag, 1)
           D == {d \in DOMAIN diag : diag[d] >= 1}
<1> HIDE DEF w
<1>6. r.m = Cardinality(D) /\ r.m \in 0 .. m /\ Clean(r.e, w) /\ IsBasisOf(r.e, r.m, D, diag)
  BY <1>2, <1>3, <1>4, PassKeeps
<1>7. CASE m' = 0 /\ pc' = "report" /\ Y' = Y
  BY <1>1, <1>2, <1>3, <1>7, AfterOrtho DEF w
<1>8. CASE m' # 0 /\ pc' = "rr" /\ Y' = r.e
  <2>1. Directions' = D
    BY <1>5 DEF Directions
  <2>2. m' = r.m /\ r.m \in 0 .. NS
    BY <1>2, <1>5, <1>6
  <2> HIDE DEF r, D
  <2>3. KeptDirections'
    BY <1>5, <1>6, <1>8, <2>1, <2>2 DEF KeptDirections
  <2> QED
    BY <1>1, <1>3, <1>6, <1>8, <2>2, <2>3, AfterOrtho DEF w
<1> QED BY <1>5, <1>7, <1>8

\* A set of places listed in ascending order.
LEMMA ListOf ==
  ASSUME NEW n \in Nat, NEW S, S \subseteq 1 .. n
  PROVE  /\ Len(Ascending(S)) = Cardinality(S) /\ Cardinality(S) \in 0 .. n
         /\ \A i \in 1 .. Cardinality(S) : Ascending(S)[i] \in S
PROOF
<1>1. IsFiniteSet(1 .. n) /\ Cardinality(1 .. n) = n
  BY IntervalSize
<1>2. IsFiniteSet(S) /\ Cardinality(S) <= n
  BY <1>1, S \in SUBSET (1 .. n), FS_Subset
<1>3. Cardinality(S) \in Nat
  BY <1>2, FS_CardinalityType
<1>4. Len(Ascending(S)) = Cardinality(S)
  BY <1>3 DEF Ascending
<1>5. \A k \in S : k \in Int
  OBVIOUS
<1>6. \A c \in 0 .. Cardinality(S) - 1 : Ascending(S)[c + 1] \in S
  BY <1>2, <1>5, NthCounts
<1>7. ASSUME NEW i \in 1 .. Cardinality(S) PROVE Ascending(S)[i] \in S
  <2>1. i - 1 \in 0 .. Cardinality(S) - 1 /\ (i - 1) + 1 = i
    BY <1>3
  <2> QED
    BY <1>6, <2>1
<1> QED
  BY <1>2, <1>3, <1>4, <1>7

\* The same for places that count from zero.
LEMMA ListFromZero ==
  ASSUME NEW n \in Nat, NEW S, S \subseteq 0 .. n - 1
  PROVE  /\ Len(Ascending(S)) = Cardinality(S) /\ Cardinality(S) \in 0 .. n
         /\ \A i \in 1 .. Cardinality(S) : Ascending(S)[i] \in S
PROOF
<1>2. IsFiniteSet(S) /\ Cardinality(S) \in 0 .. n
  BY KeptCounts
<1>3. Cardinality(S) \in Nat
  BY <1>2
<1>4. Len(Ascending(S)) = Cardinality(S)
  BY <1>3 DEF Ascending
<1>5. \A k \in S : k \in Int
  OBVIOUS
<1>6. \A c \in 0 .. Cardinality(S) - 1 : Ascending(S)[c + 1] \in S
  BY <1>2, <1>5, NthCounts
<1>7. ASSUME NEW i \in 1 .. Cardinality(S) PROVE Ascending(S)[i] \in S
  <2>1. i - 1 \in 0 .. Cardinality(S) - 1 /\ (i - 1) + 1 = i
    BY <1>3
  <2> QED
    BY <1>6, <2>1
<1> QED
  BY <1>2, <1>4, <1>7

\* Rayleigh-Ritz selects pairs of the rank that lie in the target; the block stays.
LEMMA RitzKeepsSpace == SpaceInv /\ RayleighRitz => SpaceInv'
PROOF
<1> SUFFICES ASSUME SpaceInv, RayleighRitz PROVE SpaceInv'
  OBVIOUS
<1>1. /\ pc = "rr" /\ pc' = "resid" /\ build' = build /\ other' = other /\ cheb' = cheb
      /\ iter' = iter /\ NS' = NS /\ m' = m /\ Y' = Y /\ spectrum' = spectrum /\ rc' = rc
      /\ found' = found /\ accEval' = accEval /\ last' = last /\ converged' = converged
  BY DEF RayleighRitz, inputs, results
<1>2. MaxIter' = MaxIter
  BY <1>1, SameParameters
<1>3. m \in Nat
  BY <1>1 DEF SpaceInv, SizesInv, InLoop
<1>4. Selected'
  <2>1. PICK diag \in [0 .. m - 1 -> Values] :
          /\ ritz' = JacobiEigen(diag).eval
          /\ sel' = Ascending({k \in 0 .. m - 1 : cheb.lo.val <= JacobiEigen(diag).eval[k]
                                                  /\ JacobiEigen(diag).eval[k] <= cheb.hi.val})
    BY DEF RayleighRitz
  <2> DEFINE S == {k \in 0 .. m - 1 : InTarget(cheb, ritz'[k])}
  <2>2. sel' = Ascending(S)
    BY <2>1 DEF InTarget
  <2>3. \A k \in S : k \in 0 .. m - 1 /\ InTarget(cheb, ritz'[k])
    OBVIOUS
  <2>4. S \subseteq 0 .. m - 1
    OBVIOUS
  <2> HIDE DEF S
  <2>5. /\ Len(sel') = Cardinality(S) /\ Cardinality(S) \in 0 .. m
        /\ \A i \in 1 .. Cardinality(S) : sel'[i] \in S
    BY <1>3, <2>2, <2>4, ListFromZero
  <2>7. \A t \in 1 .. Len(sel') : sel'[t] \in 0 .. m' - 1 /\ InTarget(cheb', ritz'[sel'[t]])
    BY <1>1, <2>3, <2>5
  <2> QED
    BY <1>1, <2>5, <2>7 DEF Selected
<1>5. SizesInv'
  BY <1>1, <1>2 DEF SpaceInv, SizesInv, InLoop
<1>6. BlockInv'
  BY <1>1 DEF SpaceInv, BlockInv, Filled, Based, KeptColumns, KeptDirections, Directions
<1>7. ResultInv'
  BY <1>1, <1>2, <1>4, StaysGood DEF SpaceInv, ResultInv, Stopped, Measured
<1> QED
  BY <1>5, <1>6, <1>7 DEF SpaceInv

\* The pairs accepted replace those of the iteration before.
LEMMA ResidualKeepsSpace == SpaceInv /\ Residual => SpaceInv'
PROOF
<1> SUFFICES ASSUME SpaceInv, Residual PROVE SpaceInv'
  OBVIOUS
<1>1. /\ pc = "resid" /\ pc' = "next" /\ build' = build /\ other' = other /\ cheb' = cheb
      /\ iter' = iter /\ NS' = NS /\ m' = m /\ Y' = Y /\ spectrum' = spectrum /\ rc' = rc
  BY DEF Residual, inputs
<1>2. MaxIter' = MaxIter /\ Tol' = Tol
  BY <1>1, SameParameters
<1>3. m \in Nat /\ m <= NS /\ NS \in Nat /\ NS <= Len(accEval) /\ Len(accEval) \in Nat /\ Len(accEval) = other.NS
      /\ rc \in -1 .. other.NS
  BY <1>1 DEF SpaceInv, SizesInv, InLoop
<1>4. Len(sel) \in 0 .. m /\ \A t \in 1 .. Len(sel) : InTarget(cheb, ritz[sel[t]])
  BY <1>1 DEF SpaceInv, ResultInv, Selected
<1>5. PICK res \in [1 .. Len(sel) -> Residuals] :
        LET good == Ascending({t \in 1 .. Len(sel) : Accepted(res[t])})
            accepted == [i \in 1 .. Len(good) |-> [val |-> ritz[sel[good[i]]], res |-> res[good[i]]]]
        IN /\ found' = Len(accepted)
           /\ accEval' = [i \in 1 .. other.NS |-> IF i <= Len(accepted) THEN accepted[i].val ELSE "stale"]
           /\ last' = accepted
           /\ converged' = ConvergedNow(accepted)
  BY DEF Residual
<1> DEFINE G == {t \in 1 .. Len(sel) : Accepted(res[t])}
           good == Ascending(G)
           accepted == [i \in 1 .. Len(good) |-> [val |-> ritz[sel[good[i]]], res |-> res[good[i]]]]
<1>6. /\ found' = Len(accepted)
      /\ accEval' = [i \in 1 .. other.NS |-> IF i <= Len(accepted) THEN accepted[i].val ELSE "stale"]
      /\ last' = accepted
      /\ converged' = ConvergedNow(accepted)
  BY <1>5
<1>7. G \subseteq 1 .. Len(sel) /\ \A t \in G : t \in 1 .. Len(sel) /\ Accepted(res[t])
  OBVIOUS
<1> HIDE DEF G
<1>8. /\ Len(good) \in 0 .. Len(sel)
      /\ \A i \in 1 .. Len(good) : good[i] \in G
  <2> DEFINE n == Len(sel)
  <2>1. n \in Nat /\ G \subseteq 1 .. n
    BY <1>3, <1>4, <1>7
  <2> HIDE DEF n
  <2>2. /\ Len(Ascending(G)) = Cardinality(G) /\ Cardinality(G) \in 0 .. n
        /\ \A i \in 1 .. Cardinality(G) : Ascending(G)[i] \in G
    BY <2>1, ListOf
  <2> QED
    BY <2>2 DEF n
<1> HIDE DEF good
<1>9. Len(accepted) = Len(good) /\ DOMAIN accepted = 1 .. Len(good)
  BY <1>8
<1>10. \A i \in 1 .. Len(good) : InTarget(cheb, accepted[i].val) /\ Accepted(accepted[i].res)
  <2> SUFFICES ASSUME NEW i \in 1 .. Len(good)
               PROVE  InTarget(cheb, accepted[i].val) /\ Accepted(accepted[i].res)
    OBVIOUS
  <2>1. good[i] \in 1 .. Len(sel) /\ Accepted(res[good[i]])
    BY <1>7, <1>8
  <2>2. InTarget(cheb, ritz[sel[good[i]]])
    BY <1>4, <2>1
  <2>3. accepted[i].val = ritz[sel[good[i]]] /\ accepted[i].res = res[good[i]]
    OBVIOUS
  <2> HIDE DEF accepted
  <2> QED
    BY <2>1, <2>2, <2>3
<1>11. Len(good) = 0 => accepted = <<>>
  OBVIOUS
<1> HIDE DEF accepted
<1>12. found' = Len(good) /\ found' \in 0 .. other.NS
  BY <1>3, <1>4, <1>6, <1>8, <1>9
<1>13. Len(accEval') = other.NS /\ \A i \in 1 .. found' : accEval'[i] = accepted[i].val
  BY <1>3, <1>6, <1>9, <1>12
<1>14. ASSUME converged' PROVE found' > 0 /\ \A i \in 1 .. found' : accepted[i].res <= Tol
  <2>1. ConvergedNow(accepted)
    BY <1>6, <1>14
  <2>2. accepted # <<>> /\ \A i \in DOMAIN accepted : accepted[i].res <= Tol
    BY <2>1 DEF ConvergedNow, ToSet
  <2> QED
    BY <1>8, <1>9, <1>11, <1>12, <2>2
<1>15. \A i \in 1 .. found' : Good(last[i])'
  <2>1. \A p : InTarget(cheb, p.val) /\ Accepted(p.res) /\ (converged' => p.res <= Tol) => Good(p)'
    BY <1>1, <1>2 DEF Good, Accepted
  <2>2. ASSUME NEW i \in 1 .. found'
        PROVE  InTarget(cheb, last'[i].val) /\ Accepted(last'[i].res) /\ (converged' => last'[i].res <= Tol)
    BY <1>6, <1>10, <1>12, <1>14
  <2> QED
    BY <2>1, <2>2
<1>16. SizesInv'
  BY <1>1, <1>2, <1>3, <1>12, <1>13 DEF SpaceInv, SizesInv, InLoop
<1>17. BlockInv'
  BY <1>1, <1>3, <1>13 DEF SpaceInv, BlockInv, Filled, Based, KeptColumns, KeptDirections, Directions
<1>18. ResultInv'
  BY <1>1, <1>6, <1>9, <1>12, <1>13, <1>14, <1>15 DEF ResultInv, Stopped, Measured
<1> QED
  BY <1>16, <1>17, <1>18 DEF SpaceInv

\* The next iteration filters as many columns as the rank.
LEMMA RestartKeepsSpace == SpaceInv /\ Restart => SpaceInv'
PROOF
<1> SUFFICES ASSUME SpaceInv, Restart PROVE SpaceInv'
  OBVIOUS
<1>1. /\ pc = "next" /\ pc' = "loop" /\ build' = build /\ other' = other /\ cheb' = cheb
      /\ iter' = iter + 1 /\ NS' = m /\ m' = m /\ Y' = Y /\ spectrum' = spectrum /\ rc' = rc
      /\ found' = found /\ accEval' = accEval /\ last' = last /\ converged' = converged
  BY DEF Restart, inputs, results
<1>2. MaxIter' = MaxIter /\ MaxIter \in Int
  BY <1>1, SameParameters, SomeIteration DEF SpaceInv, SizesInv
<1>3. SizesInv' /\ iter' > 1
  BY <1>1, <1>2 DEF SpaceInv, SizesInv, InLoop
<1>4. BlockInv'
  BY <1>1, <1>3 DEF SpaceInv, BlockInv, Filled, Based, KeptColumns, KeptDirections, Directions
<1>5. ResultInv'
  BY <1>1, <1>2, StaysGood DEF SpaceInv, ResultInv, Stopped, Measured
<1> QED
  BY <1>3, <1>4, <1>5 DEF SpaceInv

\* The loop is left after convergence or the last iteration, and the result is that found.
LEMMA LastStepsKeepSpace == SpaceInv /\ (Leave \/ StopSpan \/ Report) => SpaceInv'
PROOF
<1> SUFFICES ASSUME SpaceInv, Leave \/ StopSpan \/ Report PROVE SpaceInv'
  OBVIOUS
<1>1. /\ build' = build /\ other' = other /\ cheb' = cheb
      /\ iter' = iter /\ NS' = NS /\ m' = m /\ Y' = Y /\ spectrum' = spectrum
      /\ found' = found /\ accEval' = accEval /\ last' = last /\ converged' = converged
  BY DEF Leave, StopSpan, Report, inputs, results
<1>2. MaxIter' = MaxIter /\ MaxIter \in Int
  BY <1>1, SameParameters, SomeIteration DEF SpaceInv, SizesInv
<1>3. \/ pc' = "report" /\ rc' = rc /\ (converged \/ iter > MaxIter)
      \/ pc = "report" /\ pc' = "sync" /\ rc' = rc
      \/ pc = "sync" /\ pc' = "done" /\ rc' = found
  BY DEF Leave, StopSpan, Report
<1>4. SizesInv'
  BY <1>1, <1>2, <1>3 DEF SpaceInv, SizesInv, InLoop
<1>5. BlockInv'
  BY <1>1, <1>3 DEF SpaceInv, BlockInv, Filled, Based
<1>6. converged \/ m = 0 \/ iter = MaxIter + 1
  <2>1. iter \in 0 .. MaxIter + 1
    BY DEF SpaceInv, SizesInv
  <2> QED
    BY <1>2, <1>3, <2>1 DEF SpaceInv, ResultInv, Stopped, Measured
<1>7. ResultInv'
  BY <1>1, <1>2, <1>3, <1>6, StaysGood DEF SpaceInv, ResultInv, Stopped, Measured
<1> QED
  BY <1>4, <1>5, <1>7 DEF SpaceInv

\* The device changes the timer alone.
LEMMA RestKeepsSpace == SpaceInv /\ (DeviceRecord \/ UNCHANGED vars) => SpaceInv'
PROOF
<1> SUFFICES ASSUME SpaceInv, DeviceRecord \/ UNCHANGED vars PROVE SpaceInv'
  OBVIOUS
<1>1. /\ pc' = pc /\ build' = build /\ other' = other /\ cheb' = cheb /\ iter' = iter /\ NS' = NS
      /\ m' = m /\ Y' = Y /\ spectrum' = spectrum /\ ritz' = ritz /\ sel' = sel /\ rc' = rc
      /\ found' = found /\ accEval' = accEval /\ last' = last /\ converged' = converged
  BY DEF DeviceRecord, vars, inputs, results
<1>2. MaxIter' = MaxIter
  BY <1>1, SameParameters
<1>3. SizesInv'
  BY <1>1, <1>2 DEF SpaceInv, SizesInv
<1>4. BlockInv'
  BY <1>1 DEF SpaceInv, BlockInv, Filled, Based, KeptColumns, KeptDirections, Directions
<1>5. ResultInv'
  <2>1. Selected' = Selected
    BY <1>1 DEF Selected
  <2> QED
    BY <1>1, <1>2, <2>1, StaysGood DEF SpaceInv, ResultInv, Stopped
<1> QED
  BY <1>3, <1>4, <1>5 DEF SpaceInv

\* Every step keeps the search space and the results.
LEMMA SpaceKept == SpaceInv /\ [Next]_vars => SpaceInv'
PROOF
BY ReadKeepsSpace, SetupKeepsSpace, OpenKeepsSpace, FilterKeepsSpace, OrthogonaliseKeepsSpace,
   Pass1KeepsSpace, Pass2KeepsSpace, RitzKeepsSpace, ResidualKeepsSpace, RestartKeepsSpace,
   LastStepsKeepSpace, RestKeepsSpace DEF Next, Solver, Finished

\* In every run the rank stays within the arrays, the pairs chosen are of the rank, and no
\* cell of the search block is ever a sum of things that do not belong together.
THEOREM SearchSpaceTypes == Spec => []TypeOK
PROOF
BY SpaceAtInit, SpaceKept, SpaceIsTyped, PTL DEF Spec

\* In every run, whatever columns the orthogonalisation drops and however often, Rayleigh-Ritz,
\* the residuals and the next filter find an orthonormal basis of exactly the directions that
\* survived, packed at the rank, with zero in the padding.
THEOREM BasisIsOrthonormal == Spec => []Orthonormal
PROOF
BY SpaceAtInit, SpaceKept, SpaceIsOrthonormal, PTL DEF Spec

\* In every run what is reported are the pairs of the last complete iteration, in the target
\* and within the tolerance, and a run ends early only when it converged or lost its rank.
THEOREM ReportIsSound == Spec => []Reported
PROOF
BY SpaceAtInit, SpaceKept, SpaceIsReported, PTL DEF Spec
===============================================================================
