------------------------ MODULE Localization_proofs -------------------------
(***************************************************************************)
(* What the operators of Localization compute, for every matrix, number of *)
(* ranks and order of the neighbours: the sort lists each external once,   *)
(* the binary search finds the owner, the displacements tile the buffers,  *)
(* reorderExternals fills each bucket without gaps, the rows split.        *)
(*                                                                         *)
(* The provers cannot instantiate an induction theorem with a predicate.   *)
(* The inductions below look at the least counterexample instead, and a    *)
(* recursive function is shown to exist by its value in closed form.       *)
(***************************************************************************)
EXTENDS Localization, FiniteSetTheorems, SequenceTheorems, WellFoundedInduction, TLAPS

(***************************************************************************)
(* Natural numbers and sequences.                                          *)
(***************************************************************************)

\* < on the naturals is well founded, as a relation that contains it.
LEMMA NatOrder ==
  \E R : /\ \A T : T \subseteq Nat /\ T # {} => \E x \in T : \A y \in T : <<y, x>> \notin R
         /\ \A y, x \in Nat : y < x => <<y, x>> \in R
PROOF
<1> DEFINE R == OpToRel(<, Nat)
<1>1. IsWellFoundedOn(R, Nat)
  BY NatLessThanWellFounded
<1>2. \A y, x \in Nat : y < x => <<y, x>> \in R
  BY Zenon DEF OpToRel
<1> HIDE DEF R
<1>3. \A T : T \subseteq Nat /\ T # {} => \E x \in T : \A y \in T : <<y, x>> \notin R
  BY <1>1, WFMin, Zenon
<1> QED
  BY <1>2, <1>3, Zenon

\* Every set of naturals that is not empty has a least element.
LEMMA Least ==
  ASSUME NEW T, \A n \in T : n \in Nat, T # {}
  PROVE  \E x \in T : \A y \in T : x <= y
PROOF
<1>1. PICK R : /\ \A U : U \subseteq Nat /\ U # {} => \E x \in U : \A y \in U : <<y, x>> \notin R
               /\ \A y, x \in Nat : y < x => <<y, x>> \in R
  BY NatOrder, Zenon
<1>2. PICK x \in T : \A y \in T : <<y, x>> \notin R
  BY <1>1, Zenon
<1>3. x \in Nat /\ \A y \in T : y \in Nat /\ ~ (y < x)
  BY <1>1, <1>2
<1> QED
  BY <1>2, <1>3

\* A function on 1 .. m is a sequence of length m.
LEMMA LengthOf ==
  ASSUME NEW m \in Nat, NEW S, NEW s \in [1 .. m -> S]
  PROVE  s \in Seq(S) /\ Len(s) = m
PROOF
<1>1. s \in Seq(S)
  BY SeqDef
<1>2. Len(s) \in Nat /\ DOMAIN s = 1 .. Len(s)
  BY <1>1, LenProperties
<1> QED
  BY <1>1, <1>2

\* 1 .. k has k elements.
LEMMA IntervalSize == \A k \in Nat : IsFiniteSet(1 .. k) /\ Cardinality(1 .. k) = k
PROOF
BY FS_Interval

(***************************************************************************)
(* Counting and sorting.                                                   *)
(***************************************************************************)

\* Every member of S has its own count, from 0 to the size of S less 1.
LEMMA CountBelowInjective ==
  ASSUME NEW S, IsFiniteSet(S), \A k \in S : k \in Int, NEW i \in S
  PROVE  /\ CountBelow(S, i) \in 0 .. Cardinality(S) - 1
         /\ \A j \in S : i < j => CountBelow(S, i) < CountBelow(S, j)
PROOF
<1> DEFINE below(j) == {k \in S : k < j}
<1>1. \A j : /\ IsFiniteSet(below(j)) /\ Cardinality(below(j)) \in Nat
             /\ Cardinality(below(j)) <= Cardinality(S)
             /\ Cardinality(below(j)) = Cardinality(S) => below(j) = S
  <2>1. \A j : below(j) \in SUBSET S
    OBVIOUS
  <2> HIDE DEF below
  <2> QED
    BY <2>1, FS_Subset, FS_CardinalityType
<1>2. Cardinality(S) \in Nat
  BY FS_CardinalityType
<1>3. Cardinality(below(i)) # Cardinality(S)
  <2>1. i \notin below(i)
    OBVIOUS
  <2> QED
    BY <1>1, <2>1
<1>4. ASSUME NEW j \in S, i < j PROVE Cardinality(below(i)) < Cardinality(below(j))
  <2>1. below(i) \cup {i} \in SUBSET below(j) /\ i \notin below(i)
    BY <1>4
  <2> HIDE DEF below
  <2>2. Cardinality(below(i) \cup {i}) = Cardinality(below(i)) + 1
    BY <1>1, <2>1, FS_AddElement
  <2>3. Cardinality(below(i) \cup {i}) <= Cardinality(below(j))
    BY <1>1, <2>1, FS_Subset
  <2> QED
    BY <1>1, <2>2, <2>3
<1> QED
  BY <1>1, <1>2, <1>3, <1>4 DEF CountBelow

\* Every count is that of a member.
LEMMA CountBelowOnto ==
  ASSUME NEW S, IsFiniteSet(S), \A k \in S : k \in Int, NEW n \in 0 .. Cardinality(S) - 1
  PROVE  \E i \in S : CountBelow(S, i) = n
PROOF
<1> DEFINE m == Cardinality(S)
           f == [i \in S |-> CountBelow(S, i)]
<1>1. m \in Nat
  BY FS_CardinalityType
<1>2. \A i \in S : CountBelow(S, i) \in 0 .. m - 1
  BY CountBelowInjective
<1>3. ASSUME NEW i \in S, NEW j \in S, f[i] = f[j] PROVE i = j
  <2>1. CountBelow(S, i) = CountBelow(S, j) /\ CountBelow(S, i) \in 0 .. m - 1
    BY <1>2, <1>3
  <2>2. ~(i < j) /\ ~(j < i) /\ i \in Int /\ j \in Int
    BY <2>1, CountBelowInjective
  <2> QED
    BY <2>2
<1>4. f \in Injection(S, 0 .. m - 1)
  BY <1>2, <1>3 DEF Injection, IsInjective
<1>5. IsFiniteSet(0 .. m - 1) /\ Cardinality(0 .. m - 1) = m
  BY <1>1, FS_Interval
<1> HIDE DEF f
<1>6. f \in Surjection(S, 0 .. m - 1)
  BY <1>4, <1>5, FS_Injection
<1>7. PICK i \in S : f[i] = n
  BY <1>6 DEF Surjection
<1> QED
  BY <1>7 DEF f

\* Ascending lists every member once, the smaller before the larger.
LEMMA AscendingSorts ==
  ASSUME NEW S, IsFiniteSet(S), \A k \in S : k \in Int
  PROVE  /\ Cardinality(S) \in Nat
         /\ Ascending(S) \in [1 .. Cardinality(S) -> S]
         /\ \A i, j \in 1 .. Cardinality(S) : i < j => Ascending(S)[i] < Ascending(S)[j]
         /\ \A i, j \in 1 .. Cardinality(S) : Ascending(S)[i] = Ascending(S)[j] => i = j
         /\ \A c \in S : \E i \in 1 .. Cardinality(S) : Ascending(S)[i] = c
PROOF
<1> DEFINE m == Cardinality(S)
           a == Ascending(S)
<1>1. m \in Nat
  BY FS_CardinalityType
<1>2. ASSUME NEW n \in 1 .. m PROVE a[n] \in S /\ CountBelow(S, a[n]) = n - 1
  <2>1. n - 1 \in 0 .. m - 1
    BY <1>1
  <2>2. \E i \in S : CountBelow(S, i) = n - 1
    BY <2>1, CountBelowOnto
  <2>3. a[n] = CHOOSE i \in S : CountBelow(S, i) = n - 1
    BY DEF Ascending
  <2> QED
    BY <2>2, <2>3
<1>3. a \in [1 .. m -> S]
  BY <1>2 DEF Ascending
<1>4. ASSUME NEW i \in 1 .. m, NEW j \in 1 .. m, i < j PROVE a[i] < a[j]
  <2>1. CountBelow(S, a[i]) < CountBelow(S, a[j]) /\ a[i] \in S /\ a[j] \in S
    BY <1>1, <1>2, <1>4
  <2>2. CountBelow(S, a[i]) \in Int /\ CountBelow(S, a[j]) \in Int
    BY <2>1, CountBelowInjective
  <2>3. ~(a[j] < a[i]) /\ a[i] # a[j]
    BY <2>1, <2>2, CountBelowInjective
  <2> QED
    BY <2>1, <2>3
<1>5. ASSUME NEW i \in 1 .. m, NEW j \in 1 .. m, a[i] = a[j] PROVE i = j
  BY <1>1, <1>2, <1>5
<1>6. ASSUME NEW c \in S PROVE \E i \in 1 .. m : a[i] = c
  <2> DEFINE i == CountBelow(S, c) + 1
  <2>1. i \in 1 .. m
    BY <1>1, CountBelowInjective
  <2>2. CountBelow(S, a[i]) = CountBelow(S, c) /\ a[i] \in S
    BY <1>2, <2>1, CountBelowInjective
  <2>3. CountBelow(S, c) \in Int
    BY CountBelowInjective
  <2>4. ~(a[i] < c) /\ ~(c < a[i])
    BY <2>2, <2>3, CountBelowInjective
  <2>5. a[i] = c
    BY <2>2, <2>4
  <2> QED
    BY <2>1, <2>5
<1> QED
  BY <1>1, <1>3, <1>4, <1>5, <1>6

(***************************************************************************)
(* Displacements.                                                          *)
(***************************************************************************)

\* The elements of the first n blocks, as pairs: its block, its place in it.
Cells(counts, n) == UNION {{b} \X (1 .. counts[b]) : b \in 1 .. n}

\* The first n blocks and the next one have their elements together.
LEMMA CellsGrow ==
  ASSUME NEW m \in Nat, NEW counts, \A b \in 1 .. m : counts[b] \in Nat, NEW n \in 1 .. m
  PROVE  /\ IsFiniteSet(Cells(counts, n - 1)) /\ IsFiniteSet(Cells(counts, n))
         /\ Cardinality(Cells(counts, n)) = Cardinality(Cells(counts, n - 1)) + counts[n]
         /\ Cardinality(Cells(counts, n - 1)) \in Nat
PROOF
<1> DEFINE block(b) == {b} \X (1 .. counts[b])
<1>1. ASSUME NEW l \in 0 .. m PROVE IsFiniteSet(Cells(counts, l))
  <2> DEFINE f == [b \in 1 .. l |-> block(b)]
             T == {block(b) : b \in 1 .. l}
  <2>1. f \in Surjection(1 .. l, T)
    BY DEF Surjection
  <2>2. IsFiniteSet(1 .. l)
    BY FS_Interval
  <2>3. IsFiniteSet(T)
    <3> HIDE DEF f, T
    <3> QED
      BY <2>1, <2>2, FS_Surjection
  <2>4. ASSUME NEW b \in 1 .. l PROVE IsFiniteSet(block(b))
    <3>1. counts[b] \in Nat
      OBVIOUS
    <3>2. IsFiniteSet({b}) /\ IsFiniteSet(1 .. counts[b])
      BY <3>1, FS_Singleton, IntervalSize, Zenon
    <3> QED
      BY <3>2, FS_Product
  <2>5. \A U \in T : IsFiniteSet(U)
    BY <2>4
  <2>6. IsFiniteSet(UNION T)
    <3> HIDE DEF T
    <3> QED
      BY <2>3, <2>5, FS_UNION
  <2> QED
    BY <2>6 DEF Cells
<1>2. IsFiniteSet(block(n)) /\ Cardinality(block(n)) = counts[n]
  <2>1. IsFiniteSet({n}) /\ Cardinality({n}) = 1
    BY FS_Singleton
  <2>0. counts[n] \in Nat
    OBVIOUS
  <2>2. IsFiniteSet(1 .. counts[n]) /\ Cardinality(1 .. counts[n]) = counts[n]
    BY <2>0, IntervalSize, Zenon
  <2>3. /\ IsFiniteSet({n} \X (1 .. counts[n]))
        /\ Cardinality({n} \X (1 .. counts[n])) = Cardinality({n}) * Cardinality(1 .. counts[n])
    BY <2>1, <2>2, FS_Product
  <2> QED
    BY <2>1, <2>2, <2>3
<1>3. Cells(counts, n) = Cells(counts, n - 1) \cup block(n)
  <2>1. 1 .. n = (1 .. n - 1) \cup {n}
    OBVIOUS
  <2> QED
    BY <2>1 DEF Cells
<1>4. Cells(counts, n - 1) \cap block(n) = {}
  BY DEF Cells
<1>5. n - 1 \in 0 .. m /\ n \in 0 .. m
  OBVIOUS
<1>6. IsFiniteSet(Cells(counts, n - 1)) /\ Cardinality(Cells(counts, n - 1)) \in Nat
  BY <1>1, <1>5, FS_CardinalityType
<1> HIDE DEF block
<1>7. Cardinality(Cells(counts, n))
        = Cardinality(Cells(counts, n - 1)) + counts[n] - Cardinality({})
  BY <1>2, <1>3, <1>4, <1>6, FS_Union
<1> QED
  BY <1>1, <1>5, <1>6, <1>7, FS_EmptySet

\* The running sum is what its recursion says.
LEMMA PrefixSum ==
  ASSUME NEW m \in Nat, NEW counts \in [1 .. m -> Nat]
  PROVE  /\ Prefix(counts, 1) = 0
         /\ \A i \in 1 .. m : Prefix(counts, i + 1) = Prefix(counts, i) + counts[i]
         /\ \A i \in 1 .. m + 1 : Prefix(counts, i) \in Nat
PROOF
<1> DEFINE Sum(c) == [n \in 0 .. m |-> IF n = 0 THEN 0 ELSE c[n - 1] + counts[n]]
           closed == [n \in 0 .. m |-> Cardinality(Cells(counts, n))]
           cursor == CHOOSE c : c = Sum(c)
<1>1. Len(counts) = m
  BY LengthOf
<1>2. \A i : Prefix(counts, i) = cursor[i - 1]
  BY <1>1 DEF Prefix
<1>3. closed = Sum(closed)
  <2>1. ASSUME NEW n \in 0 .. m
        PROVE  closed[n] = IF n = 0 THEN 0 ELSE closed[n - 1] + counts[n]
    <3>1. CASE n = 0
      <4>1. 1 .. 0 = {}
        OBVIOUS
      <4>2. Cells(counts, 0) = {}
        BY <4>1 DEF Cells
      <4> QED
        BY <3>1, <4>2, FS_EmptySet
    <3>2. CASE n # 0
      <4>1. n \in 1 .. m /\ n - 1 \in 0 .. m
        BY <3>2
      <4>2. Cardinality(Cells(counts, n)) = Cardinality(Cells(counts, n - 1)) + counts[n]
        BY <4>1, CellsGrow
      <4> QED
        BY <3>2, <4>1, <4>2
    <3> QED
      BY <3>1, <3>2
  <2>2. closed = [n \in 0 .. m |-> closed[n]]
    OBVIOUS
  <2> HIDE DEF closed
  <2> QED
    BY <2>1, <2>2
<1>4. cursor = Sum(cursor)
  <2> HIDE DEF closed, Sum
  <2> QED
    BY <1>3, Zenon
<1> HIDE DEF closed, cursor
<1>5. \A n \in 0 .. m : cursor[n] = IF n = 0 THEN 0 ELSE cursor[n - 1] + counts[n]
  BY <1>4
<1>6. \A n \in 0 .. m : cursor[n] \in Nat
  <2> DEFINE T == {n \in 0 .. m : cursor[n] \notin Nat}
  <2> SUFFICES ASSUME T # {} PROVE FALSE
    OBVIOUS
  <2>1. \A n \in T : n \in Nat
    OBVIOUS
  <2>2. PICK n \in T : \A l \in T : n <= l
    <3> HIDE DEF T
    <3> QED
      BY <2>1, Least
  <2>3. n # 0
    BY <1>5, <2>2
  <2>4. n - 1 \in 0 .. m /\ n - 1 \notin T
    BY <2>2, <2>3
  <2> QED
    BY <1>5, <2>3, <2>4
<1>7. cursor[0] = 0
  BY <1>5
<1>8. ASSUME NEW i \in 1 .. m PROVE Prefix(counts, i + 1) = Prefix(counts, i) + counts[i]
  <2>1. i \in 0 .. m /\ (i + 1) - 1 = i /\ i # 0
    OBVIOUS
  <2>2. cursor[i] = cursor[i - 1] + counts[i]
    BY <1>5, <2>1
  <2>3. Prefix(counts, i + 1) = cursor[i]
    BY <1>2, <2>1, Zenon
  <2> QED
    BY <1>2, <2>2, <2>3, Zenon
<1>9. ASSUME NEW i \in 1 .. m + 1 PROVE Prefix(counts, i) \in Nat
  <2>1. i - 1 \in 0 .. m
    OBVIOUS
  <2> QED
    BY <1>2, <1>6, <2>1, Zenon
<1>10. Prefix(counts, 1) = 0
  <2>1. 1 - 1 = 0
    OBVIOUS
  <2> QED
    BY <1>2, <1>7, <2>1, Zenon
<1> QED
  BY <1>8, <1>9, <1>10

\* Later blocks start after earlier ones end.
LEMMA PrefixGrows ==
  ASSUME NEW m \in Nat, NEW counts \in [1 .. m -> Nat],
         NEW i \in 1 .. m + 1, NEW j \in 1 .. m + 1
  PROVE  /\ i <= j => Prefix(counts, i) <= Prefix(counts, j)
         /\ i < j => Prefix(counts, i) + counts[i] <= Prefix(counts, j)
PROOF
<1> DEFINE p(l) == Prefix(counts, l)
<1>1. /\ \A l \in 1 .. m : p(l + 1) = p(l) + counts[l] /\ counts[l] \in Nat
      /\ \A l \in 1 .. m + 1 : p(l) \in Nat
  BY PrefixSum
<1> HIDE DEF p
<1>2. ASSUME NEW k \in 1 .. m + 1 PROVE \A l \in k .. m + 1 : p(k) <= p(l)
  <2> DEFINE T == {l \in k .. m + 1 : ~(p(k) <= p(l))}
  <2> SUFFICES ASSUME T # {} PROVE FALSE
    OBVIOUS
  <2>1. \A l \in T : l \in Nat
    OBVIOUS
  <2>2. PICK l \in T : \A n \in T : l <= n
    <3> HIDE DEF T
    <3> QED
      BY <2>1, Least
  <2>3. l # k
    BY <1>1, <2>2
  <2>4. l - 1 \in k .. m + 1 /\ l - 1 \notin T /\ l - 1 \in 1 .. m /\ l - 1 + 1 = l
    BY <2>2, <2>3
  <2>5. p(l) = p(l - 1) + counts[l - 1] /\ counts[l - 1] \in Nat
    BY <1>1, <2>4
  <2>6. p(k) <= p(l - 1)
    BY <2>4
  <2>7. p(l) \in Nat /\ p(l - 1) \in Nat /\ p(k) \in Nat
    BY <1>1, <2>4
  <2> QED
    BY <2>2, <2>5, <2>6, <2>7
<1>3. i <= j => p(i) <= p(j)
  BY <1>2
<1>4. ASSUME i < j PROVE p(i) + counts[i] <= p(j)
  <2>1. i \in 1 .. m /\ i + 1 \in 1 .. m + 1 /\ j \in i + 1 .. m + 1
    BY <1>4
  <2>2. p(i + 1) <= p(j) /\ p(i + 1) = p(i) + counts[i]
    BY <1>1, <1>2, <2>1
  <2> QED
    BY <2>2
<1> QED
  BY <1>3, <1>4 DEF p

\* Every place before the end is in one block.
LEMMA PrefixTiles ==
  ASSUME NEW m \in Nat, NEW counts \in [1 .. m -> Nat],
         NEW s \in Nat, s < Prefix(counts, m + 1)
  PROVE  \E b \in 1 .. m : Prefix(counts, b) <= s /\ s < Prefix(counts, b) + counts[b]
PROOF
<1> DEFINE p(l) == Prefix(counts, l)
           T == {l \in 1 .. m + 1 : s < p(l)}
<1>1. /\ p(1) = 0
      /\ \A l \in 1 .. m : p(l + 1) = p(l) + counts[l]
      /\ \A l \in 1 .. m + 1 : p(l) \in Nat
  BY PrefixSum
<1>2. m + 1 \in T
  OBVIOUS
<1>3. \A l \in T : l \in Nat
  OBVIOUS
<1>4. PICK l \in T : \A n \in T : l <= n
  <2> HIDE DEF T
  <2> QED
    BY <1>2, <1>3, Least
<1> HIDE DEF p
<1>5. l # 1
  BY <1>1, <1>4
<1>6. l - 1 \in 1 .. m /\ l - 1 \in 1 .. m + 1 /\ l - 1 \notin T /\ l - 1 + 1 = l
  BY <1>4, <1>5
<1>7. p(l) = p(l - 1) + counts[l - 1] /\ p(l - 1) <= s /\ s < p(l)
  BY <1>1, <1>4, <1>6
<1> QED
  BY <1>6, <1>7 DEF p

(***************************************************************************)
(* Neighbour lists and buckets.                                            *)
(***************************************************************************)

\* A list in any order names every neighbour once.
LEMMA ListNames ==
  ASSUME NEW S, IsFiniteSet(S), NEW list \in SetToSeqs(S)
  PROVE  /\ Cardinality(S) \in Nat
         /\ list \in [1 .. Cardinality(S) -> S]
         /\ Len(list) = Cardinality(S)
         /\ \A i, j \in 1 .. Cardinality(S) : list[i] = list[j] => i = j
         /\ \A q \in S : \E i \in 1 .. Cardinality(S) : list[i] = q
PROOF
<1> DEFINE m == Cardinality(S)
<1>1. m \in Nat
  BY FS_CardinalityType
<1>2. list \in [1 .. m -> S] /\ \A i, j \in 1 .. m : list[i] = list[j] => i = j
  BY DEF SetToSeqs
<1>3. list \in Injection(1 .. m, S)
  BY <1>2 DEF Injection, IsInjective
<1>4. Cardinality(1 .. m) = m
  BY <1>1, FS_Interval
<1>5. list \in Surjection(1 .. m, S)
  BY <1>3, <1>4, FS_Injection
<1>6. Len(list) = m
  BY <1>1, <1>2, LengthOf
<1> QED
  BY <1>1, <1>2, <1>5, <1>6 DEF Surjection

\* n externals with their owners, m sources that own any, how many each owns.
Bucketed(n, own, m, list, counts) ==
  /\ DOMAIN own = 1 .. n
  /\ DOMAIN list = 1 .. m
  /\ \A i, j \in 1 .. m : list[i] = list[j] => i = j
  /\ \A b \in 1 .. m : counts[b] = RecvFrom(own, list[b])
  /\ \A i \in 1 .. n : \E b \in 1 .. m : own[i] = list[b]

\* The counts of owners add up to the number of externals.
LEMMA BucketsAddUp ==
  ASSUME NEW n \in Nat, NEW own, NEW m \in Nat, NEW list, NEW counts \in [1 .. m -> Nat],
         Bucketed(n, own, m, list, counts)
  PROVE  Prefix(counts, m + 1) = n
PROOF
<1> DEFINE placed(l) == {i \in 1 .. n : \E b \in 1 .. l - 1 : own[i] = list[b]}
           T == {l \in 1 .. m + 1 : Prefix(counts, l) # Cardinality(placed(l))}
<1>0. IsFiniteSet(1 .. n) /\ Cardinality(1 .. n) = n
  BY IntervalSize
<1>1. \A l : IsFiniteSet(placed(l))
  <2>1. \A l : placed(l) \in SUBSET (1 .. n)
    OBVIOUS
  <2> HIDE DEF placed
  <2> QED
    BY <1>0, <2>1, FS_Subset
<1>2. T = {}
  <2> SUFFICES ASSUME T # {} PROVE FALSE
    OBVIOUS
  <2>1. \A l \in T : l \in Nat
    OBVIOUS
  <2>2. PICK l \in T : \A k \in T : l <= k
    <3> HIDE DEF T
    <3> QED
      BY <2>1, Least
  <2>3. l # 1
    <3>1. placed(1) = {}
      OBVIOUS
    <3>2. Cardinality(placed(1)) = 0
      BY <3>1, FS_EmptySet
    <3>3. Prefix(counts, 1) = 0
      BY PrefixSum
    <3> QED
      BY <2>2, <3>2, <3>3
  <2>4. PICK k \in 1 .. m : l = k + 1
    <3>1. l - 1 \in 1 .. m /\ l = l - 1 + 1
      BY <2>2, <2>3
    <3> QED
      BY <3>1
  <2>5. Prefix(counts, k) = Cardinality(placed(k))
    <3>1. k \in 1 .. m + 1 /\ ~(l <= k)
      BY <2>4
    <3>2. k \notin T
      BY <2>2, <3>1
    <3> QED
      BY <3>1, <3>2
  <2> DEFINE bucket == {i \in 1 .. n : own[i] = list[k]}
  <2>6. placed(l) = placed(k) \cup bucket
    <3>1. 1 .. l - 1 = (1 .. k - 1) \cup {k}
      BY <2>4
    <3> QED
      BY <3>1
  <2>7. placed(k) \cap bucket = {}
    <3> SUFFICES ASSUME NEW i \in 1 .. n, NEW b \in 1 .. k - 1, own[i] = list[b],
                        own[i] = list[k]
                 PROVE  FALSE
      OBVIOUS
    <3>1. b \in 1 .. m /\ b # k
      OBVIOUS
    <3> QED
      BY <3>1 DEF Bucketed
  <2>8. IsFiniteSet(bucket) /\ Cardinality(bucket) = counts[k]
    <3>1. bucket \in SUBSET (1 .. n)
      OBVIOUS
    <3>2. counts[k] = Cardinality(bucket)
      BY DEF RecvFrom, Bucketed
    <3> HIDE DEF bucket
    <3> QED
      BY <1>0, <3>1, <3>2, FS_Subset
  <2> HIDE DEF bucket, placed
  <2>9. Cardinality(placed(l))
          = Cardinality(placed(k)) + Cardinality(bucket) - Cardinality({})
    BY <1>1, <2>6, <2>7, <2>8, FS_Union
  <2>10. Prefix(counts, l) = Prefix(counts, k) + counts[k]
    BY <2>4, PrefixSum
  <2>11. Cardinality(placed(k)) \in Nat /\ counts[k] \in Nat /\ Cardinality({}) = 0
    BY <1>1, FS_CardinalityType, FS_EmptySet
  <2> QED
    BY <2>2, <2>5, <2>8, <2>9, <2>10, <2>11
<1>3. placed(m + 1) = 1 .. n
  BY DEF Bucketed
<1>4. m + 1 \notin T /\ m + 1 \in 1 .. m + 1
  BY <1>2
<1> QED
  BY <1>0, <1>3, <1>4

\* reorderExternals gives every external its own halo slot, leaves no slot over, and
\* puts an external into the block of its owner.
LEMMA BucketsFilled ==
  ASSUME NEW n \in Nat, NEW own, NEW m \in Nat, NEW list, NEW counts \in [1 .. m -> Nat],
         Bucketed(n, own, m, list, counts),
         NEW nr \in Nat
  PROVE  LET idx == ExtLocalIndex(nr, own, list, counts)
         IN  /\ idx \in [1 .. n -> nr .. nr + n - 1]
             /\ \A i, j \in 1 .. n : idx[i] = idx[j] => i = j
             /\ \A s \in nr .. nr + n - 1 : \E i \in 1 .. n : idx[i] = s
             /\ \A i \in 1 .. n, b \in 1 .. m :
                  own[i] = list[b] <=> idx[i] \in nr + Prefix(counts, b)
                                                  .. nr + Prefix(counts, b) + counts[b] - 1
PROOF
<1> DEFINE idx == ExtLocalIndex(nr, own, list, counts)
           p(b) == Prefix(counts, b)
           bucket(i) == {k \in 1 .. n : own[k] = own[i]}
           bin(i) == CHOOSE b \in 1 .. m : list[b] = own[i]
           c(i) == CountBelow(bucket(i), i)
<1>1. idx = [i \in 1 .. n |-> nr + p(bin(i)) + c(i)]
  BY DEF ExtLocalIndex, Bucketed
<1>2. ASSUME NEW i \in 1 .. n
      PROVE  /\ bin(i) \in 1 .. m /\ list[bin(i)] = own[i]
             /\ \A b \in 1 .. m : own[i] = list[b] <=> b = bin(i)
  BY DEF Bucketed
<1>3. ASSUME NEW i \in 1 .. n
      PROVE  /\ IsFiniteSet(bucket(i)) /\ Cardinality(bucket(i)) = counts[bin(i)]
             /\ c(i) \in 0 .. counts[bin(i)] - 1
             /\ \A j \in 1 .. n : own[i] = own[j] /\ c(i) = c(j) => i = j
  <2>1. IsFiniteSet(bucket(i))
    <3>1. bucket(i) \in SUBSET (1 .. n) /\ IsFiniteSet(1 .. n)
      BY IntervalSize
    <3> HIDE DEF bucket
    <3> QED
      BY <3>1, FS_Subset
  <2>2. Cardinality(bucket(i)) = counts[bin(i)]
    <3>1. bin(i) \in 1 .. m /\ list[bin(i)] = own[i]
      BY <1>2
    <3> HIDE DEF bin
    <3>2. counts[bin(i)] = RecvFrom(own, own[i])
      BY <3>1 DEF Bucketed
    <3>3. {k \in DOMAIN own : own[k] = own[i]} = bucket(i)
      BY DEF Bucketed
    <3> QED
      BY <3>2, <3>3 DEF RecvFrom
  <2>3. (\A k \in bucket(i) : k \in Int) /\ i \in bucket(i)
    OBVIOUS
  <2>4. c(i) \in 0 .. counts[bin(i)] - 1
    <3> HIDE DEF bucket, bin
    <3> QED
      BY <2>1, <2>2, <2>3, CountBelowInjective
  <2>5. ASSUME NEW j \in 1 .. n, own[i] = own[j], c(i) = c(j) PROVE i = j
    <3>1. bucket(j) = bucket(i) /\ j \in bucket(i)
      BY <2>5
    <3>2. CountBelow(bucket(i), i) = CountBelow(bucket(i), j)
      BY <2>5, <3>1
    <3> HIDE DEF bucket, bin, c
    <3>3. ~(i < j) /\ ~(j < i)
      <4>1. CountBelow(bucket(i), i) \in 0 .. Cardinality(bucket(i)) - 1
        BY <2>1, <2>3, CountBelowInjective
      <4>2. i < j => CountBelow(bucket(i), i) < CountBelow(bucket(i), j)
        BY <2>1, <2>3, <3>1, CountBelowInjective
      <4>3. j < i => CountBelow(bucket(i), j) < CountBelow(bucket(i), i)
        BY <2>1, <2>3, <3>1, CountBelowInjective
      <4> QED
        BY <3>2, <4>1, <4>2, <4>3
    <3> QED
      BY <3>3
  <2> QED
    BY <2>1, <2>2, <2>4, <2>5
<1>4. /\ \A b \in 1 .. m + 1 : p(b) \in Nat
      /\ \A b \in 1 .. m : counts[b] \in Nat
      /\ p(m + 1) = n
  BY PrefixSum, BucketsAddUp
<1>5. ASSUME NEW a \in 1 .. m, NEW b \in 1 .. m + 1, a < b PROVE p(a) + counts[a] <= p(b)
  BY <1>5, PrefixGrows
<1> HIDE DEF idx, p, bucket, bin, c
<1>6. ASSUME NEW i \in 1 .. n
      PROVE  /\ idx[i] = nr + p(bin(i)) + c(i)
             /\ idx[i] \in nr .. nr + n - 1
             /\ idx[i] \in nr + p(bin(i)) .. nr + p(bin(i)) + counts[bin(i)] - 1
  <2>1. idx[i] = nr + p(bin(i)) + c(i)
    BY <1>1
  <2>2. bin(i) \in 1 .. m /\ c(i) \in 0 .. counts[bin(i)] - 1
    BY <1>2, <1>3
  <2>3. p(bin(i)) + counts[bin(i)] <= n /\ p(bin(i)) \in Nat /\ counts[bin(i)] \in Nat
    <3>1. bin(i) < m + 1 /\ m + 1 \in 1 .. m + 1 /\ bin(i) \in 1 .. m + 1
      BY <2>2
    <3> QED
      BY <1>4, <1>5, <2>2, <3>1
  <2> QED
    BY SMTT(20), <2>1, <2>2, <2>3
<1>7. ASSUME NEW i \in 1 .. n, NEW b \in 1 .. m,
             idx[i] \in nr + p(b) .. nr + p(b) + counts[b] - 1
      PROVE  b = bin(i)
  <2> DEFINE a == bin(i)
             x == idx[i]
  <2>1. a \in 1 .. m /\ a \in 1 .. m + 1 /\ b \in 1 .. m + 1
    BY <1>2
  <2>2. x \in nr + p(a) .. nr + p(a) + counts[a] - 1
    BY <1>6
  <2>3. p(a) \in Nat /\ p(b) \in Nat /\ counts[a] \in Nat /\ counts[b] \in Nat /\ x \in Int
    BY SMTT(20), <1>4, <1>6, <2>1
  <2> HIDE DEF a, x
  <2>4. ~(a < b)
    <3> SUFFICES ASSUME a < b PROVE FALSE
      OBVIOUS
    <3>1. p(a) + counts[a] <= p(b)
      BY <1>5, <2>1
    <3>2. x >= nr + p(b)
      BY <1>7, <2>3 DEF x
    <3>3. x < nr + p(a) + counts[a]
      BY <2>2, <2>3
    <3> QED
      BY <2>3, <3>1, <3>2, <3>3
  <2>5. ~(b < a)
    <3> SUFFICES ASSUME b < a PROVE FALSE
      OBVIOUS
    <3>1. p(b) + counts[b] <= p(a)
      BY <1>5, <2>1
    <3>2. x >= nr + p(a)
      BY <2>2, <2>3
    <3>3. x < nr + p(b) + counts[b]
      BY SMTT(20), <1>7, <2>3 DEF x
    <3> QED
      BY <2>3, <3>1, <3>2, <3>3
  <2> QED
    BY <2>1, <2>4, <2>5 DEF a
<1>8. ASSUME NEW i \in 1 .. n, NEW j \in 1 .. n, idx[i] = idx[j] PROVE i = j
  <2>1. bin(i) = bin(j)
    BY <1>2, <1>6, <1>7, <1>8
  <2>2. own[i] = own[j]
    BY <1>2, <2>1
  <2>3. c(i) = c(j)
    <3>1. /\ idx[i] = nr + p(bin(i)) + c(i) /\ idx[i] = nr + p(bin(i)) + c(j)
          /\ c(i) \in Int /\ c(j) \in Int /\ p(bin(i)) \in Nat
      <4>1. bin(i) \in 1 .. m /\ bin(i) \in 1 .. m + 1
        BY <1>2
      <4> QED
        BY <1>3, <1>4, <1>6, <1>8, <2>1, <4>1
    <3> QED
      BY <3>1
  <2> QED
    BY <1>3, <2>2, <2>3
<1>9. ASSUME NEW s \in nr .. nr + n - 1 PROVE \E i \in 1 .. n : idx[i] = s
  <2> DEFINE Halo == nr .. nr + n - 1
  <2>1. idx \in [1 .. n -> Halo]
    BY <1>1, <1>6
  <2>2. idx \in Injection(1 .. n, Halo)
    BY <1>8, <2>1 DEF Injection, IsInjective
  <2>3. IsFiniteSet(Halo) /\ Cardinality(Halo) = n
    BY FS_Interval
  <2>4. IsFiniteSet(1 .. n) /\ Cardinality(1 .. n) = n
    BY IntervalSize
  <2> HIDE DEF Halo
  <2>5. idx \in Surjection(1 .. n, Halo)
    BY <2>2, <2>3, <2>4, FS_Injection
  <2> QED
    BY <2>5 DEF Surjection, Halo
<1>10. idx \in [1 .. n -> nr .. nr + n - 1]
  BY <1>1, <1>6
<1>11. ASSUME NEW i \in 1 .. n, NEW b \in 1 .. m
       PROVE  own[i] = list[b] <=> idx[i] \in nr + p(b) .. nr + p(b) + counts[b] - 1
  <2>1. own[i] = list[b] <=> b = bin(i)
    BY <1>2
  <2>2. b = bin(i) => idx[i] \in nr + p(b) .. nr + p(b) + counts[b] - 1
    BY <1>6
  <2>3. idx[i] \in nr + p(b) .. nr + p(b) + counts[b] - 1 => b = bin(i)
    BY <1>7
  <2> QED BY <2>1, <2>2, <2>3
<1> QED
  BY <1>8, <1>9, <1>10, <1>11 DEF idx, p

(***************************************************************************)
(* The owner of a row.                                                     *)
(***************************************************************************)

\* Between l and r, y is the last rank whose first row is not above g.
Cut(start, g, l, r, y) ==
  /\ y \in l - 1 .. r
  /\ \A m \in l .. y : start[m] <= g
  /\ \A m \in y + 1 .. r : g < start[m]

\* The rank the search looks at.
Mid(l, r) == l + (r - l) \div 2

\* The start rows of the ranks ascend.
StartsAscend(start, last) ==
  \A a \in 0 .. last, b \in 0 .. last : a <= b => start[a] <= start[b]

\* The middle is inside.
LEMMA MidInside ==
  ASSUME NEW l \in Int, NEW r \in Int, l <= r
  PROVE  Mid(l, r) \in l .. r /\ Mid(l, r) \in Int
PROOF
BY DEF Mid

\* It is enough that each rank's rows start no earlier than those of the one before.
LEMMA StepsAscend ==
  ASSUME NEW last \in Nat, NEW start \in [0 .. last -> Nat],
         \A r \in 0 .. last - 1 : start[r] <= start[r + 1]
  PROVE  StartsAscend(start, last)
PROOF
<1> SUFFICES ASSUME NEW a \in 0 .. last, NEW b \in 0 .. last, a <= b,
                    ~(start[a] <= start[b])
             PROVE  FALSE
  BY DEF StartsAscend
<1> DEFINE T == {c \in a .. last : ~(start[a] <= start[c])}
<1>1. \A c \in T : c \in Nat
  OBVIOUS
<1>2. b \in T
  OBVIOUS
<1>3. PICK c \in T : \A d \in T : c <= d
  <2> HIDE DEF T
  <2> QED
    BY <1>1, <1>2, Least
<1>4. c # a
  BY <1>3
<1>5. c - 1 \in a .. last /\ c - 1 \notin T /\ c - 1 \in 0 .. last - 1 /\ c - 1 + 1 = c
  BY <1>3, <1>4
<1>6. start[a] <= start[c - 1] /\ start[c - 1] <= start[c]
  BY <1>5
<1> QED
  BY <1>3, <1>5, <1>6

\* A cut of the part the search goes on in is a cut of the whole.
LEMMA CutWidens ==
  ASSUME NEW last \in Nat, NEW start \in [0 .. last -> Nat], NEW g \in Nat,
         StartsAscend(start, last),
         NEW l \in 0 .. last + 1, NEW r \in -1 .. last, NEW c \in l .. r, NEW y \in Int
  PROVE  /\ start[c] <= g /\ Cut(start, g, c + 1, r, y) => Cut(start, g, l, r, y)
         /\ ~(start[c] <= g) /\ Cut(start, g, l, c - 1, y) => Cut(start, g, l, r, y)
PROOF
<1>1. c \in 0 .. last
  OBVIOUS
<1>2. ASSUME start[c] <= g, Cut(start, g, c + 1, r, y) PROVE Cut(start, g, l, r, y)
  <2>1. y \in l - 1 .. r
    BY <1>2 DEF Cut
  <2>2. ASSUME NEW m \in l .. y PROVE start[m] <= g
    <3>1. CASE m \in c + 1 .. y
      BY <1>2, <3>1 DEF Cut
    <3>2. CASE m <= c
      <4>1. m \in 0 .. last
        BY <3>2
      <4>2. start[m] <= start[c]
        BY <1>1, <3>2, <4>1 DEF StartsAscend
      <4> QED
        BY <1>1, <1>2, <4>1, <4>2
    <3> QED
      BY <3>1, <3>2
  <2> QED
    BY <1>2, <2>1, <2>2 DEF Cut
<1>3. ASSUME ~(start[c] <= g), Cut(start, g, l, c - 1, y) PROVE Cut(start, g, l, r, y)
  <2>1. y \in l - 1 .. r
    BY <1>3 DEF Cut
  <2>2. ASSUME NEW m \in y + 1 .. r PROVE g < start[m]
    <3>1. CASE m \in y + 1 .. c - 1
      BY <1>3, <3>1 DEF Cut
    <3>2. CASE m >= c
      <4>1. m \in 0 .. last
        BY <3>2
      <4>2. start[c] <= start[m]
        BY <1>1, <3>2, <4>1 DEF StartsAscend
      <4> QED
        BY <1>1, <1>3, <4>1, <4>2
    <3> QED
      BY <3>1, <3>2
  <2> QED
    BY <1>3, <2>1, <2>2 DEF Cut
<1> QED
  BY <1>2, <1>3

\* There is one cut.
LEMMA OneCut ==
  ASSUME NEW last \in Nat, NEW start \in [0 .. last -> Nat], NEW g \in Nat,
         StartsAscend(start, last),
         NEW l \in 0 .. last + 1, NEW r \in -1 .. last, l <= r + 1
  PROVE  /\ \E y : Cut(start, g, l, r, y)
         /\ \A x, y : Cut(start, g, l, r, x) /\ Cut(start, g, l, r, y) => x = y
PROOF
<1> DEFINE T == {z \in l .. r + 1 : z = r + 1 \/ g < start[z]}
<1>1. \A z \in T : z \in Nat
  OBVIOUS
<1>2. r + 1 \in T
  OBVIOUS
<1>3. PICK z \in T : \A x \in T : z <= x
  <2> HIDE DEF T
  <2> QED
    BY <1>1, <1>2, Least
<1>4. ASSUME NEW m \in l .. z - 1 PROVE start[m] <= g
  <2>1. m \in l .. r /\ m \notin T /\ m \in 0 .. last
    BY <1>3
  <2> QED
    BY <2>1
<1>5. ASSUME NEW m \in z .. r PROVE g < start[m]
  <2>1. z \in 0 .. last /\ m \in 0 .. last /\ z <= m /\ g < start[z]
    BY <1>3
  <2>2. start[z] <= start[m]
    BY <2>1 DEF StartsAscend
  <2> QED
    BY <2>1, <2>2
<1>6. Cut(start, g, l, r, z - 1)
  <2>1. z - 1 \in l - 1 .. r /\ z - 1 + 1 = z
    BY <1>3
  <2> QED
    BY <1>4, <1>5, <2>1 DEF Cut
<1>7. ASSUME NEW x, NEW y, Cut(start, g, l, r, x), Cut(start, g, l, r, y) PROVE x = y
  <2>1. x \in l - 1 .. r /\ y \in l - 1 .. r
    BY <1>7 DEF Cut
  <2>2. ASSUME NEW a \in l - 1 .. r, NEW b \in l - 1 .. r, a < b,
               Cut(start, g, l, r, a), Cut(start, g, l, r, b)
        PROVE  FALSE
    <3>1. b \in l .. b /\ b \in a + 1 .. r /\ b \in 0 .. last
      BY <2>2
    <3>2. start[b] <= g /\ g < start[b]
      BY <2>2, <3>1 DEF Cut
    <3> QED
      BY <3>1, <3>2
  <2>3. ~(x < y) /\ ~(y < x)
    BY <1>7, <2>1, <2>2
  <2> QED
    BY <2>1, <2>3
<1> QED
  BY <1>6, <1>7

\* One round of the search from its window l .. r.
SearchRound(start, g, search, l, r) ==
  IF l > r THEN l - 1
  ELSE IF start[Mid(l, r)] <= g THEN search[<<Mid(l, r) + 1, r>>]
  ELSE search[<<l, Mid(l, r) - 1>>]

\* A function that gives each window the value its round has.
Follows(search, start, g, last) ==
  \A l \in 0 .. last + 1, r \in -1 .. last :
    search[<<l, r>>] = SearchRound(start, g, search, l, r)

\* Whatever follows the rounds of the search ends with the cut.
LEMMA SearchCuts ==
  ASSUME NEW last \in Nat, NEW start \in [0 .. last -> Nat], NEW g \in Nat,
         StartsAscend(start, last), NEW search,
         Follows(search, start, g, last)
  PROVE  \A l \in 0 .. last + 1, r \in -1 .. last :
           l <= r + 1 => Cut(start, g, l, r, search[<<l, r>>])
PROOF
<1> DEFINE Wrong(n) == \E l \in 0 .. last + 1, r \in -1 .. last :
                         /\ l <= r + 1 /\ r - l + 1 = n
                         /\ ~Cut(start, g, l, r, search[<<l, r>>])
           T == {n \in Nat : Wrong(n)}
<1>1. T = {}
  <2> SUFFICES ASSUME T # {} PROVE FALSE
    OBVIOUS
  <2>1. \A n \in T : n \in Nat
    OBVIOUS
  <2>2. PICK n \in T : \A k \in T : n <= k
    <3> HIDE DEF T
    <3> QED
      BY <2>1, Least
  <2>3. PICK l \in 0 .. last + 1, r \in -1 .. last :
          l <= r + 1 /\ r - l + 1 = n /\ ~Cut(start, g, l, r, search[<<l, r>>])
    BY <2>2
  <2>4. ASSUME NEW a \in 0 .. last + 1, NEW b \in -1 .. last, a <= b + 1, b - a < r - l
        PROVE  Cut(start, g, a, b, search[<<a, b>>])
    <3> DEFINE k == b - a + 1
    <3>1. k \in Nat
      BY <2>4
    <3>2. r - l + 1 = n
      BY <2>3
    <3>3. n \in Nat /\ ~(n <= k)
      BY <2>4, <3>2
    <3>4. k \notin T
      BY <2>2, <3>3
    <3>5. ~Wrong(k)
      BY <3>1, <3>4
    <3> QED
      BY <2>4, <3>5
  <2> HIDE DEF T, Wrong
  <2>5. CASE l > r
    <3>0. search[<<l, r>>] = SearchRound(start, g, search, l, r)
      BY DEF Follows
    <3>1. search[<<l, r>>] = l - 1 /\ l = r + 1
      BY <2>3, <2>5, <3>0 DEF SearchRound
    <3>2. Cut(start, g, l, r, l - 1)
      BY <3>1 DEF Cut
    <3> QED
      BY <2>3, <3>1, <3>2
  <2>6. CASE l <= r
    <3>0. search[<<l, r>>] = SearchRound(start, g, search, l, r)
      BY DEF Follows
    <3> DEFINE mid == Mid(l, r)
    <3>1. mid \in l .. r
      <4>1. l \in Int /\ r \in Int
        OBVIOUS
      <4> QED
        BY <2>6, <4>1, MidInside
    <3>2. search[<<l, r>>] = IF start[mid] <= g THEN search[<<mid + 1, r>>]
                             ELSE search[<<l, mid - 1>>]
      BY <2>6, <3>0 DEF SearchRound
    <3> HIDE DEF mid
    <3> PICK c \in l .. r : c = mid
      BY <3>1
    <3>3. /\ Cut(start, g, c + 1, r, search[<<c + 1, r>>])
          /\ Cut(start, g, l, c - 1, search[<<l, c - 1>>])
      <4>1. /\ c + 1 \in 0 .. last + 1 /\ c + 1 <= r + 1 /\ r - (c + 1) < r - l
            /\ c - 1 \in -1 .. last /\ l <= c - 1 + 1 /\ c - 1 - l < r - l
        OBVIOUS
      <4> QED
        BY <2>4, <4>1
    <3>4. search[<<c + 1, r>>] \in Int /\ search[<<l, c - 1>>] \in Int
      BY <3>3 DEF Cut
    <3>5. Cut(start, g, l, r, search[<<l, r>>])
      BY <3>2, <3>3, <3>4, CutWidens
    <3> QED
      BY <2>3, <3>5
  <2> QED
    BY <2>3, <2>5, <2>6
<1>2. ASSUME NEW l \in 0 .. last + 1, NEW r \in -1 .. last, l <= r + 1
      PROVE  Cut(start, g, l, r, search[<<l, r>>])
  <2>1. r - l + 1 \in Nat
    BY <1>2
  <2>2. ~Wrong(r - l + 1)
    BY <1>1, <2>1
  <2> QED
    BY <1>2, <2>2
<1> QED
  BY <1>2

\* The windows the search may have, the empty ones included.
Windows(last) == (0 .. last + 1) \X (-1 .. last)

\* The search as a function, and its value in closed form.
Search(start, g, last, f) ==
  [open \in Windows(last) |-> SearchRound(start, g, f, open[1], open[2])]

\* What the search returns for a window.
Result(start, g, l, r) == IF l > r THEN l - 1 ELSE CHOOSE y : Cut(start, g, l, r, y)

\* The search without recursion.
Closed(start, g, last) == [open \in Windows(last) |-> Result(start, g, open[1], open[2])]

\* The closed form obeys the recursion, so that there is such a function.
LEMMA SearchExists ==
  ASSUME NEW last \in Nat, NEW start \in [0 .. last -> Nat], NEW g \in Nat,
         StartsAscend(start, last)
  PROVE  Closed(start, g, last) = Search(start, g, last, Closed(start, g, last))
PROOF
<1> DEFINE f == Closed(start, g, last)
<1>1. ASSUME NEW l \in 0 .. last + 1, NEW r \in -1 .. last
      PROVE  f[<<l, r>>] = Result(start, g, l, r)
  <2>1. <<l, r>> \in Windows(last) /\ <<l, r>>[1] = l /\ <<l, r>>[2] = r
    BY DEF Windows
  <2> QED
    BY <2>1 DEF Closed
<1>2. f = [open \in Windows(last) |-> f[open]]
  BY DEF Closed
<1> HIDE DEF f
<1>3. ASSUME NEW l \in 0 .. last + 1, NEW r \in -1 .. last, l <= r + 1
      PROVE  Cut(start, g, l, r, f[<<l, r>>])
  <2>1. CASE l > r
    <3>1. l = r + 1 /\ f[<<l, r>>] = l - 1
      <4>1. f[<<l, r>>] = Result(start, g, l, r) /\ l = r + 1
        BY <1>1, <1>3, <2>1
      <4> QED
        BY <2>1, <4>1 DEF Result
    <3>2. Cut(start, g, l, r, l - 1)
      BY <3>1 DEF Cut
    <3> QED
      BY <3>1, <3>2
  <2>2. CASE ~(l > r)
    <3>1. \E y : Cut(start, g, l, r, y)
      BY <1>3, OneCut
    <3>2. f[<<l, r>>] = CHOOSE y : Cut(start, g, l, r, y)
      BY <1>1, <2>2 DEF Result
    <3> QED
      BY <3>1, <3>2
  <2> QED
    BY <2>1, <2>2
<1>4. ASSUME NEW l \in 0 .. last + 1, NEW r \in -1 .. last
      PROVE  f[<<l, r>>] = SearchRound(start, g, f, l, r)
  <2>1. CASE l > r
    <3>1. f[<<l, r>>] = Result(start, g, l, r)
      BY <1>1
    <3> QED
      BY <2>1, <3>1 DEF SearchRound, Result
  <2>2. CASE ~(l > r)
    <3> DEFINE mid == Mid(l, r)
    <3>1. mid \in l .. r
      <4>1. l \in Int /\ r \in Int /\ l <= r
        BY <2>2
      <4> QED
        BY <4>1, MidInside
    <3>2. SearchRound(start, g, f, l, r) = IF start[mid] <= g THEN f[<<mid + 1, r>>]
                                           ELSE f[<<l, mid - 1>>]
      BY <2>2 DEF SearchRound
    <3> HIDE DEF mid
    <3> PICK c \in l .. r : c = mid
      BY <3>1
    <3>3. /\ Cut(start, g, c + 1, r, f[<<c + 1, r>>])
          /\ Cut(start, g, l, c - 1, f[<<l, c - 1>>])
      <4>1. /\ c + 1 \in 0 .. last + 1 /\ c + 1 <= r + 1
            /\ c - 1 \in -1 .. last /\ l <= c - 1 + 1
        BY <2>2
      <4> QED
        BY <1>3, <4>1
    <3>4. f[<<c + 1, r>>] \in Int /\ f[<<l, c - 1>>] \in Int
      BY <3>3 DEF Cut
    <3>5. Cut(start, g, l, r, SearchRound(start, g, f, l, r))
      BY <3>2, <3>3, <3>4, CutWidens
    <3>6. l <= r + 1
      BY <2>2
    <3>7. Cut(start, g, l, r, f[<<l, r>>])
      BY <1>3, <3>6
    <3> QED
      BY <3>5, <3>6, <3>7, OneCut
  <2> QED
    BY <2>1, <2>2
<1>5. ASSUME NEW open \in Windows(last)
      PROVE  f[open] = SearchRound(start, g, f, open[1], open[2])
  <2>1. open = <<open[1], open[2]>> /\ open[1] \in 0 .. last + 1 /\ open[2] \in -1 .. last
    BY DEF Windows
  <2> QED
    BY <1>4, <2>1
<1>6. f = [open \in Windows(last) |-> SearchRound(start, g, f, open[1], open[2])]
  BY <1>2, <1>5
<1> QED
  BY <1>6 DEF Search, f

\* findExternalOwningRanks finds the last rank that starts no later than row g,
\* whatever ranks without rows share its start.
LEMMA SearchFinds ==
  ASSUME NEW last \in Nat, NEW start \in [0 .. last -> Nat], NEW g \in Nat,
         StartsAscend(start, last), start[0] <= g,
         NEW A, A.start = start
  PROVE  /\ OwningRank(A, g) \in 0 .. last
         /\ start[OwningRank(A, g)] <= g
         /\ \A r \in 0 .. last : OwningRank(A, g) < r => g < start[r]
PROOF
<1> DEFINE search == CHOOSE f : f = Search(start, g, last, f)
<1>1. search = Search(start, g, last, search)
  BY SearchExists, Zenon
<1>2. OwningRank(A, g) = search[<<0, last>>]
  <2>1. DOMAIN A.start = 0 .. last /\ Cardinality(0 .. last) = last + 1
    BY FS_Interval
  <2>2. Cardinality(DOMAIN A.start) - 1 = last
    BY <2>1
  <2> QED
    BY ZenonT(30), <2>2 DEF OwningRank, Search, SearchRound, Windows, Mid
<1> HIDE DEF search
<1>3. Follows(search, start, g, last)
  <2> SUFFICES ASSUME NEW l \in 0 .. last + 1, NEW r \in -1 .. last
               PROVE  search[<<l, r>>] = SearchRound(start, g, search, l, r)
    BY DEF Follows
  <2>1. <<l, r>> \in Windows(last) /\ <<l, r>>[1] = l /\ <<l, r>>[2] = r
    BY DEF Windows
  <2>2. Search(start, g, last, search)[<<l, r>>] = SearchRound(start, g, search, l, r)
    BY <2>1 DEF Search
  <2> QED
    BY <1>1, <2>2
<1>4. Cut(start, g, 0, last, OwningRank(A, g))
  <2>1. 0 \in 0 .. last + 1 /\ last \in -1 .. last /\ 0 <= last + 1
    OBVIOUS
  <2> QED
    BY <1>2, <1>3, <2>1, SearchCuts
<1>5. OwningRank(A, g) \in -1 .. last
  BY <1>4 DEF Cut
<1>6. OwningRank(A, g) # -1
  <2> SUFFICES ASSUME OwningRank(A, g) = -1 PROVE FALSE
    OBVIOUS
  <2>1. g < start[0]
    BY <1>4 DEF Cut
  <2> QED
    BY <2>1
<1> DEFINE owner == OwningRank(A, g)
<1>7. owner \in 0 .. last
  BY <1>5, <1>6
<1>8. Cut(start, g, 0, last, owner)
  BY <1>4
<1> HIDE DEF owner
<1>9. start[owner] <= g /\ \A r \in owner + 1 .. last : g < start[r]
  BY <1>7, <1>8 DEF Cut
<1> QED
  BY <1>7, <1>9 DEF owner

(***************************************************************************)
(* The rows.                                                               *)
(***************************************************************************)

\* order lists 1 .. n with the members of S first, each part ascending.
Partitions(order, n, S) ==
  /\ order \in [1 .. n -> 1 .. n]
  /\ \A i, j \in 1 .. n : order[i] = order[j] => i = j
  /\ \A j \in 1 .. n : \E i \in 1 .. n : order[i] = j
  /\ \A i \in 1 .. n : order[i] \in S <=> i <= Cardinality(S)
  /\ \A i, j \in 1 .. n : i < j /\ (order[i] \in S <=> order[j] \in S) => order[i] < order[j]

\* One ascending list after the other is such an order.
LEMMA AscendingParts ==
  ASSUME NEW n \in Nat, NEW S, \A j \in S : j \in 1 .. n
  PROVE  /\ Cardinality(S) \in 0 .. n
         /\ Partitions(Ascending(S) \o Ascending((1 .. n) \ S), n, S)
PROOF
<1> DEFINE T == (1 .. n) \ S
           p == Cardinality(S)
           q == Cardinality(T)
           a == Ascending(S)
           b == Ascending(T)
           order == a \o b
<1>1. IsFiniteSet(S) /\ IsFiniteSet(T) /\ p \in Nat /\ q \in Nat /\ p + q = n
  <2>1. IsFiniteSet(1 .. n) /\ Cardinality(1 .. n) = n
    BY IntervalSize
  <2>2. S \in SUBSET (1 .. n) /\ T \in SUBSET (1 .. n) /\ S \cup T = 1 .. n /\ S \cap T = {}
    OBVIOUS
  <2> HIDE DEF T
  <2>3. IsFiniteSet(S) /\ IsFiniteSet(T)
    BY <2>1, <2>2, FS_Subset
  <2>4. p \in Nat /\ q \in Nat
    BY <2>3, FS_CardinalityType
  <2>5. Cardinality(S \cup T) = p + q - Cardinality(S \cap T)
    BY <2>3, FS_Union
  <2>6. Cardinality(S \cap T) = 0 /\ Cardinality(S \cup T) = n
    BY <2>1, <2>2, FS_EmptySet
  <2> HIDE DEF p, q
  <2>7. n = p + q - 0
    BY <2>5, <2>6
  <2> QED
    BY <2>3, <2>4, <2>7
<1>2. /\ \A j \in S : j \in Int /\ j \in 1 .. n /\ j \notin T
      /\ \A j \in T : j \in Int /\ j \in 1 .. n /\ j \notin S
      /\ \A j \in 1 .. n : j \in S \/ j \in T
  OBVIOUS
<1> HIDE DEF T
<1>3. /\ a \in [1 .. p -> S]
      /\ \A i, j \in 1 .. p : i < j => a[i] < a[j]
      /\ \A i, j \in 1 .. p : a[i] = a[j] => i = j
      /\ \A c \in S : \E i \in 1 .. p : a[i] = c
  BY <1>1, <1>2, AscendingSorts
<1>4. /\ b \in [1 .. q -> T]
      /\ \A i, j \in 1 .. q : i < j => b[i] < b[j]
      /\ \A i, j \in 1 .. q : b[i] = b[j] => i = j
      /\ \A c \in T : \E i \in 1 .. q : b[i] = c
  BY <1>1, <1>2, AscendingSorts
<1> HIDE DEF a, b, p, q
<1>5. /\ order \in Seq(1 .. n) /\ Len(order) = n
      /\ \A i \in 1 .. n : order[i] = IF i <= p THEN a[i] ELSE b[i - p]
  <2>1. a \in [1 .. p -> 1 .. n] /\ b \in [1 .. q -> 1 .. n]
    BY <1>2, <1>3, <1>4
  <2>2. a \in Seq(1 .. n) /\ Len(a) = p /\ b \in Seq(1 .. n) /\ Len(b) = q
    BY <1>1, <2>1, LengthOf
  <2> QED
    BY <1>1, <2>2, ConcatProperties
<1>6. order \in [1 .. n -> 1 .. n]
  <2>1. order \in [1 .. Len(order) -> 1 .. n]
    BY <1>5, LenProperties
  <2> QED
    BY <1>5, <2>1
<1> HIDE DEF order
<1>7. ASSUME NEW i \in 1 .. n
      PROVE  /\ i <= p => i \in 1 .. p /\ order[i] = a[i] /\ order[i] \in S
             /\ ~(i <= p) => i - p \in 1 .. q /\ order[i] = b[i - p] /\ order[i] \in T
  <2>1. i <= p => i \in 1 .. p
    BY <1>1
  <2>2. ~(i <= p) => i - p \in 1 .. q
    BY <1>1
  <2> QED
    BY <1>3, <1>4, <1>5, <2>1, <2>2
<1>8. \A i \in 1 .. n : order[i] \in S <=> i <= p
  BY <1>2, <1>7
<1>9. ASSUME NEW i \in 1 .. n, NEW j \in 1 .. n, i < j, order[i] \in S <=> order[j] \in S
      PROVE  order[i] < order[j]
  <2>1. CASE j <= p
    <3>1. i <= p
      BY <1>1, <1>9, <2>1
    <3> QED
      BY <1>3, <1>7, <1>9, <2>1, <3>1
  <2>2. CASE ~(j <= p)
    <3>1. ~(i <= p)
      BY <1>8, <1>9, <2>2
    <3>2. i - p < j - p
      BY <1>1, <1>9
    <3> QED
      BY <1>4, <1>7, <2>2, <3>1, <3>2
  <2> QED
    BY <2>1, <2>2
<1>10. ASSUME NEW i \in 1 .. n, NEW j \in 1 .. n, order[i] = order[j] PROVE i = j
  <2>1. ~(i < j) /\ ~(j < i)
    <3>1. order[i] \in Int /\ order[j] \in Int
      BY <1>6
    <3> QED
      BY <1>9, <1>10, <3>1
  <2> QED
    BY <2>1
<1>11. ASSUME NEW j \in 1 .. n PROVE \E i \in 1 .. n : order[i] = j
  <2>1. CASE j \in S
    <3>1. PICK i \in 1 .. p : a[i] = j
      BY <1>3, <2>1
    <3>2. i \in 1 .. n /\ i <= p
      BY <1>1
    <3> QED
      BY <1>7, <3>1, <3>2
  <2>2. CASE j \in T
    <3>1. PICK i \in 1 .. q : b[i] = j
      BY <1>4, <2>2
    <3> DEFINE k == i + p
    <3>2. k \in 1 .. n /\ ~(k <= p) /\ k - p = i
      BY <1>1
    <3> HIDE DEF k
    <3>3. order[k] = b[i]
      BY <1>7, <3>2
    <3> QED
      BY <3>1, <3>2, <3>3
  <2> QED
    BY <1>2, <2>1, <2>2
<1>12. p \in 0 .. n
  BY <1>1
<1> QED
  BY <1>6, <1>8, <1>9, <1>10, <1>11, <1>12 DEF Partitions, p, order, a, b, T

\* split has the entries of row in such an order, those with local columns first.
Splits(n, row, nr, split) ==
  LET inner == {j \in 1 .. n : row[j].col < nr}
  IN  /\ split.localEnd \in 0 .. n
      /\ split.localEnd = Cardinality(inner)
      /\ \E order : /\ Partitions(order, n, inner)
                    /\ split.entries = [i \in 1 .. n |-> row[order[i]]]

\* reorderMatrixForOverlap moves the entries of a row and changes none: those with
\* local columns are the first localEnd, both parts keep their order.
LEMMA SplitRowSplits ==
  ASSUME NEW n \in Nat, NEW row, DOMAIN row = 1 .. n, NEW nr
  PROVE  Splits(n, row, nr, SplitRow(nr, row))
PROOF
<1> DEFINE S == {j \in 1 .. n : row[j].col < nr}
           order == Ascending(S) \o Ascending((1 .. n) \ S)
<1>1. /\ SplitRow(nr, row).localEnd = Cardinality(S)
      /\ SplitRow(nr, row).entries = [i \in 1 .. n |-> row[order[i]]]
  BY DEF SplitRow
<1>2. \A j \in S : j \in 1 .. n
  OBVIOUS
<1> HIDE DEF S
<1>3. Cardinality(S) \in 0 .. n /\ Partitions(order, n, S)
  BY <1>2, AscendingParts
<1> QED
  BY <1>1, <1>3 DEF S, Splits
=============================================================================
