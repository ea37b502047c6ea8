------------------------- MODULE VectorStream_proofs -------------------------
(***************************************************************************)
(* The streams of VectorStream never run into each other, for every number *)
(* of columns, rows, blocks and chunks, and VectorStream implements        *)
(* BlockPipeline.                                                          *)
(*                                                                         *)
(* The first part is about the programs alone: every copy stands behind a  *)
(* wait for the kernels of its slot, every kernel between a wait for all   *)
(* copies before it and a record of its slot.  This is a property of short *)
(* stretches of a program, so that it carries over from the blocks to the  *)
(* whole.  The second part is about the streams: an invariant says where in*)
(* the program the queued operations come from and which waits still hold  *)
(* them back.                                                              *)
(*                                                                         *)
(* In the third part the calls an entry makes are a run of a small         *)
(* automaton that counts loads, kernels and drains, and how much of the    *)
(* other stream has been waited for.  Each stream has come to a place of   *)
(* its own in the run, and what the program has done so far is what the    *)
(* run counts there.                                                       *)
(***************************************************************************)
EXTENDS VectorStream, SequenceTheorems, WellFoundedInduction, TLAPS

(***************************************************************************)
(* Naturals and sequences.                                                 *)
(***************************************************************************)

\* Every set of naturals that is not empty has a least element.
LEMMA LeastOf ==
  ASSUME NEW T, \A n \in T : n \in Nat, T # {}
  PROVE  \E x \in T : \A y \in T : x <= y
PROOF
<1> DEFINE R == OpToRel(<, Nat)
<1>1. IsWellFoundedOn(R, Nat)
  BY NatLessThanWellFounded
<1>2. \A y, x \in Nat : y < x => <<y, x>> \in R
  BY Zenon DEF OpToRel
<1> HIDE DEF R
<1>3. T \subseteq Nat
  OBVIOUS
<1>4. PICK x \in T : \A y \in T : <<y, x>> \notin R
  BY <1>1, <1>3, WFMin, Zenon
<1>5. x \in Nat /\ \A y \in T : y \in Nat /\ ~ (y < x)
  BY <1>2, <1>4
<1> QED
  BY <1>4, <1>5

\* Multiplication is monotonic.
LEMMA TimesGrows == \A i, j, b \in Nat : i <= j => i * b <= j * b
PROOF
BY SMT

\* Quotient and remainder.
LEMMA Division ==
  \A a \in Nat, b \in Nat \ {0} :
    a \div b \in Nat /\ a % b \in 0 .. b - 1 /\ a = b * (a \div b) + (a % b)
PROOF
BY SMT

\* The last of Ceil(a, b) pieces of size b begins inside a, and is not empty.
LEMMA CeilBound ==
  ASSUME NEW a \in Nat, NEW b \in Nat \ {0}
  PROVE  /\ Ceil(a, b) \in Nat
         /\ \A i \in 0 .. Ceil(a, b) - 1 : Least(b, a - i * b) \in 1 .. Least(b, a)
PROOF
<1> DEFINE c == a + b - 1
           q == c \div b
<1>1. c \in Nat /\ c = a + b - 1
  OBVIOUS
<1> HIDE DEF c
<1>2. q \in Nat /\ c % b \in 0 .. b - 1 /\ c = b * q + (c % b)
  BY <1>1, Division
<1> HIDE DEF q
<1>3. ASSUME NEW i \in Nat, i < q
      PROVE  Least(b, a - i * b) \in 1 .. Least(b, a)
  <2>1. i <= q - 1 /\ q - 1 \in Nat
    BY <1>2, <1>3
  <2>2. i * b <= (q - 1) * b
    BY <2>1, TimesGrows
  <2>3. (q - 1) * b = b * q - b /\ b * q \in Nat /\ i * b \in Nat
    BY <1>2
  <2>4. i * b < a
    BY <1>1, <1>2, <2>2, <2>3
  <2> QED
    BY <2>3, <2>4 DEF Least
<1> QED
  BY <1>2, <1>3 DEF q, c, Ceil

\* More takes no fewer pieces.
LEMMA CeilGrows ==
  ASSUME NEW a \in Nat, NEW d \in Nat, a <= d, NEW b \in Nat \ {0}
  PROVE  Ceil(a, b) <= Ceil(d, b)
PROOF
<1> DEFINE x == a + b - 1
           y == d + b - 1
           q == x \div b
           r == y \div b
<1>1. x \in Nat /\ y \in Nat /\ x <= y
  OBVIOUS
<1> HIDE DEF x, y
<1>2. /\ q \in Nat /\ x % b \in 0 .. b - 1 /\ x = b * q + (x % b)
      /\ r \in Nat /\ y % b \in 0 .. b - 1 /\ y = b * r + (y % b)
  BY <1>1, Division
<1> HIDE DEF q, r
<1>3. ASSUME r + 1 <= q PROVE FALSE
  <2>1. (r + 1) * b <= q * b
    BY <1>2, <1>3, TimesGrows
  <2>2. (r + 1) * b = b * r + b /\ q * b = b * q /\ b * r \in Nat /\ b * q \in Nat
    BY <1>2
  <2> QED
    BY <1>1, <1>2, <2>1, <2>2
<1>4. q <= r
  BY <1>2, <1>3
<1> QED
  BY <1>4 DEF q, r, x, y, Ceil

\* A set of numbers up to a bound has a largest one, and Max finds it.
LEMMA MaxOf ==
  ASSUME NEW N \in Nat, NEW T, T \subseteq 0 .. N, T # {}
  PROVE  Max(T) \in T /\ \A x \in T : Max(T) >= x
PROOF
<1> DEFINE D == {N - x : x \in T}
<1>1. (\A d \in D : d \in Nat) /\ D # {}
  <2>1. \A d \in D : d \in Nat
    <3>1. \A x \in T : N - x \in Nat
      OBVIOUS
    <3> QED
      BY <3>1, Zenon
  <2>2. PICK t \in T : TRUE
    BY Zenon
  <2>3. N - t \in D
    BY Zenon
  <2> QED
    BY <2>1, <2>3, Zenon
<1>2. PICK d \in D : \A y \in D : d <= y
  <2> HIDE DEF D
  <2> QED
    BY <1>1, LeastOf
<1>3. PICK t \in T : d = N - t
  BY <1>2
<1>4. \A y \in T : t >= y
  <2>1. SUFFICES ASSUME NEW y \in T PROVE t >= y
    OBVIOUS
  <2>2. N - y \in D /\ y \in 0 .. N /\ t \in 0 .. N
    OBVIOUS
  <2> HIDE DEF D
  <2> QED
    BY <1>2, <1>3, <2>2
<1> QED
  BY <1>4, Zenon DEF Max

\* A multiple of g leaves no remainder.
LEMMA NoRemainder == \A a \in Nat, g \in Nat \ {0} : (a * g) % g = 0
PROOF
<1> SUFFICES ASSUME NEW a \in Nat, NEW g \in Nat \ {0} PROVE (a * g) % g = 0
  OBVIOUS
<1> DEFINE q == (a * g) \div g
           r == (a * g) % g
<1>1. a * g \in Nat
  OBVIOUS
<1>2. q \in Nat /\ r \in 0 .. g - 1 /\ a * g = g * q + r
  BY <1>1, Division
<1> HIDE DEF q, r
<1>3. q * g = g * q /\ q * g \in Nat
  BY <1>2
<1>4. CASE q >= a
  <2>1. a * g <= q * g
    BY <1>2, <1>4, TimesGrows
  <2> QED
    BY <1>1, <1>2, <1>3, <2>1 DEF r
<1>5. CASE q <= a - 1
  <2>1. q * g <= (a - 1) * g
    BY <1>2, <1>5, TimesGrows
  <2>2. (a - 1) * g = a * g - g
    OBVIOUS
  <2> QED
    BY <1>1, <1>2, <1>3, <2>1, <2>2
<1> QED
  BY <1>2, <1>4, <1>5

\* A function on 1 .. m is a sequence of length m.
LEMMA LengthOf ==
  ASSUME NEW m \in Nat, NEW S, NEW s \in [1 .. m -> S]
  PROVE  s \in Seq(S) /\ Len(s) = m
PROOF
<1>1. s \in Seq(S)
  BY SeqDef
<1>2. Len(s) \in Nat /\ DOMAIN s = 1 .. Len(s)
  BY <1>1, LenProperties
<1> QED
  BY <1>1, <1>2

\* The elements of two sequences one after the other, whatever they are.
LEMMA Joined ==
  ASSUME NEW S, NEW T, NEW a \in Seq(S), NEW b \in Seq(T)
  PROVE  /\ a \o b \in Seq(S \cup T)
         /\ Len(a) \in Nat /\ Len(b) \in Nat
         /\ Len(a \o b) = Len(a) + Len(b)
         /\ \A i \in 1 .. Len(a) : (a \o b)[i] = a[i]
         /\ \A i \in 1 .. Len(b) : (a \o b)[Len(a) + i] = b[i]
PROOF
<1> DEFINE V == S \cup T
<1>1. a \in Seq(V) /\ b \in Seq(V)
  BY SeqDef
<1> HIDE DEF V
<1>2. /\ Len(a \o b) = Len(a) + Len(b)
      /\ a \o b \in Seq(V)
      /\ \A i \in 1 .. Len(a) + Len(b) :
           (a \o b)[i] = IF i <= Len(a) THEN a[i] ELSE b[i - Len(a)]
  BY <1>1, ConcatProperties
<1>3. Len(a) \in Nat /\ Len(b) \in Nat
  BY <1>1, LenProperties
<1> QED
  BY <1>2, <1>3 DEF V

(***************************************************************************)
(* Guarded programs.                                                       *)
(***************************************************************************)

Data(op) == op.on \in Streams /\ op.do \notin {"wait", "record", "sync"}
Touched(op) == op.reads \cup op.writes

\* Each event is recorded on one stream only.
Home(e) == IF e[1] = "copyDone" THEN "copy" ELSE "compute"

WellMade(op) ==
  /\ op.on \in Streams \cup {"legacy"}
  /\ op.do \in {"wait", "record"} => op.on \in Streams /\ op.event \in Events
  /\ op.do = "record" => op.on = Home(op.event)
  /\ op.do = "sync" => op.on \in Streams

\* A copy for slot k stands behind a wait for the kernels of the slot, other copies may
\* be between them.  shared[k] are the buffers that copies for slot k touch.
CopyGuarded(p, i, shared) ==
  \E k \in Slots : \E w \in 1 .. i - 1 :
    /\ p[w].do = "wait" /\ p[w].event = <<"computeDone", k>>
    /\ \A x \in w .. i : p[x].on = "copy"
    /\ Touched(p[i]) \subseteq shared[k]

\* A kernel that touches a buffer of slot k, and of no other slot, stands behind a wait
\* for all copies before it and before a record, with only kernels between them.
KernelGuarded(p, i, shared) ==
  \E k \in Slots : \E w \in 2 .. i - 1 : \E r \in i + 1 .. Len(p) :
    /\ p[w - 1].do = "record" /\ p[w - 1].on = "copy" /\ p[w - 1].event = <<"copyDone", k>>
    /\ p[w].do = "wait" /\ p[w].event = <<"copyDone", k>>
    /\ p[r].do = "record" /\ p[r].event = <<"computeDone", k>>
    /\ \A x \in w .. r : p[x].on = "compute"
    /\ \A j \in Slots \ {k} : Touched(p[i]) \cap shared[j] = {}

Unshared(op, shared) == \A k \in Slots : Touched(op) \cap shared[k] = {}

\* What holds of operation i of a guarded program; most bounds its partial sums.
GuardedAt(p, i, shared, most) ==
  /\ WellMade(p[i])
  /\ Data(p[i]) /\ p[i].on = "copy" => CopyGuarded(p, i, shared)
  /\ Data(p[i]) /\ p[i].on = "compute" => Unshared(p[i], shared) \/ KernelGuarded(p, i, shared)
  /\ p[i].do = "partial" => p[i].args.elems \in Nat /\ p[i].args.elems <= most
  /\ p[i].do = "ensure" => p[i].elems \in Nat /\ p[i].on = "legacy"

IsProgram(p) == \E S : p \in Seq(S)

Guarded(p, shared, most) ==
  IsProgram(p) /\ \A i \in 1 .. Len(p) : GuardedAt(p, i, shared, most)

\* The length of a program, and the empty one.
LEMMA ProgramLength == \A p : IsProgram(p) => Len(p) \in Nat
PROOF
BY LenProperties DEF IsProgram

\* A guard is still there when something is put behind the program.
LEMMA GuardBefore ==
  ASSUME NEW shared, NEW most, NEW a, NEW b, IsProgram(a), IsProgram(b),
         NEW i \in 1 .. Len(a), GuardedAt(a, i, shared, most)
  PROVE  GuardedAt(a \o b, i, shared, most)
PROOF
<1> DEFINE c == a \o b
<1>1. /\ Len(a) \in Nat /\ Len(b) \in Nat /\ Len(c) = Len(a) + Len(b)
      /\ \A x \in 1 .. Len(a) : c[x] = a[x]
  BY Joined DEF IsProgram
<1> HIDE DEF c
<1>2. c[i] = a[i]
  BY <1>1
<1>3. ASSUME CopyGuarded(a, i, shared) PROVE CopyGuarded(c, i, shared)
  <2>1. PICK k \in Slots, w \in 1 .. i - 1 :
          /\ a[w].do = "wait" /\ a[w].event = <<"computeDone", k>>
          /\ \A x \in w .. i : a[x].on = "copy"
          /\ Touched(a[i]) \subseteq shared[k]
    BY <1>3 DEF CopyGuarded
  <2>2. \A x \in w .. i : c[x] = a[x]
    BY <1>1
  <2>3. c[w].do = "wait" /\ c[w].event = <<"computeDone", k>> /\ \A x \in w .. i : c[x].on = "copy"
    BY <2>1, <2>2
  <2> QED
    BY <1>2, <2>1, <2>3 DEF CopyGuarded
<1>4. ASSUME KernelGuarded(a, i, shared) PROVE KernelGuarded(c, i, shared)
  <2>1. PICK k \in Slots, w \in 2 .. i - 1, r \in i + 1 .. Len(a) :
          /\ a[w - 1].do = "record" /\ a[w - 1].on = "copy" /\ a[w - 1].event = <<"copyDone", k>>
          /\ a[w].do = "wait" /\ a[w].event = <<"copyDone", k>>
          /\ a[r].do = "record" /\ a[r].event = <<"computeDone", k>>
          /\ \A x \in w .. r : a[x].on = "compute"
          /\ \A j \in Slots \ {k} : Touched(a[i]) \cap shared[j] = {}
    BY <1>4 DEF KernelGuarded
  <2>2. \A x \in w - 1 .. r : c[x] = a[x]
    BY <1>1
  <2>3. /\ c[w - 1] = a[w - 1] /\ c[w] = a[w] /\ c[r] = a[r]
        /\ r \in i + 1 .. Len(c)
    BY <1>1, <2>2, SMTT(30)
  <2>4. \A x \in w .. r : c[x].on = "compute"
    BY <2>1, <2>2
  <2> QED
    BY <1>2, <2>1, <2>3, <2>4, Zenon DEF KernelGuarded
<1> QED
  BY <1>2, <1>3, <1>4 DEF GuardedAt, c

\* A guard is still there when something is put before the program.
LEMMA GuardBehind ==
  ASSUME NEW shared, NEW most, NEW a, NEW b, IsProgram(a), IsProgram(b),
         NEW i \in 1 .. Len(b), GuardedAt(b, i, shared, most)
  PROVE  GuardedAt(a \o b, Len(a) + i, shared, most)
PROOF
<1> DEFINE c == a \o b
           n == Len(a)
<1>1. /\ n \in Nat /\ Len(b) \in Nat /\ Len(c) = n + Len(b)
      /\ \A x \in 1 .. Len(b) : c[n + x] = b[x]
  BY Joined DEF IsProgram
<1> HIDE DEF c, n
<1>2. c[n + i] = b[i]
  BY <1>1
<1>3. ASSUME CopyGuarded(b, i, shared) PROVE CopyGuarded(c, n + i, shared)
  <2>1. PICK k \in Slots, w \in 1 .. i - 1 :
          /\ b[w].do = "wait" /\ b[w].event = <<"computeDone", k>>
          /\ \A x \in w .. i : b[x].on = "copy"
          /\ Touched(b[i]) \subseteq shared[k]
    BY <1>3 DEF CopyGuarded
  <2>2. \A x \in n + w .. n + i : x - n \in w .. i /\ c[x] = b[x - n]
    <3>1. SUFFICES ASSUME NEW x \in n + w .. n + i PROVE x - n \in w .. i /\ c[x] = b[x - n]
      OBVIOUS
    <3>2. x - n \in w .. i /\ x - n \in 1 .. Len(b) /\ n + (x - n) = x
      BY <1>1
    <3> QED
      BY <1>1, <3>2
  <2>3. c[n + w] = b[w] /\ n + w \in 1 .. (n + i) - 1
    BY <1>1
  <2>4. \A x \in n + w .. n + i : c[x].on = "copy"
    BY <2>1, <2>2
  <2>5. /\ c[n + w].do = "wait" /\ c[n + w].event = <<"computeDone", k>>
        /\ Touched(c[n + i]) \subseteq shared[k]
    BY <1>2, <2>1, <2>3
  <2> QED
    BY <2>1, <2>3, <2>4, <2>5, Zenon DEF CopyGuarded
<1>4. ASSUME KernelGuarded(b, i, shared) PROVE KernelGuarded(c, n + i, shared)
  <2>1. PICK k \in Slots, w \in 2 .. i - 1, r \in i + 1 .. Len(b) :
          /\ b[w - 1].do = "record" /\ b[w - 1].on = "copy" /\ b[w - 1].event = <<"copyDone", k>>
          /\ b[w].do = "wait" /\ b[w].event = <<"copyDone", k>>
          /\ b[r].do = "record" /\ b[r].event = <<"computeDone", k>>
          /\ \A x \in w .. r : b[x].on = "compute"
          /\ \A j \in Slots \ {k} : Touched(b[i]) \cap shared[j] = {}
    BY <1>4 DEF KernelGuarded
  <2>2. \A x \in n + w .. n + r : x - n \in w .. r /\ c[x] = b[x - n]
    <3>1. SUFFICES ASSUME NEW x \in n + w .. n + r PROVE x - n \in w .. r /\ c[x] = b[x - n]
      OBVIOUS
    <3>2. x - n \in w .. r /\ x - n \in 1 .. Len(b) /\ n + (x - n) = x
      BY <1>1
    <3> QED
      BY <1>1, <3>2
  <2>3. /\ c[(n + w) - 1] = b[w - 1] /\ c[n + w] = b[w] /\ c[n + r] = b[r]
        /\ n + w \in 2 .. (n + i) - 1 /\ n + r \in (n + i) + 1 .. Len(c)
    <3>1. (n + w) - 1 = n + (w - 1) /\ w - 1 \in 1 .. Len(b) /\ w \in 1 .. Len(b) /\ r \in 1 .. Len(b)
      BY <1>1
    <3>2. n + w \in 2 .. (n + i) - 1 /\ n + r \in (n + i) + 1 .. Len(c)
      BY <1>1
    <3>3. c[n + (w - 1)] = b[w - 1] /\ c[n + w] = b[w] /\ c[n + r] = b[r]
      BY <1>1, <3>1
    <3> QED
      BY <3>1, <3>2, <3>3
  <2>4. \A x \in n + w .. n + r : c[x].on = "compute"
    BY <2>1, <2>2
  <2> QED
    BY <1>2, <2>1, <2>3, <2>4, ZenonT(60) DEF KernelGuarded
<1> QED
  BY <1>2, <1>3, <1>4 DEF GuardedAt, c, n

\* Two guarded programs one after the other are one.
LEMMA GuardedJoin ==
  ASSUME NEW shared, NEW most, NEW a, NEW b,
         Guarded(a, shared, most), Guarded(b, shared, most)
  PROVE  Guarded(a \o b, shared, most)
PROOF
<1> DEFINE c == a \o b
           n == Len(a)
<1>1. /\ IsProgram(a) /\ IsProgram(b)
      /\ \A i \in 1 .. n : GuardedAt(a, i, shared, most)
      /\ \A i \in 1 .. Len(b) : GuardedAt(b, i, shared, most)
  BY DEF Guarded
<1>2. IsProgram(c) /\ n \in Nat /\ Len(b) \in Nat /\ Len(c) = n + Len(b)
  <2>1. PICK S, T : a \in Seq(S) /\ b \in Seq(T)
    BY <1>1, Zenon DEF IsProgram
  <2>2. /\ c \in Seq(S \cup T)
        /\ n \in Nat /\ Len(b) \in Nat /\ Len(c) = n + Len(b)
    BY <2>1, Joined
  <2> QED
    BY <2>2, Zenon DEF IsProgram
<1>3. \A i \in 1 .. n : GuardedAt(c, i, shared, most)
  BY <1>1, GuardBefore
<1>4. \A i \in 1 .. Len(b) : GuardedAt(c, n + i, shared, most)
  BY <1>1, GuardBehind
<1> HIDE DEF c, n
<1>5. ASSUME NEW i \in 1 .. Len(c) PROVE GuardedAt(c, i, shared, most)
  <2>1. i \in 1 .. n \/ (i - n \in 1 .. Len(b) /\ n + (i - n) = i)
    BY <1>2
  <2>2. CASE i \in 1 .. n
    BY <1>3, <2>2
  <2>3. CASE i - n \in 1 .. Len(b) /\ n + (i - n) = i
    <3>1. GuardedAt(c, n + (i - n), shared, most)
      BY <1>4, <2>3
    <3> QED
      BY <2>3, <3>1
  <2> QED
    BY <2>1, <2>2, <2>3
<1> QED
  BY <1>2, <1>5 DEF Guarded, c

\* The function behind FlattenSeq exists.
LEMMA Flattening ==
  ASSUME NEW n \in Nat, NEW s
  PROVE  \E f : f = [i \in 1 .. n |-> IF i = 1 THEN s[i] ELSE f[i - 1] \o s[i]]
PROOF
<1> DEFINE Is(f, m) == f = [i \in 1 .. m |-> IF i = 1 THEN s[i] ELSE f[i - 1] \o s[i]]
           Bad == {m \in Nat : ~ \E f : Is(f, m)}
<1>1. SUFFICES ASSUME Bad # {} PROVE FALSE
  OBVIOUS
<1> HIDE DEF Is
<1>2. PICK m \in Bad : \A y \in Bad : m <= y
  <2>1. \A m \in Bad : m \in Nat
    OBVIOUS
  <2> QED
    BY <1>1, <2>1, LeastOf, Zenon
<1>3. CASE m = 0
  <2> DEFINE g == [i \in 1 .. 0 |-> IF i = 1 THEN s[i] ELSE s[i]]
  <2>1. Is(g, 0)
    BY DEF Is
  <2> QED
    BY <1>2, <1>3, <2>1
<1>4. CASE m # 0
  <2>1. m - 1 \in Nat /\ m - 1 \notin Bad
    BY <1>2, <1>4
  <2>2. PICK f : Is(f, m - 1)
    BY <2>1
  <2> DEFINE g == [i \in 1 .. m |-> IF i < m THEN f[i]
                                    ELSE IF m = 1 THEN s[m] ELSE f[m - 1] \o s[m]]
  <2>3. \A i \in 1 .. m : g[i] = IF i = 1 THEN s[i] ELSE g[i - 1] \o s[i]
    <3>1. SUFFICES ASSUME NEW i \in 1 .. m
                   PROVE  g[i] = IF i = 1 THEN s[i] ELSE g[i - 1] \o s[i]
      OBVIOUS
    <3>2. CASE i < m
      <4>1. g[i] = f[i] /\ (i # 1 => i - 1 \in 1 .. m /\ g[i - 1] = f[i - 1])
        BY <2>1, <3>2
      <4>2. f[i] = IF i = 1 THEN s[i] ELSE f[i - 1] \o s[i]
        <5>1. i \in 1 .. m - 1
          BY <2>1, <3>2
        <5> QED
          BY <2>2, <5>1, Zenon DEF Is
      <4> QED
        BY <4>1, <4>2
    <3>3. CASE i = m
      BY <2>1, <3>3
    <3> QED
      BY <2>1, <3>2, <3>3
  <2>4. Is(g, m)
    <3>1. g = [i \in 1 .. m |-> g[i]]
      OBVIOUS
    <3> HIDE DEF g
    <3> QED
      BY <2>3, <3>1, Zenon DEF Is
  <2> QED
    BY <1>2, <2>4, Zenon
<1> QED
  BY <1>2, <1>3, <1>4

\* Guarded programs one after the other are one, however many.
LEMMA GuardedFlatten ==
  ASSUME NEW shared, NEW most, NEW n \in Nat, NEW S, NEW s \in [1 .. n -> S],
         \A i \in 1 .. n : Guarded(s[i], shared, most)
  PROVE  Guarded(FlattenSeq(s), shared, most)
PROOF
<1>1. s \in Seq(S) /\ Len(s) = n
  BY LengthOf
<1>2. CASE n = 0
  <2>1. FlattenSeq(s) = s
    BY <1>1, <1>2 DEF FlattenSeq
  <2> QED
    BY <1>1, <1>2, <2>1 DEF Guarded, IsProgram
<1>3. CASE n # 0
  <2> DEFINE Is(g) == g = [i \in 1 .. n |-> IF i = 1 THEN s[i] ELSE g[i - 1] \o s[i]]
             f == CHOOSE g : Is(g)
  <2>1. FlattenSeq(s) = f[n]
    <3>1. FlattenSeq(s) = (CHOOSE g : g = [i \in 1 .. Len(s) |->
                                           IF i = 1 THEN s[i] ELSE g[i - 1] \o s[i]])[Len(s)]
      BY <1>1, <1>3, Zenon DEF FlattenSeq
    <3> QED
      BY <1>1, <3>1, Zenon
  <2>2. Is(f)
    BY Flattening, Zenon
  <2> HIDE DEF f
  <2>3. \A i \in 1 .. n : f[i] = IF i = 1 THEN s[i] ELSE f[i - 1] \o s[i]
    BY <2>2, Zenon
  <2> DEFINE Bad == {i \in 1 .. n : ~ Guarded(f[i], shared, most)}
  <2>4. SUFFICES ASSUME Bad # {} PROVE FALSE
    BY <1>3, <2>1
  <2>5. PICK m \in Bad : \A y \in Bad : m <= y
    <3>1. \A i \in Bad : i \in Nat
      OBVIOUS
    <3> QED
      BY <2>4, <3>1, LeastOf, Zenon
  <2>6. m # 1
    BY <2>3, <2>5
  <2>7. m - 1 \in 1 .. n /\ m - 1 \notin Bad
    BY <2>5, <2>6
  <2>8. Guarded(f[m - 1], shared, most) /\ Guarded(s[m], shared, most)
    BY <2>5, <2>7
  <2>9. f[m] = f[m - 1] \o s[m]
    BY <2>3, <2>5, <2>6
  <2> QED
    BY <2>5, <2>8, <2>9, GuardedJoin
<1> QED
  BY <1>2, <1>3

(***************************************************************************)
(* Stretches of a program.                                                 *)
(***************************************************************************)

\* The steps of a load or a drain of slot k.
CopyStep(op, k, shared) ==
  \/ op = Wait("copy", <<"computeDone", k>>)
  \/ op.do = "copy" /\ op.on = "copy" /\ Touched(op) \subseteq shared[k]

CopySteps(p, k, shared) ==
  IsProgram(p) /\ \A i \in 1 .. Len(p) : CopyStep(p[i], k, shared)

\* Such steps with a wait for the slot before them.
CopyRun(p, k, shared) ==
  /\ CopySteps(p, k, shared)
  /\ Len(p) >= 1 /\ p[1] = Wait("copy", <<"computeDone", k>>)

\* The kernels of a block in slot k.
KernelStep(op, k, shared, most) ==
  /\ op.on = "compute" /\ op.do \notin {"wait", "record", "sync", "ensure"}
  /\ op.do = "partial" => op.args.elems \in Nat /\ op.args.elems <= most
  /\ \A j \in Slots \ {k} : Touched(op) \cap shared[j] = {}

KernelSteps(p, k, shared, most) ==
  IsProgram(p) /\ \A i \in 1 .. Len(p) : KernelStep(p[i], k, shared, most)

\* Every step of c is one of a or one of b.
EachOf(c, a, b) ==
  \A i \in 1 .. Len(c) : \/ \E j \in 1 .. Len(a) : c[i] = a[j]
                         \/ \E j \in 1 .. Len(b) : c[i] = b[j]

\* The steps of two stretches one after the other are steps of the one or of the other.
LEMMA StepsOfBoth ==
  ASSUME NEW a, NEW b, IsProgram(a), IsProgram(b)
  PROVE  /\ IsProgram(a \o b)
         /\ Len(a) \in Nat /\ Len(b) \in Nat /\ Len(a \o b) = Len(a) + Len(b)
         /\ \A i \in 1 .. Len(a) : (a \o b)[i] = a[i]
         /\ EachOf(a \o b, a, b)
PROOF
<1> DEFINE c == a \o b
           n == Len(a)
<1>1. PICK S, T : a \in Seq(S) /\ b \in Seq(T)
  BY Zenon DEF IsProgram
<1>2. /\ c \in Seq(S \cup T)
      /\ n \in Nat /\ Len(b) \in Nat /\ Len(c) = n + Len(b)
      /\ \A i \in 1 .. n : c[i] = a[i]
      /\ \A i \in 1 .. Len(b) : c[n + i] = b[i]
  BY <1>1, Joined
<1>3. IsProgram(c)
  BY <1>2, Zenon DEF IsProgram
<1> HIDE DEF c, n
<1>4. ASSUME NEW i \in 1 .. Len(c)
      PROVE  \/ \E j \in 1 .. n : c[i] = a[j]
             \/ \E j \in 1 .. Len(b) : c[i] = b[j]
  <2>1. i \in 1 .. n \/ (i - n \in 1 .. Len(b) /\ n + (i - n) = i)
    BY <1>2
  <2>2. CASE i \in 1 .. n
    BY <1>2, <2>2
  <2>3. CASE i - n \in 1 .. Len(b) /\ n + (i - n) = i
    <3>1. c[n + (i - n)] = b[i - n]
      BY <1>2, <2>3
    <3> QED
      BY <2>3, <3>1
  <2> QED
    BY <2>1, <2>2, <2>3
<1> QED
  BY <1>2, <1>3, <1>4, Zenon DEF c, n, EachOf

\* More copies behind a stretch of copies.
LEMMA MoreCopies ==
  ASSUME NEW k, NEW shared, NEW a, NEW b,
         CopyRun(a, k, shared), CopySteps(b, k, shared)
  PROVE  CopyRun(a \o b, k, shared)
PROOF
<1> DEFINE c == a \o b
<1>1. /\ IsProgram(a) /\ IsProgram(b) /\ Len(a) >= 1
      /\ a[1] = Wait("copy", <<"computeDone", k>>)
      /\ \A i \in 1 .. Len(a) : CopyStep(a[i], k, shared)
      /\ \A i \in 1 .. Len(b) : CopyStep(b[i], k, shared)
  BY Zenon DEF CopyRun, CopySteps
<1>2. /\ IsProgram(c)
      /\ Len(a) \in Nat /\ Len(b) \in Nat /\ Len(c) = Len(a) + Len(b)
      /\ \A i \in 1 .. Len(a) : c[i] = a[i]
      /\ EachOf(c, a, b)
  BY <1>1, StepsOfBoth
<1> HIDE DEF c
<1>3. \A i \in 1 .. Len(c) : CopyStep(c[i], k, shared)
  BY <1>1, <1>2, Zenon DEF EachOf
<1>4. Len(c) >= 1 /\ c[1] = a[1]
  BY <1>1, <1>2
<1> QED
  BY <1>1, <1>2, <1>3, <1>4, Zenon DEF CopyRun, CopySteps, c

\* Programs of a single step, and of none.
LEMMA OneStep ==
  ASSUME NEW op
  PROVE  IsProgram(<<op>>) /\ Len(<<op>>) = 1 /\ <<op>>[1] = op
PROOF
<1>1. <<op>> \in Seq({op})
  OBVIOUS
<1> QED
  BY <1>1 DEF IsProgram

\* The empty program.
LEMMA NoStep == IsProgram(<<>>) /\ Len(<<>>) = 0
PROOF
<1>1. <<>> \in Seq({0})
  OBVIOUS
<1> QED
  BY <1>1 DEF IsProgram

\* A single step of a load or a drain, and none at all.
LEMMA OneCopy ==
  ASSUME NEW op, NEW k, NEW shared, CopyStep(op, k, shared)
  PROVE  CopySteps(<<op>>, k, shared) /\ CopySteps(<<>>, k, shared)
PROOF
<1>1. \A i \in 1 .. Len(<<op>>) : <<op>>[i] = op
  BY OneStep
<1>2. \A i \in 1 .. Len(<<>>) : FALSE
  BY NoStep
<1> QED
  BY <1>1, <1>2, OneStep, NoStep, Zenon DEF CopySteps

\* A wait alone is a stretch of copies.
LEMMA WaitOnly ==
  ASSUME NEW k, NEW shared
  PROVE  CopyRun(<<Wait("copy", <<"computeDone", k>>)>>, k, shared)
PROOF
<1> DEFINE op == Wait("copy", <<"computeDone", k>>)
<1>1. CopyStep(op, k, shared)
  BY Zenon DEF CopyStep
<1> HIDE DEF op
<1>2. CopySteps(<<op>>, k, shared)
  BY <1>1, OneCopy
<1>3. Len(<<op>>) >= 1 /\ <<op>>[1] = op
  BY OneStep
<1> QED
  BY <1>2, <1>3, Zenon DEF CopyRun, op

\* A stretch of copies is guarded.
LEMMA CopiesGuarded ==
  ASSUME NEW k \in Slots, NEW shared, NEW most, NEW p, CopyRun(p, k, shared)
  PROVE  Guarded(p, shared, most)
PROOF
<1>1. /\ IsProgram(p) /\ Len(p) >= 1 /\ Len(p) \in Nat
      /\ p[1] = Wait("copy", <<"computeDone", k>>)
      /\ \A i \in 1 .. Len(p) : CopyStep(p[i], k, shared)
  BY ProgramLength, Zenon DEF CopyRun, CopySteps
<1>2. p[1].do = "wait" /\ p[1].event = <<"computeDone", k>> /\ p[1].on = "copy"
  BY <1>1 DEF Wait
<1>3. \A i \in 1 .. Len(p) : p[i].on = "copy"
  BY <1>1 DEF Wait, CopyStep
<1>4. ASSUME NEW i \in 1 .. Len(p) PROVE GuardedAt(p, i, shared, most)
  <2>1. CASE p[i] = Wait("copy", <<"computeDone", k>>)
    <3>1. p[i].do = "wait" /\ p[i].on = "copy" /\ p[i].event \in Events
      BY <2>1 DEF Wait, Events
    <3> QED
      BY <3>1 DEF GuardedAt, WellMade, Data, Streams
  <2>2. CASE p[i].do = "copy" /\ p[i].on = "copy" /\ Touched(p[i]) \subseteq shared[k]
    <3>1. i # 1
      BY <1>2, <2>2
    <3>2. 1 \in 1 .. i - 1 /\ \A x \in 1 .. i : p[x].on = "copy"
      BY <1>1, <1>3, <3>1
    <3>3. CopyGuarded(p, i, shared)
      BY <1>2, <2>2, <3>2, Zenon DEF CopyGuarded
    <3> QED
      BY <2>2, <3>3 DEF GuardedAt, WellMade, Streams
  <2> QED
    BY <1>1, <2>1, <2>2 DEF CopyStep
<1> QED
  BY <1>1, <1>4, Zenon DEF Guarded

\* Kernels on a slot are guarded by what OnSlot puts before and behind them.
LEMMA OnSlotGuarded ==
  ASSUME NEW k \in Slots, NEW shared, NEW most, NEW ks, KernelSteps(ks, k, shared, most)
  PROVE  Guarded(OnSlot(k, ks), shared, most)
PROOF
<1> DEFINE R1 == Record("copy", <<"copyDone", k>>)
           W1 == Wait("compute", <<"copyDone", k>>)
           R2 == Record("compute", <<"computeDone", k>>)
           a == <<R1, W1>>
           d == a \o ks
           p == d \o <<R2>>
           n == Len(ks)
<1>1. IsProgram(ks) /\ n \in Nat /\ \A i \in 1 .. n : KernelStep(ks[i], k, shared, most)
  BY ProgramLength, Zenon DEF KernelSteps
<1>2. IsProgram(a) /\ Len(a) = 2 /\ a[1] = R1 /\ a[2] = W1
  <2> HIDE DEF R1, W1
  <2>1. a \in Seq({R1, W1})
    OBVIOUS
  <2> QED
    BY <2>1 DEF IsProgram
<1>3. IsProgram(<<R2>>) /\ Len(<<R2>>) = 1 /\ <<R2>>[1] = R2
  BY OneStep
<1>4. /\ R1.do = "record" /\ R1.on = "copy" /\ R1.event = <<"copyDone", k>>
      /\ W1.do = "wait" /\ W1.on = "compute" /\ W1.event = <<"copyDone", k>>
      /\ R2.do = "record" /\ R2.on = "compute" /\ R2.event = <<"computeDone", k>>
  BY DEF Record, Wait
<1>5. /\ IsProgram(p) /\ Len(p) = n + 3
      /\ p[1] = R1 /\ p[2] = W1 /\ p[n + 3] = R2
      /\ \A i \in 1 .. n : p[2 + i] = ks[i]
  <2> HIDE DEF R1, W1, R2, a
  <2>1. /\ IsProgram(d) /\ Len(d) = n + 2 /\ d[1] = R1 /\ d[2] = W1
        /\ \A i \in 1 .. n : d[2 + i] = ks[i]
    <3>1. PICK S, T : a \in Seq(S) /\ ks \in Seq(T)
      BY <1>1, <1>2, Zenon DEF IsProgram
    <3>2. /\ d \in Seq(S \cup T) /\ Len(d) = Len(a) + n
          /\ \A i \in 1 .. Len(a) : d[i] = a[i]
          /\ \A i \in 1 .. n : d[Len(a) + i] = ks[i]
      BY <3>1, Joined
    <3>3. IsProgram(d)
      BY <3>2, Zenon DEF IsProgram
    <3> HIDE DEF d
    <3> QED
      BY <1>1, <1>2, <3>2, <3>3
  <2> HIDE DEF d
  <2>2. PICK S, T : d \in Seq(S) /\ <<R2>> \in Seq(T)
    BY <1>3, <2>1, Zenon DEF IsProgram
  <2>3. /\ p \in Seq(S \cup T) /\ Len(p) = (n + 2) + 1
        /\ \A i \in 1 .. n + 2 : p[i] = d[i]
        /\ \A i \in 1 .. 1 : p[(n + 2) + i] = <<R2>>[i]
    BY <1>3, <2>1, <2>2, Joined
  <2>4. IsProgram(p)
    BY <2>3, Zenon DEF IsProgram
  <2> HIDE DEF p
  <2>5. Len(p) = n + 3 /\ p[1] = R1 /\ p[2] = W1
    BY <1>1, <2>1, <2>3
  <2>6. p[n + 3] = R2
    <3>1. 1 \in 1 .. 1 /\ (n + 2) + 1 = n + 3
      BY <1>1
    <3> QED
      BY <1>3, <2>3, <3>1
  <2>7. \A i \in 1 .. n : p[2 + i] = ks[i]
    BY <1>1, <2>1, <2>3
  <2> QED
    BY <2>4, <2>5, <2>6, <2>7
<1>6. OnSlot(k, ks) = p
  BY Zenon DEF OnSlot
<1> HIDE DEF p, R1, W1, R2
<1>7. \A i \in 3 .. n + 2 : KernelStep(p[i], k, shared, most)
  <2>1. SUFFICES ASSUME NEW i \in 3 .. n + 2 PROVE KernelStep(p[i], k, shared, most)
    OBVIOUS
  <2>2. i - 2 \in 1 .. n /\ 2 + (i - 2) = i
    BY <1>1
  <2>3. p[2 + (i - 2)] = ks[i - 2]
    BY <1>5, <2>2
  <2> QED
    BY <1>1, <2>2, <2>3
<1>8. \A x \in 2 .. n + 3 : p[x].on = "compute"
  <2>1. SUFFICES ASSUME NEW x \in 2 .. n + 3 PROVE p[x].on = "compute"
    OBVIOUS
  <2>2. x = 2 \/ x \in 3 .. n + 2 \/ x = n + 3
    BY <1>1
  <2> QED
    BY <1>4, <1>5, <1>7, <2>2 DEF KernelStep
<1>9. ASSUME NEW i \in 1 .. Len(p) PROVE GuardedAt(p, i, shared, most)
  <2>1. i = 1 \/ i = 2 \/ i \in 3 .. n + 2 \/ i = n + 3
    BY <1>1, <1>5
  <2>2. CASE i = 1 \/ i = 2 \/ i = n + 3
    <3> DEFINE e1 == <<"copyDone", k>>
               e2 == <<"computeDone", k>>
    <3>a. e1 \in Events /\ e2 \in Events /\ Home(e1) = "copy" /\ Home(e2) = "compute"
      BY DEF Events, Home
    <3> HIDE DEF e1, e2
    <3>b. p[i] \in {R1, W1, R2}
      BY <1>5, <2>2
    <3>c. /\ R1.do = "record" /\ R1.on = "copy" /\ R1.event = e1
          /\ W1.do = "wait" /\ W1.on = "compute" /\ W1.event = e1
          /\ R2.do = "record" /\ R2.on = "compute" /\ R2.event = e2
      BY <1>4 DEF e1, e2
    <3>1. /\ p[i].do \in {"wait", "record"} /\ p[i].event \in Events
          /\ p[i].on \in Streams
          /\ p[i].do = "record" => p[i].on = Home(p[i].event)
      BY <3>a, <3>b, <3>c DEF Streams
    <3> QED
      BY <3>1 DEF GuardedAt, WellMade, Data
  <2>3. CASE i \in 3 .. n + 2
    <3>1. KernelStep(p[i], k, shared, most)
      BY <1>7, <2>3
    <3>2. 2 \in 2 .. i - 1 /\ n + 3 \in i + 1 .. Len(p) /\ 2 - 1 = 1
      BY <1>1, <1>5, <2>3
    <3>3. \A j \in Slots \ {k} : Touched(p[i]) \cap shared[j] = {}
      BY <3>1, Zenon DEF KernelStep
    <3>4. KernelGuarded(p, i, shared)
      BY <1>4, <1>5, <1>8, <3>2, <3>3, Zenon DEF KernelGuarded
    <3>5. p[i].on = "compute" /\ p[i].do \notin {"wait", "record", "sync", "ensure"}
      BY <3>1 DEF KernelStep
    <3>6. p[i].do = "partial" => p[i].args.elems \in Nat /\ p[i].args.elems <= most
      BY <3>1, Zenon DEF KernelStep
    <3> QED
      BY <3>4, <3>5, <3>6 DEF GuardedAt, WellMade, Streams
  <2> QED
    BY <2>1, <2>2, <2>3
<1> QED
  BY <1>5, <1>6, <1>9, Zenon DEF Guarded

(***************************************************************************)
(* The pipelines.                                                          *)
(***************************************************************************)

\* A copy is a step of the slots its buffers are shared with.
LEMMA CopyIsStep ==
  ASSUME NEW dst, NEW doff, NEW dpitch, NEW src, NEW soff, NEW spitch, NEW w, NEW h,
         NEW k, NEW shared, src \in shared[k], dst \in shared[k]
  PROVE  CopyStep(Copy(dst, doff, dpitch, src, soff, spitch, w, h), k, shared)
PROOF
<1> DEFINE op == Copy(dst, doff, dpitch, src, soff, spitch, w, h)
<1>1. op.do = "copy" /\ op.on = "copy" /\ op.reads = {src} /\ op.writes = {dst}
  BY DEF Copy
<1> HIDE DEF op
<1>2. Touched(op) \subseteq shared[k]
  BY <1>1 DEF Touched
<1> QED
  BY <1>1, <1>2 DEF CopyStep, op

\* The slots are taken in turn.
LEMMA SlotOf ==
  ASSUME NEW i \in Nat
  PROVE  /\ i % NSLOT \in Slots
         /\ i >= NSLOT => i - NSLOT \in Nat /\ (i - NSLOT) % NSLOT = i % NSLOT
PROOF
BY DEF NSLOT, Slots

\* A drain is a stretch of copies of its slot.
LEMMA DrainsAreCopies ==
  ASSUME NEW i \in Nat, NEW ncols, NEW outH, NEW outBuf, NEW ldOut, NEW shared
  PROVE  /\ outH \in shared[i % NSLOT] /\ outBuf[i % NSLOT] \in shared[i % NSLOT] =>
              CopyRun(DrainColBlock(i, ncols, outH, outBuf), i % NSLOT, shared)
         /\ outH \in shared[i % NSLOT] /\ RO(i % NSLOT) \in shared[i % NSLOT] =>
              CopyRun(DrainRowChunk(i, outH, ldOut), i % NSLOT, shared)
PROOF
<1> DEFINE k == i % NSLOT
           wait == Wait("copy", <<"computeDone", k>>)
<1>1. \A op : CopyStep(op, k, shared) => CopyRun(<<wait, op>>, k, shared)
  <2>1. SUFFICES ASSUME NEW op, CopyStep(op, k, shared) PROVE CopyRun(<<wait, op>>, k, shared)
    OBVIOUS
  <2> HIDE DEF wait
  <2>2. /\ <<wait, op>> \in Seq({wait, op}) /\ Len(<<wait, op>>) = 2
        /\ <<wait, op>>[1] = wait /\ <<wait, op>>[2] = op
    OBVIOUS
  <2>3. \A i1 \in 1 .. 2 : CopyStep(<<wait, op>>[i1], k, shared)
    <3>1. CopyStep(wait, k, shared)
      BY Zenon DEF CopyStep, wait
    <3>2. \A i1 \in 1 .. 2 : i1 = 1 \/ i1 = 2
      OBVIOUS
    <3> QED
      BY <2>1, <2>2, <3>1, <3>2, Zenon
  <2> DEFINE p == <<wait, op>>
  <2>4. IsProgram(p)
    BY <2>2, Zenon DEF IsProgram
  <2>5. Len(p) = 2 /\ p[1] = wait /\ \A i1 \in 1 .. 2 : CopyStep(p[i1], k, shared)
    BY <2>2, <2>3
  <2> HIDE DEF p
  <2>6. CopyRun(p, k, shared)
    BY <2>4, <2>5 DEF CopyRun, CopySteps, wait
  <2> QED
    BY <2>6 DEF p
<1>2. ASSUME outH \in shared[k], outBuf[k] \in shared[k]
      PROVE  CopyRun(DrainColBlock(i, ncols, outH, outBuf), k, shared)
  <2> DEFINE op == Copy(outH, i * ctx.nb, ncols, outBuf[k], 0, ctx.nb,
                        Least(ctx.nb, ncols - i * ctx.nb), ctx.vecRows)
  <2>1. CopyStep(op, k, shared)
    BY <1>2, CopyIsStep
  <2>2. DrainColBlock(i, ncols, outH, outBuf) = <<wait, op>>
    BY Zenon DEF DrainColBlock
  <2> QED
    BY <1>1, <2>1, <2>2
<1>3. ASSUME outH \in shared[k], RO(k) \in shared[k]
      PROVE  CopyRun(DrainRowChunk(i, outH, ldOut), k, shared)
  <2> DEFINE r0 == i * ctx.chunkRows
             len == Least(ctx.chunkRows, ctx.vecRows - r0) * ldOut
             op == Copy(outH, r0 * ldOut, len, RO(k), 0, len, len, 1)
  <2>1. CopyStep(op, k, shared)
    BY <1>3, CopyIsStep
  <2>2. DrainRowChunk(i, outH, ldOut) = <<wait, op>>
    BY Zenon DEF DrainRowChunk
  <2> QED
    BY <1>1, <2>1, <2>2
<1> QED
  BY <1>2, <1>3

\* The drains after the loop are guarded.
LEMMA LastDrainsGuarded ==
  ASSUME NEW shared, NEW most, NEW n \in Nat, NEW drain,
         \A i \in 0 .. n - 1 : Guarded(drain[i], shared, most)
  PROVE  Guarded(LastDrains(n, drain), shared, most)
PROOF
<1> DEFINE first == Largest(n - NSLOT, 0)
           m == n - first
           s == [j \in 1 .. m |-> drain[first + j - 1]]
<1>1. first \in Nat /\ m \in Nat
  BY DEF Largest, NSLOT
<1>2. LastDrains(n, drain) = FlattenSeq(s)
  BY Zenon DEF LastDrains
<1>3. ASSUME NEW j \in 1 .. m PROVE Guarded(drain[first + j - 1], shared, most)
  <2> HIDE DEF first
  <2>1. first + j - 1 \in 0 .. n - 1
    BY <1>1
  <2> QED
    BY <2>1
<1> HIDE DEF m, first
<1> DEFINE S == {s[j] : j \in 1 .. m}
<1>4. s \in [1 .. m -> S]
  OBVIOUS
<1>5. \A j \in 1 .. m : Guarded(s[j], shared, most)
  BY <1>3
<1> HIDE DEF s
<1>6. Guarded(FlattenSeq(s), shared, most)
  BY <1>1, <1>4, <1>5, GuardedFlatten
<1> QED
  BY <1>2, <1>6

\* A block and a chunk are guarded if their kernels are kernels of the slot.
LEMMA BlocksGuarded ==
  ASSUME NEW i \in Nat, NEW k, k = i % NSLOT, NEW shared, NEW most,
         NEW head, CopyRun(head, k, shared),
         NEW drain, drain = <<>> \/ CopyRun(drain, k, shared),
         NEW load, CopySteps(load, k, shared),
         NEW more, CopySteps(more, k, shared),
         NEW ks, KernelSteps(ks, k, shared, most)
  PROVE  /\ Guarded(head \o drain \o load \o OnSlot(k, ks), shared, most)
         /\ Guarded(head \o drain \o load \o more \o OnSlot(k, ks), shared, most)
PROOF
<1>1. CopySteps(drain, k, shared)
  <2>1. CopySteps(<<>>, k, shared)
    BY NoStep DEF CopySteps
  <2> QED
    BY <2>1 DEF CopyRun
<1>2. CopyRun(head \o drain, k, shared)
  BY <1>1, MoreCopies
<1>3. CopyRun((head \o drain) \o load, k, shared)
  BY <1>2, MoreCopies
<1>4. CopyRun(((head \o drain) \o load) \o more, k, shared)
  BY <1>3, MoreCopies
<1>5. k \in Slots
  BY SlotOf
<1>6. Guarded(OnSlot(k, ks), shared, most)
  BY <1>5, OnSlotGuarded
<1>7. /\ Guarded((head \o drain) \o load, shared, most)
      /\ Guarded(((head \o drain) \o load) \o more, shared, most)
  BY <1>3, <1>4, <1>5, CopiesGuarded
<1> QED
  BY <1>6, <1>7, GuardedJoin

\* A block of columns.
LEMMA ColBlockGuarded ==
  ASSUME NEW i \in Nat, NEW inH, NEW ncols, NEW outH, NEW outBuf, NEW fn, NEW shared, NEW most,
         inH \in shared[i % NSLOT], outH \in shared[i % NSLOT],
         X(i % NSLOT) \in shared[i % NSLOT], outBuf[i % NSLOT] \in shared[i % NSLOT],
         KernelSteps(fn[i % NSLOT][Least(ctx.nb, ncols - i * ctx.nb)], i % NSLOT, shared, most)
  PROVE  Guarded(ColBlock(i, inH, ncols, outH, outBuf, fn), shared, most)
PROOF
<1> DEFINE k == i % NSLOT
           w == Least(ctx.nb, ncols - i * ctx.nb)
           head == << Wait("copy", <<"computeDone", k>>) >>
           drain == IF i >= NSLOT THEN DrainColBlock(i - NSLOT, ncols, outH, outBuf) ELSE <<>>
           op == Copy(X(k), 0, ctx.nb, inH, i * ctx.nb, ncols, w, ctx.vecRows)
           ks == fn[k][w]
<1>1. CopyRun(head, k, shared)
  BY WaitOnly
<1>2. drain = <<>> \/ CopyRun(drain, k, shared)
  <2>1. CASE i >= NSLOT
    <3> DEFINE h == i - NSLOT
    <3>1. h \in Nat /\ h % NSLOT = k
      BY <2>1, SlotOf
    <3>2. drain = DrainColBlock(h, ncols, outH, outBuf)
      BY <2>1
    <3> HIDE DEF h, drain, k
    <3>3. CopyRun(DrainColBlock(h, ncols, outH, outBuf), h % NSLOT, shared)
      BY <3>1, DrainsAreCopies DEF k
    <3> QED
      BY <3>1, <3>2, <3>3
  <2> QED
    BY <2>1
<1>3. CopySteps(<<op>>, k, shared)
  <2>1. CopyStep(op, k, shared)
    BY CopyIsStep
  <2> QED
    BY <2>1, OneCopy
<1>4. ColBlock(i, inH, ncols, outH, outBuf, fn) = head \o drain \o <<op>> \o OnSlot(k, ks)
  BY Zenon DEF ColBlock
<1>5. KernelSteps(ks, k, shared, most)
  OBVIOUS
<1>6. k = i % NSLOT
  OBVIOUS
<1> HIDE DEF k, head, drain, op, ks
<1>7. Guarded(head \o drain \o <<op>> \o OnSlot(k, ks), shared, most)
  BY <1>1, <1>2, <1>3, <1>5, <1>6, BlocksGuarded
<1> QED
  BY <1>4, <1>7

\* A chunk of rows.
LEMMA RowChunkGuarded ==
  ASSUME NEW i \in Nat, NEW Ah, NEW Bh, NEW ld, NEW outH, NEW ldOut, NEW fn, NEW shared, NEW most,
         Ah \in shared[i % NSLOT],
         Bh # None => Bh \in shared[i % NSLOT],
         outH # None => outH \in shared[i % NSLOT],
         RA(i % NSLOT) \in shared[i % NSLOT], RB(i % NSLOT) \in shared[i % NSLOT],
         RO(i % NSLOT) \in shared[i % NSLOT],
         KernelSteps(fn[i % NSLOT][Least(ctx.chunkRows, ctx.vecRows - i * ctx.chunkRows)],
                     i % NSLOT, shared, most)
  PROVE  Guarded(RowChunk(i, Ah, Bh, ld, outH, ldOut, fn), shared, most)
PROOF
<1> DEFINE k == i % NSLOT
           r0 == i * ctx.chunkRows
           rows == Least(ctx.chunkRows, ctx.vecRows - r0)
           head == << Wait("copy", <<"computeDone", k>>) >>
           drain == IF outH # None /\ i >= NSLOT THEN DrainRowChunk(i - NSLOT, outH, ldOut) ELSE <<>>
           load == << Copy(RA(k), 0, rows * ld, Ah, r0 * ld, rows * ld, rows * ld, 1) >>
           load2 == << Copy(RB(k), 0, rows * ld, Bh, r0 * ld, rows * ld, rows * ld, 1) >>
           more == IF Bh # None THEN load2 ELSE <<>>
           ks == fn[k][rows]
<1>1. CopyRun(head, k, shared)
  BY WaitOnly
<1>2. drain = <<>> \/ CopyRun(drain, k, shared)
  <2>1. CASE outH # None /\ i >= NSLOT
    <3> DEFINE h == i - NSLOT
    <3>1. h \in Nat /\ h % NSLOT = k
      BY <2>1, SlotOf
    <3>2. drain = DrainRowChunk(h, outH, ldOut)
      BY <2>1
    <3>3. outH \in shared[k]
      BY <2>1
    <3> HIDE DEF h, drain
    <3>4. CopyRun(DrainRowChunk(h, outH, ldOut), h % NSLOT, shared)
      BY <3>1, <3>3, DrainsAreCopies
    <3> QED
      BY <3>1, <3>2, <3>4
  <2> QED
    BY <2>1
<1>3. CopySteps(load, k, shared)
  BY CopyIsStep, OneCopy
<1>4. CopySteps(more, k, shared)
  <2>1. CASE Bh # None
    <3>1. CopySteps(load2, k, shared)
      BY <2>1, CopyIsStep, OneCopy
    <3> QED
      BY <2>1, <3>1
  <2>2. CASE Bh = None
    <3>1. CopySteps(<<>>, k, shared)
      BY NoStep DEF CopySteps
    <3> QED
      BY <2>2, <3>1
  <2> QED
    BY <2>1, <2>2
<1>5. RowChunk(i, Ah, Bh, ld, outH, ldOut, fn) = head \o drain \o load \o more \o OnSlot(k, ks)
  BY Zenon DEF RowChunk
<1>6. KernelSteps(ks, k, shared, most)
  OBVIOUS
<1>7. k = i % NSLOT
  OBVIOUS
<1> HIDE DEF k, head, drain, load, more, ks
<1>8. Guarded(head \o drain \o load \o more \o OnSlot(k, ks), shared, most)
  BY <1>1, <1>2, <1>3, <1>4, <1>6, <1>7, BlocksGuarded
<1> QED
  BY <1>5, <1>8

\* A program is closed if each of its streams is waited for after all that is queued on it.
IsSync(op, s) == op.do = "sync" /\ op.on = s
Closed(p) ==
  \A i \in 1 .. Len(p) : p[i].on \in Streams /\ p[i].do # "sync" =>
    \E y \in i + 1 .. Len(p) : IsSync(p[y], p[i].on)
Syncs(p) == \A s \in Streams : \E y \in 1 .. Len(p) : IsSync(p[y], s)

\* The end of a pass is guarded, closes and waits for both streams.
LEMMA EndOfPass ==
  ASSUME NEW pass, pass \in {"colPass", "rowPass"}, NEW shared, NEW most
  PROVE  Guarded(EndPass(pass), shared, most) /\ Closed(EndPass(pass)) /\ Syncs(EndPass(pass))
PROOF
<1> DEFINE y1 == Sync("compute")
           y2 == Sync("copy")
           y3 == [do |-> pass, on |-> "legacy"]
           p == <<y1, y2, y3>>
<1>1. /\ y1.do = "sync" /\ y1.on = "compute" /\ y2.do = "sync" /\ y2.on = "copy"
      /\ y3.do = pass /\ y3.on = "legacy"
  BY DEF Sync
<1>2. EndPass(pass) = p
  BY Zenon DEF EndPass
<1> HIDE DEF y1, y2, y3
<1>3. p \in Seq({y1, y2, y3}) /\ Len(p) = 3 /\ p[1] = y1 /\ p[2] = y2 /\ p[3] = y3
  OBVIOUS
<1> HIDE DEF p
<1>4. \A i \in 1 .. Len(p) : \/ p[i].do = "sync" /\ p[i].on \in Streams
                             \/ p[i].do = pass /\ p[i].on = "legacy"
  <2>1. \A i \in 1 .. Len(p) : i = 1 \/ i = 2 \/ i = 3
    BY <1>3
  <2> QED
    BY <1>1, <1>3, <2>1 DEF Streams
<1>5. Guarded(p, shared, most)
  BY <1>3, <1>4 DEF Guarded, IsProgram, GuardedAt, WellMade, Data, Streams
<1>6. Closed(p)
  BY <1>4 DEF Closed, Streams
<1>7. Syncs(p)
  <2>1. IsSync(p[1], "compute") /\ IsSync(p[2], "copy") /\ 1 \in 1 .. Len(p) /\ 2 \in 1 .. Len(p)
    BY <1>1, <1>3 DEF IsSync
  <2> QED
    BY <2>1 DEF Syncs, Streams
<1> QED
  BY <1>2, <1>5, <1>6, <1>7

\* What closes a program also closes what is put before it.
LEMMA CloseBefore ==
  ASSUME NEW a, NEW b, IsProgram(a), IsProgram(b), Closed(b), Syncs(b)
  PROVE  Closed(a \o b) /\ Syncs(a \o b)
PROOF
<1> DEFINE c == a \o b
           n == Len(a)
<1>1. PICK S, T : a \in Seq(S) /\ b \in Seq(T)
  BY Zenon DEF IsProgram
<1>2. /\ n \in Nat /\ Len(b) \in Nat /\ Len(c) = n + Len(b)
      /\ \A i \in 1 .. n : c[i] = a[i]
      /\ \A i \in 1 .. Len(b) : c[n + i] = b[i]
  BY <1>1, Joined
<1> HIDE DEF c, n
<1>3. \A s \in Streams : \E y \in n + 1 .. Len(c) : IsSync(c[y], s)
  <2>1. SUFFICES ASSUME NEW s \in Streams PROVE \E y \in n + 1 .. Len(c) : IsSync(c[y], s)
    OBVIOUS
  <2>2. PICK y \in 1 .. Len(b) : IsSync(b[y], s)
    BY DEF Syncs
  <2>3. n + y \in n + 1 .. Len(c) /\ IsSync(c[n + y], s)
    BY <1>2, <2>2
  <2> QED
    BY <2>3
<1>4. Syncs(c)
  <2>1. \A y \in n + 1 .. Len(c) : y \in 1 .. Len(c)
    BY <1>2
  <2> QED
    BY <1>3, <2>1, Zenon DEF Syncs
<1>5. ASSUME NEW i \in 1 .. Len(c), c[i].on \in Streams, c[i].do # "sync"
      PROVE  \E y \in i + 1 .. Len(c) : IsSync(c[y], c[i].on)
  <2>1. CASE i \in 1 .. n
    <3>1. PICK y \in n + 1 .. Len(c) : IsSync(c[y], c[i].on)
      BY <1>3, <1>5
    <3>2. y \in i + 1 .. Len(c)
      BY <1>2, <2>1
    <3> QED
      BY <3>1, <3>2
  <2>2. CASE i \notin 1 .. n
    <3> DEFINE j == i - n
    <3>1. j \in 1 .. Len(b) /\ n + j = i
      BY <1>2, <2>2
    <3> HIDE DEF j
    <3>2. c[i] = b[j]
      BY <1>2, <3>1
    <3>3. PICK y \in j + 1 .. Len(b) : IsSync(b[y], b[j].on)
      BY <1>5, <3>1, <3>2 DEF Closed
    <3>4. n + y \in i + 1 .. Len(c) /\ c[n + y] = b[y]
      BY <1>2, <3>1
    <3> QED
      BY <3>2, <3>3, <3>4
  <2> QED
    BY <2>1, <2>2
<1> QED
  BY <1>4, <1>5 DEF Closed, c

\* Work of the legacy stream behind a closed program keeps it closed.
LEMMA CloseBehind ==
  ASSUME NEW a, NEW b, IsProgram(a), IsProgram(b), Closed(a),
         \A i \in 1 .. Len(b) : b[i].on = "legacy"
  PROVE  Closed(a \o b)
PROOF
<1> DEFINE c == a \o b
           n == Len(a)
<1>1. PICK S, T : a \in Seq(S) /\ b \in Seq(T)
  BY Zenon DEF IsProgram
<1>2. /\ n \in Nat /\ Len(b) \in Nat /\ Len(c) = n + Len(b)
      /\ \A i \in 1 .. n : c[i] = a[i]
      /\ \A i \in 1 .. Len(b) : c[n + i] = b[i]
  BY <1>1, Joined
<1> HIDE DEF c, n
<1>3. ASSUME NEW i \in 1 .. Len(c), c[i].on \in Streams, c[i].do # "sync"
      PROVE  \E y \in i + 1 .. Len(c) : IsSync(c[y], c[i].on)
  <2>1. CASE i \in 1 .. n
    <3>1. c[i] = a[i]
      BY <1>2, <2>1
    <3>2. PICK y \in i + 1 .. n : IsSync(a[y], a[i].on)
      BY <1>3, <2>1, <3>1 DEF Closed, n
    <3>3. y \in i + 1 .. Len(c) /\ c[y] = a[y]
      BY <1>2, <2>1
    <3> QED
      BY <3>1, <3>2, <3>3
  <2>2. CASE i \notin 1 .. n
    <3>1. i - n \in 1 .. Len(b) /\ n + (i - n) = i
      BY <1>2, <2>2
    <3>2. c[n + (i - n)] = b[i - n]
      BY <1>2, <3>1
    <3>3. c[i].on = "legacy"
      BY <3>1, <3>2
    <3> QED
      BY <1>3, <3>3 DEF Streams
  <2> QED
    BY <2>1, <2>2
<1> QED
  BY <1>3 DEF Closed, c

\* What the pipelines make, and what the entries make of them.
Whole(p, shared, most) == Guarded(p, shared, most) /\ Closed(p) /\ Syncs(p)

\* The blocks, the last drains and the end of a pass.
LEMMA PassIsWhole ==
  ASSUME NEW shared, NEW most, NEW pass, pass \in {"colPass", "rowPass"},
         NEW n \in Nat, NEW block, NEW S, block \in [1 .. n -> S],
         \A j \in 1 .. n : Guarded(block[j], shared, most),
         NEW last, Guarded(last, shared, most)
  PROVE  Whole(FlattenSeq(block) \o last \o EndPass(pass), shared, most)
PROOF
<1> DEFINE flat == FlattenSeq(block)
           body == flat \o last
           end == EndPass(pass)
<1>1. Guarded(flat, shared, most)
  BY GuardedFlatten
<1>2. Guarded(body, shared, most)
  BY <1>1, GuardedJoin
<1>3. Guarded(end, shared, most) /\ Closed(end) /\ Syncs(end)
  BY EndOfPass
<1> HIDE DEF body, end
<1>4. Guarded(body \o end, shared, most)
  BY <1>2, <1>3, GuardedJoin
<1>5. Closed(body \o end) /\ Syncs(body \o end)
  BY <1>2, <1>3, CloseBefore DEF Guarded
<1> QED
  BY <1>4, <1>5 DEF Whole, body, end

\* A pass over the column blocks.
LEMMA ColPass ==
  ASSUME NEW inH, NEW ncols \in Nat, NEW outH, NEW outBuf, NEW fn, NEW shared, NEW most,
         ctx.nb \in Nat \ {0},
         \A k \in Slots : /\ inH \in shared[k] /\ outH \in shared[k]
                          /\ X(k) \in shared[k] /\ outBuf[k] \in shared[k],
         \A k \in Slots : \A w \in 1 .. ctx.nb : KernelSteps(fn[k][w], k, shared, most)
  PROVE  Whole(ColBlockPipeline(inH, ncols, outH, outBuf, fn), shared, most)
PROOF
<1> DEFINE n == Ceil(ncols, ctx.nb)
           block == [j \in 1 .. n |-> ColBlock(j - 1, inH, ncols, outH, outBuf, fn)]
           drain == [i \in 0 .. n - 1 |-> DrainColBlock(i, ncols, outH, outBuf)]
           last == LastDrains(n, drain)
<1>1. /\ n \in Nat
      /\ \A i \in 0 .. n - 1 : Least(ctx.nb, ncols - i * ctx.nb) \in 1 .. ctx.nb
  <2>1. /\ n \in Nat
        /\ \A i \in 0 .. n - 1 : Least(ctx.nb, ncols - i * ctx.nb) \in 1 .. Least(ctx.nb, ncols)
    BY CeilBound, Zenon
  <2>2. 1 .. Least(ctx.nb, ncols) \subseteq 1 .. ctx.nb
    BY DEF Least
  <2> QED
    BY <2>1, <2>2
<1> HIDE DEF n
<1>2. ASSUME NEW i \in 0 .. n - 1
      PROVE  Guarded(ColBlock(i, inH, ncols, outH, outBuf, fn), shared, most)
  <2> DEFINE k == i % NSLOT
             w == Least(ctx.nb, ncols - i * ctx.nb)
  <2>1. i \in Nat /\ k \in Slots /\ w \in 1 .. ctx.nb
    BY <1>1, SlotOf
  <2> HIDE DEF k, w
  <2>2. KernelSteps(fn[k][w], k, shared, most)
    BY <2>1
  <2>3. /\ inH \in shared[k] /\ outH \in shared[k]
        /\ X(k) \in shared[k] /\ outBuf[k] \in shared[k]
    BY <2>1
  <2> QED
    BY <2>1, <2>2, <2>3, ColBlockGuarded DEF k, w
<1>3. ASSUME NEW i \in 0 .. n - 1 PROVE Guarded(drain[i], shared, most)
  <2>1. i \in Nat /\ i % NSLOT \in Slots
    BY SlotOf, <1>1
  <2>2. CopyRun(DrainColBlock(i, ncols, outH, outBuf), i % NSLOT, shared)
    BY <2>1, DrainsAreCopies
  <2>3. Guarded(DrainColBlock(i, ncols, outH, outBuf), shared, most)
    BY <2>1, <2>2, CopiesGuarded
  <2> QED
    BY <2>3
<1>4. Guarded(last, shared, most)
  <2> HIDE DEF drain
  <2> QED
    BY <1>1, <1>3, LastDrainsGuarded
<1>5. \A j \in 1 .. n : Guarded(block[j], shared, most)
  <2>1. SUFFICES ASSUME NEW j \in 1 .. n PROVE Guarded(block[j], shared, most)
    OBVIOUS
  <2>2. j - 1 \in 0 .. n - 1
    BY <1>1
  <2>3. Guarded(ColBlock(j - 1, inH, ncols, outH, outBuf, fn), shared, most)
    BY <1>2, <2>2
  <2> QED
    BY <2>3
<1> DEFINE S == {block[j] : j \in 1 .. n}
<1>6. block \in [1 .. n -> S]
  OBVIOUS
<1>7. ColBlockPipeline(inH, ncols, outH, outBuf, fn) = FlattenSeq(block) \o last \o EndPass("colPass")
  BY Zenon DEF ColBlockPipeline, n
<1> HIDE DEF block, last
<1>8. Whole(FlattenSeq(block) \o last \o EndPass("colPass"), shared, most)
  BY <1>1, <1>4, <1>5, <1>6, PassIsWhole
<1> QED
  BY <1>7, <1>8

\* A pass over the row chunks.
LEMMA RowPass ==
  ASSUME NEW Ah, NEW Bh, NEW ld, NEW outH, NEW ldOut, NEW fn, NEW shared, NEW most,
         ctx.vecRows \in Nat \ {0}, ctx.chunkRows \in Nat \ {0},
         \A k \in Slots : /\ Ah \in shared[k]
                          /\ Bh # None => Bh \in shared[k]
                          /\ outH # None => outH \in shared[k]
                          /\ RA(k) \in shared[k] /\ RB(k) \in shared[k] /\ RO(k) \in shared[k],
         \A k \in Slots : \A rows \in ChunkSizes : KernelSteps(fn[k][rows], k, shared, most)
  PROVE  Whole(RowChunkPipeline(Ah, Bh, ld, outH, ldOut, fn), shared, most)
PROOF
<1> DEFINE n == Ceil(ctx.vecRows, ctx.chunkRows)
           block == [j \in 1 .. n |-> RowChunk(j - 1, Ah, Bh, ld, outH, ldOut, fn)]
           drain == [i \in 0 .. n - 1 |-> DrainRowChunk(i, outH, ldOut)]
           last == IF outH # None THEN LastDrains(n, drain) ELSE <<>>
<1>1. /\ n \in Nat
      /\ \A i \in 0 .. n - 1 : Least(ctx.chunkRows, ctx.vecRows - i * ctx.chunkRows) \in ChunkSizes
  BY CeilBound DEF ChunkSizes
<1> HIDE DEF n
<1>2. ASSUME NEW i \in 0 .. n - 1
      PROVE  Guarded(RowChunk(i, Ah, Bh, ld, outH, ldOut, fn), shared, most)
  <2> DEFINE k == i % NSLOT
             rows == Least(ctx.chunkRows, ctx.vecRows - i * ctx.chunkRows)
  <2>1. i \in Nat /\ k \in Slots /\ rows \in ChunkSizes
    BY <1>1, SlotOf
  <2> HIDE DEF k, rows
  <2>2. KernelSteps(fn[k][rows], k, shared, most)
    BY <2>1
  <2>3. /\ Ah \in shared[k]
        /\ Bh # None => Bh \in shared[k]
        /\ outH # None => outH \in shared[k]
        /\ RA(k) \in shared[k] /\ RB(k) \in shared[k] /\ RO(k) \in shared[k]
    BY <2>1
  <2> QED
    BY <2>1, <2>2, <2>3, RowChunkGuarded DEF k, rows
<1>3. ASSUME NEW i \in 0 .. n - 1, outH # None PROVE Guarded(drain[i], shared, most)
  <2>1. i \in Nat /\ i % NSLOT \in Slots
    BY SlotOf, <1>1
  <2>2. CopyRun(DrainRowChunk(i, outH, ldOut), i % NSLOT, shared)
    BY <1>3, <2>1, DrainsAreCopies
  <2>3. Guarded(DrainRowChunk(i, outH, ldOut), shared, most)
    BY <2>1, <2>2, CopiesGuarded
  <2> QED
    BY <2>3
<1>4. Guarded(last, shared, most)
  <2> HIDE DEF drain
  <2>1. CASE outH # None
    BY <1>1, <1>3, <2>1, LastDrainsGuarded
  <2>2. CASE outH = None
    <3>1. Guarded(<<>>, shared, most)
      BY NoStep DEF Guarded
    <3> QED
      BY <2>2, <3>1
  <2> QED
    BY <2>1, <2>2
<1>5. \A j \in 1 .. n : Guarded(block[j], shared, most)
  <2>1. SUFFICES ASSUME NEW j \in 1 .. n PROVE Guarded(block[j], shared, most)
    OBVIOUS
  <2>2. j - 1 \in 0 .. n - 1
    BY <1>1
  <2>3. Guarded(RowChunk(j - 1, Ah, Bh, ld, outH, ldOut, fn), shared, most)
    BY <1>2, <2>2
  <2> QED
    BY <2>3
<1> DEFINE S == {block[j] : j \in 1 .. n}
<1>6. block \in [1 .. n -> S]
  OBVIOUS
<1>7. RowChunkPipeline(Ah, Bh, ld, outH, ldOut, fn) = FlattenSeq(block) \o last \o EndPass("rowPass")
  BY Zenon DEF RowChunkPipeline, n
<1> HIDE DEF block, last
<1>8. Whole(FlattenSeq(block) \o last \o EndPass("rowPass"), shared, most)
  BY <1>1, <1>4, <1>5, <1>6, PassIsWhole
<1> QED
  BY <1>7, <1>8

(***************************************************************************)
(* The entries.                                                            *)
(***************************************************************************)

\* The buffers of slot k that copies touch; out[k] is where a column pass leaves results.
Shared(out) == [k \in Slots |-> HostArrays \cup {X(k), RA(k), RB(k), RO(k), out[k]}]
InSlot == [k \in Slots |-> X(k)]

\* The buffers of the kernels of one slot are not shared with copies for the other.
LEMMA Apart ==
  ASSUME NEW k \in Slots, NEW j \in Slots, j # k
  PROVE  /\ {X(k), RA(k), RB(k), RO(k), U, W, Partial, G, Res2, B} \cap Shared(InSlot)[j] = {}
         /\ {X(k), OutSlot[k]} \cap Shared(OutSlot)[j] = {}
PROOF
BY DEF Shared, InSlot, OutSlot, HostArrays, Slots, NSLOT, X, RA, RB, RO, U, W, Y, AY, Partial, G,
       Res2, B

\* A kernel is one of slot k if its buffers are.
LEMMA KernelIsStep ==
  ASSUME NEW do, NEW reads, NEW writes, NEW args, NEW k, NEW shared, NEW most,
         do \notin {"wait", "record", "sync", "ensure"},
         do = "partial" => args.elems \in Nat /\ args.elems <= most,
         \A j \in Slots \ {k} : (reads \cup writes) \cap shared[j] = {}
  PROVE  KernelStep(Kernel(do, reads, writes, args), k, shared, most)
PROOF
<1> DEFINE op == Kernel(do, reads, writes, args)
<1>1. /\ op.do = do /\ op.on = "compute" /\ op.reads = reads /\ op.writes = writes
      /\ op.args = args
  BY DEF Kernel
<1> HIDE DEF op
<1>2. Touched(op) = reads \cup writes
  BY <1>1 DEF Touched
<1> QED
  BY <1>1, <1>2 DEF KernelStep, op

\* Kernels behind kernels.
LEMMA MoreKernels ==
  ASSUME NEW k, NEW shared, NEW most, NEW a, NEW b,
         KernelSteps(a, k, shared, most), KernelSteps(b, k, shared, most)
  PROVE  KernelSteps(a \o b, k, shared, most)
PROOF
<1> DEFINE c == a \o b
<1>1. /\ IsProgram(a) /\ IsProgram(b)
      /\ \A i \in 1 .. Len(a) : KernelStep(a[i], k, shared, most)
      /\ \A i \in 1 .. Len(b) : KernelStep(b[i], k, shared, most)
  BY Zenon DEF KernelSteps
<1>2. /\ IsProgram(c)
      /\ EachOf(c, a, b)
  BY <1>1, StepsOfBoth
<1> HIDE DEF c
<1>3. \A i \in 1 .. Len(c) : KernelStep(c[i], k, shared, most)
  BY <1>1, <1>2, Zenon DEF EachOf
<1> QED
  BY <1>2, <1>3, Zenon DEF KernelSteps, c

\* One kernel, and two.
LEMMA FewKernels ==
  ASSUME NEW k, NEW shared, NEW most, NEW x, KernelStep(x, k, shared, most)
  PROVE  /\ KernelSteps(<<x>>, k, shared, most)
         /\ \A y : KernelStep(y, k, shared, most) => KernelSteps(<<x, y>>, k, shared, most)
PROOF
<1>1. KernelSteps(<<x>>, k, shared, most)
  <2>1. \A i \in 1 .. Len(<<x>>) : <<x>>[i] = x
    BY OneStep
  <2> QED
    BY <2>1, OneStep, Zenon DEF KernelSteps
<1>2. ASSUME NEW y, KernelStep(y, k, shared, most)
      PROVE  KernelSteps(<<x, y>>, k, shared, most)
  <2> DEFINE p == <<x, y>>
  <2>1. p \in Seq({x, y}) /\ Len(p) = 2 /\ p[1] = x /\ p[2] = y
    OBVIOUS
  <2> HIDE DEF p
  <2>2. \A i \in 1 .. Len(p) : p[i] = x \/ p[i] = y
    BY <2>1
  <2>3. \A i \in 1 .. Len(p) : KernelStep(p[i], k, shared, most)
    BY <1>2, <2>2, Zenon
  <2>4. IsProgram(p)
    BY <2>1, Zenon DEF IsProgram
  <2> QED
    BY <2>3, <2>4, Zenon DEF KernelSteps, p
<1> QED
  BY <1>1, <1>2

\* The kernels of the filter.
LEMMA FilterKernels ==
  ASSUME NEW np \in Nat \ {0, 1}, NEW k \in Slots, NEW w, NEW most
  PROVE  KernelSteps(FilterSubBlock(np, k, w), k, Shared(InSlot), most)
PROOF
<1> DEFINE shared == Shared(InSlot)
           own == {X(k), U, W}
<1>1. \A j \in Slots \ {k} : own \cap shared[j] = {}
  BY Apart
<1> HIDE DEF shared
<1>2. ASSUME NEW do, do \in {"axpby3", "chebfd"}, NEW reads, NEW writes, NEW args,
             reads \subseteq own, writes \subseteq own
      PROVE  KernelStep(Kernel(do, reads, writes, args), k, shared, most)
  <2>1. \A j \in Slots \ {k} : (reads \cup writes) \cap shared[j] = {}
    BY <1>1, <1>2
  <2> HIDE DEF own
  <2> QED
    BY <1>2, <2>1, KernelIsStep
<1>3. ASSUME NEW x \in own, NEW f, NEW q, q = None \/ q \in own, NEW cQ, NEW y \in own,
             NEW r \in own, NEW cR
      PROVE  KernelStep(Chebfd(x, f, q, cQ, y, r, cR, w), k, shared, most)
  <2> DEFINE reads == {x, r} \cup (IF q = None THEN {} ELSE {q})
             args == [x |-> x, f |-> f, q |-> q, cQ |-> cQ, y |-> y, r |-> r, cR |-> cR, w |-> w]
  <2>1. Chebfd(x, f, q, cQ, y, r, cR, w) = Kernel("chebfd", reads, {y}, args)
    BY Zenon DEF Chebfd
  <2>2. reads \subseteq own /\ {y} \subseteq own
    BY <1>3
  <2> HIDE DEF reads, args, own
  <2> QED
    BY <1>2, <2>1, <2>2
<1>4. /\ X(k) \in own /\ U \in own /\ W \in own
      /\ \A kk : B1(np, kk) \in own /\ B2(np, kk) \in own
  BY DEF B1, B2
<1> DEFINE first == Kernel("axpby3", {X(k)}, {U}, [x |-> X(k), a |-> Gc[np], y |-> U])
           second == Chebfd(U, 2, None, 0, W, X(k), Gc[np - 1], w)
           step(j) == LET kk == np - 1 - j
                      IN Chebfd(B1(np, kk), 2, B2(np, kk), -1, B2(np, kk), X(k), Gc[kk], w)
           middle == [j \in 1 .. np - 2 |-> step(j)]
           last == Chebfd(B1(np, 0), 1, B2(np, 0), -1, X(k), X(k), Gc[0], w)
<1>5. FilterSubBlock(np, k, w) = <<first, second>> \o middle \o <<last>>
  BY Zenon DEF FilterSubBlock
<1>6. KernelStep(first, k, shared, most)
  <2>1. {X(k)} \subseteq own /\ {U} \subseteq own
    OBVIOUS
  <2> HIDE DEF own
  <2> QED
    BY <1>2, <2>1
<1> HIDE DEF own
<1>7. KernelStep(second, k, shared, most) /\ KernelStep(last, k, shared, most)
  BY <1>3, <1>4
<1>8. \A j \in 1 .. np - 2 : KernelStep(step(j), k, shared, most)
  BY <1>3, <1>4
<1> HIDE DEF first, second, step, last
<1>9. KernelSteps(middle, k, shared, most)
  <2> DEFINE S == {step(j) : j \in 1 .. np - 2}
  <2>1. middle \in [1 .. np - 2 -> S] /\ np - 2 \in Nat
    OBVIOUS
  <2>2. \A j \in 1 .. np - 2 : middle[j] = step(j)
    OBVIOUS
  <2> HIDE DEF middle, S
  <2>3. middle \in Seq(S) /\ Len(middle) = np - 2
    BY <2>1, LengthOf
  <2>4. IsProgram(middle)
    BY <2>3, Zenon DEF IsProgram
  <2>5. \A j \in 1 .. Len(middle) : KernelStep(middle[j], k, shared, most)
    BY <1>8, <2>2, <2>3
  <2> QED
    BY <2>4, <2>5, Zenon DEF KernelSteps
<1> HIDE DEF middle
<1>10. KernelSteps(<<first, second>>, k, shared, most) /\ KernelSteps(<<last>>, k, shared, most)
  BY <1>6, <1>7, FewKernels
<1>11. KernelSteps(<<first, second>> \o middle \o <<last>>, k, shared, most)
  BY <1>9, <1>10, MoreKernels
<1> QED
  BY <1>5, <1>11 DEF shared

\* The kernels of A Y, of the update, and of the sums.
LEMMA OtherKernels ==
  ASSUME NEW k \in Slots, NEW args, NEW most
  PROVE  /\ KernelSteps(<<Kernel("spmmv", {X(k)}, {OutSlot[k]}, args)>>, k, Shared(OutSlot), most)
         /\ KernelSteps(<<Kernel("update", {RA(k), B}, {RO(k)}, args)>>, k, Shared(InSlot), most)
         /\ \A a, b, with, acc, groups, m, width :
              /\ a \in {RA(k), RB(k)} /\ b \in {RA(k), RB(k)} /\ with \subseteq {B} /\ acc \in {G, Res2}
              /\ Len(groups) * width \in Nat /\ Len(groups) * width <= most
              => KernelSteps(Reduce(a, b, groups, m, width, with, acc), k, Shared(InSlot), most)
PROOF
<1> DEFINE own == {X(k), RA(k), RB(k), RO(k), U, W, Partial, G, Res2, B}
           shared == Shared(InSlot)
<1>1. \A j \in Slots \ {k} : own \cap shared[j] = {}
  BY Apart
<1>2. KernelSteps(<<Kernel("spmmv", {X(k)}, {OutSlot[k]}, args)>>, k, Shared(OutSlot), most)
  <2>1. \A j \in Slots \ {k} : ({X(k)} \cup {OutSlot[k]}) \cap Shared(OutSlot)[j] = {}
    BY Apart
  <2>2. KernelStep(Kernel("spmmv", {X(k)}, {OutSlot[k]}, args), k, Shared(OutSlot), most)
    BY <2>1, KernelIsStep
  <2> QED
    BY <2>2, FewKernels
<1> HIDE DEF shared
<1>3. ASSUME NEW do, do \notin {"wait", "record", "sync", "ensure"}, NEW reads, NEW writes, NEW x,
             reads \subseteq own, writes \subseteq own,
             do = "partial" => x.elems \in Nat /\ x.elems <= most
      PROVE  KernelStep(Kernel(do, reads, writes, x), k, shared, most)
  <2>1. \A j \in Slots \ {k} : (reads \cup writes) \cap shared[j] = {}
    BY <1>1, <1>3
  <2> HIDE DEF own
  <2> QED
    BY <1>3, <2>1, KernelIsStep
<1>4. KernelSteps(<<Kernel("update", {RA(k), B}, {RO(k)}, args)>>, k, shared, most)
  <2>1. {RA(k), B} \subseteq own /\ {RO(k)} \subseteq own
    OBVIOUS
  <2> HIDE DEF own
  <2>2. KernelStep(Kernel("update", {RA(k), B}, {RO(k)}, args), k, shared, most)
    BY <1>3, <2>1
  <2> QED
    BY <2>2, FewKernels
<1>5. ASSUME NEW a, NEW b, NEW with, NEW acc, NEW groups, NEW m, NEW width,
             a \in {RA(k), RB(k)}, b \in {RA(k), RB(k)}, with \subseteq {B}, acc \in {G, Res2},
             Len(groups) * width \in Nat, Len(groups) * width <= most
      PROVE  KernelSteps(Reduce(a, b, groups, m, width, with, acc), k, shared, most)
  <2> DEFINE x == [a |-> a, b |-> b, with |-> with, groups |-> groups, m |-> m,
                   elems |-> Len(groups) * width]
             k1 == Kernel("partial", {a, b} \cup with, {Partial}, x)
             k2 == Kernel("accum", {Partial, acc}, {acc}, [n |-> Len(groups), acc |-> acc])
  <2>1. Reduce(a, b, groups, m, width, with, acc) = <<k1, k2>>
    BY Zenon DEF Reduce
  <2>2. x.elems = Len(groups) * width
    BY Zenon
  <2>3. ({a, b} \cup with) \subseteq own /\ {Partial} \subseteq own /\ {Partial, acc} \subseteq own
        /\ {acc} \subseteq own
    BY <1>5
  <2> HIDE DEF own, x
  <2>4. KernelStep(k1, k, shared, most)
    BY <1>3, <1>5, <2>2, <2>3
  <2>5. KernelStep(k2, k, shared, most)
    BY <1>3, <2>3
  <2> HIDE DEF k1, k2
  <2> QED
    BY <2>1, <2>4, <2>5, FewKernels
<1> HIDE DEF own
<1> QED
  BY <1>2, <1>4, <1>5 DEF shared

\* The calls that the assumptions allow, and the context they are made with.
CallOK(c) ==
  /\ c.op \in {"filter", "spmmv", "gram", "update", "ritz"}
  /\ c.m \in Nat \ {0} /\ c.out \in Nat /\ c.useB \in BOOLEAN
  /\ c.op = "filter" => c.np \in Nat \ {0, 1}
ContextOK ==
  ctx.vecRows \in Nat \ {0} /\ ctx.nb \in Nat \ {0} /\ ctx.chunkRows \in Nat \ {0}

\* The partial buffer is made large enough first, or there are no partial sums.
Ensured(p, most) ==
  \/ most = -1
  \/ most \in Nat /\ Len(p) >= 1 /\ p[1].do = "ensure" /\ p[1].elems >= most

\* What an entry does before and behind its pass.
FreeStep(op, shared) ==
  \/ op.on = "legacy" /\ op.do \in {"legacy", "readback"}
  \/ op.on = "legacy" /\ op.do = "ensure" /\ op.elems \in Nat
  \/ op.on = "compute" /\ op.do = "memset" /\ Unshared(op, shared)

\* Up to three of these steps.
LEMMA FreeSteps ==
  ASSUME NEW shared, NEW most, NEW x, FreeStep(x, shared)
  PROVE  /\ Guarded(<<x>>, shared, most)
         /\ \A y : FreeStep(y, shared) => Guarded(<<x, y>>, shared, most)
         /\ \A y, z : FreeStep(y, shared) /\ FreeStep(z, shared) => Guarded(<<x, y, z>>, shared, most)
PROOF
<1>1. ASSUME NEW p, IsProgram(p), \A i \in 1 .. Len(p) : FreeStep(p[i], shared)
      PROVE  Guarded(p, shared, most)
  BY <1>1 DEF Guarded, GuardedAt, FreeStep, WellMade, Data, Streams
<1>2. Guarded(<<x>>, shared, most)
  <2>1. \A i \in 1 .. Len(<<x>>) : <<x>>[i] = x
    BY OneStep
  <2> QED
    BY <1>1, <2>1, OneStep, Zenon
<1>3. ASSUME NEW y, FreeStep(y, shared) PROVE Guarded(<<x, y>>, shared, most)
  <2> DEFINE p == <<x, y>>
  <2>1. p \in Seq({x, y}) /\ Len(p) = 2 /\ p[1] = x /\ p[2] = y
    OBVIOUS
  <2> HIDE DEF p
  <2>2. \A i \in 1 .. Len(p) : p[i] = x \/ p[i] = y
    BY <2>1
  <2>3. \A i \in 1 .. Len(p) : FreeStep(p[i], shared)
    BY <1>3, <2>2, Zenon
  <2>4. IsProgram(p)
    BY <2>1, Zenon DEF IsProgram
  <2> QED
    BY <1>1, <2>3, <2>4 DEF p
<1>4. ASSUME NEW y, NEW z, FreeStep(y, shared), FreeStep(z, shared)
      PROVE  Guarded(<<x, y, z>>, shared, most)
  <2> DEFINE p == <<x, y, z>>
  <2>1. p \in Seq({x, y, z}) /\ Len(p) = 3 /\ p[1] = x /\ p[2] = y /\ p[3] = z
    OBVIOUS
  <2> HIDE DEF p
  <2>2. \A i \in 1 .. Len(p) : p[i] = x \/ p[i] = y \/ p[i] = z
    BY <2>1
  <2>3. \A i \in 1 .. Len(p) : FreeStep(p[i], shared)
    BY <1>4, <2>2, Zenon
  <2>4. IsProgram(p)
    BY <2>1, Zenon DEF IsProgram
  <2> QED
    BY <1>1, <2>3, <2>4 DEF p
<1> QED
  BY <1>2, <1>3, <1>4

\* An entry is its pass with something before it, and perhaps behind it.
LEMMA EntryAround ==
  ASSUME NEW shared, NEW most, NEW pre, Guarded(pre, shared, most),
         NEW pass, Whole(pass, shared, most)
  PROVE  /\ Guarded(pre \o pass, shared, most) /\ Closed(pre \o pass)
         /\ Ensured(pre, most) => Ensured(pre \o pass, most)
         /\ \A op : FreeStep(op, shared) /\ op.on = "legacy" =>
              /\ Guarded(pre \o pass \o <<op>>, shared, most) /\ Closed(pre \o pass \o <<op>>)
              /\ Ensured(pre, most) => Ensured(pre \o pass \o <<op>>, most)
PROOF
<1> DEFINE a == pre \o pass
<1>1. Guarded(a, shared, most) /\ Closed(a) /\ IsProgram(a) /\ IsProgram(pre) /\ IsProgram(pass)
  BY GuardedJoin, CloseBefore DEF Whole, Guarded
<1>2. /\ Len(a) >= Len(pre) /\ Len(pre) \in Nat /\ Len(a) \in Nat
      /\ \A i \in 1 .. Len(pre) : a[i] = pre[i]
  BY <1>1, StepsOfBoth
<1> HIDE DEF a
<1>3. Ensured(pre, most) => Ensured(a, most)
  BY <1>2 DEF Ensured
<1>4. ASSUME NEW op, FreeStep(op, shared), op.on = "legacy"
      PROVE  /\ Guarded(a \o <<op>>, shared, most) /\ Closed(a \o <<op>>)
             /\ Ensured(pre, most) => Ensured(a \o <<op>>, most)
  <2> DEFINE post == <<op>>
             c == a \o post
  <2>1. Guarded(post, shared, most) /\ IsProgram(post)
    BY <1>4, FreeSteps DEF Guarded
  <2>2. \A i \in 1 .. Len(post) : post[i].on = "legacy"
    BY <1>4, OneStep
  <2> HIDE DEF post
  <2>3. Guarded(c, shared, most) /\ Closed(c)
    BY <1>1, <2>1, <2>2, GuardedJoin, CloseBehind
  <2>4. /\ Len(c) >= Len(a)
        /\ \A i \in 1 .. Len(a) : c[i] = a[i]
    BY <1>1, <2>1, StepsOfBoth
  <2>5. Len(c) \in Nat
    BY <2>3, ProgramLength DEF Guarded
  <2> HIDE DEF c
  <2>6. Ensured(a, most) => Ensured(c, most)
    BY <1>2, <2>4, <2>5 DEF Ensured
  <2> QED
    BY <1>3, <2>3, <2>6 DEF c, post
<1> QED
  BY <1>1, <1>3, <1>4, Zenon DEF a

\* What there is to say of an entry.
SoundProgram(p) ==
  \E shared, most : Guarded(p, shared, most) /\ Closed(p) /\ Ensured(p, most)

\* The buffers that are shared.
LEMMA SharedBuffers ==
  ASSUME NEW k \in Slots, NEW out
  PROVE  /\ Y \in Shared(out)[k] /\ AY \in Shared(out)[k]
         /\ X(k) \in Shared(out)[k] /\ RA(k) \in Shared(out)[k] /\ RB(k) \in Shared(out)[k]
         /\ RO(k) \in Shared(out)[k] /\ out[k] \in Shared(out)[k]
PROOF
BY DEF Shared, HostArrays

\* The filter and A Y.
LEMMA ColumnEntries ==
  ASSUME NEW c, CallOK(c), ContextOK
  PROVE  /\ c.op = "filter" => SoundProgram(FilterEntry(c))
         /\ c.op = "spmmv" => SoundProgram(SpmmvEntry(c))
PROOF
<1>1. ASSUME NEW p, NEW shared, Whole(p, shared, -1) PROVE SoundProgram(p)
  BY <1>1 DEF SoundProgram, Whole, Ensured
<1>2. ctx.nb \in Nat \ {0} /\ c.m \in Nat
  BY DEF ContextOK, CallOK
<1>3. ASSUME c.op = "filter" PROVE SoundProgram(FilterEntry(c))
  <2> DEFINE shared == Shared(InSlot)
             fn == [k \in Slots |-> [w \in 1 .. ctx.nb |-> FilterSubBlock(c.np, k, w)]]
             out == [k \in Slots |-> X(k)]
  <2>1. FilterEntry(c) = ColBlockPipeline(Y, c.m, Y, out, fn)
    BY Zenon DEF FilterEntry
  <2>2. c.np \in Nat \ {0, 1}
    BY <1>3 DEF CallOK
  <2>3. ASSUME NEW k \in Slots, NEW w \in 1 .. ctx.nb PROVE KernelSteps(fn[k][w], k, shared, -1)
    <3>1. fn[k][w] = FilterSubBlock(c.np, k, w)
      BY Zenon
    <3> QED
      BY <2>2, <3>1, FilterKernels
  <2>4. \A k \in Slots : Y \in shared[k] /\ X(k) \in shared[k] /\ out[k] \in shared[k]
    BY SharedBuffers
  <2> HIDE DEF shared, fn, out
  <2>5. Whole(ColBlockPipeline(Y, c.m, Y, out, fn), shared, -1)
    BY <1>2, <2>3, <2>4, ColPass
  <2> QED
    BY <1>1, <2>1, <2>5
<1>4. ASSUME c.op = "spmmv" PROVE SoundProgram(SpmmvEntry(c))
  <2> DEFINE shared == Shared(OutSlot)
             kernels(k, w) == << Kernel("spmmv", {X(k)}, {OutSlot[k]},
                                        [x |-> X(k), y |-> OutSlot[k], w |-> w]) >>
             fn == [k \in Slots |-> [w \in 1 .. ctx.nb |-> kernels(k, w)]]
  <2>1. SpmmvEntry(c) = ColBlockPipeline(Y, c.m, AY, OutSlot, fn)
    BY Zenon DEF SpmmvEntry
  <2>2. ASSUME NEW k \in Slots, NEW w \in 1 .. ctx.nb PROVE KernelSteps(fn[k][w], k, shared, -1)
    <3>1. fn[k][w] = kernels(k, w)
      BY Zenon
    <3>2. KernelSteps(kernels(k, w), k, shared, -1)
      BY OtherKernels
    <3> QED
      BY <3>1, <3>2
  <2>3. \A k \in Slots : /\ Y \in shared[k] /\ AY \in shared[k]
                         /\ X(k) \in shared[k] /\ OutSlot[k] \in shared[k]
    BY SharedBuffers
  <2> HIDE DEF shared, fn
  <2>4. Whole(ColBlockPipeline(Y, c.m, AY, OutSlot, fn), shared, -1)
    BY <1>2, <2>2, <2>3, ColPass
  <2> QED
    BY <1>1, <2>1, <2>4
<1> QED
  BY <1>3, <1>4

\* The Gram matrix takes at least one and at most GramSubs launches' worth of sums.
LEMMA GramSubsOK ==
  ASSUME NEW m \in Nat
  PROVE  GramSubs(m) \in Nat \ {0}
PROOF
<1> DEFINE T == {n \in 1 .. GramSubsMax : n = 1 \/ n * m * m <= PartialMax}
<1>1. GramSubsMax \in Nat /\ GramSubsMax >= 1
  BY TilingAssumption
<1>2. T \subseteq 0 .. GramSubsMax /\ 1 \in T
  BY <1>1
<1>3. \A n \in T : n \in Nat \ {0}
  OBVIOUS
<1>4. GramSubs(m) = Max(T)
  BY Zenon DEF GramSubs
<1> HIDE DEF T
<1>5. Max(T) \in T
  BY <1>1, <1>2, MaxOf
<1> QED
  BY <1>3, <1>4, <1>5

\* The sums of one chunk fit into what was ensured for the pass.
LEMMA SumsFit ==
  ASSUME NEW m \in Nat, NEW out \in Nat, ContextOK, NEW rows \in ChunkSizes
  PROVE  /\ Len(GramGroups(rows, m)) * (m * m) \in Nat
         /\ Len(GramGroups(rows, m)) * (m * m) <= GramSubs(m) * m * m
         /\ Len(RitzGroups(rows)) * out \in Nat
         /\ Len(RitzGroups(rows)) * out <= Ceil(ctx.chunkRows, ResRows) * out
PROOF
<1>1. rows \in Nat /\ rows <= ctx.chunkRows /\ ctx.chunkRows \in Nat
  BY DEF ChunkSizes, ContextOK, Least
<1>2. GramTile \in Nat \ {0} /\ ResRows \in Nat \ {0}
  BY TilingAssumption
<1> DEFINE tiles == Ceil(rows, GramTile)
           nSub == Largest(1, Least(GramSubs(m), tiles))
           perSub == Ceil(tiles, nSub) * GramTile
           nRes == Ceil(rows, ResRows)
           part(z) == {r \in 0 .. rows - 1 : (z - 1) * perSub <= r /\ r < z * perSub}
           res(z) == {r \in 0 .. rows - 1 : (z - 1) * ResRows <= r /\ r < z * ResRows}
<1>3. tiles \in Nat /\ nRes \in Nat /\ Ceil(ctx.chunkRows, ResRows) \in Nat
  BY <1>1, <1>2, CeilBound
<1>4. nSub \in Nat /\ nSub <= GramSubs(m) /\ GramSubs(m) \in Nat
  <2> HIDE DEF tiles
  <2> QED
    BY <1>3, GramSubsOK DEF Largest, Least
<1>5. nRes <= Ceil(ctx.chunkRows, ResRows)
  BY <1>1, <1>2, CeilGrows
<1>6. GramGroups(rows, m) = [z \in 1 .. nSub |-> part(z)]
  BY Zenon DEF GramGroups
<1>7. RitzGroups(rows) = [z \in 1 .. nRes |-> res(z)]
  BY Zenon DEF RitzGroups
<1> HIDE DEF nSub, nRes, part, res, tiles
<1>8. Len(GramGroups(rows, m)) = nSub
  <2> DEFINE s == [z \in 1 .. nSub |-> part(z)]
             S == {part(z) : z \in 1 .. nSub}
  <2>1. s \in [1 .. nSub -> S]
    OBVIOUS
  <2> HIDE DEF s, S
  <2>2. Len(s) = nSub
    BY <1>4, <2>1, LengthOf
  <2> QED
    BY <1>6, <2>2 DEF s
<1>9. Len(RitzGroups(rows)) = nRes
  <2> DEFINE s == [z \in 1 .. nRes |-> res(z)]
             S == {res(z) : z \in 1 .. nRes}
  <2>1. s \in [1 .. nRes -> S]
    OBVIOUS
  <2> HIDE DEF s, S
  <2>2. Len(s) = nRes
    BY <1>3, <2>1, LengthOf
  <2> QED
    BY <1>7, <2>2 DEF s
<1>10. m * m \in Nat /\ GramSubs(m) * m * m = GramSubs(m) * (m * m)
  BY <1>4
<1>11. nSub * (m * m) <= GramSubs(m) * (m * m) /\ nSub * (m * m) \in Nat
  <2> DEFINE b == m * m
  <2>1. b \in Nat
    BY <1>10
  <2> HIDE DEF b
  <2>2. nSub * b <= GramSubs(m) * b /\ nSub * b \in Nat
    BY <1>4, <2>1, TimesGrows
  <2> QED
    BY <2>2 DEF b
<1>12. nRes * out <= Ceil(ctx.chunkRows, ResRows) * out /\ nRes * out \in Nat
  BY <1>3, <1>5, TimesGrows
<1> QED
  BY <1>8, <1>9, <1>10, <1>11, <1>12

\* A pass over chunks of Y, with AY or without, that writes back to Y or not at all.
LEMMA ChunkPass ==
  ASSUME NEW Bh \in {AY, None}, NEW ld, NEW outH \in {Y, None}, NEW ldOut, NEW fn, NEW most,
         ContextOK,
         \A k \in Slots : \A rows \in ChunkSizes : KernelSteps(fn[k][rows], k, Shared(InSlot), most)
  PROVE  Whole(RowChunkPipeline(Y, Bh, ld, outH, ldOut, fn), Shared(InSlot), most)
PROOF
<1> DEFINE shared == Shared(InSlot)
<1>1. \A k \in Slots : /\ Y \in shared[k]
                       /\ Bh # None => Bh \in shared[k]
                       /\ outH # None => outH \in shared[k]
                       /\ RA(k) \in shared[k] /\ RB(k) \in shared[k] /\ RO(k) \in shared[k]
  BY SharedBuffers
<1>2. ctx.vecRows \in Nat \ {0} /\ ctx.chunkRows \in Nat \ {0}
  BY DEF ContextOK
<1> HIDE DEF shared
<1> QED
  BY <1>1, <1>2, RowPass DEF shared

\* The Gram matrix.
LEMMA GramSound ==
  ASSUME NEW c, CallOK(c), ContextOK
  PROVE  SoundProgram(GramEntry(c))
PROOF
<1> DEFINE shared == Shared(InSlot)
           most == GramSubs(c.m) * c.m * c.m
           e == Ensure(GramSubs(c.m) * c.m * c.m)
           z == Kernel("memset", {}, {G}, [acc |-> G])
           Bh == IF c.useB THEN AY ELSE None
           sums(k, rows) == Reduce(RA(k), IF c.useB THEN RB(k) ELSE RA(k),
                                   GramGroups(rows, c.m), c.m, c.m * c.m, {}, G)
           fn == [k \in Slots |-> [rows \in ChunkSizes |-> sums(k, rows)]]
           pass == RowChunkPipeline(Y, Bh, c.m, None, 0, fn)
           back == ReadBack(Result, G)
<1>1. c.m \in Nat /\ GramSubs(c.m) \in Nat
  BY GramSubsOK DEF CallOK
<1>2. most \in Nat
  <2> DEFINE g == GramSubs(c.m)
             m == c.m
  <2>1. g \in Nat /\ m \in Nat
    BY <1>1
  <2> HIDE DEF g, m
  <2>2. g * m * m \in Nat
    BY <2>1
  <2> QED
    BY <2>2 DEF g, m
<1>3. ASSUME NEW k \in Slots, NEW rows \in ChunkSizes
      PROVE  KernelSteps(fn[k][rows], k, shared, most)
  <2>1. fn[k][rows] = sums(k, rows)
    BY Zenon
  <2> DEFINE groups == GramGroups(rows, c.m)
             b == IF c.useB THEN RB(k) ELSE RA(k)
  <2>2. Len(groups) * (c.m * c.m) \in Nat /\ Len(groups) * (c.m * c.m) <= most
    BY <1>1, SumsFit
  <2>3. b \in {RA(k), RB(k)} /\ RA(k) \in {RA(k), RB(k)} /\ {} \subseteq {B} /\ G \in {G, Res2}
    OBVIOUS
  <2> HIDE DEF b, groups, most
  <2>4. KernelSteps(Reduce(RA(k), b, groups, c.m, c.m * c.m, {}, G), k, shared, most)
    BY <2>2, <2>3, OtherKernels
  <2> QED
    BY <2>1, <2>4 DEF b, groups
<1>4. Bh \in {AY, None} /\ None \in {Y, None}
  OBVIOUS
<1>5. /\ FreeStep(e, shared) /\ e.do = "ensure" /\ e.elems = most
      /\ FreeStep(z, shared) /\ FreeStep(back, shared) /\ back.on = "legacy"
  <2>1. e.do = "ensure" /\ e.on = "legacy" /\ e.elems = most
    BY DEF Ensure
  <2>2. back.do = "readback" /\ back.on = "legacy"
    BY DEF ReadBack
  <2>3. z.do = "memset" /\ z.on = "compute" /\ Touched(z) = {G}
    <3>1. z.do = "memset" /\ z.on = "compute" /\ z.reads = {} /\ z.writes = {G}
      BY DEF Kernel
    <3> HIDE DEF z
    <3> QED
      BY <3>1 DEF Touched
  <2>4. \A k \in Slots : {G} \cap shared[k] = {}
    BY DEF Shared, HostArrays, InSlot, X, RA, RB, RO, Y, AY, G
  <2> HIDE DEF e, z, back, most, shared
  <2> QED
    BY <1>2, <2>1, <2>2, <2>3, <2>4 DEF FreeStep, Unshared
<1>6. GramEntry(c) = <<e, z>> \o pass \o <<back>>
  BY Zenon DEF GramEntry
<1> HIDE DEF fn, Bh, most, back, e, z
<1>7. Whole(pass, shared, most)
  BY <1>3, <1>4, ChunkPass
<1>8. Guarded(<<e, z>>, shared, most)
  BY <1>5, FreeSteps
<1>9. Ensured(<<e, z>>, most)
  <2>1. Len(<<e, z>>) = 2 /\ <<e, z>>[1] = e
    OBVIOUS
  <2> QED
    BY <1>2, <1>5, <2>1 DEF Ensured
<1> DEFINE pre == <<e, z>>
<1> HIDE DEF pass, shared, pre
<1>10. Guarded(pre, shared, most) /\ Ensured(pre, most)
  BY <1>8, <1>9 DEF pre
<1>11. /\ Guarded(pre \o pass \o <<back>>, shared, most) /\ Closed(pre \o pass \o <<back>>)
       /\ Ensured(pre \o pass \o <<back>>, most)
  BY <1>5, <1>7, <1>10, EntryAround
<1>12. SoundProgram(pre \o pass \o <<back>>)
  BY <1>11, Zenon DEF SoundProgram
<1> QED
  BY <1>6, <1>12 DEF pre

\* The update of the block.
LEMMA UpdateSound ==
  ASSUME NEW c, CallOK(c), ContextOK
  PROVE  SoundProgram(UpdateEntry(c))
PROOF
<1> DEFINE shared == Shared(InSlot)
           most == -1
           e == Legacy(B, <<"B", c.id, c.m, c.out>>)
           kernels(k, rows) == << Kernel("update", {RA(k), B}, {RO(k)},
                                   [a |-> RA(k), m |-> c.m, o |-> RO(k), out |-> c.out, rows |-> rows]) >>
           fn == [k \in Slots |-> [rows \in ChunkSizes |-> kernels(k, rows)]]
           pass == RowChunkPipeline(Y, None, c.m, Y, c.out, fn)
           pre == <<e>>
<1>1. ASSUME NEW k \in Slots, NEW rows \in ChunkSizes
      PROVE  KernelSteps(fn[k][rows], k, shared, most)
  <2>1. fn[k][rows] = kernels(k, rows)
    BY Zenon
  <2>2. KernelSteps(kernels(k, rows), k, shared, most)
    BY OtherKernels
  <2> QED
    BY <2>1, <2>2
<1>2. None \in {AY, None} /\ Y \in {Y, None}
  OBVIOUS
<1>3. FreeStep(e, shared)
  BY DEF FreeStep, Legacy
<1>4. UpdateEntry(c) = pre \o pass
  BY Zenon DEF UpdateEntry
<1> HIDE DEF fn, e
<1>5. Whole(pass, shared, most)
  BY <1>1, <1>2, ChunkPass
<1>6. Guarded(pre, shared, most)
  BY <1>3, FreeSteps
<1> HIDE DEF pass, pre, shared
<1>7. Ensured(pre, most)
  BY DEF Ensured
<1> HIDE DEF most
<1>8. Guarded(pre \o pass, shared, most) /\ Closed(pre \o pass) /\ Ensured(pre \o pass, most)
  BY <1>5, <1>6, <1>7, EntryAround
<1>9. SoundProgram(pre \o pass)
  BY <1>8, Zenon DEF SoundProgram
<1> QED
  BY <1>4, <1>9

\* The residuals.
LEMMA RitzSound ==
  ASSUME NEW c, CallOK(c), ContextOK
  PROVE  SoundProgram(RitzEntry(c))
PROOF
<1> DEFINE shared == Shared(InSlot)
           most == Ceil(ctx.chunkRows, ResRows) * c.out
           e == Ensure(Ceil(ctx.chunkRows, ResRows) * c.out)
           l1 == Legacy(B, <<"evec", c.id, c.m, c.m>>)
           l2 == Legacy(Res2, EmptyBag)
           sums(k, rows) == Reduce(RA(k), RB(k), RitzGroups(rows), c.m, c.out, {B}, Res2)
           fn == [k \in Slots |-> [rows \in ChunkSizes |-> sums(k, rows)]]
           pass == RowChunkPipeline(Y, AY, c.m, None, 0, fn)
           back == ReadBack(Result, Res2)
           pre == <<e, l1, l2>>
<1>1. CASE c.out < 1
  <2>1. RitzEntry(c) = <<>>
    BY <1>1, Zenon DEF RitzEntry
  <2>2. Guarded(<<>>, shared, -1) /\ Closed(<<>>) /\ Ensured(<<>>, -1)
    BY NoStep DEF Guarded, Closed, Ensured
  <2> QED
    BY <2>1, <2>2, Zenon DEF SoundProgram
<1>2. CASE ~ (c.out < 1)
  <2>1. c.out \in Nat /\ c.m \in Nat /\ Ceil(ctx.chunkRows, ResRows) \in Nat
    BY TilingAssumption, CeilBound DEF ContextOK, CallOK
  <2>2. most \in Nat
    BY <2>1
  <2>3. ASSUME NEW k \in Slots, NEW rows \in ChunkSizes
        PROVE  KernelSteps(fn[k][rows], k, shared, most)
    <3>1. fn[k][rows] = sums(k, rows)
      BY Zenon
    <3> DEFINE groups == RitzGroups(rows)
    <3>2. Len(groups) * c.out \in Nat /\ Len(groups) * c.out <= most
      BY <2>1, SumsFit
    <3>3. RA(k) \in {RA(k), RB(k)} /\ RB(k) \in {RA(k), RB(k)} /\ {B} \subseteq {B} /\ Res2 \in {G, Res2}
      OBVIOUS
    <3> HIDE DEF groups, most
    <3>4. KernelSteps(Reduce(RA(k), RB(k), groups, c.m, c.out, {B}, Res2), k, shared, most)
      BY <3>2, <3>3, OtherKernels
    <3> QED
      BY <3>1, <3>4 DEF groups
  <2>4. AY \in {AY, None} /\ None \in {Y, None}
    OBVIOUS
  <2>5. /\ FreeStep(e, shared) /\ e.do = "ensure" /\ e.elems = most
        /\ FreeStep(l1, shared) /\ FreeStep(l2, shared)
        /\ FreeStep(back, shared) /\ back.on = "legacy"
    <3>1. e.do = "ensure" /\ e.on = "legacy" /\ e.elems = most
      BY DEF Ensure
    <3>2. back.do = "readback" /\ back.on = "legacy"
      BY DEF ReadBack
    <3>3. l1.do = "legacy" /\ l1.on = "legacy" /\ l2.do = "legacy" /\ l2.on = "legacy"
      BY DEF Legacy
    <3> HIDE DEF e, l1, l2, back, most, shared
    <3> QED
      BY <2>2, <3>1, <3>2, <3>3 DEF FreeStep
  <2>6. RitzEntry(c) = pre \o pass \o <<back>>
    BY <1>2, Zenon DEF RitzEntry
  <2> HIDE DEF fn, most, back, e, l1, l2
  <2>7. Whole(pass, shared, most)
    BY <2>3, <2>4, ChunkPass
  <2>8. Guarded(pre, shared, most)
    BY <2>5, FreeSteps
  <2>9. Ensured(pre, most)
    <3>1. Len(pre) = 3 /\ pre[1] = e
      OBVIOUS
    <3> QED
      BY <2>2, <2>5, <3>1 DEF Ensured
  <2> HIDE DEF pass, shared, pre
  <2>10. /\ Guarded(pre \o pass \o <<back>>, shared, most) /\ Closed(pre \o pass \o <<back>>)
         /\ Ensured(pre \o pass \o <<back>>, most)
    BY <2>5, <2>7, <2>8, <2>9, EntryAround
  <2>11. SoundProgram(pre \o pass \o <<back>>)
    BY <2>10, Zenon DEF SoundProgram
  <2> QED
    BY <2>6, <2>11
<1> QED
  BY <1>1, <1>2

\* Every entry is.
LEMMA EveryProgramIsSound ==
  ASSUME NEW c, CallOK(c), ContextOK
  PROVE  SoundProgram(Program(c))
PROOF
<1>1. c.op \in {"filter", "spmmv", "gram", "update", "ritz"}
  BY DEF CallOK
<1>2. CASE c.op = "filter"
  <2>1. Program(c) = FilterEntry(c)
    BY <1>2 DEF Program
  <2> QED
    BY <1>2, <2>1, ColumnEntries
<1>3. CASE c.op = "spmmv"
  <2>1. Program(c) = SpmmvEntry(c)
    BY <1>3 DEF Program
  <2> QED
    BY <1>3, <2>1, ColumnEntries
<1>4. CASE c.op = "gram"
  <2>1. Program(c) = GramEntry(c)
    BY <1>4 DEF Program
  <2> QED
    BY <2>1, GramSound
<1>5. CASE c.op = "update"
  <2>1. Program(c) = UpdateEntry(c)
    BY <1>5 DEF Program
  <2> QED
    BY <2>1, UpdateSound
<1>6. CASE c.op = "ritz"
  <2>1. Program(c) = RitzEntry(c)
    BY <1>6 DEF Program
  <2> QED
    BY <2>1, RitzSound
<1> QED
  BY <1>1, <1>2, <1>3, <1>4, <1>5, <1>6

(***************************************************************************)
(* The order in a guarded program.                                         *)
(***************************************************************************)

\* Of two operations of different streams that touch the same buffer, the first has a
\* record behind it that the second waits for.
InOrder(p) ==
  \A x, y \in 1 .. Len(p) :
    /\ x < y /\ Data(p[x]) /\ Data(p[y]) /\ p[x].on # p[y].on
    /\ Touched(p[x]) \cap Touched(p[y]) # {}
    => \E r \in x + 1 .. y - 1 : \E w \in r + 1 .. y - 1 :
         /\ p[r].do = "record" /\ p[r].on = p[x].on
         /\ p[w].do = "wait" /\ p[w].on = p[y].on /\ p[w].event = p[r].event

\* Guards order the operations.
LEMMA GuardedIsOrdered ==
  ASSUME NEW p, NEW shared, NEW most, Guarded(p, shared, most)
  PROVE  InOrder(p)
PROOF
<1> SUFFICES ASSUME NEW x \in 1 .. Len(p), NEW y \in 1 .. Len(p), x < y,
                    Data(p[x]), Data(p[y]), p[x].on # p[y].on,
                    Touched(p[x]) \cap Touched(p[y]) # {}
             PROVE  \E r \in x + 1 .. y - 1 : \E w \in r + 1 .. y - 1 :
                      /\ p[r].do = "record" /\ p[r].on = p[x].on
                      /\ p[w].do = "wait" /\ p[w].on = p[y].on /\ p[w].event = p[r].event
  BY ZenonT(60) DEF InOrder
<1>0. Len(p) \in Nat
  BY ProgramLength DEF Guarded
<1>1. GuardedAt(p, x, shared, most) /\ GuardedAt(p, y, shared, most)
  BY DEF Guarded
<1>2. /\ p[x].do \notin {"wait", "record", "sync"} /\ p[y].do \notin {"wait", "record", "sync"}
      /\ p[x].on \in {"copy", "compute"} /\ p[y].on \in {"copy", "compute"}
  BY DEF Data, Streams
<1>3. CASE p[x].on = "copy" /\ p[y].on = "compute"
  <2>1. CopyGuarded(p, x, shared)
    BY <1>1, <1>3 DEF GuardedAt
  <2>2. \E k \in Slots : Touched(p[x]) \subseteq shared[k]
    BY <2>1 DEF CopyGuarded
  <2>3. ~Unshared(p[y], shared)
    BY <2>2 DEF Unshared
  <2>4. KernelGuarded(p, y, shared)
    BY <1>1, <1>3, <2>3 DEF GuardedAt
  <2>5. PICK k \in Slots, w \in 2 .. y - 1, r \in y + 1 .. Len(p) :
          /\ p[w - 1].do = "record" /\ p[w - 1].on = "copy" /\ p[w - 1].event = <<"copyDone", k>>
          /\ p[w].do = "wait" /\ p[w].event = <<"copyDone", k>>
          /\ \A z \in w .. r : p[z].on = "compute"
    BY <2>4 DEF KernelGuarded
  <2>6. x \notin w .. r /\ x # w - 1
    BY <1>2, <1>3, <2>5
  <2>7. w - 1 \in x + 1 .. y - 1 /\ w \in (w - 1) + 1 .. y - 1 /\ w \in w .. r
    BY <1>0, <2>6
  <2>8. p[w].on = "compute"
    BY <2>5, <2>7
  <2> QED
    BY <1>3, <2>5, <2>7, <2>8
<1>4. CASE p[x].on = "compute" /\ p[y].on = "copy"
  <2>1. CopyGuarded(p, y, shared)
    BY <1>1, <1>4 DEF GuardedAt
  <2>2. PICK k \in Slots, w \in 1 .. y - 1 :
          /\ p[w].do = "wait" /\ p[w].event = <<"computeDone", k>>
          /\ \A z \in w .. y : p[z].on = "copy"
          /\ Touched(p[y]) \subseteq shared[k]
    BY <2>1 DEF CopyGuarded
  <2>3. Touched(p[x]) \cap shared[k] # {}
    BY <2>2
  <2>4. ~Unshared(p[x], shared)
    BY <2>3 DEF Unshared
  <2>5. KernelGuarded(p, x, shared)
    BY <1>1, <1>4, <2>4 DEF GuardedAt
  <2>6. PICK j \in Slots, v \in 2 .. x - 1, r \in x + 1 .. Len(p) :
          /\ p[r].do = "record" /\ p[r].event = <<"computeDone", j>>
          /\ \A z \in v .. r : p[z].on = "compute"
          /\ \A i \in Slots \ {j} : Touched(p[x]) \cap shared[i] = {}
    BY <2>5 DEF KernelGuarded
  <2>7. j = k
    BY <2>3, <2>6
  <2>8. w \notin v .. r
    <3>1. w \in w .. y
      OBVIOUS
    <3> QED
      BY <2>2, <2>6, <3>1
  <2>9. x \notin w .. y
    BY <1>4, <2>2
  <2>10. r \in x + 1 .. y - 1 /\ w \in r + 1 .. y - 1 /\ r \in v .. r
    BY <1>0, <2>8, <2>9
  <2>11. p[r].on = "compute" /\ p[w].on = "copy"
    BY <2>2, <2>6, <2>10
  <2> QED
    BY <1>4, <2>2, <2>6, <2>7, <2>10, <2>11
<1> QED
  BY <1>2, <1>3, <1>4

(***************************************************************************)
(* Where the queued operations come from.                                  *)
(***************************************************************************)

\* A queued item stands for operation op of the program.
Stands(item, op) ==
  /\ item.do = op.do /\ item.on = op.on
  /\ op.do \in {"wait", "record"} => item.event = op.event /\ item.count \in Nat
  /\ op.do \notin {"wait", "record"} => item = op

\* An operation that can be queued on stream s.
Queueable(op, s) == WellMade(op) /\ op.on = s /\ op.do # "sync"

\* The items q of stream s are those at places ix among the first n of p; what else of
\* the stream is among them came before, and so did the synchronisations.
Line(p, n, s, q, ix) ==
  /\ IsProgram(q) /\ ix \in Seq(Nat) /\ Len(ix) = Len(q)
  /\ \A i \in 1 .. Len(q) :
       /\ ix[i] \in 1 .. n /\ Stands(q[i], p[ix[i]])
       /\ Queueable(p[ix[i]], s)
  /\ \A i, j \in 1 .. Len(q) : i < j => ix[i] < ix[j]
  /\ \A x \in 1 .. n : p[x].on = s =>
       (\E i \in 1 .. Len(q) : ix[i] = x) \/ (\A i \in 1 .. Len(q) : x < ix[i])

\* The records queued are still to come, and come in order.
Counted(q, rec, dn) ==
  \A i \in 1 .. Len(q) : q[i].do = "record" =>
    /\ dn[q[i].event] < q[i].count /\ q[i].count <= rec[q[i].event]
    /\ \A j \in i + 1 .. Len(q) :
         q[j].do = "record" /\ q[j].event = q[i].event => q[i].count < q[j].count

\* A wait behind a record that is still to come is held back by it.
Held(p, n, qs, qt, t, is, it) ==
  \A i \in 1 .. Len(qs) : qs[i].do = "record" =>
    \A x \in is[i] + 1 .. n :
      p[x].do = "wait" /\ p[x].event = qs[i].event /\ p[x].on = t =>
        \E j \in 1 .. Len(qt) : it[j] = x /\ qt[j].count >= qs[i].count

\* No stream has a queue yet.
LEMMA EmptyLine ==
  ASSUME NEW p, NEW s
  PROVE  Line(p, 0, s, <<>>, <<>>)
PROOF
<1>1. IsProgram(<<>>) /\ Len(<<>>) = 0
  BY NoStep
<1>2. <<>> \in Seq(Nat)
  OBVIOUS
<1> QED
  BY <1>1, <1>2 DEF Line

\* A queue without items is the empty one.
LEMMA NoItems == \A q : IsProgram(q) /\ Len(q) = 0 => q = <<>>
PROOF
BY DEF IsProgram

\* A queue with one more item, and without its head.
LEMMA Appended ==
  ASSUME NEW q, IsProgram(q), NEW item
  PROVE  /\ IsProgram(Append(q, item)) /\ Len(q) \in Nat /\ Len(Append(q, item)) = Len(q) + 1
         /\ \A i \in 1 .. Len(q) : Append(q, item)[i] = q[i]
         /\ Append(q, item)[Len(q) + 1] = item
PROOF
<1>1. PICK V : q \in Seq(V)
  BY DEF IsProgram
<1> DEFINE T == V \cup {item}
<1>2. q \in Seq(T) /\ item \in T
  BY <1>1, SeqDef
<1> HIDE DEF T
<1>3. Append(q, item) \in Seq(T) /\ Len(q) \in Nat /\ Len(Append(q, item)) = Len(q) + 1
  BY <1>2, AppendProperties, LenProperties
<1>4. \A i \in 1 .. Len(q) + 1 : Append(q, item)[i] = IF i = Len(q) + 1 THEN item ELSE q[i]
  BY <1>2, AppendProperties
<1> QED
  BY <1>3, <1>4 DEF IsProgram

\* The head of a queue and the rest.
LEMMA HeadAndTail ==
  ASSUME NEW q, IsProgram(q), q # <<>>
  PROVE  /\ Len(q) \in Nat \ {0} /\ Head(q) = q[1]
         /\ IsProgram(Tail(q)) /\ Len(Tail(q)) = Len(q) - 1
         /\ \A i \in 1 .. Len(q) - 1 : Tail(q)[i] = q[i + 1]
PROOF
<1>1. PICK V : q \in Seq(V)
  BY DEF IsProgram
<1>2. Len(q) \in Nat /\ Len(q) # 0
  BY <1>1, NoItems DEF IsProgram
<1>3. Head(q) = q[1] /\ Tail(q) \in Seq(V) /\ Len(Tail(q)) = Len(q) - 1
  BY <1>1, HeadTailProperties
<1>4. \A i \in 1 .. Len(q) - 1 : Tail(q)[i] = q[i + 1]
  BY <1>1, <1>3, HeadTailProperties
<1> QED
  BY <1>2, <1>3, <1>4 DEF IsProgram

\* The next operation is queued.
LEMMA LineAppended ==
  ASSUME NEW p, NEW n \in Nat, NEW s, NEW q, NEW ix, Line(p, n, s, q, ix),
         Queueable(p[n + 1], s), NEW item, Stands(item, p[n + 1])
  PROVE  Line(p, n + 1, s, Append(q, item), Append(ix, n + 1))
PROOF
<1> DEFINE q2 == Append(q, item)
           x2 == Append(ix, n + 1)
           m == Len(q)
<1>1. /\ IsProgram(q) /\ ix \in Seq(Nat) /\ Len(ix) = m
      /\ \A i \in 1 .. m :
           /\ ix[i] \in 1 .. n /\ Stands(q[i], p[ix[i]])
           /\ Queueable(p[ix[i]], s)
      /\ \A i, j \in 1 .. m : i < j => ix[i] < ix[j]
      /\ \A x \in 1 .. n : p[x].on = s =>
           (\E i \in 1 .. m : ix[i] = x) \/ (\A i \in 1 .. m : x < ix[i])
  BY DEF Line
<1>2. /\ IsProgram(q2) /\ m \in Nat /\ Len(q2) = m + 1
      /\ (\A i \in 1 .. m : q2[i] = q[i]) /\ q2[m + 1] = item
  BY <1>1, Appended
<1>3. IsProgram(ix) /\ x2 \in Seq(Nat)
  BY <1>1, AppendProperties DEF IsProgram
<1>4. Len(x2) = m + 1 /\ (\A i \in 1 .. m : x2[i] = ix[i]) /\ x2[m + 1] = n + 1
  BY <1>1, <1>3, Appended
<1> HIDE DEF q2, x2, m
<1>5. \A i \in 1 .. m + 1 :
        /\ x2[i] \in 1 .. n + 1 /\ Stands(q2[i], p[x2[i]])
        /\ Queueable(p[x2[i]], s)
  <2>1. SUFFICES ASSUME NEW i \in 1 .. m + 1
                 PROVE  /\ x2[i] \in 1 .. n + 1 /\ Stands(q2[i], p[x2[i]])
                        /\ Queueable(p[x2[i]], s)
    OBVIOUS
  <2>2. CASE i = m + 1
    BY <1>2, <1>4, <2>2
  <2>3. CASE i \in 1 .. m
    BY <1>1, <1>2, <1>4, <2>3
  <2> QED
    BY <1>2, <2>2, <2>3
<1>6. \A i, j \in 1 .. m + 1 : i < j => x2[i] < x2[j]
  <2>1. SUFFICES ASSUME NEW i \in 1 .. m + 1, NEW j \in 1 .. m + 1, i < j PROVE x2[i] < x2[j]
    OBVIOUS
  <2>2. i \in 1 .. m /\ x2[i] = ix[i] /\ ix[i] \in 1 .. n
    BY <1>1, <1>2, <1>4, <2>1
  <2>3. CASE j = m + 1
    BY <1>4, <2>2, <2>3
  <2>4. CASE j \in 1 .. m
    BY <1>1, <1>4, <2>1, <2>2, <2>4
  <2> QED
    BY <1>2, <2>3, <2>4
<1>7. \A x \in 1 .. n + 1 : p[x].on = s =>
        (\E i \in 1 .. m + 1 : x2[i] = x) \/ (\A i \in 1 .. m + 1 : x < x2[i])
  <2>1. SUFFICES ASSUME NEW x \in 1 .. n + 1, p[x].on = s
                 PROVE (\E i \in 1 .. m + 1 : x2[i] = x) \/ (\A i \in 1 .. m + 1 : x < x2[i])
    OBVIOUS
  <2>2. CASE x = n + 1
    BY <1>2, <1>4, <2>2
  <2>3. CASE x \in 1 .. n
    <3>1. CASE \E i \in 1 .. m : ix[i] = x
      BY <1>2, <1>4, <3>1
    <3>2. CASE \A i \in 1 .. m : x < ix[i]
      <4>1. SUFFICES ASSUME NEW i \in 1 .. m + 1 PROVE x < x2[i]
        OBVIOUS
      <4>2. CASE i = m + 1
        BY <1>4, <2>3, <4>2
      <4>3. CASE i \in 1 .. m
        BY <1>4, <3>2, <4>3
      <4> QED
        BY <1>2, <4>2, <4>3
    <3> QED
      BY <1>1, <2>1, <2>3, <3>1, <3>2
  <2> QED
    BY <2>2, <2>3
<1>8. Line(p, n + 1, s, q2, x2)
  BY <1>2, <1>3, <1>4, <1>5, <1>6, <1>7 DEF Line
<1> QED
  BY <1>8 DEF q2, x2

\* An operation of another stream is, or the stream has nothing queued.
LEMMA LineKept ==
  ASSUME NEW p, NEW n \in Nat, NEW s, NEW q, NEW ix, Line(p, n, s, q, ix),
         p[n + 1].on # s \/ q = <<>>
  PROVE  Line(p, n + 1, s, q, ix)
PROOF
<1>1. /\ IsProgram(q) /\ ix \in Seq(Nat) /\ Len(ix) = Len(q)
      /\ \A i \in 1 .. Len(q) :
           /\ ix[i] \in 1 .. n /\ Stands(q[i], p[ix[i]])
           /\ Queueable(p[ix[i]], s)
      /\ \A i, j \in 1 .. Len(q) : i < j => ix[i] < ix[j]
      /\ \A x \in 1 .. n : p[x].on = s =>
           (\E i \in 1 .. Len(q) : ix[i] = x) \/ (\A i \in 1 .. Len(q) : x < ix[i])
  BY DEF Line
<1>2. \A i \in 1 .. Len(q) :
        /\ ix[i] \in 1 .. n + 1 /\ Stands(q[i], p[ix[i]])
        /\ Queueable(p[ix[i]], s)
  BY <1>1
<1>3. \A x \in 1 .. n + 1 : p[x].on = s =>
        (\E i \in 1 .. Len(q) : ix[i] = x) \/ (\A i \in 1 .. Len(q) : x < ix[i])
  <2>1. CASE q = <<>>
    <3>1. Len(q) = 0
      BY <2>1
    <3> QED
      BY <3>1
  <2>2. CASE p[n + 1].on # s
    <3>1. \A x \in 1 .. n + 1 : p[x].on = s => x \in 1 .. n
      BY <2>2
    <3> QED
      BY <1>1, <3>1
  <2> QED
    BY <2>1, <2>2
<1> QED
  BY <1>1, <1>2, <1>3 DEF Line

\* The head of the queue is done.
LEMMA LineTail ==
  ASSUME NEW p, NEW n \in Nat, NEW s, NEW q, NEW ix, Line(p, n, s, q, ix), q # <<>>
  PROVE  Line(p, n, s, Tail(q), Tail(ix))
PROOF
<1> DEFINE q2 == Tail(q)
           x2 == Tail(ix)
           m == Len(q) - 1
<1>1. /\ IsProgram(q) /\ ix \in Seq(Nat) /\ Len(ix) = Len(q)
      /\ \A i \in 1 .. Len(q) :
           /\ ix[i] \in 1 .. n /\ Stands(q[i], p[ix[i]])
           /\ Queueable(p[ix[i]], s)
      /\ \A i, j \in 1 .. Len(q) : i < j => ix[i] < ix[j]
      /\ \A x \in 1 .. n : p[x].on = s =>
           (\E i \in 1 .. Len(q) : ix[i] = x) \/ (\A i \in 1 .. Len(q) : x < ix[i])
  BY DEF Line
<1>2. /\ Len(q) \in Nat \ {0} /\ IsProgram(q2) /\ Len(q2) = m
      /\ \A i \in 1 .. m : q2[i] = q[i + 1]
  BY <1>1, HeadAndTail
<1>3. IsProgram(ix) /\ ix # <<>> /\ x2 \in Seq(Nat)
  <2>1. ix # <<>>
    BY <1>1, <1>2
  <2> QED
    BY <1>1, <2>1, HeadTailProperties DEF IsProgram
<1>4. Len(x2) = m /\ \A i \in 1 .. m : x2[i] = ix[i + 1]
  BY <1>1, <1>3, HeadAndTail
<1> HIDE DEF q2, x2
<1>5. m \in Nat /\ Len(q) = m + 1
  BY <1>2
<1> HIDE DEF m
<1>6. \A i \in 1 .. m :
        /\ x2[i] \in 1 .. n /\ Stands(q2[i], p[x2[i]])
        /\ Queueable(p[x2[i]], s)
  BY <1>1, <1>2, <1>4, <1>5
<1>7. \A i, j \in 1 .. m : i < j => x2[i] < x2[j]
  <2>1. SUFFICES ASSUME NEW i \in 1 .. m, NEW j \in 1 .. m, i < j PROVE x2[i] < x2[j]
    OBVIOUS
  <2>2. i + 1 \in 1 .. Len(q) /\ j + 1 \in 1 .. Len(q) /\ i + 1 < j + 1
    BY <1>5, <2>1
  <2>3. ix[i + 1] < ix[j + 1]
    BY <1>1, <2>2
  <2> QED
    BY <1>4, <2>3
<1>8. \A x \in 1 .. n : p[x].on = s =>
        (\E i \in 1 .. m : x2[i] = x) \/ (\A i \in 1 .. m : x < x2[i])
  <2>1. SUFFICES ASSUME NEW x \in 1 .. n, p[x].on = s
                 PROVE (\E i \in 1 .. m : x2[i] = x) \/ (\A i \in 1 .. m : x < x2[i])
    OBVIOUS
  <2>2. CASE \A i \in 1 .. m + 1 : x < ix[i]
    BY <1>4, <1>5, <2>2
  <2>3. CASE \E i \in 1 .. m + 1 : ix[i] = x
    <3>1. PICK i \in 1 .. m + 1 : ix[i] = x
      BY <2>3
    <3>2. CASE i = 1
      BY <1>1, <1>4, <1>5, <3>1, <3>2
    <3>3. CASE i - 1 \in 1 .. m
      <4>1. x2[i - 1] = ix[(i - 1) + 1] /\ (i - 1) + 1 = i
        BY <1>4, <3>3
      <4> QED
        BY <3>1, <3>3, <4>1
    <3> QED
      BY <1>5, <3>2, <3>3
  <2> QED
    BY <1>1, <1>5, <2>1, <2>2, <2>3
<1>9. Line(p, n, s, q2, x2)
  BY <1>1, <1>2, <1>3, <1>4, <1>5, <1>6, <1>7, <1>8 DEF Line
<1> QED
  BY <1>9 DEF q2, x2

\* The waits and records of a queue are of events and have counts.
Marked(q) ==
  \A i \in 1 .. Len(q) : q[i].do \in {"wait", "record"} =>
    q[i].event \in Events /\ q[i].count \in Nat

\* The items of a line are well made.
LEMMA LineMarked ==
  ASSUME NEW p, NEW n, NEW s, NEW q, NEW ix, Line(p, n, s, q, ix)
  PROVE  /\ Marked(q)
         /\ \A i \in 1 .. Len(q) : q[i].on = s /\ q[i].do # "sync"
         /\ \A i \in 1 .. Len(q) : q[i].do = "record" => s = Home(q[i].event)
PROOF
<1>1. \A i \in 1 .. Len(q) : Stands(q[i], p[ix[i]]) /\ Queueable(p[ix[i]], s)
  BY DEF Line
<1> QED
  BY <1>1 DEF Marked, Stands, WellMade, Queueable

\* Further records are made on other streams.
LEMMA CountedMore ==
  ASSUME NEW q, NEW rec \in [Events -> Nat], NEW dn, Counted(q, rec, dn), Marked(q),
         NEW rec2 \in [Events -> Nat], \A e \in Events : rec[e] <= rec2[e]
  PROVE  Counted(q, rec2, dn)
PROOF
<1>1. ASSUME NEW i \in 1 .. Len(q), q[i].do = "record"
      PROVE  /\ dn[q[i].event] < q[i].count /\ q[i].count <= rec2[q[i].event]
             /\ \A j \in i + 1 .. Len(q) :
                  q[j].do = "record" /\ q[j].event = q[i].event => q[i].count < q[j].count
  <2>1. q[i].event \in Events /\ q[i].count \in Nat
    BY <1>1 DEF Marked
  <2>2. rec[q[i].event] \in Nat /\ rec2[q[i].event] \in Nat /\ rec[q[i].event] <= rec2[q[i].event]
    BY <2>1
  <2> QED
    BY <1>1, <2>1, <2>2 DEF Counted
<1> QED
  BY <1>1 DEF Counted

\* A record queued takes the next count of its event.
LEMMA CountedAppended ==
  ASSUME NEW q, IsProgram(q), NEW rec, NEW dn, Counted(q, rec, dn), Marked(q), NEW item,
         item.do = "record" =>
           /\ dn[item.event] < item.count /\ item.count <= rec[item.event]
           /\ \A i \in 1 .. Len(q) :
                q[i].do = "record" /\ q[i].event = item.event => q[i].count < item.count
  PROVE  Counted(Append(q, item), rec, dn)
PROOF
<1> DEFINE q2 == Append(q, item)
           m == Len(q)
<1>1. /\ m \in Nat /\ Len(q2) = m + 1
      /\ (\A i \in 1 .. m : q2[i] = q[i]) /\ q2[m + 1] = item
  BY Appended
<1>2. \A i \in 1 .. m : q[i].do = "record" =>
        /\ dn[q[i].event] < q[i].count /\ q[i].count <= rec[q[i].event]
        /\ \A j \in i + 1 .. m :
             q[j].do = "record" /\ q[j].event = q[i].event => q[i].count < q[j].count
  BY DEF Counted
<1>3. item.do = "record" =>
        /\ dn[item.event] < item.count /\ item.count <= rec[item.event]
        /\ \A i \in 1 .. m :
             q[i].do = "record" /\ q[i].event = item.event => q[i].count < item.count
  OBVIOUS
<1> HIDE DEF q2, m
<1>4. ASSUME NEW i \in 1 .. m + 1, q2[i].do = "record"
      PROVE  /\ dn[q2[i].event] < q2[i].count /\ q2[i].count <= rec[q2[i].event]
             /\ \A j \in i + 1 .. m + 1 :
                  q2[j].do = "record" /\ q2[j].event = q2[i].event => q2[i].count < q2[j].count
  <2>1. CASE i = m + 1
    BY <1>1, <1>3, <1>4, <2>1
  <2>2. CASE i \in 1 .. m
    <3>1. q2[i] = q[i] /\ q[i].do = "record"
      BY <1>1, <1>4, <2>2
    <3>2. ASSUME NEW j \in i + 1 .. m + 1, q2[j].do = "record", q2[j].event = q2[i].event
          PROVE  q2[i].count < q2[j].count
      <4>1. CASE j = m + 1
        BY <1>1, <1>3, <2>2, <3>1, <3>2, <4>1
      <4>2. CASE j \in i + 1 .. m
        <5>1. q2[j] = q[j]
          BY <1>1, <2>2, <4>2
        <5> QED
          BY <1>2, <2>2, <3>1, <3>2, <4>2, <5>1
      <4> QED
        BY <1>1, <2>2, <4>1, <4>2
    <3> QED
      BY <1>2, <2>2, <3>1, <3>2
  <2> QED
    BY <1>1, <2>1, <2>2
<1>5. Counted(q2, rec, dn)
  BY <1>1, <1>4 DEF Counted
<1> QED
  BY <1>5 DEF q2

\* The head of a queue is done.
LEMMA CountedTail ==
  ASSUME NEW q, IsProgram(q), q # <<>>, NEW rec, NEW dn, Counted(q, rec, dn)
  PROVE  Counted(Tail(q), rec, dn)
PROOF
<1> DEFINE q2 == Tail(q)
<1>1. Len(q) \in Nat \ {0} /\ Len(q2) = Len(q) - 1 /\ \A i \in 1 .. Len(q) - 1 : q2[i] = q[i + 1]
  BY HeadAndTail
<1> HIDE DEF q2
<1>2. ASSUME NEW i \in 1 .. Len(q2), q2[i].do = "record"
      PROVE  /\ dn[q2[i].event] < q2[i].count /\ q2[i].count <= rec[q2[i].event]
             /\ \A j \in i + 1 .. Len(q2) :
                  q2[j].do = "record" /\ q2[j].event = q2[i].event => q2[i].count < q2[j].count
  <2>1. i + 1 \in 1 .. Len(q) /\ q2[i] = q[i + 1]
    BY <1>1
  <2>2. \A j \in i + 1 .. Len(q2) : j + 1 \in (i + 1) + 1 .. Len(q) /\ q2[j] = q[j + 1]
    BY <1>1
  <2>3. /\ dn[q[i + 1].event] < q[i + 1].count /\ q[i + 1].count <= rec[q[i + 1].event]
        /\ \A j \in (i + 1) + 1 .. Len(q) :
             q[j].do = "record" /\ q[j].event = q[i + 1].event => q[i + 1].count < q[j].count
    BY <1>2, <2>1 DEF Counted
  <2> QED
    BY <2>1, <2>2, <2>3
<1>3. Counted(q2, rec, dn)
  BY <1>2 DEF Counted
<1> QED
  BY <1>3 DEF q2

\* A record made leaves the later ones of its event to come.
LEMMA CountedDone ==
  ASSUME NEW q, NEW rec, NEW dn \in [Events -> Nat], Counted(q, rec, dn), Marked(q),
         NEW e \in Events, NEW c \in Nat,
         \A i \in 1 .. Len(q) : q[i].do = "record" /\ q[i].event = e => c < q[i].count
  PROVE  Counted(q, rec, [dn EXCEPT ![e] = c])
PROOF
<1>1. ASSUME NEW i \in 1 .. Len(q), q[i].do = "record"
      PROVE  [dn EXCEPT ![e] = c][q[i].event] < q[i].count
  <2>1. q[i].event \in Events /\ dn[q[i].event] < q[i].count
    BY <1>1 DEF Marked, Counted
  <2> QED
    BY <1>1, <2>1
<1> QED
  BY <1>1 DEF Counted

\* The lines of two streams, of which one or both get an operation.
Grown(p, n, s, q, ix, rec, q2, i2) ==
  \/ (p[n + 1].on # s \/ q = <<>>) /\ q2 = q /\ i2 = ix
  \/ /\ p[n + 1].on = s /\ i2 = Append(ix, n + 1)
     /\ \E item : /\ q2 = Append(q, item) /\ Stands(item, p[n + 1])
                  /\ item.do = "wait" => item.count = rec[item.event]

\* A wait that is queued waits for all the records queued before it.
LEMMA HeldGrown ==
  ASSUME NEW p, NEW n \in Nat, NEW s, NEW t, NEW qs, NEW qt, NEW is, NEW it,
         Line(p, n, s, qs, is), Line(p, n, t, qt, it),
         NEW rec, NEW dn, Counted(qs, rec, dn), Marked(qs),
         Held(p, n, qs, qt, t, is, it),
         NEW qs2, NEW is2, NEW qt2, NEW it2,
         Grown(p, n, s, qs, is, rec, qs2, is2), Grown(p, n, t, qt, it, rec, qt2, it2),
         p[n + 1].do = "wait" /\ p[n + 1].on = t => it2 # it
  PROVE  Held(p, n + 1, qs2, qt2, t, is2, it2)
PROOF
<1>1. /\ IsProgram(qs) /\ IsProgram(is) /\ Len(is) = Len(qs) /\ Len(qs) \in Nat
      /\ \A i \in 1 .. Len(qs) : is[i] \in 1 .. n
  BY ProgramLength DEF Line, IsProgram
<1>2. /\ IsProgram(qt) /\ IsProgram(it) /\ Len(it) = Len(qt) /\ Len(qt) \in Nat
  BY ProgramLength DEF Line, IsProgram
<1>3. \A i \in 1 .. Len(qs2) :
        \/ i \in 1 .. Len(qs) /\ qs2[i] = qs[i] /\ is2[i] = is[i]
        \/ is2[i] = n + 1
  <2>1. CASE qs2 = qs /\ is2 = is
    BY <2>1
  <2>2. CASE is2 = Append(is, n + 1) /\ \E item : qs2 = Append(qs, item)
    <3>1. Len(qs2) = Len(qs) + 1 /\ \A i \in 1 .. Len(qs) : qs2[i] = qs[i]
      BY <1>1, <2>2, Appended
    <3>2. (\A i \in 1 .. Len(qs) : is2[i] = is[i]) /\ is2[Len(qs) + 1] = n + 1
      BY <1>1, <2>2, Appended
    <3> QED
      BY <1>1, <3>1, <3>2
  <2> QED
    BY <2>1, <2>2 DEF Grown
<1>4. /\ \A j \in 1 .. Len(qt) : j \in 1 .. Len(qt2) /\ qt2[j] = qt[j] /\ it2[j] = it[j]
      /\ it2 # it => \E j \in 1 .. Len(qt2) :
           /\ it2[j] = n + 1 /\ Stands(qt2[j], p[n + 1])
           /\ qt2[j].do = "wait" => qt2[j].count = rec[qt2[j].event]
  BY <1>2, Appended DEF Grown
<1>5. SUFFICES ASSUME NEW i \in 1 .. Len(qs2), qs2[i].do = "record",
                      NEW x \in is2[i] + 1 .. n + 1,
                      p[x].do = "wait", p[x].event = qs2[i].event, p[x].on = t
               PROVE  \E j \in 1 .. Len(qt2) : it2[j] = x /\ qt2[j].count >= qs2[i].count
  BY DEF Held
<1>6. i \in 1 .. Len(qs) /\ qs2[i] = qs[i] /\ is2[i] = is[i] /\ is[i] \in 1 .. n
  BY <1>1, <1>3
<1>7. CASE x = n + 1
  <2>1. PICK j \in 1 .. Len(qt2) :
          /\ it2[j] = n + 1 /\ Stands(qt2[j], p[n + 1])
          /\ qt2[j].do = "wait" => qt2[j].count = rec[qt2[j].event]
    BY <1>4, <1>5, <1>7
  <2>2. qt2[j].event = qs[i].event /\ qt2[j].count \in Nat /\ qt2[j].count = rec[qs[i].event]
    BY <1>5, <1>6, <1>7, <2>1 DEF Stands
  <2>3. qs[i].count <= rec[qs[i].event] /\ qs[i].count \in Nat
    BY <1>5, <1>6 DEF Counted, Marked
  <2> QED
    BY <1>6, <1>7, <2>1, <2>2, <2>3
<1>8. CASE x \in is[i] + 1 .. n
  <2>1. PICK j \in 1 .. Len(qt) : it[j] = x /\ qt[j].count >= qs[i].count
    BY <1>5, <1>6, <1>8 DEF Held
  <2> QED
    BY <1>4, <1>6, <2>1
<1> QED
  BY <1>5, <1>6, <1>7, <1>8

\* The head of the recording stream is done.
LEMMA HeldTailLeft ==
  ASSUME NEW p, NEW n, NEW s, NEW t, NEW qs, NEW qt, NEW is, NEW it, qs # <<>>,
         Line(p, n, s, qs, is), Held(p, n, qs, qt, t, is, it)
  PROVE  Held(p, n, Tail(qs), qt, t, Tail(is), it)
PROOF
<1> DEFINE q2 == Tail(qs)
           i2 == Tail(is)
<1>1. IsProgram(qs) /\ IsProgram(is) /\ Len(is) = Len(qs)
  BY DEF Line, IsProgram
<1>2. Len(qs) \in Nat \ {0} /\ Len(q2) = Len(qs) - 1 /\ \A i \in 1 .. Len(qs) - 1 : q2[i] = qs[i + 1]
  BY <1>1, HeadAndTail
<1>3. is # <<>>
  BY <1>1, <1>2
<1>4. \A i \in 1 .. Len(qs) - 1 : i2[i] = is[i + 1]
  BY <1>1, <1>3, HeadAndTail
<1> HIDE DEF q2, i2
<1>5. \A i \in 1 .. Len(q2) : i + 1 \in 1 .. Len(qs) /\ q2[i] = qs[i + 1] /\ i2[i] = is[i + 1]
  BY <1>2, <1>4
<1>6. ASSUME NEW i \in 1 .. Len(q2), q2[i].do = "record", NEW x \in i2[i] + 1 .. n,
             p[x].do = "wait", p[x].event = q2[i].event, p[x].on = t
      PROVE  \E j \in 1 .. Len(qt) : it[j] = x /\ qt[j].count >= q2[i].count
  <2>1. /\ i + 1 \in 1 .. Len(qs) /\ qs[i + 1].do = "record" /\ x \in is[i + 1] + 1 .. n
        /\ p[x].event = qs[i + 1].event /\ q2[i] = qs[i + 1]
    BY <1>5, <1>6
  <2>2. \E j \in 1 .. Len(qt) : it[j] = x /\ qt[j].count >= qs[i + 1].count
    BY <1>6, <2>1, ZenonT(60) DEF Held
  <2> QED
    BY <2>1, <2>2
<1>7. Held(p, n, q2, qt, t, i2, it)
  BY <1>6, ZenonT(60) DEF Held
<1> QED
  BY <1>7 DEF q2, i2

\* The head of the waiting stream is done: if it is a wait, its records are made.
LEMMA HeldTailRight ==
  ASSUME NEW p, NEW n \in Nat, NEW s, NEW t, NEW qs, NEW qt, NEW is, NEW it, qt # <<>>,
         Line(p, n, t, qt, it), Held(p, n, qs, qt, t, is, it),
         Marked(qt), Marked(qs), NEW rec, NEW dn \in [Events -> Nat], Counted(qs, rec, dn),
         Head(qt).do = "wait" => dn[Head(qt).event] >= Head(qt).count
  PROVE  Held(p, n, qs, Tail(qt), t, is, Tail(it))
PROOF
<1> DEFINE q2 == Tail(qt)
           i2 == Tail(it)
<1>1. /\ IsProgram(qt) /\ IsProgram(it) /\ Len(it) = Len(qt)
      /\ \A j \in 1 .. Len(qt) : Stands(qt[j], p[it[j]])
  BY DEF Line, IsProgram
<1>2. /\ Len(qt) \in Nat \ {0} /\ Head(qt) = qt[1] /\ Len(q2) = Len(qt) - 1
      /\ \A i \in 1 .. Len(qt) - 1 : q2[i] = qt[i + 1]
  BY <1>1, HeadAndTail
<1>3. it # <<>>
  BY <1>1, <1>2
<1>4. \A i \in 1 .. Len(qt) - 1 : i2[i] = it[i + 1]
  BY <1>1, <1>3, HeadAndTail
<1> HIDE DEF q2, i2
<1>5. ASSUME NEW i \in 1 .. Len(qs), qs[i].do = "record", NEW x \in is[i] + 1 .. n,
             p[x].do = "wait", p[x].event = qs[i].event, p[x].on = t
      PROVE  \E j \in 1 .. Len(q2) : i2[j] = x /\ q2[j].count >= qs[i].count
  <2>1. PICK j \in 1 .. Len(qt) : it[j] = x /\ qt[j].count >= qs[i].count
    BY <1>5 DEF Held
  <2>2. qt[j].do = "wait" /\ qt[j].event = qs[i].event
    BY <1>1, <1>5, <2>1 DEF Stands
  <2>3. /\ qs[i].event \in Events /\ qs[i].count \in Nat /\ qt[j].count \in Nat
        /\ dn[qs[i].event] < qs[i].count /\ dn[qs[i].event] \in Nat
    BY <1>5, <2>2 DEF Marked, Counted
  <2>4. j # 1
    BY <1>2, <2>1, <2>2, <2>3
  <2>5. j - 1 \in 1 .. Len(q2) /\ (j - 1) + 1 = j
    BY <1>2, <2>4
  <2>6. q2[j - 1] = qt[j] /\ i2[j - 1] = it[j]
    BY <1>2, <1>4, <2>5
  <2> QED
    BY <2>1, <2>5, <2>6
<1>6. Held(p, n, qs, q2, t, is, i2)
  BY <1>5 DEF Held
<1> QED
  BY <1>6 DEF q2, i2

\* The queues q have their items from the places at of the program, each wait behind the
\* records it is for.
Ordered(p, n, q, at, rec, dn) ==
  /\ \A s \in Streams : Line(p, n, s, q[s], at[s]) /\ Counted(q[s], rec, dn)
  /\ \A s, t \in Streams : Held(p, n, q[s], q[t], t, at[s], at[t])

\* Records queued and made.
Consistent(rec, dn) ==
  /\ rec \in [Events -> Nat] /\ dn \in [Events -> Nat]
  /\ \A e \in Events : dn[e] <= rec[e]

\* The operation op is queued: q and the records rec become q2 and rec2.
Issued(op, q, rec, q2, rec2) ==
  /\ op.on \in Streams /\ Queueable(op, op.on)
  /\ rec2 \in [Events -> Nat] /\ \A e \in Events : rec[e] <= rec2[e]
  /\ \E item :
       /\ Stands(item, op)
       /\ item.do = "wait" => item.count = rec[item.event]
       /\ item.do = "record" => item.count = rec[item.event] + 1 /\ rec2[item.event] = item.count
       /\ \A s \in Streams : q2[s] = IF s = op.on THEN Append(q[s], item) ELSE q[s]

\* The places when the operation at place x is put on stream s, and when stream u is done
\* with its head.
Placed(at, s, x) == [t \in Streams |-> IF t = s THEN Append(at[t], x) ELSE at[t]]
Left(at, u) == [t \in Streams |-> IF t = u THEN Tail(at[t]) ELSE at[t]]

\* The operation queued with the marks of this moment.
LEMMA OrderedAppended ==
  ASSUME NEW p, NEW n \in Nat, NEW q, NEW at,
         NEW rec, NEW dn, Consistent(rec, dn), Ordered(p, n, q, at, rec, dn),
         NEW q2, NEW rec2, Issued(p[n + 1], q, rec, q2, rec2)
  PROVE  Ordered(p, n + 1, q2, Placed(at, p[n + 1].on, n + 1), rec2, dn)
PROOF
<1>10. /\ p[n + 1].on \in Streams /\ Queueable(p[n + 1], p[n + 1].on)
       /\ rec \in [Events -> Nat] /\ dn \in [Events -> Nat] /\ \A e \in Events : dn[e] <= rec[e]
       /\ rec2 \in [Events -> Nat] /\ \A e \in Events : rec[e] <= rec2[e]
  BY DEF Issued, Consistent
<1>11. PICK item :
         /\ Stands(item, p[n + 1])
         /\ item.do = "wait" => item.count = rec[item.event]
         /\ item.do = "record" => item.count = rec[item.event] + 1 /\ rec2[item.event] = item.count
         /\ \A s \in Streams : q2[s] = IF s = p[n + 1].on THEN Append(q[s], item) ELSE q[s]
  BY Zenon DEF Issued
<1> USE <1>10, <1>11
<1> DEFINE a2 == Placed(at, p[n + 1].on, n + 1)
<1>1. \A s \in Streams : /\ Line(p, n, s, q[s], at[s]) /\ Counted(q[s], rec, dn)
                         /\ IsProgram(q[s]) /\ IsProgram(at[s]) /\ Len(q[s]) \in Nat
  BY ProgramLength DEF Ordered, Line, IsProgram
<1>2. \A s \in Streams : Marked(q[s])
  BY <1>1, LineMarked
<1>3. \A s \in Streams : a2[s] = IF s = p[n + 1].on THEN Append(at[s], n + 1) ELSE at[s]
  BY DEF Placed
<1> HIDE DEF a2
<1>4. \A s \in Streams : Line(p, n + 1, s, q2[s], a2[s])
  <2>1. SUFFICES ASSUME NEW s \in Streams PROVE Line(p, n + 1, s, q2[s], a2[s])
    OBVIOUS
  <2>2. CASE s = p[n + 1].on
    <3>1. q2[s] = Append(q[s], item) /\ a2[s] = Append(at[s], n + 1)
      BY <1>3, <2>2
    <3> QED
      BY <1>1, <2>2, <3>1, LineAppended
  <2>3. CASE s # p[n + 1].on
    <3>1. q2[s] = q[s] /\ a2[s] = at[s]
      BY <1>3, <2>3
    <3> QED
      BY <1>1, <2>3, <3>1, LineKept
  <2> QED
    BY <2>2, <2>3
<1>5. \A s \in Streams : Counted(q2[s], rec2, dn)
  <2>1. SUFFICES ASSUME NEW s \in Streams PROVE Counted(q2[s], rec2, dn)
    OBVIOUS
  <2>2. Counted(q[s], rec2, dn)
    BY <1>1, <1>2, CountedMore
  <2>3. CASE s = p[n + 1].on
    <3>1. ASSUME item.do = "record"
          PROVE  /\ dn[item.event] < item.count /\ item.count <= rec2[item.event]
                 /\ \A i \in 1 .. Len(q[s]) :
                      q[s][i].do = "record" /\ q[s][i].event = item.event => q[s][i].count < item.count
      <4>0. WellMade(p[n + 1])
        BY DEF Queueable
      <4>1. item.event \in Events /\ item.count \in Nat
        BY <3>1, <4>0 DEF Stands, WellMade
      <4>2. /\ rec[item.event] \in Nat /\ dn[item.event] \in Nat /\ dn[item.event] <= rec[item.event]
            /\ item.count = rec[item.event] + 1 /\ rec2[item.event] = item.count
        BY <3>1, <4>1
      <4>3. \A i \in 1 .. Len(q[s]) : q[s][i].do = "record" /\ q[s][i].event = item.event =>
              q[s][i].count \in Nat /\ q[s][i].count <= rec[item.event]
        BY <1>1, <1>2 DEF Counted, Marked
      <4> QED
        BY <4>1, <4>2, <4>3
    <3>2. q2[s] = Append(q[s], item)
      BY <2>3
    <3>3. Counted(Append(q[s], item), rec2, dn)
      <4> DEFINE line == q[s]
      <4>1. IsProgram(line) /\ Marked(line) /\ Counted(line, rec2, dn)
        BY <1>1, <1>2, <2>2
      <4>2. item.do = "record" =>
              /\ dn[item.event] < item.count /\ item.count <= rec2[item.event]
              /\ \A i \in 1 .. Len(line) :
                   line[i].do = "record" /\ line[i].event = item.event => line[i].count < item.count
        BY <3>1
      <4> HIDE DEF line
      <4>3. Counted(Append(line, item), rec2, dn)
        BY <4>1, <4>2, CountedAppended
      <4> QED
        BY <4>3 DEF line
    <3> QED
      BY <3>2, <3>3
  <2>4. CASE s # p[n + 1].on
    BY <2>2, <2>4
  <2> QED
    BY <2>3, <2>4
<1>6. \A s \in Streams : Grown(p, n, s, q[s], at[s], rec, q2[s], a2[s])
  BY <1>3 DEF Grown
<1>7. \A s, t \in Streams : Held(p, n + 1, q2[s], q2[t], t, a2[s], a2[t])
  <2>1. SUFFICES ASSUME NEW s \in Streams, NEW t \in Streams
                 PROVE  Held(p, n + 1, q2[s], q2[t], t, a2[s], a2[t])
    OBVIOUS
  <2>2. Held(p, n, q[s], q[t], t, at[s], at[t])
    BY DEF Ordered
  <2>3. p[n + 1].on = t => a2[t] # at[t]
    <3>1. IsProgram(at[t])
      BY <1>1
    <3>2. Len(Append(at[t], n + 1)) = Len(at[t]) + 1 /\ Len(at[t]) \in Nat
      BY <3>1, Appended
    <3>3. Append(at[t], n + 1) # at[t]
      BY <3>2
    <3> QED
      BY <1>3, <3>3
  <2> QED
    BY <1>1, <1>2, <1>6, <2>2, <2>3, HeldGrown
<1>8. Ordered(p, n + 1, q2, a2, rec2, dn)
  BY <1>4, <1>5, <1>7 DEF Ordered
<1> QED
  BY <1>8 DEF a2

\* The host does something that is not queued.
LEMMA OrderedKept ==
  ASSUME NEW p, NEW n \in Nat, NEW q, NEW at,
         NEW rec, NEW dn, Ordered(p, n, q, at, rec, dn), p[n + 1].do # "wait",
         \A s \in Streams : p[n + 1].on = s => q[s] = <<>>
  PROVE  Ordered(p, n + 1, q, at, rec, dn)
PROOF
<1>1. \A s \in Streams : /\ Line(p, n, s, q[s], at[s]) /\ Counted(q[s], rec, dn)
                         /\ Line(p, n + 1, s, q[s], at[s]) /\ Marked(q[s])
  <2>1. \A s \in Streams : Line(p, n, s, q[s], at[s]) /\ Counted(q[s], rec, dn)
    BY DEF Ordered
  <2> QED
    BY <2>1, LineMarked, LineKept
<1>2. \A s \in Streams : Grown(p, n, s, q[s], at[s], rec, q[s], at[s])
  BY DEF Grown
<1>3. \A s, t \in Streams : Held(p, n + 1, q[s], q[t], t, at[s], at[t])
  <2>1. SUFFICES ASSUME NEW s \in Streams, NEW t \in Streams
                 PROVE  Held(p, n + 1, q[s], q[t], t, at[s], at[t])
    OBVIOUS
  <2>2. Held(p, n, q[s], q[t], t, at[s], at[t])
    BY DEF Ordered
  <2> QED
    BY <1>1, <1>2, <2>2, HeldGrown
<1> QED
  BY <1>1, <1>3 DEF Ordered

\* The head of stream u is done: q and the records dn made become q2 and dn2.
Taken(u, q, dn, q2, dn2) ==
  /\ u \in Streams /\ q[u] # <<>>
  /\ Head(q[u]).do = "wait" => dn[Head(q[u]).event] >= Head(q[u]).count
  /\ \A s \in Streams : q2[s] = IF s = u THEN Tail(q[s]) ELSE q[s]
  /\ dn2 = IF Head(q[u]).do = "record"
           THEN [dn EXCEPT ![Head(q[u]).event] = Head(q[u]).count] ELSE dn

\* The order is kept then.
LEMMA OrderedTail ==
  ASSUME NEW p, NEW n \in Nat, NEW q, NEW at,
         NEW rec, NEW dn \in [Events -> Nat], Ordered(p, n, q, at, rec, dn),
         NEW u, NEW q2, NEW dn2, Taken(u, q, dn, q2, dn2)
  PROVE  Ordered(p, n, q2, Left(at, u), rec, dn2)
PROOF
<1> SUFFICES ASSUME u \in Streams, q[u] # <<>>,
                    Head(q[u]).do = "wait" => dn[Head(q[u]).event] >= Head(q[u]).count,
                    \A s \in Streams : q2[s] = IF s = u THEN Tail(q[s]) ELSE q[s],
                    dn2 = IF Head(q[u]).do = "record"
                          THEN [dn EXCEPT ![Head(q[u]).event] = Head(q[u]).count] ELSE dn
             PROVE  Ordered(p, n, q2, Left(at, u), rec, dn2)
  BY Zenon DEF Taken
<1> DEFINE a2 == Left(at, u)
<1>1. \A s \in Streams : /\ Line(p, n, s, q[s], at[s]) /\ Counted(q[s], rec, dn)
                         /\ IsProgram(q[s]) /\ Marked(q[s])
                         /\ \A i \in 1 .. Len(q[s]) : q[s][i].do = "record" => s = Home(q[s][i].event)
  <2>1. \A s \in Streams : Line(p, n, s, q[s], at[s]) /\ Counted(q[s], rec, dn) /\ IsProgram(q[s])
    BY DEF Ordered, Line
  <2> QED
    BY <2>1, LineMarked
<1>2. \A s \in Streams : a2[s] = IF s = u THEN Tail(at[s]) ELSE at[s]
  BY DEF Left
<1> HIDE DEF a2
<1>3. /\ Len(q[u]) \in Nat \ {0} /\ Head(q[u]) = q[u][1]
      /\ IsProgram(Tail(q[u])) /\ Len(Tail(q[u])) = Len(q[u]) - 1
      /\ \A i \in 1 .. Len(q[u]) - 1 : Tail(q[u])[i] = q[u][i + 1]
  BY <1>1, HeadAndTail
<1>4. \A s \in Streams : Line(p, n, s, q2[s], a2[s])
  <2>1. SUFFICES ASSUME NEW s \in Streams PROVE Line(p, n, s, q2[s], a2[s])
    OBVIOUS
  <2>2. CASE s = u
    <3>1. q2[s] = Tail(q[s]) /\ a2[s] = Tail(at[s])
      BY <1>2, <2>2
    <3> QED
      BY <1>1, <2>2, <3>1, LineTail
  <2>3. CASE s # u
    BY <1>1, <1>2, <2>3
  <2> QED
    BY <2>2, <2>3
<1>5. \A s \in Streams : Marked(q2[s])
  BY <1>4, LineMarked
<1>6. \A s \in Streams : Counted(q2[s], rec, dn)
  BY <1>1, CountedTail
<1>7. \A s \in Streams : Counted(q2[s], rec, dn2)
  <2>1. CASE Head(q[u]).do # "record"
    BY <1>6, <2>1
  <2>2. CASE Head(q[u]).do = "record"
    <3> DEFINE e == Head(q[u]).event
               c == Head(q[u]).count
    <3>1. e \in Events /\ c \in Nat /\ u = Home(e)
      <4>1. 1 \in 1 .. Len(q[u])
        BY <1>3
      <4> QED
        BY <1>1, <1>3, <2>2, <4>1 DEF Marked
    <3>2. ASSUME NEW s \in Streams, NEW i \in 1 .. Len(q2[s]), q2[s][i].do = "record", q2[s][i].event = e
          PROVE  c < q2[s][i].count
      <4>1. CASE s # u
        <5>1. q2[s] = q[s]
          BY <4>1
        <5>2. s = Home(e)
          BY <1>1, <3>2, <5>1
        <5> QED
          BY <3>1, <4>1, <5>2
      <4>2. CASE s = u
        <5>0. q2[s] = Tail(q[u])
          BY <4>2
        <5>1. i \in 1 .. Len(q[u]) - 1 /\ i + 1 \in 1 + 1 .. Len(q[u]) /\ q2[s][i] = q[u][i + 1]
          BY <1>3, <3>2, <5>0
        <5>2. 1 \in 1 .. Len(q[u]) /\ q[u][1].do = "record" /\ q[u][1].event = e /\ q[u][1].count = c
          BY <1>3, <2>2
        <5>3. Counted(q[u], rec, dn)
          BY <1>1
        <5> HIDE DEF e, c
        <5> QED
          BY <3>2, <5>1, <5>2, <5>3 DEF Counted
      <4> QED
        BY <4>1, <4>2
    <3>3. dn2 = [dn EXCEPT ![e] = c]
      BY <2>2
    <3> HIDE DEF e, c
    <3>4. \A s \in Streams : Counted(q2[s], rec, [dn EXCEPT ![e] = c])
      <4>1. SUFFICES ASSUME NEW s \in Streams PROVE Counted(q2[s], rec, [dn EXCEPT ![e] = c])
        OBVIOUS
      <4> DEFINE line == q2[s]
      <4>2. /\ Counted(line, rec, dn) /\ Marked(line)
            /\ \A i \in 1 .. Len(line) : line[i].do = "record" /\ line[i].event = e => c < line[i].count
        BY <1>5, <1>6, <3>2
      <4> HIDE DEF line
      <4>3. Counted(line, rec, [dn EXCEPT ![e] = c])
        BY <3>1, <4>2, CountedDone
      <4> QED
        BY <4>3 DEF line
    <3> QED
      BY <3>3, <3>4
  <2> QED
    BY <2>1, <2>2
<1>8. \A s, t \in Streams : Held(p, n, q2[s], q2[t], t, a2[s], a2[t])
  <2>1. SUFFICES ASSUME NEW s \in Streams, NEW t \in Streams
                 PROVE  Held(p, n, q2[s], q2[t], t, a2[s], a2[t])
    OBVIOUS
  <2>2. Held(p, n, q[s], q[t], t, at[s], at[t])
    BY DEF Ordered
  <2>3. Held(p, n, q2[s], q[t], t, a2[s], at[t])
    <3>1. CASE s # u
      BY <1>2, <2>2, <3>1
    <3>2. CASE s = u
      <4>1. q2[s] = Tail(q[s]) /\ a2[s] = Tail(at[s])
        BY <1>2, <3>2
      <4> QED
        BY <1>1, <2>2, <3>2, <4>1, HeldTailLeft
    <3> QED
      BY <3>1, <3>2
  <2>4. CASE t # u
    BY <1>2, <2>3, <2>4
  <2>5. CASE t = u
    <3>1. q2[t] = Tail(q[t]) /\ a2[t] = Tail(at[t])
      BY <1>2, <2>5
    <3> QED
      BY <1>1, <1>5, <1>6, <2>3, <2>5, <3>1, HeldTailRight
  <2> QED
    BY <2>4, <2>5
<1>9. Ordered(p, n, q2, a2, rec, dn2)
  BY <1>4, <1>7, <1>8 DEF Ordered
<1> QED
  BY <1>9 DEF a2

\* Two operations at the heads of two streams, neither a mark, have no buffer in common.
LEMMA HeadsApart ==
  ASSUME NEW p, IsProgram(p), InOrder(p), NEW n \in 0 .. Len(p),
         NEW q, NEW at, NEW rec, NEW dn, Ordered(p, n, q, at, rec, dn),
         NEW s \in Streams, NEW t \in Streams, s # t, q[s] # <<>>, q[t] # <<>>,
         Head(q[s]).do \notin {"wait", "record"}, Head(q[t]).do \notin {"wait", "record"}
  PROVE  Touched(Head(q[s])) \cap Touched(Head(q[t])) = {}
PROOF
<1>0. Len(p) \in Nat /\ n \in Nat
  BY ProgramLength
<1>1. ASSUME NEW u \in Streams, NEW v \in Streams, u # v, q[u] # <<>>, q[v] # <<>>,
             Head(q[u]).do \notin {"wait", "record"}, Head(q[v]).do \notin {"wait", "record"},
             at[u][1] < at[v][1]
      PROVE  Touched(Head(q[u])) \cap Touched(Head(q[v])) = {}
  <2> DEFINE x == at[u][1]
             y == at[v][1]
  <2>1. Line(p, n, u, q[u], at[u]) /\ Line(p, n, v, q[v], at[v])
    BY DEF Ordered
  <2>2. /\ Len(q[u]) \in Nat \ {0} /\ Head(q[u]) = q[u][1]
        /\ Len(q[v]) \in Nat \ {0} /\ Head(q[v]) = q[v][1]
    BY <1>1, <2>1, HeadAndTail DEF Line
  <2>3. 1 \in 1 .. Len(q[u]) /\ 1 \in 1 .. Len(q[v])
    BY <2>2
  <2>4. /\ x \in 1 .. n /\ Head(q[u]) = p[x] /\ p[x].on = u /\ p[x].do # "sync"
        /\ y \in 1 .. n /\ Head(q[v]) = p[y] /\ p[y].on = v /\ p[y].do # "sync"
    <3>1. /\ x \in 1 .. n /\ Stands(q[u][1], p[x]) /\ p[x].on = u /\ p[x].do # "sync"
          /\ y \in 1 .. n /\ Stands(q[v][1], p[y]) /\ p[y].on = v /\ p[y].do # "sync"
      BY <2>1, <2>3 DEF Line, Queueable
    <3>2. q[u][1].do \notin {"wait", "record"} /\ q[v][1].do \notin {"wait", "record"}
      BY <1>1, <2>2
    <3> HIDE DEF x, y
    <3> QED
      BY <2>2, <3>1, <3>2 DEF Stands
  <2>5. /\ x \in 1 .. Len(p) /\ y \in 1 .. Len(p) /\ x < y
        /\ Data(p[x]) /\ Data(p[y]) /\ p[x].on # p[y].on
    BY <1>0, <1>1, <2>4 DEF Data
  <2>6. SUFFICES ASSUME Touched(p[x]) \cap Touched(p[y]) # {} PROVE FALSE
    BY <2>4
  <2>7. PICK r \in x + 1 .. y - 1 : \E w \in r + 1 .. y - 1 :
          /\ p[r].do = "record" /\ p[r].on = p[x].on
          /\ p[w].do = "wait" /\ p[w].on = p[y].on /\ p[w].event = p[r].event
    <3> HIDE DEF x, y
    <3> QED
      BY <2>5, <2>6, ZenonT(60) DEF InOrder
  <2>8. PICK w \in r + 1 .. y - 1 :
          /\ p[r].do = "record" /\ p[r].on = p[x].on
          /\ p[w].do = "wait" /\ p[w].on = p[y].on /\ p[w].event = p[r].event
    BY <2>7
  <2>9. r \in 1 .. n /\ w \in 1 .. n /\ r > x /\ w < y /\ w \in r + 1 .. n
    BY <1>0, <2>4
  <2>10. PICK i \in 1 .. Len(q[u]) : at[u][i] = r
    <3>1. (\E i \in 1 .. Len(q[u]) : at[u][i] = r) \/ (\A i \in 1 .. Len(q[u]) : r < at[u][i])
      BY <2>1, <2>4, <2>8, <2>9 DEF Line
    <3>2. ~(r < at[u][1])
      BY <2>4, <2>9
    <3> QED
      BY <2>3, <3>1, <3>2
  <2>11. q[u][i].do = "record" /\ q[u][i].event = p[r].event
    BY <2>1, <2>8, <2>10 DEF Line, Stands
  <2>12. Held(p, n, q[u], q[v], v, at[u], at[v])
    BY DEF Ordered
  <2>13. PICK j \in 1 .. Len(q[v]) : at[v][j] = w
    <3>1. w \in at[u][i] + 1 .. n /\ p[w].do = "wait" /\ p[w].event = q[u][i].event /\ p[w].on = v
      BY <2>4, <2>8, <2>9, <2>10, <2>11
    <3> HIDE DEF x, y
    <3> QED
      BY <2>11, <2>12, <3>1, ZenonT(60) DEF Held
  <2>14. j = 1 \/ at[v][1] < at[v][j]
    BY <2>1, <2>2, <2>3 DEF Line
  <2> QED
    BY <2>4, <2>9, <2>13, <2>14
<1>2. at[s][1] # at[t][1] /\ at[s][1] \in Nat /\ at[t][1] \in Nat
  <2>1. Line(p, n, s, q[s], at[s]) /\ Line(p, n, t, q[t], at[t])
    BY DEF Ordered
  <2>2. Len(q[s]) \in Nat \ {0} /\ Len(q[t]) \in Nat \ {0}
    BY <2>1, HeadAndTail DEF Line
  <2>3. 1 \in 1 .. Len(q[s]) /\ 1 \in 1 .. Len(q[t])
    BY <2>2
  <2>4. /\ at[s][1] \in 1 .. n /\ p[at[s][1]].on = s
        /\ at[t][1] \in 1 .. n /\ p[at[t][1]].on = t
    BY <2>1, <2>3 DEF Line, Queueable
  <2> QED
    BY <1>0, <2>4
<1>3. CASE at[s][1] < at[t][1]
  BY <1>1, <1>3
<1>4. CASE at[t][1] < at[s][1]
  <2>1. Touched(Head(q[t])) \cap Touched(Head(q[s])) = {}
    BY <1>1, <1>4
  <2> QED
    BY <2>1
<1> QED
  BY <1>2, <1>3, <1>4

\* At the end of a program that closes nothing is queued.
LEMMA ClosedIsIdle ==
  ASSUME NEW p, IsProgram(p), Closed(p), NEW q, NEW at, NEW rec, NEW dn,
         Ordered(p, Len(p), q, at, rec, dn), NEW s \in Streams
  PROVE  q[s] = <<>>
PROOF
<1>1. SUFFICES ASSUME q[s] # <<>> PROVE FALSE
  OBVIOUS
<1>2. Line(p, Len(p), s, q[s], at[s])
  BY DEF Ordered
<1>3. Len(q[s]) \in Nat \ {0} /\ Len(p) \in Nat
  BY <1>1, <1>2, HeadAndTail, ProgramLength DEF Line
<1>4. 1 \in 1 .. Len(q[s])
  BY <1>3
<1> DEFINE x == at[s][1]
<1>5. x \in 1 .. Len(p) /\ p[x].on = s /\ p[x].do # "sync"
  BY <1>2, <1>4 DEF Line, Queueable
<1>6. PICK y \in x + 1 .. Len(p) : IsSync(p[y], s)
  BY <1>5 DEF Closed
<1>7. y \in 1 .. Len(p) /\ p[y].on = s /\ p[y].do = "sync" /\ x < y
  BY <1>3, <1>5, <1>6 DEF IsSync
<1>8. (\E i \in 1 .. Len(q[s]) : at[s][i] = y) \/ (\A i \in 1 .. Len(q[s]) : y < at[s][i])
  BY <1>2, <1>7 DEF Line
<1>9. \A i \in 1 .. Len(q[s]) : at[s][i] # y
  BY <1>2, <1>7 DEF Line, Queueable
<1>10. y < x
  BY <1>4, <1>8, <1>9
<1> QED
  BY <1>3, <1>5, <1>7, <1>10

\* What is left of a program after its first n operations.
Rest(p, n) == [i \in 1 .. Len(p) - n |-> p[n + i]]

\* The rest is the program, then shorter by its head, and empty in the end.
LEMMA RestOf ==
  ASSUME NEW p, IsProgram(p), NEW n \in 0 .. Len(p)
  PROVE  /\ Rest(p, 0) = p
         /\ Rest(p, n) = <<>> <=> n = Len(p)
         /\ n < Len(p) => Head(Rest(p, n)) = p[n + 1] /\ Tail(Rest(p, n)) = Rest(p, n + 1)
PROOF
<1>1. PICK V : p \in Seq(V)
  BY DEF IsProgram
<1>2. Len(p) \in Nat /\ p \in [1 .. Len(p) -> V] /\ n \in Nat
  BY <1>1, LenProperties
<1>3. ASSUME NEW k \in 0 .. Len(p)
      PROVE Rest(p, k) \in Seq(V) /\ Len(Rest(p, k)) = Len(p) - k
  <2>1. Rest(p, k) \in [1 .. Len(p) - k -> V] /\ Len(p) - k \in Nat
    BY <1>2 DEF Rest
  <2> QED
    BY <2>1, LengthOf
<1>4. Rest(p, 0) = p
  BY <1>2 DEF Rest
<1>5. Rest(p, n) = <<>> <=> n = Len(p)
  <2> DEFINE r == Rest(p, n)
  <2>1. r \in Seq(V) /\ Len(r) = Len(p) - n
    BY <1>3
  <2> HIDE DEF r
  <2>2. r = <<>> <=> Len(r) = 0
    BY <2>1, EmptySeq
  <2>3. Len(r) = 0 <=> n = Len(p)
    BY <1>2, <2>1
  <2> QED
    BY <2>2, <2>3 DEF r
<1>6. ASSUME n < Len(p)
      PROVE Head(Rest(p, n)) = p[n + 1] /\ Tail(Rest(p, n)) = Rest(p, n + 1)
  <2> DEFINE r == Rest(p, n)
             d == Rest(p, n + 1)
             m == Len(p) - (n + 1)
  <2>1. /\ m \in Nat /\ r \in Seq(V) /\ Len(r) = m + 1 /\ d \in Seq(V) /\ Len(d) = m
        /\ r # <<>>
    <3>1. n + 1 \in 0 .. Len(p) /\ n # Len(p) /\ m \in Nat
          /\ m + 1 = Len(p) - n /\ m = Len(p) - (n + 1)
      <4> DEFINE k == Len(p)
      <4>1. k \in Nat /\ n \in Nat /\ n < k
        BY <1>2, <1>6
      <4> HIDE DEF k
      <4>2. n + 1 \in 0 .. k /\ n # k /\ k - (n + 1) \in Nat /\ (k - (n + 1)) + 1 = k - n
        BY <4>1
      <4> QED
        BY <4>2 DEF k
    <3>2. r \in Seq(V) /\ Len(r) = Len(p) - n /\ d \in Seq(V) /\ Len(d) = Len(p) - (n + 1)
      BY <1>3, <3>1
    <3>3. r # <<>>
      BY <1>5, <3>1
    <3> HIDE DEF r, d, m
    <3> QED
      BY <3>1, <3>2, <3>3
  <2>2. (\A i \in 1 .. m + 1 : r[i] = p[n + i]) /\ (\A i \in 1 .. m : d[i] = p[n + (i + 1)])
    BY <1>2, <1>6 DEF Rest
  <2> HIDE DEF r, d, m
  <2>3. /\ Head(r) = r[1] /\ Tail(r) \in Seq(V) /\ Len(Tail(r)) = m
        /\ \A i \in 1 .. m : Tail(r)[i] = r[i + 1]
    BY <2>1, HeadTailProperties
  <2>4. Head(r) = p[n + 1]
    BY <2>1, <2>2, <2>3
  <2>5. Tail(r) = d
    <3>1. \A i \in 1 .. m : Tail(r)[i] = d[i]
      <4>1. SUFFICES ASSUME NEW i \in 1 .. m PROVE Tail(r)[i] = d[i]
        OBVIOUS
      <4>2. i + 1 \in 1 .. m + 1
        BY <2>1
      <4>3. r[i + 1] = p[n + (i + 1)]
        BY <2>2, <4>2
      <4> QED
        BY <2>2, <2>3, <4>3
    <3>2. Len(Tail(r)) = Len(d) /\ \A i \in 1 .. Len(Tail(r)) : Tail(r)[i] = d[i]
      BY <2>1, <2>3, <3>1
    <3> QED
      BY <2>1, <2>3, <3>2, SeqEqual
  <2> QED
    BY <2>4, <2>5 DEF r, d
<1> QED
  BY <1>4, <1>5, <1>6

(***************************************************************************)
(* The streams.                                                            *)
(***************************************************************************)

\* The host is at place n of the program p, whose queued operations are at places at.
UnderWay(p, shared, most, n, at) ==
  /\ Guarded(p, shared, most) /\ Closed(p) /\ Ensured(p, most)
  /\ n \in 0 .. Len(p) /\ todo = Rest(p, n)
  /\ n >= 1 => most <= capacity
  /\ Ordered(p, n, queue, at, recorded, done)

ProgramUnderWay == \E p, shared, most, n, at : UnderWay(p, shared, most, n, at)

\* The context is one that gpu_vstream_init makes.
ContextMade ==
  ctx # None =>
    /\ \E x \in Contexts : ctx.NS = x.NS
    /\ ctx.vecRows \in Nat \ {0} /\ ctx.NS \in Nat \ {0} /\ ctx.nb \in 1 .. ctx.NS
    /\ ctx.chunkRows \in Nat \ {0} /\ ctx.chunkRows % GramTile = 0

\* Queues are sequences, and what runs is at the head of one.
Queues ==
  /\ queue = [s \in Streams |-> queue[s]] /\ running \in [Streams -> BOOLEAN]
  /\ \A s \in Streams : IsProgram(queue[s])
  /\ \A s \in Streams : running[s] => queue[s] # <<>> /\ Head(queue[s]).do \notin {"wait", "record"}

Records == Consistent(recorded, done)

Counters ==
  /\ calls \in 0 .. MaxCalls /\ capacity \in Nat /\ drained \in Nat
  /\ passes \in [col : Nat, row : Nat]

\* Between two entries nothing is left, and in an entry its program is under way.
StreamInv ==
  /\ Counters /\ Records /\ Queues /\ ContextMade
  /\ call = None => todo = <<>> /\ Idle
  /\ call # None => ctx # None /\ ProgramUnderWay

\* Nothing runs without a call.
LEMMA QueuedInACall ==
  ASSUME StreamInv, NEW s \in Streams, queue[s] # <<>>
  PROVE  call # None /\ ctx # None
PROOF
BY DEF StreamInv, Idle

\* At a call that is not the one that makes the partial buffer large enough, it is, or
\* the program stores no partial sums.
LEMMA StillFits ==
  ASSUME NEW p, NEW shared, NEW most, NEW n, NEW at, UnderWay(p, shared, most, n, at),
         capacity \in Nat, n < Len(p), p[n + 1].do # "ensure"
  PROVE  most <= capacity
PROOF
<1>1. n \in Nat /\ (n >= 1 => most <= capacity) /\ Ensured(p, most)
  BY ProgramLength DEF UnderWay, Guarded
<1>2. CASE n >= 1
  BY <1>1, <1>2
<1>3. CASE n = 0
  BY <1>1, <1>3 DEF Ensured
<1> QED
  BY <1>1, <1>2, <1>3

\* The first operation of what the host has still to do.
LEMMA HostAt ==
  ASSUME NEW p, NEW shared, NEW most, NEW n, NEW at, UnderWay(p, shared, most, n, at), todo # <<>>
  PROVE  /\ n \in Nat /\ n < Len(p) /\ n + 1 \in 0 .. Len(p)
         /\ Head(todo) = p[n + 1] /\ Tail(todo) = Rest(p, n + 1)
         /\ GuardedAt(p, n + 1, shared, most) /\ WellMade(p[n + 1])
PROOF
<1>1. /\ IsProgram(p) /\ n \in 0 .. Len(p) /\ todo = Rest(p, n) /\ Len(p) \in Nat
      /\ \A x \in 1 .. Len(p) : GuardedAt(p, x, shared, most)
  BY ProgramLength DEF UnderWay, Guarded
<1>2. n \in Nat /\ n < Len(p)
  BY <1>1, RestOf
<1>3. Head(todo) = p[n + 1] /\ Tail(todo) = Rest(p, n + 1)
  BY <1>1, <1>2, RestOf
<1>4. GuardedAt(p, n + 1, shared, most)
  BY <1>1, <1>2
<1>5. WellMade(p[n + 1])
  BY <1>4 DEF GuardedAt
<1> QED
  BY <1>1, <1>2, <1>3, <1>4, <1>5

\* At first nothing is queued.
LEMMA InitStreams == Init => StreamInv
PROOF
<1> SUFFICES ASSUME Init PROVE StreamInv
  OBVIOUS
<1>1. calls = 0 /\ capacity = 0 /\ drained = 0 /\ passes = [col |-> 0, row |-> 0] /\ MaxCalls \in Nat
  BY CallsAssumption DEF Init
<1>2. Counters
  BY <1>1 DEF Counters
<1>3. Records
  BY DEF Init, Records, Consistent
<1>4. Queues
  BY NoStep DEF Init, Queues
<1> QED
  BY <1>2, <1>3, <1>4 DEF Init, StreamInv, ContextMade, Idle

\* gpu_vstream_init.
LEMMA VStreamInitKeeps == StreamInv /\ VStreamInit => StreamInv'
PROOF
<1> SUFFICES ASSUME StreamInv, VStreamInit PROVE StreamInv'
  OBVIOUS
<1>1. PICK c \in Contexts :
        LET nb == IF c.nb <= 0 \/ c.nb > c.NS THEN c.NS ELSE c.nb
            rows == ChunkRows(c.vecRows, c.NS, c.chunk)
        IN /\ ctx' = [vecRows |-> c.vecRows, NS |-> c.NS, nb |-> nb, chunkRows |-> rows]
           /\ capacity' = GramSubs(c.NS) * c.NS * c.NS
  BY Zenon DEF VStreamInit
<1> DEFINE nb == IF c.nb <= 0 \/ c.nb > c.NS THEN c.NS ELSE c.nb
           rows == ChunkRows(c.vecRows, c.NS, c.chunk)
<1>2. c.vecRows \in Nat \ {0} /\ c.NS \in Nat \ {0} /\ c.nb \in Int /\ c.chunk \in Nat
  BY ContextsAssumption
<1>3. nb \in 1 .. c.NS
  BY <1>2
<1>4. rows \in Nat \ {0} /\ rows % GramTile = 0
  <2> DEFINE a == (c.chunk \div c.NS) \div GramTile
             b == Ceil(c.vecRows, GramTile)
  <2>1. GramTile \in Nat \ {0}
    BY TilingAssumption
  <2>2. c.chunk \div c.NS \in Nat
    BY <1>2, Division
  <2>3. a \in Nat
    BY <2>1, <2>2, Division
  <2>4. b \in Nat
    BY <1>2, <2>1, CeilBound
  <2>5. rows = LET m == Largest(a * GramTile, GramTile)
               IN IF m > c.vecRows THEN b * GramTile ELSE m
    BY DEF ChunkRows
  <2>6. b # 0
    <3>1. c.vecRows + GramTile - 1 \in Nat /\ c.vecRows + GramTile - 1 >= GramTile
      BY <1>2, <2>1
    <3> DEFINE z == c.vecRows + GramTile - 1
    <3>2. z \div GramTile \in Nat /\ z % GramTile \in 0 .. GramTile - 1
          /\ z = GramTile * (z \div GramTile) + (z % GramTile)
      <4> HIDE DEF z
      <4> QED
        BY <2>1, <3>1, Division DEF z
    <3>3. b = z \div GramTile
      BY DEF Ceil
    <3> HIDE DEF z, b
    <3>4. SUFFICES ASSUME b = 0 PROVE FALSE
      OBVIOUS
    <3>5. z = GramTile * 0 + (z % GramTile)
      BY <3>2, <3>3, <3>4
    <3> QED
      BY <2>1, <3>1, <3>2, <3>5 DEF z
  <2>7. (a * GramTile) % GramTile = 0 /\ (b * GramTile) % GramTile = 0 /\ (1 * GramTile) % GramTile = 0
    BY <2>1, <2>3, <2>4, NoRemainder
  <2>8. a * GramTile \in Nat /\ b * GramTile \in Nat \ {0} /\ 1 * GramTile = GramTile
    BY <2>1, <2>3, <2>4, <2>6
  <2> HIDE DEF a, b, rows
  <2> QED
    BY <2>1, <2>5, <2>7, <2>8 DEF Largest
<1>5. ctx' = [vecRows |-> c.vecRows, NS |-> c.NS, nb |-> nb, chunkRows |-> rows]
  BY <1>1, Zenon
<1>6. capacity' \in Nat
  <2>1. GramSubs(c.NS) \in Nat
    BY <1>2, GramSubsOK
  <2>2. capacity' = GramSubs(c.NS) * c.NS * c.NS
    BY <1>1, Zenon
  <2> QED
    BY <1>2, <2>1, <2>2
<1> HIDE DEF nb, rows
<1>7. ContextMade'
  <2>1. /\ ctx'.NS = c.NS /\ ctx'.vecRows = c.vecRows
        /\ ctx'.nb = nb /\ ctx'.chunkRows = rows
    BY <1>5
  <2> QED
    BY <1>2, <1>3, <1>4, <2>1 DEF ContextMade
<1>8. call = None
  BY DEF StreamInv, VStreamInit
<1>9. /\ call' = call /\ calls' = calls /\ todo' = todo /\ queue' = queue /\ running' = running
      /\ recorded' = recorded /\ done' = done /\ drained' = drained /\ passes' = passes
  BY DEF VStreamInit
<1>10. Counters' /\ Records' /\ Queues'
  BY <1>6, <1>9 DEF StreamInv, Counters, Records, Queues
<1> QED
  BY <1>7, <1>8, <1>9, <1>10 DEF StreamInv, Idle

\* gpu_vstream_free.
LEMMA VStreamFreeKeeps == StreamInv /\ VStreamFree => StreamInv'
PROOF
<1> SUFFICES ASSUME StreamInv, VStreamFree PROVE StreamInv'
  OBVIOUS
<1>1. /\ call' = call /\ calls' = calls /\ todo' = todo /\ queue' = queue /\ running' = running
      /\ recorded' = recorded /\ done' = done /\ drained' = drained /\ passes' = passes
      /\ ctx' = None /\ capacity' = 0 /\ call = None
  BY DEF VStreamFree
<1>2. Counters' /\ Records' /\ Queues'
  BY <1>1 DEF StreamInv, Counters, Records, Queues
<1> QED
  BY <1>1, <1>2 DEF StreamInv, Idle, ContextMade

\* The start of an entry.
LEMMA EnterKeeps == StreamInv /\ Enter => StreamInv'
PROOF
<1> SUFFICES ASSUME StreamInv, Enter PROVE StreamInv'
  OBVIOUS
<1>1. PICK c \in Calls(ctx.NS) :
        /\ call' = [op |-> c.op, m |-> c.m, out |-> c.out, np |-> c.np, useB |-> c.useB,
                    id |-> calls + 1]
        /\ calls' = calls + 1
  BY Zenon DEF Enter
<1>2. ctx # None /\ call = None /\ calls < MaxCalls /\ ctx' = ctx /\ queue' = queue
      /\ running' = running /\ recorded' = recorded /\ done' = done /\ capacity' = capacity
      /\ drained' = drained /\ passes' = passes /\ todo' = Program(call')
  BY Zenon DEF Enter
<1>3. c \in [op : Passes, m : 1 .. ctx.NS, out : Nat, np : 2 .. Degree, useB : BOOLEAN]
  <2>1. PICK x \in Contexts : ctx.NS = x.NS
    BY <1>2 DEF StreamInv, ContextMade
  <2> QED
    BY <2>1, CallsAssumption
<1>4. calls \in Nat /\ MaxCalls \in Nat /\ ctx.NS \in Nat
  BY <1>2, CallsAssumption DEF StreamInv, Counters, ContextMade
<1>5. /\ c.op \in Passes /\ c.m \in Nat \ {0} /\ c.out \in Nat /\ c.np \in Nat \ {0, 1}
      /\ c.useB \in BOOLEAN
  BY <1>3, <1>4, CoefficientsAssumption
<1>6. call' # None
  <2>1. call' \in [op : Passes, m : Nat, out : Nat, np : Nat, useB : BOOLEAN, id : Nat]
    BY <1>1, <1>4, <1>5
  <2> QED
    BY <2>1, CallsAssumption
<1>7. CallOK(call')
  BY <1>1, <1>5 DEF CallOK, Passes
<1>8. ContextOK
  BY <1>2 DEF StreamInv, ContextMade, ContextOK
<1>9. SoundProgram(Program(call'))
  BY <1>7, <1>8, EveryProgramIsSound
<1>10. PICK p : p = Program(call')
  BY Zenon
<1>11. PICK shared, most : Guarded(p, shared, most) /\ Closed(p) /\ Ensured(p, most)
  BY <1>9, <1>10, Zenon DEF SoundProgram
<1> DEFINE at == [s \in Streams |-> <<>>]
<1>12. \A s \in Streams : queue[s] = <<>> /\ at[s] = <<>>
  BY <1>2 DEF StreamInv, Idle
<1> HIDE DEF at
<1>13. Ordered(p, 0, queue, at, recorded, done)
  <2>1. \A s \in Streams : Line(p, 0, s, queue[s], at[s])
    BY <1>12, EmptyLine
  <2>2. \A s \in Streams : Counted(queue[s], recorded, done)
    BY <1>12, NoStep DEF Counted
  <2>3. \A s, t \in Streams : Held(p, 0, queue[s], queue[t], t, at[s], at[t])
    BY <1>12, NoStep DEF Held
  <2> QED
    BY <2>1, <2>2, <2>3 DEF Ordered
<1>14. todo' = Rest(p, 0) /\ 0 \in 0 .. Len(p)
  <2>1. IsProgram(p)
    BY <1>11 DEF Guarded
  <2>2. Len(p) \in Nat
    BY <2>1, ProgramLength
  <2>3. 0 \in 0 .. Len(p)
    BY <2>2
  <2> QED
    BY <1>2, <1>10, <2>1, <2>3, RestOf
<1>15. UnderWay(p, shared, most, 0, at)'
  BY <1>2, <1>11, <1>13, <1>14 DEF UnderWay
<1>16. ProgramUnderWay'
  BY <1>15, Zenon DEF ProgramUnderWay
<1>17. Counters' /\ Records' /\ Queues' /\ ContextMade'
  <2>1. calls' \in 0 .. MaxCalls
    BY <1>1, <1>2, <1>4
  <2> QED
    BY <1>2, <2>1 DEF StreamInv, Counters, Records, Queues, ContextMade
<1> QED
  BY <1>2, <1>6, <1>16, <1>17 DEF StreamInv

\* The host queues an operation: it gets the marks of this moment.
LEMMA HostIssues ==
  ASSUME StreamInv, HostQueues, NEW p, NEW n \in Nat, Head(todo) = p[n + 1], WellMade(p[n + 1])
  PROVE  Issued(p[n + 1], queue, recorded, queue', recorded')
PROOF
<1> DEFINE op == Head(todo)
<1>1. /\ todo # <<>> /\ op.on \in Streams /\ op.do # "sync"
      /\ queue' = [queue EXCEPT ![op.on] = Append(@, Queued(op))]
      /\ recorded' = IF op.do = "record" THEN [recorded EXCEPT ![op.event] = @ + 1] ELSE recorded
  BY DEF HostQueues
<1>4. op = p[n + 1]
  OBVIOUS
<1>5. WellMade(op)
  BY <1>4
<1> DEFINE item == Queued(op)
<1> HIDE DEF op
<1>6. /\ recorded \in [Events -> Nat] /\ done \in [Events -> Nat]
      /\ \A e \in Events : done[e] <= recorded[e]
  BY DEF StreamInv, Records, Consistent
<1>7. op.do \in {"wait", "record"} => op.event \in Events
  BY <1>5 DEF WellMade
<1>8. /\ recorded' \in [Events -> Nat]
      /\ \A e \in Events : recorded[e] <= recorded'[e] /\ recorded[e] \in Nat /\ recorded'[e] \in Nat
      /\ op.do = "record" => recorded'[op.event] = recorded[op.event] + 1
  <2>1. CASE op.do = "record"
    <3> DEFINE e == op.event
    <3>1. e \in Events /\ recorded' = [recorded EXCEPT ![e] = recorded[e] + 1]
      BY <1>1, <1>7, <2>1
    <3>2. recorded[e] + 1 \in Nat /\ \A f \in Events : recorded[f] \in Nat
      BY <1>6, <3>1
    <3> HIDE DEF e
    <3> DEFINE k == recorded[e] + 1
    <3>3. k \in Nat /\ k = recorded[e] + 1 /\ recorded[e] <= k
      BY <1>6, <3>1, <3>2
    <3> HIDE DEF k
    <3>4. recorded' = [recorded EXCEPT ![e] = k]
      BY <3>1 DEF k
    <3>5. \A f \in Events : recorded'[f] = IF f = e THEN k ELSE recorded[f]
      BY <1>6, <3>4
    <3>6. recorded' \in [Events -> Nat]
      BY <1>6, <3>3, <3>4
    <3>7. \A f \in Events : recorded[f] <= recorded'[f] /\ recorded'[f] \in Nat
      BY <3>2, <3>3, <3>5
    <3>8. recorded'[e] = k
      BY <3>1, <3>5
    <3> QED
      BY <3>2, <3>3, <3>6, <3>7, <3>8 DEF e
  <2>2. CASE op.do # "record"
    BY <1>1, <1>6, <2>2
  <2> QED
    BY <2>1, <2>2
<1>9. /\ Stands(item, op)
      /\ item.do = "wait" => item.count = recorded[item.event]
      /\ item.do = "record" => item.count = recorded[item.event] + 1
  <2>1. CASE op.do = "wait"
    <3>1. item = [do |-> op.do, on |-> op.on, event |-> op.event, count |-> recorded[op.event] + 0]
      BY <2>1 DEF Queued
    <3>2. recorded[op.event] \in Nat
      BY <1>6, <1>7, <2>1
    <3> HIDE DEF item
    <3>3. /\ item.do = op.do /\ item.on = op.on /\ item.event = op.event
          /\ item.count = recorded[op.event] + 0
      BY <3>1
    <3> QED
      BY <2>1, <3>2, <3>3 DEF Stands
  <2>2. CASE op.do = "record"
    <3>1. item = [do |-> op.do, on |-> op.on, event |-> op.event, count |-> recorded[op.event] + 1]
      BY <2>2 DEF Queued
    <3>2. recorded[op.event] \in Nat
      BY <1>6, <1>7, <2>2
    <3> HIDE DEF item
    <3>3. /\ item.do = op.do /\ item.on = op.on /\ item.event = op.event
          /\ item.count = recorded[op.event] + 1
      BY <3>1
    <3> QED
      BY <2>2, <3>2, <3>3 DEF Stands
  <2>3. CASE op.do \notin {"wait", "record"}
    <3>1. item = op
      BY <2>3 DEF Queued
    <3> HIDE DEF item
    <3> QED
      BY <2>3, <3>1 DEF Stands
  <2> QED
    BY <2>1, <2>2, <2>3
<1> HIDE DEF item
<1>10. /\ queue' = [s \in Streams |-> queue'[s]]
       /\ \A s \in Streams : queue'[s] = IF s = op.on THEN Append(queue[s], item) ELSE queue[s]
  <2>1. queue = [s \in Streams |-> queue[s]]
    BY DEF StreamInv, Queues
  <2>2. queue' = [queue EXCEPT ![op.on] = Append(queue[op.on], item)]
    BY <1>1 DEF item
  <2> QED
    BY <1>1, <2>1, <2>2
<1>11. /\ op.on = p[n + 1].on /\ p[n + 1].on \in Streams /\ Stands(item, p[n + 1])
       /\ Queueable(p[n + 1], p[n + 1].on)
  BY <1>1, <1>4, <1>5, <1>9 DEF Queueable
<1>12. item.do = "record" => recorded'[item.event] = item.count
  BY <1>8, <1>9 DEF Stands
<1>13. \A s \in Streams : queue'[s] = IF s = p[n + 1].on THEN Append(queue[s], item) ELSE queue[s]
  BY <1>10, <1>11
<1> QED
  BY <1>8, <1>9, <1>11, <1>12, <1>13 DEF Issued

\* The host queues an operation.
LEMMA HostQueuesKeeps == StreamInv /\ HostQueues => StreamInv'
PROOF
<1> SUFFICES ASSUME StreamInv, HostQueues PROVE StreamInv'
  OBVIOUS
<1> DEFINE op == Head(todo)
<1>1. /\ todo # <<>> /\ op.on \in Streams /\ op.do # "sync"
      /\ todo' = Tail(todo)
      /\ queue' = [queue EXCEPT ![op.on] = Append(@, Queued(op))]
      /\ recorded' = IF op.do = "record" THEN [recorded EXCEPT ![op.event] = @ + 1] ELSE recorded
      /\ ctx' = ctx /\ call' = call /\ calls' = calls /\ running' = running /\ done' = done
      /\ capacity' = capacity /\ drained' = drained /\ passes' = passes
  BY DEF HostQueues
<1>2. call # None /\ ctx # None
  BY <1>1 DEF StreamInv
<1>3. PICK p, shared, most, n, at : UnderWay(p, shared, most, n, at)
  BY <1>2, Zenon DEF StreamInv, ProgramUnderWay
<1>4. /\ n \in Nat /\ n < Len(p) /\ n + 1 \in 0 .. Len(p)
      /\ op = p[n + 1] /\ Tail(todo) = Rest(p, n + 1)
      /\ GuardedAt(p, n + 1, shared, most) /\ WellMade(p[n + 1])
  BY <1>1, <1>3, HostAt
<1>5. WellMade(op) /\ GuardedAt(p, n + 1, shared, most)
  BY <1>4
<1>6. Consistent(recorded, done)
  BY DEF StreamInv, Records
<1>7. Issued(p[n + 1], queue, recorded, queue', recorded')
  BY <1>4, HostIssues
<1>8. /\ op.on = p[n + 1].on /\ recorded' \in [Events -> Nat]
      /\ \A e \in Events : recorded[e] <= recorded'[e]
  BY <1>4, <1>7 DEF Issued
<1>9. PICK item : \A s \in Streams : queue'[s] = IF s = op.on THEN Append(queue[s], item) ELSE queue[s]
  BY <1>7, <1>8, Zenon DEF Issued
<1>10. queue' = [s \in Streams |-> queue'[s]]
  <2>1. queue = [s \in Streams |-> queue[s]]
    BY DEF StreamInv, Queues
  <2> QED
    BY <1>1, <2>1
<1>11. Ordered(p, n, queue, at, recorded, done)
  BY <1>3 DEF UnderWay
<1>12. PICK a2 : Ordered(p, n + 1, queue', a2, recorded', done)
  <2>1. Ordered(p, n + 1, queue', Placed(at, p[n + 1].on, n + 1), recorded', done)
    BY <1>4, <1>6, <1>7, <1>11, OrderedAppended
  <2> QED
    BY <2>1, Zenon
<1>13. most <= capacity
  <2>1. p[n + 1].do = "ensure" => p[n + 1].on = "legacy"
    BY <1>5 DEF GuardedAt
  <2>2. p[n + 1].do # "ensure"
    BY <1>1, <1>4, <2>1 DEF Streams
  <2>3. capacity \in Nat
    BY DEF StreamInv, Counters
  <2> QED
    BY <1>3, <1>4, <2>2, <2>3, StillFits
<1>14. UnderWay(p, shared, most, n + 1, a2)'
  <2>1. Guarded(p, shared, most) /\ Closed(p) /\ Ensured(p, most)
    BY <1>3 DEF UnderWay
  <2> QED
    BY <1>1, <1>4, <1>12, <1>13, <2>1 DEF UnderWay
<1>15. ProgramUnderWay'
  BY <1>14, Zenon DEF ProgramUnderWay
<1>16. Records'
  <2>1. \A e \in Events : done[e] <= recorded'[e]
    BY <1>6, <1>8 DEF Consistent
  <2> QED
    BY <1>1, <1>6, <1>8, <2>1 DEF Records, Consistent
<1>17. Queues'
  <2>1. \A s \in Streams : IsProgram(queue[s]) /\ (running[s] =>
          queue[s] # <<>> /\ Head(queue[s]).do \notin {"wait", "record"})
    BY DEF StreamInv, Queues
  <2>2. ASSUME NEW s \in Streams
        PROVE  /\ IsProgram(queue'[s])
               /\ running[s] => queue'[s] # <<>> /\ Head(queue'[s]).do \notin {"wait", "record"}
    <3>1. CASE s # op.on
      BY <1>9, <2>1, <3>1
    <3>2. CASE s = op.on
      <4> DEFINE old == queue[s]
                 new == queue'[s]
      <4>1. new = Append(old, item) /\ IsProgram(old)
        BY <1>9, <2>1, <3>2
      <4>2. running[s] => old # <<>> /\ Head(old).do \notin {"wait", "record"}
        BY <2>1
      <4> HIDE DEF old, new
      <4>3. /\ IsProgram(new) /\ Len(old) \in Nat /\ Len(new) = Len(old) + 1
            /\ \A i \in 1 .. Len(old) : new[i] = old[i]
        BY <4>1, Appended
      <4>4. new # <<>>
        BY <4>3
      <4>5. Head(new) = new[1]
        BY <4>3, <4>4, HeadAndTail
      <4>6. old # <<>> => Head(old) = old[1] /\ 1 \in 1 .. Len(old)
        BY <4>1, HeadAndTail
      <4> QED
        BY <4>2, <4>3, <4>4, <4>5, <4>6 DEF old, new
    <3> QED
      BY <3>1, <3>2
  <2>3. running \in [Streams -> BOOLEAN]
    BY DEF StreamInv, Queues
  <2> QED
    BY <1>1, <1>10, <2>2, <2>3 DEF Queues
<1>18. Counters' /\ ContextMade'
  BY <1>1 DEF StreamInv, Counters, ContextMade
<1> QED
  BY <1>1, <1>2, <1>15, <1>16, <1>17, <1>18 DEF StreamInv

\* The host has waited for a stream, or worked itself.
LEMMA HostMovesOn ==
  ASSUME StreamInv, todo # <<>>, todo' = Tail(todo),
         ctx' = ctx, call' = call, calls' = calls, queue' = queue, running' = running,
         recorded' = recorded, done' = done, drained' = drained,
         passes' \in [col : Nat, row : Nat],
         capacity' = IF Head(todo).do = "ensure" THEN Largest(capacity, Head(todo).elems) ELSE capacity,
         Head(todo).do # "wait",
         \A s \in Streams : Head(todo).on = s => queue[s] = <<>>
  PROVE  StreamInv'
PROOF
<1>1. call # None /\ ctx # None /\ capacity \in Nat
  BY DEF StreamInv, Counters
<1>2. PICK p, shared, most, n, at : UnderWay(p, shared, most, n, at)
  BY <1>1, Zenon DEF StreamInv, ProgramUnderWay
<1> DEFINE op == Head(todo)
<1>3. /\ n \in Nat /\ n < Len(p) /\ n + 1 \in 0 .. Len(p)
      /\ op = p[n + 1] /\ Tail(todo) = Rest(p, n + 1)
      /\ GuardedAt(p, n + 1, shared, most) /\ WellMade(p[n + 1])
  BY <1>2, HostAt
<1>4. /\ op.do # "wait" /\ \A s \in Streams : op.on = s => queue[s] = <<>>
      /\ capacity' = IF op.do = "ensure" THEN Largest(capacity, op.elems) ELSE capacity
  OBVIOUS
<1> HIDE DEF op
<1>5. op.do = "ensure" => op.elems \in Nat
  BY <1>3 DEF GuardedAt
<1>6. capacity' \in Nat /\ capacity <= capacity' /\ (op.do = "ensure" => op.elems <= capacity')
  BY <1>1, <1>4, <1>5 DEF Largest
<1>7. Guarded(p, shared, most) /\ Closed(p) /\ Ensured(p, most) /\ (n >= 1 => most <= capacity)
  BY <1>2 DEF UnderWay
<1>8. most <= capacity'
  <2>1. most \in Int
    BY <1>7 DEF Ensured
  <2>2. CASE op.do # "ensure"
    <3>1. most <= capacity
      BY <1>1, <1>2, <1>3, <2>2, StillFits
    <3> QED
      BY <1>1, <1>6, <2>1, <3>1
  <2>3. CASE op.do = "ensure" /\ n = 0
    BY <1>3, <1>5, <1>6, <1>7, <2>1, <2>3 DEF Ensured
  <2>4. CASE n >= 1
    BY <1>1, <1>6, <1>7, <2>1, <2>4
  <2> QED
    BY <1>3, <2>2, <2>3, <2>4
<1>9. Ordered(p, n + 1, queue, at, recorded, done)
  <2>1. Ordered(p, n, queue, at, recorded, done)
    BY <1>2 DEF UnderWay
  <2>2. p[n + 1].do # "wait" /\ \A s \in Streams : p[n + 1].on = s => queue[s] = <<>>
    BY <1>3, <1>4
  <2> QED
    BY <1>3, <2>1, <2>2, OrderedKept
<1>10. UnderWay(p, shared, most, n + 1, at)'
  BY <1>3, <1>7, <1>8, <1>9 DEF UnderWay
<1>11. ProgramUnderWay'
  BY <1>10, Zenon DEF ProgramUnderWay
<1>12. Counters' /\ Records' /\ Queues' /\ ContextMade'
  BY <1>6 DEF StreamInv, Counters, Records, Queues, ContextMade
<1> QED
  BY <1>1, <1>11, <1>12 DEF StreamInv

\* The host waits for a stream.
LEMMA HostSyncsKeeps == StreamInv /\ HostSyncs => StreamInv'
PROOF
<1> SUFFICES ASSUME StreamInv, HostSyncs PROVE StreamInv'
  OBVIOUS
<1>1. /\ todo # <<>> /\ Head(todo).do = "sync" /\ queue[Head(todo).on] = <<>>
      /\ todo' = Tail(todo)
      /\ ctx' = ctx /\ call' = call /\ calls' = calls /\ queue' = queue /\ running' = running
      /\ recorded' = recorded /\ done' = done /\ drained' = drained
      /\ capacity' = capacity /\ passes' = passes
  BY DEF HostSyncs
<1>2. passes' \in [col : Nat, row : Nat]
  BY <1>1 DEF StreamInv, Counters
<1>3. /\ Head(todo).do # "wait"
      /\ capacity' = IF Head(todo).do = "ensure" THEN Largest(capacity, Head(todo).elems) ELSE capacity
      /\ \A s \in Streams : Head(todo).on = s => queue[s] = <<>>
  BY <1>1
<1> QED
  BY <1>1, <1>2, <1>3, HostMovesOn

\* The host works itself.
LEMMA HostWorksKeeps == StreamInv /\ HostWorks => StreamInv'
PROOF
<1> SUFFICES ASSUME StreamInv, HostWorks PROVE StreamInv'
  OBVIOUS
<1>1. /\ todo # <<>> /\ Head(todo).on = "legacy" /\ todo' = Tail(todo)
      /\ capacity' = IF Head(todo).do = "ensure" THEN Largest(capacity, Head(todo).elems) ELSE capacity
      /\ passes' = [col |-> passes.col + (IF Head(todo).do = "colPass" THEN 1 ELSE 0),
                    row |-> passes.row + (IF Head(todo).do = "rowPass" THEN 1 ELSE 0)]
      /\ ctx' = ctx /\ call' = call /\ calls' = calls /\ queue' = queue /\ running' = running
      /\ recorded' = recorded /\ done' = done /\ drained' = drained
  BY Zenon DEF HostWorks
<1>2. passes' \in [col : Nat, row : Nat]
  <2> DEFINE a == passes.col + (IF Head(todo).do = "colPass" THEN 1 ELSE 0)
             b == passes.row + (IF Head(todo).do = "rowPass" THEN 1 ELSE 0)
  <2>1. a \in Nat /\ b \in Nat
    BY DEF StreamInv, Counters
  <2>2. passes' = [col |-> a, row |-> b]
    BY <1>1
  <2> HIDE DEF a, b
  <2> QED
    BY <2>1, <2>2
<1>3. Head(todo).do # "wait"
  <2>1. call # None
    BY <1>1 DEF StreamInv
  <2>2. PICK p, shared, most, n, at : UnderWay(p, shared, most, n, at)
    BY <2>1, Zenon DEF StreamInv, ProgramUnderWay
  <2>3. Head(todo) = p[n + 1] /\ WellMade(p[n + 1])
    BY <1>1, <2>2, HostAt
  <2> QED
    BY <1>1, <2>3 DEF WellMade, Streams
<1>4. \A s \in Streams : Head(todo).on = s => queue[s] = <<>>
  BY <1>1 DEF Streams
<1> QED
  BY <1>1, <1>2, <1>3, <1>4, HostMovesOn

\* An entry returns with empty queues.
LEMMA ReturnKeeps == StreamInv /\ Return => StreamInv'
PROOF
<1> SUFFICES ASSUME StreamInv, Return PROVE StreamInv'
  OBVIOUS
<1>1. /\ call # None /\ todo = <<>> /\ call' = None
      /\ recorded' = [e \in Events |-> 0] /\ done' = [e \in Events |-> 0] /\ drained' = 0
      /\ ctx' = ctx /\ calls' = calls /\ todo' = todo /\ queue' = queue /\ running' = running
      /\ capacity' = capacity /\ passes' = passes
  BY DEF Return
<1>2. PICK p, shared, most, n, at : UnderWay(p, shared, most, n, at)
  BY <1>1, Zenon DEF StreamInv, ProgramUnderWay
<1>3. /\ IsProgram(p) /\ Closed(p) /\ n \in 0 .. Len(p) /\ Rest(p, n) = <<>>
      /\ Ordered(p, n, queue, at, recorded, done)
  BY <1>1, <1>2 DEF UnderWay, Guarded
<1>4. n = Len(p)
  BY <1>3, RestOf
<1>5. Ordered(p, Len(p), queue, at, recorded, done)
  BY <1>3, <1>4
<1>6. \A s \in Streams : queue[s] = <<>>
  BY <1>3, <1>5, ClosedIsIdle
<1>7. Records'
  BY <1>1 DEF Records, Consistent
<1>8. Counters' /\ Queues' /\ ContextMade'
  BY <1>1 DEF StreamInv, Counters, Queues, ContextMade
<1> QED
  BY <1>1, <1>6, <1>7, <1>8 DEF StreamInv, Idle

\* The head of a stream is done: a mark, or work that has run.
LEMMA StreamMovesOn ==
  ASSUME StreamInv, NEW s \in Streams, queue[s] # <<>>,
         ctx' = ctx, call' = call, calls' = calls, todo' = todo, recorded' = recorded,
         capacity' = capacity, passes' = passes, drained' \in Nat,
         queue' = [t \in Streams |-> queue'[t]], Taken(s, queue, done, queue', done'),
         running' \in [Streams -> BOOLEAN],
         \A t \in Streams : running'[t] => running[t] /\ t # s
  PROVE  StreamInv'
PROOF
<1>1. call # None /\ ctx # None
  BY QueuedInACall
<1>2. PICK p, shared, most, n, at : UnderWay(p, shared, most, n, at)
  BY <1>1, Zenon DEF StreamInv, ProgramUnderWay
<1>3. n \in Nat /\ Ordered(p, n, queue, at, recorded, done)
  BY <1>2, ProgramLength DEF UnderWay, Guarded
<1>4. Consistent(recorded, done)
  BY DEF StreamInv, Records
<1>5. /\ queue = [t \in Streams |-> queue[t]]
      /\ \A t \in Streams : IsProgram(queue[t]) /\ (running[t] =>
           queue[t] # <<>> /\ Head(queue[t]).do \notin {"wait", "record"})
  BY DEF StreamInv, Queues
<1>6. \A t \in Streams : queue'[t] = IF t = s THEN Tail(queue[t]) ELSE queue[t]
  BY DEF Taken
<1>7. PICK a2 : Ordered(p, n, queue', a2, recorded, done')
  <2>1. done \in [Events -> Nat]
    BY <1>4 DEF Consistent
  <2>2. Ordered(p, n, queue', Left(at, s), recorded, done')
    BY <1>3, <2>1, OrderedTail
  <2> QED
    BY <2>2, Zenon
<1>8. UnderWay(p, shared, most, n, a2)'
  BY <1>2, <1>7 DEF UnderWay
<1>9. ProgramUnderWay'
  BY <1>8, Zenon DEF ProgramUnderWay
<1>10. Queues'
  <2>1. IsProgram(Tail(queue[s]))
    BY <1>5, HeadAndTail
  <2> QED
    BY <1>5, <1>6, <2>1 DEF Queues
<1>11. Records'
  <2>1. CASE Head(queue[s]).do # "record"
    BY <1>4, <2>1 DEF Records, Taken
  <2>2. CASE Head(queue[s]).do = "record"
    <3> DEFINE e == Head(queue[s]).event
               c == Head(queue[s]).count
    <3>1. Line(p, n, s, queue[s], at[s]) /\ Counted(queue[s], recorded, done)
      BY <1>3 DEF Ordered
    <3>2. Marked(queue[s])
      BY <1>3, <3>1, LineMarked
    <3>3. Len(queue[s]) \in Nat \ {0} /\ Head(queue[s]) = queue[s][1]
      BY <1>5, HeadAndTail
    <3>4. 1 \in 1 .. Len(queue[s]) /\ queue[s][1].do = "record"
      BY <2>2, <3>3
    <3>5. e \in Events /\ c \in Nat /\ c <= recorded[e]
      BY <3>1, <3>2, <3>3, <3>4 DEF Marked, Counted
    <3>6. done' = [done EXCEPT ![e] = c]
      BY <2>2 DEF Taken
    <3> HIDE DEF e, c
    <3>7. done' \in [Events -> Nat] /\ \A f \in Events : done'[f] = IF f = e THEN c ELSE done[f]
      BY <1>4, <3>5, <3>6 DEF Consistent
    <3> QED
      BY <1>4, <3>5, <3>7 DEF Records, Consistent
  <2> QED
    BY <2>1, <2>2
<1>12. Counters' /\ ContextMade'
  BY DEF StreamInv, Counters, ContextMade
<1> QED
  BY <1>1, <1>9, <1>10, <1>11, <1>12 DEF StreamInv

\* A wait or a record.
LEMMA MarksKeeps == \A s \in Streams : StreamInv /\ Marks(s) => StreamInv'
PROOF
<1> SUFFICES ASSUME NEW s \in Streams, StreamInv, Marks(s) PROVE StreamInv'
  OBVIOUS
<1> DEFINE op == Head(queue[s])
<1>1. /\ queue[s] # <<>> /\ op.do \in {"wait", "record"}
      /\ op.do = "wait" => done[op.event] >= op.count
      /\ queue' = [queue EXCEPT ![s] = Tail(@)]
      /\ done' = IF op.do = "record" THEN [done EXCEPT ![op.event] = op.count] ELSE done
      /\ ctx' = ctx /\ call' = call /\ calls' = calls /\ todo' = todo /\ running' = running
      /\ recorded' = recorded /\ capacity' = capacity /\ drained' = drained /\ passes' = passes
  BY DEF Marks
<1>2. drained' \in Nat /\ running' \in [Streams -> BOOLEAN]
  BY <1>1 DEF StreamInv, Counters, Queues
<1>3. \A t \in Streams : running'[t] => running[t] /\ t # s
  BY <1>1 DEF StreamInv, Queues
<1>4. Taken(s, queue, done, queue', done') /\ queue' = [t \in Streams |-> queue'[t]]
  <2>1. queue = [t \in Streams |-> queue[t]]
    BY DEF StreamInv, Queues
  <2>2. /\ queue' = [t \in Streams |-> queue'[t]]
        /\ \A t \in Streams : queue'[t] = IF t = s THEN Tail(queue[t]) ELSE queue[t]
    BY <1>1, <2>1
  <2> QED
    BY <1>1, <2>2 DEF Taken
<1> HIDE DEF op
<1> QED
  BY <1>1, <1>2, <1>3, <1>4, StreamMovesOn

\* A copy or a kernel begins.
LEMMA StartsKeeps == \A s \in Streams : StreamInv /\ Starts(s) => StreamInv'
PROOF
<1> SUFFICES ASSUME NEW s \in Streams, StreamInv, Starts(s) PROVE StreamInv'
  OBVIOUS
<1>1. /\ queue[s] # <<>> /\ Head(queue[s]).do \notin {"wait", "record"}
      /\ running' = [running EXCEPT ![s] = TRUE]
      /\ ctx' = ctx /\ call' = call /\ calls' = calls /\ todo' = todo /\ queue' = queue
      /\ recorded' = recorded /\ done' = done /\ capacity' = capacity /\ drained' = drained
      /\ passes' = passes
  BY DEF Starts
<1>2. Queues'
  BY <1>1 DEF StreamInv, Queues
<1>3. Counters' /\ Records' /\ ContextMade'
  BY <1>1 DEF StreamInv, Counters, Records, ContextMade
<1>4. call # None /\ ctx # None
  BY <1>1, QueuedInACall
<1>5. ProgramUnderWay'
  <2>1. PICK p, shared, most, n, at : UnderWay(p, shared, most, n, at)
    BY <1>4, Zenon DEF StreamInv, ProgramUnderWay
  <2>2. UnderWay(p, shared, most, n, at)'
    BY <1>1, <2>1 DEF UnderWay
  <2> QED
    BY <2>2, Zenon DEF ProgramUnderWay
<1> QED
  BY <1>1, <1>2, <1>3, <1>4, <1>5 DEF StreamInv

\* A copy or a kernel ends.
LEMMA EndsKeeps == \A s \in Streams : StreamInv /\ Ends(s) => StreamInv'
PROOF
<1> SUFFICES ASSUME NEW s \in Streams, StreamInv, Ends(s) PROVE StreamInv'
  OBVIOUS
<1>1. /\ running[s] /\ running' = [running EXCEPT ![s] = FALSE]
      /\ queue' = [queue EXCEPT ![s] = Tail(@)]
      /\ drained' = drained + (IF Head(queue[s]).writes \cap HostArrays # {} THEN 1 ELSE 0)
      /\ ctx' = ctx /\ call' = call /\ calls' = calls /\ todo' = todo
      /\ recorded' = recorded /\ done' = done /\ capacity' = capacity /\ passes' = passes
  BY Zenon DEF Ends
<1>2. queue[s] # <<>> /\ Head(queue[s]).do \notin {"wait", "record"}
  BY <1>1 DEF StreamInv, Queues
<1>3. drained' \in Nat
  BY <1>1 DEF StreamInv, Counters
<1>4. /\ running' \in [Streams -> BOOLEAN]
      /\ \A t \in Streams : running'[t] => running[t] /\ t # s
  BY <1>1 DEF StreamInv, Queues
<1>5. Taken(s, queue, done, queue', done') /\ queue' = [t \in Streams |-> queue'[t]]
  <2>1. queue = [t \in Streams |-> queue[t]]
    BY DEF StreamInv, Queues
  <2>2. /\ queue' = [t \in Streams |-> queue'[t]]
        /\ \A t \in Streams : queue'[t] = IF t = s THEN Tail(queue[t]) ELSE queue[t]
    BY <1>1, <2>1
  <2> QED
    BY <1>1, <1>2, <2>2 DEF Taken
<1> QED
  BY <1>1, <1>2, <1>3, <1>4, <1>5, StreamMovesOn

\* The streams keep the invariant.
THEOREM StreamInvariant == Spec => []StreamInv
PROOF
<1>1. Init => StreamInv
  BY InitStreams
<1>2. StreamInv /\ [Next]_vars => StreamInv'
  <2> SUFFICES ASSUME StreamInv, [Next]_vars PROVE StreamInv'
    OBVIOUS
  <2>1. CASE Host
    BY <2>1, VStreamInitKeeps, EnterKeeps, HostQueuesKeeps, HostSyncsKeeps, HostWorksKeeps,
       ReturnKeeps, VStreamFreeKeeps DEF Host
  <2>2. CASE \E s \in Streams : Stream(s)
    BY <2>2, MarksKeeps, StartsKeeps, EndsKeeps DEF Stream
  <2>3. CASE UNCHANGED vars
    <3>1. /\ ctx' = ctx /\ call' = call /\ calls' = calls /\ todo' = todo /\ queue' = queue
          /\ running' = running /\ recorded' = recorded /\ done' = done /\ capacity' = capacity
          /\ drained' = drained /\ passes' = passes
      BY <2>3 DEF vars
    <3>2. Counters' /\ Records' /\ Queues' /\ ContextMade'
      BY <3>1 DEF StreamInv, Counters, Records, Queues, ContextMade
    <3>3. ASSUME call # None PROVE ProgramUnderWay'
      <4>1. PICK p, shared, most, n, at : UnderWay(p, shared, most, n, at)
        BY <3>3, Zenon DEF StreamInv, ProgramUnderWay
      <4>2. UnderWay(p, shared, most, n, at)'
        BY <3>1, <4>1 DEF UnderWay
      <4> QED
        BY <4>2, Zenon DEF ProgramUnderWay
    <3> QED
      BY <3>1, <3>2, <3>3 DEF StreamInv, Idle
  <2> QED
    BY <2>1, <2>2, <2>3 DEF Next, Finished
<1> QED
  BY <1>1, <1>2, PTL DEF Spec

\* The program that queued operations come from.
LEMMA QueuedFrom ==
  ASSUME StreamInv, NEW s \in Streams, queue[s] # <<>>
  PROVE  \E p, shared, most, n, at :
           /\ UnderWay(p, shared, most, n, at) /\ IsProgram(p) /\ n \in 0 .. Len(p) /\ Len(p) \in Nat
           /\ Line(p, n, s, queue[s], at[s])
PROOF
<1>1. PICK p, shared, most, n, at : UnderWay(p, shared, most, n, at)
  BY QueuedInACall, Zenon DEF StreamInv, ProgramUnderWay
<1>2. IsProgram(p) /\ n \in 0 .. Len(p) /\ Len(p) \in Nat
  BY <1>1, ProgramLength DEF UnderWay, Guarded
<1>3. Line(p, n, s, queue[s], at[s])
  BY <1>1 DEF UnderWay, Ordered
<1> QED
  BY <1>1, <1>2, <1>3, Zenon

\* The types of VectorStream: contexts of whole tiles and a block of 1 to NS columns, what
\* runs is at the head of its own stream, and no event completes more records than it has.
THEOREM StreamTypes == Spec => []TypeOK
PROOF
<1>1. StreamInv => TypeOK
  <2> SUFFICES ASSUME StreamInv PROVE TypeOK
    OBVIOUS
  <2>1. ctx # None => /\ ctx.nb \in 1 .. ctx.NS
                      /\ ctx.chunkRows > 0 /\ ctx.chunkRows % GramTile = 0
    BY DEF StreamInv, ContextMade
  <2>2. ASSUME NEW s \in Streams, running[s] PROVE queue[s] # <<>> /\ Head(queue[s]).on = s
    <3>1. queue[s] # <<>> /\ IsProgram(queue[s])
      BY <2>2 DEF StreamInv, Queues
    <3>2. PICK p, shared, most, n, at :
            n \in 0 .. Len(p) /\ Len(p) \in Nat /\ Line(p, n, s, queue[s], at[s])
      BY <3>1, QueuedFrom, Zenon
    <3>3. 1 \in 1 .. Len(queue[s]) /\ Head(queue[s]) = queue[s][1]
      BY <3>1, HeadAndTail
    <3> QED
      BY <3>1, <3>2, <3>3 DEF Line, Queueable, Stands
  <2>3. \A e \in Events : done[e] \in 0 .. recorded[e]
    BY DEF StreamInv, Records, Consistent
  <2> QED
    BY <2>1, <2>2, <2>3 DEF StreamInv, Counters, TypeOK
<1> QED
  BY <1>1, StreamInvariant, PTL

\* The copy and the kernel under way never touch the same buffer (colBlockPipeline,
\* rowChunkPipeline): no slot is refilled, and no result copied, under a running kernel,
\* for every block and chunk size and in every order the streams take.
THEOREM NoRaces == Spec => []NoRace
PROOF
<1>1. StreamInv => NoRace
  <2> SUFFICES ASSUME StreamInv, NEW s \in Streams, NEW t \in Streams, s # t, running[s], running[t]
               PROVE  Head(queue[s]).writes \cap (Head(queue[t]).reads \cup Head(queue[t]).writes) = {}
    BY DEF NoRace
  <2>1. /\ queue[s] # <<>> /\ Head(queue[s]).do \notin {"wait", "record"}
        /\ queue[t] # <<>> /\ Head(queue[t]).do \notin {"wait", "record"}
    BY DEF StreamInv, Queues
  <2>2. PICK p, shared, most, n, at : UnderWay(p, shared, most, n, at) /\ IsProgram(p)
    BY <2>1, QueuedFrom, Zenon
  <2>3. InOrder(p) /\ n \in 0 .. Len(p) /\ Ordered(p, n, queue, at, recorded, done)
    BY <2>2, GuardedIsOrdered DEF UnderWay
  <2>4. Touched(Head(queue[s])) \cap Touched(Head(queue[t])) = {}
    BY <2>1, <2>2, <2>3, HeadsApart
  <2> QED
    BY <2>4 DEF Touched
<1> QED
  BY <1>1, StreamInvariant, PTL

\* No kernel that is queued stores more partial sums than the partial buffer holds
\* (ensurePartial, launchGram, gpu_vstream_ritzResiduals).
THEOREM PartialsFit == Spec => []PartialFits
PROOF
<1>1. StreamInv => PartialFits
  <2> SUFFICES ASSUME StreamInv, NEW s \in Streams, NEW i \in 1 .. Len(queue[s]),
                      queue[s][i].do = "partial"
               PROVE  queue[s][i].args.elems <= capacity
    BY DEF PartialFits
  <2>1. queue[s] # <<>> /\ capacity \in Nat
    BY NoStep DEF StreamInv, Counters
  <2>2. PICK p, shared, most, n, at :
          /\ UnderWay(p, shared, most, n, at) /\ IsProgram(p) /\ n \in 0 .. Len(p) /\ Len(p) \in Nat
          /\ Line(p, n, s, queue[s], at[s])
    BY <2>1, QueuedFrom, Zenon
  <2> DEFINE x == at[s][i]
  <2>3. x \in 1 .. n /\ queue[s][i] = p[x] /\ p[x].do = "partial"
    BY <2>2 DEF Line, Stands
  <2> HIDE DEF x
  <2>4. GuardedAt(p, x, shared, most) /\ n >= 1
    BY <2>2, <2>3 DEF UnderWay, Guarded
  <2>5. p[x].args.elems \in Nat /\ p[x].args.elems <= most
    BY <2>3, <2>4 DEF GuardedAt
  <2>6. most <= capacity /\ most \in Int
    BY <2>2, <2>4 DEF UnderWay, Ensured
  <2> QED
    BY <2>1, <2>3, <2>5, <2>6
<1> QED
  BY <1>1, StreamInvariant, PTL

(***************************************************************************)
(* What a program counts.                                                  *)
(***************************************************************************)

\* The last operation of a load, and of the kernels of a block; and a drain.
IsLoad(op) == op.do = "record" /\ op.event[1] = "copyDone"
IsCompute(op) == op.do = "record" /\ op.event[1] = "computeDone"
IsDrain(op) == Data(op) /\ op.writes \cap HostArrays # {}

\* Of c blocks, those up to the last one in slot k; and how many of them are in slot k.
Owed(c, k) == IF c = 0 THEN 0 ELSE IF (c - 1) % NSLOT = k THEN c ELSE c - 1
Turns(c, k) == (c + 1 - k) \div NSLOT

One(b) == IF b THEN 1 ELSE 0

\* seen: computed blocks the copy stream has waited for; ready: loaded blocks the compute
\* stream has waited for.
Tally == [loads : Nat, comps : Nat, drains : Nat, seen : Nat, ready : Nat]
Count(l, c, d, s, r) == [loads |-> l, comps |-> c, drains |-> d, seen |-> s, ready |-> r]

After(s, op) ==
  Count(s.loads + One(IsLoad(op)), s.comps + One(IsCompute(op)), s.drains + One(IsDrain(op)),
        IF op.do = "wait" /\ op.on = "copy" THEN Owed(s.comps, op.event[2]) ELSE s.seen,
        IF op.do = "wait" /\ op.on = "compute" THEN Owed(s.loads, op.event[2]) ELSE s.ready)

\* What a pass of n blocks may queue next.
Allowed(s, op, n, wb) ==
  /\ op.do = "wait" => op.event[1] = (IF op.on = "copy" THEN "computeDone" ELSE "copyDone")
  /\ IsLoad(op) =>
       /\ op.on = "copy" /\ op.event = <<"copyDone", s.loads % NSLOT>>
       /\ s.loads < n /\ s.loads < s.seen + NSLOT
       /\ wb => s.loads < s.drains + NSLOT
  /\ IsCompute(op) =>
       op.on = "compute" /\ op.event = <<"computeDone", s.comps % NSLOT>> /\ s.comps < s.ready
  /\ IsDrain(op) => wb /\ op.on = "copy" /\ s.drains < s.seen

\* T counts along the program.
Trace(p, T, n, wb) ==
  /\ IsProgram(p) /\ T \in [0 .. Len(p) -> Tally]
  /\ \A x \in 1 .. Len(p) : Allowed(T[x - 1], p[x], n, wb) /\ T[x] = After(T[x - 1], p[x])

Runs(p, s, t, n, wb) == \E T : Trace(p, T, n, wb) /\ T[0] = s /\ T[Len(p)] = t

\* Counts stay counts.
LEMMA CountTyped ==
  ASSUME NEW l \in Nat, NEW c \in Nat, NEW d \in Nat, NEW s \in Nat, NEW r \in Nat
  PROVE  /\ Count(l, c, d, s, r) \in Tally
         /\ Count(l, c, d, s, r).loads = l /\ Count(l, c, d, s, r).comps = c
         /\ Count(l, c, d, s, r).drains = d
         /\ Count(l, c, d, s, r).seen = s /\ Count(l, c, d, s, r).ready = r
PROOF
BY DEF Count, Tally

\* The counts after an operation.
LEMMA AfterTyped ==
  ASSUME NEW s \in Tally, NEW op
  PROVE  /\ After(s, op) \in Tally
         /\ After(s, op).loads = s.loads + One(IsLoad(op))
         /\ After(s, op).comps = s.comps + One(IsCompute(op))
         /\ After(s, op).drains = s.drains + One(IsDrain(op))
         /\ After(s, op).seen = IF op.do = "wait" /\ op.on = "copy"
                                THEN Owed(s.comps, op.event[2]) ELSE s.seen
         /\ After(s, op).ready = IF op.do = "wait" /\ op.on = "compute"
                                 THEN Owed(s.loads, op.event[2]) ELSE s.ready
PROOF
<1> DEFINE l == s.loads + One(IsLoad(op))
           c == s.comps + One(IsCompute(op))
           d == s.drains + One(IsDrain(op))
           a == IF op.do = "wait" /\ op.on = "copy" THEN Owed(s.comps, op.event[2]) ELSE s.seen
           b == IF op.do = "wait" /\ op.on = "compute" THEN Owed(s.loads, op.event[2]) ELSE s.ready
<1>1. /\ s.loads \in Nat /\ s.comps \in Nat /\ s.drains \in Nat /\ s.seen \in Nat /\ s.ready \in Nat
  BY DEF Tally
<1>2. \A m \in Nat : \A k : Owed(m, k) \in Nat
  BY DEF Owed
<1>3. l \in Nat /\ c \in Nat /\ d \in Nat
  BY <1>1 DEF One
<1>4. a \in Nat /\ b \in Nat
  BY <1>1, <1>2
<1>5. After(s, op) = Count(l, c, d, a, b)
  BY DEF After
<1> HIDE DEF l, c, d, a, b
<1>6. /\ Count(l, c, d, a, b) \in Tally
      /\ Count(l, c, d, a, b).loads = l /\ Count(l, c, d, a, b).comps = c
      /\ Count(l, c, d, a, b).drains = d
      /\ Count(l, c, d, a, b).seen = a /\ Count(l, c, d, a, b).ready = b
  BY <1>3, <1>4, CountTyped
<1> QED
  BY <1>5, <1>6 DEF l, c, d, a, b

\* A run of a program, and behind it one of another.
LEMMA RunsOn ==
  ASSUME NEW a, NEW b, NEW s, NEW t, NEW u, NEW n, NEW wb, Runs(a, s, t, n, wb), Runs(b, t, u, n, wb)
  PROVE  Runs(a \o b, s, u, n, wb)
PROOF
<1>1. PICK F : Trace(a, F, n, wb) /\ F[0] = s /\ F[Len(a)] = t
  BY Zenon DEF Runs
<1>2. PICK H : Trace(b, H, n, wb) /\ H[0] = t /\ H[Len(b)] = u
  BY Zenon DEF Runs
<1>3. /\ IsProgram(a) /\ F \in [0 .. Len(a) -> Tally]
      /\ \A x \in 1 .. Len(a) : Allowed(F[x - 1], a[x], n, wb) /\ F[x] = After(F[x - 1], a[x])
  BY <1>1 DEF Trace
<1>4. /\ IsProgram(b) /\ H \in [0 .. Len(b) -> Tally]
      /\ \A x \in 1 .. Len(b) : Allowed(H[x - 1], b[x], n, wb) /\ H[x] = After(H[x - 1], b[x])
  BY <1>2 DEF Trace
<1> DEFINE p == a \o b
           k == Len(a)
           m == Len(b)
           T == [x \in 0 .. Len(p) |-> IF x <= k THEN F[x] ELSE H[x - k]]
<1>5. /\ IsProgram(p) /\ k \in Nat /\ m \in Nat /\ Len(p) = k + m
      /\ \A i \in 1 .. k : p[i] = a[i]
      /\ \A i \in 1 .. m : p[k + i] = b[i]
  <2>1. PICK S, V : a \in Seq(S) /\ b \in Seq(V)
    BY <1>3, <1>4, Zenon DEF IsProgram
  <2>2. /\ p \in Seq(S \cup V) /\ k \in Nat /\ m \in Nat /\ Len(p) = k + m
        /\ \A i \in 1 .. k : p[i] = a[i]
        /\ \A i \in 1 .. m : p[k + i] = b[i]
    BY <2>1, Joined
  <2> QED
    BY <2>2, Zenon DEF IsProgram
<1> HIDE DEF p
<1>6. \A x \in 0 .. k : T[x] = F[x]
  BY <1>5
<1>7. \A x \in 0 .. m : T[k + x] = H[x]
  <2>1. SUFFICES ASSUME NEW x \in 0 .. m PROVE T[k + x] = H[x]
    OBVIOUS
  <2>2. k + x \in 0 .. Len(p) /\ (k + x) - k = x
    BY <1>5
  <2>3. CASE x = 0
    BY <1>1, <1>2, <1>5, <1>6, <2>3
  <2>4. CASE x # 0
    BY <1>5, <2>2, <2>4
  <2> QED
    BY <2>3, <2>4
<1>8. T \in [0 .. Len(p) -> Tally]
  <2>1. SUFFICES ASSUME NEW x \in 0 .. Len(p) PROVE (IF x <= k THEN F[x] ELSE H[x - k]) \in Tally
    OBVIOUS
  <2>2. CASE x <= k
    BY <1>3, <1>5, <2>2
  <2>3. CASE ~(x <= k)
    <3>1. x - k \in 0 .. m
      BY <1>5, <2>3
    <3> QED
      BY <1>4, <2>3, <3>1
  <2> QED
    BY <2>2, <2>3
<1> HIDE DEF T
<1>9. ASSUME NEW x \in 1 .. Len(p)
      PROVE  Allowed(T[x - 1], p[x], n, wb) /\ T[x] = After(T[x - 1], p[x])
  <2>1. CASE x <= k
    <3>1. x \in 1 .. k /\ x \in 0 .. k /\ x - 1 \in 0 .. k
      BY <1>5, <2>1
    <3>2. p[x] = a[x] /\ T[x] = F[x] /\ T[x - 1] = F[x - 1]
      BY <1>5, <1>6, <3>1
    <3> QED
      BY <1>3, <3>1, <3>2
  <2>2. CASE ~(x <= k)
    <3> DEFINE i == x - k
    <3>1. i \in 1 .. m /\ i \in 0 .. m /\ i - 1 \in 0 .. m /\ k + i = x /\ k + (i - 1) = x - 1
      BY <1>5, <2>2
    <3> HIDE DEF i
    <3>2. p[x] = b[i] /\ T[x] = H[i] /\ T[x - 1] = H[i - 1]
      BY <1>5, <1>7, <3>1
    <3> QED
      BY <1>4, <3>1, <3>2
  <2> QED
    BY <2>1, <2>2
<1>10. Trace(p, T, n, wb)
  BY <1>5, <1>8, <1>9 DEF Trace
<1>11. T[0] = s /\ T[Len(p)] = u
  <2>1. 0 \in 0 .. k /\ m \in 0 .. m
    BY <1>5
  <2> QED
    BY <1>1, <1>2, <1>5, <1>6, <1>7, <2>1
<1> QED
  BY <1>10, <1>11, Zenon DEF Runs, p

\* F program that counts nothing.
Quiet(op) == op.do \notin {"wait", "record"} /\ ~IsDrain(op)

\* Where nothing is counted, the counts stay.
LEMMA QuietRuns ==
  ASSUME NEW p, IsProgram(p), \A i \in 1 .. Len(p) : Quiet(p[i]), NEW s \in Tally, NEW n, NEW wb
  PROVE  Runs(p, s, s, n, wb)
PROOF
<1> DEFINE T == [x \in 0 .. Len(p) |-> s]
<1>1. Len(p) \in Nat
  BY ProgramLength
<1>2. \A op : Quiet(op) => Allowed(s, op, n, wb) /\ s = After(s, op)
  <2>1. SUFFICES ASSUME NEW op, Quiet(op) PROVE Allowed(s, op, n, wb) /\ s = After(s, op)
    OBVIOUS
  <2>2. ~IsLoad(op) /\ ~IsCompute(op) /\ ~IsDrain(op) /\ op.do # "wait"
    BY <2>1 DEF Quiet, IsLoad, IsCompute
  <2>3. s = After(s, op)
    <3>1. s = Count(s.loads, s.comps, s.drains, s.seen, s.ready)
      BY DEF Tally, Count
    <3>2. s.loads + 0 = s.loads /\ s.comps + 0 = s.comps /\ s.drains + 0 = s.drains
      BY DEF Tally
    <3> QED
      BY <2>2, <3>1, <3>2, Zenon DEF After, One
  <2> QED
    BY <2>2, <2>3 DEF Allowed
<1>3. \A x \in 1 .. Len(p) : Allowed(T[x - 1], p[x], n, wb) /\ T[x] = After(T[x - 1], p[x])
  <2>1. SUFFICES ASSUME NEW x \in 1 .. Len(p)
                 PROVE  Allowed(T[x - 1], p[x], n, wb) /\ T[x] = After(T[x - 1], p[x])
    OBVIOUS
  <2>2. T[x - 1] = s /\ T[x] = s
    BY <1>1
  <2> QED
    BY <1>2, <2>2
<1>4. T \in [0 .. Len(p) -> Tally] /\ T[0] = s /\ T[Len(p)] = s
  BY <1>1
<1> HIDE DEF T
<1>5. Trace(p, T, n, wb)
  BY <1>3, <1>4 DEF Trace
<1> QED
  BY <1>4, <1>5, Zenon DEF Runs

\* One operation.
LEMMA RunsOne ==
  ASSUME NEW s \in Tally, NEW op, NEW n, NEW wb, Allowed(s, op, n, wb)
  PROVE  Runs(<<op>>, s, After(s, op), n, wb)
PROOF
<1> DEFINE p == <<op>>
           T == [x \in 0 .. 1 |-> IF x = 0 THEN s ELSE After(s, op)]
<1>1. IsProgram(p) /\ Len(p) = 1 /\ p[1] = op
  BY OneStep
<1> HIDE DEF p
<1>2. T \in [0 .. 1 -> Tally] /\ T[0] = s /\ T[1] = After(s, op)
  BY AfterTyped
<1> HIDE DEF T
<1>3. \A x \in 1 .. 1 : x = 1 /\ x - 1 = 0
  OBVIOUS
<1>4. Trace(p, T, n, wb)
  BY <1>1, <1>2, <1>3 DEF Trace
<1> QED
  BY <1>1, <1>2, <1>4, Zenon DEF Runs, p

\* A pair is two sequences of one.
LEMMA PairOf == \A x, y : <<x>> \o <<y>> = <<x, y>>
PROOF
<1> SUFFICES ASSUME NEW x, NEW y PROVE <<x>> \o <<y>> = <<x, y>>
  OBVIOUS
<1> DEFINE a == <<x>>
           b == <<y>>
           c == a \o b
           d == <<x, y>>
<1>1. IsProgram(a) /\ IsProgram(b) /\ a[1] = x /\ b[1] = y /\ Len(a) = 1 /\ Len(b) = 1
  BY OneStep
<1>2. IsProgram(d) /\ Len(d) = 2 /\ d[1] = x /\ d[2] = y
  <2>1. d \in Seq({x, y})
    OBVIOUS
  <2> QED
    BY <2>1, Zenon DEF IsProgram
<1> HIDE DEF a, b, d
<1>3. PICK S, V : a \in Seq(S) /\ b \in Seq(V)
  BY <1>1, Zenon DEF IsProgram
<1>4. IsProgram(c) /\ Len(c) = 2 /\ c[1] = x /\ c[2] = y
  <2>1. /\ c \in Seq(S \cup V) /\ Len(c) = Len(a) + Len(b)
        /\ \A i \in 1 .. Len(a) : c[i] = a[i]
        /\ \A i \in 1 .. Len(b) : c[Len(a) + i] = b[i]
    BY <1>3, Joined
  <2>2. IsProgram(c)
    BY <2>1, Zenon DEF IsProgram
  <2> HIDE DEF c
  <2>3. 1 \in 1 .. 1 /\ 1 + 1 = 2
    OBVIOUS
  <2>4. c[1] = a[1] /\ c[1 + 1] = b[1]
    BY <1>1, <2>1, <2>3
  <2> QED
    BY <1>1, <2>1, <2>2, <2>3, <2>4
<1> HIDE DEF c
<1>5. \A i \in 1 .. Len(c) : c[i] = d[i]
  <2>1. \A i \in 1 .. 2 : i = 1 \/ i = 2
    OBVIOUS
  <2> QED
    BY <1>2, <1>4, <2>1
<1>6. c = d
  <2>1. PICK S1, S2 : c \in Seq(S1) /\ d \in Seq(S2)
    BY <1>2, <1>4, Zenon DEF IsProgram
  <2>2. c \in Seq(S1 \cup S2) /\ d \in Seq(S1 \cup S2)
    BY <2>1, SeqDef
  <2> QED
    BY <1>2, <1>4, <1>5, <2>2, SeqEqual
<1> QED
  BY <1>6 DEF a, b, c, d

\* Two operations.
LEMMA RunsTwo ==
  ASSUME NEW s \in Tally, NEW op, NEW next, NEW n, NEW wb,
         Allowed(s, op, n, wb), Allowed(After(s, op), next, n, wb)
  PROVE  Runs(<<op, next>>, s, After(After(s, op), next), n, wb)
PROOF
<1>1. After(s, op) \in Tally
  BY AfterTyped
<1>2. Runs(<<op>>, s, After(s, op), n, wb)
  BY RunsOne
<1>3. Runs(<<next>>, After(s, op), After(After(s, op), next), n, wb)
  BY <1>1, RunsOne
<1>4. Runs(<<op>> \o <<next>>, s, After(After(s, op), next), n, wb)
  BY <1>2, <1>3, RunsOn
<1>5. <<op>> \o <<next>> = <<op, next>>
  BY PairOf
<1> QED
  BY <1>4, <1>5

\* Many programs one behind the other.
LEMMA RunsAll ==
  ASSUME NEW m \in Nat, NEW S, NEW p \in [1 .. m -> S], NEW at, NEW n, NEW wb,
         at[0] \in Tally,
         \A i \in 1 .. m : Runs(p[i], at[i - 1], at[i], n, wb)
  PROVE  Runs(FlattenSeq(p), at[0], at[m], n, wb)
PROOF
<1>1. p \in Seq(S) /\ Len(p) = m
  BY LengthOf
<1>2. CASE m = 0
  <2>1. FlattenSeq(p) = p
    BY <1>1, <1>2 DEF FlattenSeq
  <2>2. IsProgram(p) /\ \A i \in 1 .. Len(p) : Quiet(p[i])
    BY <1>1, <1>2 DEF IsProgram
  <2> QED
    BY <1>2, <2>1, <2>2, QuietRuns
<1>3. CASE m # 0
  <2> DEFINE Is(g) == g = [i \in 1 .. m |-> IF i = 1 THEN p[i] ELSE g[i - 1] \o p[i]]
             f == CHOOSE g : Is(g)
  <2>1. FlattenSeq(p) = f[m]
    <3>1. FlattenSeq(p) = (CHOOSE g : g = [i \in 1 .. Len(p) |->
                                           IF i = 1 THEN p[i] ELSE g[i - 1] \o p[i]])[Len(p)]
      BY <1>1, <1>3, Zenon DEF FlattenSeq
    <3> QED
      BY <1>1, <3>1, Zenon
  <2>2. Is(f)
    BY Flattening, Zenon
  <2> HIDE DEF f
  <2>3. \A i \in 1 .. m : f[i] = IF i = 1 THEN p[i] ELSE f[i - 1] \o p[i]
    BY <2>2, Zenon
  <2> DEFINE Bad == {i \in 1 .. m : ~ Runs(f[i], at[0], at[i], n, wb)}
  <2>4. SUFFICES ASSUME Bad # {} PROVE FALSE
    BY <1>3, <2>1
  <2>5. PICK j \in Bad : \A y \in Bad : j <= y
    <3>1. \A i \in Bad : i \in Nat
      OBVIOUS
    <3> QED
      BY <2>4, <3>1, LeastOf, Zenon
  <2>6. Runs(p[j], at[j - 1], at[j], n, wb)
    BY <2>5
  <2>7. j # 1
    <3>1. SUFFICES ASSUME j = 1 PROVE FALSE
      OBVIOUS
    <3>2. f[j] = p[j] /\ j - 1 = 0
      BY <2>3, <2>5, <3>1
    <3> QED
      BY <2>5, <2>6, <3>2
  <2>8. j - 1 \in 1 .. m /\ j - 1 \notin Bad
    BY <2>5, <2>7
  <2>9. Runs(f[j - 1], at[0], at[j - 1], n, wb)
    BY <2>8
  <2>10. f[j] = f[j - 1] \o p[j]
    BY <2>3, <2>5, <2>7
  <2>11. Runs(f[j - 1] \o p[j], at[0], at[j], n, wb)
    BY <2>6, <2>9, RunsOn
  <2> QED
    BY <2>5, <2>10, <2>11
<1> QED
  BY <1>2, <1>3

(***************************************************************************)
(* The passes.                                                             *)
(***************************************************************************)

\* The slot of the last of c blocks.
LEMMA OwedAt ==
  ASSUME NEW i \in Nat
  PROVE  /\ Owed(i, i % NSLOT) = Largest(i - 1, 0)
         /\ Owed(i + 1, i % NSLOT) = i + 1
         /\ i # 0 => Owed(i + 1, (i - 1) % NSLOT) = i
PROOF
BY DEF Owed, Largest, NSLOT

\* What the operations of a pass are to the counts.
LEMMA Kinds ==
  /\ \A k : LET v == Wait("copy", <<"computeDone", k>>)
           IN /\ v.do = "wait" /\ v.on = "copy" /\ v.event[1] = "computeDone" /\ v.event[2] = k
              /\ ~IsLoad(v) /\ ~IsCompute(v) /\ ~IsDrain(v)
  /\ \A k : LET v == Wait("compute", <<"copyDone", k>>)
           IN /\ v.do = "wait" /\ v.on = "compute" /\ v.event[1] = "copyDone" /\ v.event[2] = k
              /\ ~IsLoad(v) /\ ~IsCompute(v) /\ ~IsDrain(v)
  /\ \A k : LET v == Record("copy", <<"copyDone", k>>)
           IN /\ v.do = "record" /\ v.on = "copy" /\ v.event = <<"copyDone", k>>
              /\ IsLoad(v) /\ ~IsCompute(v) /\ ~IsDrain(v)
  /\ \A k : LET v == Record("compute", <<"computeDone", k>>)
           IN /\ v.do = "record" /\ v.on = "compute" /\ v.event = <<"computeDone", k>>
              /\ ~IsLoad(v) /\ IsCompute(v) /\ ~IsDrain(v)
  /\ \A op : IsDrain(op) => op.do \notin {"wait", "record"} /\ ~IsLoad(op) /\ ~IsCompute(op)
PROOF
BY DEF Wait, Record, IsLoad, IsCompute, IsDrain, Data

\* A wait of the copy stream.
LEMMA CopyWaitRuns ==
  ASSUME NEW l \in Nat, NEW c \in Nat, NEW d \in Nat, NEW a \in Nat, NEW b \in Nat,
         NEW n, NEW wb, NEW k
  PROVE  Allowed(Count(l, c, d, a, b), Wait("copy", <<"computeDone", k>>), n, wb)
PROOF
<1> DEFINE s == Count(l, c, d, a, b)
           v == Wait("copy", <<"computeDone", k>>)
<1>1. s.loads = l /\ s.comps = c /\ s.drains = d /\ s.seen = a /\ s.ready = b
  BY DEF Count
<1>2. /\ v.do = "wait" /\ v.on = "copy" /\ v.event[1] = "computeDone" /\ v.event[2] = k
      /\ ~IsLoad(v) /\ ~IsCompute(v) /\ ~IsDrain(v)
  BY Kinds
<1> HIDE DEF s, v
<1>3. Allowed(s, v, n, wb)
  BY <1>1, <1>2 DEF Allowed
<1> QED
  BY <1>3 DEF s, v

\* It has seen the last block computed in the slot.
LEMMA CopyWaitAfter ==
  ASSUME NEW l \in Nat, NEW c \in Nat, NEW d \in Nat, NEW a \in Nat, NEW b \in Nat, NEW k
  PROVE  After(Count(l, c, d, a, b), Wait("copy", <<"computeDone", k>>)) = Count(l, c, d, Owed(c, k), b)
PROOF
<1> DEFINE s == Count(l, c, d, a, b)
           v == Wait("copy", <<"computeDone", k>>)
<1>1. s.loads = l /\ s.comps = c /\ s.drains = d /\ s.seen = a /\ s.ready = b
  BY DEF Count
<1>2. /\ v.do = "wait" /\ v.on = "copy" /\ v.event[1] = "computeDone" /\ v.event[2] = k
      /\ ~IsLoad(v) /\ ~IsCompute(v) /\ ~IsDrain(v)
  BY Kinds
<1> HIDE DEF s, v
<1>3. l + 0 = l /\ c + 0 = c /\ d + 0 = d
  OBVIOUS
<1>4. After(s, v) = Count(l, c, d, Owed(c, k), b)
  BY <1>1, <1>2, <1>3 DEF After, One
<1> QED
  BY <1>4 DEF s, v

\* A wait of the compute stream.
LEMMA ComputeWaitRuns ==
  ASSUME NEW l \in Nat, NEW c \in Nat, NEW d \in Nat, NEW a \in Nat, NEW b \in Nat,
         NEW n, NEW wb, NEW k
  PROVE  Allowed(Count(l, c, d, a, b), Wait("compute", <<"copyDone", k>>), n, wb)
PROOF
<1> DEFINE s == Count(l, c, d, a, b)
           v == Wait("compute", <<"copyDone", k>>)
<1>1. s.loads = l /\ s.comps = c /\ s.drains = d /\ s.seen = a /\ s.ready = b
  BY DEF Count
<1>2. /\ v.do = "wait" /\ v.on = "compute" /\ v.event[1] = "copyDone" /\ v.event[2] = k
      /\ ~IsLoad(v) /\ ~IsCompute(v) /\ ~IsDrain(v)
  BY Kinds
<1> HIDE DEF s, v
<1>3. Allowed(s, v, n, wb)
  BY <1>1, <1>2 DEF Allowed
<1> QED
  BY <1>3 DEF s, v

\* It is ready for the last block loaded to the slot.
LEMMA ComputeWaitAfter ==
  ASSUME NEW l \in Nat, NEW c \in Nat, NEW d \in Nat, NEW a \in Nat, NEW b \in Nat, NEW k
  PROVE  After(Count(l, c, d, a, b), Wait("compute", <<"copyDone", k>>)) = Count(l, c, d, a, Owed(l, k))
PROOF
<1> DEFINE s == Count(l, c, d, a, b)
           v == Wait("compute", <<"copyDone", k>>)
<1>1. s.loads = l /\ s.comps = c /\ s.drains = d /\ s.seen = a /\ s.ready = b
  BY DEF Count
<1>2. /\ v.do = "wait" /\ v.on = "compute" /\ v.event[1] = "copyDone" /\ v.event[2] = k
      /\ ~IsLoad(v) /\ ~IsCompute(v) /\ ~IsDrain(v)
  BY Kinds
<1> HIDE DEF s, v
<1>3. l + 0 = l /\ c + 0 = c /\ d + 0 = d
  OBVIOUS
<1>4. After(s, v) = Count(l, c, d, a, Owed(l, k))
  BY <1>1, <1>2, <1>3 DEF After, One
<1> QED
  BY <1>4 DEF s, v

\* The end of a load.
LEMMA LoadRuns ==
  ASSUME NEW l \in Nat, NEW c \in Nat, NEW d \in Nat, NEW a \in Nat, NEW b \in Nat,
         NEW n, NEW wb, NEW k, k = l % NSLOT,
         l < n, l < a + NSLOT, wb => l < d + NSLOT
  PROVE  Allowed(Count(l, c, d, a, b), Record("copy", <<"copyDone", k>>), n, wb)
PROOF
<1> DEFINE s == Count(l, c, d, a, b)
           v == Record("copy", <<"copyDone", k>>)
<1>1. s.loads = l /\ s.comps = c /\ s.drains = d /\ s.seen = a /\ s.ready = b
  BY DEF Count
<1>2. /\ v.do = "record" /\ v.on = "copy" /\ v.event = <<"copyDone", k>>
      /\ IsLoad(v) /\ ~IsCompute(v) /\ ~IsDrain(v)
  BY Kinds
<1> HIDE DEF s, v
<1>3. Allowed(s, v, n, wb)
  BY <1>1, <1>2 DEF Allowed
<1> QED
  BY <1>3 DEF s, v

\* It counts a load.
LEMMA LoadAfter ==
  ASSUME NEW l \in Nat, NEW c \in Nat, NEW d \in Nat, NEW a \in Nat, NEW b \in Nat, NEW k
  PROVE  After(Count(l, c, d, a, b), Record("copy", <<"copyDone", k>>)) = Count(l + 1, c, d, a, b)
PROOF
<1> DEFINE s == Count(l, c, d, a, b)
           v == Record("copy", <<"copyDone", k>>)
<1>1. s.loads = l /\ s.comps = c /\ s.drains = d /\ s.seen = a /\ s.ready = b
  BY DEF Count
<1>2. /\ v.do = "record" /\ v.on = "copy" /\ v.event = <<"copyDone", k>>
      /\ IsLoad(v) /\ ~IsCompute(v) /\ ~IsDrain(v)
  BY Kinds
<1> HIDE DEF s, v
<1>3. l + 0 = l /\ c + 0 = c /\ d + 0 = d
  OBVIOUS
<1>4. After(s, v) = Count(l + 1, c, d, a, b)
  BY <1>1, <1>2, <1>3 DEF After, One
<1> QED
  BY <1>4 DEF s, v

\* The end of the kernels of a block.
LEMMA ComputeRuns ==
  ASSUME NEW l \in Nat, NEW c \in Nat, NEW d \in Nat, NEW a \in Nat, NEW b \in Nat,
         NEW n, NEW wb, NEW k, k = c % NSLOT, c < b
  PROVE  Allowed(Count(l, c, d, a, b), Record("compute", <<"computeDone", k>>), n, wb)
PROOF
<1> DEFINE s == Count(l, c, d, a, b)
           v == Record("compute", <<"computeDone", k>>)
<1>1. s.loads = l /\ s.comps = c /\ s.drains = d /\ s.seen = a /\ s.ready = b
  BY DEF Count
<1>2. /\ v.do = "record" /\ v.on = "compute" /\ v.event = <<"computeDone", k>>
      /\ ~IsLoad(v) /\ IsCompute(v) /\ ~IsDrain(v)
  BY Kinds
<1> HIDE DEF s, v
<1>3. Allowed(s, v, n, wb)
  BY <1>1, <1>2 DEF Allowed
<1> QED
  BY <1>3 DEF s, v

\* It counts a computed block.
LEMMA ComputeAfter ==
  ASSUME NEW l \in Nat, NEW c \in Nat, NEW d \in Nat, NEW a \in Nat, NEW b \in Nat, NEW k
  PROVE  After(Count(l, c, d, a, b), Record("compute", <<"computeDone", k>>)) = Count(l, c + 1, d, a, b)
PROOF
<1> DEFINE s == Count(l, c, d, a, b)
           v == Record("compute", <<"computeDone", k>>)
<1>1. s.loads = l /\ s.comps = c /\ s.drains = d /\ s.seen = a /\ s.ready = b
  BY DEF Count
<1>2. /\ v.do = "record" /\ v.on = "compute" /\ v.event = <<"computeDone", k>>
      /\ ~IsLoad(v) /\ IsCompute(v) /\ ~IsDrain(v)
  BY Kinds
<1> HIDE DEF s, v
<1>3. l + 0 = l /\ c + 0 = c /\ d + 0 = d
  OBVIOUS
<1>4. After(s, v) = Count(l, c + 1, d, a, b)
  BY <1>1, <1>2, <1>3 DEF After, One
<1> QED
  BY <1>4 DEF s, v

\* A drain.
LEMMA DrainRuns ==
  ASSUME NEW l \in Nat, NEW c \in Nat, NEW d \in Nat, NEW a \in Nat, NEW b \in Nat,
         NEW n, NEW wb, NEW op, IsDrain(op), op.on = "copy",
         wb, d < a
  PROVE  Allowed(Count(l, c, d, a, b), op, n, wb)
PROOF
<1> DEFINE s == Count(l, c, d, a, b)
           v == op
<1>1. s.loads = l /\ s.comps = c /\ s.drains = d /\ s.seen = a /\ s.ready = b
  BY DEF Count
<1>2. v.do \notin {"wait", "record"} /\ ~IsLoad(v) /\ ~IsCompute(v) /\ IsDrain(v) /\ v.on = "copy"
  BY Kinds
<1> HIDE DEF s, v
<1>3. Allowed(s, v, n, wb)
  BY <1>1, <1>2 DEF Allowed
<1> QED
  BY <1>3 DEF s, v

\* It counts a drained block.
LEMMA DrainAfter ==
  ASSUME NEW l \in Nat, NEW c \in Nat, NEW d \in Nat, NEW a \in Nat, NEW b \in Nat, NEW op, IsDrain(op), op.on = "copy"
  PROVE  After(Count(l, c, d, a, b), op) = Count(l, c, d + 1, a, b)
PROOF
<1> DEFINE s == Count(l, c, d, a, b)
           v == op
<1>1. s.loads = l /\ s.comps = c /\ s.drains = d /\ s.seen = a /\ s.ready = b
  BY DEF Count
<1>2. v.do \notin {"wait", "record"} /\ ~IsLoad(v) /\ ~IsCompute(v) /\ IsDrain(v) /\ v.on = "copy"
  BY Kinds
<1> HIDE DEF s, v
<1>3. l + 0 = l /\ c + 0 = c /\ d + 0 = d
  OBVIOUS
<1>4. After(s, v) = Count(l, c, d + 1, a, b)
  BY <1>1, <1>2, <1>3 DEF After, One
<1> QED
  BY <1>4 DEF s, v

\* The counts before block i of a pass.
AtBlock(i, wb) ==
  Count(i, i, IF wb THEN Largest(i - NSLOT, 0) ELSE 0, Largest(i - NSLOT, 0), i)

\* A program of the copies and kernels of one block.
Still(p) == IsProgram(p) /\ \A i \in 1 .. Len(p) : Quiet(p[i])

\* The drain of block i, or of another one in its slot.
DrainOf(p, k) ==
  \E op : /\ IsDrain(op) /\ op.on = "copy"
          /\ p = <<Wait("copy", <<"computeDone", k>>), op>>

\* The kernels of a block, with the marks around them.
LEMMA OnSlotRuns ==
  ASSUME NEW i \in Nat, NEW k, k = i % NSLOT, NEW ks, Still(ks), NEW n, NEW wb,
         NEW d \in Nat, NEW a \in Nat,
         i < n, i < a + NSLOT, wb => i < d + NSLOT
  PROVE  Runs(OnSlot(k, ks), Count(i, i, d, a, i), Count(i + 1, i + 1, d, a, i + 1), n, wb)
PROOF
<1> DEFINE R1 == Record("copy", <<"copyDone", k>>)
           W1 == Wait("compute", <<"copyDone", k>>)
           R2 == Record("compute", <<"computeDone", k>>)
<1>0. PICK j \in Nat : j = i + 1 /\ i < j /\ Owed(j, k) = j
  BY OwedAt
<1> DEFINE s0 == Count(i, i, d, a, i)
           s1 == Count(j, i, d, a, i)
           s2 == Count(j, i, d, a, j)
           s3 == Count(j, j, d, a, j)
<1>1. Allowed(Count(i, i, d, a, i), Record("copy", <<"copyDone", k>>), n, wb)
  BY LoadRuns
<1>2. After(Count(i, i, d, a, i), Record("copy", <<"copyDone", k>>)) = Count(j, i, d, a, i)
  <2>1. After(Count(i, i, d, a, i), Record("copy", <<"copyDone", k>>)) = Count(i + 1, i, d, a, i)
    BY LoadAfter
  <2> QED
    BY <1>0, <2>1
<1>3. Allowed(Count(j, i, d, a, i), Wait("compute", <<"copyDone", k>>), n, wb)
  BY ComputeWaitRuns
<1>4. After(Count(j, i, d, a, i), Wait("compute", <<"copyDone", k>>)) = Count(j, i, d, a, j)
  <2>1. After(Count(j, i, d, a, i), Wait("compute", <<"copyDone", k>>)) = Count(j, i, d, a, Owed(j, k))
    BY ComputeWaitAfter
  <2> QED
    BY <1>0, <2>1
<1>5. Allowed(Count(j, i, d, a, j), Record("compute", <<"computeDone", k>>), n, wb)
  BY <1>0, ComputeRuns
<1>6. After(Count(j, i, d, a, j), Record("compute", <<"computeDone", k>>)) = Count(j, j, d, a, j)
  <2>1. After(Count(j, i, d, a, j), Record("compute", <<"computeDone", k>>)) = Count(j, i + 1, d, a, j)
    BY <1>0, ComputeAfter, SMTT(30)
  <2> QED
    BY <1>0, <2>1
<1>7. s0 \in Tally /\ s1 \in Tally /\ s2 \in Tally
  BY CountTyped
<1>8. OnSlot(k, ks) = <<R1, W1>> \o ks \o <<R2>>
  BY DEF OnSlot
<1>9. /\ Allowed(s0, R1, n, wb) /\ After(s0, R1) = s1
      /\ Allowed(s1, W1, n, wb) /\ After(s1, W1) = s2
      /\ Allowed(s2, R2, n, wb) /\ After(s2, R2) = s3
  BY <1>1, <1>2, <1>3, <1>4, <1>5, <1>6, Zenon
<1>10. s0 = Count(i, i, d, a, i) /\ s3 = Count(i + 1, i + 1, d, a, i + 1)
  BY <1>0
<1> HIDE DEF s0, s1, s2, s3, R1, W1, R2
<1>11. Runs(<<R1, W1>>, s0, s2, n, wb)
  BY <1>7, <1>9, RunsTwo
<1>12. Runs(ks, s2, s2, n, wb)
  BY <1>7, QuietRuns DEF Still
<1>13. Runs(<<R2>>, s2, s3, n, wb)
  BY <1>7, <1>9, RunsOne
<1>14. Runs((<<R1, W1>> \o ks) \o <<R2>>, s0, s3, n, wb)
  BY <1>11, <1>12, <1>13, RunsOn
<1> QED
  BY <1>8, <1>10, <1>14

\* Block i of a pass: it drains the block that was in its slot, if there was one.
LEMMA BlockRuns ==
  ASSUME NEW i \in Nat, NEW n, i < n, NEW wb \in BOOLEAN, NEW k, k = i % NSLOT,
         NEW drain, IF wb /\ i >= NSLOT THEN DrainOf(drain, k) ELSE drain = <<>>,
         NEW load, Still(load), NEW ks, Still(ks)
  PROVE  Runs(<<Wait("copy", <<"computeDone", k>>)>> \o drain \o load \o OnSlot(k, ks),
              AtBlock(i, wb), AtBlock(i + 1, wb), n, wb)
PROOF
<1>1. PICK d0 \in Nat, a0 \in Nat, d1 \in Nat, a1 \in Nat :
        /\ d0 = (IF wb THEN Largest(i - NSLOT, 0) ELSE 0) /\ a0 = Largest(i - NSLOT, 0)
        /\ d1 = (IF wb THEN Largest(i - 1, 0) ELSE 0) /\ a1 = Largest(i - 1, 0)
        /\ i < a1 + NSLOT /\ (wb => i < d1 + NSLOT)
        /\ wb /\ i >= NSLOT => d0 < a1 /\ d0 + 1 = d1
        /\ ~(wb /\ i >= NSLOT) => d0 = d1
  BY DEF Largest, NSLOT
<1> DEFINE head == Wait("copy", <<"computeDone", k>>)
           s0 == Count(i, i, d0, a0, i)
           s1 == Count(i, i, d0, a1, i)
           s2 == Count(i, i, d1, a1, i)
           s3 == Count(i + 1, i + 1, d1, a1, i + 1)
<1>2. AtBlock(i, wb) = s0 /\ AtBlock(i + 1, wb) = s3
  <2>1. (i + 1) - NSLOT = i - 1
    BY DEF NSLOT
  <2> QED
    BY <1>1, <2>1, Zenon DEF AtBlock
<1>3. Owed(i, k) = a1
  BY <1>1, OwedAt
<1>4. s0 \in Tally /\ s1 \in Tally /\ s2 \in Tally
  BY CountTyped
<1>5. Runs(<<head>>, s0, s1, n, wb)
  <2>1. Allowed(Count(i, i, d0, a0, i), Wait("copy", <<"computeDone", k>>), n, wb)
    BY CopyWaitRuns
  <2>2. After(Count(i, i, d0, a0, i), Wait("copy", <<"computeDone", k>>)) = Count(i, i, d0, a1, i)
    <3>1. After(Count(i, i, d0, a0, i), Wait("copy", <<"computeDone", k>>)) = Count(i, i, d0, Owed(i, k), i)
      BY CopyWaitAfter
    <3> QED
      BY <1>3, <3>1
  <2>3. Allowed(s0, head, n, wb) /\ After(s0, head) = s1
    BY <2>1, <2>2, Zenon
  <2> HIDE DEF s0, s1, head
  <2> QED
    BY <1>4, <2>3, RunsOne
<1>6. Runs(drain, s1, s2, n, wb)
  <2>1. CASE wb /\ i >= NSLOT
    <3>1. PICK op : IsDrain(op) /\ op.on = "copy" /\ drain = <<head, op>>
      <4>1. DrainOf(drain, k)
        BY <2>1
      <4> QED
        BY <4>1, Zenon DEF DrainOf
    <3>2. Allowed(s1, head, n, wb) /\ After(s1, head) = s1
      <4>1. Allowed(Count(i, i, d0, a1, i), Wait("copy", <<"computeDone", k>>), n, wb)
        BY CopyWaitRuns
      <4>2. After(Count(i, i, d0, a1, i), Wait("copy", <<"computeDone", k>>)) = Count(i, i, d0, a1, i)
        <5>1. After(Count(i, i, d0, a1, i), Wait("copy", <<"computeDone", k>>)) = Count(i, i, d0, Owed(i, k), i)
          BY CopyWaitAfter
        <5> QED
          BY <1>3, <5>1
      <4> QED
        BY <4>1, <4>2, Zenon
    <3>3. d0 < a1 /\ d0 + 1 = d1 /\ wb
      BY <1>1, <2>1
    <3>4. Allowed(Count(i, i, d0, a1, i), op, n, wb)
      BY <3>1, <3>3, DrainRuns
    <3>5. After(Count(i, i, d0, a1, i), op) = Count(i, i, d1, a1, i)
      <4>1. After(Count(i, i, d0, a1, i), op) = Count(i, i, d0 + 1, a1, i)
        BY <3>1, <3>3, DrainAfter
      <4> QED
        BY <3>3, <4>1
    <3>6. Allowed(s1, op, n, wb) /\ After(s1, op) = s2
      BY <3>4, <3>5, Zenon
    <3> HIDE DEF s1, s2, head
    <3>7. Runs(<<head, op>>, s1, After(After(s1, head), op), n, wb)
      BY <1>4, <3>2, <3>6, RunsTwo
    <3> QED
      BY <3>1, <3>2, <3>6, <3>7
  <2>2. CASE ~(wb /\ i >= NSLOT)
    <3>1. drain = <<>> /\ s1 = s2
      BY <1>1, <2>2
    <3>2. IsProgram(drain) /\ \A j \in 1 .. Len(drain) : Quiet(drain[j])
      BY <3>1, NoStep
    <3> HIDE DEF s1, s2
    <3> QED
      BY <1>4, <3>1, <3>2, QuietRuns
  <2> QED
    BY <2>1, <2>2
<1>7. Runs(OnSlot(k, ks), s2, s3, n, wb)
  BY <1>1, OnSlotRuns
<1> HIDE DEF s0, s1, s2, s3, head
<1>8. Runs(load, s2, s2, n, wb)
  BY <1>4, QuietRuns DEF Still
<1>9. Runs(<<head>> \o drain, s0, s2, n, wb)
  BY <1>5, <1>6, RunsOn
<1>10. Runs((<<head>> \o drain) \o load, s0, s2, n, wb)
  BY <1>8, <1>9, RunsOn
<1>11. Runs(((<<head>> \o drain) \o load) \o OnSlot(k, ks), s0, s3, n, wb)
  BY <1>7, <1>10, RunsOn
<1> QED
  BY <1>2, <1>11 DEF head

\* Where a run begins and ends are counts.
LEMMA RunsTyped ==
  ASSUME NEW p, NEW s, NEW t, NEW n, NEW wb, Runs(p, s, t, n, wb)
  PROVE  s \in Tally /\ t \in Tally /\ IsProgram(p)
PROOF
<1>1. PICK T : Trace(p, T, n, wb) /\ T[0] = s /\ T[Len(p)] = t
  BY Zenon DEF Runs
<1>2. IsProgram(p) /\ T \in [0 .. Len(p) -> Tally]
  BY <1>1 DEF Trace
<1>3. Len(p) \in Nat
  BY <1>2, ProgramLength
<1> QED
  BY <1>1, <1>2, <1>3

\* Copies to the device and kernels of a slot count nothing.
LEMMA CopyIsQuiet ==
  ASSUME NEW dst, dst \notin HostArrays, NEW doff, NEW dpitch, NEW src, NEW soff, NEW spitch,
         NEW w, NEW h
  PROVE  Still(<<Copy(dst, doff, dpitch, src, soff, spitch, w, h)>>)
PROOF
<1> DEFINE op == Copy(dst, doff, dpitch, src, soff, spitch, w, h)
<1>1. op.do = "copy" /\ op.writes = {dst}
  BY DEF Copy
<1> HIDE DEF op
<1>2. Quiet(op)
  BY <1>1 DEF Quiet, IsDrain
<1>3. \A i \in 1 .. Len(<<op>>) : <<op>>[i] = op
  BY OneStep
<1> QED
  BY <1>2, <1>3, OneStep DEF Still, op

\* The kernels of a slot write no array of the host: those are shared with the other slot.
LEMMA KernelsAreStill ==
  ASSUME NEW ks, NEW k \in Slots, NEW out, NEW most, KernelSteps(ks, k, Shared(out), most)
  PROVE  Still(ks)
PROOF
<1>1. PICK j \in Slots : j # k
  BY DEF Slots, NSLOT
<1>2. HostArrays \subseteq Shared(out)[j]
  BY DEF Shared
<1>3. ASSUME NEW i \in 1 .. Len(ks) PROVE Quiet(ks[i])
  <2>1. KernelStep(ks[i], k, Shared(out), most)
    BY DEF KernelSteps
  <2>2. ks[i].do \notin {"wait", "record"}
    BY <2>1 DEF KernelStep
  <2>3. Touched(ks[i]) \cap Shared(out)[j] = {}
    BY <1>1, <2>1 DEF KernelStep
  <2>4. ks[i].writes \cap HostArrays = {}
    BY <1>2, <2>3 DEF Touched
  <2> QED
    BY <2>2, <2>4 DEF Quiet, IsDrain
<1> QED
  BY <1>3 DEF Still, KernelSteps

\* Programs that count nothing, one behind the other; and none at all.
LEMMA StillBoth ==
  ASSUME NEW a, NEW b, Still(a), Still(b)
  PROVE  Still(a \o b) /\ Still(<<>>)
PROOF
<1> DEFINE c == a \o b
<1>1. /\ IsProgram(a) /\ IsProgram(b)
      /\ \A i \in 1 .. Len(a) : Quiet(a[i])
      /\ \A i \in 1 .. Len(b) : Quiet(b[i])
  BY Zenon DEF Still
<1>2. IsProgram(c) /\ EachOf(c, a, b)
  BY <1>1, StepsOfBoth
<1> HIDE DEF c
<1>3. \A i \in 1 .. Len(c) : Quiet(c[i])
  BY <1>1, <1>2, Zenon DEF EachOf
<1>4. \A i \in 1 .. Len(<<>>) : FALSE
  BY NoStep
<1> QED
  BY <1>2, <1>3, <1>4, NoStep, Zenon DEF Still, c

\* Drains are drains.
LEMMA DrainsAreDrains ==
  ASSUME NEW i \in Nat, NEW ncols, NEW outH \in HostArrays, NEW outBuf, NEW ldOut
  PROVE  /\ DrainOf(DrainColBlock(i, ncols, outH, outBuf), i % NSLOT)
         /\ DrainOf(DrainRowChunk(i, outH, ldOut), i % NSLOT)
PROOF
<1>1. DrainOf(DrainColBlock(i, ncols, outH, outBuf), i % NSLOT)
  <2> DEFINE k == i % NSLOT
             op == Copy(outH, i * ctx.nb, ncols, outBuf[k], 0, ctx.nb,
                        Least(ctx.nb, ncols - i * ctx.nb), ctx.vecRows)
  <2>1. DrainColBlock(i, ncols, outH, outBuf) = <<Wait("copy", <<"computeDone", k>>), op>>
    BY Zenon DEF DrainColBlock
  <2>2. IsDrain(op) /\ op.on = "copy"
    <3>1. op.do = "copy" /\ op.on = "copy" /\ op.writes = {outH}
      BY DEF Copy
    <3> HIDE DEF op
    <3> QED
      BY <3>1 DEF IsDrain, Data, Streams
  <2> HIDE DEF op, k
  <2>3. DrainOf(DrainColBlock(i, ncols, outH, outBuf), k)
    BY <2>1, <2>2, Zenon DEF DrainOf
  <2> QED
    BY <2>3 DEF k
<1>2. DrainOf(DrainRowChunk(i, outH, ldOut), i % NSLOT)
  <2> DEFINE k == i % NSLOT
             r0 == i * ctx.chunkRows
             len == Least(ctx.chunkRows, ctx.vecRows - r0) * ldOut
             op == Copy(outH, r0 * ldOut, len, RO(k), 0, len, len, 1)
  <2>1. DrainRowChunk(i, outH, ldOut) = <<Wait("copy", <<"computeDone", k>>), op>>
    BY Zenon DEF DrainRowChunk
  <2>2. IsDrain(op) /\ op.on = "copy"
    <3>1. op.do = "copy" /\ op.on = "copy" /\ op.writes = {outH}
      BY DEF Copy
    <3> HIDE DEF op
    <3> QED
      BY <3>1 DEF IsDrain, Data, Streams
  <2> HIDE DEF op, k
  <2>3. DrainOf(DrainRowChunk(i, outH, ldOut), k)
    BY <2>1, <2>2, Zenon DEF DrainOf
  <2> QED
    BY <2>3 DEF k
<1> QED
  BY <1>1, <1>2

\* A block of columns.
LEMMA ColBlockRuns ==
  ASSUME NEW i \in Nat, NEW n, i < n, NEW inH, NEW ncols, NEW outH \in HostArrays, NEW outBuf, NEW fn,
         Still(fn[i % NSLOT][Least(ctx.nb, ncols - i * ctx.nb)])
  PROVE  Runs(ColBlock(i, inH, ncols, outH, outBuf, fn), AtBlock(i, TRUE), AtBlock(i + 1, TRUE),
              n, TRUE)
PROOF
<1> DEFINE k == i % NSLOT
           w == Least(ctx.nb, ncols - i * ctx.nb)
           head == << Wait("copy", <<"computeDone", k>>) >>
           drain == IF i >= NSLOT THEN DrainColBlock(i - NSLOT, ncols, outH, outBuf) ELSE <<>>
           op == Copy(X(k), 0, ctx.nb, inH, i * ctx.nb, ncols, w, ctx.vecRows)
           load == <<op>>
           ks == fn[k][w]
<1>1. IF TRUE /\ i >= NSLOT THEN DrainOf(drain, k) ELSE drain = <<>>
  <2>1. CASE i >= NSLOT
    <3> DEFINE h == i - NSLOT
    <3>1. h \in Nat /\ h % NSLOT = k
      BY <2>1, SlotOf
    <3>2. drain = DrainColBlock(h, ncols, outH, outBuf)
      BY <2>1
    <3> HIDE DEF h, drain, k
    <3>3. DrainOf(DrainColBlock(h, ncols, outH, outBuf), h % NSLOT)
      BY <3>1, DrainsAreDrains
    <3> QED
      BY <2>1, <3>1, <3>2, <3>3
  <2> QED
    BY <2>1
<1>2. Still(load)
  <2>1. X(k) \notin HostArrays
    BY DEF X, HostArrays, Y, AY
  <2> HIDE DEF k, w
  <2> QED
    BY <2>1, CopyIsQuiet
<1>3. ColBlock(i, inH, ncols, outH, outBuf, fn) = head \o drain \o load \o OnSlot(k, ks)
  BY Zenon DEF ColBlock
<1>4. Still(ks) /\ k = i % NSLOT /\ TRUE \in BOOLEAN
  OBVIOUS
<1> HIDE DEF k, drain, load, ks
<1>5. Runs(head \o drain \o load \o OnSlot(k, ks), AtBlock(i, TRUE), AtBlock(i + 1, TRUE), n, TRUE)
  BY <1>1, <1>2, <1>4, BlockRuns
<1> QED
  BY <1>3, <1>5

\* A chunk of rows.
LEMMA RowChunkRuns ==
  ASSUME NEW i \in Nat, NEW n, i < n, NEW Ah, NEW Bh, NEW ld, NEW outH, NEW ldOut, NEW fn,
         outH # None => outH \in HostArrays,
         Still(fn[i % NSLOT][Least(ctx.chunkRows, ctx.vecRows - i * ctx.chunkRows)])
  PROVE  Runs(RowChunk(i, Ah, Bh, ld, outH, ldOut, fn),
              AtBlock(i, outH # None), AtBlock(i + 1, outH # None), n, outH # None)
PROOF
<1> DEFINE k == i % NSLOT
           wb == outH # None
           r0 == i * ctx.chunkRows
           rows == Least(ctx.chunkRows, ctx.vecRows - r0)
           head == << Wait("copy", <<"computeDone", k>>) >>
           drain == IF outH # None /\ i >= NSLOT THEN DrainRowChunk(i - NSLOT, outH, ldOut) ELSE <<>>
           load == << Copy(RA(k), 0, rows * ld, Ah, r0 * ld, rows * ld, rows * ld, 1) >>
           load2 == << Copy(RB(k), 0, rows * ld, Bh, r0 * ld, rows * ld, rows * ld, 1) >>
           more == IF Bh # None THEN load2 ELSE <<>>
           ks == fn[k][rows]
<1>1. IF wb /\ i >= NSLOT THEN DrainOf(drain, k) ELSE drain = <<>>
  <2>1. CASE outH # None /\ i >= NSLOT
    <3> DEFINE h == i - NSLOT
    <3>1. h \in Nat /\ h % NSLOT = k
      BY <2>1, SlotOf
    <3>2. drain = DrainRowChunk(h, outH, ldOut)
      BY <2>1
    <3> HIDE DEF h, drain, k
    <3>3. DrainOf(DrainRowChunk(h, outH, ldOut), h % NSLOT)
      BY <2>1, <3>1, DrainsAreDrains
    <3> QED
      BY <2>1, <3>1, <3>2, <3>3
  <2> QED
    BY <2>1
<1>2. Still(load) /\ Still(load2)
  <2>1. RA(k) \notin HostArrays /\ RB(k) \notin HostArrays
    BY DEF RA, RB, HostArrays, Y, AY
  <2> HIDE DEF k, rows, r0
  <2> QED
    BY <2>1, CopyIsQuiet
<1>3. RowChunk(i, Ah, Bh, ld, outH, ldOut, fn) = head \o drain \o load \o more \o OnSlot(k, ks)
  BY Zenon DEF RowChunk
<1>4. Still(ks) /\ k = i % NSLOT /\ wb \in BOOLEAN
  OBVIOUS
<1>5. Still(more)
  <2> HIDE DEF load2, load
  <2> QED
    BY <1>2, StillBoth
<1> HIDE DEF k, drain, load, ks, more, wb
<1>6. Still(load \o more)
  BY <1>2, <1>5, StillBoth
<1>7. Runs(head \o drain \o (load \o more) \o OnSlot(k, ks), AtBlock(i, wb), AtBlock(i + 1, wb), n, wb)
  BY <1>1, <1>4, <1>6, BlockRuns
<1>8. head \o drain \o load \o more \o OnSlot(k, ks)
        = head \o drain \o (load \o more) \o OnSlot(k, ks)
  <2> DEFINE a == head \o drain
  <2>1. IsProgram(head) /\ IsProgram(drain) /\ IsProgram(load) /\ IsProgram(more)
    <3>1. IsProgram(head)
      BY OneStep
    <3>2. IsProgram(load) /\ IsProgram(more)
      BY <1>2, <1>5 DEF Still
    <3>3. IsProgram(drain)
      <4>1. CASE drain = <<>>
        BY <4>1, NoStep
      <4>2. CASE DrainOf(drain, k)
        <5>1. PICK x, y : drain = <<x, y>>
          BY <4>2, Zenon DEF DrainOf
        <5>2. <<x, y>> \in Seq({x, y})
          OBVIOUS
        <5> QED
          BY <5>1, <5>2, Zenon DEF IsProgram
      <4> QED
        BY <1>1, <4>1, <4>2
    <3> QED
      BY <3>1, <3>2, <3>3
  <2> HIDE DEF head
  <2>2. IsProgram(a)
    BY <2>1, StepsOfBoth
  <2> HIDE DEF a
  <2>3. PICK S1, S2, S3 : a \in Seq(S1) /\ load \in Seq(S2) /\ more \in Seq(S3)
    BY <2>1, <2>2, Zenon DEF IsProgram
  <2> DEFINE V == S1 \cup S2 \cup S3
  <2>4. a \in Seq(V) /\ load \in Seq(V) /\ more \in Seq(V)
    BY <2>3, SeqDef
  <2> HIDE DEF V
  <2>5. (a \o load) \o more = a \o (load \o more)
    BY <2>4, ConcatAssociative
  <2> QED
    BY <2>5, Zenon DEF a
<1> QED
  BY <1>3, <1>7, <1>8 DEF wb

(***************************************************************************)
(* The entries.                                                            *)
(***************************************************************************)

\* One of the last drains.
LEMMA LastDrainRuns ==
  ASSUME NEW n \in Nat, NEW i \in Nat, NEW a \in Nat, NEW k, i < Owed(n, k), Owed(n, k) \in Nat,
         NEW p, DrainOf(p, k)
  PROVE  Runs(p, Count(n, n, i, a, n), Count(n, n, i + 1, Owed(n, k), n), n, TRUE)
PROOF
<1> DEFINE head == Wait("copy", <<"computeDone", k>>)
<1>1. PICK op : IsDrain(op) /\ op.on = "copy" /\ p = <<head, op>>
  BY Zenon DEF DrainOf
<1>2. PICK o \in Nat : o = Owed(n, k)
  OBVIOUS
<1> DEFINE s0 == Count(n, n, i, a, n)
           s1 == Count(n, n, i, o, n)
           s2 == Count(n, n, i + 1, o, n)
<1>3. Allowed(s0, head, n, TRUE)
  BY CopyWaitRuns
<1>4. After(s0, head) = s1
  <2>1. After(Count(n, n, i, a, n), Wait("copy", <<"computeDone", k>>)) = Count(n, n, i, Owed(n, k), n)
    BY CopyWaitAfter
  <2> QED
    BY <1>2, <2>1
<1>5. Allowed(Count(n, n, i, o, n), op, n, TRUE)
  BY <1>1, <1>2, DrainRuns
<1>6. After(Count(n, n, i, o, n), op) = Count(n, n, i + 1, o, n)
  BY <1>1, DrainAfter, SMTT(30)
<1>7. s0 \in Tally
  BY DEF Count, Tally
<1>8. Allowed(s1, op, n, TRUE) /\ After(s1, op) = s2
  BY <1>5, <1>6
<1> HIDE DEF s0, s1, s2, head
<1>9. Runs(<<head, op>>, s0, After(After(s0, head), op), n, TRUE)
  BY <1>3, <1>4, <1>7, <1>8, RunsTwo
<1>10. Runs(p, s0, s2, n, TRUE)
  BY <1>1, <1>4, <1>8, <1>9
<1> QED
  BY <1>2, <1>10 DEF s0, s2

\* The drains after the loop.
LEMMA LastDrainsRun ==
  ASSUME NEW n \in Nat, NEW drain, \A i \in 0 .. n - 1 : DrainOf(drain[i], i % NSLOT)
  PROVE  \E t : /\ Runs(LastDrains(n, drain), AtBlock(n, TRUE), t, n, TRUE)
                /\ t.loads = n /\ t.comps = n /\ t.drains = n
PROOF
<1> DEFINE first == Largest(n - NSLOT, 0)
           m == n - first
           s == [j \in 1 .. m |-> drain[first + j - 1]]
           seen(j) == IF j = 0 THEN first ELSE Owed(n, (first + j - 1) % NSLOT)
           at == [j \in 0 .. m |-> Count(n, n, first + j, seen(j), n)]
           S == {s[j] : j \in 1 .. m}
<1>1. first \in Nat /\ m \in Nat /\ first + m = n
  BY DEF Largest, NSLOT
<1>2. \A i \in Nat : first <= i /\ i < n => Owed(n, i % NSLOT) \in Nat /\ i < Owed(n, i % NSLOT)
  BY DEF Largest, Owed, NSLOT
<1>3. LastDrains(n, drain) = FlattenSeq(s)
  BY Zenon DEF LastDrains
<1>4. AtBlock(n, TRUE) = Count(n, n, first, first, n)
  BY DEF AtBlock
<1> HIDE DEF m, first
<1>5. \A j \in 0 .. m : seen(j) \in Nat
  <2>1. SUFFICES ASSUME NEW j \in 0 .. m, j # 0 PROVE seen(j) \in Nat
    BY <1>1
  <2>2. first + j - 1 \in Nat /\ first <= first + j - 1 /\ first + j - 1 < n
    BY <1>1, <2>1
  <2> QED
    BY <1>2, <2>1, <2>2
<1>6. ASSUME NEW j \in 1 .. m PROVE Runs(s[j], at[j - 1], at[j], n, TRUE)
  <2>1. PICK i \in Nat :
          /\ i = first + j - 1 /\ first <= i /\ i < n /\ i \in 0 .. n - 1
          /\ i = first + (j - 1) /\ first + j = i + 1 /\ j - 1 \in 0 .. m
    BY <1>1
  <2>2. PICK a \in Nat : a = seen(j - 1)
    BY <1>5, <2>1
  <2>3. PICK k : k = i % NSLOT
    OBVIOUS
  <2>4. Owed(n, k) \in Nat /\ i < Owed(n, k) /\ DrainOf(drain[i], k)
    BY <1>2, <2>1, <2>3
  <2>5. Runs(drain[i], Count(n, n, i, a, n), Count(n, n, i + 1, Owed(n, k), n), n, TRUE)
    BY <2>4, LastDrainRuns
  <2>6. s[j] = drain[i]
    BY <2>1
  <2>7. at[j - 1] = Count(n, n, i, a, n)
    <3>1. j - 1 \in 0 .. m
      BY <1>1
    <3>2. at[j - 1] = Count(n, n, first + (j - 1), seen(j - 1), n)
      BY <3>1
    <3> QED
      BY <2>1, <2>2, <3>2
  <2>8. at[j] = Count(n, n, i + 1, Owed(n, k), n)
    <3>1. j \in 0 .. m /\ j # 0
      BY <1>1
    <3>2. at[j] = Count(n, n, first + j, seen(j), n)
      BY <3>1
    <3>3. seen(j) = Owed(n, k)
      BY <2>1, <2>3, <3>1
    <3> HIDE DEF seen
    <3> QED
      BY <2>1, <3>2, <3>3
  <2> QED
    BY <2>5, <2>6, <2>7, <2>8
<1>7. at[0] = Count(n, n, first, first, n)
  BY <1>1
<1>8. at[m] = Count(n, n, n, seen(m), n)
  BY <1>1
<1>9. s \in [1 .. m -> S]
  OBVIOUS
<1>10. seen(m) \in Nat
  BY <1>1, <1>5
<1> HIDE DEF s, at, S, seen
<1>11. at[0] \in Tally
  BY <1>1, <1>7, CountTyped
<1>12. Runs(FlattenSeq(s), at[0], at[m], n, TRUE)
  BY <1>1, <1>6, <1>9, <1>11, RunsAll
<1>13. at[m].loads = n /\ at[m].comps = n /\ at[m].drains = n
  BY <1>8 DEF Count
<1> QED
  BY <1>3, <1>4, <1>7, <1>12, <1>13

\* The end of a pass counts nothing.
LEMMA EndIsStill ==
  ASSUME NEW pass, pass \in {"colPass", "rowPass"}
  PROVE  Still(EndPass(pass))
PROOF
<1> DEFINE y1 == Sync("compute")
           y2 == Sync("copy")
           y3 == [do |-> pass, on |-> "legacy"]
           p == <<y1, y2, y3>>
<1>1. /\ y1.do = "sync" /\ y2.do = "sync" /\ y3.do = pass /\ y3.on = "legacy"
  BY DEF Sync
<1>2. EndPass(pass) = p
  BY Zenon DEF EndPass
<1> HIDE DEF y1, y2, y3
<1>3. p \in Seq({y1, y2, y3}) /\ Len(p) = 3 /\ p[1] = y1 /\ p[2] = y2 /\ p[3] = y3
  OBVIOUS
<1> HIDE DEF p
<1>4. \A i \in 1 .. Len(p) : Quiet(p[i])
  <2>1. \A i \in 1 .. Len(p) : i = 1 \/ i = 2 \/ i = 3
    BY <1>3
  <2>2. Quiet(y1) /\ Quiet(y2) /\ Quiet(y3)
    BY <1>1 DEF Quiet, IsDrain, Data, Streams
  <2> QED
    BY <1>3, <2>1, <2>2
<1>5. IsProgram(p)
  BY <1>3, Zenon DEF IsProgram
<1> QED
  BY <1>2, <1>4, <1>5 DEF Still

\* A program that streams n blocks, from no counts to the whole pass.
Streamed(p, n, wb) ==
  \E t : /\ Runs(p, Count(0, 0, 0, 0, 0), t, n, wb)
         /\ t.loads = n /\ t.comps = n /\ t.drains = (IF wb THEN n ELSE 0)

\* What counts nothing may stand before and behind it.
LEMMA StreamedAround ==
  ASSUME NEW p, NEW n, NEW wb, Streamed(p, n, wb), NEW q, Still(q)
  PROVE  Streamed(p \o q, n, wb) /\ Streamed(q \o p, n, wb)
PROOF
<1>1. PICK t : /\ Runs(p, Count(0, 0, 0, 0, 0), t, n, wb)
               /\ t.loads = n /\ t.comps = n /\ t.drains = (IF wb THEN n ELSE 0)
  BY Zenon DEF Streamed
<1> DEFINE o == Count(0, 0, 0, 0, 0)
<1>2. t \in Tally /\ o \in Tally
  BY <1>1, RunsTyped
<1> HIDE DEF o
<1>3. Runs(q, o, o, n, wb) /\ Runs(q, t, t, n, wb)
  BY <1>2, QuietRuns DEF Still
<1>4. Runs(p, o, t, n, wb)
  BY <1>1 DEF o
<1>5. Runs(p \o q, o, t, n, wb) /\ Runs(q \o p, o, t, n, wb)
  BY <1>3, <1>4, RunsOn
<1> QED
  BY <1>1, <1>5, Zenon DEF Streamed, o

\* The blocks, the last drains and the end of a pass.
LEMMA PassStreams ==
  ASSUME NEW n \in Nat, NEW wb \in BOOLEAN, NEW block, NEW S, block \in [1 .. n -> S],
         \A j \in 1 .. n : Runs(block[j], AtBlock(j - 1, wb), AtBlock(j, wb), n, wb),
         NEW drain, wb => \A i \in 0 .. n - 1 : DrainOf(drain[i], i % NSLOT),
         NEW last, last = (IF wb THEN LastDrains(n, drain) ELSE <<>>),
         NEW pass, pass \in {"colPass", "rowPass"}
  PROVE  Streamed(FlattenSeq(block) \o last \o EndPass(pass), n, wb)
PROOF
<1> DEFINE at == [i \in 0 .. n |-> AtBlock(i, wb)]
           flat == FlattenSeq(block)
<1>1. at[0] = Count(0, 0, 0, 0, 0)
  BY DEF AtBlock, Largest, NSLOT
<1>2. at[0] \in Tally
  BY <1>1, CountTyped
<1>3. at[n] = AtBlock(n, wb)
  OBVIOUS
<1>4. \A i \in 1 .. n : Runs(block[i], at[i - 1], at[i], n, wb)
  <2>1. SUFFICES ASSUME NEW i \in 1 .. n PROVE Runs(block[i], at[i - 1], at[i], n, wb)
    OBVIOUS
  <2>2. at[i - 1] = AtBlock(i - 1, wb) /\ at[i] = AtBlock(i, wb)
    OBVIOUS
  <2> QED
    BY <2>2
<1> HIDE DEF at
<1>5. Runs(flat, at[0], at[n], n, wb)
  BY <1>2, <1>4, RunsAll
<1> HIDE DEF flat
<1>6. PICK t : /\ Runs(last, at[n], t, n, wb)
               /\ t.loads = n /\ t.comps = n /\ t.drains = (IF wb THEN n ELSE 0)
  <2>1. CASE wb
    BY <1>3, <2>1, LastDrainsRun
  <2>2. CASE ~wb
    <3>1. last = <<>> /\ Still(last)
      BY <2>2, NoStep DEF Still
    <3>2. at[n] \in Tally
      BY <1>5, RunsTyped
    <3>3. Runs(last, at[n], at[n], n, wb)
      BY <3>1, <3>2, QuietRuns DEF Still
    <3>4. at[n].loads = n /\ at[n].comps = n /\ at[n].drains = 0
      <4>1. at[n] = Count(n, n, 0, Largest(n - NSLOT, 0), n)
        BY <1>3, <2>2 DEF AtBlock
      <4> QED
        BY <4>1 DEF Count
    <3> QED
      BY <2>2, <3>3, <3>4
  <2> QED
    BY <2>1, <2>2
<1>7. Runs(flat \o last, at[0], t, n, wb)
  BY <1>5, <1>6, RunsOn
<1>8. Streamed(flat \o last, n, wb)
  BY <1>1, <1>6, <1>7, Zenon DEF Streamed
<1>9. Streamed((flat \o last) \o EndPass(pass), n, wb)
  BY <1>8, EndIsStill, StreamedAround
<1> QED
  BY <1>9 DEF flat

\* A pass over the column blocks.
LEMMA ColPassStreams ==
  ASSUME NEW inH, NEW ncols \in Nat, NEW outH \in HostArrays, NEW outBuf, NEW fn,
         ctx.nb \in Nat \ {0},
         \A k \in Slots : \A w \in 1 .. ctx.nb : Still(fn[k][w])
  PROVE  Streamed(ColBlockPipeline(inH, ncols, outH, outBuf, fn), Ceil(ncols, ctx.nb), TRUE)
PROOF
<1> DEFINE n == Ceil(ncols, ctx.nb)
           block == [j \in 1 .. n |-> ColBlock(j - 1, inH, ncols, outH, outBuf, fn)]
           drain == [i \in 0 .. n - 1 |-> DrainColBlock(i, ncols, outH, outBuf)]
           last == LastDrains(n, drain)
<1>1. /\ n \in Nat
      /\ \A i \in 0 .. n - 1 : Least(ctx.nb, ncols - i * ctx.nb) \in 1 .. ctx.nb
  <2>1. /\ n \in Nat
        /\ \A i \in 0 .. n - 1 : Least(ctx.nb, ncols - i * ctx.nb) \in 1 .. Least(ctx.nb, ncols)
    BY CeilBound, Zenon
  <2>2. 1 .. Least(ctx.nb, ncols) \subseteq 1 .. ctx.nb
    BY DEF Least
  <2> QED
    BY <2>1, <2>2
<1> HIDE DEF n
<1>2. ASSUME NEW i \in 0 .. n - 1
      PROVE  Runs(ColBlock(i, inH, ncols, outH, outBuf, fn), AtBlock(i, TRUE), AtBlock(i + 1, TRUE), n, TRUE)
  <2> DEFINE k == i % NSLOT
             w == Least(ctx.nb, ncols - i * ctx.nb)
  <2>1. i \in Nat /\ i < n /\ k \in Slots /\ w \in 1 .. ctx.nb
    BY <1>1, SlotOf
  <2> HIDE DEF k, w
  <2>2. Still(fn[k][w])
    BY <2>1
  <2> QED
    BY <2>1, <2>2, ColBlockRuns DEF k, w
<1>3. ASSUME NEW i \in 0 .. n - 1 PROVE DrainOf(drain[i], i % NSLOT)
  <2>1. i \in Nat
    BY <1>1
  <2>2. DrainOf(DrainColBlock(i, ncols, outH, outBuf), i % NSLOT)
    BY <2>1, DrainsAreDrains
  <2> QED
    BY <2>2
<1>4. \A j \in 1 .. n : Runs(block[j], AtBlock(j - 1, TRUE), AtBlock(j, TRUE), n, TRUE)
  <2>1. SUFFICES ASSUME NEW j \in 1 .. n
                 PROVE  Runs(block[j], AtBlock(j - 1, TRUE), AtBlock(j, TRUE), n, TRUE)
    OBVIOUS
  <2>2. PICK i \in 0 .. n - 1 : i = j - 1 /\ i + 1 = j
    BY <1>1
  <2>3. Runs(ColBlock(i, inH, ncols, outH, outBuf, fn), AtBlock(i, TRUE), AtBlock(i + 1, TRUE), n, TRUE)
    BY <1>2
  <2>4. block[j] = ColBlock(i, inH, ncols, outH, outBuf, fn)
    BY <2>2
  <2> QED
    BY <2>2, <2>3, <2>4
<1> DEFINE S == {block[j] : j \in 1 .. n}
<1>5. block \in [1 .. n -> S]
  OBVIOUS
<1>6. ColBlockPipeline(inH, ncols, outH, outBuf, fn) = FlattenSeq(block) \o last \o EndPass("colPass")
  BY Zenon DEF ColBlockPipeline, n
<1> HIDE DEF block, drain, S
<1>7. last = IF TRUE THEN LastDrains(n, drain) ELSE <<>>
  OBVIOUS
<1> HIDE DEF last
<1>8. Streamed(FlattenSeq(block) \o last \o EndPass("colPass"), n, TRUE)
  <2>1. TRUE \in BOOLEAN /\ "colPass" \in {"colPass", "rowPass"}
    OBVIOUS
  <2> QED
    BY <1>1, <1>3, <1>4, <1>5, <1>7, <2>1, PassStreams
<1> QED
  BY <1>6, <1>8 DEF n

\* A pass over the row chunks.
LEMMA RowPassStreams ==
  ASSUME NEW Ah, NEW Bh, NEW ld, NEW outH, NEW ldOut, NEW fn,
         outH # None => outH \in HostArrays,
         ctx.vecRows \in Nat \ {0}, ctx.chunkRows \in Nat \ {0},
         \A k \in Slots : \A rows \in ChunkSizes : Still(fn[k][rows])
  PROVE  /\ outH = None => Streamed(RowChunkPipeline(Ah, Bh, ld, outH, ldOut, fn),
                                  Ceil(ctx.vecRows, ctx.chunkRows), FALSE)
         /\ outH # None => Streamed(RowChunkPipeline(Ah, Bh, ld, outH, ldOut, fn),
                                  Ceil(ctx.vecRows, ctx.chunkRows), TRUE)
PROOF
<1> DEFINE n == Ceil(ctx.vecRows, ctx.chunkRows)
           wb == outH # None
           block == [j \in 1 .. n |-> RowChunk(j - 1, Ah, Bh, ld, outH, ldOut, fn)]
           drain == [i \in 0 .. n - 1 |-> DrainRowChunk(i, outH, ldOut)]
           last == IF outH # None THEN LastDrains(n, drain) ELSE <<>>
<1>1. /\ n \in Nat
      /\ \A i \in 0 .. n - 1 : Least(ctx.chunkRows, ctx.vecRows - i * ctx.chunkRows) \in ChunkSizes
  BY CeilBound DEF ChunkSizes
<1> HIDE DEF n
<1>2. ASSUME NEW i \in 0 .. n - 1
      PROVE  Runs(RowChunk(i, Ah, Bh, ld, outH, ldOut, fn), AtBlock(i, wb), AtBlock(i + 1, wb), n, wb)
  <2> DEFINE k == i % NSLOT
             rows == Least(ctx.chunkRows, ctx.vecRows - i * ctx.chunkRows)
  <2>1. i \in Nat /\ i < n /\ k \in Slots /\ rows \in ChunkSizes
    BY <1>1, SlotOf
  <2> HIDE DEF k, rows
  <2>2. Still(fn[k][rows])
    BY <2>1
  <2> QED
    BY <2>1, <2>2, RowChunkRuns DEF k, rows
<1>3. ASSUME wb PROVE \A i \in 0 .. n - 1 : DrainOf(drain[i], i % NSLOT)
  <2>1. SUFFICES ASSUME NEW i \in 0 .. n - 1 PROVE DrainOf(drain[i], i % NSLOT)
    OBVIOUS
  <2>2. i \in Nat /\ outH \in HostArrays
    BY <1>1, <1>3
  <2>3. DrainOf(DrainRowChunk(i, outH, ldOut), i % NSLOT)
    BY <2>2, DrainsAreDrains
  <2> QED
    BY <2>3
<1>4. \A j \in 1 .. n : Runs(block[j], AtBlock(j - 1, wb), AtBlock(j, wb), n, wb)
  <2>1. SUFFICES ASSUME NEW j \in 1 .. n
                 PROVE  Runs(block[j], AtBlock(j - 1, wb), AtBlock(j, wb), n, wb)
    OBVIOUS
  <2> HIDE DEF wb
  <2>2. PICK i \in 0 .. n - 1 : i = j - 1 /\ i + 1 = j
    BY <1>1
  <2>3. Runs(RowChunk(i, Ah, Bh, ld, outH, ldOut, fn), AtBlock(i, wb), AtBlock(i + 1, wb), n, wb)
    BY <1>2
  <2>4. block[j] = RowChunk(i, Ah, Bh, ld, outH, ldOut, fn)
    BY <2>2
  <2> QED
    BY <2>2, <2>3, <2>4
<1> DEFINE S == {block[j] : j \in 1 .. n}
<1>5. block \in [1 .. n -> S]
  OBVIOUS
<1>6. RowChunkPipeline(Ah, Bh, ld, outH, ldOut, fn) = FlattenSeq(block) \o last \o EndPass("rowPass")
  BY Zenon DEF RowChunkPipeline, n
<1>7. wb \in BOOLEAN /\ "rowPass" \in {"colPass", "rowPass"}
  OBVIOUS
<1> HIDE DEF block, drain, S
<1>8. last = IF wb THEN LastDrains(n, drain) ELSE <<>>
  OBVIOUS
<1> HIDE DEF last, wb
<1>9. Streamed(FlattenSeq(block) \o last \o EndPass("rowPass"), n, wb)
  BY <1>1, <1>3, <1>4, <1>5, <1>7, <1>8, PassStreams
<1>10. (outH = None => wb = FALSE) /\ (outH # None => wb = TRUE)
  BY DEF wb
<1>11. Streamed(RowChunkPipeline(Ah, Bh, ld, outH, ldOut, fn), n, wb)
  BY <1>6, <1>9
<1> QED
  BY <1>10, <1>11 DEF n

\* Up to three operations that count nothing.
LEMMA FewStill ==
  ASSUME NEW x, Quiet(x)
  PROVE  /\ Still(<<x>>)
         /\ \A y : Quiet(y) => Still(<<x, y>>)
         /\ \A y, z : Quiet(y) /\ Quiet(z) => Still(<<x, y, z>>)
PROOF
<1>1. Still(<<x>>)
  <2>1. \A i \in 1 .. Len(<<x>>) : <<x>>[i] = x
    BY OneStep
  <2> QED
    BY <2>1, OneStep, Zenon DEF Still
<1>2. ASSUME NEW y, Quiet(y) PROVE Still(<<x, y>>)
  <2> DEFINE p == <<x, y>>
  <2>1. p \in Seq({x, y}) /\ Len(p) = 2 /\ p[1] = x /\ p[2] = y
    OBVIOUS
  <2> HIDE DEF p
  <2>2. \A i \in 1 .. Len(p) : p[i] = x \/ p[i] = y
    BY <2>1
  <2>3. \A i \in 1 .. Len(p) : Quiet(p[i])
    BY <1>2, <2>2, Zenon
  <2>4. IsProgram(p)
    BY <2>1, Zenon DEF IsProgram
  <2> QED
    BY <2>3, <2>4 DEF p, Still
<1>3. ASSUME NEW y, NEW z, Quiet(y), Quiet(z) PROVE Still(<<x, y, z>>)
  <2> DEFINE p == <<x, y, z>>
  <2>1. p \in Seq({x, y, z}) /\ Len(p) = 3 /\ p[1] = x /\ p[2] = y /\ p[3] = z
    OBVIOUS
  <2> HIDE DEF p
  <2>2. \A i \in 1 .. Len(p) : p[i] = x \/ p[i] = y \/ p[i] = z
    BY <2>1
  <2>3. \A i \in 1 .. Len(p) : Quiet(p[i])
    BY <1>3, <2>2, Zenon
  <2>4. IsProgram(p)
    BY <2>1, Zenon DEF IsProgram
  <2> QED
    BY <2>3, <2>4 DEF p, Still
<1> QED
  BY <1>1, <1>2, <1>3

\* What an entry does around its pass counts nothing.
LEMMA AroundIsQuiet ==
  /\ \A elems : Quiet(Ensure(elems))
  /\ \A dst, value : Quiet(Legacy(dst, value))
  /\ \A dst, src : Quiet(ReadBack(dst, src))
  /\ \A args : Quiet(Kernel("memset", {}, {G}, args))
PROOF
<1>1. G \notin HostArrays
  BY DEF G, HostArrays, Y, AY
<1>2. ASSUME NEW args PROVE Quiet(Kernel("memset", {}, {G}, args))
  <2> DEFINE op == Kernel("memset", {}, {G}, args)
  <2>1. op.do = "memset" /\ op.writes = {G}
    BY DEF Kernel
  <2> HIDE DEF op
  <2>2. Quiet(op)
    BY <1>1, <2>1 DEF Quiet, IsDrain
  <2> QED
    BY <2>2 DEF op
<1>3. \A op : op.on = "legacy" /\ op.do \notin {"wait", "record"} => Quiet(op)
  BY DEF Quiet, IsDrain, Data, Streams
<1>4. \A elems : Quiet(Ensure(elems))
  BY <1>3 DEF Ensure
<1>5. \A dst, value : Quiet(Legacy(dst, value))
  BY <1>3 DEF Legacy
<1>6. \A dst, src : Quiet(ReadBack(dst, src))
  BY <1>3 DEF ReadBack
<1> QED
  BY <1>2, <1>4, <1>5, <1>6

\* The filter and A Y.
LEMMA ColumnEntriesStream ==
  ASSUME NEW c, CallOK(c), ContextOK
  PROVE  /\ c.op = "filter" => Streamed(FilterEntry(c), Ceil(c.m, ctx.nb), TRUE)
         /\ c.op = "spmmv" => Streamed(SpmmvEntry(c), Ceil(c.m, ctx.nb), TRUE)
PROOF
<1>1. ctx.nb \in Nat \ {0} /\ c.m \in Nat
  BY DEF ContextOK, CallOK
<1>2. Y \in HostArrays /\ AY \in HostArrays
  BY DEF HostArrays
<1>3. ASSUME c.op = "filter" PROVE Streamed(FilterEntry(c), Ceil(c.m, ctx.nb), TRUE)
  <2> DEFINE fn == [k \in Slots |-> [w \in 1 .. ctx.nb |-> FilterSubBlock(c.np, k, w)]]
             out == [k \in Slots |-> X(k)]
  <2>1. FilterEntry(c) = ColBlockPipeline(Y, c.m, Y, out, fn)
    BY Zenon DEF FilterEntry
  <2>2. c.np \in Nat \ {0, 1}
    BY <1>3 DEF CallOK
  <2>3. ASSUME NEW k \in Slots, NEW w \in 1 .. ctx.nb PROVE Still(fn[k][w])
    <3>1. fn[k][w] = FilterSubBlock(c.np, k, w)
      BY Zenon
    <3>2. KernelSteps(FilterSubBlock(c.np, k, w), k, Shared(InSlot), -1)
      BY <2>2, FilterKernels
    <3> QED
      BY <3>1, <3>2, KernelsAreStill
  <2> HIDE DEF fn, out
  <2>4. Streamed(ColBlockPipeline(Y, c.m, Y, out, fn), Ceil(c.m, ctx.nb), TRUE)
    BY <1>1, <1>2, <2>3, ColPassStreams
  <2> QED
    BY <2>1, <2>4
<1>4. ASSUME c.op = "spmmv" PROVE Streamed(SpmmvEntry(c), Ceil(c.m, ctx.nb), TRUE)
  <2> DEFINE kernels(k, w) == << Kernel("spmmv", {X(k)}, {OutSlot[k]},
                                        [x |-> X(k), y |-> OutSlot[k], w |-> w]) >>
             fn == [k \in Slots |-> [w \in 1 .. ctx.nb |-> kernels(k, w)]]
  <2>1. SpmmvEntry(c) = ColBlockPipeline(Y, c.m, AY, OutSlot, fn)
    BY Zenon DEF SpmmvEntry
  <2>2. ASSUME NEW k \in Slots, NEW w \in 1 .. ctx.nb PROVE Still(fn[k][w])
    <3>1. fn[k][w] = kernels(k, w)
      BY Zenon
    <3>2. KernelSteps(kernels(k, w), k, Shared(OutSlot), -1)
      BY OtherKernels
    <3> QED
      BY <3>1, <3>2, KernelsAreStill
  <2> HIDE DEF fn
  <2>3. Streamed(ColBlockPipeline(Y, c.m, AY, OutSlot, fn), Ceil(c.m, ctx.nb), TRUE)
    BY <1>1, <1>2, <2>2, ColPassStreams
  <2> QED
    BY <2>1, <2>3
<1> QED
  BY <1>3, <1>4

\* The kernels of the sums.
LEMMA SumsAreStill ==
  ASSUME NEW k \in Slots, NEW a, NEW b, NEW with, NEW acc, NEW groups, NEW m, NEW width,
         acc \in {G, Res2}
  PROVE  Still(Reduce(a, b, groups, m, width, with, acc))
PROOF
<1> DEFINE x == [a |-> a, b |-> b, with |-> with, groups |-> groups, m |-> m,
                 elems |-> Len(groups) * width]
           y == [n |-> Len(groups), acc |-> acc]
           k1 == Kernel("partial", {a, b} \cup with, {Partial}, x)
           k2 == Kernel("accum", {Partial, acc}, {acc}, y)
<1>1. Reduce(a, b, groups, m, width, with, acc) = <<k1, k2>>
  BY Zenon DEF Reduce
<1>2. Partial \notin HostArrays /\ acc \notin HostArrays
  BY DEF Partial, G, Res2, HostArrays, Y, AY
<1> HIDE DEF x, y
<1>3. k1.do = "partial" /\ k1.writes = {Partial} /\ k2.do = "accum" /\ k2.writes = {acc}
  BY DEF Kernel
<1> HIDE DEF k1, k2
<1>4. Quiet(k1) /\ Quiet(k2)
  BY <1>2, <1>3 DEF Quiet, IsDrain
<1> QED
  BY <1>1, <1>4, FewStill

\* The Gram matrix.
LEMMA GramStreams ==
  ASSUME NEW c, CallOK(c), ContextOK
  PROVE  Streamed(GramEntry(c), Ceil(ctx.vecRows, ctx.chunkRows), FALSE)
PROOF
<1> DEFINE e == Ensure(GramSubs(c.m) * c.m * c.m)
           z == Kernel("memset", {}, {G}, [acc |-> G])
           Bh == IF c.useB THEN AY ELSE None
           sums(k, rows) == Reduce(RA(k), IF c.useB THEN RB(k) ELSE RA(k),
                                   GramGroups(rows, c.m), c.m, c.m * c.m, {}, G)
           fn == [k \in Slots |-> [rows \in ChunkSizes |-> sums(k, rows)]]
           pass == RowChunkPipeline(Y, Bh, c.m, None, 0, fn)
           back == ReadBack(Result, G)
           pre == <<e, z>>
<1>1. ASSUME NEW k \in Slots, NEW rows \in ChunkSizes PROVE Still(fn[k][rows])
  <2>1. fn[k][rows] = sums(k, rows)
    BY Zenon
  <2> DEFINE groups == GramGroups(rows, c.m)
             b == IF c.useB THEN RB(k) ELSE RA(k)
             width == c.m * c.m
  <2> HIDE DEF b, groups, width
  <2>2. Still(Reduce(RA(k), b, groups, c.m, width, {}, G))
    BY SumsAreStill
  <2> QED
    BY <2>1, <2>2 DEF b, groups, width
<1>2. Quiet(e) /\ Quiet(z) /\ Quiet(back)
  BY AroundIsQuiet, Zenon
<1>3. GramEntry(c) = pre \o pass \o <<back>>
  BY Zenon DEF GramEntry
<1> HIDE DEF fn, Bh, back, e, z
<1>4. Streamed(pass, Ceil(ctx.vecRows, ctx.chunkRows), FALSE)
  <2>1. ctx.vecRows \in Nat \ {0} /\ ctx.chunkRows \in Nat \ {0}
    BY DEF ContextOK
  <2> QED
    BY <1>1, <2>1, RowPassStreams
<1>5. Still(pre) /\ Still(<<back>>)
  BY <1>2, FewStill
<1> HIDE DEF pass, pre
<1>6. Streamed(pre \o pass, Ceil(ctx.vecRows, ctx.chunkRows), FALSE)
  BY <1>4, <1>5, StreamedAround
<1>7. Streamed((pre \o pass) \o <<back>>, Ceil(ctx.vecRows, ctx.chunkRows), FALSE)
  BY <1>5, <1>6, StreamedAround
<1> QED
  BY <1>3, <1>7

\* The update of the block.
LEMMA UpdateStreams ==
  ASSUME NEW c, CallOK(c), ContextOK
  PROVE  Streamed(UpdateEntry(c), Ceil(ctx.vecRows, ctx.chunkRows), TRUE)
PROOF
<1> DEFINE e == Legacy(B, <<"B", c.id, c.m, c.out>>)
           kernels(k, rows) == << Kernel("update", {RA(k), B}, {RO(k)},
                                   [a |-> RA(k), m |-> c.m, o |-> RO(k), out |-> c.out, rows |-> rows]) >>
           fn == [k \in Slots |-> [rows \in ChunkSizes |-> kernels(k, rows)]]
           pass == RowChunkPipeline(Y, None, c.m, Y, c.out, fn)
           pre == <<e>>
<1>1. ASSUME NEW k \in Slots, NEW rows \in ChunkSizes PROVE Still(fn[k][rows])
  <2>1. fn[k][rows] = kernels(k, rows)
    BY Zenon
  <2>2. KernelSteps(kernels(k, rows), k, Shared(InSlot), -1)
    BY OtherKernels
  <2> QED
    BY <2>1, <2>2, KernelsAreStill
<1>2. Quiet(e)
  BY AroundIsQuiet, Zenon
<1>3. UpdateEntry(c) = pre \o pass
  BY Zenon DEF UpdateEntry
<1> HIDE DEF fn, e
<1>4. Streamed(pass, Ceil(ctx.vecRows, ctx.chunkRows), TRUE)
  <2>1. ctx.vecRows \in Nat \ {0} /\ ctx.chunkRows \in Nat \ {0}
    BY DEF ContextOK
  <2>2. Y \in HostArrays /\ Y # None
    BY NoneAssumption DEF HostArrays, Buffers
  <2> QED
    BY <1>1, <2>1, <2>2, RowPassStreams
<1>5. Still(pre)
  BY <1>2, FewStill
<1> HIDE DEF pass, pre
<1>6. Streamed(pre \o pass, Ceil(ctx.vecRows, ctx.chunkRows), TRUE)
  BY <1>4, <1>5, StreamedAround
<1> QED
  BY <1>3, <1>6

\* The residuals; of none there are none.
LEMMA RitzStreams ==
  ASSUME NEW c, CallOK(c), ContextOK
  PROVE  Streamed(RitzEntry(c), IF c.out < 1 THEN 0 ELSE Ceil(ctx.vecRows, ctx.chunkRows), FALSE)
PROOF
<1> DEFINE e == Ensure(Ceil(ctx.chunkRows, ResRows) * c.out)
           l1 == Legacy(B, <<"evec", c.id, c.m, c.m>>)
           l2 == Legacy(Res2, EmptyBag)
           sums(k, rows) == Reduce(RA(k), RB(k), RitzGroups(rows), c.m, c.out, {B}, Res2)
           fn == [k \in Slots |-> [rows \in ChunkSizes |-> sums(k, rows)]]
           pass == RowChunkPipeline(Y, AY, c.m, None, 0, fn)
           back == ReadBack(Result, Res2)
           pre == <<e, l1, l2>>
<1>1. CASE c.out < 1
  <2>1. RitzEntry(c) = <<>>
    BY <1>1, Zenon DEF RitzEntry
  <2>2. Still(<<>>)
    BY NoStep DEF Still
  <2>3. Count(0, 0, 0, 0, 0) \in Tally
    BY CountTyped
  <2>4. Runs(<<>>, Count(0, 0, 0, 0, 0), Count(0, 0, 0, 0, 0), 0, FALSE)
    BY <2>2, <2>3, QuietRuns DEF Still
  <2>5. /\ Count(0, 0, 0, 0, 0).loads = 0 /\ Count(0, 0, 0, 0, 0).comps = 0
        /\ Count(0, 0, 0, 0, 0).drains = 0
    BY DEF Count
  <2>6. Streamed(<<>>, 0, FALSE)
    BY <2>4, <2>5 DEF Streamed
  <2> QED
    BY <1>1, <2>1, <2>6
<1>2. CASE ~ (c.out < 1)
  <2>1. ASSUME NEW k \in Slots, NEW rows \in ChunkSizes PROVE Still(fn[k][rows])
    <3>1. fn[k][rows] = sums(k, rows)
      BY Zenon
    <3> DEFINE groups == RitzGroups(rows)
    <3> HIDE DEF groups
    <3>2. Still(Reduce(RA(k), RB(k), groups, c.m, c.out, {B}, Res2))
      BY SumsAreStill
    <3> QED
      BY <3>1, <3>2 DEF groups
  <2>2. Quiet(e) /\ Quiet(l1) /\ Quiet(l2) /\ Quiet(back)
    BY AroundIsQuiet, Zenon
  <2>3. RitzEntry(c) = pre \o pass \o <<back>>
    BY <1>2, Zenon DEF RitzEntry
  <2> HIDE DEF fn, back, e, l1, l2
  <2>4. Streamed(pass, Ceil(ctx.vecRows, ctx.chunkRows), FALSE)
    <3>1. ctx.vecRows \in Nat \ {0} /\ ctx.chunkRows \in Nat \ {0}
      BY DEF ContextOK
    <3> QED
      BY <2>1, <3>1, RowPassStreams
  <2>5. Still(pre) /\ Still(<<back>>)
    BY <2>2, FewStill
  <2> HIDE DEF pass, pre
  <2>6. Streamed(pre \o pass, Ceil(ctx.vecRows, ctx.chunkRows), FALSE)
    BY <2>4, <2>5, StreamedAround
  <2>7. Streamed((pre \o pass) \o <<back>>, Ceil(ctx.vecRows, ctx.chunkRows), FALSE)
    BY <2>5, <2>6, StreamedAround
  <2> QED
    BY <1>2, <2>3, <2>7
<1> QED
  BY <1>1, <1>2

\* Whether a call writes its results back block by block.
WritesBack(c) == c # None /\ c.op \in {"filter", "spmmv", "update"}

\* Every entry streams the blocks of its call.
LEMMA EveryProgramStreams ==
  ASSUME NEW c, CallOK(c), ContextOK, c # None
  PROVE  Streamed(Program(c), BlocksOf(c), WritesBack(c))
PROOF
<1> DEFINE rows == Ceil(ctx.vecRows, ctx.chunkRows)
           cols == Ceil(c.m, ctx.nb)
<1>1. c.op \in {"filter", "spmmv", "gram", "update", "ritz"}
  BY DEF CallOK
<1>2. CASE c.op = "filter"
  <2>1. Program(c) = FilterEntry(c) /\ BlocksOf(c) = cols /\ WritesBack(c) = TRUE
    BY <1>2 DEF Program, BlocksOf, WritesBack
  <2> QED
    BY <1>2, <2>1, ColumnEntriesStream
<1>3. CASE c.op = "spmmv"
  <2>1. Program(c) = SpmmvEntry(c) /\ BlocksOf(c) = cols /\ WritesBack(c) = TRUE
    BY <1>3 DEF Program, BlocksOf, WritesBack
  <2> QED
    BY <1>3, <2>1, ColumnEntriesStream
<1>4. CASE c.op = "gram"
  <2>1. Program(c) = GramEntry(c) /\ BlocksOf(c) = rows /\ WritesBack(c) = FALSE
    BY <1>4 DEF Program, BlocksOf, WritesBack
  <2> QED
    BY <2>1, GramStreams
<1>5. CASE c.op = "update"
  <2>1. Program(c) = UpdateEntry(c) /\ BlocksOf(c) = rows /\ WritesBack(c) = TRUE
    BY <1>5 DEF Program, BlocksOf, WritesBack
  <2> QED
    BY <2>1, UpdateStreams
<1>6. CASE c.op = "ritz"
  <2>1. /\ Program(c) = RitzEntry(c) /\ WritesBack(c) = FALSE
        /\ BlocksOf(c) = IF c.out < 1 THEN 0 ELSE rows
    BY <1>6 DEF Program, BlocksOf, WritesBack
  <2> QED
    BY <2>1, RitzStreams
<1> QED
  BY <1>1, <1>2, <1>3, <1>4, <1>5, <1>6

(***************************************************************************)
(* How far each stream has come.                                           *)
(***************************************************************************)

\* The records of event e that t counts.
RecordsOf(t, e) == Turns(IF e[1] = "copyDone" THEN t.loads ELSE t.comps, e[2])

\* What stream s alone counts is the same in t and u.
Same(s, t, u) ==
  /\ s = "copy" => t.loads = u.loads /\ t.drains = u.drains /\ t.seen = u.seen
  /\ s = "compute" => t.comps = u.comps /\ t.ready = u.ready

Mine(op, s) == op.on = s /\ op.do # "sync"

\* The items q of stream s are those at places at of the program, all that the stream has
\* there between r, where it has come to, and n, where the host is.
Behind(p, T, n, s, q, at, r) ==
  /\ IsProgram(q) /\ r \in 0 .. n
  /\ \A i \in 1 .. Len(q) :
       /\ at[i] \in r + 1 .. n /\ Stands(q[i], p[at[i]]) /\ Mine(p[at[i]], s)
       /\ p[at[i]].do \in {"wait", "record"} =>
            q[i].count = RecordsOf(T[at[i]], p[at[i]].event)
  /\ \A i, j \in 1 .. Len(q) : i < j => at[i] < at[j]
  /\ \A x \in r + 1 .. n : Mine(p[x], s) => \E i \in 1 .. Len(q) : at[i] = x

\* The blocks are dealt to the slots in turn; who has waited for the last of c blocks in
\* its slot knows that as many are done.
LEMMA DealtInTurn ==
  ASSUME NEW c \in Nat
  PROVE  /\ \A k \in Slots : Turns(c, k) \in Nat
         /\ Turns(c, 0) + Turns(c, 1) = c
         /\ \A k \in Slots : Turns(c + 1, k) = Turns(c, k) + One(k = c % NSLOT)
         /\ \A k \in Slots : \A d \in Nat : Turns(d, k) >= Turns(c, k) => Owed(c, k) <= d
PROOF
<1>1. \A k \in Slots : k = 0 \/ k = 1
  BY DEF Slots, NSLOT
<1>2. Turns(c, 0) = (c + 1) \div 2 /\ Turns(c, 1) = c \div 2
  BY DEF Turns, NSLOT
<1>3. Turns(c + 1, 0) = (c + 2) \div 2 /\ Turns(c + 1, 1) = (c + 1) \div 2
  BY DEF Turns, NSLOT
<1>4. \A k \in Slots : Turns(c, k) \in Nat
  BY <1>1, <1>2
<1>5. Turns(c, 0) + Turns(c, 1) = c
  BY <1>2
<1>6. \A k \in Slots : Turns(c + 1, k) = Turns(c, k) + One(k = c % NSLOT)
  BY <1>1, <1>2, <1>3 DEF NSLOT, One
<1>7. ASSUME NEW k \in Slots, NEW d \in Nat, Turns(d, k) >= Turns(c, k) PROVE Owed(c, k) <= d
  <2>1. Turns(d, 0) = (d + 1) \div 2 /\ Turns(d, 1) = d \div 2
    BY DEF Turns, NSLOT
  <2>2. CASE k = 0
    BY <1>2, <1>7, <2>1, <2>2 DEF Owed, NSLOT
  <2>3. CASE k = 1
    BY <1>2, <1>7, <2>1, <2>3 DEF Owed, NSLOT
  <2> QED
    BY <1>1, <2>2, <2>3
<1> QED
  BY <1>4, <1>5, <1>6, <1>7

\* The records of an operation are counted.
LEMMA RecordCounted ==
  ASSUME NEW t \in Tally, NEW op, WellMade(op), NEW n, NEW wb, Allowed(t, op, n, wb), NEW e \in Events
  PROVE  /\ RecordsOf(t, e) \in Nat
         /\ RecordsOf(After(t, op), e) = RecordsOf(t, e) + One(op.do = "record" /\ op.event = e)
PROOF
<1>1. t.loads \in Nat /\ t.comps \in Nat
  BY DEF Tally
<1>2. /\ After(t, op).loads = t.loads + One(IsLoad(op))
      /\ After(t, op).comps = t.comps + One(IsCompute(op))
  BY AfterTyped
<1> DEFINE u == After(t, op)
           k == e[2]
<1> HIDE DEF u
<1>3. e = <<e[1], k>> /\ e[1] \in {"copyDone", "computeDone"} /\ k \in Slots
  BY DEF Events
<1> HIDE DEF k
<1>4. op.do = "record" => op.event \in Events
  BY DEF WellMade
<1>5. RecordsOf(t, e) \in Nat
  BY <1>1, <1>3, DealtInTurn DEF RecordsOf, k
<1>6. CASE e[1] = "copyDone"
  <2>1. RecordsOf(t, e) = Turns(t.loads, k) /\ RecordsOf(u, e) = Turns(u.loads, k)
    BY <1>6 DEF RecordsOf, k
  <2>2. CASE IsLoad(op)
    <3>1. op.do = "record" /\ op.event = <<"copyDone", t.loads % NSLOT>>
      BY <2>2 DEF IsLoad, Allowed
    <3>2. op.event = e <=> k = t.loads % NSLOT
      BY <1>3, <1>6, <3>1
    <3>3. u.loads = t.loads + 1
      BY <1>2, <2>2 DEF u, One
    <3>4. Turns(t.loads + 1, k) = Turns(t.loads, k) + One(k = t.loads % NSLOT)
      BY <1>1, <1>3, DealtInTurn
    <3> QED
      BY <1>5, <2>1, <3>1, <3>2, <3>3, <3>4 DEF u, One
  <2>3. CASE ~IsLoad(op)
    <3>1. ~(op.do = "record" /\ op.event = e)
      BY <1>6, <2>3 DEF IsLoad
    <3>2. u.loads = t.loads
      BY <1>1, <1>2, <2>3 DEF u, One
    <3> QED
      BY <1>5, <2>1, <3>1, <3>2 DEF u, One
  <2> QED
    BY <2>2, <2>3
<1>7. CASE e[1] = "computeDone"
  <2>1. RecordsOf(t, e) = Turns(t.comps, k) /\ RecordsOf(u, e) = Turns(u.comps, k)
    BY <1>7 DEF RecordsOf, k
  <2>2. CASE IsCompute(op)
    <3>1. op.do = "record" /\ op.event = <<"computeDone", t.comps % NSLOT>>
      BY <2>2 DEF IsCompute, Allowed
    <3>2. op.event = e <=> k = t.comps % NSLOT
      BY <1>3, <1>7, <3>1
    <3>3. u.comps = t.comps + 1
      BY <1>2, <2>2 DEF u, One
    <3>4. Turns(t.comps + 1, k) = Turns(t.comps, k) + One(k = t.comps % NSLOT)
      BY <1>1, <1>3, DealtInTurn
    <3> QED
      BY <1>5, <2>1, <3>1, <3>2, <3>3, <3>4 DEF u, One
  <2>3. CASE ~IsCompute(op)
    <3>1. ~(op.do = "record" /\ op.event = e)
      BY <1>7, <2>3 DEF IsCompute
    <3>2. u.comps = t.comps
      BY <1>1, <1>2, <2>3 DEF u, One
    <3> QED
      BY <1>5, <2>1, <3>1, <3>2 DEF u, One
  <2> QED
    BY <2>2, <2>3
<1> QED
  BY <1>3, <1>5, <1>6, <1>7

\* An operation of another stream leaves what stream s counts.
LEMMA OthersLeave ==
  ASSUME NEW t \in Tally, NEW op, NEW n, NEW wb, Allowed(t, op, n, wb),
         NEW s \in Streams, ~Mine(op, s)
  PROVE  Same(s, t, After(t, op))
PROOF
<1> DEFINE u == After(t, op)
<1>1. /\ u.loads = t.loads + One(IsLoad(op))
      /\ u.comps = t.comps + One(IsCompute(op))
      /\ u.drains = t.drains + One(IsDrain(op))
      /\ u.seen = IF op.do = "wait" /\ op.on = "copy" THEN Owed(t.comps, op.event[2]) ELSE t.seen
      /\ u.ready = IF op.do = "wait" /\ op.on = "compute" THEN Owed(t.loads, op.event[2]) ELSE t.ready
  BY AfterTyped
<1> HIDE DEF u
<1>2. t.loads \in Nat /\ t.comps \in Nat /\ t.drains \in Nat
  BY DEF Tally
<1>3. s = "copy" \/ s = "compute"
  BY DEF Streams
<1>4. CASE s = "copy"
  <2>1. ~IsLoad(op) /\ ~IsDrain(op) /\ ~(op.do = "wait" /\ op.on = "copy")
    BY <1>4 DEF Mine, Allowed, IsLoad, IsDrain, Data
  <2> QED
    BY <1>1, <1>2, <1>4, <2>1 DEF Same, One, u
<1>5. CASE s = "compute"
  <2>1. ~IsCompute(op) /\ ~(op.do = "wait" /\ op.on = "compute")
    BY <1>5 DEF Mine, Allowed, IsCompute
  <2> QED
    BY <1>1, <1>2, <1>5, <2>1 DEF Same, One, u
<1> QED
  BY <1>3, <1>4, <1>5

\* What stream s counts stays until its next operation.
LEMMA LeftAlone ==
  ASSUME NEW p, NEW T, NEW m, NEW wb, Trace(p, T, m, wb), NEW s \in Streams,
         NEW a \in 0 .. Len(p), NEW b \in a .. Len(p), \A x \in a + 1 .. b : ~Mine(p[x], s)
  PROVE  Same(s, T[a], T[b])
PROOF
<1>1. /\ Len(p) \in Nat /\ T \in [0 .. Len(p) -> Tally]
      /\ \A x \in 1 .. Len(p) : Allowed(T[x - 1], p[x], m, wb) /\ T[x] = After(T[x - 1], p[x])
  BY ProgramLength DEF Trace
<1> DEFINE bad == {x \in a .. b : ~Same(s, T[a], T[x])}
<1>2. SUFFICES ASSUME ~Same(s, T[a], T[b]) PROVE FALSE
  OBVIOUS
<1>3. a \in Nat /\ b \in a .. b /\ b \in bad
  BY <1>1, <1>2
<1>4. \A x \in bad : x \in Nat
  BY <1>1
<1>5. PICK x \in bad : \A y \in bad : x <= y
  <2>1. bad # {}
    BY <1>3
  <2> HIDE DEF bad
  <2> QED
    BY <1>4, <2>1, LeastOf, Zenon
<1>6. Same(s, T[a], T[a])
  BY DEF Same
<1>7. x \in a .. b /\ ~Same(s, T[a], T[x]) /\ x # a
  BY <1>5, <1>6
<1> DEFINE y == x - 1
<1>8. y \in a .. b /\ y \in 0 .. Len(p) /\ x \in 1 .. Len(p) /\ x \in a + 1 .. b /\ ~(x <= y)
  BY <1>1, <1>3, <1>7
<1>9. Same(s, T[a], T[y])
  BY <1>5, <1>8
<1>10. T[y] \in Tally /\ Allowed(T[y], p[x], m, wb) /\ T[x] = After(T[y], p[x]) /\ ~Mine(p[x], s)
  BY <1>1, <1>8
<1> HIDE DEF y, bad
<1>11. Same(s, T[y], T[x])
  BY <1>10, OthersLeave
<1>12. Same(s, T[a], T[x])
  BY <1>9, <1>11 DEF Same
<1> QED
  BY <1>7, <1>12

\* The host queues an operation of the stream.
LEMMA BehindAppended ==
  ASSUME NEW p, NEW T, NEW n \in Nat, NEW s, NEW q, NEW at, NEW r, Behind(p, T, n, s, q, at, r),
         Mine(p[n + 1], s), NEW item, Stands(item, p[n + 1]),
         p[n + 1].do \in {"wait", "record"} => item.count = RecordsOf(T[n + 1], p[n + 1].event)
  PROVE  \E a2 : Behind(p, T, n + 1, s, Append(q, item), a2, r)
PROOF
<1> DEFINE q2 == Append(q, item)
           m == Len(q)
           a2 == [i \in 1 .. m + 1 |-> IF i = m + 1 THEN n + 1 ELSE at[i]]
<1>1. /\ IsProgram(q) /\ r \in 0 .. n
      /\ \A i \in 1 .. m :
           /\ at[i] \in r + 1 .. n /\ Stands(q[i], p[at[i]]) /\ Mine(p[at[i]], s)
           /\ p[at[i]].do \in {"wait", "record"} =>
                q[i].count = RecordsOf(T[at[i]], p[at[i]].event)
      /\ \A i, j \in 1 .. m : i < j => at[i] < at[j]
      /\ \A x \in r + 1 .. n : Mine(p[x], s) => \E i \in 1 .. m : at[i] = x
  BY DEF Behind
<1>2. /\ IsProgram(q2) /\ m \in Nat /\ Len(q2) = m + 1
      /\ (\A i \in 1 .. m : q2[i] = q[i]) /\ q2[m + 1] = item
  BY <1>1, Appended
<1>3. a2[m + 1] = n + 1 /\ \A i \in 1 .. m : a2[i] = at[i] /\ i \in 1 .. m + 1
  BY <1>2
<1>4. \A i \in 1 .. m + 1 : i = m + 1 \/ i \in 1 .. m
  BY <1>2
<1>5. n + 1 \in r + 1 .. n + 1 /\ r \in 0 .. n + 1 /\ (\A x \in r + 1 .. n : x \in r + 1 .. n + 1 /\ x < n + 1)
      /\ \A x \in r + 1 .. n + 1 : x = n + 1 \/ x \in r + 1 .. n
  BY <1>1
<1>6. m + 1 \in 1 .. m + 1
  BY <1>2
<1> DEFINE k == n + 1
<1> HIDE DEF q2, a2, k
<1>7. \A i \in 1 .. m + 1 :
        /\ a2[i] \in r + 1 .. k /\ Stands(q2[i], p[a2[i]]) /\ Mine(p[a2[i]], s)
        /\ p[a2[i]].do \in {"wait", "record"} =>
             q2[i].count = RecordsOf(T[a2[i]], p[a2[i]].event)
  <2>1. SUFFICES ASSUME NEW i \in 1 .. m + 1
                 PROVE  /\ a2[i] \in r + 1 .. k /\ Stands(q2[i], p[a2[i]]) /\ Mine(p[a2[i]], s)
                        /\ p[a2[i]].do \in {"wait", "record"} =>
                             q2[i].count = RecordsOf(T[a2[i]], p[a2[i]].event)
    OBVIOUS
  <2>2. CASE i = m + 1
    BY <1>2, <1>3, <1>5, <2>2 DEF k
  <2>3. CASE i \in 1 .. m
    <3>1. a2[i] = at[i] /\ q2[i] = q[i] /\ at[i] \in r + 1 .. k
      BY <1>1, <1>2, <1>3, <1>5, <2>3 DEF k
    <3> QED
      BY <1>1, <2>3, <3>1
  <2> QED
    BY <1>4, <2>2, <2>3
<1>8. \A i, j \in 1 .. m + 1 : i < j => a2[i] < a2[j]
  <2>1. SUFFICES ASSUME NEW i \in 1 .. m + 1, NEW j \in 1 .. m + 1, i < j PROVE a2[i] < a2[j]
    OBVIOUS
  <2>2. i \in 1 .. m
    BY <1>2, <2>1
  <2>3. CASE j = m + 1
    BY <1>1, <1>3, <1>5, <2>2, <2>3
  <2>4. CASE j \in 1 .. m
    BY <1>1, <1>3, <2>1, <2>2, <2>4
  <2> QED
    BY <1>4, <2>3, <2>4
<1>9. \A x \in r + 1 .. k : Mine(p[x], s) => \E i \in 1 .. m + 1 : a2[i] = x
  <2>1. SUFFICES ASSUME NEW x \in r + 1 .. k, Mine(p[x], s) PROVE \E i \in 1 .. m + 1 : a2[i] = x
    OBVIOUS
  <2>2. CASE x = k
    BY <1>3, <1>6, <2>2 DEF k
  <2>3. CASE x \in r + 1 .. n
    <3>1. PICK i \in 1 .. m : at[i] = x
      BY <1>1, <2>1, <2>3
    <3> QED
      BY <1>3, <3>1
  <2> QED
    BY <1>5, <2>2, <2>3 DEF k
<1>10. Behind(p, T, k, s, q2, a2, r)
  BY <1>2, <1>5, <1>7, <1>8, <1>9 DEF Behind, k
<1> QED
  BY <1>10, Zenon DEF q2, k

\* The host makes a call that is not of the stream.
LEMMA BehindKept ==
  ASSUME NEW p, NEW T, NEW n \in Nat, NEW s, NEW q, NEW at, NEW r, Behind(p, T, n, s, q, at, r),
         ~Mine(p[n + 1], s)
  PROVE  Behind(p, T, n + 1, s, q, at, r)
PROOF
<1>1. r \in 0 .. n
  BY DEF Behind
<1>2. /\ r \in 0 .. n + 1 /\ \A x \in r + 1 .. n : x \in r + 1 .. n + 1
      /\ \A x \in r + 1 .. n + 1 : x = n + 1 \/ x \in r + 1 .. n
  BY <1>1
<1> QED
  BY <1>2 DEF Behind

\* Where the head of the stream comes from.
LEMMA HeadOf ==
  ASSUME NEW p, NEW T, NEW n \in Nat, NEW s, NEW q, NEW at, NEW r, Behind(p, T, n, s, q, at, r),
         q # <<>>
  PROVE  /\ at[1] \in r + 1 .. n /\ Stands(Head(q), p[at[1]]) /\ Mine(p[at[1]], s)
         /\ p[at[1]].do \in {"wait", "record"} =>
              Head(q).count = RecordsOf(T[at[1]], p[at[1]].event)
         /\ \A x \in r + 1 .. at[1] - 1 : ~Mine(p[x], s)
PROOF
<1>1. Len(q) \in Nat \ {0} /\ Head(q) = q[1] /\ 1 \in 1 .. Len(q)
  BY HeadAndTail DEF Behind
<1>2. at[1] \in r + 1 .. n /\ r \in Nat
  BY <1>1 DEF Behind
<1>3. ASSUME NEW x \in r + 1 .. at[1] - 1, Mine(p[x], s) PROVE FALSE
  <2>1. x \in r + 1 .. n /\ x < at[1]
    BY <1>2
  <2>2. PICK i \in 1 .. Len(q) : at[i] = x
    BY <1>3, <2>1 DEF Behind
  <2>3. i = 1 \/ 1 < i
    BY <1>1
  <2>4. at[1] = at[i] \/ at[1] < at[i]
    BY <1>1, <2>3 DEF Behind
  <2> QED
    BY <1>2, <2>1, <2>2, <2>4
<1> QED
  BY <1>1, <1>2, <1>3 DEF Behind

\* The head of the stream is done.
LEMMA BehindTail ==
  ASSUME NEW p, NEW T, NEW n \in Nat, NEW s, NEW q, NEW at, NEW r, Behind(p, T, n, s, q, at, r),
         q # <<>>
  PROVE  \E a2 : Behind(p, T, n, s, Tail(q), a2, at[1])
PROOF
<1> DEFINE m == Len(q) - 1
           q2 == Tail(q)
           a2 == [i \in 1 .. m |-> at[i + 1]]
           x == at[1]
<1>1. /\ IsProgram(q) /\ r \in 0 .. n
      /\ \A i \in 1 .. Len(q) :
           /\ at[i] \in r + 1 .. n /\ Stands(q[i], p[at[i]]) /\ Mine(p[at[i]], s)
           /\ p[at[i]].do \in {"wait", "record"} =>
                q[i].count = RecordsOf(T[at[i]], p[at[i]].event)
      /\ \A i, j \in 1 .. Len(q) : i < j => at[i] < at[j]
      /\ \A y \in r + 1 .. n : Mine(p[y], s) => \E i \in 1 .. Len(q) : at[i] = y
  BY DEF Behind
<1>2. /\ Len(q) \in Nat \ {0} /\ IsProgram(q2) /\ Len(q2) = m
      /\ \A i \in 1 .. m : q2[i] = q[i + 1]
  BY <1>1, HeadAndTail
<1>3. m \in Nat /\ 1 \in 1 .. Len(q) /\ Len(q) = m + 1
  BY <1>2
<1>4. \A i \in 1 .. m : i + 1 \in 1 .. Len(q) /\ 1 < i + 1 /\ a2[i] = at[i + 1]
  BY <1>2
<1>5. x \in r + 1 .. n /\ r \in Nat /\ x \in 0 .. n
  BY <1>1, <1>3
<1> HIDE DEF q2, a2, x, m
<1>6. \A i \in 1 .. m :
        /\ a2[i] \in x + 1 .. n /\ Stands(q2[i], p[a2[i]]) /\ Mine(p[a2[i]], s)
        /\ p[a2[i]].do \in {"wait", "record"} =>
             q2[i].count = RecordsOf(T[a2[i]], p[a2[i]].event)
  <2>1. SUFFICES ASSUME NEW i \in 1 .. m
                 PROVE  /\ a2[i] \in x + 1 .. n /\ Stands(q2[i], p[a2[i]]) /\ Mine(p[a2[i]], s)
                        /\ p[a2[i]].do \in {"wait", "record"} =>
                             q2[i].count = RecordsOf(T[a2[i]], p[a2[i]].event)
    OBVIOUS
  <2>2. PICK j \in 1 .. Len(q) : j = i + 1 /\ 1 < j
    BY <1>4
  <2>3. a2[i] = at[j] /\ q2[i] = q[j]
    BY <1>2, <1>4, <2>2
  <2>4. at[j] \in r + 1 .. n /\ x < at[j]
    BY <1>1, <1>3, <2>2 DEF x
  <2>5. at[j] \in x + 1 .. n
    BY <1>5, <2>4
  <2> QED
    BY <1>1, <2>2, <2>3, <2>5
<1>7. \A i, j \in 1 .. m : i < j => a2[i] < a2[j]
  <2>1. SUFFICES ASSUME NEW i \in 1 .. m, NEW j \in 1 .. m, i < j PROVE a2[i] < a2[j]
    OBVIOUS
  <2>2. i + 1 < j + 1
    BY <2>1
  <2> QED
    BY <1>1, <1>4, <2>2
<1>8. \A y \in x + 1 .. n : Mine(p[y], s) => \E i \in 1 .. m : a2[i] = y
  <2>1. SUFFICES ASSUME NEW y \in x + 1 .. n, Mine(p[y], s) PROVE \E i \in 1 .. m : a2[i] = y
    OBVIOUS
  <2>2. y \in r + 1 .. n /\ y # x
    BY <1>5
  <2>3. PICK j \in 1 .. Len(q) : at[j] = y
    BY <1>1, <2>1, <2>2
  <2>4. j # 1
    BY <2>2, <2>3 DEF x
  <2>5. PICK i \in 1 .. m : i + 1 = j
    <3>1. j - 1 \in 1 .. m /\ (j - 1) + 1 = j
      BY <1>3, <2>4
    <3> QED
      BY <3>1
  <2> QED
    BY <1>4, <2>3, <2>5
<1>9. Behind(p, T, n, s, q2, a2, x)
  BY <1>2, <1>5, <1>6, <1>7, <1>8 DEF Behind
<1> QED
  BY <1>9, Zenon DEF q2, x

\* T counts along the program from nothing to all the blocks.
Planned(p, T, blocks, wb) ==
  /\ Trace(p, T, blocks, wb) /\ \A x \in 1 .. Len(p) : WellMade(p[x])
  /\ T[0] = Count(0, 0, 0, 0, 0)
  /\ T[Len(p)].loads = blocks /\ T[Len(p)].comps = blocks
  /\ T[Len(p)].drains = IF wb THEN blocks ELSE 0

\* What is done is what the streams count where they have come to; what one has waited
\* for the other has done; and a slot whose result goes back is not loaded before.
Staged(p, T, n, q, at, r, rec, dn, dr, wb) ==
  /\ \A s \in Streams : Behind(p, T, n, s, q[s], at[s], r[s])
  /\ \A e \in Events : rec[e] = RecordsOf(T[n], e) /\ dn[e] = RecordsOf(T[r[Home(e)]], e)
  /\ dr = T[r["copy"]].drains
  /\ T[r["copy"]].seen <= T[r["compute"]].comps
  /\ T[r["compute"]].ready <= T[r["copy"]].loads
  /\ wb => T[r["copy"]].loads <= T[r["copy"]].drains + NSLOT

\* Blocks of which the records dn tell.
Told(dn, kind) == dn[<<kind, 0>>] + dn[<<kind, 1>>]

\* A step of BlockPipeline in a pass, or none.
PassStep(blocks, wb, l, c, d, l2, c2, d2) ==
  \/ l2 = l /\ c2 = c /\ d2 = d
  \/ /\ l < blocks /\ c > l - NSLOT /\ (wb => d > l - NSLOT)
     /\ l2 = l + 1 /\ c2 = c /\ d2 = d
  \/ /\ c < l /\ (wb => d > c - NSLOT)
     /\ l2 = l /\ c2 = c + 1 /\ d2 = d
  \/ /\ wb /\ d < c
     /\ l2 = l /\ c2 = c /\ d2 = d + 1

\* Any program may be at its first call.
LEMMA StagedFirst ==
  ASSUME NEW p, NEW T, NEW blocks, NEW wb, Planned(p, T, blocks, wb), NEW q, NEW rec, NEW dn,
         \A s \in Streams : q[s] = <<>>, \A e \in Events : rec[e] = 0 /\ dn[e] = 0
  PROVE  \E at, r : Staged(p, T, 0, q, at, r, rec, dn, 0, wb)
PROOF
<1> DEFINE at == [s \in Streams |-> <<>>]
           r == [s \in Streams |-> 0]
           z == Count(0, 0, 0, 0, 0)
<1>1. z.loads = 0 /\ z.comps = 0 /\ z.drains = 0 /\ z.seen = 0 /\ z.ready = 0
  BY DEF Count
<1>2. T[0] = z
  BY DEF Planned
<1>3. \A s \in Streams : r[s] = 0
  OBVIOUS
<1>4. "copy" \in Streams /\ "compute" \in Streams /\ \A e \in Events : Home(e) \in Streams
  BY DEF Streams, Home
<1> HIDE DEF z, r, at
<1>5. \A s \in Streams : Behind(p, T, 0, s, q[s], at[s], r[s])
  <2>1. IsProgram(<<>>) /\ Len(<<>>) = 0
    BY NoStep
  <2>2. \A x \in 0 + 1 .. 0 : FALSE
    OBVIOUS
  <2>3. \A i \in 1 .. Len(<<>>) : FALSE
    BY <2>1
  <2>4. SUFFICES ASSUME NEW s \in Streams PROVE Behind(p, T, 0, s, <<>>, at[s], 0)
    BY <1>3
  <2> QED
    BY <2>1, <2>2, <2>3 DEF Behind
<1>6. \A e \in Events : RecordsOf(z, e) = 0
  BY <1>1, DealtInTurn DEF RecordsOf, Turns, Events, Slots, NSLOT
<1>7. NSLOT = 2
  BY DEF NSLOT
<1>8. r["copy"] = 0 /\ r["compute"] = 0 /\ \A e \in Events : r[Home(e)] = 0
  BY <1>3, <1>4
<1>9. Staged(p, T, 0, q, at, r, rec, dn, 0, wb)
  BY <1>1, <1>2, <1>5, <1>6, <1>7, <1>8 DEF Staged
<1> QED
  BY <1>9, Zenon

\* The host makes call op: q and the records rec become q2 and rec2.
Called(op, q, rec, q2, rec2, item) ==
  /\ \A s \in Streams : Mine(op, s) => q2[s] = Append(q[s], item) /\ Stands(item, op)
  /\ \A s \in Streams : ~Mine(op, s) => q2[s] = q[s]
  /\ op.do = "wait" => item.count = rec[op.event]
  /\ op.do = "record" => item.count = rec[op.event] + 1
  /\ \A e \in Events : rec2[e] = rec[e] + One(op.do = "record" /\ op.event = e)

\* The host makes its next call: one that is queued, or one that is not of the streams.
LEMMA StagedOn ==
  ASSUME NEW p, NEW T, NEW blocks, NEW wb, Planned(p, T, blocks, wb),
         NEW n \in Nat, n < Len(p), NEW q, NEW at, NEW r, NEW rec, NEW dn, NEW dr,
         Staged(p, T, n, q, at, r, rec, dn, dr, wb), NEW op, op = p[n + 1],
         NEW q2, NEW rec2, NEW item, Called(op, q, rec, q2, rec2, item)
  PROVE  \E a2 : Staged(p, T, n + 1, q2, a2, r, rec2, dn, dr, wb)
PROOF
<1>1. Len(p) \in Nat /\ n \in 0 .. Len(p) /\ n + 1 \in 1 .. Len(p) /\ (n + 1) - 1 = n
  BY ProgramLength DEF Planned, Trace
<1>2. T[n] \in Tally /\ Allowed(T[n], op, blocks, wb) /\ T[n + 1] = After(T[n], op) /\ WellMade(op)
  BY <1>1 DEF Planned, Trace
<1>3. \A e \in Events : /\ rec[e] = RecordsOf(T[n], e) /\ rec[e] \in Nat
                        /\ RecordsOf(T[n + 1], e) = rec[e] + One(op.do = "record" /\ op.event = e)
  BY <1>2, RecordCounted DEF Staged
<1>4. \A e \in Events : rec2[e] = RecordsOf(T[n + 1], e)
  BY <1>3 DEF Called
<1>5. op.do \in {"wait", "record"} => item.count = RecordsOf(T[n + 1], op.event)
  <2>1. SUFFICES ASSUME op.do \in {"wait", "record"} PROVE item.count = RecordsOf(T[n + 1], op.event)
    OBVIOUS
  <2>2. op.event \in Events
    BY <1>2, <2>1 DEF WellMade
  <2>3. item.count = rec[op.event] + One(op.do = "record")
    BY <1>3, <2>1, <2>2 DEF One, Called
  <2> QED
    BY <1>3, <2>2, <2>3
<1>6. \A s \in Streams : \E a : Behind(p, T, n + 1, s, q2[s], a, r[s])
  <2>1. SUFFICES ASSUME NEW s \in Streams PROVE \E a : Behind(p, T, n + 1, s, q2[s], a, r[s])
    OBVIOUS
  <2>2. Behind(p, T, n, s, q[s], at[s], r[s])
    BY DEF Staged
  <2>3. CASE Mine(op, s)
    <3>1. q2[s] = Append(q[s], item) /\ Stands(item, op)
      BY <2>3 DEF Called
    <3>2. \E a : Behind(p, T, n + 1, s, Append(q[s], item), a, r[s])
      BY <1>5, <2>2, <2>3, <3>1, BehindAppended
    <3> QED
      BY <3>1, <3>2
  <2>4. CASE ~Mine(op, s)
    <3>1. q2[s] = q[s]
      BY <2>4 DEF Called
    <3>2. Behind(p, T, n + 1, s, q[s], at[s], r[s])
      BY <2>2, <2>4, BehindKept
    <3> QED
      BY <3>1, <3>2
  <2> QED
    BY <2>3, <2>4
<1> DEFINE a2 == [s \in Streams |-> CHOOSE a : Behind(p, T, n + 1, s, q2[s], a, r[s])]
<1>7. \A s \in Streams : Behind(p, T, n + 1, s, q2[s], a2[s], r[s])
  BY <1>6, Zenon
<1> HIDE DEF a2
<1>8. Staged(p, T, n + 1, q2, a2, r, rec2, dn, dr, wb)
  BY <1>4, <1>7 DEF Staged
<1> QED
  BY <1>8, Zenon

\* What the records tell.
LEMMA ToldOf ==
  ASSUME NEW t \in Tally, NEW dn
  PROVE  /\ (\A e \in Events : Home(e) = "copy" => dn[e] = RecordsOf(t, e)) =>
              Told(dn, "copyDone") = t.loads
         /\ (\A e \in Events : Home(e) = "compute" => dn[e] = RecordsOf(t, e)) =>
              Told(dn, "computeDone") = t.comps
PROOF
<1>1. \A k \in Slots : /\ <<"copyDone", k>> \in Events /\ Home(<<"copyDone", k>>) = "copy"
                       /\ <<"computeDone", k>> \in Events /\ Home(<<"computeDone", k>>) = "compute"
                       /\ RecordsOf(t, <<"copyDone", k>>) = Turns(t.loads, k)
                       /\ RecordsOf(t, <<"computeDone", k>>) = Turns(t.comps, k)
  BY DEF Events, Home, RecordsOf
<1>2. 0 \in Slots /\ 1 \in Slots
  BY DEF Slots, NSLOT
<1>3. t.loads \in Nat /\ t.comps \in Nat
  BY DEF Tally
<1>4. /\ Turns(t.loads, 0) + Turns(t.loads, 1) = t.loads
      /\ Turns(t.comps, 0) + Turns(t.comps, 1) = t.comps
  BY <1>3, DealtInTurn
<1> QED
  BY <1>1, <1>2, <1>4 DEF Told

\* At the end of the program, with nothing queued, all is done.
LEMMA StagedLast ==
  ASSUME NEW p, NEW T, NEW blocks, NEW wb, Planned(p, T, blocks, wb),
         NEW q, NEW at, NEW r, NEW rec, NEW dn, NEW dr,
         Staged(p, T, Len(p), q, at, r, rec, dn, dr, wb), \A s \in Streams : q[s] = <<>>
  PROVE  /\ Told(dn, "copyDone") = blocks /\ Told(dn, "computeDone") = blocks
         /\ wb => dr = blocks
PROOF
<1> DEFINE m == Len(p)
<1>1. m \in Nat /\ T \in [0 .. m -> Tally] /\ m \in 0 .. m
  BY ProgramLength DEF Planned, Trace
<1>2. ASSUME NEW s \in Streams PROVE r[s] \in 0 .. m /\ Same(s, T[r[s]], T[m])
  <2>1. Behind(p, T, m, s, <<>>, at[s], r[s])
    BY DEF Staged
  <2>2. Len(<<>>) = 0
    OBVIOUS
  <2>3. r[s] \in 0 .. m /\ \A x \in r[s] + 1 .. m : ~Mine(p[x], s)
    BY <2>1, <2>2 DEF Behind
  <2>4. m \in r[s] .. m
    BY <1>1, <2>3
  <2>5. Same(s, T[r[s]], T[m])
    BY <2>3, <2>4, LeftAlone DEF Planned
  <2> QED
    BY <2>3, <2>5
<1> HIDE DEF m
<1>3. "copy" \in Streams /\ "compute" \in Streams
  BY DEF Streams
<1>4. /\ T[r["copy"]] \in Tally /\ T[r["compute"]] \in Tally
      /\ T[r["copy"]].loads = T[m].loads /\ T[r["copy"]].drains = T[m].drains
      /\ T[r["compute"]].comps = T[m].comps
  BY <1>1, <1>2, <1>3 DEF Same
<1>5. \A e \in Events : dn[e] = RecordsOf(T[r[Home(e)]], e)
  BY DEF Staged
<1>6. Told(dn, "copyDone") = T[m].loads /\ Told(dn, "computeDone") = T[m].comps
  BY <1>4, <1>5, ToldOf
<1> QED
  BY <1>4, <1>6 DEF Planned, Staged, m

\* The next operation of a stream, and what the stream counts before it.
LEMMA NextOf ==
  ASSUME NEW p, NEW T, NEW blocks, NEW wb, Planned(p, T, blocks, wb), NEW n \in 0 .. Len(p),
         NEW s \in Streams, NEW q, NEW at, NEW r, Behind(p, T, n, s, q, at, r), q # <<>>
  PROVE  \E t \in Tally : \E op :
           /\ WellMade(op) /\ Mine(op, s) /\ Stands(Head(q), op)
           /\ Allowed(t, op, blocks, wb) /\ T[at[1]] = After(t, op) /\ Same(s, T[r], t)
           /\ op.do \in {"wait", "record"} => Head(q).count = RecordsOf(After(t, op), op.event)
           /\ at[1] \in 0 .. Len(p) /\ r \in 0 .. Len(p)
PROOF
<1>1. /\ Len(p) \in Nat /\ n \in Nat /\ T \in [0 .. Len(p) -> Tally] /\ Trace(p, T, blocks, wb)
      /\ \A x \in 1 .. Len(p) : WellMade(p[x])
      /\ \A x \in 1 .. Len(p) : Allowed(T[x - 1], p[x], blocks, wb) /\ T[x] = After(T[x - 1], p[x])
  BY ProgramLength DEF Planned, Trace
<1> DEFINE x == at[1]
<1>2. /\ x \in r + 1 .. n /\ Stands(Head(q), p[x]) /\ Mine(p[x], s)
      /\ p[x].do \in {"wait", "record"} => Head(q).count = RecordsOf(T[x], p[x].event)
      /\ \A y \in r + 1 .. x - 1 : ~Mine(p[y], s)
  BY <1>1, HeadOf
<1> HIDE DEF x
<1>3. r \in 0 .. n
  BY DEF Behind
<1>4. /\ x \in 1 .. Len(p) /\ x \in 0 .. Len(p) /\ r \in 0 .. Len(p)
      /\ x - 1 \in 0 .. Len(p) /\ x - 1 \in r .. Len(p)
  BY <1>1, <1>2, <1>3
<1>5. Same(s, T[r], T[x - 1])
  BY <1>1, <1>2, <1>4, LeftAlone
<1>6. T[x - 1] \in Tally /\ Allowed(T[x - 1], p[x], blocks, wb) /\ T[x] = After(T[x - 1], p[x])
      /\ WellMade(p[x])
  BY <1>1, <1>4
<1> QED
  BY <1>2, <1>4, <1>5, <1>6 DEF x

\* The head of a stream is done: the records it completes and the result it copies back
\* are what the program counts there.
LEMMA CountedOn ==
  ASSUME NEW t \in Tally, NEW u \in Tally, NEW s \in Streams, Same(s, u, t),
         NEW op, WellMade(op), Mine(op, s), NEW blocks, NEW wb, Allowed(t, op, blocks, wb),
         NEW dn \in [Events -> Nat], \A e \in Events : Home(e) = s => dn[e] = RecordsOf(u, e),
         NEW dn2,
         dn2 = IF op.do = "record"
               THEN [dn EXCEPT ![op.event] = RecordsOf(After(t, op), op.event)] ELSE dn
  PROVE  \A e \in Events :
           dn2[e] = IF Home(e) = s THEN RecordsOf(After(t, op), e) ELSE dn[e]
PROOF
<1>1. \A e \in Events : Home(e) = s => RecordsOf(u, e) = RecordsOf(t, e)
  BY DEF Same, Home, RecordsOf, Events
<1>2. \A e \in Events : /\ RecordsOf(t, e) \in Nat
                        /\ RecordsOf(After(t, op), e) = RecordsOf(t, e) + One(op.do = "record" /\ op.event = e)
  BY RecordCounted
<1>3. \A e \in Events : ~(op.do = "record" /\ op.event = e) => RecordsOf(After(t, op), e) = RecordsOf(t, e)
  BY <1>2 DEF One
<1>4. CASE op.do = "record"
  <2>1. op.event \in Events /\ Home(op.event) = s
    BY <1>4 DEF WellMade, Mine
  <2> DEFINE c == RecordsOf(After(t, op), op.event)
  <2>2. dn2 = [dn EXCEPT ![op.event] = c]
    BY <1>4
  <2> HIDE DEF c
  <2>3. \A e \in Events : dn2[e] = IF e = op.event THEN c ELSE dn[e]
    BY <2>1, <2>2
  <2> QED
    BY <1>1, <1>3, <2>1, <2>3 DEF c
<1>5. CASE op.do # "record"
  BY <1>1, <1>3, <1>5
<1> QED
  BY <1>4, <1>5

\* A step of the copy stream, which is at u and then at v; c blocks are computed.
LEMMA CopyStreamMoves ==
  ASSUME NEW t \in Tally, NEW u \in Tally, Same("copy", u, t),
         NEW op, WellMade(op), Mine(op, "copy"), NEW blocks, NEW wb, Allowed(t, op, blocks, wb),
         NEW c \in Nat, u.seen <= c, wb => u.loads <= u.drains + NSLOT,
         op.do = "wait" => Turns(c, op.event[2]) >= Turns(t.comps, op.event[2])
  PROVE  LET v == After(t, op)
         IN /\ v.drains = u.drains + One(IsDrain(op)) /\ v.seen <= c
            /\ wb => v.loads <= v.drains + NSLOT
            /\ u.loads <= v.loads
            /\ PassStep(blocks, wb, u.loads, c, u.drains, v.loads, c, v.drains)
PROOF
<1> DEFINE v == After(t, op)
<1>1. /\ v.loads = t.loads + One(IsLoad(op))
      /\ v.drains = t.drains + One(IsDrain(op))
      /\ v.seen = IF op.do = "wait" /\ op.on = "copy" THEN Owed(t.comps, op.event[2]) ELSE t.seen
  BY AfterTyped
<1> HIDE DEF v
<1>2. t.loads = u.loads /\ t.drains = u.drains /\ t.seen = u.seen /\ op.on = "copy"
  BY DEF Same, Mine
<1>3. u.loads \in Nat /\ u.drains \in Nat /\ u.seen \in Nat /\ t.comps \in Nat
  BY DEF Tally
<1>4. v.seen <= c
  <2>1. CASE op.do = "wait"
    <3>1. op.event[2] \in Slots
      BY <2>1 DEF WellMade, Events
    <3>2. Owed(t.comps, op.event[2]) <= c
      BY <1>3, <2>1, <3>1, DealtInTurn
    <3> QED
      BY <1>1, <1>2, <2>1, <3>2
  <2>2. CASE op.do # "wait"
    BY <1>1, <1>2, <2>2
  <2> QED
    BY <2>1, <2>2
<1>5. ~(IsLoad(op) /\ IsDrain(op))
  BY DEF IsLoad, IsDrain, Data
<1>6. NSLOT = 2
  BY DEF NSLOT
<1>7. CASE IsLoad(op)
  <2>1. v.loads = u.loads + 1 /\ v.drains = u.drains /\ One(IsDrain(op)) = 0
    BY <1>1, <1>2, <1>3, <1>5, <1>7 DEF One
  <2>2. u.loads < blocks /\ u.loads < u.seen + NSLOT /\ (wb => u.loads < u.drains + NSLOT)
    BY <1>2, <1>7 DEF Allowed
  <2>3. c > u.loads - NSLOT /\ (wb => u.drains > u.loads - NSLOT)
    BY <1>3, <1>6, <2>2
  <2>4. PassStep(blocks, wb, u.loads, c, u.drains, v.loads, c, v.drains)
    BY <2>1, <2>2, <2>3 DEF PassStep
  <2>5. wb => v.loads <= v.drains + NSLOT
    BY <1>3, <1>6, <2>1, <2>2
  <2>6. u.loads <= v.loads /\ v.drains = u.drains + One(IsDrain(op))
    BY <1>3, <2>1
  <2> QED
    BY <1>4, <2>4, <2>5, <2>6 DEF v
<1>8. CASE IsDrain(op)
  <2>1. v.loads = u.loads /\ v.drains = u.drains + 1 /\ One(IsDrain(op)) = 1
    BY <1>1, <1>2, <1>3, <1>5, <1>8 DEF One
  <2>2. wb /\ u.drains < u.seen
    BY <1>2, <1>8 DEF Allowed
  <2>3. u.drains < c
    BY <1>3, <2>2
  <2>4. PassStep(blocks, wb, u.loads, c, u.drains, v.loads, c, v.drains)
    BY <2>1, <2>2, <2>3 DEF PassStep
  <2>5. v.loads <= v.drains + NSLOT /\ u.loads <= v.loads
    BY <1>3, <1>6, <2>1, <2>2
  <2> QED
    BY <1>4, <2>1, <2>4, <2>5 DEF v
<1>9. CASE ~IsLoad(op) /\ ~IsDrain(op)
  <2>1. v.loads = u.loads /\ v.drains = u.drains /\ One(IsDrain(op)) = 0
    BY <1>1, <1>2, <1>3, <1>9 DEF One
  <2>2. u.loads <= v.loads /\ v.drains = u.drains + One(IsDrain(op))
    BY <1>3, <2>1
  <2>3. PassStep(blocks, wb, u.loads, c, u.drains, v.loads, c, v.drains)
    BY <2>1 DEF PassStep
  <2> QED
    BY <1>4, <2>1, <2>2, <2>3 DEF v
<1> QED
  BY <1>7, <1>8, <1>9

\* A step of the compute stream, which is at u and then at v; l blocks are loaded and d
\* results copied back.
LEMMA ComputeStreamMoves ==
  ASSUME NEW t \in Tally, NEW u \in Tally, Same("compute", u, t),
         NEW op, WellMade(op), Mine(op, "compute"), NEW blocks, NEW wb, Allowed(t, op, blocks, wb),
         NEW l \in Nat, NEW d \in Nat, u.ready <= l, wb => l <= d + NSLOT,
         op.do = "wait" => Turns(l, op.event[2]) >= Turns(t.loads, op.event[2])
  PROVE  LET v == After(t, op)
         IN /\ ~IsDrain(op) /\ v.ready <= l /\ u.comps <= v.comps
            /\ PassStep(blocks, wb, l, u.comps, d, l, v.comps, d)
PROOF
<1> DEFINE v == After(t, op)
<1>1. /\ v.comps = t.comps + One(IsCompute(op))
      /\ v.ready = IF op.do = "wait" /\ op.on = "compute" THEN Owed(t.loads, op.event[2]) ELSE t.ready
  BY AfterTyped
<1> HIDE DEF v
<1>2. t.comps = u.comps /\ t.ready = u.ready /\ op.on = "compute"
  BY DEF Same, Mine
<1>3. u.comps \in Nat /\ u.ready \in Nat /\ t.loads \in Nat
  BY DEF Tally
<1>4. v.ready <= l
  <2>1. CASE op.do = "wait"
    <3>1. op.event[2] \in Slots
      BY <2>1 DEF WellMade, Events
    <3>2. Owed(t.loads, op.event[2]) <= l
      BY <1>3, <2>1, <3>1, DealtInTurn
    <3> QED
      BY <1>1, <1>2, <2>1, <3>2
  <2>2. CASE op.do # "wait"
    BY <1>1, <1>2, <2>2
  <2> QED
    BY <2>1, <2>2
<1>5. ~IsDrain(op)
  BY <1>2 DEF Allowed
<1>6. NSLOT = 2
  BY DEF NSLOT
<1>7. CASE IsCompute(op)
  <2>1. v.comps = u.comps + 1 /\ u.comps < u.ready
    BY <1>1, <1>2, <1>7 DEF One, Allowed
  <2>2. u.comps < l /\ (wb => d > u.comps - NSLOT) /\ u.comps <= v.comps
    BY <1>3, <1>6, <2>1
  <2> QED
    BY <1>4, <1>5, <2>1, <2>2 DEF PassStep, v
<1>8. CASE ~IsCompute(op)
  <2>1. v.comps = u.comps
    BY <1>1, <1>2, <1>3, <1>8 DEF One
  <2> QED
    BY <1>3, <1>4, <1>5, <2>1 DEF PassStep, v
<1> QED
  BY <1>7, <1>8

\* Whether the end of an item copies a result back.
CopiesBack(item) == item.do \notin {"wait", "record"} /\ item.writes \cap HostArrays # {}

\* The head of stream s is done: q, the completed records dn and the drained results dr
\* become q2, dn2 and dr2.
Moved(s, head, q, dn, dr, q2, dn2, dr2) ==
  /\ head = Head(q[s])
  /\ head.do = "wait" => dn[head.event] >= head.count
  /\ \A z \in Streams : q2[z] = IF z = s THEN Tail(q[s]) ELSE q[z]
  /\ dn2 = IF head.do = "record" THEN [dn EXCEPT ![head.event] = head.count] ELSE dn
  /\ dr2 = dr + One(CopiesBack(head))

\* The head of stream s is done.
LEMMA StagedTail ==
  ASSUME NEW p, NEW T, NEW blocks, NEW wb, Planned(p, T, blocks, wb), NEW n \in 0 .. Len(p),
         NEW q, NEW at, NEW r, NEW rec, NEW dn \in [Events -> Nat], NEW dr,
         Staged(p, T, n, q, at, r, rec, dn, dr, wb),
         NEW s \in Streams, q[s] # <<>>, NEW head, NEW q2, NEW dn2, NEW dr2,
         Moved(s, head, q, dn, dr, q2, dn2, dr2)
  PROVE  /\ \E a2, r2 : Staged(p, T, n, q2, a2, r2, rec, dn2, dr2, wb)
         /\ PassStep(blocks, wb, Told(dn, "copyDone"), Told(dn, "computeDone"), dr,
                     Told(dn2, "copyDone"), Told(dn2, "computeDone"), dr2)
PROOF
<1>1. head = Head(q[s])
  BY DEF Moved
<1>2. head.do = "wait" => dn[head.event] >= head.count
  BY DEF Moved
<1>3. /\ \A z \in Streams : q2[z] = IF z = s THEN Tail(q[s]) ELSE q[z]
      /\ dn2 = IF head.do = "record" THEN [dn EXCEPT ![head.event] = head.count] ELSE dn
      /\ dr2 = dr + One(CopiesBack(head))
  BY DEF Moved
<1>4. /\ Len(p) \in Nat /\ n \in Nat /\ T \in [0 .. Len(p) -> Tally]
  BY ProgramLength DEF Planned, Trace
<1>5. \A z \in Streams : Behind(p, T, n, z, q[z], at[z], r[z])
  BY DEF Staged
<1> DEFINE x == at[s][1]
           v == T[x]
           u == T[r[s]]
<1>6. \E t \in Tally : \E op :
        /\ WellMade(op) /\ Mine(op, s) /\ Stands(Head(q[s]), op)
        /\ Allowed(t, op, blocks, wb) /\ v = After(t, op) /\ Same(s, u, t)
        /\ op.do \in {"wait", "record"} => Head(q[s]).count = RecordsOf(After(t, op), op.event)
        /\ x \in 0 .. Len(p) /\ r[s] \in 0 .. Len(p)
  <2>1. Behind(p, T, n, s, q[s], at[s], r[s])
    BY <1>5
  <2> DEFINE w == q[s]
             a == at[s]
             b == r[s]
  <2>2. Behind(p, T, n, s, w, a, b) /\ w # <<>>
    BY <2>1
  <2> HIDE DEF w, a, b
  <2>3. \E t \in Tally : \E op :
           /\ WellMade(op) /\ Mine(op, s) /\ Stands(Head(w), op)
           /\ Allowed(t, op, blocks, wb) /\ T[a[1]] = After(t, op) /\ Same(s, T[b], t)
           /\ op.do \in {"wait", "record"} => Head(w).count = RecordsOf(After(t, op), op.event)
           /\ a[1] \in 0 .. Len(p) /\ b \in 0 .. Len(p)
    BY <2>2, NextOf
  <2> QED
    BY <2>3 DEF w, a, b
<1>7. PICK t \in Tally : \E op :
        /\ WellMade(op) /\ Mine(op, s) /\ Stands(Head(q[s]), op)
        /\ Allowed(t, op, blocks, wb) /\ v = After(t, op) /\ Same(s, u, t)
        /\ op.do \in {"wait", "record"} => Head(q[s]).count = RecordsOf(After(t, op), op.event)
        /\ x \in 0 .. Len(p) /\ r[s] \in 0 .. Len(p)
  BY <1>6
<1>8. PICK op :
        /\ WellMade(op) /\ Mine(op, s) /\ Stands(head, op)
        /\ Allowed(t, op, blocks, wb) /\ v = After(t, op) /\ Same(s, u, t)
        /\ op.do \in {"wait", "record"} => head.count = RecordsOf(After(t, op), op.event)
        /\ x \in 0 .. Len(p) /\ r[s] \in 0 .. Len(p)
  BY <1>1, <1>7
<1>9. PICK a2 : Behind(p, T, n, s, Tail(q[s]), a2, x)
  <2>1. \E a2 : Behind(p, T, n, s, Tail(q[s]), a2, at[s][1])
    <3>1. Behind(p, T, n, s, q[s], at[s], r[s])
      BY <1>5
    <3> QED
      BY <1>4, <3>1, BehindTail
  <2> QED
    BY <2>1, Zenon
<1> DEFINE at2 == [z \in Streams |-> IF z = s THEN a2 ELSE at[z]]
           r2 == [z \in Streams |-> IF z = s THEN x ELSE r[z]]
<1>10. \A z \in Streams : /\ at2[z] = IF z = s THEN a2 ELSE at[z]
                         /\ r2[z] = IF z = s THEN x ELSE r[z]
  BY Zenon
<1>11. v \in Tally /\ u \in Tally
  BY <1>4, <1>8
<1> HIDE DEF at2, r2, x, v, u
<1>12. \A z \in Streams : Behind(p, T, n, z, q2[z], at2[z], r2[z])
  <2>1. SUFFICES ASSUME NEW z \in Streams PROVE Behind(p, T, n, z, q2[z], at2[z], r2[z])
    OBVIOUS
  <2>2. CASE z = s
    BY <1>3, <1>9, <1>10, <2>2
  <2>3. CASE z # s
    <3>1. q2[z] = q[z] /\ at2[z] = at[z] /\ r2[z] = r[z]
      BY <1>3, <1>10, <2>3
    <3> QED
      BY <1>5, <3>1
  <2> QED
    BY <2>2, <2>3
<1>13. \A e \in Events : Home(e) \in Streams /\ dn[e] = RecordsOf(T[r[Home(e)]], e)
  BY DEF Staged, Home, Streams
<1>14. \A e \in Events : dn2[e] = IF Home(e) = s THEN RecordsOf(v, e) ELSE dn[e]
  <2>1. \A e \in Events : Home(e) = s => dn[e] = RecordsOf(u, e)
    BY <1>13 DEF u
  <2>2. dn2 = IF op.do = "record"
              THEN [dn EXCEPT ![op.event] = RecordsOf(After(t, op), op.event)] ELSE dn
    <3>1. head.do = op.do /\ (op.do = "record" => head.event = op.event)
      BY <1>8 DEF Stands
    <3>2. op.do = "record" => head.count = RecordsOf(After(t, op), op.event)
      BY <1>8
    <3> QED
      BY <1>3, <3>1, <3>2
  <2>3. \A e \in Events : dn2[e] = IF Home(e) = s THEN RecordsOf(After(t, op), e) ELSE dn[e]
    BY <1>8, <1>11, <2>1, <2>2, CountedOn
  <2> QED
    BY <1>8, <2>3
<1>15. \A e \in Events : dn2[e] = RecordsOf(T[r2[Home(e)]], e)
  BY <1>10, <1>13, <1>14 DEF v
<1>16. \A e \in Events : rec[e] = RecordsOf(T[n], e)
  BY DEF Staged
<1>17. One(CopiesBack(head)) = One(IsDrain(op))
  <2>1. CASE op.do \in {"wait", "record"}
    BY <1>8, <2>1 DEF Stands, CopiesBack, IsDrain, Data, One
  <2>2. CASE op.do \notin {"wait", "record"}
    BY <1>8, <2>2 DEF Stands, CopiesBack, IsDrain, Data, Mine, One
  <2> QED
    BY <2>1, <2>2
<1>18. op.do = "wait" => /\ op.event \in Events
                         /\ dn[op.event] >= RecordsOf(After(t, op), op.event)
                         /\ RecordsOf(After(t, op), op.event) = RecordsOf(t, op.event)
  <2>1. SUFFICES ASSUME op.do = "wait"
                 PROVE  /\ op.event \in Events
                        /\ dn[op.event] >= RecordsOf(After(t, op), op.event)
                        /\ RecordsOf(After(t, op), op.event) = RecordsOf(t, op.event)
    OBVIOUS
  <2>2. op.event \in Events /\ head.do = "wait" /\ head.event = op.event
        /\ head.count = RecordsOf(After(t, op), op.event)
    BY <1>8, <2>1 DEF Stands, WellMade
  <2>3. /\ RecordsOf(t, op.event) \in Nat
        /\ RecordsOf(After(t, op), op.event) = RecordsOf(t, op.event) + One(op.do = "record" /\ op.event = op.event)
    BY <1>8, <2>2, RecordCounted
  <2>4. One(op.do = "record" /\ op.event = op.event) = 0
    BY <2>1 DEF One
  <2>5. RecordsOf(After(t, op), op.event) = RecordsOf(t, op.event)
    BY <2>3, <2>4
  <2> QED
    BY <1>2, <2>2, <2>5
<1> DEFINE c == T[r["copy"]]
           k == T[r["compute"]]
<1>19. /\ dr = c.drains /\ c.seen <= k.comps /\ k.ready <= c.loads
       /\ wb => c.loads <= c.drains + NSLOT
  BY DEF Staged
<1>20. c \in Tally /\ k \in Tally
  <2>1. "copy" \in Streams /\ "compute" \in Streams
    BY DEF Streams
  <2>2. \A z \in Streams : r[z] \in 0 .. Len(p)
    BY <1>4, <1>5 DEF Behind
  <2> QED
    BY <1>4, <2>1, <2>2
<1>21. Told(dn, "copyDone") = c.loads /\ Told(dn, "computeDone") = k.comps
  BY <1>13, <1>20, ToldOf
<1> HIDE DEF c, k
<1>22. c.loads \in Nat /\ c.drains \in Nat /\ k.comps \in Nat
  BY <1>20 DEF Tally
<1>23. s = "copy" \/ s = "compute"
  BY DEF Streams
<1>24. CASE s = "copy"
  <2>1. u = c /\ T[r2["copy"]] = v /\ T[r2["compute"]] = k
    BY <1>10, <1>24 DEF u, c, v, k, Streams
  <2>2. op.do = "wait" => Turns(k.comps, op.event[2]) >= Turns(t.comps, op.event[2])
    <3>1. SUFFICES ASSUME op.do = "wait"
                   PROVE  Turns(k.comps, op.event[2]) >= Turns(t.comps, op.event[2])
      OBVIOUS
    <3>2. op.event \in Events /\ op.event[1] = "computeDone"
      BY <1>8, <1>18, <1>24, <3>1 DEF Allowed, Mine
    <3>3. dn[op.event] = RecordsOf(k, op.event)
      BY <1>13, <3>2 DEF Home, k
    <3>4. /\ RecordsOf(k, op.event) = Turns(k.comps, op.event[2])
          /\ RecordsOf(t, op.event) = Turns(t.comps, op.event[2])
      BY <3>2 DEF RecordsOf
    <3> QED
      BY <1>18, <3>1, <3>3, <3>4
  <2>3. /\ v.drains = c.drains + One(IsDrain(op)) /\ v.seen <= k.comps
        /\ wb => v.loads <= v.drains + NSLOT
        /\ c.loads <= v.loads
        /\ PassStep(blocks, wb, c.loads, k.comps, c.drains, v.loads, k.comps, v.drains)
    <3>1. Same("copy", c, t) /\ Mine(op, "copy")
      BY <1>8, <1>24, <2>1
    <3>2. LET w == After(t, op)
          IN /\ w.drains = c.drains + One(IsDrain(op)) /\ w.seen <= k.comps
             /\ wb => w.loads <= w.drains + NSLOT
             /\ c.loads <= w.loads
             /\ PassStep(blocks, wb, c.loads, k.comps, c.drains, w.loads, k.comps, w.drains)
      BY <1>8, <1>19, <1>20, <1>22, <2>2, <3>1, CopyStreamMoves
    <3> QED
      BY <1>8, <3>2
  <2>4. dr2 = v.drains
    BY <1>3, <1>17, <1>19, <2>3
  <2>5. Told(dn2, "copyDone") = v.loads /\ Told(dn2, "computeDone") = k.comps
    <3>1. \A e \in Events : Home(e) = "copy" => dn2[e] = RecordsOf(v, e)
      BY <1>15, <2>1
    <3>2. \A e \in Events : Home(e) = "compute" => dn2[e] = RecordsOf(k, e)
      BY <1>15, <2>1
    <3>3. Told(dn2, "copyDone") = v.loads
      BY <1>11, <1>20, <3>1, ToldOf
    <3>4. Told(dn2, "computeDone") = k.comps
      BY <1>11, <1>20, <3>2, ToldOf
    <3> QED
      BY <3>3, <3>4
  <2>6. k.ready \in Nat /\ v.loads \in Nat
    BY <1>11, <1>20 DEF Tally
  <2>7. k.ready <= v.loads
    BY <1>19, <1>22, <2>3, <2>6
  <2>8. Staged(p, T, n, q2, at2, r2, rec, dn2, dr2, wb)
    BY <1>12, <1>15, <1>16, <2>1, <2>3, <2>4, <2>7 DEF Staged
  <2>9. PassStep(blocks, wb, Told(dn, "copyDone"), Told(dn, "computeDone"), dr,
                 Told(dn2, "copyDone"), Told(dn2, "computeDone"), dr2)
    BY <1>19, <1>21, <2>3, <2>4, <2>5
  <2> QED
    BY <2>8, <2>9, Zenon
<1>25. CASE s = "compute"
  <2>1. u = k /\ T[r2["copy"]] = c /\ T[r2["compute"]] = v
    BY <1>10, <1>25 DEF u, c, v, k, Streams
  <2>2. op.do = "wait" => Turns(c.loads, op.event[2]) >= Turns(t.loads, op.event[2])
    <3>1. SUFFICES ASSUME op.do = "wait"
                   PROVE  Turns(c.loads, op.event[2]) >= Turns(t.loads, op.event[2])
      OBVIOUS
    <3>2. op.event \in Events /\ op.event[1] = "copyDone"
      BY <1>8, <1>18, <1>25, <3>1 DEF Allowed, Mine
    <3>3. dn[op.event] = RecordsOf(c, op.event)
      BY <1>13, <3>2 DEF Home, c
    <3>4. /\ RecordsOf(c, op.event) = Turns(c.loads, op.event[2])
          /\ RecordsOf(t, op.event) = Turns(t.loads, op.event[2])
      BY <3>2 DEF RecordsOf
    <3> QED
      BY <1>18, <3>1, <3>3, <3>4
  <2>3. /\ ~IsDrain(op) /\ v.ready <= c.loads /\ k.comps <= v.comps
        /\ PassStep(blocks, wb, c.loads, k.comps, c.drains, c.loads, v.comps, c.drains)
    <3>1. Same("compute", k, t) /\ Mine(op, "compute")
      BY <1>8, <1>25, <2>1
    <3>2. LET w == After(t, op)
          IN /\ ~IsDrain(op) /\ w.ready <= c.loads /\ k.comps <= w.comps
             /\ PassStep(blocks, wb, c.loads, k.comps, c.drains, c.loads, w.comps, c.drains)
      BY <1>8, <1>19, <1>20, <1>22, <2>2, <3>1, ComputeStreamMoves
    <3> QED
      BY <1>8, <3>2
  <2>4. dr2 = c.drains
    BY <1>3, <1>17, <1>19, <1>22, <2>3 DEF One
  <2>5. Told(dn2, "copyDone") = c.loads /\ Told(dn2, "computeDone") = v.comps
    <3>1. \A e \in Events : Home(e) = "copy" => dn2[e] = RecordsOf(c, e)
      BY <1>15, <2>1
    <3>2. \A e \in Events : Home(e) = "compute" => dn2[e] = RecordsOf(v, e)
      BY <1>15, <2>1
    <3>3. Told(dn2, "copyDone") = c.loads
      BY <1>11, <1>20, <3>1, ToldOf
    <3>4. Told(dn2, "computeDone") = v.comps
      BY <1>11, <1>20, <3>2, ToldOf
    <3> QED
      BY <3>3, <3>4
  <2>6. c.seen \in Nat /\ v.comps \in Nat
    BY <1>11, <1>20 DEF Tally
  <2>7. c.seen <= v.comps
    BY <1>19, <1>22, <2>3, <2>6
  <2>8. Staged(p, T, n, q2, at2, r2, rec, dn2, dr2, wb)
    BY <1>12, <1>15, <1>16, <1>19, <2>1, <2>3, <2>4, <2>7 DEF Staged
  <2>9. PassStep(blocks, wb, Told(dn, "copyDone"), Told(dn, "computeDone"), dr,
                 Told(dn2, "copyDone"), Told(dn2, "computeDone"), dr2)
    BY <1>19, <1>21, <2>3, <2>4, <2>5
  <2> QED
    BY <2>8, <2>9, Zenon
<1> QED
  BY <1>23, <1>24, <1>25

(***************************************************************************)
(* The steps of the passes.                                                *)
(***************************************************************************)

\* The host is at place n of the program p, and the streams are where r tells.
Piped(p, T, n, at, r) ==
  /\ Planned(p, T, BlocksOf(call), WritesBack(call))
  /\ n \in 0 .. Len(p) /\ todo = Rest(p, n)
  /\ Staged(p, T, n, queue, at, r, recorded, done, drained, WritesBack(call))

\* Between two entries nothing is counted, and in an entry it is what its program counts.
PipeInv ==
  /\ call = None => (\A e \in Events : recorded[e] = 0 /\ done[e] = 0) /\ drained = 0
  /\ call # None => \E p, T, n, at, r : Piped(p, T, n, at, r)

\* What a step must be of BlockPipeline.
AsPipeline == [Pipeline!Next]_(Pipeline!vars)

\* A step within a pass.
LEMMA PassStepped ==
  ASSUME call' = call, ctx' = ctx,
         PassStep(BlocksOf(call), WritesBack(call), Told(done, "copyDone"), Told(done, "computeDone"),
                  drained, Told(done', "copyDone"), Told(done', "computeDone"), drained')
  PROVE  AsPipeline
PROOF
<1> DEFINE l == Told(done, "copyDone")
           c == Told(done, "computeDone")
           l2 == Told(done', "copyDone")
           c2 == Told(done', "computeDone")
<1>1. Completed("copyDone") = l /\ Completed("computeDone") = c
  BY DEF Completed, Told
<1>2. Completed("copyDone")' = l2 /\ Completed("computeDone")' = c2
  BY DEF Completed, Told
<1>3. BlocksOf(call)' = BlocksOf(call)
  BY DEF BlocksOf
<1>4. WritesBack(call)' = WritesBack(call)
      /\ WritesBack(call) = (call # None /\ call.op \in {"filter", "spmmv", "update"})
  BY DEF WritesBack
<1> QED
  BY <1>1, <1>2, <1>3, <1>4 DEF PassStep, AsPipeline, Pipeline!Next, Pipeline!vars, Pipeline!Load,
     Pipeline!Compute, Pipeline!Drain

\* A step of nothing that is counted.
LEMMA NothingCounted ==
  ASSUME call' = call, done' = done, drained' = drained, ctx' = ctx \/ call = None
  PROVE  AsPipeline
PROOF
<1>1. BlocksOf(call)' = BlocksOf(call)
  BY DEF BlocksOf
<1>2. Completed("copyDone")' = Completed("copyDone") /\ Completed("computeDone")' = Completed("computeDone")
  BY DEF Completed
<1> QED
  BY <1>1, <1>2 DEF AsPipeline, Pipeline!vars

\* Between two entries BlockPipeline has an empty pass behind it.
LEMMA NothingTold ==
  ASSUME PipeInv, call = None
  PROVE  /\ Told(done, "copyDone") = 0 /\ Told(done, "computeDone") = 0 /\ drained = 0
         /\ BlocksOf(call) = 0 /\ WritesBack(call) = FALSE
PROOF
BY DEF PipeInv, Told, BlocksOf, WritesBack, Events, Slots, NSLOT

\* At first nothing is done.
LEMMA InitPiped == Init => PipeInv /\ Pipeline!Init
PROOF
<1> SUFFICES ASSUME Init PROVE PipeInv /\ Pipeline!Init
  OBVIOUS
<1>1. PipeInv
  BY DEF Init, PipeInv
<1>2. call = None
  BY DEF Init
<1>3. Completed("copyDone") = 0 /\ Completed("computeDone") = 0 /\ drained = 0 /\ BlocksOf(call) = 0
  BY <1>1, <1>2, NothingTold DEF Completed, Told
<1> QED
  BY <1>1, <1>2, <1>3 DEF Pipeline!Init

\* gpu_vstream_init and gpu_vstream_free.
LEMMA ContextsPipe ==
  ASSUME StreamInv, PipeInv, VStreamInit \/ VStreamFree
  PROVE  PipeInv' /\ AsPipeline
PROOF
<1>1. /\ call' = call /\ recorded' = recorded /\ done' = done /\ drained' = drained
      /\ call = None
  BY DEF StreamInv, VStreamInit, VStreamFree
<1>2. AsPipeline
  BY <1>1, NothingCounted
<1> QED
  BY <1>1, <1>2 DEF PipeInv

\* The start of an entry.
LEMMA EnterPipes ==
  ASSUME StreamInv, PipeInv, Enter
  PROVE  PipeInv' /\ AsPipeline
PROOF
<1>1. PICK c \in Calls(ctx.NS) :
        /\ call' = [op |-> c.op, m |-> c.m, out |-> c.out, np |-> c.np, useB |-> c.useB,
                    id |-> calls + 1]
        /\ calls' = calls + 1
  BY Zenon DEF Enter
<1>2. ctx # None /\ call = None /\ ctx' = ctx /\ queue' = queue /\ recorded' = recorded
      /\ done' = done /\ drained' = drained /\ todo' = Program(call')
  BY Zenon DEF Enter
<1>3. c \in [op : Passes, m : 1 .. ctx.NS, out : Nat, np : 2 .. Degree, useB : BOOLEAN]
  <2>1. PICK x \in Contexts : ctx.NS = x.NS
    BY <1>2 DEF StreamInv, ContextMade
  <2> QED
    BY <2>1, CallsAssumption
<1>4. calls \in Nat /\ ctx.NS \in Nat
  BY <1>2, CallsAssumption DEF StreamInv, Counters, ContextMade
<1>5. /\ c.op \in Passes /\ c.m \in Nat \ {0} /\ c.out \in Nat /\ c.np \in Nat \ {0, 1}
      /\ c.useB \in BOOLEAN
  BY <1>3, <1>4, CoefficientsAssumption
<1>6. call' # None
  <2>1. call' \in [op : Passes, m : Nat, out : Nat, np : Nat, useB : BOOLEAN, id : Nat]
    BY <1>1, <1>4, <1>5
  <2> QED
    BY <2>1, CallsAssumption
<1>7. CallOK(call')
  BY <1>1, <1>5 DEF CallOK, Passes
<1>8. ContextOK
  BY <1>2 DEF StreamInv, ContextMade, ContextOK
<1> DEFINE k == call'
           n == BlocksOf(k)
           wb == WritesBack(k)
<1>9. CallOK(k) /\ k # None
  BY <1>6, <1>7
<1> HIDE DEF k
<1>10. Streamed(Program(k), n, wb) /\ SoundProgram(Program(k))
  BY <1>8, <1>9, EveryProgramStreams, EveryProgramIsSound
<1>11. PICK p : p = Program(k)
  BY Zenon
<1>12. \A x \in 1 .. Len(p) : WellMade(p[x])
  BY <1>10, <1>11 DEF SoundProgram, Guarded, GuardedAt
<1>13. PICK t : Runs(p, Count(0, 0, 0, 0, 0), t, n, wb)
               /\ t.loads = n /\ t.comps = n /\ t.drains = (IF wb THEN n ELSE 0)
  BY <1>10, <1>11, Zenon DEF Streamed
<1>14. PICK T : Trace(p, T, n, wb) /\ T[0] = Count(0, 0, 0, 0, 0) /\ T[Len(p)] = t
  BY <1>13, Zenon DEF Runs
<1>15. Planned(p, T, n, wb)
  BY <1>12, <1>13, <1>14 DEF Planned
<1>16. \A s \in Streams : queue[s] = <<>>
  BY <1>2 DEF StreamInv, Idle
<1>17. /\ \A e \in Events : recorded[e] = 0 /\ done[e] = 0
       /\ drained = 0
  BY <1>2 DEF PipeInv
<1> HIDE DEF n, wb
<1>18. PICK at, r : Staged(p, T, 0, queue, at, r, recorded, done, 0, wb)
  <2>1. \E at, r : Staged(p, T, 0, queue, at, r, recorded, done, 0, wb)
    BY <1>15, <1>16, <1>17, StagedFirst
  <2> QED
    BY <2>1, Zenon
<1>19. IsProgram(p) /\ Len(p) \in Nat
  BY <1>14, ProgramLength DEF Trace
<1>20. 0 \in 0 .. Len(p) /\ Rest(p, 0) = p
  BY <1>19, RestOf
<1>21. BlocksOf(call)' = n /\ WritesBack(call)' = wb /\ call' = k
  BY <1>2 DEF n, wb, k, BlocksOf, WritesBack
<1>22. Piped(p, T, 0, at, r)'
  BY <1>2, <1>11, <1>15, <1>17, <1>18, <1>20, <1>21 DEF Piped
<1>23. PipeInv'
  BY <1>9, <1>21, <1>22, Zenon DEF PipeInv
<1>24. AsPipeline
  <2>1. n \in Nat
    <3>1. T \in [0 .. Len(p) -> Tally] /\ Len(p) \in 0 .. Len(p)
      BY <1>14, <1>19 DEF Trace
    <3>2. T[Len(p)].loads \in Nat
      BY <3>1 DEF Tally
    <3> QED
      BY <1>13, <1>14, <3>2
  <2>2. /\ Told(done, "copyDone") = 0 /\ Told(done, "computeDone") = 0
        /\ BlocksOf(call) = 0 /\ WritesBack(call) = FALSE
    BY <1>2, NothingTold
  <2>3. /\ Completed("copyDone") = 0 /\ Completed("computeDone") = 0
        /\ Completed("copyDone")' = 0 /\ Completed("computeDone")' = 0 /\ drained' = 0
    BY <1>2, <1>17, <2>2 DEF Completed, Told
  <2>4. BlocksOf(call)' \in Nat
    BY <1>21, <2>1
  <2>5. Pipeline!Complete /\ Pipeline!Begin
    BY <1>2, <1>17, <2>2, <2>3, <2>4 DEF Pipeline!Complete, Pipeline!Begin
  <2> QED
    BY <2>5 DEF AsPipeline, Pipeline!Next
<1> QED
  BY <1>23, <1>24

\* The program that is under way.
LEMMA PipedIn ==
  ASSUME PipeInv, call # None
  PROVE  \E p, T, n, at, r :
           /\ Piped(p, T, n, at, r) /\ IsProgram(p) /\ Len(p) \in Nat
           /\ n \in 0 .. Len(p) /\ n \in Nat /\ todo = Rest(p, n)
PROOF
<1>1. PICK p, T, n, at, r : Piped(p, T, n, at, r)
  BY Zenon DEF PipeInv
<1>2. IsProgram(p)
  BY <1>1 DEF Piped, Planned, Trace
<1>3. Len(p) \in Nat /\ n \in 0 .. Len(p) /\ todo = Rest(p, n)
  BY <1>1, <1>2, ProgramLength DEF Piped
<1>4. n \in Nat
  BY <1>3
<1> QED
  BY <1>1, <1>2, <1>3, <1>4, Zenon

\* The host makes a call of its program.
LEMMA HostPipes ==
  ASSUME StreamInv, PipeInv, todo # <<>>, NEW op, op = Head(todo), NEW item,
         todo' = Tail(todo), ctx' = ctx, call' = call, done' = done, drained' = drained,
         Called(op, queue, recorded, queue', recorded', item)
  PROVE  PipeInv' /\ AsPipeline
PROOF
<1>1. call # None
  BY DEF StreamInv
<1>2. PICK p, T, n, at, r :
        /\ Piped(p, T, n, at, r) /\ IsProgram(p) /\ Len(p) \in Nat
        /\ n \in 0 .. Len(p) /\ n \in Nat /\ todo = Rest(p, n)
  BY <1>1, PipedIn, Zenon
<1>3. n < Len(p) /\ op = p[n + 1] /\ Tail(todo) = Rest(p, n + 1)
  <2>1. n # Len(p)
    BY <1>2, RestOf
  <2>2. n < Len(p)
    BY <1>2, <2>1
  <2> QED
    BY <1>2, <2>2, RestOf
<1> DEFINE b == BlocksOf(call)
           wb == WritesBack(call)
<1>4. Planned(p, T, b, wb) /\ Staged(p, T, n, queue, at, r, recorded, done, drained, wb)
  BY <1>2 DEF Piped
<1>5. b' = b /\ wb' = wb
  BY DEF BlocksOf, WritesBack
<1> HIDE DEF b, wb
<1>6. PICK a2 : Staged(p, T, n + 1, queue', a2, r, recorded', done, drained, wb)
  <2> DEFINE q2 == queue'
             rec2 == recorded'
  <2>1. Called(op, queue, recorded, q2, rec2, item)
    OBVIOUS
  <2> HIDE DEF q2, rec2
  <2>2. \E a2 : Staged(p, T, n + 1, q2, a2, r, rec2, done, drained, wb)
    BY <1>2, <1>3, <1>4, <2>1, StagedOn
  <2> QED
    BY <2>2, Zenon DEF q2, rec2
<1>7. n + 1 \in 0 .. Len(p)
  BY <1>2, <1>3
<1>8. Piped(p, T, n + 1, a2, r)'
  <2>1. BlocksOf(call)' = b /\ WritesBack(call)' = wb
    BY <1>5 DEF b, wb
  <2> QED
    BY <1>3, <1>4, <1>6, <1>7, <2>1 DEF Piped
<1>9. PipeInv'
  BY <1>1, <1>8, Zenon DEF PipeInv
<1>10. AsPipeline
  BY NothingCounted
<1> QED
  BY <1>9, <1>10

\* The host queues an operation.
LEMMA HostQueuesPipes ==
  ASSUME StreamInv, PipeInv, HostQueues
  PROVE  PipeInv' /\ AsPipeline
PROOF
<1> DEFINE op == Head(todo)
           item == Queued(op)
<1>1. /\ todo # <<>> /\ op.on \in Streams /\ op.do # "sync" /\ todo' = Tail(todo)
      /\ queue' = [queue EXCEPT ![op.on] = Append(@, item)]
      /\ recorded' = IF op.do = "record" THEN [recorded EXCEPT ![op.event] = @ + 1] ELSE recorded
      /\ ctx' = ctx /\ call' = call /\ done' = done /\ drained' = drained
  BY Zenon DEF HostQueues
<1>2. /\ recorded \in [Events -> Nat] /\ queue = [s \in Streams |-> queue[s]] /\ call # None
  BY <1>1 DEF StreamInv, Records, Consistent, Queues
<1>3. PICK p, T, n, at, r :
        /\ Piped(p, T, n, at, r) /\ IsProgram(p) /\ Len(p) \in Nat
        /\ n \in 0 .. Len(p) /\ n \in Nat /\ todo = Rest(p, n)
  BY <1>2, PipedIn, Zenon
<1>4. WellMade(op)
  <2>1. n # Len(p)
    BY <1>1, <1>3, RestOf
  <2>2. n < Len(p) /\ n + 1 \in 1 .. Len(p)
    BY <1>3, <2>1
  <2>3. op = p[n + 1]
    BY <1>3, <2>2, RestOf
  <2> QED
    BY <1>3, <2>2, <2>3 DEF Piped, Planned
<1> DEFINE old == recorded[op.event]
<1>5. /\ op.do = "wait" => item = [do |-> op.do, on |-> op.on, event |-> op.event, count |-> old + 0]
      /\ op.do = "record" => item = [do |-> op.do, on |-> op.on, event |-> op.event, count |-> old + 1]
      /\ op.do \notin {"wait", "record"} => item = op
  BY DEF Queued
<1>6. op.do \in {"wait", "record"} => op.event \in Events /\ old \in Nat
  BY <1>2, <1>4 DEF WellMade
<1>7. op.do = "record" => recorded' = [recorded EXCEPT ![op.event] = old + 1]
  BY <1>1
<1> HIDE DEF op, item
<1>8. /\ Stands(item, op)
      /\ op.do = "wait" => item.count = old
      /\ op.do = "record" => item.count = old + 1
  <2> DEFINE d == op.do
             o == op.on
             e == op.event
  <2>1. /\ d = "wait" => item = [do |-> d, on |-> o, event |-> e, count |-> old + 0]
        /\ d = "record" => item = [do |-> d, on |-> o, event |-> e, count |-> old + 1]
        /\ d \notin {"wait", "record"} => item = op
        /\ d \in {"wait", "record"} => old \in Nat
    BY <1>5, <1>6
  <2> HIDE DEF d, o, e, old
  <2>2. CASE d = "wait"
    <3>1. item.do = d /\ item.on = o /\ item.event = e /\ item.count = old + 0 /\ old + 0 = old
      BY <2>1, <2>2
    <3> QED
      BY <2>1, <2>2, <3>1 DEF Stands, d, o, e
  <2>3. CASE d = "record"
    <3>1. item.do = d /\ item.on = o /\ item.event = e /\ item.count = old + 1 /\ old + 1 \in Nat
      BY <2>1, <2>3
    <3> QED
      BY <2>3, <3>1 DEF Stands, d, o, e
  <2>4. CASE d \notin {"wait", "record"}
    BY <2>1, <2>4 DEF Stands, d
  <2> QED
    BY <2>2, <2>3, <2>4
<1>9. \A e \in Events : recorded'[e] = recorded[e] + One(op.do = "record" /\ op.event = e)
  <2>1. CASE op.do = "record"
    <3> DEFINE f == op.event
               k == old + 1
    <3>1. f \in Events /\ recorded' = [recorded EXCEPT ![f] = k]
      BY <1>6, <1>7, <2>1
    <3> HIDE DEF f, k
    <3>2. \A e \in Events : recorded'[e] = IF e = f THEN k ELSE recorded[e]
      BY <1>2, <3>1
    <3>3. \A e \in Events : recorded[e] \in Nat
      BY <1>2
    <3> QED
      BY <2>1, <3>2, <3>3 DEF One, f, k
  <2>2. CASE op.do # "record"
    <3>1. \A e \in Events : recorded[e] \in Nat /\ recorded'[e] = recorded[e]
      BY <1>1, <1>2, <2>2 DEF op
    <3> QED
      BY <2>2, <3>1 DEF One
  <2> QED
    BY <2>1, <2>2
<1>10. \A s \in Streams : queue'[s] = IF s = op.on THEN Append(queue[s], item) ELSE queue[s]
  <2>1. queue' = [queue EXCEPT ![op.on] = Append(queue[op.on], item)]
    BY <1>1 DEF op
  <2> QED
    BY <1>2, <2>1
<1>11. op.do # "sync"
  BY <1>1 DEF op
<1>12. Called(op, queue, recorded, queue', recorded', item)
  BY <1>8, <1>9, <1>10, <1>11 DEF Called, Mine
<1>13. op = Head(todo)
  BY DEF op
<1> HIDE DEF old
<1> QED
  BY <1>1, <1>12, <1>13, HostPipes

\* The host waits for a stream, or works itself.
LEMMA HostWaitsPipes ==
  ASSUME StreamInv, PipeInv, HostSyncs \/ HostWorks
  PROVE  PipeInv' /\ AsPipeline
PROOF
<1>1. /\ todo # <<>> /\ todo' = Tail(todo) /\ queue' = queue /\ recorded' = recorded
      /\ ctx' = ctx /\ call' = call /\ done' = done /\ drained' = drained
  BY Zenon DEF HostSyncs, HostWorks
<1> DEFINE op == Head(todo)
<1>2. op.do = "sync" \/ op.on = "legacy"
  BY Zenon DEF HostSyncs, HostWorks
<1>3. call # None /\ recorded \in [Events -> Nat]
  BY <1>1 DEF StreamInv, Records, Consistent
<1>4. PICK p, T, n, at, r :
        /\ Piped(p, T, n, at, r) /\ IsProgram(p) /\ Len(p) \in Nat
        /\ n \in 0 .. Len(p) /\ n \in Nat /\ todo = Rest(p, n)
  BY <1>3, PipedIn, Zenon
<1>5. WellMade(op)
  <2>1. n # Len(p)
    BY <1>1, <1>4, RestOf
  <2>2. n < Len(p) /\ n + 1 \in 1 .. Len(p)
    BY <1>4, <2>1
  <2>3. op = p[n + 1]
    BY <1>4, <2>2, RestOf
  <2> QED
    BY <1>4, <2>2, <2>3 DEF Piped, Planned
<1>6. op = Head(todo)
  OBVIOUS
<1> HIDE DEF op
<1>7. op.do \notin {"wait", "record"} /\ \A s \in Streams : ~Mine(op, s)
  BY <1>2, <1>5 DEF WellMade, Mine, Streams
<1>8. Called(op, queue, recorded, queue', recorded', op)
  <2>1. \A e \in Events : recorded[e] \in Nat
    BY <1>3
  <2> QED
    BY <1>1, <1>7, <2>1 DEF Called, One
<1> QED
  BY <1>1, <1>6, <1>8, HostPipes

\* An entry returns with all the blocks of its pass done.
LEMMA ReturnPipes ==
  ASSUME StreamInv, PipeInv, Return
  PROVE  PipeInv' /\ AsPipeline
PROOF
<1>1. /\ call # None /\ todo = <<>> /\ call' = None /\ queue' = queue
      /\ recorded' = [e \in Events |-> 0] /\ done' = [e \in Events |-> 0] /\ drained' = 0
  BY DEF Return
<1>2. \A s \in Streams : queue[s] = <<>>
  BY <1>1, ReturnKeeps DEF StreamInv, Idle
<1>3. PICK p, T, n, at, r :
        /\ Piped(p, T, n, at, r) /\ IsProgram(p) /\ Len(p) \in Nat
        /\ n \in 0 .. Len(p) /\ n \in Nat /\ todo = Rest(p, n)
  BY <1>1, PipedIn, Zenon
<1>4. n = Len(p)
  BY <1>1, <1>3, RestOf
<1> DEFINE b == BlocksOf(call)
           wb == WritesBack(call)
<1>5. Planned(p, T, b, wb) /\ Staged(p, T, Len(p), queue, at, r, recorded, done, drained, wb)
  BY <1>3, <1>4 DEF Piped
<1> HIDE DEF b, wb
<1>6. Told(done, "copyDone") = b /\ Told(done, "computeDone") = b /\ (wb => drained = b)
  BY <1>2, <1>5, StagedLast
<1>7. PipeInv'
  BY <1>1 DEF PipeInv
<1>8. Pipeline!Complete
  <2>1. Completed("copyDone") = b /\ Completed("computeDone") = b
    BY <1>6 DEF Completed, Told
  <2> QED
    BY <1>6, <2>1 DEF Pipeline!Complete, b, wb, WritesBack
<1>9. /\ Completed("copyDone")' = 0 /\ Completed("computeDone")' = 0
      /\ BlocksOf(call)' = 0
  BY <1>1 DEF Completed, BlocksOf, Events, Slots, NSLOT
<1>10. Pipeline!Begin
  BY <1>1, <1>8, <1>9 DEF Pipeline!Begin
<1> QED
  BY <1>7, <1>10 DEF AsPipeline, Pipeline!Next

\* The head of a stream is done.
LEMMA StreamPipes ==
  ASSUME StreamInv, PipeInv, NEW s \in Streams, queue[s] # <<>>, NEW head,
         Moved(s, head, queue, done, drained, queue', done', drained'),
         ctx' = ctx, call' = call, todo' = todo, recorded' = recorded
  PROVE  PipeInv' /\ AsPipeline
PROOF
<1>1. call # None
  BY QueuedInACall
<1>2. PICK p, T, n, at, r :
        /\ Piped(p, T, n, at, r) /\ IsProgram(p) /\ Len(p) \in Nat
        /\ n \in 0 .. Len(p) /\ n \in Nat /\ todo = Rest(p, n)
  BY <1>1, PipedIn, Zenon
<1> DEFINE b == BlocksOf(call)
           wb == WritesBack(call)
<1>3. Planned(p, T, b, wb) /\ Staged(p, T, n, queue, at, r, recorded, done, drained, wb)
  BY <1>2 DEF Piped
<1>4. BlocksOf(call)' = b /\ WritesBack(call)' = wb
  BY DEF BlocksOf, WritesBack
<1> HIDE DEF b, wb
<1>5. done \in [Events -> Nat]
  BY DEF StreamInv, Records, Consistent
<1> DEFINE q2 == queue'
           dn2 == done'
           dr2 == drained'
<1>6. Moved(s, head, queue, done, drained, q2, dn2, dr2)
  OBVIOUS
<1> HIDE DEF q2, dn2, dr2
<1>7. /\ \E a2, r2 : Staged(p, T, n, q2, a2, r2, recorded, dn2, dr2, wb)
      /\ PassStep(b, wb, Told(done, "copyDone"), Told(done, "computeDone"), drained,
                  Told(dn2, "copyDone"), Told(dn2, "computeDone"), dr2)
  BY <1>2, <1>3, <1>5, <1>6, StagedTail
<1>8. PICK a2, r2 : Staged(p, T, n, q2, a2, r2, recorded, dn2, dr2, wb)
  BY <1>7, Zenon
<1>9. Piped(p, T, n, a2, r2)'
  BY <1>2, <1>3, <1>4, <1>8 DEF Piped, q2, dn2, dr2
<1>10. PipeInv'
  BY <1>1, <1>9, Zenon DEF PipeInv
<1>11. AsPipeline
  <2>1. PassStep(BlocksOf(call), WritesBack(call), Told(done, "copyDone"), Told(done, "computeDone"),
                 drained, Told(done', "copyDone"), Told(done', "computeDone"), drained')
    BY <1>7 DEF b, wb, dn2, dr2
  <2> QED
    BY <2>1, PassStepped
<1> QED
  BY <1>10, <1>11

\* A wait or a record, and the end of a copy or a kernel.
LEMMA MarksAndEndsPipe ==
  ASSUME StreamInv, PipeInv, NEW s \in Streams, Marks(s) \/ Ends(s)
  PROVE  PipeInv' /\ AsPipeline
PROOF
<1> DEFINE head == Head(queue[s])
<1>1. /\ queue' = [queue EXCEPT ![s] = Tail(@)]
      /\ ctx' = ctx /\ call' = call /\ todo' = todo /\ recorded' = recorded
  BY Zenon DEF Marks, Ends
<1>2. queue = [z \in Streams |-> queue[z]] /\ drained \in Nat
  BY DEF StreamInv, Queues, Counters
<1>3. \A z \in Streams : queue'[z] = IF z = s THEN Tail(queue[s]) ELSE queue[z]
  BY <1>1, <1>2
<1>4. CASE Marks(s)
  <2>1. /\ queue[s] # <<>> /\ head.do \in {"wait", "record"}
        /\ head.do = "wait" => done[head.event] >= head.count
        /\ done' = IF head.do = "record" THEN [done EXCEPT ![head.event] = head.count] ELSE done
        /\ drained' = drained
    BY <1>4, Zenon DEF Marks
  <2> HIDE DEF head
  <2>2. drained' = drained + One(CopiesBack(head))
    BY <1>2, <2>1 DEF One, CopiesBack
  <2>3. head = Head(queue[s])
    BY DEF head
  <2>4. Moved(s, head, queue, done, drained, queue', done', drained')
    BY <1>3, <2>1, <2>2, <2>3 DEF Moved
  <2> QED
    BY <1>1, <2>1, <2>4, StreamPipes
<1>5. CASE Ends(s)
  <2>1. /\ running[s] /\ done' = done
        /\ drained' = drained + (IF head.writes \cap HostArrays # {} THEN 1 ELSE 0)
    BY <1>5, Zenon DEF Ends
  <2>2. queue[s] # <<>> /\ head.do \notin {"wait", "record"}
    BY <2>1 DEF StreamInv, Queues
  <2>3. head = Head(queue[s])
    OBVIOUS
  <2> HIDE DEF head
  <2>4. drained' = drained + One(CopiesBack(head))
    BY <2>1, <2>2 DEF One, CopiesBack
  <2>5. Moved(s, head, queue, done, drained, queue', done', drained')
    BY <1>3, <2>1, <2>2, <2>3, <2>4 DEF Moved
  <2> QED
    BY <1>1, <2>2, <2>5, StreamPipes
<1> QED
  BY <1>4, <1>5

\* A copy or a kernel begins.
LEMMA StartsPipe ==
  ASSUME StreamInv, PipeInv, \/ \E s \in Streams : Starts(s)
                             \/ UNCHANGED vars
  PROVE  PipeInv' /\ AsPipeline
PROOF
<1>1. /\ ctx' = ctx /\ call' = call /\ todo' = todo /\ queue' = queue /\ recorded' = recorded
      /\ done' = done /\ drained' = drained
  BY DEF Starts, vars
<1>2. AsPipeline
  BY <1>1, NothingCounted
<1>3. BlocksOf(call)' = BlocksOf(call) /\ WritesBack(call)' = WritesBack(call)
  BY <1>1 DEF BlocksOf, WritesBack
<1>4. ASSUME call # None PROVE \E p, T, n, at, r : Piped(p, T, n, at, r)'
  <2>1. PICK p, T, n, at, r : Piped(p, T, n, at, r)
    BY <1>4, Zenon DEF PipeInv
  <2>2. Piped(p, T, n, at, r)'
    BY <1>1, <1>3, <2>1 DEF Piped
  <2> QED
    BY <2>2, Zenon
<1> QED
  BY <1>1, <1>2, <1>4 DEF PipeInv

\* The steps of the streams are steps of BlockPipeline, and keep the invariant.
LEMMA StepsPipe == StreamInv /\ PipeInv /\ [Next]_vars => PipeInv' /\ AsPipeline
PROOF
<1> SUFFICES ASSUME StreamInv, PipeInv, [Next]_vars PROVE PipeInv' /\ AsPipeline
  OBVIOUS
<1>1. CASE Host
  BY <1>1, ContextsPipe, EnterPipes, HostQueuesPipes, HostWaitsPipes, ReturnPipes DEF Host
<1>2. CASE \E s \in Streams : Stream(s)
  BY <1>2, MarksAndEndsPipe, StartsPipe DEF Stream
<1>3. CASE UNCHANGED vars
  BY <1>3, StartsPipe
<1> QED
  BY <1>1, <1>2, <1>3 DEF Next, Finished

\* The streamed passes are double-buffered pipelines (colBlockPipeline, rowChunkPipeline):
\* whatever order the two streams take, every block is loaded, computed and drained once
\* and in order, no slot is loaded again before the block in it is computed and, if it
\* goes back to the host, drained, and an entry returns with all of its blocks done.
THEOREM PassesArePipelines == Spec => PipelineKept
PROOF
<1>1. Init => PipeInv /\ Pipeline!Init
  BY InitPiped
<1>2. StreamInv /\ PipeInv /\ [Next]_vars => PipeInv' /\ [Pipeline!Next]_(Pipeline!vars)
  BY StepsPipe DEF AsPipeline
<1> QED
  BY <1>1, <1>2, StreamInvariant, PTL DEF Spec, PipelineKept, Pipeline!Spec

\* How far apart the two streams and the host's result may be.
InStep ==
  /\ Completed("copyDone") \in Nat /\ Completed("computeDone") \in Nat
  /\ drained \in Nat /\ BlocksOf(call) \in Nat
  /\ Completed("computeDone") <= Completed("copyDone")
  /\ Completed("copyDone") <= BlocksOf(call)
  /\ Completed("copyDone") <= Completed("computeDone") + NSLOT
  /\ drained <= Completed("computeDone")
  /\ IF WritesBack(call) THEN Completed("copyDone") <= drained + NSLOT ELSE drained = 0

\* In every state of every pass the kernels are behind the loads, the drains behind the
\* kernels, and the loads no more than the number of slots ahead of both: no block is
\* computed before it is loaded, copied back before it is computed, or overwritten.
THEOREM BlocksInStep == Spec => []InStep
PROOF
<1>1. Pipeline!Init => InStep
  BY DEF Pipeline!Init, InStep, WritesBack, NSLOT
<1>2. InStep /\ [Pipeline!Next]_(Pipeline!vars) => InStep'
  <2>1. SUFFICES ASSUME InStep, [Pipeline!Next]_(Pipeline!vars) PROVE InStep'
    OBVIOUS
  <2> DEFINE l == Completed("copyDone")
             c == Completed("computeDone")
             b == BlocksOf(call)
             wb == WritesBack(call)
             l2 == Completed("copyDone")'
             c2 == Completed("computeDone")'
             b2 == BlocksOf(call)'
             wb2 == WritesBack(call)'
  <2>2. /\ wb = (call # None /\ call.op \in {"filter", "spmmv", "update"})
        /\ wb2 = (call # None /\ call.op \in {"filter", "spmmv", "update"})'
    BY DEF WritesBack
  <2>3. /\ l \in Nat /\ c \in Nat /\ drained \in Nat /\ b \in Nat /\ NSLOT = 2
        /\ c <= l /\ l <= b /\ l <= c + NSLOT /\ drained <= c
        /\ wb => l <= drained + NSLOT
        /\ ~wb => drained = 0
    BY <2>1 DEF InStep, NSLOT
  <2>4. SUFFICES /\ l2 \in Nat /\ c2 \in Nat /\ drained' \in Nat /\ b2 \in Nat
                 /\ c2 <= l2 /\ l2 <= b2 /\ l2 <= c2 + NSLOT /\ drained' <= c2
                 /\ wb2 => l2 <= drained' + NSLOT
                 /\ ~wb2 => drained' = 0
    BY DEF InStep
  <2>5. CASE UNCHANGED Pipeline!vars
    <3>1. l2 = l /\ c2 = c /\ drained' = drained /\ b2 = b /\ (wb2 <=> wb)
      BY <2>2, <2>5 DEF Pipeline!vars
    <3> HIDE DEF l, c, b, wb, l2, c2, b2, wb2
    <3> QED
      BY <2>3, <3>1
  <2>6. CASE Pipeline!Begin
    <3>1. b2 \in Nat /\ l2 = 0 /\ c2 = 0 /\ drained' = 0
      BY <2>6 DEF Pipeline!Begin
    <3> HIDE DEF l2, c2, b2, wb2
    <3> QED
      BY <2>3, <3>1
  <2>7. CASE Pipeline!Load
    <3>1. /\ l < b /\ c > l - NSLOT /\ (wb => drained > l - NSLOT)
          /\ l2 = l + 1 /\ c2 = c /\ drained' = drained /\ b2 = b /\ (wb2 <=> wb)
      BY <2>2, <2>7 DEF Pipeline!Load
    <3> HIDE DEF l, c, b, wb, l2, c2, b2, wb2
    <3> QED
      BY <2>3, <3>1
  <2>8. CASE Pipeline!Compute
    <3>1. /\ c < l /\ (wb => drained > c - NSLOT)
          /\ c2 = c + 1 /\ l2 = l /\ drained' = drained /\ b2 = b /\ (wb2 <=> wb)
      BY <2>2, <2>8 DEF Pipeline!Compute
    <3> HIDE DEF l, c, b, wb, l2, c2, b2, wb2
    <3> QED
      BY <2>3, <3>1
  <2>9. CASE Pipeline!Drain
    <3>1. /\ wb /\ drained < c
          /\ drained' = drained + 1 /\ l2 = l /\ c2 = c /\ b2 = b /\ (wb2 <=> wb)
      BY <2>2, <2>9 DEF Pipeline!Drain
    <3> HIDE DEF l, c, b, wb, l2, c2, b2, wb2
    <3> QED
      BY <2>3, <3>1
  <2> QED
    BY <2>1, <2>5, <2>6, <2>7, <2>8, <2>9 DEF Pipeline!Next
<1> QED
  BY <1>1, <1>2, PassesArePipelines, PTL DEF PipelineKept, Pipeline!Spec
=============================================================================
