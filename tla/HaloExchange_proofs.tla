------------------------ MODULE HaloExchange_proofs ------------------------
(***************************************************************************)
(* Proofs about HaloExchange, for every set of ranks, every plan commLocal-*)
(* ization may leave behind (PlanOK), any number of products, either build *)
(* of solverApplyA and any chunking.                                       *)
(*                                                                         *)
(* First the data movement and the kernels, each a lemma about the         *)
(* operators, then the inductive invariant, one lemma per part, then the   *)
(* theorems.                                                               *)
(***************************************************************************)
EXTENDS HaloExchange, SequenceTheorems, TLAPS

\* A plan has the properties the data movement rests on.
LEMMA PlanFacts ==
  ASSUME NEW p \in Plans, NEW r \in Ranks
  PROVE  /\ p.nr[r] \in Nat /\ p.nc[r] \in Nat /\ p.nr[r] <= p.nc[r]
         /\ p.totalSendCount[r] \in Nat
         /\ p.sources[r] \subseteq Ranks /\ p.destinations[r] \subseteq Ranks
         /\ OwnedSlots(p, r) \subseteq Slots(p, r)
         /\ HaloSlots(p, r) \subseteq Slots(p, r)
         /\ \A i \in SendSlots(p, r) : p.elementsToSend[r][i] \in OwnedSlots(p, r)
         /\ \A i \in OwnedSlots(p, r) :
              /\ p.len[r][i] \in Nat /\ p.localEnd[r][i] \in Nat
              /\ p.localEnd[r][i] <= p.len[r][i]
              /\ i \in p.boundaryRows[r] <=> p.localEnd[r][i] < p.len[r][i]
              /\ \A j \in Entries(p, r, i) :
                   /\ p.col[r][i][j] \in Slots(p, r)
                   /\ p.glob[r][p.col[r][i][j]] = p.val[r][i][j]
                   /\ p.col[r][i][j] \in OwnedSlots(p, r) <=> j < p.localEnd[r][i]
PROOF
<1>1. PlanOK(Ranks, p)
  BY PlansAssumption
<1>2. PlanType(Ranks, p)
  BY <1>1 DEF PlanOK
<1>3. /\ p.nr[r] \in Nat /\ p.nc[r] \in Nat /\ p.totalSendCount[r] \in Nat
      /\ p.sources[r] \subseteq Ranks /\ p.destinations[r] \subseteq Ranks
  BY <1>2 DEF PlanType
<1>4. MatrixLocalized(Ranks, p)
  BY <1>1 DEF PlanOK
<1>5. p.nr[r] <= p.nc[r]
  BY <1>4 DEF MatrixLocalized
<1>6. /\ OwnedSlots(p, r) \subseteq Slots(p, r)
      /\ HaloSlots(p, r) \subseteq Slots(p, r)
  BY <1>3, <1>5 DEF OwnedSlots, HaloSlots, Slots
<1>7. \A i \in SendSlots(p, r) : p.elementsToSend[r][i] \in OwnedSlots(p, r)
  BY <1>2 DEF PlanType
<1>8. ASSUME NEW i \in OwnedSlots(p, r)
      PROVE  /\ p.len[r][i] \in Nat /\ p.localEnd[r][i] \in Nat
             /\ p.localEnd[r][i] <= p.len[r][i]
             /\ \A j \in Entries(p, r, i) : p.col[r][i][j] \in Slots(p, r)
  BY <1>2 DEF PlanType
<1>9. ASSUME NEW i \in OwnedSlots(p, r)
      PROVE  /\ i \in p.boundaryRows[r] <=> p.localEnd[r][i] < p.len[r][i]
             /\ \A j \in Entries(p, r, i) :
                  /\ p.glob[r][p.col[r][i][j]] = p.val[r][i][j]
                  /\ p.col[r][i][j] \in OwnedSlots(p, r) <=> j < p.localEnd[r][i]
  BY <1>4 DEF MatrixLocalized
<1> QED
  BY <1>3, <1>5, <1>6, <1>7, <1>8, <1>9

\* The two ends of an edge, as the data movement uses them.
LEMMA EdgeFacts ==
  ASSUME NEW p \in Plans, NEW r \in Ranks, NEW q \in p.sources[r]
  PROVE  /\ q \in Ranks
         /\ r \in p.destinations[q]
         /\ p.recvCounts[r][q] = p.sendCounts[q][r]
         /\ p.recvCounts[r][q] \in Nat
         /\ p.rdispls[r][q] \in Nat
         /\ p.sdispls[q][r] \in Nat
         /\ HaloSegment(p, r, q) \subseteq HaloSlots(p, r)
         /\ SendSegment(p, q, r) \subseteq SendSlots(p, q)
         /\ \A k \in 0 .. p.recvCounts[r][q] - 1 :
              p.glob[r][p.nr[r] + p.rdispls[r][q] + k]
                = p.glob[q][p.elementsToSend[q][p.sdispls[q][r] + k]]
PROOF
<1>1. PlanOK(Ranks, p)
  BY PlansAssumption
<1>2. q \in Ranks
  BY PlanFacts
<1>3. r \in p.destinations[q] /\ p.recvCounts[r][q] = p.sendCounts[q][r]
  BY <1>1, <1>2 DEF PlanOK, EdgesAgree
<1>4. PlanType(Ranks, p)
  BY <1>1 DEF PlanOK
<1>5. /\ p.recvCounts[r][q] \in Nat /\ p.rdispls[r][q] \in Nat
      /\ p.sdispls[q][r] \in Nat
  BY <1>2, <1>3, <1>4 DEF PlanType
<1>6. /\ HaloSegment(p, r, q) \subseteq HaloSlots(p, r)
      /\ SendSegment(p, q, r) \subseteq SendSlots(p, q)
  BY <1>1, <1>2, <1>3 DEF PlanOK, BuffersTiled
<1>7. \A k \in 0 .. p.recvCounts[r][q] - 1 :
        p.glob[r][p.nr[r] + p.rdispls[r][q] + k]
          = p.glob[q][p.elementsToSend[q][p.sdispls[q][r] + k]]
  BY <1>1 DEF PlanOK, SendsWhatIsNeeded
<1> QED
  BY <1>2, <1>3, <1>5, <1>6, <1>7

\* The halo segments of a rank cover its halo and do not overlap.
LEMMA HaloTiled ==
  ASSUME NEW p \in Plans, NEW r \in Ranks
  PROVE  /\ \A s \in HaloSlots(p, r) : \E q \in p.sources[r] : s \in HaloSegment(p, r, q)
         /\ \A q1, q2 \in p.sources[r] : \A s \in HaloSegment(p, r, q1) :
              q1 # q2 => s \notin HaloSegment(p, r, q2)
PROOF
<1>1. BuffersTiled(Ranks, p)
  BY PlansAssumption DEF PlanOK
<1> QED
  BY <1>1 DEF BuffersTiled

-----------------------------------------------------------------------------
(* The data movement.                                                      *)

\* A block taken from a current send buffer is the block that is wanted.
LEMMA BlockIsSent ==
  ASSUME NEW p \in Plans, NEW r \in Ranks, NEW q \in p.sources[r], NEW v, NEW buf,
         \A i \in SendSlots(p, q) : buf[i] = <<p.glob[q][p.elementsToSend[q][i]], v>>
  PROVE  Block(p, q, r, buf) = Sent(p, q, r, v)
PROOF
<1>1. ASSUME NEW k \in 0 .. p.sendCounts[q][r] - 1
      PROVE  p.sdispls[q][r] + k \in SendSlots(p, q)
  <2>1. p.sdispls[q][r] + k \in SendSegment(p, q, r)
    BY SMTT(20), EdgeFacts DEF SendSegment
  <2> QED
    BY <2>1, EdgeFacts
<1> QED
  BY <1>1 DEF Block, Sent

\* Storing that block makes its halo segment current and touches nothing else.
LEMMA StoredIsFresh ==
  ASSUME NEW p \in Plans, NEW r \in Ranks, NEW q \in p.sources[r], NEW v, NEW w
  PROVE  LET new == Stored(p, r, q, w, Sent(p, q, r, v))
         IN  /\ \A s \in HaloSegment(p, r, q) : new[s] = <<p.glob[r][s], v>>
             /\ \A s \in Slots(p, r) \ HaloSegment(p, r, q) : new[s] = w[s]
             /\ DOMAIN new = Slots(p, r)
PROOF
<1> DEFINE new == Stored(p, r, q, w, Sent(p, q, r, v))
<1>1. ASSUME NEW s \in HaloSegment(p, r, q)
      PROVE  new[s] = <<p.glob[r][s], v>>
  <2> DEFINE k == s - (p.nr[r] + p.rdispls[r][q])
  <2>0. /\ p.nr[r] \in Nat /\ p.rdispls[r][q] \in Nat /\ p.recvCounts[r][q] \in Nat
        /\ p.recvCounts[r][q] = p.sendCounts[q][r]
    BY SMTT(20), EdgeFacts, PlanFacts
  <2>1. /\ k \in 0 .. p.sendCounts[q][r] - 1
        /\ p.nr[r] + p.rdispls[r][q] + k = s
    BY <2>0 DEF HaloSegment
  <2>2. s \in Slots(p, r)
    BY EdgeFacts, PlanFacts
  <2>3. new[s] = Sent(p, q, r, v)[k]
    BY <2>2 DEF Stored
  <2>4. Sent(p, q, r, v)[k] = <<p.glob[q][p.elementsToSend[q][p.sdispls[q][r] + k]], v>>
    BY <2>1 DEF Sent
  <2>5. p.glob[q][p.elementsToSend[q][p.sdispls[q][r] + k]] = p.glob[r][s]
    <3>1. k \in 0 .. p.recvCounts[r][q] - 1
      BY <2>0, <2>1
    <3>2. p.glob[r][p.nr[r] + p.rdispls[r][q] + k]
            = p.glob[q][p.elementsToSend[q][p.sdispls[q][r] + k]]
      <4> HIDE DEF k
      <4> QED
        BY <3>1, EdgeFacts
    <3> QED
      BY <3>2, <2>1
  <2> QED
    BY <2>3, <2>4, <2>5
<1>2. \A s \in Slots(p, r) \ HaloSegment(p, r, q) : new[s] = w[s]
  BY DEF Stored
<1>3. DOMAIN new = Slots(p, r)
  BY DEF Stored
<1> QED
  BY <1>1, <1>2, <1>3

\* When every segment of the halo is current, the halo is.
LEMMA SegmentsMakeHalo ==
  ASSUME NEW p \in Plans, NEW r \in Ranks, NEW w, NEW v,
         \A q \in p.sources[r] : \A s \in HaloSegment(p, r, q) : w[s] = <<p.glob[r][s], v>>
  PROVE  \A s \in HaloSlots(p, r) : w[s] = <<p.glob[r][s], v>>
BY HaloTiled

-----------------------------------------------------------------------------
(* The kernels.                                                            *)

\* The local entries of a row only meet the owned part of the vector.
LEMMA LocalEntries ==
  ASSUME NEW p \in Plans, NEW r \in Ranks, NEW i \in OwnedSlots(p, r), NEW w, NEW v,
         \A s \in OwnedSlots(p, r) : w[s] = <<p.glob[r][s], v>>
  PROVE  Terms(p, r, i, w, 0, p.localEnd[r][i]) = LocalTerms(p, r, i, v)
PROOF
<1>1. ASSUME NEW j \in 1 .. p.localEnd[r][i]
      PROVE  w[p.col[r][i][0 + j - 1]] = <<p.val[r][i][j - 1], v>>
  <2>1. j - 1 \in Entries(p, r, i) /\ j - 1 < p.localEnd[r][i] /\ 0 + j - 1 = j - 1
    BY PlanFacts DEF Entries
  <2>2. /\ p.col[r][i][j - 1] \in OwnedSlots(p, r)
        /\ p.glob[r][p.col[r][i][j - 1]] = p.val[r][i][j - 1]
    BY <2>1, PlanFacts
  <2> QED
    BY <2>1, <2>2
<1>2. p.localEnd[r][i] - 0 = p.localEnd[r][i]
  BY PlanFacts
<1> QED
  BY <1>1, <1>2 DEF Terms, LocalTerms

\* The sum over the entries of row i of the v-th product from entry lo on.
FreshTerms(p, r, i, v, lo) ==
  [j \in 1 .. p.len[r][i] - lo |-> <<p.val[r][i][lo + j - 1], v>>]

\* Any part of a row, once owned and halo slots are current.
LEMMA FreshEntries ==
  ASSUME NEW p \in Plans, NEW r \in Ranks, NEW i \in OwnedSlots(p, r), NEW w, NEW v,
         \A s \in OwnedSlots(p, r) : w[s] = <<p.glob[r][s], v>>,
         \A s \in HaloSlots(p, r) : w[s] = <<p.glob[r][s], v>>,
         NEW lo \in Nat, lo <= p.len[r][i]
  PROVE  Terms(p, r, i, w, lo, p.len[r][i]) = FreshTerms(p, r, i, v, lo)
PROOF
<1>1. ASSUME NEW j \in 1 .. p.len[r][i] - lo
      PROVE  w[p.col[r][i][lo + j - 1]] = <<p.val[r][i][lo + j - 1], v>>
  <2>1. lo + j - 1 \in Entries(p, r, i)
    BY PlanFacts DEF Entries
  <2>2. p.col[r][i][lo + j - 1] \in OwnedSlots(p, r) \cup HaloSlots(p, r)
    BY <2>1, PlanFacts DEF OwnedSlots, HaloSlots, Slots
  <2>3. p.glob[r][p.col[r][i][lo + j - 1]] = p.val[r][i][lo + j - 1]
    BY <2>1, PlanFacts
  <2> QED
    BY <2>2, <2>3
<1> QED
  BY <1>1 DEF Terms, FreshTerms

\* Blocking build: the full product is exact.
LEMMA FullIsExact ==
  ASSUME NEW p \in Plans, NEW r \in Ranks, NEW w, NEW v,
         \A s \in OwnedSlots(p, r) : w[s] = <<p.glob[r][s], v>>,
         \A s \in HaloSlots(p, r) : w[s] = <<p.glob[r][s], v>>
  PROVE  FullProduct(p, r, w) = Product(p, r, v)
PROOF
<1>1. ASSUME NEW i \in OwnedSlots(p, r)
      PROVE  Terms(p, r, i, w, 0, p.len[r][i])
               = [j \in 1 .. p.len[r][i] |-> <<p.val[r][i][j - 1], v>>]
  <2>1. /\ p.len[r][i] \in Nat /\ 0 <= p.len[r][i] /\ p.len[r][i] - 0 = p.len[r][i]
        /\ \A j \in 1 .. p.len[r][i] : 0 + j - 1 = j - 1
    BY PlanFacts
  <2>2. Terms(p, r, i, w, 0, p.len[r][i]) = FreshTerms(p, r, i, v, 0)
    BY <2>1, FreshEntries
  <2> QED
    BY <2>1, <2>2 DEF FreshTerms
<1> QED
  BY <1>1 DEF FullProduct, Product

\* A sequence split after its first n terms.
LEMMA SplitSequence ==
  ASSUME NEW n \in Nat, NEW m \in Nat, NEW f(_)
  PROVE  [j \in 1 .. n |-> f(j)] \o [j \in 1 .. m |-> f(n + j)] = [j \in 1 .. n + m |-> f(j)]
PROOF
<1> DEFINE a == [j \in 1 .. n |-> f(j)]
           b == [j \in 1 .. m |-> f(n + j)]
           S == {f(j) : j \in 1 .. n + m}
<1>1. a \in Seq(S) /\ Len(a) = n
  <2>1. \A j \in 1 .. n : f(j) \in S
    OBVIOUS
  <2> HIDE DEF S
  <2> QED
    BY <2>1
<1>2. b \in Seq(S) /\ Len(b) = m
  OBVIOUS
<1> QED
  BY <1>1, <1>2

\* Overlapping build: the local sums with the external sums added are exact.
LEMMA ExternalIsExact ==
  ASSUME NEW p \in Plans, NEW r \in Ranks, NEW w, NEW v, NEW out,
         \A s \in OwnedSlots(p, r) : w[s] = <<p.glob[r][s], v>>,
         \A s \in HaloSlots(p, r) : w[s] = <<p.glob[r][s], v>>,
         \A i \in OwnedSlots(p, r) : out[i] = LocalTerms(p, r, i, v)
  PROVE  External(p, r, w, out) = Product(p, r, v)
PROOF
<1> DEFINE term(i, j) == <<p.val[r][i][j - 1], v>>
<1>1. ASSUME NEW i \in OwnedSlots(p, r)
      PROVE  (IF i \in p.boundaryRows[r]
              THEN out[i] \o Terms(p, r, i, w, p.localEnd[r][i], p.len[r][i]) ELSE out[i])
               = [j \in 1 .. p.len[r][i] |-> term(i, j)]
  <2> DEFINE n == p.localEnd[r][i]
             m == p.len[r][i] - p.localEnd[r][i]
  <2>1. n \in Nat /\ m \in Nat /\ n + m = p.len[r][i]
    BY PlanFacts
  <2>2. out[i] = [j \in 1 .. n |-> term(i, j)]
    BY DEF LocalTerms
  <2>3. Terms(p, r, i, w, n, p.len[r][i]) = [j \in 1 .. m |-> term(i, n + j)]
    <3>1. Terms(p, r, i, w, n, p.len[r][i]) = FreshTerms(p, r, i, v, n)
      BY <2>1, FreshEntries
    <3>2. \A j \in 1 .. m : n + j - 1 = (n + j) - 1
      BY <2>1
    <3> QED
      BY <3>1, <3>2 DEF FreshTerms
  <2>4. out[i] \o Terms(p, r, i, w, n, p.len[r][i]) = [j \in 1 .. n + m |-> term(i, j)]
    <3> DEFINE f(j) == term(i, j)
    <3> HIDE DEF f, n, m
    <3>1. [j \in 1 .. n |-> f(j)] \o [j \in 1 .. m |-> f(n + j)] = [j \in 1 .. n + m |-> f(j)]
      BY <2>1, SplitSequence
    <3> QED
      BY <3>1, <2>2, <2>3 DEF f
  <2>5. CASE i \in p.boundaryRows[r]
    BY <2>5, <2>4, <2>1
  <2>6. CASE i \notin p.boundaryRows[r]
    <3>1. n = p.len[r][i]
      BY <2>6, PlanFacts
    <3> QED
      BY <2>6, <2>2, <3>1
  <2> QED
    BY <2>5, <2>6
<1> QED
  BY <1>1 DEF External, Product

-----------------------------------------------------------------------------
(* Messages in flight.                                                     *)

\* A message appended to a channel.
LEMMA AppendNext ==
  ASSUME NEW n \in Nat, NEW f(_)
  PROVE  Append([j \in 1 .. n |-> f(j)], f(n + 1)) = [j \in 1 .. n + 1 |-> f(j)]
PROOF
<1> DEFINE a == [j \in 1 .. n |-> f(j)]
           S == {f(j) : j \in 1 .. n + 1}
<1>1. a \in Seq(S) /\ Len(a) = n
  <2>1. \A j \in 1 .. n : f(j) \in S
    OBVIOUS
  <2> HIDE DEF S
  <2> QED
    BY <2>1
<1> QED
  BY <1>1

\* A message taken from a channel.
LEMMA FirstOut ==
  ASSUME NEW n \in Nat, NEW f(_), [j \in 1 .. n |-> f(j)] # <<>>
  PROVE  /\ n > 0
         /\ Head([j \in 1 .. n |-> f(j)]) = f(1)
         /\ Tail([j \in 1 .. n |-> f(j)]) = [j \in 1 .. n - 1 |-> f(j + 1)]
PROOF
<1> DEFINE a == [j \in 1 .. n |-> f(j)]
           b == [j \in 1 .. n - 1 |-> f(j + 1)]
           S == {f(j) : j \in 1 .. n}
<1>1. a \in Seq(S) /\ Len(a) = n
  <2>1. \A j \in 1 .. n : f(j) \in S
    OBVIOUS
  <2> HIDE DEF S
  <2> QED
    BY <2>1
<1>2. n > 0
  BY <1>1
<1>3. Head(a) = f(1)
  BY <1>2
<1>4. Tail(a) = b
  <2>1. a # <<>>
    BY <1>2
  <2>2. /\ Tail(a) \in Seq(S)
        /\ Len(Tail(a)) = n - 1
        /\ \A j \in 1 .. n - 1 : Tail(a)[j] = f(j + 1)
    <3>1. \A j \in 1 .. n - 1 : a[j + 1] = f(j + 1)
      OBVIOUS
    <3> HIDE DEF a
    <3> QED
      BY <1>1, <2>1, <3>1, HeadTailProperties
  <2>3. b \in Seq(S) /\ Len(b) = n - 1 /\ \A j \in 1 .. n - 1 : b[j] = f(j + 1)
    <3>1. \A j \in 1 .. n - 1 : f(j + 1) \in S
      OBVIOUS
    <3> HIDE DEF S
    <3> QED
      BY <1>2, <3>1
  <2> HIDE DEF a, b, S
  <2> QED
    BY <1>2, <2>2, <2>3, SeqEqual
<1> QED
  BY <1>2, <1>3, <1>4

\* A destination expects what is sent to it.
LEMMA DestinationFacts ==
  ASSUME NEW p \in Plans, NEW q \in Ranks, NEW r \in p.destinations[q]
  PROVE  r \in Ranks /\ q \in p.sources[r]
PROOF
<1>1. r \in Ranks
  BY PlanFacts
<1>2. EdgesAgree(Ranks, p)
  BY PlansAssumption DEF PlanOK
<1> QED
  BY <1>1, <1>2 DEF EdgesAgree

-----------------------------------------------------------------------------
(* The invariant holds initially and every action preserves it.            *)

\* The invariant holds initially.
LEMMA InitInv == Init => IInv
PROOF
<1> SUFFICES ASSUME Init PROVE IInv
  OBVIOUS
<1>1. plan \in Plans /\ \A r \in Ranks : pc[r] = "begin" /\ iter[r] = 0
  BY DEF Init
<1>2. TypeOK
  BY BoundsAssumption DEF Init, TypeOK, PcValues
<1>3. RequestInv
  BY BoundsAssumption DEF Init, RequestInv
<1>4. VectorInv
  <2>1. \A r \in Ranks : Version(r) = 1
    BY <1>1 DEF Version
  <2>2. ASSUME NEW r \in Ranks, NEW s \in OwnedSlots(plan, r)
        PROVE  x[r][s] = <<plan.glob[r][s], 1>>
    <3>1. s \in Slots(plan, r)
      BY <1>1, PlanFacts
    <3> QED
      BY <3>1 DEF Init
  <2> QED
    BY <1>1, <2>1, <2>2 DEF VectorInv
<1>5. ChanInv
  <2> SUFFICES ASSUME NEW r \in Ranks, NEW q \in plan.sources[r]
               PROVE  /\ Arrived(q, r) <= Departed(q, r)
                      /\ chan[<<q, r>>] = InFlight(plan, q, r, Arrived(q, r), Departed(q, r))
    BY DEF ChanInv
  <2>1. q \in Ranks
    BY <1>1, PlanFacts
  <2>2. Departed(q, r) = 0 /\ Arrived(q, r) = 0
    BY <2>1 DEF Init, Departed, Arrived
  <2>3. chan[<<q, r>>] = <<>>
    BY <2>1 DEF Init
  <2> QED
    BY <2>2, <2>3 DEF InFlight
<1>6. HaloInv
  BY <1>1 DEF HaloInv
<1>7. ProductInv
  BY <1>1 DEF ProductInv
<1>8. LagInv
  BY <1>1 DEF LagInv, EnteredReduction
<1> QED
  BY <1>2, <1>3, <1>4, <1>5, <1>6, <1>7, <1>8 DEF IInv

\* Steps that post nothing and move nothing leave the edges as they are.
LEMMA ChanUnchanged ==
  ASSUME IInv, plan' = plan, iter' = iter, toSend' = toSend, toRecv' = toRecv, chan' = chan
  PROVE  ChanInv'
BY DEF IInv, ChanInv, Arrived, Departed

\* Packing and posting an exchange.
LEMMA BeginInv ==
  ASSUME IInv, NEW r \in Ranks, BeginExchange(r)
  PROVE  IInv'
PROOF
<1> USE DEF IInv
<1>0. /\ pc[r] = "begin" /\ plan' = plan /\ x' = x /\ y' = y /\ chan' = chan
      /\ toSend[r] = {} /\ toRecv[r] = {}
      /\ iter[r] \in 0 .. MaxApply - 1 /\ plan \in Plans
  BY BoundsAssumption DEF BeginExchange, RequestInv, TypeOK
<1>1. TypeOK'
  BY SMTT(20), <1>0, PlanFacts, BoundsAssumption DEF BeginExchange, TypeOK, PcValues, Pack
<1>2. /\ \A q \in Ranks : iter'[q] = IF q = r THEN iter[q] + 1 ELSE iter[q]
      /\ \A q \in Ranks : toSend'[q] = IF q = r THEN plan.destinations[r] ELSE toSend[q]
      /\ \A q \in Ranks : toRecv'[q] = IF q = r THEN plan.sources[r] ELSE toRecv[q]
      /\ \A q \in Ranks \ {r} : pc'[q] = pc[q] /\ rowStart'[q] = rowStart[q]
      /\ pc'[r] \in {"local", "wait"} /\ rowStart'[r] = 0
      /\ pc'[r] = "local" => Overlap
      /\ pc'[r] = "wait" /\ Overlap => ~(plan.nr[r] > 0)
  BY BoundsAssumption DEF BeginExchange, TypeOK
<1>3. RequestInv'
  BY <1>0, <1>2 DEF RequestInv
<1>4. VectorInv'
  <2>1. \A q \in Ranks : Version(q)' = Version(q)
    BY <1>0, <1>2 DEF Version
  <2>2. \A i \in SendSlots(plan, r) :
          sendBuffer'[r][i] = <<plan.glob[r][plan.elementsToSend[r][i]], iter'[r]>>
    <3>1. sendBuffer'[r] = Pack(plan, r, x[r])
      BY DEF BeginExchange, TypeOK
    <3>2. Version(r) = iter'[r]
      BY <1>0, <1>2 DEF Version
    <3> QED
      BY ZenonT(30), <3>1, <3>2, <1>0, PlanFacts DEF Pack, VectorInv
  <2>3. \A q \in Ranks \ {r} : sendBuffer'[q] = sendBuffer[q]
    BY DEF BeginExchange, TypeOK
  <2> QED
    BY <1>0, <1>2, <2>1, <2>2, <2>3 DEF VectorInv
<1>5. ChanInv'
  <2>1. ASSUME NEW p \in Ranks, NEW q \in plan.sources[p]
        PROVE  Departed(q, p)' = Departed(q, p) /\ Arrived(q, p)' = Arrived(q, p)
    <3>1. /\ q \in Ranks /\ p \in plan.destinations[q]
          /\ iter[p] \in Int /\ iter[q] \in Int
      BY SMTT(20), <1>0, EdgeFacts, BoundsAssumption DEF TypeOK
    <3>2. Departed(q, p)' = Departed(q, p)
      BY <1>0, <1>2, <3>1 DEF Departed
    <3>3. Arrived(q, p)' = Arrived(q, p)
      BY <1>0, <1>2, <3>1 DEF Arrived
    <3> QED
      BY <3>2, <3>3
  <2> QED
    BY <1>0, <2>1 DEF ChanInv
<1>6. HaloInv'
  BY <1>0, <1>2 DEF HaloInv
<1>7. ProductInv'
  BY <1>0, <1>2, PlanFacts DEF ProductInv, OwnedSlots
<1>8. LagInv'
  <2>1. \A q \in Ranks : iter[q] \in Int
    BY BoundsAssumption DEF TypeOK
  <2>2. \A q \in Ranks, v \in Int : EnteredReduction(q, v) /\ v <= iter[r] => EnteredReduction(q, v)'
    BY <1>0, <1>2, <2>1 DEF EnteredReduction
  <2> QED
    BY <1>0, <1>2, <2>1, <2>2 DEF LagInv, EnteredReduction
<1> QED
  BY <1>1, <1>3, <1>4, <1>5, <1>6, <1>7, <1>8

\* A chunk of the local product.
LEMMA LocalInv ==
  ASSUME IInv, NEW r \in Ranks, LocalChunk(r)
  PROVE  IInv'
PROOF
<1> USE DEF IInv
<1> DEFINE next == rowStart[r] + ChunkSize(plan, r)
           end  == IF next > plan.nr[r] THEN plan.nr[r] ELSE next
<1>0. /\ plan \in Plans /\ pc[r] = "local" /\ rowStart[r] \in Nat
      /\ plan' = plan /\ x' = x /\ chan' = chan /\ iter' = iter /\ sendBuffer' = sendBuffer
      /\ toSend' = toSend /\ toRecv' = toRecv
  BY DEF LocalChunk, TypeOK
<1>1. ChunkSize(plan, r) \in Nat
  <2>1. plan.nr[r] + NudgeChunks - 1 \in Nat /\ NudgeChunks \in Nat \ {0}
    BY <1>0, PlanFacts, BoundsAssumption
  <2>2. \A a \in Nat, b \in Nat \ {0} : a \div b \in Nat
    BY Z3
  <2> QED
    BY <2>1, <2>2 DEF ChunkSize
<1>2. next \in Nat
  BY <1>0, <1>1
<1>3. /\ pc' = [pc EXCEPT ![r] = IF next < plan.nr[r] THEN "local" ELSE "wait"]
      /\ rowStart' = [rowStart EXCEPT ![r] = next]
      /\ y' = [y EXCEPT ![r] = LocalRange(plan, r, x[r], y[r], rowStart[r], end)]
  BY DEF LocalChunk
<1> HIDE DEF next
<1>4. TypeOK'
  BY <1>0, <1>2, <1>3 DEF TypeOK, PcValues, LocalRange
<1>5. /\ \A q \in Ranks \ {r} : pc'[q] = pc[q] /\ rowStart'[q] = rowStart[q] /\ y'[q] = y[q]
      /\ pc'[r] = IF next < plan.nr[r] THEN "local" ELSE "wait"
      /\ rowStart'[r] = next
      /\ y'[r] = LocalRange(plan, r, x[r], y[r], rowStart[r], end)
  BY <1>3 DEF TypeOK
<1>6. RequestInv'
  BY <1>0, <1>5 DEF RequestInv
<1>7. VectorInv'
  BY <1>0, <1>5 DEF VectorInv, Version
<1>8. ChanInv'
  BY <1>0, ChanUnchanged
<1>9. HaloInv'
  BY <1>0, <1>5 DEF HaloInv
<1>10. ProductInv'
  <2>1. \A s \in OwnedSlots(plan, r) : x[r][s] = <<plan.glob[r][s], iter[r]>>
    BY <1>0 DEF VectorInv, Version
  <2>2. ASSUME NEW i \in OwnedSlots(plan, r), i < end
        PROVE  y'[r][i] = LocalTerms(plan, r, i, iter[r])
    <3>1. CASE rowStart[r] <= i
      BY <1>0, <1>5, <2>1, <2>2, <3>1, LocalEntries DEF LocalRange
    <3>2. CASE ~(rowStart[r] <= i)
      <4>1. i < rowStart[r]
        BY <1>0, <3>2, PlanFacts DEF OwnedSlots
      <4> QED
        BY <1>0, <1>5, <3>2, <4>1 DEF LocalRange, ProductInv
    <3> QED
      BY <3>1, <3>2
  <2>3. \A i \in OwnedSlots(plan, r) : i < next => i < end
    BY <1>0, PlanFacts DEF OwnedSlots
  <2>4. ~(next < plan.nr[r]) => \A i \in OwnedSlots(plan, r) : i < end
    BY <1>0, <1>2, PlanFacts DEF OwnedSlots
  <2> HIDE DEF end
  <2> QED
    BY <1>0, <1>5, <2>2, <2>3, <2>4 DEF ProductInv
<1>11. LagInv'
  BY <1>0, <1>5 DEF LagInv, EnteredReduction
<1> QED
  BY <1>4, <1>6, <1>7, <1>8, <1>9, <1>10, <1>11

\* MPI takes a block out of a send buffer.
LEMMA DepartInv ==
  ASSUME IInv, NEW q \in Ranks, NEW r \in Ranks, Depart(q, r)
  PROVE  IInv'
PROOF
<1> USE DEF IInv
<1>0. /\ plan \in Plans /\ plan' = plan /\ pc' = pc /\ iter' = iter /\ x' = x /\ y' = y
      /\ sendBuffer' = sendBuffer /\ rowStart' = rowStart /\ toRecv' = toRecv
      /\ r \in toSend[q] /\ q \in plan.sources[r]
      /\ pc[q] \in {"local", "wait"}
      /\ \A p \in Ranks : iter[p] \in Int
  <2>1. plan \in Plans /\ r \in plan.destinations[q]
    BY DEF Depart, RequestInv, TypeOK
  <2>2. q \in plan.sources[r]
    BY <2>1, DestinationFacts
  <2> QED
    BY <2>1, <2>2, BoundsAssumption DEF Depart, RequestInv, TypeOK
<1>1. /\ toSend' = [toSend EXCEPT ![q] = @ \ {r}]
      /\ chan' = [chan EXCEPT ![<<q, r>>] = Append(@, Block(plan, q, r, sendBuffer[q]))]
  BY DEF Depart
<1>2. TypeOK'
  BY <1>0, <1>1 DEF TypeOK
<1>3. RequestInv'
  BY <1>0, <1>1 DEF RequestInv, TypeOK
<1>4. VectorInv'
  BY <1>0 DEF VectorInv, Version
<1>5. ChanInv'
  <2> SUFFICES ASSUME NEW t \in Ranks, NEW s \in plan.sources[t]
               PROVE  /\ Arrived(s, t)' <= Departed(s, t)'
                      /\ chan'[<<s, t>>] = InFlight(plan, s, t, Arrived(s, t)', Departed(s, t)')
    BY <1>0 DEF ChanInv
  <2>1. s \in Ranks /\ <<s, t>> \in DOMAIN chan
    BY <1>0, PlanFacts DEF TypeOK
  <2>2. Arrived(s, t)' = Arrived(s, t)
    BY <1>0 DEF Arrived
  <2>3. CASE s = q /\ t = r
    <3> DEFINE a == Arrived(q, r)
               d == Departed(q, r)
    <3>1. Departed(q, r)' = d + 1 /\ d + 1 = iter[q] /\ a \in Int /\ d \in Int /\ a <= d
      BY <1>0, <1>1, <2>1 DEF Departed, Arrived, ChanInv, TypeOK
    <3>2. Block(plan, q, r, sendBuffer[q]) = Sent(plan, q, r, d + 1)
      <4>1. \A i \in SendSlots(plan, q) :
              sendBuffer[q][i] = <<plan.glob[q][plan.elementsToSend[q][i]], iter[q]>>
        BY <1>0 DEF VectorInv
      <4> QED
        BY <1>0, <3>1, <4>1, BlockIsSent
    <3>3. chan[<<q, r>>] = InFlight(plan, q, r, a, d)
      BY <1>0 DEF ChanInv
    <3>4. chan'[<<q, r>>] = Append(InFlight(plan, q, r, a, d), Sent(plan, q, r, d + 1))
      BY <1>1, <2>1, <2>3, <3>2, <3>3
    <3>5. Append(InFlight(plan, q, r, a, d), Sent(plan, q, r, d + 1))
            = InFlight(plan, q, r, a, d + 1)
      <4> DEFINE n == d - a
                 f(j) == Sent(plan, q, r, a + j)
      <4>1. n \in Nat /\ a + (n + 1) = d + 1 /\ (d + 1) - a = n + 1
        BY <3>1
      <4> HIDE DEF n, f, a, d
      <4>2. Append([j \in 1 .. n |-> f(j)], f(n + 1)) = [j \in 1 .. n + 1 |-> f(j)]
        BY <4>1, AppendNext
      <4>3. /\ f(n + 1) = Sent(plan, q, r, d + 1)
            /\ InFlight(plan, q, r, a, d) = [j \in 1 .. n |-> f(j)]
            /\ InFlight(plan, q, r, a, d + 1) = [j \in 1 .. n + 1 |-> f(j)]
        BY <4>1 DEF f, n, InFlight
      <4> QED
        BY <4>2, <4>3
    <3> HIDE DEF a, d
    <3>6. Arrived(q, r)' = a
      BY <2>2, <2>3 DEF a
    <3> QED
      BY <2>3, <3>1, <3>4, <3>5, <3>6
  <2>4. CASE ~(s = q /\ t = r)
    <3>1. Departed(s, t)' = Departed(s, t)
      BY <1>0, <1>1, <2>1, <2>4 DEF Departed, TypeOK
    <3>2. chan'[<<s, t>>] = chan[<<s, t>>]
      BY <1>1, <2>1, <2>4
    <3> QED
      BY <2>2, <3>1, <3>2 DEF ChanInv
  <2> QED
    BY <2>3, <2>4
<1>6. HaloInv'
  BY <1>0 DEF HaloInv
<1>7. ProductInv'
  BY <1>0 DEF ProductInv
<1>8. LagInv'
  BY <1>0 DEF LagInv, EnteredReduction
<1> QED
  BY <1>2, <1>3, <1>4, <1>5, <1>6, <1>7, <1>8

\* MPI stores a block in a halo.
LEMMA ArriveInv ==
  ASSUME IInv, NEW q \in Ranks, NEW r \in Ranks, Arrive(q, r)
  PROVE  IInv'
PROOF
<1> USE DEF IInv
<1>0. /\ plan \in Plans /\ plan' = plan /\ pc' = pc /\ iter' = iter /\ y' = y
      /\ sendBuffer' = sendBuffer /\ rowStart' = rowStart /\ toSend' = toSend
      /\ q \in toRecv[r] /\ q \in plan.sources[r] /\ chan[<<q, r>>] # <<>>
      /\ pc[r] \in {"local", "wait"}
      /\ \A p \in Ranks : iter[p] \in Int
  BY BoundsAssumption DEF Arrive, RequestInv, TypeOK
<1>1. /\ toRecv' = [toRecv EXCEPT ![r] = @ \ {q}]
      /\ chan' = [chan EXCEPT ![<<q, r>>] = Tail(@)]
      /\ x' = [x EXCEPT ![r] = Stored(plan, r, q, @, Head(chan[<<q, r>>]))]
  BY DEF Arrive
<1> DEFINE a == Arrived(q, r)
           d == Departed(q, r)
<1>2. a + 1 = iter[r] /\ a \in Int /\ d \in Int /\ a <= d /\ Arrived(q, r)' = a + 1
  BY <1>0, <1>1 DEF Arrived, Departed, ChanInv, TypeOK
<1>3. /\ Head(chan[<<q, r>>]) = Sent(plan, q, r, iter[r])
      /\ Tail(chan[<<q, r>>]) = InFlight(plan, q, r, a + 1, d)
      /\ a + 1 <= d
  <2> DEFINE n == d - a
             f(j) == Sent(plan, q, r, a + j)
  <2>1. n \in Nat /\ d - (a + 1) = n - 1
    BY <1>2
  <2>2. chan[<<q, r>>] = InFlight(plan, q, r, a, d)
    BY <1>0 DEF ChanInv
  <2> HIDE DEF n, f, a, d
  <2>3. chan[<<q, r>>] = [j \in 1 .. n |-> f(j)]
    BY <2>2 DEF n, f, InFlight
  <2>4. [j \in 1 .. n |-> f(j)] # <<>>
    BY <1>0, <2>3
  <2>5. /\ n > 0
        /\ Head([j \in 1 .. n |-> f(j)]) = f(1)
        /\ Tail([j \in 1 .. n |-> f(j)]) = [j \in 1 .. n - 1 |-> f(j + 1)]
    BY <2>1, <2>4, FirstOut
  <2>6. \A j \in 1 .. n - 1 : a + (j + 1) = (a + 1) + j
    BY <1>2, <2>1
  <2>7. [j \in 1 .. n - 1 |-> f(j + 1)] = InFlight(plan, q, r, a + 1, d)
    BY <2>1, <2>6 DEF f, InFlight
  <2>8. f(1) = Sent(plan, q, r, iter[r])
    BY <1>2 DEF f
  <2>9. a + 1 <= d
    BY <1>2, <2>5 DEF n
  <2> QED
    BY <2>3, <2>5, <2>7, <2>8, <2>9
<1> HIDE DEF a, d
<1>4. /\ x'[r] = Stored(plan, r, q, x[r], Sent(plan, q, r, iter[r]))
      /\ \A p \in Ranks \ {r} : x'[p] = x[p]
      /\ \A p \in Ranks : toRecv'[p] = IF p = r THEN toRecv[r] \ {q} ELSE toRecv[p]
  BY <1>1, <1>3 DEF TypeOK
<1>5. /\ \A s \in HaloSegment(plan, r, q) : x'[r][s] = <<plan.glob[r][s], iter[r]>>
      /\ \A s \in Slots(plan, r) \ HaloSegment(plan, r, q) : x'[r][s] = x[r][s]
      /\ DOMAIN x'[r] = Slots(plan, r)
  BY <1>0, <1>4, StoredIsFresh
<1>6. TypeOK'
  BY <1>0, <1>1, <1>4, <1>5 DEF TypeOK
<1>7. RequestInv'
  BY <1>0, <1>4 DEF RequestInv
<1>8. VectorInv'
  <2>0. /\ \A s \in HaloSegment(plan, r, q) : s \in HaloSlots(plan, r)
        /\ plan.nr[r] \in Nat
        /\ \A s \in OwnedSlots(plan, r) : s \in Slots(plan, r)
    BY SMTT(20), <1>0, PlanFacts, EdgeFacts
  <2>1. \A s \in OwnedSlots(plan, r) : s \in Slots(plan, r) \ HaloSegment(plan, r, q)
    BY <2>0 DEF OwnedSlots, HaloSlots
  <2>2. \A p \in Ranks : \A s \in OwnedSlots(plan, p) : x'[p][s] = x[p][s]
    BY <1>4, <1>5, <2>1
  <2> QED
    BY <1>0, <2>2 DEF VectorInv, Version
<1>9. ChanInv'
  <2> SUFFICES ASSUME NEW t \in Ranks, NEW s \in plan.sources[t]
               PROVE  /\ Arrived(s, t)' <= Departed(s, t)'
                      /\ chan'[<<s, t>>] = InFlight(plan, s, t, Arrived(s, t)', Departed(s, t)')
    BY <1>0 DEF ChanInv
  <2>1. s \in Ranks /\ <<s, t>> \in DOMAIN chan
    BY <1>0, PlanFacts DEF TypeOK
  <2>2. Departed(s, t)' = Departed(s, t)
    BY <1>0 DEF Departed
  <2>3. CASE s = q /\ t = r
    <3>1. Departed(q, r)' = d
      BY <2>2, <2>3 DEF d
    <3>2. chan'[<<q, r>>] = InFlight(plan, q, r, a + 1, d)
      BY <1>1, <1>3, <2>1, <2>3
    <3> QED
      BY <1>2, <1>3, <2>3, <3>1, <3>2
  <2>4. CASE ~(s = q /\ t = r)
    <3>1. Arrived(s, t)' = Arrived(s, t)
      BY <1>0, <1>4, <2>1, <2>4 DEF Arrived
    <3>2. chan'[<<s, t>>] = chan[<<s, t>>]
      BY <1>1, <2>1, <2>4
    <3> QED
      BY <2>2, <3>1, <3>2 DEF ChanInv
  <2> QED
    BY <2>3, <2>4
<1>10. HaloInv'
  <2> SUFFICES ASSUME NEW t \in Ranks, NEW s \in plan.sources[t],
                      pc[t] # "begin", s \notin toRecv'[t],
                      NEW i \in HaloSegment(plan, t, s)
               PROVE  x'[t][i] = <<plan.glob[t][i], iter[t]>>
    BY <1>0 DEF HaloInv
  <2>1. CASE t # r
    BY <1>4, <2>1 DEF HaloInv
  <2>2. CASE t = r /\ s = q
    BY <1>5, <2>2
  <2>3. CASE t = r /\ s # q
    <3>1. i \in Slots(plan, r) \ HaloSegment(plan, r, q)
      BY <1>0, <2>3, PlanFacts, EdgeFacts, HaloTiled
    <3>2. s \notin toRecv[r]
      BY <1>4, <2>3
    <3> QED
      BY <1>5, <2>3, <3>1, <3>2 DEF HaloInv
  <2> QED
    BY <2>1, <2>2, <2>3
<1>11. ProductInv'
  BY <1>0 DEF ProductInv
<1>12. LagInv'
  BY <1>0 DEF LagInv, EnteredReduction
<1> QED
  BY <1>6, <1>7, <1>8, <1>9, <1>10, <1>11, <1>12

\* MPI_Wait returns.
LEMMA EndInv ==
  ASSUME IInv, NEW r \in Ranks, EndExchange(r)
  PROVE  IInv'
PROOF
<1> USE DEF IInv
<1>0. /\ plan' = plan /\ iter' = iter /\ x' = x /\ y' = y /\ sendBuffer' = sendBuffer
      /\ rowStart' = rowStart /\ toSend' = toSend /\ toRecv' = toRecv /\ chan' = chan
      /\ pc[r] = "wait" /\ toSend[r] = {} /\ toRecv[r] = {}
      /\ \A q \in Ranks : pc'[q] = IF q = r THEN "compute" ELSE pc[q]
  BY DEF EndExchange, TypeOK
<1>1. TypeOK'
  BY <1>0 DEF TypeOK, EndExchange, PcValues
<1>2. RequestInv'
  BY <1>0 DEF RequestInv
<1>3. VectorInv'
  BY <1>0 DEF VectorInv, Version
<1>4. ChanInv'
  BY <1>0, ChanUnchanged
<1>5. HaloInv'
  BY <1>0 DEF HaloInv
<1>6. ProductInv'
  BY <1>0 DEF ProductInv
<1>7. LagInv'
  BY <1>0 DEF LagInv, EnteredReduction
<1> QED
  BY <1>1, <1>2, <1>3, <1>4, <1>5, <1>6, <1>7

\* In a rank that has left the wait, the whole vector is current.
LEMMA VectorCurrent ==
  ASSUME IInv, NEW r \in Ranks, pc[r] \in {"compute", "reduce"}
  PROVE  /\ plan \in Plans
         /\ \A s \in OwnedSlots(plan, r) : x[r][s] = <<plan.glob[r][s], iter[r]>>
         /\ \A s \in HaloSlots(plan, r) : x[r][s] = <<plan.glob[r][s], iter[r]>>
PROOF
<1> USE DEF IInv
<1>1. plan \in Plans
  BY DEF TypeOK
<1>2. \A s \in OwnedSlots(plan, r) : x[r][s] = <<plan.glob[r][s], iter[r]>>
  BY DEF VectorInv, Version
<1>3. toRecv[r] = {}
  BY DEF RequestInv
<1>4. \A q \in plan.sources[r] : \A s \in HaloSegment(plan, r, q) :
        x[r][s] = <<plan.glob[r][s], iter[r]>>
  BY <1>3 DEF HaloInv
<1> QED
  BY SMTT(20), <1>1, <1>2, <1>4, SegmentsMakeHalo

\* The kernel that completes a product makes it exact.
LEMMA ComputeExact ==
  ASSUME IInv, NEW r \in Ranks, Compute(r)
  PROVE  y' = [y EXCEPT ![r] = Product(plan, r, iter[r])]
PROOF
<1> USE DEF IInv
<1>1. /\ pc[r] = "compute" /\ r \in DOMAIN y
      /\ y' = [y EXCEPT ![r] = IF Overlap THEN External(plan, r, x[r], y[r])
                               ELSE FullProduct(plan, r, x[r])]
  BY DEF Compute, TypeOK
<1>2. CASE Overlap
  <2>1. \A i \in OwnedSlots(plan, r) : y[r][i] = LocalTerms(plan, r, i, iter[r])
    BY <1>1, <1>2 DEF ProductInv
  <2>2. External(plan, r, x[r], y[r]) = Product(plan, r, iter[r])
    BY <1>1, <2>1, VectorCurrent, ExternalIsExact
  <2> QED
    BY <1>1, <1>2, <2>2
<1>3. CASE ~Overlap
  <2>1. FullProduct(plan, r, x[r]) = Product(plan, r, iter[r])
    BY <1>1, VectorCurrent, FullIsExact
  <2> QED
    BY <1>1, <1>3, <2>1
<1> QED
  BY <1>2, <1>3

\* The SpMV on the local columns keeps the invariant.
LEMMA ComputeInv ==
  ASSUME IInv, NEW r \in Ranks, Compute(r)
  PROVE  IInv'
PROOF
<1> USE DEF IInv
<1>0. /\ plan' = plan /\ iter' = iter /\ x' = x /\ sendBuffer' = sendBuffer
      /\ rowStart' = rowStart /\ toSend' = toSend /\ toRecv' = toRecv /\ chan' = chan
      /\ pc[r] = "compute"
      /\ \A q \in Ranks : pc'[q] = IF q = r THEN "reduce" ELSE pc[q]
  BY DEF Compute, TypeOK
<1>1. y' = [y EXCEPT ![r] = Product(plan, r, iter[r])]
  BY ComputeExact
<1>2. TypeOK'
  BY <1>0, <1>1 DEF TypeOK, Compute, PcValues, Product
<1>3. RequestInv'
  BY <1>0 DEF RequestInv
<1>4. VectorInv'
  BY <1>0 DEF VectorInv, Version
<1>5. ChanInv'
  BY <1>0, ChanUnchanged
<1>6. HaloInv'
  BY <1>0 DEF HaloInv
<1>7. ProductInv'
  <2>1. \A q \in Ranks : y'[q] = IF q = r THEN Product(plan, r, iter[r]) ELSE y[q]
    BY <1>1 DEF TypeOK
  <2> QED
    BY <1>0, <2>1 DEF ProductInv
<1>8. LagInv'
  BY <1>0 DEF LagInv, EnteredReduction
<1> QED
  BY <1>2, <1>3, <1>4, <1>5, <1>6, <1>7, <1>8

\* The caller moves on to the next vector, or stops.
LEMMA NextVectorInv ==
  ASSUME IInv, NEW r \in Ranks, NextVector(r)
  PROVE  IInv'
PROOF
<1> USE DEF IInv
<1>0. /\ plan' = plan /\ iter' = iter /\ y' = y /\ sendBuffer' = sendBuffer
      /\ rowStart' = rowStart /\ toSend' = toSend /\ toRecv' = toRecv /\ chan' = chan
      /\ pc[r] = "reduce" /\ plan \in Plans
  BY DEF NextVector, TypeOK
<1>1. /\ \A q \in Ranks \ {r} : pc'[q] = pc[q] /\ x'[q] = x[q]
      /\ DOMAIN x' = Ranks /\ DOMAIN x'[r] = Slots(plan, r)
      /\ \/ iter[r] = MaxApply /\ pc'[r] = "done" /\ x' = x
         \/ /\ iter[r] # MaxApply /\ pc'[r] = "begin"
            /\ \A s \in OwnedSlots(plan, r) : x'[r][s] = <<plan.glob[r][s], iter[r] + 1>>
  <2>1. CASE iter[r] = MaxApply
    BY <2>1 DEF NextVector, LastProduct, TypeOK
  <2>2. CASE iter[r] # MaxApply
    <3>1. PICK keep \in BOOLEAN :
            x' = [x EXCEPT ![r] = [s \in Slots(plan, r) |->
                    IF s \in OwnedSlots(plan, r) THEN <<plan.glob[r][s], iter[r] + 1>>
                    ELSE IF keep THEN @[s] ELSE None]]
      BY <2>2 DEF NextVector, LastProduct
    <3>2. pc' = [pc EXCEPT ![r] = "begin"]
      BY <2>2 DEF NextVector, LastProduct
    <3> QED
      BY <1>0, <2>2, <3>1, <3>2, PlanFacts DEF TypeOK
  <2> QED
    BY <2>1, <2>2
<1>2. TypeOK'
  <2>1. pc' \in [Ranks -> PcValues]
    BY DEF NextVector, TypeOK, PcValues
  <2> QED
    BY <1>0, <1>1, <2>1 DEF TypeOK
<1>3. RequestInv'
  <2>1. iter[r] \in 0 .. MaxApply /\ MaxApply \in Nat
    BY BoundsAssumption DEF TypeOK
  <2>2. pc'[r] = "begin" => iter[r] < MaxApply
    BY <1>1, <2>1
  <2> QED
    BY <1>0, <1>1, <2>2 DEF RequestInv
<1>4. VectorInv'
  BY <1>0, <1>1 DEF VectorInv, Version
<1>5. ChanInv'
  BY <1>0, ChanUnchanged
<1>6. HaloInv'
  BY <1>0, <1>1 DEF HaloInv
<1>7. ProductInv'
  BY <1>0, <1>1 DEF ProductInv
<1>8. LagInv'
  <2>1. \A q \in Ranks : iter[q] \in Int
    BY BoundsAssumption DEF TypeOK
  <2>2. \A q \in Ranks, v \in Int : EnteredReduction(q, v) => EnteredReduction(q, v)'
    BY <1>0, <1>1 DEF EnteredReduction
  <2>3. Synchronous => \A q \in Ranks : EnteredReduction(q, iter[r])
    BY DEF NextVector
  <2> QED
    BY <1>0, <1>1, <2>1, <2>2, <2>3 DEF LagInv
<1> QED
  BY <1>2, <1>3, <1>4, <1>5, <1>6, <1>7, <1>8

\* A stuttering step keeps the invariant.
LEMMA StutterInv ==
  ASSUME IInv, UNCHANGED vars
  PROVE  IInv'
PROOF
<1> USE DEF vars
<1>1. TypeOK'
  BY DEF IInv, TypeOK
<1>2. RequestInv'
  BY DEF IInv, RequestInv
<1>3. VectorInv'
  BY DEF IInv, VectorInv, Version
<1>4. ChanInv'
  BY DEF IInv, ChanInv, Arrived, Departed
<1>5. HaloInv'
  BY DEF IInv, HaloInv
<1>6. ProductInv'
  BY DEF IInv, ProductInv
<1>7. LagInv'
  BY DEF IInv, LagInv, EnteredReduction
<1> QED
  BY <1>1, <1>2, <1>3, <1>4, <1>5, <1>6, <1>7 DEF IInv

\* Every step of the system preserves the invariant.
LEMMA NextInv == IInv /\ [Next]_vars => IInv'
PROOF
<1> SUFFICES ASSUME IInv, [Next]_vars PROVE IInv'
  OBVIOUS
<1>1. CASE \E r \in Ranks : RankStep(r)
  <2>1. PICK r \in Ranks : RankStep(r)
    BY <1>1
  <2> QED
    BY <2>1, BeginInv, LocalInv, EndInv, ComputeInv, NextVectorInv DEF RankStep
<1>2. CASE MPIStep
  BY <1>2, DepartInv, ArriveInv DEF MPIStep
<1>3. CASE Finished \/ UNCHANGED vars
  BY <1>3, StutterInv DEF Finished
<1> QED
  BY <1>1, <1>2, <1>3 DEF Next

-----------------------------------------------------------------------------
(* The theorems.                                                           *)

\* The inductive invariant holds in every reachable state: requests are open
\* only around the wait, owned and packed values are current, an edge carries
\* one block per exchange in order, what has arrived is in place, partial and
\* complete products are exact (solverApplyA over commExchange of comm.c).
THEOREM Invariance == Spec => []IInv
PROOF
<1>1. Init => IInv
  BY InitInv
<1>2. IInv /\ [Next]_vars => IInv'
  BY NextInv
<1> QED
  BY <1>1, <1>2, PTL DEF Spec

\* Every variable keeps its type.
THEOREM TypeCorrect == Spec => []TypeOK
PROOF
<1>1. IInv => TypeOK
  BY DEF IInv
<1> QED
  BY <1>1, Invariance, PTL

\* commExchangeEnd: after it every halo slot holds its global row's value of the
\* vector being multiplied, for any ranks, plan, build and interleaving with MPI.
THEOREM HaloIsFresh == Spec => []HaloFresh
PROOF
<1>1. IInv => HaloFresh
  BY VectorCurrent DEF HaloFresh
<1> QED
  BY <1>1, Invariance, PTL

\* solverApplyA returns the exact product: each row's sum has each of its terms
\* once, all from the current vector, with and without overlap.
THEOREM ProductIsExact == Spec => []ProductExact
PROOF
<1>1. IInv => ProductExact
  BY DEF IInv, ProductInv, ProductExact, RequestInv
<1> QED
  BY <1>1, Invariance, PTL

\* With a reduction after each product (the solvers), no rank is two exchanges
\* ahead of another and an edge holds at most one message.
THEOREM BacklogIsBounded == Spec => []BacklogBounded
PROOF
<1>1. IInv => BacklogBounded
  <2> SUFFICES ASSUME IInv, Synchronous, NEW r \in Ranks
               PROVE  /\ \A q \in Ranks : iter[q] <= iter[r] + 1
                      /\ \A q \in plan.sources[r] : Len(chan[<<q, r>>]) <= 1
    BY DEF BacklogBounded
  <2> USE DEF IInv
  <2>1. plan \in Plans /\ \A q \in Ranks : iter[q] \in Int
    BY BoundsAssumption DEF TypeOK
  <2>2. \A q \in Ranks :
          iter[q] <= iter[r] \/ (iter[q] = iter[r] + 1 /\ pc[r] \notin {"local", "wait"})
    BY <2>1 DEF LagInv, EnteredReduction
  <2>3. ASSUME NEW q \in plan.sources[r]
        PROVE  Len(chan[<<q, r>>]) <= 1
    <3> DEFINE a == Arrived(q, r)
               d == Departed(q, r)
    <3>1. a \in Int /\ d \in Int /\ a <= d /\ d - a <= 1
      <4>1. q \in Ranks
        BY <2>1, PlanFacts
      <4>2. pc[r] \notin {"local", "wait"} => toRecv[r] = {}
        BY DEF RequestInv
      <4>3. a <= d
        BY DEF ChanInv
      <4>4. d \in Int /\ d <= iter[q]
        BY <2>1, <4>1 DEF Departed
      <4>5. a \in Int /\ a >= iter[r] - 1 /\ (toRecv[r] = {} => a = iter[r])
        BY <2>1 DEF Arrived
      <4> HIDE DEF a, d
      <4> QED
        BY <2>1, <2>2, <4>1, <4>2, <4>3, <4>4, <4>5
    <3>2. chan[<<q, r>>] = InFlight(plan, q, r, a, d)
      BY DEF ChanInv
    <3> HIDE DEF a, d
    <3>3. Len(InFlight(plan, q, r, a, d)) = d - a
      BY <3>1 DEF InFlight
    <3> QED
      BY <3>1, <3>2, <3>3
  <2> QED
    BY <2>1, <2>2, <2>3
<1> QED
  BY <1>1, Invariance, PTL

\* Posting an exchange starts a product, the last kernel finishes it exactly,
\* everything else is invisible: solverApplyA implements DistSpMV.
THEOREM Implements == Spec => ImplementsDistSpMV
PROOF
<1>1. Init => Abs!Init
  BY DEF Init, Abs!Init, resultBar
<1>2. IInv /\ [Next]_vars => [Abs!Next]_(Abs!vars)
  <2> SUFFICES ASSUME IInv, [Next]_vars PROVE [Abs!Next]_(Abs!vars)
    OBVIOUS
  <2> USE DEF IInv
  <2>0. /\ plan \in Plans /\ \A r \in Ranks : iter[r] \in 0 .. MaxApply
    BY BoundsAssumption DEF TypeOK
  <2>1. ASSUME NEW r \in Ranks, BeginExchange(r)
        PROVE  Abs!Start(r)
    <3>1. iter[r] < MaxApply /\ iter' = [iter EXCEPT ![r] = @ + 1] /\ plan' = plan
      BY <2>1 DEF BeginExchange, RequestInv
    <3>2. resultBar' = [resultBar EXCEPT ![r] = None]
      BY <2>0, <2>1 DEF BeginExchange, resultBar, TypeOK
    <3> QED
      BY <3>1, <3>2 DEF Abs!Start
  <2>2. ASSUME NEW r \in Ranks, Compute(r)
        PROVE  Abs!Finish(r)
    <3>1. /\ pc[r] = "compute" /\ iter[r] > 0 /\ plan' = plan /\ iter' = iter
          /\ toRecv[r] = {}
          /\ pc' = [pc EXCEPT ![r] = "reduce"]
      BY <2>2 DEF Compute, RequestInv
    <3>2. resultBar[r] = None
      BY <3>1 DEF resultBar
    <3>3. \A q \in plan.sources[r] : iter[q] >= iter[r]
      <4> SUFFICES ASSUME NEW q \in plan.sources[r] PROVE iter[q] >= iter[r]
        OBVIOUS
      <4>1. q \in Ranks /\ iter[q] \in Int /\ iter[r] \in Int
        BY <2>0, PlanFacts, BoundsAssumption
      <4>2. Arrived(q, r) = iter[r] /\ Arrived(q, r) <= Departed(q, r)
        BY <3>1 DEF Arrived, ChanInv
      <4> QED
        BY <4>1, <4>2 DEF Departed
    <3>4. resultBar' = [resultBar EXCEPT ![r] = Abs!Product(plan, r, iter[r])]
      <4>1. y' = [y EXCEPT ![r] = Product(plan, r, iter[r])]
        BY <2>2, ComputeExact
      <4>2. Product(plan, r, iter[r]) = Abs!Product(plan, r, iter[r])
        BY DEF Product, Abs!Product, OwnedSlots
      <4> QED
        BY <3>1, <4>1, <4>2 DEF resultBar, TypeOK
    <3> QED
      BY <3>1, <3>2, <3>3, <3>4 DEF Abs!Finish
  <2>3. ASSUME NEW r \in Ranks, LocalChunk(r) \/ EndExchange(r) \/ NextVector(r)
        PROVE  UNCHANGED Abs!vars
    <3>1. plan' = plan /\ iter' = iter
      BY <2>3 DEF LocalChunk, EndExchange, NextVector
    <3>2. resultBar' = resultBar
      BY <2>3 DEF LocalChunk, EndExchange, NextVector, resultBar, TypeOK
    <3> QED
      BY <3>1, <3>2 DEF Abs!vars
  <2>4. ASSUME MPIStep \/ Finished \/ UNCHANGED vars
        PROVE  UNCHANGED Abs!vars
    <3>1. plan' = plan /\ iter' = iter /\ pc' = pc /\ y' = y
      BY <2>4 DEF MPIStep, Depart, Arrive, Finished, vars
    <3> QED
      BY <3>1 DEF Abs!vars, resultBar
  <2> QED
    BY <2>1, <2>2, <2>3, <2>4 DEF Next, RankStep, Abs!Next
<1> QED
  BY <1>1, <1>2, Invariance, PTL DEF Spec, Abs!Spec, ImplementsDistSpMV
=============================================================================
