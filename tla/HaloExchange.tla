---------------------------- MODULE HaloExchange ----------------------------
(***************************************************************************)
(* solverApplyA (solverCommon.c) on every rank, over and over, with the    *)
(* halo exchange of comm.c underneath and MPI moving the data.             *)
(*                                                                         *)
(* Overlap = TRUE is the build with USE_OVERLAP_SPMVM: commExchangeBegin,  *)
(* the local SpMV in row chunks, commExchangeEnd, spMVM_external.          *)
(* Overlap = FALSE is commExchange followed by the full spMVM.             *)
(*                                                                         *)
(* Numbers are replaced by what they stand for: the value <<g, v>> is      *)
(* component g of the v-th vector that is multiplied.  A row of the        *)
(* product is the sequence of the values that went into its sum: an        *)
(* assignment starts a new sequence, += appends to the old one.            *)
(***************************************************************************)
EXTENDS ExchangePlan, Sequences

CONSTANTS
  Ranks,        \* the MPI processes
  Plans,        \* the communication plans a behaviour may start with
  MaxApply,     \* products per rank (bound)
  Overlap,      \* USE_OVERLAP_SPMVM
  NudgeChunks,  \* OVERLAP_NUDGE_CHUNKS
  Synchronous,  \* an MPI_Allreduce follows every product (the solvers)
  None          \* memory that holds no value of any vector

ASSUME PlansAssumption == \A p \in Plans : PlanOK(Ranks, p)

ASSUME BoundsAssumption ==
  /\ MaxApply \in Nat \ {0}
  /\ NudgeChunks \in Nat \ {0}
  /\ Overlap \in BOOLEAN
  /\ Synchronous \in BOOLEAN
  /\ None \notin Nat \X Nat

VARIABLES
  plan,         \* CommType and Matrix after setup
  pc,           \* [Ranks -> where the rank is in its loop]
  iter,         \* [Ranks -> exchanges posted]
  x,            \* [Ranks -> the vector: slot -> value]
  sendBuffer,   \* [Ranks -> CommType.sendBuffer]
  rowStart,     \* [Ranks -> next row of the chunked local SpMV]
  y,            \* [Ranks -> the product: row -> terms of its sum]
  toSend,       \* [Ranks -> destinations the open request still has to serve]
  toRecv,       \* [Ranks -> sources the open request still waits for]
  chan          \* [Ranks \X Ranks -> messages in flight, first sent first]

vars == <<plan, pc, iter, x, sendBuffer, rowStart, y, toSend, toRecv, chan>>

Value == Nat \X Nat
PcValues == {"begin", "local", "wait", "compute", "reduce", "done"}

\* The number of the vector a rank's owned slots hold.
Version(r) == IF pc[r] = "begin" THEN iter[r] + 1 ELSE iter[r]

-----------------------------------------------------------------------------
(* The data movement and the kernels.                                      *)

\* The pack loop: sendBuffer[i] = x[elementsToSend[i]].
Pack(p, r, v) == [i \in SendSlots(p, r) |-> v[p.elementsToSend[r][i]]]

\* MPI: the block of q's send buffer that belongs to destination r.
Block(p, q, r, buf) ==
  [k \in 0 .. p.sendCounts[q][r] - 1 |-> buf[p.sdispls[q][r] + k]]

\* (Fault) The displacement within the halo ignored.
StoredAtHaloStart(p, r, q, v, blk) ==
  [s \in Slots(p, r) |->
     IF s - p.nr[r] \in 0 .. p.recvCounts[r][q] - 1 THEN blk[s - p.nr[r]] ELSE v[s]]

\* MPI: a block from q stored at rdispls in the halo of r's vector.
Stored(p, r, q, v, blk) ==
  [s \in Slots(p, r) |->
     IF s \in HaloSegment(p, r, q) THEN blk[s - (p.nr[r] + p.rdispls[r][q])] ELSE v[s]]

\* The values entries lo .. hi-1 of row i are multiplied with, in entry order.
Terms(p, r, i, v, lo, hi) == [j \in 1 .. hi - lo |-> v[p.col[r][i][lo + j - 1]]]

\* (Fault) += where the local kernel has to assign.
LocalRangeAdds(p, r, v, out, lo, hi) ==
  [i \in OwnedSlots(p, r) |->
     IF lo <= i /\ i < hi THEN out[i] \o Terms(p, r, i, v, 0, p.localEnd[r][i]) ELSE out[i]]

\* spMVM_local_range: y[i] = the sum over the local entries, for rows lo .. hi-1.
LocalRange(p, r, v, out, lo, hi) ==
  [i \in OwnedSlots(p, r) |->
     IF lo <= i /\ i < hi THEN Terms(p, r, i, v, 0, p.localEnd[r][i]) ELSE out[i]]

\* (Fault) = where the external kernel has to accumulate.
ExternalOverwrites(p, r, v, out) ==
  [i \in OwnedSlots(p, r) |->
     IF i \in p.boundaryRows[r]
     THEN Terms(p, r, i, v, p.localEnd[r][i], p.len[r][i]) ELSE out[i]]

\* spMVM_external: y[i] += the sum over the external entries, for boundary rows.
External(p, r, v, out) ==
  [i \in OwnedSlots(p, r) |->
     IF i \in p.boundaryRows[r]
     THEN out[i] \o Terms(p, r, i, v, p.localEnd[r][i], p.len[r][i]) ELSE out[i]]

\* spMVM: y[i] = the sum over all entries.
FullProduct(p, r, v) ==
  [i \in OwnedSlots(p, r) |-> Terms(p, r, i, v, 0, p.len[r][i])]

\* The product of the rows of r with the k-th global vector, term by term.
Product(p, r, k) ==
  [i \in OwnedSlots(p, r) |-> [j \in 1 .. p.len[r][i] |-> <<p.val[r][i][j - 1], k>>]]

ChunkSize(p, r) == (p.nr[r] + NudgeChunks - 1) \div NudgeChunks

-----------------------------------------------------------------------------
Init ==
  /\ plan \in Plans
  /\ pc = [r \in Ranks |-> "begin"]
  /\ iter = [r \in Ranks |-> 0]
  /\ x = [r \in Ranks |-> [s \in Slots(plan, r) |->
            IF s \in OwnedSlots(plan, r) THEN <<plan.glob[r][s], 1>> ELSE None]]
  /\ sendBuffer = [r \in Ranks |-> [i \in SendSlots(plan, r) |-> None]]
  /\ rowStart = [r \in Ranks |-> 0]
  /\ y = [r \in Ranks |-> [i \in OwnedSlots(plan, r) |-> <<None>>]]
  /\ toSend = [r \in Ranks |-> {}]
  /\ toRecv = [r \in Ranks |-> {}]
  /\ chan = [e \in Ranks \X Ranks |-> <<>>]

\* (Fault) The lists of neighbours confused: sending to the sources.
BeginToSources(r) ==
  /\ pc[r] = "begin"
  /\ iter' = [iter EXCEPT ![r] = @ + 1]
  /\ sendBuffer' = [sendBuffer EXCEPT ![r] = Pack(plan, r, x[r])]
  /\ toSend' = [toSend EXCEPT ![r] = plan.sources[r] \cap plan.destinations[r]]
  /\ toRecv' = [toRecv EXCEPT ![r] = plan.sources[r]]
  /\ rowStart' = [rowStart EXCEPT ![r] = 0]
  /\ pc' = [pc EXCEPT ![r] = IF Overlap /\ plan.nr[r] > 0 THEN "local" ELSE "wait"]
  /\ UNCHANGED <<plan, x, y, chan>>

\* commExchange / commExchangeBegin: pack, then post the neighbour collective.
BeginExchange(r) ==
  /\ pc[r] = "begin"
  /\ iter' = [iter EXCEPT ![r] = @ + 1]
  /\ sendBuffer' = [sendBuffer EXCEPT ![r] = Pack(plan, r, x[r])]
  /\ toSend' = [toSend EXCEPT ![r] = plan.destinations[r]]
  /\ toRecv' = [toRecv EXCEPT ![r] = plan.sources[r]]
  /\ rowStart' = [rowStart EXCEPT ![r] = 0]
  /\ pc' = [pc EXCEPT ![r] = IF Overlap /\ plan.nr[r] > 0 THEN "local" ELSE "wait"]
  /\ UNCHANGED <<plan, x, y, chan>>

\* One chunk of the local SpMV, while the exchange is in flight, followed by
\* commExchangeTest, whose answer is ignored.
LocalChunk(r) ==
  LET next == rowStart[r] + ChunkSize(plan, r)
      end  == IF next > plan.nr[r] THEN plan.nr[r] ELSE next
  IN  /\ pc[r] = "local"
      /\ y' = [y EXCEPT ![r] = LocalRange(plan, r, x[r], @, rowStart[r], end)]
      /\ rowStart' = [rowStart EXCEPT ![r] = next]
      /\ pc' = [pc EXCEPT ![r] = IF next < plan.nr[r] THEN "local" ELSE "wait"]
      /\ UNCHANGED <<plan, iter, x, sendBuffer, toSend, toRecv, chan>>

\* (Fault) Progress only inside commExchangeTest, none in the wait.
DepartInTestOnly(q, r) ==
  /\ r \in toSend[q]
  /\ pc[q] = "local"
  /\ chan' = [chan EXCEPT ![<<q, r>>] = Append(@, Block(plan, q, r, sendBuffer[q]))]
  /\ toSend' = [toSend EXCEPT ![q] = @ \ {r}]
  /\ UNCHANGED <<plan, pc, iter, x, sendBuffer, rowStart, y, toRecv>>

\* MPI reads a block of q's send buffer, at any time while the request is open.
Depart(q, r) ==
  /\ r \in toSend[q]
  /\ chan' = [chan EXCEPT ![<<q, r>>] = Append(@, Block(plan, q, r, sendBuffer[q]))]
  /\ toSend' = [toSend EXCEPT ![q] = @ \ {r}]
  /\ UNCHANGED <<plan, pc, iter, x, sendBuffer, rowStart, y, toRecv>>

\* MPI stores the next block from q in r's halo, at any time while r's request
\* is open.  Successive collectives on a communicator match in order.
Arrive(q, r) ==
  /\ q \in toRecv[r]
  /\ chan[<<q, r>>] # <<>>
  /\ x' = [x EXCEPT ![r] = Stored(plan, r, q, @, Head(chan[<<q, r>>]))]
  /\ chan' = [chan EXCEPT ![<<q, r>>] = Tail(@)]
  /\ toRecv' = [toRecv EXCEPT ![r] = @ \ {q}]
  /\ UNCHANGED <<plan, pc, iter, sendBuffer, rowStart, y, toSend>>

\* (Fault) The kernel started before the receives are complete.
EndBeforeReceives(r) ==
  /\ pc[r] = "wait"
  /\ toSend[r] = {}
  /\ pc' = [pc EXCEPT ![r] = "compute"]
  /\ UNCHANGED <<plan, iter, x, sendBuffer, rowStart, y, toSend, toRecv, chan>>

\* (Fault) The send buffer released before the sends are complete.
EndBeforeSends(r) ==
  /\ pc[r] = "wait"
  /\ toRecv[r] = {}
  /\ pc' = [pc EXCEPT ![r] = "compute"]
  /\ UNCHANGED <<plan, iter, x, sendBuffer, rowStart, y, toSend, toRecv, chan>>

\* commExchangeEnd (MPI_Wait), or the return of MPI_Neighbor_alltoallv.
EndExchange(r) ==
  /\ pc[r] = "wait"
  /\ toSend[r] = {} /\ toRecv[r] = {}
  /\ pc' = [pc EXCEPT ![r] = "compute"]
  /\ UNCHANGED <<plan, iter, x, sendBuffer, rowStart, y, toSend, toRecv, chan>>

\* spMVM_external on top of the local part, or the full spMVM.
Compute(r) ==
  /\ pc[r] = "compute"
  /\ y' = [y EXCEPT ![r] = IF Overlap THEN External(plan, r, x[r], @)
                           ELSE FullProduct(plan, r, x[r])]
  /\ pc' = [pc EXCEPT ![r] = "reduce"]
  /\ UNCHANGED <<plan, iter, x, sendBuffer, rowStart, toSend, toRecv, chan>>

\* The caller's test for its last product, and (fault) off by one.
OneMoreProduct(r) == iter[r] > MaxApply
LastProduct(r) == iter[r] = MaxApply

\* (Fault) No reduction holds a rank back.
NoReduction(q, v) == TRUE

\* Rank q has entered the reduction that follows the v-th product.
EnteredReduction(q, v) ==
  \/ iter[q] > v
  \/ iter[q] = v /\ pc[q] \in {"reduce", "begin", "done"}

\* The caller takes the product, reduces a scalar over it (the solvers), and
\* writes the owned part of the next vector to multiply.  The halo of that
\* vector is stale or, where another vector is passed, anything.
NextVector(r) ==
  /\ pc[r] = "reduce"
  /\ Synchronous => \A q \in Ranks : EnteredReduction(q, iter[r])
  /\ IF LastProduct(r)
     THEN /\ pc' = [pc EXCEPT ![r] = "done"]
          /\ UNCHANGED x
     ELSE /\ pc' = [pc EXCEPT ![r] = "begin"]
          /\ \E keep \in BOOLEAN :
               x' = [x EXCEPT ![r] = [s \in Slots(plan, r) |->
                       IF s \in OwnedSlots(plan, r) THEN <<plan.glob[r][s], iter[r] + 1>>
                       ELSE IF keep THEN @[s] ELSE None]]
  /\ UNCHANGED <<plan, iter, sendBuffer, rowStart, y, toSend, toRecv, chan>>

Finished ==
  /\ \A r \in Ranks : pc[r] = "done"
  /\ UNCHANGED vars

RankStep(r) ==
  BeginExchange(r) \/ LocalChunk(r) \/ EndExchange(r) \/ Compute(r) \/ NextVector(r)

MPIStep == \E q, r \in Ranks : Depart(q, r) \/ Arrive(q, r)

Next ==
  \/ \E r \in Ranks : RankStep(r)
  \/ MPIStep
  \/ Finished

Spec == Init /\ [][Next]_vars

\* Every rank keeps running, and MPI moves the data of a request that is open:
\* each rank ends up in MPI_Wait (or the blocking call), where MPI must
\* progress, so neither the sender nor the receiver needs to call it again.
Fairness ==
  /\ \A r \in Ranks : WF_vars(RankStep(r))
  /\ \A q, r \in Ranks : WF_vars(Depart(q, r)) /\ WF_vars(Arrive(q, r))

FairSpec == Spec /\ Fairness

-----------------------------------------------------------------------------
(* Properties.                                                             *)

\* Types of the variables; memory MPI or the kernels write holds values or None.
TypeOK ==
  /\ plan \in Plans
  /\ pc \in [Ranks -> PcValues]
  /\ iter \in [Ranks -> 0 .. MaxApply]
  /\ rowStart \in [Ranks -> Nat]
  /\ toSend \in [Ranks -> SUBSET Ranks]
  /\ toRecv \in [Ranks -> SUBSET Ranks]
  /\ DOMAIN x = Ranks /\ DOMAIN sendBuffer = Ranks /\ DOMAIN y = Ranks
  /\ DOMAIN chan = Ranks \X Ranks
  /\ \A r \in Ranks :
       /\ DOMAIN x[r] = Slots(plan, r)
       /\ DOMAIN sendBuffer[r] = SendSlots(plan, r)
       /\ DOMAIN y[r] = OwnedSlots(plan, r)

\* After commExchangeEnd "x[numRows..numRows+extCount-1] contains valid external
\* values" (comm.c): every halo slot holds its global row's value of the vector
\* this very product multiplies, not of an earlier or a later one.
HaloFresh ==
  \A r \in Ranks : pc[r] \in {"compute", "reduce"} =>
    \A s \in HaloSlots(plan, r) : x[r][s] = <<plan.glob[r][s], iter[r]>>

\* When solverApplyA returns, the sum in every row has one term per entry, in
\* entry order, each with its column's value of the current vector: none missing,
\* none twice, none stale - "a halo contribution that silently went missing" is
\* what solverCheckResidual exists to catch.
ProductExact ==
  \A r \in Ranks : pc[r] = "reduce" => y[r] = Product(plan, r, iter[r])

\* With a reduction after every product no rank runs more than one exchange
\* ahead of another, so at most one block waits on any edge: the exchange never
\* piles up unexpected messages.
BacklogBounded ==
  Synchronous =>
    \A r \in Ranks :
      /\ \A q \in Ranks : iter[q] <= iter[r] + 1
      /\ \A q \in plan.sources[r] : Len(chan[<<q, r>>]) <= 1

\* Every rank gets through all its products.
AllDone == <>(\A r \in Ranks : pc[r] = "done")

\* The whole implements DistSpMV: a product is begun when the exchange is
\* posted and appears, complete, when solverApplyA returns.
resultBar ==
  [r \in Ranks |->
     IF iter[r] > 0 /\ pc[r] \in {"reduce", "begin", "done"} THEN y[r] ELSE None]

Abs == INSTANCE DistSpMV WITH started <- iter, result <- resultBar

ImplementsDistSpMV == Abs!Spec

-----------------------------------------------------------------------------
(* The inductive invariant behind the safety properties.                   *)

\* Blocks q has handed to MPI for r, and blocks r has got from q, so far.
Departed(q, r) == IF r \in toSend[q] THEN iter[q] - 1 ELSE iter[q]
Arrived(q, r)  == IF q \in toRecv[r] THEN iter[r] - 1 ELSE iter[r]

\* The block q sends r for the v-th vector.
Sent(p, q, r, v) ==
  [k \in 0 .. p.sendCounts[q][r] - 1 |->
     <<p.glob[q][p.elementsToSend[q][p.sdispls[q][r] + k]], v>>]

\* A request is open only between begin and the wait that closes it.
RequestInv ==
  \A r \in Ranks :
    /\ toSend[r] \subseteq plan.destinations[r]
    /\ toRecv[r] \subseteq plan.sources[r]
    /\ pc[r] \notin {"local", "wait"} => toSend[r] = {} /\ toRecv[r] = {}
    /\ pc[r] # "begin" => iter[r] > 0
    /\ pc[r] = "begin" => iter[r] < MaxApply

\* The owned part of the vector and, once packed, the send buffer are current.
VectorInv ==
  \A r \in Ranks :
    /\ \A s \in OwnedSlots(plan, r) : x[r][s] = <<plan.glob[r][s], Version(r)>>
    /\ pc[r] # "begin" =>
         \A i \in SendSlots(plan, r) :
           sendBuffer[r][i] = <<plan.glob[r][plan.elementsToSend[r][i]], iter[r]>>

\* The blocks for vectors a+1 .. d on their way from q to r.
InFlight(p, q, r, a, d) == [j \in 1 .. d - a |-> Sent(p, q, r, a + j)]

\* An edge carries the blocks departed and not yet arrived, one per exchange.
ChanInv ==
  \A r \in Ranks : \A q \in plan.sources[r] :
    /\ Arrived(q, r) <= Departed(q, r)
    /\ chan[<<q, r>>] = InFlight(plan, q, r, Arrived(q, r), Departed(q, r))

\* What has arrived is where it belongs.
HaloInv ==
  \A r \in Ranks : \A q \in plan.sources[r] :
    pc[r] # "begin" /\ q \notin toRecv[r] =>
      \A s \in HaloSegment(plan, r, q) : x[r][s] = <<plan.glob[r][s], iter[r]>>

\* The sum over the local entries of row i of the v-th product.
LocalTerms(p, r, i, v) ==
  [j \in 1 .. p.localEnd[r][i] |-> <<p.val[r][i][j - 1], v>>]

\* The chunks done so far hold local sums; a completed product is exact.
ProductInv ==
  \A r \in Ranks :
    /\ pc[r] = "local" => Overlap
    /\ pc[r] = "local" =>
         \A i \in OwnedSlots(plan, r) :
           i < rowStart[r] => y[r][i] = LocalTerms(plan, r, i, iter[r])
    /\ Overlap /\ pc[r] \in {"wait", "compute"} =>
         \A i \in OwnedSlots(plan, r) : y[r][i] = LocalTerms(plan, r, i, iter[r])
    /\ iter[r] > 0 /\ pc[r] \in {"reduce", "begin", "done"} =>
         y[r] = Product(plan, r, iter[r])

\* Nobody is past a reduction that another rank has not entered.
LagInv ==
  Synchronous =>
    \A q, r \in Ranks :
      EnteredReduction(q, IF pc[r] = "begin" THEN iter[r] ELSE iter[r] - 1)

\* What a step needs to know of the state it starts in: it holds initially, every
\* step preserves it, and HaloFresh and ProductExact follow.
IInv ==
  /\ TypeOK
  /\ RequestInv
  /\ VectorInv
  /\ ChanInv
  /\ HaloInv
  /\ ProductInv
  /\ LagInv
=============================================================================
