---------------------------- MODULE ExchangePlan ----------------------------
(***************************************************************************)
(* What commLocalization (comm.c) leaves behind on every rank: the         *)
(* CommType fields of comm.h and the localized matrix, and what has to be  *)
(* true of them before a halo exchange delivers the right numbers.         *)
(*                                                                         *)
(* A plan is a record of functions over the ranks.  Neighbour lists are    *)
(* sets: a rank occurs in them once, so "the i-th source" and "the source  *)
(* q" name the same thing, and the list order only shows in the            *)
(* displacements.                                                          *)
(*                                                                         *)
(*   nr, nc       rows owned; vector slots (owned + halo)                  *)
(*   sources      ranks this rank receives from, with recvCounts, rdispls  *)
(*   destinations ranks this rank sends to, with sendCounts, sdispls       *)
(*   elementsToSend  0 .. totalSendCount-1 -> owned slot to pack           *)
(*   len, localEnd   entries in a row, how many of them come first as      *)
(*                   local ones (rowLocalEnd relative to the row start)    *)
(*   col          the localized column of an entry: a vector slot          *)
(*   val          the coefficient of an entry, named by its global column  *)
(*   boundaryRows the rows spMVM_external visits                           *)
(*   glob         the global row a vector slot stands for (not stored in   *)
(*                the code: it is the meaning of the slot)                 *)
(***************************************************************************)
EXTENDS Integers

OwnedSlots(p, r) == 0 .. p.nr[r] - 1
HaloSlots(p, r)  == p.nr[r] .. p.nc[r] - 1
Slots(p, r)      == 0 .. p.nc[r] - 1
SendSlots(p, r)  == 0 .. p.totalSendCount[r] - 1
Entries(p, r, i) == 0 .. p.len[r][i] - 1

\* The vector slots of r that MPI_Neighbor_alltoallv fills from source q.
HaloSegment(p, r, q) ==
  p.nr[r] + p.rdispls[r][q] .. p.nr[r] + p.rdispls[r][q] + p.recvCounts[r][q] - 1

\* The part of r's send buffer that goes to destination q.
SendSegment(p, r, q) ==
  p.sdispls[r][q] .. p.sdispls[r][q] + p.sendCounts[r][q] - 1

PlanType(Ranks, p) ==
  /\ p.nr \in [Ranks -> Nat]
  /\ p.nc \in [Ranks -> Nat]
  /\ p.totalSendCount \in [Ranks -> Nat]
  /\ p.sources \in [Ranks -> SUBSET Ranks]
  /\ p.destinations \in [Ranks -> SUBSET Ranks]
  /\ \A r \in Ranks :
       /\ p.recvCounts[r] \in [p.sources[r] -> Nat]
       /\ p.rdispls[r] \in [p.sources[r] -> Nat]
       /\ p.sendCounts[r] \in [p.destinations[r] -> Nat]
       /\ p.sdispls[r] \in [p.destinations[r] -> Nat]
       /\ p.elementsToSend[r] \in [SendSlots(p, r) -> OwnedSlots(p, r)]
       /\ p.len[r] \in [OwnedSlots(p, r) -> Nat]
       /\ p.localEnd[r] \in [OwnedSlots(p, r) -> Nat]
       /\ p.boundaryRows[r] \in SUBSET OwnedSlots(p, r)
       /\ p.glob[r] \in [Slots(p, r) -> Nat]
       /\ \A i \in OwnedSlots(p, r) :
            /\ p.localEnd[r][i] <= p.len[r][i]
            /\ p.col[r][i] \in [Entries(p, r, i) -> Slots(p, r)]
            /\ p.val[r][i] \in [Entries(p, r, i) -> Nat]

\* Both ends of every edge of the graph topology know of it and expect the
\* same number of elements on it.
EdgesAgree(Ranks, p) ==
  \A r, q \in Ranks :
    /\ q \in p.sources[r] <=> r \in p.destinations[q]
    /\ q \in p.sources[r] => p.recvCounts[r][q] = p.sendCounts[q][r]

\* Sending reads inside the send buffer; receiving tiles the halo: every halo
\* slot is filled by one source and no source writes outside the halo.
BuffersTiled(Ranks, p) ==
  \A r \in Ranks :
    /\ \A q \in p.destinations[r] : SendSegment(p, r, q) \subseteq SendSlots(p, r)
    /\ \A q \in p.sources[r] : HaloSegment(p, r, q) \subseteq HaloSlots(p, r)
    /\ \A s \in HaloSlots(p, r) : \E q \in p.sources[r] : s \in HaloSegment(p, r, q)
    /\ \A q1, q2 \in p.sources[r] :
         q1 # q2 => HaloSegment(p, r, q1) \cap HaloSegment(p, r, q2) = {}

\* The k-th element that q packs for r stands for the same global row as the
\* k-th slot r receives from q.
SendsWhatIsNeeded(Ranks, p) ==
  \A r \in Ranks : \A q \in p.sources[r] : \A k \in 0 .. p.recvCounts[r][q] - 1 :
    p.glob[r][p.nr[r] + p.rdispls[r][q] + k]
      = p.glob[q][p.elementsToSend[q][p.sdispls[q][r] + k]]

\* Every matrix entry points at the slot that stands for its global column,
\* local entries come before external ones, and the boundary rows are the rows
\* that have external ones.
MatrixLocalized(Ranks, p) ==
  \A r \in Ranks :
    /\ p.nr[r] <= p.nc[r]
    /\ \A i \in OwnedSlots(p, r) :
         /\ i \in p.boundaryRows[r] <=> p.localEnd[r][i] < p.len[r][i]
         /\ \A j \in Entries(p, r, i) :
              /\ p.glob[r][p.col[r][i][j]] = p.val[r][i][j]
              /\ p.col[r][i][j] \in OwnedSlots(p, r) <=> j < p.localEnd[r][i]

PlanOK(Ranks, p) ==
  /\ PlanType(Ranks, p)
  /\ EdgesAgree(Ranks, p)
  /\ BuffersTiled(Ranks, p)
  /\ SendsWhatIsNeeded(Ranks, p)
  /\ MatrixLocalized(Ranks, p)
=============================================================================
