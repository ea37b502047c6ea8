----------------------------- MODULE HaloSetup ------------------------------
(***************************************************************************)
(* commLocalization (comm.c) on every rank, from the distributed matrix to *)
(* a communication plan, then convertMatrix's permutation and              *)
(* commRemapSendIndices as main.c calls them.                              *)
(*                                                                         *)
(* Ranks meet in MPI_Allgather and MPI_Dist_graph_create; each tells the   *)
(* owners of its externals what it needs with MPI_Isend / MPI_Irecv.  MPI  *)
(* may list a rank's neighbours in any order, may buffer a send or leave   *)
(* it in the sender's array until it is received, and completes requests   *)
(* in any order.                                                           *)
(***************************************************************************)
EXTENDS Localization, ExchangePlan

CONSTANTS
  Size,        \* number of MPI processes
  Matrices,    \* the distributed matrices a run may start from
  Garbage      \* memory that holds nothing meaningful

Procs == 0 .. Size - 1

\* MPI-Algorithm.md: "Every rank gets a consecutive number of rows."
RowPartition(M) ==
  /\ M.start \in [Procs -> Nat]
  /\ M.nr \in [Procs -> Nat]
  /\ M.start[0] = 0
  /\ \A r \in Procs : r + 1 \in Procs => M.start[r + 1] = M.start[r] + M.nr[r]

GlobalRows(M) == 0 .. M.start[Size - 1] + M.nr[Size - 1] - 1

\* A column is a row, too: x is distributed as y is.  The code takes it for granted.
Square(M) == \A g \in GlobalRows(M) : M.rows[g] \in Seq(GlobalRows(M))

ASSUME SetupAssumption ==
  /\ Size \in Nat \ {0}
  /\ \A M \in Matrices : RowPartition(M) /\ Square(M)
  /\ Garbage \notin Int /\ Garbage \notin Seq(Int)

VARIABLES
  A,          \* the distributed matrix (GMatrix on every rank)
  pc,         \* [Procs -> step of the setup]
  ext,        \* [Procs -> extLocalToGlobal]
  own,        \* [Procs -> extOwningRank]
  sources,    \* [Procs -> neighbour list, in MPI's order]
  dests,      \* [Procs -> neighbour list, in MPI's order]
  needed,     \* [Procs -> extLocalToGlobalReordered, Garbage once freed]
  rows,       \* [Procs -> localized rows: [entries, localEnd]]
  nc,         \* [Procs -> m->nc]
  elements,   \* [Procs -> elementsToSend, 0-based]
  perm,       \* [Procs -> oldToNewPerm]
  request,    \* [Procs \X Procs -> state of the message from a rank to a source]
  wire        \* [Procs \X Procs -> its content once MPI has copied it]

vars == <<A, pc, ext, own, sources, dests, needed, rows, nc, elements, perm,
          request, wire>>

Steps == <<"identify", "gather", "graph", "localize", "post", "wait", "convert",
           "remap", "done">>
StepNo(s) == CHOOSE i \in DOMAIN Steps : Steps[i] = s

\* q has come as far as step s.
Reached(q, s) == StepNo(pc[q]) >= StepNo(s)

Goto(r, s) == pc' = [pc EXCEPT ![r] = s]

OldRows(r) == 0 .. A.nr[r] - 1

\* Orders in which MPI_Dist_graph_neighbors may list a set of neighbours.
Orders(S) == SetToSeqs(S)

\* The ranks q receives from: each edge carries a positive weight.
SourceSet(q) == {s \in Procs : RecvFrom(own[q], s) > 0}

\* The counts that go with r's neighbour lists: the weights of the edges.
RecvCounts(r) == [i \in DOMAIN sources[r] |-> RecvFrom(own[r], sources[r][i])]
SendCounts(r) == [i \in DOMAIN dests[r] |-> RecvFrom(own[dests[r][i]], r)]

\* Displacements: running sums in list order.
Rdispls(r) == [i \in DOMAIN sources[r] |-> Prefix(RecvCounts(r), i)]
Sdispls(r) == [i \in DOMAIN dests[r] |-> Prefix(SendCounts(r), i)]
TotalSendCount(r) == Prefix(SendCounts(r), Len(dests[r]) + 1)

IndexIn(list, q) == CHOOSE i \in DOMAIN list : list[i] = q

-----------------------------------------------------------------------------
Init ==
  /\ A \in Matrices
  /\ pc = [r \in Procs |-> "identify"]
  /\ ext = [r \in Procs |-> <<>>]
  /\ own = [r \in Procs |-> <<>>]
  /\ sources = [r \in Procs |-> <<>>]
  /\ dests = [r \in Procs |-> <<>>]
  /\ needed = [r \in Procs |-> Garbage]
  /\ rows = [r \in Procs |-> [i \in OldRows(r) |-> Garbage]]
  /\ nc = A.nr
  /\ elements = [r \in Procs |-> Garbage]
  /\ perm = [r \in Procs |-> [i \in OldRows(r) |-> i]]
  /\ request = [e \in Procs \X Procs |-> "none"]
  /\ wire = [e \in Procs \X Procs |-> Garbage]

\* Step 1, and entering the MPI_Allgather of findExternalOwningRanks.
Identify(r) ==
  /\ pc[r] = "identify"
  /\ ext' = [ext EXCEPT ![r] = IdentifyExternals(A, r)]
  /\ Goto(r, "gather")
  /\ UNCHANGED <<A, own, sources, dests, needed, rows, nc, elements, perm, request, wire>>

\* The gather returns when every rank has contributed; the owners are looked
\* up; setupTopology enters MPI_Dist_graph_create with the incoming edges.
FindOwningRanks(r) ==
  /\ pc[r] = "gather"
  /\ \A q \in Procs : Reached(q, "gather")
  /\ own' = [own EXCEPT ![r] = FindOwners(A, ext[r])]
  /\ Goto(r, "graph")
  /\ UNCHANGED <<A, ext, sources, dests, needed, rows, nc, elements, perm, request, wire>>

\* The graph exists when every rank has named its edges; retrieveTopology asks
\* for both directions.
RetrieveTopology(r) ==
  /\ pc[r] = "graph"
  /\ \A q \in Procs : Reached(q, "graph")
  /\ \E srcs \in Orders(SourceSet(r)), dsts \in Orders({q \in Procs : r \in SourceSet(q)}) :
       /\ sources' = [sources EXCEPT ![r] = srcs]
       /\ dests' = [dests EXCEPT ![r] = dsts]
  /\ Goto(r, "localize")
  /\ UNCHANGED <<A, ext, own, needed, rows, nc, elements, perm, request, wire>>

\* Step 3: reorderExternals, the reordered list, localizeMatrix, the extended
\* column count, reorderMatrixForOverlap.
ReorderAndLocalize(r) ==
  LET idx == ExtLocalIndex(A.nr[r], own[r], sources[r], RecvCounts(r))
  IN  /\ pc[r] = "localize"
      /\ needed' = [needed EXCEPT ![r] = Reordered(A.nr[r], ext[r], idx)]
      /\ rows' = [rows EXCEPT ![r] = [i \in OldRows(r) |->
                    SplitRow(A.nr[r],
                             LocalizeRow(A, r, A.rows[A.start[r] + i], ext[r], idx))]]
      /\ nc' = [nc EXCEPT ![r] = @ + Len(ext[r])]
      /\ Goto(r, "post")
      /\ UNCHANGED <<A, ext, own, sources, dests, elements, perm, request, wire>>

\* (Fault) Blocking sends: on with it only when the other side receives.
PostBlocking(r) ==
  /\ pc[r] = "post"
  /\ \A q \in ToSet(sources[r]) : Reached(q, "wait")
  /\ elements' = [elements EXCEPT ![r] = [i \in 0 .. TotalSendCount(r) - 1 |-> Garbage]]
  /\ request' = [e \in Procs \X Procs |->
                   IF e[1] = r /\ e[2] \in ToSet(sources[r]) THEN "posted" ELSE request[e]]
  /\ Goto(r, "wait")
  /\ UNCHANGED <<A, ext, own, sources, dests, needed, rows, nc, perm, wire>>

\* Step 4: elementsToSend allocated, a receive posted per destination, a send
\* per source.
PostMessages(r) ==
  /\ pc[r] = "post"
  /\ elements' = [elements EXCEPT ![r] = [i \in 0 .. TotalSendCount(r) - 1 |-> Garbage]]
  /\ request' = [e \in Procs \X Procs |->
                   IF e[1] = r /\ e[2] \in ToSet(sources[r]) THEN "posted" ELSE request[e]]
  /\ Goto(r, "wait")
  /\ UNCHANGED <<A, ext, own, sources, dests, needed, rows, nc, perm, wire>>

\* What r's send array holds now for source q.
Segment(r, q) ==
  LET i == IndexIn(sources[r], q)
  IN  [k \in 1 .. RecvCounts(r)[i] |->
         IF needed[r] = Garbage THEN Garbage ELSE needed[r][Rdispls(r)[i] + k]]

\* MPI copies a message out of the sender's array before it is received.
Buffer(r, q) ==
  /\ request[<<r, q>>] = "posted"
  /\ wire' = [wire EXCEPT ![<<r, q>>] = Segment(r, q)]
  /\ request' = [request EXCEPT ![<<r, q>>] = "buffered"]
  /\ UNCHANGED <<A, pc, ext, own, sources, dests, needed, rows, nc, elements, perm>>

\* MPI stores the message from r where q's receive for r says.
Receive(r, q) ==
  LET i   == IndexIn(dests[q], r)
      msg == IF request[<<r, q>>] = "buffered" THEN wire[<<r, q>>] ELSE Segment(r, q)
  IN  /\ request[<<r, q>>] \in {"posted", "buffered"}
      /\ Reached(q, "wait")
      /\ elements' = [elements EXCEPT ![q] = [n \in DOMAIN @ |->
                        IF n \in Sdispls(q)[i] .. Sdispls(q)[i] + SendCounts(q)[i] - 1
                        THEN msg[n - Sdispls(q)[i] + 1] ELSE @[n]]]
      /\ request' = [request EXCEPT ![<<r, q>>] = "received"]
      /\ UNCHANGED <<A, pc, ext, own, sources, dests, needed, rows, nc, perm, wire>>

\* (Fault) Only the receives waited for.
WaitReceivesOnly(r) ==
  /\ pc[r] = "wait"
  /\ \A q \in ToSet(dests[r]) : request[<<q, r>>] = "received"
  /\ elements' = [elements EXCEPT ![r] = [n \in DOMAIN @ |->
                    IF @[n] = Garbage THEN Garbage ELSE @[n] - A.start[r]]]
  /\ needed' = [needed EXCEPT ![r] = Garbage]
  /\ Goto(r, "convert")
  /\ UNCHANGED <<A, ext, own, sources, dests, rows, nc, perm, request, wire>>

\* Both MPI_Waitall, the subtraction of startRow, and the frees.
WaitAll(r) ==
  /\ pc[r] = "wait"
  /\ \A q \in ToSet(dests[r]) : request[<<q, r>>] = "received"
  /\ \A q \in ToSet(sources[r]) : request[<<r, q>>] \in {"buffered", "received"}
  /\ elements' = [elements EXCEPT ![r] = [n \in DOMAIN @ |->
                    IF @[n] = Garbage THEN Garbage ELSE @[n] - A.start[r]]]
  /\ needed' = [needed EXCEPT ![r] = Garbage]
  /\ Goto(r, "convert")
  /\ UNCHANGED <<A, ext, own, sources, dests, rows, nc, perm, request, wire>>

\* The local columns of a row after the rows have been permuted by f.
RenumberRow(row, nr, f) ==
  [entries |-> [j \in DOMAIN row.entries |->
     [col |-> IF row.entries[j].col < nr THEN f[row.entries[j].col] ELSE row.entries[j].col,
      val |-> row.entries[j].val]],
   localEnd |-> row.localEnd]

\* convertMatrix: SCS sorts the rows of a rank by length and renumbers the local
\* columns with the rows; CRS and CCRS copy.  Any permutation stands for a sort.
ConvertMatrix(r) ==
  /\ pc[r] = "convert"
  /\ \E f \in {f \in [OldRows(r) -> OldRows(r)] : IsInjective(f)} :
       /\ perm' = [perm EXCEPT ![r] = f]
       /\ rows' = [rows EXCEPT ![r] = [i \in OldRows(r) |-> RenumberRow(rows[r][i], A.nr[r], f)]]
  /\ Goto(r, "remap")
  /\ UNCHANGED <<A, ext, own, sources, dests, needed, nc, elements, request, wire>>

\* (Fault) The permutation forgotten.
RemapForgotten(r) ==
  /\ pc[r] = "remap"
  /\ Goto(r, "done")
  /\ UNCHANGED <<A, ext, own, sources, dests, needed, rows, nc, elements, perm, request, wire>>

\* commRemapSendIndices: send the value from where the permuted vector has it;
\* nothing to do where oldToNewPerm is NULL, the identity here.
RemapSendIndices(r) ==
  /\ pc[r] = "remap"
  /\ elements' = [elements EXCEPT ![r] = [n \in DOMAIN @ |-> perm[r][@[n]]]]
  /\ Goto(r, "done")
  /\ UNCHANGED <<A, ext, own, sources, dests, needed, rows, nc, perm, request, wire>>

Finished ==
  /\ \A r \in Procs : pc[r] = "done"
  /\ UNCHANGED vars

RankStep(r) ==
  \/ Identify(r) \/ FindOwningRanks(r) \/ RetrieveTopology(r) \/ ReorderAndLocalize(r)
  \/ PostMessages(r) \/ WaitAll(r) \/ ConvertMatrix(r) \/ RemapSendIndices(r)

Next ==
  \/ \E r \in Procs : RankStep(r)
  \/ \E r, q \in Procs : Buffer(r, q) \/ Receive(r, q)
  \/ Finished

Spec == Init /\ [][Next]_vars

\* Procs keep running; MPI delivers a message whose receive is posted.  Whether
\* it buffers a send is its own choice.
FairSpec ==
  /\ Spec
  /\ \A r \in Procs : WF_vars(RankStep(r))
  /\ \A r, q \in Procs : WF_vars(Receive(r, q))

-----------------------------------------------------------------------------
(* The plan the ranks hold at the end, in the form HaloExchange runs on.   *)

NewRows(r) == [n \in OldRows(r) |-> rows[r][CHOOSE i \in OldRows(r) : perm[r][i] = n]]
RowEntries(r, i) == NewRows(r)[i].entries

\* The global row behind slot s of rank r: owned slots by the partition and the
\* permutation, halo slots by the position of the external.
Glob(r, s) ==
  IF s < A.nr[r]
  THEN A.start[r] + (CHOOSE i \in OldRows(r) : perm[r][i] = s)
  ELSE Reordered(A.nr[r], ext[r],
                 ExtLocalIndex(A.nr[r], own[r], sources[r], RecvCounts(r)))[s - A.nr[r] + 1]

ByRank(list, f) == [q \in ToSet(list) |-> f[IndexIn(list, q)]]

Plan ==
  [nr           |-> A.nr,
   nc           |-> nc,
   totalSendCount |-> [r \in Procs |-> TotalSendCount(r)],
   sources      |-> [r \in Procs |-> ToSet(sources[r])],
   destinations |-> [r \in Procs |-> ToSet(dests[r])],
   recvCounts   |-> [r \in Procs |-> ByRank(sources[r], RecvCounts(r))],
   rdispls      |-> [r \in Procs |-> ByRank(sources[r], Rdispls(r))],
   sendCounts   |-> [r \in Procs |-> ByRank(dests[r], SendCounts(r))],
   sdispls      |-> [r \in Procs |-> ByRank(dests[r], Sdispls(r))],
   elementsToSend |-> elements,
   len          |-> [r \in Procs |-> [i \in OldRows(r) |-> Len(RowEntries(r, i))]],
   localEnd     |-> [r \in Procs |-> [i \in OldRows(r) |-> NewRows(r)[i].localEnd]],
   col          |-> [r \in Procs |-> [i \in OldRows(r) |->
                      [j \in 0 .. Len(RowEntries(r, i)) - 1 |-> RowEntries(r, i)[j + 1].col]]],
   val          |-> [r \in Procs |-> [i \in OldRows(r) |->
                      [j \in 0 .. Len(RowEntries(r, i)) - 1 |-> RowEntries(r, i)[j + 1].val]]],
   boundaryRows |-> [r \in Procs |-> {i \in OldRows(r) :
                      NewRows(r)[i].localEnd < Len(RowEntries(r, i))}],
   glob         |-> [r \in Procs |-> [s \in 0 .. nc[r] - 1 |-> Glob(r, s)]]]

-----------------------------------------------------------------------------
(* Properties.                                                             *)

TypeOK ==
  /\ A \in Matrices
  /\ pc \in [Procs -> ToSet(Steps)]
  /\ nc \in [Procs -> Nat]
  /\ request \in [Procs \X Procs -> {"none", "posted", "buffered", "received"}]
  /\ \A r \in Procs : own[r] \in Seq(Procs)
  /\ \A r \in Procs : sources[r] \in Seq(Procs) /\ dests[r] \in Seq(Procs)

AllDone == \A r \in Procs : pc[r] = "done"

\* The setup hands the solvers a plan on which an exchange is exact: the
\* assumption of HaloExchange, discharged.  Whatever order MPI lists the
\* neighbours in on each rank, what one rank packs is what the other expects.
PlanEstablished == AllDone => PlanOK(Procs, Plan)

\* The rows survive the renumbering: the entries of a row are its original
\* coefficients, each once, the locals before the externals, and among locals as
\* among externals in their original order.
RowsPreserved ==
  \A r \in Procs : Reached(r, "post") =>
    \A i \in OldRows(r) :
      LET orig     == A.rows[A.start[r] + i]
          entries  == rows[r][i].entries
          outer(j) == IsExternal(A, r, orig[j])
      IN  \E from \in [DOMAIN orig -> DOMAIN orig] :
            /\ IsInjective(from)
            /\ DOMAIN entries = DOMAIN orig
            /\ \A j \in DOMAIN orig : entries[j].val = orig[from[j]]
            /\ \A j, k \in DOMAIN orig : j < k =>
                 IF outer(from[j]) THEN outer(from[k]) /\ from[j] < from[k]
                 ELSE ~outer(from[k]) => from[j] < from[k]

\* An unreceived message still has its content: nothing frees or reuses the
\* array of an MPI_Isend that MPI has not copied or delivered.
SendArraysAlive ==
  \A r, q \in Procs : request[<<r, q>>] = "posted" => needed[r] # Garbage

\* Every external is asked for from the rank that owns its row, also where
\* start rows coincide because a rank owns none.
OwnersFound ==
  \A r \in Procs : \A i \in DOMAIN own[r] :
    ext[r][i] \in A.start[own[r][i]] .. StopRow(A, own[r][i])

\* The setup ends on every rank, even if MPI buffers nothing.
Terminates == <>AllDone
=============================================================================
