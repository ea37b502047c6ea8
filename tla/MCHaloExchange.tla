--------------------------- MODULE MCHaloExchange ---------------------------
(* Instances of HaloExchange for TLC.  The plans are those HaloSetup ends  *)
(* with for a few matrices of four rows on three ranks, one neighbour order *)
(* and one row permutation each.                                           *)
EXTENDS HaloExchange, Localization

Owners(M, r) == FindOwners(M, IdentifyExternals(M, r))
Sources(M, r) == ToSet(Owners(M, r))
Destinations(M, r) == {q \in DOMAIN M.nr : r \in Sources(M, q)}

\* Neighbours in ascending or descending rank order.
Listed(S, up) == SetToSortSeq(S, LAMBDA a, b : IF up THEN a < b ELSE a > b)

\* HaloSetup in its final state, and the plan it holds there.  f[r] is r's
\* oldToNewPerm; sources are listed upwards iff up.
FinalState(M, up, f) ==
  LET R       == DOMAIN M.nr
      src     == [r \in R |-> Listed(Sources(M, r), up)]
      cnt(r)  == [i \in DOMAIN src[r] |-> RecvFrom(Owners(M, r), src[r][i])]
      idx(r)  == ExtLocalIndex(M.nr[r], Owners(M, r), src[r], cnt(r))
      ren(r, e) == IF e.col < M.nr[r] THEN [e EXCEPT !.col = f[r][@]] ELSE e
      row(r, i) == SplitRow(M.nr[r], LocalizeRow(M, r, M.rows[M.start[r] + i],
                                                 IdentifyExternals(M, r), idx(r)))
  IN  [src  |-> src,
       dst  |-> [r \in R |-> Listed(Destinations(M, r), ~up)],
       own  |-> [r \in R |-> Owners(M, r)],
       ext  |-> [r \in R |-> IdentifyExternals(M, r)],
       nc   |-> [r \in R |-> M.nr[r] + Len(IdentifyExternals(M, r))],
       rows |-> [r \in R |-> [i \in 0 .. M.nr[r] - 1 |->
                   [row(r, i) EXCEPT !.entries = [j \in DOMAIN @ |-> ren(r, @[j])]]]],
       wanted |-> [r \in R |-> FlattenSeq([d \in DOMAIN Listed(Destinations(M, r), ~up) |->
                     LET q == Listed(Destinations(M, r), ~up)[d]
                     IN  SelectSeq(Reordered(M.nr[q], IdentifyExternals(M, q), idx(q)),
                                   LAMBDA g : OwningRank(M, g) = r)])]]

Setup(M, s, f) ==
  INSTANCE HaloSetup WITH
    Size <- Cardinality(DOMAIN M.nr), Matrices <- {M}, Garbage <- None,
    A <- M, pc <- [r \in DOMAIN M.nr |-> "done"], ext <- s.ext, own <- s.own,
    sources <- s.src, dests <- s.dst, needed <- [r \in DOMAIN M.nr |-> None],
    rows <- s.rows, nc <- s.nc, perm <- f,
    elements <- [r \in DOMAIN M.nr |-> [n \in 0 .. Len(s.wanted[r]) - 1 |->
                  f[r][s.wanted[r][n + 1] - M.start[r]]]],
    request <- None, wire <- None

PlanOf(M, up, f) == Setup(M, FinalState(M, up, f), f)!Plan

Split(rs) ==
  [start |-> [r \in 0 .. 2 |-> IF r = 0 THEN 0 ELSE r + 1],
   nr    |-> [r \in 0 .. 2 |-> IF r = 0 THEN 2 ELSE 1],
   rows  |-> [g \in 0 .. 3 |-> rs[g + 1]]]

\* oldToNewPerm: CRS keeps the rows, SCS may swap the two of rank 0.
Kept    == [r \in 0 .. 2 |-> IF r = 0 THEN <<0, 1>> ELSE <<0>>]
AsPerm(t) == [r \in 0 .. 2 |-> [i \in 0 .. Len(t[r]) - 1 |-> t[r][i + 1]]]
Swapped == [Kept EXCEPT ![0] = <<1, 0>>]

\* Rank 0 exchanges different rows with both others, which do not exchange.
FanPlan == PlanOf(Split(<< <<3, 0, 2, 1>>, <<0, 3, 1>>, <<1, 2, 0>>, <<3, 1>> >>),
                  FALSE, AsPerm(Kept))

\* Rank 1 only sends, rank 0 only receives; rows permuted.
OneWayPlan == PlanOf(Split(<< <<0, 3, 2>>, <<2, 1>>, <<2>>, <<2, 3>> >>),
                     TRUE, AsPerm(Swapped))

\* Rank 1 exchanges nothing, one row is empty, one has externals only.
UncoupledPlan == PlanOf(Split(<< <<>>, <<3>>, <<2>>, <<1, 3, 0>> >>), TRUE, AsPerm(Kept))

MCPlans == {FanPlan, OneWayPlan, UncoupledPlan}
CRSPlans == {FanPlan, UncoupledPlan}
=============================================================================
