---------------------------- MODULE MCHaloSetup ----------------------------
(* Instances of HaloSetup for TLC: four rows on three ranks.               *)
EXTENDS HaloSetup

\* A matrix from its rows, as sequences of global columns, split 2 + 1 + 1.
Split(rs) ==
  [start |-> [r \in 0 .. 2 |-> IF r = 0 THEN 0 ELSE r + 1],
   nr    |-> [r \in 0 .. 2 |-> IF r = 0 THEN 2 ELSE 1],
   rows  |-> [g \in 0 .. 3 |-> rs[g + 1]]]

\* Rank 0 exchanges with both others, which need different rows of it; local
\* and external columns alternate in its rows, out of order.
Fan == Split(<< <<3, 0, 2, 1>>, <<0, 3, 1>>, <<1, 2, 0>>, <<3, 1>> >>)

\* A chain: tridiagonal rows.
Chain == Split(<< <<0, 1>>, <<0, 1, 2>>, <<1, 2, 3>>, <<2, 3>> >>)

\* Non-symmetric: rank 0 only receives, rank 1 only sends, rank 2 does both.
OneWay == Split(<< <<0, 3, 2>>, <<2, 1>>, <<2>>, <<2, 3>> >>)

\* Rank 1 exchanges nothing; row 0 is empty, row 1 has externals only.
Uncoupled == Split(<< <<>>, <<3>>, <<2>>, <<1, 3, 0>> >>)

\* No rank exchanges anything.
Diagonal == Split(<< <<0>>, <<1>>, <<2>>, <<3>> >>)

\* Rank 1 owns no rows (more ranks than rows suffices); its neighbours' start
\* rows coincide.
EmptyRank ==
  [start |-> [r \in 0 .. 2 |-> IF r = 0 THEN 0 ELSE 2],
   nr    |-> [r \in 0 .. 2 |-> IF r = 1 THEN 0 ELSE 2],
   rows  |-> [g \in 0 .. 3 |-> IF g = 1 THEN <<1, 3, 2>> ELSE <<g, (g + 2) % 4>>]]

MCMatrices == {Fan, Chain, OneWay, Uncoupled, Diagonal, EmptyRank}
=============================================================================
