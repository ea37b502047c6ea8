---------------------------- MODULE MCVectorStream ----------------------------
(* Instances of VectorStream for TLC.                                      *)
EXTENDS VectorStream

\* Weights that tell the Chebyshev terms apart.
Weights == [n \in 0 .. Degree |-> 9^n]

\* One column a block, four blocks, and four chunks of one tile, the last one partial;
\* two columns a block, a partial last block, and chunks of two tiles; blocks wider than
\* the search space and a chunk larger than it.
Narrow == [vecRows |-> 7, NS |-> 4, nb |-> 1, chunk |-> 0]
Wide == [vecRows |-> 5, NS |-> 3, nb |-> 2, chunk |-> 13]
Small == [vecRows |-> 3, NS |-> 2, nb |-> 5, chunk |-> 99]

AllContexts == {Narrow, Wide, Small}

Call(op, m, out, np, useB) == [op |-> op, m |-> m, out |-> out, np |-> np, useB |-> useB]

AllCalls(NS) ==
  {Call("filter", m, m, np, FALSE) : m \in {NS - 1, NS}, np \in 2 .. Degree}
    \cup {Call("spmmv", NS - 1, NS - 1, 2, FALSE)}
    \cup {Call("gram", NS - 1, NS - 1, 2, b) : b \in BOOLEAN}
    \cup {Call("update", NS, o, 2, FALSE) : o \in {IF NS = 2 THEN 1 ELSE NS - 2, NS}}
    \cup {Call("ritz", NS, o, 2, FALSE) : o \in {0, NS}}
=============================================================================
