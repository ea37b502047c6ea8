------------------------------ MODULE MatrixSCS ------------------------------
(***************************************************************************)
(* matrix-SCS.c: SELL-C-sigma.  Rows are sorted by length within windows   *)
(* of sigma rows, and stored in chunks of C rows padded to the longest.    *)
(***************************************************************************)
EXTENDS MatrixKernels, SequencesExt, FiniteSetsExt

\* (Fault) Rows of one length in the order of their end.
CompareDescTies(count, i, j) == count[i] > count[j] \/ (count[i] = count[j] /\ i > j)

\* compareDescSCS: i comes before j.
CompareDesc(count, i, j) == count[i] > count[j] \/ (count[i] = count[j] /\ i < j)

\* elemsPerRow after the sort: the row at every position.
Sorted(count, nrPadded, sigma) ==
  LET Window(i) == {j \in 0 .. nrPadded - 1 : j \div sigma = i \div sigma}
      place == [i \in 0 .. nrPadded - 1 |->
                  Min(Window(i)) + Cardinality({j \in Window(i) : CompareDesc(count, j, i)})]
  IN [p \in 0 .. nrPadded - 1 |-> CHOOSE i \in DOMAIN place : place[i] = p]

Longest(count, at, c, C) == Max({count[at[(c * C) + j]] : j \in 0 .. C - 1})

\* The scatter: entry j of the row at position pos goes into its lane.
Scatter(G, count, at, new, chunkPtr, C) ==
  LET Slot(i, j) == chunkPtr[new[i] \div C] + j * C + (new[i] % C)
      Col(c) == IF c < G.nr THEN new[c] ELSE c
      Store(s, i, j) ==
        LET e == G.entries[G.rowPtr[i] + j]
        IN [s EXCEPT ![Slot(i, j)] = [col |-> Col(e.col), val |-> e.val]]
      StoreRow(s, i) == FoldLeft(LAMBDA t, j : Store(t, i, j - 1), s, [j \in 1 .. count[i] |-> j])
      empty == [x \in 0 .. chunkPtr[Cardinality(DOMAIN chunkPtr) - 1] - 1 |-> [col |-> 0, val |-> Zero]]
  IN FoldLeft(LAMBDA s, i : StoreRow(s, i - 1), empty, [i \in 1 .. G.nr |-> i])

Convert(G, C, sigma) ==
  LET nChunks == (G.nr + C - 1) \div C
      nrPadded == nChunks * C
      count == [i \in 0 .. nrPadded - 1 |-> IF i < G.nr THEN G.rowPtr[i + 1] - G.rowPtr[i] ELSE 0]
      at == Sorted(count, nrPadded, sigma)
      lens == [c \in 0 .. nChunks - 1 |-> Longest(count, at, c, C)]
      ptr == [c \in 0 .. nChunks |-> C * FoldFunction(+, 0, [d \in 0 .. c - 1 |-> lens[d]])]
      new == [i \in 0 .. G.nr - 1 |-> CHOOSE p \in 0 .. nrPadded - 1 : at[p] = i]
      slots == Scatter(G, count, at, new, ptr, C)
  IN [nr |-> G.nr, nc |-> G.nc, vecRows |-> nrPadded, C |-> C, nChunks |-> nChunks,
      chunkLens |-> lens, chunkPtr |-> ptr,
      colInd |-> [x \in DOMAIN slots |-> slots[x].col], val |-> [x \in DOMAIN slots |-> slots[x].val],
      new |-> new, old |-> [p \in {new[i] : i \in 0 .. G.nr - 1} |-> CHOOSE i \in DOMAIN new : new[i] = p]]

Tasks(m) == 0 .. m.nChunks - 1

\* The loop over the columns of a chunk, for element e of y; a padding element adds 0.
RowSum(m, mem, a, e) ==
  LET row == e \div a.ld
      c == row \div m.C
      all == [k \in 1 .. m.chunkLens[c] |->
                LET x == m.chunkPtr[c] + (k - 1) * m.C + (row % m.C)
                IN <<m.val[x], Gather(mem, a, e, m.colInd[x])>>]
  IN SelectSeq(all, LAMBDA t : t[1] # Zero)

Product(m, mem, a, e) == LinComb(RowSum(m, mem, a, e), Null, Null, Null)
Fused(m, mem, a, e) == Combined(mem, a, RowSum(m, mem, a, e), e)

Chunk(m, c) == c * m.C .. c * m.C + m.C - 1

SpMMVM(m, mem, a, c) == Written(mem, a, [e \in Elements(Chunk(m, c), a.w) |-> Product(m, mem, a, e)])
SpMMVMFused(m, mem, a, c) ==
  Written(mem, a, [e \in Elements(Chunk(m, c), a.w) |-> Fused(m, mem, a, e)])

\* (Fault) The column is looked up by the old number of the row.
CircleOfOld(m, row) ==
  LET c == row \div m.C
      here == {m.chunkPtr[c] + k * m.C + (row % m.C) : k \in 0 .. m.chunkLens[c] - 1}
  IN [diag |-> {x \in here : m.colInd[x] = m.old[row]}, off |-> {x \in here : m.colInd[x] # m.old[row]}]

\* Rows and columns both have their new numbers.
Circle(m, row) ==
  LET c == row \div m.C
      here == {m.chunkPtr[c] + k * m.C + (row % m.C) : k \in 0 .. m.chunkLens[c] - 1}
  IN [diag |-> {x \in here : m.colInd[x] = row}, off |-> {x \in here : m.colInd[x] # row}]
=============================================================================
