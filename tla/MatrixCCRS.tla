------------------------------ MODULE MatrixCCRS ------------------------------
(* matrix-CCRS.c: columns and values in one array of entries.              *)
EXTENDS MatrixKernels

Convert(G) ==
  [nr |-> G.nr, nc |-> G.nc, vecRows |-> G.nr, rowPtr |-> G.rowPtr, entries |-> G.entries,
   val |-> [i \in DOMAIN G.entries |-> G.entries[i].val],
   old |-> [i \in 0 .. G.nr - 1 |-> i]]

Tasks(m) == 0 .. m.nr - 1

RowSum(m, mem, a, e) ==
  LET row == e \div a.ld
  IN [k \in 1 .. m.rowPtr[row + 1] - m.rowPtr[row] |->
        LET x == m.entries[m.rowPtr[row] + k - 1] IN <<x.val, Gather(mem, a, e, x.col)>>]

Product(m, mem, a, e) == LinComb(RowSum(m, mem, a, e), Null, Null, Null)
Fused(m, mem, a, e) == Combined(mem, a, RowSum(m, mem, a, e), e)

SpMMVM(m, mem, a, row) == Written(mem, a, [e \in Elements({row}, a.w) |-> Product(m, mem, a, e)])
SpMMVMFused(m, mem, a, row) == Written(mem, a, [e \in Elements({row}, a.w) |-> Fused(m, mem, a, e)])

Circle(m, i) ==
  LET here == m.rowPtr[i] .. m.rowPtr[i + 1] - 1
  IN [diag |-> {j \in here : m.entries[j].col = i}, off |-> {j \in here : m.entries[j].col # i}]
=============================================================================
