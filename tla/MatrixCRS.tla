------------------------------ MODULE MatrixCRS ------------------------------
(* matrix-CRS.c: conversion, host kernels, Gershgorin's circles.           *)
EXTENDS MatrixKernels

\* rowLocalEnd and boundaryRows, of the overlapped product only, are HaloExchange's.
Convert(G) ==
  [nr |-> G.nr, nc |-> G.nc, vecRows |-> G.nr, rowPtr |-> G.rowPtr,
   colInd |-> [i \in DOMAIN G.entries |-> G.entries[i].col],
   val |-> [i \in DOMAIN G.entries |-> G.entries[i].val],
   old |-> [i \in 0 .. G.nr - 1 |-> i]]

\* Iterations of the parallel loops.
Tasks(m) == 0 .. m.nr - 1

\* The loop over the entries of a row, for element e of y.
RowSum(m, mem, a, e) ==
  LET row == e \div a.ld
  IN [k \in 1 .. m.rowPtr[row + 1] - m.rowPtr[row] |->
        LET j == m.rowPtr[row] + k - 1 IN <<m.val[j], Gather(mem, a, e, m.colInd[j])>>]

Product(m, mem, a, e) == LinComb(RowSum(m, mem, a, e), Null, Null, Null)
Fused(m, mem, a, e) == Combined(mem, a, RowSum(m, mem, a, e), e)

SpMMVM(m, mem, a, row) == Written(mem, a, [e \in Elements({row}, a.w) |-> Product(m, mem, a, e)])
SpMMVMFused(m, mem, a, row) == Written(mem, a, [e \in Elements({row}, a.w) |-> Fused(m, mem, a, e)])

\* Centre and radius of row i.
Circle(m, i) ==
  LET here == m.rowPtr[i] .. m.rowPtr[i + 1] - 1
  IN [diag |-> {j \in here : m.colInd[j] = i}, off |-> {j \in here : m.colInd[j] # i}]
=============================================================================
