---------------------------- MODULE DeviceKernels ----------------------------
(***************************************************************************)
(* The product kernels of cuda_spmv_scs.cu and cuda_spmv_crs.cu and the    *)
(* shapes they are launched in.  A launch is a set of thread blocks        *)
(* <<x, y>>; a block is executed at once, a block's threads by what each  *)
(* of them writes.  An element two threads write, or one reached through a *)
(* vector type it is not aligned for, holds Garbage.                       *)
(***************************************************************************)
EXTENDS MatrixKernels, FiniteSetsExt

CONSTANTS
  WarpTile,      \* VEC_TILE: vectors of a full warp
  RowTile,       \* ROW_TILE
  NarrowTiles,   \* the smaller tiles of vecTile
  FlatThreads    \* threads of a block of the kernels for one vector

LaunchThreads == WarpTile * RowTile

VecTile(w) == Min({t \in NarrowTiles : w <= t} \cup {WarpTile})

CeilDiv(n, d) == (n + d - 1) \div d

\* The columns a thread computes: s neighbours, if the first is in the block.
Vecs(a, vt, s, tx, by) ==
  LET vec == s * (by * vt + tx) IN IF vec >= a.w THEN {} ELSE vec .. vec + s - 1

\* One block: thread <<tx, ty>> computes its columns of rows[ty].  value has every
\* element of y by the row sum of the format.
BlockWrites(mem, a, vt, rt, s, by, rows, value) ==
  LET Elems(tx, ty) == {r * a.ld + v : r \in rows[ty], v \in Vecs(a, vt, s, tx, by)}
      threads == (0 .. vt - 1) \X (0 .. rt - 1)
      aligned == a.ld % s = 0
      Alone(e) == Cardinality({t \in threads : e \in Elems(t[1], t[2])}) = 1
  IN Written(mem, a, [e \in UNION {Elems(t[1], t[2]) : t \in threads} |->
                        IF aligned /\ Alone(e) THEN value[e] ELSE Garbage])

-----------------------------------------------------------------------------
(* SELL-C-sigma.                                                           *)

\* (Fault) The kernels for pairs and quads without a look at the width.
ChebfdVecAnyWidth(a, requested) ==
  IF a.ld % 4 = 0 /\ requested = 4 THEN 4
  ELSE IF a.ld % 2 = 0 /\ requested >= 2 THEN 2
  ELSE 1

\* The columns per thread launchChebfdPart settles for.  All buffers are aligned.
ChebfdVec(a, requested) ==
  LET pairOk == a.w % 2 = 0 /\ a.ld % 2 = 0
      quadOk == pairOk /\ a.w % 4 = 0 /\ a.ld % 4 = 0
  IN IF quadOk /\ requested = 4 THEN 4 ELSE IF pairOk /\ requested >= 2 THEN 2 ELSE 1

ScsGrid(m, a, vt, s) == (0 .. m.nChunks - 1) \X (0 .. CeilDiv(a.w \div s, vt) - 1)

\* The rows of a chunk a thread goes through, by the strided loop over threadIdx.y.
Lanes(m, c, rt, ty) == {c * m.C + l : l \in {ty + k * rt : k \in 0 .. m.C} \cap (0 .. m.C - 1)}

ScsBlock(m, mem, a, vt, s, b, value) ==
  LET rt == LaunchThreads \div vt
  IN BlockWrites(mem, a, vt, rt, s, b[2], [ty \in 0 .. rt - 1 |-> Lanes(m, b[1], rt, ty)], value)

\* One vector: a thread per row, padding included.
ScsFlatGrid(m) == 0 .. CeilDiv(m.nChunks * m.C, FlatThreads) - 1
ScsFlatBlock(m, mem, a, b, value) ==
  LET rows == (b * FlatThreads .. (b + 1) * FlatThreads - 1) \cap (0 .. m.nChunks * m.C - 1)
  IN Written(mem, a, [e \in rows |-> value[e]])

-----------------------------------------------------------------------------
(* CRS.                                                                    *)

CrsGrid(m, a, vt) ==
  (0 .. CeilDiv(m.nr, LaunchThreads \div vt) - 1) \X (0 .. CeilDiv(a.w, vt) - 1)

CrsBlock(m, mem, a, vt, b, value) ==
  LET rt == LaunchThreads \div vt
  IN BlockWrites(mem, a, vt, rt, 1, b[2],
                 [ty \in 0 .. rt - 1 |-> {b[1] * rt + ty} \cap (0 .. m.nr - 1)], value)

CrsFlatGrid(m) == 0 .. CeilDiv(m.nr, FlatThreads) - 1
CrsFlatBlock(m, mem, a, b, value) ==
  LET rows == (b * FlatThreads .. (b + 1) * FlatThreads - 1) \cap (0 .. m.nr - 1)
  IN Written(mem, a, [e \in rows |-> value[e]])
=============================================================================
