---------------------------- MODULE MatrixProduct ----------------------------
(***************************************************************************)
(* One rank from the source of its matrix (generator or binary file) over  *)
(* localization and conversion to a product: host kernels of the three     *)
(* formats, device kernels of CRS and SELL-C-sigma.  The iterations of a   *)
(* parallel loop, or the blocks of a launch, run in any order.             *)
(*                                                                         *)
(* An element of a vector is named by buffer, number of the vector, global *)
(* row and column of the block, so that a sum shows what went into it.     *)
(***************************************************************************)
EXTENDS MatrixSource

CONSTANTS
  Jobs,      \* [source: kind, size, and the domain p or the rows of the file; rank; fmt; C; sigma]
  Calls,     \* [kernel, device, w, ld, vec (CHEBFD_VEC), and the buffers x, p, q, r, y, acc]
  WarpTile, RowTile, NarrowTiles, FlatThreads

Kernels == INSTANCE MatrixKernels
CRS == INSTANCE MatrixCRS
CCRS == INSTANCE MatrixCCRS
SCS == INSTANCE MatrixSCS
Device == INSTANCE DeviceKernels
Local == INSTANCE Localization

VARIABLES
  pc, job,
  file,      \* the binary file
  G,         \* GMatrix of the rank
  halo,      \* the global columns of its halo slots, in their order
  M,         \* its Matrix
  call, todo,          \* the call under way, and its iterations or blocks still to run
  mem, before,         \* memory now and at the start of the call
  k                    \* number of the product, of the vector multiplied

vars == <<pc, job, file, G, halo, M, call, todo, mem, before, k>>

Init ==
  /\ pc = "load" /\ job \in Jobs
  /\ file = <<>> /\ G = <<>> /\ halo = <<>> /\ M = <<>>
  /\ call = <<>> /\ todo = {} /\ mem = <<>> /\ before = <<>> /\ k = 0

-----------------------------------------------------------------------------
(* The matrix.                                                             *)

GenerateMatrix ==
  /\ pc = "load" /\ job.source.kind # "bmx"
  /\ G' = Generate(job.source.p, job.source.kind = "generate7P", job.rank, job.source.size)
  /\ pc' = "localize"
  /\ UNCHANGED <<job, file, halo, M, call, todo, mem, before, k>>

\* An earlier run on one rank (writeBinMatrix).
WriteFile ==
  /\ pc = "load" /\ job.source.kind = "bmx"
  /\ LET rows == job.source.rows
         nnz == Len(FlattenSeq(rows))
     IN file' = BinWrite(GMatrix(rows, 0, Len(rows), nnz, nnz))
  /\ pc' = "read"
  /\ UNCHANGED <<job, G, halo, M, call, todo, mem, before, k>>

ReadFile ==
  /\ pc = "read"
  /\ G' = BinRead(file, job.rank, job.source.size)
  /\ pc' = "localize"
  /\ UNCHANGED <<job, file, halo, M, call, todo, mem, before, k>>

\* The start rows of all ranks, as gathered.
RowsOn(q) ==
  IF job.source.kind = "bmx" THEN SizeOfRank(q, job.source.size, file[0])
  ELSE job.source.p.nx * job.source.p.ny * job.source.p.nz
StartRows == [q \in 0 .. job.source.size - 1 |-> FoldFunction(+, 0, [r \in 0 .. q - 1 |-> RowsOn(r)])]

\* The part of commLocalization that changes the matrix (HaloSetup has the rest).
Externals(A) == Local!IdentifyExternals(A, job.rank)
Distributed ==
  [start |-> StartRows, nr |-> [q \in DOMAIN StartRows |-> RowsOn(q)],
   rows |-> [g \in G.startRow .. G.stopRow |->
               LET row == Row(G, g - G.startRow) IN [j \in DOMAIN row |-> row[j].col]]]

Localize ==
  /\ pc = "localize"
  /\ LET A == Distributed
         ext == Externals(A)
         own == Local!FindOwners(A, ext)
         sources == SetToSortSeq(ToSet(own), <)
         idx == Local!ExtLocalIndex(G.nr, own, sources,
                                    [b \in DOMAIN sources |-> Local!RecvFrom(own, sources[b])])
         Localized(i) ==
           LET cols == Local!LocalizeRow(A, job.rank, A.rows[G.startRow + i], ext, idx)
               row == [j \in DOMAIN cols |-> [col |-> cols[j].col, val |-> Row(G, i)[j].val]]
           IN Local!SplitRow(G.nr, row).entries
     IN /\ G' = [G EXCEPT !.nc = @ + Len(ext),
                          !.entries = Array(FlattenSeq([i \in 1 .. G.nr |-> Localized(i - 1)]))]
        /\ halo' = Local!Reordered(G.nr, ext, idx)
  /\ pc' = "convert"
  /\ UNCHANGED <<job, file, M, call, todo, mem, before, k>>

ConvertMatrix ==
  /\ pc = "convert"
  /\ M' = CASE job.fmt = "CRS" -> CRS!Convert(G)
            [] job.fmt = "CCRS" -> CCRS!Convert(G)
            [] job.fmt = "SCS" -> SCS!Convert(G, job.C, job.sigma)
  /\ pc' = "stored"
  /\ UNCHANGED <<job, file, G, halo, call, todo, mem, before, k>>

-----------------------------------------------------------------------------
(* Vectors.  Slot c of a vector on the rank holds row old[c] of its own    *)
(* rows, a halo element, or is there because products write padding.       *)

\* Length of a vector that is input and output of products.
VectorRows == Max({M.nc, M.vecRows})

Elem(buf, n, g, v) == [kind |-> "elem", buf |-> buf, n |-> n, row |-> g, vec |-> v]

\* Vector n as a product finds it after the exchange; other has what else is in the memory.
Exchanged(n, other) ==
  [c \in 0 .. VectorRows - 1 |->
     IF c < G.nr THEN Elem("x", n, G.startRow + M.old[c], 0)
     ELSE IF c < G.nc THEN Elem("x", n, halo[c - G.nr + 1], 0)
     ELSE other[c]]

\* A block of vectors: its padding rows are zero.
Block(buf, ld) ==
  [i \in 0 .. M.vecRows * ld - 1 |->
     IF i \div ld < G.nr THEN Elem(buf, 0, G.startRow + M.old[i \div ld], i % ld) ELSE Kernels!Zero]

Memory(c) ==
  IF c.kernel = "spMVM"
  THEN LET garbage == [i \in 0 .. VectorRows - 1 |-> Kernels!Garbage]
       IN [x |-> Exchanged(0, garbage), y |-> garbage]
  ELSE [buf \in {"x", "y", "z", "s"} |-> Block(buf, c.ld)]

-----------------------------------------------------------------------------
(* A product.                                                              *)

Plain(c) == c.kernel \in {"spMVM", "spMMVM", "launch_spmmv"}
Launched(c) == c.kernel \in {"launch_spmmv", "launch_chebfd"}

\* Which entry points there are for the format, and which are called on several ranks.
Fits(c) ==
  /\ c.device => job.fmt # "CCRS" /\ job.source.size = 1
  /\ c.vec > 1 => job.fmt = "SCS"
  /\ job.source.size > 1 => c.kernel = "spMVM"

\* Columns per thread, and the threads in a row of a block.
ColumnsOf(c) == IF c.kernel = "launch_chebfd" /\ job.fmt = "SCS" THEN Device!ChebfdVec(c, c.vec) ELSE 1
TileOf(c) == IF Launched(c) THEN Device!VecTile(c.w \div ColumnsOf(c)) ELSE WarpTile

Iterations(c) ==
  CASE job.fmt = "CRS" /\ ~c.device -> CRS!Tasks(M)
    [] job.fmt = "CCRS" -> CCRS!Tasks(M)
    [] job.fmt = "SCS" /\ ~c.device -> SCS!Tasks(M)
    [] job.fmt = "CRS" /\ c.device ->
         IF c.kernel = "spMVM" THEN Device!CrsFlatGrid(M) ELSE Device!CrsGrid(M, c, TileOf(c))
    [] job.fmt = "SCS" /\ c.device ->
         IF c.kernel = "spMVM" THEN Device!ScsFlatGrid(M) ELSE Device!ScsGrid(M, c, TileOf(c), ColumnsOf(c))

HostCRS(t) == IF Plain(call) THEN CRS!SpMMVM(M, mem, call, t) ELSE CRS!SpMMVMFused(M, mem, call, t)
HostCCRS(t) == IF Plain(call) THEN CCRS!SpMMVM(M, mem, call, t) ELSE CCRS!SpMMVMFused(M, mem, call, t)
HostSCS(t) == IF Plain(call) THEN SCS!SpMMVM(M, mem, call, t) ELSE SCS!SpMMVMFused(M, mem, call, t)

DeviceCRS(t) ==
  LET value == [e \in DOMAIN mem[call.y] |->
                 IF Plain(call) THEN CRS!Product(M, mem, call, e) ELSE CRS!Fused(M, mem, call, e)]
  IN IF call.kernel = "spMVM" THEN Device!CrsFlatBlock(M, mem, call, t, value)
     ELSE Device!CrsBlock(M, mem, call, TileOf(call), t, value)

DeviceSCS(t) ==
  LET value == [e \in DOMAIN mem[call.y] |->
                 IF Plain(call) THEN SCS!Product(M, mem, call, e) ELSE SCS!Fused(M, mem, call, e)]
  IN IF call.kernel = "spMVM" THEN Device!ScsFlatBlock(M, mem, call, t, value)
     ELSE Device!ScsBlock(M, mem, call, TileOf(call), ColumnsOf(call), t, value)

Call(c) ==
  /\ pc = "stored" /\ Fits(c)
  /\ call' = c /\ todo' = Iterations(c)
  /\ mem' = Memory(c) /\ before' = Memory(c)
  /\ k' = 0
  /\ pc' = "run"
  /\ UNCHANGED <<job, file, G, halo, M>>

Iterate(t) ==
  /\ pc = "run" /\ t \in todo
  /\ todo' = todo \ {t}
  /\ mem' = CASE job.fmt = "CRS" /\ ~call.device -> HostCRS(t)
              [] job.fmt = "CRS" /\ call.device -> DeviceCRS(t)
              [] job.fmt = "CCRS" -> HostCCRS(t)
              [] job.fmt = "SCS" /\ ~call.device -> HostSCS(t)
              [] job.fmt = "SCS" /\ call.device -> DeviceSCS(t)
  /\ UNCHANGED <<pc, job, file, G, halo, M, call, before, k>>

\* The result is the next vector multiplied (GMRES): the exchange refreshes its halo,
\* which padding rows of the first product have overwritten.
MultiplyAgain ==
  /\ pc = "run" /\ todo = {} /\ call.kernel = "spMVM" /\ k = 0
  /\ LET next == [x |-> Exchanged(1, mem.y), y |-> mem.x]
     IN mem' = next /\ before' = next
  /\ k' = 1 /\ todo' = Iterations(call)
  /\ UNCHANGED <<pc, job, file, G, halo, M, call>>

Return ==
  /\ pc = "run" /\ todo = {}
  /\ pc' = "stored" /\ call' = <<>> /\ mem' = <<>> /\ before' = <<>> /\ k' = 0
  /\ UNCHANGED <<job, file, G, halo, M, todo>>

Next ==
  \/ GenerateMatrix \/ WriteFile \/ ReadFile \/ Localize \/ ConvertMatrix
  \/ \E c \in Calls : Call(c)
  \/ \E t \in todo : Iterate(t)
  \/ MultiplyAgain \/ Return

Spec == Init /\ [][Next]_vars

-----------------------------------------------------------------------------
(* The matrix the source describes, row by global row: <<value, column>>.  *)

Point(p, g) == [x |-> g % p.nx, y |-> (g \div p.nx) % p.ny, z |-> g \div (p.nx * p.ny)]

Dist(i, j) == IF i < j THEN j - i ELSE i - j

\* The points of one grid of size * nz planes next to each other.
Neighbours(p, seven, size, g) ==
  {h \in 0 .. p.nx * p.ny * p.nz * size - 1 :
     LET a == Point(p, g)
         b == Point(p, h)
         dx == Dist(a.x, b.x)
         dy == Dist(a.y, b.y)
         dz == Dist(a.z, b.z)
     IN /\ dx <= 1 /\ dy <= 1 /\ dz <= 1
        /\ seven => dx + dy + dz <= 1}

RefRow(g) ==
  IF job.source.kind = "bmx"
  THEN [j \in DOMAIN job.source.rows[g + 1] |->
          LET e == job.source.rows[g + 1][j] IN <<Float(e.val), e.col>>]
  ELSE LET near == SetToSeq(Neighbours(job.source.p, job.source.kind = "generate7P", job.source.size, g))
       IN [j \in DOMAIN near |-> <<Double(IF near[j] = g THEN 27 ELSE -1), near[j]>>]

\* Row c of the rank, as it ought to be.
RefOfSlot(c) == RefRow(G.startRow + M.old[c])

\* Element e of the result is what the call asks for.
Exact(e) ==
  LET products == [j \in DOMAIN RefOfSlot(e \div call.ld) |->
                     <<RefOfSlot(e \div call.ld)[j][1],
                       Elem("x", k, RefOfSlot(e \div call.ld)[j][2], e % call.ld)>>]
      ops == [o \in {"p", "q", "r"} |->
                IF call[o] = "none" THEN Kernels!Null ELSE before[call[o]][e]]
      got == mem[call.y][e]
  IN /\ got.kind = "comb"
     /\ ToBag(got.sum) = ToBag(products)
     /\ got.p = ops["p"] /\ got.q = ops["q"] /\ got.r = ops["r"]
     /\ call.acc # "none" =>
          mem[call.acc][e] = [kind |-> "acc", old |-> before[call.acc][e], add |-> got]

\* An empty row of a plain product.
ExactEmpty(e) == Plain(call) /\ RefOfSlot(e \div call.ld) = <<>> /\ mem[call.y][e] = Kernels!Zero

-----------------------------------------------------------------------------
(* Properties.                                                             *)

\* Every row of the source is stored once, rows of the matrix come before the padding,
\* every column index names a slot of the vectors, and a kernel writes nothing outside
\* its buffers (the window sort of matrix-SCS.c and the vector sizes of main.c).
TypeOK ==
  /\ pc \in {"load", "read", "localize", "convert", "stored", "run"}
  /\ job \in Jobs
  /\ M # <<>> =>
       /\ DOMAIN M.old = 0 .. M.nr - 1
       /\ {M.old[c] : c \in DOMAIN M.old} = 0 .. M.nr - 1
       /\ M.vecRows >= M.nr
       /\ job.fmt # "CCRS" => \A j \in DOMAIN M.colInd : M.colInd[j] \in 0 .. M.nc - 1
  /\ pc = "run" => /\ DOMAIN mem = DOMAIN before
                   /\ \A buf \in DOMAIN mem : DOMAIN mem[buf] = DOMAIN before[buf]

\* When all iterations of a call are done, each row the rank owns holds the sum of the
\* source's row with the vectors asked for, accumulated once; the padding rows of a
\* block are still zero, and nothing else has changed: whatever the format, the kernel,
\* its shape, and the order of the iterations.
ProductExact ==
  pc = "run" /\ todo = {} =>
    /\ \A row \in 0 .. G.nr - 1 : \A v \in 0 .. call.w - 1 :
         Exact(row * call.ld + v) \/ ExactEmpty(row * call.ld + v)
    /\ \A buf \in DOMAIN mem : \A i \in DOMAIN mem[buf] :
         LET written == buf \in {call.y, call.acc} /\ i % call.ld < call.w
         IN /\ ~written \/ i \div call.ld >= M.vecRows => mem[buf][i] = before[buf][i]
            /\ written /\ i \div call.ld \in G.nr .. M.vecRows - 1 => mem[buf][i] = Kernels!Zero

\* Gershgorin's circle of a stored row has the diagonal entries of the source's row as
\* its centre and the others as its radius, wherever sorting has moved row and column.
BoundsExact ==
  pc = "stored" =>
    \A c \in 0 .. G.nr - 1 :
      LET circle == CASE job.fmt = "CRS" -> CRS!Circle(M, c)
                      [] job.fmt = "CCRS" -> CCRS!Circle(M, c)
                      [] job.fmt = "SCS" -> SCS!Circle(M, c)
          Values(S) == LET s == SetToSeq({j \in S : M.val[j] # Kernels!Zero})
                       IN ToBag([i \in DOMAIN s |-> M.val[s[i]]])
          RefValues(Keep(_)) == LET s == SelectSeq(RefOfSlot(c), Keep)
                                IN ToBag([i \in DOMAIN s |-> s[i][1]])
          own == G.startRow + M.old[c]
      IN /\ Values(circle.diag) = RefValues(LAMBDA t : t[2] = own)
         /\ Values(circle.off) = RefValues(LAMBDA t : t[2] # own)
=============================================================================
