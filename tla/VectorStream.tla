----------------------------- MODULE VectorStream -----------------------------
(***************************************************************************)
(* cuda_vector_stream.cu: the ChebFD search space in pinned host memory is *)
(* pulled through the device in column blocks (filter, A Y) or row chunks  *)
(* (Gram, block update, Ritz residuals).  The host queues copies and       *)
(* kernels on two streams and returns when both are empty.  A stream runs  *)
(* its queue in order; between the streams only events order anything.     *)
(* Copies and kernels begin and end in two steps.                          *)
(***************************************************************************)
EXTENDS BlockAlgebra, Bags, FiniteSets, FiniteSetsExt

CONSTANTS
  Contexts,       \* arguments of gpu_vstream_init: [vecRows, NS, nb, chunk], chunk in entries
  Calls(_),       \* the calls made with a context of the given NS
  MaxCalls,       \* bound: calls of the passes on one context
  GramTile,       \* GRAM_TILE
  GramSubsMax,    \* GRAM_SUBS
  PartialMax,     \* GRAM_PARTIAL_MAX_BYTES, in elements
  ResRows,        \* RES_ROWS
  None

ASSUME TilingAssumption ==
  {GramTile, GramSubsMax, PartialMax, ResRows} \subseteq Nat \ {0}

\* A context is made for a block that is not empty.
ASSUME ContextsAssumption ==
  \A x \in Contexts :
    /\ x.vecRows \in Nat \ {0} /\ x.NS \in Nat \ {0}
    /\ x.nb \in Int /\ x.chunk \in Nat

\* The entries are called on columns of that block, the filter with a degree of 2 or
\* more (solveChebFD refuses the others), and an update leaves some columns, no more
\* than there are (chebOrthoCholQR2).
Passes == {"filter", "spmmv", "gram", "update", "ritz"}
ASSUME CallsAssumption ==
  /\ MaxCalls \in Nat
  /\ \A x \in Contexts :
       /\ Calls(x.NS) \subseteq
            [op : Passes, m : 1 .. x.NS, out : Nat, np : 2 .. Degree, useB : BOOLEAN]
       /\ \A c \in Calls(x.NS) : c.op = "update" => c.out \in 1 .. c.m
  /\ None \notin [op : Passes, m : Nat, out : Nat, np : Nat, useB : BOOLEAN, id : Nat]

NSLOT == 2
Slots == 0 .. NSLOT - 1
Streams == {"copy", "compute"}
Events == {"copyDone", "computeDone"} \X Slots

VARIABLES
  ctx,      \* the context made by gpu_vstream_init, None before and after its life
  call,     \* the entry the host is in, None outside
  calls,    \* entries made so far
  todo,     \* API calls the host still makes in this entry
  queue,    \* operations queued on each stream; the head is next or running
  running,  \* whether the head of a stream has begun
  recorded, \* records of each event queued in this entry
  done,     \* of those, completed
  mem,      \* device buffers and host arrays
  capacity, \* elements the partial buffer can hold (partialCap)
  drained,  \* results copied back in this entry
  passes    \* colPasses, rowPasses

vars == <<ctx, call, calls, todo, queue, running, recorded, done, mem, capacity,
          drained, passes>>

Ceil(a, b) == (a + b - 1) \div b
Least(a, b) == IF a <= b THEN a ELSE b
Largest(a, b) == IF a >= b THEN a ELSE b

X(k) == <<"X", k>>
RA(k) == <<"rA", k>>
RB(k) == <<"rB", k>>
RO(k) == <<"rO", k>>
U == <<"U", 0>>
W == <<"W", 0>>
Y == <<"Y", 0>>
AY == <<"AY", 0>>
Result == <<"result", 0>>
Partial == <<"partial", 0>>
G == <<"G", 0>>
Res2 == <<"res2", 0>>
B == <<"B", 0>>
HostArrays == {Y, AY}
Scratch == {X(0), X(1), U, W}                     \* column blocks
Chunks == {RA(0), RA(1), RB(0), RB(1), RO(0), RO(1)}   \* row chunks
Buffers == Scratch \cup Chunks \cup HostArrays \cup {G, Res2, Result, B, Partial}

\* None stands for a buffer a pass or a kernel does not have, and for a matrix B that
\* was not uploaded.
Matrices == {"B", "evec"} \X Nat \X Nat \X Nat
ASSUME NoneAssumption == None \notin Buffers \cup Matrices

-----------------------------------------------------------------------------
(* The operations that can be queued.                                      *)

Wait(s, e) == [do |-> "wait", on |-> s, event |-> e]
Record(s, e) == [do |-> "record", on |-> s, event |-> e]
Sync(s) == [do |-> "sync", on |-> s]

\* h runs of w elements, spitch and dpitch apart (gpuMemcpyAsync is one run).
Copy(dst, doff, dpitch, src, soff, spitch, w, h) ==
  [do |-> "copy", on |-> "copy", reads |-> {src}, writes |-> {dst}, src |-> src,
   soff |-> soff, spitch |-> spitch, dst |-> dst, doff |-> doff, dpitch |-> dpitch,
   w |-> w, h |-> h]

Kernel(do, reads, writes, args) ==
  [do |-> do, on |-> "compute", reads |-> reads, writes |-> writes, args |-> args]

\* Work of the legacy stream, which the host waits for and which waits for both streams.
Legacy(dst, value) == [do |-> "legacy", on |-> "legacy", dst |-> dst, value |-> value]
ReadBack(dst, src) == [do |-> "readback", on |-> "legacy", dst |-> dst, src |-> src]
Ensure(elems) == [do |-> "ensure", on |-> "legacy", elems |-> elems]

\* A pass ends when both streams are empty, and is counted.
EndPass(pass) == << Sync("compute"), Sync("copy"), [do |-> pass, on |-> "legacy"] >>

\* Kernels on the blocks loaded to slot k: not before the copies queued so far, and
\* computeDone tells when they are done.
OnSlot(k, kernels) ==
  << Record("copy", <<"copyDone", k>>), Wait("compute", <<"copyDone", k>>) >>
  \o kernels
  \o << Record("compute", <<"computeDone", k>>) >>

-----------------------------------------------------------------------------
(* Passes over column blocks.                                              *)

\* (Fault) The drain does not wait for the kernels of its block.
DrainColBlockUnwaited(i, ncols, outH, outBuf) ==
  LET k == i % NSLOT
      w == Least(ctx.nb, ncols - i * ctx.nb)
  IN << Copy(outH, i * ctx.nb, ncols, outBuf[k], 0, ctx.nb, w, ctx.vecRows) >>

\* The result of block i goes back to outH once its kernels are done.
DrainColBlock(i, ncols, outH, outBuf) ==
  LET k == i % NSLOT
      w == Least(ctx.nb, ncols - i * ctx.nb)
  IN << Wait("copy", <<"computeDone", k>>),
        Copy(outH, i * ctx.nb, ncols, outBuf[k], 0, ctx.nb, w, ctx.vecRows) >>

\* Load and compute block i of inH: fn[k][w] are the kernels on the w columns in slot
\* k, which leave the result for outH in outBuf[k].
ColBlock(i, inH, ncols, outH, outBuf, fn) ==
  LET k == i % NSLOT
      w == Least(ctx.nb, ncols - i * ctx.nb)
  IN << Wait("copy", <<"computeDone", k>>) >>
     \o (IF i >= NSLOT THEN DrainColBlock(i - NSLOT, ncols, outH, outBuf) ELSE <<>>)
     \o << Copy(X(k), 0, ctx.nb, inH, i * ctx.nb, ncols, w, ctx.vecRows) >>
     \o OnSlot(k, fn[k][w])

\* (Fault) The last drains start a block late.
LastDrainsShort(n, drain) ==
  LET first == Largest(n - NSLOT + 1, 0)
  IN FlattenSeq([j \in 1 .. n - first |-> drain[first + j - 1]])

\* The last results, after the loop over the blocks.
LastDrains(n, drain) ==
  LET first == Largest(n - NSLOT, 0)
  IN FlattenSeq([j \in 1 .. n - first |-> drain[first + j - 1]])

ColBlockPipeline(inH, ncols, outH, outBuf, fn) ==
  LET n == Ceil(ncols, ctx.nb)
  IN FlattenSeq([j \in 1 .. n |-> ColBlock(j - 1, inH, ncols, outH, outBuf, fn)])
     \o LastDrains(n, [i \in 0 .. n - 1 |-> DrainColBlock(i, ncols, outH, outBuf)])
     \o EndPass("colPass")

\* y <- f A' x + cQ q + cR r  (gpu_launch_chebfd with cA = f alpha, p = x, cP = f beta)
Chebfd(x, f, q, cQ, y, r, cR, w) ==
  Kernel("chebfd", {x, r} \cup (IF q = None THEN {} ELSE {q}), {y},
         [x |-> x, f |-> f, q |-> q, cQ |-> cQ, y |-> y, r |-> r, cR |-> cR, w |-> w])

\* Clenshaw: before step kk, B1 holds b_(kk+1) and B2 holds b_(kk+2), in turns U and W.
B1(np, kk) == IF (np - kk) % 2 = 1 THEN U ELSE W
B2(np, kk) == IF (np - kk) % 2 = 1 THEN W ELSE U

FilterSubBlock(np, k, w) ==
  << Kernel("axpby3", {X(k)}, {U}, [x |-> X(k), a |-> Gc[np], y |-> U]),
     Chebfd(U, 2, None, 0, W, X(k), Gc[np - 1], w) >>
  \o [j \in 1 .. np - 2 |->
        LET kk == np - 1 - j
        IN Chebfd(B1(np, kk), 2, B2(np, kk), -1, B2(np, kk), X(k), Gc[kk], w)]
  \o << Chebfd(B1(np, 0), 1, B2(np, 0), -1, X(k), X(k), Gc[0], w) >>

\* Y <- p(A') Y: in place on the host and in the slot.
FilterEntry(c) ==
  ColBlockPipeline(Y, c.m, Y, [k \in Slots |-> X(k)],
    [k \in Slots |-> [w \in 1 .. ctx.nb |-> FilterSubBlock(c.np, k, w)]])

\* AY <- A Y: U and W are the output slots.
OutSlot == [k \in Slots |-> IF k = 0 THEN U ELSE W]
SpmmvEntry(c) ==
  ColBlockPipeline(Y, c.m, AY, OutSlot,
    [k \in Slots |-> [w \in 1 .. ctx.nb |->
       << Kernel("spmmv", {X(k)}, {OutSlot[k]}, [x |-> X(k), y |-> OutSlot[k], w |-> w]) >>]])

-----------------------------------------------------------------------------
(* Passes over row chunks.                                                 *)

\* (Fault) A chunk larger than the block is cut to its rows, not to whole tiles.
ChunkRowsCut(vecRows, NS, chunk) ==
  LET fit == ((chunk \div NS) \div GramTile) * GramTile
  IN Least(Largest(fit, GramTile), vecRows)

\* chunkRows of gpu_vstream_init: whole tiles, at least one, no more than the block has.
ChunkRows(vecRows, NS, chunk) ==
  LET fit == ((chunk \div NS) \div GramTile) * GramTile
      rows == Largest(fit, GramTile)
  IN IF rows > vecRows THEN Ceil(vecRows, GramTile) * GramTile ELSE rows

DrainRowChunk(i, outH, ldOut) ==
  LET k == i % NSLOT
      r0 == i * ctx.chunkRows
      len == Least(ctx.chunkRows, ctx.vecRows - r0) * ldOut
  IN << Wait("copy", <<"computeDone", k>>),
        Copy(outH, r0 * ldOut, len, RO(k), 0, len, len, 1) >>

\* (Fault) The load into a slot does not wait for the kernels that last used it.
RowChunkUnwaited(i, Ah, Bh, ld, outH, ldOut, fn) ==
  LET k == i % NSLOT
      r0 == i * ctx.chunkRows
      rows == Least(ctx.chunkRows, ctx.vecRows - r0)
      Load(buffer, array) == << Copy(buffer, 0, rows * ld, array, r0 * ld, rows * ld, rows * ld, 1) >>
  IN (IF outH # None /\ i >= NSLOT THEN DrainRowChunk(i - NSLOT, outH, ldOut) ELSE <<>>)
     \o Load(RA(k), Ah)
     \o (IF Bh # None THEN Load(RB(k), Bh) ELSE <<>>)
     \o OnSlot(k, fn[k][rows])

\* Chunk i of Ah (and of Bh) goes to slot k, fn[k][rows] are the kernels on it.
RowChunk(i, Ah, Bh, ld, outH, ldOut, fn) ==
  LET k == i % NSLOT
      r0 == i * ctx.chunkRows
      rows == Least(ctx.chunkRows, ctx.vecRows - r0)
      Load(buffer, array) == << Copy(buffer, 0, rows * ld, array, r0 * ld, rows * ld, rows * ld, 1) >>
  IN << Wait("copy", <<"computeDone", k>>) >>
     \o (IF outH # None /\ i >= NSLOT THEN DrainRowChunk(i - NSLOT, outH, ldOut) ELSE <<>>)
     \o Load(RA(k), Ah)
     \o (IF Bh # None THEN Load(RB(k), Bh) ELSE <<>>)
     \o OnSlot(k, fn[k][rows])

\* The rows a chunk may have.
ChunkSizes == 1 .. Least(ctx.chunkRows, ctx.vecRows)

RowChunkPipeline(Ah, Bh, ld, outH, ldOut, fn) ==
  LET n == Ceil(ctx.vecRows, ctx.chunkRows)
  IN FlattenSeq([j \in 1 .. n |-> RowChunk(j - 1, Ah, Bh, ld, outH, ldOut, fn)])
     \o (IF outH # None
         THEN LastDrains(n, [i \in 0 .. n - 1 |-> DrainRowChunk(i, outH, ldOut)]) ELSE <<>>)
     \o EndPass("rowPass")

\* Row sub-ranges of one Gram launch.
GramSubs(m) ==
  Max({n \in 1 .. GramSubsMax : n = 1 \/ n * m * m <= PartialMax})

\* The rows each sub-range sums up (launchGram, kernel_gram_chunk).
GramGroups(rows, m) ==
  LET tiles == Ceil(rows, GramTile)
      nSub == Largest(1, Least(GramSubs(m), tiles))
      perSub == Ceil(tiles, nSub) * GramTile
  IN [z \in 1 .. nSub |-> {r \in 0 .. rows - 1 : (z - 1) * perSub <= r /\ r < z * perSub}]

\* The rows each block of kernel_vs_ritz_chunk sums up.
RitzGroups(rows) ==
  [z \in 1 .. Ceil(rows, ResRows) |->
     {r \in 0 .. rows - 1 : (z - 1) * ResRows <= r /\ r < z * ResRows}]

\* Partial sums of the rows of slot k, added to an accumulator by a second kernel.
Reduce(a, b, groups, m, width, with, acc) ==
  << Kernel("partial", {a, b} \cup with, {Partial},
            [a |-> a, b |-> b, with |-> with, groups |-> groups, m |-> m,
             elems |-> Len(groups) * width]),
     Kernel("accum", {Partial, acc}, {acc}, [n |-> Len(groups), acc |-> acc]) >>

\* G = A^T B of host blocks; B is A where the caller gives none.
GramEntry(c) ==
  << Ensure(GramSubs(c.m) * c.m * c.m),
     Kernel("memset", {}, {G}, [acc |-> G]) >>
  \o RowChunkPipeline(Y, IF c.useB THEN AY ELSE None, c.m, None, 0,
       [k \in Slots |-> [rows \in ChunkSizes |->
          Reduce(RA(k), IF c.useB THEN RB(k) ELSE RA(k),
                 GramGroups(rows, c.m), c.m, c.m * c.m, {}, G)]])
  \o << ReadBack(Result, G) >>

\* Y (stride m) <- Y B at stride out <= m, in place.
UpdateEntry(c) ==
  << Legacy(B, <<"B", c.id, c.m, c.out>>) >>
  \o RowChunkPipeline(Y, None, c.m, Y, c.out,
       [k \in Slots |-> [rows \in ChunkSizes |->
          << Kernel("update", {RA(k), B}, {RO(k)},
                    [a |-> RA(k), m |-> c.m, o |-> RO(k), out |-> c.out, rows |-> rows]) >>]])

\* (Fault) The partial buffer keeps the size gpu_vstream_init gave it.
RitzEntryUnensured(c) ==
  IF c.out < 1 THEN <<>>
  ELSE << Legacy(B, <<"evec", c.id, c.m, c.m>>), Legacy(Res2, EmptyBag) >>
       \o RowChunkPipeline(Y, AY, c.m, None, 0,
            [k \in Slots |-> [rows \in ChunkSizes |->
               Reduce(RA(k), RB(k), RitzGroups(rows), c.m, c.out, {B}, Res2)]])
       \o << ReadBack(Result, Res2) >>

\* Squared residual norms of the c.out selected pairs, out of Y and AY.
RitzEntry(c) ==
  IF c.out < 1 THEN <<>>
  ELSE << Ensure(Ceil(ctx.chunkRows, ResRows) * c.out),
          Legacy(B, <<"evec", c.id, c.m, c.m>>),
          Legacy(Res2, EmptyBag) >>
       \o RowChunkPipeline(Y, AY, c.m, None, 0,
            [k \in Slots |-> [rows \in ChunkSizes |->
               Reduce(RA(k), RB(k), RitzGroups(rows), c.m, c.out, {B}, Res2)]])
       \o << ReadBack(Result, Res2) >>

Program(c) ==
  CASE c.op = "filter" -> FilterEntry(c)
    [] c.op = "spmmv" -> SpmmvEntry(c)
    [] c.op = "gram" -> GramEntry(c)
    [] c.op = "update" -> UpdateEntry(c)
    [] c.op = "ritz" -> RitzEntry(c)

-----------------------------------------------------------------------------
(* What an operation does to memory.                                       *)

Rows == 0 .. ctx.vecRows - 1
ColumnOf(m, buffer, c) == [r \in Rows |-> m[buffer][r * ctx.nb + c]]

\* Cell i of a column block is in its first w columns; a kernel keeps the others.
InColumns(i, w) == i % ctx.nb < w

\* A times the column of cell i, at its row.
Product(m, x, i) == Applied(ColumnOf(m, x, i % ctx.nb), i \div ctx.nb)

\* A kernel that gathers from the buffer it writes reads entries of either age.
ChebfdValue(m, a, i) ==
  LET prod == Scaled(a.f, Product(m, a.x, i))
      plusQ == IF a.q = None THEN prod ELSE Sum(prod, Scaled(a.cQ, m[a.q][i]))
  IN IF a.y = a.x THEN Poison ELSE Sum(plusQ, Scaled(a.cR, m[a.r][i]))

CopyValue(m, op, i) ==
  LET rel == i - op.doff
  IN IF rel >= 0 /\ rel \div op.dpitch < op.h /\ rel % op.dpitch < op.w
     THEN m[op.src][op.soff + (rel \div op.dpitch) * op.spitch + (rel % op.dpitch)]
     ELSE m[op.dst][i]

\* Row r of a chunk at stride n: the names of its entries.
RowOf(m, buffer, r, n) == [j \in 1 .. n |-> m[buffer][r * n + j - 1].name]

Dot(m, row, jo) ==
  IF m[B] = None THEN <<"poison">> ELSE <<"dot", row, m[B], jo>>

\* The first n partial sums added to bag: each counts what it holds once.
Sums(m, bag, n) ==
  [e \in BagToSet(bag) \cup UNION {m[Partial][z] : z \in 1 .. n} |->
     (IF BagIn(e, bag) THEN bag[e] ELSE 0) + Cardinality({z \in 1 .. n : e \in m[Partial][z]})]

\* The contents of the one buffer op writes, after it; m is the memory before it.
Written(m, op) ==
  CASE op.do = "copy" -> [i \in DOMAIN m[op.dst] |-> CopyValue(m, op, i)]
    [] op.do = "axpby3" ->
         [i \in DOMAIN m[op.args.y] |-> Scaled(op.args.a, m[op.args.x][i])]
    [] op.do = "chebfd" ->
         [i \in DOMAIN m[op.args.y] |->
            IF InColumns(i, op.args.w) THEN ChebfdValue(m, op.args, i) ELSE m[op.args.y][i]]
    [] op.do = "spmmv" ->
         [i \in DOMAIN m[op.args.y] |->
            IF InColumns(i, op.args.w) THEN Product(m, op.args.x, i) ELSE m[op.args.y][i]]
    [] op.do = "update" ->
         [i \in DOMAIN m[op.args.o] |->
            IF i < op.args.rows * op.args.out
            THEN Value(Dot(m, RowOf(m, op.args.a, i \div op.args.out, op.args.m), i % op.args.out),
                       Monomial(0))
            ELSE m[op.args.o][i]]
    [] op.do = "partial" ->
         [z \in 1 .. Largest(Len(op.args.groups), Len(m[Partial])) |->
            IF z <= Len(op.args.groups)
            THEN {<<RowOf(m, op.args.a, r, op.args.m), RowOf(m, op.args.b, r, op.args.m),
                    {m[x] : x \in op.args.with}>> : r \in op.args.groups[z]}
            ELSE m[Partial][z]]
    [] op.do = "accum" -> Sums(m, m[op.args.acc], op.args.n)
    [] op.do = "memset" -> EmptyBag

Target(op) == CHOOSE b \in op.writes : TRUE

-----------------------------------------------------------------------------
(* The host.                                                               *)

Idle == \A s \in Streams : queue[s] = <<>>

Filled(n, v) == [i \in 0 .. n - 1 |-> v]

\* (Fault) The column buffers are not set to zero.
FreshUnzeroed(c, rows) ==
  [b \in Buffers |->
     CASE b \in Scratch -> Filled(c.vecRows * c.nb, Poison)
       [] b \in Chunks -> Filled(rows * c.NS, Poison)
       [] b \in HostArrays -> Filled(c.vecRows * c.NS, Zero)
       [] b \in {G, Res2, Result} -> EmptyBag
       [] b = B -> None
       [] b = Partial -> <<>>]

\* Device memory is what the allocator left, but for the buffers set to zero.
Fresh(c, rows) ==
  [b \in Buffers |->
     CASE b \in Scratch -> Filled(c.vecRows * c.nb, Zero)
       [] b \in Chunks -> Filled(rows * c.NS, Poison)
       [] b \in HostArrays -> Filled(c.vecRows * c.NS, Zero)
       [] b \in {G, Res2, Result} -> EmptyBag
       [] b = B -> None
       [] b = Partial -> <<>>]

Init ==
  /\ ctx = None /\ call = None /\ calls = 0
  /\ todo = <<>>
  /\ queue = [s \in Streams |-> <<>>] /\ running = [s \in Streams |-> FALSE]
  /\ recorded = [e \in Events |-> 0] /\ done = [e \in Events |-> 0]
  /\ mem = <<>> /\ capacity = 0 /\ drained = 0
  /\ passes = [col |-> 0, row |-> 0]

\* gpu_vstream_init.  It ends with a device synchronisation, so the records it makes of
\* the events are complete: waiting for them is waiting for nothing.
VStreamInit ==
  /\ ctx = None /\ calls = 0
  /\ \E c \in Contexts :
       LET nb == IF c.nb <= 0 \/ c.nb > c.NS THEN c.NS ELSE c.nb
           rows == ChunkRows(c.vecRows, c.NS, c.chunk)
       IN /\ ctx' = [vecRows |-> c.vecRows, NS |-> c.NS, nb |-> nb, chunkRows |-> rows]
          /\ mem' = Fresh(ctx', rows)
          /\ capacity' = GramSubs(c.NS) * c.NS * c.NS
  /\ UNCHANGED <<call, calls, todo, queue, running, recorded, done, drained, passes>>

\* An entry is called on blocks of c.m columns.  Their entries get the names of this
\* call; the array beyond them, and the device, keep what they have.
Enter ==
  /\ ctx # None /\ call = None /\ calls < MaxCalls
  /\ \E c \in Calls(ctx.NS) :
       /\ call' = [op |-> c.op, m |-> c.m, out |-> c.out, np |-> c.np, useB |-> c.useB,
                   id |-> calls + 1]
       /\ calls' = calls + 1
       /\ mem' = [b \in DOMAIN mem |->
                    IF b \in HostArrays
                    THEN [i \in DOMAIN mem[b] |->
                            IF i < ctx.vecRows * c.m
                            THEN Entry(b, calls', i \div c.m, i % c.m) ELSE mem[b][i]]
                    ELSE IF b = Result THEN EmptyBag ELSE mem[b]]
  /\ todo' = Program(call')
  /\ UNCHANGED <<ctx, queue, running, recorded, done, capacity, drained, passes>>

\* An operation as it is queued: a wait takes the records its event has at this moment.
Queued(op) ==
  IF op.do \in {"wait", "record"}
  THEN [do |-> op.do, on |-> op.on, event |-> op.event,
        count |-> recorded[op.event] + (IF op.do = "record" THEN 1 ELSE 0)]
  ELSE op

\* The next API call.
HostQueues ==
  LET op == Head(todo)
  IN /\ todo # <<>> /\ op.on \in Streams /\ op.do # "sync"
     /\ todo' = Tail(todo)
     /\ queue' = [queue EXCEPT ![op.on] = Append(@, Queued(op))]
     /\ recorded' = IF op.do = "record" THEN [recorded EXCEPT ![op.event] = @ + 1] ELSE recorded
     /\ UNCHANGED <<ctx, call, calls, running, done, mem, capacity, drained, passes>>

HostSyncs ==
  /\ todo # <<>> /\ Head(todo).do = "sync"
  /\ queue[Head(todo).on] = <<>>
  /\ todo' = Tail(todo)
  /\ UNCHANGED <<ctx, call, calls, queue, running, recorded, done, mem, capacity, drained, passes>>

\* Work on the legacy stream waits for the other two, which are blocking streams.
HostWorks ==
  LET op == Head(todo)
  IN /\ todo # <<>> /\ op.on = "legacy"
     /\ op.do \in {"legacy", "readback"} => Idle
     /\ todo' = Tail(todo)
     /\ mem' = CASE op.do = "legacy" -> [mem EXCEPT ![op.dst] = op.value]
                 [] op.do = "readback" -> [mem EXCEPT ![op.dst] = mem[op.src]]
                 [] OTHER -> mem
     /\ capacity' = IF op.do = "ensure" THEN Largest(capacity, op.elems) ELSE capacity
     /\ passes' = [col |-> passes.col + (IF op.do = "colPass" THEN 1 ELSE 0),
                   row |-> passes.row + (IF op.do = "rowPass" THEN 1 ELSE 0)]
     /\ UNCHANGED <<ctx, call, calls, queue, running, recorded, done, drained>>

\* Both streams are empty, so every record is complete: the counts start again.
Return ==
  /\ call # None /\ todo = <<>>
  /\ call' = None
  /\ recorded' = [e \in Events |-> 0] /\ done' = [e \in Events |-> 0]
  /\ drained' = 0
  /\ UNCHANGED <<ctx, calls, todo, queue, running, mem, capacity, passes>>

\* gpu_vstream_free: both streams are waited for, then all the buffers go.
VStreamFree ==
  /\ ctx # None /\ call = None /\ calls > 0 /\ Idle
  /\ ctx' = None /\ mem' = <<>> /\ capacity' = 0
  /\ UNCHANGED <<call, calls, todo, queue, running, recorded, done, drained, passes>>

-----------------------------------------------------------------------------
(* The streams.                                                            *)

\* Waits and records take no time.
Marks(s) ==
  LET op == Head(queue[s])
  IN /\ queue[s] # <<>> /\ op.do \in {"wait", "record"}
     /\ op.do = "wait" => done[op.event] >= op.count
     /\ queue' = [queue EXCEPT ![s] = Tail(@)]
     /\ done' = IF op.do = "record" THEN [done EXCEPT ![op.event] = op.count] ELSE done
     /\ UNCHANGED <<ctx, call, calls, todo, running, recorded, mem, capacity, drained, passes>>

Starts(s) ==
  /\ queue[s] # <<>> /\ Head(queue[s]).do \notin {"wait", "record"}
  /\ ~running[s]
  /\ running' = [running EXCEPT ![s] = TRUE]
  /\ UNCHANGED <<ctx, call, calls, todo, queue, recorded, done, mem, capacity, drained, passes>>

Ends(s) ==
  /\ running[s]
  /\ running' = [running EXCEPT ![s] = FALSE]
  /\ queue' = [queue EXCEPT ![s] = Tail(@)]
  /\ mem' = [mem EXCEPT ![Target(Head(queue[s]))] = Written(mem, Head(queue[s]))]
  /\ drained' = drained + (IF Head(queue[s]).writes \cap HostArrays # {} THEN 1 ELSE 0)
  /\ UNCHANGED <<ctx, call, calls, todo, recorded, done, capacity, passes>>

Finished == ctx = None /\ calls > 0 /\ UNCHANGED vars

Host == VStreamInit \/ Enter \/ HostQueues \/ HostSyncs \/ HostWorks \/ Return \/ VStreamFree
Stream(s) == Marks(s) \/ Starts(s) \/ Ends(s)

Next == Host \/ (\E s \in Streams : Stream(s)) \/ Finished

Spec == Init /\ [][Next]_vars
-----------------------------------------------------------------------------
(* Properties.                                                             *)

\* The types.  Chunks are whole Gram tiles, and a stream that runs has a head to run.
TypeOK ==
  /\ ctx # None => /\ ctx.nb \in 1 .. ctx.NS
                   /\ ctx.chunkRows > 0 /\ ctx.chunkRows % GramTile = 0
  /\ calls \in 0 .. MaxCalls
  /\ \A s \in Streams : running[s] => queue[s] # <<>> /\ Head(queue[s]).on = s
  /\ \A e \in Events : done[e] \in 0 .. recorded[e]
  /\ capacity \in Nat /\ drained \in Nat /\ passes \in [col : Nat, row : Nat]

\* The copy and the kernel under way never touch the same buffer, unless both only
\* read it: no slot is refilled, and no result copied, under a running kernel.
NoRace ==
  \A s, t \in Streams :
    s # t /\ running[s] /\ running[t] =>
      LET a == Head(queue[s])
          b == Head(queue[t])
      IN a.writes \cap (b.reads \cup b.writes) = {}

\* The entries of block a as the caller of this entry had them.
Given(a, r, c) == Entry(a, calls, r, c)
GivenRow(a, r) == [j \in 1 .. call.m |-> Given(a, r, j - 1).name]

Block(a, m) == [r \in Rows |-> [c \in 0 .. m - 1 |-> mem[a][r * m + c]]]
BlockOf(m, Val(_, _)) == [r \in Rows |-> [c \in 0 .. m - 1 |-> Val(r, c)]]

\* When an entry returns the host has what it asked for, in every column and every row
\* of the block, the last partial ones included, and nothing else of the block has
\* changed: the filter of the host recurrence, A times every column, each row summed
\* once, or every row of the update at its new stride (each computed from the row as it
\* was, though the rows are rewritten in place).
ResultExact ==
  call # None /\ todo = <<>> =>
    CASE call.op = "filter" ->
           Block(Y, call.m) = BlockOf(call.m, LAMBDA r, c :
                                Value(Given(Y, r, c).name, Filter(call.np)))
      [] call.op = "spmmv" ->
           /\ Block(AY, call.m) = BlockOf(call.m, LAMBDA r, c :
                                    Value(Given(Y, r, c).name, Shift(Monomial(0))))
           /\ Block(Y, call.m) = BlockOf(call.m, LAMBDA r, c : Given(Y, r, c))
      [] call.op = "gram" ->
           mem[Result] = SetToBag({<<GivenRow(Y, r), GivenRow(IF call.useB THEN AY ELSE Y, r), {}>> :
                                     r \in Rows})
      [] call.op = "update" ->
           Block(Y, call.out) = BlockOf(call.out, LAMBDA r, c :
             Value(<<"dot", GivenRow(Y, r), <<"B", calls, call.m, call.out>>, c>>, Monomial(0)))
      [] call.op = "ritz" ->
           mem[Result] = IF call.out < 1 THEN EmptyBag
                         ELSE SetToBag({<<GivenRow(Y, r), GivenRow(AY, r),
                                         {<<"evec", calls, call.m, call.m>>}>> : r \in Rows})

\* No column buffer ever holds what the allocator left there: "zeroed once so the
\* full-width axpby stays finite" (gpu_vstream_init), in the columns beyond a partial
\* block too.
ScratchFinite ==
  \A b \in Scratch \cap DOMAIN mem : \A i \in DOMAIN mem[b] : mem[b][i] # Poison

\* A kernel that stores partial sums stays inside the partial buffer, which is made
\* large enough before the pass and not while its kernels are queued.
PartialFits ==
  \A s \in Streams : \A i \in 1 .. Len(queue[s]) :
    queue[s][i].do = "partial" => queue[s][i].args.elems <= capacity

\* The passes as double-buffered pipelines.
Completed(kind) == done[<<kind, 0>>] + done[<<kind, 1>>]
BlocksOf(c) ==
  CASE c = None -> 0
    [] c # None /\ c.op \in {"filter", "spmmv"} -> Ceil(c.m, ctx.nb)
    [] c # None /\ c.op = "ritz" /\ c.out < 1 -> 0
    [] OTHER -> Ceil(ctx.vecRows, ctx.chunkRows)

Pipeline == INSTANCE BlockPipeline WITH
  blocks <- BlocksOf(call),
  writeBack <- call # None /\ call.op \in {"filter", "spmmv", "update"},
  loaded <- Completed("copyDone"), computed <- Completed("computeDone"),
  drained <- drained

\* The streams keep the order BlockPipeline promises: every block is loaded, computed
\* and drained once and in order, a slot is not refilled before it is free, and no entry
\* returns with work left.
PipelineKept == Pipeline!Spec
=============================================================================
