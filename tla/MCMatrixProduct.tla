--------------------------- MODULE MCMatrixProduct ---------------------------
(***************************************************************************)
(* Small matrices of both sources, in every format, on one to three ranks. *)
(***************************************************************************)
EXTENDS MatrixProduct

Domain(x, y, z) == [nx |-> x, ny |-> y, nz |-> z]
Stencil(kind, size, p) == [kind |-> kind, size |-> size, p |-> p]
BinFile(size, rows) == [kind |-> "bmx", size |-> size, rows |-> rows]

Entries(cols) == [j \in DOMAIN cols |-> [col |-> cols[j], val |-> Double(10 + j)]]

\* Empty rows in the middle and at the end, one column twice in a row.
Ragged == <<Entries(<<4>>), <<>>, Entries(<<2, 0, 4>>), Entries(<<3, 3>>), <<>>>>
\* Fewer rows than ranks.
Two == <<Entries(<<1, 0>>), Entries(<<0>>)>>

Sources ==
  {Stencil("generate", 1, Domain(2, 2, 1)), Stencil("generate7P", 1, Domain(2, 1, 2)),
   Stencil("generate", 2, Domain(2, 1, 1)), Stencil("generate7P", 2, Domain(1, 1, 2)),
   BinFile(1, Ragged), BinFile(2, Ragged), BinFile(3, Two)}

\* Chunks and windows: equal, one inside the other, and neither.
Shapes == {<<1, 1>>, <<2, 1>>, <<2, 4>>, <<2, 3>>, <<3, 2>>, <<4, 8>>}

MCJobs ==
  UNION {LET Job(fmt, rank, C, sigma) ==
               [source |-> s, rank |-> rank, fmt |-> fmt, C |-> C, sigma |-> sigma]
             ranks == 0 .. s.size - 1
         IN {Job(fmt, r, 1, 1) : fmt \in {"CRS", "CCRS"}, r \in ranks}
              \cup {Job("SCS", r, c[1], c[2]) : r \in ranks, c \in Shapes} : s \in Sources}

KernelCall(kernel, device, w, ld, vec, p, q, r, y, acc) ==
  [kernel |-> kernel, device |-> device, w |-> w, ld |-> ld, vec |-> vec,
   x |-> "x", p |-> p, q |-> q, r |-> r, y |-> y, acc |-> acc]

\* The host's entry points and their counterparts on the device.
EntryCalls ==
  UNION {{KernelCall("spMVM", d, 1, 1, 1, "none", "none", "none", "y", "none"),
          KernelCall("spMMVM", d, 3, 3, 1, "none", "none", "none", "y", "none"),
          KernelCall("spMMVMFused", d, 2, 2, 1, "x", "none", "none", "y", "none"),
          KernelCall("spMMVMFused", d, 3, 3, 1, "x", "z", "none", "y", "none"),
          KernelCall("chebfdOp", d, 3, 3, 1, "x", "y", "none", "y", "s")} : d \in BOOLEAN}

\* The launches of the streamed search block: a last block is narrower than the slots.
LaunchCalls ==
  {KernelCall("launch_spmmv", TRUE, s[1], s[2], 1, "none", "none", "none", "y", "none") :
     s \in {<<1, 3>>, <<3, 3>>}}
  \cup {KernelCall("launch_chebfd", TRUE, s[1], s[2], vec, b[1], b[2], b[3], b[4], "none") :
     s \in {<<3, 3>>, <<1, 4>>, <<2, 4>>, <<3, 4>>, <<4, 4>>}, vec \in {1, 2, 4},
     b \in {<<"x", "none", "z", "y">>, <<"x", "y", "z", "y">>, <<"x", "y", "z", "z">>}}

MCCalls == EntryCalls \cup LaunchCalls
=============================================================================
