----------------------------- MODULE MatrixSource -----------------------------
(***************************************************************************)
(* The GMatrix of one rank from the stencil generator (matrix.c) and from  *)
(* a binary file (matrixBinfile.c).  Arrays count from 0; a value is a     *)
(* number and whether it has gone through single precision.                *)
(***************************************************************************)
EXTENDS Integers, SequencesExt, FiniteSetsExt

Double(n) == [num |-> n, single |-> FALSE]
Float(v) == [v EXCEPT !.single = TRUE]

Array(s) == [i \in 0 .. Len(s) - 1 |-> s[i + 1]]

\* Rows, a sequence of sequences of entries [col, val], in CRS.
RowPtr(rows) == [i \in 0 .. Len(rows) |-> Len(FlattenSeq(SubSeq(rows, 1, i)))]

GMatrix(rows, startRow, totalNr, totalNnz, nnz) ==
  [nr |-> Len(rows), nc |-> Len(rows), startRow |-> startRow, stopRow |-> startRow + Len(rows) - 1,
   totalNr |-> totalNr, totalNnz |-> totalNnz, nnz |-> nnz,
   rowPtr |-> RowPtr(rows), entries |-> Array(FlattenSeq(rows))]

\* Row i of a GMatrix.
Row(G, i) ==
  [j \in 1 .. G.rowPtr[i + 1] - G.rowPtr[i] |-> G.entries[G.rowPtr[i] + j - 1]]

-----------------------------------------------------------------------------
(* matrixGenerate: the domains of the ranks are stacked in z.              *)

\* The 27 neighbours, in the order of the loops over sz, sy and sx.
Offsets ==
  [n \in 1 .. 27 |-> [z |-> ((n - 1) \div 9) - 1, y |-> (((n - 1) \div 3) % 3) - 1, x |-> ((n - 1) % 3) - 1]]

\* Which neighbours of row k of this rank there are: x and y by the domain, z by the
\* number of the column.
Inside(p, seven, rank, size, k, o) ==
  LET rows == p.nx * p.ny * p.nz
      ix == k % p.nx
      iy == (k \div p.nx) % p.ny
      col == rank * rows + k + o.z * p.nx * p.ny + o.y * p.nx + o.x
  IN /\ ix + o.x \in 0 .. p.nx - 1 /\ iy + o.y \in 0 .. p.ny - 1 /\ col \in 0 .. rows * size - 1
     /\ seven => o.z * o.z + o.y * o.y + o.x * o.x <= 1

Generate(p, seven, rank, size) ==
  LET rows == p.nx * p.ny * p.nz
      points == IF seven THEN 7 ELSE 27
      Entry(k, o) ==
        [col |-> rank * rows + k + o.z * p.nx * p.ny + o.y * p.nx + o.x,
         val |-> Double(IF o = [z |-> 0, y |-> 0, x |-> 0] THEN 27 ELSE -1)]
      Stencil(k) == LET kept == SelectSeq(Offsets, LAMBDA o : Inside(p, seven, rank, size, k, o))
                    IN [j \in DOMAIN kept |-> Entry(k, kept[j])]
  IN GMatrix([k \in 1 .. rows |-> Stencil(k - 1)], rank * rows, rows * size,
             points * rows * size, points * rows)

-----------------------------------------------------------------------------
(* The binary file behind its header: words of 32 bits, an entry is two.   *)

\* matrixBinWrite, on one rank.
BinWrite(G) ==
  [i \in 0 .. 2 + G.totalNr + 2 * G.totalNnz |->
     LET e == i - (3 + G.totalNr)
     IN IF i = 0 THEN G.totalNr
        ELSE IF i = 1 THEN G.totalNnz
        ELSE IF e < 0 THEN G.rowPtr[i - 2]
        ELSE IF e % 2 = 0 THEN G.entries[e \div 2].col ELSE Float(G.entries[e \div 2].val)]

SizeOfRank(rank, size, n) == (n \div size) + (IF n % size > rank THEN 1 ELSE 0)
FirstRow(rank, size, n) == FoldFunction(+, 0, [q \in 0 .. rank - 1 |-> SizeOfRank(q, size, n)])

\* The row pointers as read, still those of the whole matrix.
ReadRowPtr(file, rank, size) ==
  [i \in 0 .. SizeOfRank(rank, size, file[0]) |-> file[2 + FirstRow(rank, size, file[0]) + i]]

\* What a rank contributes to the MPI_Allgather.
LocalNnz(file, rank, size) ==
  LET p == ReadRowPtr(file, rank, size) IN p[SizeOfRank(rank, size, file[0])] - p[0]

\* matrixBinRead
BinRead(file, rank, size) ==
  LET totalNr == file[0]
      numRows == SizeOfRank(rank, size, totalNr)
      start == FirstRow(rank, size, totalNr)
      nnz == LocalNnz(file, rank, size)
      entryOffset == FoldFunction(+, 0, [q \in 0 .. rank - 1 |-> LocalNnz(file, q, size)])
      disp == 2 + totalNr + 1
  IN [nr |-> numRows, nc |-> numRows, startRow |-> start, stopRow |-> start + numRows - 1,
      totalNr |-> totalNr, totalNnz |-> file[1], nnz |-> nnz,
      rowPtr |-> [i \in 0 .. numRows |-> ReadRowPtr(file, rank, size)[i] - entryOffset],
      entries |-> [i \in 0 .. nnz - 1 |->
                     [col |-> file[disp + 2 * (entryOffset + i)],
                      val |-> file[disp + 2 * (entryOffset + i) + 1]]]]
=============================================================================
