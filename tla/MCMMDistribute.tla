--------------------------- MODULE MCMMDistribute ---------------------------
(* Instances of MMDistribute for TLC: small files on three ranks.          *)
EXTENDS MMDistribute

\* Five rows, two or one per rank; general, unsorted, columns apart.
General == [nr |-> 5, sym |-> FALSE,
            lines |-> << <<5, 5>>, <<1, 4>>, <<2, 2>>, <<1, 1>>, <<3, 3>>, <<4, 1>>, <<3, 5>> >>]

\* Four rows, only the lower triangle stored.
Symmetric == [nr |-> 4, sym |-> TRUE,
              lines |-> << <<1, 1>>, <<2, 1>>, <<3, 2>>, <<4, 4>>, <<4, 3>> >>]

\* Seven rows; the second lies inside rank 0's range and is empty.
EmptyInside == [nr |-> 7, sym |-> FALSE,
                lines |-> << <<1, 2>>, <<3, 3>>, <<4, 4>>, <<5, 1>>, <<6, 6>>, <<7, 7>> >>]

\* The last row of rank 0 is empty: rank 0 has rows 1 and 2 of 4.
EmptyLast == [nr |-> 4, sym |-> FALSE, lines |-> << <<1, 2>>, <<3, 3>>, <<4, 4>> >>]

\* The first row of rank 1 is empty.
EmptyFirst == [nr |-> 6, sym |-> FALSE,
               lines |-> << <<1, 1>>, <<2, 2>>, <<4, 4>>, <<5, 5>>, <<6, 6>> >>]

\* Fewer rows than ranks: rank 2 gets nothing.
TwoRows == [nr |-> 2, sym |-> FALSE, lines |-> << <<1, 1>>, <<2, 2>> >>]

AllFiles == {General, Symmetric, EmptyInside, EmptyLast, EmptyFirst, TwoRows}
EmptyLastFiles == {EmptyLast}
GeneralFiles == {General}
TwoRowsFiles == {TwoRows}
SmallInts == {-1, 0, 3}
=============================================================================
