------------------------------- MODULE MCChebFD -------------------------------
(* Instances of ChebFD for TLC.                                            *)
EXTENDS ChebFD

Line(k, v) == [key |-> k, val |-> v]
Target == <<Line("lo", 1), Line("hi", 2)>>
Bounds == <<Line("a", 0), Line("b", 3)>>

\* Complete files, pairs spread over two files, lone keys, a target at and beyond the
\* bounds, an empty one, a repeated key, NaN.
AllFiles ==
  { <<>>, <<Target>>, <<Target \o Bounds>>, <<Bounds>>, <<Bounds, Target>>,
    <<Target, <<Line("a", 0)>>>>, <<<<Line("lo", 1)>>>>, <<Bounds \o Target, <<Line("hi", 3)>>>>,
    <<Target \o <<Line("b", 3)>>>>, <<<<Line("lo", 2), Line("hi", 1), Line("lo", 0)>>>>,
    <<<<Line("lo", 0), Line("hi", 4)>>>>, <<<<Line("lo", 2), Line("hi", 2)>>>>,
    <<Target \o <<Line("a", NaN), Line("b", 3)>>>>, <<<<Line("lo", NaN), Line("hi", 2)>>>> }

Parameters(degree, width, kernel, mu, nb, eps, itermax) ==
  [Np |-> degree, NS |-> width, kernel |-> kernel, mu |-> mu, nb |-> nb, eps |-> eps, itermax |-> itermax]

\* The usual case, a tolerance above one, the default iterations; and one bad value each.
AllOthers ==
  { Parameters(2, 3, 3, 2, 0, 0, 2), Parameters(2, 2, 1, 0, 2, 64, 2), Parameters(2, 2, 3, 1, 0, 1, 0),
    Parameters(1, 2, 3, 2, 0, 0, 1), Parameters(2, 1, 3, 2, 0, 0, 1), Parameters(2, 2, 4, 2, 0, 0, 1),
    Parameters(2, 2, 3, 0, 0, 0, 1), Parameters(2, 2, 3, 2, -1, 0, 1),
    Parameters(2, -1, 3, 2, 0, 0, 1) }

\* Every file with a small run, every other parameter with a good file, and a block too
\* wide for the host kernel, with a target the filter refuses.
Few == Parameters(2, 2, 3, 2, 0, 0, 1)
AllInputs ==
  {[files |-> f, other |-> Few] : f \in AllFiles} \cup {[files |-> <<Target>>, other |-> o] : o \in AllOthers}
    \cup {[files |-> <<<<Line("lo", 0), Line("hi", 4)>>>>, other |-> Parameters(2, 4, 3, 2, 0, 0, 1)]}

\* The spectrum, and the sentinels crossed when no row gave a number.
AllGershgorin == {<<0, 3>>, <<99, -99>>}
=============================================================================
