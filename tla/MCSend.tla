------------------------------- MODULE MCSend -------------------------------
(* Model-checking instances of Send: what the subshards of two threads     *)
(* yield.                                                                  *)
EXTENDS Send

CONSTANTS a, b

TwoThreads == {a, b}

\* three targets and one
UnevenWalk == [t \in TwoThreads |->
  IF t = a THEN << <<1, 1>>, <<2, 1>>, <<3, 1>> >> ELSE << <<4, 1>> >>]

\* unlisted addresses first, last and in between
OnePortWalk == [t \in TwoThreads |->
  IF t = a THEN << <<2, 1>>, <<1, 1>>, <<4, 1>>, <<3, 1>>, <<7, 1>> >>
           ELSE << <<6, 1>>, <<5, 1>>, <<8, 1>>, <<10, 1>>, <<9, 1>>, <<12, 1>> >>]

\* three addresses on two ports, in the mixed order of the permutation, and
\* a subshard without a valid element
TwoPortWalk == [t \in TwoThreads |->
  IF t = a THEN << <<1, 2>>, <<2, 1>>, <<3, 2>>, <<1, 1>>, <<2, 2>>, <<3, 1>> >>
           ELSE << >>]

NoLimit  == [t \in TwoThreads |-> 0]
TwoForA  == [t \in TwoThreads |-> IF t = a THEN 2 ELSE 0]

OddIps == {1, 3, 5, 7, 9}
=============================================================================
