---------------------------- MODULE MCWarmStorage ----------------------------
(***************************************************************************)
(* Instances of WarmStorage for TLC.                                       *)
(***************************************************************************)
EXTENDS WarmStorage, TLC

Point(t) == [ts |-> t, val |-> "v"]

\* Two units of time to the millisecond: the first block starts in the middle
\* of one, and the second block lies between its points.
TwoBlocks == {<<Point(3), Point(5)>>, <<Point(4)>>}

\* Both blocks start in the range, which ends before the first does; reloaded,
\* the first starts before it.
OneRange == {<<3, 4>>}

Symmetry == Permutations(SeriesIds)
=============================================================================
