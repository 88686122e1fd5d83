---------------------------- MODULE MCHotStorage ----------------------------
(***************************************************************************)
(* Instances of HotStorage for TLC.                                        *)
(***************************************************************************)
EXTENDS HotStorage, TLC

CONSTANT MaxDrift   \* bound: how far totalPoints may run ahead of the points held

DriftBound == totalPoints <= PointCount + MaxDrift

Symmetry == Permutations(SeriesIds) \cup Permutations(Values)
=============================================================================
