-------------------------- MODULE MCStreamProcessor --------------------------
(***************************************************************************)
(* Instances of StreamProcessor for TLC.                                   *)
(***************************************************************************)
EXTENDS StreamProcessor, TLC

\* Ingesters are interchangeable, and so are the metrics of one kind, the
\* flushers and the stoppers.
Symmetry ==
    Permutations(Ingesters) \cup Permutations(Metrics \ Invalid)
      \cup Permutations(Flushers) \cup Permutations(Stoppers)
=============================================================================
