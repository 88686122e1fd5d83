---------------------------- MODULE MCAnalytics ----------------------------
(***************************************************************************)
(* An instance of the two analytics packages for TLC.  They share nothing: *)
(* `part` says which one moves, and the other stays at its start.          *)
(***************************************************************************)
EXTENDS AnomalyEngine, MLService

CONSTANTS c1, c2, r1, r2

VARIABLE part

\* Too few values to judge by, and more than the window holds.
ShortAndLong == {<<0, 9>>, <<9, 0, 0, 9, 0>>}

AnalyticsInit ==
    /\ part \in {"engine", "service"}
    /\ AnomalyInit /\ ServiceInit
    /\ part = "engine" => ensemble = "weighted"

EngineStep  == part = "engine" /\ AnomalyNext /\ UNCHANGED <<part, serviceVars>>
ServiceStep == part = "service" /\ ServiceNext /\ UNCHANGED <<part, anomalyVars>>
AnalyticsNext == EngineStep \/ ServiceStep

AnalyticsSpec == AnalyticsInit /\ [][AnalyticsNext]_<<part, anomalyVars, serviceVars>>

Symmetry == Permutations({c1, c2}) \cup Permutations({r1, r2})

\* Both keep their types; results are trimmed and windows bounded.
AnalyticsTypeOK == AnomalyTypeOK /\ ServiceTypeOK
=============================================================================
