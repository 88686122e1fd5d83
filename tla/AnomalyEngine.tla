--------------------------- MODULE AnomalyEngine ---------------------------
(***************************************************************************)
(* AnomalyEngine, src/analytics/anomaly_detection.go: one detector for a   *)
(* series, found or made under ae.mu, that judges each point under its own *)
(* lock and learns it; the result is stored under ae.mu again.  Between    *)
(* the three, other calls come in, and AddDetector may replace the         *)
(* detector a call has in hand.                                            *)
(*                                                                         *)
(* One series: series share the engine's lock and nothing else.  Values    *)
(* and the threshold are integers, and the statistics are compared with    *)
(* all denominators multiplied out, so that the verdicts are exact.        *)
(***************************************************************************)
EXTENDS Integers, Sequences, FiniteSets, SequencesExt

CONSTANTS
    Callers,
    Values,             \* values of points
    Trainings,          \* the sequences of values a caller may train with
    Threshold,          \* the threshold, or the multiplier of IQR
    WindowSize,
    DefaultKind,        \* AnomalyConfig.DefaultMethod
    MaxResults,         \* MaxResultsPerSeries
    MaxDetectors, MaxLearned    \* bounds: detectors made, values one has learned

Kinds == {"zscore", "iqr", "moving_average"}

ASSUME AnomalyAssumption ==
    /\ Values \subseteq Int /\ Trainings \subseteq Seq(Values)
    /\ Threshold \in Nat \ {0} /\ WindowSize \in Nat \ {0}
    /\ DefaultKind \in Kinds
    /\ MaxResults \in Nat /\ MaxDetectors \in Nat /\ MaxLearned \in Nat

VARIABLES
    detectors,      \* all detectors ever made, in the order they were made
    current,        \* the one in ae.detectors, 0 when there is none
    results,        \* ae.results of the series
    caller          \* what each caller does

anomalyVars == <<detectors, current, results, caller>>

Idle == [pc |-> "idle"]

-----------------------------------------------------------------------------
(* The three detectors. *)

\* The sum of a sequence.  (A fold the prover cannot expand.)
Sum(x) == LET upto[k \in 0..Len(x)] == IF k = 0 THEN 0 ELSE upto[k - 1] + x[k]
          IN upto[Len(x)]
Each(f(_), w) == [i \in 1..Len(w) |-> f(w[i])]
Square(v)     == v * v
Abs(v)        == IF v < 0 THEN -v ELSE v
LastOf(s, n)  == IF Len(s) <= n THEN s ELSE SubSeq(s, Len(s) - n + 1, Len(s))

MinValues(kind) == CASE kind = "zscore" -> 3 [] kind = "iqr" -> 4 [] OTHER -> 2

\* v is farther from the mean of w than Threshold times their standard deviation.
\* A deviation of zero is replaced by 1e-10, which any difference exceeds.
FarInDeviations(w, v) ==
    LET n == Len(w)
        s == Sum(w)
    IN Square(n * v - s) * (n - 1) > Square(Threshold) * n * (n * Sum(Each(Square, w)) - Square(s))

\* v is farther from the average than Threshold times the mean absolute deviation.
FarFromAverage(w, v) ==
    LET n == Len(w)
        s == Sum(w)
        OffAverage(x) == Abs(n * x - s)
    IN n * OffAverage(v) > Threshold * Sum(Each(OffAverage, w))

\* Four times the q-th quartile of w, interpolated.
Quartile4(w, q) ==
    LET x == SortSeq(w, <)
        i == q * (Len(w) - 1)
        k == (i \div 4) + 1
    IN (4 - (i % 4)) * x[k] + (i % 4) * x[IF k < Len(w) THEN k + 1 ELSE k]

Bounds4(w) == LET q1 == Quartile4(w, 1)
                  q3 == Quartile4(w, 3)
              IN [min |-> q1 - Threshold * (q3 - q1), max |-> q3 + Threshold * (q3 - q1)]
OutOfBounds(w, v) == 4 * v < Bounds4(w).min \/ 4 * v > Bounds4(w).max

Unusual(kind, w, v) == CASE kind = "zscore" -> FarInDeviations(w, v)
                         [] kind = "iqr"    -> OutOfBounds(w, v)
                         [] OTHER           -> FarFromAverage(w, v)

\* Faulty: the window is trimmed before the value is added.
FaultySlide(w, v) == Append(LastOf(w, WindowSize), v)
Slide(w, v) == LastOf(Append(w, v), WindowSize)

\* Faulty: the range is that of the window after it has moved on, for all.
FaultyJudged(kind, w, v) ==
    [kind |-> kind, anomaly |-> Unusual(kind, w, v),
     seen |-> Len(Slide(w, v)), inRange |-> ~Unusual(kind, Slide(w, v), v)]

\* The result of judging v.  The ExpectedRange of a z-score is computed when v
\* is in the window already.
Judged(kind, w, v) ==
    [kind |-> kind, anomaly |-> Unusual(kind, w, v),
     seen |-> Len(Slide(w, v)),
     inRange |-> ~Unusual(kind, IF kind = "zscore" THEN Slide(w, v) ELSE w, v)]
Undecided(kind) == [kind |-> kind, anomaly |-> FALSE]

-----------------------------------------------------------------------------
AnomalyInit ==
    /\ detectors = <<>> /\ current = 0
    /\ results = <<>>
    /\ caller = [c \in Callers |-> Idle]

\* `taught`, `learned` and `alarm` are history: the last training, what was
\* learned since, whether an anomaly was reported since.
Made(kind) == [kind |-> kind, values |-> <<>>, taught |-> <<>>, learned |-> <<>>, alarm |-> FALSE]

AddDetector(kind) ==
    /\ Len(detectors) < MaxDetectors
    /\ detectors' = Append(detectors, Made(kind))
    /\ current' = Len(detectors')
    /\ UNCHANGED <<results, caller>>

\* GetOrCreateDetector, the first step of DetectAnomaly and TrainDetector.
GetOrCreateDetector ==
    \/ current # 0 /\ UNCHANGED <<detectors, current>>
    \/ current = 0 /\ Len(detectors) < MaxDetectors
       /\ detectors' = Append(detectors, Made(DefaultKind)) /\ current' = Len(detectors')

BeginDetect(c, v) ==
    /\ caller[c] = Idle
    /\ GetOrCreateDetector
    /\ caller' = [caller EXCEPT ![c] = [pc |-> "detect", with |-> current', value |-> v]]
    /\ UNCHANGED results

BeginTrain(c, ps) ==
    /\ caller[c] = Idle
    /\ GetOrCreateDetector
    /\ caller' = [caller EXCEPT ![c] = [pc |-> "train", with |-> current', points |-> ps]]
    /\ UNCHANGED results

\* Nothing to train with is an error.
Train(c) ==
    /\ caller[c].pc = "train"
    /\ detectors' = IF caller[c].points = <<>> THEN detectors
                    ELSE [detectors EXCEPT ![caller[c].with] =
                             [@ EXCEPT !.values = LastOf(caller[c].points, WindowSize),
                                       !.taught = caller[c].points,
                                       !.learned = <<>>, !.alarm = FALSE]]
    /\ caller' = [caller EXCEPT ![c] = Idle]
    /\ UNCHANGED <<current, results>>

Deliver(c, result) == caller' = [caller EXCEPT ![c] = [pc |-> "store", result |-> result]]

\* Too few values to judge by: no verdict, and the value is not kept.
\* Faulty: it is kept.
FaultyDetectBlind(c) ==
    /\ caller[c].pc = "detect"
    /\ LET d == detectors[caller[c].with] IN
         /\ Len(d.values) < MinValues(d.kind) /\ Len(d.learned) < MaxLearned
         /\ detectors' = [detectors EXCEPT ![caller[c].with].values = Slide(@, caller[c].value),
                                           ![caller[c].with].learned = Append(@, caller[c].value)]
         /\ Deliver(c, Undecided(d.kind))
    /\ UNCHANGED <<current, results>>

DetectBlind(c) ==
    /\ caller[c].pc = "detect"
    /\ LET d == detectors[caller[c].with] IN
         /\ Len(d.values) < MinValues(d.kind)
         /\ Deliver(c, Undecided(d.kind))
    /\ UNCHANGED <<detectors, current, results>>

Detect(c) ==
    /\ caller[c].pc = "detect"
    /\ LET d == detectors[caller[c].with]
           v == caller[c].value
       IN /\ Len(d.values) >= MinValues(d.kind) /\ Len(d.learned) < MaxLearned
          /\ detectors' = [detectors EXCEPT ![caller[c].with] =
                 [d EXCEPT !.values = Slide(@, v), !.learned = Append(@, v),
                           !.alarm = @ \/ Unusual(d.kind, d.values, v)]]
          /\ Deliver(c, Judged(d.kind, d.values, v))
    /\ UNCHANGED <<current, results>>

\* Faulty: the results of a series are never trimmed.
FaultyStoreResult(c) ==
    /\ caller[c].pc = "store"
    /\ results' = Append(results, caller[c].result)
    /\ caller' = [caller EXCEPT ![c] = Idle]
    /\ UNCHANGED <<detectors, current>>

StoreResult(c) ==
    /\ caller[c].pc = "store"
    /\ results' = IF MaxResults = 0 THEN Append(results, caller[c].result)
                  ELSE LastOf(Append(results, caller[c].result), MaxResults)
    /\ caller' = [caller EXCEPT ![c] = Idle]
    /\ UNCHANGED <<detectors, current>>

AnomalyNext ==
    \/ \E k \in Kinds : AddDetector(k)
    \/ \E c \in Callers :
         \/ \E v \in Values : BeginDetect(c, v)
         \/ \E ps \in Trainings : BeginTrain(c, ps)
         \/ Train(c) \/ DetectBlind(c) \/ Detect(c) \/ StoreResult(c)

AnomalySpec == AnomalyInit /\ [][AnomalyNext]_anomalyVars

-----------------------------------------------------------------------------
AnomalyTypeOK ==
    /\ current \in 0..Len(detectors) /\ Len(detectors) <= MaxDetectors
    /\ \A i \in DOMAIN detectors : /\ detectors[i].kind \in Kinds
                                   /\ Len(detectors[i].values) <= WindowSize
    /\ MaxResults = 0 \/ Len(results) <= MaxResults
    /\ \A c \in Callers : caller[c] = Idle \/ caller[c].pc \in {"detect", "train", "store"}

\* A detector that was not trained with enough values never reports an anomaly,
\* whatever it is shown and however long: a detector that knows too little to
\* judge does not learn, so the default one DetectAnomaly makes stays mute until
\* TrainDetector is called, and one with a small window for ever.
MuteUntilTrained ==
    \A i \in DOMAIN detectors :
        detectors[i].alarm => Len(LastOf(detectors[i].taught, WindowSize)) >= MinValues(detectors[i].kind)

\* What a detector judges by is the last WindowSize values of its training and of
\* the points judged since, each once, in the order their callers had the lock.
WindowRecent ==
    \A i \in DOMAIN detectors :
        detectors[i].values = LastOf(detectors[i].taught \o detectors[i].learned, WindowSize)

\* The ExpectedRange in a result agrees with its verdict for IQR and moving
\* average.  That of a z-score holds the value too: with few values for the
\* threshold, n for which (n-1)^2 <= Threshold^2 * n, it includes every anomaly.
RangeAgrees ==
    \A c \in Callers :
        caller[c].pc = "store" /\ "inRange" \in DOMAIN caller[c].result =>
            LET r == caller[c].result IN
            IF r.kind = "zscore"
            THEN Square(r.seen - 1) <= Square(Threshold) * r.seen => r.inRange
            ELSE r.inRange = ~r.anomaly
=============================================================================
