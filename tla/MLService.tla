----------------------------- MODULE MLService -----------------------------
(***************************************************************************)
(* The forecasting and the anomaly endpoint of src/api/server.go with the  *)
(* engines of src/analytics/ml.  A request fetches the points of its       *)
(* series, trains the models of the one engine all requests share, and     *)
(* asks them at once.  There is no lock, so two requests may be inside the *)
(* same model, and a map written by both ends the process (a Go fatal      *)
(* error, not a panic).                                                    *)
(*                                                                         *)
(* Data is abstracted to where it comes from: each request asks about a    *)
(* series of its own, and `of` is the set of requests whose points the     *)
(* parameters of a model rest on.  All ask for the same horizon.           *)
(***************************************************************************)
EXTENDS Naturals, FiniteSets

CONSTANTS
    Requests,
    Sizes           \* numbers of points GetRange may return

ASSUME MLAssumption == Sizes \subseteq Nat /\ IsFiniteSet(Requests)

VARIABLES
    ensemble,       \* ForecastConfig.EnsembleMethod; ModelWeights is nil
    models,         \* the models of both engines
    cache,          \* the fresh entry of ForecastEngine.cache, <<>> or <<set>>
    request,
    dead            \* the Go runtime ended the process

serviceVars == <<ensemble, models, cache, request, dead>>

\* What matters of each model: the fewest points Train accepts, and the fewest
\* that change its parameters; whether training fills a map and an answer reads
\* it; whether an answer depends on the points at all; the accuracy in percent
\* that its forecast claims, which is a constant of the code.
LinearTrend == [min |-> 2,  takes |-> 2,  fills |-> FALSE, reads |-> FALSE, informed |-> TRUE,
                accuracy |-> 70]
HoltWinters == [min |-> 24, takes |-> 24, fills |-> TRUE,  reads |-> TRUE,  informed |-> TRUE,
                accuracy |-> 80]
SeasonalETS == [min |-> 0,  takes |-> 0,  fills |-> TRUE,  reads |-> TRUE,  informed |-> TRUE,
                accuracy |-> 75]

\* A line from 50 upwards, whatever the points are.
ARIMA       == [min |-> 14, takes |-> 14, fills |-> TRUE,  reads |-> FALSE, informed |-> FALSE,
                accuracy |-> 85]
ZScore      == [min |-> 0,  takes |-> 0,  fills |-> FALSE, reads |-> FALSE, informed |-> TRUE]

\* updateQuartiles leaves the quartiles alone when it has fewer than 4 points.
IQR         == [min |-> 0,  takes |-> 4,  fills |-> FALSE, reads |-> FALSE, informed |-> TRUE]

\* These two give every point the same harmless score.
Seasonal    == [min |-> 0,  takes |-> 0,  fills |-> TRUE,  reads |-> FALSE, informed |-> FALSE]
Forest      == [min |-> 0,  takes |-> 0,  fills |-> FALSE, reads |-> FALSE, informed |-> FALSE]

Forecasters == {"linear_trend", "holt_winters", "seasonal_ets", "arima"}
Detectors   == {"z_score", "iqr", "seasonal", "isolation_forest"}
Profile == [linear_trend |-> LinearTrend, holt_winters |-> HoltWinters,
            seasonal_ets |-> SeasonalETS, arima |-> ARIMA,
            z_score |-> ZScore, iqr |-> IQR, seasonal |-> Seasonal, isolation_forest |-> Forest]
Models(kind) == IF kind = "forecast" THEN Forecasters ELSE Detectors

\* bestModelEnsemble takes the forecast that claims the best accuracy, the average
\* takes all; ensembleDecision counts the votes of all.
Best     == {m \in Forecasters :
                \A k \in Forecasters : Profile[k].accuracy <= Profile[m].accuracy}
Combined == IF ensemble = "best" THEN Best ELSE Forecasters
Informed(kind) == {m \in IF kind = "forecast" THEN Combined ELSE Detectors : Profile[m].informed}

\* weightedEnsemble, which is called when more than one model has answered, assigns
\* to the map ModelWeights, and that is nil: it panics.
WeightsPanic == ensemble = "weighted"

New       == [pc |-> "new"]
At(c, pc) == request[c].pc = pc
Rivals(c) == {d \in Requests \ {c} : request[d].pc \in {"train", "inside", "cache", "ask", "store"}
                                     /\ request[d].kind = request[c].kind}
Goto(c, pc) == request' = [request EXCEPT ![c].pc = pc]

ServiceInit ==
    /\ ensemble \in {"weighted", "average", "best"}
    /\ models = [m \in DOMAIN Profile |-> [of |-> {}, inside |-> {}, writers |-> {}]]
    /\ cache = <<>>
    /\ request = [c \in Requests |-> New]
    /\ dead = FALSE

-----------------------------------------------------------------------------
(* The handlers up to TrainModels.  A forecast needs 10 points, a detection *)
(* one; GetRange may fail.                                                  *)

Fetch(c, kind, size, least) ==
    /\ At(c, "new")
    /\ request' = [request EXCEPT ![c] =
           [pc |-> IF size < least THEN "refused" ELSE "train",
            kind |-> kind, size |-> size, left |-> Models(kind), alone |-> TRUE,
            of |-> {}, cached |-> FALSE]]
    /\ UNCHANGED <<ensemble, models, cache, dead>>

GenerateForecast(c, size) == Fetch(c, "forecast", size, 10)
DetectAnomalies(c, size)  == Fetch(c, "detect", size, 1)

FetchFails(c) ==
    /\ At(c, "new") /\ Goto(c, "refused")
    /\ UNCHANGED <<ensemble, models, cache, dead>>

\* TrainModels takes the models in the order of a map: any.
\* Faulty: a model that cannot be trained is skipped.
FaultyTrainFails(c, m) ==
    /\ At(c, "train") /\ m \in request[c].left
    /\ request[c].size < Profile[m].min
    /\ request' = [request EXCEPT ![c].left = @ \ {m}]
    /\ UNCHANGED <<ensemble, models, cache, dead>>

TrainFails(c, m) ==
    /\ At(c, "train") /\ m \in request[c].left
    /\ request[c].size < Profile[m].min
    /\ Goto(c, "failed")
    /\ UNCHANGED <<ensemble, models, cache, dead>>

EnterModel(c, m) ==
    /\ At(c, "train") /\ m \in request[c].left
    /\ request[c].size >= Profile[m].min
    /\ LET M == models[m] IN models' = [models EXCEPT ![m] =
           [M EXCEPT !.inside  = M.inside \cup {c},
                     !.writers = (IF M.inside = {} THEN {} ELSE M.writers)
                                   \cup (IF request[c].size >= Profile[m].takes THEN {c} ELSE {})]]
    /\ request' = [d \in Requests |->
           CASE d = c -> [request[c] EXCEPT !.pc = "inside", !.left = @ \ {m},
                                            !.alone = @ /\ Rivals(c) = {}]
             [] d \in Rivals(c) -> [request[d] EXCEPT !.alone = FALSE]
             [] OTHER -> request[d]]
    /\ UNCHANGED <<ensemble, cache, dead>>

\* When nobody is inside any more, the parameters are a mixture of what those
\* have written who were inside together.
LeaveModel(c) ==
    /\ At(c, "inside")
    /\ \E m \in DOMAIN models : LET M == models[m] IN
         /\ c \in M.inside
         /\ models' = [models EXCEPT ![m] =
                [M EXCEPT !.inside = M.inside \ {c},
                          !.of = IF M.inside = {c} /\ M.writers # {} THEN M.writers ELSE M.of]]
    /\ Goto(c, IF request[c].left # {} THEN "train"
               ELSE IF request[c].kind = "forecast" THEN "cache" ELSE "ask")
    /\ UNCHANGED <<ensemble, cache, dead>>

-----------------------------------------------------------------------------
(* Forecast and DetectAnomalies. *)

\* The key of the cache is the horizon alone.
CheckCache(c) ==
    /\ At(c, "cache")
    /\ IF cache = <<>> THEN Goto(c, "ask")
       ELSE request' = [request EXCEPT ![c] =
                [request[c] EXCEPT !.pc = "done", !.of = cache[1], !.cached = TRUE]]
    /\ UNCHANGED <<ensemble, models, cache, dead>>

ExpireCache ==
    /\ cache # <<>> /\ cache' = <<>>
    /\ UNCHANGED <<ensemble, models, request, dead>>

\* One who asks a model that is being trained may see old and new parameters.
Shown(m) == models[m].of \cup (IF models[m].inside = {} THEN {} ELSE models[m].writers)

\* After a panic the server drops the connection.
Ask(c) ==
    /\ At(c, "ask")
    /\ IF request[c].kind = "forecast" /\ WeightsPanic THEN Goto(c, "aborted")
       ELSE request' = [request EXCEPT ![c] =
                [request[c] EXCEPT !.pc = IF request[c].kind = "forecast" THEN "store" ELSE "done",
                                   !.of = UNION {Shown(m) : m \in Informed(request[c].kind)}]]
    /\ UNCHANGED <<ensemble, models, cache, dead>>

StoreCache(c) ==
    /\ At(c, "store")
    /\ cache' = <<request[c].of>>
    /\ Goto(c, "done")
    /\ UNCHANGED <<ensemble, models, dead>>

\* Two requests meet in a map.
Collide(c, d) ==
    \/ \E m \in DOMAIN models : Profile[m].fills /\ c \in models[m].inside
                            /\ \/ d \in models[m].inside
                               \/ Profile[m].reads /\ At(d, "ask")
    \/ At(c, "store") /\ (At(d, "store") \/ At(d, "cache"))

Crash ==
    /\ \E c, d \in Requests : c # d /\ Collide(c, d)
    /\ dead' = TRUE
    /\ UNCHANGED <<ensemble, models, cache, request>>

ServiceNext ==
    /\ ~dead
    /\ \/ \E c \in Requests :
            \/ \E size \in Sizes : GenerateForecast(c, size) \/ DetectAnomalies(c, size)
            \/ FetchFails(c)
            \/ \E m \in DOMAIN models : TrainFails(c, m) \/ EnterModel(c, m)
            \/ LeaveModel(c) \/ CheckCache(c) \/ Ask(c) \/ StoreCache(c)
       \/ ExpireCache \/ Crash

ServiceSpec == ServiceInit /\ [][ServiceNext]_serviceVars

-----------------------------------------------------------------------------
ServiceTypeOK ==
    /\ cache = <<>> \/ cache[1] \subseteq Requests
    /\ dead \in BOOLEAN
    /\ \A m \in DOMAIN models : models[m].of \subseteq Requests /\ models[m].inside \subseteq Requests
    /\ \A c \in Requests : request[c].pc \in {"new", "refused", "train", "inside", "failed", "cache",
                                              "ask", "aborted", "store", "done"}

\* Though all requests train the same models, and a failed one leaves some of them
\* trained and some not, an answer rests on the points of its own series only:
\* unless it came from the cache, another request of its kind was under way with
\* it, or it is a detection with less than four points, for which the IQR keeps
\* the quartiles of whoever came before.  Weighted, as the server configures the
\* engine, no forecast is answered at all.
OwnAnswers ==
    \A c \in Requests : At(c, "done") =>
        /\ \/ request[c].of \subseteq {c}
           \/ request[c].cached \/ ~request[c].alone
           \/ request[c].kind = "detect" /\ request[c].size < 4
        /\ request[c].kind = "forecast" => ensemble # "weighted"
=============================================================================
