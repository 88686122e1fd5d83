--------------------------- MODULE StreamProcessor ---------------------------
(***************************************************************************)
(* The ingestion buffer of src/ingestion/stream_processor.go: goroutines   *)
(* that call IngestMetric, the flushRoutine goroutine of each Start, and   *)
(* goroutines that call Stop, over one buffer and one storage.             *)
(*                                                                         *)
(* A step is what a thread does between two acquisitions of bufferMutex,   *)
(* or one AddPoint, or one update of the counters.  Threads therefore      *)
(* interleave exactly where the code lets go of bufferMutex: around        *)
(* flushBuffer, during processBatch, and inside Stop.  Validation, which   *)
(* reads no shared state, is folded into the first step of IngestMetric;   *)
(* so is incrementIngestedCount, which runs with bufferMutex held.         *)
(***************************************************************************)
EXTENDS Naturals, Sequences, FiniteSets, Functions

CONSTANTS
    Metrics,        \* the metrics callers submit, each of them once
    Invalid,        \* those ValidateMetric rejects
    Ingesters,      \* goroutines calling IngestMetric
    Flushers,       \* one per call of Start: the flushRoutine it spawns
    Stoppers,       \* goroutines calling Stop once
    BufferSize,     \* sp.bufferSize
    BatchSize,      \* sp.batchSize
    Cancellable,    \* may the context given to Start be cancelled?
    NoMetric        \* an idle ingester carries no metric

Threads == Ingesters \cup Flushers \cup Stoppers

ASSUME MetricsAssumption ==
    /\ IsFiniteSet(Metrics) /\ Invalid \subseteq Metrics
    /\ NoMetric \notin Metrics
ASSUME ThreadsAssumption ==
    /\ IsFiniteSet(Ingesters) /\ Ingesters # {}
    /\ Ingesters \cap Flushers = {}
    /\ Ingesters \cap Stoppers = {}
    /\ Flushers \cap Stoppers = {}
ASSUME SizesAssumption ==
    BufferSize \in Nat \ {0} /\ BatchSize \in Nat \ {0} /\ Cancellable \in BOOLEAN

VARIABLES
    isRunning,      \* sp.isRunning
    stopClosed,     \* has sp.stopChan been closed?
    ctxDone,        \* has the context been cancelled?
    panicked,       \* a goroutine panicked: the process is dead
    buffer,         \* sp.dataBuffer
    pc,             \* where each thread is
    cont,           \* where a thread goes on when its flushBuffer returns
    batch,          \* what processBatch still has to write, per thread
    cur,            \* the metric an ingester was called with
    stored,         \* metrics the storage accepted
    failed,         \* metrics whose AddPoint returned an error
    verdict,        \* what IngestMetric returned for each metric
    stats           \* sp.stats

shared  == <<isRunning, stopClosed, ctxDone, panicked>>
outcome == <<stored, failed>>
vars    == <<shared, buffer, pc, cont, batch, cur, outcome, verdict, stats>>

Verdicts == {"none", "ok", "invalid", "notRunning"}
Flushing == {"take", "process", "tallyOk", "tallyErr"}
Returns  == {"relock", "return", "select", "stopped"}
Places   == Flushing \cup Returns \cup {"idle", "unborn", "spawning", "gone",
                                         "running", "close", "wait"}
Stats    == [ingested : Nat, processed : Nat, errors : Nat, batches : Nat]

TypeOK ==
    /\ isRunning \in BOOLEAN /\ stopClosed \in BOOLEAN
    /\ ctxDone \in BOOLEAN /\ panicked \in BOOLEAN
    /\ buffer \in Seq(Metrics)
    /\ pc \in [Threads -> Places] /\ cont \in [Threads -> Returns]
    /\ \A t \in Ingesters : /\ pc[t] \in Flushing \cup {"idle", "relock", "return"}
                            /\ cont[t] \in {"relock", "return"}
                            /\ pc[t] = "relock" => cont[t] = "relock"
                            /\ cur[t] = NoMetric <=> pc[t] = "idle"
    /\ batch \in [Threads -> Seq(Metrics)]
    /\ cur \in [Ingesters -> Metrics \cup {NoMetric}]
    /\ stored \in SUBSET Metrics /\ failed \in SUBSET Metrics
    /\ verdict \in [Metrics -> Verdicts]
    /\ stats \in Stats

Init ==
    /\ isRunning = FALSE /\ stopClosed = FALSE
    /\ ctxDone = FALSE /\ panicked = FALSE
    /\ buffer = <<>>
    /\ pc = [t \in Threads |-> IF t \in Ingesters THEN "idle"
                               ELSE IF t \in Flushers THEN "unborn" ELSE "running"]
    /\ cont = [t \in Threads |-> IF t \in Ingesters THEN "return"
                                 ELSE IF t \in Flushers THEN "select" ELSE "stopped"]
    /\ batch = [t \in Threads |-> <<>>]
    /\ cur = [t \in Ingesters |-> NoMetric]
    /\ stored = {} /\ failed = {}
    /\ verdict = [m \in Metrics |-> "none"]
    /\ stats = [ingested |-> 0, processed |-> 0, errors |-> 0, batches |-> 0]

Goto(t, l) == pc' = [pc EXCEPT ![t] = l]
Bump(c)    == stats' = [stats EXCEPT ![c] = @ + 1]

\* The definitions named Faulty... are not part of the model.  Each is the one
\* after it with a slip a programmer could make; a property that holds of the
\* model is expected to fail with the slip put in.

\* Faulty: the capacity is never checked.
FaultyFull == FALSE
Full == Len(buffer) >= BufferSize

Submittable(m) == verdict[m] = "none" /\ \A t \in Ingesters : cur[t] # m

(***************************************************************************)
(* IngestMetric                                                            *)
(***************************************************************************)

\* ValidateMetric returned an error: counted, and no lock was taken.
RejectInvalid(t, m) ==
    /\ pc[t] = "idle" /\ m \in Invalid /\ Submittable(m)
    /\ verdict' = [verdict EXCEPT ![m] = "invalid"]
    /\ Bump("errors")
    /\ UNCHANGED <<shared, buffer, pc, cont, batch, cur, outcome>>

\* The processor is not running: an error the counters do not show.
RefuseStopped(t, m) ==
    /\ pc[t] = "idle" /\ m \notin Invalid /\ Submittable(m)
    /\ ~isRunning
    /\ verdict' = [verdict EXCEPT ![m] = "notRunning"]
    /\ UNCHANGED <<shared, buffer, pc, cont, batch, cur, outcome, stats>>

\* The buffer is full: the lock is released and the caller flushes it.
FlushForRoom(t, m) ==
    /\ pc[t] = "idle" /\ m \notin Invalid /\ Submittable(m)
    /\ isRunning /\ Full
    /\ cur' = [cur EXCEPT ![t] = m]
    /\ Goto(t, "take") /\ cont' = [cont EXCEPT ![t] = "relock"]
    /\ UNCHANGED <<shared, buffer, batch, outcome, verdict, stats>>

\* With the lock held: append, count, and flush if the batch is complete.
Enqueue(t, m) ==
    /\ buffer' = Append(buffer, m)
    /\ Bump("ingested")
    /\ Goto(t, IF Len(buffer) + 1 >= BatchSize THEN "take" ELSE "return")
    /\ cont' = [cont EXCEPT ![t] = "return"]

Accept(t, m) ==
    /\ pc[t] = "idle" /\ m \notin Invalid /\ Submittable(m)
    /\ isRunning /\ ~Full
    /\ cur' = [cur EXCEPT ![t] = m]
    /\ Enqueue(t, m)
    /\ UNCHANGED <<shared, batch, outcome, verdict>>

\* Back from the flush for room: neither isRunning nor the capacity is
\* looked at again.
AcceptAfterFlush(t) ==
    /\ pc[t] = "relock"
    /\ Enqueue(t, cur[t])
    /\ UNCHANGED <<shared, batch, cur, outcome, verdict>>

ReturnOk(t) ==
    /\ pc[t] = "return"
    /\ verdict' = [verdict EXCEPT ![cur[t]] = "ok"]
    /\ cur' = [cur EXCEPT ![t] = NoMetric]
    /\ Goto(t, "idle")
    /\ UNCHANGED <<shared, buffer, cont, batch, outcome, stats>>

(***************************************************************************)
(* flushBuffer and processBatch, run by any thread                         *)
(***************************************************************************)

NothingToFlush(t) ==
    /\ pc[t] = "take" /\ buffer = <<>>
    /\ Goto(t, cont[t])
    /\ UNCHANGED <<shared, buffer, cont, batch, cur, outcome, verdict, stats>>

CopyAndClear(t, copy, rest) ==
    /\ pc[t] = "take" /\ buffer # <<>>
    /\ batch' = [batch EXCEPT ![t] = copy]
    /\ buffer' = rest
    /\ Goto(t, "process")
    /\ UNCHANGED <<shared, cont, cur, outcome, verdict, stats>>

\* Copy the buffer and clear it, or return when there is nothing to flush.
\* Faulty: the copy has room for bufferSize metrics; it is as long as a batch
\* may be and ends in zero metrics; the buffer is not cleared; the flush waits
\* until there is something to do.
FaultyTakePadded(t) ==
    \/ NothingToFlush(t)
    \/ LET copy == [i \in 1..BatchSize |-> IF i <= Len(buffer) THEN buffer[i] ELSE NoMetric]
       IN CopyAndClear(t, copy, <<>>)
FaultyTakeSome(t)  == NothingToFlush(t) \/ CopyAndClear(t, SubSeq(buffer, 1, BufferSize), <<>>)
FaultyTakeAgain(t) == NothingToFlush(t) \/ CopyAndClear(t, buffer, buffer)
FaultyTakeWaits(t) == CopyAndClear(t, buffer, <<>>)
TakeBatch(t)       == NothingToFlush(t) \/ CopyAndClear(t, buffer, <<>>)

\* storage.AddPoint, which may return an error, and what is left of the batch
\* after the one and the other.
AddPoint(t, afterOk, afterErr) ==
    /\ pc[t] = "process" /\ batch[t] # <<>>
    /\ \/ /\ stored' = stored \cup {Head(batch[t])}
          /\ batch' = [batch EXCEPT ![t] = afterOk]
          /\ Goto(t, "tallyOk") /\ UNCHANGED failed
       \/ /\ failed' = failed \cup {Head(batch[t])}
          /\ batch' = [batch EXCEPT ![t] = afterErr]
          /\ Goto(t, "tallyErr") /\ UNCHANGED stored
    /\ UNCHANGED <<shared, buffer, cont, cur, verdict, stats>>

FaultyDropBatch(t) ==
    /\ pc[t] = "process" /\ batch[t] # <<>>
    /\ batch' = [batch EXCEPT ![t] = <<>>]
    /\ UNCHANGED <<shared, buffer, pc, cont, cur, outcome, verdict, stats>>

\* Faulty: an error keeps the metric for another try; a batch is dropped once
\* Stop has closed stopChan.
FaultyStoreRetries(t) == AddPoint(t, Tail(batch[t]), batch[t])
FaultyStoreStops(t)   == IF stopClosed THEN FaultyDropBatch(t)
                         ELSE AddPoint(t, Tail(batch[t]), Tail(batch[t]))
StoreMetric(t)        == AddPoint(t, Tail(batch[t]), Tail(batch[t]))

CountProcessed(t) ==
    /\ pc[t] = "tallyOk"
    /\ Bump("processed") /\ Goto(t, "process")
    /\ UNCHANGED <<shared, buffer, cont, batch, cur, outcome, verdict>>

CountAs(t, counter) ==
    /\ pc[t] = "tallyErr"
    /\ Bump(counter) /\ Goto(t, "process")
    /\ UNCHANGED <<shared, buffer, cont, batch, cur, outcome, verdict>>

\* Faulty: a metric the storage refused counts as processed.
FaultyCountError(t) == CountAs(t, "processed")
CountError(t)       == CountAs(t, "errors")

EndBatch(t) ==
    /\ pc[t] = "process" /\ batch[t] = <<>>
    /\ Bump("batches") /\ Goto(t, cont[t])
    /\ UNCHANGED <<shared, buffer, cont, batch, cur, outcome, verdict>>

(***************************************************************************)
(* Start and flushRoutine                                                  *)
(***************************************************************************)

\* isRunning is set under the lock; wg.Add and the go statement come after
\* it is released.
Start(f) ==
    /\ pc[f] = "unborn" /\ ~isRunning
    /\ isRunning' = TRUE
    /\ Goto(f, "spawning")
    /\ UNCHANGED <<stopClosed, ctxDone, panicked, buffer, cont, batch, cur, outcome,
                   verdict, stats>>

Spawn(f) ==
    /\ pc[f] = "spawning"
    /\ Goto(f, "select")
    /\ UNCHANGED <<shared, buffer, cont, batch, cur, outcome, verdict, stats>>

Selects(f, ready, l) ==
    /\ pc[f] = "select" /\ ready
    /\ Goto(f, l)
    /\ UNCHANGED <<shared, buffer, cont, batch, cur, outcome, verdict, stats>>

\* Faulty: the ticks are not answered.
FaultyTick(f) == Selects(f, FALSE, "take")
Tick(f)       == Selects(f, TRUE, "take")

\* select picks at random among the ready cases, so a tick may still win.
\* Faulty: it has no case for stopChan.
FaultyFlusherExit(f) == Selects(f, ctxDone, "gone")
FlusherExit(f)       == Selects(f, stopClosed \/ ctxDone, "gone")

\* The caller of Start cancels its context; isRunning is not told.
CancelContext ==
    /\ Cancellable /\ ~ctxDone
    /\ ctxDone' = TRUE
    /\ UNCHANGED <<isRunning, stopClosed, panicked, buffer, pc, cont, batch, cur,
                   outcome, verdict, stats>>

(***************************************************************************)
(* Stop                                                                    *)
(***************************************************************************)

\* Faulty: a second Stop goes ahead like the first.
FaultyStopBegin(s) ==
    /\ pc[s] = "running"
    /\ isRunning' = FALSE /\ Goto(s, "close")
    /\ UNCHANGED <<stopClosed, ctxDone, panicked, buffer, cont, batch, cur, outcome,
                   verdict, stats>>

StopBegin(s) ==
    /\ pc[s] = "running"
    /\ \/ isRunning /\ isRunning' = FALSE /\ Goto(s, "close")
       \/ ~isRunning /\ UNCHANGED isRunning /\ Goto(s, "stopped")
    /\ UNCHANGED <<stopClosed, ctxDone, panicked, buffer, cont, batch, cur, outcome,
                   verdict, stats>>

\* close(sp.stopChan): the channel is made once, so a second close panics.
CloseStopChan(s) ==
    /\ pc[s] = "close"
    /\ \/ stopClosed /\ panicked' = TRUE /\ UNCHANGED <<stopClosed, pc>>
       \/ ~stopClosed /\ stopClosed' = TRUE /\ Goto(s, "wait") /\ UNCHANGED panicked
    /\ UNCHANGED <<isRunning, ctxDone, buffer, cont, batch, cur, outcome, verdict, stats>>

\* sp.wg.Wait() returns when no spawned flushRoutine is left.  A Start that
\* has not reached wg.Add yet does not hold it back.
AfterFlushers(s, l) ==
    /\ pc[s] = "wait"
    /\ \A f \in Flushers : pc[f] \in {"unborn", "spawning", "gone"}
    /\ Goto(s, l)
    /\ UNCHANGED <<shared, buffer, cont, batch, cur, outcome, verdict, stats>>

\* Faulty: there is no flush of the remaining data.
FaultyWaitFlushers(s) == AfterFlushers(s, "stopped")
WaitFlushers(s)       == AfterFlushers(s, "take")

(***************************************************************************)
(* The specification                                                       *)
(***************************************************************************)

\* The process is dead, or every call has returned and nothing is left to do.
Over ==
    \/ panicked
    \/ /\ \A m \in Metrics : verdict[m] # "none"
       /\ \A f \in Flushers : pc[f] = "gone"
       /\ \A s \in Stoppers : pc[s] = "stopped"

Ingest(t) ==
    \/ \E m \in Metrics : \/ RejectInvalid(t, m) \/ RefuseStopped(t, m)
                          \/ FlushForRoom(t, m)  \/ Accept(t, m)
    \/ AcceptAfterFlush(t)
    \/ ReturnOk(t)

Flush(t) == \/ TakeBatch(t) \/ StoreMetric(t) \/ CountProcessed(t)
            \/ CountError(t) \/ EndBatch(t)

Stop(s) == StopBegin(s) \/ CloseStopChan(s) \/ WaitFlushers(s)

FlushRoutine(f) == Start(f) \/ Spawn(f) \/ Tick(f) \/ FlusherExit(f)

Next ==
    \/ /\ ~panicked
       /\ \/ \E t \in Ingesters : Ingest(t)
          \/ \E t \in Threads : Flush(t)
          \/ \E f \in Flushers : FlushRoutine(f)
          \/ \E s \in Stoppers : Stop(s)
          \/ CancelContext
    \/ Over /\ UNCHANGED vars

Spec == Init /\ [][Next]_vars

(***************************************************************************)
(* Fairness.  A goroutine that can run does run, and sync.Mutex hands the  *)
(* lock to a waiter that has waited too long, so each step inside a call   *)
(* is taken.  The ticker keeps firing while the flusher waits in select,   *)
(* and select's random choice cannot miss a closed channel forever: strong *)
(* fairness of FlusherExit.  Nobody is obliged to call anything.           *)
(***************************************************************************)
Alive(A) == ~panicked /\ A

Fairness ==
    /\ \A t \in Threads : WF_vars(Alive(Flush(t)))
    /\ \A t \in Ingesters : WF_vars(Alive(AcceptAfterFlush(t) \/ ReturnOk(t)))
    /\ \A f \in Flushers : /\ WF_vars(Alive(Spawn(f) \/ Tick(f)))
                           /\ SF_vars(Alive(FlusherExit(f)))
    /\ \A s \in Stoppers : WF_vars(Alive(CloseStopChan(s) \/ WaitFlushers(s)))

FairSpec == Spec /\ Fairness

(***************************************************************************)
(* Safety                                                                  *)
(***************************************************************************)

Held(t)  == Range(batch[t])
Queued   == Range(buffer)
InFlight == UNION {Held(t) : t \in Threads}
Settled  == stored \cup failed

Everywhere == Queued \cup InFlight \cup Settled

\* Every metric whose IngestMetric returned nil is in the buffer, in the hands
\* of a flushing goroutine, or was handed to the storage: flushBuffer's copy
\* and clear lose none, whichever goroutines flush at once.
NothingLost ==
    \A m \in Metrics : verdict[m] = "ok" => m \in Everywhere

\* No metric is in two of those places, or twice in one: concurrent calls of
\* flushBuffer never hand the storage the same metric twice.
NothingTwice ==
    /\ Queued \cap InFlight = {} /\ Queued \cap Settled = {} /\ InFlight \cap Settled = {}
    /\ stored \cap failed = {}
    /\ \A t, u \in Threads : t # u => Held(t) \cap Held(u) = {}
    /\ IsInjective(buffer) /\ \A t \in Threads : IsInjective(batch[t])

\* Has the call in the hands of ingester t appended its metric?
Appended(t) == pc[t] = "return" \/ (pc[t] \in Flushing /\ cont[t] = "return")

\* What ties the callers to the places, and makes the two invariants above
\* inductive: a metric is carried by one ingester, answered only afterwards,
\* and it is somewhere exactly when its call has appended it.
Whereabouts ==
    /\ \A t \in Ingesters : cur[t] # NoMetric =>
          /\ verdict[cur[t]] = "none" /\ cur[t] \notin Invalid
          /\ cur[t] \in Everywhere <=> Appended(t)
    /\ \A t, u \in Ingesters : cur[t] = cur[u] /\ cur[t] # NoMetric => t = u
    /\ \A m \in Everywhere : \/ verdict[m] = "ok"
                             \/ verdict[m] = "none" /\ \E t \in Ingesters : cur[t] = m
    /\ \A t \in Threads :
          batch[t] # <<>> => pc[t] \in {"process", "tallyOk", "tallyErr"}

\* Ingesters past the flush of a full buffer that have not appended yet: they
\* will append whatever the buffer holds by then.
Bypassing == {t \in Ingesters : /\ cont[t] = "relock"
                                /\ pc[t] \in {"process", "tallyOk", "tallyErr", "relock"}}

\* IngestMetric appends without a second look at the capacity after its flush
\* for room, so the buffer outgrows bufferSize, but by less than the number of
\* concurrent callers.
BufferBound == Len(buffer) <= BufferSize + Cardinality(Ingesters) - 1

\* The stronger invariant that implies BufferBound.
BufferBudget ==
    Len(buffer) + Cardinality(Bypassing) <= BufferSize + Cardinality(Ingesters) - 1

Rejected    == {m \in Metrics : verdict[m] = "invalid"}
Tallying(l) == {t \in Threads : pc[t] = l}

\* What GetStats returns at any instant adds up: what was ingested is what is
\* queued, in flight or settled, and the processed and error counters lag the
\* storage by the goroutines between AddPoint and their increment.
StatsAddUp ==
    /\ stats.ingested = Cardinality(Queued) + Cardinality(InFlight) + Cardinality(Settled)
    /\ stats.processed + Cardinality(Tallying("tallyOk")) = Cardinality(stored)
    /\ stats.errors + Cardinality(Tallying("tallyErr"))
          = Cardinality(failed) + Cardinality(Rejected)
    /\ stats.batches <= Cardinality(Settled)

\* Threads that have written their batch and not counted it.
Emptied == {t \in Threads : batch[t] = <<>> /\ pc[t] \in {"process", "tallyOk", "tallyErr"}}

\* The stronger invariant that implies the last conjunct of StatsAddUp.
BatchBudget == stats.batches + Cardinality(Emptied) <= Cardinality(Settled)

\* Stop has returned for good.
ShutDown ==
    /\ ~isRunning /\ ~panicked
    /\ \E s \in Stoppers : stopClosed /\ pc[s] = "stopped"
    /\ \A s \in Stoppers : pc[s] \in {"running", "stopped"}

\* Stop(), documented to flush the remaining data, leaves none behind once it
\* and every IngestMetric call have returned.  The code does not do this.
NothingStranded ==
    ShutDown /\ (\A t \in Ingesters : pc[t] = "idle") => buffer = <<>>

\* Only a processor started a second time panics: concurrent calls of Stop on
\* one run of it close stopChan once.
PanicNeedsRestart == panicked => \E f, g \in Flushers :
                                    f # g /\ pc[f] # "unborn" /\ pc[g] # "unborn"

\* The stronger invariant that implies PanicNeedsRestart: each Start pays for one
\* close of stopChan, by whoever sees isRunning first.
Born      == {f \in Flushers : pc[f] # "unborn"}
Closing   == {s \in Stoppers : pc[s] = "close"}
One(b)    == IF b THEN 1 ELSE 0
StopsPaid ==
    /\ One(isRunning) + Cardinality(Closing) + One(stopClosed) <= Cardinality(Born)
    /\ panicked => Cardinality(Born) > 1

(***************************************************************************)
(* The contract                                                            *)
(***************************************************************************)

\* The fate of a metric as its caller can know it.
FateOf(m) ==
    IF m \in stored THEN "stored"
    ELSE IF m \in failed THEN "failed"
    ELSE IF m \in Queued \cup InFlight THEN "pending"
    ELSE IF verdict[m] \in {"invalid", "notRunning"} THEN "refused"
    ELSE IF Submittable(m) THEN "new" ELSE "admitted"

Told == [none |-> "nothing", ok |-> "ok", invalid |-> "error", notRunning |-> "error"]

\* Every behaviour of the buffer and its threads is one the contract allows.
Contract == INSTANCE IngestContract WITH
                open <- isRunning,
                fate <- [m \in Metrics |-> FateOf(m)],
                told <- [m \in Metrics |-> Told[verdict[m]]]
ImplementsContract == Contract!ContractSpec

(***************************************************************************)
(* Liveness                                                                *)
(***************************************************************************)

\* While the processor runs and its context lives, a buffered metric is taken
\* out of the buffer, with no further call: flushRoutine sees to it.
BufferDrains ==
    \A m \in Metrics : m \in Queued /\ isRunning ~> m \notin Queued \/ ~isRunning \/ ctxDone

\* A batch taken is written to its end, even when Stop is called meanwhile:
\* each of its metrics gets its AddPoint, unless the process dies.
BatchSettles == \A m \in Metrics : m \in InFlight ~> m \in Settled \/ panicked

\* What is in the buffer when Stop closes stopChan leaves it, by the flusher or
\* by the last flush of Stop; only what a caller adds after that may stay.
StopFlushes ==
    \A s \in Stoppers, m \in Metrics :
        pc[s] = "close" /\ m \in Queued ~> m \notin Queued \/ panicked

\* IngestMetric returns, whatever the other goroutines do.
CallsReturn ==
    \A t \in Ingesters : pc[t] # "idle" ~> pc[t] = "idle" \/ panicked
=============================================================================
