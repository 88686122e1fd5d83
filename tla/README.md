# A TLA+ specification of the time-series analytics engine

This directory specifies the engine: the ingestion buffer, the in-memory tier,
the file tier and the storage engine that moves data between them; the process
from its configuration to its exit; the cluster, replication and tenant
managers; anomaly detection and forecasting. TLC checks small instances; TLAPS
proves the safety properties for every size: of each component, of the two
tiers put together in the engine, and of the processor inside the program
(section 4). Liveness stays with TLC.
All line numbers refer to this commit.

## 1. The system

| Component | Source | State | Operations |
|---|---|---|---|
| StreamProcessor | `ingestion/stream_processor.go` | `dataBuffer`, `isRunning`, `stopChan`, counters, one wait group | `IngestMetric` (and `IngestBatch`, `IngestJSON` around it), `flushBuffer`/`processBatch`, `flushRoutine`, `Start`, `Stop`, `GetStats` |
| HotStorage | `storage/timeseries.go` | map of series, each a sorted slice of points with `LastSeen`; `totalPoints` | `AddPoint`, `GetSeries`, `GetRange`, `GetLatest`, `CleanupStale` |
| WarmStorage | `storage/warm_storage.go` | one append-only file per series, an index of blocks and a file handle for each | `WriteSeriesData`, `ReadSeriesRange`, `CleanupExpired`, `Close`, loading at start |
| StorageEngine | `storage/storage_engine.go` | the two tiers, two background workers | `AddPoint`, `GetRange`, `performTiering`, `performCleanup`, `Start`, `Stop` |
| Program | `main.go` | the wiring, the HTTP server | start, signal, shutdown |
| HTTP API | `api/server.go` | one detector and one forecasting engine, shared by all requests | request handlers |
| Anomaly detection | `analytics/anomaly_detection.go` | detectors per series with their windows, recent results | `AddDetector`, `TrainDetector`, `DetectAnomaly`, `GetAnomalies` |
| Forecasting, ML | `analytics/ml/*.go` | models, cache of forecasts | train, forecast |
| Cluster | `enterprise/clustering.go` | nodes, hash ring, replication settings, two locks | `AddNode`, `RemoveNode`, heartbeats, health checks, `GetNodes`, quorum writes and reads |
| Tenants | `enterprise/multitenancy.go` | tenants, quotas, usage | `CreateTenant`, `ValidateResourceUsage`, the increments and the decrement, `UpdateResourceUsage` |
| Advanced analytics | `enterprise/advanced_analytics.go` | none shared | statistics |
| Configuration | `config/*.go` | one configuration | load, validate, reload |
| CLI | `cmd/cli/main.go` | none | HTTP requests |

How they interact: a handler calls `IngestMetric`; whoever flushes the buffer
calls `StorageEngine.AddPoint`, which writes to memory. Every 15 minutes the
tiering worker copies series that were not written for `Hot.RetentionPeriod`
to their files; at its own interval the clean-up worker drops series from
memory by the same threshold, then files past `Warm.RetentionPeriod`.
`GetRange` reads memory, then the file, and merges. At shutdown `main` stops
the processor and the engine. There is no log: what is in memory and was not
tiered is lost with the process.

At this commit the packages `analytics/ml` (`forecasting.go:302`) and
`enterprise` (`clustering.go:263`, `367`: `data` is not used) do not compile, and
`api` and `main` depend on the first. `enterprise` is modelled as if those two
assignments were not there. `ingestion`, `storage` and `analytics` build, and have the
repository's tests.

What is hard here, and what correctness means, component by component:

* **StreamProcessor** lets go of `bufferMutex` in the middle of `IngestMetric`
  and lets several goroutines flush at once. An acknowledged metric must not be
  lost or written twice, the buffer must stay bounded, the counters must
  account for every metric, and `Stop` and every call must return.
* **HotStorage** takes the lock of a series twice in one `AddPoint`, inserts out
  of order, updates in place and evicts. Points must stay in strict order,
  limits must hold in between, a point must have its last value, and the newest
  data must not be what is evicted.
* **WarmStorage** writes a block in three writes that can fail one by one,
  reads without `ws.mu`, and rebuilds its index after a restart. The index must
  designate the blocks, a read must not be disturbed by the clean-up, and no
  file may go before its time.
* **StorageEngine** runs tiering, clean-up and queries against each other with
  no lock in common. A query must not miss a point that is moved under it, a
  pass that ends well must have copied what it set out to copy, and `Stop` must
  not close files under a worker.

* **Program** stops the processor before the HTTP server, so requests keep
  arriving at a processor that is stopping. An orderly exit must leave nothing
  half written, and a signal must end the process.
* **Cluster** calls `partitioner.AddNode` with `cm.mutex` in hand, while walks
  of the ring hold its read lock; heartbeats are answered late, fail, and are
  judged by an age of exactly three rounds. A walk must end with the right
  nodes, a node that answers must not be called down, one that is silent must.
* **Replication** counts successes down a list of nodes, itself included. What
  an acknowledged write means to a later read depends on the quorums and on nodes
  that join in between. It means little: the request of a write has no body
  (`clustering.go:268`), so an acknowledged point is on no node. What is left is
  whether a read and a write reach a node in common.
* **Tenants** check a quota in one critical section and charge it in another.
* **Anomaly detection** finds a detector, judges with it, and stores the result
  in three critical sections. What a detector judges by must be its latest data.
* **Forecasting, ML** trains models that all requests share, without a lock. An
  answer must be about the series that was asked for.

`PROJECT.json` lists the hazards at their lines with the properties aimed at
them.

## 2. The modules

`IngestContract` — the abstract specification of ingestion: one fate per metric
(new, admitted, pending, stored, failed, refused) and what its caller was told.
No threads, no buffer.

`StreamProcessor` — the buffer and its threads. Ingesters call `IngestMetric`,
each member of `Flushers` is one call of `Start` with the goroutine it spawns,
each stopper calls `Stop` once. A step is what a thread does between two
acquisitions of `bufferMutex`, or one `AddPoint`, or one increment of a counter.

| Code | Actions |
|---|---|
| `IngestMetric` | `RejectInvalid`, `RefuseStopped`, `FlushForRoom`, `Accept`, `AcceptAfterFlush`, `ReturnOk` |
| `flushBuffer`, `processBatch` | `TakeBatch`, `StoreMetric`, `CountProcessed`, `CountError`, `EndBatch` |
| `Start`, `flushRoutine` | `Start`, `Spawn`, `Tick`, `FlusherExit`; `CancelContext` is the caller's |
| `Stop` | `StopBegin`, `CloseStopChan`, `WaitFlushers`, then the steps of a flush |

The storage is any that may accept or refuse each metric. Metrics are distinct
values, submitted once; validation is a subset `Invalid`.

`HotStorage` — the memory tier. `AddPoint` is `BeginAdd` (lookup, limit,
eviction, counter) and `EndAdd` (insertion or update); `adding` stands for
`hs.mu` while it is held between them. `written` is history: what was written
to a series and when.

`WarmStorage` — the file tier. A file is a sequence of parts (time, length,
data), each with its size; a failed write may leave a fragment of size 1.
`BeginWrite`, `WriteHeader` (twice), `WriteData` are one `WriteSeriesData`;
`OpenFails`, `WriteFails`, `WriteToClosed` are its error paths. `Lookup`,
`LockFile`, `ReadBlock`, `Deliver` are one `ReadSeriesRange`. A restart builds
the index from the bytes as `loadIndexEntries` does, its 24-byte stride
included. Blocks are compared whole: compression is a size that depends on the
number of points, and a slice of the file that is not exactly a block's data
does not decompress. Times on disk are truncated to milliseconds (`Millis`).
For several tiered blocks of one series the order of the index does not matter
beyond which blocks it selects, so it is a set.

`StorageEngine` — EXTENDS `HotStorage` and has an instance of `WarmStorage`
whose writer is the tiering worker and whose readers are the queries. A pass is
`TierList` (cutoff and pointers), `TierSelect` for each series, `TierMove`, then
`TierSize`, `TierCopy` and `TierWrite` for each stale series, and `TierEnd`. A
clean-up is `CleanHot` and `CleanWarm`. A query is `FindSeries`, `ReadHot`,
`ReadWarm`, `Return`. A worker or query that holds a pointer to a series keeps
the series as it was when the clean-up drops it from the map. `EndTiering` and
`EndCleanup` are `Stop`. `watch` and `tier.due` are history.

`Program` — EXTENDS `StreamProcessor` and composes its actions with `main`: one
`Start`, one `Stop`, an ingester is a request handler. `config` is what is
loaded: unreadable, invalid, with an interval of zero (which `Validate` lets
pass), or good. A request is one metric or a batch, which goes on after an error
and is answered with 201 in any case. `ListenFails`, `ZeroTicker` and `Killed` end the
process without the deferred calls; the first deferred call cancels the context
of the processor (`CancelContext`), which may still have a flusher when `Shutdown`
gave up. `late` is history: what was appended after `Stop` cleared `isRunning`.

| Code | Actions |
|---|---|
| `NewConfigManager`, `Validate` | `LoadConfig` with `Unreadable`, `Refused` |
| `main` up to `<-quit` | `StartEngine`, `StartProcessor`, `Listen`, `Signal` |
| handlers of metrics and batches | `Request`, `IngestNext`, `InsideIngest`, `Reply` |
| `main` from `<-quit` | `StopProcessor`, `BeginShutdown`, `ShutdownEnds`, `Cancel`, `CloseEngine` |

`HashRing` — the ring as operators: the sorted slice of hashes, where a hash of
two nodes is twice, and the map that gives it to the node added last. `Preferred` is what `GetNodes` is
for, stated without its loop.

`Cluster` — one node's view of the cluster. `adding` is the node whose `AddNode`
holds `cm.mutex` and waits for the ring; `AddNode` and `JoinRing` are one call.
Each iteration of the loop in `GetNodes` is a `WalkStep`, with the read lock of
the ring. Time is counted in rounds of 30 s: `Tick`, `SendHeartbeats`,
`CheckHealth` are the loop of `startHeartbeat`; `Answer`, `Heard`, `NoAnswer` are a
request's goroutine. A request ends (5 s) before the next round begins.
A node that goes down stays down: an outage that passes is a number of `NoAnswer`.
`missed` is history.

`Replication` — `WriteDataPoint` and `ReadDataPoints` request by request: each is
answered 200 or fails, and a call counts the answers (`got` is `successCount` or
`len(responses)`; `reached`, who gave them, is history). What nodes store is left
out, because no write gives them anything: `writeToRemoteNode` marshals the key
and the point, then sends a request without a body to a URL without the key, and
the node itself stores nothing. Nodes join meanwhile. A call whose
walk of the ring would never end is not begun. `Crash` is the end of the process when a lookup
in `cm.nodes` without the mutex meets the insertion of a node.

`Tenants` — callers that validate, charge and give back, and `UpdateResourceUsage`,
which replaces the usage with what somebody has measured.

`AnomalyEngine` — one series, its detectors, and callers in `DetectAnomaly` and
`TrainDetector`. Means, deviations and quartiles are computed over integers with
the denominators multiplied out, so that a verdict is exact.

`MLService` — the two analytics endpoints with the engines they share. Each of the
eight models is a record of what matters about it. Data is where it comes from:
a model's parameters are the set of requests whose points they rest on.
`Crash` is the end of the process when two goroutines are in one map.

`MCEnterprise` and `MCAnalytics` each check the modules of one Go package that
share no state, one at a time: `part` says which one moves. A step of one could
not enable, disable or change a step of another, so nothing is lost by not
interleaving them.

`MC*` modules hold what TLC needs beyond the specification: symmetry, a view,
the blocks and ranges of an instance.

`*Proofs` modules hold the theorems and their lemmas, and no part of the model.
`ClusteringProofs` is about `HashRing`, `Replication` and `Cluster`;
`AnalyticsProofs` about `AnomalyEngine` and `MLService`, and EXTENDS `MCAnalytics`,
which has them side by side; the others are named for their module. `ProgramProofs` EXTENDS `StreamProcessorProofs`, whose invariants
it needs; `StorageEngineProofs` EXTENDS `HotStorageProofs` and has an instance of
`WarmStorageProofs`, as `StorageEngine` has of `WarmStorage`.

Definitions named `Faulty...` are slips a programmer could make in the
definition that follows them. They are not part of the model; each shows that
the property it is meant for would notice.

## 3. What is checked

| Run | Shows | States |
|---|---|---|
| `stream_safety` | `NothingLost`, `NothingTwice`, `BufferBound`, `StatsAddUp`, `PanicNeedsRestart`, and the refinement of `IngestContract` | 325 thousand |
| `stream_liveness` | `BufferDrains`, `BatchSettles`, `StopFlushes`, `CallsReturn` | 14 thousand |
| `stream_stranded` | violated: a metric accepted around `Stop` stays in the buffer | |
| `hot_safety` | `PointsSorted`, `LimitsHold`, `LastWriteWins`, `NewestKept`, `RangeExact`, and the one-sided drift of `totalPoints` | 97 thousand |
| `hot_cleanup` | violated: a series just updated is removed as stale | |
| `warm_safety` | `IndexExact`, `ReadsExact`, `RetentionRespected` | 1.7 million |
| `warm_restart` | violated: the rebuilt index is wrong after the first block | |
| `engine_safety` | `NoGap`, `TierComplete`, the order of `Stop` | 1.3 million |
| `engine_answers` | violated: the copy on disk overrides a later update | |
| `program` | `OrderlyExit`, `SignalEnds` | 189 thousand |
| `enterprise_safety` | `WalkFate`, `NoFalseAlarm`, `SilentNoticed`, `JoinMovesLittle`, `QuorumsMeet`, `QuotaOverrun`, `SlotsBalance` | 103 thousand |
| `analytics_safety` | `MuteUntilTrained`, `WindowRecent`, `RangeAgrees`, `OwnAnswers` | 897 thousand |

The four violated properties are what a comment in the code promises and the
code does not do; `PROJECT.json` quotes the comments.

What the properties leave out on purpose, because the code does not promise it:

* `BufferBound` allows `bufferSize` plus the number of callers minus one: the
  code does not recheck the capacity after its flush for room.
* `NothingLost` counts a metric in the buffer of a stopped processor as kept;
  `NothingStranded` is the property that it is not left there.
* `TypeOK` of `HotStorage` bounds `totalPoints` from below only: an update in place is counted as a new
  point and never uncounted.
* `IndexExact` and `ReadsExact` speak of files without a torn write and with at
  most one reloaded block. Nothing repairs a torn file: offsets are wrong from
  then on. `ReadsExact` asks for the points of blocks that *start* in the range;
  the code skips a block that starts before it and reaches into it.
* `TierComplete` exempts series changed during the pass: the size and the points
  are read in two critical sections, and the copy may miss the oldest point.
* `RetentionRespected` is about files that hold data. A file may be registered by
  an attempt to open it that fails, and be created later by one whose first write
  fails: it is as old in memory as the first attempt, and goes early, with nothing in it.
* `JoinMovesLittle` asks that the hashes of the joining node meet those of one
  other node at most. Were it to take a hash from each of two nodes, both could fall
  back behind a third on the same key, which would be new in its list.
* A clean-up that comes before any tiering pass drops what was never copied.
* `BufferDrains` is about the first life of a processor. After `Stop` and a second
  `Start`, the flusher finds `stopChan` closed and exits, and nothing flushes
  periodically any more; `main` starts the processor once.
* `OrderlyExit` lets acknowledged metrics stay in the buffer, if they were
  appended by a caller that waited for room while `Stop` ran (`stream_stranded`
  is that case). It says nothing of an exit by `log.Fatalf`, a panic, a signal
  before `Notify`, or a shutdown that gave up waiting: those lose what they
  interrupt.
* `WalkFate` says that a walk of a ring with fewer nodes than replicas never
  ends. So a node that starts alone with a factor of two hangs on its first request: the
  walk holds the read lock, and `AddNode`, which would help, waits for it with
  `cm.mutex` in hand, and with that heartbeats and health checks stop.
  `SilentNoticed` exempts that state.
* Nothing says that a draining node stays so: its next answered heartbeat makes
  it active. Nothing ever takes a node out of the map or off the ring.
* `QuorumsMeet` is about who answered and never about what a read returns: a
  replicated write hands its point to nobody (`clustering.go:263-268`), so no read
  can be said to see it. The node that a read and a write have in common may be the
  one that runs the code. A node that is new in the list of the read costs the
  quorums one node of their overlap.
* `QuotaOverrun` is a bound on the excess, since checks and charges are two
  critical sections; `SlotsBalance` ends where `UpdateResourceUsage` replaced the
  count under running queries.
* `MuteUntilTrained` says of the default detector that it never reports anything:
  it does not learn before it has learned. `RangeAgrees` excepts the z-score, whose
  range is computed after the point was taken in.
* `OwnAnswers` exempts answers from the cache, which is keyed by the horizon alone,
  answers during which another request was in the same models, and detections
  with less than four points, for which the quartiles of an earlier request stay.
  Under "weighted", which is what the server configures, every forecast panics in
  an assignment to a nil map; under "best" it is always the line of ARIMA.

### Bounds

* `stream_safety`: two callers are what it takes for one to append during the
  other's flush; two starts and two stops give restarts and concurrent stops;
  `BufferSize` 1 and `BatchSize` 2 make both the flush for room and the flush of
  a full batch happen; three valid metrics exceed the buffer.
* `stream_liveness`: two callers, one start, one stop. A second start is left
  out because it breaks `BufferDrains`: see above.
* `hot_safety`: three series names for a limit of two, three timestamps for a
  limit of two points, two values. `MaxDrift` cuts runs in which `totalPoints`
  runs away, a constraint of the instance: the code has no such limit, and past
  it only the counter grows.
* `warm_safety`: two series, because clean-up and restart treat files one by
  one and can stop between them; two blocks, one starting within a millisecond
  and overlapping the other; one fault, one restart, one tick of the clock.
* `engine_safety`: one series with two timestamps, a query over the whole range,
  two ticks, one fault, and a tiering pass only while no block is on disk
  (`MaxBlocks` 1; the clean-up may make room for another pass). The workers
  and the query treat each series separately, except that a failed write ends
  the pass. The view `Behaviour` replaces points of time by capped ages and
  drops what decides nothing; `MCStorageEngine` says why that loses nothing.
  `engine_answers` allows two blocks and two values.

* `program`: two handlers with batches of up to two of three metrics, one of them
  invalid; `BufferSize` 1 makes a handler flush for room while `Stop` runs, and
  append after it.
* `enterprise_safety`: `Cluster` has three nodes, two of which collide on a hash, two
  replicas and one walk: with the node alone every walk is trapped, with two
  it is not, and the third makes the preference list a choice. `MissLimit` 2 stands for
  the three rounds of the code: one is too old at once, two leave a round between.
  `age` and `missed` count up to their limits, past which they decide nothing.
  `Replication` has four nodes, all quorums of one and two, one writer and one
  reader: with two and two, the quorums meet also when the list has changed by one. `Tenants` has one tenant (tenants share nothing but the map), three
  callers, so that two others can exceed the quota, and amounts of one and two.
* `analytics_safety`: values 0 and 9, a window of four and trainings of two and
  five values, so that each method is on both sides of its minimum and the window
  slides; two callers; two detectors, so that one is replaced; three learned values
  per detector. `MLService`: two requests with 3, 10 or 24 points, on both sides of
  every minimum but the 14 of ARIMA, which 10 and 24 bracket.

Deadlock is checked where the system may not stop: in `StreamProcessor`, `WarmStorage`,
`StorageEngine`, `HotStorage` and `Program`, which have a stuttering step for the
states in which nothing is left to do. It is off in `enterprise_safety` and
`analytics_safety`, where all calls may have returned or the process may be dead.

### Fairness

`FairSpec` of `StreamProcessor`: a goroutine inside a call takes its next step
(weak fairness; Go schedules runnable goroutines, and `sync.Mutex` hands the
lock to a waiter that has waited too long). The ticker fires again and again
while the flusher waits. A `select` with two ready cases picks at random, so
leaving through a closed channel is strongly fair. No fairness is assumed of
callers of `IngestMetric`, `Start`, `Stop` or of the cancellation, nor of the
storage accepting anything. A dead process owes nothing.

`ProgramFairSpec`: `main` and the flusher take their steps; `Shutdown` gives up
in the end, which is its 10 s; leaving through a closed channel is strongly
fair as above. Handlers need none: that is what makes `SignalEnds` hard.

`Cluster`: the loop of `startHeartbeat`, each request, the `AddNode` that waits, and
each walk take their steps, for each is a goroutine of its own. Nobody has to
add a node, to answer (a request may fail instead), or to go down.

## 4. What is proved

Each theorem holds for every value of the constants its module's assumptions
allow. They ask for finite sets where the code has a finite map or a
finite number of goroutines to sum over (metrics, ingesters, series, nodes, requests),
for positive sizes and limits, and for pairwise disjoint kinds of threads.
`WarmAssumption` asks that a block has a point and is in strict order, which is what
the engine passes (`WarmAssumed` in `StorageEngineProofs`); `ProgramAssumption`
that there is one `main` and one flusher. `ClusterAssumption` is a definition, for `Cluster`
is only instantiated: the theorems about it have it as a hypothesis, and
`MCEnterprise` assumes it of its instance. The numbers that bound a run
(`MaxClock`, `MaxFaults` and the like) may be any; the theorems hold for each.

**Ingestion** (`StreamProcessorProofs`)

* `TypeCorrect` — `TypeOK`, which also ties `cur` to `pc` of each ingester.
* `NothingEverLost`, `NothingEverTwice` — not inductive alone: nothing says that the
  metric an ingester carries is not already in the buffer when it appends it.
  `Whereabouts` adds that: a metric is carried by one ingester, has no verdict
  meanwhile, and is somewhere exactly when its call has appended it. `PlacesInv` is the
  three together. The proof follows one metric set through append, take and store
  (`EnqueueEffect`, `TakeEffect`, `StoreEffect`).
* `BufferBounded` — from `BufferBudget`: the buffer and the callers that will
  append without looking together stay within the bound. A caller that finds room is not
  one of them, and a flush that produces one empties the buffer.
* `StatsAlwaysAddUp` — each counter is a number of metrics less the threads between
  a step and its increment (`Counts`). For the number of batches the model has
  no set to count, so `BatchBudget` bounds it: every batch counted, and every emptied one
  not yet counted, settled a metric.
* `PanicsNeedRestart` — from `StopsPaid`: a running processor, a `Stop` about to close
  the channel, and the closed channel have each used up one start.
* `StreamImplementsContract` — the refinement of `IngestContract`, step by step
  under these invariants.

**Memory tier** (`HotStorageProofs`)

* `SeriesWellTyped`, `AlwaysSorted`, `LimitsAlwaysHold`, `LatestData` are readings of
  one invariant, `HotInv`. It adds `RoomToInsert`: between the steps of `AddPoint`
  the series has room. The proof carries it series by series (`Sound`), from the
  lemmas that the binary search splits a sorted sequence (`NotAfterSplits`) and that
  inserting or updating there keeps the order (`InsertedKeepsOrder`). That the
  counter does not run below the points needs `CountedAhead`, since `AddPoint`
  counts first and inserts later.
* `NewestNeverEvicted` — the eviction takes the head of a sequence in order with
  two elements or more, and the history says which write is the newest.
* `RangesExact` — the two binary searches of `GetRange` cut out the points within the bounds.

**File tier** (`WarmStorageProofs`)

* `WarmWellTyped` — `TypeOK` with the shape of every file part, entry and call (`TypeInv`).
* `IndexAlwaysExact`, `RetentionAlwaysRespected` — from `IndexInv`. Parts lie in a
  file without gap or overlap (`Laid`). The header that a write has written is the end of
  its file (`HeaderLast`), without which the data could be indexed behind something else.
  Each intact file in memory is `Known`: it is as old there as on disk, and if it has one
  reloaded block at most, it has one entry per block and `FileSize` is where the last ends.
* `ReadsAlwaysExact` — `ReadInv` says of each call which blocks it still awaits, and that
  the others' points are in its result; a removed or damaged file releases it.
* `TornFilesStillRead` — no run checks this one; it came out of the proof of `NoGap`.
  Until a restart, a read that ends without an error has what it wanted even in a
  file with torn writes: `FirstLife` has an entry for each whole block of any file.

**Storage engine** (`StorageEngineProofs`)

* `EngineKeepsHot`, `EngineKeepsWarm` — the engine implements `HotStorage`, and
  `WarmStorage` with the tiering worker as writer and the callers of `GetRange` as
  readers: every step of the engine is one of theirs or a stutter. So every theorem above
  holds inside the engine, and the next three use them.
* `EngineWellTyped` — `EngineTypeOK`: a write is under way only in a pass, a reader
  works only for a call, and `Stop` closes no file under a worker.
* `TierAlwaysComplete` — from `TierHolds`, which follows each series found stale
  through the pass: unchanged until the pass comes to it, then its points are in the size
  that was read, in the copy, in the block being written, in the file. An
  `AddPoint` in between takes the series out of `tier.due`.
* `NeverAGap` — from `GapInv`: what a call must find is in memory or in the file before
  it has read memory; then in what it has read, or in the file; then in what it has read,
  or in what its reader wants. A clean-up in between removes from memory only
  what the pointer of the call keeps, and a removed file releases it. A failed write
  may tear the file in between, which is why `FirstLife` is needed.

**Program** (`ProgramProofs`)

* `ProgramRunsProcessor` — the program implements `StreamProcessor`: each of its steps
  is a step of that module, or leaves the processor alone. `main` calls `Start` and
  `Stop` and cancels the context, the handlers call `IngestMetric`. So the theorems on
  ingestion hold in the program (`ProgramKeepsPromises`).
* `ProgramNeverPanicsInStop` — `main` starts the processor once, so the second `close`
  of `PanicNeedsRestart` cannot happen.
* `OrderlyExitLeavesOnlyLate` — `ProgramInv` adds to the invariants of the
  processor where `main` and its helpers may be relative to each other (`Control`), that only a
  handler with a request is inside the processor, and none after `Shutdown`
  returned in time (`Draining`), and that what is queued after the last flush of
  `Stop` was appended late (`LastFlush`).

**Cluster and tenants** (`ClusteringProofs`, `TenantsProofs`)

* `ReplicationWellTyped` — from `RInv`: lists are nodes of the ring (`PreferredList`), and
  calls come to one after the other.
* `QuorumsAlwaysMeet` — the calls count answers and the property is about nodes. `HeardOK` joins
  them: the list of a call names no node twice (`PreferredDistinct`, from what a lap of a sorted
  ring meets first), so that each answer is of another node. Two sets of nodes that are
  larger than the list of the write and the nodes new in that of the read share one
  (`OverlapInList`).
* `JoiningMovesLittle` — the property compares two laps of a ring. `RingSound` says
  that a ring's slice is sorted and holds the keys of its map, which rests on the sort
  of the ring being one (`InOrderSorts`). Of such a ring the replicas of a key can be
  said without a lap: the owners with fewer than `ReplicaFactor` owners closer to the key
  (`InPreferred`). When a node joins, the one it robs of a hash may no longer be closer than
  another node, but then the new node is. So none but the new one has fewer owners closer
  than before (`CloserGrows`), and no other can be new among the replicas. With two
  robbed, one newcomer would stand for both: the restriction of the property enters here.
* `GetNodesIsExact` — a walk that has what it wants has exactly `Preferred`, the
  declarative list. `WalkInv` follows the index round the ring: after some number of
  stops of a lap, what was found are the nodes met first on them; after a whole lap
  it is all there are, and further laps find nothing new (`Walked`).
* `TrappedForEver` — the safety half of `WalkFate`: a walk that wants more nodes than
  the ring has goes on, and nobody can join.
* `ClusterWellTyped`, `NoNodeFalselyAlarmed` — `AgesExplained` ties the age of a node to
  the heartbeats it missed: it exceeds them by one at most, and only from a tick of the
  clock until the round's request is over.
* `UsageWellTyped`, `SlotsAlwaysBalance`, `QuotaOverrunBounded` — inductive with the type
  of each caller (`TInv`): the excess is paid for by callers that passed their check
  before others charged.

**Analytics** (`AnalyticsProofs`)

* `EngineWellTyped`, `WindowAlwaysRecent`, `UntrainedStaysMute` — from `EngineInv`:
  of each detector ever made, the window is the end of what it learned, and one that
  learned or reported was trained with enough (`SoundDetectors`). A replaced detector
  keeps both, for calls that still hold it.
* `RangeAlwaysAgrees` — a result is what some window says of some value (`Result`), so
  for IQR and moving average the range and the verdict are one judgement. A z-score's range is
  judged by a window that ends with the value itself. With n values in it, the
  square of the distance from the mean is at most (n-1) times the sum of the squares of
  all distances less its own (`LastIsNear`). That is the Cauchy-Schwarz inequality for the other
  n-1 values (`SquareOfSum`), and bounds what any value can reach: (n-1)/sqrt(n) deviations.
* `ServiceWellTyped`, `AnswersAlwaysOwn` — from `ServiceInv`: a model's
  parameters rest on those who were in it together, and a request alone in it
  leaves its own.
* `AnalyticsWellTyped` — in `MCAnalytics`, where the two run side by side, each
  behaves as it does alone (`EachAsAlone`), so what is proved of either holds there.

### Induction

The provers cannot instantiate the induction theorems of the library, which take a
predicate as a parameter. Where a fact holds of every number of a range, the proofs say
instead that the set of numbers for which it fails has no least element: a theorem
about a set (`LeastNumber`, `LeastPlace`), which follows from the well-foundedness of <
on the naturals. That the sort of the ring sorts (`RankExists`), what a lap meets first
(`KthExists`, `LapFirst`), the existence of the recursive function in `Sum`
(`SumIsPartialSum`) and `SquareOfSum` are proved that way.

### Only model-checked

* Liveness: `BufferDrains`, `BatchSettles`, `StopFlushes`, `CallsReturn`, `SignalEnds`,
  `WalkFate` but for its first conjunct, `SilentNoticed`. The prover treats neither
  fairness nor ENABLED.
* `EnterpriseTypeOK` joins the type invariants of modules that share no state; the parts
  are proved (`ClusterWellTyped`, `ReplicationWellTyped`, `UsageWellTyped`). So are `NoFalseAlarm`
  and the first half of `WalkFate`, which `MCEnterprise` takes over from its instance of
  `Cluster`.
* That the quartiles lie where `Quartile4` says among the sorted values: no property
  needs it. `RangeAgrees` holds for any two bounds.
* The four violated properties, of course.

### What the proofs have found

Two properties were false as first stated, outside the instances that TLC had checked:
`JoinMovesLittle` when two nodes lose a hash, and `RetentionRespected` for a file without
data. Both are restated, with the reason, in section 3. Both concern corners of the
code that no comment promises anything about.

## 5. Plan

In this order:

1. done — `StreamProcessor` with `IngestContract`, `HotStorage`, `WarmStorage`,
   `StorageEngine`, and their first proofs.
2. done — `HashRing`, `Cluster`, `Replication`, `Tenants`; `AnomalyEngine`,
   `MLService`; `Program`.
3. done — the safety properties of every component; the engine as an
   implementation of both tiers; `TierComplete` and `NoGap`.
4. done — `JoinMovesLittle`, and the walk of `GetNodes` against `Preferred`; the
   program as an implementation of `StreamProcessor`; `RangeAgrees`.
5. open — `StreamProcessor` over `HotStorage`, for the order in which concurrent batches of one
   series are written.

## 6. What is not modelled

* Labels, names and values beyond their identity; JSON and gzip beyond sizes and
  failure; the whitelists of the validator.
* The numbers of the forecasting and machine-learning models, and all of
  `advanced_analytics.go`: floating-point statistics without shared state, out of
  reach of model checking.
* `Compact` of the file tier and, in the cluster, failure handling, migration,
  repair and resource metrics: placeholders that change nothing.
* The configuration without a file tier; `Reload` of the configuration, which
  nothing calls.
* Series and query-rate quotas, which nothing counts, and the periodic check of
  tenants, which prints.
* The CLI and the handlers that only read and format.
