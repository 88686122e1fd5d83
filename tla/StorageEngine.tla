---------------------------- MODULE StorageEngine ----------------------------
(***************************************************************************)
(* The two tiers put together, src/storage/storage_engine.go: callers of   *)
(* AddPoint and GetRange, the tiering worker, which copies stale series to *)
(* the file tier, the clean-up worker, which then drops them from memory,  *)
(* and Stop.                                                               *)
(*                                                                         *)
(* The memory tier is HotStorage, the file tier an instance of WarmStorage *)
(* whose writer is the tiering worker and whose readers are the callers of *)
(* GetRange.  Only performTiering takes se.mu, so nothing but the locks of *)
(* the tiers orders the workers and the callers.                           *)
(*                                                                         *)
(* The tiering worker and GetRange hold a pointer to a series, which stays *)
(* what it was when CleanupStale removes the series from the map.          *)
(***************************************************************************)
EXTENDS HotStorage

CONSTANTS
    Queries,        \* goroutines calling GetRange
    Ranges,         \* the ranges they ask for: pairs <<start, end>>
    WarmRetention,  \* config.Warm.RetentionPeriod; MaxAge is config.Hot.RetentionPeriod
    MaxBlocks,      \* bound: blocks in the files when a tiering pass begins
    MaxFaults       \* bound: file operations that fail

ASSUME EngineAssumption ==
    Ranges \subseteq Nat \X Nat /\ WarmRetention \in Nat /\ MaxBlocks \in Nat /\ MaxFaults \in Nat

VARIABLES
    disk, files, writing, readers, faults, restarts,    \* of the file tier
    tier,           \* the pass of the tiering worker, or of TriggerTiering
    cleaner,        \* has a clean-up done the memory tier but not the file tier?
    query,          \* the calls of GetRange
    phase,          \* how far Stop has got
    watch           \* history: what each call of GetRange must and may answer

W == INSTANCE WarmStorage WITH
        Readers <- Queries, PerMilli <- 1, Retention <- WarmRetention, MaxRestarts <- 0,
        Blocks <- {s \in BoundedSeq(Points, MaxPoints) : s # <<>> /\ Chronological(s)}

warm   == <<disk, files, writing, readers, faults, restarts>>
engine == <<tier, cleaner, query, phase>>
all    == <<vars, warm, engine, watch>>

(***************************************************************************)
(* Pointers to series                                                      *)
(***************************************************************************)
Live == [live |-> TRUE]
At(id, ptr) == IF ptr.live THEN series[id] ELSE ptr.was
Kept(id, ptr, gone) == IF ptr.live /\ id \in gone THEN [live |-> FALSE, was |-> series[id]] ELSE ptr

\* History of the pass: tier.due is what the series found stale held then.  A
\* series is forgotten when it changes, or its file is removed.
Forget(S) == IF "due" \in DOMAIN tier
             THEN [tier EXCEPT !.due = [id \in DOMAIN tier.due \ S |-> tier.due[id]]] ELSE tier

(***************************************************************************)
(* AddPoint writes to the memory tier only.                                *)
(***************************************************************************)
AddPoint ==
    /\ \E id \in SeriesIds, p \in Points : BeginAdd(id, p) \/ EndAdd(id, p)
    /\ tier' = Forget({id \in SeriesIds : /\ \E a \in adding \cup adding' : a[1] = id
                                         /\ id \in DOMAIN tier.ptr /\ tier.ptr[id].live})
    /\ UNCHANGED <<warm, cleaner, query, phase>>

(***************************************************************************)
(* performTiering                                                          *)
(***************************************************************************)
NoPass == [pc |-> "idle"]

\* The cutoff is taken, and a pointer to every series.  The last guard but one
\* is the bound on the files.
TierList ==
    /\ tier.pc = "idle" /\ phase = "running" /\ adding = {}
    /\ Cardinality(UNION {{id} \X DOMAIN disk[id].parts : id \in DOMAIN disk}) + 3 * Cardinality(Ids) <= 3 * MaxBlocks
    /\ tier' = [pc |-> "listed", cutoff |-> now - MaxAge, unseen |-> Ids, todo |-> {},
                ptr |-> [id \in Ids |-> Live], due |-> <<>>]
    /\ UNCHANGED <<vars, warm, cleaner, query, phase>>

\* LastSeen is read without a lock, and the size under the lock of the series.
TierSelect(id) ==
    /\ tier.pc = "listed" /\ id \in tier.unseen
    /\ LET s == At(id, tier.ptr[id])
           stale == s.lastSeen < tier.cutoff /\ s.points # <<>>
       IN  tier' = [tier EXCEPT
               !.unseen = tier.unseen \ {id},
               !.todo = IF stale THEN tier.todo \cup {id} ELSE tier.todo,
               !.due  = IF stale THEN With(tier.due, id, ToSet(s.points)) ELSE tier.due]
    /\ UNCHANGED <<vars, warm, cleaner, query, phase>>

\* Every series has been looked at: on to those selected.
TierMove ==
    /\ tier.pc = "listed" /\ tier.unseen = {}
    /\ tier' = [pc |-> "next", todo |-> tier.todo,
                ptr |-> [id \in tier.todo |-> tier.ptr[id]], due |-> tier.due]
    /\ UNCHANGED <<vars, warm, cleaner, query, phase>>

\* On to the next series, without the one that is done.
Proceed(id) == tier' = [pc |-> "next", todo |-> tier.todo \ {id}, ptr |-> tier.ptr, due |-> tier.due]

\* series.Size() and series.GetLatest() lock the series one after the other.
TierSize(id) ==
    /\ tier.pc = "next" /\ id \in tier.todo
    /\ tier' = [pc |-> "sized", todo |-> tier.todo, ptr |-> tier.ptr, due |-> tier.due,
                id |-> id, size |-> Len(At(id, tier.ptr[id]).points), block |-> <<>>]
    /\ UNCHANGED <<vars, warm, cleaner, query, phase>>

TierCopy ==
    /\ tier.pc = "sized"
    /\ LET block == GetLatest(At(tier.id, tier.ptr[tier.id]).points, tier.size)
       IN  IF block = <<>> THEN Proceed(tier.id)
           ELSE tier' = [tier EXCEPT !.pc = "copied", !.size = 0, !.block = block]
    /\ UNCHANGED <<vars, warm, cleaner, query, phase>>

\* WriteSeriesData, which ends the pass when it fails.
TierWrite ==
    /\ \/ tier.pc = "copied" /\ W!BeginWrite(tier.id, tier.block)
          /\ tier' = [tier EXCEPT !.pc = "writing", !.block = <<>>]
       \/ tier.pc = "copied" /\ W!OpenFails(tier.id)
          /\ tier' = [pc |-> "failed"]
       \/ \E w \in writing :
            \/ W!WriteHeader(w) /\ UNCHANGED tier
            \/ W!WriteData(w) /\ Proceed(tier.id)
            \/ (W!WriteFails(w) \/ W!WriteToClosed(w)) /\ tier' = [pc |-> "failed"]
    /\ UNCHANGED <<vars, cleaner, query, phase>>

TierDone == tier.pc = "next" /\ tier.todo = {}

TierEnd ==
    /\ TierDone \/ tier.pc = "failed"
    /\ tier' = NoPass
    /\ UNCHANGED <<vars, warm, cleaner, query, phase>>

(***************************************************************************)
(* performCleanup, which does not take se.mu                               *)
(***************************************************************************)
CleanHot ==
    /\ ~cleaner /\ phase # "stopped" /\ adding = {}
    /\ CleanupStale \/ (Stale = {} /\ UNCHANGED vars)
    /\ tier' = IF "ptr" \in DOMAIN tier
               THEN [tier EXCEPT !.ptr = [id \in DOMAIN tier.ptr |-> Kept(id, tier.ptr[id], Stale)]]
               ELSE tier
    /\ query' = [q \in Queries |->
           IF "ptr" \in DOMAIN query[q]
           THEN [query[q] EXCEPT !.ptr = Kept(query[q].id, query[q].ptr, Stale)] ELSE query[q]]
    /\ cleaner' = TRUE
    /\ UNCHANGED <<warm, phase>>

CleanWarm ==
    /\ cleaner
    /\ W!CleanupExpired \/ (writing = {} /\ W!Expired = {} /\ UNCHANGED <<warm, now>>)
    /\ tier' = Forget(DOMAIN disk \ DOMAIN disk')
    /\ cleaner' = FALSE
    /\ UNCHANGED <<vars, query, phase>>

(***************************************************************************)
(* GetRange                                                                *)
(***************************************************************************)
NoQuery == [pc |-> "idle"]

\* hot.GetSeries, under hs.mu.
FindSeries(q, id, range) ==
    /\ query[q].pc = "idle" /\ adding = {}
    /\ query' = [query EXCEPT ![q] =
           IF id \in Ids
           THEN [pc |-> "found", id |-> id, start |-> range[1], end |-> range[2], ptr |-> Live]
           ELSE [pc |-> "warm", id |-> id, start |-> range[1], end |-> range[2], hot |-> {}]]
    /\ UNCHANGED <<vars, warm, tier, cleaner, phase>>

\* series.GetRange, under the lock of the series.
ReadHot(q) ==
    LET Q == query[q] IN
    /\ Q.pc = "found"
    /\ query' = [query EXCEPT ![q] =
           [pc |-> "warm", id |-> Q.id, start |-> Q.start, end |-> Q.end,
            hot |-> ToSet(GetRange(At(Q.id, Q.ptr).points, Q.start, Q.end))]]
    /\ UNCHANGED <<vars, warm, tier, cleaner, phase>>

\* The definitions named Faulty... are not part of the model.  Each is the one
\* after it with a slip a programmer could make; a property that holds of the
\* model is expected to fail with the slip put in.

\* Faulty: the file tier is used only when memory has nothing.
FaultyMerged(hot, cold) ==
    {[t \in {p.ts : p \in S} |-> (CHOOSE p \in S : p.ts = t).val] :
        S \in {IF hot = {} THEN cold ELSE hot}}

\* mergeSortedPoints: of the points with one timestamp the last is kept.  Those
\* of the file tier come after those of the memory tier, in no order of their own.
Merged(hot, cold) ==
    LET times == {p.ts : p \in hot \cup cold}
        ValuesAt(t) == IF \E p \in cold : p.ts = t THEN {p.val : p \in {c \in cold : c.ts = t}}
                   ELSE {p.val : p \in {h \in hot : h.ts = t}}
    IN  {f \in [times -> Values] : \A t \in times : f[t] \in ValuesAt(t)}

Answer(q, answers) ==
    LET Q == query[q] IN
    \E f \in answers : query' = [query EXCEPT ![q] =
        [pc |-> "answered", id |-> Q.id, start |-> Q.start, end |-> Q.end, points |-> f]]

\* warm.ReadSeriesRange: no file, or the reader of the file tier.
ReadWarm(q) ==
    LET Q == query[q] IN
    /\ Q.pc = "warm"
    /\ \/ /\ readers[q].pc = "idle" /\ writing = {} /\ Q.id \notin DOMAIN files
          /\ Answer(q, Merged(Q.hot, {}))
          /\ UNCHANGED warm
       \/ W!Lookup(q, Q.id, Q.start, Q.end) /\ UNCHANGED <<faults, restarts, query>>
       \/ (W!LockFile(q) \/ W!ReadBlock(q)) /\ UNCHANGED <<faults, restarts, query>>
       \/ /\ W!Answered(q) /\ W!Deliver(q)
          /\ Answer(q, Merged(Q.hot, readers[q].got))
          /\ UNCHANGED <<faults, restarts>>
       \/ /\ readers[q].pc = "failed" /\ W!Deliver(q)
          /\ query' = [query EXCEPT ![q] = [Q EXCEPT !.pc = "error"]]
          /\ UNCHANGED <<faults, restarts>>
    /\ UNCHANGED <<vars, tier, cleaner, phase>>

Return(q) ==
    /\ query[q].pc \in {"answered", "error"}
    /\ query' = [query EXCEPT ![q] = NoQuery]
    /\ UNCHANGED <<vars, warm, tier, cleaner, phase>>

(***************************************************************************)
(* Stop: each worker ends between two passes, then the files are closed.   *)
(* Closing a worker's stopChan does not keep it from another pass as long  *)
(* as its select may take the tick, so only the end of the worker counts.  *)
(***************************************************************************)
EndWorker(from, to) == phase = from /\ phase' = to /\ UNCHANGED <<vars, tier, cleaner, query>>

\* Faulty: Stop does not wait for the pass.
FaultyEndTiering == EndWorker("running", "tieringEnded") /\ UNCHANGED warm
EndTiering == tier.pc = "idle" /\ EndWorker("running", "tieringEnded") /\ UNCHANGED warm
EndCleanup ==
    /\ ~cleaner /\ EndWorker("tieringEnded", "stopped")
    /\ W!Close \/ ((\A id \in DOMAIN files : files[id].handle # "open") /\ UNCHANGED warm)

EngineTick == Tick /\ UNCHANGED <<warm, engine>>

(***************************************************************************)
(* What is visible: the timestamps in the memory tier, and those in the    *)
(* blocks of the file tier that a read from start takes into account.  A   *)
(* call must answer what is visible from its first step to its last.       *)
(***************************************************************************)
HotTimes(Q) ==
    IF Q.id \in Ids
    THEN {t \in Q.start .. Q.end : \E p \in ToSet(series[Q.id].points) : p.ts = t} ELSE {}
WarmTimes(Q) ==
    IF Q.id \notin DOMAIN files \cap DOMAIN disk THEN {}
    ELSE {p.ts : p \in W!InRange(UNION {ToSet(b) : b \in
            {c \in W!BlocksOf(disk[Q.id].parts) : Q.start <= c[1].ts}}, Q.start, Q.end)}
Visible(q) == HotTimes(query[q]) \cup WarmTimes(query[q])

Unwatched == [must |-> {}, touched |-> FALSE]

Watch ==
    watch' = [q \in Queries |->
        LET Q == query[q] w == watch[q] IN
        IF query'[q].pc = "idle" THEN Unwatched
        ELSE IF Q.pc = "idle" THEN [must |-> Visible(q)', touched |-> FALSE]
        ELSE [must |-> IF Q.pc \in {"answered", "error"} THEN w.must
                       ELSE (w.must \cap Visible(q)')
                              \ (IF Q.id \in DOMAIN disk \ DOMAIN disk' THEN WarmTimes(Q) ELSE {}),
              touched |-> w.touched \/ \E a \in adding' : a[1] = Q.id]]

EngineInit ==
    /\ Init /\ W!Init
    /\ tier = NoPass /\ cleaner = FALSE /\ phase = "running"
    /\ query = [q \in Queries |-> NoQuery]
    /\ watch = [q \in Queries |-> Unwatched]

Tiering == \/ TierList \/ TierMove \/ TierCopy \/ TierWrite \/ TierEnd
           \/ \E id \in SeriesIds : TierSelect(id) \/ TierSize(id)
Query(q) == \/ \E id \in SeriesIds, range \in Ranges : FindSeries(q, id, range)
            \/ ReadHot(q) \/ ReadWarm(q) \/ Return(q)

EngineNext ==
    /\ \/ AddPoint \/ Tiering \/ CleanHot \/ CleanWarm
       \/ \E q \in Queries : Query(q)
       \/ EndTiering \/ EndCleanup
       \/ EngineTick
    /\ Watch

EngineSpec == EngineInit /\ [][EngineNext]_all

(***************************************************************************)
(* Properties                                                              *)
(***************************************************************************)
EngineTypeOK ==
    /\ SeriesTyped /\ W!TypeOK
    /\ tier.pc \in {"idle", "listed", "next", "sized", "copied", "writing", "failed"}
    /\ tier.pc = "writing" <=> writing # {}
    /\ \A q \in Queries : query[q].pc \in {"idle", "found", "warm", "answered", "error"}
                          /\ (readers[q].pc # "idle" => query[q].pc = "warm")
    /\ cleaner \in BOOLEAN
    /\ phase \in {"running", "tieringEnded", "stopped"}
    /\ phase # "running" => tier.pc = "idle"
    /\ phase = "stopped" => ~cleaner /\ \A id \in DOMAIN files : files[id].handle # "open"

\* A point that is visible from the start of a GetRange to its end is in the
\* answer, wherever the tiering pass and the clean-up move it meanwhile: the
\* memory tier is read before the file tier, and left after it was copied.
NoGap ==
    \A q \in Queries : query[q].pc = "answered" => watch[q].must \subseteq DOMAIN query[q].points

\* A pass of performTiering that ends without an error leaves on disk, in a file
\* without torn writes, every point of the series it found stale, even of one
\* that the clean-up dropped in the middle of the pass: unless AddPoint changed
\* the series meanwhile, or the clean-up removed the file.
OnDisk(id) == IF id \in DOMAIN disk THEN UNION {ToSet(b) : b \in W!BlocksOf(disk[id].parts)} ELSE {}
TierComplete ==
    TierDone => \A id \in DOMAIN tier.due :
        \/ tier.due[id] \subseteq OnDisk(id)
        \/ id \in DOMAIN disk /\ ~W!Intact(disk[id].parts)

\* "Keep the latest value for duplicate timestamps": a GetRange during which no
\* point was added answers, for each timestamp, the value written last.  The
\* code does not do this.
AnswersLatest ==
    \A q \in Queries :
        (query[q].pc = "answered" /\ ~watch[q].touched /\ query[q].id \in Ids) =>
            \A t \in DOMAIN query[q].points \cap DOMAIN written[query[q].id].val :
                query[q].points[t] = written[query[q].id].val[t]
=============================================================================
