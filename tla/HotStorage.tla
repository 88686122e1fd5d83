----------------------------- MODULE HotStorage -----------------------------
(***************************************************************************)
(* The in-memory tier of src/storage/timeseries.go: series with a bounded  *)
(* number of points, kept in timestamp order, and the clean-up of series   *)
(* that are no longer written.                                             *)
(*                                                                         *)
(* AddPoint holds hs.mu throughout but takes the lock of the series twice, *)
(* for the eviction and for the insertion, and a goroutine that got the    *)
(* series from GetSeries reads it under that lock alone.  So AddPoint is   *)
(* two steps, and what holds between them is what such a reader sees.      *)
(***************************************************************************)
EXTENDS Integers, Sequences, FiniteSets, SequencesExt

CONSTANTS
    SeriesIds, Values,
    MaxTime,        \* the points' timestamps are 1 .. MaxTime
    MaxSeries,      \* hs.maxSeries
    MaxPoints,      \* hs.maxPointsPerSeries
    MaxAge,         \* the argument of CleanupStale
    MaxClock        \* bound: the wall clock stops here

Times  == 1 .. MaxTime
Points == [ts : Times, val : Values]

ASSUME HotAssumption ==
    /\ IsFiniteSet(SeriesIds)
    /\ MaxTime \in Nat /\ MaxSeries \in Nat \ {0} /\ MaxPoints \in Nat \ {0}
    /\ MaxAge \in Nat /\ MaxClock \in Nat

VARIABLES
    series,         \* hs.series: id -> points and LastSeen, labels left out
    totalPoints,    \* hs.totalPoints
    adding,         \* the AddPoint that holds hs.mu, if any: {} or {<<id, p>>}
    now,            \* the wall clock
    written         \* history: what AddPoint wrote to each series of the map,
                    \* its last value per timestamp, and when

vars == <<series, totalPoints, adding, now, written>>

(***************************************************************************)
(* A series is a sequence of points.                                       *)
(***************************************************************************)
Chronological(s) == \A i, j \in DOMAIN s : i < j => s[i].ts < s[j].ts

\* The definitions named Faulty... are not part of the model.  Each is the one
\* after it with a slip a programmer could make; a property that holds of the
\* model is expected to fail with the slip put in.

\* Faulty: the search stops at the first point not before t.
FaultyNotAfter(s, t) ==
    CHOOSE n \in 0 .. Len(s) : /\ \A i \in 1 .. n : s[i].ts < t
                               /\ n < Len(s) => s[n + 1].ts >= t

\* sort.Search for the first point after t: how many points are not after it.
NotAfter(s, t) ==
    CHOOSE n \in 0 .. Len(s) : /\ \A i \in 1 .. n : s[i].ts <= t
                               /\ n < Len(s) => s[n + 1].ts > t

\* Faulty: the lower bound of a range is excluded.
FaultyBefore(s, t) == NotAfter(s, t)

\* sort.Search for the first point at or after t: how many come before it.
Before(s, t) ==
    CHOOSE n \in 0 .. Len(s) : /\ \A i \in 1 .. n : s[i].ts < t
                               /\ n < Len(s) => s[n + 1].ts >= t

\* Is there a point with this timestamp already?
IsDuplicate(s, t) == NotAfter(s, t) > 0 /\ s[NotAfter(s, t)].ts = t

\* Faulty: the value of the point already there is not updated.
FaultyInserted(s, p) ==
    IF IsDuplicate(s, p.ts) THEN s ELSE InsertAt(s, NotAfter(s, p.ts) + 1, p)

\* Series.AddPoint: update the point at that timestamp, or insert in order.
Inserted(s, p) ==
    LET pos == NotAfter(s, p.ts)
    IN  IF IsDuplicate(s, p.ts) THEN [s EXCEPT ![pos] = p] ELSE InsertAt(s, pos + 1, p)

\* Series.GetRange.
GetRange(s, start, end) == SubSeq(s, Before(s, start) + 1, NotAfter(s, end))

\* Faulty: one point too few.
FaultyGetLatest(s, count) ==
    IF count <= 0 THEN <<>>
    ELSE SubSeq(s, IF Len(s) > count THEN Len(s) - count + 1 ELSE 2, Len(s))

\* Series.GetLatest.
GetLatest(s, count) ==
    IF count <= 0 THEN <<>>
    ELSE SubSeq(s, IF Len(s) > count THEN Len(s) - count + 1 ELSE 1, Len(s))

(***************************************************************************)
(* The operations of HotStorage.                                           *)
(***************************************************************************)
Ids == DOMAIN series

Init ==
    /\ series = <<>> /\ totalPoints = 0 /\ adding = {} /\ now = 0
    /\ written = <<>>

With(f, x, v) == [y \in DOMAIN f \cup {x} |-> IF y = x THEN v ELSE f[y]]

\* Is the series at its limit, and what the eviction leaves of it.
FaultyIsFull(s)  == Len(s) > MaxPoints
IsFull(s)        == Len(s) >= MaxPoints
FaultyEvicted(s) == Front(s)
Evicted(s)       == Tail(s)

\* AddPoint up to the insertion: create the series if there is room for one
\* more (otherwise the call fails and changes nothing), then drop the oldest
\* point of a full series, or count one more point.
BeginAdd(id, p) ==
    /\ adding = {}
    /\ id \in Ids \/ Cardinality(Ids) < MaxSeries
    /\ LET s == IF id \in Ids THEN series[id] ELSE [points |-> <<>>, lastSeen |-> now]
       IN  IF IsFull(s.points)
           THEN /\ series' = With(series, id, [s EXCEPT !.points = Evicted(@)])
                /\ UNCHANGED totalPoints
           ELSE /\ series' = With(series, id, s)
                /\ totalPoints' = totalPoints + 1
    /\ written' = IF id \in Ids THEN written ELSE With(written, id, [val |-> <<>>, at |-> now])
    /\ adding' = {<<id, p>>}
    /\ UNCHANGED now

\* The insertion, and the release of hs.mu.  An update in place returns before
\* LastSeen is refreshed.
EndAdd(id, p) ==
    /\ adding = {<<id, p>>}
    /\ LET s == series[id]
       IN  series' = [series EXCEPT ![id] =
               [points   |-> Inserted(s.points, p),
                lastSeen |-> IF IsDuplicate(s.points, p.ts) THEN s.lastSeen ELSE now]]
    /\ written' = [written EXCEPT ![id] = [val |-> With(@.val, p.ts, p.val), at |-> now]]
    /\ adding' = {}
    /\ UNCHANGED <<totalPoints, now>>

Stale == {id \in Ids : now - series[id].lastSeen > MaxAge}

\* The places of the points of the series in S, to count the points by.
Places(S) == UNION {{id} \X DOMAIN series[id].points : id \in S}

\* How many points the stale series hold.
StalePoints == Cardinality(Places(Stale))

RemoveStale ==
    /\ Stale # {}
    /\ totalPoints' = totalPoints - StalePoints
    /\ series' = [id \in Ids \ Stale |-> series[id]]
    /\ written' = [id \in Ids \ Stale |-> written[id]]
    /\ UNCHANGED <<adding, now>>

\* Under hs.mu; faulty: without it, while an AddPoint is between its steps.
FaultyCleanupStale == RemoveStale
CleanupStale       == adding = {} /\ RemoveStale

Tick == now < MaxClock /\ now' = now + 1 /\ UNCHANGED <<series, totalPoints, adding, written>>

Next ==
    \/ \E id \in SeriesIds, p \in Points : BeginAdd(id, p) \/ EndAdd(id, p)
    \/ CleanupStale
    \/ Tick

Spec == Init /\ [][Next]_vars

(***************************************************************************)
(* Properties                                                              *)
(***************************************************************************)
SeriesTyped ==
    /\ Ids \subseteq SeriesIds /\ now \in Nat
    /\ \A id \in Ids : series[id].points \in Seq(Points) /\ series[id].lastSeen \in 0 .. now
    /\ adding \subseteq Ids \X Points /\ \A a, b \in adding : a = b
    /\ DOMAIN written = Ids
    /\ \A id \in Ids : DOMAIN written[id].val \subseteq Times /\ written[id].at \in 0 .. now

PointCount == Cardinality(Places(Ids))

\* The types, and the counter: totalPoints never runs below the number of points
\* held, whatever is updated, evicted and cleaned up, so that its drift is
\* one-sided and it cannot go negative.
TypeOK == SeriesTyped /\ totalPoints \in Nat /\ totalPoints >= PointCount

\* The points of every series are in strict timestamp order whenever its lock
\* is free, so that the binary searches of AddPoint and GetRange find what they
\* look for: no insertion of a late point and no update creates a second point
\* with the same timestamp.
PointsSorted == \A id \in Ids : Chronological(series[id].points)

\* Neither limit is ever exceeded, even while AddPoint is between its steps.
LimitsHold ==
    /\ Cardinality(Ids) <= MaxSeries
    /\ \A id \in Ids : Len(series[id].points) <= MaxPoints

\* A point that is still held has the value written last at its timestamp,
\* through every update, eviction and late insertion.
LastWriteWins ==
    \A id \in Ids : \A i \in DOMAIN series[id].points :
        LET p == series[id].points[i]
        IN  p.ts \in DOMAIN written[id].val /\ written[id].val[p.ts] = p.val

\* With room for two points or more, the newest timestamp ever written to a
\* series is never evicted: not by a late point, and not between the steps.
NewestKept ==
    MaxPoints > 1 => \A id \in Ids :
        LET s == series[id].points IN
        \A t \in DOMAIN written[id].val : s # <<>> /\ t <= s[Len(s)].ts

\* GetRange returns exactly the points between its bounds, both included, in order.
RangeExact ==
    \A id \in Ids : \A start, end \in Times :
        LET s == series[id].points
            r == GetRange(s, start, end)
        IN  Chronological(r) /\ ToSet(r) = {p \in ToSet(s) : start <= p.ts /\ p.ts <= end}

\* Between the two steps of AddPoint the series has room for the point: what
\* keeps the limit inductive.
RoomToInsert == \A a \in adding : Len(series[a[1]].points) < MaxPoints

\* The point that AddPoint is about to insert is counted already: with this the
\* lower bound on the counter is inductive.
CountedAhead == totalPoints \in Nat /\ totalPoints >= PointCount + Cardinality(adding)

\* "CleanupStale removes series that haven't received data recently": a series
\* it removes has had no AddPoint for maxAge.  The code does not do this.
CleanupSparesWritten ==
    [][\A id \in Ids \ Ids' : now - written[id].at > MaxAge]_vars
=============================================================================
