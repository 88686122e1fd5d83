-------------------------- MODULE StorageEngineProofs --------------------------
(***************************************************************************)
(* Proofs about StorageEngine: the two tiers keep, when they are put       *)
(* together, every promise they make alone, and what moves between them is *)
(* neither lost nor out of sight.                                          *)
(***************************************************************************)
EXTENDS StorageEngine, HotStorageProofs

\* The file tier of StorageEngine again, with what is proved about it.
WP == INSTANCE WarmStorageProofs WITH
        Readers <- Queries, PerMilli <- 1, Retention <- WarmRetention, MaxRestarts <- 0,
        Blocks <- {s \in BoundedSeq(Points, MaxPoints) : s # <<>> /\ Chronological(s)}

LEMMA SameLibrary ==
    /\ \A S : W!Cardinality(S) = Cardinality(S) /\ WP!Cardinality(S) = Cardinality(S)
    /\ \A S : W!IsFiniteSet(S) <=> IsFiniteSet(S)
    /\ \A S : WP!IsFiniteSet(S) <=> IsFiniteSet(S)
    /\ \A s : W!ToSet(s) = ToSet(s) /\ WP!ToSet(s) = ToSet(s)
    /\ \A s : W!Last(s) = Last(s) /\ WP!Last(s) = Last(s)
<1>1. \A S : W!Cardinality(S) = Cardinality(S) /\ WP!Cardinality(S) = Cardinality(S)
  BY DEF W!Cardinality, WP!Cardinality, Cardinality
<1>2. \A S : W!IsFiniteSet(S) <=> IsFiniteSet(S)
  BY DEF W!IsFiniteSet, IsFiniteSet
<1>3. \A S : WP!IsFiniteSet(S) <=> IsFiniteSet(S)
  BY DEF WP!IsFiniteSet, IsFiniteSet
<1>4. \A s : W!ToSet(s) = ToSet(s) /\ WP!ToSet(s) = ToSet(s)
  BY DEF W!ToSet, WP!ToSet, ToSet
<1>5. \A s : W!Last(s) = Last(s) /\ WP!Last(s) = Last(s)
  BY DEF W!Last, WP!Last, Last
<1> QED
  BY <1>1, <1>2, <1>3, <1>4, <1>5

LEMMA SameOpening ==
    ASSUME NEW id
    PROVE  /\ W!Registered(id) = WP!Registered(id)
           /\ W!MayWrite(id) <=> WP!MayWrite(id)
           /\ \A f, v : W!With(f, id, v) = WP!With(f, id, v)
<1>1. W!Registered(id) = WP!Registered(id)
  BY DEF W!Registered, WP!Registered, W!NewFile, WP!NewFile
<1>2. W!MayWrite(id) <=> WP!MayWrite(id)
  BY SameLibrary DEF W!MayWrite, WP!MayWrite, W!Reading, WP!Reading
<1>3. \A f, v : W!With(f, id, v) = WP!With(f, id, v)
  BY DEF W!With, WP!With
<1> QED
  BY <1>1, <1>2, <1>3

LEMMA SameBegin ==
    ASSUME NEW id, NEW b, W!BeginWrite(id, b)
    PROVE  WP!BeginWrite(id, b)
<1> DEFINE f == W!Registered(id)  opens == f.handle = "none"
           file == IF opens THEN [f EXCEPT !.handle = "open"] ELSE f
           empty == [parts |-> <<>>, mtime |-> now]
<1>1. /\ W!MayWrite(id) /\ files' = W!With(files, id, file)
      /\ disk' = IF opens /\ id \notin DOMAIN disk THEN W!With(disk, id, empty) ELSE disk
      /\ writing' = {[id |-> id, block |-> b, next |-> "time"]}
      /\ UNCHANGED <<readers, now, faults, restarts>>
  BY DEF W!BeginWrite, W!bounded
<1>2. f = WP!Registered(id) /\ WP!MayWrite(id) /\ \A g, v : W!With(g, id, v) = WP!With(g, id, v)
  BY <1>1, SameOpening
<1> HIDE DEF f
<1>3. /\ files' = WP!With(files, id, file)
      /\ disk' = IF opens /\ id \notin DOMAIN disk THEN WP!With(disk, id, empty) ELSE disk
  BY <1>1, <1>2
<1> QED
  BY <1>1, <1>2, <1>3 DEF WP!BeginWrite, WP!bounded

LEMMA SameOpenFails ==
    ASSUME NEW id, W!OpenFails(id)
    PROVE  WP!OpenFails(id)
<1> DEFINE f == W!Registered(id)
<1>1. /\ W!MayWrite(id) /\ f.handle = "none" /\ W!Fail /\ files' = W!With(files, id, f)
      /\ UNCHANGED <<disk, writing, readers, now, restarts>>
  BY DEF W!OpenFails
<1>2. f = WP!Registered(id) /\ WP!MayWrite(id) /\ \A g, v : W!With(g, id, v) = WP!With(g, id, v)
  BY <1>1, SameOpening
<1>3. WP!Fail
  BY <1>1 DEF W!Fail, WP!Fail
<1> HIDE DEF f
<1> QED
  BY <1>1, <1>2, <1>3 DEF WP!OpenFails

LEMMA SameWrite ==
    ASSUME NEW w
    PROVE  /\ W!WriteHeader(w) => WP!WriteHeader(w)
           /\ W!WriteData(w) => WP!WriteData(w)
           /\ W!WriteFails(w) => WP!WriteFails(w)
           /\ W!WriteToClosed(w) => WP!WriteToClosed(w)
<1>1. /\ \A kind, b : W!PartSize(kind, b) = WP!PartSize(kind, b)
      /\ \A b : W!DataSize(b) = WP!DataSize(b)
  BY DEF W!PartSize, WP!PartSize, W!DataSize, WP!DataSize
<1>2. \A size : W!Appended(w, size) = WP!Appended(w, size)
  <2>1. \A parts : W!SizeOf(parts) = WP!SizeOf(parts)
    BY SameLibrary DEF W!SizeOf, WP!SizeOf
  <2>2. \A parts, kind, b : W!Part(parts, kind, b) = WP!Part(parts, kind, b)
    BY <1>1, <2>1 DEF W!Part, WP!Part
  <2> QED
    BY <2>2 DEF W!Appended, WP!Appended
<1>3. \A f, b : W!Indexed(f, b) = WP!Indexed(f, b)
  BY DEF W!Indexed, WP!Indexed, W!HeaderSize, WP!HeaderSize, W!DataSize, WP!DataSize
<1>4. W!WriteHeader(w) => WP!WriteHeader(w)
  BY <1>1, <1>2 DEF W!WriteHeader, WP!WriteHeader, W!bounded, WP!bounded
<1>5. W!WriteData(w) => WP!WriteData(w)
  BY <1>1, <1>2, <1>3 DEF W!WriteData, WP!WriteData, W!bounded, WP!bounded
<1>6. W!WriteFails(w) => WP!WriteFails(w)
  BY <1>2 DEF W!WriteFails, WP!WriteFails, W!Fail, WP!Fail
<1>7. W!WriteToClosed(w) => WP!WriteToClosed(w)
  BY DEF W!WriteToClosed, WP!WriteToClosed, W!bounded, WP!bounded
<1> QED
  BY <1>4, <1>5, <1>6, <1>7

\* What the properties of StorageEngine say of files.
LEMMA SameFiles ==
    ASSUME NEW parts
    PROVE  /\ W!Whole(parts) = WP!Whole(parts)
           /\ W!BlocksOf(parts) = WP!BlocksOf(parts)
           /\ W!Intact(parts) <=> WP!Intact(parts)
<1>1. \A kind, b : W!PartSize(kind, b) = WP!PartSize(kind, b)
  BY DEF W!PartSize, WP!PartSize, W!DataSize, WP!DataSize
<1>2. \A p, kind, b : W!WholePart(p, kind, b) <=> WP!WholePart(p, kind, b)
  BY <1>1 DEF W!WholePart, WP!WholePart
<1>3. \A i : W!WholeBlock(parts, i) <=> WP!WholeBlock(parts, i)
  BY <1>2 DEF W!WholeBlock, WP!WholeBlock
<1>4. W!Whole(parts) = WP!Whole(parts)
  BY <1>3 DEF W!Whole, WP!Whole
<1> QED
  BY <1>4, SameLibrary DEF W!BlocksOf, WP!BlocksOf, W!Intact, WP!Intact, W!WholeBlocks, WP!WholeBlocks

LEMMA SameRead ==
    ASSUME NEW q
    PROVE  /\ \A id, from, to : W!Lookup(q, id, from, to) => WP!Lookup(q, id, from, to)
           /\ W!LockFile(q) => WP!LockFile(q)
           /\ W!ReadBlock(q) => WP!ReadBlock(q)
           /\ W!Deliver(q) => WP!Deliver(q)
<1>1. \A id, from, to : W!Lookup(q, id, from, to) => WP!Lookup(q, id, from, to)
  BY DEF W!Lookup, WP!Lookup, W!bounded, WP!bounded
<1>2. \A id, from, to : W!Expected(id, from, to) = WP!Expected(id, from, to)
  <2>1. \A parts : W!Whole(parts) = WP!Whole(parts)
    BY SameFiles
  <2>2. \A b : W!Points(b) = WP!Points(b)
    BY SameLibrary DEF W!Points, WP!Points
  <2>3. \A id : W!Reloaded(id) = WP!Reloaded(id)
    BY SameLibrary DEF W!Reloaded, WP!Reloaded
  <2>4. \A t : W!Millis(t) = WP!Millis(t)
    BY DEF W!Millis, WP!Millis
  <2>5. \A S, from, to : W!InRange(S, from, to) = WP!InRange(S, from, to)
    BY DEF W!InRange, WP!InRange
  <2> QED
    BY <2>1, <2>2, <2>3, <2>4, <2>5 DEF W!Expected, WP!Expected
<1>3. \A index, from, to : W!Relevant(index, from, to) = WP!Relevant(index, from, to)
  BY DEF W!Relevant, WP!Relevant
<1>4. W!LockFile(q) => WP!LockFile(q)
  BY <1>2, <1>3 DEF W!LockFile, WP!LockFile, W!bounded, WP!bounded
<1>5. \A parts, off, len : W!BlocksAt(parts, off, len) = WP!BlocksAt(parts, off, len)
  BY DEF W!BlocksAt, WP!BlocksAt, W!DataSize, WP!DataSize
<1>6. \A S, from, to : W!InRange(S, from, to) = WP!InRange(S, from, to)
  BY DEF W!InRange, WP!InRange
<1>7. W!ReadBlock(q) => WP!ReadBlock(q)
  <2>1. (\A b : W!Points(b) = WP!Points(b)) /\ W!HeaderSize = WP!HeaderSize /\ (W!Reading(q) <=> WP!Reading(q))
    BY SameLibrary DEF W!Points, WP!Points, W!HeaderSize, WP!HeaderSize, W!Reading, WP!Reading
  <2> SUFFICES ASSUME W!ReadBlock(q) PROVE WP!ReadBlock(q)
    OBVIOUS
  <2> DEFINE R == readers[q]
             found(e) == IF R.id \in DOMAIN disk
                         THEN WP!BlocksAt(disk[R.id].parts, e.off + WP!HeaderSize, e.len) ELSE {}
             got(e) == R.got \cup WP!InRange(UNION {WP!Points(b) : b \in found(e)}, R.from, R.to)
             after(e) == IF found(e) = {} THEN [R EXCEPT !.pc = "failed", !.todo = {}]
                         ELSE [R EXCEPT !.todo = R.todo \ {e}, !.got = got(e)]
  <2>2. PICK e \in R.todo :
          /\ \A d \in R.todo : e.ts <= d.ts
          /\ LET Found == IF R.id \in DOMAIN disk
                          THEN W!BlocksAt(disk[R.id].parts, e.off + W!HeaderSize, e.len) ELSE {}
             IN  readers' = [readers EXCEPT ![q] =
                   IF Found = {} THEN [R EXCEPT !.pc = "failed", !.todo = {}]
                   ELSE [R EXCEPT !.todo = R.todo \ {e},
                                  !.got = R.got \cup W!InRange(UNION {W!Points(b) : b \in Found}, R.from, R.to)]]
    BY DEF W!ReadBlock
  <2>3. readers' = [readers EXCEPT ![q] = after(e)]
    BY <1>5, <1>6, <2>1, <2>2
  <2>4. WP!Reading(q) /\ UNCHANGED <<disk, files, writing, now, faults, restarts>>
    BY <2>1 DEF W!ReadBlock, W!bounded
  <2> QED
    BY <2>2, <2>3, <2>4 DEF WP!ReadBlock, WP!bounded
<1>8. W!Deliver(q) => WP!Deliver(q)
  BY DEF W!Deliver, WP!Deliver, W!Answered, WP!Answered, W!Idle, WP!Idle, W!bounded, WP!bounded
<1> QED
  BY <1>1, <1>4, <1>7, <1>8

LEMMA SameUpkeep ==
    /\ W!CleanupExpired => WP!CleanupExpired
    /\ W!Close => WP!Close
<1>1. \A gone : W!Detached(gone) = WP!Detached(gone)
  BY DEF W!Detached, WP!Detached, W!Relevant, WP!Relevant
<1>2. \A f, S : W!Without(f, S) = WP!Without(f, S)
  BY DEF W!Without, WP!Without
<1>3. W!Expired = WP!Expired
  BY DEF W!Expired, WP!Expired
<1>4. W!RemoveExpired => WP!RemoveExpired
  BY <1>1, <1>2, <1>3 DEF W!RemoveExpired, WP!RemoveExpired, W!Fail, WP!Fail
<1>5. W!Close => WP!Close
  BY DEF W!Close, WP!Close, W!bounded, WP!bounded
<1> QED
  BY <1>4, <1>5 DEF W!CleanupExpired, WP!CleanupExpired

(***************************************************************************)
(* The assumptions that WarmStorage makes hold of the file tier.           *)
(***************************************************************************)

\* The blocks of the file tier: what performTiering may copy from a series.
TierBlocks == {s \in BoundedSeq(Points, MaxPoints) : s # <<>> /\ Chronological(s)}

LEMMA BlockOf ==
    ASSUME NEW s
    PROVE  s \in TierBlocks <=> s \in Seq(Points) /\ Len(s) <= MaxPoints /\ s # <<>> /\ Chronological(s)
<1>1. MaxPoints \in Nat
  BY HotAssumption
<1>2. ASSUME s \in Seq(Points), Len(s) <= MaxPoints PROVE s \in BoundedSeq(Points, MaxPoints)
  <2>1. Len(s) \in 0 .. MaxPoints /\ s \in [1 .. Len(s) -> Points]
    BY <1>1, <1>2
  <2> QED
    BY <2>1 DEF BoundedSeq, SeqOf
<1>3. ASSUME s \in BoundedSeq(Points, MaxPoints) PROVE s \in Seq(Points) /\ Len(s) <= MaxPoints
  <2>1. PICK m \in 0 .. MaxPoints : s \in [1 .. m -> Points]
    BY <1>3 DEF BoundedSeq, SeqOf
  <2>2. s \in Seq(Points) /\ Len(s) = m
    BY <1>1, <2>1
  <2> QED
    BY <1>1, <2>1, <2>2
<1> QED
  BY <1>2, <1>3 DEF TierBlocks

LEMMA WarmAssumed == WP!WarmAssumption
<1>1. IsFiniteSet(SeriesIds) /\ WP!IsFiniteSet(SeriesIds)
  BY HotAssumption, SameLibrary
<1>2. ASSUME NEW b \in TierBlocks
      PROVE  /\ Len(b) \in Nat \ {0} /\ DOMAIN b = 1 .. Len(b)
             /\ WP!Chronological(b) /\ \A i \in DOMAIN b : b[i].ts \in Nat
  <2>1. b \in Seq(Points) /\ b # <<>> /\ Chronological(b)
    BY BlockOf
  <2>2. ASSUME NEW i \in DOMAIN b PROVE b[i].ts \in Nat
    <3>1. b[i] \in Points
      BY <2>1
    <3> QED
      BY <3>1, HotAssumption DEF Points, Times
  <2> QED
    BY <2>1, <2>2 DEF Chronological, WP!Chronological
<1>3. MaxClock \in Nat
  BY HotAssumption
<1> QED
  BY <1>1, <1>2, <1>3, EngineAssumption DEF WP!WarmAssumption, TierBlocks

(***************************************************************************)
(* The memory tier: every step of the engine is one of its own, or none.   *)
(***************************************************************************)
LEMMA HotSteps == [EngineNext]_all => [Next]_vars
<1>1. AddPoint => Next
  BY DEF AddPoint, Next
<1>2. Tiering => UNCHANGED vars
  BY DEF Tiering, TierList, TierMove, TierCopy, TierWrite, TierEnd, TierSelect, TierSize
<1>3. CleanHot => [Next]_vars
  BY DEF CleanHot, Next
<1>4. CleanWarm => UNCHANGED vars
  BY DEF CleanWarm
<1>5. \A q \in Queries : Query(q) => UNCHANGED vars
  BY DEF Query, FindSeries, ReadHot, ReadWarm, Return
<1>6. EndTiering \/ EndCleanup => UNCHANGED vars
  BY DEF EndTiering, EndCleanup, EndWorker
<1>7. EngineTick => Next
  BY DEF EngineTick, Next
<1>8. UNCHANGED all => UNCHANGED vars
  BY DEF all
<1> QED
  BY <1>1, <1>2, <1>3, <1>4, <1>5, <1>6, <1>7, <1>8 DEF EngineNext

\* The memory tier of a running engine is a HotStorage: all that is proved of
\* HotStorage holds of it, whatever the workers do.
THEOREM EngineKeepsHot == EngineSpec => Spec
<1>1. EngineInit => Init
  BY DEF EngineInit
<1> QED
  BY <1>1, HotSteps, PTL DEF EngineSpec, Spec

LEMMA EngineSeries == EngineSpec => []SeriesInv
<1>1. Spec => []SeriesInv
  BY HotInit, HotStep, PTL DEF Spec
<1> QED
  BY <1>1, EngineKeepsHot, PTL

(***************************************************************************)
(* Types of the workers and the callers.                                   *)
(***************************************************************************)

\* What a series in memory is, and what a pointer to one may be.
Held(s) == s.points \in Seq(Points) /\ Chronological(s.points) /\ Len(s.points) <= MaxPoints
Pointed(id, ptr) == ptr.live \in BOOLEAN /\ IF ptr.live THEN id \in Ids ELSE Held(ptr.was)

InPass   == tier.pc \in {"listed", "next", "sized", "copied", "writing"}
OnSeries == tier.pc \in {"sized", "copied", "writing"}

TierTyped ==
    /\ tier.pc \in {"idle", "listed", "next", "sized", "copied", "writing", "failed"}
    /\ DOMAIN tier = {"pc"} \cup (IF InPass THEN {"todo", "ptr", "due"} ELSE {})
                            \cup (IF tier.pc = "listed" THEN {"cutoff", "unseen"} ELSE {})
                            \cup (IF OnSeries THEN {"id", "size", "block"} ELSE {})
    /\ InPass => /\ DOMAIN tier.ptr \subseteq SeriesIds /\ tier.todo \subseteq DOMAIN tier.ptr
                 /\ \A id \in DOMAIN tier.ptr : Pointed(id, tier.ptr[id])
                 /\ DOMAIN tier.due \subseteq DOMAIN tier.ptr
    /\ tier.pc = "listed" => tier.unseen \subseteq DOMAIN tier.ptr /\ DOMAIN tier.due \subseteq tier.todo
    /\ OnSeries => tier.id \in tier.todo
    /\ tier.pc = "sized" => tier.size \in Nat
    /\ tier.pc = "copied" => tier.block \in TierBlocks
    /\ tier.pc = "writing" <=> writing # {}
    /\ \A w \in writing : w.id = tier.id

\* A call of GetRange, and the reader of the file tier that works for it.
CallTyped(Q) ==
    /\ Q.pc \in {"idle", "found", "warm", "answered", "error"}
    /\ DOMAIN Q = {"pc"} \cup (IF Q.pc # "idle" THEN {"id", "start", "end"} ELSE {})
                         \cup (IF Q.pc = "found" THEN {"ptr"} ELSE {})
                         \cup (IF Q.pc \in {"warm", "error"} THEN {"hot"} ELSE {})
                         \cup (IF Q.pc = "answered" THEN {"points"} ELSE {})
    /\ Q.pc # "idle" => Q.id \in SeriesIds /\ <<Q.start, Q.end>> \in Ranges
    /\ Q.pc = "found" => Pointed(Q.id, Q.ptr)
WorksFor(R, Q) ==
    R.pc # "idle" => Q.pc = "warm" /\ R.id = Q.id /\ R.from = Q.start /\ R.to = Q.end

QueryTyped ==
    /\ query = [q \in Queries |-> query[q]]
    /\ \A q \in Queries : CallTyped(query[q]) /\ WorksFor(readers[q], query[q])

StopTyped ==
    /\ cleaner \in BOOLEAN
    /\ phase \in {"running", "tieringEnded", "stopped"}
    /\ phase # "running" => tier.pc = "idle"
    /\ phase = "stopped" => ~cleaner /\ \A id \in DOMAIN files : files[id].handle # "open"

EngineTyped == TierTyped /\ QueryTyped /\ StopTyped /\ SeriesInv /\ WP!TypeInv /\ restarts = 0

LEMMA HeldSeries ==
    ASSUME SeriesInv, NEW id, NEW ptr, Pointed(id, ptr)
    PROVE  Held(At(id, ptr))
BY DEF SeriesInv, Sound, Pointed, Held, At

\* A pointer goes on pointing to a series, as it is or as it was.
LEMMA StillPointed ==
    ASSUME NEW id, NEW ptr, Pointed(id, ptr), Ids \subseteq Ids'
    PROVE  Pointed(id, ptr)'
BY DEF Pointed

LEMMA KeptPointed ==
    ASSUME SeriesInv, NEW gone, NEW id, NEW ptr, Pointed(id, ptr), Ids' = Ids \ gone,
           NEW p, p = Kept(id, ptr, gone)
    PROVE  Pointed(id, p)'
<1>1. CASE ptr.live /\ id \in gone
  <2>1. p = [live |-> FALSE, was |-> series[id]] /\ id \in Ids
    BY <1>1 DEF Kept, Pointed
  <2>2. Held(series[id])
    BY <2>1 DEF SeriesInv, Sound, Held
  <2> QED
    BY <2>1, <2>2 DEF Pointed, Held
<1>2. CASE ~(ptr.live /\ id \in gone)
  BY <1>2 DEF Kept, Pointed, Held
<1> QED
  BY <1>1, <1>2

LEMMA EngineTypeInit == EngineInit => TierTyped /\ QueryTyped /\ StopTyped
<1> SUFFICES ASSUME EngineInit PROVE TierTyped /\ QueryTyped /\ StopTyped
  OBVIOUS
<1>1. tier = [pc |-> "idle"] /\ query = [q \in Queries |-> [pc |-> "idle"]] /\ cleaner = FALSE
      /\ phase = "running" /\ writing = {} /\ readers = [r \in Queries |-> [pc |-> "idle", live |-> FALSE]]
  BY DEF EngineInit, NoPass, NoQuery, W!Init, W!Idle
<1> QED
  BY <1>1 DEF TierTyped, QueryTyped, CallTyped, WorksFor, StopTyped, InPass, OnSeries

\* The steps of AddPoint and of the clean-up of the memory tier.
LEMMA TierKeptHot ==
    ASSUME TierTyped, SeriesInv, AddPoint \/ CleanHot \/ CleanWarm
    PROVE  TierTyped'
<1>1. writing' = writing
  BY DEF AddPoint, CleanHot, CleanWarm, warm, W!CleanupExpired, W!RemoveExpired
<1>2. ASSUME NEW S, tier' = Forget(S), Ids \subseteq Ids'
      PROVE  TierTyped'
  <2>1. CASE ~InPass
    <3>1. "due" \notin DOMAIN tier
      BY <2>1 DEF TierTyped, OnSeries, InPass
    <3> QED
      BY <1>1, <1>2, <2>1, <3>1 DEF Forget, TierTyped, InPass, OnSeries
  <2>2. CASE InPass
    <3> DEFINE due == [id \in DOMAIN tier.due \ S |-> tier.due[id]]
    <3>1. tier' = [tier EXCEPT !.due = due] /\ "due" \in DOMAIN tier
      BY <1>2, <2>2 DEF Forget, TierTyped
    <3>2. DOMAIN due \subseteq DOMAIN tier.due
      OBVIOUS
    <3> HIDE DEF due
    <3>3. /\ DOMAIN tier' = DOMAIN tier /\ tier'.due = due
          /\ \A x \in DOMAIN tier : x # "due" => tier'[x] = tier[x]
      BY <3>1
    <3>4. /\ tier'.pc = tier.pc /\ tier'.todo = tier.todo /\ tier'.ptr = tier.ptr
          /\ tier.pc = "listed" => tier'.unseen = tier.unseen
          /\ OnSeries => tier'.id = tier.id /\ tier'.size = tier.size /\ tier'.block = tier.block
      BY <2>2, <3>3 DEF TierTyped
    <3>5. \A id \in DOMAIN tier'.ptr : Pointed(id, tier.ptr[id])'
      BY <1>2, <2>2, <3>4, StillPointed DEF TierTyped
    <3> QED
      BY <1>1, <2>2, <3>2, <3>3, <3>4, <3>5 DEF TierTyped, InPass, OnSeries
  <2> QED
    BY <2>1, <2>2
<1>3. CASE AddPoint
  <2>1. Ids \subseteq Ids'
    <3>1. PICK id \in SeriesIds, p \in Points : BeginAdd(id, p) \/ EndAdd(id, p)
      BY <1>3 DEF AddPoint
    <3>2. \/ \E s : series' = With(series, id, s)
          \/ \E s : series' = [series EXCEPT ![id] = s]
      BY <3>1 DEF BeginAdd, EndAdd
    <3>3. \A s : Ids \subseteq DOMAIN With(series, id, s) /\ Ids \subseteq DOMAIN [series EXCEPT ![id] = s]
      BY DEF Ids, With
    <3> QED
      BY <3>2, <3>3 DEF Ids
  <2> QED
    BY <1>2, <1>3, <2>1 DEF AddPoint
<1>4. CASE CleanWarm
  BY <1>2, <1>4 DEF CleanWarm, vars, Ids
<1>5. CASE CleanHot
  <2>1. Ids' = Ids \ Stale
    BY <1>5 DEF CleanHot, CleanupStale, RemoveStale, vars, Ids
  <2>2. CASE ~InPass
    <3>1. tier' = tier
      BY <1>5, <2>2 DEF CleanHot, TierTyped, OnSeries, InPass
    <3> QED
      BY <1>1, <2>2, <3>1 DEF TierTyped, InPass, OnSeries
  <2>3. CASE InPass
    <3> DEFINE ptr == [id \in DOMAIN tier.ptr |-> Kept(id, tier.ptr[id], Stale)]
    <3>1. tier' = [tier EXCEPT !.ptr = ptr] /\ "ptr" \in DOMAIN tier
      BY <1>5, <2>3 DEF CleanHot, TierTyped
    <3>2. DOMAIN ptr = DOMAIN tier.ptr
      OBVIOUS
    <3>3. ASSUME NEW id \in DOMAIN ptr, NEW p, p = ptr[id] PROVE Pointed(id, p)'
      <4>1. Pointed(id, tier.ptr[id])
        BY <2>3, <3>3 DEF TierTyped
      <4> QED
        BY <2>1, <3>3, <4>1, KeptPointed
    <3> HIDE DEF ptr
    <3>4. /\ DOMAIN tier' = DOMAIN tier /\ tier'.ptr = ptr
          /\ \A x \in DOMAIN tier : x # "ptr" => tier'[x] = tier[x]
      BY <3>1
    <3>5. /\ tier'.pc = tier.pc /\ tier'.todo = tier.todo /\ tier'.due = tier.due
          /\ tier.pc = "listed" => tier'.unseen = tier.unseen
          /\ OnSeries => tier'.id = tier.id /\ tier'.size = tier.size /\ tier'.block = tier.block
      BY <2>3, <3>4 DEF TierTyped
    <3>6. \A id \in DOMAIN tier'.ptr : Pointed(id, tier.ptr[id])'
      BY <3>3, <3>4
    <3> QED
      BY <1>1, <2>3, <3>2, <3>4, <3>5, <3>6 DEF TierTyped, InPass, OnSeries
  <2> QED
    BY <2>2, <2>3
<1> QED
  BY <1>3, <1>4, <1>5

LEMMA LatestOfSeries ==
    ASSUME NEW s \in Seq(Points), Chronological(s), NEW count \in Nat
    PROVE  LET r == GetLatest(s, count)
           IN  /\ r \in Seq(Points) /\ Chronological(r) /\ Len(r) <= Len(s)
               /\ count >= Len(s) => r = s
<1> DEFINE r == GetLatest(s, count)
<1>0. Len(s) \in Nat /\ (Len(s) = 0 => s = <<>>)
  OBVIOUS
<1>1. CASE count = 0
  <2>1. r = <<>>
    BY <1>1 DEF GetLatest
  <2>2. r \in Seq(Points) /\ Len(r) = 0 /\ Chronological(r)
    BY <2>1 DEF Chronological
  <2>3. count >= Len(s) => r = s
    BY <1>0, <1>1, <2>1
  <2> QED
    BY <1>0, <2>2, <2>3
<1>2. CASE count # 0
  <2> DEFINE m == IF Len(s) > count THEN Len(s) - count + 1 ELSE 1
  <2>0. r = SubSeq(s, m, Len(s))
    <3>1. ~(count <= 0)
      BY <1>2
    <3> QED
      BY <3>1, Zenon DEF GetLatest
  <2>1. r = SubSeq(s, m, Len(s)) /\ m \in Nat \ {0} /\ m <= Len(s) + 1 /\ (count >= Len(s) => m = 1)
    BY <1>0, <1>2, <2>0
  <2> HIDE DEF m
  <2>2. /\ r \in Seq(Points) /\ Len(r) = Len(s) - m + 1
        /\ \A i \in 1 .. Len(s) - m + 1 : r[i] = s[m + i - 1]
    BY <2>1, SubSeqProperties
  <2>3. Chronological(r)
    <3> SUFFICES ASSUME NEW i \in DOMAIN r, NEW j \in DOMAIN r, i < j PROVE r[i].ts < r[j].ts
      BY DEF Chronological
    <3>1. i \in 1 .. Len(s) - m + 1 /\ j \in 1 .. Len(s) - m + 1
      BY <2>2
    <3>2. m + i - 1 \in DOMAIN s /\ m + j - 1 \in DOMAIN s /\ m + i - 1 < m + j - 1
      BY <2>1, <3>1
    <3> QED
      BY <2>2, <3>1, <3>2 DEF Chronological
  <2>4. count >= Len(s) => r = s
    BY <2>1, <2>2
  <2> QED
    BY <2>1, <2>2, <2>3, <2>4
<1> QED
  BY <1>1, <1>2

\* The steps of performTiering.
LEMMA TierStays ==
    ASSUME TierTyped, tier' = tier, series' = series, writing' = {} <=> writing = {},
           \A w \in writing' : w.id = tier.id
    PROVE  TierTyped'
<1>1. ASSUME NEW id, NEW ptr PROVE Pointed(id, ptr)' <=> Pointed(id, ptr)
  BY DEF Pointed, Ids
<1>2. InPass => \A id \in DOMAIN tier.ptr : Pointed(id, tier.ptr[id])'
  <2>1. ASSUME InPass, NEW id \in DOMAIN tier.ptr, NEW p, p = tier.ptr[id] PROVE Pointed(id, p)'
    BY <1>1, <2>1 DEF TierTyped
  <2> QED
    BY <2>1
<1> QED
  BY <1>2 DEF TierTyped, InPass, OnSeries

\* A step that stays in the pass, with the pointers as they were.
LEMMA TierOn ==
    ASSUME TierTyped, InPass, series' = series, tier'.ptr = tier.ptr
    PROVE  \A id \in DOMAIN tier'.ptr : Pointed(id, tier.ptr[id])'
<1> SUFFICES ASSUME NEW id \in DOMAIN tier.ptr, NEW p, p = tier.ptr[id] PROVE Pointed(id, p)'
  OBVIOUS
<1> QED
  BY DEF TierTyped, Pointed, Ids

LEMMA TierPasses ==
    ASSUME TierTyped, SeriesInv, WP!TypeInv, Tiering
    PROVE  TierTyped'
<1>1. series' = series
  BY DEF Tiering, TierList, TierSelect, TierMove, TierSize, TierCopy, TierWrite, TierEnd, vars
<1>2. CASE TierList
  <2> DEFINE ptr == [id \in Ids |-> Live]
  <2>1. /\ tier' = [pc |-> "listed", cutoff |-> now - MaxAge, unseen |-> Ids, todo |-> {},
                    ptr |-> ptr, due |-> <<>>]
        /\ writing' = writing /\ writing = {}
    BY <1>2 DEF TierList, warm, TierTyped
  <2>2. DOMAIN ptr = Ids /\ Ids \subseteq SeriesIds
    BY DEF SeriesInv
  <2>3. ASSUME NEW id \in Ids, NEW p, p = ptr[id] PROVE Pointed(id, p)'
    BY <1>1, <2>3 DEF Pointed, Live, Ids
  <2> HIDE DEF ptr
  <2>4. tier'.pc = "listed" /\ tier'.unseen = Ids /\ tier'.todo = {} /\ tier'.ptr = ptr /\ DOMAIN tier'.due = {}
        /\ DOMAIN tier' = {"pc", "cutoff", "unseen", "todo", "ptr", "due"}
    BY <2>1
  <2>5. \A id \in DOMAIN tier'.ptr : Pointed(id, tier.ptr[id])'
    BY <2>2, <2>3, <2>4
  <2> QED
    BY <2>1, <2>2, <2>4, <2>5 DEF TierTyped, InPass, OnSeries
<1>3. ASSUME NEW id \in SeriesIds, TierSelect(id) PROVE TierTyped'
  <2> DEFINE s == At(id, tier.ptr[id])  stale == s.lastSeen < tier.cutoff /\ s.points # <<>>
             todo == IF stale THEN tier.todo \cup {id} ELSE tier.todo
             due == IF stale THEN With(tier.due, id, ToSet(s.points)) ELSE tier.due
  <2>1. /\ tier.pc = "listed" /\ id \in tier.unseen /\ writing' = writing
        /\ tier' = [tier EXCEPT !.unseen = tier.unseen \ {id}, !.todo = todo, !.due = due]
    BY <1>3 DEF TierSelect, warm
  <2>2. todo \subseteq DOMAIN tier.ptr /\ DOMAIN due \subseteq todo
    <3>1. /\ id \in DOMAIN tier.ptr /\ tier.todo \subseteq DOMAIN tier.ptr
          /\ DOMAIN tier.due \subseteq tier.todo
      BY <2>1 DEF TierTyped, InPass
    <3>2. DOMAIN With(tier.due, id, ToSet(s.points)) = DOMAIN tier.due \cup {id}
      BY WithValues
    <3> HIDE DEF s, stale
    <3> QED
      BY <3>1, <3>2
  <2> HIDE DEF todo, due
  <2>3. DOMAIN tier = {"pc", "cutoff", "unseen", "todo", "ptr", "due"}
    BY <2>1 DEF TierTyped, InPass, OnSeries
  <2>4. /\ tier'.pc = "listed" /\ tier'.unseen = tier.unseen \ {id} /\ tier'.todo = todo
        /\ tier'.due = due /\ tier'.ptr = tier.ptr /\ DOMAIN tier' = DOMAIN tier
    BY <2>1, <2>3
  <2>5. InPass /\ \A i \in DOMAIN tier'.ptr : Pointed(i, tier.ptr[i])'
    BY <1>1, <2>1, <2>4, TierOn DEF InPass
  <2> QED
    BY <2>1, <2>2, <2>3, <2>4, <2>5 DEF TierTyped, InPass, OnSeries
<1>4. CASE TierMove
  <2> DEFINE ptr == [id \in tier.todo |-> tier.ptr[id]]
  <2>1. /\ tier.pc = "listed" /\ writing' = writing
        /\ tier' = [pc |-> "next", todo |-> tier.todo, ptr |-> ptr, due |-> tier.due]
    BY <1>4 DEF TierMove, warm
  <2>2. DOMAIN ptr = tier.todo /\ tier.todo \subseteq DOMAIN tier.ptr /\ DOMAIN tier.due \subseteq tier.todo
        /\ DOMAIN tier.ptr \subseteq SeriesIds
    BY <2>1 DEF TierTyped, InPass
  <2>3. ASSUME NEW id \in tier.todo, NEW p, p = ptr[id] PROVE Pointed(id, p)'
    <3>1. p = tier.ptr[id] /\ Pointed(id, p)
      BY <2>1, <2>2, <2>3 DEF TierTyped, InPass
    <3> QED
      BY <1>1, <3>1 DEF Pointed, Ids
  <2> HIDE DEF ptr
  <2>4. /\ tier'.pc = "next" /\ tier'.todo = tier.todo /\ tier'.ptr = ptr /\ tier'.due = tier.due
        /\ DOMAIN tier' = {"pc", "todo", "ptr", "due"}
    BY <2>1
  <2>5. \A id \in DOMAIN tier'.ptr : Pointed(id, tier.ptr[id])'
    BY <2>2, <2>3, <2>4
  <2> QED
    BY <2>1, <2>2, <2>4, <2>5 DEF TierTyped, InPass, OnSeries
\* On to the next series.
<1>5. ASSUME OnSeries, Proceed(tier.id), writing' = {} PROVE TierTyped'
  <2>1. tier' = [pc |-> "next", todo |-> tier.todo \ {tier.id}, ptr |-> tier.ptr, due |-> tier.due]
    BY <1>5 DEF Proceed
  <2>2. /\ tier'.pc = "next" /\ tier'.todo = tier.todo \ {tier.id} /\ tier'.ptr = tier.ptr
        /\ tier'.due = tier.due /\ DOMAIN tier' = {"pc", "todo", "ptr", "due"}
    BY <2>1
  <2>3. InPass /\ \A i \in DOMAIN tier'.ptr : Pointed(i, tier.ptr[i])'
    BY <1>1, <1>5, <2>2, TierOn DEF InPass, OnSeries
  <2> QED
    BY <1>5, <2>2, <2>3 DEF TierTyped, InPass, OnSeries
<1>6. ASSUME NEW id \in SeriesIds, TierSize(id) PROVE TierTyped'
  <2> DEFINE n == Len(At(id, tier.ptr[id]).points)
  <2>1. /\ tier.pc = "next" /\ id \in tier.todo /\ writing' = writing
        /\ tier' = [pc |-> "sized", todo |-> tier.todo, ptr |-> tier.ptr, due |-> tier.due,
                    id |-> id, size |-> n, block |-> <<>>]
    BY <1>6 DEF TierSize, warm
  <2>2. n \in Nat
    <3>1. Pointed(id, tier.ptr[id])
      BY <2>1 DEF TierTyped, InPass
    <3> QED
      BY <3>1, HeldSeries DEF Held
  <2> HIDE DEF n
  <2>3. /\ tier'.pc = "sized" /\ tier'.todo = tier.todo /\ tier'.ptr = tier.ptr /\ tier'.due = tier.due
        /\ tier'.id = id /\ tier'.size = n
        /\ DOMAIN tier' = {"pc", "todo", "ptr", "due", "id", "size", "block"}
    BY <2>1
  <2>4. InPass /\ \A i \in DOMAIN tier'.ptr : Pointed(i, tier.ptr[i])'
    BY <1>1, <2>1, <2>3, TierOn DEF InPass
  <2> QED
    BY <2>1, <2>2, <2>3, <2>4 DEF TierTyped, InPass, OnSeries
\* What stays when only pc, size and block change.
<1>7. ASSUME OnSeries, NEW pc \in {"copied", "writing"}, NEW size, NEW block,
             tier' = [tier EXCEPT !.pc = pc, !.size = size, !.block = block],
             pc = "copied" => block \in TierBlocks,
             pc = "writing" <=> writing' # {}, \A w \in writing' : w.id = tier.id
      PROVE  TierTyped'
  <2>1. DOMAIN tier = {"pc", "todo", "ptr", "due", "id", "size", "block"}
    BY <1>7 DEF TierTyped, InPass, OnSeries
  <2>2. /\ tier'.pc = pc /\ tier'.todo = tier.todo /\ tier'.ptr = tier.ptr /\ tier'.due = tier.due
        /\ tier'.id = tier.id /\ tier'.block = block /\ DOMAIN tier' = DOMAIN tier
    BY <1>7, <2>1
  <2>3. InPass /\ \A i \in DOMAIN tier'.ptr : Pointed(i, tier.ptr[i])'
    BY <1>1, <1>7, <2>2, TierOn DEF InPass, OnSeries
  <2> QED
    BY <1>7, <2>1, <2>2, <2>3 DEF TierTyped, InPass, OnSeries
<1>8. CASE TierCopy
  <2> DEFINE s == At(tier.id, tier.ptr[tier.id])  block == GetLatest(s.points, tier.size)
  <2>1. /\ tier.pc = "sized" /\ writing' = writing
        /\ IF block = <<>> THEN Proceed(tier.id)
           ELSE tier' = [tier EXCEPT !.pc = "copied", !.size = 0, !.block = block]
    BY <1>8 DEF TierCopy, warm
  <2>2. OnSeries /\ writing = {} /\ Pointed(tier.id, tier.ptr[tier.id]) /\ tier.size \in Nat
    BY <2>1 DEF OnSeries, TierTyped, InPass
  <2>3. CASE block = <<>>
    BY <1>5, <2>1, <2>2, <2>3
  <2>4. CASE block # <<>>
    <3>1. block \in TierBlocks
      <4>1. Held(s)
        BY <2>2, HeldSeries
      <4> HIDE DEF s
      <4>2. block \in Seq(Points) /\ Chronological(block) /\ Len(block) <= MaxPoints
        <5>1. s.points \in Seq(Points) /\ Chronological(s.points) /\ Len(s.points) <= MaxPoints
          BY <4>1 DEF Held
        <5>2. block \in Seq(Points) /\ Chronological(block) /\ Len(block) <= Len(s.points)
          BY <2>2, <5>1, LatestOfSeries
        <5> HIDE DEF block
        <5> QED
          BY <5>1, <5>2, HotAssumption
      <4> QED
        BY <2>4, <4>2, BlockOf
    <3> HIDE DEF block
    <3> QED
      BY <1>7, <2>1, <2>2, <2>4, <3>1
  <2> QED
    BY <2>3, <2>4
<1>9. ASSUME tier' = [pc |-> "failed"] \/ tier' = [pc |-> "idle"], writing' = {} PROVE TierTyped'
  <2>1. tier'.pc \in {"failed", "idle"} /\ DOMAIN tier' = {"pc"}
    BY <1>9
  <2> QED
    BY <1>9, <2>1 DEF TierTyped, InPass, OnSeries
<1>10. CASE TierWrite
  <2>1. CASE tier.pc = "copied" /\ W!BeginWrite(tier.id, tier.block)
             /\ tier' = [tier EXCEPT !.pc = "writing", !.block = <<>>]
    <3>1. writing' = {[id |-> tier.id, block |-> tier.block, next |-> "time"]} /\ OnSeries
      BY <2>1 DEF W!BeginWrite, OnSeries
    <3>2. tier' = [tier EXCEPT !.pc = "writing", !.size = tier.size, !.block = <<>>]
      <4>1. DOMAIN tier = {"pc", "todo", "ptr", "due", "id", "size", "block"}
        BY <3>1 DEF TierTyped, InPass, OnSeries
      <4> QED
        BY <2>1, <4>1
    <3>3. \A w \in writing' : w.id = tier.id
      BY <3>1
    <3>4. writing' # {} /\ "writing" # "copied"
      BY <3>1
    <3> QED
      BY <1>7, <3>1, <3>2, <3>3, <3>4
  <2>2. CASE tier.pc = "copied" /\ W!OpenFails(tier.id) /\ tier' = [pc |-> "failed"]
    BY <1>9, <2>2 DEF W!OpenFails, TierTyped
  <2>3. ASSUME NEW w \in writing, W!WriteHeader(w), tier' = tier PROVE TierTyped'
    <3>1. w.id = tier.id /\ \E k \in {"length", "data"} : writing' = {[w EXCEPT !.next = k]}
      BY <2>3 DEF W!WriteHeader, TierTyped
    <3>2. w \in WP!Writes
      BY DEF WP!TypeInv, WP!Typed
    <3>3. \A v \in writing' : v.id = tier.id
      BY <3>1, <3>2 DEF WP!Writes
    <3> QED
      BY <1>1, <2>3, <3>1, <3>3, TierStays
  <2>4. ASSUME NEW w \in writing, W!WriteData(w), Proceed(tier.id) PROVE TierTyped'
    BY <1>5, <2>4 DEF W!WriteData, TierTyped, OnSeries
  <2>5. ASSUME NEW w \in writing, W!WriteFails(w) \/ W!WriteToClosed(w), tier' = [pc |-> "failed"]
        PROVE  TierTyped'
    BY <1>9, <2>5 DEF W!WriteFails, W!WriteToClosed
  <2> QED
    BY <1>10, <2>1, <2>2, <2>3, <2>4, <2>5 DEF TierWrite
<1>11. CASE TierEnd
  BY <1>9, <1>11 DEF TierEnd, TierDone, NoPass, warm, TierTyped
<1> QED
  BY <1>2, <1>3, <1>4, <1>6, <1>8, <1>10, <1>11 DEF Tiering

\* The steps of GetRange, and what the others do to it.
LEMMA CallStays ==
    ASSUME NEW Q, CallTyped(Q), Ids \subseteq Ids'
    PROVE  CallTyped(Q)'
BY StillPointed DEF CallTyped

LEMMA QueryStays ==
    ASSUME QueryTyped, Ids \subseteq Ids', query' = query,
           \A q \in Queries : readers'[q].pc # "idle" =>
               /\ readers[q].pc # "idle" /\ readers'[q].id = readers[q].id
               /\ readers'[q].from = readers[q].from /\ readers'[q].to = readers[q].to
    PROVE  QueryTyped'
<1> SUFFICES ASSUME NEW q \in Queries, NEW Q, Q = query[q]
             PROVE  CallTyped(Q)' /\ WorksFor(readers'[q], Q)
  BY DEF QueryTyped, WorksFor
<1>1. CallTyped(Q)
  BY DEF QueryTyped
<1> QED
  BY <1>1, CallStays DEF QueryTyped, WorksFor

\* One call takes a step.
LEMMA QueryMoves ==
    ASSUME QueryTyped, series' = series, NEW q \in Queries, NEW Q, NEW R,
           query' = [query EXCEPT ![q] = Q], readers' = [readers EXCEPT ![q] = R],
           DOMAIN readers = Queries, CallTyped(Q), WorksFor(R, Q)
    PROVE  QueryTyped'
<1>1. Ids \subseteq Ids'
  BY DEF Ids
<1>2. DOMAIN query' = Queries /\ query'[q] = Q /\ readers'[q] = R
  BY DEF QueryTyped
<1>3. ASSUME NEW u \in Queries, NEW P, P = query'[u]
      PROVE  CallTyped(P)' /\ WorksFor(readers'[u], P)
  <2>1. CASE u = q
    BY <1>1, <1>2, <1>3, <2>1, CallStays
  <2>2. CASE u # q
    <3>1. P = query[u] /\ readers'[u] = readers[u] /\ CallTyped(P) /\ WorksFor(readers[u], P)
      BY <1>3, <2>2 DEF QueryTyped
    <3> QED
      BY <1>1, <3>1, CallStays
  <2> QED
    BY <2>1, <2>2
<1> QED
  BY <1>2, <1>3 DEF QueryTyped, WorksFor

LEMMA ReadersTyped ==
    ASSUME WP!TypeInv
    PROVE  /\ readers \in [Queries -> {WP!Idle} \cup WP!Calls] /\ DOMAIN readers = Queries
           /\ \A q \in Queries : readers[q].pc # "idle" => readers[q] \in WP!Calls
BY DEF WP!TypeInv, WP!Typed, WP!Idle

LEMMA QueryReads ==
    ASSUME QueryTyped, SeriesInv, WP!TypeInv, NEW q \in Queries, Query(q)
    PROVE  QueryTyped'
<1> DEFINE Q == query[q]  R == readers[q]
<1>1. series' = series /\ DOMAIN readers = Queries /\ DOMAIN query = Queries
  BY ReadersTyped DEF Query, FindSeries, ReadHot, ReadWarm, Return, vars, QueryTyped
<1>2. CallTyped(Q) /\ WorksFor(R, Q)
  BY DEF QueryTyped
\* No step of the reader of the file tier.
<1>3. ASSUME NEW P, query' = [query EXCEPT ![q] = P], readers' = readers, CallTyped(P), R.pc = "idle"
      PROVE  QueryTyped'
  <2>1. readers' = [readers EXCEPT ![q] = R]
    BY <1>3, ReadersTyped
  <2>2. WorksFor(R, P)
    BY <1>3 DEF WorksFor
  <2> QED
    BY <1>1, <1>3, <2>1, <2>2, QueryMoves
<1>4. ASSUME NEW S, readers' = [readers EXCEPT ![q] = S], query' = query, WorksFor(S, Q)
      PROVE  QueryTyped'
  <2>1. query' = [query EXCEPT ![q] = Q]
    BY <1>4 DEF QueryTyped
  <2> QED
    BY <1>1, <1>2, <1>4, <2>1, QueryMoves
<1>5. ASSUME NEW id \in SeriesIds, NEW range \in Ranges, FindSeries(q, id, range) PROVE QueryTyped'
  <2> DEFINE found == [pc |-> "found", id |-> id, start |-> range[1], end |-> range[2], ptr |-> Live]
             none == [pc |-> "warm", id |-> id, start |-> range[1], end |-> range[2], hot |-> {}]
  <2>1. /\ Q.pc = "idle" /\ query' = [query EXCEPT ![q] = IF id \in Ids THEN found ELSE none]
        /\ readers' = readers
    BY <1>5 DEF FindSeries, warm
  <2>2. <<range[1], range[2]>> \in Ranges
    BY EngineAssumption
  <2>3. CallTyped(none)
    BY <2>2 DEF CallTyped
  <2>4. ASSUME id \in Ids PROVE CallTyped(found)
    <3>1. Pointed(id, Live)
      BY <2>4 DEF Pointed, Live
    <3> QED
      BY <2>2, <3>1 DEF CallTyped
  <2>5. R.pc = "idle"
    BY <1>2, <2>1 DEF WorksFor
  <2> HIDE DEF found, none
  <2> QED
    BY <1>3, <2>1, <2>3, <2>4, <2>5
<1>6. CASE ReadHot(q)
  <2> DEFINE P == [pc |-> "warm", id |-> Q.id, start |-> Q.start, end |-> Q.end,
                   hot |-> ToSet(GetRange(At(Q.id, Q.ptr).points, Q.start, Q.end))]
  <2>1. Q.pc = "found" /\ query' = [query EXCEPT ![q] = P] /\ readers' = readers
    BY <1>6 DEF ReadHot, warm
  <2>2. CallTyped(P) /\ R.pc = "idle"
    BY <1>2, <2>1 DEF CallTyped, WorksFor
  <2> HIDE DEF P
  <2> QED
    BY <1>3, <2>1, <2>2
<1>7. ASSUME NEW f, NEW S, Q.pc = "warm", S.pc = "idle", readers' = [readers EXCEPT ![q] = S],
             query' = [query EXCEPT ![q] =
                 [pc |-> "answered", id |-> Q.id, start |-> Q.start, end |-> Q.end, points |-> f]]
      PROVE  QueryTyped'
  <2> DEFINE P == [pc |-> "answered", id |-> Q.id, start |-> Q.start, end |-> Q.end, points |-> f]
  <2>1. CallTyped(P) /\ WorksFor(S, P)
    BY <1>2, <1>7 DEF CallTyped, WorksFor
  <2>2. query' = [query EXCEPT ![q] = P]
    BY <1>7
  <2> HIDE DEF P
  <2> QED
    BY <1>1, <1>7, <2>1, <2>2, QueryMoves
<1>8. CASE ReadWarm(q)
  <2>1. Q.pc = "warm"
    BY <1>8 DEF ReadWarm
  <2>2. CASE readers[q].pc = "idle" /\ Answer(q, Merged(Q.hot, {})) /\ UNCHANGED warm
    <3>1. readers' = [readers EXCEPT ![q] = R]
      BY <2>2, ReadersTyped DEF warm
    <3> QED
      BY <1>7, <2>1, <2>2, <3>1 DEF Answer
  <2>3. CASE W!Lookup(q, Q.id, Q.start, Q.end) /\ query' = query
    <3> DEFINE S == [pc |-> "found", live |-> TRUE, id |-> Q.id, from |-> Q.start, to |-> Q.end,
                     todo |-> {}, got |-> {}, want |-> {}]
    <3>1. readers' = [readers EXCEPT ![q] = S]
      BY <2>3 DEF W!Lookup
    <3>2. WorksFor(S, Q)
      BY <2>1 DEF WorksFor
    <3> HIDE DEF S
    <3> QED
      BY <1>4, <2>3, <3>1, <3>2
  <2>4. CASE (W!LockFile(q) \/ W!ReadBlock(q)) /\ query' = query
    <3>1. R.pc # "idle" /\ R \in WP!Calls
      BY <2>4, ReadersTyped DEF W!LockFile, W!ReadBlock, W!Reading
    <3>2. DOMAIN R = {"pc", "live", "id", "from", "to", "todo", "got", "want"}
      BY <3>1 DEF WP!Calls
    <3>3. \E S : readers' = [readers EXCEPT ![q] = S] /\ S.id = R.id /\ S.from = R.from /\ S.to = R.to
      <4>1. CASE W!LockFile(q)
        <5>1. \E todo, want : readers' = [readers EXCEPT ![q] =
                  [R EXCEPT !.pc = "reading", !.todo = todo, !.want = want]]
          BY <4>1 DEF W!LockFile
        <5>2. PICK todo, want : readers' = [readers EXCEPT ![q] =
                  [R EXCEPT !.pc = "reading", !.todo = todo, !.want = want]]
          BY <5>1
        <5> DEFINE S == [R EXCEPT !.pc = "reading", !.todo = todo, !.want = want]
        <5>3. S.id = R.id /\ S.from = R.from /\ S.to = R.to
          BY <3>2
        <5> QED
          BY <5>2, <5>3
      <4>2. CASE W!ReadBlock(q)
        <5>1. \E x, t, g : readers' = [readers EXCEPT ![q] = [R EXCEPT !.pc = x, !.todo = t, !.got = g]]
          <6> DEFINE found(e) == IF R.id \in DOMAIN disk
                        THEN W!BlocksAt(disk[R.id].parts, e.off + W!HeaderSize, e.len) ELSE {}
                     got(e) == R.got \cup W!InRange(UNION {W!Points(b) : b \in found(e)}, R.from, R.to)
          <6>1. PICK e \in R.todo : readers' = [readers EXCEPT ![q] =
                    IF found(e) = {} THEN [R EXCEPT !.pc = "failed", !.todo = {}]
                    ELSE [R EXCEPT !.todo = R.todo \ {e}, !.got = got(e)]]
            BY <4>2 DEF W!ReadBlock
          <6> HIDE DEF found, got
          <6>2. /\ [R EXCEPT !.pc = "failed", !.todo = {}] = [R EXCEPT !.pc = "failed", !.todo = {}, !.got = R.got]
                /\ \A g, t : [R EXCEPT !.todo = t, !.got = g] = [R EXCEPT !.pc = R.pc, !.todo = t, !.got = g]
            BY <3>1 DEF WP!Calls
          <6>3. CASE found(e) = {}
            <7>1. readers' = [readers EXCEPT ![q] = [R EXCEPT !.pc = "failed", !.todo = {}, !.got = R.got]]
              BY <6>1, <6>2, <6>3
            <7> QED
              BY <7>1
          <6>4. CASE found(e) # {}
            <7>1. readers' = [readers EXCEPT ![q] =
                    [R EXCEPT !.pc = R.pc, !.todo = R.todo \ {e}, !.got = got(e)]]
              BY <6>1, <6>2, <6>4
            <7> QED
              BY <7>1
          <6> QED
            BY <6>3, <6>4
        <5>2. PICK pc, todo, got : readers' = [readers EXCEPT ![q] =
                  [R EXCEPT !.pc = pc, !.todo = todo, !.got = got]]
          BY <5>1
        <5> DEFINE S == [R EXCEPT !.pc = pc, !.todo = todo, !.got = got]
        <5>3. S.id = R.id /\ S.from = R.from /\ S.to = R.to
          BY <3>2
        <5> QED
          BY <5>2, <5>3
      <4> QED
        BY <2>4, <4>1, <4>2
    <3>4. PICK S : readers' = [readers EXCEPT ![q] = S] /\ S.id = R.id /\ S.from = R.from /\ S.to = R.to
      BY <3>3
    <3>5. WorksFor(S, Q)
      BY <1>2, <2>1, <3>1, <3>4 DEF WorksFor
    <3> QED
      BY <1>4, <2>4, <3>4, <3>5
  <2>5. CASE W!Deliver(q) /\ Answer(q, Merged(Q.hot, readers[q].got))
    <3>1. readers' = [readers EXCEPT ![q] = W!Idle] /\ W!Idle.pc = "idle"
      BY <2>5 DEF W!Deliver, W!Idle
    <3> HIDE DEF W!Idle
    <3> QED
      BY <1>7, <2>1, <2>5, <3>1 DEF Answer
  <2>6. CASE W!Deliver(q) /\ query' = [query EXCEPT ![q] = [Q EXCEPT !.pc = "error"]]
    <3> DEFINE P == [Q EXCEPT !.pc = "error"]
    <3>1. readers' = [readers EXCEPT ![q] = W!Idle] /\ W!Idle.pc = "idle" /\ query' = [query EXCEPT ![q] = P]
      BY <2>6 DEF W!Deliver, W!Idle
    <3>2. CallTyped(P) /\ WorksFor(W!Idle, P)
      <4>1. DOMAIN Q = {"pc", "id", "start", "end", "hot"}
        BY <1>2, <2>1 DEF CallTyped
      <4>2. P.pc = "error" /\ P.id = Q.id /\ P.start = Q.start /\ P.end = Q.end /\ DOMAIN P = DOMAIN Q
        BY <4>1
      <4> HIDE DEF P, W!Idle
      <4> QED
        BY <1>2, <2>1, <3>1, <4>1, <4>2 DEF CallTyped, WorksFor
    <3> HIDE DEF P, W!Idle
    <3> QED
      BY <1>1, <3>1, <3>2, QueryMoves
  <2> QED
    BY <1>8, <2>2, <2>3, <2>4, <2>5, <2>6 DEF ReadWarm
<1>9. CASE Return(q)
  <2>1. Q.pc \in {"answered", "error"} /\ query' = [query EXCEPT ![q] = [pc |-> "idle"]] /\ readers' = readers
    BY <1>9 DEF Return, warm, NoQuery
  <2>2. CallTyped([pc |-> "idle"]) /\ R.pc = "idle"
    BY <1>2, <2>1 DEF CallTyped, WorksFor
  <2> QED
    BY <1>3, <2>1, <2>2
<1> QED
  BY <1>5, <1>6, <1>8, <1>9 DEF Query

(***************************************************************************)
(* The file tier: every step of the engine is one of its own, or none.     *)
(***************************************************************************)
LEMMA WarmSteps ==
    ASSUME EngineTyped, [EngineNext]_all
    PROVE  [WP!Next]_(WP!vars)
<1> USE DEF WP!vars, WP!warm, WP!bounded
<1>1. ASSUME UNCHANGED <<warm, now>> PROVE UNCHANGED WP!vars
  BY <1>1 DEF warm
<1>2. CASE AddPoint
  BY <1>1, <1>2 DEF AddPoint, BeginAdd, EndAdd
<1>3. CASE Tiering
  <2>1. CASE TierWrite
    <3>1. CASE tier.pc = "copied" /\ (W!BeginWrite(tier.id, tier.block) \/ W!OpenFails(tier.id))
      <4>1. tier.id \in SeriesIds /\ tier.block \in TierBlocks
        BY <3>1 DEF EngineTyped, TierTyped, InPass, OnSeries
      <4>2. WP!BeginWrite(tier.id, tier.block) \/ WP!OpenFails(tier.id)
        BY <3>1, SameBegin, SameOpenFails
      <4>3. WP!Write
        BY <4>1, <4>2 DEF WP!Write, TierBlocks
      <4> QED
        BY <4>3 DEF WP!Next
    <3>2. ASSUME NEW w \in writing,
                 W!WriteHeader(w) \/ W!WriteData(w) \/ W!WriteFails(w) \/ W!WriteToClosed(w)
          PROVE  WP!Next
      <4>1. WP!WriteHeader(w) \/ WP!WriteData(w) \/ WP!WriteFails(w) \/ WP!WriteToClosed(w)
        BY <3>2, SameWrite
      <4>2. WP!Write
        BY <4>1 DEF WP!Write
      <4> QED
        BY <4>2 DEF WP!Next
    <3> QED
      BY <2>1, <3>1, <3>2 DEF TierWrite
  <2>2. CASE ~TierWrite
    <3>1. UNCHANGED <<warm, vars>>
      BY <1>3, <2>2 DEF Tiering, TierList, TierSelect, TierMove, TierSize, TierCopy, TierEnd
    <3> QED
      BY <1>1, <3>1 DEF vars
  <2> QED
    BY <2>1, <2>2
<1>4. CASE CleanHot
  BY <1>1, <1>4 DEF CleanHot, CleanupStale, RemoveStale, vars
<1>5. CASE CleanWarm
  <2>1. CASE W!CleanupExpired
    <3>1. WP!CleanupExpired
      BY <2>1, SameUpkeep
    <3> QED
      BY <3>1 DEF WP!Next
  <2> QED
    BY <1>1, <1>5, <2>1 DEF CleanWarm
<1>6. ASSUME NEW q \in Queries, Query(q) PROVE [WP!Next]_(WP!vars)
  <2>1. now' = now
    BY <1>6 DEF Query, FindSeries, ReadHot, ReadWarm, Return, vars
  <2>2. CASE ReadWarm(q)
    <3> DEFINE Q == query[q]
    <3>1. Q.id \in SeriesIds /\ <<Q.start, Q.end>> \in Ranges
      BY <2>2 DEF ReadWarm, EngineTyped, QueryTyped, CallTyped
    <3>2. CASE W!Lookup(q, Q.id, Q.start, Q.end)
      <4>1. WP!Lookup(q, Q.id, <<Q.start, Q.end>>[1], <<Q.start, Q.end>>[2])
        BY <3>2, SameRead
      <4>2. WP!Read(q)
        BY <3>1, <4>1, Zenon DEF WP!Read
      <4> QED
        BY <4>2 DEF WP!Next
    <3>3. CASE W!LockFile(q) \/ W!ReadBlock(q) \/ W!Deliver(q)
      <4>1. WP!Read(q)
        BY <3>3, SameRead DEF WP!Read
      <4> QED
        BY <4>1 DEF WP!Next
    <3> QED
      BY <1>1, <2>1, <2>2, <3>2, <3>3 DEF ReadWarm
  <2>3. CASE ~ReadWarm(q)
    BY <1>1, <1>6, <2>1, <2>3 DEF Query, FindSeries, ReadHot, Return
  <2> QED
    BY <2>2, <2>3
<1>7. CASE EndTiering
  BY <1>1, <1>7 DEF EndTiering, EndWorker, vars
<1>8. CASE EndCleanup
  <2>1. now' = now
    BY <1>8 DEF EndCleanup, EndWorker, vars
  <2>2. W!Close => WP!Next
    BY SameUpkeep DEF WP!Next
  <2> QED
    BY <1>1, <1>8, <2>1, <2>2 DEF EndCleanup
<1>9. CASE EngineTick
  <2>1. WP!Tick
    BY <1>9 DEF EngineTick, Tick, warm, WP!Tick
  <2> QED
    BY <2>1 DEF WP!Next
<1>10. CASE UNCHANGED all
  BY <1>1, <1>10 DEF all, vars
<1> QED
  BY <1>2, <1>3, <1>4, <1>5, <1>6, <1>7, <1>8, <1>9, <1>10 DEF EngineNext

(***************************************************************************)
(* The types, step by step.                                                *)
(***************************************************************************)
LEMMA EngineTypeStep ==
    ASSUME EngineTyped, [EngineNext]_all
    PROVE  EngineTyped'
<1> USE DEF EngineTyped
<1>1. SeriesInv'
  BY HotSteps, HotStep
<1>2. [WP!Next]_(WP!vars)
  BY WarmSteps
<1>3. WP!TypeInv'
  BY <1>2, WarmAssumed, WP!TypeStep
<1>4. restarts' = 0
  <2>1. ~WP!Restart
    BY DEF WP!Restart
  <2>2. restarts' = restarts
    BY <1>2, <2>1 DEF WP!Next, WP!vars, WP!bounded, WP!Write, WP!OpenFails, WP!BeginWrite, WP!WriteHeader,
       WP!WriteData, WP!WriteFails, WP!WriteToClosed, WP!Read, WP!Lookup, WP!LockFile, WP!ReadBlock,
       WP!Deliver, WP!CleanupExpired, WP!RemoveExpired, WP!Close, WP!Tick
  <2> QED
    BY <2>2
<1>5. ASSUME UNCHANGED <<tier, series, writing>> PROVE TierTyped'
  BY <1>5, TierStays DEF TierTyped
<1>6. TierTyped'
  <2>1. CASE AddPoint \/ CleanHot \/ CleanWarm
    BY <2>1, TierKeptHot
  <2>2. CASE Tiering
    BY <2>2, TierPasses
  <2>3. ASSUME NEW q \in Queries, Query(q) PROVE UNCHANGED <<tier, series, writing>>
    BY <2>3 DEF Query, FindSeries, ReadHot, ReadWarm, Return, vars, warm, W!Lookup, W!LockFile,
                W!ReadBlock, W!Deliver
  <2>4. CASE EndTiering \/ EndCleanup \/ EngineTick \/ UNCHANGED all
    <3>1. UNCHANGED <<tier, series, writing>>
      BY <2>4 DEF EndTiering, EndCleanup, EndWorker, EngineTick, Tick, all, vars, warm, engine, W!Close
    <3> QED
      BY <1>5, <3>1
  <2> QED
    BY <1>5, <2>1, <2>2, <2>3, <2>4 DEF EngineNext
<1>7. QueryTyped'
  <2>1. CASE \E q \in Queries : Query(q)
    BY <2>1, QueryReads
  <2>2. ASSUME query' = query, readers' = readers, Ids \subseteq Ids' PROVE QueryTyped'
    BY <2>2, QueryStays
  <2>3. CASE AddPoint
    <3>1. Ids \subseteq Ids'
      <4>1. PICK id \in SeriesIds, p \in Points : BeginAdd(id, p) \/ EndAdd(id, p)
        BY <2>3 DEF AddPoint
      <4>2. \/ \E s : series' = With(series, id, s)
            \/ \E s : series' = [series EXCEPT ![id] = s]
        BY <4>1 DEF BeginAdd, EndAdd
      <4>3. \A s : Ids \subseteq DOMAIN With(series, id, s) /\ Ids \subseteq DOMAIN [series EXCEPT ![id] = s]
        BY DEF Ids, With
      <4> QED
        BY <4>2, <4>3 DEF Ids
    <3> QED
      BY <2>2, <2>3, <3>1 DEF AddPoint, warm
  <2>4. CASE Tiering
    <3>1. UNCHANGED <<query, readers, series>>
      BY <2>4 DEF Tiering, TierList, TierSelect, TierMove, TierSize, TierCopy, TierWrite, TierEnd, vars, warm,
                  W!BeginWrite, W!OpenFails, W!WriteHeader, W!WriteData, W!WriteFails, W!WriteToClosed
    <3> QED
      BY <2>2, <3>1 DEF Ids
  <2>5. CASE CleanHot
    <3>1. Ids' = Ids \ Stale /\ readers' = readers
      BY <2>5 DEF CleanHot, CleanupStale, RemoveStale, vars, Ids, warm
    <3>2. query' = [q \in Queries |->
           IF "ptr" \in DOMAIN query[q]
           THEN [query[q] EXCEPT !.ptr = Kept(query[q].id, query[q].ptr, Stale)] ELSE query[q]]
      BY <2>5 DEF CleanHot
    <3>3. ASSUME NEW q \in Queries, NEW P, P = query'[q] PROVE CallTyped(P)' /\ WorksFor(readers'[q], P)
      <4> DEFINE Q == query[q]  ptr == Kept(Q.id, Q.ptr, Stale)
      <4>1. CallTyped(Q) /\ WorksFor(readers[q], Q)
        BY DEF QueryTyped
      <4>2. CASE Q.pc = "found"
        <5>1. DOMAIN Q = {"pc", "id", "start", "end", "ptr"} /\ Pointed(Q.id, Q.ptr)
          BY <4>1, <4>2 DEF CallTyped
        <5>2. P = [Q EXCEPT !.ptr = ptr]
          BY <3>2, <3>3, <5>1
        <5> HIDE DEF ptr
        <5>3. P.pc = "found" /\ P.id = Q.id /\ P.start = Q.start /\ P.end = Q.end /\ P.ptr = ptr
              /\ DOMAIN P = DOMAIN Q
          BY <4>2, <5>1, <5>2
        <5>4. Pointed(P.id, P.ptr)'
          BY <3>1, <5>1, <5>3, KeptPointed DEF ptr
        <5> QED
          BY <3>1, <4>1, <4>2, <5>1, <5>3, <5>4 DEF CallTyped, WorksFor
      <4>3. CASE Q.pc # "found"
        <5>1. P = Q
          BY <3>2, <3>3, <4>1, <4>3 DEF CallTyped
        <5> QED
          BY <3>1, <4>1, <4>3, <5>1 DEF CallTyped, WorksFor
      <4> QED
        BY <4>2, <4>3
    <3>4. query' = [q \in Queries |-> query'[q]]
      BY <3>2
    <3> QED
      BY <3>3, <3>4 DEF QueryTyped
  <2>6. CASE CleanWarm
    <3>1. query' = query /\ Ids' = Ids
      BY <2>6 DEF CleanWarm, vars, Ids
    <3>2. CASE W!CleanupExpired
      <4>1. PICK gone : readers' = W!Detached(gone)
        BY <3>2 DEF W!CleanupExpired, W!RemoveExpired
      <4>2. ASSUME NEW q \in Queries
            PROVE  readers'[q].pc # "idle" =>
               /\ readers[q].pc # "idle" /\ readers'[q].id = readers[q].id
               /\ readers'[q].from = readers[q].from /\ readers'[q].to = readers[q].to
        <5> DEFINE R == readers[q]
        <5>1. readers'[q] = R \/ \E todo : R.live /\ readers'[q] = [R EXCEPT !.live = FALSE, !.todo = todo]
          BY <4>1 DEF W!Detached
        <5>2. R = WP!Idle \/ R \in WP!Calls
          BY ReadersTyped
        <5>3. R.live => DOMAIN R = {"pc", "live", "id", "from", "to", "todo", "got", "want"}
          BY <5>2 DEF WP!Idle, WP!Calls
        <5> QED
          BY <5>1, <5>3
      <4> QED
        BY <3>1, <4>2, QueryStays
    <3>3. CASE ~W!CleanupExpired
      BY <2>2, <2>6, <3>1, <3>3 DEF CleanWarm, warm
    <3> QED
      BY <3>2, <3>3
  <2>7. CASE EndTiering \/ EndCleanup \/ EngineTick \/ UNCHANGED all
    <3>1. UNCHANGED <<query, series, readers>>
      BY <2>7 DEF EndTiering, EndCleanup, EndWorker, EngineTick, Tick, all, vars, warm, engine, W!Close
    <3> QED
      BY <2>2, <3>1 DEF Ids
  <2> QED
    BY <2>1, <2>3, <2>4, <2>5, <2>6, <2>7 DEF EngineNext
<1>8. StopTyped'
  <2>1. ASSUME UNCHANGED <<cleaner, phase, tier, files>> PROVE StopTyped'
    BY <2>1 DEF StopTyped
  <2>2. ASSUME phase = "running" \/ (phase = "tieringEnded" /\ tier'.pc = "idle"), phase' = phase, cleaner' \in BOOLEAN PROVE StopTyped'
    BY <2>2 DEF StopTyped
  <2>3. CASE AddPoint
    <3>1. UNCHANGED <<cleaner, phase, files>> /\ (tier.pc = "idle" => tier'.pc = "idle")
      <4>1. \E S : tier' = Forget(S)
        BY <2>3 DEF AddPoint
      <4>2. tier.pc = "idle" => "due" \notin DOMAIN tier
        BY DEF TierTyped, InPass, OnSeries
      <4> QED
        BY <2>3, <4>1, <4>2 DEF AddPoint, warm, Forget
    <3> QED
      BY <3>1 DEF StopTyped
  <2>4. CASE Tiering
    <3>1. cleaner' = cleaner /\ phase' = phase
      BY <2>4 DEF Tiering, TierList, TierSelect, TierMove, TierSize, TierCopy, TierWrite, TierEnd
    <3>2. phase = "running"
      BY <2>4 DEF Tiering, TierList, TierSelect, TierMove, TierSize, TierCopy, TierWrite, TierEnd, TierDone,
                  StopTyped, TierTyped
    <3> QED
      BY <3>1, <3>2 DEF StopTyped
  <2>5. CASE CleanHot
    <3>1. /\ cleaner' = TRUE /\ phase' = phase /\ phase # "stopped"
          /\ tier.pc = "idle" => tier'.pc = "idle"
      BY <2>5 DEF CleanHot, TierTyped, InPass, OnSeries
    <3> QED
      BY <3>1 DEF StopTyped
  <2>6. CASE CleanWarm
    <3>1. /\ cleaner /\ cleaner' = FALSE /\ phase' = phase
          /\ tier.pc = "idle" => tier'.pc = "idle"
      BY <2>6 DEF CleanWarm, TierTyped, InPass, OnSeries, Forget
    <3> QED
      BY <3>1 DEF StopTyped
  <2>7. ASSUME NEW q \in Queries, Query(q) PROVE StopTyped'
    <3>1. UNCHANGED <<tier, cleaner, phase, files>>
      BY <2>7 DEF Query, FindSeries, ReadHot, ReadWarm, Return, vars, warm, W!Lookup, W!LockFile,
                  W!ReadBlock, W!Deliver
    <3> QED
      BY <2>1, <3>1
  <2>8. CASE EndTiering
    BY <2>8 DEF EndTiering, EndWorker, warm, StopTyped
  <2>9. CASE EndCleanup
    <3>1. /\ ~cleaner /\ phase = "tieringEnded" /\ phase' = "stopped" /\ UNCHANGED <<tier, cleaner>>
      BY <2>9 DEF EndCleanup, EndWorker
    <3>2. \A id \in DOMAIN files' : files'[id].handle # "open"
      <4>1. CASE W!Close
        <5> SUFFICES ASSUME NEW id \in DOMAIN files PROVE files'[id].handle # "open"
          BY <4>1 DEF W!Close
        <5>1. files[id] \in WP!WarmFiles
          BY DEF WP!TypeInv, WP!Typed
        <5>2. files'[id] = [files[id] EXCEPT !.handle = IF files[id].handle = "open" THEN "closed" ELSE files[id].handle]
          BY <4>1 DEF W!Close
        <5> QED
          BY <5>1, <5>2 DEF WP!WarmFiles
      <4>2. CASE ~W!Close
        BY <2>9, <4>2 DEF EndCleanup, warm
      <4> QED
        BY <4>1, <4>2
    <3> QED
      BY <3>1, <3>2 DEF StopTyped
  <2>10. CASE EngineTick \/ UNCHANGED all
    BY <2>1, <2>10 DEF EngineTick, all, warm, engine
  <2> QED
    BY <2>3, <2>4, <2>5, <2>6, <2>7, <2>8, <2>9, <2>10 DEF EngineNext
<1> QED
  BY <1>1, <1>3, <1>4, <1>6, <1>7, <1>8

LEMMA EngineTypes == EngineSpec => []EngineTyped
<1>1. EngineInit => EngineTyped
  <2> SUFFICES ASSUME EngineInit PROVE EngineTyped
    OBVIOUS
  <2>1. SeriesInv
    BY HotInit DEF EngineInit
  <2>2. WP!Init
    BY DEF EngineInit, W!Init, WP!Init, W!Idle, WP!Idle
  <2>3. WP!TypeInv
    BY <2>2, WarmAssumed, WP!TypeInit
  <2>4. restarts = 0
    BY DEF EngineInit, W!Init
  <2> QED
    BY <2>1, <2>3, <2>4, EngineTypeInit DEF EngineTyped
<1>2. EngineTyped /\ [EngineNext]_all => EngineTyped'
  BY EngineTypeStep
<1> QED
  BY <1>1, <1>2, PTL DEF EngineSpec

\* The file tier of a running engine is a WarmStorage whose only writer is the
\* tiering worker and whose readers are the callers of GetRange: all that is
\* proved of WarmStorage holds of it.
THEOREM EngineKeepsWarm == EngineSpec => WP!Spec
<1>1. EngineInit => WP!Init
  BY DEF EngineInit, W!Init, WP!Init, W!Idle, WP!Idle
<1>2. EngineTyped /\ [EngineNext]_all => [WP!Next]_(WP!vars)
  BY WarmSteps
<1> QED
  BY <1>1, <1>2, EngineTypes, PTL DEF EngineSpec, WP!Spec

\* The workers, the callers and both tiers are in the states they may be in: a
\* write is under way only in a pass, a reader of the file tier only in a call,
\* no pass outlives the tiering worker and no handle the clean-up worker (Stop).
THEOREM EngineWellTyped == EngineSpec => []EngineTypeOK
<1>1. EngineTyped => EngineTypeOK
  <2> SUFFICES ASSUME EngineTyped PROVE EngineTypeOK
    OBVIOUS
  <2>1. SeriesTyped
    BY SeriesBySeries DEF EngineTyped, HotInv
  <2>2. W!TypeOK
    <3>1. WP!TypeOK
      BY DEF EngineTyped, WP!TypeInv
    <3> QED
      BY <3>1 DEF W!TypeOK, WP!TypeOK, W!Entries, WP!Entries
  <2> QED
    BY <2>1, <2>2 DEF EngineTypeOK, EngineTyped, TierTyped, QueryTyped, CallTyped, WorksFor, StopTyped
<1> QED
  BY <1>1, EngineTypes, PTL

(***************************************************************************)
(* A pass of performTiering.                                               *)
(***************************************************************************)

\* The points of the series a pointer of the pass leads to.
Pointee(id) == At(id, tier.ptr[id]).points

\* The points in S have been written to the file of id, or the file is damaged.
Safe(id, S) == \/ S \subseteq OnDisk(id)
               \/ id \in DOMAIN disk /\ ~W!Intact(disk[id].parts)

\* What the pass still owes, and what it has done: a series it found stale is as
\* it was as long as the pass has not come to it; then its points go from step
\* to step, until they are in the file.
TierHolds ==
    InPass =>
        /\ \A id \in DOMAIN tier.due \cap tier.todo : tier.due[id] = ToSet(Pointee(id))
        /\ tier.pc = "sized" /\ tier.id \in DOMAIN tier.due => tier.size = Len(Pointee(tier.id))
        /\ tier.pc = "copied" /\ tier.id \in DOMAIN tier.due => tier.due[tier.id] \subseteq ToSet(tier.block)
        /\ \A w \in writing : tier.id \in DOMAIN tier.due => tier.due[tier.id] \subseteq ToSet(w.block)
        /\ \A id \in DOMAIN tier.due \ tier.todo : Safe(id, tier.due[id])

\* A step of another process keeps it, if it lets the pass forget what it changes.
LEMMA HoldsOn ==
    ASSUME EngineTyped, EngineTyped', TierHolds, InPass, writing' = writing,
           DOMAIN tier'.due \subseteq DOMAIN tier.due,
           \A id \in DOMAIN tier'.due : tier'.due[id] = tier.due[id],
           \A x \in DOMAIN tier : x \notin {"due", "ptr"} => tier'[x] = tier[x],
           \A id \in DOMAIN tier'.due : Pointee(id)' = Pointee(id),
           \A id \in DOMAIN tier'.due : disk' = disk \/ id \notin DOMAIN disk \/
               (id \in DOMAIN disk' /\ disk'[id] = disk[id]),
           DOMAIN disk' \subseteq DOMAIN disk
    PROVE  TierHolds'
<1>1. /\ tier'.pc = tier.pc /\ tier'.todo = tier.todo
      /\ OnSeries => tier'.id = tier.id /\ tier'.size = tier.size /\ tier'.block = tier.block
  BY DEF EngineTyped, TierTyped
<1>2. ASSUME NEW id \in DOMAIN tier'.due, NEW S, Safe(id, S) PROVE Safe(id, S)'
  <2>1. CASE id \in DOMAIN disk'
    <3>1. id \in DOMAIN disk /\ disk'[id] = disk[id]
      BY <1>2, <2>1
    <3> QED
      BY <1>2, <2>1, <3>1 DEF Safe, OnDisk
  <2>2. CASE id \notin DOMAIN disk'
    <3>1. id \notin DOMAIN disk
      BY <1>2, <2>2
    <3> QED
      BY <1>2, <2>2, <3>1 DEF Safe, OnDisk
  <2> QED
    BY <2>1, <2>2
<1>3. ASSUME NEW id \in DOMAIN tier'.due \cap tier'.todo
      PROVE  tier'.due[id] = ToSet(Pointee(id)')
  BY <1>1, <1>3 DEF TierHolds
<1>4. tier'.pc = "sized" /\ tier'.id \in DOMAIN tier'.due => tier'.size = Len(Pointee(tier.id)')
  BY <1>1 DEF TierHolds, OnSeries
<1>5. tier'.pc = "sized" => tier'.id = tier.id
  BY <1>1 DEF OnSeries
<1>6. /\ tier'.pc = "copied" /\ tier'.id \in DOMAIN tier'.due => tier'.due[tier'.id] \subseteq ToSet(tier'.block)
      /\ \A w \in writing' : tier'.id \in DOMAIN tier'.due => tier'.due[tier'.id] \subseteq ToSet(w.block)
  <2>1. writing # {} => OnSeries
    BY DEF EngineTyped, TierTyped, OnSeries
  <2> QED
    BY <1>1, <2>1 DEF TierHolds, OnSeries
<1>7. ASSUME NEW id \in DOMAIN tier'.due \ tier'.todo, NEW S, S = tier'.due[id] PROVE Safe(id, S)'
  BY <1>1, <1>2, <1>7 DEF TierHolds
<1>8. tier'.pc = "sized" /\ tier'.id \in DOMAIN tier'.due => tier'.size = Len(Pointee(tier.id))'
  <2> SUFFICES ASSUME tier'.pc = "sized", tier'.id \in DOMAIN tier'.due, NEW i, i = tier'.id
               PROVE  tier'.size = Len(Pointee(i)')
    OBVIOUS
  <2> QED
    BY <1>4, <1>5
<1> QED
  BY <1>3, <1>6, <1>7, <1>8 DEF TierHolds

\* AddPoint and the clean-up worker.
LEMMA HoldsOthers ==
    ASSUME EngineTyped, EngineTyped', TierHolds, AddPoint \/ CleanHot \/ CleanWarm
    PROVE  TierHolds'
<1>1. CASE ~InPass
  <2>1. tier' = tier
    BY <1>1 DEF AddPoint, CleanHot, CleanWarm, Forget, EngineTyped, TierTyped, InPass, OnSeries
  <2> QED
    BY <1>1, <2>1 DEF TierHolds, InPass
<1>2. CASE InPass
  <2>1. /\ writing' = writing /\ {"due", "ptr"} \subseteq DOMAIN tier
        /\ \A id \in DOMAIN tier.ptr : Pointed(id, tier.ptr[id])
        /\ DOMAIN tier.ptr \subseteq SeriesIds /\ DOMAIN tier.due \subseteq DOMAIN tier.ptr
    BY <1>2 DEF AddPoint, CleanHot, CleanWarm, warm, W!CleanupExpired, W!RemoveExpired, EngineTyped, TierTyped
  <2>2. ASSUME NEW S, tier' = Forget(S)
        PROVE  /\ DOMAIN tier'.due = DOMAIN tier.due \ S /\ tier'.ptr = tier.ptr
               /\ \A id \in DOMAIN tier'.due : tier'.due[id] = tier.due[id]
               /\ \A x \in DOMAIN tier : x \notin {"due", "ptr"} => tier'[x] = tier[x]
    <3> DEFINE due == [id \in DOMAIN tier.due \ S |-> tier.due[id]]
    <3>1. tier' = [tier EXCEPT !.due = due]
      BY <2>1, <2>2 DEF Forget
    <3>2. DOMAIN due = DOMAIN tier.due \ S /\ \A id \in DOMAIN due : due[id] = tier.due[id]
      OBVIOUS
    <3> HIDE DEF due
    <3> QED
      BY <2>1, <3>1, <3>2
  <2>3. CASE AddPoint
    <3> DEFINE S == {id \in SeriesIds : /\ \E a \in adding \cup adding' : a[1] = id
                                        /\ id \in DOMAIN tier.ptr /\ tier.ptr[id].live}
    <3>1. tier' = Forget(S) /\ disk' = disk
      BY <2>3 DEF AddPoint, warm
    <3>2. PICK x \in SeriesIds, p \in Points : BeginAdd(x, p) \/ EndAdd(x, p)
      BY <2>3 DEF AddPoint
    <3>3. \E a \in adding \cup adding' : a[1] = x
      <4>1. <<x, p>> \in adding \cup adding' /\ <<x, p>>[1] = x
        BY <3>2 DEF BeginAdd, EndAdd
      <4> QED
        BY <4>1, Zenon
    <3>4. ASSUME NEW id \in Ids, id # x PROVE series'[id] = series[id]
      <4>1. (\E s : series' = With(series, x, s)) \/ \E s : series' = [series EXCEPT ![x] = s]
        BY <3>2 DEF BeginAdd, EndAdd
      <4> QED
        BY <3>4, <4>1 DEF With, Ids
    <3>5. ASSUME NEW id \in DOMAIN tier'.due PROVE Pointee(id)' = Pointee(id)
      <4>1. id \in DOMAIN tier.ptr /\ id \in SeriesIds /\ id \notin S
        BY <2>1, <2>2, <3>1, <3>5
      <4>2. tier.ptr[id].live => id # x /\ id \in Ids
        BY <2>1, <3>3, <4>1 DEF Pointed
      <4>3. At(id, tier.ptr[id])' = At(id, tier.ptr[id])
        BY <2>2, <3>1, <3>4, <4>2 DEF At
      <4> QED
        BY <4>3 DEF Pointee
    <3> HIDE DEF S
    <3> QED
      BY <1>2, <2>1, <2>2, <3>1, <3>5, HoldsOn
  <2>4. CASE CleanWarm
    <3>1. tier' = Forget(DOMAIN disk \ DOMAIN disk') /\ series' = series
      BY <2>4 DEF CleanWarm, vars
    <3>2. DOMAIN disk' \subseteq DOMAIN disk /\ \A id \in DOMAIN disk' : disk'[id] = disk[id]
      <4>1. CASE W!CleanupExpired
        <5>1. WP!CleanupExpired
          BY <4>1, SameUpkeep
        <5>2. PICK gone \in SUBSET (WP!Expired \cap DOMAIN disk) :
                 DOMAIN disk' = DOMAIN disk \ gone /\ \A id \in DOMAIN disk' : disk'[id] = disk[id]
          BY <5>1, WP!RemoveEffect, WarmAssumed DEF EngineTyped
        <5> QED
          BY <5>2
      <4>2. CASE ~W!CleanupExpired
        BY <2>4, <4>2 DEF CleanWarm, warm
      <4> QED
        BY <4>1, <4>2
    <3>3. ASSUME NEW id \in DOMAIN tier'.due
          PROVE  Pointee(id)' = Pointee(id) /\ (id \notin DOMAIN disk \/ id \in DOMAIN disk')
      BY <2>2, <3>1, <3>3 DEF Pointee, At
    <3> QED
      BY <1>2, <2>1, <2>2, <3>1, <3>2, <3>3, HoldsOn
  <2>5. CASE CleanHot
    <3> DEFINE ptr == [id \in DOMAIN tier.ptr |-> Kept(id, tier.ptr[id], Stale)]
    <3>1. tier' = [tier EXCEPT !.ptr = ptr] /\ disk' = disk
      BY <2>1, <2>5 DEF CleanHot, warm
    <3>2. ASSUME NEW id \in DOMAIN tier.ptr PROVE ptr[id] = Kept(id, tier.ptr[id], Stale)
      BY <3>2
    <3> HIDE DEF ptr
    <3>3. /\ tier'.ptr = ptr /\ tier'.due = tier.due
          /\ \A x \in DOMAIN tier : x # "ptr" => tier'[x] = tier[x]
      BY <2>1, <3>1
    <3>4. \A id \in Ids \ Stale : series'[id] = series[id]
      BY <2>5 DEF CleanHot, CleanupStale, RemoveStale, vars
    <3>5. ASSUME NEW id \in DOMAIN tier'.due PROVE Pointee(id)' = Pointee(id)
      <4> DEFINE p == tier.ptr[id]
      <4>1. Pointed(id, p) /\ tier'.ptr[id] = Kept(id, p, Stale)
        BY <2>1, <3>2, <3>3, <3>5
      <4>2. At(id, tier.ptr[id])' = At(id, p)
        <5>1. CASE p.live /\ id \in Stale
          BY <4>1, <5>1 DEF Kept, At
        <5>2. CASE ~(p.live /\ id \in Stale)
          BY <3>4, <4>1, <5>2 DEF Kept, At, Pointed
        <5> QED
          BY <5>1, <5>2
      <4> QED
        BY <4>2 DEF Pointee
    <3> QED
      BY <1>2, <2>1, <3>1, <3>3, <3>5, HoldsOn
  <2> QED
    BY <2>3, <2>4, <2>5
<1> QED
  BY <1>1, <1>2

LEMMA HoldsPass ==
    ASSUME EngineTyped, EngineTyped', TierHolds, Tiering
    PROVE  TierHolds'
<1>1. series' = series
  BY DEF Tiering, TierList, TierSelect, TierMove, TierSize, TierCopy, TierWrite, TierEnd, vars
<1>2. CASE ~InPass'
  BY <1>2 DEF TierHolds, InPass
<1>3. ASSUME NEW id, NEW S, Safe(id, S), id \in DOMAIN disk => id \in DOMAIN disk' /\ disk'[id] = disk[id],
             id \notin DOMAIN disk => id \notin DOMAIN disk'
      PROVE  Safe(id, S)'
  BY <1>3 DEF Safe, OnDisk
<1>4. ASSUME disk' = disk, NEW id, NEW S, Safe(id, S) PROVE Safe(id, S)'
  BY <1>4 DEF Safe, OnDisk
<1>5. ASSUME NEW id, tier'.ptr[id] = tier.ptr[id] PROVE Pointee(id)' = Pointee(id)
  BY <1>1, <1>5 DEF Pointee, At
<1>6. ASSUME NEW id \in SeriesIds, TierSelect(id) PROVE TierHolds'
  <2> DEFINE s == At(id, tier.ptr[id])  stale == s.lastSeen < tier.cutoff /\ s.points # <<>>
             todo == IF stale THEN tier.todo \cup {id} ELSE tier.todo
             due == IF stale THEN With(tier.due, id, ToSet(s.points)) ELSE tier.due
  <2>1. /\ tier.pc = "listed" /\ writing' = writing /\ writing = {} /\ disk' = disk
        /\ tier' = [tier EXCEPT !.unseen = tier.unseen \ {id}, !.todo = todo, !.due = due]
    BY <1>6 DEF TierSelect, warm, EngineTyped, TierTyped
  <2>2. DOMAIN tier = {"pc", "cutoff", "unseen", "todo", "ptr", "due"} /\ DOMAIN tier.due \subseteq tier.todo
    BY <2>1 DEF EngineTyped, TierTyped, InPass, OnSeries
  <2>3. /\ DOMAIN due \subseteq todo
        /\ \A i \in DOMAIN due : due[i] = IF stale /\ i = id THEN ToSet(s.points) ELSE tier.due[i]
        /\ \A i \in DOMAIN due : i \in DOMAIN tier.due \/ (stale /\ i = id)
    <3> DEFINE T == ToSet(s.points)
    <3> HIDE DEF s, stale, T
    <3>1. /\ DOMAIN With(tier.due, id, T) = DOMAIN tier.due \cup {id}
          /\ \A i \in DOMAIN tier.due \cup {id} :
                With(tier.due, id, T)[i] = IF i = id THEN T ELSE tier.due[i]
      BY DEF With
    <3>2. due = IF stale THEN With(tier.due, id, T) ELSE tier.due
      BY DEF T
    <3> HIDE DEF due
    <3>3. CASE stale
      <4>1. due = With(tier.due, id, T)
        BY <3>2, <3>3
      <4>2. DOMAIN due = DOMAIN tier.due \cup {id} /\ todo = tier.todo \cup {id}
        BY <3>1, <3>3, <4>1
      <4>3. \A i \in DOMAIN due : due[i] = IF i = id THEN T ELSE tier.due[i]
        BY <3>1, <4>1, <4>2
      <4> QED
        BY <2>2, <3>3, <4>2, <4>3 DEF T
    <3>4. CASE ~stale
      BY <2>2, <3>2, <3>4
    <3> QED
      BY <3>3, <3>4
  <2>4. s.points = Pointee(id)
    BY DEF Pointee
  <2> HIDE DEF todo, due, s, stale
  <2>5. tier'.pc = "listed" /\ tier'.todo = todo /\ tier'.due = due /\ tier'.ptr = tier.ptr
    BY <2>1, <2>2
  <2>6. \A i \in DOMAIN due : due[i] = ToSet(Pointee(i))
    BY <2>1, <2>2, <2>3, <2>4 DEF TierHolds, InPass
  <2>7. \A i \in DOMAIN due : due[i] = ToSet(Pointee(i)')
    BY <1>5, <2>5, <2>6
  <2> QED
    BY <2>1, <2>3, <2>5, <2>7 DEF TierHolds
<1>7. CASE TierMove
  <2>1. /\ tier.pc = "listed" /\ writing' = writing /\ writing = {}
        /\ tier' = [pc |-> "next", todo |-> tier.todo,
                    ptr |-> [id \in tier.todo |-> tier.ptr[id]], due |-> tier.due]
    BY <1>7 DEF TierMove, warm, EngineTyped, TierTyped
  <2>2. /\ tier'.pc = "next" /\ tier'.todo = tier.todo /\ tier'.due = tier.due
        /\ \A id \in tier.todo : tier'.ptr[id] = tier.ptr[id]
    BY <2>1
  <2>3. DOMAIN tier.due \subseteq tier.todo
    BY <2>1 DEF EngineTyped, TierTyped
  <2>4. \A i \in DOMAIN tier.due : tier.due[i] = ToSet(Pointee(i)')
    BY <1>5, <2>1, <2>2, <2>3 DEF TierHolds, InPass
  <2> QED
    BY <2>1, <2>2, <2>3, <2>4 DEF TierHolds
\* On to the next series, with the one that is done.
<1>8. ASSUME OnSeries, Proceed(tier.id), writing' = {},
             \A i, S : i = tier.id /\ i \in DOMAIN tier.due /\ S = tier.due[i] => Safe(i, S)',
             \A id : id # tier.id => /\ id \in DOMAIN disk => id \in DOMAIN disk' /\ disk'[id] = disk[id]
                                     /\ id \notin DOMAIN disk => id \notin DOMAIN disk'
      PROVE  TierHolds'
  <2>1. tier' = [pc |-> "next", todo |-> tier.todo \ {tier.id}, ptr |-> tier.ptr, due |-> tier.due]
    BY <1>8 DEF Proceed
  <2>2. /\ tier'.pc = "next" /\ tier'.todo = tier.todo \ {tier.id} /\ tier'.ptr = tier.ptr
        /\ tier'.due = tier.due
    BY <2>1
  <2>3. InPass
    BY <1>8 DEF InPass, OnSeries
  <2>4. \A i \in DOMAIN tier.due \cap tier.todo : tier.due[i] = ToSet(Pointee(i)')
    BY <1>5, <2>2, <2>3 DEF TierHolds
  <2>5. ASSUME NEW i \in DOMAIN tier'.due \ tier'.todo, NEW S, S = tier'.due[i] PROVE Safe(i, S)'
    <3>1. CASE i = tier.id
      BY <1>8, <2>2, <2>5, <3>1
    <3>2. CASE i # tier.id
      <4>1. Safe(i, S)
        BY <2>2, <2>3, <2>5, <3>2 DEF TierHolds
      <4> QED
        BY <1>3, <1>8, <3>2, <4>1
    <3> QED
      BY <3>1, <3>2
  <2> QED
    BY <1>8, <2>2, <2>4, <2>5 DEF TierHolds
\* What is owed and done stays when the pass goes on with the series.
<1>9. ASSUME InPass, tier'.due = tier.due, tier'.todo = tier.todo, tier'.ptr = tier.ptr, disk' = disk \/
             \A id \in DOMAIN tier.due \ tier.todo :
                 /\ id \in DOMAIN disk => id \in DOMAIN disk' /\ disk'[id] = disk[id]
                 /\ id \notin DOMAIN disk => id \notin DOMAIN disk'
      PROVE  /\ \A i \in DOMAIN tier'.due \cap tier'.todo : tier'.due[i] = ToSet(Pointee(i)')
             /\ \A i \in DOMAIN tier'.due \ tier'.todo : Safe(i, tier.due[i])'
  <2>1. \A i \in DOMAIN tier'.due \cap tier'.todo : tier'.due[i] = ToSet(Pointee(i)')
    BY <1>5, <1>9 DEF TierHolds
  <2>2. ASSUME NEW i \in DOMAIN tier'.due \ tier'.todo, NEW S, S = tier'.due[i] PROVE Safe(i, S)'
    <3>1. Safe(i, S)
      BY <1>9, <2>2 DEF TierHolds
    <3> QED
      BY <1>3, <1>4, <1>9, <2>2, <3>1
  <2> QED
    BY <2>1, <2>2
<1>10. ASSUME NEW id \in SeriesIds, TierSize(id) PROVE TierHolds'
  <2>1. /\ tier.pc = "next" /\ writing' = writing /\ writing = {} /\ disk' = disk
        /\ tier' = [pc |-> "sized", todo |-> tier.todo, ptr |-> tier.ptr, due |-> tier.due,
                    id |-> id, size |-> Len(At(id, tier.ptr[id]).points), block |-> <<>>]
    BY <1>10 DEF TierSize, warm, EngineTyped, TierTyped
  <2>2. /\ tier'.pc = "sized" /\ tier'.todo = tier.todo /\ tier'.ptr = tier.ptr /\ tier'.due = tier.due
        /\ tier'.id = id /\ tier'.size = Len(Pointee(id))
    BY <2>1 DEF Pointee
  <2>3. tier'.size = Len(Pointee(id)')
    BY <1>5, <2>2
  <2>4. tier'.size = Len(Pointee(tier.id))'
    <3> PICK i : i = tier'.id
      OBVIOUS
    <3> QED
      BY <2>2, <2>3
  <2>5. /\ \A i \in DOMAIN tier'.due \cap tier'.todo : tier'.due[i] = ToSet(Pointee(i)')
        /\ \A i \in DOMAIN tier'.due \ tier'.todo : Safe(i, tier.due[i])'
    BY <1>9, <2>1, <2>2 DEF InPass
  <2> QED
    BY <2>1, <2>2, <2>4, <2>5 DEF TierHolds
<1>11. CASE TierCopy
  <2> DEFINE s == At(tier.id, tier.ptr[tier.id])  block == GetLatest(s.points, tier.size)
  <2>1. /\ tier.pc = "sized" /\ writing' = writing /\ writing = {} /\ disk' = disk /\ OnSeries /\ InPass
        /\ IF block = <<>> THEN Proceed(tier.id)
           ELSE tier' = [tier EXCEPT !.pc = "copied", !.size = 0, !.block = block]
    BY <1>11 DEF TierCopy, warm, EngineTyped, TierTyped, OnSeries, InPass
  <2>2. s.points = Pointee(tier.id) /\ tier.size \in Nat /\ Pointed(tier.id, tier.ptr[tier.id])
        /\ tier.id \in tier.todo
    BY <2>1 DEF Pointee, EngineTyped, TierTyped
  <2>3. ASSUME tier.id \in DOMAIN tier.due PROVE tier.due[tier.id] = ToSet(block)
    <3>1. tier.size = Len(s.points) /\ tier.due[tier.id] = ToSet(s.points)
      BY <2>1, <2>2, <2>3 DEF TierHolds
    <3>2. s.points \in Seq(Points) /\ Chronological(s.points)
      BY <2>2, HeldSeries DEF EngineTyped, Held
    <3>3. block = s.points
      BY <2>2, <3>1, <3>2, LatestOfSeries
    <3> QED
      BY <3>1, <3>3
  <2> HIDE DEF block, s
  <2>4. CASE block = <<>>
    <3>1. ASSUME NEW i, NEW S, i = tier.id, i \in DOMAIN tier.due, S = tier.due[i] PROVE Safe(i, S)'
      BY <2>3, <2>4, <3>1 DEF Safe, ToSet
    <3> QED
      BY <1>8, <2>1, <2>4, <3>1
  <2>5. CASE block # <<>>
    <3>1. DOMAIN tier = {"pc", "todo", "ptr", "due", "id", "size", "block"}
      BY <2>1 DEF EngineTyped, TierTyped
    <3>2. /\ tier'.pc = "copied" /\ tier'.todo = tier.todo /\ tier'.ptr = tier.ptr /\ tier'.due = tier.due
          /\ tier'.id = tier.id /\ tier'.block = block
      BY <2>1, <2>5, <3>1
    <3>3. /\ \A i \in DOMAIN tier'.due \cap tier'.todo : tier'.due[i] = ToSet(Pointee(i)')
          /\ \A i \in DOMAIN tier'.due \ tier'.todo : Safe(i, tier.due[i])'
      BY <1>9, <2>1, <3>2
    <3> QED
      BY <2>1, <2>3, <3>2, <3>3 DEF TierHolds
  <2> QED
    BY <2>4, <2>5
<1>12. CASE TierWrite
  <2>1. CASE tier.pc = "copied" /\ W!BeginWrite(tier.id, tier.block)
             /\ tier' = [tier EXCEPT !.pc = "writing", !.block = <<>>]
    <3>1. writing' = {[id |-> tier.id, block |-> tier.block, next |-> "time"]} /\ OnSeries /\ InPass
      BY <2>1 DEF W!BeginWrite, OnSeries, InPass
    <3>2. DOMAIN tier = {"pc", "todo", "ptr", "due", "id", "size", "block"} /\ tier.id \in tier.todo
      BY <2>1, <3>1 DEF EngineTyped, TierTyped, OnSeries, InPass
    <3>3. /\ tier'.pc = "writing" /\ tier'.todo = tier.todo /\ tier'.ptr = tier.ptr /\ tier'.due = tier.due
          /\ tier'.id = tier.id
      BY <2>1, <3>2
    <3>4. disk' = disk \/ \E v : disk' = W!With(disk, tier.id, v)
      BY <2>1 DEF W!BeginWrite
    <3>5. ASSUME NEW id, id # tier.id
          PROVE  /\ id \in DOMAIN disk => id \in DOMAIN disk' /\ disk'[id] = disk[id]
                 /\ id \notin DOMAIN disk => id \notin DOMAIN disk'
      BY <3>4, <3>5 DEF W!With
    <3>6. /\ \A i \in DOMAIN tier'.due \cap tier'.todo : tier'.due[i] = ToSet(Pointee(i)')
          /\ \A i \in DOMAIN tier'.due \ tier'.todo : Safe(i, tier.due[i])'
      BY <1>9, <3>1, <3>2, <3>3, <3>5
    <3>7. \A w \in writing' : tier.id \in DOMAIN tier.due => tier.due[tier.id] \subseteq ToSet(w.block)
      BY <2>1, <3>1 DEF TierHolds
    <3> QED
      BY <3>3, <3>6, <3>7 DEF TierHolds
  <2>2. CASE tier' = [pc |-> "failed"]
    BY <1>2, <2>2 DEF InPass
  <2>3. ASSUME NEW w \in writing PROVE writing = {w} /\ w.id = tier.id /\ tier.pc = "writing" /\ tier.id \in tier.todo
                                       /\ OnSeries /\ InPass
    BY DEF EngineTyped, TierTyped, InPass, OnSeries, WP!TypeInv, WP!TypeOK
  <2>4. ASSUME NEW w \in writing, NEW size, disk' = W!Appended(w, size)
        PROVE  \A id : id # tier.id => /\ id \in DOMAIN disk => id \in DOMAIN disk' /\ disk'[id] = disk[id]
                                       /\ id \notin DOMAIN disk => id \notin DOMAIN disk'
    BY <2>3, <2>4 DEF W!Appended
  <2>5. ASSUME NEW w \in writing, W!WriteHeader(w), tier' = tier PROVE TierHolds'
    <3>1. /\ \E size : disk' = W!Appended(w, size)
          /\ \E k : writing' = {[w EXCEPT !.next = k]}
      BY <2>5 DEF W!WriteHeader
    <3>2. /\ \A i \in DOMAIN tier'.due \cap tier'.todo : tier'.due[i] = ToSet(Pointee(i)')
          /\ \A i \in DOMAIN tier'.due \ tier'.todo : Safe(i, tier.due[i])'
      BY <1>9, <2>3, <2>4, <2>5, <3>1
    <3>3. w \in WP!Writes
      BY DEF EngineTyped, WP!TypeInv, WP!Typed
    <3>4. \A v \in writing' : v.block = w.block
      BY <3>1, <3>3 DEF WP!Writes
    <3> QED
      BY <2>3, <2>5, <3>2, <3>4 DEF TierHolds
  <2>6. ASSUME NEW w \in writing, W!WriteData(w), Proceed(tier.id) PROVE TierHolds'
    <3>1. writing' = {} /\ \E size : disk' = W!Appended(w, size)
      BY <2>6 DEF W!WriteData
    <3>2. /\ w.id \in DOMAIN disk'
          /\ w.block \in W!BlocksOf(disk'[w.id].parts) \/ ~W!Intact(disk'[w.id].parts)
      <4>1. WP!WriteData(w)
        BY <2>6, SameWrite
      <4>2. /\ w.id \in DOMAIN disk'
            /\ w.block \in WP!BlocksOf(disk'[w.id].parts) \/ ~WP!Intact(disk'[w.id].parts)
        BY <4>1, WP!BlockWritten, WarmAssumed DEF EngineTyped
      <4> QED
        BY <4>2, SameFiles
    <3>3. ASSUME NEW i, NEW S, i = tier.id, i \in DOMAIN tier.due, S = tier.due[i] PROVE Safe(i, S)'
      <4>1. S \subseteq ToSet(w.block) /\ i = w.id
        BY <2>3, <3>3 DEF TierHolds
      <4>2. w.block \in W!BlocksOf(disk'[i].parts) => ToSet(w.block) \subseteq OnDisk(i)'
        BY <3>2, <4>1 DEF OnDisk
      <4> QED
        BY <3>2, <4>1, <4>2 DEF Safe
    <3> QED
      BY <1>8, <2>3, <2>4, <2>6, <3>1, <3>3
  <2> QED
    BY <1>12, <2>1, <2>2, <2>5, <2>6 DEF TierWrite
<1>13. CASE TierEnd \/ TierList
  <2>1. CASE TierEnd
    BY <1>2, <2>1 DEF TierEnd, NoPass, InPass
  <2>2. CASE TierList
    <3>1. /\ tier'.pc = "listed" /\ DOMAIN tier'.due = {} /\ writing' = {}
      BY <2>2 DEF TierList, warm, EngineTyped, TierTyped
    <3> QED
      BY <3>1 DEF TierHolds
  <2> QED
    BY <1>13, <2>1, <2>2
<1> QED
  BY <1>6, <1>7, <1>10, <1>11, <1>12, <1>13 DEF Tiering

LEMMA HoldsStep ==
    ASSUME EngineTyped, EngineTyped', TierHolds, [EngineNext]_all
    PROVE  TierHolds'
<1>1. CASE AddPoint \/ CleanHot \/ CleanWarm
  BY <1>1, HoldsOthers
<1>2. CASE Tiering
  BY <1>2, HoldsPass
<1>3. CASE \/ \E q \in Queries : Query(q)
           \/ EndTiering \/ EndCleanup \/ EngineTick \/ UNCHANGED all
  <2>1. UNCHANGED <<tier, series, writing, disk>>
    <3>1. ASSUME NEW q \in Queries, Query(q) PROVE UNCHANGED <<tier, series, writing, disk>>
      BY <3>1 DEF Query, FindSeries, ReadHot, ReadWarm, Return, vars, warm, W!Lookup, W!LockFile,
                  W!ReadBlock, W!Deliver
    <3>2. CASE EndTiering \/ EndCleanup \/ EngineTick \/ UNCHANGED all
      BY <3>2 DEF EndTiering, EndCleanup, EndWorker, EngineTick, Tick, all, vars, warm, engine, W!Close
    <3> QED
      BY <1>3, <3>1, <3>2
  <2>2. CASE InPass
    <3>1. \A id : Pointee(id)' = Pointee(id)
      BY <2>1 DEF Pointee, At
    <3> QED
      BY <2>1, <2>2, <3>1, HoldsOn
  <2>3. CASE ~InPass
    BY <2>1, <2>3 DEF TierHolds, InPass
  <2> QED
    BY <2>2, <2>3
<1> QED
  BY <1>1, <1>2, <1>3 DEF EngineNext

\* TierComplete: the points of every series a pass of performTiering found stale
\* are in the files when the pass ends without an error, whatever AddPoint, the
\* clean-ups, the calls of GetRange and Stop do meanwhile; except for a series
\* that got points after it was found stale, and one whose file the clean-up
\* removed.  For every number of series, of blocks and of faults.
THEOREM TierAlwaysComplete == EngineSpec => []TierComplete
<1>1. EngineInit => TierHolds
  BY DEF EngineInit, NoPass, TierHolds, InPass
<1>2. EngineTyped /\ EngineTyped' /\ TierHolds /\ [EngineNext]_all => TierHolds'
  BY HoldsStep
<1>3. EngineTyped /\ TierHolds => TierComplete
  <2> SUFFICES ASSUME EngineTyped, TierHolds, TierDone, NEW id \in DOMAIN tier.due
               PROVE  Safe(id, tier.due[id])
    BY DEF TierComplete, Safe
  <2>1. InPass /\ tier.todo = {}
    BY DEF TierDone, InPass
  <2> QED
    BY <2>1 DEF TierHolds
<1> QED
  BY <1>1, <1>2, <1>3, EngineTypes, PTL DEF EngineSpec

(***************************************************************************)
(* A call of GetRange while points move from one tier to the other.        *)
(***************************************************************************)
TimesOf(S) == {p.ts : p \in S}

\* The timestamps a call would find now: in the series its pointer leads to, and
\* in the whole blocks of the file that start in its range.
HotAt(Q)  == {t \in Q.start .. Q.end : \E p \in ToSet(At(Q.id, Q.ptr).points) : p.ts = t}
ColdOf(Q) == TimesOf(WP!Stored(Q.id, Q.start, Q.end))

\* Where a call whose reader is R still has, or has got, the timestamps in must.
\* A call that has looked in memory depends on the file, until its reader knows
\* what it wants of it, or holds a WarmFile that was removed.
CallSees(Q, R, must) ==
    /\ Q.pc = "found" => must \subseteq HotAt(Q) \cup ColdOf(Q)
    /\ Q.pc = "warm" =>
          /\ R.pc = "idle" \/ (R.pc = "found" /\ R.live) => must \subseteq TimesOf(Q.hot) \cup ColdOf(Q)
          /\ R.pc = "reading" /\ R.live => must \subseteq TimesOf(Q.hot) \cup TimesOf(R.want)
          /\ R.pc \in {"found", "reading"} /\ ~R.live => must \subseteq TimesOf(Q.hot)
    /\ Q.pc = "answered" => must \subseteq DOMAIN Q.points

\* The invariant behind NoGap.
GapInv == \A q \in Queries : CallSees(query[q], readers[q], watch[q].must)

LEMMA ColdTimes ==
    /\ DOMAIN disk \subseteq DOMAIN files => \A Q : WarmTimes(Q) = ColdOf(Q)
    /\ (DOMAIN disk \subseteq DOMAIN files => \A Q : WarmTimes(Q) = ColdOf(Q))'
<1>1. DOMAIN disk \subseteq DOMAIN files => \A Q : WarmTimes(Q) = ColdOf(Q)
  <2> SUFFICES ASSUME DOMAIN disk \subseteq DOMAIN files, NEW Q PROVE WarmTimes(Q) = ColdOf(Q)
    OBVIOUS
  <2> DEFINE parts == disk[Q.id].parts
             Late == {c \in W!BlocksOf(parts) : Q.start <= c[1].ts}
  <2>1. \A S, from, to : W!InRange(S, from, to) = WP!InRange(S, from, to)
    BY DEF W!InRange, WP!InRange
  <2>2. CASE Q.id \in DOMAIN disk
    <3>1. WarmTimes(Q) = TimesOf(W!InRange(UNION {ToSet(b) : b \in Late}, Q.start, Q.end))
      BY <2>2 DEF WarmTimes, TimesOf
    <3>2. WP!PartsOf(Q.id) = parts
      BY <2>2 DEF WP!PartsOf
    <3>3. W!BlocksOf(parts) = {parts[3 * i].block : i \in WP!Whole(parts)}
      BY SameFiles DEF WP!BlocksOf
    <3> HIDE DEF parts
    <3>4. WP!Started(Q.id, Q.start) = {i \in WP!Whole(parts) : Q.start <= parts[3 * i].block[1].ts}
      BY <3>2 DEF WP!Started
    <3>5. WP!BlockPoints(Q.id, WP!Started(Q.id, Q.start))
            = UNION {ToSet(parts[3 * i].block) : i \in WP!Started(Q.id, Q.start)}
      BY <3>2, SameLibrary DEF WP!BlockPoints, WP!Points
    <3>6. Late = {parts[3 * i].block : i \in WP!Started(Q.id, Q.start)}
      BY <3>3, <3>4
    <3> HIDE DEF Late
    <3>7. UNION {ToSet(b) : b \in Late} = WP!BlockPoints(Q.id, WP!Started(Q.id, Q.start))
      BY <3>5, <3>6
    <3> QED
      BY <2>1, <3>1, <3>7 DEF ColdOf, WP!Stored
  <2>3. CASE Q.id \notin DOMAIN disk
    <3>1. WP!Whole(WP!PartsOf(Q.id)) = {}
      BY <2>3 DEF WP!PartsOf, WP!Whole
    <3>2. WP!BlockPoints(Q.id, WP!Started(Q.id, Q.start)) = {}
      BY <3>1 DEF WP!BlockPoints, WP!Started
    <3>3. ColdOf(Q) = {}
      BY <3>2 DEF ColdOf, TimesOf, WP!Stored, WP!InRange
    <3> QED
      BY <2>3, <3>3 DEF WarmTimes
  <2> QED
    BY <2>2, <2>3
<1> QED
  BY <1>1, PTL

\* What Watch keeps of what a call must answer.
LEMMA WatchStep ==
    ASSUME Watch, WP!FirstLife, WP!FirstLife', restarts = 0, restarts' = 0,
           NEW q \in Queries, NEW Q, Q = query[q], NEW P, P = query'[q], P.pc # "idle"
    PROVE  /\ Q.pc # "idle" => watch'[q].must \subseteq watch[q].must
           /\ Q.pc \notin {"answered", "error"} => watch'[q].must \subseteq HotTimes(P)' \cup ColdOf(P)'
           /\ /\ Q.pc \notin {"idle", "answered", "error"}
              /\ Q.id \in DOMAIN disk \ DOMAIN disk'
              => watch'[q].must \cap ColdOf(Q) = {}
<1>1. (\A K : WarmTimes(K) = ColdOf(K)) /\ \A K : WarmTimes(K)' = ColdOf(K)'
  <2>1. DOMAIN disk \subseteq DOMAIN files /\ (DOMAIN disk \subseteq DOMAIN files)'
    BY DEF WP!FirstLife
  <2> QED
    BY <2>1, ColdTimes
<1>2. Visible(q)' = HotTimes(P)' \cup WarmTimes(P)'
  BY DEF Visible, HotTimes, WarmTimes
<1>3. watch'[q] =
        IF Q.pc = "idle" THEN [must |-> Visible(q)', touched |-> FALSE]
        ELSE [must |-> IF Q.pc \in {"answered", "error"} THEN watch[q].must
                       ELSE (watch[q].must \cap Visible(q)')
                              \ (IF Q.id \in DOMAIN disk \ DOMAIN disk' THEN WarmTimes(Q) ELSE {}),
              touched |-> watch[q].touched \/ \E a \in adding' : a[1] = Q.id]
  BY DEF Watch
<1>4. watch'[q].must =
        IF Q.pc = "idle" THEN Visible(q)'
        ELSE IF Q.pc \in {"answered", "error"} THEN watch[q].must
        ELSE (watch[q].must \cap Visible(q)')
               \ (IF Q.id \in DOMAIN disk \ DOMAIN disk' THEN WarmTimes(Q) ELSE {})
  BY <1>3
<1> QED
  BY <1>1, <1>2, <1>4

\* A file that is not removed goes on holding what it held.
LEMMA ColdStays ==
    ASSUME EngineTyped, [WP!Next]_(WP!vars), NEW Q, Q.id \in DOMAIN disk => Q.id \in DOMAIN disk'
    PROVE  ColdOf(Q) \subseteq ColdOf(Q)'
<1>1. ~WP!Restart
  BY DEF WP!Restart, EngineTyped
<1>2. WP!Stored(Q.id, Q.start, Q.end) \subseteq WP!Stored(Q.id, Q.start, Q.end)'
  BY <1>1, WarmAssumed, WP!StoredStays DEF EngineTyped
<1> QED
  BY <1>2 DEF ColdOf, TimesOf

\* What a reader wants, once it has taken the lock, is in the file.
LEMMA WantInFile ==
    ASSUME NEW Q, NEW R, WorksFor(R, Q), R.pc = "reading", WP!CallWhole(R)
    PROVE  /\ TimesOf(R.want) \subseteq ColdOf(Q)
           /\ R.todo = {} => TimesOf(R.want) \subseteq TimesOf(R.got)
<1>1. R.id = Q.id /\ R.from = Q.start /\ R.to = Q.end
  BY DEF WorksFor
<1>2. R.want \subseteq WP!Stored(Q.id, Q.start, Q.end)
  BY <1>1 DEF WP!CallWhole, WP!Stored
<1>3. R.todo = {} => R.want \subseteq R.got
  <2>1. WP!BlockPoints(R.id, WP!Pending(R.id, {})) = {}
    BY DEF WP!BlockPoints, WP!Pending
  <2> QED
    BY <2>1 DEF WP!CallWhole, WP!InRange
<1> QED
  BY <1>2, <1>3 DEF ColdOf, TimesOf

\* A step of others, for a call that has read memory.
LEMMA SeesOn ==
    ASSUME EngineTyped, [WP!Next]_(WP!vars), NEW Q, NEW R, NEW S, NEW must, NEW less,
           CallSees(Q, R, must), Q.pc # "found", WorksFor(R, Q), less \subseteq must,
           Q.pc = "warm" /\ Q.id \in DOMAIN disk \ DOMAIN disk' => less \cap ColdOf(Q) = {},
           R.live => R.pc # "idle", R.live => WP!CallWhole(R),
           \/ S = R
           \/ R.live /\ ~S.live /\ S.pc = R.pc /\ R.id \in DOMAIN disk \ DOMAIN disk'
    PROVE  CallSees(Q, S, less)'
<1>1. CASE Q.pc = "warm"
  <2>1. ASSUME must \subseteq TimesOf(Q.hot) \cup ColdOf(Q) PROVE less \subseteq TimesOf(Q.hot) \cup ColdOf(Q)'
    BY <1>1, <2>1, ColdStays
  <2>2. ASSUME S # R PROVE S.pc \in {"found", "reading"} => less \subseteq TimesOf(Q.hot)
    <3>1. R.live /\ ~S.live /\ S.pc = R.pc /\ Q.id \in DOMAIN disk \ DOMAIN disk'
      BY <2>2 DEF WorksFor
    <3>2. less \cap ColdOf(Q) = {}
      BY <1>1, <3>1
    <3>3. CASE R.pc = "found"
      BY <1>1, <3>1, <3>2, <3>3 DEF CallSees
    <3>4. CASE R.pc = "reading"
      BY <1>1, <3>1, <3>2, <3>4, WantInFile DEF CallSees
    <3> QED
      BY <3>1, <3>3, <3>4
  <2>3. CASE S = R
    BY <1>1, <2>1, <2>3 DEF CallSees
  <2>4. CASE S # R
    BY <1>1, <2>2, <2>4 DEF CallSees
  <2> QED
    BY <2>3, <2>4
<1>2. CASE Q.pc = "answered"
  BY <1>2 DEF CallSees
<1>3. CASE Q.pc \notin {"found", "warm", "answered"}
  BY <1>3 DEF CallSees
<1> QED
  BY <1>1, <1>2, <1>3

\* Any step, for a call that has a pointer and has not followed it yet.
LEMMA FoundOn ==
    ASSUME EngineTyped, EngineTyped', [WP!Next]_(WP!vars), NEW Q, NEW P, NEW R, NEW S, NEW must, NEW less,
           P.pc = "found", CallTyped(P)', less \subseteq HotTimes(P)' \cup ColdOf(P)',
           ~P.ptr.live =>
               /\ Q.pc = "found" /\ P.id = Q.id /\ P.start = Q.start /\ P.end = Q.end
               /\ At(P.id, P.ptr) = At(Q.id, Q.ptr)
               /\ CallSees(Q, R, must) /\ less \subseteq must
               /\ Q.id \in DOMAIN disk \ DOMAIN disk' => less \cap ColdOf(Q) = {}
    PROVE  CallSees(P, S, less)'
<1>1. CASE P.ptr.live
  <2>1. P.id \in Ids' /\ At(P.id, P.ptr)' = series'[P.id]
    BY <1>1 DEF CallTyped, Pointed, At
  <2>2. HotAt(P)' = HotTimes(P)'
    BY <2>1 DEF HotAt, HotTimes
  <2> QED
    BY <2>2 DEF CallSees
<1>2. CASE ~P.ptr.live
  <2>1. At(P.id, P.ptr)' = At(P.id, P.ptr)
    BY <1>2 DEF At
  <2>2. HotAt(P)' = HotAt(Q)
    BY <1>2, <2>1 DEF HotAt
  <2>3. less \subseteq HotAt(Q) \cup ColdOf(Q)
    BY <1>2 DEF CallSees
  <2>4. less \subseteq HotAt(Q) \cup ColdOf(Q)'
    BY <1>2, <2>3, ColdStays
  <2>5. ColdOf(Q)' = ColdOf(P)'
    BY <1>2 DEF ColdOf
  <2> QED
    BY <2>2, <2>4, <2>5 DEF CallSees
<1> QED
  BY <1>1, <1>2

\* What a step of others does to a call and its reader.
LEMMA CallsOfOthers ==
    ASSUME EngineTyped, [EngineNext]_all, NEW q \in Queries, ~Query(q),
           NEW Q, Q = query[q], NEW P, P = query'[q], NEW R, R = readers[q], NEW S, S = readers'[q]
    PROVE  /\ \/ S = R
              \/ R.live /\ ~S.live /\ S.pc = R.pc /\ R.id \in DOMAIN disk \ DOMAIN disk'
           /\ P.pc = Q.pc /\ (Q.pc # "found" => P = Q)
           /\ Q.pc = "found" => /\ P.id = Q.id /\ P.start = Q.start /\ P.end = Q.end
                                /\ ~P.ptr.live => At(P.id, P.ptr) = At(Q.id, Q.ptr)
<1> DEFINE Goal == /\ \/ S = R
                      \/ R.live /\ ~S.live /\ S.pc = R.pc /\ R.id \in DOMAIN disk \ DOMAIN disk'
                   /\ P.pc = Q.pc /\ (Q.pc # "found" => P = Q)
                   /\ Q.pc = "found" => /\ P.id = Q.id /\ P.start = Q.start /\ P.end = Q.end
                                        /\ ~P.ptr.live => At(P.id, P.ptr) = At(Q.id, Q.ptr)
<1>1. P = Q /\ S = R => Goal
  OBVIOUS
<1>2. CASE AddPoint \/ Tiering \/ EndTiering \/ EndCleanup \/ EngineTick \/ UNCHANGED all
  <2>1. query' = query /\ readers' = readers
    BY <1>2 DEF AddPoint, Tiering, TierList, TierSelect, TierMove, TierSize, TierCopy, TierWrite, TierEnd, warm,
                W!BeginWrite, W!OpenFails, W!WriteHeader, W!WriteData, W!WriteFails, W!WriteToClosed,
                EndTiering, EndCleanup, EndWorker, W!Close, EngineTick, engine, all
  <2> QED
    BY <1>1, <2>1
<1>3. ASSUME NEW u \in Queries, Query(u) PROVE Goal
  <2>1. u # q
    BY <1>3
  <2>2. (\E x : query' = [query EXCEPT ![u] = x]) \/ query' = query
    BY <1>3 DEF Query, FindSeries, ReadHot, ReadWarm, Return, Answer
  <2>3. (\E x : readers' = [readers EXCEPT ![u] = x]) \/ readers' = readers
    BY <1>3 DEF Query, FindSeries, ReadHot, ReadWarm, Return, warm, W!Lookup, W!LockFile, W!ReadBlock, W!Deliver
  <2>4. P = Q
    <3>1. DOMAIN query = Queries
      BY DEF EngineTyped, QueryTyped
    <3> QED
      BY <2>1, <2>2, <3>1
  <2>5. S = R
    <3>1. DOMAIN readers = Queries
      BY ReadersTyped DEF EngineTyped
    <3> QED
      BY <2>1, <2>3, <3>1
  <2> QED
    BY <1>1, <2>4, <2>5
<1>4. CASE CleanHot
  <2>1. S = R
    BY <1>4 DEF CleanHot, warm
  <2>2. P = IF "ptr" \in DOMAIN Q THEN [Q EXCEPT !.ptr = Kept(Q.id, Q.ptr, Stale)] ELSE Q
    BY <1>4 DEF CleanHot
  <2>3. CallTyped(Q)
    BY DEF EngineTyped, QueryTyped
  <2>4. CASE Q.pc = "found"
    <3>1. DOMAIN Q = {"pc", "id", "start", "end", "ptr"} /\ Pointed(Q.id, Q.ptr)
      BY <2>3, <2>4 DEF CallTyped
    <3>2. P = [Q EXCEPT !.ptr = Kept(Q.id, Q.ptr, Stale)]
      BY <2>2, <3>1
    <3>3. P.pc = Q.pc /\ P.id = Q.id /\ P.start = Q.start /\ P.end = Q.end
          /\ P.ptr = Kept(Q.id, Q.ptr, Stale)
      BY <3>1, <3>2
    <3>4. ~P.ptr.live => At(P.id, P.ptr) = At(Q.id, Q.ptr)
      BY <3>3 DEF Kept, At
    <3> QED
      BY <2>1, <2>4, <3>3, <3>4
  <2>5. CASE Q.pc # "found"
    <3>1. "ptr" \notin DOMAIN Q
      BY <2>3, <2>5 DEF CallTyped
    <3> QED
      BY <1>1, <2>1, <2>2, <3>1
  <2> QED
    BY <2>4, <2>5
<1>5. CASE CleanWarm
  <2>1. P = Q
    BY <1>5 DEF CleanWarm
  <2>2. CASE ~W!CleanupExpired
    <3>1. S = R
      BY <1>5, <2>2 DEF CleanWarm, warm
    <3> QED
      BY <1>1, <2>1, <3>1
  <2>3. CASE W!CleanupExpired
    <3>1. WP!CleanupExpired
      BY <2>3, SameUpkeep
    <3>2. PICK gone \in SUBSET (WP!Expired \cap DOMAIN disk) :
             DOMAIN disk' = DOMAIN disk \ gone /\ readers' = WP!Detached(gone)
      BY <3>1, WP!RemoveEffect, WarmAssumed DEF EngineTyped
    <3>3. S = IF R.live /\ R.id \in gone
              THEN [R EXCEPT !.live = FALSE,
                             !.todo = IF R.pc = "found" THEN WP!Relevant(files[R.id].index, R.from, R.to)
                                      ELSE R.todo]
              ELSE R
      BY <3>2 DEF WP!Detached
    <3>4. CASE R.live /\ R.id \in gone
      <4>1. R \in WP!Calls
        BY <3>4, ReadersTyped DEF EngineTyped, WP!Idle
      <4>2. \E todo : S = [R EXCEPT !.live = FALSE, !.todo = todo]
        BY <3>3, <3>4
      <4>3. ~S.live /\ S.pc = R.pc
        BY <4>1, <4>2 DEF WP!Calls
      <4>4. R.id \in DOMAIN disk \ DOMAIN disk'
        BY <3>2, <3>4
      <4> QED
        BY <2>1, <3>4, <4>3, <4>4
    <3>5. CASE ~(R.live /\ R.id \in gone)
      BY <1>1, <2>1, <3>3, <3>5
    <3> QED
      BY <3>4, <3>5
  <2> QED
    BY <2>2, <2>3
<1> QED
  BY <1>2, <1>3, <1>4, <1>5 DEF EngineNext

LEMMA GapOthers ==
    ASSUME EngineTyped, EngineTyped', WP!FirstLife, WP!FirstLife', EngineNext, NEW q \in Queries, ~Query(q),
           GapInv
    PROVE  CallSees(query[q], readers[q], watch[q].must)'
<1> SUFFICES ASSUME NEW Q, Q = query[q], NEW P, P = query'[q], NEW R, R = readers[q],
                    NEW S, S = readers'[q], NEW must, must = watch[q].must, NEW less, less = watch'[q].must
             PROVE  CallSees(P, S, less)'
  OBVIOUS
<1>1. [WP!Next]_(WP!vars)
  BY WarmSteps
<1>2. /\ \/ S = R
         \/ R.live /\ ~S.live /\ S.pc = R.pc /\ R.id \in DOMAIN disk \ DOMAIN disk'
      /\ P.pc = Q.pc /\ (Q.pc # "found" => P = Q)
      /\ Q.pc = "found" => /\ P.id = Q.id /\ P.start = Q.start /\ P.end = Q.end
                           /\ ~P.ptr.live => At(P.id, P.ptr) = At(Q.id, Q.ptr)
  BY CallsOfOthers
<1>3. CallSees(Q, R, must) /\ WorksFor(R, Q) /\ CallTyped(P)'
  BY DEF GapInv, EngineTyped, QueryTyped
<1>4. P.pc # "idle" =>
        /\ Q.pc # "idle" => less \subseteq must
        /\ Q.pc \notin {"answered", "error"} => less \subseteq HotTimes(P)' \cup ColdOf(P)'
        /\ /\ Q.pc \notin {"idle", "answered", "error"}
           /\ Q.id \in DOMAIN disk \ DOMAIN disk'
           => less \cap ColdOf(Q) = {}
  BY WatchStep DEF EngineTyped, EngineNext
<1>5. (R.live => R.pc # "idle") /\ (R.live => WP!CallWhole(R))
  <2>1. R \in {WP!Idle} \cup WP!Calls
    BY ReadersTyped DEF EngineTyped
  <2> QED
    BY <2>1 DEF WP!Idle, WP!Calls, WP!FirstLife, EngineTyped
<1>6. CASE Q.pc = "found"
  BY <1>1, <1>2, <1>3, <1>4, <1>6, FoundOn
<1>7. CASE Q.pc = "idle"
  BY <1>2, <1>7 DEF CallSees
<1>8. CASE Q.pc \notin {"found", "idle"}
  <2>1. CallSees(Q, S, less)'
    BY <1>1, <1>2, <1>3, <1>4, <1>5, <1>8, SeesOn
  <2> QED
    BY <1>2, <1>8, <2>1
<1> QED
  BY <1>6, <1>7, <1>8

\* The caller's own steps.
LEMMA GapOwn ==
    ASSUME EngineTyped, EngineTyped', WP!FirstLife, WP!FirstLife', EngineNext, NEW q \in Queries, Query(q),
           GapInv
    PROVE  CallSees(query[q], readers[q], watch[q].must)'
<1> SUFFICES ASSUME NEW Q, Q = query[q], NEW P, P = query'[q], NEW R, R = readers[q],
                    NEW S, S = readers'[q], NEW must, must = watch[q].must, NEW less, less = watch'[q].must
             PROVE  CallSees(P, S, less)'
  OBVIOUS
<1>1. /\ CallSees(Q, R, must) /\ WorksFor(R, Q) /\ CallTyped(Q) /\ CallTyped(P)' /\ WorksFor(S, P)
      /\ DOMAIN query = Queries /\ DOMAIN readers = Queries
  BY ReadersTyped DEF GapInv, EngineTyped, QueryTyped
<1>2. P.pc # "idle" =>
        /\ Q.pc # "idle" => less \subseteq must
        /\ Q.pc \notin {"answered", "error"} => less \subseteq HotTimes(P)' \cup ColdOf(P)'
  BY WatchStep DEF EngineTyped, EngineNext
<1>3. UNCHANGED <<series, disk>>
  BY DEF Query, FindSeries, ReadHot, ReadWarm, Return, vars, warm, W!Lookup, W!LockFile, W!ReadBlock, W!Deliver
<1>4. \A K : HotAt(K)' = HotAt(K) /\ ColdOf(K)' = ColdOf(K)
  BY <1>3 DEF HotAt, At, ColdOf, WP!Stored, WP!BlockPoints, WP!Started, WP!PartsOf
<1>5. [WP!Next]_(WP!vars)
  BY WarmSteps
<1>6. ASSUME NEW id \in SeriesIds, NEW range \in Ranges, FindSeries(q, id, range) PROVE CallSees(P, S, less)'
  <2>1. /\ Q.pc = "idle" /\ S = R
        /\ P = IF id \in Ids
               THEN [pc |-> "found", id |-> id, start |-> range[1], end |-> range[2], ptr |-> Live]
               ELSE [pc |-> "warm", id |-> id, start |-> range[1], end |-> range[2], hot |-> {}]
    BY <1>1, <1>6 DEF FindSeries, warm
  <2>2. CASE id \in Ids
    <3>1. P.pc = "found" /\ P.ptr.live
      BY <2>1, <2>2 DEF Live
    <3> QED
      BY <1>1, <1>2, <1>5, <2>1, <3>1, FoundOn
  <2>3. CASE id \notin Ids
    <3>1. P.pc = "warm" /\ P.id = id /\ P.hot = {}
      BY <2>1, <2>3
    <3>2. HotTimes(P)' = {}
      BY <1>3, <2>3, <3>1 DEF HotTimes, Ids
    <3>3. S.pc = "idle" /\ less \subseteq ColdOf(P)'
      BY <1>1, <1>2, <2>1, <3>1, <3>2 DEF WorksFor
    <3> QED
      BY <3>1, <3>3 DEF CallSees
  <2> QED
    BY <2>2, <2>3
<1>7. CASE ReadHot(q)
  <2> DEFINE points == At(Q.id, Q.ptr).points
             hot == ToSet(GetRange(points, Q.start, Q.end))
  <2>1. /\ Q.pc = "found" /\ S = R /\ S.pc = "idle"
        /\ P = [pc |-> "warm", id |-> Q.id, start |-> Q.start, end |-> Q.end, hot |-> hot]
    BY <1>1, <1>7 DEF ReadHot, warm, WorksFor
  <2>2. /\ Pointed(Q.id, Q.ptr) /\ Q.start \in Nat /\ Q.end \in Nat
    <3>1. Pointed(Q.id, Q.ptr) /\ <<Q.start, Q.end>> \in Ranges
      BY <1>1, <2>1 DEF CallTyped
    <3> QED
      BY <3>1, EngineAssumption
  <2>3. points \in Seq(Points) /\ Chronological(points)
    BY <2>2, HeldSeries DEF EngineTyped, Held
  <2> HIDE DEF points
  <2>4. hot = {p \in ToSet(points) : Q.start <= p.ts /\ p.ts <= Q.end}
    BY <2>2, <2>3, RangeOfSeries
  <2> HIDE DEF hot
  <2>5. HotAt(Q) \subseteq TimesOf(hot)
    BY <2>2, <2>4 DEF HotAt, TimesOf, points
  <2>6. P.pc = "warm" /\ P.hot = hot /\ P.id = Q.id /\ P.start = Q.start /\ P.end = Q.end
    BY <2>1
  <2>7. less \subseteq HotAt(Q) \cup ColdOf(Q)
    BY <1>1, <1>2, <2>1, <2>6 DEF CallSees
  <2>8. ColdOf(P)' = ColdOf(Q)
    BY <1>4, <2>6 DEF ColdOf
  <2>9. less \subseteq TimesOf(P.hot) \cup ColdOf(P)'
    BY <2>5, <2>6, <2>7, <2>8
  <2> QED
    BY <2>1, <2>6, <2>9 DEF CallSees
\* The file tier has answered, with got.
<1>8. ASSUME NEW got, Q.pc = "warm", Answer(q, Merged(Q.hot, got)),
             must \subseteq TimesOf(Q.hot) \cup TimesOf(got)
      PROVE  CallSees(P, S, less)'
  <2>1. PICK f \in Merged(Q.hot, got) : query' = [query EXCEPT ![q] =
            [pc |-> "answered", id |-> Q.id, start |-> Q.start, end |-> Q.end, points |-> f]]
    BY <1>8 DEF Answer
  <2>2. DOMAIN f = TimesOf(Q.hot \cup got)
    BY <2>1 DEF Merged, TimesOf
  <2>3. P.pc = "answered" /\ P.points = f
    BY <1>1, <2>1
  <2>4. less \subseteq must
    BY <1>2, <1>8, <2>3
  <2>5. must \subseteq DOMAIN f
    BY <1>8, <2>2 DEF TimesOf
  <2> QED
    BY <2>3, <2>4, <2>5 DEF CallSees
<1>9. CASE ReadWarm(q)
  <2>1. Q.pc = "warm"
    BY <1>9 DEF ReadWarm
  <2>2. CASE R.pc = "idle" /\ Q.id \notin DOMAIN files /\ Answer(q, Merged(Q.hot, {}))
    <3>1. WarmTimes(Q) = {}
      BY <2>2 DEF WarmTimes
    <3>2. ColdOf(Q) = {}
      BY <3>1, ColdTimes DEF WP!FirstLife, EngineTyped
    <3>3. must \subseteq TimesOf(Q.hot) \cup TimesOf({})
      BY <1>1, <2>1, <2>2, <3>2 DEF CallSees
    <3> QED
      BY <1>8, <2>1, <2>2, <3>3
  <2>3. CASE W!Lookup(q, Q.id, Q.start, Q.end) /\ query' = query
    <3>1. R.pc = "idle" /\ S.pc = "found" /\ S.live /\ P = Q
      BY <1>1, <2>3 DEF W!Lookup
    <3>2. less \subseteq TimesOf(Q.hot) \cup ColdOf(Q)
      BY <1>1, <1>2, <2>1, <3>1 DEF CallSees
    <3> QED
      BY <1>4, <2>1, <3>1, <3>2 DEF CallSees
  <2>4. ASSUME W!LockFile(q), query' = query PROVE CallSees(P, S, less)'
    <3>1. R \in WP!Calls /\ R.pc = "found"
      BY <2>4, ReadersTyped DEF W!LockFile, EngineTyped
    <3>2. WP!LockFile(q)
      BY <2>4, SameRead
    <3> DEFINE want == IF R.live /\ R.id \in DOMAIN disk THEN WP!Expected(R.id, R.from, R.to) ELSE {}
               todo == IF R.live THEN WP!Relevant(files[R.id].index, R.from, R.to) ELSE R.todo
    <3>3. S = [R EXCEPT !.pc = "reading", !.todo = todo, !.want = want]
      BY <1>1, <3>2 DEF WP!LockFile
    <3> HIDE DEF want, todo
    <3>4. S.pc = "reading" /\ S.live = R.live /\ S.want = want /\ P = Q
      BY <1>1, <2>4, <3>1, <3>3 DEF WP!Calls
    <3>5. CASE ~R.live
      <4>1. less \subseteq TimesOf(Q.hot)
        BY <1>1, <1>2, <2>1, <3>1, <3>4, <3>5 DEF CallSees
      <4> QED
        BY <2>1, <3>4, <3>5, <4>1 DEF CallSees
    <3>6. CASE R.live
      <4>1. less \subseteq TimesOf(Q.hot) \cup ColdOf(Q)
        BY <1>1, <1>2, <2>1, <3>1, <3>4, <3>6 DEF CallSees
      <4>2. R.id = Q.id /\ R.from = Q.start /\ R.to = Q.end /\ Q.id \in DOMAIN files
            /\ R.from \in Nat /\ R.to \in Nat
        BY <1>1, <3>1, <3>6 DEF WorksFor, WP!Calls, EngineTyped, WP!TypeInv, WP!TypeOK
      <4>3. ColdOf(Q) \subseteq TimesOf(want)
        <5>1. CASE Q.id \in DOMAIN disk
          <6>1. WP!WholeIndexed(Q.id)
            BY <4>2 DEF WP!FirstLife, EngineTyped
          <6>2. WP!Expected(Q.id, Q.start, Q.end)
                  = WP!InRange(WP!BlockPoints(Q.id, WP!Started(Q.id, Q.start)), Q.start, Q.end)
            BY <4>2, <5>1, <6>1, WarmAssumed, WP!FirstWant DEF EngineTyped
          <6>3. want = WP!Stored(Q.id, Q.start, Q.end)
            BY <3>6, <4>2, <5>1, <6>2 DEF want, WP!Stored
          <6> QED
            BY <6>3 DEF ColdOf
        <5>2. CASE Q.id \notin DOMAIN disk
          <6>1. WarmTimes(Q) = {}
            BY <5>2 DEF WarmTimes
          <6> QED
            BY <6>1, ColdTimes DEF WP!FirstLife, EngineTyped
        <5> QED
          BY <5>1, <5>2
      <4> QED
        BY <2>1, <3>4, <3>6, <4>1, <4>3 DEF CallSees
    <3> QED
      BY <3>5, <3>6
  <2>5. ASSUME W!ReadBlock(q), query' = query PROVE CallSees(P, S, less)'
    <3>1. R \in WP!Calls /\ R.pc = "reading"
      BY <2>5, ReadersTyped DEF W!ReadBlock, W!Reading, EngineTyped
    <3> DEFINE found(e) == IF R.id \in DOMAIN disk
                           THEN W!BlocksAt(disk[R.id].parts, e.off + W!HeaderSize, e.len) ELSE {}
               got(e) == R.got \cup W!InRange(UNION {W!Points(b) : b \in found(e)}, R.from, R.to)
    <3>2. PICK e \in R.todo : S = IF found(e) = {} THEN [R EXCEPT !.pc = "failed", !.todo = {}]
                                  ELSE [R EXCEPT !.todo = R.todo \ {e}, !.got = got(e)]
      BY <1>1, <2>5 DEF W!ReadBlock
    <3> HIDE DEF found, got
    <3>3. S.pc = "failed" \/ (S.pc = "reading" /\ S.live = R.live /\ S.want = R.want)
      BY <3>1, <3>2 DEF WP!Calls
    <3>4. P = Q /\ less \subseteq must
      BY <1>1, <1>2, <2>1, <2>5
    <3> QED
      BY <1>1, <2>1, <3>1, <3>3, <3>4 DEF CallSees
  <2>6. CASE W!Answered(q) /\ Answer(q, Merged(Q.hot, R.got))
    <3>1. R.pc = "reading" /\ R.todo = {}
      BY <2>6 DEF W!Answered
    <3>2. CASE R.live
      <4>1. WP!CallWhole(R)
        BY <3>2 DEF WP!FirstLife, EngineTyped
      <4>2. TimesOf(R.want) \subseteq TimesOf(R.got)
        BY <1>1, <3>1, <4>1, WantInFile
      <4> QED
        BY <1>1, <1>8, <2>1, <2>6, <3>1, <3>2, <4>2 DEF CallSees
    <3>3. CASE ~R.live
      BY <1>1, <1>8, <2>1, <2>6, <3>1, <3>3 DEF CallSees
    <3> QED
      BY <3>2, <3>3
  <2>7. CASE query' = [query EXCEPT ![q] = [Q EXCEPT !.pc = "error"]]
    <3>1. P.pc = "error"
      <4>1. "pc" \in DOMAIN Q
        BY <1>1 DEF CallTyped
      <4> QED
        BY <1>1, <2>7, <4>1
    <3> QED
      BY <3>1 DEF CallSees
  <2> QED
    BY <1>9, <2>2, <2>3, <2>4, <2>5, <2>6, <2>7 DEF ReadWarm
<1>10. CASE Return(q)
  <2>1. P.pc = "idle"
    BY <1>1, <1>10 DEF Return, NoQuery
  <2> QED
    BY <2>1 DEF CallSees
<1> QED
  BY <1>6, <1>7, <1>9, <1>10 DEF Query

LEMMA GapStep ==
    ASSUME EngineTyped, EngineTyped', WP!FirstLife, WP!FirstLife', GapInv, [EngineNext]_all
    PROVE  GapInv'
<1> SUFFICES ASSUME NEW q \in Queries PROVE CallSees(query[q], readers[q], watch[q].must)'
  BY DEF GapInv
<1>1. CASE EngineNext
  BY <1>1, GapOwn, GapOthers
<1>2. CASE UNCHANGED all
  <2>1. CallSees(query[q], readers[q], watch[q].must)
    BY DEF GapInv
  <2>2. UNCHANGED <<series, disk, query, readers, watch>>
    BY <1>2 DEF all, vars, warm, engine
  <2>3. \A K : HotAt(K)' = HotAt(K) /\ ColdOf(K)' = ColdOf(K)
    BY <2>2 DEF HotAt, At, ColdOf, WP!Stored, WP!BlockPoints, WP!Started, WP!PartsOf
  <2> QED
    BY <2>1, <2>2, <2>3 DEF CallSees
<1> QED
  BY <1>1, <1>2

\* NoGap: a GetRange answers every point that could be found from its first step
\* to its last, wherever the tiering worker and the clean-ups move it meanwhile,
\* whichever file operations fail, and whatever other callers do.  For every
\* number of callers, series and blocks.
THEOREM NeverAGap == EngineSpec => []NoGap
<1>1. EngineInit => GapInv
  BY DEF EngineInit, NoQuery, GapInv, CallSees
<1>2. EngineSpec => []WP!FirstLife
  <2>1. WP!Spec => [](WP!TypeInv /\ WP!IndexInv /\ WP!FirstLife)
    BY WarmAssumed, WP!FirstInvariant
  <2> QED
    BY <2>1, EngineKeepsWarm, PTL
<1>3. /\ EngineTyped /\ EngineTyped' /\ WP!FirstLife /\ WP!FirstLife' /\ GapInv /\ [EngineNext]_all
      => GapInv'
  BY GapStep
<1>4. GapInv => NoGap
  BY DEF GapInv, CallSees, NoGap
<1> QED
  BY <1>1, <1>2, <1>3, <1>4, EngineTypes, PTL DEF EngineSpec
=============================================================================
