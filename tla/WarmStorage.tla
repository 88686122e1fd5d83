----------------------------- MODULE WarmStorage -----------------------------
(***************************************************************************)
(* The file tier of src/storage/warm_storage.go: one append-only file per  *)
(* series, a sequence of blocks (8 bytes of start time, 4 bytes of length, *)
(* compressed data), and an index in memory that says where each block is. *)
(*                                                                         *)
(* A writer holds ws.mu from the lookup of the file to the last write, so  *)
(* at most one write is under way; each of its three writes to the file is *)
(* a step, and can fail, or be the last of a process that is killed.  A    *)
(* reader holds ws.mu only to look its WarmFile up and warmFile.mu while   *)
(* it reads, block by block; CleanupExpired removes files under ws.mu      *)
(* alone.  A restart rebuilds the index from the files.                    *)
(*                                                                         *)
(* A block's compressed size is a function of its number of points; bytes  *)
(* are counted, and what they hold is the part of the block they belong to.*)
(***************************************************************************)
EXTENDS Integers, Sequences, FiniteSets, SequencesExt

CONSTANTS
    SeriesIds, Readers,
    Blocks,         \* the blocks written: sequences of points [ts, val]
    PerMilli,       \* units of time in a millisecond
    Retention,      \* ws.retentionPeriod
    Ranges,         \* the ranges read: pairs <<from, to>>
    MaxBlocks,      \* bound: blocks in all files when a write begins
    MaxFaults,      \* bound: file operations that fail
    MaxRestarts,    \* bound: restarts of the process
    MaxClock        \* bound: the wall clock stops here

Chronological(s) == \A i, j \in DOMAIN s : i < j => s[i].ts < s[j].ts

ASSUME WarmAssumption ==
    /\ IsFiniteSet(SeriesIds)
    /\ \A b \in Blocks : /\ Len(b) \in Nat \ {0} /\ DOMAIN b = 1 .. Len(b)
                         /\ Chronological(b) /\ \A i \in DOMAIN b : b[i].ts \in Nat
    /\ Ranges \subseteq Nat \X Nat
    /\ PerMilli \in Nat \ {0} /\ Retention \in Nat /\ MaxBlocks \in Nat
    /\ MaxFaults \in Nat /\ MaxRestarts \in Nat /\ MaxClock \in Nat

VARIABLES
    disk,           \* the files: id -> what was written to it, and when last
    files,          \* ws.files: id -> FileSize, LastModified, index, file handle
    writing,        \* the write that holds ws.mu, if any: {} or one record
    readers,        \* the calls of ReadSeriesRange
    now,            \* the wall clock
    faults, restarts    \* how many there have been

bounded == <<now, faults, restarts>>
warm    == <<disk, files, writing, readers>>
vars    == <<warm, bounded>>

Points(b) == ToSet(b)
InRange(S, from, to) == {p \in S : from <= p.ts /\ p.ts <= to}

\* The start time of a block on disk and in a rebuilt index: in milliseconds.
Millis(t) == PerMilli * (t \div PerMilli)

(***************************************************************************)
(* A file is a sequence of parts: what was written, the block it belongs   *)
(* to, where it starts in the file, and how many bytes it has.             *)
(***************************************************************************)
HeaderSize == 8 + 4
DataSize(b) == 50 + 10 * Len(b)
PartSize(kind, b) == CASE kind = "time" -> 8 [] kind = "length" -> 4 [] kind = "data" -> DataSize(b)

SizeOf(parts) == IF parts = <<>> THEN 0 ELSE Last(parts).at + Last(parts).size

\* What the next write to a file with these parts adds.
Part(parts, kind, b) ==
    [kind |-> kind, block |-> b, at |-> SizeOf(parts), size |-> PartSize(kind, b)]

\* The complete blocks the file begins with, before anything torn.
WholePart(p, kind, b) == p.kind = kind /\ p.block = b /\ p.size = PartSize(kind, b)
WholeBlock(parts, i) ==
    /\ 3 * i <= Len(parts)
    /\ LET b == parts[3 * i].block
       IN  /\ WholePart(parts[3 * i - 2], "time", b)
           /\ WholePart(parts[3 * i - 1], "length", b)
           /\ WholePart(parts[3 * i], "data", b)
Whole(parts) == {i \in DOMAIN parts : \A j \in 1 .. i : WholeBlock(parts, j)}
WholeBlocks(parts) == Cardinality(Whole(parts))
BlocksOf(parts) == {parts[3 * i].block : i \in Whole(parts)}
Intact(parts) == Len(parts) = 3 * WholeBlocks(parts)

\* The blocks that the bytes from offset off hold the data of: none or one.
\* Any other slice of the file does not decompress.
BlocksAt(parts, off, len) ==
    {parts[k].block : k \in {j \in DOMAIN parts :
        /\ parts[j].kind = "data" /\ parts[j].size = len /\ len = DataSize(parts[j].block)
        /\ parts[j].at = off}}

(***************************************************************************)
(* WriteSeriesData                                                         *)
(***************************************************************************)
With(f, x, v) == [y \in DOMAIN f \cup {x} |-> IF y = x THEN v ELSE f[y]]
Without(f, S) == [y \in DOMAIN f \ S |-> f[y]]
Fail == faults < MaxFaults /\ faults' = faults + 1

\* The definitions named Faulty... are not part of the model.  Each is the one
\* after it with a slip a programmer could make; a property that holds of the
\* model is expected to fail with the slip put in.
NewFile == [size |-> 0, modified |-> now, index |-> {}, handle |-> "none"]
FaultyRegistered(id) == NewFile     \* the file in the map is overlooked
Registered(id) == IF id \in DOMAIN files THEN files[id] ELSE NewFile

\* A reader holds warmFile.mu until it has read the last block, or failed.
Reading(r)  == readers[r].pc = "reading" /\ readers[r].todo # {}
Answered(r) == readers[r].pc = "reading" /\ readers[r].todo = {}

\* Both locks are taken: ws.mu, and warmFile.mu.
MayWrite(id) ==
    /\ writing = {}
    /\ \A r \in Readers : ~(readers[r].live /\ Reading(r) /\ readers[r].id = id)
    /\ Cardinality(UNION {{i} \X DOMAIN disk[i].parts : i \in DOMAIN disk}) < 3 * MaxBlocks

\* The file is registered and opened for appending, or was opened before.
BeginWrite(id, b) ==
    /\ MayWrite(id)
    /\ LET f == Registered(id)
           opens == f.handle = "none"
       IN  /\ files' = With(files, id, IF opens THEN [f EXCEPT !.handle = "open"] ELSE f)
           /\ disk' = IF opens /\ id \notin DOMAIN disk
                      THEN With(disk, id, [parts |-> <<>>, mtime |-> now]) ELSE disk
    /\ writing' = {[id |-> id, block |-> b, next |-> "time"]}
    /\ UNCHANGED <<readers, bounded>>

\* os.OpenFile fails: the series is registered all the same.
OpenFails(id) ==
    /\ MayWrite(id) /\ Registered(id).handle = "none"
    /\ Fail
    /\ files' = With(files, id, Registered(id))
    /\ UNCHANGED <<disk, writing, readers, now, restarts>>

\* A write of size bytes.
Appended(w, size) ==
    LET parts == disk[w.id].parts
        part  == [Part(parts, w.next, w.block) EXCEPT !.size = size]
    IN  [disk EXCEPT ![w.id] = [parts |-> Append(parts, part), mtime |-> now]]

\* One of the two writes of the header.
WriteHeader(w) ==
    /\ w \in writing /\ w.next \in {"time", "length"}
    /\ files[w.id].handle = "open"
    /\ disk' = Appended(w, PartSize(w.next, w.block))
    /\ writing' = {[w EXCEPT !.next = IF w.next = "time" THEN "length" ELSE "data"]}
    /\ UNCHANGED <<files, readers, bounded>>

\* The file as it is known in memory once block b has been written to it.
Indexed(f, b) ==
    [f EXCEPT !.size = f.size + HeaderSize + DataSize(b), !.modified = now,
              !.index = f.index \cup {[ts |-> b[1].ts, off |-> f.size, len |-> DataSize(b),
                                       fresh |-> TRUE]}]

\* The data, and the entry that says where the block is.
WriteData(w) ==
    /\ w \in writing /\ w.next = "data"
    /\ files[w.id].handle = "open"
    /\ disk' = Appended(w, DataSize(w.block))
    /\ files' = [files EXCEPT ![w.id] = Indexed(files[w.id], w.block)]
    /\ writing' = {}
    /\ UNCHANGED <<readers, bounded>>

\* A write fails (or, before the first, the encoding of the block), leaving
\* nothing or a fragment: what was written before it stays in the file, and
\* neither FileSize nor the index knows.
WriteFails(w) ==
    /\ w \in writing /\ files[w.id].handle = "open"
    /\ Fail
    /\ \/ UNCHANGED disk
       \/ disk' = Appended(w, 1)
    /\ writing' = {}
    /\ UNCHANGED <<files, readers, now, restarts>>

\* The handle was closed, and is not nil: every write fails.
WriteToClosed(w) ==
    /\ w \in writing /\ files[w.id].handle = "closed"
    /\ writing' = {}
    /\ UNCHANGED <<disk, files, readers, bounded>>

(***************************************************************************)
(* ReadSeriesRange                                                         *)
(***************************************************************************)
Idle == [pc |-> "idle", live |-> FALSE]

\* The WarmFile is looked up under ws.mu, which is then released.
Lookup(r, id, from, to) ==
    /\ readers[r].pc = "idle" /\ writing = {}
    /\ id \in DOMAIN files
    /\ readers' = [readers EXCEPT ![r] =
           [pc |-> "found", live |-> TRUE, id |-> id, from |-> from, to |-> to,
            todo |-> {}, got |-> {}, want |-> {}]]
    /\ UNCHANGED <<disk, files, writing, bounded>>

FaultyRelevant(index, from, to) == {e \in index : from <= e.ts /\ e.ts < to}
Relevant(index, from, to) == {e \in index : from <= e.ts /\ e.ts <= to}

\* What a range ought to yield: the points of the blocks that start in it, as
\* the index has their start.
Reloaded(id) == Cardinality({e \in files[id].index : ~e.fresh})
Expected(id, from, to) ==
    LET parts == disk[id].parts
        Start(i) == LET t == parts[3 * i].block[1].ts IN IF i <= Reloaded(id) THEN Millis(t) ELSE t
    IN  InRange(UNION {Points(parts[3 * i].block) :
                          i \in {j \in Whole(parts) : from <= Start(j)}}, from, to)

\* warmFile.mu is taken, and with it the index as it is now; the index of a
\* WarmFile that has been removed is as it was then.
LockFile(r) ==
    LET R == readers[r] IN
    /\ R.pc = "found"
    /\ R.live => \A w \in writing : w.id # R.id
    /\ readers' = [readers EXCEPT ![r] =
           [R EXCEPT !.pc = "reading",
                     !.todo = IF R.live THEN Relevant(files[R.id].index, R.from, R.to) ELSE R.todo,
                     !.want = IF R.live /\ R.id \in DOMAIN disk
                              THEN Expected(R.id, R.from, R.to) ELSE {}]]
    /\ UNCHANGED <<disk, files, writing, bounded>>

\* readDataBlock opens the path, so it reads what is there now.
ReadBlock(r) ==
    LET R == readers[r] IN
    /\ Reading(r)
    /\ \E e \in R.todo :
        /\ \A d \in R.todo : e.ts <= d.ts
        /\ LET found == IF R.id \in DOMAIN disk
                        THEN BlocksAt(disk[R.id].parts, e.off + HeaderSize, e.len) ELSE {}
           IN  readers' = [readers EXCEPT ![r] =
                   IF found = {} THEN [R EXCEPT !.pc = "failed", !.todo = {}]
                   ELSE [R EXCEPT !.todo = R.todo \ {e},
                                  !.got = R.got \cup InRange(UNION {Points(b) : b \in found}, R.from, R.to)]]
    /\ UNCHANGED <<disk, files, writing, bounded>>

\* The caller has the answer, or the error.
Deliver(r) ==
    /\ Answered(r) \/ readers[r].pc = "failed"
    /\ readers' = [readers EXCEPT ![r] = Idle]
    /\ UNCHANGED <<disk, files, writing, bounded>>

(***************************************************************************)
(* CleanupExpired, Close and a restart                                     *)
(***************************************************************************)
FaultyExpired == {id \in DOMAIN files : now - files[id].modified >= Retention}
Expired == {id \in DOMAIN files : now - files[id].modified > Retention}

\* A reader that has looked up a WarmFile keeps it, as it is now, when gone.
Detached(gone) ==
    [r \in Readers |->
        LET R == readers[r] IN
        IF R.live /\ R.id \in gone
        THEN [R EXCEPT !.live = FALSE,
                       !.todo = IF R.pc = "found" THEN Relevant(files[R.id].index, R.from, R.to)
                                ELSE R.todo]
        ELSE R]

\* The files of the series in gone are removed and forgotten.  The first that
\* cannot be removed, because it was never created or os.Remove fails, is left
\* with its handle closed, and ends the clean-up.
RemoveExpired ==
    /\ Expired # {}
    /\ \E gone \in SUBSET (Expired \cap DOMAIN disk) :
        /\ \/ gone = Expired /\ files' = Without(files, gone) /\ UNCHANGED faults
           \/ \E id \in Expired \ gone :
                /\ IF id \in DOMAIN disk THEN Fail ELSE UNCHANGED faults
                /\ files' = Without([files EXCEPT ![id].handle = IF @ = "open" THEN "closed" ELSE @], gone)
        /\ disk' = Without(disk, gone)
        /\ readers' = Detached(gone)
    /\ UNCHANGED <<writing, now, restarts>>

\* Under ws.mu; faulty: without it, in the middle of a write.
FaultyCleanupExpired == RemoveExpired
CleanupExpired       == writing = {} /\ RemoveExpired

\* Close leaves the closed handles in place.
Close ==
    /\ writing = {}
    /\ \E id \in DOMAIN files : files[id].handle = "open"
    /\ files' = [id \in DOMAIN files |->
           [files[id] EXCEPT !.handle = IF @ = "open" THEN "closed" ELSE @]]
    /\ UNCHANGED <<disk, writing, readers, bounded>>

\* The index loadIndexEntries builds from the complete blocks: it counts 24
\* bytes for a header of 12.
ReloadedHeader == 24
Rebuilt(parts) ==
    {[ts |-> Millis(parts[3 * i].block[1].ts),
      off |-> parts[3 * i - 2].at + (i - 1) * (ReloadedHeader - HeaderSize),
      len |-> DataSize(parts[3 * i].block), fresh |-> FALSE] : i \in Whole(parts)}

\* The index loading can end with; no index if the file is skipped.  A torn
\* header of 8 bytes at the end reads as the end of the file; any other rest
\* fails to load or, when something follows the torn block, may be taken for
\* blocks, of which it holds none.
Junk == [ts |-> 0, off |-> 0, len |-> 0, fresh |-> FALSE]
Loads(parts) ==
    LET n == 3 * WholeBlocks(parts)
        rest == SubSeq(parts, n + 1, Len(parts))
    IN  IF rest = <<>> \/ (Len(rest) = 1 /\ rest[1].size = 8) THEN {{Rebuilt(parts)}}
        ELSE {{}} \cup (IF \E k \in 2 .. Len(rest) : rest[k].kind = "time"
                      THEN {{Rebuilt(parts) \cup {Junk}}} ELSE {})

\* The process ends, at any point, and a new one loads the files.
Restart ==
    /\ restarts < MaxRestarts /\ restarts' = restarts + 1
    /\ \E load \in [DOMAIN disk -> UNION {Loads(disk[id].parts) : id \in DOMAIN disk}] :
        /\ \A id \in DOMAIN disk : load[id] \in Loads(disk[id].parts)
        /\ files' = [id \in {i \in DOMAIN disk : load[i] # {}} |->
               [size |-> SizeOf(disk[id].parts), modified |-> disk[id].mtime,
                index |-> UNION load[id], handle |-> "none"]]
    /\ writing' = {} /\ readers' = [r \in Readers |-> Idle]
    /\ UNCHANGED <<disk, now, faults>>

Tick == now < MaxClock /\ now' = now + 1 /\ UNCHANGED <<warm, faults, restarts>>

Init ==
    /\ disk = <<>> /\ files = <<>> /\ writing = {}
    /\ readers = [r \in Readers |-> Idle]
    /\ now = 0 /\ faults = 0 /\ restarts = 0

Write == \/ \E id \in SeriesIds : OpenFails(id) \/ \E b \in Blocks : BeginWrite(id, b)
         \/ \E w \in writing : WriteHeader(w) \/ WriteData(w) \/ WriteFails(w) \/ WriteToClosed(w)

Read(r) == \/ \E id \in SeriesIds, range \in Ranges : Lookup(r, id, range[1], range[2])
           \/ LockFile(r) \/ ReadBlock(r) \/ Deliver(r)

\* No call is under way, and none need come.
Quiet == writing = {} /\ \A r \in Readers : readers[r].pc = "idle"

Next == \/ Write \/ (\E r \in Readers : Read(r)) \/ CleanupExpired \/ Close \/ Restart \/ Tick
        \/ Quiet /\ UNCHANGED vars

Spec == Init /\ [][Next]_vars

(***************************************************************************)
(* Properties                                                              *)
(***************************************************************************)
Entries == [ts : Nat, off : Nat, len : Nat, fresh : BOOLEAN]

TypeOK ==
    /\ DOMAIN disk \subseteq SeriesIds /\ DOMAIN files \subseteq SeriesIds
    /\ \A id \in DOMAIN disk : disk[id].mtime \in 0 .. now
    /\ \A id \in DOMAIN files : LET f == files[id] IN
        /\ f.size \in Nat /\ f.modified \in 0 .. now
        /\ f.index \subseteq Entries /\ f.handle \in {"none", "open", "closed"}
        /\ f.handle # "none" => id \in DOMAIN disk
    /\ \A w \in writing : w.id \in DOMAIN files /\ w.block \in Blocks
    /\ \A v, w \in writing : v = w
    /\ \A r \in Readers : readers[r].live => readers[r].id \in DOMAIN files

\* Nothing is torn, and at most one block was indexed by loadIndexEntries.
Healthy(id) ==
    /\ id \in DOMAIN files /\ id \in DOMAIN disk /\ Intact(disk[id].parts)
    /\ Reloaded(id) <= 1

\* Where the index says a block is, the block is.
Exact(id, e) ==
    \E b \in BlocksAt(disk[id].parts, e.off + HeaderSize, e.len) :
        e.ts = IF e.fresh THEN b[1].ts ELSE Millis(b[1].ts)

\* FileSize, the order of the writes and the appends of other processes'
\* lives agree: a file in which no write failed half way, and which was not
\* reloaded with several blocks, has one exact entry for every block it holds.
IndexExact ==
    \A id \in SeriesIds :
        Healthy(id) => /\ \A e \in files[id].index : Exact(id, e)
                       /\ Cardinality(files[id].index) = WholeBlocks(disk[id].parts)
                       /\ files[id].size = SizeOf(disk[id].parts)

\* A read that races with writers, the clean-up and restarts never fails on a
\* healthy file that is still there, and returns all the points of the blocks
\* that start in its range and no point outside it.
ReadsExact ==
    \A r \in Readers :
        LET R == readers[r] IN
        R.live /\ Healthy(R.id) =>
            /\ R.pc # "failed"
            /\ Answered(r) =>
                /\ R.want \subseteq R.got
                /\ R.got \subseteq InRange(UNION {Points(b) : b \in BlocksOf(disk[R.id].parts)},
                                           R.from, R.to)

\* A file that holds a block, and nothing torn, is not removed before its
\* retention period has passed since it was last written, whether this process
\* or one before it wrote it.  (An empty file may be: it is as old as the first
\* attempt to create it.)
RetentionRespected ==
    [][\A id \in DOMAIN disk \ (DOMAIN disk)' :
          disk[id].parts # <<>> /\ Intact(disk[id].parts) => now - disk[id].mtime > Retention]_vars

\* "persistent storage for time-series data": after a restart every entry of
\* an intact file designates its block.  The code does not do this.
RestartKeepsIndex ==
    \A id \in DOMAIN files \cap DOMAIN disk :
        Intact(disk[id].parts) => \A e \in files[id].index : Exact(id, e)
=============================================================================
