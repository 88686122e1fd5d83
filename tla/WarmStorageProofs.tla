-------------------------- MODULE WarmStorageProofs --------------------------
(***************************************************************************)
(* Proofs about WarmStorage, for any series, blocks, readers and ranges,   *)
(* and without its bounds.                                                 *)
(***************************************************************************)
EXTENDS WarmStorage, FiniteSetTheorems, TLAPS

Kinds     == {"time", "length", "data"}
FileParts == [kind : Kinds, block : Blocks, at : Nat, size : Nat \ {0}]
Disks     == [parts : Seq(FileParts), mtime : Nat]
WarmFiles == [size : Nat, modified : Nat, index : SUBSET Entries,
              handle : {"none", "open", "closed"}]
Writes    == [id : SeriesIds, block : Blocks, next : Kinds]
AllPoints == UNION {Points(b) : b \in Blocks}
Calls     == [pc : {"found", "reading", "failed"}, live : BOOLEAN, id : SeriesIds,
              from : Nat, to : Nat, todo : SUBSET Entries,
              got : SUBSET AllPoints, want : SUBSET AllPoints]

\* What TypeOK leaves open: the contents of the files, the write, the calls.  A
\* write holds a handle, and there is one only of a file that is there.
Typed ==
    /\ disk \in [DOMAIN disk -> Disks] /\ files \in [DOMAIN files -> WarmFiles]
    /\ writing \subseteq Writes
    /\ \A w \in writing : w.id \in DOMAIN files /\ files[w.id].handle # "none"
    /\ readers \in [Readers -> {Idle} \cup Calls]
    /\ now \in Nat

TypeInv == TypeOK /\ Typed

LEMMA MillisType ==
    ASSUME NEW t \in Nat
    PROVE  Millis(t) \in Nat /\ Millis(t) <= t
<1>1. PerMilli \in Nat \ {0} /\ t \div PerMilli \in Nat
  BY WarmAssumption
<1> QED
  BY <1>1 DEF Millis

LEMMA BlockType ==
    ASSUME NEW b \in Blocks
    PROVE  /\ Len(b) \in Nat \ {0} /\ DOMAIN b = 1 .. Len(b) /\ Chronological(b)
           /\ b[1].ts \in Nat /\ b[1] \in Points(b) /\ DataSize(b) \in Nat \ {0}
           /\ \A p \in Points(b) : p.ts \in Nat /\ b[1].ts <= p.ts
<1>1. Len(b) \in Nat \ {0} /\ DOMAIN b = 1 .. Len(b) /\ Chronological(b) /\ 1 \in DOMAIN b
      /\ \A i \in DOMAIN b : b[i].ts \in Nat
  BY WarmAssumption
<1>2. Points(b) = {b[i] : i \in DOMAIN b}
  BY DEF Points, ToSet
<1>3. ASSUME NEW p \in Points(b) PROVE p.ts \in Nat /\ b[1].ts <= p.ts
  <2>1. PICK i \in 1 .. Len(b) : p = b[i]
    BY <1>1, <1>2
  <2>2. 1 < i => b[1].ts < b[i].ts
    BY <1>1 DEF Chronological
  <2> QED
    BY <1>1, <2>1, <2>2
<1> QED
  BY <1>1, <1>2, <1>3 DEF DataSize

LEMMA SizeType ==
    ASSUME NEW parts \in Seq(FileParts)
    PROVE  SizeOf(parts) \in Nat
<1>1. CASE parts = <<>>
  BY <1>1 DEF SizeOf
<1>2. CASE parts # <<>>
  <2>1. parts[Len(parts)] \in FileParts
    BY <1>2
  <2>2. parts[Len(parts)].at \in Nat /\ parts[Len(parts)].size \in Nat
    BY <2>1 DEF FileParts
  <2>3. SizeOf(parts) = parts[Len(parts)].at + parts[Len(parts)].size
    BY <1>2 DEF SizeOf, Last
  <2> QED
    BY <2>2, <2>3
<1> QED
  BY <1>1, <1>2

LEMMA WholeType ==
    ASSUME NEW parts \in Seq(FileParts), NEW i \in Whole(parts)
    PROVE  /\ i \in Nat \ {0} /\ 3 * i <= Len(parts)
           /\ 3 * i \in DOMAIN parts /\ 3 * i - 2 \in DOMAIN parts
           /\ parts[3 * i].block \in Blocks /\ parts[3 * i - 2].at \in Nat
<1>1. i \in 1 .. Len(parts) /\ WholeBlock(parts, i)
  BY DEF Whole
<1>2. 3 * i <= Len(parts) /\ 3 * i \in DOMAIN parts /\ 3 * i - 2 \in DOMAIN parts
  BY <1>1 DEF WholeBlock
<1>3. parts[3 * i] \in FileParts /\ parts[3 * i - 2] \in FileParts
  BY <1>2
<1> QED
  BY <1>1, <1>2, <1>3 DEF FileParts

(***************************************************************************)
(* Types.                                                                  *)
(***************************************************************************)
LEMMA PartSizes ==
    ASSUME NEW kind \in Kinds, NEW b \in Blocks
    PROVE  /\ PartSize(kind, b) \in Nat \ {0, 1}
           /\ kind = "time" => PartSize(kind, b) = 8
           /\ kind = "length" => PartSize(kind, b) = 4
           /\ kind = "data" => PartSize(kind, b) = DataSize(b)
<1>1. Len(b) \in Nat \ {0}
  BY BlockType
<1>2. DataSize(b) \in Nat \ {0, 1}
  BY <1>1 DEF DataSize
<1> HIDE DEF DataSize
<1> QED
  BY <1>2 DEF PartSize, Kinds

\* What a write leaves in the file: the parts there were, and one more.
NewPart(w, size) == [kind |-> w.next, block |-> w.block, at |-> SizeOf(disk[w.id].parts),
                     size |-> size]

LEMMA AppendedParts ==
    ASSUME TypeInv, NEW w \in writing, NEW size \in Nat \ {0}, disk' = Appended(w, size)
    PROVE  /\ disk' \in [DOMAIN disk -> Disks] /\ DOMAIN disk' = DOMAIN disk
           /\ w.id \in DOMAIN disk /\ NewPart(w, size) \in FileParts
           /\ disk'[w.id].parts = Append(disk[w.id].parts, NewPart(w, size))
           /\ disk'[w.id].mtime = now
           /\ \A id \in DOMAIN disk : id # w.id => disk'[id] = disk[id]
<1>1. w \in Writes /\ w.id \in DOMAIN disk /\ now \in Nat
  BY DEF TypeInv, TypeOK, Typed
<1>2. disk[w.id] \in Disks
  BY <1>1 DEF TypeInv, Typed
<1>3. disk[w.id].parts \in Seq(FileParts)
  BY <1>2 DEF Disks
<1>4. SizeOf(disk[w.id].parts) \in Nat
  BY <1>3, SizeType
<1>5. NewPart(w, size) \in FileParts
  BY <1>1, <1>4 DEF NewPart, FileParts, Writes
<1>6. [Part(disk[w.id].parts, w.next, w.block) EXCEPT !.size = size] = NewPart(w, size)
  BY DEF Part, NewPart
<1>7. disk' = [disk EXCEPT ![w.id] = [parts |-> Append(disk[w.id].parts, NewPart(w, size)), mtime |-> now]]
  BY <1>6 DEF Appended
<1>8. Append(disk[w.id].parts, NewPart(w, size)) \in Seq(FileParts)
  BY <1>3, <1>5
<1>9. [parts |-> Append(disk[w.id].parts, NewPart(w, size)), mtime |-> now] \in Disks
  BY <1>1, <1>8 DEF Disks
<1>10. disk \in [DOMAIN disk -> Disks]
  BY DEF TypeInv, Typed
<1> HIDE DEF NewPart
<1> QED
  BY <1>1, <1>5, <1>7, <1>9, <1>10

LEMMA TypeInit == Init => TypeInv
BY WarmAssumption DEF Init, TypeInv, TypeOK, Typed, Idle

LEMMA RegisteredType ==
    ASSUME TypeInv, NEW id \in SeriesIds
    PROVE  /\ Registered(id) \in WarmFiles /\ Registered(id).modified \in 0 .. now
           /\ Registered(id).handle # "none" => id \in DOMAIN disk
BY DEF Registered, NewFile, TypeInv, TypeOK, Typed, WarmFiles

LEMMA TypeBegin ==
    ASSUME TypeInv, NEW id \in SeriesIds, NEW b \in Blocks, BeginWrite(id, b)
    PROVE  TypeInv'
<1> DEFINE f == Registered(id)
           g == IF f.handle = "none" THEN [f EXCEPT !.handle = "open"] ELSE f
<1>1. f \in WarmFiles /\ f.modified \in 0 .. now /\ (f.handle # "none" => id \in DOMAIN disk)
  BY RegisteredType
<1>2. files' = With(files, id, g)
  BY DEF BeginWrite
<1>3. disk' = IF f.handle = "none" /\ id \notin DOMAIN disk
              THEN With(disk, id, [parts |-> <<>>, mtime |-> now]) ELSE disk
  BY DEF BeginWrite
<1> HIDE DEF f
<1>4. g \in WarmFiles /\ g.modified \in 0 .. now /\ g.handle # "none"
  BY <1>1 DEF WarmFiles
<1> HIDE DEF g
<1>5. /\ files' \in [DOMAIN files' -> WarmFiles] /\ DOMAIN files' = DOMAIN files \cup {id}
      /\ files'[id] = g /\ \A j \in DOMAIN files : j # id => files'[j] = files[j]
  BY <1>2, <1>4 DEF With, TypeInv, Typed
<1>6. [parts |-> <<>>, mtime |-> now] \in Disks /\ now \in Nat
  BY DEF TypeInv, Typed, Disks
<1>7. /\ disk' \in [DOMAIN disk' -> Disks] /\ DOMAIN disk' = DOMAIN disk \cup {id}
      /\ \A j \in DOMAIN disk : disk'[j] = disk[j]
      /\ id \notin DOMAIN disk => disk'[id].mtime = now
  BY <1>1, <1>3, <1>6 DEF With, TypeInv, Typed
<1>8. writing' = {[id |-> id, block |-> b, next |-> "time"]} /\ UNCHANGED <<readers, now>>
  BY DEF BeginWrite, bounded
<1>9. Typed'
  BY <1>4, <1>5, <1>7, <1>8 DEF TypeInv, Typed, Writes, Kinds
<1>10. TypeOK'
  <2>1. DOMAIN disk' \subseteq SeriesIds /\ DOMAIN files' \subseteq SeriesIds
    BY <1>5, <1>7 DEF TypeInv, TypeOK
  <2>2. \A j \in DOMAIN disk' : disk'[j].mtime \in 0 .. now
    BY <1>6, <1>7 DEF TypeInv, TypeOK
  <2>3. ASSUME NEW j \in DOMAIN files'
        PROVE  /\ files'[j].size \in Nat /\ files'[j].modified \in 0 .. now
               /\ files'[j].index \subseteq Entries /\ files'[j].handle \in {"none", "open", "closed"}
               /\ files'[j].handle # "none" => j \in DOMAIN disk'
    <3>1. CASE j = id
      BY <1>4, <1>5, <1>7, <3>1 DEF WarmFiles
    <3>2. CASE j # id
      BY <1>5, <1>7, <3>2 DEF TypeInv, TypeOK
    <3> QED
      BY <3>1, <3>2
  <2>4. \A r \in Readers : readers'[r].live => readers'[r].id \in DOMAIN files'
    BY <1>5, <1>8 DEF TypeInv, TypeOK
  <2>5. now' = now
    BY <1>8
  <2>6. \A w \in writing' : w.id \in DOMAIN files' /\ w.block \in Blocks
    BY <1>5, <1>8
  <2>7. \A v, w \in writing' : v = w
    BY <1>8
  <2> QED
    BY <2>1, <2>2, <2>3, <2>4, <2>5, <2>6, <2>7 DEF TypeOK
<1> QED
  BY <1>9, <1>10 DEF TypeInv

LEMMA TypeOpenFails ==
    ASSUME TypeInv, NEW id \in SeriesIds, OpenFails(id)
    PROVE  TypeInv'
<1> DEFINE f == Registered(id)
<1>1. f \in WarmFiles /\ f.modified \in 0 .. now /\ f.handle = "none"
  BY RegisteredType DEF OpenFails
<1>2. files' = With(files, id, f) /\ UNCHANGED <<disk, writing, readers, now>> /\ writing = {}
  BY DEF OpenFails, MayWrite
<1> HIDE DEF f
<1>5. /\ files' \in [DOMAIN files' -> WarmFiles] /\ DOMAIN files' = DOMAIN files \cup {id}
      /\ files'[id] = f /\ \A j \in DOMAIN files : j # id => files'[j] = files[j]
  BY <1>1, <1>2 DEF With, TypeInv, Typed
<1>9. Typed'
  BY <1>2, <1>5 DEF TypeInv, Typed
<1>10. TypeOK'
  <2>1. ASSUME NEW j \in DOMAIN files'
        PROVE  /\ files'[j].size \in Nat /\ files'[j].modified \in 0 .. now
               /\ files'[j].index \subseteq Entries /\ files'[j].handle \in {"none", "open", "closed"}
               /\ files'[j].handle # "none" => j \in DOMAIN disk
    <3>1. CASE j = id
      BY <1>1, <1>5, <3>1 DEF WarmFiles
    <3>2. CASE j # id
      BY <1>5, <3>2 DEF TypeInv, TypeOK
    <3> QED
      BY <3>1, <3>2
  <2>2. \A r \in Readers : readers'[r].live => readers'[r].id \in DOMAIN files'
    BY <1>2, <1>5 DEF TypeInv, TypeOK
  <2> QED
    BY <1>2, <1>5, <2>1, <2>2 DEF TypeInv, TypeOK
<1> QED
  BY <1>9, <1>10 DEF TypeInv

LEMMA WriterType ==
    ASSUME TypeInv, NEW w \in writing
    PROVE  /\ w \in Writes /\ w.id \in SeriesIds /\ w.block \in Blocks /\ w.next \in Kinds
           /\ w.id \in DOMAIN files /\ w.id \in DOMAIN disk
           /\ disk[w.id] \in Disks /\ disk[w.id].parts \in Seq(FileParts)
           /\ files[w.id] \in WarmFiles /\ writing = {w}
<1>1. w \in Writes /\ w.id \in DOMAIN files /\ w.id \in DOMAIN disk /\ writing = {w}
  BY DEF TypeInv, TypeOK, Typed
<1>2. disk[w.id] \in Disks /\ files[w.id] \in WarmFiles
  BY <1>1 DEF TypeInv, Typed
<1> QED
  BY <1>1, <1>2 DEF Writes, Disks

\* The files in memory as they were, one more part, and the write ended or on
\* its way.
LEMMA TypeAppend ==
    ASSUME TypeInv, NEW w \in writing, NEW size \in Nat \ {0}, disk' = Appended(w, size),
           UNCHANGED <<files, readers, now>>, 
           \/ writing' = {}
           \/ \E k \in Kinds : writing' = {[w EXCEPT !.next = k]}
    PROVE  TypeInv'
<1>1. /\ disk' \in [DOMAIN disk -> Disks] /\ DOMAIN disk' = DOMAIN disk
      /\ disk'[w.id].mtime = now /\ \A id \in DOMAIN disk : id # w.id => disk'[id] = disk[id]
  BY AppendedParts
<1>2. writing' \subseteq Writes /\ (\A v \in writing' : v.id = w.id) /\ \A u, v \in writing' : u = v
  BY WriterType DEF Writes
<1>3. files[w.id].handle # "none" /\ now \in Nat
  BY DEF TypeInv, Typed
<1>4. Typed'
  BY <1>1, <1>2, <1>3, WriterType DEF TypeInv, Typed
<1>5. \A v \in writing' : v.id \in DOMAIN files' /\ v.block \in Blocks
  BY <1>2, WriterType DEF Writes
<1>6. \A id \in DOMAIN disk' : disk'[id].mtime \in 0 .. now
  BY <1>1, <1>3 DEF TypeInv, TypeOK
<1>7. TypeOK'
  BY <1>1, <1>2, <1>5, <1>6 DEF TypeInv, TypeOK
<1> QED
  BY <1>4, <1>7 DEF TypeInv

\* What a completed write adds to the index.
NewEntry(w) == [ts |-> w.block[1].ts, off |-> files[w.id].size, len |-> DataSize(w.block),
                fresh |-> TRUE]
NewWarmFile(w) == Indexed(files[w.id], w.block)

LEMMA WrittenFile ==
    ASSUME TypeInv, NEW w \in writing, WriteData(w)
    PROVE  /\ NewEntry(w) \in Entries /\ NewWarmFile(w) \in WarmFiles
           /\ files' = [files EXCEPT ![w.id] = NewWarmFile(w)]
           /\ NewWarmFile(w).index = files[w.id].index \cup {NewEntry(w)}
           /\ NewWarmFile(w).size = files[w.id].size + 12 + DataSize(w.block)
           /\ NewWarmFile(w).modified = now /\ NewWarmFile(w).handle = files[w.id].handle
<1>1. files[w.id] \in WarmFiles /\ w.block \in Blocks
  BY WriterType
<1>2. w.block[1].ts \in Nat /\ DataSize(w.block) \in Nat
  BY <1>1, BlockType
<1>3. NewEntry(w) \in Entries
  BY <1>1, <1>2 DEF NewEntry, Entries, WarmFiles
<1>4. files' = [files EXCEPT ![w.id] = NewWarmFile(w)]
  BY DEF WriteData, NewWarmFile
<1>5. now \in Nat
  BY DEF TypeInv, Typed
<1> DEFINE f == files[w.id]
<1>6. NewWarmFile(w) = [f EXCEPT !.size = f.size + HeaderSize + DataSize(w.block), !.modified = now,
                                 !.index = f.index \cup {NewEntry(w)}]
  BY DEF NewWarmFile, NewEntry, Indexed
<1>7. f \in WarmFiles
  BY <1>1
<1> DEFINE size == f.size + HeaderSize + DataSize(w.block)
           index == f.index \cup {NewEntry(w)}
<1> HIDE DEF f, NewEntry, DataSize
<1>9. size \in Nat /\ size = f.size + 12 + DataSize(w.block) /\ index \in SUBSET Entries
  BY <1>2, <1>3, <1>7 DEF WarmFiles, HeaderSize
<1>10. NewWarmFile(w) = [f EXCEPT !.size = size, !.modified = now, !.index = index]
  BY <1>6
<1> HIDE DEF size, index
<1>11. /\ NewWarmFile(w) \in WarmFiles /\ NewWarmFile(w).index = index
       /\ NewWarmFile(w).size = size
       /\ NewWarmFile(w).modified = now /\ NewWarmFile(w).handle = f.handle
  BY <1>5, <1>7, <1>9, <1>10 DEF WarmFiles
<1>8. /\ NewWarmFile(w) \in WarmFiles
      /\ NewWarmFile(w).index = f.index \cup {NewEntry(w)}
      /\ NewWarmFile(w).size = f.size + 12 + DataSize(w.block)
      /\ NewWarmFile(w).modified = now /\ NewWarmFile(w).handle = f.handle
  BY <1>9, <1>11 DEF index
<1> QED
  BY <1>3, <1>4, <1>8 DEF f

LEMMA TypeWrite ==
    ASSUME TypeInv, NEW w \in writing,
           WriteHeader(w) \/ WriteData(w) \/ WriteFails(w) \/ WriteToClosed(w)
    PROVE  TypeInv'
<1>1. w.next \in Kinds /\ w.block \in Blocks
  BY WriterType
<1>2. PartSize(w.next, w.block) \in Nat \ {0} /\ DataSize(w.block) \in Nat \ {0}
  BY <1>1, PartSizes, BlockType
<1>3. CASE WriteHeader(w)
  <2>1. \E k \in Kinds : writing' = {[w EXCEPT !.next = k]}
    BY <1>3 DEF WriteHeader, Kinds
  <2> QED
    BY <1>2, <1>3, <2>1, TypeAppend DEF WriteHeader, bounded
<1>4. CASE WriteData(w)
  <2> DEFINE g == NewWarmFile(w)
  <2>1. /\ g \in WarmFiles /\ files' = [files EXCEPT ![w.id] = g] /\ g.modified = now
        /\ g.handle = files[w.id].handle
    BY <1>4, WrittenFile
  <2>2. /\ disk' \in [DOMAIN disk -> Disks] /\ DOMAIN disk' = DOMAIN disk
        /\ disk'[w.id].mtime = now /\ \A id \in DOMAIN disk : id # w.id => disk'[id] = disk[id]
    BY <1>2, <1>4, AppendedParts DEF WriteData
  <2>3. writing' = {} /\ UNCHANGED <<readers, now>> /\ w.id \in DOMAIN disk /\ now \in Nat
    BY <1>4, WriterType DEF WriteData, bounded, TypeInv, Typed
  <2> HIDE DEF g
  <2>4. /\ files' \in [DOMAIN files -> WarmFiles] /\ DOMAIN files' = DOMAIN files
        /\ files'[w.id] = g /\ \A id \in DOMAIN files : id # w.id => files'[id] = files[id]
    BY <2>1, WriterType DEF TypeInv, Typed
  <2>5. Typed'
    BY <2>2, <2>3, <2>4 DEF TypeInv, Typed
  <2>6. \A id \in DOMAIN disk' : disk'[id].mtime \in 0 .. now
    BY <2>2, <2>3 DEF TypeInv, TypeOK
  <2>7. ASSUME NEW j \in DOMAIN files'
        PROVE  /\ files'[j].size \in Nat /\ files'[j].modified \in 0 .. now
               /\ files'[j].index \subseteq Entries /\ files'[j].handle \in {"none", "open", "closed"}
               /\ files'[j].handle # "none" => j \in DOMAIN disk
    <3>1. CASE j = w.id
      BY <2>1, <2>3, <2>4, <3>1 DEF WarmFiles
    <3>2. CASE j # w.id
      BY <2>4, <3>2 DEF TypeInv, TypeOK
    <3> QED
      BY <3>1, <3>2
  <2>8. TypeOK'
    BY <2>2, <2>3, <2>4, <2>6, <2>7 DEF TypeInv, TypeOK
  <2> QED
    BY <2>5, <2>8 DEF TypeInv
<1>5. CASE WriteFails(w)
  <2>1. CASE UNCHANGED disk
    BY <1>5, <2>1 DEF WriteFails, TypeInv, TypeOK, Typed
  <2>2. CASE disk' = Appended(w, 1)
    BY <1>5, <2>2, TypeAppend DEF WriteFails
  <2> QED
    BY <1>5, <2>1, <2>2 DEF WriteFails
<1>6. CASE WriteToClosed(w)
  BY <1>6 DEF WriteToClosed, TypeInv, TypeOK, Typed, bounded
<1> QED
  BY <1>3, <1>4, <1>5, <1>6

LEMMA CallType ==
    ASSUME TypeInv, NEW r \in Readers, readers[r].pc # "idle" \/ readers[r].live
    PROVE  /\ readers[r] \in Calls
           /\ readers[r].live => readers[r].id \in DOMAIN files /\ files[readers[r].id] \in WarmFiles
<1>1. readers[r] \in Calls
  BY DEF TypeInv, Typed, Idle
<1>2. readers[r].live => readers[r].id \in DOMAIN files
  BY DEF TypeInv, TypeOK
<1> QED
  BY <1>1, <1>2 DEF TypeInv, Typed

LEMMA RelevantType ==
    ASSUME NEW index \in SUBSET Entries, NEW from \in Nat, NEW to \in Nat
    PROVE  Relevant(index, from, to) \in SUBSET Entries
BY DEF Relevant

LEMMA PointsType ==
    ASSUME NEW parts \in Seq(FileParts)
    PROVE  /\ \A off, len : UNION {Points(b) : b \in BlocksAt(parts, off, len)} \subseteq AllPoints
           /\ \A i \in Whole(parts) : Points(parts[3 * i].block) \subseteq AllPoints
<1>1. \A k \in DOMAIN parts : parts[k].block \in Blocks
  <2>1. \A k \in DOMAIN parts : parts[k] \in FileParts
    OBVIOUS
  <2> QED
    BY <2>1 DEF FileParts
<1>2. ASSUME NEW off, NEW len, NEW b \in BlocksAt(parts, off, len) PROVE Points(b) \subseteq AllPoints
  <2>1. b \in Blocks
    BY <1>1, <1>2 DEF BlocksAt
  <2> QED
    BY <2>1 DEF AllPoints
<1>3. ASSUME NEW i \in Whole(parts) PROVE Points(parts[3 * i].block) \subseteq AllPoints
  BY WholeType DEF AllPoints
<1> QED
  BY <1>2, <1>3

LEMMA ExpectedType ==
    ASSUME TypeInv, NEW id \in DOMAIN disk, NEW from \in Nat, NEW to \in Nat
    PROVE  Expected(id, from, to) \in SUBSET AllPoints
<1>1. disk[id].parts \in Seq(FileParts)
  BY DEF TypeInv, Typed, Disks
<1> QED
  BY <1>1, PointsType DEF Expected, InRange

LEMMA TypeRead ==
    ASSUME TypeInv, NEW r \in Readers, Read(r)
    PROVE  TypeInv'
<1> DEFINE R == readers[r]
<1>1. UNCHANGED <<disk, files, writing, now>>
  BY DEF Read, Lookup, LockFile, ReadBlock, Deliver, bounded
<1>2. ASSUME NEW c \in {Idle} \cup Calls, readers' = [readers EXCEPT ![r] = c],
             c.live => c.id \in DOMAIN files
      PROVE  TypeInv'
  <2>1. Typed'
    BY <1>1, <1>2 DEF TypeInv, Typed
  <2>2. \A u \in Readers : readers'[u].live => readers'[u].id \in DOMAIN files'
    BY <1>1, <1>2 DEF TypeInv, TypeOK, Typed
  <2> QED
    BY <1>1, <2>1, <2>2 DEF TypeInv, TypeOK
<1>3. ASSUME NEW id \in SeriesIds, NEW range \in Ranges, Lookup(r, id, range[1], range[2])
      PROVE  TypeInv'
  <2> DEFINE c == [pc |-> "found", live |-> TRUE, id |-> id, from |-> range[1], to |-> range[2],
                   todo |-> {}, got |-> {}, want |-> {}]
  <2>1. range[1] \in Nat /\ range[2] \in Nat
    BY WarmAssumption
  <2>2. c \in Calls /\ c.live /\ c.id = id
    BY <2>1 DEF Calls
  <2>3. readers' = [readers EXCEPT ![r] = c] /\ id \in DOMAIN files
    BY <1>3 DEF Lookup
  <2> HIDE DEF c
  <2> QED
    BY <1>2, <2>2, <2>3
<1>4. CASE LockFile(r)
  <2> DEFINE todo == IF R.live THEN Relevant(files[R.id].index, R.from, R.to) ELSE R.todo
             want == IF R.live /\ R.id \in DOMAIN disk THEN Expected(R.id, R.from, R.to) ELSE {}
             c == [R EXCEPT !.pc = "reading", !.todo = todo, !.want = want]
  <2>1. R \in Calls /\ (R.live => R.id \in DOMAIN files /\ files[R.id] \in WarmFiles)
    BY <1>4, CallType DEF LockFile
  <2>2. R.from \in Nat /\ R.to \in Nat /\ R.todo \in SUBSET Entries
    BY <2>1 DEF Calls
  <2>3. todo \in SUBSET Entries
    <3>1. R.live => files[R.id].index \in SUBSET Entries
      BY <2>1 DEF WarmFiles
    <3> QED
      BY <2>2, <3>1, RelevantType
  <2>4. want \in SUBSET AllPoints
    <3>1. R.id \in DOMAIN disk => Expected(R.id, R.from, R.to) \in SUBSET AllPoints
      BY <2>2, ExpectedType
    <3> QED
      BY <3>1
  <2>5. readers' = [readers EXCEPT ![r] = c]
    BY <1>4 DEF LockFile
  <2> HIDE DEF todo, want
  <2>6. c \in Calls /\ (c.live => c.id \in DOMAIN files)
    BY <2>1, <2>3, <2>4 DEF Calls
  <2> HIDE DEF c
  <2> QED
    BY <1>2, <2>5, <2>6
<1>5. CASE ReadBlock(r)
  <2>1. R \in Calls /\ (R.live => R.id \in DOMAIN files)
    BY <1>5, CallType DEF ReadBlock, Reading
  <2>2. PICK e \in R.todo :
          LET found == IF R.id \in DOMAIN disk
                       THEN BlocksAt(disk[R.id].parts, e.off + HeaderSize, e.len) ELSE {}
          IN  readers' = [readers EXCEPT ![r] =
                 IF found = {} THEN [R EXCEPT !.pc = "failed", !.todo = {}]
                 ELSE [R EXCEPT !.todo = R.todo \ {e},
                                !.got = R.got \cup InRange(UNION {Points(b) : b \in found}, R.from, R.to)]]
    BY <1>5 DEF ReadBlock
  <2> DEFINE found == IF R.id \in DOMAIN disk
                      THEN BlocksAt(disk[R.id].parts, e.off + HeaderSize, e.len) ELSE {}
             got == R.got \cup InRange(UNION {Points(b) : b \in found}, R.from, R.to)
  <2>3. got \in SUBSET AllPoints
    <3>1. UNION {Points(b) : b \in found} \subseteq AllPoints
      <4>1. CASE R.id \in DOMAIN disk
        <5>1. disk[R.id].parts \in Seq(FileParts)
          BY <4>1 DEF TypeInv, Typed, Disks
        <5> QED
          BY <4>1, <5>1, PointsType
      <4>2. CASE R.id \notin DOMAIN disk
        BY <4>2
      <4> QED
        BY <4>1, <4>2
    <3>2. R.got \in SUBSET AllPoints
      BY <2>1 DEF Calls
    <3> QED
      BY <3>1, <3>2 DEF InRange
  <2> HIDE DEF got
  <2>4. [R EXCEPT !.todo = R.todo \ {e}, !.got = got] \in Calls
    BY <2>1, <2>3 DEF Calls
  <2>5. [R EXCEPT !.pc = "failed", !.todo = {}] \in Calls
    BY <2>1 DEF Calls
  <2> DEFINE c == IF found = {} THEN [R EXCEPT !.pc = "failed", !.todo = {}]
                  ELSE [R EXCEPT !.todo = R.todo \ {e}, !.got = got]
  <2>6. readers' = [readers EXCEPT ![r] = c]
    BY <2>2 DEF got
  <2> HIDE DEF found
  <2>7. c \in Calls /\ c.live = R.live /\ c.id = R.id
    BY <2>1, <2>4, <2>5 DEF Calls
  <2> HIDE DEF c
  <2> QED
    BY <1>2, <2>1, <2>6, <2>7
<1>6. CASE Deliver(r)
  BY <1>2, <1>6 DEF Deliver, Idle
<1> QED
  BY <1>3, <1>4, <1>5, <1>6 DEF Read

\* A file as it was, but for its handle.
SameBut(f, g) == /\ g \in WarmFiles /\ g.size = f.size /\ g.modified = f.modified
                 /\ g.index = f.index /\ (f.handle = "none" => g.handle = "none")

LEMMA ClosedFile ==
    ASSUME NEW f \in WarmFiles
    PROVE  SameBut(f, f) /\ SameBut(f, [f EXCEPT !.handle = IF @ = "open" THEN "closed" ELSE @])
BY DEF SameBut, WarmFiles

LEMMA RemoveEffect ==
    ASSUME TypeInv, CleanupExpired
    PROVE  \E gone \in SUBSET (Expired \cap DOMAIN disk) :
              /\ disk' \in [DOMAIN disk' -> Disks] /\ DOMAIN disk' = DOMAIN disk \ gone
              /\ \A id \in DOMAIN disk' : disk'[id] = disk[id]
              /\ files' \in [DOMAIN files' -> WarmFiles] /\ DOMAIN files' = DOMAIN files \ gone
              /\ \A id \in DOMAIN files' : SameBut(files[id], files'[id])
              /\ readers' = Detached(gone) /\ writing = {} /\ UNCHANGED <<writing, now>>
<1>1. PICK gone \in SUBSET (Expired \cap DOMAIN disk) :
        /\ \/ gone = Expired /\ files' = Without(files, gone) /\ UNCHANGED faults
           \/ \E id \in Expired \ gone :
                files' = Without([files EXCEPT ![id].handle = IF @ = "open" THEN "closed" ELSE @], gone)
        /\ disk' = Without(disk, gone)
        /\ readers' = Detached(gone)
  BY DEF CleanupExpired, RemoveExpired
<1>2. disk \in [DOMAIN disk -> Disks] /\ files \in [DOMAIN files -> WarmFiles]
  BY DEF TypeInv, Typed
<1>3. /\ disk' \in [DOMAIN disk' -> Disks] /\ DOMAIN disk' = DOMAIN disk \ gone
      /\ \A id \in DOMAIN disk' : disk'[id] = disk[id]
  BY <1>1, <1>2 DEF Without
<1>4. /\ files' \in [DOMAIN files' -> WarmFiles] /\ DOMAIN files' = DOMAIN files \ gone
      /\ \A id \in DOMAIN files' : SameBut(files[id], files'[id])
  <2>1. CASE files' = Without(files, gone)
    BY <1>2, <2>1, ClosedFile DEF Without
  <2>2. ASSUME NEW id \in Expired \ gone,
               files' = Without([files EXCEPT ![id].handle = IF @ = "open" THEN "closed" ELSE @], gone)
        PROVE  /\ files' \in [DOMAIN files' -> WarmFiles] /\ DOMAIN files' = DOMAIN files \ gone
               /\ \A j \in DOMAIN files' : SameBut(files[j], files'[j])
    <3> DEFINE f == files[id]
               g == [f EXCEPT !.handle = IF @ = "open" THEN "closed" ELSE @]
    <3>1. id \in DOMAIN files /\ f \in WarmFiles
      BY <1>2 DEF Expired
    <3>2. SameBut(f, g)
      BY <3>1, ClosedFile
    <3>3. files' = Without([files EXCEPT ![id] = g], gone)
      BY <2>2
    <3> HIDE DEF g
    <3>4. g \in WarmFiles
      BY <3>2 DEF SameBut
    <3>5. \A j \in DOMAIN files : SameBut(files[j], files[j])
      BY <1>2, ClosedFile
    <3> QED
      BY <1>2, <3>1, <3>2, <3>3, <3>4, <3>5 DEF Without
  <2> QED
    BY <1>1, <2>1, <2>2
<1>5. writing = {} /\ UNCHANGED <<writing, now>>
  BY DEF CleanupExpired, RemoveExpired
<1> QED
  BY <1>1, <1>3, <1>4, <1>5

LEMMA DetachedType ==
    ASSUME TypeInv, NEW gone
    PROVE  /\ Detached(gone) \in [Readers -> {Idle} \cup Calls]
           /\ \A r \in Readers : /\ Detached(gone)[r].live => readers[r].live
                                 /\ Detached(gone)[r].live => readers[r].id \notin gone
                                 /\ Detached(gone)[r].live => Detached(gone)[r] = readers[r]
<1> SUFFICES ASSUME NEW r \in Readers
             PROVE  /\ Detached(gone)[r] \in {Idle} \cup Calls
                    /\ Detached(gone)[r].live =>
                          Detached(gone)[r] = readers[r] /\ readers[r].live /\ readers[r].id \notin gone
  BY DEF Detached
<1> DEFINE R == readers[r]
           todo == IF R.pc = "found" THEN Relevant(files[R.id].index, R.from, R.to) ELSE R.todo
<1>1. CASE R.live /\ R.id \in gone
  <2>1. R \in Calls /\ files[R.id] \in WarmFiles
    BY <1>1, CallType
  <2>2. todo \in SUBSET Entries
    BY <2>1 DEF Relevant, Calls, WarmFiles
  <2>3. Detached(gone)[r] = [R EXCEPT !.live = FALSE, !.todo = todo]
    BY <1>1 DEF Detached
  <2> HIDE DEF todo
  <2>4. [R EXCEPT !.live = FALSE, !.todo = todo] \in Calls
        /\ ~[R EXCEPT !.live = FALSE, !.todo = todo].live
    BY <2>1, <2>2 DEF Calls
  <2> QED
    BY <2>3, <2>4
<1>2. CASE ~(R.live /\ R.id \in gone)
  <2>1. Detached(gone)[r] = R
    BY <1>2 DEF Detached
  <2>2. R \in {Idle} \cup Calls
    BY DEF TypeInv, Typed
  <2> QED
    BY <1>2, <2>1, <2>2
<1> QED
  BY <1>1, <1>2

LEMMA TypeCleanup ==
    ASSUME TypeInv, CleanupExpired
    PROVE  TypeInv'
<1>1. PICK gone \in SUBSET (Expired \cap DOMAIN disk) :
        /\ disk' \in [DOMAIN disk' -> Disks] /\ DOMAIN disk' = DOMAIN disk \ gone
        /\ \A id \in DOMAIN disk' : disk'[id] = disk[id]
        /\ files' \in [DOMAIN files' -> WarmFiles] /\ DOMAIN files' = DOMAIN files \ gone
        /\ \A id \in DOMAIN files' : SameBut(files[id], files'[id])
        /\ readers' = Detached(gone) /\ writing = {} /\ UNCHANGED <<writing, now>>
  BY RemoveEffect
<1>2. readers' \in [Readers -> {Idle} \cup Calls]
      /\ \A r \in Readers : readers'[r].live => readers'[r] = readers[r] /\ readers[r].id \notin gone
  BY <1>1, DetachedType
<1>3. Typed'
  BY <1>1, <1>2 DEF TypeInv, Typed
<1>4. ASSUME NEW j \in DOMAIN files'
      PROVE  /\ files'[j].size \in Nat /\ files'[j].modified \in 0 .. now
             /\ files'[j].index \subseteq Entries /\ files'[j].handle \in {"none", "open", "closed"}
             /\ files'[j].handle # "none" => j \in DOMAIN disk'
  BY <1>1 DEF SameBut, WarmFiles, TypeInv, TypeOK
<1>5. \A r \in Readers : readers'[r].live => readers'[r].id \in DOMAIN files'
  BY <1>1, <1>2 DEF TypeInv, TypeOK
<1>6. TypeOK'
  BY <1>1, <1>4, <1>5 DEF TypeInv, TypeOK
<1> QED
  BY <1>3, <1>6 DEF TypeInv

LEMMA CloseEffect ==
    ASSUME TypeInv, Close
    PROVE  /\ files' \in [DOMAIN files -> WarmFiles] /\ writing = {}
           /\ \A id \in DOMAIN files : SameBut(files[id], files'[id])
           /\ UNCHANGED <<disk, writing, readers, now>>
<1>1. files' = [id \in DOMAIN files |-> [files[id] EXCEPT !.handle = IF @ = "open" THEN "closed" ELSE @]]
  BY DEF Close
<1>2. \A id \in DOMAIN files : files[id] \in WarmFiles
  BY DEF TypeInv, Typed
<1>3. ASSUME NEW id \in DOMAIN files PROVE SameBut(files[id], files'[id])
  BY <1>1, <1>2, ClosedFile
<1>4. \A id \in DOMAIN files : files'[id] \in WarmFiles
  BY <1>3 DEF SameBut
<1> QED
  BY <1>1, <1>3, <1>4 DEF Close, bounded

LEMMA TypeClose ==
    ASSUME TypeInv, Close
    PROVE  TypeInv'
<1>1. /\ files' \in [DOMAIN files -> WarmFiles] /\ writing = {}
      /\ \A id \in DOMAIN files : SameBut(files[id], files'[id])
      /\ UNCHANGED <<disk, writing, readers, now>>
  BY CloseEffect
<1>2. ASSUME NEW j \in DOMAIN files
      PROVE  /\ files'[j].size \in Nat /\ files'[j].modified \in 0 .. now
             /\ files'[j].index \subseteq Entries /\ files'[j].handle \in {"none", "open", "closed"}
             /\ files'[j].handle # "none" => j \in DOMAIN disk'
  BY <1>1 DEF SameBut, WarmFiles, TypeInv, TypeOK
<1> QED
  BY <1>1, <1>2 DEF TypeInv, TypeOK, Typed

\* A rebuilt index, whatever the file holds, is well typed.
LEMMA RebuiltType ==
    ASSUME NEW parts \in Seq(FileParts), NEW load \in Loads(parts)
    PROVE  UNION load \in SUBSET Entries
<1>1. Rebuilt(parts) \subseteq Entries
  <2> SUFFICES ASSUME NEW i \in Whole(parts)
               PROVE  [ts |-> Millis(parts[3 * i].block[1].ts),
                       off |-> parts[3 * i - 2].at + (i - 1) * (ReloadedHeader - HeaderSize),
                       len |-> DataSize(parts[3 * i].block), fresh |-> FALSE] \in Entries
    BY DEF Rebuilt
  <2>1. i \in Nat \ {0} /\ parts[3 * i].block \in Blocks /\ parts[3 * i - 2].at \in Nat
    BY WholeType
  <2>2. Millis(parts[3 * i].block[1].ts) \in Nat /\ DataSize(parts[3 * i].block) \in Nat
    BY <2>1, BlockType, MillisType
  <2>3. parts[3 * i - 2].at + (i - 1) * (ReloadedHeader - HeaderSize) \in Nat
    BY <2>1 DEF ReloadedHeader, HeaderSize
  <2> QED
    BY <2>2, <2>3 DEF Entries
<1>2. Junk \in Entries
  BY DEF Junk, Entries
<1> QED
  BY <1>1, <1>2 DEF Loads

LEMMA TypeRestart ==
    ASSUME TypeInv, Restart
    PROVE  TypeInv'
<1>1. PICK load : /\ \A id \in DOMAIN disk : load[id] \in Loads(disk[id].parts)
                  /\ files' = [id \in {i \in DOMAIN disk : load[i] # {}} |->
                         [size |-> SizeOf(disk[id].parts), modified |-> disk[id].mtime,
                          index |-> UNION load[id], handle |-> "none"]]
  BY DEF Restart
<1>2. writing' = {} /\ readers' = [r \in Readers |-> Idle] /\ UNCHANGED <<disk, now>>
  BY DEF Restart
<1>3. ASSUME NEW id \in DOMAIN files'
      PROVE  /\ id \in DOMAIN disk /\ files'[id] \in WarmFiles /\ files'[id].handle = "none"
             /\ files'[id].modified = disk[id].mtime
  <2>1. id \in DOMAIN disk /\ disk[id].parts \in Seq(FileParts) /\ disk[id].mtime \in Nat
    BY <1>1 DEF TypeInv, Typed, Disks
  <2>2. UNION load[id] \in SUBSET Entries
    BY <1>1, <2>1, RebuiltType
  <2>3. SizeOf(disk[id].parts) \in Nat
    BY <2>1, SizeType
  <2> QED
    BY <1>1, <2>1, <2>2, <2>3 DEF WarmFiles
<1>4. files' \in [DOMAIN files' -> WarmFiles]
  BY <1>1, <1>3
<1>5. Typed'
  BY <1>2, <1>4 DEF TypeInv, Typed
<1>6. TypeOK'
  BY <1>2, <1>3 DEF TypeInv, TypeOK, WarmFiles, Idle
<1> QED
  BY <1>5, <1>6 DEF TypeInv

LEMMA TypeStep == TypeInv /\ [Next]_vars => TypeInv'
<1> SUFFICES ASSUME TypeInv, [Next]_vars PROVE TypeInv'
  OBVIOUS
<1>1. CASE Write
  BY <1>1, TypeOpenFails, TypeBegin, TypeWrite DEF Write
<1>2. CASE \E r \in Readers : Read(r)
  BY <1>2, TypeRead
<1>3. CASE CleanupExpired \/ Close \/ Restart
  BY <1>3, TypeCleanup, TypeClose, TypeRestart
<1>4. CASE Tick
  BY <1>4 DEF Tick, warm, TypeInv, TypeOK, Typed
<1>5. CASE UNCHANGED vars
  BY <1>5 DEF vars, warm, bounded, TypeInv, TypeOK, Typed
<1> QED
  BY <1>1, <1>2, <1>3, <1>4, <1>5 DEF Next

LEMMA TypeInvariant == Spec => []TypeInv
  BY TypeInit, TypeStep, PTL DEF Spec

\* Offsets, lengths and times stay natural numbers; a file with a handle is on
\* disk; a write never outlives the file it writes to, nor a call that has
\* looked a file up the file, unless it is told.
THEOREM WarmWellTyped == Spec => []TypeOK
<1>1. TypeInv => TypeOK
  BY DEF TypeInv
<1> QED
  BY <1>1, TypeInvariant, PTL

-----------------------------------------------------------------------------
(* What the index says, and what is in the file.                           *)

\* The parts of a file lie one after the other.
Laid(parts) ==
    /\ parts # <<>> => parts[1].at = 0
    /\ \A j, k \in DOMAIN parts : /\ j < k => parts[j].at + parts[j].size <= parts[k].at
                                  /\ k = j + 1 => parts[k].at = parts[j].at + parts[j].size

\* A file that is not there yet will be empty when it is created.
PartsOf(id) == IF id \in DOMAIN disk THEN disk[id].parts ELSE <<>>

\* The parts of its block that the write under way has written.
Written(id) == IF \E w \in writing : w.id = id /\ w.next = "length" THEN 1
               ELSE IF \E w \in writing : w.id = id /\ w.next = "data" THEN 2 ELSE 0

\* The file holds n blocks, what is being written, and nothing torn.
Clean(id, n) == /\ Len(PartsOf(id)) = 3 * n + Written(id)
                /\ \A i \in 1 .. n : WholeBlock(PartsOf(id), i)

\* The entry of block i: of the blocks a file was loaded with, the start is known
\* to the millisecond.
EntryOf(parts, i, fresh) ==
    [ts |-> IF fresh THEN parts[3 * i].block[1].ts ELSE Millis(parts[3 * i].block[1].ts),
     off |-> parts[3 * i - 2].at, len |-> DataSize(parts[3 * i].block), fresh |-> fresh]
EntriesOf(id, n) == {EntryOf(PartsOf(id), i, i > Reloaded(id)) : i \in 1 .. n}

\* Where block n ends.
EndOf(parts, n) == IF n = 0 THEN 0 ELSE parts[3 * n].at + parts[3 * n].size

\* What memory knows of a clean file.
Known(id, n) ==
    /\ n > 0 /\ Written(id) = 0 => disk[id].mtime = files[id].modified
    /\ Reloaded(id) <= 1 =>
          /\ Reloaded(id) <= n
          /\ files[id].index = EntriesOf(id, n) /\ files[id].size = EndOf(PartsOf(id), n)
          /\ IsFiniteSet(files[id].index) /\ Cardinality(files[id].index) = n

\* The header that the write under way has written ends the file.
HeaderLast ==
    \A w \in writing : LET parts == PartsOf(w.id) last == Len(parts) IN
        /\ w.next = "length" => last > 0 /\ WholePart(parts[last], "time", w.block)
        /\ w.next = "data" => /\ last > 1 /\ WholePart(parts[last - 1], "time", w.block)
                              /\ WholePart(parts[last], "length", w.block)

\* The invariant behind IndexExact and RetentionRespected.  The files that are
\* not known in memory were skipped at the last start, because they are torn.
IndexInv ==
    /\ \A id \in SeriesIds : Laid(PartsOf(id))
    /\ HeaderLast
    /\ \A id \in DOMAIN files, n \in Nat : Clean(id, n) => Known(id, n)
    /\ \A id \in DOMAIN disk \ DOMAIN files, n \in Nat : ~Clean(id, n)

LEMMA PartsType ==
    ASSUME TypeInv, NEW id
    PROVE  /\ PartsOf(id) \in Seq(FileParts) /\ Len(PartsOf(id)) \in Nat
           /\ \A k \in 1 .. Len(PartsOf(id)) : PartsOf(id)[k] \in FileParts
<1>1. PartsOf(id) \in Seq(FileParts)
  BY DEF PartsOf, TypeInv, Typed, Disks
<1> QED
  BY <1>1

LEMMA WrittenValue ==
    ASSUME TypeInv
    PROVE  /\ \A id : Written(id) \in 0 .. 2
           /\ \A w \in writing : /\ w.next = "time" => Written(w.id) = 0
                                 /\ w.next = "length" => Written(w.id) = 1
                                 /\ w.next = "data" => Written(w.id) = 2
           /\ \A id : (\A w \in writing : w.id # id) => Written(id) = 0
<1>1. ASSUME NEW w \in writing
      PROVE  /\ w.next = "time" => Written(w.id) = 0
             /\ w.next = "length" => Written(w.id) = 1
             /\ w.next = "data" => Written(w.id) = 2
  BY WriterType DEF Written, Kinds
<1>2. ASSUME NEW id PROVE Written(id) \in 0 .. 2
  BY DEF Written
<1>3. ASSUME NEW id, \A w \in writing : w.id # id PROVE Written(id) = 0
  BY <1>3 DEF Written
<1> QED
  BY <1>1, <1>2, <1>3

\* Which blocks are whole, and when that is all there is.
LEMMA WholeOf ==
    ASSUME NEW parts \in Seq(FileParts), NEW n \in Nat,
           3 * n <= Len(parts), Len(parts) < 3 * n + 3, \A i \in 1 .. n : WholeBlock(parts, i)
    PROVE  Whole(parts) = 1 .. n /\ WholeBlocks(parts) = n
<1>1. Whole(parts) = 1 .. n
  <2>1. DOMAIN parts = 1 .. Len(parts) /\ Len(parts) \in Nat
    OBVIOUS
  <2>2. ASSUME NEW i \in Whole(parts) PROVE i \in 1 .. n
    BY <2>1, WholeType
  <2>3. ASSUME NEW i \in 1 .. n PROVE i \in Whole(parts)
    <3>1. \A j \in 1 .. i : j \in 1 .. n
      OBVIOUS
    <3> QED
      BY <2>1, <3>1 DEF Whole
  <2> QED
    BY <2>2, <2>3
<1>2. Cardinality(1 .. n) = n
  BY FS_Interval
<1> QED
  BY <1>1, <1>2 DEF WholeBlocks

LEMMA IntactBlocks ==
    ASSUME NEW parts \in Seq(FileParts), Intact(parts)
    PROVE  /\ WholeBlocks(parts) \in Nat /\ Len(parts) = 3 * WholeBlocks(parts)
           /\ Whole(parts) = 1 .. WholeBlocks(parts)
           /\ \A i \in 1 .. WholeBlocks(parts) : WholeBlock(parts, i)
<1> DEFINE n == WholeBlocks(parts)
<1>1. Whole(parts) \subseteq 1 .. Len(parts) /\ IsFiniteSet(1 .. Len(parts))
  BY FS_Interval, WholeType DEF Whole
<1>2. IsFiniteSet(Whole(parts)) /\ n \in Nat
  BY <1>1, FS_Subset, FS_CardinalityType DEF WholeBlocks
<1>3. Len(parts) = 3 * n
  BY DEF Intact
<1>4. Whole(parts) \subseteq 1 .. n
  BY <1>2, <1>3, WholeType
<1>5. Cardinality(1 .. n) = n /\ IsFiniteSet(1 .. n)
  BY <1>2, FS_Interval
<1>6. Whole(parts) = 1 .. n
  BY <1>4, <1>5, FS_Subset DEF WholeBlocks
<1>7. \A i \in Whole(parts) : WholeBlock(parts, i)
  BY WholeType DEF Whole
<1> QED
  BY <1>2, <1>3, <1>6, <1>7

\* One more part leaves the blocks before it as they were.
LEMMA WholeAppend ==
    ASSUME NEW parts \in Seq(FileParts), NEW p \in FileParts, NEW i \in Nat \ {0}, 3 * i <= Len(parts)
    PROVE  WholeBlock(Append(parts, p), i) <=> WholeBlock(parts, i)
<1> DEFINE q == Append(parts, p)
<1>1. Len(q) = Len(parts) + 1 /\ Len(parts) \in Nat /\ \A k \in 1 .. Len(parts) : q[k] = parts[k]
  OBVIOUS
<1> HIDE DEF q
<1>2. q[3 * i] = parts[3 * i] /\ q[3 * i - 1] = parts[3 * i - 1] /\ q[3 * i - 2] = parts[3 * i - 2]
  BY <1>1
<1> QED
  BY <1>1, <1>2 DEF WholeBlock, q

LEMMA LaidAppend ==
    ASSUME NEW parts \in Seq(FileParts), Laid(parts), NEW p \in FileParts, p.at = SizeOf(parts)
    PROVE  Laid(Append(parts, p))
<1> DEFINE q == Append(parts, p) last == Len(parts)
<1>1. /\ DOMAIN q = 1 .. last + 1 /\ last \in Nat /\ \A k \in 1 .. last : q[k] = parts[k]
      /\ q[last + 1] = p /\ DOMAIN parts = 1 .. last
  OBVIOUS
<1>2. CASE last = 0
  <2>1. parts = <<>>
    BY <1>2
  <2> QED
    BY <1>1, <1>2, <2>1 DEF Laid, SizeOf
<1>3. CASE last > 0
  <2>1. parts # <<>> /\ p.at = parts[last].at + parts[last].size
    BY <1>3 DEF SizeOf, Last
  <2>2. \A k \in 1 .. last : parts[k].at \in Nat /\ parts[k].size \in Nat \ {0}
    <3>1. \A k \in 1 .. last : parts[k] \in FileParts
      BY <1>1
    <3> QED
      BY <3>1 DEF FileParts
  <2>3. ASSUME NEW k \in 1 .. last PROVE parts[k].at + parts[k].size <= p.at
    <3>1. k < last => parts[k].at + parts[k].size <= parts[last].at
      BY <1>1, <1>3 DEF Laid
    <3> QED
      BY <2>1, <2>2, <3>1
  <2> HIDE DEF q
  <2>4. ASSUME NEW j \in DOMAIN q, NEW k \in DOMAIN q
        PROVE  /\ j < k => q[j].at + q[j].size <= q[k].at
               /\ k = j + 1 => q[k].at = q[j].at + q[j].size
    <3>1. CASE k \in 1 .. last /\ j \in 1 .. last
      BY <1>1, <3>1 DEF Laid
    <3>2. CASE k = last + 1
      BY <1>1, <2>1, <2>3, <3>2
    <3>3. CASE j = last + 1
      BY <1>1, <3>3
    <3> QED
      BY <1>1, <3>1, <3>2, <3>3
  <2>5. q[1].at = 0
    BY <1>1, <1>3, <2>1 DEF Laid
  <2> QED
    BY <2>4, <2>5 DEF Laid, q
<1> QED
  BY <1>1, <1>2, <1>3

(***************************************************************************)
(* Steps that leave the parts of a file alone.                             *)
(***************************************************************************)
LEMMA BlockKinds ==
    ASSUME NEW parts, NEW i, WholeBlock(parts, i)
    PROVE  parts[3 * i].kind = "data"
BY DEF WholeBlock, WholePart

\* A write that ends before its data leaves a torn file.
LEMMA CleanKept ==
    ASSUME TypeInv, HeaderLast, NEW id, NEW n \in Nat, PartsOf(id)' = PartsOf(id),
           Written(id)' \in {0, Written(id)}, Clean(id, n)'
    PROVE  Clean(id, n) /\ Written(id)' = Written(id)
<1> DEFINE parts == PartsOf(id)
<1>1. Len(parts) = 3 * n + Written(id)' /\ \A i \in 1 .. n : WholeBlock(parts, i)
  BY DEF Clean
<1>2. CASE Written(id)' = Written(id)
  BY <1>1, <1>2 DEF Clean
<1>3. CASE Written(id)' = 0 /\ Written(id) # 0
  <2>1. PICK w \in writing : w.id = id /\ w.next \in {"length", "data"}
    BY <1>3 DEF Written
  <2>2. Len(parts) > 0 /\ parts[Len(parts)].kind # "data"
    BY <2>1 DEF HeaderLast, WholePart
  <2>3. Len(parts) = 3 * n /\ n \in 1 .. n
    BY <1>1, <1>3, <2>2
  <2>4. parts[3 * n].kind = "data"
    BY <1>1, <2>3, BlockKinds
  <2> QED
    BY <2>2, <2>3, <2>4
<1> QED
  BY <1>2, <1>3

LEMMA CleanThere ==
    ASSUME TypeInv, NEW id, NEW n \in Nat, Clean(id, n), n > 0
    PROVE  id \in DOMAIN disk /\ PartsOf(id) # <<>>
<1>1. Len(PartsOf(id)) # 0
  BY WrittenValue DEF Clean
<1> QED
  BY <1>1 DEF PartsOf

SameFile(id) ==
    /\ files'[id].index = files[id].index /\ files'[id].size = files[id].size
    /\ files'[id].modified = files[id].modified
    /\ id \in DOMAIN disk => disk'[id].mtime = disk[id].mtime

LEMMA KnownKept ==
    ASSUME TypeInv, IndexInv, NEW id \in DOMAIN files, PartsOf(id)' = PartsOf(id),
           Written(id)' \in {0, Written(id)}, SameFile(id), NEW n \in Nat, Clean(id, n)'
    PROVE  Known(id, n)'
<1>1. Clean(id, n) /\ Written(id)' = Written(id)
  BY CleanKept DEF IndexInv
<1>2. Known(id, n)
  BY <1>1 DEF IndexInv
<1>3. n > 0 => id \in DOMAIN disk
  BY <1>1, CleanThere
<1>4. Reloaded(id)' = Reloaded(id)
  BY DEF Reloaded, SameFile
<1>5. EntriesOf(id, n)' = EntriesOf(id, n)
  BY <1>4 DEF EntriesOf
<1> QED
  BY <1>1, <1>2, <1>3, <1>4, <1>5 DEF Known, SameFile

LEMMA NewKnown ==
    ASSUME TypeInv, IndexInv, NEW id, id \notin DOMAIN files, PartsOf(id)' = PartsOf(id),
           Written(id)' \in {0, Written(id)}, files'[id].index = {}, files'[id].size = 0,
           NEW n \in Nat, Clean(id, n)'
    PROVE  Known(id, n)'
<1>1. Clean(id, n) /\ Written(id)' = Written(id)
  BY CleanKept DEF IndexInv
<1>2. id \notin DOMAIN disk
  BY <1>1 DEF IndexInv
<1>3. n = 0
  BY <1>1, <1>2, CleanThere
<1>4. Reloaded(id)' = 0
  <2>1. {e \in files'[id].index : ~e.fresh} = {}
    OBVIOUS
  <2> QED
    BY <2>1, FS_EmptySet DEF Reloaded
<1>5. EntriesOf(id, n)' = {}
  BY <1>3 DEF EntriesOf
<1> QED
  BY <1>3, <1>4, <1>5, FS_EmptySet DEF Known, EndOf

\* Files may be registered, closed and forgotten, and a write may begin or end.
LEMMA QuietIndex ==
    ASSUME TypeInv, TypeInv', IndexInv, HeaderLast',
           \A id \in SeriesIds : PartsOf(id)' = PartsOf(id) \/ PartsOf(id)' = <<>>,
           \A id \in SeriesIds : Written(id)' \in {0, Written(id)},
           \A id \in DOMAIN files' :
              /\ PartsOf(id)' = PartsOf(id)
              /\ IF id \in DOMAIN files THEN SameFile(id)
                 ELSE files'[id].index = {} /\ files'[id].size = 0,
           \A id \in DOMAIN disk' \ DOMAIN files' :
              id \in DOMAIN disk \ DOMAIN files /\ PartsOf(id)' = PartsOf(id)
    PROVE  IndexInv'
<1>1. DOMAIN files' \subseteq SeriesIds /\ DOMAIN disk' \subseteq SeriesIds
  BY DEF TypeInv, TypeOK
<1>2. \A id \in SeriesIds : Laid(PartsOf(id))'
  <2>1. Laid(<<>>)
    BY DEF Laid
  <2>2. \A id \in SeriesIds : Laid(PartsOf(id))
    BY DEF IndexInv
  <2> QED
    BY <2>1, <2>2
<1>3. ASSUME NEW id \in DOMAIN files', NEW n \in Nat, Clean(id, n)' PROVE Known(id, n)'
  <2>1. PartsOf(id)' = PartsOf(id) /\ Written(id)' \in {0, Written(id)}
    BY <1>1
  <2>2. CASE id \in DOMAIN files
    <3>1. SameFile(id)
      BY <2>2
    <3> QED
      BY <1>3, <2>1, <2>2, <3>1, KnownKept
  <2>3. CASE id \notin DOMAIN files
    <3>1. files'[id].index = {} /\ files'[id].size = 0
      BY <2>3
    <3> QED
      BY <1>3, <2>1, <2>3, <3>1, NewKnown
  <2> QED
    BY <2>2, <2>3
<1>4. ASSUME NEW id \in DOMAIN disk' \ DOMAIN files', NEW n \in Nat, Clean(id, n)' PROVE FALSE
  <2>1. id \in DOMAIN disk \ DOMAIN files /\ PartsOf(id)' = PartsOf(id)
        /\ Written(id)' \in {0, Written(id)}
    BY <1>1
  <2>2. Clean(id, n)
    BY <1>4, <2>1, CleanKept DEF IndexInv
  <2> QED
    BY <2>1, <2>2 DEF IndexInv
<1> QED
  BY <1>2, <1>3, <1>4 DEF IndexInv

(***************************************************************************)
(* Steps that append a part.                                               *)
(***************************************************************************)

\* What does not concern the file written to, and the layout of that file.
LEMMA OthersKept ==
    ASSUME TypeInv, TypeInv', IndexInv, NEW w \in writing, NEW size \in Nat \ {0},
           disk' = Appended(w, size), DOMAIN files' = DOMAIN files,
           \A id \in DOMAIN files : id # w.id => files'[id] = files[id],
           \A v \in writing' : v.id = w.id
    PROVE  /\ \A id \in SeriesIds : Laid(PartsOf(id))'
           /\ \A id \in DOMAIN files', n \in Nat : id # w.id /\ Clean(id, n)' => Known(id, n)'
           /\ \A id \in DOMAIN disk' \ DOMAIN files', n \in Nat : ~Clean(id, n)'
           /\ PartsOf(w.id)' = Append(PartsOf(w.id), NewPart(w, size)) /\ NewPart(w, size) \in FileParts
<1>1. /\ DOMAIN disk' = DOMAIN disk /\ w.id \in DOMAIN disk /\ NewPart(w, size) \in FileParts
      /\ disk'[w.id].parts = Append(disk[w.id].parts, NewPart(w, size))
      /\ \A id \in DOMAIN disk : id # w.id => disk'[id] = disk[id]
  BY AppendedParts
<1> HIDE DEF NewPart
<1>2. PartsOf(w.id)' = Append(PartsOf(w.id), NewPart(w, size))
  BY <1>1 DEF PartsOf
<1>3. ASSUME NEW id, id # w.id
      PROVE  PartsOf(id)' = PartsOf(id) /\ Written(id)' = 0 /\ Written(id) = 0
  <2>1. PartsOf(id)' = PartsOf(id)
    BY <1>1, <1>3 DEF PartsOf
  <2>2. writing = {w}
    BY WriterType
  <2>3. Written(id)' = 0
    BY <1>3 DEF Written
  <2>4. Written(id) = 0
    BY <1>3, <2>2 DEF Written
  <2> QED
    BY <2>1, <2>3, <2>4
<1>4. \A id \in SeriesIds : Laid(PartsOf(id))'
  <2>1. Laid(PartsOf(w.id))'
    <3>1. PartsOf(w.id) \in Seq(FileParts) /\ Laid(PartsOf(w.id)) /\ PartsOf(w.id) = disk[w.id].parts
      BY <1>1, PartsType, WriterType DEF IndexInv, PartsOf
    <3>2. NewPart(w, size).at = SizeOf(PartsOf(w.id))
      BY <3>1 DEF NewPart
    <3>3. Laid(Append(PartsOf(w.id), NewPart(w, size)))
      BY <1>1, <3>1, <3>2, LaidAppend
    <3> QED
      BY <1>2, <3>3
  <2>2. ASSUME NEW id \in SeriesIds, id # w.id PROVE Laid(PartsOf(id))'
    <3>1. Laid(PartsOf(id))
      BY DEF IndexInv
    <3> QED
      BY <1>3, <2>2, <3>1
  <2> QED
    BY <2>1, <2>2
<1>5. ASSUME NEW id \in DOMAIN files', NEW n \in Nat, id # w.id, Clean(id, n)' PROVE Known(id, n)'
  <2>1. id \in DOMAIN files /\ SameFile(id)
    BY <1>1, <1>5 DEF SameFile
  <2> QED
    BY <1>3, <1>5, <2>1, KnownKept
<1>6. ASSUME NEW id \in DOMAIN disk' \ DOMAIN files', NEW n \in Nat, Clean(id, n)' PROVE FALSE
  <2>1. id \in DOMAIN disk \ DOMAIN files /\ id # w.id
    BY <1>1, WriterType
  <2>2. Clean(id, n)
    BY <1>3, <1>6, <2>1, CleanKept DEF IndexInv
  <2> QED
    BY <2>1, <2>2 DEF IndexInv
<1> QED
  BY <1>1, <1>2, <1>4, <1>5, <1>6

\* The blocks of a clean file, after one more part.
LEMMA GrownFile ==
    ASSUME NEW parts \in Seq(FileParts), NEW p \in FileParts, NEW n \in Nat, 3 * n <= Len(parts)
    PROVE  /\ \A i \in 1 .. n : WholeBlock(Append(parts, p), i) <=> WholeBlock(parts, i)
           /\ \A i \in 1 .. n : \A fresh : EntryOf(Append(parts, p), i, fresh) = EntryOf(parts, i, fresh)
           /\ EndOf(Append(parts, p), n) = EndOf(parts, n)
<1> DEFINE q == Append(parts, p)
<1>1. Len(parts) \in Nat /\ \A k \in 1 .. Len(parts) : q[k] = parts[k]
  OBVIOUS
<1>2. \A i \in 1 .. n : WholeBlock(q, i) <=> WholeBlock(parts, i)
  <2> SUFFICES ASSUME NEW i \in 1 .. n PROVE WholeBlock(q, i) <=> WholeBlock(parts, i)
    OBVIOUS
  <2>1. i \in Nat \ {0} /\ 3 * i <= Len(parts)
    BY <1>1
  <2> QED
    BY <2>1, WholeAppend
<1> HIDE DEF q
<1>3. \A i \in 1 .. n : q[3 * i] = parts[3 * i] /\ q[3 * i - 2] = parts[3 * i - 2]
  BY <1>1
<1>4. \A i \in 1 .. n : \A fresh : EntryOf(q, i, fresh) = EntryOf(parts, i, fresh)
  BY <1>3 DEF EntryOf
<1>5. EndOf(q, n) = EndOf(parts, n)
  <2>1. CASE n = 0
    BY <2>1 DEF EndOf
  <2>2. CASE n # 0
    <3>1. n \in 1 .. n
      BY <2>2
    <3>2. q[3 * n] = parts[3 * n]
      BY <1>3, <3>1
    <3> QED
      BY <2>2, <3>2 DEF EndOf
  <2> QED
    BY <2>1, <2>2
<1> QED
  BY <1>2, <1>4, <1>5 DEF q

LEMMA WrittenMore ==
    ASSUME TypeInv, NEW w \in writing
    PROVE  /\ WriteHeader(w) => Written(w.id)' = Written(w.id) + 1
           /\ WriteData(w) => Written(w.id) = 2 /\ Written(w.id)' = 0
<1>1. ASSUME WriteHeader(w) PROVE Written(w.id)' = Written(w.id) + 1
  <2>1. /\ w.next \in {"time", "length"} /\ w \in Writes
        /\ writing' = {[w EXCEPT !.next = IF w.next = "time" THEN "length" ELSE "data"]}
    BY <1>1, WriterType DEF WriteHeader
  <2>2. /\ \E v \in writing' : TRUE
        /\ \A v \in writing' : v.id = w.id /\ v.next = IF w.next = "time" THEN "length" ELSE "data"
    BY <2>1 DEF Writes
  <2>3. w.next = "time" => Written(w.id) = 0 /\ Written(w.id)' = 1
    BY <2>2, WrittenValue DEF Written
  <2>4. w.next = "length" => Written(w.id) = 1 /\ Written(w.id)' = 2
    BY <2>2, WrittenValue DEF Written
  <2> QED
    BY <2>1, <2>3, <2>4
<1>2. ASSUME WriteData(w) PROVE Written(w.id) = 2 /\ Written(w.id)' = 0
  <2>1. w.next = "data" /\ writing' = {}
    BY <1>2 DEF WriteData
  <2> QED
    BY <2>1, WrittenValue DEF Written
<1> QED
  BY <1>1, <1>2

LEMMA HeaderIndex ==
    ASSUME TypeInv, TypeInv', IndexInv, NEW w \in writing, WriteHeader(w)
    PROVE  IndexInv'
<1> DEFINE id == w.id  parts == PartsOf(w.id)  size == PartSize(w.next, w.block)  p == NewPart(w, size)
<1>1. w.next \in Kinds /\ w.block \in Blocks /\ w.id \in DOMAIN files /\ w.id \in DOMAIN disk
      /\ w \in Writes /\ writing = {w}
  BY WriterType
<1>2. size \in Nat \ {0}
  BY <1>1, PartSizes
<1>3. disk' = Appended(w, size) /\ files' = files /\ w.next \in {"time", "length"}
      /\ writing' = {[w EXCEPT !.next = IF w.next = "time" THEN "length" ELSE "data"]}
  BY DEF WriteHeader
<1>4. \A v \in writing' : v.id = w.id /\ v.block = w.block
                          /\ v.next = IF w.next = "time" THEN "length" ELSE "data"
  BY <1>1, <1>3 DEF Writes
<1> HIDE DEF size
<1>5. /\ \A i \in SeriesIds : Laid(PartsOf(i))'
      /\ \A i \in DOMAIN files', n \in Nat : i # id /\ Clean(i, n)' => Known(i, n)'
      /\ \A i \in DOMAIN disk' \ DOMAIN files', n \in Nat : ~Clean(i, n)'
      /\ PartsOf(id)' = Append(parts, p) /\ p \in FileParts
  BY <1>2, <1>3, <1>4, OthersKept
<1>6. parts \in Seq(FileParts) /\ Len(parts) \in Nat
  BY PartsType
<1>7. WholePart(p, w.next, w.block)
  BY DEF WholePart, NewPart, size
<1> HIDE DEF p
<1>8. HeaderLast'
  <2> SUFFICES ASSUME NEW v \in writing'
               PROVE  LET q == PartsOf(id)' last == Len(q) IN
                      /\ v.next = "length" => last > 0 /\ WholePart(q[last], "time", w.block)
                      /\ v.next = "data" => /\ last > 1 /\ WholePart(q[last - 1], "time", w.block)
                                            /\ WholePart(q[last], "length", w.block)
    BY <1>4 DEF HeaderLast
  <2> DEFINE q == Append(parts, p)
  <2>1. /\ Len(q) = Len(parts) + 1 /\ q[Len(parts) + 1] = p
        /\ \A k \in 1 .. Len(parts) : q[k] = parts[k]
    BY <1>5, <1>6
  <2> HIDE DEF q
  <2>2. CASE w.next = "time"
    <3>1. v.next = "length"
      BY <1>4, <2>2
    <3> QED
      BY <1>5, <1>6, <1>7, <2>1, <2>2, <3>1 DEF q
  <2>3. CASE w.next = "length"
    <3>1. v.next = "data"
      BY <1>4, <2>3
    <3>2. Len(parts) > 0 /\ WholePart(parts[Len(parts)], "time", w.block)
      BY <2>3 DEF IndexInv, HeaderLast
    <3>3. Len(q) > 1 /\ q[Len(q)] = p /\ q[Len(q) - 1] = parts[Len(parts)]
      BY <1>6, <2>1, <3>2
    <3>4. WholePart(q[Len(q)], "length", w.block) /\ WholePart(q[Len(q) - 1], "time", w.block)
      BY <1>7, <2>3, <3>2, <3>3
    <3> QED
      BY <1>5, <3>1, <3>3, <3>4 DEF q
  <2> QED
    BY <1>3, <2>2, <2>3
<1>9. Written(id)' = Written(id) + 1
  BY WrittenMore
<1>10. ASSUME NEW n \in Nat, Clean(id, n)' PROVE Known(id, n)'
  <2>2. Written(id) \in 0 .. 2
    BY WrittenValue
  <2>1. Len(Append(parts, p)) = 3 * n + Written(id) + 1 /\ \A i \in 1 .. n : WholeBlock(Append(parts, p), i)
    <3>1. Len(PartsOf(id)') = 3 * n + Written(id)' /\ \A i \in 1 .. n : WholeBlock(PartsOf(id)', i)
      BY <1>10 DEF Clean
    <3> QED
      BY <1>5, <1>9, <2>2, <3>1
  <2>3. Len(parts) = 3 * n + Written(id)
    BY <1>5, <1>6, <2>1, <2>2
  <2>4. 3 * n <= Len(parts)
    BY <2>2, <2>3
  <2>5. /\ \A i \in 1 .. n : WholeBlock(parts, i)
        /\ \A i \in 1 .. n : \A fresh : EntryOf(Append(parts, p), i, fresh) = EntryOf(parts, i, fresh)
        /\ EndOf(Append(parts, p), n) = EndOf(parts, n)
    BY <1>5, <1>6, <2>1, <2>4, GrownFile
  <2>6. Known(id, n)
    BY <1>1, <2>3, <2>5 DEF IndexInv, Clean
  <2>7. Reloaded(id)' = Reloaded(id)
    BY <1>3 DEF Reloaded
  <2>8. EntriesOf(id, n)' = EntriesOf(id, n)
    <3>1. EntriesOf(id, n)' = {EntryOf(Append(parts, p), i, i > Reloaded(id)) : i \in 1 .. n}
      BY <1>5, <2>7 DEF EntriesOf
    <3>2. \A i \in 1 .. n : EntryOf(Append(parts, p), i, i > Reloaded(id)) = EntryOf(parts, i, i > Reloaded(id))
      BY <2>5, Zenon
    <3>3. EntriesOf(id, n) = {EntryOf(parts, i, i > Reloaded(id)) : i \in 1 .. n}
      BY DEF EntriesOf
    <3> QED
      BY <3>1, <3>2, <3>3
  <2>9. EndOf(PartsOf(id), n)' = EndOf(PartsOf(id), n)
    BY <1>5, <2>5
  <2>10. Written(id)' # 0
    BY <1>9, <2>2
  <2> QED
    BY <1>3, <2>6, <2>7, <2>8, <2>9, <2>10 DEF Known
<1> QED
  BY <1>5, <1>8, <1>10 DEF IndexInv

\* Two parts of a file that is laid out start at different places.
LEMMA LaidOffsets ==
    ASSUME NEW parts \in Seq(FileParts), Laid(parts), NEW j \in DOMAIN parts, NEW k \in DOMAIN parts
    PROVE  /\ parts[j].at \in Nat /\ parts[k].at \in Nat /\ parts[j].size \in Nat \ {0}
           /\ j < k => parts[j].at < parts[k].at
           /\ k = j + 1 => parts[k].at = parts[j].at + parts[j].size
<1>1. parts[j] \in FileParts /\ parts[k] \in FileParts
  OBVIOUS
<1>2. parts[j].at \in Nat /\ parts[k].at \in Nat /\ parts[j].size \in Nat \ {0}
  BY <1>1 DEF FileParts
<1>3. j < k => parts[j].at + parts[j].size <= parts[k].at
  BY DEF Laid
<1>4. k = j + 1 => parts[k].at = parts[j].at + parts[j].size
  BY DEF Laid
<1> QED
  BY <1>2, <1>3, <1>4

\* A clean file whose next part would be the first of block n + 1.
LEMMA NextBlock ==
    ASSUME NEW parts \in Seq(FileParts), Laid(parts), NEW n \in Nat, 3 * n < Len(parts)
    PROVE  parts[3 * n + 1].at = EndOf(parts, n)
<1>1. Len(parts) \in Nat /\ 3 * n + 1 \in DOMAIN parts
  OBVIOUS
<1>2. CASE n = 0
  BY <1>1, <1>2 DEF Laid, EndOf
<1>3. CASE n # 0
  <2>1. 3 * n \in DOMAIN parts
    BY <1>1, <1>3
  <2> QED
    BY <1>1, <1>3, <2>1, LaidOffsets DEF EndOf
<1> QED
  BY <1>2, <1>3

LEMMA DataIndex ==
    ASSUME TypeInv, TypeInv', IndexInv, NEW w \in writing, WriteData(w)
    PROVE  IndexInv'
<1> DEFINE id == w.id  parts == PartsOf(w.id)  size == DataSize(w.block)  p == NewPart(w, size)
           q == Append(parts, p)  x == NewEntry(w)  index == files[w.id].index
<1>1. w.block \in Blocks /\ id \in DOMAIN files /\ id \in DOMAIN disk
  BY WriterType
<1>2. size \in Nat \ {0} /\ w.block[1].ts \in Nat
  BY <1>1, BlockType
<1>3. disk' = Appended(w, size) /\ w.next = "data" /\ writing' = {}
  BY DEF WriteData
<1>4. /\ files' = [files EXCEPT ![id] = NewWarmFile(w)] /\ NewWarmFile(w).index = index \cup {x}
      /\ NewWarmFile(w).size = files[id].size + 12 + size /\ NewWarmFile(w).modified = now
  BY WrittenFile
<1>5. files'[id].index = index \cup {x} /\ files'[id].size = files[id].size + 12 + size
      /\ files'[id].modified = now
  BY <1>1, <1>4 DEF TypeInv, Typed
<1>6. /\ \A i \in SeriesIds : Laid(PartsOf(i))'
      /\ \A i \in DOMAIN files', n \in Nat : i # id /\ Clean(i, n)' => Known(i, n)'
      /\ \A i \in DOMAIN disk' \ DOMAIN files', n \in Nat : ~Clean(i, n)'
      /\ PartsOf(id)' = q /\ p \in FileParts
  <2>1. DOMAIN files' = DOMAIN files /\ \A i \in DOMAIN files : i # w.id => files'[i] = files[i]
    BY <1>4
  <2> HIDE DEF size
  <2> QED
    BY <1>2, <1>3, <2>1, OthersKept
<1>7. disk'[id].mtime = now
  <2> HIDE DEF size
  <2> QED
    BY <1>2, <1>3, AppendedParts
<1>8. parts \in Seq(FileParts) /\ Len(parts) \in Nat /\ Laid(parts)
  BY PartsType, WriterType DEF IndexInv
<1>9. p.block = w.block /\ p.at = SizeOf(parts) /\ p.size = size
  BY <1>1 DEF NewPart, PartsOf
<1>10. x.ts = w.block[1].ts /\ x.off = files[id].size /\ x.len = size /\ x.fresh = TRUE
       /\ x = [ts |-> w.block[1].ts, off |-> files[id].size, len |-> size, fresh |-> TRUE]
  BY DEF NewEntry
<1>11. HeaderLast'
  BY <1>3 DEF HeaderLast
<1>12. Written(id)' = 0 /\ Written(id) = 2
  BY <1>3, WrittenValue DEF Written
<1>13. Reloaded(id)' = Reloaded(id)
  <2>1. {e \in index \cup {x} : ~e.fresh} = {e \in index : ~e.fresh}
    BY <1>10
  <2> QED
    BY <1>5, <2>1 DEF Reloaded
<1>14. /\ Len(q) = Len(parts) + 1 /\ q[Len(parts) + 1] = p
       /\ \A k \in 1 .. Len(parts) : q[k] = parts[k]
  BY <1>6, <1>8
<1> HIDE DEF size, p, q, x
<1>15. ASSUME NEW m \in Nat, Clean(id, m)' PROVE Known(id, m)'
  <2> DEFINE n == m - 1
  <2>1. Len(q) = 3 * m /\ \A i \in 1 .. m : WholeBlock(q, i)
    BY <1>6, <1>12, <1>15 DEF Clean
  <2>2. n \in Nat /\ Len(parts) = 3 * n + 2 /\ m = n + 1
    BY <1>8, <1>14, <2>1
  <2> HIDE DEF n
  <2>3. /\ \A i \in 1 .. n : WholeBlock(parts, i)
        /\ \A i \in 1 .. n : \A fresh : EntryOf(q, i, fresh) = EntryOf(parts, i, fresh)
    <3>1. 3 * n <= Len(parts)
      BY <2>2
    <3>2. /\ \A i \in 1 .. n : WholeBlock(q, i) <=> WholeBlock(parts, i)
          /\ \A i \in 1 .. n : \A fresh : EntryOf(q, i, fresh) = EntryOf(parts, i, fresh)
      BY <1>6, <1>8, <2>2, <3>1, GrownFile DEF q
    <3>3. \A i \in 1 .. n : i \in 1 .. m
      BY <2>2
    <3> QED
      BY <2>1, <3>2, <3>3
  <2>4. Known(id, n)
    BY <1>1, <1>12, <2>2, <2>3 DEF IndexInv, Clean
  <2>5. ASSUME Reloaded(id) <= 1
        PROVE  /\ Reloaded(id) <= m /\ index \cup {x} = EntriesOf(id, m)'
               /\ files'[id].size = EndOf(q, m)
               /\ IsFiniteSet(index \cup {x}) /\ Cardinality(index \cup {x}) = m
    <3>1. /\ Reloaded(id) <= n /\ index = EntriesOf(id, n) /\ files[id].size = EndOf(parts, n)
          /\ IsFiniteSet(index) /\ Cardinality(index) = n
      BY <2>4, <2>5 DEF Known
    <3>2. Reloaded(id) \in Nat
      <4>1. {e \in index : ~e.fresh} \subseteq index
        OBVIOUS
      <4> QED
        BY <3>1, <4>1, FS_Subset, FS_CardinalityType DEF Reloaded
    <3>3. parts[3 * n + 1].at = EndOf(parts, n)
      BY <1>8, <2>2, NextBlock
    <3>4. 3 * m - 2 = 3 * n + 1 /\ 3 * m = Len(parts) + 1
          /\ 3 * n + 1 \in DOMAIN parts /\ 3 * n + 2 \in DOMAIN parts
      BY <1>8, <2>2
    <3>5. q[3 * m] = p /\ q[3 * m - 2] = parts[3 * n + 1]
      BY <1>8, <1>14, <3>4
    <3>6. EntryOf(q, m, TRUE) = x
      BY <1>9, <1>10, <3>1, <3>3, <3>5 DEF EntryOf, size
    <3>7. index \cup {x} = EntriesOf(id, m)'
      <4>1. EntriesOf(id, m)' = {EntryOf(q, i, i > Reloaded(id)) : i \in 1 .. m}
        BY <1>6, <1>13 DEF EntriesOf
      <4>2. (1 .. m) = (1 .. n) \cup {m}
        BY <2>2
      <4>3. EntriesOf(id, m)' = {EntryOf(q, i, i > Reloaded(id)) : i \in 1 .. n}
                                  \cup {EntryOf(q, m, m > Reloaded(id))}
        BY <4>1, <4>2, Zenon
      <4>4. (m > Reloaded(id)) = TRUE
        BY <2>2, <3>1, <3>2
      <4>5. EntryOf(q, m, m > Reloaded(id)) = x
        BY <3>6, <4>4
      <4>6. \A i \in 1 .. n : EntryOf(q, i, i > Reloaded(id)) = EntryOf(parts, i, i > Reloaded(id))
        BY <2>3, Zenon
      <4>7. index = {EntryOf(parts, i, i > Reloaded(id)) : i \in 1 .. n}
        BY <3>1 DEF EntriesOf
      <4>8. index = {EntryOf(q, i, i > Reloaded(id)) : i \in 1 .. n}
        BY <4>6, <4>7
      <4> QED
        BY <4>3, <4>5, <4>8
    <3>8. files'[id].size = EndOf(q, m)
      <4>1. /\ WholePart(parts[3 * n + 1], "time", w.block)
            /\ WholePart(parts[3 * n + 2], "length", w.block)
        <5>1. LET last == Len(parts) IN /\ WholePart(parts[last - 1], "time", w.block)
                                        /\ WholePart(parts[last], "length", w.block)
          BY <1>3 DEF IndexInv, HeaderLast
        <5>2. Len(parts) = 3 * n + 2 /\ Len(parts) - 1 = 3 * n + 1
          BY <2>2
        <5> QED
          BY <5>1, <5>2
      <4>2. parts[3 * n + 1].size = 8 /\ parts[3 * n + 2].size = 4
        BY <1>1, <4>1, PartSizes DEF WholePart, Kinds
      <4>3. parts[3 * n + 2].at = parts[3 * n + 1].at + 8 /\ parts[3 * n + 1].at \in Nat
        <5> DEFINE j == 3 * n + 1  k == 3 * n + 2
        <5>1. j \in DOMAIN parts /\ k \in DOMAIN parts /\ k = j + 1 /\ parts[j].size = 8
          BY <2>2, <3>4, <4>2
        <5> HIDE DEF j, k
        <5>2. parts[k].at = parts[j].at + parts[j].size /\ parts[j].at \in Nat
          BY <1>8, <5>1, LaidOffsets
        <5>3. parts[k].at = parts[j].at + 8 /\ parts[j].at \in Nat
          BY <5>1, <5>2
        <5> QED
          BY <5>3 DEF j, k
      <4>4. parts # <<>> /\ Len(parts) = 3 * n + 2
        BY <2>2
      <4>5. SizeOf(parts) = parts[3 * n + 2].at + 4
        BY <4>2, <4>4 DEF SizeOf, Last
      <4>6. m # 0
        BY <2>2
      <4>7. EndOf(q, m) = SizeOf(parts) + size
        BY <1>9, <3>5, <4>6 DEF EndOf
      <4> QED
        BY <1>2, <1>5, <3>1, <3>3, <4>3, <4>5, <4>7
    <3>9. x \notin index
      <4> SUFFICES ASSUME NEW i \in 1 .. n, x = EntryOf(parts, i, i > Reloaded(id)) PROVE FALSE
        BY <3>1 DEF EntriesOf
      <4>1. x.off = parts[3 * i - 2].at
        BY DEF EntryOf
      <4>2. 3 * i - 2 \in DOMAIN parts /\ 3 * i - 2 < 3 * n + 1
        BY <1>8, <2>2
      <4>3. parts[3 * i - 2].at < parts[3 * n + 1].at
        BY <1>8, <3>4, <4>2, LaidOffsets
      <4>4. parts[3 * i - 2].at \in Nat /\ parts[3 * n + 1].at \in Nat
        BY <1>8, <3>4, <4>2, LaidOffsets
      <4> QED
        BY <1>10, <3>1, <3>3, <4>1, <4>3, <4>4
    <3>10. IsFiniteSet(index \cup {x}) /\ Cardinality(index \cup {x}) = n + 1
      BY <3>1, <3>9, FS_AddElement
    <3> QED
      BY <2>2, <3>1, <3>2, <3>7, <3>8, <3>10
  <2> QED
    BY <1>5, <1>6, <1>7, <1>13, <2>5 DEF Known
<1> QED
  BY <1>6, <1>11, <1>15 DEF IndexInv

\* A fragment is no block.
LEMMA FragmentTorn ==
    ASSUME TypeInv, NEW w \in writing, disk' = Appended(w, 1), writing' = {}, NEW n \in Nat
    PROVE  ~Clean(w.id, n)'
<1> DEFINE id == w.id  parts == disk[w.id].parts  p == NewPart(w, 1)  q == Append(parts, p)
<1>1. PartsOf(id)' = q /\ p \in FileParts /\ parts \in Seq(FileParts) /\ w.block \in Blocks
  BY AppendedParts, WriterType DEF PartsOf
<1>2. Written(id)' = 0
  BY DEF Written
<1>4. Len(q) = Len(parts) + 1 /\ q[Len(q)] = p /\ Len(q) \in Nat
  BY <1>1
<1>5. p.size = 1 /\ p.block = w.block
  BY DEF NewPart
<1> HIDE DEF p, q
<1> SUFFICES ASSUME Clean(id, n)' PROVE FALSE
  OBVIOUS
<1>6. Len(q) = 3 * n /\ \A i \in 1 .. n : WholeBlock(q, i)
  BY <1>1, <1>2 DEF Clean
<1>7. n \in 1 .. n
  BY <1>1, <1>4, <1>6
<1>8. WholeBlock(q, n) /\ q[3 * n] = p
  BY <1>4, <1>6, <1>7
<1>9. WholePart(p, "data", w.block)
  BY <1>5, <1>8 DEF WholeBlock
<1>10. PartSize("data", w.block) # 1
  BY <1>1, PartSizes DEF Kinds
<1> QED
  BY <1>5, <1>9, <1>10 DEF WholePart

LEMMA FragmentIndex ==
    ASSUME TypeInv, TypeInv', IndexInv, NEW w \in writing, disk' = Appended(w, 1), files' = files, writing' = {}
    PROVE  IndexInv'
<1>1. /\ \A i \in SeriesIds : Laid(PartsOf(i))'
      /\ \A i \in DOMAIN files', n \in Nat : i # w.id /\ Clean(i, n)' => Known(i, n)'
      /\ \A i \in DOMAIN disk' \ DOMAIN files', n \in Nat : ~Clean(i, n)'
  BY OthersKept
<1>2. HeaderLast'
  BY DEF HeaderLast
<1>3. \A n \in Nat : ~Clean(w.id, n)'
  BY FragmentTorn
<1> QED
  BY <1>1, <1>2, <1>3 DEF IndexInv

\* A file registered, and perhaps created and opened.
LEMMA RegisterEffect ==
    ASSUME TypeInv, NEW id \in SeriesIds,
           OpenFails(id) \/ \E b \in Blocks : BeginWrite(id, b)
    PROVE  /\ DOMAIN files' = DOMAIN files \cup {id} /\ DOMAIN disk' \subseteq DOMAIN disk \cup {id}
           /\ \A j \in DOMAIN files : SameFile(j)
           /\ id \notin DOMAIN files => files'[id].index = {} /\ files'[id].size = 0
           /\ \A j : PartsOf(j)' = PartsOf(j) /\ Written(j)' \in {0, Written(j)}
           /\ (\A v \in writing' : v.next = "time") /\ readers' = readers
<1> DEFINE f == Registered(id)
<1>1. writing = {} /\ \A j : Written(j) = 0
  BY WrittenValue DEF OpenFails, BeginWrite, MayWrite
<1>2. f \in WarmFiles /\ (f.handle # "none" => id \in DOMAIN disk)
      /\ (id \notin DOMAIN files => f.index = {} /\ f.size = 0)
  BY RegisteredType DEF Registered, NewFile
<1>3. id \in DOMAIN files => f = files[id]
  BY DEF Registered
<1>4. PICK g \in WarmFiles : /\ files' = With(files, id, g)
                             /\ g.index = f.index /\ g.size = f.size /\ g.modified = f.modified
  <2>1. CASE OpenFails(id)
    BY <1>2, <2>1 DEF OpenFails
  <2>2. ASSUME NEW b \in Blocks, BeginWrite(id, b)
        PROVE  \E g \in WarmFiles : /\ files' = With(files, id, g)
                                    /\ g.index = f.index /\ g.size = f.size /\ g.modified = f.modified
    <3>1. files' = With(files, id, IF f.handle = "none" THEN [f EXCEPT !.handle = "open"] ELSE f)
      BY <2>2 DEF BeginWrite
    <3> HIDE DEF f
    <3>2. [f EXCEPT !.handle = "open"] \in WarmFiles
          /\ [f EXCEPT !.handle = "open"].index = f.index
          /\ [f EXCEPT !.handle = "open"].size = f.size
          /\ [f EXCEPT !.handle = "open"].modified = f.modified
      BY <1>2 DEF WarmFiles
    <3> QED
      BY <1>2, <3>1, <3>2
  <2> QED
    BY <2>1, <2>2
<1> HIDE DEF f
<1>5. DOMAIN files' = DOMAIN files \cup {id} /\ files'[id] = g
      /\ \A j \in DOMAIN files : j # id => files'[j] = files[j]
  BY <1>4 DEF With
<1>6. /\ \A v \in writing' : v.next = "time"
      /\ \/ disk' = disk
         \/ id \notin DOMAIN disk /\ disk' = With(disk, id, [parts |-> <<>>, mtime |-> now])
  <2>1. CASE OpenFails(id)
    BY <1>1, <2>1 DEF OpenFails
  <2>2. ASSUME NEW b \in Blocks, BeginWrite(id, b)
        PROVE  /\ \A v \in writing' : v.next = "time"
               /\ \/ disk' = disk
                  \/ id \notin DOMAIN disk /\ disk' = With(disk, id, [parts |-> <<>>, mtime |-> now])
    <3>1. writing' = {[id |-> id, block |-> b, next |-> "time"]}
      BY <2>2 DEF BeginWrite
    <3>2. disk' = IF Registered(id).handle = "none" /\ id \notin DOMAIN disk
                  THEN With(disk, id, [parts |-> <<>>, mtime |-> now]) ELSE disk
      BY <2>2 DEF BeginWrite
    <3> QED
      BY <3>1, <3>2
  <2> QED
    BY <2>1, <2>2
<1>7. /\ \A j : PartsOf(j)' = PartsOf(j)
      /\ \A j \in DOMAIN disk : disk'[j].mtime = disk[j].mtime
      /\ DOMAIN disk' \subseteq DOMAIN disk \cup {id}
  <2>1. CASE disk' = disk
    BY <2>1 DEF PartsOf
  <2>2. CASE id \notin DOMAIN disk /\ disk' = With(disk, id, [parts |-> <<>>, mtime |-> now])
    BY <2>2 DEF PartsOf, With
  <2> QED
    BY <1>6, <2>1, <2>2
<1>8. \A j : Written(j)' \in {0, Written(j)}
  BY <1>6 DEF Written
<1>9. ASSUME NEW j \in DOMAIN files PROVE SameFile(j)
  <2>1. CASE j = id
    BY <1>2, <1>3, <1>4, <1>5, <1>7, <2>1 DEF SameFile
  <2>2. CASE j # id
    BY <1>5, <1>7, <2>2 DEF SameFile
  <2> QED
    BY <2>1, <2>2
<1>10. id \notin DOMAIN files => files'[id].index = {} /\ files'[id].size = 0
  BY <1>2, <1>4, <1>5
<1>11. readers' = readers
  BY DEF OpenFails, BeginWrite
<1> QED
  BY <1>5, <1>6, <1>7, <1>8, <1>9, <1>10, <1>11

LEMMA RegisterIndex ==
    ASSUME TypeInv, TypeInv', IndexInv, NEW id \in SeriesIds,
           OpenFails(id) \/ \E b \in Blocks : BeginWrite(id, b)
    PROVE  IndexInv'
<1>1. /\ DOMAIN files' = DOMAIN files \cup {id} /\ DOMAIN disk' \subseteq DOMAIN disk \cup {id}
      /\ \A j \in DOMAIN files : SameFile(j)
      /\ id \notin DOMAIN files => files'[id].index = {} /\ files'[id].size = 0
      /\ \A j : PartsOf(j)' = PartsOf(j) /\ Written(j)' \in {0, Written(j)}
      /\ \A v \in writing' : v.next = "time"
  BY RegisterEffect
<1>2. HeaderLast'
  BY <1>1 DEF HeaderLast
<1>3. \A j \in DOMAIN files' :
         IF j \in DOMAIN files THEN SameFile(j) ELSE files'[j].index = {} /\ files'[j].size = 0
  BY <1>1
<1>4. \A j \in DOMAIN disk' \ DOMAIN files' : j \in DOMAIN disk \ DOMAIN files
  BY <1>1
<1> QED
  BY <1>1, <1>2, <1>3, <1>4, QuietIndex

\* The files and their parts stay, and a write may end.
LEMMA IdleIndex ==
    ASSUME TypeInv, TypeInv', IndexInv, disk' = disk, writing' \in {{}, writing},
           DOMAIN files' = DOMAIN files, \A id \in DOMAIN files : SameBut(files[id], files'[id])
    PROVE  IndexInv'
<1>1. \A id : PartsOf(id)' = PartsOf(id)
  BY DEF PartsOf
<1>2. HeaderLast'
  BY <1>1 DEF IndexInv, HeaderLast
<1>3. \A id : Written(id)' \in {0, Written(id)}
  BY DEF Written
<1>4. \A id \in DOMAIN files : SameFile(id)
  BY DEF SameFile, SameBut
<1> QED
  BY <1>1, <1>2, <1>3, <1>4, QuietIndex

LEMMA CleanupIndex ==
    ASSUME TypeInv, TypeInv', IndexInv, CleanupExpired
    PROVE  IndexInv'
<1>1. PICK gone \in SUBSET (Expired \cap DOMAIN disk) :
        /\ DOMAIN disk' = DOMAIN disk \ gone
        /\ \A id \in DOMAIN disk' : disk'[id] = disk[id]
        /\ DOMAIN files' = DOMAIN files \ gone
        /\ \A id \in DOMAIN files' : SameBut(files[id], files'[id])
        /\ writing = {} /\ writing' = writing
  BY RemoveEffect
<1>2. gone \subseteq DOMAIN files
  BY DEF Expired
<1>3. \A id : id \notin gone => PartsOf(id)' = PartsOf(id)
  BY <1>1 DEF PartsOf
<1>4. \A id \in gone : PartsOf(id)' = <<>>
  BY <1>1 DEF PartsOf
<1>5. HeaderLast' /\ \A id : Written(id)' \in {0, Written(id)}
  BY <1>1 DEF HeaderLast, Written
<1>6. \A id \in DOMAIN files' : PartsOf(id)' = PartsOf(id) /\ id \in DOMAIN files /\ SameFile(id)
  BY <1>1, <1>3 DEF SameFile, SameBut
<1>7. \A id \in DOMAIN disk' \ DOMAIN files' :
         id \in DOMAIN disk \ DOMAIN files /\ PartsOf(id)' = PartsOf(id)
  BY <1>1, <1>2, <1>3
<1> QED
  BY <1>3, <1>4, <1>5, <1>6, <1>7, QuietIndex

LEMMA CleanLoads ==
    ASSUME NEW parts \in Seq(FileParts), NEW n \in Nat, Len(parts) = 3 * n,
           \A i \in 1 .. n : WholeBlock(parts, i)
    PROVE  Loads(parts) = {{Rebuilt(parts)}} /\ Whole(parts) = 1 .. n
<1>1. Whole(parts) = 1 .. n /\ WholeBlocks(parts) = n
  BY WholeOf
<1>2. SubSeq(parts, 3 * n + 1, Len(parts)) = <<>>
  OBVIOUS
<1> QED
  BY <1>1, <1>2 DEF Loads

\* Of a file with two blocks or more, the rebuilt index has two entries or more.
LEMMA RebuiltSize ==
    ASSUME NEW parts \in Seq(FileParts), Laid(parts), NEW n \in Nat, Len(parts) = 3 * n,
           Whole(parts) = 1 .. n
    PROVE  /\ IsFiniteSet(Rebuilt(parts)) /\ \A e \in Rebuilt(parts) : e.fresh = FALSE
           /\ Cardinality(Rebuilt(parts)) <= 1 => n <= 1
           /\ n = 0 => Rebuilt(parts) = {}
           /\ n = 1 => Rebuilt(parts) = {EntryOf(parts, 1, FALSE)}
<1> DEFINE E(i) == [ts |-> Millis(parts[3 * i].block[1].ts),
                    off |-> parts[3 * i - 2].at + (i - 1) * (ReloadedHeader - HeaderSize),
                    len |-> DataSize(parts[3 * i].block), fresh |-> FALSE]
<1>1. Rebuilt(parts) = {E(i) : i \in 1 .. n}
  BY DEF Rebuilt
<1>2. IsFiniteSet(Rebuilt(parts))
  <2> DEFINE f == [i \in 1 .. n |-> E(i)]
  <2>1. f \in Surjection(1 .. n, Rebuilt(parts))
    <3> HIDE DEF E
    <3> QED
      BY <1>1 DEF Surjection
  <2>2. IsFiniteSet(1 .. n)
    BY FS_Interval
  <2> QED
    BY <2>1, <2>2, FS_Surjection
<1>3. ASSUME Cardinality(Rebuilt(parts)) <= 1, n > 1 PROVE FALSE
  <2>1. E(1) \in Rebuilt(parts) /\ E(2) \in Rebuilt(parts)
    <3> HIDE DEF E
    <3> QED
      BY <1>1, <1>3
  <2>2. E(1).off = 0 /\ E(2).off = parts[4].at + 12
    BY <1>3 DEF Laid, ReloadedHeader, HeaderSize
  <2>3. parts[4].at \in Nat
    <3>1. 4 \in DOMAIN parts
      BY <1>3
    <3> QED
      BY <3>1, LaidOffsets
  <2>4. E(1) # E(2)
    BY <2>2, <2>3
  <2> HIDE DEF E
  <2>5. Rebuilt(parts) # {} /\ Cardinality(Rebuilt(parts)) \in Nat
    BY <1>2, <2>1, FS_CardinalityType
  <2>6. Cardinality(Rebuilt(parts)) = 1
    BY <1>2, <1>3, <2>5, FS_EmptySet
  <2> QED
    BY <1>2, <2>1, <2>4, <2>6, FS_Singleton
<1>4. n = 0 => Rebuilt(parts) = {}
  BY <1>1
<1>5. ASSUME n = 1 PROVE Rebuilt(parts) = {EntryOf(parts, 1, FALSE)}
  <2>1. 1 \in DOMAIN parts
    BY <1>5
  <2>2. parts[1].at \in Nat
    BY <2>1, LaidOffsets
  <2>3. E(1) = EntryOf(parts, 1, FALSE)
    <3>1. 3 * 1 - 2 = 1 /\ (1 - 1) * (ReloadedHeader - HeaderSize) = 0
      BY DEF ReloadedHeader, HeaderSize
    <3>2. parts[3 * 1 - 2].at + (1 - 1) * (ReloadedHeader - HeaderSize) = parts[3 * 1 - 2].at
      BY <2>2, <3>1
    <3> QED
      BY <3>2 DEF EntryOf
  <2> HIDE DEF E
  <2>4. (1 .. n) = {1}
    BY <1>5
  <2> QED
    BY <1>1, <2>3, <2>4
<1>6. \A e \in Rebuilt(parts) : e.fresh = FALSE
  BY <1>1
<1>7. Cardinality(Rebuilt(parts)) <= 1 => n <= 1
  <2> HIDE DEF E
  <2> QED
    BY <1>3
<1> HIDE DEF E
<1> QED
  BY <1>2, <1>4, <1>5, <1>6, <1>7

LEMMA RestartIndex ==
    ASSUME TypeInv, TypeInv', IndexInv, Restart
    PROVE  IndexInv'
<1>1. PICK load : /\ \A id \in DOMAIN disk : load[id] \in Loads(disk[id].parts)
                  /\ files' = [id \in {i \in DOMAIN disk : load[i] # {}} |->
                         [size |-> SizeOf(disk[id].parts), modified |-> disk[id].mtime,
                          index |-> UNION load[id], handle |-> "none"]]
  BY DEF Restart
<1>2. writing' = {} /\ disk' = disk
  BY DEF Restart
<1>3. HeaderLast' /\ (\A id : Written(id)' = 0) /\ \A id : PartsOf(id)' = PartsOf(id)
  BY <1>2 DEF HeaderLast, Written, PartsOf
<1>4. \A id \in SeriesIds : Laid(PartsOf(id))'
  BY <1>3 DEF IndexInv
<1>5. ASSUME NEW id \in DOMAIN disk, NEW n \in Nat, Clean(id, n)'
      PROVE  /\ load[id] = {Rebuilt(disk[id].parts)} /\ Whole(disk[id].parts) = 1 .. n
             /\ disk[id].parts \in Seq(FileParts) /\ Len(disk[id].parts) = 3 * n
             /\ Laid(disk[id].parts)
  <2>1. PartsOf(id) = disk[id].parts /\ id \in SeriesIds
    BY DEF PartsOf, TypeInv, TypeOK
  <2>2. disk[id].parts \in Seq(FileParts) /\ Laid(disk[id].parts)
    BY <2>1, PartsType DEF IndexInv
  <2>3. Len(disk[id].parts) = 3 * n /\ \A i \in 1 .. n : WholeBlock(disk[id].parts, i)
    BY <1>3, <1>5, <2>1, <2>2 DEF Clean
  <2> QED
    BY <1>1, <2>2, <2>3, CleanLoads
<1>6. ASSUME NEW id \in DOMAIN disk' \ DOMAIN files', NEW n \in Nat, Clean(id, n)' PROVE FALSE
  <2>1. load[id] # {} /\ id \in DOMAIN disk
    BY <1>2, <1>5, <1>6
  <2> QED
    BY <1>1, <1>6, <2>1
<1>7. ASSUME NEW id \in DOMAIN files', NEW n \in Nat, Clean(id, n)' PROVE Known(id, n)'
  <2> DEFINE parts == disk[id].parts  R == Rebuilt(parts)
  <2>1. /\ id \in DOMAIN disk /\ files'[id].size = SizeOf(parts)
        /\ files'[id].modified = disk[id].mtime /\ files'[id].index = UNION load[id]
    BY <1>1
  <2>2. load[id] = {R} /\ Whole(parts) = 1 .. n /\ parts \in Seq(FileParts) /\ Len(parts) = 3 * n
        /\ Laid(parts) /\ PartsOf(id) = parts
    BY <1>5, <1>7, <2>1 DEF PartsOf
  <2>3. files'[id].index = R
    BY <2>1, <2>2
  <2>4. /\ IsFiniteSet(R) /\ (\A e \in R : e.fresh = FALSE)
        /\ Cardinality(R) <= 1 => n <= 1
        /\ n = 0 => R = {}
        /\ n = 1 => R = {EntryOf(parts, 1, FALSE)}
    BY <2>2, RebuiltSize
  <2> HIDE DEF R
  <2>5. Reloaded(id)' = Cardinality(R)
    <3>1. {e \in R : ~e.fresh} = R
      BY <2>4
    <3> QED
      BY <2>3, <3>1 DEF Reloaded
  <2>6. n > 0 => disk'[id].mtime = files'[id].modified
    BY <1>2, <2>1
  <2>7. ASSUME Cardinality(R) <= 1
        PROVE  /\ Cardinality(R) = n
               /\ R = EntriesOf(id, n)' /\ SizeOf(parts) = EndOf(parts, n)
    <3>1. EntriesOf(id, n)' = {EntryOf(parts, i, i > Cardinality(R)) : i \in 1 .. n}
      BY <1>3, <2>2, <2>5 DEF EntriesOf
    <3>2. CASE n = 0
      <4>1. R = {} /\ EntriesOf(id, n)' = {}
        <5>1. R = {}
          BY <2>4, <3>2
        <5>2. (1 .. n) = {}
          BY <3>2
        <5>3. EntriesOf(id, n)' = {}
          BY <3>1, <5>2, Zenon
        <5> QED
          BY <5>1, <5>3
      <4>2. Len(parts) = 0 /\ parts \in Seq(FileParts)
        BY <2>2, <3>2
      <4>3. parts = <<>>
        BY <4>2
      <4> QED
        BY <3>2, <4>1, <4>3, FS_EmptySet DEF SizeOf, EndOf
    <3>3. CASE n = 1
      <4>1. R = {EntryOf(parts, 1, FALSE)} /\ Cardinality(R) = 1
        BY <2>2, <3>3, RebuiltSize, FS_Singleton DEF R
      <4>2. (1 .. n) = {1} /\ (1 > Cardinality(R)) = FALSE
        BY <3>3, <4>1
      <4>3. EntriesOf(id, n)' = {EntryOf(parts, 1, FALSE)}
        BY <3>1, <4>2
      <4>4. parts # <<>> /\ Len(parts) = 3 * n /\ n # 0
        <5>1. Len(parts) = 3 /\ 3 * n = 3 /\ n # 0
          BY <2>2, <3>3
        <5>2. Len(parts) # Len(<<>>)
          BY <5>1
        <5>3. parts # <<>>
          BY <5>2, Zenon
        <5> QED
          BY <5>1, <5>3
      <4>5. SizeOf(parts) = EndOf(parts, n)
        BY <4>4 DEF SizeOf, EndOf, Last
      <4> QED
        BY <3>3, <4>1, <4>3, <4>5
    <3> QED
      BY <2>4, <2>7, <3>2, <3>3
  <2>8. PartsOf(id)' = parts
    BY <1>3, <2>2
  <2> HIDE DEF parts
  <2>9. Reloaded(id)' <= 1 =>
          /\ Reloaded(id)' <= n
          /\ files'[id].index = EntriesOf(id, n)' /\ files'[id].size = EndOf(PartsOf(id)', n)
          /\ IsFiniteSet(files'[id].index) /\ Cardinality(files'[id].index) = n
    BY <2>1, <2>3, <2>4, <2>5, <2>7, <2>8 DEF parts
  <2> QED
    BY <2>6, <2>9 DEF Known
<1> QED
  BY <1>3, <1>4, <1>6, <1>7 DEF IndexInv

LEMMA IndexInit == Init => IndexInv
BY DEF Init, IndexInv, Laid, PartsOf, HeaderLast

LEMMA IndexStep == TypeInv /\ TypeInv' /\ IndexInv /\ [Next]_vars => IndexInv'
<1> SUFFICES ASSUME TypeInv, TypeInv', IndexInv, [Next]_vars PROVE IndexInv'
  OBVIOUS
<1>1. ASSUME disk' = disk, files' = files, writing' \in {{}, writing} PROVE IndexInv'
  <2>1. \A id \in DOMAIN files : SameBut(files[id], files'[id])
    BY <1>1, ClosedFile DEF TypeInv, Typed
  <2> QED
    BY <1>1, <2>1, IdleIndex
<1>2. CASE Write
  <2>1. ASSUME NEW id \in SeriesIds, OpenFails(id) \/ \E b \in Blocks : BeginWrite(id, b)
        PROVE  IndexInv'
    BY <2>1, RegisterIndex
  <2>2. ASSUME NEW w \in writing, WriteFails(w) PROVE IndexInv'
    <3>1. files' = files /\ writing' = {} /\ (disk' = disk \/ disk' = Appended(w, 1))
      BY <2>2 DEF WriteFails
    <3> QED
      BY <1>1, <3>1, FragmentIndex
  <2>3. ASSUME NEW w \in writing, WriteToClosed(w) PROVE IndexInv'
    BY <1>1, <2>3 DEF WriteToClosed
  <2> QED
    BY <1>2, <2>1, <2>2, <2>3, HeaderIndex, DataIndex DEF Write
<1>3. CASE \E r \in Readers : Read(r)
  BY <1>1, <1>3 DEF Read, Lookup, LockFile, ReadBlock, Deliver
<1>4. CASE CleanupExpired
  BY <1>4, CleanupIndex
<1>5. CASE Close
  <2>1. DOMAIN files' = DOMAIN files /\ disk' = disk /\ writing' = writing
        /\ \A id \in DOMAIN files : SameBut(files[id], files'[id])
    BY <1>5, CloseEffect
  <2> QED
    BY <2>1, IdleIndex
<1>6. CASE Restart
  BY <1>6, RestartIndex
<1>7. CASE Tick
  BY <1>1, <1>7 DEF Tick, warm
<1>8. CASE UNCHANGED vars
  BY <1>1, <1>8 DEF vars, warm
<1> QED
  BY <1>2, <1>3, <1>4, <1>5, <1>6, <1>7, <1>8 DEF Next

LEMMA IndexInvariant == Spec => [](TypeInv /\ IndexInv)
<1>1. Init => TypeInv /\ IndexInv
  BY TypeInit, IndexInit
<1>2. (TypeInv /\ IndexInv) /\ [Next]_vars => (TypeInv /\ IndexInv)'
  BY TypeStep, IndexStep
<1> QED
  BY <1>1, <1>2, PTL DEF Spec

\* A file that is all blocks, which nobody is writing to or whose write has not
\* begun.
LEMMA IntactClean ==
    ASSUME TypeInv, IndexInv, NEW id \in DOMAIN disk, Intact(disk[id].parts)
    PROVE  /\ Written(id) = 0 /\ WholeBlocks(disk[id].parts) \in Nat
           /\ Clean(id, WholeBlocks(disk[id].parts))
<1> DEFINE parts == disk[id].parts  n == WholeBlocks(parts)
<1>1. PartsOf(id) = parts /\ parts \in Seq(FileParts) /\ Len(parts) \in Nat
  BY PartsType DEF PartsOf
<1>2. n \in Nat /\ Len(parts) = 3 * n /\ \A i \in 1 .. n : WholeBlock(parts, i)
  BY <1>1, IntactBlocks
<1>3. ASSUME Written(id) # 0 PROVE FALSE
  <2>1. PICK w \in writing : w.id = id /\ w.next \in {"length", "data"}
    BY <1>3 DEF Written
  <2>2. Len(parts) > 0 /\ parts[Len(parts)].kind # "data"
    BY <1>1, <2>1 DEF IndexInv, HeaderLast, WholePart
  <2>3. n \in 1 .. n
    BY <1>2, <2>2
  <2>4. parts[3 * n].kind = "data"
    BY <1>2, <2>3, BlockKinds
  <2> QED
    BY <1>2, <2>2, <2>4
<1> QED
  BY <1>1, <1>2, <1>3 DEF Clean

\* The data of a whole block is where its entry says.
LEMMA BlockAt ==
    ASSUME NEW parts \in Seq(FileParts), Laid(parts), NEW i \in Nat \ {0}, WholeBlock(parts, i)
    PROVE  /\ parts[3 * i].block \in Blocks
           /\ BlocksAt(parts, parts[3 * i - 2].at + HeaderSize, DataSize(parts[3 * i].block))
                  = {parts[3 * i].block}
<1> DEFINE b == parts[3 * i].block  off == parts[3 * i - 2].at + HeaderSize
           x == 3 * i - 2  y == 3 * i - 1  z == 3 * i
<1>1. /\ z <= Len(parts) /\ WholePart(parts[x], "time", b)
      /\ WholePart(parts[y], "length", b) /\ WholePart(parts[z], "data", b)
  BY DEF WholeBlock
<1>2. x \in DOMAIN parts /\ y \in DOMAIN parts /\ z \in DOMAIN parts /\ y = x + 1 /\ z = y + 1
  BY <1>1
<1>3. b \in Blocks
  <2>1. parts[z] \in FileParts
    BY <1>2
  <2> QED
    BY <2>1 DEF FileParts
<1>4. parts[x].size = 8 /\ parts[y].size = 4 /\ parts[z].size = DataSize(b) /\ parts[z].kind = "data"
  BY <1>1, <1>3, PartSizes DEF WholePart, Kinds
<1> HIDE DEF x, y, z
<1>5. parts[z].at = off
  <2>1. /\ parts[x].at \in Nat
        /\ parts[y].at = parts[x].at + parts[x].size /\ parts[z].at = parts[y].at + parts[y].size
    BY <1>2, LaidOffsets
  <2>2. off = parts[x].at + 12
    BY DEF x, HeaderSize
  <2> HIDE DEF off
  <2> QED
    BY <1>4, <2>1, <2>2
<1> HIDE DEF off
<1>6. ASSUME NEW k \in DOMAIN parts, parts[k].at = off PROVE k = z
  <2>1. k \in Nat /\ z \in Nat /\ parts[k].at \in Nat
    BY <1>2, LaidOffsets
  <2>2. k < z => parts[k].at < parts[z].at
    BY <1>2, LaidOffsets
  <2>3. z < k => parts[z].at < parts[k].at
    BY <1>2, LaidOffsets
  <2> QED
    BY <1>5, <1>6, <2>1, <2>2, <2>3
<1> HIDE DEF b
<1>7. {k \in DOMAIN parts : /\ parts[k].kind = "data" /\ parts[k].size = DataSize(b)
                            /\ DataSize(b) = DataSize(parts[k].block) /\ parts[k].at = off} = {z}
  <2>1. parts[z].block = b
    BY DEF b, z
  <2> QED
    BY <1>2, <1>4, <1>5, <1>6, <2>1
<1>8. BlocksAt(parts, off, DataSize(b)) = {parts[z].block}
  BY <1>7 DEF BlocksAt
<1> QED
  BY <1>3, <1>8 DEF b, z, off

\* FileSize, the order of the writes, the appends of this process and of those
\* before it, and the index agree: of a file that holds no torn block, and was
\* not reloaded with several, every block has its entry, and the entry is exact.
THEOREM IndexAlwaysExact == Spec => []IndexExact
<1>1. TypeInv /\ IndexInv => IndexExact
  <2> SUFFICES ASSUME TypeInv, IndexInv, NEW id \in SeriesIds, Healthy(id)
               PROVE  /\ \A e \in files[id].index : Exact(id, e)
                      /\ Cardinality(files[id].index) = WholeBlocks(disk[id].parts)
                      /\ files[id].size = SizeOf(disk[id].parts)
    BY DEF IndexExact
  <2> DEFINE parts == disk[id].parts  n == WholeBlocks(parts)
  <2>1. id \in DOMAIN files /\ id \in DOMAIN disk /\ Intact(parts) /\ Reloaded(id) <= 1
    BY DEF Healthy
  <2>2. PartsOf(id) = parts /\ parts \in Seq(FileParts) /\ Laid(parts) /\ id \in SeriesIds
    BY <2>1, PartsType DEF PartsOf, IndexInv
  <2>3. n \in Nat /\ Clean(id, n)
    BY <2>1, IntactClean
  <2>4. Len(parts) = 3 * n /\ \A i \in 1 .. n : WholeBlock(parts, i)
    BY <2>1, <2>2, IntactBlocks
  <2>5. Known(id, n)
    BY <2>1, <2>3 DEF IndexInv
  <2> HIDE DEF n
  <2>6. /\ files[id].index = EntriesOf(id, n) /\ files[id].size = EndOf(parts, n)
        /\ Cardinality(files[id].index) = n
    BY <2>1, <2>2, <2>5 DEF Known
  <2>7. ASSUME NEW e \in files[id].index PROVE Exact(id, e)
    <3>1. PICK i \in 1 .. n : e = EntryOf(parts, i, i > Reloaded(id))
      BY <2>2, <2>6 DEF EntriesOf
    <3> DEFINE b == parts[3 * i].block
    <3>2. i \in Nat \ {0} /\ WholeBlock(parts, i)
      BY <2>3, <2>4
    <3>3. BlocksAt(parts, parts[3 * i - 2].at + HeaderSize, DataSize(b)) = {b}
      BY <2>2, <3>2, BlockAt
    <3>4. e.off = parts[3 * i - 2].at /\ e.len = DataSize(b)
          /\ e.ts = IF e.fresh THEN b[1].ts ELSE Millis(b[1].ts)
      BY <3>1, Zenon DEF EntryOf
    <3> QED
      BY <3>3, <3>4 DEF Exact
  <2>8. files[id].size = SizeOf(parts)
    <3>1. CASE n = 0
      <4>1. parts = <<>>
        BY <2>2, <2>4, <3>1
      <4> QED
        BY <2>6, <3>1, <4>1 DEF SizeOf, EndOf
    <3>2. CASE n # 0
      <4>1. parts # <<>> /\ Len(parts) = 3 * n
        BY <2>3, <2>4, <3>2
      <4> QED
        BY <2>6, <3>2, <4>1 DEF SizeOf, EndOf, Last
    <3> QED
      BY <3>1, <3>2
  <2> QED
    BY <2>6, <2>7, <2>8 DEF n
<1> QED
  BY <1>1, IndexInvariant, PTL

\* The clean-up removes no file that holds blocks, and nothing torn, within the
\* retention period after its last write, across restarts: LastModified is the
\* time of that write.
THEOREM RetentionAlwaysRespected == Spec => RetentionRespected
<1> DEFINE Step == \A id \in DOMAIN disk \ (DOMAIN disk)' :
               disk[id].parts # <<>> /\ Intact(disk[id].parts) => now - disk[id].mtime > Retention
<1>1. TypeInv /\ IndexInv /\ [Next]_vars => [Step]_vars
  <2> SUFFICES ASSUME TypeInv, IndexInv, Next, NEW id \in DOMAIN disk \ DOMAIN disk',
                      disk[id].parts # <<>>, Intact(disk[id].parts)
               PROVE  now - disk[id].mtime > Retention
    OBVIOUS
  <2>1. CASE CleanupExpired
    <3>1. id \in Expired
      <4>1. PICK gone \in SUBSET (Expired \cap DOMAIN disk) : DOMAIN disk' = DOMAIN disk \ gone
        BY <2>1, RemoveEffect
      <4> QED
        BY <4>1
    <3>2. id \in DOMAIN files /\ now - files[id].modified > Retention
      BY <3>1 DEF Expired
    <3> DEFINE n == WholeBlocks(disk[id].parts)
    <3>3. n \in Nat /\ Written(id) = 0 /\ Clean(id, n)
      BY IntactClean
    <3>4. n > 0
      <4>1. disk[id].parts \in Seq(FileParts) /\ PartsOf(id) = disk[id].parts
        BY PartsType DEF PartsOf
      <4>2. Len(disk[id].parts) # 0
        BY <4>1
      <4>3. Len(disk[id].parts) = 3 * n
        BY DEF Intact
      <4> QED
        BY <3>3, <4>2, <4>3
    <3> HIDE DEF n
    <3>5. disk[id].mtime = files[id].modified
      BY <3>2, <3>3, <3>4 DEF IndexInv, Known
    <3> QED
      BY <3>2, <3>5
  <2>2. ASSUME NEW w \in writing, NEW size \in Nat \ {0}, disk' = Appended(w, size) PROVE FALSE
    BY <2>2, AppendedParts
  <2>3. CASE Write
    <3>1. ASSUME NEW i \in SeriesIds, NEW b \in Blocks, BeginWrite(i, b) PROVE FALSE
      BY <3>1 DEF BeginWrite, With
    <3>2. ASSUME NEW w \in writing, WriteHeader(w) \/ WriteData(w) PROVE FALSE
      <4>1. PartSize(w.next, w.block) \in Nat \ {0} /\ DataSize(w.block) \in Nat \ {0}
        BY WriterType, PartSizes, BlockType
      <4> QED
        BY <2>2, <3>2, <4>1 DEF WriteHeader, WriteData
    <3>3. ASSUME NEW w \in writing, WriteFails(w) \/ WriteToClosed(w) PROVE FALSE
      BY <2>2, <3>3 DEF WriteFails, WriteToClosed
    <3>4. ASSUME NEW i \in SeriesIds, OpenFails(i) PROVE FALSE
      BY <3>4 DEF OpenFails
    <3> QED
      BY <2>3, <3>1, <3>2, <3>3, <3>4 DEF Write
  <2>4. CASE (\E r \in Readers : Read(r)) \/ Close \/ Restart \/ Tick \/ UNCHANGED vars
    BY <2>4 DEF Read, Lookup, LockFile, ReadBlock, Deliver, Close, Restart, Tick, vars, warm
  <2> QED
    BY <2>1, <2>3, <2>4 DEF Next
<1> QED
  BY <1>1, IndexInvariant, PTL DEF Spec, RetentionRespected

-----------------------------------------------------------------------------
(* What a read has to do.                                                  *)

BlockPoints(id, I) == UNION {Points(PartsOf(id)[3 * i].block) : i \in I}

\* The blocks among the first n that have an entry in todo.
Awaited(id, n, todo) == {i \in 1 .. n : EntryOf(PartsOf(id), i, i > Reloaded(id)) \in todo}

\* A call that has looked up a file of n blocks: what it wants it has, or will
\* have read when nothing is left to read.
CallExact(R, n) ==
    /\ R.pc # "failed"
    /\ R.pc = "found" => R.got = {}
    /\ R.pc = "reading" =>
          /\ R.todo \subseteq files[R.id].index
          /\ R.got \subseteq InRange(BlockPoints(R.id, 1 .. n), R.from, R.to)
          /\ R.want \subseteq R.got \cup InRange(BlockPoints(R.id, Awaited(R.id, n, R.todo)), R.from, R.to)

\* The invariant behind ReadsExact.
ReadInv ==
    \A r \in Readers, R \in Calls, n \in Nat :
        readers[r] = R /\ R.live /\ Clean(R.id, n) /\ Reloaded(R.id) <= 1 => CallExact(R, n)

\* A step after which the blocks of a clean file, and their entries, are still there.
Grows(id) ==
    /\ files[id].index \subseteq files'[id].index /\ Reloaded(id)' = Reloaded(id)
    /\ \A n \in Nat : Clean(id, n)' =>
          \E m \in 0 .. n : /\ Clean(id, m)
                            /\ \A i \in 1 .. m :
                                  /\ PartsOf(id)'[3 * i] = PartsOf(id)[3 * i]
                                  /\ PartsOf(id)'[3 * i - 2] = PartsOf(id)[3 * i - 2]

LEMMA CallsKept ==
    ASSUME TypeInv, ReadInv,
           \A r \in Readers, R \in Calls : readers'[r] = R /\ R.live => readers[r] = R /\ Grows(R.id)
    PROVE  ReadInv'
<1> SUFFICES ASSUME NEW r \in Readers, NEW R \in Calls, NEW n \in Nat,
                    readers'[r] = R, R.live, Clean(R.id, n)', Reloaded(R.id)' <= 1
             PROVE  CallExact(R, n)'
  BY DEF ReadInv
<1> DEFINE id == R.id
<1>1. readers[r] = R /\ Grows(id)
  OBVIOUS
<1>2. PICK m \in 0 .. n : /\ Clean(id, m)
                          /\ \A i \in 1 .. m : /\ PartsOf(id)'[3 * i] = PartsOf(id)[3 * i]
                                               /\ PartsOf(id)'[3 * i - 2] = PartsOf(id)[3 * i - 2]
  BY <1>1 DEF Grows
<1>3. files[id].index \subseteq files'[id].index /\ Reloaded(id)' = Reloaded(id)
  BY <1>1 DEF Grows
<1>4. CallExact(R, m)
  BY <1>1, <1>2, <1>3 DEF ReadInv
<1>5. \A i \in 1 .. m : i \in 1 .. n
  OBVIOUS
<1>6. BlockPoints(id, 1 .. m) \subseteq BlockPoints(id, 1 .. n)'
  BY <1>2, <1>5 DEF BlockPoints
<1>7. Awaited(id, m, R.todo) \subseteq 1 .. m /\ Awaited(id, m, R.todo) \subseteq Awaited(id, n, R.todo)'
  <2>1. \A i \in 1 .. m : EntryOf(PartsOf(id), i, i > Reloaded(id))' = EntryOf(PartsOf(id), i, i > Reloaded(id))
    BY <1>2, <1>3, Zenon DEF EntryOf
  <2> QED
    BY <1>5, <2>1, Zenon DEF Awaited
<1>8. BlockPoints(id, Awaited(id, m, R.todo)) \subseteq BlockPoints(id, Awaited(id, n, R.todo))'
  BY <1>2, <1>7 DEF BlockPoints
<1> QED
  BY <1>3, <1>4, <1>6, <1>8 DEF CallExact, InRange

LEMMA QuietGrows ==
    ASSUME TypeInv, IndexInv, NEW id, PartsOf(id)' = PartsOf(id),
           Written(id)' \in {0, Written(id)}, files'[id].index = files[id].index
    PROVE  Grows(id)
<1>1. Reloaded(id)' = Reloaded(id)
  BY DEF Reloaded
<1>2. ASSUME NEW n \in Nat, Clean(id, n)' PROVE n \in 0 .. n /\ Clean(id, n)
  BY <1>2, CleanKept DEF IndexInv
<1> QED
  BY <1>1, <1>2 DEF Grows

LEMMA HeaderGrows ==
    ASSUME TypeInv, IndexInv, NEW w \in writing, WriteHeader(w) \/ WriteData(w)
    PROVE  Grows(w.id)
<1> DEFINE id == w.id  parts == PartsOf(w.id)
<1>1. PICK size \in Nat \ {0} : disk' = Appended(w, size)
  BY WriterType, PartSizes, BlockType DEF WriteHeader, WriteData
<1> DEFINE p == NewPart(w, size)  q == Append(parts, p)
<1>2. PartsOf(id)' = q /\ p \in FileParts /\ parts \in Seq(FileParts)
  <2>1. /\ DOMAIN disk' = DOMAIN disk /\ w.id \in DOMAIN disk /\ p \in FileParts
        /\ disk'[w.id].parts = Append(disk[w.id].parts, p)
    BY <1>1, AppendedParts
  <2> HIDE DEF p
  <2> QED
    BY <2>1, PartsType DEF PartsOf
<1>3. /\ files[id].index \subseteq files'[id].index /\ Reloaded(id)' = Reloaded(id)
  <2>1. CASE WriteHeader(w)
    BY <2>1 DEF WriteHeader, Reloaded
  <2>2. CASE WriteData(w)
    <3>1. files'[id].index = files[id].index \cup {NewEntry(w)}
      BY <2>2, WrittenFile, WriterType DEF TypeInv, Typed
    <3>2. NewEntry(w).fresh = TRUE
      BY DEF NewEntry
    <3>3. {e \in files[id].index \cup {NewEntry(w)} : ~e.fresh} = {e \in files[id].index : ~e.fresh}
      BY <3>2
    <3> QED
      BY <3>1, <3>3 DEF Reloaded
  <2> QED
    BY <2>1, <2>2
<1> HIDE DEF p
<1>4. Len(q) = Len(parts) + 1 /\ Len(parts) \in Nat /\ \A k \in 1 .. Len(parts) : q[k] = parts[k]
  BY <1>2
<1>5. ASSUME NEW n \in Nat, Clean(id, n)'
      PROVE  \E m \in 0 .. n : Clean(id, m) /\ 3 * m <= Len(parts)
  <2>1. Len(q) = 3 * n + Written(id)' /\ \A i \in 1 .. n : WholeBlock(q, i)
    BY <1>2, <1>5 DEF Clean
  <2>2. PICK m \in 0 .. n : Len(parts) = 3 * m + Written(id) /\ 3 * m <= Len(parts)
    <3>1. CASE WriteHeader(w)
      <4>1. Written(id)' = Written(id) + 1 /\ Written(id) \in 0 .. 2
        BY <3>1, WrittenMore, WrittenValue
      <4>2. Len(parts) = 3 * n + Written(id) /\ 3 * n <= Len(parts) /\ n \in 0 .. n
        BY <1>4, <2>1, <4>1
      <4> QED
        BY <4>2
    <3>2. CASE WriteData(w)
      <4>1. Written(id) = 2 /\ Written(id)' = 0
        BY <3>2, WrittenMore
      <4>2. Len(parts) = 3 * (n - 1) + 2 /\ n - 1 \in 0 .. n /\ 3 * (n - 1) <= Len(parts)
        BY <1>4, <2>1, <4>1
      <4> QED
        BY <4>1, <4>2
    <3> QED
      BY <3>1, <3>2
  <2>3. \A i \in 1 .. m : WholeBlock(parts, i)
    <3>1. \A i \in 1 .. m : WholeBlock(q, i)
      BY <2>1
    <3> HIDE DEF q
    <3>2. \A i \in 1 .. m : WholeBlock(q, i) <=> WholeBlock(parts, i)
      BY <1>2, <2>2, GrownFile DEF q
    <3> QED
      BY <3>1, <3>2
  <2> QED
    BY <2>2, <2>3 DEF Clean
<1>6. ASSUME NEW n \in Nat, Clean(id, n)'
      PROVE  \E m \in 0 .. n : /\ Clean(id, m)
                               /\ \A i \in 1 .. m : /\ PartsOf(id)'[3 * i] = parts[3 * i]
                                                    /\ PartsOf(id)'[3 * i - 2] = parts[3 * i - 2]
  <2>1. PICK m \in 0 .. n : Clean(id, m) /\ 3 * m <= Len(parts)
    BY <1>5, <1>6
  <2> HIDE DEF q
  <2>2. ASSUME NEW i \in 1 .. m PROVE q[3 * i] = parts[3 * i] /\ q[3 * i - 2] = parts[3 * i - 2]
    <3>1. 3 * i \in 1 .. Len(parts) /\ 3 * i - 2 \in 1 .. Len(parts)
      BY <1>4, <2>1
    <3> QED
      BY <1>4, <3>1
  <2> QED
    BY <1>2, <2>1, <2>2
<1> QED
  BY <1>3, <1>6 DEF Grows

\* What the index holds of a clean file.
LEMMA CleanFile ==
    ASSUME TypeInv, IndexInv, NEW id \in DOMAIN files, NEW n \in Nat, Clean(id, n), Reloaded(id) <= 1
    PROVE  /\ PartsOf(id) \in Seq(FileParts) /\ Laid(PartsOf(id))
           /\ files[id].index = {EntryOf(PartsOf(id), i, i > Reloaded(id)) : i \in 1 .. n}
           /\ Reloaded(id) \in Nat /\ 3 * n <= Len(PartsOf(id))
           /\ \A i \in 1 .. n : /\ i \in Nat \ {0} /\ WholeBlock(PartsOf(id), i)
                                /\ PartsOf(id)[3 * i].block \in Blocks
           /\ n > 0 => id \in DOMAIN disk
<1>1. PartsOf(id) \in Seq(FileParts) /\ Laid(PartsOf(id))
  BY PartsType DEF IndexInv, TypeInv, TypeOK
<1>2. files[id].index = EntriesOf(id, n) /\ IsFiniteSet(files[id].index)
  BY DEF IndexInv, Known
<1>3. Reloaded(id) \in Nat
  <2>1. {e \in files[id].index : ~e.fresh} \subseteq files[id].index
    OBVIOUS
  <2> QED
    BY <1>2, <2>1, FS_Subset, FS_CardinalityType DEF Reloaded
<1>4. Len(PartsOf(id)) = 3 * n + Written(id) /\ Written(id) \in 0 .. 2
      /\ \A i \in 1 .. n : WholeBlock(PartsOf(id), i)
  BY WrittenValue DEF Clean
<1>5. \A i \in 1 .. n : i \in Nat \ {0} /\ WholeBlock(PartsOf(id), i)
  BY <1>4
<1>6. \A i \in 1 .. n : PartsOf(id)[3 * i].block \in Blocks
  BY <1>1, <1>5, BlockAt
<1>7. n > 0 => id \in DOMAIN disk
  BY CleanThere
<1> QED
  BY <1>1, <1>2, <1>3, <1>4, <1>5, <1>6, <1>7 DEF EntriesOf

\* What is expected of a read is in the blocks whose entries it takes.
LEMMA ExpectedAwaited ==
    ASSUME TypeInv, IndexInv, NEW id \in DOMAIN files, NEW n \in Nat, Clean(id, n), Reloaded(id) <= 1,
           NEW from \in Nat, NEW to \in Nat, id \in DOMAIN disk
    PROVE  Expected(id, from, to) \subseteq
              InRange(BlockPoints(id, Awaited(id, n, Relevant(files[id].index, from, to))), from, to)
<1> DEFINE parts == PartsOf(id)  B(i) == parts[3 * i].block
           E(i) == EntryOf(parts, i, i > Reloaded(id))
           Start(i) == IF i <= Reloaded(id) THEN Millis(B(i)[1].ts) ELSE B(i)[1].ts
           todo == Relevant(files[id].index, from, to)
<1>1. /\ parts \in Seq(FileParts) /\ 3 * n <= Len(parts) /\ Reloaded(id) \in Nat
      /\ files[id].index = {E(i) : i \in 1 .. n}
      /\ \A i \in 1 .. n : WholeBlock(parts, i) /\ B(i) \in Blocks
  BY CleanFile
<1>2. Len(parts) < 3 * n + 3
  <2>1. Written(id) \in 0 .. 2
    BY WrittenValue
  <2> QED
    BY <2>1 DEF Clean
<1>3. Whole(parts) = 1 .. n
  BY <1>1, <1>2, WholeOf
<1>4. Expected(id, from, to)
        = InRange(UNION {Points(B(i)) : i \in {j \in 1 .. n : from <= Start(j)}}, from, to)
  BY <1>3 DEF Expected, PartsOf
<1>5. SUFFICES ASSUME NEW i \in 1 .. n, from <= Start(i), NEW p \in Points(B(i)), from <= p.ts, p.ts <= to
               PROVE  p \in InRange(BlockPoints(id, Awaited(id, n, todo)), from, to)
  BY <1>4 DEF InRange
<1>6. B(i)[1].ts \in Nat /\ p.ts \in Nat /\ B(i)[1].ts <= p.ts
  BY <1>1, BlockType
<1>7. E(i).ts = Start(i)
  <2>1. i > Reloaded(id) <=> ~(i <= Reloaded(id))
    BY <1>1
  <2>2. E(i).ts = IF i > Reloaded(id) THEN B(i)[1].ts ELSE Millis(B(i)[1].ts)
    BY DEF EntryOf
  <2> QED
    BY <2>1, <2>2, Zenon
<1>8. Start(i) \in Nat /\ Start(i) <= to
  <2>1. Millis(B(i)[1].ts) \in Nat /\ Millis(B(i)[1].ts) <= B(i)[1].ts
    BY <1>6, MillisType
  <2> QED
    BY <1>5, <1>6, <2>1
<1> HIDE DEF E, Start
<1>9. E(i) \in todo
  BY <1>1, <1>5, <1>7, <1>8 DEF Relevant
<1> HIDE DEF todo
<1>10. i \in Awaited(id, n, todo)
  BY <1>9 DEF E, Awaited
<1> QED
  BY <1>5, <1>10 DEF BlockPoints, InRange

LEMMA OwnCall ==
    ASSUME TypeInv, IndexInv, ReadInv, NEW r \in Readers, Read(r), NEW S \in Calls, NEW n \in Nat,
           readers'[r] = S, S.live, Clean(S.id, n), Reloaded(S.id) <= 1
    PROVE  CallExact(S, n)
<1>1. readers \in [Readers -> {Idle} \cup Calls]
  BY DEF TypeInv, Typed
<1>2. ASSUME NEW id \in SeriesIds, NEW range \in Ranges, Lookup(r, id, range[1], range[2])
      PROVE  CallExact(S, n)
  <2>1. S = [pc |-> "found", live |-> TRUE, id |-> id, from |-> range[1], to |-> range[2],
             todo |-> {}, got |-> {}, want |-> {}]
    BY <1>1, <1>2 DEF Lookup
  <2>2. S.pc = "found" /\ S.got = {}
    BY <2>1
  <2> QED
    BY <2>2 DEF CallExact
<1>3. ASSUME LockFile(r) \/ ReadBlock(r)
      PROVE  \E R \in Calls : /\ readers[r] = R /\ R.live /\ R.id = S.id /\ R.from = S.from /\ R.to = S.to
                              /\ CallExact(R, n) /\ R.id \in DOMAIN files
  <2> DEFINE R == readers[r]
  <2>1. R \in Calls
    BY <1>3, CallType DEF LockFile, ReadBlock, Reading
  <2>2. S.live = R.live /\ S.id = R.id /\ S.from = R.from /\ S.to = R.to
    <3>1. CASE LockFile(r)
      BY <1>1, <2>1, <3>1 DEF LockFile, Calls
    <3>2. CASE ReadBlock(r)
      <4> DEFINE found(e) == IF R.id \in DOMAIN disk
                             THEN BlocksAt(disk[R.id].parts, e.off + HeaderSize, e.len) ELSE {}
                 got(e) == R.got \cup InRange(UNION {Points(b) : b \in found(e)}, R.from, R.to)
      <4>1. PICK e \in R.todo : S = IF found(e) = {} THEN [R EXCEPT !.pc = "failed", !.todo = {}]
                                    ELSE [R EXCEPT !.todo = R.todo \ {e}, !.got = got(e)]
        BY <1>1, <3>2 DEF ReadBlock
      <4> HIDE DEF found, got
      <4> QED
        BY <2>1, <4>1 DEF Calls
    <3> QED
      BY <1>3, <3>1, <3>2
  <2>3. CallExact(R, n) /\ R.id \in DOMAIN files
    BY <2>1, <2>2 DEF ReadInv, TypeInv, TypeOK
  <2> QED
    BY <2>1, <2>2, <2>3
<1>4. CASE LockFile(r)
  <2>1. PICK R \in Calls : /\ readers[r] = R /\ R.live /\ R.id = S.id /\ R.from = S.from /\ R.to = S.to
                           /\ CallExact(R, n) /\ R.id \in DOMAIN files
    BY <1>3, <1>4
  <2> DEFINE todo == Relevant(files[R.id].index, R.from, R.to)
             want == IF R.id \in DOMAIN disk THEN Expected(R.id, R.from, R.to) ELSE {}
  <2>2. R.pc = "found" /\ S = [R EXCEPT !.pc = "reading", !.todo = todo, !.want = want]
    BY <1>1, <1>4, <2>1 DEF LockFile
  <2>3. R.got = {}
    BY <2>1, <2>2 DEF CallExact
  <2> HIDE DEF todo, want
  <2>4. S.pc = "reading" /\ S.todo = todo /\ S.want = want /\ S.got = {}
    BY <2>2, <2>3 DEF Calls
  <2>5. todo \subseteq files[S.id].index
    BY <2>1 DEF todo, Relevant
  <2>6. want \subseteq InRange(BlockPoints(S.id, Awaited(S.id, n, todo)), S.from, S.to)
    <3>1. CASE R.id \in DOMAIN disk
      <4>1. S.from \in Nat /\ S.to \in Nat
        BY DEF Calls
      <4> QED
        BY <2>1, <3>1, <4>1, ExpectedAwaited DEF want, todo
    <3>2. CASE R.id \notin DOMAIN disk
      BY <3>2 DEF want
    <3> QED
      BY <3>1, <3>2
  <2> QED
    BY <2>4, <2>5, <2>6 DEF CallExact
<1>5. CASE ReadBlock(r)
  <2>1. PICK R \in Calls : /\ readers[r] = R /\ R.live /\ R.id = S.id /\ R.from = S.from /\ R.to = S.to
                           /\ CallExact(R, n) /\ R.id \in DOMAIN files
    BY <1>3, <1>5
  <2> DEFINE id == R.id  parts == PartsOf(id)  B(i) == parts[3 * i].block
             E(i) == EntryOf(parts, i, i > Reloaded(id))
             found(e) == IF R.id \in DOMAIN disk
                         THEN BlocksAt(disk[R.id].parts, e.off + HeaderSize, e.len) ELSE {}
             got(e) == R.got \cup InRange(UNION {Points(b) : b \in found(e)}, R.from, R.to)
  <2>2. /\ R.pc = "reading"
        /\ R.todo \subseteq files[id].index
        /\ R.got \subseteq InRange(BlockPoints(id, 1 .. n), R.from, R.to)
        /\ R.want \subseteq R.got \cup InRange(BlockPoints(id, Awaited(id, n, R.todo)), R.from, R.to)
    BY <1>5, <2>1 DEF ReadBlock, Reading, CallExact
  <2>3. PICK e \in R.todo : S = IF found(e) = {} THEN [R EXCEPT !.pc = "failed", !.todo = {}]
                                ELSE [R EXCEPT !.todo = R.todo \ {e}, !.got = got(e)]
    BY <1>1, <1>5, <2>1 DEF ReadBlock
  <2>4. /\ parts \in Seq(FileParts) /\ Laid(parts) /\ files[id].index = {E(i) : i \in 1 .. n}
        /\ \A i \in 1 .. n : i \in Nat \ {0} /\ WholeBlock(parts, i)
        /\ n > 0 => id \in DOMAIN disk
    BY <2>1, CleanFile
  <2>5. ASSUME NEW i \in 1 .. n, E(i) = e PROVE found(e) = {B(i)}
    <3>1. id \in DOMAIN disk /\ parts = disk[R.id].parts
      BY <2>4 DEF PartsOf
    <3>2. e.off = parts[3 * i - 2].at /\ e.len = DataSize(B(i))
      BY <2>5, Zenon DEF EntryOf
    <3>3. BlocksAt(parts, parts[3 * i - 2].at + HeaderSize, DataSize(B(i))) = {B(i)}
      BY <2>4, BlockAt
    <3> QED
      BY <3>1, <3>2, <3>3
  <2> HIDE DEF E
  <2>6. PICK k \in 1 .. n : E(k) = e
    BY <2>2, <2>3, <2>4
  <2>7. found(e) = {B(k)}
    BY <2>5, <2>6
  <2>8. got(e) = R.got \cup InRange(Points(B(k)), R.from, R.to)
    BY <2>7
  <2> HIDE DEF found, got
  <2>9. S.pc = "reading" /\ S.todo = R.todo \ {e} /\ S.got = got(e) /\ S.want = R.want
    BY <2>2, <2>3, <2>7 DEF Calls
  <2>10. Points(B(k)) \subseteq BlockPoints(id, 1 .. n)
    BY DEF BlockPoints
  <2>11. got(e) \subseteq InRange(BlockPoints(id, 1 .. n), R.from, R.to)
    BY <2>2, <2>8, <2>10 DEF InRange
  <2>12. ASSUME NEW i \in Awaited(id, n, R.todo)
         PROVE  Points(B(i)) \subseteq Points(B(k)) \cup BlockPoints(id, Awaited(id, n, R.todo \ {e}))
    <3>1. i \in 1 .. n /\ E(i) \in R.todo
      BY DEF Awaited, E
    <3>2. CASE E(i) = e
      <4>1. found(e) = {B(i)}
        BY <2>5, <3>1, <3>2 DEF found
      <4> QED
        BY <2>7, <4>1
    <3>3. CASE E(i) # e
      <4>1. i \in Awaited(id, n, R.todo \ {e})
        BY <3>1, <3>3 DEF Awaited, E
      <4> QED
        BY <4>1 DEF BlockPoints
    <3> QED
      BY <3>2, <3>3
  <2>13. BlockPoints(id, Awaited(id, n, R.todo))
           \subseteq Points(B(k)) \cup BlockPoints(id, Awaited(id, n, R.todo \ {e}))
    BY <2>12 DEF BlockPoints
  <2>14. R.want \subseteq got(e) \cup InRange(BlockPoints(id, Awaited(id, n, R.todo \ {e})), R.from, R.to)
    BY <2>2, <2>8, <2>13 DEF InRange
  <2>15. S.todo \subseteq files[id].index
    BY <2>2, <2>9
  <2> QED
    BY <2>1, <2>9, <2>11, <2>14, <2>15 DEF CallExact
<1>6. ~Deliver(r)
  BY <1>1 DEF Deliver, Idle
<1> QED
  BY <1>2, <1>4, <1>5, <1>6 DEF Read

LEMMA ReadInit == Init => ReadInv
BY DEF Init, ReadInv, Idle

LEMMA ReadStep ==
    ASSUME TypeInv, TypeInv', IndexInv, ReadInv, [Next]_vars
    PROVE  ReadInv'
<1>1. ASSUME NEW R \in Calls, NEW r \in Readers, readers[r] = R, R.live
      PROVE  R.id \in DOMAIN files /\ R.id \in SeriesIds
  BY <1>1 DEF TypeInv, TypeOK
\* Each file that a call has looked up grows, or stays as it was.
<1>2. ASSUME readers' = readers, \A id \in DOMAIN files : Grows(id)
      PROVE  ReadInv'
  BY <1>1, <1>2, CallsKept
<1>3. ASSUME NEW w \in writing, writing' = {} \/ \E v \in Writes : writing' = {v} /\ v.id = w.id,
             NEW id \in DOMAIN files, id # w.id,
             files'[id] = files[id], id \in DOMAIN disk => disk'[id] = disk[id],
             DOMAIN disk' = DOMAIN disk
      PROVE  Grows(id)
  <2>1. PartsOf(id)' = PartsOf(id)
    BY <1>3 DEF PartsOf
  <2>2. Written(id)' = 0
    BY <1>3 DEF Written
  <2> QED
    BY <1>3, <2>1, <2>2, QuietGrows
<1>4. CASE Write
  <2>1. ASSUME NEW id \in SeriesIds, OpenFails(id) \/ \E b \in Blocks : BeginWrite(id, b)
        PROVE  ReadInv'
    <3>1. /\ \A j \in DOMAIN files : SameFile(j)
          /\ \A j : PartsOf(j)' = PartsOf(j) /\ Written(j)' \in {0, Written(j)}
          /\ readers' = readers
      BY <2>1, RegisterEffect
    <3>2. \A j \in DOMAIN files : Grows(j)
      BY <3>1, QuietGrows DEF SameFile
    <3> QED
      BY <1>2, <3>1, <3>2
  <2>2. ASSUME NEW w \in writing, WriteHeader(w) \/ WriteData(w)
        PROVE  ReadInv'
    <3>1. PICK size \in Nat \ {0} : disk' = Appended(w, size)
      BY <2>2, WriterType, PartSizes, BlockType DEF WriteHeader, WriteData
    <3>2. DOMAIN disk' = DOMAIN disk /\ \A id \in DOMAIN disk : id # w.id => disk'[id] = disk[id]
      BY <3>1, AppendedParts
    <3>3. writing' = {} \/ \E v \in Writes : writing' = {v} /\ v.id = w.id
      <4>1. CASE WriteData(w)
        BY <4>1 DEF WriteData
      <4>2. CASE WriteHeader(w)
        <5>1. w \in Writes
          BY WriterType
        <5>2. \A k \in Kinds : [w EXCEPT !.next = k] \in Writes /\ [w EXCEPT !.next = k].id = w.id
          BY <5>1 DEF Writes
        <5> QED
          BY <4>2, <5>2 DEF WriteHeader, Kinds
      <4> QED
        BY <2>2, <4>1, <4>2
    <3>4. readers' = readers /\ \A id \in DOMAIN files : id # w.id => files'[id] = files[id]
      BY <2>2 DEF WriteHeader, WriteData
    <3>5. Grows(w.id)
      BY <2>2, HeaderGrows
    <3> QED
      BY <1>2, <1>3, <3>2, <3>3, <3>4, <3>5
  <2>3. ASSUME NEW w \in writing, WriteFails(w) \/ WriteToClosed(w)
        PROVE  ReadInv'
    <3>1. files' = files /\ readers' = readers /\ writing' = {}
          /\ (disk' = disk \/ disk' = Appended(w, 1))
      BY <2>3 DEF WriteFails, WriteToClosed
    <3>2. CASE disk' = disk
      <4>1. \A id : PartsOf(id)' = PartsOf(id) /\ Written(id)' = 0
        BY <3>1, <3>2 DEF PartsOf, Written
      <4> QED
        BY <1>2, <3>1, <4>1, QuietGrows
    <3>3. CASE disk' = Appended(w, 1)
      <4>1. DOMAIN disk' = DOMAIN disk /\ \A id \in DOMAIN disk : id # w.id => disk'[id] = disk[id]
        BY <3>3, AppendedParts
      <4>2. Grows(w.id)
        BY <3>1, <3>3, FragmentTorn DEF Grows, Reloaded
      <4> QED
        BY <1>2, <1>3, <3>1, <4>1, <4>2
    <3> QED
      BY <3>1, <3>2, <3>3
  <2> QED
    BY <1>4, <2>1, <2>2, <2>3 DEF Write
<1>5. ASSUME disk' = disk, writing' = writing
      PROVE  \A id : /\ PartsOf(id)' = PartsOf(id) /\ Written(id)' = Written(id)
                     /\ \A n : Clean(id, n)' <=> Clean(id, n)
  BY <1>5 DEF PartsOf, Written, Clean
<1>6. ASSUME NEW r \in Readers, Read(r) PROVE ReadInv'
  <2>1. UNCHANGED <<disk, files, writing>> /\ \A u \in Readers : u # r => readers'[u] = readers[u]
    BY <1>6 DEF Read, Lookup, LockFile, ReadBlock, Deliver, TypeInv, Typed
  <2> SUFFICES ASSUME NEW u \in Readers, NEW R \in Calls, NEW n \in Nat,
                      readers'[u] = R, R.live, Clean(R.id, n)', Reloaded(R.id)' <= 1
               PROVE  CallExact(R, n)'
    BY DEF ReadInv
  <2>2. Clean(R.id, n) /\ Reloaded(R.id) <= 1
    BY <1>5, <2>1 DEF Reloaded
  <2>3. CallExact(R, n)
    <3>1. CASE u = r
      BY <1>6, <2>2, <3>1, OwnCall
    <3>2. CASE u # r
      BY <2>1, <2>2, <3>2 DEF ReadInv
    <3> QED
      BY <3>1, <3>2
  <2> QED
    BY <2>1, <2>3 DEF CallExact, BlockPoints, Awaited, PartsOf, Reloaded
<1>7. CASE CleanupExpired
  <2>1. PICK gone \in SUBSET (Expired \cap DOMAIN disk) :
          /\ DOMAIN disk' = DOMAIN disk \ gone /\ \A id \in DOMAIN disk' : disk'[id] = disk[id]
          /\ DOMAIN files' = DOMAIN files \ gone
          /\ \A id \in DOMAIN files' : SameBut(files[id], files'[id])
          /\ readers' = Detached(gone) /\ writing' = writing
    BY <1>7, RemoveEffect
  <2>2. ASSUME NEW r \in Readers, NEW R \in Calls, readers'[r] = R, R.live
        PROVE  readers[r] = R /\ Grows(R.id)
    <3>1. readers[r] = R /\ R.id \notin gone
      BY <2>1, <2>2, DetachedType
    <3>2. PartsOf(R.id)' = PartsOf(R.id) /\ Written(R.id)' = Written(R.id)
      BY <2>1, <3>1 DEF PartsOf, Written
    <3>3. files'[R.id].index = files[R.id].index
      BY <1>1, <2>1, <2>2, <3>1 DEF SameBut
    <3> QED
      BY <3>1, <3>2, <3>3, QuietGrows
  <2> QED
    BY <2>2, CallsKept
<1>8. CASE Close
  <2>1. UNCHANGED <<disk, writing, readers>> /\ \A id \in DOMAIN files : SameBut(files[id], files'[id])
    BY <1>8, CloseEffect
  <2> QED
    BY <1>2, <1>5, <2>1, QuietGrows DEF SameBut
<1>9. CASE Restart
  <2>1. \A r \in Readers : ~readers'[r].live
    BY <1>9 DEF Restart, Idle
  <2> QED
    BY <2>1 DEF ReadInv
<1>10. CASE Tick \/ UNCHANGED vars
  <2>1. UNCHANGED <<disk, files, writing, readers>>
    BY <1>10 DEF Tick, vars, warm
  <2> QED
    BY <1>2, <1>5, <2>1, QuietGrows
<1> QED
  BY <1>4, <1>6, <1>7, <1>8, <1>9, <1>10 DEF Next

\* A read never fails on a healthy file that is there, whatever is appended,
\* removed or closed while it reads block after block, and it returns all the
\* points of the blocks that start in its range, and only points of the file.
THEOREM ReadsAlwaysExact == Spec => []ReadsExact
<1>1. Init => TypeInv /\ IndexInv /\ ReadInv
  BY TypeInit, IndexInit, ReadInit
<1>2. (TypeInv /\ IndexInv /\ ReadInv) /\ [Next]_vars => (TypeInv /\ IndexInv /\ ReadInv)'
  BY TypeStep, IndexStep, ReadStep
<1>3. TypeInv /\ IndexInv /\ ReadInv => ReadsExact
  <2> SUFFICES ASSUME TypeInv, IndexInv, ReadInv, NEW r \in Readers,
                      readers[r].live, Healthy(readers[r].id)
               PROVE  LET R == readers[r] IN
                      /\ R.pc # "failed"
                      /\ Answered(r) =>
                          /\ R.want \subseteq R.got
                          /\ R.got \subseteq InRange(UNION {Points(b) : b \in BlocksOf(disk[R.id].parts)},
                                                     R.from, R.to)
    BY DEF ReadsExact
  <2> DEFINE R == readers[r]  parts == disk[R.id].parts  n == WholeBlocks(parts)
  <2>1. R \in Calls
    BY DEF TypeInv, Typed, Idle
  <2>2. R.id \in DOMAIN disk /\ Intact(parts) /\ Reloaded(R.id) <= 1
    BY DEF Healthy
  <2>3. n \in Nat /\ Clean(R.id, n)
    BY <2>2, IntactClean
  <2>4. CallExact(R, n)
    BY <2>1, <2>2, <2>3 DEF ReadInv
  <2>5. PartsOf(R.id) = parts /\ Whole(parts) = 1 .. n
    <3>1. PartsOf(R.id) = parts /\ parts \in Seq(FileParts)
      BY <2>2, PartsType DEF PartsOf
    <3> QED
      BY <2>2, <3>1, IntactBlocks
  <2> HIDE DEF n
  <2>6. BlockPoints(R.id, 1 .. n) = UNION {Points(b) : b \in BlocksOf(parts)}
    BY <2>5 DEF BlockPoints, BlocksOf
  <2>7. ASSUME R.todo = {} PROVE BlockPoints(R.id, Awaited(R.id, n, R.todo)) = {}
    BY <2>7 DEF BlockPoints, Awaited
  <2>8. InRange({}, R.from, R.to) = {}
    BY DEF InRange
  <2> QED
    BY <2>4, <2>6, <2>7, <2>8 DEF CallExact, Answered
<1> QED
  BY <1>1, <1>2, <1>3, PTL DEF Spec

-----------------------------------------------------------------------------
(* Until the process is restarted, what holds of healthy files holds of the *)
(* whole blocks of all files, whatever follows them.                        *)

WholeIndexed(id) ==
    /\ \A e \in files[id].index : e.fresh
    /\ \A i \in Whole(PartsOf(id)) : EntryOf(PartsOf(id), i, TRUE) \in files[id].index

\* The whole blocks that are still to be read, and those that start in a range.
Pending(id, todo) == {i \in Whole(PartsOf(id)) : EntryOf(PartsOf(id), i, TRUE) \in todo}
Started(id, from) == {i \in Whole(PartsOf(id)) : from <= PartsOf(id)[3 * i].block[1].ts}

CallWhole(R) ==
    R.pc = "reading" =>
        /\ R.want \subseteq R.got \cup InRange(BlockPoints(R.id, Pending(R.id, R.todo)), R.from, R.to)
        /\ R.want \subseteq InRange(BlockPoints(R.id, Started(R.id, R.from)), R.from, R.to)

FirstLife ==
    /\ restarts \in Nat
    /\ restarts = 0 =>
          /\ DOMAIN disk \subseteq DOMAIN files
          /\ \A id \in DOMAIN files : WholeIndexed(id)
          /\ \A r \in Readers : readers[r].live => CallWhole(readers[r])

\* A step after which the whole blocks are still there, and their entries.
Longer(id) ==
    /\ files[id].index \subseteq files'[id].index
    /\ \A i \in Whole(PartsOf(id)) : /\ i \in Whole(PartsOf(id)')
                                     /\ PartsOf(id)'[3 * i] = PartsOf(id)[3 * i]
                                     /\ PartsOf(id)'[3 * i - 2] = PartsOf(id)[3 * i - 2]

LEMMA LongerEntry ==
    ASSUME NEW id, Longer(id), NEW i \in Whole(PartsOf(id))
    PROVE  EntryOf(PartsOf(id), i, TRUE)' = EntryOf(PartsOf(id), i, TRUE)
<1>1. PartsOf(id)'[3 * i] = PartsOf(id)[3 * i] /\ PartsOf(id)'[3 * i - 2] = PartsOf(id)[3 * i - 2]
  BY DEF Longer
<1> QED
  BY <1>1, Zenon DEF EntryOf

LEMMA LongerCall ==
    ASSUME NEW R, CallWhole(R), Longer(R.id)
    PROVE  CallWhole(R)'
<1> DEFINE id == R.id
<1>1. ASSUME NEW I, NEW J, I \subseteq J, I \subseteq Whole(PartsOf(id))
      PROVE  BlockPoints(id, I) \subseteq UNION {Points(PartsOf(id)'[3 * i].block) : i \in J}
  BY <1>1 DEF BlockPoints, Longer
<1>2. /\ Pending(id, R.todo) \subseteq Pending(id, R.todo)'
      /\ Pending(id, R.todo) \subseteq Whole(PartsOf(id))
  BY LongerEntry, Zenon DEF Pending, Longer
<1>3. /\ Started(id, R.from) \subseteq Started(id, R.from)'
      /\ Started(id, R.from) \subseteq Whole(PartsOf(id))
  BY DEF Started, Longer
<1>4. /\ BlockPoints(id, Pending(id, R.todo)) \subseteq BlockPoints(id, Pending(id, R.todo))'
      /\ BlockPoints(id, Started(id, R.from)) \subseteq BlockPoints(id, Started(id, R.from))'
  BY <1>1, <1>2, <1>3 DEF BlockPoints
<1> QED
  BY <1>4 DEF CallWhole, InRange

LEMMA WholeKept ==
    ASSUME NEW parts \in Seq(FileParts), NEW p \in FileParts, NEW q, q = Append(parts, p),
           NEW i \in Whole(parts)
    PROVE  i \in Whole(q) /\ q[3 * i] = parts[3 * i] /\ q[3 * i - 2] = parts[3 * i - 2]
<1>1. /\ Len(q) = Len(parts) + 1 /\ Len(parts) \in Nat
      /\ \A k \in 1 .. Len(parts) : q[k] = parts[k]
      /\ DOMAIN parts = 1 .. Len(parts) /\ DOMAIN q = 1 .. Len(parts) + 1
  OBVIOUS
<1>2. i \in Nat \ {0} /\ 3 * i <= Len(parts) /\ \A j \in 1 .. i : WholeBlock(parts, j)
  BY WholeType DEF Whole
<1>3. ASSUME NEW j \in 1 .. i PROVE WholeBlock(q, j)
  <2>1. j \in Nat \ {0} /\ 3 * j <= Len(parts) /\ WholeBlock(parts, j)
    BY <1>1, <1>2
  <2> QED
    BY <2>1, WholeAppend
<1>4. i \in DOMAIN q /\ 3 * i \in 1 .. Len(parts) /\ 3 * i - 2 \in 1 .. Len(parts)
  BY <1>1, <1>2
<1> QED
  BY <1>1, <1>3, <1>4 DEF Whole

\* One more part leaves the whole blocks whole, and completes one at most.
LEMMA WholeGrows ==
    ASSUME NEW parts \in Seq(FileParts), NEW p \in FileParts
    PROVE  /\ \A i \in Whole(parts) : /\ i \in Whole(Append(parts, p))
                                      /\ Append(parts, p)[3 * i] = parts[3 * i]
                                      /\ Append(parts, p)[3 * i - 2] = parts[3 * i - 2]
           /\ \A i \in Whole(Append(parts, p)) \ Whole(parts) :
                 /\ i \in Nat \ {0} /\ 3 * i = Len(parts) + 1 /\ Append(parts, p)[3 * i] = p
                 /\ WholeBlock(Append(parts, p), i)
                 /\ \A j \in 1 .. i - 1 : WholeBlock(parts, j)
<1> DEFINE q == Append(parts, p)
<1>1. /\ q \in Seq(FileParts) /\ Len(q) = Len(parts) + 1 /\ Len(parts) \in Nat /\ q[Len(parts) + 1] = p
      /\ \A k \in 1 .. Len(parts) : q[k] = parts[k]
      /\ DOMAIN parts = 1 .. Len(parts) /\ DOMAIN q = 1 .. Len(parts) + 1
  OBVIOUS
<1>2. \A i \in Nat \ {0} : 3 * i <= Len(parts) => (WholeBlock(q, i) <=> WholeBlock(parts, i))
  BY WholeAppend
<1> HIDE DEF q
<1>3. ASSUME NEW i \in Whole(parts)
      PROVE  i \in Whole(q) /\ q[3 * i] = parts[3 * i] /\ q[3 * i - 2] = parts[3 * i - 2]
  BY WholeKept DEF q
<1>4. ASSUME NEW i \in Whole(q) \ Whole(parts)
      PROVE  /\ i \in Nat \ {0} /\ 3 * i = Len(parts) + 1 /\ q[3 * i] = p /\ WholeBlock(q, i)
             /\ \A j \in 1 .. i - 1 : WholeBlock(parts, j)
  <2>1. i \in Nat \ {0} /\ 3 * i <= Len(q)
    BY <1>1, WholeType
  <2>2. \A j \in 1 .. i : WholeBlock(q, j)
    BY DEF Whole
  <2>3. 3 * i = Len(parts) + 1
    <3> SUFFICES ASSUME 3 * i <= Len(parts) PROVE FALSE
      BY <1>1, <2>1
    <3>1. ASSUME NEW j \in 1 .. i PROVE WholeBlock(parts, j)
      <4>1. j \in Nat \ {0} /\ 3 * j <= Len(parts)
        BY <1>1, <2>1
      <4> QED
        BY <1>2, <2>2, <4>1
    <3>2. i \in DOMAIN parts
      BY <1>1, <2>1
    <3> QED
      BY <3>1, <3>2 DEF Whole
  <2>4. ASSUME NEW j \in 1 .. i - 1 PROVE WholeBlock(parts, j)
    <3>1. j \in Nat \ {0} /\ 3 * j <= Len(parts) /\ j \in 1 .. i
      BY <1>1, <2>1, <2>3
    <3> QED
      BY <1>2, <2>2, <3>1
  <2>5. i \in 1 .. i /\ q[3 * i] = p
    BY <1>1, <2>1, <2>3
  <2> QED
    BY <2>1, <2>2, <2>3, <2>4, <2>5
<1> QED
  BY <1>3, <1>4 DEF q

\* What an append does to the whole blocks of the files.
LEMMA AppendedWhole ==
    ASSUME TypeInv, NEW w \in writing, NEW size \in Nat \ {0}, disk' = Appended(w, size),
           files[w.id].index \subseteq files'[w.id].index,
           \A id \in DOMAIN files : id # w.id => files'[id] = files[id]
    PROVE  /\ \A id \in DOMAIN files : Longer(id)
           /\ \A id \in DOMAIN files : id # w.id => PartsOf(id)' = PartsOf(id)
           /\ PartsOf(w.id)' = Append(PartsOf(w.id), NewPart(w, size))
           /\ PartsOf(w.id) \in Seq(FileParts) /\ NewPart(w, size) \in FileParts
           /\ DOMAIN disk' = DOMAIN disk
<1> DEFINE p == NewPart(w, size)
<1>1. /\ DOMAIN disk' = DOMAIN disk /\ w.id \in DOMAIN disk /\ p \in FileParts
      /\ disk'[w.id].parts = Append(disk[w.id].parts, p)
      /\ \A id \in DOMAIN disk : id # w.id => disk'[id] = disk[id]
  BY AppendedParts
<1> HIDE DEF p
<1>2. PartsOf(w.id)' = Append(PartsOf(w.id), p) /\ PartsOf(w.id) \in Seq(FileParts)
  BY <1>1, PartsType DEF PartsOf
<1>3. \A id : id # w.id => PartsOf(id)' = PartsOf(id)
  BY <1>1 DEF PartsOf
<1>4. Longer(w.id)
  <2>1. \A i \in Whole(PartsOf(w.id)) :
           /\ i \in Whole(Append(PartsOf(w.id), p))
           /\ Append(PartsOf(w.id), p)[3 * i] = PartsOf(w.id)[3 * i]
           /\ Append(PartsOf(w.id), p)[3 * i - 2] = PartsOf(w.id)[3 * i - 2]
    BY <1>1, <1>2, WholeGrows
  <2> QED
    BY <1>2, <2>1 DEF Longer
<1>5. ASSUME NEW id \in DOMAIN files, id # w.id PROVE Longer(id)
  BY <1>3, <1>5 DEF Longer
<1> QED
  BY <1>1, <1>2, <1>3, <1>4, <1>5 DEF p

\* A step after which a file is as well indexed as it was.
StaysIndexed(id) ==
    /\ Longer(id)
    /\ \A e \in files'[id].index \ files[id].index : e.fresh
    /\ \A i \in Whole(PartsOf(id)') \ Whole(PartsOf(id)) : EntryOf(PartsOf(id), i, TRUE)' \in files'[id].index

LEMMA SameIndexed ==
    ASSUME NEW id, PartsOf(id)' = PartsOf(id), files'[id].index = files[id].index
    PROVE  StaysIndexed(id)
BY DEF StaysIndexed, Longer

LEMMA FirstFiles ==
    ASSUME FirstLife, restarts' = restarts, restarts = 0, DOMAIN disk' \subseteq DOMAIN files',
           \A id \in DOMAIN files' :
              \/ id \in DOMAIN files /\ StaysIndexed(id)
              \/ files'[id].index = {} /\ PartsOf(id)' = <<>>
    PROVE  \A id \in DOMAIN files' : WholeIndexed(id)'
<1> SUFFICES ASSUME NEW id \in DOMAIN files' PROVE WholeIndexed(id)'
  OBVIOUS
<1>1. CASE id \in DOMAIN files /\ StaysIndexed(id)
  <2>1. WholeIndexed(id)
    BY <1>1 DEF FirstLife
  <2>2. \A e \in files'[id].index : e.fresh
    BY <1>1, <2>1 DEF WholeIndexed, StaysIndexed
  <2>3. ASSUME NEW i \in Whole(PartsOf(id)') PROVE EntryOf(PartsOf(id), i, TRUE)' \in files'[id].index
    <3>1. CASE i \in Whole(PartsOf(id))
      <4>1. EntryOf(PartsOf(id), i, TRUE) \in files[id].index
        BY <2>1, <3>1 DEF WholeIndexed
      <4>2. EntryOf(PartsOf(id), i, TRUE)' = EntryOf(PartsOf(id), i, TRUE)
        BY <1>1, <3>1, LongerEntry DEF StaysIndexed
      <4>3. files[id].index \subseteq files'[id].index
        BY <1>1 DEF StaysIndexed, Longer
      <4> QED
        BY <4>1, <4>2, <4>3
    <3>2. CASE i \notin Whole(PartsOf(id))
      BY <1>1, <3>2, Zenon DEF StaysIndexed
    <3> QED
      BY <3>1, <3>2
  <2>4. \A i \in Whole(PartsOf(id)') : EntryOf(PartsOf(id)', i, TRUE) \in files'[id].index
    BY <2>3
  <2> QED
    BY <2>2, <2>4 DEF WholeIndexed
<1>2. CASE files'[id].index = {} /\ PartsOf(id)' = <<>>
  <2>1. Whole(<<>>) = {}
    BY DEF Whole
  <2> QED
    BY <1>2, <2>1 DEF WholeIndexed
<1> QED
  BY <1>1, <1>2

\* Files may be registered, may grow and may go, and reads go on as they were.
LEMMA FirstKept ==
    ASSUME TypeInv', FirstLife, restarts' = restarts,
           restarts = 0 => DOMAIN disk' \subseteq DOMAIN files',
           restarts = 0 =>
              \A id \in DOMAIN files' :
                 \/ id \in DOMAIN files /\ StaysIndexed(id)
                 \/ /\ id \notin DOMAIN files /\ files'[id].index = {} /\ PartsOf(id)' = <<>>
                    /\ \A r \in Readers : readers'[r].live => readers'[r].id # id,
           \A r \in Readers : readers'[r].live => readers'[r] = readers[r]
    PROVE  FirstLife'
<1> SUFFICES ASSUME restarts = 0
             PROVE  /\ DOMAIN disk' \subseteq DOMAIN files' /\ \A id \in DOMAIN files' : WholeIndexed(id)'
                    /\ \A r \in Readers : readers'[r].live => CallWhole(readers[r])'
  BY DEF FirstLife
<1>1. \A id \in DOMAIN files' : WholeIndexed(id)'
  BY FirstFiles
<1>2. ASSUME NEW r \in Readers, readers'[r].live PROVE CallWhole(readers[r])'
  <2> DEFINE R == readers[r]
  <2>1. R' = R /\ R.live /\ R.id \in DOMAIN files'
    BY <1>2 DEF TypeInv, TypeOK
  <2>2. Longer(R.id)
    BY <1>2, <2>1 DEF StaysIndexed
  <2>3. CallWhole(R)
    BY <2>1 DEF FirstLife
  <2>4. PICK S : S = R
    OBVIOUS
  <2>5. CallWhole(S)'
    BY <2>2, <2>3, <2>4, LongerCall
  <2> QED
    BY <2>1, <2>4, <2>5
<1> QED
  BY <1>1, <1>2

\* A part that is not the data of a block completes none.
LEMMA NoNewWhole ==
    ASSUME NEW parts \in Seq(FileParts), NEW p \in FileParts,
           p.kind # "data" \/ p.size # DataSize(p.block)
    PROVE  Whole(Append(parts, p)) \subseteq Whole(parts)
<1> SUFFICES ASSUME NEW i \in Whole(Append(parts, p)) \ Whole(parts) PROVE FALSE
  OBVIOUS
<1>1. Append(parts, p)[3 * i] = p /\ WholeBlock(Append(parts, p), i)
  BY WholeGrows
<1>2. WholePart(p, "data", p.block)
  BY <1>1, Zenon DEF WholeBlock
<1> QED
  BY <1>2, PartSizes DEF WholePart, FileParts, Kinds

LEMMA FirstPart ==
    ASSUME TypeInv, TypeInv', FirstLife, NEW w \in writing, NEW size \in Nat \ {0},
           disk' = Appended(w, size), UNCHANGED <<files, readers, restarts>>,
           w.next # "data" \/ size # DataSize(w.block)
    PROVE  FirstLife'
<1> DEFINE p == NewPart(w, size)
<1>1. /\ \A id \in DOMAIN files : Longer(id)
      /\ \A id \in DOMAIN files : id # w.id => PartsOf(id)' = PartsOf(id)
      /\ PartsOf(w.id)' = Append(PartsOf(w.id), p)
      /\ PartsOf(w.id) \in Seq(FileParts) /\ p \in FileParts /\ DOMAIN disk' = DOMAIN disk
  BY AppendedWhole
<1>2. p.kind # "data" \/ p.size # DataSize(p.block)
  BY DEF NewPart
<1> HIDE DEF p
<1>3. Whole(PartsOf(w.id)') \subseteq Whole(PartsOf(w.id))
  BY <1>1, <1>2, NoNewWhole
<1>4. ASSUME NEW id \in DOMAIN files PROVE StaysIndexed(id)
  <2>1. CASE id = w.id
    BY <1>1, <1>3, <2>1 DEF StaysIndexed
  <2>2. CASE id # w.id
    BY <1>1, <2>2, SameIndexed
  <2> QED
    BY <2>1, <2>2
<1> QED
  BY <1>1, <1>4, FirstKept DEF FirstLife

\* The data completes a block of a file that holds nothing torn, so that the
\* entry written with it is where the block is.
LEMMA FirstData ==
    ASSUME TypeInv, TypeInv', IndexInv, FirstLife, NEW w \in writing, WriteData(w), restarts = 0
    PROVE  StaysIndexed(w.id)
<1> DEFINE id == w.id  parts == PartsOf(w.id)  size == DataSize(w.block)  p == NewPart(w, size)
           q == Append(parts, p)  x == NewEntry(w)
<1>1. w.block \in Blocks /\ id \in DOMAIN files /\ id \in DOMAIN disk /\ w.id \in SeriesIds
  BY WriterType
<1>2. size \in Nat \ {0}
  BY <1>1, BlockType
<1>3. disk' = Appended(w, size) /\ w.next = "data" /\ writing' = {}
  BY DEF WriteData
<1>4. /\ files' = [files EXCEPT ![id] = NewWarmFile(w)]
      /\ NewWarmFile(w).index = files[w.id].index \cup {x}
  BY WrittenFile
<1>5. files'[id].index = files[id].index \cup {x} /\ \A j \in DOMAIN files : j # id => files'[j] = files[j]
  BY <1>1, <1>4 DEF TypeInv, Typed
<1>6. x = [ts |-> w.block[1].ts, off |-> files[id].size, len |-> size, fresh |-> TRUE]
  BY DEF NewEntry
<1>7. p.block = w.block
  BY DEF NewPart
<1> HIDE DEF size, x
<1>8. Longer(id) /\ PartsOf(id)' = q /\ parts \in Seq(FileParts) /\ p \in FileParts
  BY <1>1, <1>2, <1>3, <1>5, AppendedWhole
<1> HIDE DEF p
<1>9. Len(parts) \in Nat /\ Laid(parts) /\ \A k \in 1 .. Len(parts) : q[k] = parts[k]
  BY <1>1, <1>8 DEF IndexInv
<1> HIDE DEF q
<1>10. ASSUME NEW i \in Whole(q) \ Whole(parts) PROVE EntryOf(q, i, TRUE) = x
  <2>1. /\ i \in Nat \ {0} /\ 3 * i = Len(parts) + 1 /\ q[3 * i] = p
        /\ \A j \in 1 .. i - 1 : WholeBlock(parts, j)
    BY <1>8, WholeGrows DEF q
  <2> DEFINE n == i - 1
  <2>2. n \in Nat /\ Len(parts) = 3 * n + 2 /\ 3 * i - 2 = 3 * n + 1
    BY <1>9, <2>1
  <2>3. Written(id) = 2
    BY <1>3, WrittenValue
  <2>4. Clean(id, n)
    BY <2>1, <2>2, <2>3 DEF Clean
  <2> HIDE DEF n
  <2>5. Reloaded(id) = 0
    <3>1. {e \in files[id].index : ~e.fresh} = {}
      BY <1>1 DEF FirstLife, WholeIndexed
    <3> QED
      BY <3>1, FS_EmptySet DEF Reloaded
  <2>6. files[id].size = EndOf(parts, n)
    BY <1>1, <2>2, <2>4, <2>5 DEF IndexInv, Known
  <2>7. parts[3 * n + 1].at = EndOf(parts, n)
    BY <1>8, <1>9, <2>2, NextBlock
  <2>8. q[3 * i - 2] = parts[3 * n + 1]
    BY <1>9, <2>2
  <2> QED
    BY <1>6, <1>7, <2>1, <2>6, <2>7, <2>8 DEF EntryOf, size
<1>11. \A i \in Whole(PartsOf(id)') \ Whole(PartsOf(id)) : EntryOf(PartsOf(id), i, TRUE)' \in files'[id].index
  <2>1. \A i \in Whole(q) \ Whole(parts) : EntryOf(PartsOf(id)', i, TRUE) \in files'[id].index
    BY <1>5, <1>8, <1>10
  <2> QED
    BY <1>8, <2>1
<1>12. \A e \in files'[id].index \ files[id].index : e.fresh
  BY <1>5, <1>6
<1> QED
  BY <1>8, <1>11, <1>12 DEF StaysIndexed

\* What a read wants when it takes the lock: all of it is among the blocks that
\* start in the range, and these are what is left to read.
LEMMA FirstWant ==
    ASSUME TypeInv, NEW id \in DOMAIN disk, WholeIndexed(id), NEW from \in Nat, NEW to \in Nat
    PROVE  /\ Expected(id, from, to) = InRange(BlockPoints(id, Started(id, from)), from, to)
           /\ Expected(id, from, to)
                \subseteq InRange(BlockPoints(id, Pending(id, Relevant(files[id].index, from, to))), from, to)
<1> DEFINE parts == PartsOf(id)  B(i) == parts[3 * i].block  E(i) == EntryOf(parts, i, TRUE)
           todo == Relevant(files[id].index, from, to)
           Start(i) == LET t == B(i)[1].ts IN IF i <= Reloaded(id) THEN Millis(t) ELSE t
<1>1. parts = disk[id].parts /\ parts \in Seq(FileParts)
  BY PartsType DEF PartsOf
<1>2. Reloaded(id) = 0
  <2>1. {e \in files[id].index : ~e.fresh} = {}
    BY DEF WholeIndexed
  <2> QED
    BY <2>1, FS_EmptySet DEF Reloaded
<1>3. ASSUME NEW i \in Whole(parts) PROVE i \in Nat \ {0} /\ B(i) \in Blocks /\ E(i) \in files[id].index
  BY <1>1, <1>3, WholeType DEF WholeIndexed
<1>4. Expected(id, from, to)
        = InRange(UNION {Points(B(i)) : i \in {j \in Whole(parts) : from <= Start(j)}}, from, to)
  BY <1>1 DEF Expected
<1>5. ASSUME NEW i \in Whole(parts) PROVE Start(i) = B(i)[1].ts
  <2>1. ~(i <= Reloaded(id))
    <3>1. i \in Nat \ {0}
      BY <1>3
    <3> QED
      BY <1>2, <3>1
  <2> QED
    BY <2>1, Zenon
<1>6. {j \in Whole(parts) : from <= Start(j)} = Started(id, from)
  BY <1>5 DEF Started
<1> HIDE DEF Start
<1>7. Expected(id, from, to) = InRange(BlockPoints(id, Started(id, from)), from, to)
  BY <1>4, <1>6 DEF BlockPoints
<1>8. ASSUME NEW i \in Started(id, from), NEW p \in Points(B(i)), from <= p.ts, p.ts <= to
      PROVE  i \in Pending(id, todo)
  <2>1. i \in Whole(parts) /\ from <= B(i)[1].ts
    BY DEF Started
  <2>2. B(i)[1].ts \in Nat /\ p.ts \in Nat /\ B(i)[1].ts <= p.ts
    BY <1>3, <2>1, BlockType
  <2>3. E(i).ts = B(i)[1].ts
    BY DEF EntryOf
  <2> HIDE DEF E
  <2>4. E(i).ts <= to
    <3>1. B(i)[1].ts <= to
      BY <1>8, <2>2
    <3> QED
      BY <2>3, <3>1, Zenon
  <2>5. E(i) \in todo
    BY <1>3, <2>1, <2>3, <2>4 DEF Relevant
  <2> HIDE DEF todo
  <2> QED
    BY <2>1, <2>5 DEF Pending, E
<1> HIDE DEF todo
<1>9. InRange(BlockPoints(id, Started(id, from)), from, to)
        \subseteq InRange(BlockPoints(id, Pending(id, todo)), from, to)
  <2> SUFFICES ASSUME NEW p \in InRange(BlockPoints(id, Started(id, from)), from, to)
               PROVE  p \in InRange(BlockPoints(id, Pending(id, todo)), from, to)
    OBVIOUS
  <2>1. PICK i \in Started(id, from) : p \in Points(B(i))
    BY DEF InRange, BlockPoints
  <2>2. from <= p.ts /\ p.ts <= to
    BY DEF InRange
  <2>3. i \in Pending(id, todo)
    BY <1>8, <2>1, <2>2
  <2> QED
    BY <2>1, <2>2, <2>3 DEF InRange, BlockPoints
<1> QED
  BY <1>7, <1>9 DEF todo

LEMMA FirstRead ==
    ASSUME TypeInv, TypeInv', IndexInv, FirstLife, NEW r \in Readers, Read(r), restarts = 0,
           NEW S \in Calls, readers'[r] = S, S.live
    PROVE  CallWhole(S)
<1>1. readers \in [Readers -> {Idle} \cup Calls]
  BY DEF TypeInv, Typed
<1>2. ASSUME NEW id \in SeriesIds, NEW range \in Ranges, Lookup(r, id, range[1], range[2])
      PROVE  CallWhole(S)
  <2>1. S = [pc |-> "found", live |-> TRUE, id |-> id, from |-> range[1], to |-> range[2],
             todo |-> {}, got |-> {}, want |-> {}]
    BY <1>1, <1>2 DEF Lookup
  <2>2. S.pc = "found"
    BY <2>1
  <2> QED
    BY <2>2 DEF CallWhole
<1> DEFINE R == readers[r]
<1>3. CASE LockFile(r)
  <2> DEFINE todo == IF R.live THEN Relevant(files[R.id].index, R.from, R.to) ELSE R.todo
             want == IF R.live /\ R.id \in DOMAIN disk THEN Expected(R.id, R.from, R.to) ELSE {}
  <2>1. R \in Calls
    BY <1>3, CallType DEF LockFile
  <2>2. S = [R EXCEPT !.pc = "reading", !.todo = todo, !.want = want]
    BY <1>1, <1>3 DEF LockFile
  <2> HIDE DEF todo, want
  <2>3. S.todo = todo /\ S.want = want /\ S.live = R.live /\ S.id = R.id /\ S.from = R.from /\ S.to = R.to
    <3>1. DOMAIN R = {"pc", "live", "id", "from", "to", "todo", "got", "want"}
      BY <2>1 DEF Calls
    <3> QED
      BY <2>2, <3>1
  <2>4. R.live /\ R.id \in DOMAIN files /\ S.from \in Nat /\ S.to \in Nat
    BY <2>3 DEF TypeInv, TypeOK, Calls
  <2>5. CASE R.id \in DOMAIN disk
    <3>1. WholeIndexed(R.id)
      BY <2>4 DEF FirstLife
    <3>2. /\ want = Expected(S.id, S.from, S.to)
          /\ todo = Relevant(files[S.id].index, S.from, S.to)
      BY <2>3, <2>4, <2>5 DEF want, todo
    <3>3. /\ want = InRange(BlockPoints(S.id, Started(S.id, S.from)), S.from, S.to)
          /\ want \subseteq InRange(BlockPoints(S.id, Pending(S.id, todo)), S.from, S.to)
      BY <2>3, <2>4, <2>5, <3>1, <3>2, FirstWant
    <3> QED
      BY <2>3, <3>3 DEF CallWhole
  <2>6. CASE R.id \notin DOMAIN disk
    <3>1. want = {}
      BY <2>6 DEF want
    <3> QED
      BY <2>3, <3>1 DEF CallWhole
  <2> QED
    BY <2>5, <2>6
<1>4. CASE ReadBlock(r)
  <2> DEFINE id == R.id  parts == PartsOf(id)  B(i) == parts[3 * i].block
             E(i) == EntryOf(parts, i, TRUE)
             found(e) == IF R.id \in DOMAIN disk
                         THEN BlocksAt(disk[R.id].parts, e.off + HeaderSize, e.len) ELSE {}
             got(e) == R.got \cup InRange(UNION {Points(b) : b \in found(e)}, R.from, R.to)
  <2>1. R \in Calls /\ R.pc = "reading"
    BY <1>4, CallType DEF ReadBlock, Reading
  <2>2. PICK e \in R.todo : S = IF found(e) = {} THEN [R EXCEPT !.pc = "failed", !.todo = {}]
                                ELSE [R EXCEPT !.todo = R.todo \ {e}, !.got = got(e)]
    BY <1>1, <1>4 DEF ReadBlock
  <2>3. CASE found(e) = {}
    <3> HIDE DEF found, got
    <3>1. S.pc = "failed"
      BY <2>1, <2>2, <2>3 DEF Calls
    <3> QED
      BY <3>1 DEF CallWhole
  <2>4. CASE found(e) # {}
    <3>1. /\ S.live = R.live /\ S.id = R.id /\ S.from = R.from /\ S.to = R.to /\ S.want = R.want
          /\ S.todo = R.todo \ {e} /\ S.got = got(e)
      <4> HIDE DEF found, got
      <4> QED
        BY <2>1, <2>2, <2>4 DEF Calls
    <3>2. CallWhole(R) /\ R.id \in DOMAIN files /\ R.id \in SeriesIds
      BY <3>1 DEF FirstLife, TypeInv, TypeOK
    <3>3. /\ R.want \subseteq R.got \cup InRange(BlockPoints(id, Pending(id, R.todo)), R.from, R.to)
          /\ R.want \subseteq InRange(BlockPoints(id, Started(id, R.from)), R.from, R.to)
      BY <2>1, <3>2 DEF CallWhole
    <3>4. parts \in Seq(FileParts) /\ Laid(parts)
      BY <3>2, PartsType DEF IndexInv
    <3>5. ASSUME NEW i \in Whole(parts), E(i) = e PROVE Points(B(i)) \subseteq UNION {Points(b) : b \in found(e)}
      <4>1. i \in Nat \ {0} /\ WholeBlock(parts, i) /\ i \in DOMAIN parts
        BY <3>4, WholeType DEF Whole
      <4>2. R.id \in DOMAIN disk /\ parts = disk[R.id].parts
        BY <4>1 DEF PartsOf
      <4>3. e.off = parts[3 * i - 2].at /\ e.len = DataSize(B(i))
        BY <3>5, Zenon DEF EntryOf
      <4>4. BlocksAt(parts, parts[3 * i - 2].at + HeaderSize, DataSize(B(i))) = {B(i)}
        BY <3>4, <4>1, BlockAt
      <4>5. found(e) = {B(i)}
        BY <4>2, <4>3, <4>4
      <4> QED
        BY <4>5
    <3> HIDE DEF E, found
    <3>6. ASSUME NEW i \in Pending(id, R.todo), NEW p \in Points(B(i)), R.from <= p.ts, p.ts <= R.to
          PROVE  p \in got(e) \cup InRange(BlockPoints(id, Pending(id, R.todo \ {e})), R.from, R.to)
      <4>1. i \in Whole(parts) /\ E(i) \in R.todo
        BY DEF Pending, E
      <4>2. CASE E(i) = e
        <5>1. p \in UNION {Points(b) : b \in found(e)}
          BY <3>5, <4>1, <4>2
        <5> QED
          BY <3>6, <5>1 DEF InRange
      <4>3. CASE E(i) # e
        <5>1. i \in Pending(id, R.todo \ {e})
          BY <4>1, <4>3 DEF Pending, E
        <5> QED
          BY <3>6, <5>1 DEF InRange, BlockPoints
      <4> QED
        BY <4>2, <4>3
    <3>7. InRange(BlockPoints(id, Pending(id, R.todo)), R.from, R.to)
            \subseteq got(e) \cup InRange(BlockPoints(id, Pending(id, R.todo \ {e})), R.from, R.to)
      <4> SUFFICES ASSUME NEW p \in InRange(BlockPoints(id, Pending(id, R.todo)), R.from, R.to)
                   PROVE  p \in got(e) \cup InRange(BlockPoints(id, Pending(id, R.todo \ {e})), R.from, R.to)
        OBVIOUS
      <4>1. PICK i \in Pending(id, R.todo) : p \in Points(B(i))
        BY DEF InRange, BlockPoints
      <4>2. R.from <= p.ts /\ p.ts <= R.to
        BY DEF InRange
      <4> QED
        BY <3>6, <4>1, <4>2
    <3>8. R.got \subseteq got(e)
      OBVIOUS
    <3> HIDE DEF got
    <3>9. R.want \subseteq got(e) \cup InRange(BlockPoints(id, Pending(id, R.todo \ {e})), R.from, R.to)
      BY <3>3, <3>7, <3>8
    <3> QED
      BY <3>1, <3>3, <3>9 DEF CallWhole
  <2> QED
    BY <2>3, <2>4
<1>5. ~Deliver(r)
  BY <1>1 DEF Deliver, Idle
<1> QED
  BY <1>2, <1>3, <1>4, <1>5 DEF Read

LEMMA FirstInit == Init => FirstLife
BY DEF Init, FirstLife, Idle

\* The steps of a write.
LEMMA FirstWrite ==
    ASSUME TypeInv, TypeInv', IndexInv, FirstLife, Write
    PROVE  FirstLife'
<1>1. ASSUME NEW id \in SeriesIds, OpenFails(id) \/ \E b \in Blocks : BeginWrite(id, b)
      PROVE  FirstLife'
  <2>1. /\ DOMAIN files' = DOMAIN files \cup {id} /\ DOMAIN disk' \subseteq DOMAIN disk \cup {id}
        /\ \A j \in DOMAIN files : SameFile(j)
        /\ id \notin DOMAIN files => files'[id].index = {}
        /\ \A j : PartsOf(j)' = PartsOf(j)
        /\ readers' = readers
    BY <1>1, RegisterEffect
  <2>2. restarts' = restarts
    BY <1>1 DEF OpenFails, BeginWrite, bounded
  <2>3. ASSUME restarts = 0, NEW j \in DOMAIN files'
        PROVE  \/ j \in DOMAIN files /\ StaysIndexed(j)
               \/ /\ j \notin DOMAIN files /\ files'[j].index = {} /\ PartsOf(j)' = <<>>
                  /\ \A r \in Readers : readers'[r].live => readers'[r].id # j
    <3>1. CASE j \in DOMAIN files
      <4>1. files'[j].index = files[j].index
        BY <2>1, <3>1 DEF SameFile
      <4> QED
        BY <2>1, <3>1, <4>1, SameIndexed
    <3>2. CASE j \notin DOMAIN files
      <4>1. j \notin DOMAIN disk
        BY <2>3, <3>2 DEF FirstLife
      <4>2. PartsOf(j)' = <<>>
        BY <2>1, <4>1 DEF PartsOf
      <4>3. \A r \in Readers : readers'[r].live => readers'[r].id # j
        BY <2>1, <3>2 DEF TypeInv, TypeOK
      <4> QED
        BY <2>1, <2>3, <3>2, <4>2, <4>3
    <3> QED
      BY <3>1, <3>2
  <2>4. restarts = 0 => DOMAIN disk' \subseteq DOMAIN files'
    BY <2>1 DEF FirstLife
  <2> QED
    BY <2>1, <2>2, <2>3, <2>4, FirstKept
<1>2. ASSUME NEW w \in writing, WriteHeader(w) PROVE FirstLife'
  <2>1. PartSize(w.next, w.block) \in Nat \ {0} /\ w.next # "data"
    BY <1>2, WriterType, PartSizes DEF WriteHeader
  <2>2. disk' = Appended(w, PartSize(w.next, w.block)) /\ UNCHANGED <<files, readers, restarts>>
    BY <1>2 DEF WriteHeader, bounded
  <2> QED
    BY <2>1, <2>2, FirstPart
<1>3. ASSUME NEW w \in writing, WriteData(w) PROVE FirstLife'
  <2>1. w.block \in Blocks /\ w.id \in DOMAIN files /\ DataSize(w.block) \in Nat \ {0}
    BY WriterType, BlockType
  <2>2. disk' = Appended(w, DataSize(w.block)) /\ readers' = readers /\ restarts' = restarts
    BY <1>3 DEF WriteData, bounded
  <2>3. /\ files' = [files EXCEPT ![w.id] = NewWarmFile(w)]
        /\ NewWarmFile(w).index = files[w.id].index \cup {NewEntry(w)}
    BY <1>3, WrittenFile
  <2>4. /\ files[w.id].index \subseteq files'[w.id].index /\ DOMAIN files' = DOMAIN files
        /\ \A j \in DOMAIN files : j # w.id => files'[j] = files[j]
    BY <2>1, <2>3 DEF TypeInv, Typed
  <2> HIDE DEF DataSize
  <2>5. /\ \A id \in DOMAIN files : id # w.id => PartsOf(id)' = PartsOf(id)
        /\ DOMAIN disk' = DOMAIN disk
    BY <2>1, <2>2, <2>4, AppendedWhole
  <2>6. ASSUME restarts = 0, NEW j \in DOMAIN files PROVE StaysIndexed(j)
    <3>1. CASE j = w.id
      BY <1>3, <2>6, <3>1, FirstData
    <3>2. CASE j # w.id
      BY <2>4, <2>5, <3>2, SameIndexed
    <3> QED
      BY <3>1, <3>2
  <2>7. restarts = 0 => DOMAIN disk' \subseteq DOMAIN files'
    BY <2>4, <2>5 DEF FirstLife
  <2> QED
    BY <2>2, <2>4, <2>6, <2>7, FirstKept
<1>4. ASSUME NEW w \in writing, WriteFails(w) \/ WriteToClosed(w) PROVE FirstLife'
  <2>1. UNCHANGED <<files, readers, restarts>> /\ (disk' = disk \/ disk' = Appended(w, 1))
    BY <1>4 DEF WriteFails, WriteToClosed, bounded
  <2>2. CASE disk' = disk
    <3>1. \A j \in DOMAIN files : StaysIndexed(j)
      <4>1. \A j : PartsOf(j)' = PartsOf(j)
        BY <2>2 DEF PartsOf
      <4> QED
        BY <2>1, <4>1, SameIndexed
    <3>2. restarts = 0 => DOMAIN disk' \subseteq DOMAIN files'
      BY <2>1, <2>2 DEF FirstLife
    <3> QED
      BY <2>1, <3>1, <3>2, FirstKept
  <2>3. CASE disk' = Appended(w, 1)
    <3>1. DataSize(w.block) # 1
      BY WriterType, BlockType DEF DataSize
    <3> HIDE DEF DataSize
    <3> QED
      BY <2>1, <2>3, <3>1, FirstPart
  <2> QED
    BY <2>1, <2>2, <2>3
<1> QED
  BY <1>1, <1>2, <1>3, <1>4 DEF Write

LEMMA FirstStep ==
    ASSUME TypeInv, TypeInv', IndexInv, FirstLife, [Next]_vars
    PROVE  FirstLife'
<1>1. CASE Write
  BY <1>1, FirstWrite
<1>2. ASSUME NEW r \in Readers, Read(r) PROVE FirstLife'
  <2>1. UNCHANGED <<disk, files, restarts>> /\ \A u \in Readers : u # r => readers'[u] = readers[u]
    BY <1>2 DEF Read, Lookup, LockFile, ReadBlock, Deliver, bounded, TypeInv, Typed
  <2>2. ASSUME restarts = 0, NEW u \in Readers, readers'[u].live PROVE CallWhole(readers[u])'
    <3> PICK S : S = readers'[u]
      OBVIOUS
    <3>1. S \in Calls /\ S.live
      <4>1. readers' \in [Readers -> {Idle} \cup Calls]
        BY DEF TypeInv, Typed
      <4> QED
        BY <2>2, <4>1 DEF Idle
    <3>2. CallWhole(S)
      <4>1. CASE u = r
        BY <1>2, <2>2, <3>1, <4>1, FirstRead
      <4>2. CASE u # r
        BY <2>1, <2>2, <4>2 DEF FirstLife
      <4> QED
        BY <4>1, <4>2
    <3>3. PartsOf(S.id)' = PartsOf(S.id)
      BY <2>1 DEF PartsOf
    <3>4. /\ BlockPoints(S.id, Pending(S.id, S.todo))' = BlockPoints(S.id, Pending(S.id, S.todo))
          /\ BlockPoints(S.id, Started(S.id, S.from))' = BlockPoints(S.id, Started(S.id, S.from))
      BY <3>3 DEF BlockPoints, Pending, Started
    <3>5. CallWhole(S)'
      BY <3>2, <3>4 DEF CallWhole
    <3> QED
      BY <3>5
  <2>3. \A id \in DOMAIN files : WholeIndexed(id)' <=> WholeIndexed(id)
    BY <2>1 DEF WholeIndexed, PartsOf
  <2> QED
    BY <2>1, <2>2, <2>3 DEF FirstLife
<1>3. CASE CleanupExpired
  <2>1. PICK gone \in SUBSET (Expired \cap DOMAIN disk) :
          /\ DOMAIN disk' = DOMAIN disk \ gone /\ \A id \in DOMAIN disk' : disk'[id] = disk[id]
          /\ DOMAIN files' = DOMAIN files \ gone
          /\ \A id \in DOMAIN files' : SameBut(files[id], files'[id])
          /\ readers' = Detached(gone)
    BY <1>3, RemoveEffect
  <2>2. restarts' = restarts
    BY <1>3 DEF CleanupExpired, RemoveExpired
  <2>3. ASSUME NEW j \in DOMAIN files' PROVE j \in DOMAIN files /\ StaysIndexed(j)
    <3>1. j \in DOMAIN files /\ files'[j].index = files[j].index
      BY <2>1 DEF SameBut
    <3>2. PartsOf(j)' = PartsOf(j)
      BY <2>1 DEF PartsOf
    <3> QED
      BY <3>1, <3>2, SameIndexed
  <2>4. \A r \in Readers : readers'[r].live => readers'[r] = readers[r]
    BY <2>1, DetachedType
  <2>5. restarts = 0 => DOMAIN disk' \subseteq DOMAIN files'
    BY <2>1 DEF FirstLife
  <2> QED
    BY <2>2, <2>3, <2>4, <2>5, FirstKept
<1>4. CASE Restart
  BY <1>4 DEF Restart, FirstLife
<1>5. ASSUME UNCHANGED <<disk, readers, restarts>>, DOMAIN files' = DOMAIN files,
             \A id \in DOMAIN files : files'[id].index = files[id].index
      PROVE  FirstLife'
  <2>1. \A j \in DOMAIN files' : j \in DOMAIN files /\ StaysIndexed(j)
    <3>1. \A j : PartsOf(j)' = PartsOf(j)
      BY <1>5 DEF PartsOf
    <3> QED
      BY <1>5, <3>1, SameIndexed
  <2>2. restarts = 0 => DOMAIN disk' \subseteq DOMAIN files'
    BY <1>5 DEF FirstLife
  <2> QED
    BY <1>5, <2>1, <2>2, FirstKept
<1>6. CASE Close
  <2>1. /\ UNCHANGED <<disk, readers>> /\ DOMAIN files' = DOMAIN files
        /\ \A id \in DOMAIN files : SameBut(files[id], files'[id])
    BY <1>6, CloseEffect
  <2>2. restarts' = restarts
    BY <1>6 DEF Close, bounded
  <2> QED
    BY <1>5, <2>1, <2>2 DEF SameBut
<1>7. CASE Tick \/ UNCHANGED vars
  BY <1>5, <1>7 DEF Tick, vars, warm, bounded
<1> QED
  BY <1>1, <1>2, <1>3, <1>4, <1>6, <1>7 DEF Next

LEMMA FirstInvariant == Spec => [](TypeInv /\ IndexInv /\ FirstLife)
<1>1. Init => TypeInv /\ IndexInv /\ FirstLife
  BY TypeInit, IndexInit, FirstInit
<1>2. (TypeInv /\ IndexInv /\ FirstLife) /\ [Next]_vars => (TypeInv /\ IndexInv /\ FirstLife)'
  BY TypeStep, IndexStep, FirstStep
<1> QED
  BY <1>1, <1>2, PTL DEF Spec

\* Until the process is restarted a read that ends without an error has all the
\* points of the blocks that start in its range, and precede anything torn, in a
\* damaged file too: the entries of a file lead to its blocks whatever a failed
\* write has left after them (readDataRange and WriteSeriesData).
THEOREM TornFilesStillRead ==
    Spec => [](restarts = 0 => \A r \in Readers :
                  readers[r].live /\ Answered(r) => readers[r].want \subseteq readers[r].got)
<1>1. TypeInv /\ IndexInv /\ FirstLife =>
        (restarts = 0 => \A r \in Readers :
            readers[r].live /\ Answered(r) => readers[r].want \subseteq readers[r].got)
  <2> SUFFICES ASSUME FirstLife, restarts = 0, NEW r \in Readers, readers[r].live, Answered(r)
               PROVE  readers[r].want \subseteq readers[r].got
    OBVIOUS
  <2> DEFINE R == readers[r]
  <2>1. CallWhole(R)
    BY DEF FirstLife
  <2>2. R.pc = "reading" /\ R.todo = {}
    BY DEF Answered
  <2>3. BlockPoints(R.id, Pending(R.id, R.todo)) = {}
    BY <2>2 DEF BlockPoints, Pending
  <2> QED
    BY <2>1, <2>2, <2>3 DEF CallWhole, InRange
<1> QED
  BY <1>1, FirstInvariant, PTL

\* The block whose data has been written is the last of the file, unless the file
\* is damaged.
LEMMA BlockWritten ==
    ASSUME TypeInv, NEW w \in writing, WriteData(w)
    PROVE  /\ w.id \in DOMAIN disk'
           /\ w.block \in BlocksOf(disk'[w.id].parts) \/ ~Intact(disk'[w.id].parts)
<1> DEFINE size == DataSize(w.block)  p == NewPart(w, size)  parts == disk[w.id].parts
           q == disk'[w.id].parts  n == WholeBlocks(q)
<1>1. w.block \in Blocks /\ parts \in Seq(FileParts)
  BY WriterType
<1>2. size \in Nat \ {0} /\ disk' = Appended(w, size)
  BY <1>1, BlockType DEF WriteData
<1> HIDE DEF size
<1>3. w.id \in DOMAIN disk' /\ q = Append(parts, p) /\ p \in FileParts /\ p.block = w.block
  BY <1>2, AppendedParts DEF NewPart
<1> HIDE DEF p
<1>4. q \in Seq(FileParts) /\ Len(q) = Len(parts) + 1 /\ q[Len(q)] = p /\ Len(parts) \in Nat
  BY <1>1, <1>3
<1> HIDE DEF q
<1>5. ASSUME Intact(q) PROVE w.block \in BlocksOf(q)
  <2>1. n \in Nat /\ Len(q) = 3 * n /\ Whole(q) = 1 .. n
    BY <1>4, <1>5, IntactBlocks
  <2>2. n \in 1 .. n /\ q[3 * n].block = w.block
    BY <1>3, <1>4, <2>1
  <2> QED
    BY <2>1, <2>2 DEF BlocksOf
<1> QED
  BY <1>3, <1>5 DEF q

\* What a call that starts now would get of a file: the points between from and
\* to of the whole blocks that start at from or later.
Stored(id, from, to) == InRange(BlockPoints(id, Started(id, from)), from, to)

\* A file that is not removed loses nothing of this.
LEMMA StoredStays ==
    ASSUME TypeInv, [Next]_vars, ~Restart, NEW id, id \in DOMAIN disk => id \in DOMAIN disk',
           NEW from, NEW to
    PROVE  Stored(id, from, to) \subseteq Stored(id, from, to)'
<1> DEFINE parts == PartsOf(id)
<1>1. ASSUME \A i \in Whole(parts) : i \in Whole(parts') /\ parts'[3 * i] = parts[3 * i]
      PROVE  Stored(id, from, to) \subseteq Stored(id, from, to)'
  <2>1. \A i \in Started(id, from) : i \in Started(id, from)' /\ parts'[3 * i] = parts[3 * i]
    BY <1>1 DEF Started
  <2>2. BlockPoints(id, Started(id, from)) \subseteq BlockPoints(id, Started(id, from))'
    BY <2>1 DEF BlockPoints
  <2> QED
    BY <2>2 DEF Stored, InRange
<1>2. ASSUME parts' = parts PROVE Stored(id, from, to) \subseteq Stored(id, from, to)'
  BY <1>1, <1>2
<1>3. ASSUME NEW w \in writing, NEW size \in Nat \ {0}, disk' = Appended(w, size)
      PROVE  Stored(id, from, to) \subseteq Stored(id, from, to)'
  <2> DEFINE p == NewPart(w, size)
  <2>1. /\ DOMAIN disk' = DOMAIN disk /\ w.id \in DOMAIN disk /\ p \in FileParts
        /\ disk'[w.id].parts = Append(disk[w.id].parts, p)
        /\ \A j \in DOMAIN disk : j # w.id => disk'[j] = disk[j]
    BY <1>3, AppendedParts
  <2> HIDE DEF p
  <2>2. CASE id = w.id
    <3>1. parts' = Append(parts, p) /\ parts \in Seq(FileParts)
      BY <2>1, <2>2, PartsType DEF PartsOf
    <3>2. ASSUME NEW i \in Whole(parts)
          PROVE  i \in Whole(Append(parts, p)) /\ Append(parts, p)[3 * i] = parts[3 * i]
      BY <2>1, <3>1, WholeKept
    <3> QED
      BY <1>1, <3>1, <3>2
  <2>3. CASE id # w.id
    BY <1>2, <2>1, <2>3 DEF PartsOf
  <2> QED
    BY <2>2, <2>3
<1>4. CASE Write
  <2>1. ASSUME NEW j \in SeriesIds, OpenFails(j) \/ \E b \in Blocks : BeginWrite(j, b) PROVE parts' = parts
    BY <2>1, RegisterEffect
  <2>2. ASSUME NEW w \in writing, WriteHeader(w) \/ WriteData(w)
        PROVE  Stored(id, from, to) \subseteq Stored(id, from, to)'
    <3>1. PartSize(w.next, w.block) \in Nat \ {0} /\ DataSize(w.block) \in Nat \ {0}
      BY WriterType, PartSizes, BlockType
    <3> QED
      BY <1>3, <2>2, <3>1 DEF WriteHeader, WriteData
  <2>3. ASSUME NEW w \in writing, WriteFails(w) \/ WriteToClosed(w)
        PROVE  Stored(id, from, to) \subseteq Stored(id, from, to)'
    <3>1. disk' = disk \/ disk' = Appended(w, 1)
      BY <2>3 DEF WriteFails, WriteToClosed
    <3>2. disk' = disk => parts' = parts
      BY DEF PartsOf
    <3> QED
      BY <1>2, <1>3, <3>1, <3>2
  <2> QED
    BY <1>2, <1>4, <2>1, <2>2, <2>3 DEF Write
<1>5. CASE CleanupExpired
  <2>1. PICK gone \in SUBSET (Expired \cap DOMAIN disk) :
          DOMAIN disk' = DOMAIN disk \ gone /\ \A j \in DOMAIN disk' : disk'[j] = disk[j]
    BY <1>5, RemoveEffect
  <2>2. parts' = parts
    BY <2>1 DEF PartsOf
  <2> QED
    BY <1>2, <2>2
<1>6. CASE (\E r \in Readers : Read(r)) \/ Close \/ Tick \/ UNCHANGED vars
  <2>1. disk' = disk
    BY <1>6 DEF Read, Lookup, LockFile, ReadBlock, Deliver, Close, Tick, vars, warm
  <2>2. parts' = parts
    BY <2>1 DEF PartsOf
  <2> QED
    BY <1>2, <2>2
<1> QED
  BY <1>4, <1>5, <1>6 DEF Next
=============================================================================
