------------------------- MODULE StreamProcessorProofs -------------------------
(***************************************************************************)
(* Proofs about StreamProcessor, for any metrics, threads and sizes.       *)
(***************************************************************************)
EXTENDS StreamProcessor, FiniteSetTheorems, TLAPS

\* Raising a counter.
LEMMA BumpType ==
    ASSUME TypeOK, NEW c \in {"ingested", "processed", "errors", "batches"}, Bump(c)
    PROVE  stats' \in Stats
<1>1. stats \in Stats /\ stats' = [stats EXCEPT ![c] = stats[c] + 1]
  BY DEF TypeOK, Bump
<1> QED
  BY <1>1 DEF Stats

LEMMA TypeInit == Init => TypeOK
<1> USE MetricsAssumption, ThreadsAssumption, SizesAssumption
<1> SUFFICES ASSUME Init PROVE TypeOK
  OBVIOUS
<1>1. /\ pc \in [Threads -> Places] /\ cont \in [Threads -> Returns]
      /\ \A t \in Ingesters : pc[t] = "idle" /\ cont[t] = "return" /\ cur[t] = NoMetric
  BY DEF Init, Threads, Places, Returns, Flushing
<1>2. stats \in Stats
  BY DEF Init, Stats
<1>3. verdict \in [Metrics -> Verdicts] /\ cur \in [Ingesters -> Metrics \cup {NoMetric}]
  BY DEF Init, Verdicts
<1>4. buffer \in Seq(Metrics) /\ batch \in [Threads -> Seq(Metrics)]
  BY DEF Init
<1> QED
  BY <1>1, <1>2, <1>3, <1>4 DEF Init, TypeOK, Flushing

LEMMA TypeStep == TypeOK /\ [Next]_vars => TypeOK'
<1> USE MetricsAssumption, ThreadsAssumption, SizesAssumption
<1> SUFFICES ASSUME TypeOK, [Next]_vars PROVE TypeOK'
  OBVIOUS
<1> USE DEF TypeOK, Threads, Places, Returns, Flushing, shared, outcome
<1>1. ASSUME NEW t \in Ingesters, NEW m \in Metrics, RejectInvalid(t, m) PROVE TypeOK'
  BY <1>1, BumpType DEF RejectInvalid, Verdicts
<1>2. ASSUME NEW t \in Ingesters, NEW m \in Metrics, RefuseStopped(t, m) PROVE TypeOK'
  BY <1>2 DEF RefuseStopped, Verdicts
<1>3. ASSUME NEW t \in Ingesters, NEW m \in Metrics, FlushForRoom(t, m) PROVE TypeOK'
  BY <1>3 DEF FlushForRoom, Full, Goto
<1>4. ASSUME NEW t \in Ingesters, NEW m \in Metrics, Accept(t, m) PROVE TypeOK'
  BY <1>4, BumpType DEF Accept, Full, Enqueue, Goto
<1>5. ASSUME NEW t \in Ingesters, AcceptAfterFlush(t) PROVE TypeOK'
  BY <1>5, BumpType DEF AcceptAfterFlush, Enqueue, Goto
<1>6. ASSUME NEW t \in Ingesters, ReturnOk(t) PROVE TypeOK'
  BY <1>6 DEF ReturnOk, Goto, Verdicts
<1>7. ASSUME NEW t \in Threads, TakeBatch(t) PROVE TypeOK'
  <2>1. CASE buffer = <<>>
    <3>1. pc' \in [Threads -> Places] /\ pc'[t] = cont[t]
          /\ \A u \in Threads : u # t => pc'[u] = pc[u]
      BY <1>7, <2>1 DEF TakeBatch, NothingToFlush, CopyAndClear, Goto
    <3>2. UNCHANGED <<isRunning, stopClosed, ctxDone, panicked, buffer, cont, batch, cur,
                      stored, failed, verdict, stats>> /\ pc[t] = "take"
      BY <1>7, <2>1 DEF TakeBatch, NothingToFlush, CopyAndClear
    <3> QED
      BY <3>1, <3>2
  <2>2. CASE buffer # <<>>
    <3>1. buffer' = <<>> /\ batch' = [batch EXCEPT ![t] = buffer]
      BY <1>7, <2>2 DEF TakeBatch, NothingToFlush, CopyAndClear
    <3>2. buffer' \in Seq(Metrics) /\ batch' \in [Threads -> Seq(Metrics)]
      BY <3>1
    <3> QED
      BY <1>7, <2>2, <3>2 DEF TakeBatch, NothingToFlush, CopyAndClear, Goto
  <2> QED
    BY <2>1, <2>2
<1>8. ASSUME NEW t \in Threads, StoreMetric(t) PROVE TypeOK'
  <2>1. /\ Head(batch[t]) \in Metrics
        /\ batch' \in [Threads -> Seq(Metrics)]
    <3>1. /\ batch[t] # <<>> /\ batch[t] \in Seq(Metrics)
          /\ batch' = [batch EXCEPT ![t] = Tail(batch[t])]
      BY <1>8 DEF StoreMetric, AddPoint
    <3>2. Head(batch[t]) \in Metrics /\ Tail(batch[t]) \in Seq(Metrics)
      BY <3>1
    <3> QED
      BY <3>1, <3>2
  <2>2. stored' \in SUBSET Metrics /\ failed' \in SUBSET Metrics
    BY <1>8, <2>1 DEF StoreMetric, AddPoint
  <2> QED
    BY <1>8, <2>1, <2>2, ZenonT(60) DEF StoreMetric, AddPoint, Goto
<1>9. ASSUME NEW t \in Threads, CountProcessed(t) PROVE TypeOK'
  BY <1>9, BumpType DEF CountProcessed, Goto
<1>10. ASSUME NEW t \in Threads, CountError(t) PROVE TypeOK'
  BY <1>10, BumpType DEF CountError, CountAs, Goto
<1>11. ASSUME NEW t \in Threads, EndBatch(t) PROVE TypeOK'
  BY <1>11, BumpType DEF EndBatch, Goto
<1>12. ASSUME NEW f \in Flushers, FlushRoutine(f) PROVE TypeOK'
  BY <1>12, ZenonT(60) DEF FlushRoutine, Start, Spawn, Tick, FlusherExit, Selects, Goto
<1>13. ASSUME NEW s \in Stoppers, Stop(s) PROVE TypeOK'
  <2>1. CASE StopBegin(s)
    BY <2>1, ZenonT(60) DEF StopBegin, Goto
  <2>2. CASE CloseStopChan(s)
    BY <2>2, ZenonT(60) DEF CloseStopChan, Goto
  <2>3. CASE WaitFlushers(s)
    BY <2>3 DEF WaitFlushers, AfterFlushers, Goto
  <2> QED
    BY <1>13, <2>1, <2>2, <2>3 DEF Stop
<1>14. CASE CancelContext
  BY <1>14 DEF CancelContext
<1>15. CASE UNCHANGED vars
  BY <1>15 DEF vars
<1> QED
  BY <1>1, <1>2, <1>3, <1>4, <1>5, <1>6, <1>7, <1>8, <1>9, <1>10, <1>11, <1>12, <1>13,
     <1>14, <1>15 DEF Next, Ingest, Flush

\* Every step of every thread keeps the state well typed: in particular an
\* ingester that appends or returns carries the metric it was called with.
THEOREM TypeCorrect == Spec => []TypeOK
  BY TypeInit, TypeStep, PTL DEF Spec

(***************************************************************************)
(* Where the metrics are.  First what the sequence operators of the model  *)
(* do to the set of their elements.                                        *)
(***************************************************************************)
LEMMA AppendElements ==
    ASSUME NEW S, NEW s \in Seq(S), NEW x \in S
    PROVE  /\ Range(Append(s, x)) = Range(s) \cup {x}
           /\ IsInjective(s) /\ x \notin Range(s) => IsInjective(Append(s, x))
<1> DEFINE a == Append(s, x)
<1>1. /\ DOMAIN a = 1 .. Len(s) + 1 /\ DOMAIN s = 1 .. Len(s) /\ Len(s) \in Nat
      /\ a[Len(s) + 1] = x /\ \A i \in 1 .. Len(s) : a[i] = s[i]
  OBVIOUS
<1> HIDE DEF a
<1>2. Range(a) = Range(s) \cup {x}
  <2>1. ASSUME NEW y \in Range(a) PROVE y \in Range(s) \cup {x}
    BY <1>1, <2>1 DEF Range
  <2>2. ASSUME NEW y \in Range(s) \cup {x} PROVE y \in Range(a)
    BY <1>1, <2>2 DEF Range
  <2> QED
    BY <2>1, <2>2
<1>3. IsInjective(s) /\ x \notin Range(s) => IsInjective(a)
  BY <1>1 DEF Range, IsInjective
<1> QED
  BY <1>2, <1>3 DEF a

LEMMA HeadTailElements ==
    ASSUME NEW S, NEW s \in Seq(S), s # <<>>
    PROVE  /\ Range(s) = Range(Tail(s)) \cup {Head(s)}
           /\ IsInjective(s) => IsInjective(Tail(s)) /\ Head(s) \notin Range(Tail(s))
<1> DEFINE r == Tail(s)
<1>1. /\ DOMAIN r = 1 .. Len(s) - 1 /\ DOMAIN s = 1 .. Len(s) /\ Len(s) \in Nat \ {0}
      /\ Head(s) = s[1] /\ \A i \in 1 .. Len(s) - 1 : r[i] = s[i + 1]
  OBVIOUS
<1> HIDE DEF r
<1>2. Range(s) = Range(r) \cup {s[1]}
  <2>1. ASSUME NEW i \in DOMAIN s PROVE s[i] \in Range(r) \cup {s[1]}
    <3>1. CASE i = 1
      BY <3>1
    <3>2. CASE i # 1
      <4>1. i - 1 \in DOMAIN r /\ r[i - 1] = s[i]
        BY <1>1, <2>1, <3>2
      <4> QED
        BY <4>1 DEF Range
    <3> QED
      BY <3>1, <3>2
  <2>2. ASSUME NEW i \in DOMAIN r PROVE r[i] \in Range(s)
    BY <1>1, <2>2 DEF Range
  <2>3. s[1] \in Range(s)
    BY <1>1 DEF Range
  <2> QED
    BY <2>1, <2>2, <2>3 DEF Range
<1>3. ASSUME IsInjective(s) PROVE IsInjective(r) /\ s[1] \notin Range(r)
  <2>1. \A i, j \in DOMAIN s : s[i] = s[j] => i = j
    BY <1>3 DEF IsInjective
  <2>2. \A i \in DOMAIN r : i + 1 \in DOMAIN s /\ i \in Nat \ {0} /\ r[i] = s[i + 1]
    BY <1>1
  <2>3. \A i, j \in DOMAIN r : r[i] = r[j] => i = j
    BY <2>1, <2>2
  <2>4. \A i \in DOMAIN r : r[i] # s[1]
    BY <1>1, <2>1, <2>2
  <2> QED
    BY <2>3, <2>4 DEF Range, IsInjective
<1> QED
  BY <1>1, <1>2, <1>3 DEF r

LEMMA EmptyElements == Range(<<>>) = {} /\ IsInjective(<<>>)
  BY DEF Range, IsInjective

LEMMA OnlyMetrics == TypeOK => Everywhere \subseteq Metrics
<1> SUFFICES ASSUME TypeOK PROVE Everywhere \subseteq Metrics
  OBVIOUS
<1>1. \A s \in Seq(Metrics) : Range(s) \subseteq Metrics
  BY DEF Range
<1> QED
  BY <1>1 DEF TypeOK, Everywhere, Queued, InFlight, Settled, Held

\* A step that moves no metric.
LEMMA StayEffect ==
    ASSUME UNCHANGED <<buffer, batch, stored, failed>>
    PROVE  Everywhere' = Everywhere /\ (NothingTwice => NothingTwice')
  BY DEF Everywhere, Queued, InFlight, Settled, Held, NothingTwice

\* A step that appends a metric which is nowhere yet.
LEMMA EnqueueEffect ==
    ASSUME TypeOK, NothingTwice, NEW m \in Metrics, m \notin Everywhere,
           buffer' = Append(buffer, m), UNCHANGED <<batch, stored, failed>>
    PROVE  Everywhere' = Everywhere \cup {m} /\ NothingTwice'
<1>1. Queued' = Queued \cup {m} /\ IsInjective(buffer')
  BY AppendElements DEF TypeOK, NothingTwice, Queued, Everywhere
<1>2. InFlight' = InFlight /\ Settled' = Settled /\ \A t \in Threads : Held(t)' = Held(t)
  BY DEF InFlight, Settled, Held
<1> QED
  BY <1>1, <1>2 DEF Everywhere, NothingTwice

\* flushBuffer's copy and clear, by a thread with nothing left to write.
LEMMA TakeEffect ==
    ASSUME TypeOK, NothingTwice, NEW t \in Threads, batch[t] = <<>>,
           batch' = [batch EXCEPT ![t] = buffer], buffer' = <<>>,
           UNCHANGED <<stored, failed>>
    PROVE  Everywhere' = Everywhere /\ NothingTwice'
<1>1. Queued' = {} /\ Held(t)' = Queued /\ Held(t) = {}
      /\ IsInjective(buffer') /\ IsInjective(batch'[t])
  BY EmptyElements DEF TypeOK, NothingTwice, Queued, Held
<1>2. \A u \in Threads : u # t => Held(u)' = Held(u) /\ batch'[u] = batch[u]
  BY DEF TypeOK, Held
<1>3. InFlight' = InFlight \cup Queued
  BY <1>1, <1>2 DEF InFlight
<1>4. Settled' = Settled
  BY DEF Settled
<1>5. \A u \in Threads : Held(u) \subseteq InFlight
  BY DEF InFlight
<1>6. Everywhere' = Everywhere
  BY <1>1, <1>3, <1>4 DEF Everywhere
<1>7. \A u, v \in Threads : u # v => Held(u)' \cap Held(v)' = {}
  BY <1>1, <1>2, <1>5 DEF NothingTwice
<1>8. \A u \in Threads : IsInjective(batch'[u])
  BY <1>1, <1>2 DEF NothingTwice
<1> QED
  BY <1>1, <1>3, <1>4, <1>6, <1>7, <1>8 DEF NothingTwice

\* processBatch hands the next metric of its batch to the storage.
LEMMA StoreEffect ==
    ASSUME TypeOK, NothingTwice, NEW t \in Threads, StoreMetric(t)
    PROVE  Everywhere' = Everywhere /\ NothingTwice'
<1> DEFINE h == Head(batch[t])
<1>1. /\ batch[t] # <<>> /\ batch' = [batch EXCEPT ![t] = Tail(batch[t])]
      /\ buffer' = buffer
      /\ \/ stored' = stored \cup {h} /\ failed' = failed
         \/ failed' = failed \cup {h} /\ stored' = stored
  BY DEF StoreMetric, AddPoint
<1>2. /\ Held(t) = Held(t)' \cup {h} /\ h \notin Held(t)' /\ IsInjective(batch'[t])
      /\ batch'[t] = Tail(batch[t])
  <2>1. batch'[t] = Tail(batch[t]) /\ batch[t] \in Seq(Metrics) /\ IsInjective(batch[t])
    BY <1>1 DEF TypeOK, NothingTwice
  <2> QED
    BY <1>1, <2>1, HeadTailElements DEF Held
<1> HIDE DEF h
<1>3. \A u \in Threads : u # t => Held(u)' = Held(u) /\ batch'[u] = batch[u]
  BY <1>1 DEF TypeOK, Held
<1>4. \A u \in Threads : u # t => h \notin Held(u)'
  BY <1>2, <1>3 DEF NothingTwice
<1>5. InFlight = InFlight' \cup {h} /\ h \notin InFlight'
  BY <1>2, <1>3, <1>4 DEF InFlight
<1>6. Settled' = Settled \cup {h} /\ Queued' = Queued
  BY <1>1 DEF Settled, Queued
<1>7. \A u, v \in Threads : u # v => Held(u)' \cap Held(v)' = {}
  BY <1>2, <1>3 DEF NothingTwice
<1>8. \A u \in Threads : IsInjective(batch'[u])
  BY <1>2, <1>3 DEF NothingTwice
<1>9. stored' \cap failed' = {}
  BY <1>1, <1>5 DEF NothingTwice, Settled
<1>10. IsInjective(buffer')
  BY <1>1 DEF NothingTwice
<1>11. Everywhere' = Everywhere
  BY <1>5, <1>6 DEF Everywhere
<1>12. /\ Queued' \cap InFlight' = {} /\ Queued' \cap Settled' = {}
       /\ InFlight' \cap Settled' = {}
  BY <1>5, <1>6 DEF NothingTwice
<1> QED
  BY <1>7, <1>8, <1>9, <1>10, <1>11, <1>12 DEF NothingTwice

(***************************************************************************)
(* The invariant about places and callers.                                 *)
(***************************************************************************)
PlacesInv == NothingLost /\ NothingTwice /\ Whereabouts

Busy == {"process", "tallyOk", "tallyErr"}

\* What Whereabouts says of one thread's hands.
EmptyHands == \A t \in Threads : batch[t] # <<>> => pc[t] \in Busy

LEMMA PlacesInit == Init => PlacesInv
<1> SUFFICES ASSUME Init PROVE PlacesInv
  OBVIOUS
<1>1. Queued = {} /\ \A t \in Threads : Held(t) = {} /\ batch[t] = <<>>
  BY EmptyElements DEF Init, Queued, Held
<1>2. InFlight = {} /\ Settled = {} /\ Everywhere = {}
  BY <1>1 DEF InFlight, Settled, Everywhere, Init
<1>3. \A m \in Metrics : verdict[m] = "none"
  BY DEF Init
<1>4. \A t \in Ingesters : cur[t] = NoMetric
  BY DEF Init
<1>5. NothingTwice
  BY <1>1, <1>2, EmptyElements DEF NothingTwice, Init
<1>6. NothingLost
  BY <1>3 DEF NothingLost
<1>7. Whereabouts
  BY <1>1, <1>2, <1>4 DEF Whereabouts
<1> QED
  BY <1>5, <1>6, <1>7 DEF PlacesInv

\* A step inside flushBuffer, flushRoutine or Stop moves metrics between
\* places, if at all; no caller notices.
LEMMA CallersUndisturbed ==
    ASSUME NothingLost, Whereabouts, Everywhere' = Everywhere,
           UNCHANGED <<cur, verdict>>,
           \A t \in Ingesters : Appended(t)' = Appended(t),
           EmptyHands'
    PROVE  NothingLost' /\ Whereabouts'
<1>1. NothingLost'
  BY DEF NothingLost
<1>2. \A t \in Ingesters : cur'[t] # NoMetric =>
          /\ verdict'[cur'[t]] = "none" /\ cur'[t] \notin Invalid
          /\ cur'[t] \in Everywhere' <=> Appended(t)'
  BY DEF Whereabouts
<1>3. \A t, u \in Ingesters : cur'[t] = cur'[u] /\ cur'[t] # NoMetric => t = u
  BY DEF Whereabouts
<1>4. \A m \in Everywhere' : \/ verdict'[m] = "ok"
                             \/ verdict'[m] = "none" /\ \E t \in Ingesters : cur'[t] = m
  BY DEF Whereabouts
<1> QED
  BY <1>1, <1>2, <1>3, <1>4 DEF Whereabouts, EmptyHands, Busy

LEMMA PlacesFlush ==
    ASSUME TypeOK, PlacesInv, NEW t \in Threads, Flush(t)
    PROVE  PlacesInv'
<1> USE DEF PlacesInv, shared, outcome
<1>0. EmptyHands
  BY DEF Whereabouts, EmptyHands, Busy
<1>1. CASE TakeBatch(t)
  <2>1. pc[t] = "take" /\ UNCHANGED <<cont, cur, stored, failed, verdict>>
        /\ pc' \in [Threads -> Places] /\ \A u \in Threads : u # t => pc'[u] = pc[u]
    BY <1>1 DEF TakeBatch, NothingToFlush, CopyAndClear, Goto, TypeOK, Places, Flushing
  <2>2. batch[t] = <<>>
    BY <2>1, <1>0 DEF EmptyHands, Busy
  <2>3. CASE buffer = <<>>
    <3>1. UNCHANGED <<buffer, batch>> /\ pc'[t] = cont[t]
      BY <1>1, <2>3 DEF TakeBatch, NothingToFlush, CopyAndClear, Goto, TypeOK
    <3>2. Everywhere' = Everywhere /\ NothingTwice'
      BY <2>1, <3>1, StayEffect
    <3>3. \A u \in Ingesters : Appended(u)' = Appended(u)
      BY <2>1, <3>1 DEF Appended, TypeOK, Flushing, Threads
    <3>4. EmptyHands'
      BY <1>0, <2>1, <2>2, <3>1 DEF EmptyHands
    <3> QED
      BY <2>1, <3>2, <3>3, <3>4, CallersUndisturbed
  <2>4. CASE buffer # <<>>
    <3>1. buffer' = <<>> /\ batch' = [batch EXCEPT ![t] = buffer] /\ pc'[t] = "process"
      BY <1>1, <2>4 DEF TakeBatch, NothingToFlush, CopyAndClear, Goto, TypeOK
    <3>2. Everywhere' = Everywhere /\ NothingTwice'
      BY <2>1, <2>2, <3>1, TakeEffect
    <3>3. \A u \in Ingesters : Appended(u)' = Appended(u)
      BY <2>1, <3>1 DEF Appended, TypeOK, Flushing, Threads
    <3>4. EmptyHands'
      BY <1>0, <2>1, <3>1 DEF EmptyHands, Busy, TypeOK
    <3> QED
      BY <2>1, <3>2, <3>3, <3>4, CallersUndisturbed
  <2> QED
    BY <2>3, <2>4
<1>2. CASE StoreMetric(t)
  <2>1. /\ pc[t] = "process" /\ pc'[t] \in Busy /\ UNCHANGED <<cont, cur, verdict>>
        /\ \A u \in Threads : u # t => pc'[u] = pc[u] /\ batch'[u] = batch[u]
    BY <1>2 DEF StoreMetric, AddPoint, Goto, TypeOK, Busy
  <2>2. Everywhere' = Everywhere /\ NothingTwice'
    BY <1>2, StoreEffect
  <2>3. \A u \in Ingesters : Appended(u)' = Appended(u)
    BY <2>1 DEF Appended, Flushing, Busy, Threads
  <2>4. EmptyHands'
    BY <1>0, <2>1 DEF EmptyHands
  <2> QED
    BY <2>1, <2>2, <2>3, <2>4, CallersUndisturbed
<1>3. CASE CountProcessed(t) \/ CountError(t)
  <2>1. /\ pc[t] \in Busy /\ pc'[t] = "process"
        /\ UNCHANGED <<buffer, batch, cont, cur, verdict, stored, failed>>
        /\ \A u \in Threads : u # t => pc'[u] = pc[u]
    BY <1>3 DEF CountProcessed, CountError, CountAs, Goto, TypeOK, Busy
  <2>2. Everywhere' = Everywhere /\ NothingTwice'
    BY <2>1, StayEffect
  <2>3. \A u \in Ingesters : Appended(u)' = Appended(u)
    BY <2>1 DEF Appended, Flushing, Busy, Threads
  <2>4. EmptyHands'
    BY <1>0, <2>1 DEF EmptyHands, Busy
  <2> QED
    BY <2>1, <2>2, <2>3, <2>4, CallersUndisturbed
<1>4. CASE EndBatch(t)
  <2>1. /\ pc[t] = "process" /\ pc'[t] = cont[t] /\ batch[t] = <<>>
        /\ UNCHANGED <<buffer, batch, cont, cur, verdict, stored, failed>>
        /\ \A u \in Threads : u # t => pc'[u] = pc[u]
    BY <1>4 DEF EndBatch, Goto, TypeOK
  <2>2. Everywhere' = Everywhere /\ NothingTwice'
    BY <2>1, StayEffect
  <2>3. \A u \in Ingesters : Appended(u)' = Appended(u)
    BY <2>1 DEF Appended, Flushing, TypeOK, Threads
  <2>4. EmptyHands'
    BY <1>0, <2>1 DEF EmptyHands
  <2> QED
    BY <2>1, <2>2, <2>3, <2>4, CallersUndisturbed
<1> QED
  BY <1>1, <1>2, <1>3, <1>4 DEF Flush

\* Start, the flusher's waiting and Stop touch neither places nor callers.
LEMMA PlacesControl ==
    ASSUME TypeOK, PlacesInv,
           \/ \E f \in Flushers : FlushRoutine(f)
           \/ \E s \in Stoppers : Stop(s)
           \/ CancelContext
           \/ UNCHANGED vars
    PROVE  PlacesInv'
<1> USE ThreadsAssumption DEF PlacesInv, shared, outcome
<1>1. UNCHANGED <<buffer, batch, cont, cur, verdict, stored, failed>>
  BY DEF FlushRoutine, Start, Spawn, Tick, FlusherExit, Selects, Stop, StopBegin, CloseStopChan,
         WaitFlushers, AfterFlushers, CancelContext, vars
<1>2. \A t \in Ingesters : pc'[t] = pc[t]
  BY DEF FlushRoutine, Start, Spawn, Tick, FlusherExit, Selects, Stop, StopBegin, CloseStopChan,
         WaitFlushers, AfterFlushers, CancelContext, vars, Goto, TypeOK, Threads
<1>3. \A t \in Threads : pc[t] \in Busy => pc'[t] = pc[t]
  BY DEF FlushRoutine, Start, Spawn, Tick, FlusherExit, Selects, Stop, StopBegin, CloseStopChan,
         WaitFlushers, AfterFlushers, CancelContext, vars, Goto, TypeOK, Threads, Busy
<1>4. Everywhere' = Everywhere /\ NothingTwice'
  BY <1>1, StayEffect
<1>5. \A t \in Ingesters : Appended(t)' = Appended(t)
  BY <1>1, <1>2 DEF Appended
<1>6. EmptyHands'
  BY <1>1, <1>3 DEF EmptyHands, Whereabouts, Busy
<1> QED
  BY <1>1, <1>4, <1>5, <1>6, CallersUndisturbed

\* Appending the metric that ingester t carries or has just been given.
LEMMA PlacesEnqueue ==
    ASSUME TypeOK, PlacesInv, NEW t \in Ingesters, NEW m \in Metrics,
           m \notin Everywhere, m \notin Invalid, verdict[m] = "none",
           \A u \in Ingesters : u # t => cur[u] # m,
           pc[t] \notin Busy, cur[t] \in {NoMetric, m}, cur' = [cur EXCEPT ![t] = m],
           Enqueue(t, m), UNCHANGED <<batch, stored, failed, verdict>>
    PROVE  PlacesInv'
<1> USE DEF PlacesInv
<1>1. /\ buffer' = Append(buffer, m) /\ pc'[t] \in {"take", "return"} /\ cont'[t] = "return"
      /\ cur'[t] = m
      /\ \A u \in Threads : u # t => pc'[u] = pc[u] /\ cont'[u] = cont[u]
      /\ \A u \in Ingesters : u # t => cur'[u] = cur[u]
  BY DEF Enqueue, Goto, TypeOK, Threads
<1>2. Everywhere' = Everywhere \cup {m} /\ NothingTwice'
  BY <1>1, EnqueueEffect
<1>3. Appended(t)' /\ \A u \in Ingesters : u # t => Appended(u)' = Appended(u)
  BY <1>1 DEF Appended, Flushing, Threads
<1>4. NothingLost'
  BY <1>2 DEF NothingLost
<1>5. \A u \in Ingesters : cur'[u] # NoMetric =>
          /\ verdict'[cur'[u]] = "none" /\ cur'[u] \notin Invalid
          /\ cur'[u] \in Everywhere' <=> Appended(u)'
  BY <1>1, <1>2, <1>3 DEF Whereabouts
<1>6. \A u, v \in Ingesters : cur'[u] = cur'[v] /\ cur'[u] # NoMetric => u = v
  BY <1>1 DEF Whereabouts
<1>7. \A n \in Everywhere' : \/ verdict'[n] = "ok"
                             \/ verdict'[n] = "none" /\ \E u \in Ingesters : cur'[u] = n
  <2> SUFFICES ASSUME NEW n \in Everywhere', verdict'[n] # "ok"
               PROVE  verdict'[n] = "none" /\ \E u \in Ingesters : cur'[u] = n
    OBVIOUS
  <2>1. CASE n = m
    BY <2>1, <1>1
  <2>2. CASE n # m
    <3>1. n \in Everywhere
      BY <1>2, <2>2
    <3>2. PICK u \in Ingesters : cur[u] = n /\ verdict[n] = "none"
      BY <3>1 DEF Whereabouts
    <3>3. cur[t] # n
      BY <3>1, <2>2, MetricsAssumption, OnlyMetrics
    <3> QED
      BY <3>2, <3>3, <1>1
  <2> QED
    BY <2>1, <2>2
<1>8. EmptyHands'
  BY <1>1 DEF EmptyHands, Whereabouts, Busy, Threads
<1> QED
  BY <1>2, <1>4, <1>5, <1>6, <1>7, <1>8 DEF Whereabouts, EmptyHands, Busy

LEMMA PlacesIngest ==
    ASSUME TypeOK, PlacesInv, NEW t \in Ingesters, Ingest(t)
    PROVE  PlacesInv'
<1> USE MetricsAssumption DEF PlacesInv, shared, outcome
<1>0. Everywhere \subseteq Metrics /\ EmptyHands
  BY OnlyMetrics DEF Whereabouts, EmptyHands, Busy
<1>1. ASSUME NEW m \in Metrics, RejectInvalid(t, m) \/ RefuseStopped(t, m) PROVE PlacesInv'
  <2>1. /\ Submittable(m) /\ UNCHANGED <<buffer, batch, pc, cont, cur, stored, failed>>
        /\ verdict' \in [Metrics -> Verdicts] /\ verdict'[m] \notin {"ok", "none"}
        /\ \A n \in Metrics : n # m => verdict'[n] = verdict[n]
    BY <1>1 DEF RejectInvalid, RefuseStopped, TypeOK, Verdicts
  <2>2. Everywhere' = Everywhere /\ NothingTwice'
    BY <2>1, StayEffect
  <2>3. m \notin Everywhere
    BY <1>0, <2>1 DEF Whereabouts, Submittable
  <2>4. NothingLost'
    BY <2>1, <2>2 DEF NothingLost
  <2>5. \A u \in Ingesters : Appended(u)' = Appended(u) /\ cur'[u] = cur[u] /\ cur[u] # m
    BY <2>1 DEF Appended, Submittable
  <2>6. \A u \in Ingesters : cur'[u] # NoMetric =>
            /\ verdict'[cur'[u]] = "none" /\ cur'[u] \notin Invalid
            /\ cur'[u] \in Everywhere' <=> Appended(u)'
    BY <2>1, <2>2, <2>5 DEF Whereabouts, TypeOK
  <2>7. \A n \in Everywhere' : \/ verdict'[n] = "ok"
                               \/ verdict'[n] = "none" /\ \E u \in Ingesters : cur'[u] = n
    BY <1>0, <2>1, <2>2, <2>3 DEF Whereabouts
  <2> QED
    BY <1>0, <2>1, <2>2, <2>4, <2>6, <2>7 DEF Whereabouts, EmptyHands, Busy
<1>2. ASSUME NEW m \in Metrics, FlushForRoom(t, m) PROVE PlacesInv'
  <2>1. /\ Submittable(m) /\ m \notin Invalid /\ pc[t] = "idle"
        /\ UNCHANGED <<buffer, batch, stored, failed, verdict>>
        /\ pc'[t] = "take" /\ cont'[t] = "relock" /\ cur'[t] = m
        /\ \A u \in Threads : u # t => pc'[u] = pc[u] /\ cont'[u] = cont[u]
        /\ \A u \in Ingesters : u # t => cur'[u] = cur[u]
    BY <1>2 DEF FlushForRoom, Full, Goto, TypeOK, Threads
  <2>2. Everywhere' = Everywhere /\ NothingTwice'
    BY <2>1, StayEffect
  <2>3. m \notin Everywhere /\ verdict[m] = "none" /\ cur[t] = NoMetric
    BY <1>0, <2>1 DEF Whereabouts, Submittable, TypeOK
  <2>4. ~Appended(t)' /\ \A u \in Ingesters : u # t => Appended(u)' = Appended(u)
    BY <2>1 DEF Appended, Threads
  <2>5. NothingLost'
    BY <2>1, <2>2 DEF NothingLost
  <2>6. \A u \in Ingesters : cur'[u] # NoMetric =>
            /\ verdict'[cur'[u]] = "none" /\ cur'[u] \notin Invalid
            /\ cur'[u] \in Everywhere' <=> Appended(u)'
    BY <2>1, <2>2, <2>3, <2>4 DEF Whereabouts
  <2>7. \A u, v \in Ingesters : cur'[u] = cur'[v] /\ cur'[u] # NoMetric => u = v
    BY <2>1 DEF Whereabouts, Submittable
  <2>8. \A n \in Everywhere' : \/ verdict'[n] = "ok"
                               \/ verdict'[n] = "none" /\ \E u \in Ingesters : cur'[u] = n
    BY <1>0, <2>1, <2>2, <2>3 DEF Whereabouts
  <2>9. EmptyHands'
    BY <1>0, <2>1 DEF EmptyHands, Busy
  <2> QED
    BY <2>2, <2>5, <2>6, <2>7, <2>8, <2>9 DEF Whereabouts, EmptyHands, Busy
<1>3. ASSUME NEW m \in Metrics, Accept(t, m) PROVE PlacesInv'
  <2>1. /\ Submittable(m) /\ m \notin Invalid /\ pc[t] = "idle" /\ Enqueue(t, m)
        /\ UNCHANGED <<batch, stored, failed, verdict>> /\ cur' = [cur EXCEPT ![t] = m]
    BY <1>3 DEF Accept, Full
  <2>2. /\ m \notin Everywhere /\ verdict[m] = "none" /\ cur[t] = NoMetric
        /\ \A u \in Ingesters : u # t => cur[u] # m
    BY <1>0, <2>1 DEF Whereabouts, Submittable, TypeOK
  <2> QED
    BY <2>1, <2>2, PlacesEnqueue DEF Busy
<1>4. ASSUME AcceptAfterFlush(t) PROVE PlacesInv'
  <2> DEFINE m == cur[t]
  <2>1. /\ pc[t] = "relock" /\ Enqueue(t, m) /\ m \in Metrics
        /\ UNCHANGED <<batch, stored, failed, verdict>> /\ cur' = cur
    BY <1>4 DEF AcceptAfterFlush, TypeOK
  <2>2. cur' = [cur EXCEPT ![t] = m]
    BY <2>1 DEF TypeOK
  <2>3. /\ m \notin Everywhere /\ verdict[m] = "none" /\ m \notin Invalid
        /\ \A u \in Ingesters : u # t => cur[u] # m
    BY <2>1 DEF Whereabouts, Appended, Flushing
  <2> HIDE DEF m
  <2>4. cur[t] \in {NoMetric, m}
    BY DEF m
  <2> QED
    BY <2>1, <2>2, <2>3, <2>4, PlacesEnqueue DEF Busy
<1>5. ASSUME ReturnOk(t) PROVE PlacesInv'
  <2> DEFINE m == cur[t]
  <2>1. /\ pc[t] = "return" /\ m \in Metrics /\ Appended(t)
        /\ UNCHANGED <<buffer, batch, cont, stored, failed>>
        /\ verdict' = [verdict EXCEPT ![m] = "ok"]
        /\ pc'[t] = "idle" /\ \A u \in Threads : u # t => pc'[u] = pc[u]
        /\ cur'[t] = NoMetric /\ \A u \in Ingesters : u # t => cur'[u] = cur[u]
    BY <1>5 DEF ReturnOk, Goto, TypeOK, Threads, Appended
  <2>2. m \in Everywhere /\ \A u \in Ingesters : u # t => cur[u] # m
    BY <2>1 DEF Whereabouts
  <2> HIDE DEF m
  <2>3. verdict'[m] = "ok" /\ \A n \in Metrics : n # m => verdict'[n] = verdict[n]
    BY <2>1 DEF TypeOK
  <2>4. Everywhere' = Everywhere /\ NothingTwice'
    BY <2>1, StayEffect
  <2>5. NothingLost'
    BY <2>2, <2>3, <2>4 DEF NothingLost
  <2>6. \A u \in Ingesters : u # t => Appended(u)' = Appended(u)
    BY <2>1 DEF Appended, Threads
  <2>7. \A u \in Ingesters : cur'[u] # NoMetric =>
            /\ verdict'[cur'[u]] = "none" /\ cur'[u] \notin Invalid
            /\ cur'[u] \in Everywhere' <=> Appended(u)'
    BY <2>1, <2>2, <2>3, <2>4, <2>6 DEF Whereabouts, TypeOK
  <2>8. \A u, v \in Ingesters : cur'[u] = cur'[v] /\ cur'[u] # NoMetric => u = v
    BY <2>1 DEF Whereabouts
  <2>9. \A n \in Everywhere' : \/ verdict'[n] = "ok"
                               \/ verdict'[n] = "none" /\ \E u \in Ingesters : cur'[u] = n
    <3> SUFFICES ASSUME NEW n \in Everywhere, n # m, verdict[n] # "ok"
                 PROVE  verdict[n] = "none" /\ \E u \in Ingesters : cur'[u] = n
      BY <1>0, <2>3, <2>4
    <3>1. PICK u \in Ingesters : cur[u] = n /\ verdict[n] = "none"
      BY DEF Whereabouts
    <3>2. u # t
      BY <3>1 DEF m
    <3> QED
      BY <3>1, <3>2, <2>1
  <2>10. EmptyHands'
    BY <1>0, <2>1 DEF EmptyHands, Busy
  <2> QED
    BY <2>4, <2>5, <2>7, <2>8, <2>9, <2>10 DEF Whereabouts, EmptyHands, Busy
<1> QED
  BY <1>1, <1>2, <1>3, <1>4, <1>5 DEF Ingest

LEMMA PlacesStep == TypeOK /\ PlacesInv /\ [Next]_vars => PlacesInv'
  BY PlacesIngest, PlacesFlush, PlacesControl DEF Next

LEMMA PlacesInvariant == Spec => []PlacesInv
<1>1. TypeOK /\ PlacesInv /\ [Next]_vars => (TypeOK /\ PlacesInv)'
  BY TypeStep, PlacesStep
<1> QED
  BY <1>1, TypeInit, PlacesInit, PTL DEF Spec

\* However many goroutines ingest, flush and stop at once, a metric whose
\* IngestMetric returned nil is never dropped.
THEOREM NothingEverLost == Spec => []NothingLost
<1>1. PlacesInv => NothingLost
  BY DEF PlacesInv
<1> QED
  BY <1>1, PlacesInvariant, PTL

\* Nor is a metric ever held, or handed to the storage, twice.
THEOREM NothingEverTwice == Spec => []NothingTwice
<1>1. PlacesInv => NothingTwice
  BY DEF PlacesInv
<1> QED
  BY <1>1, PlacesInvariant, PTL

(***************************************************************************)
(* The size of the buffer.                                                 *)
(***************************************************************************)

\* The bypassing ingesters are finitely many, at most all of them, and fewer
\* while one ingester is not bypassing.
LEMMA BypassCount ==
    /\ IsFiniteSet(Bypassing) /\ Cardinality(Bypassing) \in Nat
    /\ Cardinality(Ingesters) \in Nat \ {0}
    /\ Cardinality(Bypassing) <= Cardinality(Ingesters)
    /\ \A t \in Ingesters : t \notin Bypassing =>
          Cardinality(Bypassing) <= Cardinality(Ingesters) - 1
<1> USE ThreadsAssumption
<1>1. Bypassing \subseteq Ingesters
  BY DEF Bypassing
<1>2. IsFiniteSet(Bypassing) /\ Cardinality(Bypassing) <= Cardinality(Ingesters)
  BY <1>1, FS_Subset
<1>3. Cardinality(Bypassing) \in Nat /\ Cardinality(Ingesters) \in Nat
  BY <1>2, FS_CardinalityType
<1>4. Cardinality(Ingesters) # 0
  BY FS_EmptySet
<1>5. ASSUME NEW t \in Ingesters, t \notin Bypassing
      PROVE  Cardinality(Bypassing) <= Cardinality(Ingesters) - 1
  <2>1. IsFiniteSet(Ingesters \ {t})
        /\ Cardinality(Ingesters \ {t}) = Cardinality(Ingesters) - 1
    BY FS_RemoveElement
  <2>2. Bypassing \subseteq Ingesters \ {t}
    BY <1>1, <1>5
  <2> QED
    BY <2>1, <2>2, FS_Subset
<1> QED
  BY <1>2, <1>3, <1>4, <1>5

LEMMA BudgetInit == Init => BufferBudget
<1> SUFFICES ASSUME Init PROVE BufferBudget
  OBVIOUS
<1>1. Len(buffer) = 0
  BY DEF Init
<1>2. Cardinality(Bypassing) <= Cardinality(Ingesters)
  BY BypassCount
<1> QED
  BY <1>1, <1>2, BypassCount, SizesAssumption DEF BufferBudget

\* No step of any thread outspends the budget: a caller that finds room is not
\* bypassing, a flush empties the buffer, and a bypassing caller that appends
\* stops bypassing.
LEMMA BudgetStep == TypeOK /\ BufferBudget /\ [Next]_vars => BufferBudget'
<1> SUFFICES ASSUME TypeOK, BufferBudget, [Next]_vars PROVE BufferBudget'
  OBVIOUS
<1> USE ThreadsAssumption, SizesAssumption DEF shared, outcome
<1> DEFINE Same == Bypassing' = Bypassing /\ buffer' = buffer
<1>1. Same => BufferBudget'
  BY DEF BufferBudget
<1>2. Len(buffer) \in Nat
  BY DEF TypeOK
<1>3. ASSUME NEW t \in Ingesters, Ingest(t) PROVE BufferBudget'
  <2>1. ASSUME NEW m \in Metrics, RejectInvalid(t, m) \/ RefuseStopped(t, m) \/ FlushForRoom(t, m)
        PROVE  Same
    BY <2>1 DEF RejectInvalid, RefuseStopped, FlushForRoom, Full, Goto, TypeOK, Bypassing, Threads
  <2>2. ASSUME ReturnOk(t) PROVE Same
    BY <2>2 DEF ReturnOk, Goto, TypeOK, Bypassing, Threads
  <2>3. ASSUME NEW m \in Metrics, Accept(t, m) PROVE BufferBudget'
    <3>1. Bypassing' = Bypassing /\ t \notin Bypassing
      BY <2>3 DEF Accept, Full, Enqueue, Goto, TypeOK, Bypassing, Threads
    <3>2. Len(buffer') = Len(buffer) + 1 /\ Len(buffer) < BufferSize
      BY <2>3 DEF Accept, Full, Enqueue, TypeOK
    <3> QED
      BY <1>2, <3>1, <3>2, BypassCount DEF BufferBudget
  <2>4. ASSUME AcceptAfterFlush(t) PROVE BufferBudget'
    <3>1. Bypassing' = Bypassing \ {t} /\ t \in Bypassing
      BY <2>4 DEF AcceptAfterFlush, Enqueue, Goto, TypeOK, Bypassing, Threads
    <3>2. Len(buffer') = Len(buffer) + 1
      BY <2>4 DEF AcceptAfterFlush, Enqueue, TypeOK
    <3>3. Cardinality(Bypassing') = Cardinality(Bypassing) - 1
      BY <3>1, BypassCount, FS_RemoveElement
    <3> QED
      BY <1>2, <3>2, <3>3, BypassCount DEF BufferBudget
  <2> QED
    BY <1>1, <1>3, <2>1, <2>2, <2>3, <2>4 DEF Ingest
<1>4. ASSUME NEW t \in Threads, Flush(t) PROVE BufferBudget'
  <2>1. CASE TakeBatch(t)
    <3>1. Len(buffer') = 0
      BY <2>1 DEF TakeBatch, NothingToFlush, CopyAndClear
    <3>2. Cardinality(Bypassing)' \in Nat /\ Cardinality(Bypassing)' <= Cardinality(Ingesters)
      <4>1. Bypassing' \subseteq Ingesters
        BY DEF Bypassing
      <4> QED
        BY <4>1, FS_Subset, FS_CardinalityType
    <3> QED
      BY <3>1, <3>2, BypassCount DEF BufferBudget
  <2>2. CASE StoreMetric(t)
    <3>1. Same
      BY <2>2 DEF StoreMetric, AddPoint, Goto, TypeOK, Bypassing, Threads
    <3> QED
      BY <1>1, <3>1
  <2>3. CASE CountProcessed(t) \/ CountError(t) \/ EndBatch(t)
    <3>1. Same
      BY <2>3 DEF CountProcessed, CountError, CountAs, EndBatch, Goto, TypeOK, Bypassing, Threads
    <3> QED
      BY <1>1, <3>1
  <2> QED
    BY <1>4, <2>1, <2>2, <2>3 DEF Flush
<1>5. ASSUME \/ \E f \in Flushers : FlushRoutine(f)
             \/ \E s \in Stoppers : Stop(s)
             \/ CancelContext
             \/ UNCHANGED vars
      PROVE  Same
  <2>1. buffer' = buffer /\ cont' = cont /\ \A t \in Ingesters : pc'[t] = pc[t]
    BY <1>5 DEF FlushRoutine, Start, Spawn, Tick, FlusherExit, Selects, Stop, StopBegin, CloseStopChan,
           WaitFlushers, AfterFlushers, CancelContext, vars, Goto, TypeOK, Threads
  <2> QED
    BY <2>1 DEF Bypassing
<1> QED
  BY <1>1, <1>3, <1>4, <1>5 DEF Next

\* The buffer exceeds bufferSize by less than the number of callers, for any
\* sizes and any number of callers.  BufferBound is not inductive: a caller back
\* from its flush for room appends to whatever it finds, so the budget counts
\* those callers too.
THEOREM BufferBounded == Spec => []BufferBound
<1>1. TypeOK /\ BufferBudget => BufferBound
  <2> SUFFICES ASSUME TypeOK, BufferBudget PROVE BufferBound
    OBVIOUS
  <2>1. Len(buffer) \in Nat
    BY DEF TypeOK
  <2> QED
    BY <2>1, BypassCount, SizesAssumption DEF BufferBudget, BufferBound
<1>2. TypeOK /\ BufferBudget /\ [Next]_vars => (TypeOK /\ BufferBudget)'
  BY TypeStep, BudgetStep
<1> QED
  BY <1>1, <1>2, TypeInit, BudgetInit, PTL DEF Spec

(***************************************************************************)
(* The counters.                                                           *)
(***************************************************************************)
LEMMA OneMore ==
    ASSUME NEW S, IsFiniteSet(S), NEW x, x \notin S, NEW T, T = S \cup {x}
    PROVE  IsFiniteSet(T) /\ Cardinality(S) \in Nat /\ Cardinality(T) = Cardinality(S) + 1
BY FS_AddElement, FS_CardinalityType

LEMMA OneLess ==
    ASSUME NEW S, IsFiniteSet(S), NEW x \in S, NEW T, T = S \ {x}
    PROVE  IsFiniteSet(T) /\ Cardinality(S) \in Nat /\ Cardinality(T) = Cardinality(S) - 1
BY FS_RemoveElement, FS_CardinalityType

LEMMA Apart ==
    ASSUME NEW S, IsFiniteSet(S), NEW T, IsFiniteSet(T), S \cap T = {}, NEW U, U = S \cup T
    PROVE  IsFiniteSet(U) /\ Cardinality(U) = Cardinality(S) + Cardinality(T)
<1>1. /\ IsFiniteSet(S \cup T)
      /\ Cardinality(S \cup T) = Cardinality(S) + Cardinality(T) - Cardinality(S \cap T)
  BY FS_Union, Zenon
<1>2. Cardinality(S \cap T) = 0
  BY FS_EmptySet
<1>3. Cardinality(S) \in Nat /\ Cardinality(T) \in Nat
  BY FS_CardinalityType
<1> QED
  BY <1>1, <1>2, <1>3

LEMMA FiniteMetrics ==
    ASSUME NEW S \in SUBSET Metrics
    PROVE  IsFiniteSet(S) /\ Cardinality(S) \in Nat
<1>1. IsFiniteSet(S)
  BY MetricsAssumption, FS_Subset
<1> QED
  BY <1>1, FS_CardinalityType

LEMMA PlacesOfMetrics ==
    ASSUME TypeOK
    PROVE  /\ Everywhere \in SUBSET Metrics /\ Queued \in SUBSET Metrics
           /\ InFlight \in SUBSET Metrics /\ Settled \in SUBSET Metrics
           /\ stored \in SUBSET Metrics /\ failed \in SUBSET Metrics /\ Rejected \in SUBSET Metrics
BY OnlyMetrics DEF Everywhere, Rejected, TypeOK

\* Each counter with the threads that stand between the storage and it.  The
\* threads may be infinitely many, those that stand there may not.
Counts ==
    /\ stats.ingested = Cardinality(Everywhere)
    /\ IsFiniteSet(Tallying("tallyOk"))
    /\ stats.processed + Cardinality(Tallying("tallyOk")) = Cardinality(stored)
    /\ IsFiniteSet(Tallying("tallyErr"))
    /\ stats.errors + Cardinality(Tallying("tallyErr")) = Cardinality(failed) + Cardinality(Rejected)
    /\ IsFiniteSet(Emptied) /\ BatchBudget

LEMMA CountsInit == Init => Counts
<1> SUFFICES ASSUME Init PROVE Counts
  OBVIOUS
<1>1. /\ Tallying("tallyOk") = {} /\ Tallying("tallyErr") = {} /\ Emptied = {}
      /\ stored = {} /\ failed = {} /\ Rejected = {} /\ Settled = {}
  BY DEF Init, Tallying, Emptied, Rejected, Settled
<1>2. Everywhere = {}
  <2>1. Queued = {} /\ \A t \in Threads : Held(t) = {}
    BY EmptyElements DEF Init, Queued, Held
  <2> QED
    BY <1>1, <2>1 DEF Everywhere, InFlight
<1>3. Cardinality({}) = 0 /\ IsFiniteSet({})
  BY FS_EmptySet
<1>4. stats.ingested = 0 /\ stats.processed = 0 /\ stats.errors = 0 /\ stats.batches = 0
  BY DEF Init
<1> QED
  BY <1>1, <1>2, <1>3, <1>4 DEF Counts, BatchBudget

\* A step that concerns no counter.
LEMMA CountsSame ==
    ASSUME Counts, Everywhere' = Everywhere, UNCHANGED <<stored, failed, stats>>,
           Rejected' = Rejected, Emptied' = Emptied,
           \A l \in {"tallyOk", "tallyErr"} : Tallying(l)' = Tallying(l)
    PROVE  Counts'
<1>1. Settled' = Settled
  BY DEF Settled
<1>2. Tallying("tallyOk")' = Tallying("tallyOk") /\ Tallying("tallyErr")' = Tallying("tallyErr")
  OBVIOUS
<1> QED
  BY <1>1, <1>2 DEF Counts, BatchBudget

\* Threads move past the counters only inside a flush.
LEMMA NotTallying ==
    ASSUME NEW t \in Threads, pc[t] \notin Busy, pc'[t] \notin Busy,
           \A u \in Threads : u # t => pc'[u] = pc[u], batch' = batch
    PROVE  Emptied' = Emptied /\ \A l \in {"tallyOk", "tallyErr"} : Tallying(l)' = Tallying(l)
BY DEF Emptied, Tallying, Busy

LEMMA CountsReject ==
    ASSUME TypeOK, Counts, NEW t \in Ingesters, NEW m \in Metrics, RejectInvalid(t, m)
    PROVE  Counts'
<1>1. /\ verdict' = [verdict EXCEPT ![m] = "invalid"] /\ verdict[m] = "none"
      /\ stats' = [stats EXCEPT !.errors = @ + 1]
      /\ UNCHANGED <<buffer, batch, pc, stored, failed>>
  BY DEF RejectInvalid, Submittable, Bump, shared, outcome
<1>2. Rejected' = Rejected \cup {m} /\ m \notin Rejected
  BY <1>1 DEF Rejected, TypeOK
<1>3. Everywhere' = Everywhere /\ Settled' = Settled /\ Emptied' = Emptied
  BY <1>1, StayEffect DEF Settled, Emptied
<1>4. Tallying("tallyOk")' = Tallying("tallyOk") /\ Tallying("tallyErr")' = Tallying("tallyErr")
  BY <1>1 DEF Tallying
<1>5. IsFiniteSet(Rejected) /\ Cardinality(failed) \in Nat
  BY PlacesOfMetrics, FiniteMetrics
<1>6. Cardinality(Rejected') = Cardinality(Rejected) + 1 /\ Cardinality(Rejected) \in Nat
  BY <1>2, <1>5, OneMore
<1>7. Cardinality(Tallying("tallyErr")) \in Nat
  BY FS_CardinalityType DEF Counts
<1>8. /\ stats.errors \in Nat /\ stats'.errors = stats.errors + 1
      /\ stats'.ingested = stats.ingested /\ stats'.processed = stats.processed
      /\ stats'.batches = stats.batches
  BY <1>1 DEF TypeOK, Stats
<1>9. stats'.errors + Cardinality(Tallying("tallyErr")) = Cardinality(failed) + Cardinality(Rejected')
  BY <1>5, <1>6, <1>7, <1>8 DEF Counts
<1> QED
  BY <1>1, <1>3, <1>4, <1>8, <1>9 DEF Counts, BatchBudget

\* Appending the metric that is nowhere yet.
LEMMA CountsEnqueue ==
    ASSUME TypeOK, NothingTwice, Counts, NEW t \in Ingesters, NEW m \in Metrics, m \notin Everywhere,
           pc[t] \notin Busy, Enqueue(t, m), UNCHANGED <<batch, stored, failed, verdict>>
    PROVE  Counts'
<1>1. /\ buffer' = Append(buffer, m) /\ pc'[t] \notin Busy
      /\ \A u \in Threads : u # t => pc'[u] = pc[u]
      /\ stats' = [stats EXCEPT !.ingested = @ + 1]
  BY DEF Enqueue, Goto, Bump, TypeOK, Threads, Busy
<1>2. Everywhere' = Everywhere \cup {m}
  BY <1>1, EnqueueEffect
<1>3. t \in Threads
  BY DEF Threads
<1>4. Emptied' = Emptied /\ \A l \in {"tallyOk", "tallyErr"} : Tallying(l)' = Tallying(l)
  BY <1>1, <1>3, NotTallying
<1>5. Tallying("tallyOk")' = Tallying("tallyOk") /\ Tallying("tallyErr")' = Tallying("tallyErr")
  BY <1>4
<1>6. IsFiniteSet(Everywhere)
  BY PlacesOfMetrics, FiniteMetrics
<1>7. Cardinality(Everywhere') = Cardinality(Everywhere) + 1
  BY <1>2, <1>6, OneMore
<1>8. /\ stats'.ingested = stats.ingested + 1 /\ stats'.processed = stats.processed
      /\ stats'.errors = stats.errors /\ stats'.batches = stats.batches
  BY <1>1 DEF TypeOK, Stats
<1>9. Rejected' = Rejected /\ Settled' = Settled
  BY DEF Rejected, Settled
<1> QED
  BY <1>4, <1>5, <1>7, <1>8, <1>9 DEF Counts, BatchBudget

LEMMA CountsIngest ==
    ASSUME TypeOK, PlacesInv, Counts, NEW t \in Ingesters, Ingest(t)
    PROVE  Counts'
<1> USE DEF PlacesInv, shared, outcome
<1>0. t \in Threads /\ Everywhere \subseteq Metrics
  BY OnlyMetrics DEF Threads
<1>1. ASSUME NEW m \in Metrics, RejectInvalid(t, m) PROVE Counts'
  BY <1>1, CountsReject
<1>2. ASSUME NEW m \in Metrics, RefuseStopped(t, m) PROVE Counts'
  <2>1. /\ verdict' = [verdict EXCEPT ![m] = "notRunning"] /\ verdict[m] = "none"
        /\ UNCHANGED <<buffer, batch, pc, stored, failed, stats>>
    BY <1>2 DEF RefuseStopped, Submittable
  <2>2. Rejected' = Rejected
    BY <2>1 DEF Rejected, TypeOK
  <2>3. Everywhere' = Everywhere /\ Emptied' = Emptied
    BY <2>1, StayEffect DEF Emptied
  <2>4. \A l \in {"tallyOk", "tallyErr"} : Tallying(l)' = Tallying(l)
    BY <2>1 DEF Tallying
  <2> QED
    BY <2>1, <2>2, <2>3, <2>4, CountsSame
<1>3. ASSUME NEW m \in Metrics, FlushForRoom(t, m) PROVE Counts'
  <2>1. /\ pc[t] \notin Busy /\ pc'[t] \notin Busy
        /\ \A u \in Threads : u # t => pc'[u] = pc[u]
        /\ UNCHANGED <<buffer, batch, stored, failed, verdict, stats>>
    BY <1>0, <1>3 DEF FlushForRoom, Goto, TypeOK, Busy
  <2>2. Everywhere' = Everywhere /\ Rejected' = Rejected
    BY <2>1, StayEffect DEF Rejected
  <2>3. Emptied' = Emptied /\ \A l \in {"tallyOk", "tallyErr"} : Tallying(l)' = Tallying(l)
    BY <1>0, <2>1, NotTallying
  <2> QED
    BY <2>1, <2>2, <2>3, CountsSame
<1>4. ASSUME NEW m \in Metrics, Accept(t, m) PROVE Counts'
  <2>1. /\ pc[t] \notin Busy /\ Enqueue(t, m) /\ UNCHANGED <<batch, stored, failed, verdict>>
        /\ Submittable(m)
    BY <1>4 DEF Accept, Busy
  <2>2. m \notin Everywhere
    BY <1>0, <2>1 DEF Whereabouts, Submittable
  <2> QED
    BY <2>1, <2>2, CountsEnqueue
<1>5. ASSUME AcceptAfterFlush(t) PROVE Counts'
  <2>1. PICK m \in Metrics : m = cur[t]
    BY <1>5 DEF AcceptAfterFlush, TypeOK
  <2>2. pc[t] \notin Busy /\ Enqueue(t, m) /\ UNCHANGED <<batch, stored, failed, verdict>>
    BY <1>5, <2>1 DEF AcceptAfterFlush, Busy
  <2>3. m \notin Everywhere
    <3>1. ~Appended(t)
      BY <1>5 DEF AcceptAfterFlush, Appended, Flushing
    <3> QED
      BY <2>1, <3>1, MetricsAssumption DEF Whereabouts
  <2> QED
    BY <2>2, <2>3, CountsEnqueue
<1>6. ASSUME ReturnOk(t) PROVE Counts'
  <2>1. PICK m \in Metrics : m = cur[t]
    BY <1>6 DEF ReturnOk, TypeOK
  <2>2. /\ pc[t] \notin Busy /\ pc'[t] \notin Busy
        /\ \A u \in Threads : u # t => pc'[u] = pc[u]
        /\ UNCHANGED <<buffer, batch, stored, failed, stats>>
        /\ verdict' = [verdict EXCEPT ![m] = "ok"]
    BY <1>0, <1>6, <2>1 DEF ReturnOk, Goto, TypeOK, Busy
  <2>3. verdict[m] = "none"
    BY <2>1, MetricsAssumption DEF Whereabouts
  <2>4. Everywhere' = Everywhere /\ Rejected' = Rejected
    BY <2>2, <2>3, StayEffect DEF Rejected, TypeOK
  <2>5. Emptied' = Emptied /\ \A l \in {"tallyOk", "tallyErr"} : Tallying(l)' = Tallying(l)
    BY <1>0, <2>2, NotTallying
  <2> QED
    BY <2>2, <2>4, <2>5, CountsSame
<1> QED
  BY <1>1, <1>2, <1>3, <1>4, <1>5, <1>6 DEF Ingest

\* processBatch hands a metric to the storage, and stands before the counter.
LEMMA CountsStore ==
    ASSUME TypeOK, NothingTwice, Counts, NEW t \in Threads, StoreMetric(t)
    PROVE  Counts'
<1> DEFINE h == Head(batch[t])
           ok == Tallying("tallyOk")
           err == Tallying("tallyErr")
<1>1. /\ pc[t] = "process" /\ batch[t] # <<>> /\ UNCHANGED <<verdict, stats>>
      /\ \/ stored' = stored \cup {h} /\ failed' = failed /\ pc' = [pc EXCEPT ![t] = "tallyOk"]
         \/ failed' = failed \cup {h} /\ stored' = stored /\ pc' = [pc EXCEPT ![t] = "tallyErr"]
      /\ batch' = [batch EXCEPT ![t] = Tail(batch[t])]
  BY DEF StoreMetric, AddPoint, Goto, shared
<1>2. Everywhere' = Everywhere
  BY StoreEffect
<1>3. h \in Metrics /\ h \notin Settled
  <2>1. batch[t] \in Seq(Metrics)
    BY DEF TypeOK
  <2>2. h \in Metrics /\ h \in Held(t)
    BY <1>1, <2>1, HeadTailElements DEF Held
  <2> QED
    BY <2>2 DEF NothingTwice, InFlight
<1>4. \A u \in Threads : u # t => pc'[u] = pc[u] /\ batch'[u] = batch[u]
  BY <1>1 DEF TypeOK
<1>5. pc'[t] \in {"tallyOk", "tallyErr"} /\ pc \in [Threads -> Places]
  BY <1>1 DEF TypeOK
<1>6. t \notin ok /\ t \notin err /\ t \notin Emptied
  BY <1>1 DEF Tallying, Emptied
<1>7. Rejected' = Rejected
  BY <1>1 DEF Rejected
<1>8. /\ IsFiniteSet(stored) /\ Cardinality(stored) \in Nat
      /\ IsFiniteSet(failed) /\ Cardinality(failed) \in Nat
      /\ IsFiniteSet(Settled) /\ Cardinality(Settled) \in Nat
      /\ Cardinality(Rejected) \in Nat
  BY PlacesOfMetrics, FiniteMetrics
<1>9. /\ IsFiniteSet(ok) /\ Cardinality(ok) \in Nat /\ IsFiniteSet(err) /\ Cardinality(err) \in Nat
      /\ IsFiniteSet(Emptied) /\ Cardinality(Emptied) \in Nat
  BY FS_CardinalityType DEF Counts
<1>10. stats \in Stats /\ stats' = stats
  BY <1>1 DEF TypeOK
<1> HIDE DEF h
<1>11. Settled' = Settled \cup {h} /\ h \notin stored /\ h \notin failed
  BY <1>1, <1>3 DEF Settled
<1>12. Cardinality(Settled') = Cardinality(Settled) + 1
  BY <1>3, <1>8, <1>11, OneMore
<1>13. IsFiniteSet(Emptied)' /\ Cardinality(Emptied') <= Cardinality(Emptied) + 1
       /\ Cardinality(Emptied') \in Nat
  <2>1. Emptied' \subseteq Emptied \cup {t}
    BY <1>4 DEF Emptied
  <2>2. /\ IsFiniteSet(Emptied \cup {t}) /\ Cardinality(Emptied \cup {t}) = Cardinality(Emptied) + 1
    BY <1>6, <1>9, OneMore
  <2>3. IsFiniteSet(Emptied') /\ Cardinality(Emptied') <= Cardinality(Emptied \cup {t})
    BY <2>1, <2>2, FS_Subset
  <2> QED
    BY <2>2, <2>3, FS_CardinalityType
<1>14. BatchBudget'
  BY <1>8, <1>9, <1>10, <1>12, <1>13 DEF Counts, BatchBudget, Stats
<1>15. CASE stored' = stored \cup {h} /\ failed' = failed /\ pc' = [pc EXCEPT ![t] = "tallyOk"]
  <2>1. ok' = ok \cup {t} /\ err' = err
    BY <1>1, <1>4, <1>5, <1>15 DEF Tallying
  <2> HIDE DEF ok, err
  <2>2. IsFiniteSet(ok') /\ Cardinality(ok') = Cardinality(ok) + 1
    BY <1>6, <1>9, <2>1, OneMore
  <2>3. Cardinality(stored') = Cardinality(stored) + 1
    BY <1>8, <1>11, <1>15, OneMore
  <2>4. stats'.processed + Cardinality(ok') = Cardinality(stored')
    BY <1>8, <1>9, <1>10, <2>2, <2>3 DEF Counts, Stats, ok
  <2> QED
    BY <1>2, <1>7, <1>10, <1>13, <1>14, <1>15, <2>1, <2>2, <2>4 DEF Counts, ok, err
<1>16. CASE failed' = failed \cup {h} /\ stored' = stored /\ pc' = [pc EXCEPT ![t] = "tallyErr"]
  <2>1. err' = err \cup {t} /\ ok' = ok
    BY <1>1, <1>4, <1>5, <1>16 DEF Tallying
  <2> HIDE DEF ok, err
  <2>2. IsFiniteSet(err') /\ Cardinality(err') = Cardinality(err) + 1
    BY <1>6, <1>9, <2>1, OneMore
  <2>3. Cardinality(failed') = Cardinality(failed) + 1
    BY <1>8, <1>11, <1>16, OneMore
  <2>4. stats'.errors + Cardinality(err') = Cardinality(failed') + Cardinality(Rejected)
    BY <1>8, <1>9, <1>10, <2>2, <2>3 DEF Counts, Stats, err
  <2> QED
    BY <1>2, <1>7, <1>10, <1>13, <1>14, <1>16, <2>1, <2>2, <2>4 DEF Counts, ok, err
<1> QED
  BY <1>1, <1>15, <1>16

\* The two counters of a metric.
LEMMA CountsTally ==
    ASSUME TypeOK, Counts, NEW t \in Threads, CountProcessed(t) \/ CountError(t)
    PROVE  Counts'
<1> DEFINE ok == Tallying("tallyOk")
           err == Tallying("tallyErr")
<1>1. /\ pc[t] \in {"tallyOk", "tallyErr"} /\ pc' = [pc EXCEPT ![t] = "process"]
      /\ UNCHANGED <<buffer, batch, stored, failed, verdict>>
  BY DEF CountProcessed, CountError, CountAs, Goto, outcome
<1>2. pc'[t] = "process" /\ \A u \in Threads : u # t => pc'[u] = pc[u]
  BY <1>1 DEF TypeOK
<1>3. Everywhere' = Everywhere /\ Rejected' = Rejected /\ Settled' = Settled
  BY <1>1, StayEffect DEF Rejected, Settled
<1>4. Emptied' = Emptied
  BY <1>1, <1>2 DEF Emptied
<1>5. IsFiniteSet(ok) /\ Cardinality(ok) \in Nat /\ IsFiniteSet(err) /\ Cardinality(err) \in Nat
  BY FS_CardinalityType DEF Counts
<1>6. CASE CountProcessed(t)
  <2>1. pc[t] = "tallyOk" /\ stats' = [stats EXCEPT !.processed = @ + 1]
    BY <1>6 DEF CountProcessed, Bump
  <2>2. /\ stats.processed \in Nat /\ stats'.processed = stats.processed + 1
        /\ stats'.ingested = stats.ingested /\ stats'.errors = stats.errors
        /\ stats'.batches = stats.batches
    BY <2>1 DEF TypeOK, Stats
  <2>3. t \in ok /\ ok' = ok \ {t} /\ err' = err
    BY <1>2, <2>1 DEF Tallying
  <2> HIDE DEF ok, err
  <2>4. IsFiniteSet(ok') /\ Cardinality(ok') = Cardinality(ok) - 1
    BY <1>5, <2>3, OneLess
  <2>5. stats'.processed + Cardinality(ok') = Cardinality(stored)
    BY <1>5, <2>2, <2>4 DEF Counts, ok
  <2> QED
    BY <1>1, <1>3, <1>4, <2>2, <2>3, <2>4, <2>5 DEF Counts, BatchBudget, ok, err
<1>7. CASE CountError(t)
  <2>1. pc[t] = "tallyErr" /\ stats' = [stats EXCEPT !.errors = @ + 1]
    BY <1>7 DEF CountError, CountAs, Bump
  <2>2. /\ stats.errors \in Nat /\ stats'.errors = stats.errors + 1
        /\ stats'.ingested = stats.ingested /\ stats'.processed = stats.processed
        /\ stats'.batches = stats.batches
    BY <2>1 DEF TypeOK, Stats
  <2>3. t \in err /\ err' = err \ {t} /\ ok' = ok
    BY <1>2, <2>1 DEF Tallying
  <2> HIDE DEF ok, err
  <2>4. IsFiniteSet(err') /\ Cardinality(err') = Cardinality(err) - 1
    BY <1>5, <2>3, OneLess
  <2>5. stats'.errors + Cardinality(err') = stats.errors + Cardinality(err)
    BY <1>5, <2>2, <2>4
  <2> QED
    BY <1>1, <1>3, <1>4, <2>2, <2>3, <2>4, <2>5 DEF Counts, BatchBudget, ok, err
<1> QED
  BY <1>6, <1>7

\* A batch is counted once, by the thread that emptied it.
LEMMA CountsBatch ==
    ASSUME TypeOK, Counts, NEW t \in Threads, EndBatch(t)
    PROVE  Counts'
<1>1. /\ pc[t] = "process" /\ batch[t] = <<>> /\ pc' = [pc EXCEPT ![t] = cont[t]]
      /\ stats' = [stats EXCEPT !.batches = @ + 1]
      /\ UNCHANGED <<buffer, batch, stored, failed, verdict>>
  BY DEF EndBatch, Goto, Bump, outcome
<1>2. pc'[t] \notin Busy /\ \A u \in Threads : u # t => pc'[u] = pc[u]
  BY <1>1 DEF TypeOK, Returns, Busy
<1>3. Everywhere' = Everywhere /\ Rejected' = Rejected /\ Settled' = Settled
  BY <1>1, StayEffect DEF Rejected, Settled
<1>4. t \in Emptied /\ Emptied' = Emptied \ {t}
  BY <1>1, <1>2 DEF Emptied, Busy
<1>5. \A l \in {"tallyOk", "tallyErr"} : Tallying(l)' = Tallying(l)
  BY <1>1, <1>2 DEF Tallying, Busy
<1>6. Tallying("tallyOk")' = Tallying("tallyOk") /\ Tallying("tallyErr")' = Tallying("tallyErr")
  BY <1>5
<1>7. IsFiniteSet(Emptied)
  BY DEF Counts
<1>8. /\ IsFiniteSet(Emptied') /\ Cardinality(Emptied) \in Nat
      /\ Cardinality(Emptied') = Cardinality(Emptied) - 1
  BY <1>4, <1>7, OneLess
<1>9. /\ stats.batches \in Nat /\ stats'.batches = stats.batches + 1
      /\ stats'.ingested = stats.ingested /\ stats'.processed = stats.processed
      /\ stats'.errors = stats.errors
  BY <1>1 DEF TypeOK, Stats
<1>10. stats'.batches + Cardinality(Emptied') = stats.batches + Cardinality(Emptied)
  BY <1>8, <1>9
<1> QED
  BY <1>1, <1>3, <1>6, <1>8, <1>9, <1>10 DEF Counts, BatchBudget

LEMMA CountsTake ==
    ASSUME TypeOK, PlacesInv, Counts, NEW t \in Threads, TakeBatch(t)
    PROVE  Counts'
<1> USE DEF PlacesInv
<1>1. /\ pc[t] = "take" /\ UNCHANGED <<stored, failed, verdict, stats>>
      /\ \A u \in Threads : u # t => pc'[u] = pc[u]
  BY DEF TakeBatch, NothingToFlush, CopyAndClear, Goto, TypeOK, shared, outcome
<1>2. batch[t] = <<>>
  BY <1>1 DEF Whereabouts
<1>3. Rejected' = Rejected
  BY <1>1 DEF Rejected
<1>4. CASE NothingToFlush(t)
  <2>1. UNCHANGED <<buffer, batch>> /\ pc'[t] \notin Busy
    BY <1>4 DEF NothingToFlush, Goto, TypeOK, Returns, Busy
  <2>2. Everywhere' = Everywhere
    BY <1>1, <2>1, StayEffect
  <2>3. Emptied' = Emptied /\ \A l \in {"tallyOk", "tallyErr"} : Tallying(l)' = Tallying(l)
    BY <1>1, <2>1, NotTallying DEF Busy
  <2> QED
    BY <1>1, <1>3, <2>2, <2>3, CountsSame
<1>5. CASE CopyAndClear(t, buffer, <<>>)
  <2>1. /\ buffer' = <<>> /\ batch' = [batch EXCEPT ![t] = buffer] /\ buffer # <<>>
        /\ pc'[t] = "process"
    BY <1>5 DEF CopyAndClear, Goto, TypeOK
  <2>2. Everywhere' = Everywhere
    BY <1>1, <1>2, <2>1, TakeEffect
  <2>3. batch'[t] = buffer /\ \A u \in Threads : u # t => batch'[u] = batch[u]
    BY <2>1 DEF TypeOK
  <2>4. Emptied' = Emptied
    BY <1>1, <2>1, <2>3 DEF Emptied
  <2>5. \A l \in {"tallyOk", "tallyErr"} : Tallying(l)' = Tallying(l)
    BY <1>1, <2>1 DEF Tallying
  <2> QED
    BY <1>1, <1>3, <2>2, <2>4, <2>5, CountsSame
<1> QED
  BY <1>4, <1>5 DEF TakeBatch

LEMMA CountsControl ==
    ASSUME TypeOK, Counts,
           \/ \E f \in Flushers : FlushRoutine(f)
           \/ \E s \in Stoppers : Stop(s)
           \/ CancelContext
           \/ UNCHANGED vars
    PROVE  Counts'
<1>1. UNCHANGED <<buffer, batch, verdict, stored, failed, stats>>
  BY DEF FlushRoutine, Start, Spawn, Tick, FlusherExit, Selects, Stop, StopBegin, CloseStopChan,
         WaitFlushers, AfterFlushers, CancelContext, vars, shared, outcome
<1>2. \A t \in Threads : pc[t] \in Busy \/ pc'[t] \in Busy => pc'[t] = pc[t]
  BY DEF FlushRoutine, Start, Spawn, Tick, FlusherExit, Selects, Stop, StopBegin, CloseStopChan,
         WaitFlushers, AfterFlushers, CancelContext, vars, Goto, TypeOK, Threads, Busy
<1>3. Everywhere' = Everywhere /\ Rejected' = Rejected
  BY <1>1, StayEffect DEF Rejected
<1>4. Emptied' = Emptied
  BY <1>1, <1>2 DEF Emptied, Busy
<1>5. \A l \in {"tallyOk", "tallyErr"} : Tallying(l)' = Tallying(l)
  BY <1>1, <1>2 DEF Tallying, Busy
<1> QED
  BY <1>1, <1>3, <1>4, <1>5, CountsSame

LEMMA CountsStep == TypeOK /\ PlacesInv /\ Counts /\ [Next]_vars => Counts'
<1> SUFFICES ASSUME TypeOK, PlacesInv, Counts, [Next]_vars PROVE Counts'
  OBVIOUS
<1>1. ASSUME NEW t \in Ingesters, Ingest(t) PROVE Counts'
  BY <1>1, CountsIngest
<1>2. ASSUME NEW t \in Threads, Flush(t) PROVE Counts'
  BY <1>2, CountsTake, CountsStore, CountsTally, CountsBatch DEF Flush, PlacesInv
<1>3. CASE \/ \E f \in Flushers : FlushRoutine(f)
           \/ \E s \in Stoppers : Stop(s)
           \/ CancelContext
           \/ UNCHANGED vars
  BY <1>3, CountsControl
<1> QED
  BY <1>1, <1>2, <1>3 DEF Next

\* At any instant the counters of GetStats and the places of the metrics add up,
\* whatever goroutines are between AddPoint and their increment.  That batches
\* lag the storage is not inductive: the budget counts the threads that have
\* emptied a batch and not yet counted it.
THEOREM StatsAlwaysAddUp == Spec => []StatsAddUp
<1>1. TypeOK /\ PlacesInv /\ Counts => StatsAddUp
  <2> SUFFICES ASSUME TypeOK, NothingTwice, Counts PROVE StatsAddUp
    BY DEF PlacesInv
  <2>1. /\ IsFiniteSet(Queued) /\ Cardinality(Queued) \in Nat
        /\ IsFiniteSet(InFlight) /\ Cardinality(InFlight) \in Nat
        /\ IsFiniteSet(Settled) /\ Cardinality(Settled) \in Nat
    BY PlacesOfMetrics, FiniteMetrics
  <2>2. PICK Q : Q = Queued \cup InFlight
    OBVIOUS
  <2>3. IsFiniteSet(Q) /\ Cardinality(Q) = Cardinality(Queued) + Cardinality(InFlight)
    <3>1. Queued \cap InFlight = {}
      BY DEF NothingTwice
    <3> QED
      BY <2>1, <2>2, <3>1, Apart
  <2>4. Cardinality(Everywhere) = Cardinality(Queued) + Cardinality(InFlight) + Cardinality(Settled)
    <3>1. Q \cap Settled = {} /\ Everywhere = Q \cup Settled
      BY <2>2 DEF NothingTwice, Everywhere
    <3>2. Cardinality(Everywhere) = Cardinality(Q) + Cardinality(Settled)
      BY <2>1, <2>3, <3>1, Apart
    <3> QED
      BY <2>3, <3>2
  <2>5. Cardinality(Emptied) \in Nat /\ stats.batches \in Nat
    BY FS_CardinalityType DEF Counts, TypeOK, Stats
  <2>6. stats.batches <= Cardinality(Settled)
    BY <2>1, <2>5 DEF Counts, BatchBudget
  <2> QED
    BY <2>4, <2>6 DEF Counts, StatsAddUp
<1>2. TypeOK /\ PlacesInv /\ Counts /\ [Next]_vars => (TypeOK /\ PlacesInv /\ Counts)'
  BY TypeStep, PlacesStep, CountsStep
<1> QED
  BY <1>1, <1>2, TypeInit, PlacesInit, CountsInit, PTL DEF Spec

(***************************************************************************)
(* Panics.                                                                 *)
(***************************************************************************)
StopInv == IsFiniteSet(Born) /\ IsFiniteSet(Closing) /\ StopsPaid

LEMMA StopInit == Init => StopInv
<1> SUFFICES ASSUME Init PROVE StopInv
  OBVIOUS
<1>1. Born = {} /\ Closing = {}
  BY ThreadsAssumption DEF Init, Born, Closing, Threads
<1>2. IsFiniteSet({}) /\ Cardinality({}) = 0
  BY FS_EmptySet
<1> QED
  BY <1>1, <1>2 DEF Init, StopInv, StopsPaid, One

LEMMA StopsSame ==
    ASSUME StopInv, UNCHANGED <<isRunning, stopClosed, panicked>>, Born' = Born, Closing' = Closing
    PROVE  StopInv'
BY DEF StopInv, StopsPaid, One

LEMMA StopStep == TypeOK /\ StopInv /\ [Next]_vars => StopInv'
<1> SUFFICES ASSUME TypeOK, StopInv, [Next]_vars PROVE StopInv'
  OBVIOUS
<1> USE ThreadsAssumption DEF shared, outcome
<1>0. /\ IsFiniteSet(Born) /\ Cardinality(Born) \in Nat
      /\ IsFiniteSet(Closing) /\ Cardinality(Closing) \in Nat
  BY FS_CardinalityType DEF StopInv
<1>1. ASSUME NEW t \in Ingesters, Ingest(t) PROVE StopInv'
  <2>1. UNCHANGED <<isRunning, stopClosed, panicked>> /\ \A u \in Flushers \cup Stoppers : pc'[u] = pc[u]
    BY <1>1 DEF Ingest, RejectInvalid, RefuseStopped, FlushForRoom, Accept, AcceptAfterFlush, ReturnOk,
                Enqueue, Goto, TypeOK, Threads
  <2> QED
    BY <2>1, StopsSame DEF Born, Closing
<1>2. ASSUME NEW t \in Threads, Flush(t) PROVE StopInv'
  <2>1. UNCHANGED <<isRunning, stopClosed, panicked>>
    BY <1>2 DEF Flush, TakeBatch, NothingToFlush, CopyAndClear, StoreMetric, AddPoint, CountProcessed,
                CountError, CountAs, EndBatch
  <2>2. pc[t] \in Flushing /\ pc'[t] \in Flushing \cup Returns /\ \A u \in Threads : u # t => pc'[u] = pc[u]
    BY <1>2 DEF Flush, TakeBatch, NothingToFlush, CopyAndClear, StoreMetric, AddPoint, CountProcessed,
                CountError, CountAs, EndBatch, Goto, TypeOK, Flushing
  <2>3. Born' = Born /\ Closing' = Closing
    BY <2>2 DEF Born, Closing, Flushing, Returns, Threads
  <2> QED
    BY <2>1, <2>3, StopsSame
<1>3. ASSUME NEW f \in Flushers, Start(f) PROVE StopInv'
  <2>1. /\ ~isRunning /\ isRunning' = TRUE /\ UNCHANGED <<stopClosed, panicked>>
        /\ pc[f] = "unborn" /\ pc'[f] = "spawning"
        /\ \A u \in Threads : u # f => pc'[u] = pc[u]
    BY <1>3 DEF Start, Goto, TypeOK, Threads
  <2>2. Born' = Born \cup {f} /\ f \notin Born /\ Closing' = Closing
    BY <2>1 DEF Born, Closing, Threads
  <2>3. IsFiniteSet(Born') /\ Cardinality(Born') = Cardinality(Born) + 1
    BY <1>0, <2>2, OneMore
  <2> QED
    BY <1>0, <2>1, <2>2, <2>3 DEF StopInv, StopsPaid, One, TypeOK
<1>4. ASSUME NEW f \in Flushers, Spawn(f) \/ Tick(f) \/ FlusherExit(f) PROVE StopInv'
  <2>1. /\ UNCHANGED <<isRunning, stopClosed, panicked>>
        /\ pc[f] # "unborn" /\ pc'[f] # "unborn"
        /\ \A u \in Threads : u # f => pc'[u] = pc[u]
    BY <1>4 DEF Spawn, Tick, FlusherExit, Selects, Goto, TypeOK, Threads
  <2> QED
    BY <2>1, StopsSame DEF Born, Closing, Threads
<1>5. ASSUME NEW s \in Stoppers, StopBegin(s) PROVE StopInv'
  <2>1. /\ UNCHANGED <<stopClosed, panicked>> /\ pc[s] = "running"
        /\ \A u \in Threads : u # s => pc'[u] = pc[u]
    BY <1>5 DEF StopBegin, Goto, TypeOK, Threads
  <2>2. Born' = Born
    BY <2>1 DEF Born, Threads
  <2>3. CASE isRunning
    <3>1. isRunning' = FALSE /\ pc'[s] = "close"
      BY <1>5, <2>3 DEF StopBegin, Goto, TypeOK, Threads
    <3>2. Closing' = Closing \cup {s} /\ s \notin Closing
      BY <2>1, <3>1 DEF Closing, Threads
    <3>3. IsFiniteSet(Closing') /\ Cardinality(Closing') = Cardinality(Closing) + 1
      BY <1>0, <3>2, OneMore
    <3> QED
      BY <1>0, <2>1, <2>2, <2>3, <3>1, <3>3 DEF StopInv, StopsPaid, One, TypeOK
  <2>4. CASE ~isRunning
    <3>1. isRunning' = isRunning /\ pc'[s] = "stopped"
      BY <1>5, <2>4 DEF StopBegin, Goto, TypeOK, Threads
    <3>2. Closing' = Closing
      BY <2>1, <3>1 DEF Closing, Threads
    <3> QED
      BY <2>1, <2>2, <3>1, <3>2, StopsSame
  <2> QED
    BY <2>3, <2>4
<1>6. ASSUME NEW s \in Stoppers, CloseStopChan(s) PROVE StopInv'
  <2>1. s \in Closing /\ isRunning' = isRunning
    BY <1>6 DEF CloseStopChan, Closing
  <2>2. Cardinality(Closing) >= 1
    <3>1. Cardinality(Closing) # 0
      BY <1>0, <2>1, FS_EmptySet
    <3> QED
      BY <1>0, <3>1
  <2>3. CASE stopClosed
    <3>1. panicked' = TRUE /\ UNCHANGED <<stopClosed, pc>>
      BY <1>6, <2>3 DEF CloseStopChan
    <3>2. Cardinality(Born) > 1
      BY <1>0, <2>2, <2>3 DEF StopInv, StopsPaid, One, TypeOK
    <3>3. Born' = Born /\ Closing' = Closing
      BY <3>1 DEF Born, Closing
    <3> QED
      BY <2>1, <3>1, <3>2, <3>3 DEF StopInv, StopsPaid, One
  <2>4. CASE ~stopClosed
    <3>1. /\ stopClosed' = TRUE /\ panicked' = panicked /\ pc'[s] = "wait"
          /\ \A u \in Threads : u # s => pc'[u] = pc[u]
      BY <1>6, <2>4 DEF CloseStopChan, Goto, TypeOK, Threads
    <3>2. Born' = Born /\ Closing' = Closing \ {s}
      BY <3>1 DEF Born, Closing, Threads
    <3>3. IsFiniteSet(Closing') /\ Cardinality(Closing') = Cardinality(Closing) - 1
      BY <1>0, <2>1, <3>2, OneLess
    <3> QED
      BY <1>0, <2>1, <2>4, <3>1, <3>2, <3>3 DEF StopInv, StopsPaid, One, TypeOK
  <2> QED
    BY <2>3, <2>4
<1>7. ASSUME NEW s \in Stoppers, WaitFlushers(s) PROVE StopInv'
  <2>1. /\ UNCHANGED <<isRunning, stopClosed, panicked>> /\ pc[s] = "wait" /\ pc'[s] = "take"
        /\ \A u \in Threads : u # s => pc'[u] = pc[u]
    BY <1>7 DEF WaitFlushers, AfterFlushers, Goto, TypeOK, Threads
  <2> QED
    BY <2>1, StopsSame DEF Born, Closing, Threads
<1>8. CASE CancelContext \/ UNCHANGED vars
  <2>1. UNCHANGED <<isRunning, stopClosed, panicked, pc>>
    BY <1>8 DEF CancelContext, vars
  <2> QED
    BY <2>1, StopsSame DEF Born, Closing
<1> QED
  BY <1>1, <1>2, <1>3, <1>4, <1>5, <1>6, <1>7, <1>8 DEF Next, FlushRoutine, Stop

\* close(sp.stopChan) panics only on a processor that was started twice: any
\* number of concurrent calls of Stop on one run of it close the channel once.
\* By induction each close was paid for by a Start of its own.
THEOREM PanicsNeedRestart == Spec => []PanicNeedsRestart
<1>1. StopInv => PanicNeedsRestart
  <2> SUFFICES ASSUME StopInv, panicked
               PROVE  \E f, g \in Flushers : f # g /\ pc[f] # "unborn" /\ pc[g] # "unborn"
    BY DEF PanicNeedsRestart
  <2>1. IsFiniteSet(Born) /\ Cardinality(Born) > 1 /\ Cardinality(Born) \in Nat
    BY FS_CardinalityType DEF StopInv, StopsPaid
  <2>2. PICK f : f \in Born
    BY <2>1, FS_EmptySet
  <2>3. \E g \in Born : g # f
    <3> SUFFICES ASSUME \A g \in Born : g = f PROVE FALSE
      OBVIOUS
    <3>1. Born = {f}
      BY <2>2
    <3>2. Cardinality({f}) = 1
      BY FS_Singleton
    <3> QED
      BY <2>1, <3>1, <3>2
  <2> QED
    BY <2>2, <2>3 DEF Born
<1> QED
  BY <1>1, TypeInit, TypeStep, StopInit, StopStep, PTL DEF Spec

(***************************************************************************)
(* The contract.                                                           *)
(***************************************************************************)
Pending == Queued \cup InFlight

LEMMA FateSame ==
    ASSUME NEW n, verdict'[n] = verdict[n], Submittable(n)' <=> Submittable(n),
           n \in stored' <=> n \in stored, n \in failed' <=> n \in failed,
           n \in Pending' <=> n \in Pending
    PROVE  FateOf(n)' = FateOf(n)
  BY DEF FateOf, Pending

\* One metric changes its fate; the contract sees an EXCEPT.
LEMMA FateMoves ==
    ASSUME NEW m \in Metrics, NEW g, FateOf(m)' = g,
           \A n \in Metrics : n # m => FateOf(n)' = FateOf(n)
    PROVE  Contract!Becomes(m, g)
<1> DEFINE F == [n \in Metrics |-> FateOf(n)]
<1>1. [n \in Metrics |-> FateOf(n)'] = [F EXCEPT ![m] = g]
  OBVIOUS
<1> QED
  BY <1>1 DEF Contract!Becomes

LEMMA FateStays ==
    ASSUME \A n \in Metrics : FateOf(n)' = FateOf(n) /\ verdict'[n] = verdict[n],
           isRunning' = isRunning
    PROVE  UNCHANGED Contract!contractVars
  BY DEF Contract!contractVars

\* A metric that is nowhere yet and is appended enters.
LEMMA EnqueueEnters ==
    ASSUME TypeOK, PlacesInv, NEW t \in Ingesters, NEW m \in Metrics,
           m \notin Everywhere, m \notin Invalid, verdict[m] = "none",
           \/ cur[t] = m
           \/ isRunning /\ Submittable(m) /\ cur[t] = NoMetric,
           cur' = [cur EXCEPT ![t] = m], buffer' = Append(buffer, m),
           UNCHANGED <<shared, batch, outcome, verdict>>
    PROVE  Contract!Enter(m)
<1> USE DEF shared, outcome
<1>1. Queued' = Queued \cup {m} /\ InFlight' = InFlight
  BY AppendElements DEF TypeOK, Queued, InFlight, Held
<1>2. ASSUME NEW n \in Metrics, n # m PROVE FateOf(n)' = FateOf(n)
  <2>1. Submittable(n)' <=> Submittable(n)
    <3>1. \A u \in Ingesters : cur'[u] = n <=> cur[u] = n
      BY <1>2, MetricsAssumption DEF TypeOK
    <3> QED
      BY <3>1 DEF Submittable
  <2> QED
    BY <1>1, <1>2, <2>1, FateSame DEF Pending
<1>3. FateOf(m)' = "pending"
  BY <1>1 DEF FateOf, Everywhere, Settled
<1>4. FateOf(m) = "admitted" \/ (FateOf(m) = "new" /\ isRunning)
  BY DEF FateOf, Everywhere, Settled, Submittable
<1>5. Contract!Becomes(m, "pending")
  BY <1>2, <1>3, FateMoves
<1>6. UNCHANGED <<isRunning, [n \in Metrics |-> Told[verdict[n]]]>>
  OBVIOUS
<1> QED
  BY <1>4, <1>5, <1>6 DEF Contract!Enter

LEMMA IngestSimulates ==
    ASSUME TypeOK, PlacesInv, NEW t \in Ingesters, Ingest(t)
    PROVE  Contract!ContractNext
<1> USE MetricsAssumption DEF PlacesInv, shared, outcome
<1>0. Everywhere \subseteq Metrics
  BY OnlyMetrics
<1>1. ASSUME NEW m \in Metrics, RejectInvalid(t, m) \/ RefuseStopped(t, m)
      PROVE  Contract!Refuse(m)
  <2>1. /\ Submittable(m) /\ (m \in Invalid \/ ~isRunning)
        /\ UNCHANGED <<isRunning, buffer, batch, cur, stored, failed>>
        /\ verdict' \in [Metrics -> Verdicts] /\ verdict'[m] \in {"invalid", "notRunning"}
        /\ \A n \in Metrics : n # m => verdict'[n] = verdict[n]
    BY <1>1 DEF RejectInvalid, RefuseStopped, TypeOK, Verdicts
  <2>2. m \notin Everywhere
    BY <2>1 DEF Whereabouts, Submittable
  <2>3. Queued' = Queued /\ InFlight' = InFlight
    BY <2>1 DEF Queued, InFlight, Held
  <2>4. FateOf(m) = "new"
    BY <2>1, <2>2 DEF FateOf, Everywhere, Settled, Submittable
  <2>5. FateOf(m)' = "refused"
    BY <2>1, <2>2, <2>3 DEF FateOf, Everywhere, Settled
  <2>6. \A n \in Metrics : n # m => FateOf(n)' = FateOf(n)
    BY <2>1, <2>3, FateSame DEF Pending, Submittable
  <2>7. Contract!Becomes(m, "refused")
    BY <2>5, <2>6, FateMoves
  <2>8. [n \in Metrics |-> Told[verdict'[n]]]
          = [[n \in Metrics |-> Told[verdict[n]]] EXCEPT ![m] = "error"]
    <3>1. Told[verdict'[m]] = "error"
      BY <2>1 DEF Told
    <3> QED
      BY <2>1, <3>1
  <2> QED
    BY <2>1, <2>4, <2>7, <2>8 DEF Contract!Refuse
<1>2. ASSUME NEW m \in Metrics, FlushForRoom(t, m) PROVE Contract!Admit(m)
  <2>1. /\ Submittable(m) /\ m \notin Invalid /\ isRunning
        /\ UNCHANGED <<isRunning, buffer, batch, stored, failed, verdict>>
        /\ cur' = [cur EXCEPT ![t] = m] /\ cur[t] = NoMetric
    BY <1>2 DEF FlushForRoom, Full, TypeOK
  <2>2. m \notin Everywhere
    BY <2>1 DEF Whereabouts, Submittable
  <2>3. Queued' = Queued /\ InFlight' = InFlight
    BY <2>1 DEF Queued, InFlight, Held
  <2>4. FateOf(m) = "new"
    BY <2>1, <2>2 DEF FateOf, Everywhere, Settled, Submittable
  <2>5. FateOf(m)' = "admitted"
    BY <2>1, <2>2, <2>3 DEF FateOf, Everywhere, Settled, Submittable, TypeOK
  <2>6. ASSUME NEW n \in Metrics, n # m PROVE FateOf(n)' = FateOf(n)
    <3>1. \A u \in Ingesters : cur'[u] = n <=> cur[u] = n
      BY <2>1, <2>6 DEF TypeOK
    <3> QED
      BY <2>1, <2>3, <3>1, FateSame DEF Pending, Submittable
  <2>7. Contract!Becomes(m, "admitted")
    BY <2>5, <2>6, FateMoves
  <2>8. UNCHANGED <<isRunning, [n \in Metrics |-> Told[verdict[n]]]>>
    BY <2>1
  <2> QED
    BY <2>1, <2>4, <2>7, <2>8 DEF Contract!Admit
<1>3. ASSUME NEW m \in Metrics, Accept(t, m) PROVE Contract!Enter(m)
  <2>1. /\ Submittable(m) /\ m \notin Invalid /\ isRunning /\ cur[t] = NoMetric
        /\ verdict[m] = "none" /\ cur' = [cur EXCEPT ![t] = m]
        /\ buffer' = Append(buffer, m) /\ UNCHANGED <<shared, batch, outcome, verdict>>
    BY <1>3 DEF Accept, Full, Enqueue, TypeOK, Submittable
  <2>2. m \notin Everywhere
    BY <2>1 DEF Whereabouts, Submittable
  <2> QED
    BY <2>1, <2>2, EnqueueEnters
<1>4. ASSUME AcceptAfterFlush(t) PROVE \E m \in Metrics : Contract!Enter(m)
  <2>1. PICK m \in Metrics : m = cur[t]
    BY <1>4 DEF AcceptAfterFlush, TypeOK
  <2>2. /\ pc[t] = "relock" /\ cur' = [cur EXCEPT ![t] = m]
        /\ buffer' = Append(buffer, m) /\ UNCHANGED <<shared, batch, outcome, verdict>>
    BY <1>4, <2>1 DEF AcceptAfterFlush, Enqueue, TypeOK
  <2>3. m \notin Everywhere /\ verdict[m] = "none" /\ m \notin Invalid
    BY <2>1, <2>2 DEF Whereabouts, Appended, Flushing
  <2> QED
    BY <2>1, <2>2, <2>3, EnqueueEnters
<1>5. ASSUME ReturnOk(t) PROVE \E m \in Metrics : Contract!Acknowledge(m)
  <2>1. PICK m \in Metrics : m = cur[t]
    BY <1>5 DEF ReturnOk, TypeOK
  <2>2. /\ UNCHANGED <<isRunning, buffer, batch, stored, failed>>
        /\ verdict' = [verdict EXCEPT ![m] = "ok"] /\ cur' = [cur EXCEPT ![t] = NoMetric]
        /\ Appended(t)
    BY <1>5, <2>1 DEF ReturnOk, Appended
  <2>3. m \in Everywhere /\ verdict[m] = "none"
    BY <2>1, <2>2 DEF Whereabouts
  <2>4. Queued' = Queued /\ InFlight' = InFlight
    BY <2>2 DEF Queued, InFlight, Held
  <2>5. FateOf(m) \in {"stored", "failed", "pending"} /\ FateOf(m)' = FateOf(m)
    BY <2>2, <2>3, <2>4 DEF FateOf, Everywhere, Settled
  <2>6. ASSUME NEW n \in Metrics, n # m PROVE FateOf(n)' = FateOf(n)
    <3>1. \A u \in Ingesters : cur'[u] = n <=> cur[u] = n
      BY <2>1, <2>2, <2>6 DEF TypeOK
    <3>2. verdict'[n] = verdict[n]
      BY <2>2, <2>6 DEF TypeOK
    <3> QED
      BY <2>2, <2>4, <3>1, <3>2, FateSame DEF Pending, Submittable
  <2>7. [n \in Metrics |-> FateOf(n)]' = [n \in Metrics |-> FateOf(n)]
    BY <2>5, <2>6
  <2>8. [n \in Metrics |-> Told[verdict'[n]]]
          = [[n \in Metrics |-> Told[verdict[n]]] EXCEPT ![m] = "ok"]
    BY <2>2 DEF Told, TypeOK
  <2>9. Told[verdict[m]] = "nothing"
    BY <2>3 DEF Told
  <2> QED
    BY <2>2, <2>5, <2>7, <2>8, <2>9 DEF Contract!Acknowledge
<1> QED
  BY <1>1, <1>2, <1>3, <1>4, <1>5 DEF Ingest, Contract!ContractNext

LEMMA FlushSimulates ==
    ASSUME TypeOK, PlacesInv, NEW t \in Threads, Flush(t)
    PROVE  [Contract!ContractNext]_(Contract!contractVars)
<1> USE DEF PlacesInv, shared, outcome
<1>1. UNCHANGED <<isRunning, cur, verdict>> /\ \A n : Submittable(n)' <=> Submittable(n)
  BY DEF Flush, TakeBatch, NothingToFlush, CopyAndClear, StoreMetric, AddPoint,
         CountProcessed, CountError, CountAs, EndBatch, Submittable
<1>2. CASE TakeBatch(t)
  <2>1. UNCHANGED <<stored, failed>>
    BY <1>2 DEF TakeBatch, NothingToFlush, CopyAndClear
  <2>2. Pending' = Pending
    <3>1. CASE buffer = <<>>
      BY <1>2, <3>1 DEF TakeBatch, NothingToFlush, CopyAndClear, Pending, Queued, InFlight, Held
    <3>2. CASE buffer # <<>>
      <4>1. batch[t] = <<>>
        BY <1>2 DEF TakeBatch, NothingToFlush, CopyAndClear, Whereabouts
      <4>2. Everywhere' = Everywhere /\ NothingTwice'
        BY <1>2, <2>1, <3>2, <4>1, TakeEffect DEF TakeBatch, NothingToFlush, CopyAndClear
      <4> QED
        BY <2>1, <4>2 DEF Everywhere, NothingTwice, Pending, Settled
    <3> QED
      BY <3>1, <3>2
  <2> QED
    BY <1>1, <2>1, <2>2, FateSame, FateStays
<1>3. CASE StoreMetric(t)
  <2>0. batch[t] \in Seq(Metrics) /\ batch[t] # <<>>
    BY <1>3 DEF StoreMetric, AddPoint, TypeOK
  <2>h. PICK h \in Metrics : h = Head(batch[t])
    BY <2>0
  <2>1. /\ h \in Held(t)
        /\ \/ stored' = stored \cup {h} /\ failed' = failed
           \/ failed' = failed \cup {h} /\ stored' = stored
    BY <1>3, <2>0, <2>h, HeadTailElements DEF StoreMetric, AddPoint, Held
  <2>2. Everywhere' = Everywhere /\ NothingTwice'
    BY <1>3, StoreEffect
  <2>3. h \in InFlight
    BY <2>1 DEF InFlight
  <2>4. h \notin Settled /\ h \in Settled' /\ Settled' = Settled \cup {h}
    BY <2>1, <2>3 DEF NothingTwice, Settled
  <2>5. Pending' = Pending \ {h}
    BY <2>2, <2>4 DEF Everywhere, NothingTwice, Pending
  <2>6. \A n \in Metrics : n # h => FateOf(n)' = FateOf(n)
    BY <1>1, <2>1, <2>5, FateSame
  <2>7. FateOf(h) = "pending"
    BY <2>3, <2>4 DEF FateOf, Settled
  <2>8. FateOf(h)' \in {"stored", "failed"}
    BY <2>4 DEF FateOf, Settled
  <2>9. Contract!Becomes(h, "stored") \/ Contract!Becomes(h, "failed")
    BY <2>6, <2>8, FateMoves
  <2>10. UNCHANGED <<isRunning, [n \in Metrics |-> Told[verdict[n]]]>>
    BY <1>1
  <2>11. Contract!Settle(h)
    BY <2>3, <2>7, <2>9, <2>10 DEF Contract!Settle
  <2> QED
    BY <2>3, <2>11 DEF Contract!ContractNext
<1>4. CASE CountProcessed(t) \/ CountError(t) \/ EndBatch(t)
  <2>1. UNCHANGED <<stored, failed, buffer, batch>>
    BY <1>4 DEF CountProcessed, CountError, CountAs, EndBatch
  <2>2. Pending' = Pending
    BY <2>1 DEF Pending, Queued, InFlight, Held
  <2> QED
    BY <1>1, <2>1, <2>2, FateSame, FateStays
<1> QED
  BY <1>2, <1>3, <1>4 DEF Flush

LEMMA ControlSimulates ==
    ASSUME TypeOK,
           \/ \E f \in Flushers : FlushRoutine(f)
           \/ \E s \in Stoppers : Stop(s)
           \/ CancelContext
           \/ UNCHANGED vars
    PROVE  [Contract!ContractNext]_(Contract!contractVars)
<1>1. UNCHANGED <<buffer, batch, cur, verdict, stored, failed>>
  BY DEF FlushRoutine, Start, Spawn, Tick, FlusherExit, Selects, Stop, StopBegin, CloseStopChan,
         WaitFlushers, AfterFlushers, CancelContext, vars, shared, outcome
<1>2. isRunning \in BOOLEAN /\ isRunning' \in BOOLEAN
  BY DEF TypeOK, FlushRoutine, Start, Spawn, Tick, FlusherExit, Selects, Stop, StopBegin, CloseStopChan,
         WaitFlushers, AfterFlushers, CancelContext, vars, shared
<1>3. \A n \in Metrics : FateOf(n)' = FateOf(n)
  BY <1>1 DEF FateOf, Queued, InFlight, Held, Submittable
<1>4. CASE isRunning' = isRunning
  BY <1>1, <1>3, <1>4, FateStays
<1>5. CASE isRunning' = ~isRunning
  BY <1>1, <1>3, <1>5 DEF Contract!ContractNext, Contract!OpenOrClose
<1> QED
  BY <1>2, <1>4, <1>5

\* The buffer, its threads and their locks do what the contract says of one
\* metric at a time: it enters only by a call made while the processor ran, is
\* settled at most once, and is acknowledged only after it entered.
THEOREM StreamImplementsContract == Spec => ImplementsContract
<1>1. Init => Contract!ContractInit
  <2> SUFFICES ASSUME Init PROVE Contract!ContractInit
    OBVIOUS
  <2>1. Queued = {} /\ InFlight = {}
    BY EmptyElements DEF Init, Queued, InFlight, Held
  <2>2. \A m \in Metrics : Submittable(m)
    BY MetricsAssumption DEF Init, Submittable
  <2>3. \A m \in Metrics : FateOf(m) = "new" /\ Told[verdict[m]] = "nothing"
    BY <2>1, <2>2 DEF FateOf, Told, Init
  <2> QED
    BY <2>3 DEF Contract!ContractInit, Init
<1>2. TypeOK /\ PlacesInv /\ [Next]_vars => [Contract!ContractNext]_(Contract!contractVars)
  BY IngestSimulates, FlushSimulates, ControlSimulates DEF Next
<1>3. TypeOK /\ PlacesInv /\ [Next]_vars => (TypeOK /\ PlacesInv)'
  BY TypeStep, PlacesStep
<1> QED
  BY <1>1, <1>2, <1>3, TypeInit, PlacesInit, PTL
     DEF Spec, ImplementsContract, Contract!ContractSpec
=============================================================================
