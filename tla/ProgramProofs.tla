---------------------------- MODULE ProgramProofs ----------------------------
(***************************************************************************)
(* Proofs about Program, for any metrics, handlers, requests and sizes.    *)
(* What StreamProcessorProofs shows of the actions that Program composes   *)
(* is used here, one step of the processor at a time.                      *)
(***************************************************************************)
EXTENDS Program, StreamProcessorProofs

WayUp == {"load", "engine", "processor", "spawn", "listen", "serving"}

\* Where main, its Stop and the flusher are, told by one another.  The flusher
\* is gone before Stop flushes for the last time.
Control ==
    /\ main \in WayUp \cup {"stop", "shutdown", "defers", "close"}
    /\ ~panicked /\ (stopClosed => pc[Main] \notin {"running", "close"})
    /\ cont[Main] = "stopped" /\ cont[Flusher] = "select"
    /\ main \in {"load", "engine", "processor"} => pc[Flusher] = "unborn"
    /\ main = "spawn" => pc[Flusher] = "spawning"
    /\ main \notin {"load", "engine", "processor", "spawn"} => pc[Flusher] \notin {"unborn", "spawning"}
    /\ main \in WayUp => pc[Main] = "running"
    /\ main \in {"shutdown", "defers", "close"} => pc[Main] = "stopped"
    /\ main \notin {"load", "engine", "processor"} /\ pc[Main] = "running" => isRunning
    /\ pc[Main] # "running" => ~isRunning
    /\ pc[Main] \in Flushing \cup {"stopped"} => pc[Flusher] = "gone"
    /\ pc[Main] \notin {"relock", "return", "select"}

\* Only a handler with a request is inside the processor; none is left when
\* Shutdown returns in time.
Draining ==
    /\ busy \subseteq Ingesters /\ \A t \in Ingesters \ busy : pc[t] = "idle"
    /\ main \in {"defers", "close"} => http = "closed" /\ (forced \/ busy = {})
    /\ exit \in {"orderly", "forced"} => main = "close" /\ engine = "closed"
    /\ exit = "orderly" => ~forced

\* After Stop has taken the buffer for the last time it holds late metrics only.
LastFlush == pc[Main] \in Busy \cup {"stopped"} => Queued \subseteq late

\* A request holds metrics.
Requested == left \in [Ingesters -> Seq(Metrics)]

ProgramInv == TypeOK /\ PlacesInv /\ Control /\ Draining /\ LastFlush /\ Requested

LEMMA MainAndFlusher ==
    /\ Main \in Stoppers /\ Main \in Threads /\ Main \notin Ingesters
    /\ Flusher \in Flushers /\ Flusher \in Threads /\ Flusher \notin Ingesters
    /\ Main # Flusher /\ Threads = Ingesters \cup {Main, Flusher}
BY ThreadsAssumption, ProgramAssumption DEF Threads

LEMMA ProgramStart == ProgramInit => ProgramInv
<1> SUFFICES ASSUME ProgramInit PROVE ProgramInv
  OBVIOUS
<1>1. Init
  BY DEF ProgramInit
<1>2. TypeOK /\ PlacesInv
  BY <1>1, TypeInit, PlacesInit
<1>3. /\ pc[Main] = "running" /\ cont[Main] = "stopped"
      /\ pc[Flusher] = "unborn" /\ cont[Flusher] = "select"
      /\ \A t \in Ingesters : pc[t] = "idle"
  BY <1>1, MainAndFlusher, ThreadsAssumption DEF Init, Threads
<1>4. Control
  BY <1>1, <1>3 DEF ProgramInit, Init, Control, WayUp, Flushing
<1>5. Draining
  BY <1>3 DEF ProgramInit, Draining
<1>6. LastFlush
  BY <1>3 DEF LastFlush, Busy
<1>7. Requested
  BY DEF ProgramInit, Requested
<1> QED
  BY <1>2, <1>4, <1>5, <1>6, <1>7 DEF ProgramInv

(***************************************************************************)
(* A step of the processor as the rest of the program sees it.             *)
(***************************************************************************)

\* Nothing else changes than where one thread is, and what it carries.
Alone(t) == /\ UNCHANGED <<isRunning, stopClosed, panicked>>
            /\ \A u \in Threads : u # t => pc'[u] = pc[u] /\ cont'[u] = cont[u]

LEMMA IngestAlone ==
    ASSUME TypeOK, NEW t \in Ingesters, Ingest(t)
    PROVE  Alone(t)
BY DEF Ingest, RejectInvalid, RefuseStopped, FlushForRoom, Accept, AcceptAfterFlush, ReturnOk,
       Enqueue, Goto, TypeOK, Threads, Alone, shared

LEMMA FlushAlone ==
    ASSUME TypeOK, NEW t \in Threads, Flush(t)
    PROVE  /\ Alone(t) /\ cont' = cont /\ pc[t] \in Flushing
           /\ \/ pc'[t] \in Busy
              \/ pc'[t] = cont[t] /\ buffer' = buffer /\ (pc[t] \in Busy \/ buffer = <<>>)
           /\ pc[t] \in Busy => buffer' = buffer
           /\ pc[t] \notin Busy => buffer' = <<>>
<1> USE DEF shared, Alone, Goto, TypeOK, Busy, Flushing
<1>1. CASE TakeBatch(t)
  BY <1>1 DEF TakeBatch, NothingToFlush, CopyAndClear
<1>2. CASE StoreMetric(t)
  BY <1>2 DEF StoreMetric, AddPoint
<1>3. CASE CountProcessed(t) \/ CountError(t)
  BY <1>3 DEF CountProcessed, CountError, CountAs
<1>4. CASE EndBatch(t)
  BY <1>4 DEF EndBatch
<1> QED
  BY <1>1, <1>2, <1>3, <1>4 DEF Flush

\* Every step of the program is one of the processor, or none.
LEMMA ProcessorStep ==
    ASSUME ProgramInv, [ProgramNext]_allVars
    PROVE  [Next]_vars
<1> USE MainAndFlusher
<1>1. UNCHANGED vars \/ (\E t \in Ingesters : Ingest(t)) \/ (\E t \in Threads : Flush(t))
        \/ FlushRoutine(Flusher) \/ Stop(Main) \/ CancelContext
  <2>1. CASE UNCHANGED allVars
    BY <2>1 DEF allVars
  <2>2. CASE LoadConfig \/ StartEngine \/ Listen \/ ZeroTicker \/ ListenFails \/ Killed \/ Signal
    BY <2>2 DEF LoadConfig, StartEngine, Listen, ZeroTicker, ListenFails, Killed, Signal
  <2>3. CASE StartProcessor
    BY <2>3 DEF StartProcessor, FlushRoutine
  <2>4. ASSUME NEW t \in Ingesters, \/ \E body \in Bodies : Request(t, body)
                                    \/ IngestNext(t) \/ InsideIngest(t) \/ Reply(t)
        PROVE  UNCHANGED vars \/ Ingest(t) \/ Flush(t)
    <3>1. CASE \E body \in Bodies : Request(t, body)
      BY <3>1 DEF Request
    <3>2. CASE IngestNext(t)
      <4>1. Head(left[t]) \in Metrics
        BY <3>2 DEF IngestNext, ProgramInv, Requested
      <4> QED
        BY <3>2, <4>1 DEF IngestNext, Ingest
    <3>3. CASE InsideIngest(t)
      BY <3>3 DEF InsideIngest, Ingest
    <3>4. CASE Reply(t)
      BY <3>4 DEF Reply
    <3> QED
      BY <2>4, <3>1, <3>2, <3>3, <3>4
  <2>5. CASE FlushTick \/ FlushEnds
    BY <2>5 DEF FlushTick, FlushEnds, FlushRoutine
  <2>6. CASE WayDown
    BY <2>6 DEF WayDown, StopProcessor, BeginShutdown, Cancel, CloseEngine, ShutdownEnds
  <2>7. CASE exit # "no" /\ UNCHANGED allVars
    BY <2>7 DEF allVars
  <2> QED
    BY <2>1, <2>2, <2>3, <2>4, <2>5, <2>6, <2>7, MainAndFlusher DEF ProgramNext
<1> QED
  BY <1>1 DEF Next, ProgramInv, Control

LEMMA ProcessorKept ==
    ASSUME ProgramInv, [ProgramNext]_allVars
    PROVE  TypeOK' /\ PlacesInv'
BY ProcessorStep, TypeStep, PlacesStep DEF ProgramInv

-----------------------------------------------------------------------------
(* The parts of ProgramInv that are not the processor's own.               *)

LEMMA RequestedStep ==
    ASSUME Requested, [ProgramNext]_allVars
    PROVE  Requested'
<1> USE DEF Requested
<1>1. ASSUME NEW t \in Ingesters, NEW body \in Bodies, Request(t, body) PROVE Requested'
  <2>1. body \in Seq(Metrics)
    BY DEF Bodies
  <2> QED
    BY <1>1, <2>1 DEF Request
<1>2. ASSUME NEW t \in Ingesters, IngestNext(t) PROVE Requested'
  <2>1. Tail(left[t]) \in Seq(Metrics)
    BY <1>2 DEF IngestNext
  <2> QED
    BY <1>2, <2>1 DEF IngestNext
<1>3. CASE UNCHANGED left
  BY <1>3
<1> QED
  BY <1>1, <1>2, <1>3 DEF ProgramNext, LoadConfig, StartEngine, StartProcessor, Listen, ZeroTicker,
     ListenFails, Killed, Signal, InsideIngest, Reply, FlushTick, FlushEnds, WayDown,
     StopProcessor, BeginShutdown, Cancel, CancelContext, CloseEngine, ShutdownEnds, allVars, requests

\* What the threads of others do changes neither main nor the flusher.
LEMMA HandlerStep ==
    ASSUME ProgramInv, NEW t \in Ingesters, IngestNext(t) \/ InsideIngest(t)
    PROVE  Alone(t) /\ (pc[t] # "idle" \/ t \in busy) /\ UNCHANGED <<process, busy>> /\ NoteLate
<1> USE MainAndFlusher DEF ProgramInv
<1>1. CASE IngestNext(t)
  <2>1. Head(left[t]) \in Metrics
    BY <1>1 DEF IngestNext, Requested
  <2>2. Ingest(t)
    BY <1>1, <2>1 DEF IngestNext, Ingest
  <2> QED
    BY <1>1, <2>2, IngestAlone DEF IngestNext
<1>2. CASE InsideIngest(t)
  <2>1. CASE AcceptAfterFlush(t) \/ ReturnOk(t)
    <3>1. Ingest(t) /\ pc[t] # "idle"
      BY <2>1 DEF Ingest, AcceptAfterFlush, ReturnOk
    <3> QED
      BY <1>2, <3>1, IngestAlone DEF InsideIngest, requests
  <2>2. CASE Flush(t)
    <3>1. t \in Threads
      BY DEF Threads
    <3>2. Alone(t) /\ pc[t] \in Flushing
      BY <2>2, <3>1, FlushAlone
    <3> QED
      BY <1>2, <3>2 DEF InsideIngest, requests, Flushing
  <2> QED
    BY <1>2, <2>1, <2>2 DEF InsideIngest
<1> QED
  BY <1>1, <1>2

LEMMA ControlStep ==
    ASSUME ProgramInv, [ProgramNext]_allVars
    PROVE  Control'
<1> USE MainAndFlusher DEF ProgramInv, MainAt, MainTo, Exit, WayUp
<1>1. CASE UNCHANGED vars /\ UNCHANGED main
  BY <1>1 DEF Control, vars, shared
<1>2. CASE LoadConfig \/ StartEngine \/ Listen \/ Signal
  BY <1>2 DEF LoadConfig, StartEngine, Listen, Signal, Control, vars, shared
<1>3. CASE StartProcessor
  <2>1. CASE MainAt("processor")
    BY <1>3, <2>1 DEF StartProcessor, Control, Start, Spawn, Goto, TypeOK, Flushing
  <2>2. CASE MainAt("spawn")
    BY <1>3, <2>2 DEF StartProcessor, Control, Start, Spawn, Goto, TypeOK, Flushing, shared
  <2> QED
    BY <1>3, <2>1, <2>2 DEF StartProcessor
<1>4. ASSUME NEW t \in Ingesters, IngestNext(t) \/ InsideIngest(t) PROVE Control'
  BY <1>4, HandlerStep DEF Alone, process, Control
<1>5. CASE FlushTick
  <2>1. CASE Tick(Flusher)
    BY <1>5, <2>1 DEF FlushTick, Tick, Selects, Goto, TypeOK, Control, shared, process, Flushing
  <2>2. CASE Flush(Flusher)
    BY <1>5, <2>2, FlushAlone DEF FlushTick, Alone, Control, process, Flushing, Busy
  <2> QED
    BY <1>5, <2>1, <2>2 DEF FlushTick
<1>6. CASE FlushEnds
  BY <1>6 DEF FlushEnds, FlusherExit, Selects, Goto, TypeOK, Control, shared, process, Flushing
<1>7. CASE StopProcessor
  <2>1. CASE StopBegin(Main)
    BY <1>7, <2>1 DEF StopProcessor, StopBegin, Goto, TypeOK, Control, process, Flushing
  <2>2. CASE CloseStopChan(Main)
    BY <1>7, <2>2 DEF StopProcessor, CloseStopChan, Goto, TypeOK, Control, process, Flushing
  <2>3. CASE WaitFlushers(Main)
    BY <1>7, <2>3 DEF StopProcessor, WaitFlushers, AfterFlushers, Goto, TypeOK, Control, process,
                      Flushing, shared
  <2>4. CASE Flush(Main)
    BY <1>7, <2>4, FlushAlone DEF StopProcessor, Alone, Control, process, Flushing, Busy
  <2> QED
    BY <1>7, <2>1, <2>2, <2>3, <2>4 DEF StopProcessor, Stop
<1>8. CASE BeginShutdown
  BY <1>8 DEF BeginShutdown, Control, vars, shared
<1>9. ASSUME NEW timeout \in BOOLEAN, ShutdownEnds(timeout) PROVE Control'
  BY <1>9 DEF ShutdownEnds, Control, vars, shared
<1>10. CASE Cancel
  BY <1>10 DEF Cancel, CancelContext, Control
<1> QED
  BY <1>1, <1>2, <1>3, <1>4, <1>5, <1>6, <1>7, <1>8, <1>9, <1>10 DEF ProgramNext, WayDown, ZeroTicker,
     ListenFails, Killed, Request, Reply, CloseEngine, allVars, process

LEMMA DrainingStep ==
    ASSUME ProgramInv, [ProgramNext]_allVars
    PROVE  Draining'
<1> USE MainAndFlusher DEF ProgramInv, MainAt, MainTo, Exit, Draining
<1>1. CASE UNCHANGED <<pc, busy>>
  BY <1>1 DEF ProgramNext, LoadConfig, StartEngine, StartProcessor, Listen, ZeroTicker,
     ListenFails, Killed, Signal, Request, IngestNext, InsideIngest, Reply, FlushTick, FlushEnds,
     WayDown, StopProcessor, BeginShutdown, Cancel, CancelContext, CloseEngine, ShutdownEnds, allVars, process,
     requests
<1>2. CASE StartProcessor \/ FlushTick \/ FlushEnds \/ StopProcessor
  <2>1. \A t \in Ingesters : pc'[t] = pc[t]
    <3>1. CASE StartProcessor
      BY <3>1 DEF StartProcessor, Start, Spawn, Goto, TypeOK
    <3>2. CASE FlushTick
      <4>1. CASE Tick(Flusher)
        BY <4>1 DEF Tick, Selects, Goto, TypeOK
      <4>2. CASE Flush(Flusher)
        BY <4>2, FlushAlone DEF Alone
      <4> QED
        BY <3>2, <4>1, <4>2 DEF FlushTick
    <3>3. CASE FlushEnds
      BY <3>3 DEF FlushEnds, FlusherExit, Selects, Goto, TypeOK
    <3>4. CASE StopProcessor
      <4>1. CASE Stop(Main)
        BY <4>1 DEF Stop, StopBegin, CloseStopChan, WaitFlushers, AfterFlushers, Goto, TypeOK
      <4>2. CASE Flush(Main)
        BY <4>2, FlushAlone DEF Alone
      <4> QED
        BY <3>4, <4>1, <4>2 DEF StopProcessor
    <3> QED
      BY <1>2, <3>1, <3>2, <3>3, <3>4
  <2> QED
    BY <1>2, <2>1 DEF StartProcessor, FlushTick, FlushEnds, StopProcessor, process, requests
<1>3. ASSUME NEW t \in Ingesters, IngestNext(t) \/ InsideIngest(t) PROVE Draining'
  BY <1>3, HandlerStep DEF Alone, process
<1>4. ASSUME NEW t \in Ingesters, NEW body \in Bodies, Request(t, body) PROVE Draining'
  BY <1>4 DEF Request, process, vars
<1>5. ASSUME NEW t \in Ingesters, Reply(t) PROVE Draining'
  BY <1>5 DEF Reply, process, vars
<1> QED
  BY <1>1, <1>2, <1>3, <1>4, <1>5 DEF ProgramNext, WayDown, LoadConfig, StartEngine, Listen, ZeroTicker,
     ListenFails, Killed, Signal, BeginShutdown, Cancel, CancelContext, CloseEngine, ShutdownEnds, allVars, vars,
     requests

LEMMA LastFlushStep ==
    ASSUME ProgramInv, [ProgramNext]_allVars
    PROVE  LastFlush'
<1> USE MainAndFlusher DEF ProgramInv, LastFlush, Queued
<1>1. CASE UNCHANGED <<buffer, late>> /\ pc'[Main] = pc[Main]
  BY <1>1
<1>2. CASE StartProcessor
  BY <1>2 DEF StartProcessor, Start, Spawn, Goto, TypeOK, shared, requests
<1>3. ASSUME NEW t \in Ingesters, IngestNext(t) \/ InsideIngest(t) PROVE LastFlush'
  <2>1. pc'[Main] = pc[Main] /\ NoteLate
    BY <1>3, HandlerStep DEF Alone
  <2>2. pc[Main] \in Busy \cup {"stopped"} => ~isRunning
    BY DEF Control, Busy
  <2> QED
    BY <2>1, <2>2 DEF NoteLate
<1>4. CASE FlushTick
  <2>1. CASE Tick(Flusher)
    BY <1>4, <2>1 DEF FlushTick, Tick, Selects, Goto, TypeOK
  <2>2. CASE Flush(Flusher)
    BY <2>2, FlushAlone DEF Alone, Control, Flushing, Busy
  <2> QED
    BY <1>4, <2>1, <2>2 DEF FlushTick
<1>5. CASE FlushEnds
  BY <1>5 DEF FlushEnds, FlusherExit, Selects, Goto, TypeOK
<1>6. CASE StopProcessor
  <2>1. CASE Stop(Main)
    <3>1. pc'[Main] \notin Busy \cup {"stopped"}
      BY <1>6, <2>1 DEF StopProcessor, MainAt, Stop, StopBegin, CloseStopChan, WaitFlushers,
                        AfterFlushers, Goto, TypeOK, Control, Busy
    <3> QED
      BY <3>1
  <2>2. CASE Flush(Main)
    <3>1. CASE pc[Main] \in Busy
      BY <1>6, <2>2, <3>1, FlushAlone DEF StopProcessor
    <3>2. CASE pc[Main] \notin Busy
      <4>1. buffer' = <<>>
        BY <2>2, <3>2, FlushAlone
      <4> QED
        BY <4>1, EmptyElements
    <3> QED
      BY <3>1, <3>2
  <2> QED
    BY <1>6, <2>1, <2>2 DEF StopProcessor
<1> QED
  BY <1>1, <1>2, <1>3, <1>4, <1>5, <1>6 DEF ProgramNext, WayDown, LoadConfig, StartEngine, Listen, ZeroTicker,
     ListenFails, Killed, Signal, Request, Reply, BeginShutdown, Cancel, CancelContext, CloseEngine,
     ShutdownEnds, allVars, vars, requests

LEMMA ProgramInvariant == ProgramSpec => []ProgramInv
<1>1. ProgramInv /\ [ProgramNext]_allVars => ProgramInv'
  BY ProcessorKept, ControlStep, DrainingStep, LastFlushStep, RequestedStep DEF ProgramInv
<1> QED
  BY <1>1, ProgramStart, PTL DEF ProgramSpec

\* The engine is closed only when main has been all the way down: if Shutdown
\* did not give up, each handler has replied, the flusher is gone and Stop has
\* flushed, so that no batch is in anyone's hands, and what is still in the
\* buffer was appended behind the last flush.
THEOREM OrderlyExitLeavesOnlyLate == ProgramSpec => []OrderlyExit
<1>1. ProgramInv => OrderlyExit
  <2> SUFFICES ASSUME ProgramInv, exit = "orderly" PROVE OrderlyExit
    BY DEF OrderlyExit
  <2> USE MainAndFlusher
  <2>1. main = "close" /\ engine = "closed" /\ busy = {}
    BY DEF ProgramInv, Draining
  <2>2. pc[Main] = "stopped" /\ pc[Flusher] = "gone" /\ \A t \in Ingesters : pc[t] = "idle"
    BY <2>1 DEF ProgramInv, Control, Draining
  <2>3. \A t \in Threads : batch[t] = <<>>
    BY <2>2 DEF ProgramInv, PlacesInv, Whereabouts
  <2>4. InFlight = {}
    BY <2>3, EmptyElements DEF InFlight, Held
  <2>5. Queued \subseteq late
    BY <2>2 DEF ProgramInv, LastFlush
  <2>6. \A m \in Metrics : verdict[m] = "ok" => m \in Everywhere
    BY DEF ProgramInv, PlacesInv, NothingLost
  <2> QED
    BY <2>1, <2>2, <2>4, <2>5, <2>6 DEF OrderlyExit, Everywhere
<1> QED
  BY <1>1, ProgramInvariant, PTL

\* main does nothing with the processor that the processor's specification does
\* not allow: its one Start, its one Stop, calls of IngestMetric that go on while
\* it shuts down, a context cancelled at the very end (main, ingestMetric,
\* ingestBatch).
THEOREM ProgramRunsProcessor == ProgramSpec => Spec
<1>1. ProgramInit => Init
  BY DEF ProgramInit
<1>2. ProgramInv /\ [ProgramNext]_allVars => [Next]_vars
  BY ProcessorStep
<1> QED
  BY <1>1, <1>2, ProgramInvariant, PTL DEF ProgramSpec, Spec

\* So every theorem about the processor holds inside the program.
THEOREM ProgramKeepsPromises ==
    ProgramSpec => /\ [](NothingLost /\ NothingTwice /\ BufferBound /\ StatsAddUp)
                   /\ ImplementsContract
BY ProgramRunsProcessor, NothingEverLost, NothingEverTwice, BufferBounded, StatsAlwaysAddUp,
   StreamImplementsContract, PTL

\* The program calls Stop once on a processor it started once, and never panics in
\* it.
THEOREM ProgramNeverPanicsInStop == ProgramSpec => []~panicked
<1>1. ProgramInv => ~panicked
  BY DEF ProgramInv, Control
<1> QED
  BY <1>1, ProgramInvariant, PTL
=============================================================================
