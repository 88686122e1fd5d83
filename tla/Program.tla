------------------------------ MODULE Program ------------------------------
(***************************************************************************)
(* The process: main of src/main.go around the stream processor, with the  *)
(* two ingestion handlers of src/api/server.go as its callers and the      *)
(* configuration of src/config/config.go as its input.  It composes the    *)
(* actions of StreamProcessor: Flusher is the goroutine of its one Start,  *)
(* Main calls its one Stop, a handler is an ingester.                      *)
(*                                                                         *)
(* The way down is what is hard: Stop comes before the HTTP server is shut *)
(* down, so that requests keep arriving at a processor that is stopping;   *)
(* the engine is closed by a deferred call, after Shutdown has waited for  *)
(* the handlers or has given up; and a failed listener ends the process    *)
(* with log.Fatalf, which runs no deferred call.                           *)
(***************************************************************************)
EXTENDS StreamProcessor

CONSTANTS
    Main, Flusher,      \* Stoppers and Flushers
    MaxBatch            \* metrics in one request

ASSUME ProgramAssumption ==
    /\ Stoppers = {Main} /\ Flushers = {Flusher} /\ Cancellable
    /\ MaxBatch \in Nat \ {0}

VARIABLES
    config,         \* what the file or the environment says
    main,           \* where main is
    http,           \* the HTTP server
    engine,         \* the storage engine
    left,           \* the metrics of a handler's request it has yet to ingest
    busy,           \* handlers with a request
    forced,         \* Shutdown gave up waiting for handlers
    exit,           \* how the process ended, "no" while it has not
    late            \* history: metrics appended after Stop cleared isRunning

process == <<config, main, http, engine, forced, exit>>
requests == <<left, busy>>
allVars == <<vars, process, requests, late>>

ProgramInit ==
    /\ Init
    /\ config \in {"unreadable", "invalid", "zero", "good"}
    /\ main = "load" /\ http = "none" /\ engine = "none"
    /\ left = [t \in Ingesters |-> <<>>] /\ busy = {}
    /\ forced = FALSE /\ exit = "no" /\ late = {}

Exit(how) == exit' = how
MainAt(l) == main = l /\ exit = "no"
MainTo(l) == main' = l

-----------------------------------------------------------------------------
(* The way up. *)

\* The file cannot be read or parsed; without one the environment is used.
Unreadable == config = "unreadable"

\* An empty port or path, or a size that is not positive.  No interval is looked
\* at: "zero" is a configuration with an interval of zero, and passes.
Refused == config = "invalid"

\* NewConfigManager.  The data directories may not be created.
LoadConfig ==
    /\ MainAt("load")
    /\ \/ Exit("fatal") /\ UNCHANGED main
       \/ ~Unreadable /\ ~Refused /\ MainTo("engine") /\ UNCHANGED exit
    /\ UNCHANGED <<vars, config, http, engine, forced, requests, late>>

StartEngine ==
    /\ MainAt("engine")
    /\ \/ engine' = "running" /\ MainTo("processor") /\ UNCHANGED exit
       \/ Exit("fatal") /\ UNCHANGED <<engine, main>>
    /\ UNCHANGED <<vars, config, http, forced, requests, late>>

StartProcessor ==
    \/ /\ MainAt("processor") /\ Start(Flusher)
       /\ MainTo("spawn")
       /\ UNCHANGED <<config, http, engine, forced, exit, requests, late>>
    \/ /\ MainAt("spawn") /\ Spawn(Flusher)
       /\ MainTo("listen")
       /\ UNCHANGED <<config, http, engine, forced, exit, requests, late>>

Listen ==
    /\ MainAt("listen")
    /\ http' = "listening" /\ MainTo("serving")
    /\ UNCHANGED <<vars, config, engine, forced, exit, requests, late>>

\* The goroutines of the engine and the flusher make a ticker of their interval:
\* of zero, it panics.
ZeroTicker ==
    /\ exit = "no" /\ config = "zero" /\ engine = "running"
    /\ Exit("panic")
    /\ UNCHANGED <<vars, config, main, http, engine, forced, requests, late>>

ListenFails ==
    /\ exit = "no" /\ http = "listening"
    /\ Exit("fatal")
    /\ UNCHANGED <<vars, config, main, http, engine, forced, requests, late>>

\* The default action of SIGTERM, until main asks to be told.
Killed ==
    /\ exit = "no" /\ main \in {"load", "engine", "processor", "spawn", "listen"}
    /\ Exit("killed")
    /\ UNCHANGED <<vars, config, main, http, engine, forced, requests, late>>

-----------------------------------------------------------------------------
(* ingestMetric and ingestBatch: a request is one metric or several.  The  *)
(* batch goes on after an error and is answered with 201 whatever happens. *)

Unseen(m) == Submittable(m) /\ \A t \in Ingesters : m \notin Range(left[t])
Bodies == {s \in UNION {[1..n -> Metrics] : n \in 1..MaxBatch} : IsInjective(s)}

Request(t, body) ==
    /\ exit = "no" /\ http = "listening" /\ t \notin busy
    /\ \A m \in Range(body) : Unseen(m)
    /\ left' = [left EXCEPT ![t] = body] /\ busy' = busy \cup {t}
    /\ UNCHANGED <<vars, process, late>>

\* What a handler appends while the processor is not running.
NoteLate == late' = late \cup (IF isRunning THEN {} ELSE Range(buffer') \ Range(buffer))

IngestNext(t) ==
    /\ exit = "no" /\ t \in busy /\ left[t] # <<>>
    /\ LET m == Head(left[t]) IN
         \/ RejectInvalid(t, m) \/ RefuseStopped(t, m) \/ FlushForRoom(t, m) \/ Accept(t, m)
    /\ left' = [left EXCEPT ![t] = Tail(@)]
    /\ NoteLate
    /\ UNCHANGED <<process, busy>>

InsideIngest(t) ==
    /\ exit = "no" /\ (AcceptAfterFlush(t) \/ ReturnOk(t) \/ Flush(t))
    /\ NoteLate
    /\ UNCHANGED <<process, requests>>

Reply(t) ==
    /\ exit = "no" /\ t \in busy /\ pc[t] = "idle" /\ left[t] = <<>>
    /\ busy' = busy \ {t}
    /\ UNCHANGED <<vars, process, left, late>>

FlushTick ==
    /\ exit = "no" /\ (Tick(Flusher) \/ Flush(Flusher))
    /\ UNCHANGED <<process, requests, late>>

FlushEnds ==
    /\ exit = "no" /\ FlusherExit(Flusher)
    /\ UNCHANGED <<process, requests, late>>

-----------------------------------------------------------------------------
(* The way down. *)

Signal ==
    /\ MainAt("serving")
    /\ MainTo("stop")
    /\ UNCHANGED <<vars, config, http, engine, forced, exit, requests, late>>

StopProcessor ==
    /\ MainAt("stop") /\ (Stop(Main) \/ Flush(Main))
    /\ UNCHANGED <<process, requests, late>>

BeginShutdown ==
    /\ MainAt("stop") /\ pc[Main] = "stopped"
    /\ http' = "draining" /\ MainTo("shutdown")
    /\ UNCHANGED <<vars, config, engine, forced, exit, requests, late>>

\* Faulty: the server is closed without waiting for its handlers.
FaultyShutdownEnds(timeout) ==
    /\ MainAt("shutdown")
    /\ http' = "closed" /\ forced' = timeout /\ MainTo("defers")
    /\ UNCHANGED <<vars, config, engine, exit, requests, late>>

\* Shutdown returns when no handler is left, or after 10 s.
ShutdownEnds(timeout) ==
    /\ MainAt("shutdown") /\ (timeout \/ busy = {})
    /\ http' = "closed" /\ forced' = timeout /\ MainTo("defers")
    /\ UNCHANGED <<vars, config, engine, exit, requests, late>>

\* The deferred calls, last one first: the context is cancelled, then the
\* engine is stopped.
Cancel ==
    /\ MainAt("defers") /\ CancelContext
    /\ MainTo("close")
    /\ UNCHANGED <<config, http, engine, forced, exit, requests, late>>

CloseEngine ==
    /\ MainAt("close")
    /\ engine' = "closed" /\ Exit(IF forced THEN "forced" ELSE "orderly")
    /\ UNCHANGED <<vars, config, main, http, forced, requests, late>>

-----------------------------------------------------------------------------
WayDown == \/ StopProcessor \/ BeginShutdown \/ Cancel \/ CloseEngine
           \/ \E timeout \in BOOLEAN : ShutdownEnds(timeout)

ProgramNext ==
    \/ LoadConfig \/ StartEngine \/ StartProcessor \/ Listen
    \/ ZeroTicker \/ ListenFails \/ Killed \/ Signal
    \/ \E t \in Ingesters : \/ \E body \in Bodies : Request(t, body)
                            \/ IngestNext(t) \/ InsideIngest(t) \/ Reply(t)
    \/ FlushTick \/ FlushEnds
    \/ WayDown
    \/ exit # "no" /\ UNCHANGED allVars     \* the process is gone

ProgramSpec == ProgramInit /\ [][ProgramNext]_allVars

\* main and the goroutines run; Shutdown gives up in the end; a closed channel
\* is not missed by select for ever.
ProgramFairSpec ==
    /\ ProgramSpec
    /\ WF_allVars(WayDown) /\ WF_allVars(FlushTick) /\ SF_allVars(FlushEnds)

-----------------------------------------------------------------------------
\* After an orderly exit nothing was still being written when the engine was
\* closed, though Stop does not wait for the batches that handlers flush; and
\* the only acknowledged metrics that were never given to the storage are in the
\* buffer, appended by calls that waited for room while Stop ran.
OrderlyExit ==
    exit = "orderly" =>
        /\ InFlight = {} /\ busy = {} /\ pc[Flusher] = "gone" /\ engine = "closed"
        /\ \A m \in Metrics : verdict[m] = "ok" /\ m \notin Settled => m \in Queued \cap late

\* Once the signal has arrived the process ends, though requests may keep the
\* buffer full while Stop waits for the flusher.
SignalEnds == main = "stop" ~> exit # "no"
=============================================================================
