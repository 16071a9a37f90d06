------------------------------ MODULE Process -------------------------------
(***************************************************************************)
(* A protomesh process (cmd/main.go and the instances it starts): the      *)
(* start of the enabled parts in order, each with its deferred stop, the   *)
(* goroutines they leave running, requests to the HTTP server, and the     *)
(* unwinding of the deferred calls after an interruption or a panic.       *)
(*                                                                         *)
(* What a start brings up is the sequence of its parts: connections,       *)
(* goroutines and services registered with the gRPC server.                *)
(***************************************************************************)
EXTENDS Tls, FiniteSets

CONSTANTS
    Configs,      \* configurations, see Init
    MaxInFlight,  \* requests at a time
    MaxFaults     \* panics, broken streams and failed listeners

VARIABLES
    config,    \* what the process is started with
    mode,      \* of the main goroutine
    step,      \* the next step of main
    defers,    \* the deferred calls of main, the last one first
    stopping,  \* how far the deferred call that runs is
    up,        \* what has been brought up
    cancelled, \* features whose context is cancelled
    serve,     \* the goroutine of HttpServer.Start
    tls,       \* the server's tls.Config
    inFlight,  \* requests being handled
    forced,    \* history: the shutdown of the HTTP server has timed out
    faults

vars == <<config, mode, step, defers, stopping, up, cancelled, serve, tls,
          inFlight, forced, faults>>

ASSUME ProcessAssumption ==
    /\ MaxInFlight \in Nat /\ MaxFaults \in Nat
    /\ None \notin {"draining", "joining"}
    /\ None # [certificate |-> None]
    /\ \A c \in Configs :
           /\ c.postgres \in BOOLEAN /\ c.stream \in BOOLEAN
           /\ c.reflection \in BOOLEAN /\ c.disableTls \in BOOLEAN
           /\ None # BuildConfig(c.certsFile, c.keysFile, c.rootsFile)

\* The features that watch the resource store.
Synced == {"gateway", "xds", "worker"}

\* Mutant of Program: the HTTP server is started as soon as there is a gRPC
\* server for it.
Program_HttpEarly ==
    <<"aws.Initialize", "gateway.Initialize", "grpc.Initialize", "http.Start",
      "temporal.Dial", "store.Start", "gateway.Start", "xds.Start",
      "worker.Start", "grpc.Start">>

\* main, in order.
Program ==
    <<"aws.Initialize", "gateway.Initialize", "grpc.Initialize",
      "temporal.Dial", "store.Start", "gateway.Start", "xds.Start",
      "worker.Start", "grpc.Start", "http.Start">>

\* The conditions of main.
Needs(s) ==
    CASE s = "aws.Initialize" -> TRUE
      [] s \in {"gateway.Initialize", "gateway.Start"} ->
             "gateway" \in config.enabled
      [] s = "store.Start" -> "store" \in config.enabled
      [] s = "xds.Start" -> "xds" \in config.enabled
      [] s \in {"temporal.Dial", "worker.Start"} -> "worker" \in config.enabled
      [] OTHER -> config.enabled \cap {"gateway", "store", "xds"} # {}

\* GrpcClient.Start: the connection of a feature to the resource store.
GrpcClientStart(f) == <<<<"conn", f>>>>

\* SqlClient.Start, and ResourceStore.Initialize, which migrates the database
\* and registers the service.
SqlClientStart == <<<<"conn", "sql">>>>
StoreInitialize == <<<<"service", "store">>>>

\* TemporalBuilder.GetTemporalClient dials.
GetTemporalClient == <<<<"conn", "temporal">>>>

\* Worker.Initialize and Start: the worker that polls Temporal for tasks.
TemporalWorkerStart == <<<<"worker", "temporal">>>>

\* The goroutine of redisPubSubDriver.Listen, if Initialize has found a Redis
\* host and a prefix for streams.
RedisListen == IF config.stream THEN <<<<"listener", "redis">>>> ELSE <<>>

\* GatewayInstance.Start, EnvoyXdsInstance.Start and WorkerInstance.Start, with
\* the goroutine of Sync.
GatewayStart ==
    GrpcClientStart("gateway") \o <<<<"sync", "gateway">>>> \o RedisListen
XdsStart ==
    GrpcClientStart("xds") \o <<<<"service", "xds">>, <<"sync", "xds">>>>
WorkerStart ==
    GrpcClientStart("worker") \o TemporalWorkerStart \o
    <<<<"sync", "worker">>>>

\* StoreInstance.Start, if the provider is known.
StoreStart ==
    IF config.postgres THEN SqlClientStart \o StoreInitialize
    ELSE <<>>

\* GrpcServer.Initialize and GrpcServer.Start.
GrpcInitialize == <<<<"server", "grpc">>>>
GrpcStart ==
    IF config.reflection THEN <<<<"service", "reflection">>>> ELSE <<>>

\* What a step of main brings up, in order.
Parts(s) ==
    CASE s = "grpc.Initialize" -> GrpcInitialize
      [] s = "temporal.Dial" -> GetTemporalClient
      [] s = "store.Start" -> StoreStart
      [] s = "gateway.Start" -> GatewayStart
      [] s = "xds.Start" -> XdsStart
      [] s = "worker.Start" -> WorkerStart
      [] s = "grpc.Start" -> GrpcStart
      [] s = "http.Start" -> <<<<"server", "http">>>>
      [] OTHER -> <<>>

\* How many of its parts a step may have brought up when it panics: on an
\* unknown handler, a failed dial, SRV lookup, migration, start of the Temporal
\* worker, Redis subscription or listener.
PanicsAfter(s) ==
    CASE s \in {"grpc.Initialize", "grpc.Start"} -> {}
      [] s = "store.Start" -> IF config.postgres THEN {0, 1} ELSE {}
      [] s = "gateway.Start" -> IF config.stream THEN {0, 2} ELSE {0}
      [] s = "worker.Start" -> {0, 1}
      [] OTHER -> {0}

\* The call that main defers after a step.
Deferred(s) ==
    CASE s = "temporal.Dial" -> <<"temporal.Close">>
      [] s = "store.Start" -> <<"store.Stop">>
      [] s = "gateway.Start" -> <<"gateway.Stop">>
      [] s = "xds.Start" -> <<"xds.Stop">>
      [] s = "worker.Start" -> <<"worker.Stop">>
      [] s = "grpc.Start" -> <<"grpc.Start">>
      [] s = "http.Start" -> <<"http.Stop">>
      [] OTHER -> <<>>

Features == [gateway |-> "gateway.Stop", xds |-> "xds.Stop",
             worker |-> "worker.Stop"]

TypeOK ==
    /\ config \in Configs
    /\ mode \in {"starting", "running", "unwinding", "panicking", "exited",
                 "crashed"}
    /\ step \in 1..(Len(Program) + 1)
    /\ stopping \in {None, "draining", "joining"}
    /\ cancelled \subseteq {f \in Synced : <<"sync", f>> \in up}
    /\ serve \in {"none", "running", "sending", "done"}
    /\ serve = "none" <=> tls = None
    /\ inFlight \in 0..MaxInFlight /\ forced \in BOOLEAN
    /\ faults \in 0..MaxFaults

Init ==
    /\ config \in Configs
    /\ mode = "starting" /\ step = 1
    /\ defers = <<>> /\ stopping = None
    /\ up = {} /\ cancelled = {}
    /\ serve = "none" /\ tls = None /\ inFlight = 0
    /\ forced = FALSE /\ faults = 0

-----------------------------------------------------------------------------
(* Starting *)

At(s) == mode = "starting" /\ step <= Len(Program) /\ Program[step] = s

Skip ==
    /\ mode = "starting" /\ step <= Len(Program) /\ ~Needs(Program[step])
    /\ step' = step + 1
    /\ UNCHANGED <<config, mode, defers, stopping, up, cancelled, serve, tls,
                   inFlight, forced, faults>>

\* HttpServer.Start goes on with Listen.
Start(s) ==
    /\ At(s) /\ Needs(s) /\ s # "http.Start"
    /\ step' = step + 1
    /\ up' = up \cup Range(Parts(s))
    /\ defers' = Deferred(s) \o defers
    /\ UNCHANGED <<config, mode, stopping, cancelled, serve, tls, inFlight,
                   forced, faults>>

\* A step panics when it has brought up k of its parts; the calls deferred so
\* far are run.
Panic(s, k) ==
    /\ At(s) /\ Needs(s) /\ k \in PanicsAfter(s) /\ faults < MaxFaults
    /\ faults' = faults + 1
    /\ up' = up \cup Range(SubSeq(Parts(s), 1, k))
    /\ mode' = "panicking"
    /\ UNCHANGED <<config, step, defers, stopping, cancelled, serve, tls,
                   inFlight, forced>>

\* HttpServer.Start: AssertBeforeStart, then a listener, with TLS unless that
\* is disabled; bad files make BuildListener panic.
Listen ==
    LET plain == config.disableTls
        bad == ~plain /\ (\/ Panics(config.certsFile, {"CERTIFICATE"})
                          \/ Panics(config.keysFile, KeyTypes))
    IN  /\ At("http.Start") /\ Needs("http.Start")
        /\ step' = step + 1
        /\ IF bad
           THEN /\ mode' = "panicking"
                /\ UNCHANGED <<up, serve, tls, defers>>
           ELSE /\ up' = up \cup Range(Parts("http.Start"))
                /\ serve' = "running"
                /\ tls' = IF plain THEN [certificate |-> None] ELSE
                          BuildConfig(config.certsFile, config.keysFile,
                                      config.rootsFile)
                /\ defers' = Deferred("http.Start") \o defers
                /\ UNCHANGED mode
        /\ UNCHANGED <<config, stopping, cancelled, inFlight, forced, faults>>

\* The end of main's start, or its panic when there is no host name.
Started ==
    /\ mode = "starting" /\ step > Len(Program)
    /\ \/ mode' = "running" /\ UNCHANGED faults
       \/ /\ faults < MaxFaults /\ faults' = faults + 1
          /\ mode' = "panicking"
    /\ UNCHANGED <<config, step, defers, stopping, up, cancelled, serve, tls,
                   inFlight, forced>>

-----------------------------------------------------------------------------
(* Running *)

Request ==
    /\ <<"server", "http">> \in up /\ inFlight < MaxInFlight
    /\ inFlight' = inFlight + 1
    /\ UNCHANGED <<config, mode, step, defers, stopping, up, cancelled, serve,
                   tls, forced, faults>>

Respond ==
    /\ inFlight > 0
    /\ inFlight' = inFlight - 1
    /\ UNCHANGED <<config, mode, step, defers, stopping, up, cancelled, serve,
                   tls, forced, faults>>

\* Serve returns after Shutdown or Close.
ServeReturns ==
    /\ serve = "running" /\ <<"server", "http">> \notin up
    /\ serve' = "sending"
    /\ UNCHANGED <<config, mode, step, defers, stopping, up, cancelled, tls,
                   inFlight, forced, faults>>

\* Accept fails: the goroutine logs it and waits on closeCh; main is not told.
ServeFails ==
    /\ serve = "running" /\ <<"server", "http">> \in up /\ faults < MaxFaults
    /\ serve' = "sending" /\ up' = up \ {<<"server", "http">>}
    /\ faults' = faults + 1
    /\ UNCHANGED <<config, mode, step, defers, stopping, cancelled, tls,
                   inFlight, forced>>

\* The goroutine of Sync ends, on a broken stream or because its context is
\* cancelled.  It panics before it writes to errCh, and the process dies.
SyncEnds(f) ==
    /\ <<"sync", f>> \in up
    /\ \/ f \in cancelled /\ UNCHANGED faults
       \/ faults < MaxFaults /\ faults' = faults + 1
    /\ mode' = "crashed"
    /\ UNCHANGED <<config, step, defers, stopping, up, cancelled, serve, tls,
                   inFlight, forced>>

\* WaitInterruption returns.
Interrupt ==
    /\ mode = "running"
    /\ mode' = "unwinding"
    /\ UNCHANGED <<config, step, defers, stopping, up, cancelled, serve, tls,
                   inFlight, forced, faults>>

-----------------------------------------------------------------------------
(* The deferred calls *)

Unwinding(call) ==
    mode \in {"unwinding", "panicking"} /\ defers # <<>> /\ defers[1] = call

\* temporalClient.Close, and StoreInstance.Stop, which closes the database if
\* it was opened.
Close(call, part) ==
    /\ Unwinding(call)
    /\ up' = up \ {part} /\ defers' = Tail(defers)
    /\ UNCHANGED <<config, mode, step, stopping, cancelled, serve, tls,
                   inFlight, forced, faults>>

\* The deferred call is GrpcServer.Start once more; to register reflection
\* twice is fatal.
GrpcStartAgain ==
    /\ Unwinding("grpc.Start")
    /\ IF config.reflection THEN mode' = "crashed" /\ UNCHANGED defers
       ELSE defers' = Tail(defers) /\ UNCHANGED mode
    /\ UNCHANGED <<config, step, stopping, up, cancelled, serve, tls, inFlight,
                   forced, faults>>

\* Stop of a feature up to the receive from errCh, which nobody writes to: what
\* follows it is never reached.
CancelSync(f) ==
    /\ Unwinding(Features[f]) /\ f \notin cancelled
    /\ cancelled' = cancelled \cup {f}
    /\ UNCHANGED <<config, mode, step, defers, stopping, up, serve, tls,
                   inFlight, forced, faults>>

\* HttpServer.Stop: Shutdown closes the listener.
HttpStop ==
    /\ Unwinding("http.Stop") /\ stopping = None
    /\ stopping' = "draining" /\ up' = up \ {<<"server", "http">>}
    /\ UNCHANGED <<config, mode, step, defers, cancelled, serve, tls, inFlight,
                   forced, faults>>

Drained ==
    /\ stopping = "draining" /\ inFlight = 0
    /\ stopping' = "joining"
    /\ UNCHANGED <<config, mode, step, defers, up, cancelled, serve, tls,
                   inFlight, forced, faults>>

\* Mutant of ShutdownTimeout: there is none.
ShutdownTimeout_Never ==
    /\ stopping = "draining" /\ inFlight > MaxInFlight
    /\ UNCHANGED vars

\* The context of Shutdown ends: Close does not wait for the requests.
ShutdownTimeout ==
    /\ stopping = "draining" /\ inFlight > 0
    /\ stopping' = "joining" /\ forced' = TRUE
    /\ UNCHANGED <<config, mode, step, defers, up, cancelled, serve, tls,
                   inFlight, faults>>

\* Mutant of Joined: Stop does not receive from closeCh.
Joined_NoWait ==
    /\ stopping = "joining"
    /\ stopping' = None /\ defers' = Tail(defers)
    /\ UNCHANGED <<config, mode, step, up, cancelled, serve, tls, inFlight,
                   forced, faults>>

\* The receive from closeCh.
Joined ==
    /\ stopping = "joining" /\ serve = "sending"
    /\ serve' = "done" /\ stopping' = None /\ defers' = Tail(defers)
    /\ UNCHANGED <<config, mode, step, up, cancelled, tls, inFlight, forced,
                   faults>>

Return ==
    /\ mode \in {"unwinding", "panicking"} /\ defers = <<>>
    /\ mode' = IF mode = "unwinding" THEN "exited" ELSE "crashed"
    /\ UNCHANGED <<config, step, defers, stopping, up, cancelled, serve, tls,
                   inFlight, forced, faults>>

\* The goroutines live as long as the process.
Alive == mode \notin {"exited", "crashed"}

Unwind ==
    /\ Alive
    /\ \/ Close("temporal.Close", <<"conn", "temporal">>)
       \/ Close("store.Stop", <<"conn", "sql">>)
       \/ GrpcStartAgain \/ HttpStop \/ Drained \/ ShutdownTimeout \/ Joined
       \/ Return \/ \E f \in Synced : CancelSync(f)

Next ==
    \/ Skip \/ Listen \/ Started \/ Interrupt \/ Unwind
    \/ \E s \in Range(Program) : Start(s)
    \/ \E s \in Range(Program), k \in 0..2 : Panic(s, k)
    \/ Alive /\ (Request \/ Respond \/ ServeReturns \/ ServeFails)
    \/ Alive /\ \E f \in Synced : SyncEnds(f)

\* The scheduler runs every goroutine that can run; nothing makes a request
\* come to an end.
Spec ==
    /\ Init /\ [][Next]_vars
    /\ WF_vars(Unwind) /\ WF_vars(Alive /\ ServeReturns)
    /\ \A f \in Synced : WF_vars(Alive /\ f \in cancelled /\ SyncEnds(f))

-----------------------------------------------------------------------------
\* A request is handled with all the services of the enabled features
\* registered and with the database open, also while the process stops: except
\* after a shutdown that has timed out, when Close leaves requests running.
RequestsAreBacked ==
    Alive /\ inFlight > 0 /\ ~forced =>
        \A s \in {"store.Start", "gateway.Start", "xds.Start", "grpc.Start"} :
            Needs(s) => Range(Parts(s)) \subseteq up

\* A process that returns from main has closed its connections and has no
\* goroutine left: no feature that watches the store was running, and the HTTP
\* server's goroutine has ended.
CleanExit ==
    mode = "exited" =>
        /\ {p[1] : p \in up} \subseteq {"server", "service"}
        /\ serve \in {"none", "done"}

\* The leaf certificate belongs to the key it is served with, unless the
\* certificates come from a file and their key does not.
CertificateMatchesKey ==
    tls # None /\ tls.certificate # None =>
        \/ tls.certificate.leaf = tls.certificate.privateKey
        \/ /\ BuildCertificates(config.certsFile) # <<>>
           /\ \/ BuildPrivateKeys(config.keysFile) = <<>>
              \/ BuildPrivateKeys(config.keysFile)[1].key #
                     BuildCertificates(config.certsFile)[1].key

\* An interrupted process ends, whatever its requests do: by returning from
\* main, or by the panic of a feature that watches the store.
StopEnds == mode = "unwinding" ~> ~Alive
=============================================================================
