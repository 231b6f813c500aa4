----------------------------- MODULE Lifecycle -----------------------------
(* Sunny.Start of sunny.go (lines 463-672): functions and sub-services are  *)
(* started in order, then the servers; a signal stops them again.           *)
(*                                                                          *)
(* The functions, sub-services and services are numbered in their order.    *)
(* An https service with a certificate behaves like an http one.            *)
EXTENDS Naturals, Sequences

CONSTANTS
    StartRuns, SubServices, SyncRuns, StopRuns,     \* how many there are
    Asyncs,         \* the functions to be run asynchronously
    ErrorStop,      \* the sub-services whose IsErrorStop is TRUE
    Detached,       \* those that never look at their context (the MQ managers)
    MaxServices     \* bound on the services in the configuration

ASSUME CountAssumption ==
    /\ {StartRuns, SubServices, SyncRuns, StopRuns, MaxServices} \subseteq Nat
    /\ ErrorStop \cup Detached \subseteq 1..SubServices

Protocols == {"http", "https_no_cert", "grpc"}

VARIABLES
    services,       \* config.Services: the protocols
    pc, i,          \* where Start is, and the position in the list it works on
    ctx,            \* cldCtx: "live" or "done"
    sub,            \* sub[s]: the goroutine of sub-service s
    err,            \* the variable err of Start: whether it is nil
    async,          \* async[a]: where the goroutine of function a is
    serving,        \* serving[n]: the goroutine of service n
    grpcServer,     \* the variable grpcServer: the service it was made for, or 0
    servedBy,       \* servedBy[n]: the gRPC server on the listener of service n
    down            \* the HTTP and gRPC servers that were told to stop

mainVars == <<services, pc, i, ctx>>
serverVars == <<serving, grpcServer, servedBy, down>>
vars == <<mainVars, sub, err, async, serverVars>>

Init ==
    /\ services \in UNION {[1..n -> Protocols] : n \in 0..MaxServices}
    /\ pc = "init" /\ i = 1
    /\ ctx = "live"
    /\ sub = [s \in 1..SubServices |-> "none"]
    /\ err = "nil"
    /\ async = [a \in Asyncs |-> "none"]
    /\ serving = [n \in DOMAIN services |-> "none"]
    /\ grpcServer = 0
    /\ servedBy = [n \in DOMAIN services |-> 0]
    /\ down = {}

----------------------------------------------------------------------------
(* Faulty variants of the definitions below: nothing refers to them.        *)

SlipFatal(s) == FALSE               \* the answer is only logged
SlipReturn(l) == pc' = l /\ UNCHANGED <<i, ctx>>     \* no cldCancel
SlipToStop == {}                    \* the HTTP servers are not stopped
SlipStopErrorEnds == TRUE           \* a stop function that fails ends the stop

----------------------------------------------------------------------------
\* The process has died.
Dead == pc = "dead"

Services == DOMAIN services

\* Start goes on with the next entry of its list, or with another list.
Advance == i' = i + 1 /\ UNCHANGED pc
Enter(l) == pc' = l /\ i' = 1

\* The deferred cldCancel runs.
Return(l) == pc' = l /\ ctx' = "done" /\ UNCHANGED i

Die == pc' = "dead" /\ UNCHANGED <<services, i, ctx>>

----------------------------------------------------------------------------
(* The functions and sub-services.                                          *)

\* Sunny.Init: the configuration, the managers and the remote resources.
Initialise ==
    /\ pc = "init"
    /\ err' \in {"nil", "set"}
    /\ IF err' = "nil" THEN Enter("start") /\ UNCHANGED ctx ELSE Return("error")
    /\ UNCHANGED <<services, sub, async, serverVars>>

\* A function of onStartFunc or syncRunAbles; the first error ends Start.
RunOk(l, count) ==
    /\ pc = l /\ i <= count
    /\ Advance
    /\ err' = "nil"
    /\ UNCHANGED <<services, ctx, sub, async, serverVars>>

RunFails(l, count) ==
    /\ pc = l /\ i <= count
    /\ Return("error")
    /\ err' = "set"
    /\ UNCHANGED <<services, sub, async, serverVars>>

\* The list is through.
Done(l, count, next) ==
    /\ pc = l /\ i > count
    /\ Enter(next)
    /\ UNCHANGED <<services, ctx, sub, err, async, serverVars>>

Launch(s) ==
    /\ pc = "sub" /\ i = s
    /\ sub[s] = "none"
    /\ sub' = [sub EXCEPT ![s] = "starting"]
    /\ UNCHANGED <<mainVars, err, async, serverVars>>

\* The channel has no buffer: the answer and its receipt are one step.
SubStarted(s) ==
    /\ pc = "sub" /\ i = s /\ sub[s] = "starting"
    /\ sub' = [sub EXCEPT ![s] = "up"]
    /\ Advance
    /\ UNCHANGED <<services, ctx, err, async, serverVars>>

Fatal(s) == s \in ErrorStop

SubFails(s) ==
    /\ pc = "sub" /\ i = s /\ sub[s] = "starting"
    /\ sub' = [sub EXCEPT ![s] = "failed"]
    /\ IF Fatal(s) THEN Return("error") ELSE Advance /\ UNCHANGED ctx
    /\ UNCHANGED <<services, err, async, serverVars>>

\* A sub-service works until its context is done.  The Start of an MQ manager
\* has returned by now, and its goroutines have a context of their own.
SubEnds(s) ==
    /\ ~Dead
    /\ sub[s] = "up" /\ ctx = "done" /\ s \notin Detached
    /\ sub' = [sub EXCEPT ![s] = "ended"]
    /\ UNCHANGED <<mainVars, err, async, serverVars>>

----------------------------------------------------------------------------
(* The asynchronous functions: their goroutines assign Start's variable err.*)

LaunchAsyncs ==
    /\ pc = "async"
    /\ async' = [a \in Asyncs |-> "running"]
    /\ Enter("serve")
    /\ UNCHANGED <<services, ctx, sub, err, serverVars>>

AsyncReturns(a) ==
    /\ ~Dead
    /\ async[a] = "running"
    /\ err' \in {"nil", "set"}
    /\ async' = [async EXCEPT ![a] = IF err' = "set" THEN "failed" ELSE "succeeded"]
    /\ UNCHANGED <<mainVars, sub, serverVars>>

\* err is compared with nil, whoever has assigned it last.  (A read that is
\* torn by the race gives an error that is another's or none: as here.)
AsyncChecks(a) ==
    /\ ~Dead
    /\ async[a] \in {"failed", "succeeded"}
    /\ async' = [async EXCEPT ![a] = IF err = "set" THEN "log" ELSE "done"]
    /\ UNCHANGED <<mainVars, sub, err, serverVars>>

\* err.Error() on nil panics, and nothing recovers.
AsyncLogs(a) ==
    /\ ~Dead
    /\ async[a] = "log"
    /\ async' = [async EXCEPT ![a] = "done"]
    /\ IF err = "set" THEN UNCHANGED mainVars ELSE Die
    /\ UNCHANGED <<sub, err, serverVars>>

----------------------------------------------------------------------------
(* The servers.                                                             *)

StartHttp ==
    /\ pc = "serve" /\ i \in Services
    /\ services[i] = "http"
    /\ serving' = [serving EXCEPT ![i] = "spawned"]
    /\ Advance
    /\ UNCHANGED <<services, ctx, sub, err, async, grpcServer, servedBy, down>>

\* Start returns and leaves the servers before this one as they are.
HttpsWithoutCert ==
    /\ pc = "serve" /\ i \in Services
    /\ services[i] = "https_no_cert"
    /\ Return("error")
    /\ UNCHANGED <<services, sub, err, async, serverVars>>

StartGrpc ==
    /\ pc = "serve" /\ i \in Services
    /\ services[i] = "grpc"
    /\ grpcServer' = i
    /\ serving' = [serving EXCEPT ![i] = "spawned"]
    /\ Advance
    /\ UNCHANGED <<services, ctx, sub, err, async, servedBy, down>>

ListenFails ==
    /\ pc = "serve" /\ i \in Services
    /\ services[i] = "grpc"
    /\ Return("error")
    /\ UNCHANGED <<services, sub, err, async, serverVars>>

\* The goroutine of an HTTP server: one that was shut down before does not
\* begin, one that cannot listen ends the process (Fatalf).
ServeHttp(n) ==
    /\ ~Dead
    /\ services[n] = "http" /\ serving[n] = "spawned"
    /\ \/ serving' = [serving EXCEPT ![n] = IF n \in down THEN "closed" ELSE "serving"]
          /\ UNCHANGED mainVars
       \/ n \notin down /\ Die /\ UNCHANGED serving
    /\ UNCHANGED <<sub, err, async, grpcServer, servedBy, down>>

\* The goroutine of a gRPC service serves with the server that the variable
\* holds by now; Serve on a server that was stopped is an error and fatal.
ServeGrpc(n) ==
    /\ ~Dead
    /\ services[n] = "grpc" /\ serving[n] = "spawned"
    /\ IF grpcServer \in down
       THEN Die /\ UNCHANGED <<serving, servedBy>>
       ELSE /\ serving' = [serving EXCEPT ![n] = "serving"]
            /\ servedBy' = [servedBy EXCEPT ![n] = grpcServer]
            /\ UNCHANGED mainVars
    /\ UNCHANGED <<sub, err, async, grpcServer, down>>

\* All servers are started; without any, Start returns at once.
ServersStarted ==
    /\ pc = "serve" /\ i > Len(services)
    /\ IF services = <<>> THEN Return("ok") ELSE Enter("signal") /\ UNCHANGED ctx
    /\ UNCHANGED <<services, sub, err, async, serverVars>>

Signal ==
    /\ pc = "signal"
    /\ Enter("shutdown")
    /\ UNCHANGED <<services, ctx, sub, err, async, serverVars>>

\* Shutdown of each HTTP server in turn: its listener closes at once.
ToStop == {n \in Services : services[n] = "http"}

Shutdown ==
    /\ pc = "shutdown" /\ i \in Services
    /\ Advance
    /\ IF i \in ToStop
       THEN /\ down' = down \cup {i}
            /\ serving' = [serving EXCEPT ![i] = IF @ = "serving" THEN "closed" ELSE @]
       ELSE UNCHANGED <<down, serving>>
    /\ UNCHANGED <<services, ctx, sub, err, async, grpcServer, servedBy>>

\* GracefulStop of the server in grpcServer, once its calls have ended.
GracefulStop ==
    /\ pc = "shutdown" /\ i > Len(services)
    /\ Enter("stop")
    /\ IF grpcServer # 0
       THEN /\ down' = down \cup {grpcServer}
            /\ serving' = [n \in Services |-> IF servedBy[n] = grpcServer THEN "closed" ELSE serving[n]]
       ELSE UNCHANGED <<down, serving>>
    /\ UNCHANGED <<services, ctx, sub, err, async, grpcServer, servedBy>>

----------------------------------------------------------------------------
(* The stop functions.                                                      *)

StopReturns ==
    /\ pc = "stop" /\ i <= StopRuns
    /\ err' \in {"nil", "set"}
    /\ pc' = "stop_check"
    /\ UNCHANGED <<services, i, ctx, sub, async, serverVars>>

\* An error is logged only.
StopErrorEnds == FALSE

StopChecks ==
    /\ pc = "stop_check"
    /\ IF err = "set" THEN pc' = "stop_log" /\ UNCHANGED i ELSE pc' = "stop" /\ i' = i + 1
    /\ UNCHANGED <<services, ctx, sub, err, async, serverVars>>

StopLogs ==
    /\ pc = "stop_log"
    /\ IF err = "nil" THEN Die
       ELSE IF StopErrorEnds THEN Return("ok") /\ UNCHANGED services
       ELSE pc' = "stop" /\ i' = i + 1 /\ UNCHANGED <<services, ctx>>
    /\ UNCHANGED <<sub, err, async, serverVars>>

\* What is left of the second granted to the servers has passed.
Stopped ==
    /\ pc = "stop" /\ i > StopRuns
    /\ Return("ok")
    /\ UNCHANGED <<services, sub, err, async, serverVars>>

----------------------------------------------------------------------------
Main ==
    \/ Initialise
    \/ RunOk("start", StartRuns) \/ RunFails("start", StartRuns) \/ Done("start", StartRuns, "sub")
    \/ \E s \in 1..SubServices : Launch(s) \/ SubStarted(s) \/ SubFails(s)
    \/ Done("sub", SubServices, "sync")
    \/ RunOk("sync", SyncRuns) \/ RunFails("sync", SyncRuns) \/ Done("sync", SyncRuns, "async")
    \/ LaunchAsyncs
    \/ StartHttp \/ HttpsWithoutCert \/ StartGrpc \/ ListenFails \/ ServersStarted
    \/ Shutdown \/ GracefulStop
    \/ StopReturns \/ StopChecks \/ StopLogs \/ Stopped

Async(a) == AsyncReturns(a) \/ AsyncChecks(a) \/ AsyncLogs(a)
Serve(n) == ServeHttp(n) \/ ServeGrpc(n)

Next ==
    \/ Main \/ Signal
    \/ \E s \in 1..SubServices : SubEnds(s)
    \/ \E a \in Asyncs : Async(a)
    \/ \E n \in Services : Serve(n)

Spec == Init /\ [][Next]_vars

FairSpec == Spec /\ \A s \in 1..SubServices : WF_vars(SubEnds(s))

----------------------------------------------------------------------------
TypeOK ==
    /\ services \in Seq(Protocols)
    /\ pc \in {"init", "start", "sub", "sync", "async", "serve", "signal", "shutdown", "stop",
              "stop_check", "stop_log", "ok", "error", "dead"}
    /\ i \in Nat \ {0}
    /\ ctx \in {"live", "done"}
    /\ sub \in [1..SubServices -> {"none", "starting", "up", "failed", "ended"}]
    /\ err \in {"nil", "set"}
    /\ async \in [Asyncs -> {"none", "running", "failed", "succeeded", "log", "done"}]
    /\ serving \in [Services -> {"none", "spawned", "serving", "closed"}]
    /\ grpcServer \in Services \cup {0}
    /\ servedBy \in [Services -> Services \cup {0}]
    /\ down \subseteq Services

\* When a sub-service whose errors are to stop the application has failed,
\* nothing that comes after it is ever started (lines 522-531; "the whole
\* start is ended", types/base.go 24).
NothingAfterFatal ==
    \A s \in ErrorStop : sub[s] = "failed" =>
        /\ \A t \in 1..SubServices : t > s => sub[t] = "none"
        /\ \A a \in Asyncs : async[a] = "none"
        /\ \A n \in Services : serving[n] = "none"

\* Once the servers are stopped, the only ones that serve, or ever begin to,
\* are gRPC servers that a later gRPC service has replaced in grpcServer,
\* however late the goroutines of the servers run (lines 587, 628, 642-650).
LeftServing ==
    pc \in {"stop", "stop_check", "stop_log", "ok"} =>
        \A n \in Services :
            serving[n] = "serving" => services[n] = "grpc" /\ servedBy[n] # grpcServer

\* An orderly stop runs every stop function, also after one that failed
\* (lines 653-662).
EveryStopFunctionRuns ==
    pc = "ok" /\ services # <<>> => i > StopRuns

\* However Start returns, no sub-service that minds its context goes on for
\* ever (line 478).
SubServicesEnd ==
    pc \in {"ok", "error"} ~> (Dead \/ \A s \in 1..SubServices \ Detached : sub[s] # "up")

\* What is logged as the error of an asynchronous function is an error (the
\* test of line 564 says so).
LoggedIsError ==
    [][\A a \in Asyncs : async[a] = "log" /\ async'[a] = "done" => err = "set"]_vars
============================================================================
