---------------------------- MODULE SunnyProofs ----------------------------
(* What sunny.go starts and hands out: the order of a start and of a stop,  *)
(* for any configuration; the gRPC clients; the ring of keys that one of    *)
(* its sub-services keeps; the numbered ids; and the handlers of a request. *)
(* The modules share no variable, and each has an invariant of its own.     *)
EXTENDS Lifecycle, JwtKeys, Routing, GrpcClients, IdSequence, RedisCache,
        SequenceTheorems, TLAPS

----------------------------------------------------------------------------
(* Start.  The argument follows its position: what lies behind it has been  *)
(* stopped or has answered, and what lies ahead has not begun.              *)

\* Before the servers nothing runs beside the sub-services, and those after
\* the one that is being started have not begun.
StartInv ==
    /\ pc \in {"init", "start", "sub", "sync", "async"} =>
          /\ \A a \in Asyncs : async[a] = "none"
          /\ \A n \in Services : serving[n] = "none"
    /\ pc \in {"init", "start"} => \A s \in 1..SubServices : sub[s] = "none"
    /\ pc = "sub" => \A s \in 1..SubServices : s > i => sub[s] = "none"

\* A fatal failure has ended Start before anything else began.
FatalInv ==
    \A s \in ErrorStop : sub[s] = "failed" =>
        /\ pc = "error"
        /\ \A t \in 1..SubServices : t > s => sub[t] = "none"
        /\ \A a \in Asyncs : async[a] = "none"
        /\ \A n \in Services : serving[n] = "none"

StopLabels == {"stop", "stop_check", "stop_log", "ok"}

\* The HTTP server n is stopped for good.
HttpDown(n) == n \in down /\ serving[n] # "serving"

\* The servers that Shutdown has passed are down, and in the end grpcServer is.
StopInv ==
    /\ \A n \in Services : services[n] = "https_no_cert" => serving[n] = "none"
    /\ \A n \in Services :
          /\ servedBy[n] # 0 => services[n] = "grpc"
          /\ services[n] = "grpc" /\ serving[n] = "serving" => servedBy[n] # 0
    /\ \A n \in Services : services[n] = "grpc" /\ serving[n] = "spawned" => grpcServer # 0
    /\ pc = "shutdown" => \A n \in Services : n < i /\ services[n] = "http" => HttpDown(n)
    /\ pc \in StopLabels =>
          /\ \A n \in Services : services[n] = "http" => HttpDown(n)
          /\ grpcServer # 0 => grpcServer \in down
          /\ \A n \in Services :
                services[n] = "grpc" /\ serving[n] = "serving" => servedBy[n] # grpcServer

Inv == TypeOK /\ StartInv /\ FatalInv /\ StopInv /\ EveryStopFunctionRuns

----------------------------------------------------------------------------
LEMMA InitInv == Init => Inv
<1> SUFFICES ASSUME Init PROVE Inv
    OBVIOUS
<1> USE CountAssumption DEF Init, Services
<1>1. services \in Seq(Protocols)
    BY SeqDef
<1>2. TypeOK
    BY <1>1 DEF TypeOK
<1>3. StartInv /\ FatalInv
    BY DEF StartInv, FatalInv
<1>4. StopInv /\ EveryStopFunctionRuns
    BY DEF StopInv, EveryStopFunctionRuns, StopLabels
<1> QED BY <1>2, <1>3, <1>4 DEF Inv

\* Steps of Start up to the servers.
LEMMA StartingStep ==
    ASSUME Inv,
           \/ Initialise
           \/ RunOk("start", StartRuns) \/ RunFails("start", StartRuns)
           \/ RunOk("sync", SyncRuns) \/ RunFails("sync", SyncRuns)
           \/ Done("start", StartRuns, "sub") \/ Done("sub", SubServices, "sync")
           \/ Done("sync", SyncRuns, "async") \/ LaunchAsyncs
    PROVE  Inv'
<1> USE CountAssumption
        DEF Inv, TypeOK, Services, Advance, Enter, Return, serverVars
<1>1. CASE Initialise
    BY <1>1 DEF Initialise, StartInv, FatalInv, StopInv, StopLabels, HttpDown, EveryStopFunctionRuns
<1>2. CASE \/ RunOk("start", StartRuns) \/ RunFails("start", StartRuns)
           \/ RunOk("sync", SyncRuns) \/ RunFails("sync", SyncRuns)
    <2>1. CASE RunOk("start", StartRuns) \/ RunOk("sync", SyncRuns)
        BY <2>1 DEF RunOk, StartInv, FatalInv, StopInv, StopLabels, HttpDown, EveryStopFunctionRuns
    <2>2. CASE RunFails("start", StartRuns) \/ RunFails("sync", SyncRuns)
        BY <2>2 DEF RunFails, StartInv, FatalInv, StopInv, StopLabels, HttpDown, EveryStopFunctionRuns
    <2> QED BY <1>2, <2>1, <2>2
<1>3. CASE Done("start", StartRuns, "sub") \/ Done("sub", SubServices, "sync") \/ Done("sync", SyncRuns, "async")
    BY <1>3 DEF Done, StartInv, FatalInv, StopInv, StopLabels, HttpDown, EveryStopFunctionRuns
<1>4. CASE LaunchAsyncs
    BY <1>4 DEF LaunchAsyncs, StartInv, FatalInv, StopInv, StopLabels, HttpDown, EveryStopFunctionRuns
<1> QED BY <1>1, <1>2, <1>3, <1>4

\* Steps of and about one sub-service.
LEMMA SubStep ==
    ASSUME Inv, NEW s \in 1..SubServices, Launch(s) \/ SubStarted(s) \/ SubFails(s) \/ SubEnds(s)
    PROVE  Inv'
<1> USE CountAssumption
        DEF Inv, TypeOK, Services, Advance, Return, mainVars, serverVars
<1>1. CASE Launch(s)
    BY <1>1 DEF Launch, StartInv, FatalInv, StopInv, StopLabels, HttpDown, EveryStopFunctionRuns
<1>2. CASE SubStarted(s)
    BY <1>2 DEF SubStarted, StartInv, FatalInv, StopInv, StopLabels, HttpDown, EveryStopFunctionRuns
<1>3. CASE SubFails(s)
    <2>1. /\ pc = "sub" /\ i = s /\ sub[s] = "starting"
          /\ sub' = [sub EXCEPT ![s] = "failed"]
          /\ UNCHANGED <<services, err, async, serving, grpcServer, servedBy, down>>
        BY <1>3 DEF SubFails
    <2>2. \/ pc' = "error" /\ i' = i /\ ctx' = "done"
          \/ s \notin ErrorStop /\ pc' = "sub" /\ i' = i + 1 /\ ctx' = ctx
        BY <1>3, <2>1 DEF SubFails, Fatal
    <2>3. /\ sub' \in [1..SubServices -> {"none", "starting", "up", "failed", "ended"}]
          /\ sub'[s] = "failed"
          /\ \A t \in 1..SubServices : t # s => sub'[t] = sub[t]
        BY <2>1
    <2>5. TypeOK'
        BY <2>1, <2>2, <2>3
    <2>6. StartInv'
        BY <2>1, <2>2, <2>3 DEF StartInv
    <2>7. \A t \in ErrorStop : sub[t] # "failed"
        BY <2>1 DEF FatalInv
    <2>8. FatalInv'
        BY <2>1, <2>2, <2>3, <2>7 DEF StartInv, FatalInv
    <2>9. StopInv' /\ EveryStopFunctionRuns'
        BY <2>1, <2>2 DEF StopInv, StopLabels, HttpDown, EveryStopFunctionRuns
    <2> QED BY <2>5, <2>6, <2>8, <2>9
<1>4. CASE SubEnds(s)
    BY <1>4 DEF SubEnds, StartInv, FatalInv, StopInv, StopLabels, HttpDown, EveryStopFunctionRuns
<1> QED BY <1>1, <1>2, <1>3, <1>4

\* Steps of an asynchronous function.
LEMMA AsyncStep == ASSUME Inv, NEW a \in Asyncs, Async(a) PROVE Inv'
<1> USE CountAssumption DEF Inv, TypeOK, Services, Die, mainVars, serverVars
<1>1. CASE AsyncReturns(a) \/ AsyncChecks(a)
    <2>1. TypeOK'
        BY <1>1 DEF AsyncReturns, AsyncChecks
    <2>2. StartInv' /\ FatalInv'
        BY <1>1 DEF AsyncReturns, AsyncChecks, StartInv, FatalInv
    <2>3. StopInv'
        BY <1>1 DEF AsyncReturns, AsyncChecks, StopInv, StopLabels, HttpDown
    <2> QED BY <1>1, <2>1, <2>2, <2>3 DEF AsyncReturns, AsyncChecks, EveryStopFunctionRuns
<1>2. CASE AsyncLogs(a)
    BY <1>2 DEF AsyncLogs, StartInv, FatalInv, StopInv, StopLabels, HttpDown, EveryStopFunctionRuns
<1> QED BY <1>1, <1>2 DEF Async

\* Start begins to serve.
LEMMA ServerStep ==
    ASSUME Inv, StartHttp \/ HttpsWithoutCert \/ StartGrpc \/ ListenFails \/ ServersStarted \/ Signal
    PROVE  Inv'
<1> USE CountAssumption
        DEF Inv, TypeOK, Services, Advance, Enter, Return, serverVars
<1>1. CASE StartHttp
    BY <1>1 DEF StartHttp, StartInv, FatalInv, StopInv, StopLabels, HttpDown, EveryStopFunctionRuns
<1>2. CASE StartGrpc
    BY <1>2 DEF StartGrpc, StartInv, FatalInv, StopInv, StopLabels, HttpDown, EveryStopFunctionRuns
<1>3. CASE HttpsWithoutCert \/ ListenFails
    BY <1>3 DEF HttpsWithoutCert, ListenFails, StartInv, FatalInv, StopInv, StopLabels, HttpDown, EveryStopFunctionRuns
<1>4. CASE ServersStarted
    BY <1>4 DEF ServersStarted, StartInv, FatalInv, StopInv, StopLabels, HttpDown, EveryStopFunctionRuns
<1>5. CASE Signal
    BY <1>5 DEF Signal, StartInv, FatalInv, StopInv, StopLabels, HttpDown, EveryStopFunctionRuns
<1> QED BY <1>1, <1>2, <1>3, <1>4, <1>5

\* The goroutine of a server, however late.
LEMMA ServeStep == ASSUME Inv, NEW n \in Services, Serve(n) PROVE Inv'
<1> USE CountAssumption DEF Inv, TypeOK, Services, Die, mainVars
<1>1. CASE ServeHttp(n)
    <2>1. TypeOK'
        BY <1>1 DEF ServeHttp
    <2>2. StartInv' /\ FatalInv'
        BY <1>1 DEF ServeHttp, StartInv, FatalInv
    <2>3. StopInv'
        BY <1>1 DEF ServeHttp, StopInv, StopLabels, HttpDown
    <2> QED BY <1>1, <2>1, <2>2, <2>3 DEF ServeHttp, EveryStopFunctionRuns
<1>2. CASE ServeGrpc(n)
    <2>1. TypeOK'
        BY <1>2 DEF ServeGrpc
    <2>2. StartInv' /\ FatalInv'
        BY <1>2 DEF ServeGrpc, StartInv, FatalInv
    <2>3. StopInv'
        <3>1. CASE grpcServer \in down
            BY <1>2, <3>1 DEF ServeGrpc, StopInv, StopLabels, HttpDown
        <3>2. CASE grpcServer \notin down
            <4>1. /\ services[n] = "grpc" /\ grpcServer # 0
                  /\ serving' = [serving EXCEPT ![n] = "serving"]
                  /\ servedBy' = [servedBy EXCEPT ![n] = grpcServer]
                  /\ UNCHANGED <<services, pc, i, grpcServer, down>>
                BY <1>2, <3>2 DEF ServeGrpc, StopInv
            <4>2. pc \notin StopLabels
                BY <3>2, <4>1 DEF StopInv
            <4> QED BY <4>1, <4>2 DEF StopInv, StopLabels, HttpDown
        <3> QED BY <3>1, <3>2
    <2> QED BY <1>2, <2>1, <2>2, <2>3 DEF ServeGrpc, EveryStopFunctionRuns
<1> QED BY <1>1, <1>2 DEF Serve

\* The stop.
LEMMA StoppingStep ==
    ASSUME Inv, Shutdown \/ GracefulStop \/ StopReturns \/ StopChecks \/ StopLogs \/ Stopped
    PROVE  Inv'
<1> USE CountAssumption
        DEF Inv, TypeOK, Services, Advance, Enter, Return, Die, serverVars
<1>1. CASE Shutdown
    <2>1. TypeOK'
        <3>1. serving' \in [Services -> {"none", "spawned", "serving", "closed"}] /\ down' \subseteq Services
            BY <1>1 DEF Shutdown, ToStop
        <3>2. pc' = "shutdown" /\ i' \in Nat \ {0}
            BY <1>1 DEF Shutdown
        <3>3. UNCHANGED <<services, ctx, sub, err, async, grpcServer, servedBy>>
            BY <1>1 DEF Shutdown
        <3> QED BY <3>1, <3>2, <3>3
    <2>2. StartInv' /\ FatalInv'
        BY <1>1 DEF Shutdown, StartInv, FatalInv
    <2>3. \A n \in Services : n < i + 1 /\ services[n] = "http" => HttpDown(n)'
        BY <1>1 DEF Shutdown, ToStop, StopInv, HttpDown
    <2>4. StopInv'
        BY <1>1, <2>3 DEF Shutdown, ToStop, StopInv, StopLabels
    <2> QED BY <1>1, <2>1, <2>2, <2>4 DEF Shutdown, EveryStopFunctionRuns
<1>2. CASE GracefulStop
    <2>1. TypeOK'
        BY <1>2 DEF GracefulStop
    <2>2. StartInv' /\ FatalInv'
        BY <1>2 DEF GracefulStop, StartInv, FatalInv
    <2>3. \A n \in Services : n < i
        BY <1>2 DEF GracefulStop
    <2>4. \A n \in Services :
              /\ serving'[n] \in {serving[n], "closed"}
              /\ grpcServer # 0 /\ servedBy[n] = grpcServer => serving'[n] = "closed"
              /\ servedBy[n] = 0 => serving'[n] = serving[n]
        BY <1>2 DEF GracefulStop
    <2>5. \A n \in Services : services[n] = "http" => HttpDown(n)'
        BY <1>2, <2>3, <2>4 DEF GracefulStop, StopInv, HttpDown
    <2>6. \A n \in Services :
              services[n] = "grpc" /\ serving'[n] = "serving" => servedBy[n] # grpcServer
        BY <1>2, <2>4 DEF GracefulStop, StopInv
    <2>7. StopInv'
        BY <1>2, <2>4, <2>5, <2>6 DEF GracefulStop, StopInv, StopLabels
    <2> QED BY <1>2, <2>1, <2>2, <2>7 DEF GracefulStop, EveryStopFunctionRuns
<1>3. CASE StopReturns \/ StopChecks \/ StopLogs \/ Stopped
    BY <1>3 DEF StopReturns, StopChecks, StopLogs, StopErrorEnds, Stopped,
                StartInv, FatalInv, StopInv, StopLabels, HttpDown, EveryStopFunctionRuns
<1> QED BY <1>1, <1>2, <1>3

----------------------------------------------------------------------------
\* The invariant holds in every reachable state.
THEOREM Inductive == Spec => []Inv
<1>1. Inv /\ [Next]_vars => Inv'
    <2> SUFFICES ASSUME Inv, [Next]_vars PROVE Inv'
        OBVIOUS
    <2>1. CASE UNCHANGED vars
        BY <2>1 DEF vars, mainVars, serverVars, Inv, TypeOK, StartInv, FatalInv, StopInv,
                    StopLabels, HttpDown, EveryStopFunctionRuns, Services
    <2>2. CASE Main
        BY <2>2, StartingStep, SubStep, ServerStep, StoppingStep DEF Main
    <2> QED BY <2>1, <2>2, SubStep, AsyncStep, ServerStep, ServeStep DEF Next
<1> QED BY InitInv, <1>1, PTL DEF Spec

\* All variables hold values of their kind.
THEOREM LifecycleTypeCorrect == Spec => []TypeOK
BY Inductive, PTL DEF Inv

\* After the failure of a fatal sub-service nothing is started, for any number
\* of sub-services, functions and servers.
THEOREM FatalEndsStart == Spec => []NothingAfterFatal
<1>1. Inv => NothingAfterFatal
    BY DEF Inv, FatalInv, NothingAfterFatal
<1> QED BY Inductive, <1>1, PTL

\* After the stop only gRPC servers that were replaced still serve.
THEOREM StopClosesServers == Spec => []LeftServing
<1>1. Inv => LeftServing
    BY DEF Inv, TypeOK, StopInv, StopLabels, HttpDown, LeftServing, Protocols, Services
<1> QED BY Inductive, <1>1, PTL

\* An orderly stop runs every stop function.
THEOREM StopRunsAll == Spec => []EveryStopFunctionRuns
BY Inductive, PTL DEF Inv

----------------------------------------------------------------------------
(* GetGrpcClient: whoever has a connection, or is past the first look, has  *)
(* asked for a mark, and what is in the map stays there.                    *)

GrpcTypeOK ==
    /\ grpcClientMaps \in [Marks -> Nat]
    /\ conns \in Nat
    /\ asked \in [Callers -> Marks \cup {NoMark}]
    /\ stage \in [Callers -> {"idle", "look", "make", "done"}]
    /\ got \in [Callers -> Nat]
    /\ \A c \in Callers : stage[c] \in {"look", "make"} \/ got[c] # NoConn => asked[c] \in Marks

GrpcInv == GrpcTypeOK /\ OneConnection

\* A caller that is given the connection of its mark.
LEMMA GrpcReturnInv ==
    ASSUME GrpcInv, NEW c \in Callers, stage[c] \in {"look", "make"},
           NEW conn \in Nat, GrpcReturn(c, conn), conns' \in Nat,
           grpcClientMaps' \in [Marks -> Nat],
           \A m \in Marks : grpcClientMaps[m] # NoConn => grpcClientMaps'[m] = grpcClientMaps[m],
           conn # NoConn => conn = grpcClientMaps'[asked[c]]
    PROVE  GrpcInv'
<1> USE DEF GrpcReturn, NoConn
<1>1. GrpcTypeOK'
    BY DEF GrpcInv, GrpcTypeOK
<1>2. ASSUME NEW d \in Callers, got'[d] # NoConn
      PROVE  got'[d] = grpcClientMaps'[asked'[d]]
    BY <1>2 DEF GrpcInv, GrpcTypeOK, OneConnection
<1> QED BY <1>1, <1>2 DEF GrpcInv, OneConnection

\* Every step of GetGrpcClient keeps the invariant.
LEMMA GrpcStep == GrpcInv /\ [GrpcNext]_grpcVars => GrpcInv'
<1> SUFFICES ASSUME GrpcInv, [GrpcNext]_grpcVars PROVE GrpcInv'
    OBVIOUS
<1>1. ASSUME NEW c \in Callers, NEW m \in Marks, Ask(c, m) PROVE GrpcInv'
  <2>1. GrpcTypeOK'
      BY <1>1 DEF GrpcInv, GrpcTypeOK, Ask, NoConn
  <2>2. OneConnection'
      BY <1>1 DEF GrpcInv, GrpcTypeOK, OneConnection, Ask, NoConn
  <2> QED BY <2>1, <2>2 DEF GrpcInv
<1>2. ASSUME NEW c \in Callers, Look(c) PROVE GrpcInv'
  <2>1. CASE Exists(asked[c])
      BY <1>2, <2>1, GrpcReturnInv DEF Look, GrpcInv, GrpcTypeOK
  <2>2. CASE ~Exists(asked[c])
    <3>1. GrpcTypeOK'
        BY <1>2, <2>2 DEF GrpcInv, GrpcTypeOK, Look
    <3>2. OneConnection'
        BY <1>2, <2>2 DEF GrpcInv, OneConnection, Look
    <3> QED BY <3>1, <3>2 DEF GrpcInv
  <2> QED BY <2>1, <2>2
<1>3. ASSUME NEW c \in Callers, Found(c) PROVE GrpcInv'
    BY <1>3, GrpcReturnInv DEF Found, GrpcInv, GrpcTypeOK
<1>4. ASSUME NEW c \in Callers, Make(c) PROVE GrpcInv'
  <2>1. grpcClientMaps[asked[c]] = NoConn /\ asked[c] \in Marks
      BY <1>4 DEF Make, StillMissing, Exists, GrpcInv, GrpcTypeOK
  <2>2. conns + 1 \in Nat /\ conns' = conns + 1
      BY <1>4 DEF Make, GrpcInv, GrpcTypeOK
  <2>3. /\ grpcClientMaps' \in [Marks -> Nat]
        /\ grpcClientMaps'[asked[c]] = conns + 1
        /\ \A m \in Marks : grpcClientMaps[m] # NoConn => grpcClientMaps'[m] = grpcClientMaps[m]
      BY <1>4, <2>1, <2>2 DEF Make, GrpcInv, GrpcTypeOK
  <2>4. stage[c] = "make" /\ GrpcReturn(c, conns + 1)
      BY <1>4 DEF Make
  <2> QED BY <2>2, <2>3, <2>4, GrpcReturnInv
<1>5. ASSUME NEW c \in Callers, MakeFails(c) PROVE GrpcInv'
    BY <1>5, GrpcReturnInv DEF MakeFails, GrpcInv, GrpcTypeOK, NoConn
<1>6. CASE UNCHANGED grpcVars
    BY <1>6 DEF grpcVars, GrpcInv, GrpcTypeOK, OneConnection
<1> QED BY <1>1, <1>2, <1>3, <1>4, <1>5, <1>6 DEF GrpcNext

\* However many callers look for a client at once, all have the same one
\* (GetGrpcClient looks again under the write lock).
THEOREM OneConnectionPerMark == GrpcSpec => []OneConnection
<1>1. GrpcInit => GrpcInv
    BY DEF GrpcInit, GrpcInv, GrpcTypeOK, OneConnection, NoConn
<1>2. GrpcInv => OneConnection
    BY DEF GrpcInv
<1> QED BY <1>1, <1>2, GrpcStep, PTL DEF GrpcSpec

----------------------------------------------------------------------------
(* The ring of keys.                                                        *)

RingTypeOK ==
    /\ made \in Nat
    /\ at \in {"off", "failed", "loaded", "ready", "slot", "made", "persisted",
              "published", "stopped"}
    /\ chain \in [Slots -> Nat]
    /\ cur \in Slots
    /\ disk \in [ring : [Slots -> Nat], index : 0..Size]

\* How far slot c is ahead of slot s on the ring.
Ahead(s, c) == IF s <= c THEN c - s ELSE c - s + Size

\* The key in a slot has seen as many younger ones as its slot lies behind c.
Aged(ring, c) == \A s \in Slots : ring[s] # NoKey => made - ring[s] >= Ahead(s, c)

\* A key is in the ring and its handler has more to do.
Telling == at \in {"made", "persisted", "published"}

\* The slot of the youngest key.
Youngest == IF at = "slot" THEN NextIndex ELSE cur

RingInv ==
    /\ RingTypeOK
    /\ IF disk.index = 0 THEN disk.ring = EmptyRing ELSE Aged(disk.ring, disk.index - 1)
    /\ at = "off" => chain = EmptyRing
    /\ at = "loaded" => chain = disk.ring /\ disk.index # 0
    /\ at \in {"ready", "slot"} \/ Telling => Aged(chain, Youngest) /\ Aged(disk.ring, Youngest)

\* One slot further, every other slot is one further behind.
LEMMA NextSlot ==
    ASSUME cur \in Slots
    PROVE  /\ NextIndex = IF cur = Size - 1 THEN 0 ELSE cur + 1
           /\ NextIndex \in Slots
           /\ Ahead(NextIndex, cur) = Size - 1
           /\ \A s \in Slots : Ahead(s, NextIndex) = IF s = NextIndex THEN 0 ELSE Ahead(s, cur) + 1
<1> USE RingAssumption
<1>1. NextIndex = IF cur = Size - 1 THEN 0 ELSE cur + 1
  <2>1. CASE cur = Size - 1
      BY <2>1 DEF NextIndex, Slots
  <2>2. CASE cur # Size - 1
    <3>1. 0 <= cur + 1 /\ cur + 1 < Size
        BY <2>2 DEF Slots
    <3> QED BY <2>2, <3>1 DEF NextIndex, Slots
  <2> QED BY <2>1, <2>2
<1> QED BY <1>1 DEF Slots, Ahead

\* Every step keeps the ages of the keys, in the ring and in what is persisted,
\* which a restart turns into the ring.
LEMMA RingStep == RingInv /\ [JwtNext]_jwtVars => RingInv'
<1> SUFFICES ASSUME RingInv, [JwtNext]_jwtVars PROVE RingInv'
    OBVIOUS
<1> USE RingAssumption DEF RingInv, Telling
<1>0. cur \in Slots /\ 0 \in Slots /\ (disk.index # 0 => disk.index - 1 \in Slots)
    BY DEF RingTypeOK, Slots
<1>1. CASE KeysUnavailable
    BY <1>1 DEF KeysUnavailable, RingTypeOK, Aged
<1>2. CASE LoadKeys
    BY <1>2 DEF LoadKeys, Loaded, RingTypeOK, Aged
<1>3. CASE LoadIndex
    BY <1>0, <1>3 DEF LoadIndex, RingTypeOK, Aged, Youngest
<1>4. CASE FirstKey
  <2>1. RingTypeOK'
      BY <1>0, <1>4 DEF FirstKey, RingTypeOK
  <2>2. \A s \in Slots : EmptyRing[s] = NoKey
      BY DEF EmptyRing
  <2>3. \A s \in Slots : chain'[s] = (IF s = 0 THEN made + 1 ELSE NoKey)
      BY <1>4, <2>2 DEF FirstKey, RingTypeOK
  <2>4. Ahead(0, 0) = 0
      BY DEF Ahead
  <2>5. Aged(chain, 0)' /\ Aged(disk.ring, 0)'
      BY <1>4, <2>2, <2>3, <2>4 DEF FirstKey, Aged, RingTypeOK, NoKey
  <2> QED BY <1>4, <2>1, <2>5 DEF FirstKey, Youngest
<1>5. CASE Rotate
  <2>1. RingTypeOK'
      BY <1>5, NextSlot, <1>0 DEF Rotate, RingTypeOK
  <2>2. Aged(chain, cur) /\ Aged(disk.ring, cur)
      BY <1>5 DEF Rotate, Youngest
  <2>3. NextIndex' = NextIndex /\ made' = made + 1 /\ disk' = disk
      BY <1>5 DEF Rotate, NextIndex
  <2>4. \A s \in Slots : chain'[s] = (IF s = NextIndex THEN made + 1 ELSE chain[s])
      BY <1>5 DEF Rotate, RingTypeOK
  <2>5. \A s \in Slots : Ahead(s, NextIndex) \in Nat /\ Ahead(s, cur) \in Nat
                         /\ Ahead(s, NextIndex) <= Ahead(s, cur) + 1
      BY <1>0, NextSlot DEF Ahead, Slots
  <2>6. Ahead(NextIndex, NextIndex) = 0
      BY <1>0, NextSlot
  <2>7. (\A s \in Slots : chain'[s] # NoKey => made' - chain'[s] >= Ahead(s, NextIndex))
        /\ (\A s \in Slots : disk.ring[s] # NoKey => made' - disk.ring[s] >= Ahead(s, NextIndex))
      BY <2>2, <2>3, <2>4, <2>5, <2>6 DEF RingTypeOK, Aged
  <2>8. Aged(chain, Youngest)' /\ Aged(disk.ring, Youngest)'
      BY <1>5, <2>3, <2>7 DEF Rotate, Aged, Youngest, Ahead
  <2>9. disk.index # 0 => Aged(disk.ring, disk.index - 1)'
    <3>1. SUFFICES ASSUME disk.index # 0, NEW s \in Slots, disk.ring[s] # NoKey
                   PROVE  made' - disk.ring[s] >= Ahead(s, disk.index - 1)
        BY <2>3 DEF Aged, Ahead
    <3>2. made - disk.ring[s] >= Ahead(s, disk.index - 1)
        BY <3>1 DEF Aged
    <3>3. Ahead(s, disk.index - 1) \in Int
      <4>1. disk.index - 1 \in Int /\ s \in Int /\ Size \in Int
          BY <1>0, <3>1 DEF RingAssumption, Slots
      <4> QED BY <4>1 DEF Ahead
    <3>4. disk.ring[s] \in Nat /\ made \in Nat
        BY <3>1 DEF RingTypeOK
    <3>5. made' = made + 1
        BY <2>3
    <3> QED BY <3>2, <3>3, <3>4, <3>5
  <2> QED BY <1>5, <2>1, <2>3, <2>8, <2>9 DEF Rotate
<1>6. CASE MoveIndex
  <2>1. RingTypeOK'
      BY <1>6, NextSlot, <1>0 DEF MoveIndex, RingTypeOK
  <2>2. Youngest' = Youngest
      BY <1>6 DEF MoveIndex, Youngest
  <2> QED BY <1>6, <2>1, <2>2 DEF MoveIndex, Aged, Ahead
<1>7. CASE PersistKey
  <2>1. RingTypeOK'
      BY <1>0, <1>7 DEF PersistKey, RingTypeOK, Slots
  <2>2. Aged(chain, cur) /\ Aged(disk.ring, cur)
      BY <1>7 DEF PersistKey, Youngest, Telling
  <2>3. made' = made /\ chain' = chain /\ cur' = cur /\ disk'.index = cur + 1
        /\ at' \in {"persisted", "ready"}
      BY <1>7 DEF PersistKey
  <2>4. \A s \in Slots : disk'.ring[s] = (IF s = cur THEN chain[cur] ELSE disk.ring[s])
      BY <1>0, <1>7 DEF PersistKey, RingTypeOK
  <2>5. Aged(chain, cur)' /\ Aged(disk.ring, cur)'
      BY <2>2, <2>3, <2>4 DEF Aged, Ahead
  <2>6. cur + 1 # 0 /\ (disk.index - 1)' = cur
      BY <1>0, <2>3 DEF Slots
  <2> QED BY <2>1, <2>3, <2>5, <2>6 DEF Youngest, Aged, Ahead
<1>8. CASE PublishKey \/ HandlerFails
  <2>1. UNCHANGED <<made, chain, cur, disk>> /\ Telling
        /\ at' \in {"published", "ready"}
      BY <1>8 DEF PublishKey, HandlerFails, Telling
  <2>2. RingTypeOK'
      BY <2>1 DEF RingTypeOK
  <2>3. Aged(chain, cur)' /\ Aged(disk.ring, cur)'
      BY <2>1 DEF Youngest, Telling, Aged, Ahead
  <2>4. disk.index # 0 => Aged(disk.ring, disk.index - 1)'
      BY <2>1 DEF Aged, Ahead
  <2> QED BY <2>1, <2>2, <2>3, <2>4 DEF Youngest
<1>9. CASE Stop
    BY <1>9 DEF Stop, RingTypeOK, Aged
<1>10. CASE Crash
    BY <1>0, <1>10 DEF Crash, RingTypeOK, Aged, EmptyRing, NoKey
<1>11. ASSUME UNCHANGED managerKeys PROVE RingInv'
    BY <1>11 DEF managerKeys, RingTypeOK, Aged, Youngest, NextIndex
<1> QED
    BY <1>1, <1>2, <1>3, <1>4, <1>5, <1>6, <1>7, <1>8, <1>9, <1>10, <1>11
       DEF JwtNext, Managing, SetKeys, UpdateKey, GenerateSignature, jwtVars

\* There are no keys at first.
LEMMA RingInit == JwtInit => RingInv
BY RingAssumption DEF JwtInit, RingInv, RingTypeOK, EmptyRing, Slots, NoKey, Telling

\* For any length of the ring, a tick of Start replaces a key that has seen the
\* rest of the ring made after it, or more keys, over restarts and failures.
THEOREM KeysOutliveARound == JwtSpec => KeysLastARound
<1>2. ASSUME RingInv, [JwtNext]_jwtVars,
             NEW s \in Slots, at' = "slot", chain[s] # NoKey, chain'[s] # chain[s]
      PROVE  made - chain[s] >= Size - 1
  <2>1. Rotate
      BY <1>2 DEF JwtNext, jwtVars, managerKeys, Managing, KeysUnavailable, LoadKeys,
          LoadIndex, FirstKey, MoveIndex, PersistKey, PublishKey, HandlerFails, Stop, Crash, SetKeys,
          UpdateKey, GenerateSignature
  <2>2. s = NextIndex /\ Aged(chain, cur)
      BY <1>2, <2>1 DEF Rotate, RingInv, RingTypeOK, Youngest
  <2> QED BY <1>2, <2>2, NextSlot DEF Aged, RingInv, RingTypeOK
<1>3. RingInv /\ [JwtNext]_jwtVars =>
        \A s \in Slots :
            at' = "slot" /\ chain[s] # NoKey /\ chain'[s] # chain[s] =>
                made - chain[s] >= Size - 1
    BY <1>2
<1> QED BY <1>3, RingInit, RingStep, PTL DEF JwtSpec, KeysLastARound

----------------------------------------------------------------------------
(* The keys on their way to the applications.                               *)

Updates == [index : Slots, key : Nat \ {NoKey}]

Waiting(a, u) == \E n \in 1..Len(queue[a]) : queue[a][n] = u

TravelTypeOK ==
    /\ copy \in [Apps -> [Slots -> Nat]]
    /\ copyCur \in [Apps -> Slots]
    /\ queue \in [Apps -> Seq(Updates)]
    /\ token \in Updates \cup {NoToken}
    /\ told \subseteq Updates

\* A key that is on its way to the handler's end is younger than all told.
FreshKey ==
    /\ at = "slot" => chain[NextIndex] = made
    /\ Telling => chain[cur] = made
    /\ at = "slot" \/ Telling => made # 0
    /\ at = "persisted" => disk.ring[cur] = made
    /\ \A u \in told : u.key <= made /\ (at = "slot" \/ Telling => u.key < made)

\* An application has the key of a slot, or a younger one, or waits for it ...
Reached == \A u \in told, a \in Apps : copy[a][u.index] >= u.key \/ Waiting(a, u)

\* ... behind the older keys of the slot; and the persisted ring has one too.
Ordered ==
    \A u \in told, a \in Apps : \A n \in 1..Len(queue[a]) :
        queue[a][n].index = u.index /\ queue[a][n].key < u.key =>
            \E m \in n + 1..Len(queue[a]) : queue[a][m] = u

Persisted == \A u \in told : disk.ring[u.index] >= u.key

TravelInv == TravelTypeOK /\ FreshKey /\ Reached /\ Ordered /\ Persisted

\* Steps of the manager that publish and persist nothing.
LEMMA QuietManager ==
    ASSUME RingInv, TravelInv, Managing, ~PersistKey, ~PublishKey
    PROVE  TravelInv'
<1>1. UNCHANGED <<disk, copy, copyCur, queue, token, told>>
    BY DEF Managing, KeysUnavailable, LoadKeys, LoadIndex, FirstKey, Rotate, MoveIndex,
           HandlerFails, Stop, Crash, appKeys
<1>2. TravelTypeOK' /\ Reached' /\ Ordered' /\ Persisted'
  <2>1. TravelTypeOK' /\ Persisted'
      BY <1>1 DEF TravelInv, TravelTypeOK, Persisted
  <2>2. Reached'
      BY <1>1 DEF TravelInv, Reached, Waiting
  <2>3. Ordered'
      BY <1>1 DEF TravelInv, Ordered
  <2> QED BY <2>1, <2>2, <2>3
<1>3. cur \in Slots /\ 0 \in Slots /\ made \in Nat /\ chain \in [Slots -> Nat] /\ NextIndex \in Slots
    BY NextSlot, RingAssumption DEF RingInv, RingTypeOK, Slots
<1>4. \A u \in told : u.key \in Nat /\ u.key <= made
    BY DEF TravelInv, TravelTypeOK, FreshKey, Updates
<1>5. FreshKey'
  <2>1. CASE FirstKey
      BY <1>1, <1>3, <1>4, <2>1 DEF FirstKey, FreshKey, Telling
  <2>2. CASE Rotate
    <3>1. NextIndex' = NextIndex /\ chain'[NextIndex] = made + 1
        BY <1>3, <2>2 DEF Rotate, NextIndex
    <3> QED BY <1>1, <1>3, <1>4, <2>2, <3>1 DEF Rotate, FreshKey, Telling
  <2>3. CASE MoveIndex
      BY <1>1, <1>3, <2>3 DEF MoveIndex, TravelInv, FreshKey, Telling
  <2>4. CASE KeysUnavailable \/ LoadKeys \/ LoadIndex \/ HandlerFails \/ Stop \/ Crash
    <3>1. made' = made /\ at' \in {"failed", "loaded", "ready", "stopped", "off"}
        BY <2>4 DEF KeysUnavailable, LoadKeys, LoadIndex, HandlerFails, Stop, Crash
    <3> QED BY <1>1, <1>4, <3>1 DEF FreshKey, Telling
  <2> QED BY <2>1, <2>2, <2>3, <2>4 DEF Managing
<1> QED BY <1>2, <1>5 DEF TravelInv

\* A key is persisted: what has been told of its slot is older.
LEMMA PersistKeyInv ==
    ASSUME RingInv, TravelInv, PersistKey
    PROVE  TravelInv'
<1>1. /\ cur \in Slots /\ made \in Nat /\ made # 0 /\ chain[cur] = made
      /\ disk \in [ring : [Slots -> Nat], index : 0..Size]
      /\ \A u \in told : u \in Updates /\ u.key <= made /\ u.key < made
    BY DEF RingInv, RingTypeOK, TravelInv, TravelTypeOK, FreshKey, Telling, PersistKey
<1>2. /\ UNCHANGED <<made, chain, cur, copy, copyCur, queue, token, told>>
      /\ \A s \in Slots : disk'.ring[s] = (IF s = cur THEN made ELSE disk.ring[s])
      /\ at' \in {"persisted", "ready"}
    BY <1>1 DEF PersistKey, appKeys
<1>3. TravelTypeOK' /\ Reached' /\ Ordered'
    BY <1>2 DEF TravelInv, TravelTypeOK, Reached, Ordered, Waiting
<1>4. FreshKey'
    BY <1>1, <1>2 DEF FreshKey, Telling
<1>5. Persisted'
  <2> SUFFICES ASSUME NEW u \in told PROVE disk'.ring[u.index] >= u.key
      BY <1>2 DEF Persisted
  <2>1. u.index \in Slots /\ u.key \in Nat /\ u.key < made /\ disk.ring[u.index] >= u.key
      BY <1>1 DEF TravelInv, Persisted, Updates
  <2> QED BY <1>1, <1>2, <2>1
<1> QED BY <1>3, <1>4, <1>5 DEF TravelInv

\* A key is published: it is younger than all that are told, and comes last.
LEMMA PublishKeyInv ==
    ASSUME RingInv, TravelInv, PublishKey, NEW new, new = [index |-> cur, key |-> made]
    PROVE  TravelInv'
<1>1. /\ cur \in Slots /\ made \in Nat /\ made # 0 /\ chain[cur] = made
      /\ disk \in [ring : [Slots -> Nat], index : 0..Size]
      /\ \A u \in told : u \in Updates /\ u.key < made
      /\ at = "persisted" => disk.ring[cur] = made
    BY DEF RingInv, RingTypeOK, TravelInv, TravelTypeOK, FreshKey, Telling, PublishKey
<1>2. /\ new \in Updates /\ new.index = cur /\ new.key = made /\ Update = new
      /\ \A u \in told : u.key \in Nat /\ u.index \in Slots
    BY <1>1 DEF Updates, NoKey, Update
<1>3. /\ UNCHANGED <<made, chain, cur, disk, copy, copyCur, token>>
      /\ at' \in {"published", "ready"}
      /\ at = "persisted" => told' = told \cup {new}
      /\ at # "persisted" => told' = told
    BY <1>2 DEF PublishKey, appKeys
<1>4. /\ \A a \in Apps : queue'[a] = Append(queue[a], new)
      /\ queue' \in [Apps -> Seq(Updates)]
    BY <1>2 DEF PublishKey, TravelInv, TravelTypeOK
<1>5. ASSUME NEW a \in Apps
      PROVE  /\ Len(queue[a]) \in Nat
             /\ Len(queue'[a]) = Len(queue[a]) + 1
             /\ \A n \in 1..Len(queue[a]) : queue'[a][n] = queue[a][n]
             /\ queue'[a][Len(queue[a]) + 1] = new
  <2>1. queue[a] \in Seq(Updates)
      BY DEF TravelInv, TravelTypeOK
  <2>2. Len(queue[a]) \in Nat
      BY <2>1, LenProperties
  <2>3. queue'[a] = Append(queue[a], new) /\ new \in Updates
      BY <1>2, <1>4
  <2>4. /\ Len(Append(queue[a], new)) = Len(queue[a]) + 1
        /\ \A n \in 1..Len(queue[a]) : Append(queue[a], new)[n] = queue[a][n]
        /\ Append(queue[a], new)[Len(queue[a]) + 1] = new
      BY <2>1, <2>3, AppendProperties
  <2> QED BY <2>2, <2>3, <2>4
<1>6. TravelTypeOK'
    BY <1>2, <1>3, <1>4 DEF TravelInv, TravelTypeOK
<1>7. \A u \in told' : u \in told \/ u = new
    BY <1>3
<1>8. FreshKey'
  <2>1. CASE at = "persisted"
    <3>1. at' = "ready"
        BY <2>1 DEF PublishKey
    <3>2. \A u \in told' : u.key <= made
        BY <1>1, <1>2, <1>7
    <3> QED BY <1>3, <3>1, <3>2 DEF FreshKey, Telling
  <2>2. CASE at # "persisted"
      BY <1>1, <1>2, <1>3, <2>2 DEF FreshKey, Telling
  <2> QED BY <2>1, <2>2
<1>9. Persisted'
  <2>1. at = "persisted" => disk.ring[new.index] >= new.key
      BY <1>1, <1>2
  <2> QED BY <1>3, <2>1 DEF TravelInv, Persisted
<1>10. Reached'
  <2> SUFFICES ASSUME NEW u \in told', NEW a \in Apps
               PROVE  copy'[a][u.index] >= u.key \/ Waiting(a, u)'
      BY DEF Reached
  <2>1. CASE u = new
      BY <1>5, <2>1 DEF Waiting
  <2>2. CASE u \in told
    <3>1. CASE copy[a][u.index] >= u.key
        BY <1>3, <3>1
    <3>2. CASE Waiting(a, u)
      <4>1. PICK n \in 1..Len(queue[a]) : queue[a][n] = u
          BY <3>2 DEF Waiting
      <4>2. n \in 1..Len(queue'[a]) /\ queue'[a][n] = u
          BY <1>5, <4>1
      <4> QED BY <4>2 DEF Waiting
    <3>3. (copy[a][u.index] >= u.key) \/ Waiting(a, u)
        BY <2>2 DEF TravelInv, Reached
    <3> QED BY <3>1, <3>2, <3>3
  <2> QED BY <1>7, <2>1, <2>2
<1>11. Ordered'
  <2> SUFFICES ASSUME NEW u \in told', NEW a \in Apps, NEW n \in 1..Len(queue'[a]),
                      queue'[a][n].index = u.index, queue'[a][n].key < u.key
               PROVE  \E m \in n + 1..Len(queue'[a]) : queue'[a][m] = u
      BY DEF Ordered
  <2>1. n \in 1..Len(queue[a])
    <3>1. u.key \in Nat /\ u.key <= made
      <4>1. CASE u = new
          BY <1>1, <1>2, <4>1
      <4>2. CASE u \in told
          BY <1>1, <1>2, <4>2
      <4> QED BY <1>7, <4>1, <4>2
    <3> QED BY <1>1, <1>2, <1>5, <3>1
  <2>2. CASE u = new
      BY <1>5, <2>1, <2>2
  <2>3. CASE u \in told
    <3>1. queue'[a][n] = queue[a][n]
        BY <1>5, <2>1
    <3>2. PICK m \in n + 1..Len(queue[a]) : queue[a][m] = u
        BY <2>1, <2>3, <3>1 DEF TravelInv, Ordered
    <3>3. m \in 1..Len(queue[a]) /\ m \in n + 1..Len(queue'[a])
        BY <1>5, <2>1, <3>2
    <3> QED BY <1>5, <3>2, <3>3
  <2> QED BY <1>7, <2>2, <2>3
<1> QED BY <1>6, <1>8, <1>9, <1>10, <1>11 DEF TravelInv

\* An update reaches an application, for the last time or not.
LEMMA UpdateKeyInv ==
    ASSUME RingInv, TravelInv, NEW a \in Apps, UpdateKey(a), NEW u0, u0 = Head(queue[a])
    PROVE  TravelInv'
<1>1. /\ queue[a] \in Seq(Updates) /\ queue[a] # <<>>
      /\ copy \in [Apps -> [Slots -> Nat]]
      /\ queue \in [Apps -> Seq(Updates)]
    BY DEF UpdateKey, TravelInv, TravelTypeOK
<1>2. /\ Len(queue[a]) \in Nat /\ Len(queue[a]) >= 1
      /\ queue[a][1] = u0 /\ u0 \in Updates
      /\ Tail(queue[a]) \in Seq(Updates)
      /\ Len(Tail(queue[a])) = Len(queue[a]) - 1
      /\ \A n \in 1..Len(queue[a]) - 1 : Tail(queue[a])[n] = queue[a][n + 1]
    BY <1>1, HeadTailProperties
<1>3. u0.index \in Slots /\ u0.key \in Nat /\ Waiting(a, u0)
    BY <1>2 DEF Updates, Waiting
<1>4. /\ UNCHANGED <<made, at, chain, cur, disk, copyCur, token, told>>
      /\ \A s \in Slots : copy'[a][s] = (IF s = u0.index THEN u0.key ELSE copy[a][s])
      /\ \A b \in Apps \ {a} : copy'[b] = copy[b] /\ queue'[b] = queue[b]
      /\ copy' \in [Apps -> [Slots -> Nat]]
      /\ queue'[a] \in {queue[a], Tail(queue[a])}
      /\ queue' \in [Apps -> Seq(Updates)]
    BY <1>1, <1>2, <1>3 DEF UpdateKey, Updated, managerKeys
<1>5. TravelTypeOK'
    BY <1>4 DEF TravelInv, TravelTypeOK
<1>6. FreshKey' /\ Persisted'
    BY <1>4 DEF TravelInv, FreshKey, Persisted, NextIndex, Telling
<1>7. \A u \in told : u \in Updates /\ u.key \in Nat /\ u.index \in Slots
    BY DEF TravelInv, TravelTypeOK, Updates
\* What is waited for behind the first place is waited for afterwards.
<1>8. ASSUME NEW u, NEW m \in 2..Len(queue[a]), queue[a][m] = u
      PROVE  \E k \in {m, m - 1} : k \in 1..Len(queue'[a]) /\ queue'[a][k] = u
  <2>1. CASE queue'[a] = queue[a]
      BY <1>2, <1>8, <2>1
  <2>2. CASE queue'[a] = Tail(queue[a])
    <3>1. m - 1 \in 1..Len(queue[a]) - 1 /\ (m - 1) + 1 = m
        BY <1>2, <1>8
    <3>2. m - 1 \in 1..Len(queue'[a]) /\ queue'[a][m - 1] = u
        BY <1>2, <1>8, <2>2, <3>1
    <3> QED BY <3>2
  <2> QED BY <1>4, <2>1, <2>2
<1>9. Reached'
  <2> SUFFICES ASSUME NEW u \in told, NEW b \in Apps
               PROVE  copy'[b][u.index] >= u.key \/ Waiting(b, u)'
      BY <1>4 DEF Reached
  <2>1. CASE b # a
    <3>1. copy'[b] = copy[b] /\ queue'[b] = queue[b]
        BY <1>4, <2>1
    <3> QED BY <3>1 DEF TravelInv, Reached, Waiting
  <2>2. CASE b = a /\ u.index = u0.index /\ u.key <= u0.key
      BY <1>3, <1>4, <2>2, <1>7
  <2>3. CASE b = a /\ u.index = u0.index /\ u0.key < u.key
    <3>1. PICK m \in 1 + 1..Len(queue[a]) : queue[a][m] = u
        BY <1>2, <2>3 DEF TravelInv, Ordered
    <3>2. m \in 2..Len(queue[a])
        BY <3>1
    <3>3. PICK k \in {m, m - 1} : k \in 1..Len(queue'[a]) /\ queue'[a][k] = u
        BY <3>1, <3>2, <1>8
    <3> QED BY <2>3, <3>3 DEF Waiting
  <2>4. CASE b = a /\ u.index # u0.index
    <3>1. CASE copy[a][u.index] >= u.key
        BY <1>4, <1>7, <2>4, <3>1
    <3>2. CASE Waiting(a, u)
      <4>1. PICK m \in 1..Len(queue[a]) : queue[a][m] = u
          BY <3>2 DEF Waiting
      <4>2. m \in 2..Len(queue[a])
          BY <1>2, <2>4, <4>1
      <4>3. PICK k \in {m, m - 1} : k \in 1..Len(queue'[a]) /\ queue'[a][k] = u
          BY <4>1, <4>2, <1>8
      <4> QED BY <2>4, <4>3 DEF Waiting
    <3> QED BY <2>4, <3>1, <3>2 DEF TravelInv, Reached
  <2> QED BY <1>3, <1>7, <2>1, <2>2, <2>3, <2>4
<1>10. Ordered'
  <2> SUFFICES ASSUME NEW u \in told, NEW b \in Apps, NEW n \in 1..Len(queue'[b]),
                      queue'[b][n].index = u.index, queue'[b][n].key < u.key
               PROVE  \E m \in n + 1..Len(queue'[b]) : queue'[b][m] = u
      BY <1>4 DEF Ordered
  <2>1. CASE queue'[b] = queue[b]
      BY <2>1 DEF TravelInv, Ordered
  <2>2. CASE b = a /\ queue'[a] = Tail(queue[a])
    <3>1. n + 1 \in 1..Len(queue[a]) /\ queue'[b][n] = queue[a][n + 1]
        BY <1>2, <2>2
    <3>2. PICK m \in (n + 1) + 1..Len(queue[a]) : queue[a][m] = u
      <4>1. queue[a][n + 1].index = u.index /\ queue[a][n + 1].key < u.key
          BY <2>2, <3>1
      <4> QED BY <3>1, <4>1 DEF TravelInv, Ordered
    <3>3. m - 1 \in 1..Len(queue[a]) - 1 /\ m - 1 + 1 = m /\ m - 1 \in n + 1..Len(queue'[b])
        BY <1>2, <2>2, <3>1, <3>2
    <3>4. queue'[b][m - 1] = u
        BY <1>2, <2>2, <3>2, <3>3
    <3> QED BY <3>3, <3>4
  <2> QED BY <1>4, <2>1, <2>2
<1> QED BY <1>5, <1>6, <1>9, <1>10 DEF TravelInv

\* Every step of the key ring and of the applications keeps the invariant.
LEMMA TravelStep == RingInv /\ TravelInv /\ [JwtNext]_jwtVars => TravelInv'
<1> SUFFICES ASSUME RingInv, TravelInv, [JwtNext]_jwtVars PROVE TravelInv'
    OBVIOUS
<1>1. CASE Managing
    BY <1>1, QuietManager, PersistKeyInv, PublishKeyInv
<1>2. ASSUME NEW a \in Apps, UpdateKey(a) PROVE TravelInv'
    BY <1>2, UpdateKeyInv
<1>3. ASSUME NEW a \in Apps, SetKeys(a) PROVE TravelInv'
  <2>1. /\ disk \in [ring : [Slots -> Nat], index : 0..Size]
        /\ copy'[a] = disk.ring
        /\ copyCur'[a] \in Slots
    <3>1. disk \in [ring : [Slots -> Nat], index : 0..Size]
        BY DEF RingInv, RingTypeOK
    <3>2. disk.index # 0 => disk.index - 1 \in Slots
        BY <3>1, RingAssumption DEF Slots
    <3>3. 0 \in Slots
        BY RingAssumption DEF Slots
    <3> QED BY <1>3, <3>1, <3>2, <3>3 DEF SetKeys, RingInv, TravelInv, TravelTypeOK
  <2>2. /\ UNCHANGED <<made, at, chain, cur, disk, queue, token, told>>
        /\ \A b \in Apps \ {a} : copy'[b] = copy[b]
        /\ copy' \in [Apps -> [Slots -> Nat]]
        /\ copyCur' \in [Apps -> Slots]
      BY <1>3, <2>1 DEF SetKeys, managerKeys, TravelInv, TravelTypeOK
  <2>3. TravelTypeOK' /\ FreshKey' /\ Persisted' /\ Ordered'
      BY <2>2 DEF TravelInv, TravelTypeOK, FreshKey, Persisted, Ordered, NextIndex, Telling
  <2>4. Reached'
    <3> SUFFICES ASSUME NEW u \in told, NEW b \in Apps
                 PROVE  copy'[b][u.index] >= u.key \/ Waiting(b, u)'
        BY <2>2 DEF Reached
    <3>1. CASE b = a
        BY <2>1, <3>1 DEF TravelInv, Persisted
    <3>2. CASE b # a
      <4>1. copy'[b] = copy[b] /\ queue' = queue
          BY <2>2, <3>2
      <4> QED BY <4>1 DEF TravelInv, Reached, Waiting
    <3> QED BY <3>1, <3>2
  <2> QED BY <2>3, <2>4 DEF TravelInv
<1>4. ASSUME NEW a \in Apps, GenerateSignature(a) PROVE TravelInv'
  <2>1. /\ UNCHANGED <<made, at, chain, cur, disk, copy, copyCur, queue, told>>
        /\ token' \in Updates
      BY <1>4 DEF GenerateSignature, managerKeys, appKeys, TravelInv, TravelTypeOK, Updates
  <2> QED BY <2>1 DEF TravelInv, TravelTypeOK, FreshKey, Persisted, Ordered, Reached,
                      NextIndex, Waiting, Telling
<1>5. CASE UNCHANGED jwtVars
    BY <1>5 DEF jwtVars, managerKeys, appKeys, TravelInv, TravelTypeOK, FreshKey,
                Persisted, Ordered, Reached, NextIndex, Waiting, Telling
<1> QED BY <1>1, <1>2, <1>3, <1>4, <1>5 DEF JwtNext

\* A token whose key was persisted and then published verifies in every
\* application, unless the key of its slot is already younger there, or its key
\* is still on the way (UpdateKey, SetKeys): however often handlers fail or die
\* half-way with other keys, and whatever those publish first.
THEOREM TokensAreGoodElsewhere == JwtSpec => []TokensTravel
<1>1. JwtInit => RingInv /\ TravelInv
  <2> SUFFICES ASSUME JwtInit PROVE TravelInv
      BY RingInit
  <2>1. TravelTypeOK
      BY RingAssumption DEF JwtInit, TravelTypeOK, EmptyRing, Slots, NoKey
  <2>2. told = {} /\ at = "off"
      BY DEF JwtInit
  <2> QED BY <2>1, <2>2 DEF TravelInv, FreshKey, Reached, Ordered, Persisted, Telling
<1>2. RingInv /\ TravelInv => TokensTravel
  <2> SUFFICES ASSUME RingInv, TravelInv, token \in told, NEW a \in Apps
               PROVE  \/ Verifies(a, token)
                      \/ copy[a][token.index] > token.key
                      \/ \E n \in 1..Len(queue[a]) : queue[a][n] = token
      BY DEF TokensTravel
  <2>1. token \in Updates
      BY DEF TravelInv, TravelTypeOK
  <2>2. copy[a][token.index] \in Nat /\ token.key \in Nat
      BY <2>1 DEF TravelInv, TravelTypeOK, Updates
  <2> QED BY <2>1, <2>2 DEF TravelInv, Reached, Waiting, Verifies
<1> QED BY <1>1, <1>2, RingStep, TravelStep, PTL DEF JwtSpec
----------------------------------------------------------------------------
(* The sequences.                                                           *)

Tickets == [id : Nat, draw : Nat, round : Nat]

\* The numbers that are on their way, or have arrived.
Given == {held[d] : d \in Drawers} \cup {answer[d] : d \in Drawers}

\* How many numbers have been drawn since n was, if none is left out.
Since(n) == IF n <= current THEN current - n ELSE current - n + MaxValue

\* A number of this round was drawn so long ago that the counter had the time
\* to get where it is.
GivenInv ==
    \A h \in Given : h # Nothing =>
        /\ h.id \in 1..MaxValue
        /\ h.draw \in 1..draws
        /\ h.round \in 0..round
        /\ h.round = round => current # 0 /\ draws - h.draw >= Since(h.id)

Apart ==
    \A g, h \in Given :
        g # Nothing /\ g.id = h.id /\ g.round = h.round /\ g.draw < h.draw =>
            h.draw - g.draw >= MaxValue

SequenceTypeOK ==
    /\ current \in 0..MaxValue
    /\ draws \in Nat
    /\ round \in Nat
    /\ held \in [Drawers -> Tickets]
    /\ answer \in [Drawers -> Tickets]

SequenceInv == SequenceTypeOK /\ GivenInv /\ Apart

\* What both generators draw next.
Successor == IF current = MaxValue THEN 1 ELSE current + 1

\* Before or after the wrap, it is the same number.
LEMMA BothCount == SequenceTypeOK => LocalDrawn = Successor /\ RedisDrawn = Successor
BY MaxValueAssumption DEF SequenceTypeOK, LocalDrawn, RedisDrawn, Successor

\* Types of what is given.
LEMMA GivenTickets == SequenceTypeOK => Given \subseteq Tickets
BY DEF SequenceTypeOK, Given

\* A number is drawn, and nothing else is added to those that are given.
LEMMA DrawInv ==
    ASSUME NEW n, n = Successor, NEW new, new = Drawn(n),
           SequenceInv, SequenceTypeOK', Draw(n), Given' \subseteq Given \cup {new}
    PROVE  SequenceInv'
<1> USE MaxValueAssumption
<1>1. /\ current' = n /\ draws' = draws + 1 /\ round' = round
      /\ draws \in Nat /\ round \in Nat /\ current \in 0..MaxValue
      /\ n \in 1..MaxValue
    BY DEF Draw, SequenceInv, SequenceTypeOK, Successor
<1>2. new = [id |-> n, draw |-> draws + 1, round |-> round] /\ new \in Tickets
    BY <1>1 DEF Drawn, Tickets
<1>3. ASSUME current # 0, NEW m \in 1..MaxValue
      PROVE  /\ Since(m) \in Nat
             /\ Since(m)' = IF m = n THEN 0 ELSE Since(m) + 1
             /\ m = n => Since(m) = MaxValue - 1
  <2>1. CASE current = MaxValue
      BY <1>1, <1>3, <2>1 DEF Since, Successor
  <2>2. CASE current # MaxValue
      BY <1>1, <1>3, <2>2 DEF Since, Successor
  <2> QED BY <2>1, <2>2
<1>4. Since(n)' = 0
    BY <1>1 DEF Since
<1>5. Given \subseteq Tickets
    BY GivenTickets DEF SequenceInv
<1>6. GivenInv'
  <2> SUFFICES ASSUME NEW h \in Given', h # Nothing
               PROVE  /\ h.id \in 1..MaxValue
                      /\ h.draw \in 1..draws'
                      /\ h.round \in 0..round'
                      /\ h.round = round' => current' # 0 /\ draws' - h.draw >= Since(h.id)'
      BY DEF GivenInv, Nothing
  <2>1. CASE h = new
      BY <2>1, <1>1, <1>2, <1>4
  <2>2. CASE h \in Given
      BY <2>2, <1>1, <1>3, <1>5 DEF SequenceInv, GivenInv, Tickets
  <2> QED BY <2>1, <2>2
<1>7. Apart'
  <2> SUFFICES ASSUME NEW g \in Given', NEW h \in Given', g # Nothing, g.id = h.id,
                      g.round = h.round, g.draw < h.draw
               PROVE  h.draw - g.draw >= MaxValue
      BY DEF Apart, Nothing
  <2>1. CASE g \in Given /\ h \in Given
      BY <2>1 DEF SequenceInv, Apart
  <2>2. CASE g \in Given /\ h = new
      BY <2>2, <1>1, <1>2, <1>3, <1>5 DEF SequenceInv, GivenInv, Tickets
  <2>3. CASE g = new /\ h = new
      BY <2>3, <1>1, <1>2
  <2>4. CASE g = new /\ h \in Given
    <3>1. h # Nothing
        BY <2>4, <1>1, <1>2 DEF Nothing
    <3>2. h.draw <= draws
        BY <2>4, <3>1, <1>1 DEF SequenceInv, GivenInv
    <3> QED BY <2>4, <3>2, <1>1, <1>2, <1>5 DEF Tickets
  <2> QED BY <2>1, <2>2, <2>3, <2>4
<1> QED BY <1>6, <1>7 DEF SequenceInv

\* No number is drawn and none is added to those that are given.
LEMMA KeepInv ==
    ASSUME SequenceInv, SequenceTypeOK', Given' \subseteq Given \cup {Nothing},
           UNCHANGED <<current, draws, round>>
    PROVE  SequenceInv'
<1>1. GivenInv'
    BY DEF SequenceInv, GivenInv, Since, Nothing
<1>2. Apart'
  <2> SUFFICES ASSUME NEW g \in Given', NEW h \in Given', g # Nothing, g.id = h.id,
                      g.round = h.round, g.draw < h.draw
               PROVE  h.draw - g.draw >= MaxValue
      BY DEF Apart, Nothing
  <2>1. g \in Given /\ g.id \in 1..MaxValue
      BY DEF SequenceInv, GivenInv
  <2>2. h # Nothing
      BY <2>1, MaxValueAssumption DEF Nothing
  <2> QED BY <2>1, <2>2 DEF SequenceInv, Apart
<1> QED BY <1>1, <1>2 DEF SequenceInv

\* Every step of either generator keeps the invariant.
LEMMA SequenceStep == SequenceInv /\ [SequenceNext]_sequenceVars => SequenceInv'
<1> SUFFICES ASSUME SequenceInv, [SequenceNext]_sequenceVars PROVE SequenceInv'
    OBVIOUS
<1>1. SequenceTypeOK /\ LocalDrawn = Successor /\ RedisDrawn = Successor
    BY BothCount DEF SequenceInv
<1>2. Successor \in 0..MaxValue
    BY <1>1, MaxValueAssumption DEF SequenceTypeOK, Successor
<1>3. Drawn(Successor) \in Tickets /\ Nothing \in Tickets
    BY <1>1, <1>2 DEF SequenceTypeOK, Drawn, Tickets, Nothing
<1>4. ASSUME NEW d \in Drawers, LocalNext(d) PROVE SequenceInv'
  <2>1. SequenceTypeOK'
      BY <1>1, <1>2, <1>3, <1>4 DEF LocalNext, Draw, SequenceTypeOK
  <2>2. Draw(Successor) /\ Given' \subseteq Given \cup {Drawn(Successor)}
      BY <1>1, <1>4 DEF LocalNext, SequenceTypeOK, Given
  <2> QED BY <2>1, <2>2, DrawInv
<1>5. ASSUME NEW d \in Drawers, RedisNext(d) PROVE SequenceInv'
  <2>1. SequenceTypeOK'
      BY <1>1, <1>2, <1>3, <1>5 DEF RedisNext, Draw, SequenceTypeOK
  <2>2. Draw(Successor) /\ Given' \subseteq Given \cup {Drawn(Successor)}
      BY <1>1, <1>5 DEF RedisNext, SequenceTypeOK, Given
  <2> QED BY <2>1, <2>2, DrawInv
<1>6. ASSUME NEW d \in Drawers, RedisAnswers(d) PROVE SequenceInv'
  <2>1. SequenceTypeOK'
      BY <1>1, <1>3, <1>6 DEF RedisAnswers, SequenceTypeOK
  <2>2. Given' \subseteq Given \cup {Nothing}
      BY <1>1, <1>6 DEF RedisAnswers, SequenceTypeOK, Given
  <2> QED BY <1>6, <2>1, <2>2, KeepInv DEF RedisAnswers
<1>7. CASE Reset
  <2>1. SequenceTypeOK'
      BY <1>1, <1>7, MaxValueAssumption DEF Reset, SequenceTypeOK
  <2>2. Given' = Given /\ draws' = draws /\ round' = round + 1 /\ round \in Nat
      BY <1>1, <1>7 DEF Reset, Given, SequenceTypeOK
  <2>3. GivenInv'
      BY <2>2 DEF SequenceInv, GivenInv, Nothing
  <2>4. Apart'
      BY <2>2 DEF SequenceInv, Apart, Nothing
  <2> QED BY <2>1, <2>3, <2>4 DEF SequenceInv
<1>8. CASE UNCHANGED sequenceVars
  <2>1. SequenceTypeOK'
      BY <1>1, <1>8 DEF sequenceVars, SequenceTypeOK
  <2>2. Given' = Given
      BY <1>8 DEF sequenceVars, Given
  <2> QED BY <1>8, <2>1, <2>2, KeepInv DEF sequenceVars
<1> QED BY <1>4, <1>5, <1>6, <1>7, <1>8 DEF SequenceNext

\* The same id is drawn again only a whole round later, by however many callers,
\* for any number of places (Next and Reset of both sequences).
THEOREM IdsAreDistinct == SequenceSpec => []IdsDistinct
<1>1. SequenceInit => SequenceInv
  <2> SUFFICES ASSUME SequenceInit PROVE SequenceInv
      OBVIOUS
  <2>1. SequenceTypeOK
      BY MaxValueAssumption DEF SequenceInit, SequenceTypeOK, Tickets, Nothing
  <2>2. \A h \in Given : h = Nothing
      BY DEF SequenceInit, Given
  <2> QED BY <2>1, <2>2 DEF SequenceInv, GivenInv, Apart
<1>2. SequenceInv => IdsDistinct
    BY DEF SequenceInv, Apart, Given, IdsDistinct
<1> QED BY <1>1, <1>2, SequenceStep, PTL DEF SequenceSpec
----------------------------------------------------------------------------
(* Handlers and requests.  Roles and groups are told apart by the numbers   *)
(* of their handlers, and a trace of a request is what its two lists of     *)
(* before-handlers say, one after the other, as far as it has come.         *)

Handlers == [order : Nat \ {0}, id : Nat \ {0}]
HandlerLists == [Roles -> [Sides -> Seq(Handlers)]]
Before == {"roleBefore", "group", "groupBefore", "action"}
After == {"groupAfter", "roleAfter"}

Requests == [at : {"setup", "routing", "done", "panicked"} \cup Before \cup After,
             role : Roles \cup {NoRole}, index : Nat \ {0}]

RoutingTypeOK ==
    /\ routes \in Seq([path : Paths, role : Roles])
    /\ pathRoles \in [Paths -> Roles \cup {NoRole}]
    /\ count \in Nat
    /\ registered \in HandlerLists /\ roles \in HandlerLists /\ groups \in HandlerLists
    /\ known \subseteq Roles /\ grouped \subseteq Roles
    /\ injectRole \in Roles \cup {NoRole}
    /\ toInject \in [Sides -> Seq(Handlers)]
    /\ request \in Requests
    /\ ran \in Seq(Handlers \cup {Action})
    /\ aborted \in Nat

Ascending(list) == \A j, k \in DOMAIN list : j <= k => list[j].order <= list[k].order

OfRoles ==
    {h \in Handlers :
        \/ \E x \in Roles, s \in Sides : h \in ToSet(roles[x][s]) \cup ToSet(registered[x][s])
        \/ \E s \in Sides : h \in ToSet(toInject[s])}
OfGroups == {h \in Handlers : \E x \in Roles, s \in Sides : h \in ToSet(groups[x][s])}

\* Every list is sorted, and no handler is in a list of a role and in one of
\* a group.
HandlersInv ==
    /\ \A x \in Roles, s \in Sides : Ascending(roles[x][s]) /\ Ascending(groups[x][s])
    /\ \A h \in OfRoles \cup OfGroups : h.id <= count
    /\ OfRoles \cap OfGroups = {}

\* What has been registered for a role with a route is in its lists or about
\* to be injected, and all of it is in once a request is served.
RoutedInv ==
    /\ request.at = "setup" => \A p \in Paths : pathRoles[p] = NoRole
    /\ request.at \notin {"setup", "routing"} => toInject = NoHandlers
    /\ toInject # NoHandlers => injectRole \in Roles
    /\ \A p \in Paths : pathRoles[p] # NoRole => pathRoles[p] \in known
    /\ \A p \in Paths, s \in Sides : pathRoles[p] # NoRole =>
         ToSet(registered[pathRoles[p]][s]) \subseteq
             ToSet(roles[pathRoles[p]][s])
                 \cup (IF pathRoles[p] = injectRole THEN ToSet(toInject[s]) ELSE {})

\* The before-handlers that a request passes, and the jth of them.
RoleChecks == roles[request.role].before
GroupChecks == groups[request.role].before
Checks == Len(RoleChecks) + Len(GroupChecks)
Check(j) == IF j <= Len(RoleChecks) THEN RoleChecks[j] ELSE GroupChecks[j - Len(RoleChecks)]

\* How far a request is in them.
Position ==
    /\ request.at = "roleBefore" =>
         Len(ran) = request.index - 1 /\ request.index <= Len(RoleChecks) + 1
    /\ request.at = "group" => Len(ran) = Len(RoleChecks)
    /\ request.at = "groupBefore" =>
         /\ Len(ran) = Len(RoleChecks) + request.index - 1
         /\ request.index <= Len(GroupChecks) + 1
    /\ request.at = "action" => Len(ran) = Checks

\* The action came after all of them.
Checked ==
    \A j \in DOMAIN ran : ran[j] = Action =>
        /\ request.role \in known
        /\ j = Checks + 1
        /\ \A k \in 1..j - 1 : ran[k] = Check(k)

RanInv ==
    /\ request.at \in {"setup", "routing"} => ran = <<>> /\ request.index = 1
    /\ request.at \in Before \cup After => request.role \in known
    /\ request.at \in Before => \A j \in DOMAIN ran : ran[j] = Check(j)
    /\ Position /\ Checked

\* Where a request may be after an abort, and how far it may have come.
AbortInv ==
    /\ request.at \in Before \cup {"setup", "routing"} => aborted = 0
    /\ aborted # 0 =>
         /\ aborted \in DOMAIN ran
         /\ request.role \in known
         /\ request.at \in After => request.index = 1
         /\ request.at = "groupAfter" => Len(ran) = aborted /\ ran[aborted] = Action
         /\ request.at = "roleAfter" =>
              \/ Len(ran) = aborted
              \/ /\ Len(ran) = aborted + 1
                 /\ ran[aborted] = Action
                 /\ groups[request.role].after # <<>>
                 /\ ran[Len(ran)] = groups[request.role].after[1]
    /\ AbortStops

RoutingInv == RoutingTypeOK /\ HandlersInv /\ RoutedInv /\ RanInv /\ AbortInv

\* Where a handler may be inserted, what that does to one list ...
LEMMA InsertHandler ==
    ASSUME NEW list \in Seq(Handlers), NEW h \in Handlers, NEW n \in Places(list, h),
           Ascending(list)
    PROVE  LET new == InsertAt(list, n, h)
           IN  /\ new \in Seq(Handlers)
               /\ ToSet(new) = ToSet(list) \cup {h}
               /\ Ascending(new)
<1> DEFINE new == InsertAt(list, n, h)
           front == SubSeq(list, 1, n - 1)
           back == SubSeq(list, n, Len(list))
<1>1. Len(list) \in Nat /\ n \in 1..Len(list) + 1 /\ \A j \in 1..Len(list) : list[j] \in Handlers
  BY LenProperties, ElementOfSeq DEF Places
<1>2. /\ front \in Seq(Handlers)
      /\ Len(front) = n - 1
      /\ \A j \in 1..n - 1 : front[j] = list[j]
  BY <1>1, SubSeqProperties
<1>3. /\ back \in Seq(Handlers)
      /\ Len(back) = Len(list) - n + 1
      /\ \A j \in 1..Len(list) - n + 1 : back[j] = list[n + j - 1]
  BY <1>1, SubSeqProperties
<1>4. <<h>> \in Seq(Handlers) /\ Len(<<h>>) = 1 /\ <<h>>[1] = h
  OBVIOUS
<1>5. /\ front \o <<h>> \in Seq(Handlers)
      /\ Len(front \o <<h>>) = n
      /\ \A j \in 1..n : (front \o <<h>>)[j] = IF j <= n - 1 THEN front[j] ELSE h
  BY <1>1, <1>2, <1>4, ConcatProperties
<1>12. new = (front \o <<h>>) \o back
  BY DEF InsertAt
<1>6. /\ new \in Seq(Handlers)
      /\ Len(new) = Len(list) + 1
      /\ \A j \in 1..Len(list) + 1 :
            new[j] = IF j <= n THEN (front \o <<h>>)[j] ELSE back[j - n]
  <2> DEFINE both == front \o <<h>>
  <2> HIDE DEF both, front, back, new
  <2>1. /\ both \o back \in Seq(Handlers)
        /\ Len(both \o back) = Len(both) + Len(back)
        /\ \A j \in 1..Len(both) + Len(back) :
              (both \o back)[j] = IF j <= Len(both) THEN both[j] ELSE back[j - Len(both)]
    BY <1>3, <1>5, ConcatProperties DEF both
  <2>2. Len(both) = n /\ Len(both) + Len(back) = Len(list) + 1
    <3>1. Len(both) = n
      BY <1>5 DEF both
    <3>2. n + Len(back) = Len(list) + 1
      BY <1>1, <1>3
    <3>3. QED
      BY <3>1, <3>2
  <2>3. QED
    BY <1>12, <2>1, <2>2 DEF both
<1> HIDE DEF new, front, back
<1>7. \A j \in 1..Len(list) + 1 :
         new[j] = IF j < n THEN list[j] ELSE IF j = n THEN h ELSE list[j - 1]
  <2> SUFFICES ASSUME NEW j \in 1..Len(list) + 1
               PROVE  new[j] = IF j < n THEN list[j] ELSE IF j = n THEN h ELSE list[j - 1]
    OBVIOUS
  <2>1. CASE j <= n
    BY <1>1, <1>2, <1>5, <1>6, <2>1
  <2>2. CASE j > n
    <3>1. j - n \in 1..Len(list) - n + 1 /\ n + (j - n) - 1 = j - 1
      BY <1>1, <2>2
    <3>2. QED
      BY <1>1, <1>3, <1>6, <2>2, <3>1
  <2>3. QED
    BY <1>1, <2>1, <2>2
<1>8. DOMAIN new = 1..Len(list) + 1 /\ DOMAIN list = 1..Len(list)
  BY <1>6, LenProperties
<1>9. ToSet(new) = ToSet(list) \cup {h}
  <2>1. ASSUME NEW g \in ToSet(new) PROVE g \in ToSet(list) \cup {h}
    BY <1>1, <1>7, <1>8, <2>1 DEF ToSet
  <2>2. h \in ToSet(new)
    BY <1>1, <1>7, <1>8 DEF ToSet
  <2>3. ASSUME NEW g \in ToSet(list) PROVE g \in ToSet(new)
    <3>1. PICK j \in 1..Len(list) : g = list[j]
      BY <1>8 DEF ToSet
    <3>2. CASE j < n
      BY <1>1, <1>7, <1>8, <3>1, <3>2 DEF ToSet
    <3>3. CASE j >= n
      <4>1. j + 1 \in 1..Len(list) + 1 /\ new[j + 1] = g
        BY <1>1, <1>7, <3>1, <3>3
      <4>2. QED
        BY <1>8, <4>1 DEF ToSet
    <3>4. QED
      BY <1>1, <3>2, <3>3
  <2>4. QED
    BY <2>1, <2>2, <2>3
<1>10. Ascending(new)
  <2> SUFFICES ASSUME NEW j \in 1..Len(list) + 1, NEW k \in 1..Len(list) + 1, j < k
               PROVE  new[j].order <= new[k].order
    <3>1. \A l \in 1..Len(list) + 1 : new[l] \in Handlers
      BY <1>6, LenProperties
    <3>2. \A l \in 1..Len(list) + 1 : new[l].order \in Nat
      BY <3>1 DEF Handlers
    <3>3. QED
      BY <1>1, <1>8, <3>2 DEF Ascending
  <2>1. /\ \A l \in 1..n - 1 : list[l].order <= h.order
        /\ \A l \in n..Len(list) : list[l].order > h.order
        /\ h.order \in Nat /\ \A l \in 1..Len(list) : list[l].order \in Nat
    BY <1>1 DEF Places, Handlers
  <2>8. /\ Len(list) \in Nat /\ n \in Nat /\ j \in Nat /\ k \in Nat
        /\ 1 <= n /\ n <= Len(list) + 1 /\ 1 <= j /\ k <= Len(list) + 1
        /\ new[j] = IF j < n THEN list[j] ELSE IF j = n THEN h ELSE list[j - 1]
        /\ new[k] = IF k < n THEN list[k] ELSE IF k = n THEN h ELSE list[k - 1]
    BY <1>1, <1>7
  <2>2. CASE k < n
    BY <1>8, <2>2, <2>8 DEF Ascending
  <2>3. CASE k = n
    BY <2>1, <2>3, <2>8
  <2>4. CASE k > n /\ j < n
    <3>1. new[j] = list[j] /\ new[k] = list[k - 1]
      BY <2>4, <2>8
    <3>2. j \in 1..n - 1 /\ k - 1 \in n..Len(list) /\ j \in 1..Len(list) /\ k - 1 \in 1..Len(list)
      BY <2>4, <2>8
    <3>3. list[j].order <= h.order /\ list[k - 1].order > h.order
      BY <2>1, <3>2
    <3>4. list[j].order \in Nat /\ list[k - 1].order \in Nat /\ h.order \in Nat
      BY <2>1, <3>2
    <3>5. QED
      BY <3>1, <3>3, <3>4
  <2>5. CASE k > n /\ j = n
    <3>1. new[j] = h /\ new[k] = list[k - 1]
      BY <2>5, <2>8
    <3>2. k - 1 \in n..Len(list) /\ k - 1 \in 1..Len(list)
      BY <2>5, <2>8
    <3>3. list[k - 1].order > h.order /\ list[k - 1].order \in Nat /\ h.order \in Nat
      BY <2>1, <3>2
    <3>4. QED
      BY <3>1, <3>3
  <2>6. CASE k > n /\ j > n
    <3>1. new[j] = list[j - 1] /\ new[k] = list[k - 1]
      BY <2>6, <2>8
    <3>2. j - 1 \in DOMAIN list /\ k - 1 \in DOMAIN list /\ j - 1 <= k - 1
      BY <1>8, <2>6, <2>8
    <3>3. QED
      BY <3>1, <3>2 DEF Ascending
  <2>7. QED
    BY <1>1, <2>2, <2>3, <2>4, <2>5, <2>6
<1>11. QED
  BY <1>6, <1>9, <1>10 DEF new

\* ... and to all of them.
LEMMA UseHandler ==
    ASSUME NEW lists \in HandlerLists, NEW x \in Roles, NEW s \in Sides, NEW h \in Handlers,
           \A y \in Roles, t \in Sides : Ascending(lists[y][t]),
           NEW new \in Use(lists, x, s, h)
    PROVE  /\ new \in HandlerLists
           /\ \A y \in Roles, t \in Sides : Ascending(new[y][t])
           /\ ToSet(new[x][s]) = ToSet(lists[x][s]) \cup {h}
           /\ \A y \in Roles, t \in Sides : y # x \/ t # s => new[y][t] = lists[y][t]
<1>1. PICK n \in Places(lists[x][s], h) :
         new = [lists EXCEPT ![x][s] = InsertAt(lists[x][s], n, h)]
  BY DEF Use
<1> DEFINE list == InsertAt(lists[x][s], n, h)
<1>2. lists[x][s] \in Seq(Handlers) /\ Ascending(lists[x][s])
  BY DEF HandlerLists
<1>3. list \in Seq(Handlers) /\ ToSet(list) = ToSet(lists[x][s]) \cup {h} /\ Ascending(list)
  BY <1>2, InsertHandler
<1> HIDE DEF list
<1>4. new \in HandlerLists
  BY <1>1, <1>3 DEF HandlerLists, list
<1>5. \A y \in Roles, t \in Sides : new[y][t] = IF y = x /\ t = s THEN list ELSE lists[y][t]
  BY <1>1 DEF HandlerLists, list
<1>6. QED
  BY <1>3, <1>4, <1>5

LEMMA AppendHandler ==
    ASSUME NEW list \in Seq(Handlers), NEW h \in Handlers
    PROVE  Append(list, h) \in Seq(Handlers) /\ ToSet(Append(list, h)) = ToSet(list) \cup {h}
<1>1. /\ Append(list, h) \in Seq(Handlers)
      /\ Len(Append(list, h)) = Len(list) + 1
      /\ \A j \in 1..Len(list) : Append(list, h)[j] = list[j]
      /\ Append(list, h)[Len(list) + 1] = h
  BY AppendProperties
<1>2. /\ DOMAIN Append(list, h) = 1..Len(list) + 1 /\ DOMAIN list = 1..Len(list)
      /\ Len(list) \in Nat
  BY <1>1, LenProperties
<1>3. QED
  BY <1>1, <1>2 DEF ToSet

LEMMA DropHandler ==
    ASSUME NEW list \in Seq(Handlers), list # <<>>
    PROVE  /\ Tail(list) \in Seq(Handlers) /\ Head(list) \in Handlers
           /\ ToSet(list) = ToSet(Tail(list)) \cup {Head(list)}
<1>1. /\ Len(list) \in Nat \ {0} /\ DOMAIN list = 1..Len(list)
  BY LenProperties, EmptySeq
<1>2. /\ Tail(list) \in Seq(Handlers) /\ Head(list) \in Handlers /\ Head(list) = list[1]
      /\ Len(Tail(list)) = Len(list) - 1
      /\ \A j \in 1..Len(Tail(list)) : Tail(list)[j] = list[j + 1]
  BY HeadTailProperties
<1>3. DOMAIN Tail(list) = 1..Len(list) - 1
  BY <1>1, <1>2, LenProperties
<1>4. ASSUME NEW g \in ToSet(list) PROVE g \in ToSet(Tail(list)) \cup {Head(list)}
  <2>1. PICK j \in 1..Len(list) : g = list[j]
    BY <1>1 DEF ToSet
  <2>2. CASE j = 1
    BY <1>2, <2>1, <2>2
  <2>3. CASE j # 1
    <3>1. j - 1 \in DOMAIN Tail(list) /\ Tail(list)[j - 1] = g
      BY <1>1, <1>2, <1>3, <2>1, <2>3
    <3>2. QED
      BY <3>1 DEF ToSet
  <2>4. QED
    BY <2>2, <2>3
<1>5. ASSUME NEW g \in ToSet(Tail(list)) \cup {Head(list)} PROVE g \in ToSet(list)
  BY <1>1, <1>2, <1>3, <1>5 DEF ToSet
<1>6. QED
  BY <1>2, <1>4, <1>5

LEMMA NewHandler ==
    ASSUME RoutingTypeOK, HandlersInv, NEW o \in Orders
    PROVE  Handler(o) \in Handlers /\ Handler(o) \notin OfRoles \cup OfGroups
BY RoutingAssumption DEF RoutingTypeOK, HandlersInv, Handler, Handlers

\* The lists of handlers, by what they gain and lose.
LEMMA HandlersKept ==
    ASSUME RoutingTypeOK, HandlersInv,
           \A x \in Roles, s \in Sides : Ascending(roles'[x][s]) /\ Ascending(groups'[x][s]),
           NEW o \in Orders, count' \in {count, count + 1},
           \/ OfRoles' \subseteq OfRoles /\ OfGroups' \subseteq OfGroups
           \/ /\ count' = count + 1
              /\ \/ OfRoles' \subseteq OfRoles \cup {Handler(o)} /\ OfGroups' = OfGroups
                 \/ OfRoles' = OfRoles /\ OfGroups' \subseteq OfGroups \cup {Handler(o)}
    PROVE  HandlersInv'
<1>1. \A h \in OfRoles \cup OfGroups : h.id \in Nat /\ h.id <= count
  <2>1. OfRoles \cup OfGroups \subseteq Handlers
    BY DEF OfRoles, OfGroups
  <2>2. QED
    BY <2>1 DEF HandlersInv, Handlers
<1>2. Handler(o).id = count + 1 /\ count \in Nat
  BY DEF Handler, RoutingTypeOK
<1>3. OfRoles \cap OfGroups = {} /\ Handler(o) \notin OfRoles \cup OfGroups
  BY <1>1, <1>2 DEF HandlersInv
<1>4. /\ \A h \in OfRoles' \cup OfGroups' : h.id <= count'
      /\ OfRoles' \cap OfGroups' = {}
  BY <1>1, <1>2, <1>3
<1>5. QED
  BY <1>4 DEF HandlersInv

LEMMA RegisteringInv ==
    ASSUME RoutingInv, NEW x \in Roles, Registering(x)
    PROVE  RoutingTypeOK' /\ HandlersInv' /\ RoutedInv'
<1> USE DEF RoutingInv
<1>1. request.at = "setup" /\ UNCHANGED <<routes, pathRoles, injectRole, toInject, answering>>
  BY DEF Registering, AddRoleHandler, UseRoles, UseOnRole, UseGroups, UseOnGroup, MoreHandlers, routing
<1>2. \A p \in Paths : pathRoles[p] = NoRole
  BY <1>1 DEF RoutedInv
<1>3. RoutedInv'
  BY <1>1, <1>2 DEF RoutedInv, answering
<1>4. CASE UseRoles(x) \/ UseGroups(x)
  <2>1. UNCHANGED <<count, registered, roles, groups>>
    BY <1>4 DEF UseRoles, UseGroups, setup, routing
  <2>2. RoutingTypeOK'
    BY <1>1, <1>4, <2>1 DEF RoutingTypeOK, UseRoles, UseGroups, setup, routing, answering
  <2>3. HandlersInv'
    <3>1. OfRoles' = OfRoles /\ OfGroups' = OfGroups
      BY <1>1, <2>1 DEF OfRoles, OfGroups
    <3>2. QED
      BY <2>1, <3>1 DEF HandlersInv
  <2>4. QED
    BY <1>3, <2>2, <2>3
<1>5. ASSUME NEW s \in Sides, NEW o \in Orders, AddRoleHandler(x, s, o)
      PROVE  RoutingTypeOK' /\ HandlersInv' /\ RoutedInv'
  <2> DEFINE h == Handler(o)
  <2>1. h \in Handlers
    BY NewHandler
  <2> HIDE DEF h
  <2>2. /\ count' = count + 1 /\ UNCHANGED <<multi, grouped, groups, routing, answering>>
        /\ registered' = [registered EXCEPT ![x][s] = Append(registered[x][s], h)]
    BY <1>5 DEF AddRoleHandler, MoreHandlers, h
  <2>3. registered[x][s] \in Seq(Handlers)
    BY DEF RoutingTypeOK, HandlerLists
  <2>4. /\ Append(registered[x][s], h) \in Seq(Handlers)
        /\ ToSet(Append(registered[x][s], h)) = ToSet(registered[x][s]) \cup {h}
    BY <2>1, <2>3, AppendHandler
  <2>5. /\ registered' \in HandlerLists
        /\ ToSet(registered'[x][s]) = ToSet(registered[x][s]) \cup {h}
        /\ \A y \in Roles, t \in Sides : y # x \/ t # s => registered'[y][t] = registered[y][t]
    BY <2>2, <2>4 DEF RoutingTypeOK, HandlerLists
  <2>6. RoutingTypeOK'
    BY <2>2, <2>5 DEF RoutingTypeOK, routing, answering
  <2>7. OfRoles' \subseteq OfRoles \cup {h}
    BY <2>2, <2>5 DEF OfRoles, routing
  <2>8. OfGroups' = OfGroups
    BY <2>2 DEF OfGroups
  <2>9. HandlersInv'
    <3>1. \A y \in Roles, t \in Sides : Ascending(roles'[y][t]) /\ Ascending(groups'[y][t])
      BY <2>2 DEF HandlersInv, routing
    <3>2. QED
      BY <2>2, <2>7, <2>8, <3>1, HandlersKept DEF h
  <2>10. QED
    BY <1>3, <2>6, <2>9
<1>6. ASSUME NEW s \in Sides, NEW o \in Orders, UseOnRole(x, s, o)
      PROVE  RoutingTypeOK' /\ HandlersInv' /\ RoutedInv'
  <2> DEFINE h == Handler(o)
  <2>1. h \in Handlers
    BY NewHandler
  <2> HIDE DEF h
  <2>2. /\ count' = count + 1 /\ roles' \in Use(roles, x, s, h)
        /\ UNCHANGED <<multi, registered, grouped, groups, routes, pathRoles, known,
                       injectRole, toInject, answering>>
    BY <1>6 DEF UseOnRole, MoreHandlers, h
  <2>3. roles \in HandlerLists /\ \A y \in Roles, t \in Sides : Ascending(roles[y][t])
    BY DEF RoutingTypeOK, HandlersInv
  <2>4. /\ roles' \in HandlerLists
        /\ \A y \in Roles, t \in Sides : Ascending(roles'[y][t])
        /\ ToSet(roles'[x][s]) = ToSet(roles[x][s]) \cup {h}
        /\ \A y \in Roles, t \in Sides : y # x \/ t # s => roles'[y][t] = roles[y][t]
    BY <2>1, <2>2, <2>3, UseHandler
  <2>5. RoutingTypeOK'
    BY <2>2, <2>4 DEF RoutingTypeOK, answering
  <2>6. OfRoles' \subseteq OfRoles \cup {h}
    BY <2>2, <2>4 DEF OfRoles
  <2>7. OfGroups' = OfGroups
    BY <2>2 DEF OfGroups
  <2>8. HandlersInv'
    <3>1. \A y \in Roles, t \in Sides : Ascending(roles'[y][t]) /\ Ascending(groups'[y][t])
      BY <2>2, <2>4 DEF HandlersInv
    <3>2. QED
      BY <2>2, <2>6, <2>7, <3>1, HandlersKept DEF h
  <2>9. QED
    BY <1>3, <2>5, <2>8
<1>7. ASSUME NEW s \in Sides, NEW o \in Orders, UseOnGroup(x, s, o)
      PROVE  RoutingTypeOK' /\ HandlersInv' /\ RoutedInv'
  <2> DEFINE h == Handler(o)
  <2>1. h \in Handlers
    BY NewHandler
  <2> HIDE DEF h
  <2>2. /\ count' = count + 1 /\ groups' \in Use(groups, x, s, h)
        /\ UNCHANGED <<multi, registered, grouped, routing, answering>>
    BY <1>7 DEF UseOnGroup, MoreHandlers, h
  <2>3. groups \in HandlerLists /\ \A y \in Roles, t \in Sides : Ascending(groups[y][t])
    BY DEF RoutingTypeOK, HandlersInv
  <2>4. /\ groups' \in HandlerLists
        /\ \A y \in Roles, t \in Sides : Ascending(groups'[y][t])
        /\ ToSet(groups'[x][s]) = ToSet(groups[x][s]) \cup {h}
        /\ \A y \in Roles, t \in Sides : y # x \/ t # s => groups'[y][t] = groups[y][t]
    BY <2>1, <2>2, <2>3, UseHandler
  <2>5. RoutingTypeOK'
    BY <2>2, <2>4 DEF RoutingTypeOK, routing, answering
  <2>6. OfGroups' \subseteq OfGroups \cup {h}
    BY <2>2, <2>4 DEF OfGroups
  <2>7. OfRoles' = OfRoles
    BY <2>2 DEF OfRoles, routing
  <2>8. HandlersInv'
    <3>1. \A y \in Roles, t \in Sides : Ascending(roles'[y][t]) /\ Ascending(groups'[y][t])
      BY <2>2, <2>4 DEF HandlersInv, routing
    <3>2. QED
      BY <2>2, <2>6, <2>7, <3>1, HandlersKept DEF h
  <2>9. QED
    BY <1>3, <2>5, <2>8
<1>8. QED
  BY <1>4, <1>5, <1>6, <1>7 DEF Registering

LEMMA AddRouteInv ==
    ASSUME RoutingInv, AddRoute
    PROVE  RoutingTypeOK' /\ HandlersInv' /\ RoutedInv'
<1> USE DEF RoutingInv
<1> DEFINE x == Head(routes).role
           q == Head(routes).path
<1>1. x \in Roles /\ q \in Paths /\ Tail(routes) \in Seq([path : Paths, role : Roles])
  <2>1. routes \in Seq([path : Paths, role : Roles]) /\ routes # <<>>
    BY DEF AddRoute, RoutingTypeOK
  <2>2. Head(routes) \in [path : Paths, role : Roles] /\ Tail(routes) \in Seq([path : Paths, role : Roles])
    BY <2>1, HeadTailProperties
  <2>3. QED
    BY <2>2
<1>2. /\ request.at = "routing" /\ toInject = NoHandlers
      /\ routes' = Tail(routes)
      /\ pathRoles' = [pathRoles EXCEPT ![q] = x]
      /\ known' = known \cup {x}
      /\ injectRole' = x
      /\ toInject' = registered[x]
      /\ UNCHANGED <<roles, setup, answering>>
  BY DEF AddRoute, Injected
<1> HIDE DEF x, q
<1>3. RoutingTypeOK'
  <2>1. toInject' \in [Sides -> Seq(Handlers)]
    BY <1>1, <1>2 DEF RoutingTypeOK, HandlerLists
  <2>2. pathRoles' \in [Paths -> Roles \cup {NoRole}]
    BY <1>1, <1>2 DEF RoutingTypeOK
  <2>3. QED
    BY <1>1, <1>2, <2>1, <2>2 DEF RoutingTypeOK, setup, answering
<1>4. HandlersInv'
  <2>1. OfRoles' \subseteq OfRoles /\ OfGroups' = OfGroups
    BY <1>1, <1>2 DEF OfRoles, OfGroups, setup
  <2>2. QED
    BY <1>2, <2>1 DEF HandlersInv, setup
<1>5. RoutedInv'
  <2>1. \A s \in Sides : ToSet(toInject[s]) = {}
    BY <1>2 DEF NoHandlers, ToSet
  <2>2. \A p \in Paths : pathRoles'[p] = IF p = q THEN x ELSE pathRoles[p]
    BY <1>1, <1>2 DEF RoutingTypeOK
  <2>3. request' = request /\ registered' = registered /\ roles' = roles
    BY <1>2 DEF setup, answering
  <2>4. ASSUME NEW p \in Paths, NEW s \in Sides, pathRoles'[p] # NoRole
        PROVE  ToSet(registered[pathRoles'[p]][s]) \subseteq
                   ToSet(roles[pathRoles'[p]][s])
                      \cup (IF pathRoles'[p] = x THEN ToSet(toInject'[s]) ELSE {})
    <3>1. CASE pathRoles'[p] = x
      BY <1>2, <3>1
    <3>2. CASE pathRoles'[p] # x
      BY <2>1, <2>2, <2>4, <3>2 DEF RoutedInv
    <3>3. QED
      BY <3>1, <3>2
  <2>5. \A p \in Paths : pathRoles'[p] # NoRole => pathRoles'[p] \in known'
    BY <1>2, <2>2 DEF RoutedInv
  <2>6. request'.at = "routing" /\ injectRole' = x /\ x \in Roles
    BY <1>1, <1>2, <2>3
  <2>7. QED
    BY <2>3, <2>4, <2>5, <2>6 DEF RoutedInv
<1>6. QED
  BY <1>3, <1>4, <1>5

LEMMA InjectInv ==
    ASSUME RoutingInv, NEW s \in Sides, Inject(s)
    PROVE  RoutingTypeOK' /\ HandlersInv' /\ RoutedInv'
<1> USE DEF RoutingInv
<1> DEFINE h == Head(toInject[s])
           rest == Tail(toInject[s])
<1>1. /\ request.at = "routing"
      /\ roles' \in Use(roles, injectRole, s, h)
      /\ toInject' = [toInject EXCEPT ![s] = rest]
      /\ UNCHANGED <<routes, pathRoles, known, injectRole, setup, answering>>
  BY DEF Inject
<1>2. toInject[s] \in Seq(Handlers) /\ toInject[s] # <<>> /\ injectRole \in Roles
  BY DEF RoutingTypeOK, Inject, RoutedInv, NoHandlers
<1>3. h \in Handlers /\ rest \in Seq(Handlers) /\ ToSet(toInject[s]) = ToSet(rest) \cup {h}
  BY <1>2, DropHandler
<1> HIDE DEF h, rest
<1>4. /\ roles' \in HandlerLists
      /\ \A y \in Roles, t \in Sides : Ascending(roles'[y][t])
      /\ ToSet(roles'[injectRole][s]) = ToSet(roles[injectRole][s]) \cup {h}
      /\ \A y \in Roles, t \in Sides : y # injectRole \/ t # s => roles'[y][t] = roles[y][t]
  <2>1. roles \in HandlerLists /\ \A y \in Roles, t \in Sides : Ascending(roles[y][t])
    BY DEF RoutingTypeOK, HandlersInv
  <2>2. roles' \in Use(roles, injectRole, s, h) /\ injectRole \in Roles /\ h \in Handlers
    BY <1>1, <1>2, <1>3
  <2>3. QED
    BY <2>1, <2>2, UseHandler
<1>5. /\ toInject' \in [Sides -> Seq(Handlers)]
      /\ \A t \in Sides : toInject'[t] = IF t = s THEN rest ELSE toInject[t]
  BY <1>1, <1>3 DEF RoutingTypeOK
<1>6. RoutingTypeOK'
  BY <1>1, <1>4, <1>5 DEF RoutingTypeOK, setup, answering
<1>7. HandlersInv'
  <2>1. ASSUME NEW g \in OfRoles' PROVE g \in OfRoles
    <3>1. g \in Handlers /\ h \in OfRoles
      BY <1>2, <1>3 DEF OfRoles
    <3>2. ASSUME NEW y \in Roles, NEW t \in Sides, g \in ToSet(roles'[y][t])
          PROVE  g \in OfRoles
      <4>1. g \in ToSet(roles[y][t]) \cup {h}
        BY <1>4, <3>2
      <4>2. QED
        BY <3>1, <4>1 DEF OfRoles
    <3>3. ASSUME NEW t \in Sides, g \in ToSet(toInject'[t]) PROVE g \in OfRoles
      <4>1. g \in ToSet(toInject[t])
        BY <1>3, <1>5, <3>3
      <4>2. QED
        BY <3>1, <4>1 DEF OfRoles
    <3>4. ASSUME NEW y \in Roles, NEW t \in Sides, g \in ToSet(registered'[y][t])
          PROVE  g \in OfRoles
      BY <1>1, <3>1, <3>4 DEF OfRoles, setup
    <3>5. QED
      BY <3>2, <3>3, <3>4 DEF OfRoles
  <2>2. OfGroups' = OfGroups /\ groups' = groups /\ count' = count
    BY <1>1 DEF OfGroups, setup
  <2>3. QED
    BY <1>4, <2>1, <2>2 DEF HandlersInv
<1>8. RoutedInv'
  <2>1. UNCHANGED <<request, registered, pathRoles, injectRole, known>>
    BY <1>1 DEF setup, answering
  <2>2. ASSUME NEW p \in Paths, NEW t \in Sides, pathRoles[p] # NoRole
        PROVE  ToSet(registered[pathRoles[p]][t]) \subseteq
                   ToSet(roles'[pathRoles[p]][t])
                      \cup (IF pathRoles[p] = injectRole THEN ToSet(toInject'[t]) ELSE {})
    <3>1. pathRoles[p] \in Roles
      BY <2>2 DEF RoutingTypeOK
    <3>2. ToSet(registered[pathRoles[p]][t]) \subseteq
                   ToSet(roles[pathRoles[p]][t])
                      \cup (IF pathRoles[p] = injectRole THEN ToSet(toInject[t]) ELSE {})
      BY <2>2 DEF RoutedInv
    <3>3. CASE t = s
      BY <1>3, <1>4, <1>5, <3>1, <3>2, <3>3
    <3>4. CASE t # s
      BY <1>4, <1>5, <3>1, <3>2, <3>4
    <3>5. QED
      BY <3>3, <3>4
  <2>3. QED
    BY <1>1, <1>2, <2>1, <2>2 DEF RoutedInv
<1>9. QED
  BY <1>6, <1>7, <1>8

\* How a request moves.
LEMMA Moves ==
    ASSUME NEW where \in {"setup", "routing", "done", "panicked"} \cup Before \cup After,
           request \in Requests
    PROVE  /\ [request EXCEPT !.at = where] \in Requests
           /\ [request EXCEPT !.index = request.index + 1] \in Requests
           /\ [at |-> where, role |-> request.role, index |-> 1] \in Requests
BY DEF Requests

\* The list that a request is in.
LEMMA WhichList ==
    ASSUME RoutingInv, InList
    PROVE  /\ request.role \in Roles
           /\ request.at = "roleBefore" => ThisList = RoleChecks
           /\ request.at = "groupBefore" => ThisList = GroupChecks
           /\ request.at = "groupAfter" => ThisList = groups[request.role].after
           /\ request.at = "roleAfter" => ThisList = roles[request.role].after
           /\ ThisList \in Seq(Handlers)
           /\ request.at \in {"roleBefore", "groupBefore", "groupAfter", "roleAfter"}
<1>1. request.role \in Roles
  BY DEF InList, Lists, RoutingInv, RanInv, RoutingTypeOK, Before, After
<1>2. /\ roles[request.role].before \in Seq(Handlers) /\ roles[request.role].after \in Seq(Handlers)
      /\ groups[request.role].before \in Seq(Handlers) /\ groups[request.role].after \in Seq(Handlers)
  BY <1>1 DEF RoutingInv, RoutingTypeOK, HandlerLists, Sides
<1>3. CASE request.at = "roleBefore"
  BY <1>1, <1>2, <1>3 DEF ThisList, List, RoleChecks
<1>4. CASE request.at = "groupBefore"
  BY <1>1, <1>2, <1>4 DEF ThisList, List, GroupChecks
<1>5. CASE request.at = "groupAfter"
  BY <1>1, <1>2, <1>5 DEF ThisList, List
<1>6. CASE request.at = "roleAfter"
  BY <1>1, <1>2, <1>6 DEF ThisList, List
<1>7. QED
  BY <1>3, <1>4, <1>5, <1>6 DEF InList, Lists

\* A step of a request, or the one that lets them come.
LEMMA RequestInv ==
    ASSUME RoutingInv, Start \/ ServeRequest
    PROVE  RoutingTypeOK' /\ HandlersInv' /\ RoutedInv'
<1> USE DEF RoutingInv
<1>1. UNCHANGED <<setup, routing>>
  BY DEF Start, ServeRequest, FindRole, RunHandler, ListEnds, FindGroup, CallAction,
         ActionNotFound, Panic
<1>2. /\ request' \in Requests
      /\ ran' \in Seq(Handlers \cup {Action}) /\ aborted' \in Nat
  <2>1. ASSUME NEW h \in Handlers \cup {Action}, Run(h)
        PROVE  ran' \in Seq(Handlers \cup {Action}) /\ aborted' \in Nat
    BY <2>1, AppendProperties, LenProperties DEF Run, RoutingTypeOK
  <2>2. ASSUME NEW where \in {"done", "panicked"} \cup Before \cup After, Continue(where)
        PROVE  request' \in Requests
    BY <2>2, Moves DEF Continue, RoutingTypeOK
  <2>3. CASE Start
    BY <2>3, Moves DEF Start, RoutingTypeOK
  <2>4. ASSUME NEW p \in Paths, FindRole(p)
        PROVE  /\ request' \in Requests
               /\ ran' = ran /\ aborted' = aborted
    BY <2>4 DEF FindRole, RoutingTypeOK, Requests, Before
  <2>5. CASE RunHandler
    <3>1. ThisList \in Seq(Handlers) /\ request.index \in 1..Len(ThisList)
      <4>2. request.index \in Nat \ {0} /\ request.index <= Len(ThisList)
        BY <2>5 DEF RunHandler, RoutingTypeOK, Requests
      <4>3. ThisList \in Seq(Handlers)
        BY <2>5, WhichList DEF RunHandler
      <4>4. QED
        BY <4>2, <4>3, LenProperties
    <3>2. ThisList[request.index] \in Handlers
      BY <3>1, ElementOfSeq
    <3>3. ran' \in Seq(Handlers \cup {Action}) /\ aborted' \in Nat
      BY <2>1, <2>5, <3>2 DEF RunHandler
    <3>4. AfterAbort(request.at) \in {"done", "roleAfter"}
      BY DEF AfterAbort
    <3>5. request' \in Requests
      <4>1. CASE aborted' = 0
        BY <2>5, <4>1, Moves DEF RunHandler, RoutingTypeOK
      <4>2. CASE aborted' # 0
        BY <2>5, <3>4, <4>2, Moves DEF RunHandler, Continue, RoutingTypeOK, After
      <4>3. QED
        BY <4>1, <4>2
    <3>6. QED
      BY <3>3, <3>5
  <2>6. CASE ListEnds
    <3>1. AfterList[request.at] \in {"done"} \cup Before \cup After
      BY <2>6 DEF ListEnds, InList, Lists, AfterList, Before, After
    <3>2. QED
      BY <2>2, <2>6, <3>1 DEF ListEnds, RoutingTypeOK
  <2>7. CASE FindGroup \/ ActionNotFound \/ Panic
    BY <2>2, <2>7 DEF FindGroup, ActionNotFound, Panic, RoutingTypeOK, Before, After
  <2>8. CASE CallAction
    BY <2>1, <2>2, <2>8 DEF CallAction, After
  <2>9. QED
    BY <2>3, <2>4, <2>5, <2>6, <2>7, <2>8 DEF ServeRequest, RoutingTypeOK, FindGroup,
       ActionNotFound, Panic, ListEnds, Start, CallAction
<1>3. RoutingTypeOK'
  BY <1>1, <1>2 DEF RoutingTypeOK, setup, routing
<1>4. HandlersInv'
  <2>1. OfRoles' = OfRoles /\ OfGroups' = OfGroups
    BY <1>1 DEF OfRoles, OfGroups, setup, routing
  <2>2. QED
    BY <1>1, <2>1 DEF HandlersInv, setup, routing
<1>5. RoutedInv'
  <2>1. request.at # "setup" => request'.at # "setup"
    <3>1. Start \/ (\E p \in Paths : FindRole(p)) => request'.at # "setup"
      BY DEF Start, FindRole, RoutingTypeOK, Requests
    <3>2. RunHandler => request'.at # "setup"
      BY WhichList, Moves DEF RunHandler, Continue, AfterAbort, RoutingTypeOK, Requests
    <3>3. ListEnds => request'.at # "setup"
      BY WhichList DEF ListEnds, Continue, AfterList
    <3>4. FindGroup \/ CallAction \/ ActionNotFound \/ Panic => request'.at # "setup"
      BY DEF FindGroup, CallAction, ActionNotFound, Panic, Continue
    <3>5. QED
      BY <3>1, <3>2, <3>3, <3>4 DEF ServeRequest
  <2>2. request'.at \notin {"setup", "routing"} => toInject = NoHandlers
    <3>1. Start => request'.at = "routing"
      BY DEF Start, RoutingTypeOK, Requests
    <3>2. (\E p \in Paths : FindRole(p)) => toInject = NoHandlers
      BY DEF FindRole
    <3>3. RunHandler \/ ListEnds \/ FindGroup \/ CallAction \/ ActionNotFound \/ Panic
             => request.at \notin {"setup", "routing"}
      BY DEF RunHandler, ListEnds, FindGroup, CallAction, ActionNotFound, Panic, InList, Lists
    <3>4. QED
      BY <3>1, <3>2, <3>3 DEF ServeRequest, RoutedInv
  <2>3. QED
    BY <1>1, <2>1, <2>2 DEF RoutedInv, setup, routing
<1>6. QED
  BY <1>3, <1>4, <1>5

\* While nothing is served there is nothing to say of a request.
LEMMA NotServing ==
    ASSUME RoutingInv, UNCHANGED answering, request.at \in {"setup", "routing"}
    PROVE  RanInv' /\ AbortInv'
<1>1. request' = request /\ ran' = <<>> /\ request.index = 1 /\ aborted' = 0
  BY DEF RoutingInv, RanInv, AbortInv, answering
<1>2. request.at \notin Before \cup After
  BY DEF Before, After
<1>3. DOMAIN ran' = {} /\ request.at \notin {"roleBefore", "group", "groupBefore", "action"}
  BY <1>1
<1>4. RanInv'
  BY <1>1, <1>2, <1>3 DEF RoutingInv, RanInv, Position, Checked
<1>5. AbortInv'
  BY <1>1, <1>2 DEF AbortInv, AbortStops
<1>6. QED
  BY <1>4, <1>5

LEMMA RunAppends ==
    ASSUME RoutingInv, NEW h \in Handlers \cup {Action}, Run(h)
    PROVE  /\ Len(ran) \in Nat /\ DOMAIN ran = 1..Len(ran)
           /\ Len(ran') = Len(ran) + 1 /\ DOMAIN ran' = 1..Len(ran) + 1
           /\ \A j \in 1..Len(ran) : ran'[j] = ran[j]
           /\ ran'[Len(ran) + 1] = h
           /\ aborted = 0 => aborted' \in {0, Len(ran) + 1}
           /\ aborted # 0 => aborted' = aborted
<1>1. ran \in Seq(Handlers \cup {Action}) /\ ran' = Append(ran, h)
  BY DEF RoutingInv, RoutingTypeOK, Run
<1>2. /\ Len(ran) \in Nat /\ DOMAIN ran = 1..Len(ran)
      /\ Len(ran') = Len(ran) + 1 /\ ran' \in Seq(Handlers \cup {Action})
      /\ \A j \in 1..Len(ran) : ran'[j] = ran[j]
      /\ ran'[Len(ran) + 1] = h
  BY <1>1, AppendProperties, LenProperties
<1>3. DOMAIN ran' = 1..Len(ran) + 1
  BY <1>2, LenProperties
<1>4. QED
  BY <1>2, <1>3 DEF Run

\* A request keeps its role, and the handlers before the action do not change.
LEMMA SameChecks ==
    ASSUME RoutingInv, ServeRequest, \A p \in Paths : ~ FindRole(p)
    PROVE  /\ UNCHANGED <<setup, routing, RoleChecks, GroupChecks, Checks>>
           /\ request'.role = request.role
           /\ \A j : Check(j)' = Check(j)
           /\ Len(RoleChecks) \in Nat /\ Len(GroupChecks) \in Nat /\ Len(ran) \in Nat
           /\ DOMAIN ran = 1..Len(ran)
<1>1. request'.role = request.role /\ request.at \notin {"setup", "routing"}
      /\ UNCHANGED <<setup, routing>>
  BY DEF ServeRequest, RunHandler, ListEnds, FindGroup, CallAction, ActionNotFound, Panic,
         Continue, RoutingInv, RoutingTypeOK, Requests, InList, Lists
<1>2. request.role \in Roles
  BY DEF ServeRequest, RunHandler, ListEnds, FindGroup, CallAction, ActionNotFound, Panic,
         RoutingInv, RoutingTypeOK, RanInv, InList, Lists, Before, After
<1>3. RoleChecks \in Seq(Handlers) /\ GroupChecks \in Seq(Handlers)
  BY <1>2 DEF RoutingInv, RoutingTypeOK, HandlerLists, Sides, RoleChecks, GroupChecks
<1>4. UNCHANGED <<RoleChecks, GroupChecks>>
  BY <1>1 DEF RoleChecks, GroupChecks, setup, routing
<1>5. UNCHANGED Checks /\ \A j : Check(j)' = Check(j)
  BY <1>4 DEF Checks, Check
<1>6. ran \in Seq(Handlers \cup {Action})
  BY DEF RoutingInv, RoutingTypeOK
<1>7. QED
  BY <1>1, <1>3, <1>4, <1>5, <1>6, LenProperties

LEMMA HandlerIsNoAction == Action \notin Handlers
BY DEF Action, Handlers

LEMMA RunHandlerInv ==
    ASSUME RoutingInv, RunHandler
    PROVE  RanInv'
<1> DEFINE h == ThisList[request.index]
<1>1. /\ Run(h) /\ InList /\ request.index <= Len(ThisList) /\ request.index \in Nat \ {0}
      /\ IF aborted' = 0 THEN request' = [request EXCEPT !.index = request.index + 1]
                         ELSE Continue(AfterAbort(request.at))
  BY DEF RunHandler, RoutingInv, RoutingTypeOK, Requests
<1>2. h \in Handlers
  BY <1>1, WhichList, LenProperties, ElementOfSeq
<1> HIDE DEF h
<1>3. /\ UNCHANGED <<setup, routing, RoleChecks, GroupChecks, Checks>>
      /\ request'.role = request.role
      /\ \A j : Check(j)' = Check(j)
      /\ Len(RoleChecks) \in Nat /\ Len(GroupChecks) \in Nat
  <2>1. ServeRequest /\ \A p \in Paths : ~ FindRole(p)
    BY DEF RunHandler, InList, Lists, FindRole, ServeRequest
  <2>2. QED
    BY <2>1, SameChecks
<1>4. /\ Len(ran) \in Nat /\ DOMAIN ran = 1..Len(ran)
      /\ Len(ran') = Len(ran) + 1 /\ DOMAIN ran' = 1..Len(ran) + 1
      /\ \A j \in 1..Len(ran) : ran'[j] = ran[j]
      /\ ran'[Len(ran) + 1] = h
  BY <1>1, <1>2, RunAppends
<1>5. Checked'
  <2> SUFFICES ASSUME NEW j \in 1..Len(ran) + 1, ran'[j] = Action
               PROVE  /\ request'.role \in known'
                      /\ j = Checks + 1
                      /\ \A k \in 1..j - 1 : ran'[k] = Check(k)
    BY <1>3, <1>4 DEF Checked
  <2>1. j # Len(ran) + 1
    BY <1>2, <1>4, HandlerIsNoAction
  <2>2. j \in 1..Len(ran) /\ ran[j] = Action
    BY <1>4, <2>1
  <2>3. request.role \in known /\ j = Checks + 1 /\ \A k \in 1..j - 1 : ran[k] = Check(k)
    BY <1>4, <2>2 DEF RoutingInv, RanInv, Checked
  <2>4. QED
    BY <1>3, <1>4, <2>2, <2>3 DEF routing
<1>6. /\ request'.at = IF aborted' = 0 THEN request.at ELSE AfterAbort(request.at)
      /\ request'.index = IF aborted' = 0 THEN request.index + 1 ELSE 1
  BY <1>1 DEF RoutingInv, RoutingTypeOK, Requests, Continue
<1>7. /\ request.role \in known
      /\ request.at \in {"roleBefore", "groupBefore", "groupAfter", "roleAfter"}
      /\ AfterAbort(request.at) \in {"roleAfter", "done"}
  BY <1>1, WhichList DEF RoutingInv, RanInv, Before, After, AfterAbort
<1>8. /\ request'.at \notin {"setup", "routing", "group", "action"}
      /\ request'.role \in known'
  BY <1>3, <1>6, <1>7 DEF routing
<1>9. CASE request'.at \in Before
  <2>1. /\ request'.at = request.at /\ request.at \in {"roleBefore", "groupBefore"}
        /\ request'.index = request.index + 1
    BY <1>6, <1>7, <1>9 DEF Before
  <2>2. \A j \in DOMAIN ran : ran[j] = Check(j)
    BY <2>1 DEF RoutingInv, RanInv, Before
  <2>3. h = Check(Len(ran) + 1) /\ Position'
    <3>1. CASE request.at = "roleBefore"
      <4>1. ThisList = RoleChecks /\ Len(ran) = request.index - 1
        BY <1>1, <3>1, WhichList DEF RoutingInv, RanInv, Position
      <4>2. h = Check(Len(ran) + 1)
        BY <1>1, <1>3, <1>4, <4>1 DEF h, Check
      <4>3. Position'
        BY <1>1, <1>3, <1>4, <2>1, <3>1, <4>1 DEF Position
      <4>4. QED
        BY <4>2, <4>3
    <3>2. CASE request.at = "groupBefore"
      <4>1. ThisList = GroupChecks /\ Len(ran) = Len(RoleChecks) + request.index - 1
        BY <1>1, <3>2, WhichList DEF RoutingInv, RanInv, Position
      <4>2. h = Check(Len(ran) + 1)
        BY <1>1, <1>3, <1>4, <4>1 DEF h, Check
      <4>3. Position'
        BY <1>1, <1>3, <1>4, <2>1, <3>2, <4>1 DEF Position
      <4>4. QED
        BY <4>2, <4>3
    <3>3. QED
      BY <2>1, <3>1, <3>2
  <2>4. \A j \in DOMAIN ran' : ran'[j] = Check(j)'
    BY <1>3, <1>4, <2>2, <2>3
  <2>5. QED
    BY <1>5, <1>8, <2>3, <2>4 DEF RanInv
<1>10. CASE request'.at \notin Before
  <2>1. Position'
    BY <1>10 DEF Position, Before
  <2>2. QED
    BY <1>5, <1>8, <1>10, <2>1 DEF RanInv
<1>11. QED
  BY <1>9, <1>10

LEMMA RequestRan ==
    ASSUME RoutingInv, Start \/ ServeRequest
    PROVE  RanInv'
<1> USE DEF RoutingInv
<1>1. CASE Start
  <2>1. /\ request'.at = "routing" /\ request'.index = 1 /\ ran' = <<>>
    BY <1>1 DEF Start, RanInv, RoutingTypeOK, Requests
  <2>2. QED
    BY <2>1 DEF RanInv, Position, Checked, Before, After
<1>2. ASSUME NEW p \in Paths, FindRole(p)
      PROVE  RanInv'
  <2>1. /\ request'.at \in {"roleBefore", "done"} /\ request'.index = 1 /\ ran' = <<>>
        /\ request'.at = "roleBefore" => request'.role \in known /\ known' = known
    BY <1>2 DEF FindRole, RanInv, RoutingTypeOK, Requests, routing
  <2>2. request'.at = "roleBefore" => Len(RoleChecks') \in Nat
    <3>1. request'.at = "roleBefore" => request'.role \in Roles /\ roles' = roles
      BY <1>2, <2>1 DEF RoutingTypeOK, FindRole, routing
    <3>2. request'.at = "roleBefore" => RoleChecks' \in Seq(Handlers)
      BY <3>1 DEF RoutingTypeOK, HandlerLists, Sides, RoleChecks
    <3>3. QED
      BY <3>2, LenProperties
  <2>3. DOMAIN ran' = {} /\ Len(ran') = 0
    BY <2>1
  <2>4. Position'
    BY <2>1, <2>2, <2>3 DEF Position
  <2>5. Checked'
    BY <2>3 DEF Checked
  <2>6. QED
    BY <2>1, <2>3, <2>4, <2>5 DEF RanInv, Before, After
<1>3. ASSUME ServeRequest, \A p \in Paths : ~ FindRole(p)
      PROVE  /\ UNCHANGED <<setup, routing, RoleChecks, GroupChecks, Checks>>
             /\ request'.role = request.role
             /\ \A j : Check(j)' = Check(j)
             /\ Len(RoleChecks) \in Nat /\ Len(GroupChecks) \in Nat /\ Len(ran) \in Nat
             /\ DOMAIN ran = 1..Len(ran)
  BY <1>3, SameChecks
<1>4. ASSUME ListEnds \/ FindGroup \/ ActionNotFound \/ Panic
      PROVE  RanInv'
  <2>1. ran' = ran /\ ServeRequest /\ \A p \in Paths : ~ FindRole(p)
    BY <1>4 DEF ListEnds, FindGroup, ActionNotFound, Panic, ServeRequest, FindRole, InList, Lists
  <2>2. /\ UNCHANGED <<setup, routing, RoleChecks, GroupChecks, Checks>>
        /\ request'.role = request.role
        /\ \A j : Check(j)' = Check(j)
        /\ Len(RoleChecks) \in Nat /\ Len(GroupChecks) \in Nat /\ Len(ran) \in Nat
    BY <1>3, <2>1
  <2>3. Checked'
    BY <2>1, <2>2 DEF Checked, RanInv, routing
  <2>4. request.role \in known /\ request'.role \in known'
    BY <1>4, <2>2 DEF ListEnds, FindGroup, ActionNotFound, Panic, InList, Lists, RanInv,
       Before, After, routing
  <2>5. CASE ListEnds
    <3>1. InList /\ request.index > Len(ThisList) /\ request.index \in Nat
      BY <2>5 DEF ListEnds, RoutingTypeOK, Requests
    <3>2. CASE request.at = "roleBefore"
      <4>1. request'.at = "group" /\ ThisList = RoleChecks
        BY <2>5, <3>1, <3>2, WhichList DEF ListEnds, Continue, AfterList
      <4>2. Len(ran) = Len(RoleChecks)
        BY <2>2, <3>1, <3>2, <4>1 DEF RanInv, Position
      <4>3. QED
        BY <2>1, <2>2, <2>3, <2>4, <3>2, <4>1, <4>2 DEF RanInv, Position, Before
    <3>3. CASE request.at = "groupBefore"
      <4>1. request'.at = "action" /\ ThisList = GroupChecks
        BY <2>5, <3>1, <3>3, WhichList DEF ListEnds, Continue, AfterList
      <4>2. Len(ran) = Checks
        BY <2>2, <3>1, <3>3, <4>1 DEF RanInv, Position, Checks
      <4>3. QED
        BY <2>1, <2>2, <2>3, <2>4, <3>3, <4>1, <4>2 DEF RanInv, Position, Before
    <3>4. CASE request.at \in {"groupAfter", "roleAfter"}
      <4>1. request'.at \in {"roleAfter", "done"}
        BY <2>5, <3>4 DEF ListEnds, Continue, AfterList
      <4>2. QED
        BY <2>3, <2>4, <4>1 DEF RanInv, Position, Before
    <3>5. QED
      BY <3>1, <3>2, <3>3, <3>4, WhichList
  <2>6. CASE FindGroup
    <3>1. /\ request'.at \in {"groupBefore", "done"} /\ request'.index = 1
          /\ request.at = "group" /\ Len(ran) = Len(RoleChecks)
      BY <2>6 DEF FindGroup, Continue, RanInv, Position
    <3>2. QED
      BY <2>1, <2>2, <2>3, <2>4, <3>1 DEF RanInv, Position, Before
  <2>7. CASE ActionNotFound \/ Panic
    <3>1. request'.at \in {"roleAfter", "panicked"}
      BY <2>7 DEF ActionNotFound, Panic, Continue
    <3>2. QED
      BY <2>3, <2>4, <3>1 DEF RanInv, Position, Before
  <2>8. QED
    BY <1>4, <2>5, <2>6, <2>7
<1>5. CASE CallAction
  <2>1. /\ Run(Action) /\ request.at = "action" /\ request'.at = "groupAfter"
        /\ ServeRequest /\ \A p \in Paths : ~ FindRole(p)
    BY <1>5 DEF CallAction, Continue, ServeRequest, FindRole
  <2>2. /\ UNCHANGED <<setup, routing, RoleChecks, GroupChecks, Checks>>
        /\ request'.role = request.role
        /\ \A j : Check(j)' = Check(j)
    BY <1>3, <2>1
  <2>3. /\ Len(ran) \in Nat /\ DOMAIN ran = 1..Len(ran)
        /\ DOMAIN ran' = 1..Len(ran) + 1
        /\ \A j \in 1..Len(ran) : ran'[j] = ran[j]
    BY <2>1, RunAppends
  <2>4. /\ request.role \in known /\ Len(ran) = Checks
        /\ \A j \in 1..Len(ran) : ran[j] = Check(j)
    BY <2>1, <2>3 DEF RanInv, Position, Before
  <2>5. Checked'
    <3> SUFFICES ASSUME NEW j \in 1..Len(ran) + 1, ran'[j] = Action
                 PROVE  /\ request'.role \in known'
                        /\ j = Checks + 1
                        /\ \A k \in 1..j - 1 : ran'[k] = Check(k)
      BY <2>2, <2>3 DEF Checked
    <3>1. CASE j = Len(ran) + 1
      BY <2>2, <2>3, <2>4, <3>1 DEF routing
    <3>2. CASE j # Len(ran) + 1
      <4>1. j \in 1..Len(ran) /\ ran[j] = Action
        BY <2>3, <3>2
      <4>2. j = Checks + 1
        BY <2>3, <4>1 DEF RanInv, Checked
      <4>3. QED
        BY <2>3, <2>4, <4>1, <4>2
    <3>3. QED
      BY <3>1, <3>2
  <2>6. QED
    BY <2>1, <2>2, <2>4, <2>5 DEF RanInv, Position, Before, routing
<1>6. QED
  BY <1>1, <1>2, <1>4, <1>5, RunHandlerInv DEF ServeRequest

\* A handler that is not the first of its list runs only while nothing has
\* aborted, so that the first to run after an abort is the first of a list.
LEMMA RunHandlerAborts ==
    ASSUME RoutingInv, RunHandler
    PROVE  AbortInv'
<1> DEFINE h == ThisList[request.index]
           x == request.role
<1>1. /\ Run(h) /\ InList /\ request.index <= Len(ThisList) /\ request.index \in Nat \ {0}
      /\ UNCHANGED <<setup, routing>>
      /\ IF aborted' = 0 THEN request' = [request EXCEPT !.index = request.index + 1]
                         ELSE Continue(AfterAbort(request.at))
  BY DEF RunHandler, RoutingInv, RoutingTypeOK, Requests
<1>2. /\ h \in Handlers /\ ThisList \in Seq(Handlers)
      /\ request.at \in {"roleBefore", "groupBefore", "groupAfter", "roleAfter"}
  BY <1>1, WhichList, LenProperties, ElementOfSeq
<1>3. /\ Len(ran) \in Nat /\ DOMAIN ran = 1..Len(ran)
      /\ Len(ran') = Len(ran) + 1 /\ DOMAIN ran' = 1..Len(ran) + 1
      /\ \A j \in 1..Len(ran) : ran'[j] = ran[j]
      /\ ran'[Len(ran) + 1] = h
      /\ aborted = 0 => aborted' \in {0, Len(ran) + 1}
      /\ aborted # 0 => aborted' = aborted
  BY <1>1, <1>2, RunAppends
<1>4. /\ request'.at = IF aborted' = 0 THEN request.at ELSE AfterAbort(request.at)
      /\ request'.index = IF aborted' = 0 THEN request.index + 1 ELSE 1
      /\ request'.role = x /\ x \in known /\ UNCHANGED <<roles, groups, known>>
  BY <1>1, <1>2 DEF RoutingInv, RoutingTypeOK, Requests, Continue, RanInv, Before, After, setup, routing
<1>5. CASE aborted' = 0
  <2>1. aborted = 0
    BY <1>5, <1>3
  <2>2. QED
    BY <1>5 DEF AbortInv, AbortStops
<1>6. CASE aborted = 0 /\ aborted' # 0
  <2>1. aborted' = Len(ran') /\ aborted' \in DOMAIN ran' /\ request'.index = 1
    BY <1>3, <1>4, <1>6
  <2>2. request'.at \in {"roleAfter", "done"}
    BY <1>4, <1>6 DEF AfterAbort
  <2>3. AbortStops'
    BY <2>1, <1>3 DEF AbortStops
  <2>4. QED
    BY <1>4, <1>6, <2>1, <2>2, <2>3 DEF AbortInv, Before
<1>7. CASE aborted # 0
  <2>1. /\ request.at \in {"groupAfter", "roleAfter"} /\ request.index = 1
        /\ aborted \in 1..Len(ran) /\ aborted' = aborted
    BY <1>2, <1>3, <1>7 DEF RoutingInv, AbortInv, Before, After
  <2>2. h = ThisList[1] /\ Len(ThisList) \in Nat \ {0} /\ DOMAIN ThisList = 1..Len(ThisList)
    BY <1>1, <1>2, <2>1, LenProperties
  <2>3. CASE request.at = "groupAfter"
    <3>1. /\ Len(ran) = aborted /\ ran[aborted] = Action
          /\ ThisList = groups[x].after
      BY <1>1, <1>7, <2>3, WhichList DEF RoutingInv, AbortInv
    <3>2. request'.at = "roleAfter" /\ request'.index = 1 /\ ThisList # <<>>
      BY <1>4, <1>7, <2>1, <2>2, <2>3 DEF AfterAbort
    <3>3. ran'[aborted] = Action /\ ran'[aborted + 1] = groups[x].after[1] /\ Len(ran') = aborted + 1
      BY <1>3, <2>1, <2>2, <3>1
    <3>4. AbortStops'
      BY <1>3, <1>4, <2>1, <2>2, <3>1, <3>3 DEF AbortStops
    <3>5. QED
      BY <1>3, <1>4, <2>1, <3>1, <3>2, <3>3, <3>4 DEF AbortInv, Before
  <2>4. CASE request.at = "roleAfter"
    <3>1. ThisList = roles[x].after
      BY <1>1, <2>4, WhichList
    <3>2. request'.at = "done"
      BY <1>4, <1>7, <2>1, <2>4 DEF AfterAbort
    <3>3. \/ Len(ran) = aborted
          \/ /\ Len(ran) = aborted + 1 /\ ran[aborted] = Action
             /\ groups[x].after # <<>> /\ ran[Len(ran)] = groups[x].after[1]
      BY <1>7, <2>4 DEF RoutingInv, AbortInv
    <3>4. AbortStops'
      <4>1. Len(ran') <= aborted + 2
        <5>1. Len(ran) = aborted \/ Len(ran) = aborted + 1
          BY <3>3
        <5>2. Len(ran) \in Nat /\ Len(ran') = Len(ran) + 1 /\ aborted \in Nat
          BY <1>3, <2>1
        <5>3. QED
          BY <5>1, <5>2
      <4>2. ASSUME NEW j \in aborted + 1..Len(ran')
            PROVE  \/ ran'[j] \in {roles[x].after[k] : k \in DOMAIN roles[x].after \cap {1}}
                   \/ /\ ran'[aborted] = Action /\ j = aborted + 1
                      /\ ran'[j] \in {groups[x].after[k] : k \in DOMAIN groups[x].after \cap {1}}
        <5>1. CASE j = Len(ran) + 1
          BY <1>3, <2>2, <3>1, <5>1
        <5>2. CASE j # Len(ran) + 1
          <6>1. /\ Len(ran) = aborted + 1 /\ j = aborted + 1 /\ ran[aborted] = Action
                /\ groups[x].after # <<>> /\ ran[j] = groups[x].after[1]
            BY <1>3, <2>1, <3>3, <5>2
          <6>2. groups[x].after \in Seq(Handlers)
            <7>1. x \in Roles
              BY <1>1, WhichList
            <7>2. QED
              BY <7>1 DEF RoutingInv, RoutingTypeOK, HandlerLists, Sides
          <6>3. 1 \in DOMAIN groups[x].after
            BY <6>1, <6>2, EmptySeq, LenProperties
          <6>4. QED
            BY <1>3, <2>1, <6>1, <6>3
        <5>3. QED
          BY <5>1, <5>2
      <4>3. QED
        BY <1>4, <2>1, <4>1, <4>2 DEF AbortStops
    <3>5. QED
      BY <1>3, <1>4, <2>1, <3>2, <3>4 DEF AbortInv, Before, After
  <2>5. QED
    BY <2>1, <2>3, <2>4
<1>8. QED
  BY <1>5, <1>6, <1>7

LEMMA RequestAborts ==
    ASSUME RoutingInv, Start \/ ServeRequest
    PROVE  AbortInv'
<1> USE DEF RoutingInv
<1>1. CASE Start \/ \E p \in Paths : FindRole(p)
  <2>1. aborted = 0 /\ aborted' = 0
    BY <1>1 DEF Start, FindRole, AbortInv
  <2>2. QED
    BY <2>1 DEF AbortInv, AbortStops
<1>2. ASSUME ListEnds \/ FindGroup \/ ActionNotFound \/ Panic
      PROVE  AbortInv'
  <2>1. /\ UNCHANGED <<setup, routing, ran, aborted>>
        /\ request'.role = request.role /\ request'.index = 1
    BY <1>2 DEF ListEnds, FindGroup, ActionNotFound, Panic, Continue
  <2>2. CASE aborted = 0
    BY <2>1, <2>2 DEF AbortInv, AbortStops
  <2>3. CASE aborted # 0
    <3>1. request.at \notin {"roleBefore", "group", "groupBefore", "action"}
      BY <2>3 DEF AbortInv, Before
    <3>2. AbortStops'
      BY <2>1 DEF AbortInv, AbortStops, setup, routing
    <3>3. CASE ListEnds
      <4>1. \/ request.at = "groupAfter" /\ request'.at = "roleAfter"
            \/ request'.at = "done"
        BY <3>1, <3>3, WhichList DEF ListEnds, Continue, AfterList
      <4>2. QED
        BY <2>1, <2>3, <3>2, <4>1 DEF AbortInv, Before, After, setup, routing
    <3>4. CASE Panic
      <4>1. request'.at = "panicked"
        BY <3>4 DEF Panic, Continue
      <4>2. QED
        BY <2>1, <2>3, <3>2, <4>1 DEF AbortInv, Before, After, setup, routing
    <3>5. QED
      BY <1>2, <3>1, <3>3, <3>4 DEF FindGroup, ActionNotFound
  <2>4. QED
    BY <2>2, <2>3
<1>3. CASE CallAction
  <2>1. /\ Run(Action) /\ request.at = "action" /\ request'.at = "groupAfter" /\ request'.index = 1
        /\ request'.role = request.role /\ UNCHANGED <<setup, routing>>
    BY <1>3 DEF CallAction, Continue
  <2>2. aborted = 0 /\ request'.role \in known'
    BY <2>1 DEF AbortInv, RanInv, Before, routing
  <2>3. /\ Len(ran) \in Nat
        /\ Len(ran') = Len(ran) + 1 /\ DOMAIN ran' = 1..Len(ran) + 1
        /\ ran'[Len(ran) + 1] = Action
        /\ aborted' \in {0, Len(ran) + 1}
    BY <2>1, <2>2, RunAppends
  <2>4. AbortStops'
    <3>1. CASE aborted' = 0
      BY <3>1 DEF AbortStops
    <3>2. CASE aborted' = Len(ran')
      <4>1. Len(ran') \in Nat
        BY <2>3
      <4>2. Len(ran') <= aborted' + 2 /\ aborted' + 1..Len(ran') = {}
        BY <3>2, <4>1
      <4>3. QED
        BY <4>2 DEF AbortStops
    <3>3. QED
      BY <2>3, <3>1, <3>2
  <2>5. request'.at \notin Before \cup {"setup", "routing"} /\ request'.at # "roleAfter"
    BY <2>1 DEF Before
  <2>6. ASSUME aborted' # 0
        PROVE  aborted' \in DOMAIN ran' /\ Len(ran') = aborted' /\ ran'[aborted'] = Action
    BY <2>3, <2>6
  <2>7. QED
    BY <2>1, <2>2, <2>4, <2>5, <2>6 DEF AbortInv
<1>4. QED
  BY <1>1, <1>2, <1>3, RunHandlerAborts DEF ServeRequest

LEMMA InitRouting == RoutingInit => RoutingInv
<1> SUFFICES ASSUME RoutingInit PROVE RoutingInv
  OBVIOUS
<1> USE DEF RoutingInit
<1>1. \A s \in Sides : NoHandlers[s] = <<>>
  BY DEF NoHandlers
<1>2. NoHandlers \in [Sides -> Seq(Handlers)]
  BY EmptySeq DEF NoHandlers
<1>3. RoutingTypeOK
  <2>1. registered \in HandlerLists /\ roles \in HandlerLists /\ groups \in HandlerLists
    BY <1>2 DEF HandlerLists
  <2>2. routes \in Seq([path : Paths, role : Roles])
    BY RoutingAssumption
  <2>3. QED
    BY <1>2, <2>1, <2>2, EmptySeq DEF RoutingTypeOK, Requests
<1>4. HandlersInv
  <2>1. \A x \in Roles, s \in Sides :
           roles[x][s] = <<>> /\ groups[x][s] = <<>> /\ registered[x][s] = <<>> /\ toInject[s] = <<>>
    BY <1>1
  <2>2. OfRoles = {} /\ OfGroups = {}
    BY <1>1, <2>1 DEF OfRoles, OfGroups, ToSet
  <2>3. QED
    BY <2>1, <2>2 DEF HandlersInv, Ascending
<1>5. RoutedInv
  BY DEF RoutedInv
<1>6. RanInv
  BY DEF RanInv, Position, Checked, Before, After
<1>7. AbortInv
  BY DEF AbortInv, AbortStops
<1>8. QED
  BY <1>3, <1>4, <1>5, <1>6, <1>7 DEF RoutingInv

LEMMA RoutingStep == RoutingInv /\ [RoutingNext]_routingVars => RoutingInv'
<1> SUFFICES ASSUME RoutingInv, [RoutingNext]_routingVars
             PROVE  RoutingInv'
  OBVIOUS
<1>1. ASSUME NEW x \in Decorated, Registering(x)
      PROVE  RoutingInv'
  <2>1. UNCHANGED answering /\ request.at = "setup"
    BY <1>1 DEF Registering, AddRoleHandler, UseRoles, UseOnRole, UseGroups, UseOnGroup, MoreHandlers
  <2>2. RoutingTypeOK' /\ HandlersInv' /\ RoutedInv'
    BY <1>1, RoutingAssumption, RegisteringInv
  <2>3. QED
    BY <2>1, <2>2, NotServing DEF RoutingInv
<1>2. CASE AddRoute
  <2>1. UNCHANGED answering /\ request.at = "routing"
    BY <1>2 DEF AddRoute
  <2>2. QED
    BY <1>2, <2>1, AddRouteInv, NotServing DEF RoutingInv
<1>3. ASSUME NEW s \in Sides, Inject(s)
      PROVE  RoutingInv'
  <2>1. UNCHANGED answering /\ request.at = "routing"
    BY <1>3 DEF Inject
  <2>2. QED
    BY <1>3, <2>1, InjectInv, NotServing DEF RoutingInv
<1>4. CASE Start \/ ServeRequest
  BY <1>4, RequestInv, RequestRan, RequestAborts DEF RoutingInv
<1>5. CASE UNCHANGED routingVars
  <2>1. UNCHANGED <<setup, routing, answering>>
    BY <1>5 DEF routingVars
  <2>2. UNCHANGED <<RoleChecks, GroupChecks, OfRoles, OfGroups>>
    BY <2>1 DEF RoleChecks, GroupChecks, OfRoles, OfGroups, setup, routing, answering
  <2>3. RoutingTypeOK' /\ HandlersInv' /\ RoutedInv'
    BY <2>1, <2>2 DEF RoutingInv, RoutingTypeOK, HandlersInv, RoutedInv, setup, routing, answering
  <2>4. RanInv'
    BY <2>1, <2>2 DEF RoutingInv, RanInv, Position, Checked, Checks, Check, routing, answering
  <2>5. AbortInv'
    BY <2>1 DEF RoutingInv, AbortInv, AbortStops, setup, routing, answering
  <2>6. QED
    BY <2>3, <2>4, <2>5 DEF RoutingInv
<1>6. QED
  BY <1>1, <1>2, <1>3, <1>4, <1>5 DEF RoutingNext

\* GuardsPassed, from where the action stands in the trace.
LEMMA InvGuards == RoutingInv => GuardsPassed
<1> SUFFICES ASSUME RoutingInv, NEW n \in DOMAIN ran, ran[n] = Action
             PROVE  LET x == request.role
                        Passed == {ran[j] : j \in 1..n - 1}
                        Routed == \E p \in Paths : pathRoles[p] = x
                    IN  /\ ToSet(roles[x].before) \cup ToSet(groups[x].before) \subseteq Passed
                        /\ Routed => ToSet(registered[x].before) \subseteq Passed
                        /\ \A lists \in {roles[x], groups[x]}, j, k \in 1..n - 1 :
                             j < k /\ {ran[j], ran[k]} \subseteq ToSet(lists.before) =>
                                 ran[j].order <= ran[k].order
  BY DEF GuardsPassed
<1> DEFINE x == request.role
           Passed == {ran[j] : j \in 1..n - 1}
<1> USE DEF RoutingInv
<1>1. /\ x \in known /\ n = Checks + 1 /\ \A j \in 1..n - 1 : ran[j] = Check(j)
  BY DEF RanInv, Checked
<1>2. x \in Roles
  BY <1>1 DEF RoutingTypeOK
<1>3. /\ RoleChecks \in Seq(Handlers) /\ GroupChecks \in Seq(Handlers)
      /\ RoleChecks = roles[x].before /\ GroupChecks = groups[x].before
  BY <1>2 DEF RoutingTypeOK, HandlerLists, Sides, RoleChecks, GroupChecks
<1>4. /\ Len(RoleChecks) \in Nat /\ DOMAIN RoleChecks = 1..Len(RoleChecks)
      /\ Len(GroupChecks) \in Nat /\ DOMAIN GroupChecks = 1..Len(GroupChecks)
  BY <1>3, LenProperties
<1>5. /\ \A j \in 1..Len(RoleChecks) : j \in 1..n - 1 /\ ran[j] = RoleChecks[j]
      /\ \A j \in 1..Len(GroupChecks) :
            Len(RoleChecks) + j \in 1..n - 1 /\ ran[Len(RoleChecks) + j] = GroupChecks[j]
  BY <1>1, <1>4 DEF Checks, Check
<1>6. \A j \in 1..n - 1 :
         IF j <= Len(RoleChecks) THEN j \in 1..Len(RoleChecks) /\ ran[j] = RoleChecks[j]
         ELSE j - Len(RoleChecks) \in 1..Len(GroupChecks)
              /\ ran[j] = GroupChecks[j - Len(RoleChecks)]
  BY <1>1, <1>4 DEF Checks, Check
<1>7. ToSet(roles[x].before) \subseteq Passed /\ ToSet(groups[x].before) \subseteq Passed
  <2>1. ASSUME NEW g \in ToSet(roles[x].before) PROVE g \in Passed
    <3>1. PICK j \in 1..Len(RoleChecks) : g = RoleChecks[j]
      BY <1>3, <1>4, <2>1 DEF ToSet
    <3>2. QED
      BY <1>5, <3>1
  <2>2. ASSUME NEW g \in ToSet(groups[x].before) PROVE g \in Passed
    <3>1. PICK j \in 1..Len(GroupChecks) : g = GroupChecks[j]
      BY <1>3, <1>4, <2>2 DEF ToSet
    <3>2. QED
      BY <1>5, <3>1
  <2>3. QED
    BY <2>1, <2>2
<1>8. ASSUME NEW p \in Paths, pathRoles[p] = x
      PROVE  ToSet(registered[x].before) \subseteq Passed
  <2>1. request.at \notin {"setup", "routing"}
    BY DEF RanInv
  <2>2. toInject = NoHandlers
    BY <2>1 DEF RoutedInv
  <2>3. ToSet(toInject["before"]) = {}
    BY <2>2 DEF NoHandlers, Sides, ToSet
  <2>4. "before" \in Sides /\ x # NoRole
    BY <1>2, RoutingAssumption DEF Sides
  <2>5. ToSet(registered[x]["before"]) \subseteq ToSet(roles[x]["before"])
    BY <1>8, <2>3, <2>4 DEF RoutedInv
  <2>6. registered[x].before = registered[x]["before"] /\ roles[x].before = roles[x]["before"]
    BY <1>2 DEF RoutingTypeOK, HandlerLists, Sides
  <2>7. QED
    BY <1>7, <2>5, <2>6
<1>9. ToSet(roles[x].before) \cap ToSet(groups[x].before) = {}
  <2>1. \A h \in ToSet(roles[x].before) : h \in OfRoles
    BY <1>2, <1>3, <1>4 DEF OfRoles, ToSet, Sides
  <2>2. \A h \in ToSet(groups[x].before) : h \in OfGroups
    BY <1>2, <1>3, <1>4 DEF OfGroups, ToSet, Sides
  <2>3. QED
    BY <2>1, <2>2 DEF HandlersInv
<1>10. Ascending(roles[x].before) /\ Ascending(groups[x].before)
  BY <1>2 DEF HandlersInv, Sides
<1>11. ASSUME NEW lists \in {roles[x], groups[x]}, NEW j \in 1..n - 1, NEW k \in 1..n - 1, j < k,
              {ran[j], ran[k]} \subseteq ToSet(lists.before)
       PROVE  ran[j].order <= ran[k].order
  <2>1. CASE lists = roles[x]
    <3>1. ASSUME NEW l \in 1..n - 1, ran[l] \in ToSet(roles[x].before)
          PROVE  l \in 1..Len(RoleChecks) /\ ran[l] = RoleChecks[l]
      <4>1. CASE l > Len(RoleChecks)
        <5>1. ran[l] \in ToSet(groups[x].before)
          <6>1. /\ l - Len(RoleChecks) \in DOMAIN GroupChecks
                /\ ran[l] = GroupChecks[l - Len(RoleChecks)]
            BY <1>4, <1>6, <4>1
          <6>2. QED
            BY <1>3, <6>1 DEF ToSet
        <5>2. QED
          BY <1>9, <3>1, <5>1
      <4>2. QED
        BY <1>4, <1>6, <4>1
    <3>2. QED
      <4>1. ran[j] \in ToSet(roles[x].before) /\ ran[k] \in ToSet(roles[x].before)
        BY <1>11, <2>1
      <4>2. /\ j \in DOMAIN RoleChecks /\ k \in DOMAIN RoleChecks /\ j <= k
            /\ ran[j] = RoleChecks[j] /\ ran[k] = RoleChecks[k]
        BY <1>4, <1>11, <3>1, <4>1
      <4>3. QED
        BY <1>3, <1>10, <4>2 DEF Ascending
  <2>2. CASE lists = groups[x]
    <3>1. ASSUME NEW l \in 1..n - 1, ran[l] \in ToSet(groups[x].before)
          PROVE  /\ l - Len(RoleChecks) \in 1..Len(GroupChecks)
                 /\ ran[l] = GroupChecks[l - Len(RoleChecks)]
      <4>1. CASE l <= Len(RoleChecks)
        <5>1. ran[l] \in ToSet(roles[x].before)
          BY <1>3, <1>4, <1>6, <4>1 DEF ToSet
        <5>2. QED
          BY <1>9, <3>1, <5>1
      <4>2. QED
        BY <1>4, <1>6, <4>1
    <3>2. QED
      <4>1. ran[j] \in ToSet(groups[x].before) /\ ran[k] \in ToSet(groups[x].before)
        BY <1>11, <2>2
      <4>2. /\ j - Len(RoleChecks) \in DOMAIN GroupChecks
            /\ k - Len(RoleChecks) \in DOMAIN GroupChecks
            /\ j - Len(RoleChecks) <= k - Len(RoleChecks)
            /\ ran[j] = GroupChecks[j - Len(RoleChecks)]
            /\ ran[k] = GroupChecks[k - Len(RoleChecks)]
        <5>1. /\ j - Len(RoleChecks) \in DOMAIN GroupChecks
              /\ ran[j] = GroupChecks[j - Len(RoleChecks)]
          BY <1>4, <3>1, <4>1
        <5>2. /\ k - Len(RoleChecks) \in DOMAIN GroupChecks
              /\ ran[k] = GroupChecks[k - Len(RoleChecks)]
          BY <1>4, <3>1, <4>1
        <5>3. j - Len(RoleChecks) <= k - Len(RoleChecks)
          <6>1. j \in Int /\ k \in Int /\ j < k
            BY <1>11
          <6>2. QED
            BY <1>4, <6>1
        <5>4. QED
          BY <5>1, <5>2, <5>3
      <4>3. QED
        BY <1>3, <1>10, <4>2 DEF Ascending
  <2>3. QED
    BY <2>1, <2>2
<1>12. QED
  BY <1>7, <1>8, <1>11

\* No action runs before the handlers that guard it, for any routes, paths and
\* roles, and any number of handlers (sunny.go lines 404-416 and 378-391).
THEOREM ActionsAreGuarded == RoutingSpec => []GuardsPassed
<1>1. RoutingInit => RoutingInv
  BY InitRouting
<1>2. RoutingInv /\ [RoutingNext]_routingVars => RoutingInv'
  BY RoutingStep
<1>3. RoutingInv => GuardsPassed
  BY InvGuards
<1>4. QED
  BY <1>1, <1>2, <1>3, PTL DEF RoutingSpec

\* An abort ends what it should, wherever it happens (group.go lines 80-105,
\* role.go 60-84).
THEOREM AbortsStop == RoutingSpec => []AbortStops
<1>1. RoutingInit => RoutingInv
  BY InitRouting
<1>2. RoutingInv /\ [RoutingNext]_routingVars => RoutingInv'
  BY RoutingStep
<1>3. RoutingInv => AbortStops
  BY DEF RoutingInv, AbortInv
<1>4. QED
  BY <1>1, <1>2, <1>3, PTL DEF RoutingSpec

----------------------------------------------------------------------------
(* RedisCache.  Who looks a key up again leads its flight, who has joined   *)
(* waits for one who does, and a flight that has a leader is under way; a   *)
(* caller has seen what Redis has now, and a raw cache takes no flight.     *)

CacheTypeOK ==
    /\ cell \in [CacheKeys -> Values \cup {None}]
    /\ flight \in [CacheKeys -> Getters \cup {NoCaller}]
    /\ step \in [Getters -> {"idle", "get", "again", "joined", "stuck", "done"}]
    /\ called \in [Getters -> [key : CacheKeys, cache : {"typed", "raw"}]]
    /\ result \in [Getters -> Values \cup {None, Zero}]
    /\ seen \in [Getters -> SUBSET (Values \cup {None})]

SawCurrent == \A c \in Getters : step[c] # "idle" => cell[called[c].key] \in seen[c]

RawOnGround ==
    \A c \in Getters : called[c].cache = "raw" => step[c] \notin {"again", "joined", "stuck"}

LeadersFly ==
    \A k \in CacheKeys : flight[k] # NoCaller =>
        step[flight[k]] \in {"again", "stuck"} /\ called[flight[k]].key = k

CacheInv == CacheTypeOK /\ SawCurrent /\ RawOnGround /\ LeadersFly /\ FlightsAreLed /\ RawAnswersStored

LEMMA CacheInitInv == CacheInit => CacheInv
BY DEF CacheInit, CacheInv, CacheTypeOK, SawCurrent, RawOnGround, LeadersFly, FlightsAreLed,
       RawAnswersStored

\* A command that writes touches no call, and every call that it concerns
\* sees what it wrote.
LEMMA WriteInv ==
    ASSUME CacheInv, NEW K \in SUBSET CacheKeys, NEW v \in Values \cup {None}, NEW mortal,
           Write(K, v, mortal)
    PROVE  CacheInv'
<1> USE DEF CacheInv, CacheTypeOK, Write, calls
<1>1. CacheTypeOK'
  <2>1. seen' \in [Getters -> SUBSET (Values \cup {None})] /\ cell' \in [CacheKeys -> Values \cup {None}]
    OBVIOUS
  <2> QED BY <2>1
<1>2. SawCurrent'
  BY DEF SawCurrent
<1>3. RawOnGround' /\ LeadersFly' /\ FlightsAreLed'
  BY DEF RawOnGround, LeadersFly, FlightsAreLed
<1>4. RawAnswersStored'
  BY DEF RawAnswersStored
<1> QED BY <1>1, <1>2, <1>3, <1>4

LEMMA WritingInv == ASSUME CacheInv, Writing PROVE CacheInv'
<1>1. CASE Clean
  BY <1>1, WriteInv DEF Clean
<1>2. ASSUME NEW k \in CacheKeys, Delete(k) \/ SetTTL(k) \/ Expire(k) PROVE CacheInv'
  <2>1. cell[k] \in Values \cup {None} /\ {k} \in SUBSET CacheKeys
    BY DEF CacheInv, CacheTypeOK
  <2> QED BY <1>2, <2>1, WriteInv DEF Delete, SetTTL, Expire
<1>3. ASSUME NEW k \in CacheKeys, NEW v \in Values, Set(k, v) PROVE CacheInv'
  <2>1. {k} \in SUBSET CacheKeys
    OBVIOUS
  <2> QED BY <1>3, <2>1, WriteInv DEF Set
<1> QED BY <1>1, <1>2, <1>3 DEF Writing

LEMMA GettingInv == ASSUME CacheInv, NEW c \in Getters, Getting(c) PROVE CacheInv'
<1> USE CacheAssumption DEF CacheInv, CacheTypeOK, redisData, options
<1>1. ASSUME NEW k \in CacheKeys, NEW cache \in {"typed", "raw"}, Get(c, k, cache) PROVE CacheInv'
  BY <1>1 DEF Get, Move, SawCurrent, RawOnGround, LeadersFly, FlightsAreLed, RawAnswersStored
<1>2. CASE Finds(c)
  BY <1>2 DEF Finds, Answer, Hit, SawCurrent, RawOnGround, LeadersFly, FlightsAreLed, RawAnswersStored
<1>3. CASE Fails(c)
  BY <1>3 DEF Fails, Answer, SawCurrent, RawOnGround, LeadersFly, FlightsAreLed, RawAnswersStored
<1>4. CASE Flies(c)
  <2> DEFINE k == called[c].key
  <2>1. k \in CacheKeys /\ called[c].cache # "raw" /\ step[c] = "get"
    BY <1>4 DEF Flies, Unloadable
  <2>2. CASE flight[k] = NoCaller /\ Move(c, "again") /\ flight' = [flight EXCEPT ![k] = c]
    <3>1. CacheTypeOK' /\ SawCurrent' /\ RawOnGround' /\ RawAnswersStored'
      BY <1>4, <2>1, <2>2 DEF Flies, Move, SawCurrent, RawOnGround, RawAnswersStored
    <3>2. ASSUME NEW d \in Getters, step[d] \in {"again", "stuck", "joined"} PROVE called[d].key # k
      BY <2>2, <3>2 DEF FlightsAreLed
    <3>3. LeadersFly' /\ FlightsAreLed'
      BY <1>4, <2>1, <2>2, <3>2 DEF Flies, Move, LeadersFly, FlightsAreLed
    <3> QED BY <3>1, <3>3
  <2>3. CASE flight[k] # NoCaller /\ Move(c, "joined") /\ UNCHANGED flight
    BY <1>4, <2>1, <2>3 DEF Flies, Move, SawCurrent, RawOnGround, LeadersFly, FlightsAreLed, RawAnswersStored
  <2> QED BY <1>4, <2>2, <2>3 DEF Flies
<1>5. CASE Lands(c)
  BY <1>5 DEF Lands, Answer, Hit, SawCurrent, RawOnGround, LeadersFly, FlightsAreLed, RawAnswersStored
<1>6. CASE Stalls(c)
  BY <1>6 DEF Stalls, Move, SawCurrent, RawOnGround, LeadersFly, FlightsAreLed, RawAnswersStored
<1> QED BY <1>1, <1>2, <1>3, <1>4, <1>5, <1>6 DEF Getting

LEMMA CacheStep == CacheInv /\ [CacheNext]_cacheVars => CacheInv'
<1>1. CacheInv /\ UNCHANGED cacheVars => CacheInv'
  BY DEF CacheInv, CacheTypeOK, SawCurrent, RawOnGround, LeadersFly, FlightsAreLed, RawAnswersStored,
         cacheVars, redisData, calls
<1> QED BY <1>1, WritingInv, GettingInv DEF CacheNext

\* One caller at a time looks a missing key up again, and nobody waits for a
\* flight that is over, for any number of callers and keys (redis.go lines
\* 145-170).
THEOREM OneFlightPerKey == CacheSpec => []FlightsAreLed
<1>1. CacheInv => FlightsAreLed
  BY DEF CacheInv
<1> QED BY <1>1, CacheInitInv, CacheStep, PTL DEF CacheSpec

\* A raw cache answers with what Redis had during the call (redis.go lines
\* 361-374).
THEOREM RawAnswersAreStored == CacheSpec => []RawAnswersStored
<1>1. CacheInv => RawAnswersStored
  BY DEF CacheInv
<1> QED BY <1>1, CacheInitInv, CacheStep, PTL DEF CacheSpec
============================================================================
