-------------------------- MODULE MqManagerProofs --------------------------
(* What the two managers guarantee for any number of publishers, producers, *)
(* calls of Close and Reconnect, stored records and retries.                *)
(*                                                                          *)
(* Inv is inductive for RabbitMq and KafkaInv for KafkaManager; MqInv says  *)
(* that the manager in use satisfies its own.  They share who holds r.mu    *)
(* where (LockInv), that the background goroutines run only after Start     *)
(* launched them (StartInv), and what the resend loop and the publishers    *)
(* keep true of the store (StoreInv, SentBeforeOk).  The connection is up   *)
(* only while the manager says so or is being closed (ConnInv, ProducerInv).*)
(* The steps that touch the store are steps of Outbox (SendIsTaken,         *)
(* SaveIsKept, LoopIsOutbox), which makes either manager implement it.      *)
EXTENDS MqManager, ChannelPoolProofs

Publishing == {"start", "get", "send", "produce", "ack", "save", "put_ok", "put_saved", "put_lost"}

\* r.mu is held from the first step of Close and Reconnect to the last.
LockInv ==
    /\ \A t \in Callers \cup Closers : pc[t] \in {"close_conn", "close_end"} => mu = t
    /\ \A t \in Callers : pc[t] = "dial" => mu = t
    /\ \A t \in Closers : pc[t] = "close_end" => conn # "up"

StartInv == pc[Starter] \in {"idle", "dial", "launch"} =>
                pc[Resender] = "off" /\ pc[Monitor] = "off"

ConnInv ==
    /\ conn = "up" => isConnected
    /\ conn # "up" => open = {}
    /\ pool = "nil" => conn = "none"
    /\ isConnected => pool # "nil"

ResendInv ==
    /\ work \subseteq Stored
    /\ IF pc[Resender] \in Publishing \cup Returned
       THEN cur \in work /\ store[cur].retry < MaxRetries
       ELSE cur = NoId

\* RabbitMQProducer.Publish has no store to save to.
ProducersNeverSave == \A q \in Producers : pc[q] # "save"

\* The failed-message store as both managers use it.
StoreInv ==
    /\ pc \in [Threads -> Labels]
    /\ store \in [Ids -> Records \cup {NoRecord}]
    /\ sent \subseteq Publishers
    /\ ProducersNeverSave
    /\ ResendInv

\* The resender reports success only for a message the broker has accepted.
SentBeforeOk == pc[Resender] \in {"put_ok", "ack", "ok"} => store[cur].body \in sent

Inv ==
    /\ ProducersNeverSave
    /\ PoolInv
    /\ TypeOK
    /\ PoolBeforeUse
    /\ HoldsOnlyWhileSending
    /\ LockInv
    /\ StartInv
    /\ ConnInv
    /\ ResendInv

\* Every step of the manager is a step of the pool or leaves it alone
\* (lines 56-152 as called from the rest of the file).
LEMMA StepUsesPool == [Next]_vars => [PoolNext]_poolVars
<1> SUFFICES ASSUME [Next]_vars PROVE [PoolNext]_poolVars
  OBVIOUS
<1> USE DEF PoolNext, Get, Put
<1>1. ASSUME NEW u \in Users, Publish(u) PROVE [PoolNext]_poolVars
  BY <1>1 DEF Publish, Snapshot, Borrow, BorrowFails, SendOk, SendFails, Save, SaveFails, Release
<1>2. CASE Resending
  BY <1>2 DEF Resending, Tick, GiveUp, Resend, Settle, RoundEnds, ResenderExit
<1>3. CASE Starting
  BY <1>3 DEF Starting, StartCalled, Connect, ConnectFails, Launch
<1>4. ASSUME NEW t \in Callers \cup {Starter}, DialFails(t) PROVE [PoolNext]_poolVars
  BY <1>4 DEF DialFails
<1>5. CASE MonitorTick \/ MonitorExit
  BY <1>5 DEF MonitorTick, MonitorExit
<1>6. ASSUME NEW t \in Callers, Reconnect(t) PROVE [PoolNext]_poolVars
  BY <1>6 DEF Reconnect, ReconnectCalled, ReconnectNeedless, ReconnectClosePool,
              ReconnectCloseConn, ClosePoolIfAny, CloseConnIfAny
<1>7. ASSUME NEW t \in Closers, Close(t) PROVE [PoolNext]_poolVars
  BY <1>7 DEF Close, CloseBegin, CloseConn, CloseEnd, ClosePoolIfAny, CloseConnIfAny
<1>8. CASE Fault
  BY <1>8 DEF Fault
<1>9. CASE UNCHANGED vars
  BY <1>9 DEF vars, poolVars
<1> QED BY <1>1, <1>2, <1>3, <1>4, <1>5, <1>6, <1>7, <1>8, <1>9 DEF Next

\* The manager implements the channel pool: what ChannelPoolProofs proves of
\* the pool (no channel shared, leaked or kept beyond the size) holds here.
THEOREM ManagerUsesPool == Spec => UsesPool
<1>1. Init => PoolInit BY DEF Init
<1> QED BY <1>1, StepUsesPool, PTL DEF Spec, PoolSpec, UsesPool

LEMMA InitInv == Init => Inv
<1> SUFFICES ASSUME Init PROVE Inv
  OBVIOUS
<1>1. PoolInv /\ PoolTypeOK
  BY PoolInitInv DEF Init, PoolInv
<1>2. TypeOK
  <2>1. \A t \in Threads : StartPc(t) \in Labels
    BY DEF StartPc, Labels
  <2>2. pc \in [Threads -> Labels]
    BY <2>1 DEF Init
  <2>3. tries \in [Publishers -> 0..MaxRetries + 1]
    BY StoreAssumption DEF Init
  <2>4. store \in [Ids -> Records \cup {NoRecord}]
    BY DEF Init
  <2> QED BY <1>1, <2>2, <2>3, <2>4 DEF Init, TypeOK
<1>3. \A u \in Users : pc[u] \in {"start", "off"} /\ held[u] = NoChannel
  BY UsersAssumption DEF Init, StartPc, PoolInit, Threads
<1>4. \A t \in Callers \cup Closers \cup {Starter} : pc[t] \in {"idle", "off"}
  BY ThreadsAssumption, UsersAssumption DEF Init, StartPc, Threads
<1>5. pc[Resender] = "off" /\ pc[Monitor] = "off"
  BY ThreadsAssumption, UsersAssumption DEF Init, StartPc, Threads, Callers
<1>6. PoolBeforeUse /\ HoldsOnlyWhileSending /\ ProducersNeverSave
  BY <1>3, UsersAssumption DEF PoolBeforeUse, HoldsOnlyWhileSending, ProducersNeverSave
<1>7. LockInv /\ StartInv
  BY <1>4, <1>5 DEF LockInv, StartInv
<1>8. ConnInv /\ ResendInv
  BY <1>5 DEF Init, PoolInit, ConnInv, ResendInv, Publishing, Returned
<1> QED BY <1>1, <1>2, <1>6, <1>7, <1>8 DEF Inv

----------------------------------------------------------------------------
(* Each part of Inv, one lemma, one case per group of actions.              *)

\* The steps of Publish keep the types.
LEMMA PublishType == ASSUME Inv, NEW u \in Users, Publish(u) PROVE TypeOK'
<1> USE UsersAssumption, ThreadsAssumption, StoreAssumption DEF Inv, TypeOK
<1>1. PoolTypeOK'
  BY StepUsesPool, PoolStepInv DEF Next, PoolInv
<1>2. \A l \in Labels : Goto(u, l) => pc' \in [Threads -> Labels]
  BY DEF Goto, Threads
<1>3. pc' \in [Threads -> Labels]
  BY <1>2 DEF Publish, Snapshot, Borrow, BorrowFails, SendOk, SendFails, Save, SaveFails, Release,
     AfterCheck, AfterSendError, AfterPut, Labels
<1>4. u \in Savers /\ pc[u] \in Publishing => BodyOf(u) \in Publishers
  BY DEF Savers, BodyOf, ResendInv, Stored, Records
<1>5. store' \in [Ids -> Records \cup {NoRecord}]
  <2>1. CASE Save(u)
    <3>1. BodyOf(u) \in Publishers
      <4>1. u \in Savers
        BY <2>1 DEF Save, Savers, ProducersNeverSave
      <4> QED BY <1>4, <4>1, <2>1 DEF Save, Publishing
    <3>2. NewRecord(BodyOf(u)) \in Records
      BY <3>1 DEF NewRecord, Records
    <3> QED BY <2>1, <3>2 DEF Save
  <2> QED BY <2>1 DEF Publish, Snapshot, Borrow, BorrowFails, SendOk, SendFails, SaveFails, Release, storeVars
<1>6. sent' \subseteq Publishers
  BY <1>4 DEF Publish, Snapshot, Borrow, BorrowFails, SendOk, SendFails, Save, SaveFails, Release,
     Publishing, storeVars
<1>7. UNCHANGED <<managerVars, work, cur, tries>>
  BY DEF Publish, Snapshot, Borrow, BorrowFails, SendOk, SendFails, Save, SaveFails, Release, storeVars
<1> QED BY <1>1, <1>3, <1>5, <1>6, <1>7 DEF managerVars

\* Publish keeps the other parts: it changes no lock, no flag and no label but
\* the caller's, and a save writes only a free record.
LEMMA PublishRest ==
    ASSUME Inv, NEW u \in Users, Publish(u)
    PROVE  /\ PoolBeforeUse' /\ HoldsOnlyWhileSending' /\ LockInv'
           /\ StartInv' /\ ConnInv' /\ ResendInv' /\ ProducersNeverSave'
<1> USE UsersAssumption, ThreadsAssumption DEF Inv
<1>1. pc \in [Threads -> Labels] /\ u \in Threads /\ Producers \subseteq Threads
  BY DEF TypeOK, Threads
<1>2. /\ UNCHANGED <<managerVars, work, cur, tries, conn, pool>>
      /\ \A t \in Threads \ {u} : pc'[t] = pc[t]
      /\ pc[u] \in Publishing /\ pc'[u] \in Publishing \cup Returned
  BY <1>1 DEF Publish, Snapshot, Borrow, BorrowFails, SendOk, SendFails, Save, SaveFails, Release,
     storeVars, poolVars, Goto, Publishing, Returned, AfterCheck, AfterSendError, AfterPut,
     Get, TakeIdle, CreateChannel, Put, PutBack, PutClose
<1>3. PoolBeforeUse'
  <2>1. pc'[u] = "get" => isConnected
    BY <1>1 DEF Publish, Snapshot, Borrow, BorrowFails, SendOk, SendFails, Save, SaveFails, Release,
     Goto, AfterCheck, AfterSendError, AfterPut
  <2> QED BY <1>1, <1>2, <2>1 DEF PoolBeforeUse, ConnInv, Threads
<1>4. HoldsOnlyWhileSending'
  <2>1. \A v \in Users \ {u} : held'[v] = held[v]
    BY DEF Publish, Snapshot, Borrow, BorrowFails, SendOk, SendFails, Save, SaveFails, Release,
       poolVars, Get, TakeIdle, CreateChannel, Put, PutBack, PutClose, TypeOK, PoolTypeOK
  <2>2. /\ held'[u] # NoChannel => pc'[u] \in {"send", "save", "put_ok", "put_saved", "put_lost"}
        /\ pc'[u] \in {"send", "put_ok"} => held'[u] # NoChannel
    <3> USE <1>1 DEF TypeOK, PoolTypeOK, Goto, HoldsOnlyWhileSending
    <3>1. CASE Borrow(u)
      <4>1. held'[u] \in Channels
        BY <3>1 DEF Borrow, Get, TakeIdle, CreateChannel, Fresh, NewChannel
      <4> QED BY <3>1, <4>1, NoChannelAssumption DEF Borrow
    <3>2. CASE Release(u)
      BY <3>2 DEF Release, Put, PutBack, PutClose, AfterPut
    <3>3. CASE Snapshot(u) \/ BorrowFails(u)
      BY <3>3 DEF Snapshot, BorrowFails, poolVars, AfterCheck
    <3>4. CASE SendOk(u) \/ SendFails(u)
      BY <3>4 DEF SendOk, SendFails, poolVars, AfterSendError
    <3>5. CASE Save(u) \/ SaveFails(u)
      BY <3>5 DEF Save, SaveFails, poolVars
    <3> QED BY <3>1, <3>2, <3>3, <3>4, <3>5 DEF Publish
  <2> QED BY <1>1, <1>2, <2>1, <2>2 DEF HoldsOnlyWhileSending, Threads
<1>5. LockInv' /\ StartInv'
  BY <1>1, <1>2 DEF LockInv, StartInv, Threads, Callers, managerVars, Publishing
<1>6. ConnInv'
  BY <1>2 DEF Publish, Snapshot, Borrow, BorrowFails, SendOk, SendFails, Save, SaveFails, Release,
     poolVars, managerVars, ConnInv, Get, TakeIdle, CreateChannel, Put, PutBack, PutClose
<1>7. ResendInv'
  <2>1. \A i \in Stored : store'[i] = store[i]
    BY DEF Publish, Snapshot, Borrow, BorrowFails, SendOk, SendFails, Save, SaveFails, Release,
       storeVars, Free, NewId, Stored, TypeOK
  <2>2. Stored \subseteq Stored'
    BY <2>1 DEF Stored
  <2>3. pc'[Resender] \in Publishing \cup Returned <=> pc[Resender] \in Publishing \cup Returned
    BY <1>1, <1>2 DEF Threads
  <2> QED BY <1>2, <2>1, <2>2, <2>3 DEF ResendInv
<1>8. ProducersNeverSave'
  BY <1>1 DEF Publish, Snapshot, Borrow, BorrowFails, SendOk, SendFails, Save, SaveFails, Release,
     Goto, AfterCheck, AfterSendError, AfterPut, ProducersNeverSave, Savers
<1> QED BY <1>3, <1>4, <1>5, <1>6, <1>7, <1>8

\* The resend loop of either manager works on stored records only, and a
\* record that is resent has retries left.
LEMMA ResendLoop ==
    ASSUME StoreInv, Resending
    PROVE  /\ StoreInv'
           /\ UNCHANGED <<poolVars, managerVars, sent>>
           /\ \A t \in Threads \ {Resender} : pc'[t] = pc[t]
           /\ pc[Resender] \in {"idle", "next"} \cup Returned
           /\ pc'[Resender] \in {"idle", "next", "start", "exit"}
<1> USE UsersAssumption, ThreadsAssumption, StoreAssumption DEF StoreInv
<1>1. UNCHANGED <<poolVars, managerVars, sent>>
  BY DEF Resending, Tick, GiveUp, Resend, Settle, RoundEnds, ResenderExit, storeVars
<1>2. /\ Resender \in Threads
      /\ \A t \in Threads \ {Resender} : pc'[t] = pc[t]
      /\ pc' \in [Threads -> Labels]
  BY DEF Threads, Resending, Tick, GiveUp, Resend, Settle, RoundEnds, ResenderExit, Goto, Labels
<1>3. /\ pc[Resender] \in {"idle", "next"} \cup Returned
      /\ pc'[Resender] \in {"idle", "next", "start", "exit"}
  BY <1>2 DEF Resending, Tick, GiveUp, Resend, Settle, RoundEnds, ResenderExit, Goto
<1>4. store' \in [Ids -> Records \cup {NoRecord}]
  <2>1. CASE Settle
    <3>1. cur \in Stored /\ store[cur] \in Records /\ store[cur].retry \in 0..MaxRetries - 1
      BY <2>1 DEF Settle, ResendInv, Stored, Records
    <3>2. [store[cur] EXCEPT !.retry = @ + 1] \in Records
      BY <3>1 DEF Records
    <3>3. Settled(pc[Resender]) \in Records \cup {NoRecord}
      BY <3>2 DEF Settled
    <3> QED BY <2>1, <3>3 DEF Settle, Write
  <2>2. CASE GiveUp
    BY <2>2 DEF GiveUp, Write
  <2>3. CASE Tick \/ Resend \/ RoundEnds \/ ResenderExit
    BY <2>3 DEF Tick, Resend, RoundEnds, ResenderExit, storeVars
  <2> QED BY <2>1, <2>2, <2>3 DEF Resending
<1>5. ResendInv'
  <2> USE <1>2, <1>3 DEF ResendInv, Publishing, Returned, Goto, Stored
  <2>1. CASE Tick
    BY <2>1 DEF Tick
  <2>2. CASE GiveUp
    BY <2>2 DEF GiveUp, Write
  <2>3. CASE Resend
    <3>1. PICK i \in work : ~Exhausted(i) /\ cur' = i
      BY <2>3 DEF Resend
    <3>2. store[i].retry < MaxRetries
      BY <3>1 DEF Exhausted, Records
    <3> QED BY <2>3, <3>1, <3>2 DEF Resend
  <2>4. CASE Settle
    BY <2>4 DEF Settle, Write
  <2>5. CASE RoundEnds \/ ResenderExit
    BY <2>5 DEF RoundEnds, ResenderExit, storeVars
  <2> QED BY <2>1, <2>2, <2>3, <2>4, <2>5 DEF Resending
<1>6. ProducersNeverSave'
  BY <1>2 DEF ProducersNeverSave, Threads
<1> QED BY <1>1, <1>2, <1>3, <1>4, <1>5, <1>6

LEMMA ResendingInv == ASSUME Inv, Resending PROVE Inv'
<1> USE UsersAssumption, ThreadsAssumption, StoreAssumption DEF Inv
<1>1. PoolInv'
  BY StepUsesPool, PoolStepInv DEF Next
<1>2. StoreInv
  BY DEF StoreInv, TypeOK
<1>3. /\ StoreInv' /\ UNCHANGED <<poolVars, managerVars, sent>>
      /\ \A t \in Threads \ {Resender} : pc'[t] = pc[t]
      /\ pc[Resender] \in {"idle", "next"} \cup Returned
      /\ pc'[Resender] \in {"idle", "next", "start", "exit"}
  BY <1>2, ResendLoop
<1>4. tries' \in [Publishers -> 0..MaxRetries + 1] /\ work' \subseteq Ids /\ cur' \in Ids \cup {NoId}
  <2> USE DEF TypeOK
  <2>1. CASE Resend
    <3>1. \A b \in Publishers : (IF tries[b] > MaxRetries THEN tries[b] ELSE tries[b] + 1) \in 0..MaxRetries + 1
      OBVIOUS
    <3>2. ASSUME NEW b PROVE Attempted(b) \in [Publishers -> 0..MaxRetries + 1]
      BY <3>1 DEF Attempted
    <3> QED BY <2>1, <3>2 DEF Resend
  <2>2. CASE Tick \/ GiveUp \/ Settle \/ RoundEnds \/ ResenderExit
    BY <2>2 DEF Tick, GiveUp, Settle, RoundEnds, ResenderExit, storeVars, Stored
  <2> QED BY <2>1, <2>2 DEF Resending
<1>5. TypeOK'
  BY <1>1, <1>3, <1>4 DEF TypeOK, PoolInv, StoreInv, managerVars
<1>6. PoolBeforeUse' /\ HoldsOnlyWhileSending'
  <2>1. held[Resender] = NoChannel
    BY <1>3 DEF HoldsOnlyWhileSending, Returned
  <2> QED BY <1>3, <2>1 DEF poolVars, PoolBeforeUse, HoldsOnlyWhileSending, Threads
<1>7. LockInv' /\ StartInv' /\ ConnInv'
  BY <1>3 DEF poolVars, managerVars, LockInv, StartInv, ConnInv, Threads, Callers, Returned
<1> QED BY <1>1, <1>3, <1>5, <1>6, <1>7 DEF StoreInv

\* Start keeps Inv: a connection comes up together with isConnected, and the
\* background goroutines are launched once.
LEMMA StartingInv == ASSUME Inv, Starting \/ \E t \in Callers \cup {Starter} : DialFails(t) PROVE Inv'
<1> USE UsersAssumption, ThreadsAssumption DEF Inv
<1>1. PoolInv'
  BY StepUsesPool, PoolStepInv DEF Next
<1>2. /\ pc \in [Threads -> Labels]
      /\ {Starter, Monitor, Resender} \subseteq Threads
      /\ Starter \notin {Monitor, Resender} /\ Monitor # Resender
  BY DEF TypeOK, Threads, Callers
<1>3. ASSUME NEW t \in Callers \cup {Starter}, DialFails(t) PROVE Inv'
  <2>1. /\ UNCHANGED <<poolVars, managerVars, storeVars>> /\ t \in Threads /\ t \notin Users \cup Closers
        /\ pc' = [pc EXCEPT ![t] = AfterFailure(t)] /\ AfterFailure(t) \in {"failed", "wait", "done"}
    BY <1>3 DEF DialFails, Goto, Threads, AfterFailure, Callers
  <2>2. t = Starter
    BY <1>3 DEF DialFails, CanLock, LockInv, Threads
  <2>3. TypeOK'
    BY <1>1, <1>2, <2>1 DEF TypeOK, poolVars, managerVars, storeVars, Labels, PoolInv
  <2>4. PoolBeforeUse' /\ HoldsOnlyWhileSending' /\ ProducersNeverSave' /\ ResendInv'
    BY <1>2, <2>1 DEF poolVars, storeVars, PoolBeforeUse, HoldsOnlyWhileSending, ProducersNeverSave,
       ResendInv, Stored, Threads
  <2>5. LockInv' /\ StartInv' /\ ConnInv'
    BY <1>2, <2>1, <2>2 DEF poolVars, managerVars, LockInv, StartInv, ConnInv, Threads, Callers, AfterFailure
  <2> QED BY <1>1, <2>3, <2>4, <2>5
<1>4. CASE Launch
  <2>1. UNCHANGED <<poolVars, managerVars, storeVars>>
    BY <1>4 DEF Launch
  <2>2. /\ pc[Starter] = "launch" /\ pc[Resender] = "off"
        /\ pc' = [pc EXCEPT ![Starter] = "done", ![Monitor] = "wait", ![Resender] = "idle"]
    BY <1>4 DEF Launch, StartInv
  <2>3. TypeOK'
    BY <1>1, <1>2, <2>1, <2>2 DEF TypeOK, poolVars, managerVars, storeVars, Labels, PoolInv
  <2>4. PoolBeforeUse' /\ HoldsOnlyWhileSending' /\ ProducersNeverSave' /\ ResendInv'
    BY <1>2, <2>1, <2>2 DEF poolVars, storeVars, PoolBeforeUse, HoldsOnlyWhileSending, ProducersNeverSave,
       ResendInv, Stored, Threads, Callers, Publishing, Returned
  <2>5. LockInv' /\ StartInv' /\ ConnInv'
    BY <1>2, <2>1, <2>2 DEF poolVars, managerVars, LockInv, StartInv, ConnInv, Threads, Callers
  <2> QED BY <1>1, <2>3, <2>4, <2>5
<1>5. CASE StartCalled \/ Connect \/ ConnectFails
  <2>1. /\ UNCHANGED <<mu, cancelled, storeVars, held>>
        /\ pc[Starter] \in {"idle", "dial"} /\ pc'[Starter] \in {"dial", "launch", "failed"}
        /\ \A t \in Threads \ {Starter} : pc'[t] = pc[t]
        /\ pc' \in [Threads -> Labels] /\ isConnected' \in BOOLEAN
    BY <1>2, <1>5 DEF StartCalled, Connect, ConnectFails, Goto, Labels, poolVars, managerVars,
       Establish, SetupGetFails, DeclareFails, TypeOK
  <2>2. \A u \in Users \cup Callers \cup Closers : u # Starter /\ u \in Threads
    BY DEF Threads
  <2>3. TypeOK'
    BY <1>1, <2>1 DEF TypeOK, storeVars, PoolInv
  <2>4. PoolBeforeUse'
    <3>1. pool # "nil" => pool' # "nil"
      BY <1>5 DEF StartCalled, Connect, ConnectFails, poolVars, Establish, SetupGetFails, DeclareFails
    <3> QED BY <2>1, <2>2, <3>1 DEF PoolBeforeUse
  <2>5. HoldsOnlyWhileSending' /\ ProducersNeverSave' /\ ResendInv'
    BY <2>1, <2>2 DEF storeVars, HoldsOnlyWhileSending, ProducersNeverSave, ResendInv, Stored
  <2>6. ConnInv'
    BY <1>5 DEF StartCalled, Connect, ConnectFails, poolVars, managerVars, Establish, SetupGetFails,
       DeclareFails, CanConnect, ConnInv
  <2>7. LockInv'
    <3>1. CASE StartCalled \/ ConnectFails
      BY <2>1, <2>2, <3>1 DEF LockInv, StartCalled, ConnectFails, SetupGetFails, DeclareFails, poolVars
    <3>2. CASE Connect
      <4>1. \A t \in Closers : pc[t] # "close_end"
        BY <2>2, <3>2 DEF LockInv, Connect, CanLock, Threads
      <4> QED BY <2>1, <2>2, <4>1 DEF LockInv
    <3> QED BY <1>5, <3>1, <3>2
  <2>8. StartInv'
    BY <1>2, <2>1 DEF StartInv
  <2> QED BY <1>1, <2>3, <2>4, <2>5, <2>6, <2>7, <2>8
<1> QED BY <1>3, <1>4, <1>5 DEF Starting

\* The monitor, Reconnect and Close keep Inv: whoever is inside Close or
\* Reconnect is the one that holds r.mu.
LEMMA ReconnectInv ==
    ASSUME Inv, MonitorTick \/ MonitorExit \/ \E t \in Callers : Reconnect(t) PROVE Inv'
<1> USE UsersAssumption, ThreadsAssumption DEF Inv
<1>1. PoolInv'
  BY StepUsesPool, PoolStepInv DEF Next
<1>2. PICK t \in Callers :
        \/ t = Monitor /\ (MonitorTick \/ MonitorExit)
        \/ Reconnect(t)
  BY DEF Callers
<1>3. /\ t \in Threads /\ t \notin Users \cup Closers \cup {Starter}
      /\ pc \in [Threads -> Labels]
  BY <1>2 DEF TypeOK, Threads
<1>4. /\ UNCHANGED <<isConnected, cancelled, storeVars, held>>
      /\ pc' \in [Threads -> Labels]
      /\ \A s \in Threads \ {t} : pc'[s] = pc[s]
      /\ pc[t] # "off" /\ pc'[t] # "off"
      /\ pc'[t] # "close_end"
      /\ mu' \in {mu, t} /\ (mu' # mu => mu = NoOne)
      /\ pc'[t] \in {"close_conn", "dial"} => mu' = t
      /\ pool = "nil" => pool' = pool /\ conn' = conn
      /\ pool # "nil" => pool' # "nil"
      /\ conn' = "up" => conn = "up"
      /\ open' \subseteq open /\ (conn' # conn => open' = {})
  BY <1>2, <1>3 DEF MonitorTick, MonitorExit, Reconnect, ReconnectCalled, ReconnectNeedless,
     ReconnectClosePool, ReconnectCloseConn, ClosePoolIfAny, CloseConnIfAny, ClosePool, ConnDown,
     Goto, Labels, AfterFailure, CanLock, poolVars, managerVars, LockInv, ConnInv
<1>5. TypeOK'
  BY <1>1, <1>3, <1>4 DEF TypeOK, PoolInv, storeVars
<1>6. \A u \in Users \cup Closers \cup {Starter} : u # t /\ u \in Threads
  BY <1>3 DEF Threads
<1>7. PoolBeforeUse' /\ HoldsOnlyWhileSending' /\ ProducersNeverSave' /\ ResendInv'
  BY <1>4, <1>6 DEF storeVars, PoolBeforeUse, HoldsOnlyWhileSending, ProducersNeverSave, ResendInv, Stored
<1>8. LockInv'
  <2>1. NoOne \notin Callers \cup Closers /\ Callers \cup Closers \subseteq Threads
    BY DEF Threads
  <2> QED BY <1>4, <1>6, <2>1 DEF LockInv
<1>9. StartInv'
  <2>1. Monitor \in Threads /\ Resender \in Users
    BY DEF Threads, Callers
  <2> QED BY <1>4, <1>6, <2>1 DEF StartInv
<1>10. ConnInv'
  BY <1>4 DEF ConnInv
<1> QED BY <1>1, <1>5, <1>7, <1>8, <1>9, <1>10

LEMMA CloseInv == ASSUME Inv, NEW t \in Closers, Close(t) PROVE Inv'
<1> USE UsersAssumption, ThreadsAssumption DEF Inv
<1>1. PoolInv'
  BY StepUsesPool, PoolStepInv DEF Next
<1>2. /\ t \in Threads /\ t \notin Users \cup Callers \cup {Starter}
      /\ pc \in [Threads -> Labels]
  BY DEF TypeOK, Threads
<1>3. /\ UNCHANGED <<storeVars, held>>
      /\ pc' \in [Threads -> Labels] /\ cancelled' \in BOOLEAN /\ isConnected' \in BOOLEAN
      /\ \A s \in Threads \ {t} : pc'[s] = pc[s]
      /\ pool = "nil" => pool' = pool /\ conn' = conn
      /\ pool # "nil" => pool' # "nil"
      /\ conn' = "up" => conn = "up"
      /\ open' \subseteq open /\ (conn' # conn => open' = {})
  BY <1>2 DEF Close, CloseBegin, CloseConn, CloseEnd, ClosePoolIfAny, CloseConnIfAny, ClosePool, ConnDown,
     Goto, Labels, poolVars, managerVars, ConnInv, TypeOK
<1>4. \/ mu = NoOne /\ mu' = t /\ pc'[t] = "close_conn" /\ isConnected' = isConnected
      \/ mu = t /\ mu' = t /\ pc'[t] = "close_end" /\ conn' # "up" /\ isConnected' = isConnected
      \/ mu = t /\ mu' = NoOne /\ pc'[t] = "done" /\ conn' # "up" /\ isConnected' = FALSE
  BY <1>2 DEF Close, CloseBegin, CloseConn, CloseEnd, CloseConnIfAny, ConnDown, Goto, CanLock,
     poolVars, managerVars, LockInv
<1>5. TypeOK'
  BY <1>1, <1>2, <1>3, <1>4 DEF TypeOK, PoolInv, storeVars
<1>6. \A u \in Users \cup Callers \cup {Starter} : u # t /\ u \in Threads
  BY <1>2 DEF Threads
<1>7. PoolBeforeUse' /\ HoldsOnlyWhileSending' /\ ProducersNeverSave' /\ ResendInv'
  BY <1>3, <1>6 DEF storeVars, PoolBeforeUse, HoldsOnlyWhileSending, ProducersNeverSave, ResendInv, Stored
<1>8. LockInv'
  <2>1. NoOne \notin Callers \cup Closers /\ Callers \cup Closers \subseteq Threads
    BY DEF Threads
  <2> QED BY <1>3, <1>4, <1>6, <2>1 DEF LockInv
<1>9. StartInv'
  <2>1. Monitor \in Callers /\ Resender \in Users
    BY DEF Callers
  <2> QED BY <1>3, <1>6, <2>1 DEF StartInv
<1>10. ConnInv'
  BY <1>3, <1>4 DEF ConnInv
<1> QED BY <1>1, <1>5, <1>7, <1>8, <1>9, <1>10

\* Every step of the manager, and of the broker, keeps Inv.
LEMMA StepInv == Inv /\ [Next]_vars => Inv'
<1> SUFFICES ASSUME Inv, [Next]_vars PROVE Inv'
  OBVIOUS
<1>1. PoolInv'
  BY StepUsesPool, PoolStepInv DEF Inv
<1>2. ASSUME NEW u \in Users, Publish(u) PROVE Inv'
  BY <1>1, <1>2, PublishType, PublishRest DEF Inv
<1>3. CASE Fault
  BY <1>1, <1>3 DEF Fault, ConnDown, ChannelError, managerVars, storeVars, Inv, TypeOK, PoolInv,
     PoolBeforeUse, HoldsOnlyWhileSending, LockInv, StartInv, ConnInv, ResendInv, Stored, ProducersNeverSave
<1>4. CASE UNCHANGED vars
  BY <1>1, <1>4 DEF vars, Inv, TypeOK, PoolInv,
     PoolBeforeUse, HoldsOnlyWhileSending, LockInv, StartInv, ConnInv, ResendInv, Stored, ProducersNeverSave
<1> QED BY <1>2, <1>3, <1>4, ResendingInv, StartingInv, ReconnectInv, CloseInv DEF Next

LEMMA InvAlways == Spec => []Inv
BY InitInv, StepInv, PTL DEF Spec

----------------------------------------------------------------------------
(* Of RabbitMq alone: types, and the pool it borrows from.                  *)

\* Types, for any number of goroutines and records.
THEOREM TypeCorrect == Spec => []TypeOK
<1>1. Inv => TypeOK BY DEF Inv
<1> QED BY <1>1, InvAlways, PTL

\* No publisher, producer or resend ever uses a pool that does not exist.
THEOREM PoolExistsBeforeUse == Spec => []PoolBeforeUse
<1>1. Inv => PoolBeforeUse BY DEF Inv
<1> QED BY <1>1, InvAlways, PTL

----------------------------------------------------------------------------
(* What the resender reports as sent, the broker has accepted.              *)

\* Only the goroutine of the resend loop and those that publish touch the
\* store, the record resent and the resender's label.
LEMMA OthersLeaveStore ==
    ASSUME Inv,
           \/ Starting
           \/ \E t \in Callers \cup {Starter} : DialFails(t)
           \/ MonitorTick \/ MonitorExit
           \/ \E t \in Callers : Reconnect(t)
           \/ \E t \in Closers : Close(t)
           \/ Fault
           \/ UNCHANGED vars
    PROVE  UNCHANGED storeVars /\ (pc'[Resender] = pc[Resender] \/ pc'[Resender] = "idle")
<1> USE UsersAssumption, ThreadsAssumption
<1>1. /\ pc \in [Threads -> Labels] /\ Resender \in Threads
      /\ Resender \notin Callers \cup Closers \cup {Starter}
  BY DEF Inv, TypeOK, Threads
<1>2. CASE Starting \/ MonitorTick \/ MonitorExit
  BY <1>1, <1>2 DEF Starting, StartCalled, Connect, ConnectFails, Launch, MonitorTick, MonitorExit,
     Goto, Callers
<1>3. ASSUME NEW t \in Callers \cup {Starter}, DialFails(t) \/ (t \in Callers /\ Reconnect(t))
      PROVE  UNCHANGED storeVars /\ pc'[Resender] = pc[Resender]
  BY <1>1, <1>3 DEF DialFails, Reconnect, ReconnectCalled, ReconnectNeedless, ReconnectClosePool,
     ReconnectCloseConn, Goto
<1>4. ASSUME NEW t \in Closers, Close(t)
      PROVE  UNCHANGED storeVars /\ pc'[Resender] = pc[Resender]
  BY <1>1, <1>4 DEF Close, CloseBegin, CloseConn, CloseEnd, Goto
<1>5. CASE Fault \/ UNCHANGED vars
  BY <1>5 DEF Fault, vars, storeVars
<1> QED BY <1>2, <1>3, <1>4, <1>5

\* What the steps of Publish do to the store: at most one free id gets a
\* record.
LEMMA PublishKeepsStored ==
    ASSUME Inv, NEW u \in Users, Publish(u)
    PROVE  /\ \A i \in Stored : store'[i] = store[i]
           /\ sent \subseteq sent' /\ cur' = cur
BY DEF Publish, Snapshot, Borrow, BorrowFails, SendOk, SendFails, Save, SaveFails, Release,
   storeVars, Free, NewId, Stored, Inv, TypeOK

LEMMA SentStep == Inv /\ SentBeforeOk /\ [Next]_vars => SentBeforeOk'
<1> SUFFICES ASSUME Inv, SentBeforeOk, [Next]_vars PROVE SentBeforeOk'
  OBVIOUS
<1> USE UsersAssumption, ThreadsAssumption DEF SentBeforeOk
<1>1. pc \in [Threads -> Labels] /\ Resender \in Users /\ Users \subseteq Threads
  BY DEF Inv, TypeOK, Threads
<1>2. ASSUME NEW u \in Users, Publish(u) PROVE SentBeforeOk'
  <2>1. /\ \A i \in Stored : store'[i] = store[i]
        /\ sent \subseteq sent' /\ cur' = cur
    BY <1>2, PublishKeepsStored
  <2>2. u # Resender => pc'[Resender] = pc[Resender]
    BY <1>1, <1>2 DEF Publish, Snapshot, Borrow, BorrowFails, SendOk, SendFails, Save, SaveFails,
       Release, Goto
  <2>3. u = Resender /\ pc'[u] \in {"put_ok", "ack", "ok"} =>
          \/ pc[u] \in {"put_ok", "ack", "ok"}
          \/ store[cur].body \in sent'
    BY <1>1, <1>2 DEF Publish, Snapshot, Borrow, BorrowFails, SendOk, SendFails, Save, SaveFails,
       Release, Goto, AfterCheck, AfterSendError, AfterPut, BodyOf, Savers
  <2>4. pc'[Resender] \in {"put_ok", "ack", "ok"} => cur \in Stored
    BY <2>2, <1>2, <1>1 DEF Inv, ResendInv, Publishing, Returned, Publish, Snapshot, Borrow,
       BorrowFails, SendOk, SendFails, Save, SaveFails, Release
  <2> QED BY <2>1, <2>2, <2>3, <2>4
<1>3. CASE Resending
  BY <1>1, <1>3 DEF Resending, Tick, GiveUp, Resend, Settle, RoundEnds, ResenderExit, Goto
<1> QED BY <1>2, <1>3, OthersLeaveStore DEF Next, storeVars

----------------------------------------------------------------------------
(* Either manager implements Outbox, by the same few steps: the broker      *)
(* takes a message, a message is saved, a resend is settled or given up.    *)

\* Publish: the broker takes the message.
LEMMA SendIsTaken ==
    ASSUME StoreInv, NEW u \in Savers, pc[u] \in Publishing,
           sent' = sent \cup {BodyOf(u)}, UNCHANGED store
    PROVE  Outbox!Next
<1>1. BodyOf(u) \in Publishers
  BY DEF StoreInv, Savers, BodyOf, ResendInv, Stored, Records
<1>2. Outbox!Taken(BodyOf(u))
  BY DEF Outbox!Taken
<1> QED BY <1>1, <1>2 DEF Outbox!Next

\* Publish: the message is saved, under an id that was free.
LEMMA SaveIsKept ==
    ASSUME StoreInv, NEW u \in Users, Save(u)
    PROVE  Outbox!Next /\ store' \in [Ids -> Records \cup {NoRecord}]
<1>1. u \in Savers /\ pc[u] \in Publishing
  BY UsersAssumption DEF StoreInv, ProducersNeverSave, Save, Savers, Publishing
<1>2. BodyOf(u) \in Publishers
  BY <1>1 DEF StoreInv, Savers, BodyOf, ResendInv, Stored, Records
<1>3. PICK i \in Ids : store[i] = NoRecord /\ store' = [store EXCEPT ![i] = NewRecord(BodyOf(u))]
  BY DEF Save, NewId, Free, Stored
<1>4. Outbox!Keep(i, BodyOf(u))
  BY <1>3 DEF Save, NewRecord, Outbox!Keep, Outbox!Saved, Outbox!Entry
<1>5. NewRecord(BodyOf(u)) \in Records
  BY <1>2, StoreAssumption DEF NewRecord, Records
<1>6. store' \in [Ids -> Records \cup {NoRecord}]
  BY <1>3, <1>5 DEF StoreInv
<1> QED BY <1>2, <1>3, <1>4, <1>6 DEF Outbox!Next

\* The resend loop gives up exhausted records only, removes those it has
\* delivered and counts every other resend once.
LEMMA LoopIsOutbox ==
    ASSUME StoreInv, SentBeforeOk, Resending
    PROVE  [Outbox!Next]_<<store, sent>>
<1> USE StoreAssumption
<1>1. UNCHANGED sent
  BY DEF Resending, Tick, GiveUp, Resend, Settle, RoundEnds, ResenderExit, storeVars
<1>2. \A i \in Stored : i \in Outbox!Saved /\ store[i] \in Records /\ i \in Ids
  BY DEF StoreInv, Stored, Outbox!Saved
<1>3. CASE GiveUp /\ store' # store
  <2>1. PICK i \in work : Exhausted(i) /\ store' = [store EXCEPT ![i] = NoRecord]
    BY <1>3 DEF GiveUp, Write
  <2>2. i \in Outbox!Saved /\ store[i].retry = MaxRetries
    BY <1>2, <2>1 DEF StoreInv, ResendInv, Exhausted, Records
  <2>3. Outbox!Drop(i)
    BY <1>1, <2>1, <2>2 DEF Outbox!Drop
  <2> QED BY <2>2, <2>3 DEF Outbox!Next
<1>4. CASE Settle /\ store' # store
  <2>1. cur \in Stored /\ store[cur].retry < MaxRetries
        /\ store' = [store EXCEPT ![cur] = Settled(pc[Resender])]
    BY <1>4 DEF Settle, Write, StoreInv, ResendInv
  <2>2. CASE pc[Resender] = "ok"
    <3>1. store[cur].body \in sent /\ store' = [store EXCEPT ![cur] = NoRecord]
      BY <2>1, <2>2 DEF SentBeforeOk, Settled
    <3>2. Outbox!Drop(cur)
      BY <1>1, <3>1 DEF Outbox!Drop
    <3> QED BY <1>2, <2>1, <3>2 DEF Outbox!Next
  <2>3. CASE pc[Resender] # "ok"
    <3>1. [store[cur] EXCEPT !.retry = @ + 1] = Outbox!Entry(store[cur].body, store[cur].retry + 1)
      BY <1>2, <2>1 DEF Records, Outbox!Entry
    <3>2. store' = [store EXCEPT ![cur] = Outbox!Entry(store[cur].body, store[cur].retry + 1)]
      BY <2>1, <2>3, <3>1 DEF Settled
    <3>3. Outbox!CountFailure(cur)
      BY <1>1, <2>1, <3>2 DEF Outbox!CountFailure
    <3> QED BY <1>2, <2>1, <3>3 DEF Outbox!Next
  <2> QED BY <2>2, <2>3
<1>5. CASE Tick \/ Resend \/ RoundEnds \/ ResenderExit
  BY <1>1, <1>5 DEF Tick, Resend, RoundEnds, ResenderExit, storeVars
<1> QED BY <1>1, <1>3, <1>4, <1>5 DEF Resending

LEMMA StepIsOutbox == Inv /\ SentBeforeOk /\ [Next]_vars => [Outbox!Next]_<<store, sent>>
<1> SUFFICES ASSUME Inv, SentBeforeOk, [Next]_vars PROVE [Outbox!Next]_<<store, sent>>
  OBVIOUS
<1>1. StoreInv
  BY DEF Inv, TypeOK, StoreInv
<1>2. ASSUME NEW u \in Users, SendOk(u) PROVE [Outbox!Next]_<<store, sent>>
  <2>1. CASE u \in Savers
    <3>1. pc[u] \in Publishing /\ sent' = sent \cup {BodyOf(u)} /\ UNCHANGED store
      BY <1>2, <2>1 DEF SendOk, Publishing
    <3> QED BY <1>1, <2>1, <3>1, SendIsTaken
  <2>2. CASE u \notin Savers
    BY <1>2, <2>2 DEF SendOk
  <2> QED BY <2>1, <2>2
<1>3. ASSUME NEW u \in Users, Publish(u), ~SendOk(u) PROVE [Outbox!Next]_<<store, sent>>
  <2>1. Save(u) \/ UNCHANGED <<store, sent>>
    BY <1>3 DEF Publish, Snapshot, Borrow, BorrowFails, SendFails, SaveFails, Release, storeVars
  <2> QED BY <1>1, <2>1, SaveIsKept
<1>4. CASE Resending
  BY <1>1, <1>4, LoopIsOutbox
<1> QED BY <1>2, <1>3, <1>4, OthersLeaveStore DEF Next, storeVars

\* What a step of Outbox leaves of a stored record.
LEMMA OutboxKeepsStored ==
    ASSUME StoreInv, [Outbox!Next]_<<store, sent>>
    PROVE  \A i \in Stored :
             \/ store'[i] = NoRecord /\ (Exhausted(i) \/ store[i].body \in sent)
             \/ /\ store'[i].body = store[i].body
                /\ store'[i].retry \in {store[i].retry, store[i].retry + 1}
<1> SUFFICES ASSUME NEW i \in Stored
             PROVE  \/ store'[i] = NoRecord /\ (Exhausted(i) \/ store[i].body \in sent)
                    \/ /\ store'[i].body = store[i].body
                       /\ store'[i].retry \in {store[i].retry, store[i].retry + 1}
  OBVIOUS
<1>1. store \in [Ids -> Records \cup {NoRecord}] /\ i \in Ids /\ store[i] \in Records
  BY DEF StoreInv, Stored
<1>2. ASSUME NEW m \in Publishers, Outbox!Taken(m) \/ \E j \in Ids : Outbox!Keep(j, m)
      PROVE  store'[i] = store[i]
  BY <1>1, <1>2 DEF Outbox!Taken, Outbox!Keep, Outbox!Saved, Stored
<1>3. ASSUME NEW j \in Ids, Outbox!CountFailure(j), i = j
      PROVE  store'[i].body = store[i].body /\ store'[i].retry = store[i].retry + 1
  <2>1. store'[i] = Outbox!Entry(store[i].body, store[i].retry + 1)
    BY <1>1, <1>3 DEF Outbox!CountFailure
  <2> QED BY <2>1 DEF Outbox!Entry
<1>4. ASSUME NEW j \in Ids, Outbox!Drop(j), i = j
      PROVE  store'[i] = NoRecord /\ (Exhausted(i) \/ store[i].body \in sent)
  BY <1>1, <1>4, StoreAssumption DEF Outbox!Drop, Exhausted, Records
<1>5. ASSUME NEW j \in Ids, Outbox!CountFailure(j) \/ Outbox!Drop(j), i # j
      PROVE  store'[i] = store[i]
  BY <1>1, <1>5 DEF Outbox!CountFailure, Outbox!Drop
<1>6. ASSUME NEW j \in Ids, Outbox!CountFailure(j) \/ Outbox!Drop(j)
      PROVE  \/ store'[i] = NoRecord /\ (Exhausted(i) \/ store[i].body \in sent)
             \/ store'[i].body = store[i].body /\ store'[i].retry = store[i].retry + 1
             \/ store'[i] = store[i]
  BY <1>3, <1>4, <1>5, <1>6
<1>7. \/ store'[i] = NoRecord /\ (Exhausted(i) \/ store[i].body \in sent)
      \/ store'[i].body = store[i].body /\ store'[i].retry = store[i].retry + 1
      \/ store'[i] = store[i]
  <2>1. CASE Outbox!Next
    BY <1>2, <1>6, <2>1 DEF Outbox!Next, Outbox!Saved
  <2> QED BY <2>1
<1> QED BY <1>7

----------------------------------------------------------------------------
(* KafkaManager.                                                            *)

\* A Kafka publisher holds the read lock from its check to its return, so the
\* producer it has seen open stays open (lines 366-436 of kafka.go).
ReadersInv ==
    /\ readers \subseteq Savers
    /\ \A v \in readers :
          /\ mu = NoOne
          /\ pc[v] \in {"produce", "ack", "save"}
          /\ pc[v] # "save" => isConnected

\* Only Close takes the producer away, and it says so before it unlocks.
ProducerInv ==
    /\ open = {}
    /\ conn = "up" => isConnected
    /\ isConnected /\ mu = NoOne => pool = "open"
    /\ \A t \in Closers : pc[t] \in {"close_conn", "close_end"} => pool # "open"
    /\ pc[Starter] \in {"idle", "dial"} => pool = "nil"

\* The parts of RabbitMq that KafkaManager has no use for stay as they were.
NoChannels ==
    /\ idle = <<>>
    /\ held = [u \in Users |-> NoChannel]
    /\ \A u \in Users : pc[u] \notin {"get", "send", "put_ok", "put_saved", "put_lost"}

KafkaInv ==
    /\ StoreInv
    /\ SentBeforeOk
    /\ NoChannels
    /\ ReadersInv
    /\ ProducerInv
    /\ LockInv
    /\ StartInv

MqInv ==
    \/ kind = "rabbitmq" /\ readers = {} /\ Inv /\ SentBeforeOk
    \/ kind = "kafka" /\ KafkaInv

LEMMA KafkaInitInv == KafkaInit => KafkaInv
<1> SUFFICES ASSUME KafkaInit PROVE KafkaInv
  OBVIOUS
<1>1. Inv
  BY InitInv DEF KafkaInit
<1>2. StoreInv /\ LockInv /\ StartInv
  BY <1>1 DEF Inv, TypeOK, StoreInv
<1>3. \A t \in Closers : pc[t] = "idle"
  BY ThreadsAssumption, UsersAssumption DEF KafkaInit, Init, StartPc, Threads, Callers
<1>4. \A u \in Users : pc[u] \in {"start", "off"}
  BY UsersAssumption DEF KafkaInit, Init, StartPc, Threads
<1>5. NoChannels /\ SentBeforeOk
  BY <1>4, UsersAssumption DEF NoChannels, SentBeforeOk, KafkaInit, Init, PoolInit
<1> QED BY <1>2, <1>3, <1>5 DEF KafkaInit, Init, PoolInit, KafkaInv, ReadersInv, ProducerInv

\* What one step of Publish or of the resend loop leaves to the other parts:
\* it moves one goroutine, takes or gives back its read lock, and touches
\* neither the producer nor the manager's flags.
LEMMA KafkaUserFrame ==
    ASSUME KafkaInv,
           \/ \E u \in Users : KafkaPublish(u)
           \/ Resending /\ UNCHANGED readers
    PROVE  \E u \in Users :
             /\ UNCHANGED <<poolVars, managerVars>>
             /\ \A t \in Threads \ {u} : pc'[t] = pc[t]
             /\ pc' \in [Threads -> Labels]
             /\ pc'[u] \in {"idle", "next", "exit", "start", "produce", "ack", "save"} \cup Returned
             /\ u \in readers' => /\ u \in Savers /\ mu = NoOne
                                  /\ pc'[u] \in {"produce", "ack", "save"}
                                  /\ pc'[u] # "save" => isConnected
             /\ \A v \in Users \ {u} : v \in readers' => v \in readers
             /\ readers' \subseteq readers \cup {u}
             /\ u = Resender => pc[u] # "off"
             /\ u \in Threads
<1> USE UsersAssumption, ThreadsAssumption DEF KafkaInv, StoreInv
<1>1. CASE Resending /\ UNCHANGED readers
  <2>1. Resender \notin readers
    BY <1>1 DEF ReadersInv, Resending, Tick, GiveUp, Resend, Settle, RoundEnds, ResenderExit, Returned
  <2> QED BY <1>1, <2>1 DEF Resending, Tick, GiveUp, Resend, Settle, RoundEnds, ResenderExit, Returned,
            Goto, Labels, Threads, ReadersInv
<1>2. ASSUME NEW u \in Users, KafkaPublish(u)
      PROVE  /\ UNCHANGED <<poolVars, managerVars>>
             /\ \A t \in Threads \ {u} : pc'[t] = pc[t]
             /\ pc' \in [Threads -> Labels]
             /\ pc'[u] \in {"produce", "ack", "save"} \cup Returned
             /\ u \in readers' => /\ u \in Savers /\ mu = NoOne
                                  /\ pc'[u] \in {"produce", "ack", "save"}
                                  /\ pc'[u] # "save" => isConnected
             /\ \A v \in Users \ {u} : v \in readers' => v \in readers
             /\ readers' \subseteq readers \cup {u}
             /\ pc[u] # "off"
             /\ u \in Threads
  <2>1. held[u] = NoChannel
    BY DEF NoChannels
  <2> QED BY <1>2, <2>1 DEF KafkaPublish, KafkaCheck, BrokersAccept, Acknowledged, ProduceFails, SaveAndUnlock,
     Save, SaveFails, KafkaAfterCheck, CanLock, Goto, Labels, Threads, storeVars, ReadersInv, Returned
<1> QED BY <1>1, <1>2

\* The steps that Kafka publishers and the resender take keep the locks, the
\* producer and the unused parts.
LEMMA KafkaUserStep ==
    ASSUME KafkaInv,
           \/ \E u \in Users : KafkaPublish(u)
           \/ Resending /\ UNCHANGED readers
    PROVE  NoChannels' /\ ReadersInv' /\ ProducerInv' /\ LockInv' /\ StartInv'
<1> USE UsersAssumption, ThreadsAssumption DEF KafkaInv, StoreInv
<1>1. PICK u \in Users :
        /\ UNCHANGED <<poolVars, managerVars>>
        /\ \A t \in Threads \ {u} : pc'[t] = pc[t]
        /\ pc' \in [Threads -> Labels]
        /\ pc'[u] \in {"idle", "next", "exit", "start", "produce", "ack", "save"} \cup Returned
        /\ u \in readers' => /\ u \in Savers /\ mu = NoOne
                             /\ pc'[u] \in {"produce", "ack", "save"}
                             /\ pc'[u] # "save" => isConnected
        /\ \A v \in Users \ {u} : v \in readers' => v \in readers
        /\ readers' \subseteq readers \cup {u}
        /\ u = Resender => pc[u] # "off"
        /\ u \in Threads
  BY KafkaUserFrame
<1>2. LockInv' /\ StartInv'
  BY <1>1 DEF LockInv, StartInv, poolVars, managerVars, Threads, Callers
<1>3. /\ readers' \subseteq Savers /\ Savers \subseteq Users
      /\ \A t \in Closers \cup {Starter} : t \in Threads /\ t # u
  BY <1>1 DEF Savers, Threads, ReadersInv
<1>4. \A v \in readers' :
        /\ mu' = NoOne
        /\ pc'[v] \in {"produce", "ack", "save"}
        /\ pc'[v] # "save" => isConnected'
  <2>1. ASSUME NEW v \in readers', v # u PROVE v \in readers /\ v \in Threads /\ pc'[v] = pc[v]
    BY <1>1, <1>3, <2>1 DEF Threads
  <2> QED BY <1>1, <2>1 DEF managerVars, ReadersInv
<1>5. ReadersInv'
  BY <1>3, <1>4 DEF ReadersInv
<1>6. ProducerInv'
  BY <1>1, <1>3 DEF ProducerInv, poolVars, managerVars
<1>7. NoChannels'
  <2>1. \A v \in Users : v # u => v \in Threads /\ pc'[v] = pc[v]
    BY <1>1 DEF Threads
  <2> QED BY <1>1, <2>1 DEF NoChannels, poolVars, Returned
<1> QED BY <1>2, <1>5, <1>6, <1>7

\* They also keep the store, and touch it only as Outbox says.
LEMMA KafkaUserStore ==
    ASSUME KafkaInv,
           \/ \E u \in Users : KafkaPublish(u)
           \/ Resending /\ UNCHANGED readers
    PROVE  StoreInv' /\ SentBeforeOk' /\ [Outbox!Next]_<<store, sent>>
<1> USE UsersAssumption, ThreadsAssumption DEF KafkaInv
<1>1. CASE Resending
  <2>1. StoreInv' /\ pc'[Resender] \in {"idle", "next", "start", "exit"}
    BY <1>1, ResendLoop
  <2> QED BY <1>1, <2>1, LoopIsOutbox DEF SentBeforeOk
<1>2. ASSUME NEW u \in Users, KafkaPublish(u)
      PROVE  StoreInv' /\ SentBeforeOk' /\ [Outbox!Next]_<<store, sent>>
  <2>1. /\ u \in Threads /\ Resender \in Threads /\ Producers \subseteq Threads
        /\ held[u] = NoChannel /\ pc \in [Threads -> Labels]
    BY DEF Threads, NoChannels, StoreInv
  <2>2. /\ UNCHANGED <<work, cur>>
        /\ \A t \in Threads \ {u} : pc'[t] = pc[t]
        /\ pc' \in [Threads -> Labels]
        /\ pc[u] \in Publishing /\ pc'[u] \in Publishing \cup Returned
        /\ pc'[u] = "save" => u \in Savers \/ pc[u] = "save"
    BY <1>2, <2>1 DEF KafkaPublish, KafkaCheck, BrokersAccept, Acknowledged, ProduceFails, SaveAndUnlock,
       Save, SaveFails, KafkaAfterCheck, Goto, Labels, storeVars, Publishing, Returned
  <2>3. \/ Save(u) /\ UNCHANGED sent
        \/ BrokersAccept(u) /\ u \in Savers /\ sent' = sent \cup {BodyOf(u)} /\ UNCHANGED store
        \/ UNCHANGED <<store, sent>>
    BY <1>2 DEF KafkaPublish, KafkaCheck, BrokersAccept, Acknowledged, ProduceFails, SaveAndUnlock,
       Save, SaveFails, storeVars
  <2>4. [Outbox!Next]_<<store, sent>> /\ store' \in [Ids -> Records \cup {NoRecord}]
    <3>1. StoreInv /\ store \in [Ids -> Records \cup {NoRecord}]
      BY DEF StoreInv
    <3>2. CASE Save(u)
      BY <3>1, <3>2, SaveIsKept
    <3>3. CASE BrokersAccept(u) /\ u \in Savers /\ sent' = sent \cup {BodyOf(u)} /\ UNCHANGED store
      BY <2>2, <3>1, <3>3, SendIsTaken
    <3> QED BY <2>3, <3>1, <3>2, <3>3
  <2>5. sent \subseteq sent' /\ sent' \subseteq Publishers
    <3>1. u \in Savers => BodyOf(u) \in Publishers
      BY <2>2 DEF StoreInv, Savers, BodyOf, ResendInv, Stored, Records
    <3> QED BY <2>3, <3>1 DEF StoreInv
  <2>6. \A i \in Stored : store'[i] = store[i]
    BY <2>3 DEF Save, NewId, Free, Stored, StoreInv
  <2>7. Stored \subseteq Stored'
    BY <2>6 DEF Stored
  <2>8. pc'[Resender] \in Publishing \cup Returned <=> pc[Resender] \in Publishing \cup Returned
    BY <2>1, <2>2
  <2>9. ResendInv'
    BY <2>2, <2>6, <2>7, <2>8 DEF StoreInv, ResendInv
  <2>10. ProducersNeverSave'
    BY <2>1, <2>2 DEF StoreInv, ProducersNeverSave, Savers
  <2>11. SentBeforeOk'
    <3>1. CASE u = Resender
      <4>1. cur \in Stored
        BY <2>2, <3>1 DEF StoreInv, ResendInv
      <4>2. pc'[u] \in {"put_ok", "ack", "ok"} => store[cur].body \in sent'
        BY <1>2, <2>1, <3>1 DEF KafkaPublish, KafkaCheck, BrokersAccept, Acknowledged, ProduceFails,
           SaveAndUnlock, Save, SaveFails, KafkaAfterCheck, Goto, SentBeforeOk, BodyOf, Savers, storeVars
      <4> QED BY <2>2, <2>6, <3>1, <4>1, <4>2 DEF SentBeforeOk
    <3>2. CASE u # Resender
      <4>1. pc'[Resender] = pc[Resender]
        BY <2>1, <2>2, <3>2
      <4>2. pc[Resender] \in {"put_ok", "ack", "ok"} => cur \in Stored
        BY DEF StoreInv, ResendInv, Publishing, Returned
      <4> QED BY <2>2, <2>5, <2>6, <4>1, <4>2 DEF SentBeforeOk
    <3> QED BY <3>1, <3>2
  <2> QED BY <2>2, <2>4, <2>5, <2>9, <2>10, <2>11 DEF StoreInv
<1> QED BY <1>1, <1>2

\* What every other step leaves to the store and to those who publish.
LEMMA KafkaOthersFrame ==
    ASSUME KafkaInv,
           \/ KafkaStarting
           \/ \E t \in Callers \cup {Starter} : ClientRefused(t)
           \/ MonitorTick \/ MonitorExit
           \/ \E t \in Callers : KafkaReconnect(t)
           \/ \E t \in Closers : KafkaClose(t)
           \/ BrokersLost \/ BrokersBack
    PROVE  StoreInv' /\ SentBeforeOk' /\ NoChannels' /\ UNCHANGED <<store, sent>>
<1> USE UsersAssumption, ThreadsAssumption DEF KafkaInv
<1> DEFINE Frame == /\ UNCHANGED <<storeVars, held>>
                    /\ idle' = <<>>
                    /\ pc' \in [Threads -> Labels]
                    /\ \A u \in Users :
                          \/ pc'[u] = pc[u]
                          \/ u = Resender /\ pc[u] = "off" /\ pc'[u] = "idle"
<1>1. \A u \in Users : u \in Threads /\ u \notin Callers \cup Closers \cup {Starter}
  BY DEF Threads
<1>2. pc \in [Threads -> Labels] /\ idle = <<>> /\ Callers \cup Closers \cup {Starter} \subseteq Threads
  BY DEF StoreInv, NoChannels, Threads
<1>3. Frame
  <2>1. CASE Launch
    <3>1. pc[Resender] = "off" /\ Monitor \in Callers
      BY <2>1 DEF Launch, StartInv, Callers
    <3> QED BY <1>1, <1>2, <2>1, <3>1 DEF Launch, poolVars, Labels
  <2>2. CASE StartCalled \/ KafkaConnect \/ ProducerRefused \/ ClientRefused(Starter)
    BY <1>1, <1>2, <2>2 DEF StartCalled, KafkaConnect, ProducerRefused, ClientRefused, DialFails,
       AfterFailure, Goto, poolVars, Labels
  <2>3. ASSUME NEW t \in Callers,
               ClientRefused(t) \/ KafkaReconnect(t) \/ (t = Monitor /\ (MonitorTick \/ MonitorExit))
        PROVE  Frame
    BY <1>1, <1>2, <2>3 DEF ClientRefused, DialFails, MonitorTick, MonitorExit, KafkaReconnect,
       ReconnectCalled, ReconnectNeedless, ReconnectClosePool, ReconnectCloseConn, ClosePoolIfAny,
       CloseConnIfAny, ClosePool, ConnDown, AfterFailure, Goto, Labels, poolVars
  <2>4. ASSUME NEW t \in Closers, KafkaClose(t) PROVE Frame
    BY <1>1, <1>2, <2>4 DEF KafkaClose, CloseBegin, CloseConn, CloseEnd, ClosePoolIfAny, CloseConnIfAny,
       ClosePool, ConnDown, Goto, Labels, poolVars
  <2>5. CASE BrokersLost \/ BrokersBack
    BY <1>2, <2>5 DEF BrokersLost, BrokersBack, ConnDown
  <2> HIDE DEF Frame
  <2> QED BY <2>1, <2>2, <2>3, <2>4, <2>5 DEF KafkaStarting, Callers
<1>4. UNCHANGED <<store, work, cur, sent>>
  BY <1>3 DEF storeVars
<1>5. StoreInv'
  BY <1>3, <1>4 DEF StoreInv, ProducersNeverSave, ResendInv, Stored, Publishing, Returned
<1>6. SentBeforeOk'
  BY <1>3, <1>4 DEF SentBeforeOk
<1>7. NoChannels'
  BY <1>3 DEF NoChannels
<1> QED BY <1>4, <1>5, <1>6, <1>7

\* The steps of Start, Close, Reconnect, the monitor and the brokers: those
\* that close the producer or change isConnected find no reader.
LEMMA KafkaManagerStep ==
    ASSUME KafkaInv,
           UNCHANGED readers,
           \/ KafkaStarting
           \/ \E t \in Callers \cup {Starter} : ClientRefused(t)
           \/ MonitorTick \/ MonitorExit
           \/ \E t \in Callers : KafkaReconnect(t)
           \/ \E t \in Closers : KafkaClose(t)
           \/ BrokersLost \/ BrokersBack
    PROVE  ReadersInv' /\ ProducerInv' /\ LockInv' /\ StartInv'
<1> USE UsersAssumption, ThreadsAssumption DEF KafkaInv, StoreInv, ReadersInv, ProducerInv
<1> DEFINE Kept == ReadersInv' /\ ProducerInv' /\ LockInv' /\ StartInv'
<1>1. \A s \in Users : s \in Threads /\ s \notin Callers \cup Closers \cup {Starter}
  BY DEF Threads
<1>2. Callers \cup Closers \cup {Starter} \subseteq Threads /\ readers \subseteq Users
  BY DEF Threads, Savers
<1>3. CASE BrokersLost \/ BrokersBack
  BY <1>3 DEF BrokersLost, BrokersBack, ConnDown, managerVars, LockInv, StartInv
<1>4. CASE Launch
  BY <1>1, <1>2, <1>4 DEF Launch, poolVars, managerVars, LockInv, StartInv, Labels, Callers, Savers
<1>5. CASE StartCalled \/ KafkaConnect \/ ProducerRefused \/ ClientRefused(Starter)
  BY <1>1, <1>2, <1>5 DEF StartCalled, KafkaConnect, ProducerRefused, ClientRefused, DialFails,
     AfterFailure, CanLock, NoReaders, Goto, poolVars, managerVars, LockInv, StartInv, Labels, Callers
<1>6. ASSUME NEW t \in Callers,
             ClientRefused(t) \/ KafkaReconnect(t) \/ (t = Monitor /\ (MonitorTick \/ MonitorExit))
      PROVE  Kept
  <2>1. /\ UNCHANGED <<isConnected, open>>
        /\ pc' \in [Threads -> Labels]
        /\ \A s \in Threads \ {t} : pc'[s] = pc[s]
        /\ pc[t] # "off" /\ pc'[t] # "off" /\ pc'[t] # "close_end"
        /\ mu' \in {mu, t} /\ (mu' # mu => mu = NoOne /\ readers = {})
        /\ pc'[t] \in {"close_conn", "dial"} => mu' = t
        /\ pool' # pool => mu' = t /\ pool = "open" /\ pool' = "closed"
        /\ conn' = "up" => conn = "up"
    BY <1>2, <1>6 DEF ClientRefused, DialFails, MonitorTick, MonitorExit, KafkaReconnect, ReconnectCalled,
       ReconnectNeedless, ReconnectClosePool, ReconnectCloseConn, ClosePoolIfAny, CloseConnIfAny,
       ClosePool, ConnDown, AfterFailure, CanLock, NoReaders, Goto, Labels, poolVars, managerVars,
       LockInv, Callers
  <2> QED BY <1>1, <1>2, <2>1 DEF LockInv, StartInv, Callers
<1>7. ASSUME NEW t \in Closers, KafkaClose(t) PROVE Kept
  <2>1. /\ open' = {}
        /\ pc' \in [Threads -> Labels]
        /\ \A s \in Threads \ {t} : pc'[s] = pc[s]
        /\ conn' = "up" => conn = "up"
        /\ readers = {}
        /\ pool' # "open" /\ (pool' # pool => pool = "open")
    BY <1>2, <1>7 DEF KafkaClose, CloseBegin, CloseConn, CloseEnd, ClosePoolIfAny, CloseConnIfAny,
       ClosePool, ConnDown, NoReaders, Goto, Labels, poolVars, managerVars, LockInv
  <2>2. \/ mu = NoOne /\ mu' = t /\ pc'[t] = "close_conn" /\ isConnected' = isConnected
        \/ mu = t /\ mu' = t /\ pc'[t] = "close_end" /\ conn' # "up" /\ isConnected' = isConnected
        \/ mu = t /\ mu' = NoOne /\ pc'[t] = "done" /\ conn' # "up" /\ isConnected' = FALSE
    BY <1>2, <1>7 DEF KafkaClose, CloseBegin, CloseConn, CloseEnd, CloseConnIfAny, ConnDown, CanLock,
       Goto, poolVars, managerVars, LockInv
  <2> QED BY <1>1, <1>2, <2>1, <2>2 DEF LockInv, StartInv, Callers
<1> QED BY <1>3, <1>4, <1>5, <1>6, <1>7 DEF KafkaStarting, Callers

LEMMA KafkaStepInv == KafkaInv /\ [KafkaNext]_kafkaVars => KafkaInv' /\ [Outbox!Next]_<<store, sent>>
<1> SUFFICES ASSUME KafkaInv, [KafkaNext]_kafkaVars PROVE KafkaInv' /\ [Outbox!Next]_<<store, sent>>
  OBVIOUS
<1>1. CASE UNCHANGED kafkaVars
  BY <1>1 DEF kafkaVars, vars, KafkaInv, StoreInv, SentBeforeOk, NoChannels, ReadersInv, ProducerInv,
     LockInv, StartInv, ProducersNeverSave, ResendInv, Stored
<1>2. CASE (\E u \in Users : KafkaPublish(u)) \/ (Resending /\ UNCHANGED readers)
  BY <1>2, KafkaUserStep, KafkaUserStore DEF KafkaInv
<1>3. CASE /\ UNCHANGED readers
           /\ \/ KafkaStarting
              \/ \E t \in Callers \cup {Starter} : ClientRefused(t)
              \/ MonitorTick \/ MonitorExit
              \/ \E t \in Callers : KafkaReconnect(t)
              \/ \E t \in Closers : KafkaClose(t)
              \/ BrokersLost \/ BrokersBack
  BY <1>3, KafkaOthersFrame, KafkaManagerStep DEF KafkaInv
<1> QED BY <1>1, <1>2, <1>3 DEF KafkaNext

----------------------------------------------------------------------------
(* The choice between the two, and what holds of either.                    *)

LEMMA MqInitInv == MqInit => MqInv
<1> SUFFICES ASSUME MqInit PROVE MqInv
  OBVIOUS
<1>1. Inv /\ SentBeforeOk
  BY InitInv, UsersAssumption, ThreadsAssumption
     DEF MqInit, KafkaInit, Init, SentBeforeOk, StartPc, Threads
<1> QED BY <1>1, KafkaInitInv, KindsAssumption DEF MqInit, KafkaInit, MqInv

LEMMA MqStepInv == MqInv /\ [MqNext]_mqVars => MqInv'
<1> SUFFICES ASSUME MqInv, [MqNext]_mqVars PROVE MqInv'
  OBVIOUS
<1>1. CASE kind = "rabbitmq"
  <2>1. [Next]_vars /\ UNCHANGED <<readers, kind>>
    BY <1>1 DEF MqNext, mqVars, kafkaVars, Rabbit, Kafka
  <2> QED BY <1>1, <2>1, StepInv, SentStep DEF MqInv
<1>2. CASE kind = "kafka"
  <2>1. [KafkaNext]_kafkaVars /\ UNCHANGED kind
    BY <1>2 DEF MqNext, mqVars, Rabbit, Kafka
  <2> QED BY <1>2, <2>1, KafkaStepInv DEF MqInv
<1> QED BY <1>1, <1>2 DEF MqInv

LEMMA MqInvAlways == MqSpec => []MqInv
BY MqInitInv, MqStepInv, PTL DEF MqSpec

\* Nothing is lent or open in a KafkaManager.
LEMMA KafkaPoolEmpty == KafkaInv => Held = {} /\ IdleSet = {} /\ open = {}
BY DEF KafkaInv, NoChannels, ProducerInv, Held, IdleSet

\* Every step of either manager is a step of Outbox or leaves it alone.
LEMMA MqStepIsOutbox == MqInv /\ [MqNext]_mqVars => [Outbox!Next]_<<store, sent>>
<1> SUFFICES ASSUME MqInv, [MqNext]_mqVars PROVE [Outbox!Next]_<<store, sent>>
  OBVIOUS
<1>1. CASE kind = "rabbitmq"
  <2>1. [Next]_vars
    BY <1>1 DEF MqNext, mqVars, kafkaVars, Rabbit, Kafka
  <2> QED BY <1>1, <2>1, StepIsOutbox DEF MqInv
<1>2. CASE kind = "kafka"
  <2>1. [KafkaNext]_kafkaVars
    BY <1>2 DEF MqNext, mqVars, Rabbit, Kafka
  <2> QED BY <1>2, <2>1, KafkaStepInv DEF MqInv
<1> QED BY <1>1, <1>2 DEF MqInv

\* Either manager implements Outbox, for any number of goroutines, records
\* and retries: the messages that failed are kept, counted and dropped as the
\* abstract manager does it.
THEOREM EitherImplementsOutbox == MqSpec => ImplementsOutbox
<1>1. MqInit => Outbox!Init
  BY DEF MqInit, KafkaInit, Init, Outbox!Init
<1> QED BY <1>1, MqStepIsOutbox, MqInvAlways, PTL DEF MqSpec, ImplementsOutbox, Outbox!Spec

\* So a saved message stays saved until it is delivered or given up, whatever
\* the other goroutines, the application and the broker do.
THEOREM SavedMessagesStay == MqSpec => StoredUntilDone
<1>1. MqInv => StoreInv
  BY DEF MqInv, Inv, TypeOK, KafkaInv, StoreInv
<1>2. MqInv /\ [MqNext]_mqVars =>
        \A i \in Stored :
          \/ store'[i] = NoRecord /\ (Exhausted(i) \/ store[i].body \in sent)
          \/ /\ store'[i].body = store[i].body
             /\ store'[i].retry \in {store[i].retry, store[i].retry + 1}
  BY <1>1, MqStepIsOutbox, OutboxKeepsStored
<1> QED BY <1>2, MqInvAlways, PTL DEF MqSpec, StoredUntilDone

\* A resend round handles stored records only, each with retries left.
THEOREM RoundsWorkOnStored == MqSpec => []RoundIsStored
<1>1. MqInv => ResendInv
  BY DEF MqInv, Inv, KafkaInv, StoreInv
<1>2. ResendInv => RoundIsStored
  BY StoreAssumption DEF ResendInv, RoundIsStored
<1> QED BY <1>1, <1>2, MqInvAlways, PTL

\* Every path of Publish puts the channel back that it has borrowed, and no
\* path sends without one.
THEOREM ChannelsGoBack == MqSpec => []HoldsOnlyWhileSending
<1>1. MqInv => HoldsOnlyWhileSending
  BY DEF MqInv, Inv, KafkaInv, NoChannels, HoldsOnlyWhileSending
<1> QED BY <1>1, MqInvAlways, PTL

\* No channel is shared between publishers, producers and the resender.
THEOREM ManagerExclusive == MqSpec => []Exclusive
<1>1. KafkaInv => Exclusive
  BY KafkaPoolEmpty DEF KafkaInv, NoChannels, Exclusive, Held
<1>2. MqInv => Exclusive
  BY <1>1 DEF MqInv, Inv, PoolInv
<1> QED BY <1>2, MqInvAlways, PTL

\* No channel is left open with nobody to close it.
THEOREM ManagerNoOrphan == MqSpec => []NoOrphan
<1>1. KafkaInv => NoOrphan
  BY KafkaPoolEmpty DEF NoOrphan
<1>2. MqInv => NoOrphan
  BY <1>1 DEF MqInv, Inv, PoolInv
<1> QED BY <1>2, MqInvAlways, PTL

\* A pool or a producer that Close or Reconnect has closed stays closed: no
\* later step of any goroutine opens it, or a channel of it, again.
THEOREM ManagerClosedIsFinal == MqSpec => ClosedIsFinal
<1>1. MqInv /\ [MqNext]_mqVars =>
        (pool = "closed" =>
            /\ pool' = "closed"
            /\ open' \subseteq open
            /\ \A u \in Users : held'[u] \in {held[u], NoChannel})
  <2> SUFFICES ASSUME MqInv, [MqNext]_mqVars, pool = "closed"
               PROVE  /\ pool' = "closed"
                      /\ open' \subseteq open
                      /\ \A u \in Users : held'[u] \in {held[u], NoChannel}
    OBVIOUS
  <2>1. CASE kind = "rabbitmq"
    <3>1. [Next]_vars /\ PoolTypeOK
      BY <2>1 DEF MqNext, mqVars, kafkaVars, Rabbit, Kafka, MqInv, Inv, TypeOK
    <3>2. [PoolNext]_poolVars
      BY <3>1, StepUsesPool
    <3> QED BY <3>1, <3>2, ClosedStep
  <2>2. CASE kind = "kafka"
    <3>1. KafkaInv /\ KafkaInv' /\ [KafkaNext]_kafkaVars
      <4>1. KafkaInv /\ [KafkaNext]_kafkaVars
        BY <2>2 DEF MqNext, mqVars, Rabbit, Kafka, MqInv
      <4> QED BY <4>1, KafkaStepInv
    <3>2. open' = {} /\ held' = held
      BY <3>1 DEF KafkaInv, NoChannels, ProducerInv
    <3>3. pc[Starter] # "dial"
      BY <3>1 DEF KafkaInv, ProducerInv
    <3>4. pool' = "closed"
      BY <3>1, <3>3 DEF KafkaNext, kafkaVars, vars, KafkaPublish, KafkaCheck, BrokersAccept, Acknowledged,
         ProduceFails, SaveAndUnlock, Save, SaveFails, Resending, Tick, GiveUp, Resend, Settle, RoundEnds,
         ResenderExit, KafkaStarting, StartCalled, Launch, KafkaConnect, ProducerRefused, ClientRefused,
         DialFails, MonitorTick, MonitorExit, KafkaReconnect, ReconnectCalled, ReconnectNeedless,
         ReconnectClosePool, ReconnectCloseConn, KafkaClose, CloseBegin, CloseConn, CloseEnd,
         ClosePoolIfAny, CloseConnIfAny, ClosePool, ConnDown, BrokersLost, BrokersBack, poolVars
    <3> QED BY <3>2, <3>4
  <2> QED BY <2>1, <2>2 DEF MqInv
<1>2. ClosedIsFinal <=> [][pool = "closed" =>
            /\ pool' = "closed"
            /\ open' \subseteq open
            /\ \A u \in Users : held'[u] \in {held[u], NoChannel}]_poolVars
  BY DEF ClosedIsFinal
<1> QED BY <1>1, <1>2, MqInvAlways, PTL DEF MqSpec

\* Neither Close nor Reconnect takes the producer from a message that Publish
\* is sending, for any number of publishers and callers.
THEOREM ProducerKeptForReaders == MqSpec => []ReadersKeepProducer
<1>1. MqInv => ReadersKeepProducer
  BY DEF MqInv, KafkaInv, ReadersInv, ProducerInv, ReadersKeepProducer
<1> QED BY <1>1, MqInvAlways, PTL

\* No connection or channel is left open behind a manager that reports itself
\* disconnected, whichever the configuration names.
THEOREM NoHiddenConnection == MqSpec => []DisconnectedMeansDown
<1>1. MqInv => DisconnectedMeansDown
  BY DEF MqInv, KafkaInv, ProducerInv, Inv, ConnInv, DisconnectedMeansDown
<1> QED BY <1>1, MqInvAlways, PTL

\* An application configured for RabbitMQ runs RabbitMq, one configured for
\* Kafka runs KafkaManager, and neither ever changes to the other: what is
\* proved of each holds in the application.
THEOREM ManagerIsOneOfTwo ==
    MqSpec => (kind = "rabbitmq" => Spec) /\ (kind = "kafka" => KafkaSpec)
<1>1. kind = "rabbitmq" /\ [MqNext]_mqVars => [Next]_vars /\ (kind = "rabbitmq")'
  BY DEF MqNext, mqVars, kafkaVars, Rabbit, Kafka
<1>2. kind = "kafka" /\ [MqNext]_mqVars => [KafkaNext]_kafkaVars /\ (kind = "kafka")'
  BY DEF MqNext, mqVars, Rabbit, Kafka
<1>3. MqInit => Init /\ KafkaInit
  BY DEF MqInit, KafkaInit
<1> QED BY <1>1, <1>2, <1>3, PTL DEF MqSpec, Spec, KafkaSpec
============================================================================
