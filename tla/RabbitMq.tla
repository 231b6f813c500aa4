------------------------------ MODULE RabbitMq ------------------------------
(* RabbitMqManager of components/mqs/rabbitmq.go: goroutines that publish   *)
(* over the channel pool, the loop that resends saved messages, the         *)
(* reconnect monitor, and the application's Start, Close and Reconnect.     *)
(*                                                                          *)
(* r.mu is a sync.RWMutex.  Its read sections are one step each (taken when *)
(* mu is free); a write section that other goroutines can observe half done *)
(* is several steps with mu held.  A message is identified with the         *)
(* publisher that sends it; topic, headers and time stamps are left out.    *)
EXTENDS ChannelPool

CONSTANTS
    Publishers,     \* goroutines that call RabbitMqManager.Publish, once each
    Producers,      \* goroutines that call RabbitMQProducer.Publish, once each
    Resender,       \* the goroutine of resendFailedMessages
    Monitor,        \* the goroutine of startReconnectMonitor
    Starter,        \* the goroutine that calls Start
    Closers,        \* goroutines that call Close, once each
    Reconnecters,   \* goroutines that call Reconnect, once each
    NoOne,          \* nobody holds r.mu
    Ids,            \* record ids (uuid.New), a bound on the records stored
    NoId,
    MaxRetries,     \* options.MaxRetries
    StoreMayFail    \* TRUE for the file store, whose writes may fail

Savers == Publishers \cup {Resender}
Callers == {Monitor} \cup Reconnecters
Threads == Users \cup Callers \cup {Starter} \cup Closers

ASSUME UsersAssumption == Users = Publishers \cup Producers \cup {Resender}
ASSUME ThreadsAssumption ==
    /\ Resender \notin Publishers \cup Producers
    /\ Publishers \cap Producers = {}
    /\ Starter \notin Users \cup Callers \cup Closers
    /\ Users \cap (Callers \cup Closers) = {}
    /\ Callers \cap Closers = {}
    /\ Monitor \notin Reconnecters
    /\ NoOne \notin Threads
ASSUME StoreAssumption ==
    /\ NoId \notin Ids
    /\ MaxRetries \in Nat \ {0}
    /\ StoreMayFail \in BOOLEAN

NoRecord == [body |-> NoOne, retry |-> 0]
Records == [body : Publishers, retry : 0..MaxRetries]

VARIABLES
    isConnected,    \* r.isConnected
    mu,             \* the goroutine that holds r.mu for writing, or NoOne
    cancelled,      \* r.ctx is done
    pc,             \* where each goroutine is
    store,          \* the failed-message store: id -> record or NoRecord
    work,           \* the ids of the round's Retrieve still to be handled
    cur,            \* the record being resent, or NoId
    sent,           \* history: the messages a live channel has accepted
    tries           \* history: resend attempts per message, capped

vars == <<conn, pool, idle, open, held, isConnected, mu, cancelled, pc,
          store, work, cur, sent, tries>>
managerVars == <<isConnected, mu, cancelled>>
storeVars == <<store, work, cur, sent, tries>>

Stored == {i \in Ids : store[i] # NoRecord}
Free == Ids \ Stored
NewId == CHOOSE i \in Free : TRUE   \* uuid.New: unused, and any will do

\* The message that u is publishing.
BodyOf(u) == IF u = Resender THEN store[cur].body ELSE u

\* Where Publish returns to: publishers stop there, and the resender goes on
\* with the outcome of the record.
Returned == {"ok", "saved", "lost"}

StartPc(t) == IF t \in Publishers \cup Producers THEN "start"
              ELSE IF t \in {Resender, Monitor} THEN "off" ELSE "idle"

Init ==
    /\ PoolInit
    /\ isConnected = FALSE
    /\ mu = NoOne
    /\ cancelled = FALSE
    /\ pc = [t \in Threads |-> StartPc(t)]
    /\ store = [i \in Ids |-> NoRecord]
    /\ work = {}
    /\ cur = NoId
    /\ sent = {}
    /\ tries = [b \in Publishers |-> 0]

Goto(t, l) == pc' = [pc EXCEPT ![t] = l]

\* A sync.RWMutex is not reentrant: it is acquired only when nobody holds it,
\* the caller included.
CanLock(t) == mu = NoOne

----------------------------------------------------------------------------
(* Bounds of the model.  A failing resend adds a record, so the store grows *)
(* without limit while the connection stays down: a round starts, and a     *)
(* fault happens or Close is called, only while the ids left suffice for    *)
(* one copy of each record and one record of each publisher still running.  *)

Running == {p \in Publishers : pc[p] \notin Returned}
Room == Cardinality(Free) >= Cardinality(Stored) + Cardinality(Running)

\* The manager believes in its connection and every channel works.
Healthy ==
    /\ isConnected /\ ~cancelled
    /\ conn = "up" /\ pool = "open"
    /\ IdleSet \cup Held \subseteq open

----------------------------------------------------------------------------
(* Faulty variants, as in ChannelPool: nothing refers to them.              *)

SlipAfterSendError(u) == "lost"              \* no deferred Put on an error
SlipExhausted(i) == store[i].retry > MaxRetries
SlipSettled(l) == NoRecord                   \* removed whatever came of it
SlipSettledKept(l) == store[cur]             \* neither removed nor counted
SlipClosePoolIfAny ==                        \* the pool is dropped, not closed
    /\ pool' = (IF pool = "open" THEN "closed" ELSE pool)
    /\ idle' = <<>>
    /\ UNCHANGED <<conn, open, held>>
SlipCloseConnIfAny == UNCHANGED poolVars     \* the connection is not closed

----------------------------------------------------------------------------
(* Publish, of the manager and of RabbitMQProducer, up to the channel.      *)

\* Disconnected: the manager saves the message, a producer does not.
AfterCheck(u) == IF isConnected THEN "get"
                 ELSE IF u \in Savers THEN "save" ELSE "lost"

\* r.isConnected and the pool pointer are read under r.mu.RLock and used
\* after it is released.
Snapshot(u) ==
    /\ pc[u] = "start"
    /\ CanLock(u)
    /\ Goto(u, AfterCheck(u))
    /\ UNCHANGED <<poolVars, managerVars, storeVars>>

Borrow(u) ==
    /\ pc[u] = "get"
    /\ Get(u)
    /\ Goto(u, "send")
    /\ UNCHANGED <<managerVars, storeVars>>

\* No channel: Publish returns the error and saves nothing.
BorrowFails(u) ==
    /\ pc[u] = "get"
    /\ GetFails
    /\ Goto(u, "lost")
    /\ UNCHANGED <<poolVars, managerVars, storeVars>>

\* ch.Publish on a working channel hands the message over.
SendOk(u) ==
    /\ pc[u] = "send"
    /\ held[u] \in open
    /\ sent' = sent \cup (IF u \in Savers THEN {BodyOf(u)} ELSE {})
    /\ Goto(u, "put_ok")
    /\ UNCHANGED <<poolVars, managerVars, store, work, cur, tries>>

\* ch.Publish on a dead channel fails; only the manager saves the message.
AfterSendError(u) == IF u \in Savers THEN "save" ELSE "put_lost"

SendFails(u) ==
    /\ pc[u] = "send"
    /\ held[u] \notin open
    /\ Goto(u, AfterSendError(u))
    /\ UNCHANGED <<poolVars, managerVars, storeVars>>

\* Saving makes a new record, with a new id and no retries yet.
NewRecord(b) == [body |-> b, retry |-> 0]

Save(u) ==
    /\ pc[u] = "save"
    /\ Free # {}
    /\ store' = [store EXCEPT ![NewId] = NewRecord(BodyOf(u))]
    /\ Goto(u, IF held[u] = NoChannel THEN "saved" ELSE "put_saved")
    /\ UNCHANGED <<poolVars, managerVars, work, cur, sent, tries>>

\* An error of the store is only logged.
SaveFails(u) ==
    /\ StoreMayFail
    /\ pc[u] = "save"
    /\ Goto(u, IF held[u] = NoChannel THEN "lost" ELSE "put_lost")
    /\ UNCHANGED <<poolVars, managerVars, storeVars>>

\* The deferred Put.
AfterPut(l) == IF l = "put_ok" THEN "ok" ELSE IF l = "put_saved" THEN "saved" ELSE "lost"

Release(u) ==
    /\ pc[u] \in {"put_ok", "put_saved", "put_lost"}
    /\ Put(u)
    /\ Goto(u, AfterPut(pc[u]))
    /\ UNCHANGED <<managerVars, storeVars>>

Publish(u) ==
    \/ Snapshot(u) \/ Borrow(u) \/ BorrowFails(u)
    \/ SendOk(u) \/ SendFails(u) \/ Save(u) \/ SaveFails(u) \/ Release(u)

----------------------------------------------------------------------------
(* resendFailedMessages.  r.isConnected is read without the lock; the       *)
(* records are handled in any order (the store is a Go map).                *)

Tick ==
    /\ pc[Resender] = "idle"
    /\ isConnected
    /\ Stored # {}
    /\ Healthy \/ Room
    /\ work' = Stored
    /\ Goto(Resender, "next")
    /\ UNCHANGED <<poolVars, managerVars, store, cur, sent, tries>>

\* A write of the store takes effect, or fails if the store may fail.
Write(new) == store' = new \/ (StoreMayFail /\ store' = store)

\* options.MaxRetries resends have failed: the record is given up.
Exhausted(i) == store[i].retry >= MaxRetries

GiveUp ==
    /\ pc[Resender] = "next"
    /\ \E i \in work :
          /\ Exhausted(i)
          /\ Write([store EXCEPT ![i] = NoRecord])
          /\ work' = work \ {i}
    /\ UNCHANGED <<poolVars, managerVars, pc, cur, sent, tries>>

Attempted(b) == [tries EXCEPT ![b] = IF @ > MaxRetries THEN @ ELSE @ + 1]

Resend ==
    /\ pc[Resender] = "next"
    /\ \E i \in work :
          /\ ~Exhausted(i)
          /\ cur' = i
          /\ tries' = Attempted(store[i].body)
    /\ Goto(Resender, "start")
    /\ UNCHANGED <<poolVars, managerVars, store, work, sent>>

\* Publish returned: the record is removed on success and kept, with one
\* retry more, on failure.
Settled(l) == IF l = "ok" THEN NoRecord
              ELSE [store[cur] EXCEPT !.retry = @ + 1]

Settle ==
    /\ pc[Resender] \in Returned
    /\ Write([store EXCEPT ![cur] = Settled(pc[Resender])])
    /\ work' = work \ {cur}
    /\ cur' = NoId
    /\ Goto(Resender, "next")
    /\ UNCHANGED <<poolVars, managerVars, sent, tries>>

RoundEnds ==
    /\ pc[Resender] = "next"
    /\ work = {}
    /\ Goto(Resender, "idle")
    /\ UNCHANGED <<poolVars, managerVars, storeVars>>

\* The select picks ctx.Done; it may also pick a tick that is pending.
ResenderExit ==
    /\ pc[Resender] = "idle"
    /\ cancelled
    /\ Goto(Resender, "exit")
    /\ UNCHANGED <<poolVars, managerVars, storeVars>>

Resending == Tick \/ GiveUp \/ Resend \/ Settle \/ RoundEnds \/ ResenderExit

----------------------------------------------------------------------------
(* Start and connect().                                                     *)

StartCalled ==
    /\ pc[Starter] = "idle"
    /\ Goto(Starter, "dial")
    /\ UNCHANGED <<poolVars, managerVars, storeVars>>

\* Where connect() returns to when it fails.
AfterFailure(t) == IF t = Starter THEN "failed"
                   ELSE IF t = Monitor THEN "wait" ELSE "done"

\* connect() begins with r.mu.Lock: the broker can be dialled only by a
\* goroutine that does not hold r.mu yet.
DialFails(t) ==
    /\ pc[t] = "dial"
    /\ CanLock(t)
    /\ Goto(t, AfterFailure(t))
    /\ UNCHANGED <<poolVars, managerVars, storeVars>>

\* Only Start ever gets further than the lock (see Reconnect below), so a
\* connection is established once.
Connect ==
    /\ pc[Starter] = "dial"
    /\ CanLock(Starter)
    /\ Establish
    /\ isConnected' = TRUE
    /\ Goto(Starter, "launch")
    /\ UNCHANGED <<mu, cancelled, storeVars>>

ConnectFails ==
    /\ pc[Starter] = "dial"
    /\ CanLock(Starter)
    /\ SetupGetFails \/ DeclareFails
    /\ Goto(Starter, "failed")
    /\ UNCHANGED <<managerVars, storeVars>>

\* Start launches the monitor and the resender once connected.
Launch ==
    /\ pc[Starter] = "launch"
    /\ pc' = [pc EXCEPT ![Starter] = "done", ![Monitor] = "wait", ![Resender] = "idle"]
    /\ UNCHANGED <<poolVars, managerVars, storeVars>>

Starting == StartCalled \/ Connect \/ ConnectFails \/ Launch

----------------------------------------------------------------------------
(* Reconnect, called by the application or by the monitor's tick.           *)

ClosePoolIfAny == ClosePool \/ (pool # "open" /\ UNCHANGED poolVars)
CloseConnIfAny == ConnDown \/ (conn # "up" /\ UNCHANGED poolVars)

\* The monitor reads r.isConnected without the lock.  A tick that was already
\* pending is still received after Close stopped the ticker.
MonitorTick ==
    /\ pc[Monitor] = "wait"
    /\ ~isConnected
    /\ Goto(Monitor, "lock")
    /\ UNCHANGED <<poolVars, managerVars, storeVars>>

MonitorExit ==
    /\ pc[Monitor] = "wait"
    /\ cancelled
    /\ Goto(Monitor, "exit")
    /\ UNCHANGED <<poolVars, managerVars, storeVars>>

ReconnectCalled(t) ==
    /\ t \in Reconnecters
    /\ pc[t] = "idle"
    /\ Goto(t, "lock")
    /\ UNCHANGED <<poolVars, managerVars, storeVars>>

\* Already connected: Reconnect returns nil.
ReconnectNeedless(t) ==
    /\ pc[t] = "lock"
    /\ CanLock(t)
    /\ isConnected
    /\ Goto(t, AfterFailure(t))
    /\ UNCHANGED <<poolVars, managerVars, storeVars>>

ReconnectClosePool(t) ==
    /\ pc[t] = "lock"
    /\ CanLock(t)
    /\ ~isConnected
    /\ mu' = t
    /\ ClosePoolIfAny
    /\ Goto(t, "close_conn")
    /\ UNCHANGED <<isConnected, cancelled, storeVars>>

\* r.mu stays held while connect() asks for it again.
ReconnectCloseConn(t) ==
    /\ pc[t] = "close_conn"
    /\ CloseConnIfAny
    /\ Goto(t, "dial")
    /\ UNCHANGED <<managerVars, storeVars>>

Reconnect(t) ==
    \/ ReconnectCalled(t) \/ ReconnectNeedless(t)
    \/ ReconnectClosePool(t) \/ ReconnectCloseConn(t)

----------------------------------------------------------------------------
(* Close: one critical section in three steps, as the monitor and the       *)
(* resender read r.isConnected without the lock.                            *)

CloseBegin(t) ==
    /\ pc[t] = "idle"
    /\ CanLock(t)
    /\ Room
    /\ mu' = t
    /\ cancelled' = TRUE
    /\ ClosePoolIfAny
    /\ Goto(t, "close_conn")
    /\ UNCHANGED <<isConnected, storeVars>>

CloseConn(t) ==
    /\ pc[t] = "close_conn"
    /\ CloseConnIfAny
    /\ Goto(t, "close_end")
    /\ UNCHANGED <<managerVars, storeVars>>

CloseEnd(t) ==
    /\ pc[t] = "close_end"
    /\ isConnected' = FALSE
    /\ mu' = NoOne
    /\ Goto(t, "done")
    /\ UNCHANGED <<poolVars, cancelled, storeVars>>

Close(t) == CloseBegin(t) \/ CloseConn(t) \/ CloseEnd(t)

----------------------------------------------------------------------------
(* The broker: the connection is lost, or one channel is.  Nothing in the   *)
(* code is notified.                                                        *)
Fault ==
    /\ Room
    /\ ConnDown \/ ChannelError
    /\ UNCHANGED <<pc, managerVars, storeVars>>

Next ==
    \/ \E u \in Users : Publish(u)
    \/ Resending
    \/ Starting
    \/ \E t \in Callers \cup {Starter} : DialFails(t)
    \/ MonitorTick \/ MonitorExit
    \/ \E t \in Callers : Reconnect(t)
    \/ \E t \in Closers : Close(t)
    \/ Fault

Spec == Init /\ [][Next]_vars

----------------------------------------------------------------------------
Labels == {"start", "get", "send", "save", "put_ok", "put_saved", "put_lost",
           "ok", "saved", "lost", "off", "idle", "next", "exit", "dial", "launch",
           "failed", "done", "wait", "lock", "close_conn", "close_end",
           "produce", "ack"}        \* the last two: KafkaManager

TypeOK ==
    /\ PoolTypeOK
    /\ isConnected \in BOOLEAN
    /\ mu \in Threads \cup {NoOne}
    /\ cancelled \in BOOLEAN
    /\ pc \in [Threads -> Labels]
    /\ store \in [Ids -> Records \cup {NoRecord}]
    /\ work \subseteq Ids
    /\ cur \in Ids \cup {NoId}
    /\ sent \subseteq Publishers
    /\ tries \in [Publishers -> 0..MaxRetries + 1]

\* Whoever has read isConnected = TRUE finds a pool to borrow from: the
\* pointer used after the read lock is released is never nil (lines 494-517,
\* 838-843).
PoolBeforeUse == \A u \in Users : pc[u] = "get" => pool # "nil"

\* A goroutine holds a channel exactly between Get and its deferred Put,
\* whatever way Publish returns in between (lines 517-553, 843-865).
HoldsOnlyWhileSending ==
    \A u \in Users :
        /\ held[u] # NoChannel => pc[u] \in {"send", "save", "put_ok", "put_saved", "put_lost"}
        /\ pc[u] \in {"send", "put_ok"} => held[u] # NoChannel

\* When the manager says it is disconnected and nobody is in the middle of
\* changing that, no connection is left open behind its back: Close and every
\* failing path of connect() close it (lines 338-359, 569-577).
DisconnectedMeansDown == ~isConnected /\ mu = NoOne => conn # "up" /\ open = {}

\* A saved message stays saved, whoever publishes, resends, closes or fails
\* meanwhile, until the broker has accepted it or MaxRetries resends have
\* failed; its body never changes, and its count only moves up by one
\* (lines 665-680).
StoredUntilDone ==
    [][\A i \in Stored :
         \/ store'[i] = NoRecord /\ (Exhausted(i) \/ store[i].body \in sent)
         \/ /\ store'[i].body = store[i].body
            /\ store'[i].retry \in {store[i].retry, store[i].retry + 1}]_vars

\* The resender never works on a record that is not stored, and no record is
\* resent beyond MaxRetries (lines 659-676).
RoundIsStored ==
    /\ work \subseteq Stored
    /\ cur # NoId => cur \in work \cap Stored /\ store[cur].retry < MaxRetries

\* A publisher that got past the connection check returns, even if Close or a
\* stuck Reconnect holds the manager's lock for ever (lines 516-553).
PublishReturns ==
    \A p \in Publishers :
        pc[p] \in {"get", "send", "produce", "ack", "save"} ~> pc[p] \in Returned

\* If the connection, the pool and every channel in it stay healthy from some
\* time on, every saved message is delivered or given up: the store empties
\* and stays empty (lines 646-684).
HealthyDrains == <>[]Healthy => <>[](Stored = {} /\ work = {})

\* The manager uses the pool only as ChannelPool describes, so what is proved
\* of the pool holds in the manager.
UsesPool == PoolSpec

\* What mq.go line 83 and the comment on line 600 say: Reconnect reconnects by
\* hand.  It asks for r.mu while it holds it.
ReconnectReturns == \A t \in Reconnecters : pc[t] = "lock" ~> pc[t] = "done"
============================================================================
