---------------------------- MODULE KafkaManager ----------------------------
(* KafkaManager and KafkaProducer of components/mqs/kafka.go.  The manager  *)
(* has the fields and the goroutines of RabbitMqManager and differs in what *)
(* it does with them: a SyncProducer in the place of the channel pool, and  *)
(* a Publish that keeps the read lock until it returns.  So this module     *)
(* takes the state and the shared actions of RabbitMq, where               *)
(*   conn  says whether the sarama client reaches the brokers,              *)
(*   pool  is k.producer: nil, open or closed,                              *)
(*   idle, open and held stay empty, as there are no channels to lend.      *)
EXTENDS RabbitMq

VARIABLE
    readers         \* the goroutines that hold k.mu for reading

kafkaVars == <<vars, readers>>

KafkaInit == Init /\ readers = {}

\* A faulty variant of the next definition: Publish unlocks before it sends.
SlipNoReaders == TRUE

\* k.mu.Lock waits for the readers to leave, k.mu.RLock for the writer.
NoReaders == readers = {}

----------------------------------------------------------------------------
(* Publish.  The manager checks, sends and saves under one read lock; a     *)
(* KafkaProducer asks IsConnected and reads k.producer without the lock.    *)

KafkaAfterCheck(u) == IF isConnected THEN "produce"
                      ELSE IF u \in Savers THEN "save" ELSE "lost"

KafkaCheck(u) ==
    /\ pc[u] = "start"
    /\ CanLock(u)
    /\ readers' = readers \cup ({u} \cap Savers)
    /\ Goto(u, KafkaAfterCheck(u))
    /\ UNCHANGED <<poolVars, managerVars, storeVars>>

\* SendMessage: the brokers take the message; the answer comes later.
BrokersAccept(u) ==
    /\ pc[u] = "produce"
    /\ conn = "up"
    /\ sent' = sent \cup (IF u \in Savers THEN {BodyOf(u)} ELSE {})
    /\ Goto(u, "ack")
    /\ UNCHANGED <<poolVars, managerVars, store, work, cur, tries, readers>>

\* The answer of all replicas: Publish returns nil.
Acknowledged(u) ==
    /\ pc[u] = "ack"
    /\ conn = "up"
    /\ readers' = readers \ {u}
    /\ Goto(u, "ok")
    /\ UNCHANGED <<poolVars, managerVars, storeVars>>

\* SendMessage returns an error, also when the message has been taken but the
\* answer is lost.
ProduceFails(u) ==
    /\ pc[u] \in {"produce", "ack"}
    /\ conn # "up"
    /\ Goto(u, IF u \in Savers THEN "save" ELSE "lost")
    /\ UNCHANGED <<poolVars, managerVars, storeVars, readers>>

\* The message is saved, or the error of the store logged; RUnlock follows.
SaveAndUnlock(u) ==
    /\ Save(u) \/ SaveFails(u)
    /\ readers' = readers \ {u}

KafkaPublish(u) ==
    \/ KafkaCheck(u) \/ BrokersAccept(u) \/ Acknowledged(u)
    \/ ProduceFails(u) \/ SaveAndUnlock(u)

----------------------------------------------------------------------------
(* connect(), Reconnect and Close.                                          *)

KafkaConnect ==
    /\ pc[Starter] = "dial"
    /\ CanLock(Starter) /\ NoReaders
    /\ pool' = "open"
    /\ conn' = "up"
    /\ isConnected' = TRUE
    /\ Goto(Starter, "launch")
    /\ UNCHANGED <<idle, open, held, mu, cancelled, storeVars>>

\* The client is made but not the producer: the client is closed again.
ProducerRefused ==
    /\ pc[Starter] = "dial"
    /\ CanLock(Starter) /\ NoReaders
    /\ conn' = "down"
    /\ Goto(Starter, "failed")
    /\ UNCHANGED <<pool, idle, open, held, managerVars, storeVars>>

\* NewClient fails for Start; for Reconnect connect() begins with a lock that
\* the caller itself holds.
ClientRefused(t) == DialFails(t) /\ NoReaders

KafkaStarting ==
    \/ StartCalled \/ Launch
    \/ KafkaConnect \/ ProducerRefused

KafkaReconnect(t) ==
    \/ ReconnectCalled(t) \/ ReconnectCloseConn(t)
    \/ NoReaders /\ (ReconnectNeedless(t) \/ ReconnectClosePool(t))

KafkaClose(t) ==
    \/ NoReaders /\ CloseBegin(t)
    \/ CloseConn(t) \/ CloseEnd(t)

----------------------------------------------------------------------------
(* The brokers go away and come back: sarama reconnects by itself for as    *)
(* long as its client and producer are open, and k.isConnected stays as it  *)
(* is.                                                                      *)
BrokersLost ==
    /\ Room
    /\ ConnDown
    /\ UNCHANGED <<pc, managerVars, storeVars>>

BrokersBack ==
    /\ conn = "down" /\ pool = "open" /\ isConnected
    /\ conn' = "up"
    /\ UNCHANGED <<pool, idle, open, held, pc, managerVars, storeVars>>

KafkaNext ==
    \/ \E u \in Users : KafkaPublish(u)
    \/ /\ \/ Resending
          \/ KafkaStarting
          \/ \E t \in Callers \cup {Starter} : ClientRefused(t)
          \/ MonitorTick \/ MonitorExit
          \/ \E t \in Callers : KafkaReconnect(t)
          \/ \E t \in Closers : KafkaClose(t)
          \/ BrokersLost \/ BrokersBack
       /\ UNCHANGED readers

KafkaSpec == KafkaInit /\ [][KafkaNext]_kafkaVars

----------------------------------------------------------------------------
\* A message on its way through the manager keeps the producer it is sent
\* with: Close and Reconnect wait until Publish has returned, whatever the
\* brokers do meanwhile (lines 366-411 against 416-436 and 450-468).
ReadersKeepProducer ==
    \A u \in readers :
        pc[u] \in {"produce", "ack"} => pool = "open" /\ isConnected /\ mu = NoOne
============================================================================
