----------------------------- MODULE MqManager -----------------------------
(* The message queue of the application: CreateMqManager of                 *)
(* components/mqs/factory.go and Init of sunny.go make one of two managers, *)
(* by the type in the configuration, over the same failed-message store,    *)
(* and the rest of the application uses it without knowing which.           *)
EXTENDS KafkaManager

CONSTANT
    Kinds           \* the types the configuration may name; a type that is
                    \* neither of the two makes no manager

ASSUME KindsAssumption == Kinds \subseteq {"rabbitmq", "kafka"}

VARIABLE
    kind            \* opt.Type, fixed once the manager is made

mqVars == <<kafkaVars, kind>>

MqInit == KafkaInit /\ kind \in Kinds

Rabbit == kind = "rabbitmq" /\ UNCHANGED <<readers, kind>>
Kafka == kind = "kafka" /\ UNCHANGED kind

MqNext == (Rabbit /\ Next) \/ (Kafka /\ KafkaNext)

MqSpec == MqInit /\ [][MqNext]_mqVars

----------------------------------------------------------------------------
(* Fairness.  Goroutines that are running are scheduled, and tickers tick.  *)
(* Calls of the application (Start, Close, Reconnect) and faults need not   *)
(* happen, but a call that has begun goes on.  A store whose writes may     *)
(* fail does not fail for ever.                                             *)

Shared == UNCHANGED <<readers, kind>>

MqPublish(u) == (Rabbit /\ Publish(u)) \/ (Kafka /\ KafkaPublish(u))
MqStart == (Rabbit /\ (Starting \/ DialFails(Starter)))
           \/ (Kafka /\ (KafkaStarting \/ ClientRefused(Starter)) /\ UNCHANGED readers)
MqReconnect(t) == (Rabbit /\ (Reconnect(t) \/ DialFails(t)))
                  \/ (Kafka /\ (KafkaReconnect(t) \/ ClientRefused(t)) /\ UNCHANGED readers)
MqClose(t) == (Rabbit /\ Close(t)) \/ (Kafka /\ KafkaClose(t) /\ UNCHANGED readers)

MqFairness ==
    /\ \A u \in Users : WF_mqVars(MqPublish(u))
    /\ WF_mqVars(Resending /\ Shared)
    /\ SF_mqVars(GiveUp /\ store' # store /\ Shared)
    /\ SF_mqVars(Settle /\ store' # store /\ Shared)
    /\ WF_mqVars((MonitorTick \/ MonitorExit) /\ Shared)
    /\ WF_mqVars(MqStart /\ pc[Starter] # "idle")
    /\ \A t \in Callers : WF_mqVars(MqReconnect(t) /\ pc[t] # "idle")
    /\ \A t \in Closers : WF_mqVars(MqClose(t) /\ pc[t] # "idle")

MqFairSpec == MqSpec /\ MqFairness

----------------------------------------------------------------------------
\* Whatever the goroutines of either manager, the calls of the application,
\* the faults of the broker and the errors of the store do to each other, the
\* failed messages are treated as Outbox says: none is dropped early, counted
\* twice for one resend, resent past MaxRetries or changed
\* (rabbitmq.go lines 497-554 and 646-684, kafka.go 366-411 and 512-543).
Outbox == INSTANCE Outbox WITH Messages <- Publishers

ImplementsOutbox == Outbox!Spec
============================================================================
