--------------------------- MODULE RabbitConsumer ---------------------------
(* RabbitMQConsumer of components/mqs/rabbitmq.go (lines 713-820): each     *)
(* consumer keeps a channel of the manager's pool for itself and handles    *)
(* the messages of one queue.                                               *)
(*                                                                          *)
(* The broker keeps a message until it is acknowledged, and puts it back    *)
(* into the queue when the channel it was delivered on dies.                *)
EXTENDS ChannelPool

CONSTANTS
    Consumers,      \* RabbitMQConsumer objects on the same queue
    AutoAckers,     \* the consumers whose options say AutoAck
    Messages,
    NoMessage

ASSUME ConsumersAssumption == Consumers = Users /\ AutoAckers \subseteq Consumers
ASSUME NoMessageAssumption == NoMessage \notin Messages

VARIABLES
    isConnected,    \* manager.isConnected
    pc,             \* where each consumer is
    cancelled,      \* the consumers whose context is done
    cur,            \* cur[c]: the delivery c is handling
    stream,         \* stream[c]: deliveries in c.delivery, not received yet
    ready,          \* broker: the messages in the queue
    unacked,        \* broker: unacked[c]: delivered to c, not acknowledged
    handled,        \* history: messages that a handler accepted
    autoAcked       \* history: messages delivered to a consumer with AutoAck

brokerVars == <<ready, unacked, autoAcked>>
vars == <<poolVars, isConnected, pc, cancelled, cur, stream, brokerVars, handled>>

Init ==
    /\ PoolInit
    /\ isConnected = FALSE
    /\ pc = [c \in Consumers |-> "idle"]
    /\ cancelled = {}
    /\ cur = [c \in Consumers |-> NoMessage]
    /\ stream = [c \in Consumers |-> {}]
    /\ ready = Messages
    /\ unacked = [c \in Consumers |-> {}]
    /\ handled = {}
    /\ autoAcked = {}

Goto(c, l) == pc' = [pc EXCEPT ![c] = l]

\* The consumer's channel works.
Alive(c) == held[c] \in open

\* A consumer is registered with the broker from Consume on; nothing cancels
\* the registration.
Subscribed(c) == pc[c] \in {"loop", "handle", "ack", "nack", "blocked"}

----------------------------------------------------------------------------
(* Faulty variants of the definitions below: nothing refers to them.        *)

SlipAfterHandler(ok) == "ack"           \* the handler's error is ignored
SlipAfterNack == "handle"               \* handled again in place as well
SlipNacked(c) == {}                     \* no Nack after an error

----------------------------------------------------------------------------
(* The manager, the connection and the broker.                              *)

\* The broker takes back what the channels that are dead now have delivered.
Redeliver ==
    LET dead == {c \in Consumers : held[c] \notin open'} IN
      /\ ready' = ready \cup UNION {unacked[c] : c \in dead}
      /\ unacked' = [c \in Consumers |-> IF c \in dead THEN {} ELSE unacked[c]]
      /\ UNCHANGED autoAcked

\* Start connects, or fails to; Close closes the pool (its other steps are
\* ConnDown, and r.mu hides the order from IsConnected); channels and the
\* connection die.
Manager ==
    /\ \/ Establish /\ isConnected' = TRUE
       \/ (SetupGetFails \/ DeclareFails) /\ UNCHANGED isConnected
       \/ ClosePool /\ isConnected' = FALSE
       \/ (ConnDown \/ ChannelError) /\ UNCHANGED isConnected
    /\ Redeliver
    /\ UNCHANGED <<pc, cancelled, cur, stream, handled>>

\* The broker sends a message to one of the consumers of the queue.  One sent
\* to a consumer with AutoAck is forgotten at once.
Deliver(c, m) ==
    /\ Subscribed(c) /\ Alive(c)
    /\ m \in ready
    /\ ready' = ready \ {m}
    /\ stream' = [stream EXCEPT ![c] = @ \cup {m}]
    /\ IF c \in AutoAckers
       THEN autoAcked' = autoAcked \cup {m} /\ UNCHANGED unacked
       ELSE unacked' = [unacked EXCEPT ![c] = @ \cup {m}] /\ UNCHANGED autoAcked
    /\ UNCHANGED <<poolVars, isConnected, pc, cancelled, cur, handled>>

\* The client library drops what is buffered for a dead channel.
DropStream(c) ==
    /\ Subscribed(c) /\ ~Alive(c)
    /\ stream[c] # {}
    /\ stream' = [stream EXCEPT ![c] = {}]
    /\ UNCHANGED <<poolVars, isConnected, pc, cancelled, cur, brokerVars, handled>>

\* The process dies and is started again.
Restart ==
    /\ conn' = "none" /\ pool' = "nil" /\ idle' = <<>> /\ open' = {}
    /\ held' = [c \in Consumers |-> NoChannel]
    /\ isConnected' = FALSE
    /\ pc' = [c \in Consumers |-> "idle"]
    /\ cancelled' = {}
    /\ cur' = [c \in Consumers |-> NoMessage]
    /\ stream' = [c \in Consumers |-> {}]
    /\ Redeliver
    /\ UNCHANGED handled

----------------------------------------------------------------------------
(* Consume.                                                                 *)

\* IsConnected is asked first; the pool is used after the lock is released.
Consume(c) ==
    /\ pc[c] = "idle"
    /\ isConnected
    /\ Goto(c, "get")
    /\ UNCHANGED <<poolVars, isConnected, cancelled, cur, stream, brokerVars, handled>>

GetChannel(c) ==
    /\ pc[c] = "get"
    /\ Get(c)
    /\ Goto(c, "setup")
    /\ UNCHANGED <<isConnected, cancelled, cur, stream, brokerVars, handled>>

GetChannelFails(c) ==
    /\ pc[c] = "get"
    /\ GetFails
    /\ Goto(c, "idle")
    /\ UNCHANGED <<poolVars, isConnected, cancelled, cur, stream, brokerVars, handled>>

\* Declaring or binding the queue, or subscribing, fails: the channel goes
\* back to the pool.
SetupFails(c) ==
    /\ pc[c] = "setup"
    /\ Put(c)
    /\ Goto(c, "idle")
    /\ UNCHANGED <<isConnected, cancelled, cur, stream, brokerVars, handled>>

Subscribe(c) ==
    /\ pc[c] = "setup"
    /\ Alive(c)
    /\ Goto(c, "loop")
    /\ UNCHANGED <<poolVars, isConnected, cancelled, cur, stream, brokerVars, handled>>

----------------------------------------------------------------------------
(* consumeLoop.                                                             *)

Receive(c) ==
    /\ pc[c] = "loop"
    /\ \E m \in stream[c] :
          /\ cur' = [cur EXCEPT ![c] = m]
          /\ stream' = [stream EXCEPT ![c] = @ \ {m}]
    /\ Goto(c, "handle")
    /\ UNCHANGED <<poolVars, isConnected, cancelled, brokerVars, handled>>

\* What is done once the handler has returned, with or without an error.
AfterHandler(ok) == IF ok THEN "ack" ELSE "nack"

HandlerOk(c) ==
    /\ pc[c] = "handle"
    /\ handled' = handled \cup {cur[c]}
    /\ Goto(c, AfterHandler(TRUE))
    /\ UNCHANGED <<poolVars, isConnected, cancelled, cur, stream, brokerVars>>

HandlerFails(c) ==
    /\ pc[c] = "handle"
    /\ Goto(c, AfterHandler(FALSE))
    /\ UNCHANGED <<poolVars, isConnected, cancelled, cur, stream, brokerVars, handled>>

\* Ack and Nack reach the broker only over the channel of the delivery; their
\* errors are ignored.  With AutoAck neither is called.
Settles(c) == c \notin AutoAckers /\ Alive(c)

Ack(c) ==
    /\ pc[c] = "ack"
    /\ unacked' = IF Settles(c) THEN [unacked EXCEPT ![c] = @ \ {cur[c]}] ELSE unacked
    /\ cur' = [cur EXCEPT ![c] = NoMessage]
    /\ Goto(c, "loop")
    /\ UNCHANGED <<poolVars, isConnected, cancelled, stream, ready, autoAcked, handled>>

\* The message is rejected and queued again.
Nacked(c) == IF Settles(c) THEN {cur[c]} ELSE {}
AfterNack == "loop"

Nack(c) ==
    /\ pc[c] = "nack"
    /\ unacked' = [unacked EXCEPT ![c] = @ \ Nacked(c)]
    /\ ready' = ready \cup Nacked(c)
    /\ cur' = IF AfterNack = "loop" THEN [cur EXCEPT ![c] = NoMessage] ELSE cur
    /\ Goto(c, AfterNack)
    /\ UNCHANGED <<poolVars, isConnected, cancelled, stream, autoAcked, handled>>

Cancel(c) ==
    /\ c \notin cancelled
    /\ cancelled' = cancelled \cup {c}
    /\ UNCHANGED <<poolVars, isConnected, pc, cur, stream, brokerVars, handled>>

\* The context is done or the delivery stream is closed: the loop sends to
\* c.done, an unbuffered Go channel that nothing reads, and stays there.  The
\* deferred Put after it is never reached.
LoopEnds(c) ==
    /\ pc[c] = "loop"
    /\ c \in cancelled \/ (~Alive(c) /\ stream[c] = {})
    /\ Goto(c, "blocked")
    /\ UNCHANGED <<poolVars, isConnected, cancelled, cur, stream, brokerVars, handled>>

----------------------------------------------------------------------------
Handling(c) == Receive(c) \/ HandlerOk(c) \/ HandlerFails(c) \/ Ack(c) \/ Nack(c) \/ LoopEnds(c)
Subscribing(c) == GetChannel(c) \/ GetChannelFails(c) \/ SetupFails(c) \/ Subscribe(c)

Next ==
    \/ Manager \/ Restart
    \/ \E c \in Consumers :
          \/ Consume(c) \/ Subscribing(c) \/ Handling(c) \/ Cancel(c)
          \/ DropStream(c) \/ \E m \in Messages : Deliver(c, m)

Spec == Init /\ [][Next]_vars

\* Loops that can go on do.  A message is not passed over for ever by the
\* broker, nor refused for ever by the handler.
FairSpec ==
    /\ Spec
    /\ \A c \in Consumers : WF_vars(Handling(c))
    /\ \A m \in Messages :
          /\ SF_vars(\E c \in Consumers : Deliver(c, m))
          /\ \A c \in Consumers : SF_vars(cur[c] = m /\ HandlerOk(c)) /\ SF_vars(Receive(c) /\ cur'[c] = m)

----------------------------------------------------------------------------
TypeOK ==
    /\ PoolTypeOK
    /\ isConnected \in BOOLEAN
    /\ pc \in [Consumers -> {"idle", "get", "setup", "loop", "handle", "ack", "nack", "blocked"}]
    /\ cancelled \subseteq Consumers
    /\ cur \in [Consumers -> Messages \cup {NoMessage}]
    /\ stream \in [Consumers -> SUBSET Messages]
    /\ ready \subseteq Messages
    /\ unacked \in [Consumers -> SUBSET Messages]
    /\ handled \subseteq Messages
    /\ autoAcked \subseteq Messages

\* Without AutoAck a message is never lost: whatever handler fails, whatever
\* channel or process dies and whenever, it is in the queue, awaits its
\* acknowledgement or was accepted by a handler (lines 806-816; "until it is
\* consumed successfully", line 200).
NothingLost ==
    \A m \in Messages \ (handled \cup autoAcked) :
        m \in ready \/ \E c \in Consumers : m \in unacked[c]

\* Two consumers handle one message at the same time only if the channel of
\* one of them has died under it: no acknowledgement, rejection or
\* redelivery on working channels leads to it (lines 806-816).
HandledOnce ==
    \A c, d \in Consumers :
        c # d /\ pc[c] = "handle" /\ pc[d] = "handle" /\ cur[c] = cur[d] => ~Alive(c) \/ ~Alive(d)

\* A consumer without AutoAck is at work and no consumer that has ended still
\* holds a working channel, over which it would be sent messages.
AtWork ==
    /\ \E c \in Consumers \ AutoAckers : pc[c] \in {"loop", "handle", "ack", "nack"} /\ Alive(c)
    /\ \A c \in Consumers : pc[c] = "blocked" => ~Alive(c)

\* Every message is consumed, however often the handler refuses it first, if
\* from some time on consumers are at work (line 200).
AllConsumed == <>[]AtWork => <>(handled \cup autoAcked = Messages)
=============================================================================
