------------------------ MODULE RabbitConsumerProofs ------------------------
(* Deliveries of RabbitConsumer, for any number of consumers and messages.  *)
(* The argument: while its channel works, what a consumer has at hand is    *)
(* what the broker counts as unacknowledged on that channel, and no message *)
(* is counted twice; a dead channel counts nothing.                         *)
EXTENDS RabbitConsumer, ChannelPoolProofs

\* What c has been sent and not settled.
Has(c) == stream[c] \cup ({cur[c]} \ {NoMessage})

\* What a consumer has at each label.
PhaseInv ==
    \A c \in Consumers :
        /\ pc[c] \in {"idle", "get"} => held[c] = NoChannel
        /\ ~Subscribed(c) => stream[c] = {} /\ unacked[c] = {}
        /\ pc[c] \in {"handle", "ack", "nack"} <=> cur[c] # NoMessage
        /\ pc[c] = "ack" => cur[c] \in handled
        /\ ~Alive(c) => unacked[c] = {}
        /\ cur[c] \notin stream[c]

\* No message is counted twice by the broker, and what a consumer has is
\* counted.
BrokerInv ==
    /\ autoAcked \cap ready = {}
    /\ \A c \in Consumers :
          /\ unacked[c] \cap (ready \cup autoAcked) = {}
          /\ c \in AutoAckers => unacked[c] = {} /\ Has(c) \subseteq autoAcked
          /\ c \notin AutoAckers /\ Alive(c) => Has(c) \subseteq unacked[c]
    /\ \A c, d \in Consumers : c # d =>
          /\ unacked[c] \cap unacked[d] = {}
          /\ c \in AutoAckers /\ d \in AutoAckers => Has(c) \cap Has(d) = {}

Inv == PoolInv /\ TypeOK /\ PhaseInv /\ BrokerInv /\ NothingLost
----------------------------------------------------------------------------
LEMMA InitInv == Init => Inv
<1> SUFFICES ASSUME Init PROVE Inv
    OBVIOUS
<1> USE ConsumersAssumption DEF Init
<1>1. PoolInv
    BY PoolInitInv
<1>2. TypeOK
    BY <1>1 DEF TypeOK, PoolInv
<1>3. PhaseInv
    BY NoChannelAssumption DEF PhaseInv, PoolInit, Subscribed, Alive
<1>4. BrokerInv
    BY DEF BrokerInv, Has
<1>5. NothingLost
    BY DEF NothingLost
<1> QED BY <1>1, <1>2, <1>3, <1>4, <1>5 DEF Inv

\* The pool's invariant holds here too: consumers use the pool as ChannelPool
\* describes, and a restart begins with none.
LEMMA PoolStep == Inv /\ [Next]_vars => PoolInv'
<1> SUFFICES ASSUME Inv, [Next]_vars PROVE PoolInv'
    OBVIOUS
<1>0. PoolInv
    BY DEF Inv
<1>1. CASE Restart
    BY <1>1, MaxSizeAssumption, ConsumersAssumption
       DEF Restart, PoolInv, PoolTypeOK, Exclusive, NoOrphan, IdleBounded, IdleSet, Held
<1>2. ASSUME [PoolNext]_poolVars PROVE PoolInv'
    BY <1>0, <1>2, PoolStepInv
<1>3. CASE Manager
    BY <1>2, <1>3 DEF Manager, PoolNext
<1>4. CASE UNCHANGED vars
    BY <1>2, <1>4 DEF vars
<1>5. ASSUME NEW c \in Consumers, GetChannel(c) \/ SetupFails(c) PROVE PoolInv'
    BY <1>2, <1>5, ConsumersAssumption DEF GetChannel, SetupFails, PoolNext
<1>6. ASSUME NEW c \in Consumers,
             \/ Consume(c) \/ GetChannelFails(c) \/ Subscribe(c) \/ Handling(c) \/ Cancel(c)
             \/ DropStream(c) \/ \E m \in Messages : Deliver(c, m)
      PROVE  PoolInv'
    <2>1. UNCHANGED poolVars
        BY <1>6 DEF Consume, GetChannelFails, Subscribe, Handling, Cancel, DropStream, Deliver,
                    Receive, HandlerOk, HandlerFails, Ack, Nack, LoopEnds
    <2> QED BY <2>1, <1>2
<1> QED BY <1>1, <1>3, <1>4, <1>5, <1>6 DEF Next, Subscribing

\* Get and Put of one consumer leave the channels of the others as they are.
LEMMA OthersKeep ==
    ASSUME PoolInv, NEW c \in Users, Get(c) \/ Put(c), NEW d \in Users \ {c}
    PROVE  held'[d] = held[d] /\ (Alive(d)' <=> Alive(d))
<1> USE DEF PoolInv, PoolTypeOK
<1>1. CASE TakeIdle(c)
    BY <1>1 DEF TakeIdle, Alive
<1>2. CASE CreateChannel(c)
  <2>1. PICK ch \in Fresh : held' = [held EXCEPT ![c] = ch] /\ open' = open \cup {ch}
      BY <1>2 DEF CreateChannel, NewChannel
  <2> QED BY <2>1, NoChannelAssumption DEF Alive, Fresh, Held
<1>3. CASE PutBack(c)
    BY <1>3 DEF PutBack, Alive
<1>4. CASE PutClose(c)
    BY <1>4, NoChannelAssumption DEF PutClose, Alive, ClosedByPut, Holds, Exclusive
<1> QED BY <1>1, <1>2, <1>3, <1>4 DEF Get, Put

\* The manager and its environment give nobody a working channel.
LEMMA ManagerOnlyKills ==
    ASSUME PoolInv, Manager, NEW c \in Users
    PROVE  held' = held /\ (Alive(c)' => Alive(c))
<1> USE DEF PoolInv, PoolTypeOK, Alive
<1>1. CASE Establish
  <2>1. PICK ch \in Fresh : open' = {ch}
      BY <1>1 DEF Establish, NewChannel
  <2>2. held' = held /\ ch # held[c]
      BY <1>1, <2>1, NoChannelAssumption DEF Establish, Fresh, Held
  <2> QED BY <2>1, <2>2
<1>2. CASE SetupGetFails \/ DeclareFails
    BY <1>2 DEF SetupGetFails, DeclareFails
<1>3. CASE ClosePool
    BY <1>3 DEF ClosePool
<1>4. CASE ConnDown \/ ChannelError
    BY <1>4 DEF ConnDown, ChannelError
<1> QED BY <1>1, <1>2, <1>3, <1>4 DEF Manager

----------------------------------------------------------------------------
(* The parts of the invariant, kept by each kind of step.                   *)

\* What the broker takes back from dead channels is in the queue, once.
LEMMA RedeliverBroker ==
    ASSUME TypeOK, BrokerInv, NothingLost, Redeliver, UNCHANGED handled,
           NEW dead, dead = {c \in Consumers : held[c] \notin open'},
           \A c \in Consumers : Has(c)' \subseteq Has(c) /\ (Alive(c)' => Alive(c) /\ c \notin dead)
    PROVE  /\ ready' \subseteq Messages
           /\ unacked' = [c \in Consumers |-> IF c \in dead THEN {} ELSE unacked[c]]
           /\ BrokerInv'
           /\ NothingLost'
<1>1. /\ ready' = ready \cup UNION {unacked[c] : c \in dead}
      /\ unacked' = [c \in Consumers |-> IF c \in dead THEN {} ELSE unacked[c]]
      /\ autoAcked' = autoAcked
    BY DEF Redeliver
<1>2. \A m : m \in ready' <=> m \in ready \/ \E c \in dead : m \in unacked[c]
    BY <1>1
<1>3. ready' \subseteq Messages
    BY <1>2 DEF TypeOK
<1>4. BrokerInv'
    <2>1. autoAcked' \cap ready' = {}
        BY <1>1, <1>2 DEF BrokerInv
    <2>2. ASSUME NEW c \in Consumers PROVE unacked'[c] \cap (ready' \cup autoAcked') = {}
        BY <1>1, <1>2 DEF BrokerInv
    <2>3. ASSUME NEW c \in Consumers
          PROVE  /\ c \in AutoAckers => unacked'[c] = {} /\ Has(c)' \subseteq autoAcked'
                 /\ c \notin AutoAckers /\ Alive(c)' => Has(c)' \subseteq unacked'[c]
        BY <1>1 DEF BrokerInv
    <2>4. ASSUME NEW c \in Consumers, NEW d \in Consumers, c # d
          PROVE  /\ unacked'[c] \cap unacked'[d] = {}
                 /\ c \in AutoAckers /\ d \in AutoAckers => Has(c)' \cap Has(d)' = {}
        BY <1>1, <2>4 DEF BrokerInv
    <2> QED BY <2>1, <2>2, <2>3, <2>4 DEF BrokerInv
<1>5. NothingLost'
    BY <1>1, <1>2 DEF NothingLost
<1> QED BY <1>1, <1>3, <1>4, <1>5

LEMMA ManagerCore == Inv /\ PoolInv' /\ Manager => Inv'
<1> SUFFICES ASSUME Inv, PoolInv', Manager PROVE Inv'
    OBVIOUS
<1> DEFINE dead == {c \in Consumers : held[c] \notin open'}
<1>1. UNCHANGED <<held, pc, cancelled, cur, stream, handled>> /\ isConnected' \in BOOLEAN
    BY ManagerOnlyKills, ConsumersAssumption
       DEF Manager, Inv, TypeOK, Establish, SetupGetFails, DeclareFails, ClosePool, ConnDown, ChannelError
<1>2. \A c \in Consumers : Has(c)' = Has(c) /\ (Alive(c)' => Alive(c)) /\ (Alive(c)' <=> c \notin dead)
    BY <1>1, ManagerOnlyKills, ConsumersAssumption DEF Has, Alive, Inv
<1>3. /\ ready' \subseteq Messages
      /\ unacked' = [c \in Consumers |-> IF c \in dead THEN {} ELSE unacked[c]]
      /\ BrokerInv'
      /\ NothingLost'
    <2>1. Redeliver /\ UNCHANGED handled
        BY DEF Manager
    <2> HIDE DEF dead
    <2>2. dead = {c \in Consumers : held[c] \notin open'}
        BY DEF dead
    <2> QED BY <1>2, <2>1, <2>2, RedeliverBroker DEF Inv
<1>4. TypeOK'
    BY <1>1, <1>3 DEF Inv, TypeOK, PoolInv, Manager, Redeliver
<1>5. PhaseInv'
    BY <1>1, <1>2, <1>3 DEF Inv, PhaseInv, Subscribed, TypeOK
<1> QED BY <1>3, <1>4, <1>5 DEF Inv

LEMMA RestartCore == Inv /\ PoolInv' /\ Restart => Inv'
<1> SUFFICES ASSUME Inv, PoolInv', Restart PROVE Inv'
    OBVIOUS
<1> USE NoChannelAssumption DEF Restart
<1>1. \A c \in Consumers : Has(c)' = {} /\ ~Alive(c)'
    BY DEF Has, Alive
<1>2. Consumers = {c \in Consumers : held[c] \notin open'}
    OBVIOUS
<1>3. /\ ready' \subseteq Messages
      /\ unacked' = [c \in Consumers |-> {}]
      /\ BrokerInv'
      /\ NothingLost'
    <2>1. Redeliver /\ UNCHANGED handled
        OBVIOUS
    <2> HIDE DEF Restart
    <2> QED BY <1>1, <1>2, <2>1, RedeliverBroker DEF Inv
<1>4. TypeOK'
    BY <1>3 DEF Inv, TypeOK, PoolInv, Redeliver
<1>5. PhaseInv'
    BY <1>1, <1>3 DEF PhaseInv, Subscribed
<1> QED BY <1>3, <1>4, <1>5 DEF Inv

\* Getting a channel for the consumer, or giving it back when the set-up fails.
LEMMA ChannelCore ==
    ASSUME Inv, PoolInv', NEW c \in Consumers, GetChannel(c) \/ SetupFails(c)
    PROVE  Inv'
<1>1. /\ UNCHANGED <<isConnected, cancelled, cur, stream, brokerVars, handled>>
      /\ Get(c) \/ Put(c)
      /\ ~Subscribed(c) /\ ~Subscribed(c)'
      /\ \A d \in Consumers : d # c => pc'[d] = pc[d]
      /\ pc' \in [Consumers -> {"idle", "get", "setup", "loop", "handle", "ack", "nack", "blocked"}]
    BY DEF GetChannel, SetupFails, Goto, Inv, TypeOK, Subscribed
<1>2. \A d \in Consumers : d # c => held'[d] = held[d] /\ (Alive(d)' <=> Alive(d))
    BY <1>1, OthersKeep, ConsumersAssumption DEF Inv
<1>3. cur[c] = NoMessage /\ Has(c) = {}
    BY <1>1 DEF Inv, PhaseInv, Has, Subscribed
<1>4. \A d \in Consumers : Has(d)' = Has(d)
    BY <1>1 DEF Has
<1>5. TypeOK'
    BY <1>1 DEF Inv, TypeOK, PoolInv, brokerVars
<1>6. pc'[c] = "idle" => held'[c] = NoChannel
    BY ConsumersAssumption
       DEF GetChannel, SetupFails, Goto, Inv, TypeOK, PoolTypeOK, Put, PutBack, PutClose
<1>7. PhaseInv'
    <2>1. pc'[c] \in {"idle", "setup"} /\ unacked'[c] = {} /\ stream'[c] = {} /\ cur'[c] = NoMessage
        BY <1>1, <1>3 DEF GetChannel, SetupFails, Goto, Inv, TypeOK, PhaseInv, brokerVars
    <2>2. ASSUME NEW d \in Consumers, d # c
          PROVE  /\ pc'[d] \in {"idle", "get"} => held'[d] = NoChannel
                 /\ ~Subscribed(d)' => stream'[d] = {} /\ unacked'[d] = {}
                 /\ pc'[d] \in {"handle", "ack", "nack"} <=> cur'[d] # NoMessage
                 /\ pc'[d] = "ack" => cur'[d] \in handled'
                 /\ ~Alive(d)' => unacked'[d] = {}
                 /\ cur'[d] \notin stream'[d]
        BY <1>1, <1>2, <2>2 DEF Inv, PhaseInv, Subscribed, brokerVars
    <2> QED BY <1>6, <2>1, <2>2 DEF PhaseInv, Subscribed
<1>8. BrokerInv' /\ NothingLost'
    BY <1>1, <1>2, <1>3, <1>4 DEF Inv, BrokerInv, NothingLost, brokerVars
<1> QED BY <1>5, <1>7, <1>8 DEF Inv

\* A step of one consumer that leaves the pool and the broker alone.
LEMMA LocalCore ==
    ASSUME Inv, NEW c \in Consumers,
           \/ Consume(c) \/ GetChannelFails(c) \/ Subscribe(c) \/ Receive(c) \/ HandlerOk(c)
           \/ HandlerFails(c) \/ LoopEnds(c) \/ DropStream(c) \/ Cancel(c)
    PROVE  Inv'
<1>1. UNCHANGED <<poolVars, isConnected, brokerVars>>
    BY DEF Consume, GetChannelFails, Subscribe, Receive, HandlerOk, HandlerFails, LoopEnds, DropStream, Cancel
<1>2. PoolInv'
    BY <1>1 DEF Inv, PoolInv, PoolTypeOK, Exclusive, NoOrphan, IdleBounded, IdleSet, Held, poolVars
<1>3. \A d \in Consumers : Alive(d)' <=> Alive(d)
    BY <1>1 DEF Alive, poolVars
<1>4. TypeOK'
    <2> USE DEF Inv, TypeOK, PoolInv, brokerVars, Goto
    <2>1. CASE Consume(c) \/ GetChannelFails(c) \/ Subscribe(c)
        BY <1>1, <1>2, <2>1 DEF Consume, GetChannelFails, Subscribe
    <2>2. CASE Receive(c)
        BY <1>1, <1>2, <2>2 DEF Receive
    <2>3. CASE HandlerOk(c) \/ HandlerFails(c)
        <3>1. cur[c] \in Messages
            BY <2>3 DEF HandlerOk, HandlerFails, PhaseInv
        <3> QED BY <1>1, <1>2, <2>3, <3>1 DEF HandlerOk, HandlerFails, AfterHandler
    <2>4. CASE LoopEnds(c) \/ DropStream(c) \/ Cancel(c)
        BY <1>1, <1>2, <2>4 DEF LoopEnds, DropStream, Cancel
    <2> QED BY <2>1, <2>2, <2>3, <2>4
<1>5. \A d \in Consumers : Has(d)' \subseteq Has(d)
    <2> USE DEF Inv, TypeOK, Has
    <2>1. CASE Receive(c)
        BY <2>1 DEF Receive
    <2>2. CASE DropStream(c)
        BY <2>2 DEF DropStream
    <2>3. CASE \/ Consume(c) \/ GetChannelFails(c) \/ Subscribe(c) \/ HandlerOk(c)
               \/ HandlerFails(c) \/ LoopEnds(c) \/ Cancel(c)
        BY <2>3 DEF Consume, GetChannelFails, Subscribe, HandlerOk, HandlerFails, LoopEnds, Cancel
    <2> QED BY <2>1, <2>2, <2>3
<1>6. BrokerInv' /\ NothingLost'
    <2>1. handled \subseteq handled'
        BY DEF Consume, GetChannelFails, Subscribe, Receive, HandlerOk, HandlerFails, LoopEnds, DropStream, Cancel
    <2> QED BY <1>1, <1>3, <1>5, <2>1 DEF Inv, BrokerInv, NothingLost, brokerVars
<1>7. PhaseInv'
    <2> USE NoMessageAssumption DEF Inv, TypeOK, PhaseInv, Subscribed, Goto, poolVars, brokerVars
    <2>1. CASE Consume(c) \/ GetChannelFails(c) \/ Subscribe(c)
        BY <1>1, <1>3, <2>1 DEF Consume, GetChannelFails, Subscribe
    <2>2. CASE Receive(c)
        BY <1>1, <1>3, <2>2 DEF Receive
    <2>3. CASE HandlerOk(c) \/ HandlerFails(c)
        BY <1>1, <1>3, <2>3 DEF HandlerOk, HandlerFails, AfterHandler
    <2>4. CASE LoopEnds(c) \/ DropStream(c) \/ Cancel(c)
        BY <1>1, <1>3, <2>4 DEF LoopEnds, DropStream, Cancel
    <2> QED BY <2>1, <2>2, <2>3, <2>4
<1> QED BY <1>2, <1>4, <1>6, <1>7 DEF Inv

\* Acknowledging, rejecting, and sending a message to a consumer.
LEMMA BrokerCore ==
    ASSUME Inv, NEW c \in Consumers, Ack(c) \/ Nack(c) \/ \E m \in Messages : Deliver(c, m)
    PROVE  Inv'
<1>1. UNCHANGED <<poolVars, isConnected, cancelled, handled>>
    BY DEF Ack, Nack, Deliver
<1>2. PoolInv'
    BY <1>1 DEF Inv, PoolInv, PoolTypeOK, Exclusive, NoOrphan, IdleBounded, IdleSet, Held, poolVars
<1>3. \A d \in Consumers : Alive(d)' <=> Alive(d)
    BY <1>1 DEF Alive, poolVars
<1> USE NoMessageAssumption, ConsumersAssumption DEF Inv, TypeOK, Goto, Settles, Nacked, AfterNack
<1>4. CASE Ack(c)
    <2>1. /\ pc[c] = "ack" /\ cur[c] \in handled /\ cur[c] # NoMessage
          /\ cur' = [cur EXCEPT ![c] = NoMessage] /\ pc' = [pc EXCEPT ![c] = "loop"]
          /\ unacked' = IF Settles(c) THEN [unacked EXCEPT ![c] = @ \ {cur[c]}] ELSE unacked
          /\ UNCHANGED <<stream, ready, autoAcked>>
        BY <1>4 DEF Ack, PhaseInv
    <2>2. TypeOK'
        BY <1>1, <1>2, <2>1 DEF PoolInv
    <2>3. PhaseInv'
        BY <1>1, <1>3, <2>1 DEF PhaseInv, Subscribed, poolVars
    <2>4. NothingLost'
        BY <1>1, <2>1 DEF NothingLost
    <2>5. /\ Has(c)' = stream[c] /\ cur[c] \notin stream[c] /\ unacked'[c] \subseteq unacked[c]
          /\ Alive(c) /\ c \notin AutoAckers => unacked'[c] = unacked[c] \ {cur[c]}
        BY <2>1 DEF Has, PhaseInv
    <2>6. Has(c)' \subseteq Has(c)
        BY <2>5 DEF Has
    <2>7. \A d \in Consumers : d # c => Has(d)' = Has(d) /\ unacked'[d] = unacked[d]
        BY <2>1 DEF Has
    <2>8. BrokerInv'
        BY <1>3, <2>1, <2>5, <2>6, <2>7 DEF BrokerInv, Has
    <2> QED BY <1>2, <2>2, <2>3, <2>4, <2>8
<1>5. CASE Nack(c)
    <2>1. /\ pc[c] = "nack" /\ cur[c] \in Messages
          /\ cur' = [cur EXCEPT ![c] = NoMessage] /\ pc' = [pc EXCEPT ![c] = "loop"]
          /\ unacked' = [unacked EXCEPT ![c] = @ \ Nacked(c)]
          /\ ready' = ready \cup Nacked(c)
          /\ UNCHANGED <<stream, autoAcked>>
        BY <1>5 DEF Nack, PhaseInv
    <2>2. TypeOK'
        BY <1>1, <1>2, <2>1 DEF PoolInv
    <2>3. PhaseInv'
        BY <1>1, <1>3, <2>1 DEF PhaseInv, Subscribed, poolVars
    <2>4. NothingLost'
        BY <1>1, <2>1 DEF NothingLost
    <2>5. /\ Has(c)' = stream[c] /\ cur[c] \notin stream[c]
          /\ unacked'[c] = unacked[c] \ Nacked(c)
          /\ Nacked(c) \subseteq unacked[c]
        BY <2>1 DEF Has, PhaseInv, BrokerInv
    <2>6. Has(c)' \subseteq Has(c)
        BY <2>5 DEF Has
    <2>7. \A d \in Consumers : d # c => Has(d)' = Has(d) /\ unacked'[d] = unacked[d]
        BY <2>1 DEF Has
    <2>8. Nacked(c) \subseteq {cur[c]}
        OBVIOUS
    <2> HIDE DEF Nacked
    <2>9. BrokerInv'
        BY <1>3, <2>1, <2>5, <2>6, <2>7, <2>8 DEF BrokerInv
    <2> QED BY <1>2, <2>2, <2>3, <2>4, <2>9
<1>6. ASSUME NEW m \in Messages, Deliver(c, m) PROVE Inv'
    <2>1. /\ Subscribed(c) /\ Alive(c) /\ m \in ready
          /\ ready' = ready \ {m} /\ stream' = [stream EXCEPT ![c] = @ \cup {m}]
          /\ UNCHANGED <<pc, cur>>
          /\ unacked' = IF c \in AutoAckers THEN unacked ELSE [unacked EXCEPT ![c] = @ \cup {m}]
          /\ autoAcked' = IF c \in AutoAckers THEN autoAcked \cup {m} ELSE autoAcked
        BY <1>6 DEF Deliver
    <2>2. TypeOK'
        BY <1>1, <1>2, <2>1 DEF PoolInv
    <2>3. m \notin Has(c) /\ \A d \in Consumers : m \notin unacked[d]
        BY <2>1 DEF BrokerInv
    <2>4. PhaseInv'
        BY <1>1, <1>3, <2>1, <2>3 DEF PhaseInv, Subscribed, poolVars, Has
    <2>5. NothingLost'
        BY <1>1, <2>1 DEF NothingLost
    <2>6. /\ Has(c)' = Has(c) \cup {m}
          /\ \A d \in Consumers : d # c => Has(d)' = Has(d) /\ unacked'[d] = unacked[d]
        BY <2>1 DEF Has
    <2>7. CASE c \in AutoAckers
        <3>1. \A d \in AutoAckers : m \notin Has(d)
            BY <2>1 DEF BrokerInv
        <3> QED BY <1>2, <1>3, <2>1, <2>2, <2>3, <2>4, <2>5, <2>6, <2>7, <3>1 DEF BrokerInv
    <2>8. CASE c \notin AutoAckers
        BY <1>2, <1>3, <2>1, <2>2, <2>3, <2>4, <2>5, <2>6, <2>8 DEF BrokerInv
    <2> QED BY <2>7, <2>8
<1> QED BY <1>4, <1>5, <1>6

----------------------------------------------------------------------------
\* Messages are counted right in every reachable state.
THEOREM Inductive == Spec => []Inv
<1>1. Inv /\ [Next]_vars => Inv'
    <2> SUFFICES ASSUME Inv, [Next]_vars PROVE Inv'
        OBVIOUS
    <2>1. PoolInv'
        BY PoolStep
    <2>2. CASE Manager
        BY <2>1, <2>2, ManagerCore
    <2>3. CASE Restart
        BY <2>1, <2>3, RestartCore
    <2>4. ASSUME NEW c \in Consumers, GetChannel(c) \/ SetupFails(c) PROVE Inv'
        BY <2>1, <2>4, ChannelCore
    <2>5. ASSUME NEW c \in Consumers,
                 \/ Consume(c) \/ GetChannelFails(c) \/ Subscribe(c) \/ Receive(c) \/ HandlerOk(c)
                 \/ HandlerFails(c) \/ LoopEnds(c) \/ DropStream(c) \/ Cancel(c)
          PROVE  Inv'
        BY <2>5, LocalCore
    <2>6. ASSUME NEW c \in Consumers, Ack(c) \/ Nack(c) \/ \E m \in Messages : Deliver(c, m)
          PROVE  Inv'
        BY <2>6, BrokerCore
    <2>7. CASE UNCHANGED vars
        BY <2>1, <2>7 DEF vars, poolVars, brokerVars, Inv, TypeOK, PoolInv, PhaseInv, BrokerInv, NothingLost,
                     Has, Alive, Subscribed
    <2> QED BY <2>2, <2>3, <2>4, <2>5, <2>6, <2>7 DEF Next, Subscribing, Handling
<1> QED BY InitInv, <1>1, PTL DEF Spec

\* Each consumer's variables hold values of their kind.
THEOREM ConsumerTypeCorrect == Spec => []TypeOK
BY Inductive, PTL DEF Inv

\* A message is in the queue, awaits its acknowledgement, or was accepted, for
\* any number of consumers, messages and channels.
THEOREM NoMessageLost == Spec => []NothingLost
BY Inductive, PTL DEF Inv

\* Two consumers handle one message at a time only over a dead channel.
THEOREM NoDoubleHandling == Spec => []HandledOnce
<1>1. Inv => HandledOnce
    <2> SUFFICES ASSUME Inv, NEW c \in Consumers, NEW d \in Consumers, c # d,
                        pc[c] = "handle", pc[d] = "handle", cur[c] = cur[d], Alive(c), Alive(d)
                 PROVE  FALSE
        BY DEF HandledOnce
    <2>1. cur[c] \in Has(c) /\ cur[c] \in Has(d)
        BY DEF Inv, PhaseInv, Has
    <2> QED BY <2>1 DEF Inv, BrokerInv
<1> QED BY Inductive, <1>1, PTL
=============================================================================
