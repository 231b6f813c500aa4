---------------------------- MODULE ChannelPool ----------------------------
(* The pool of AMQP channels of components/mqs/rabbitmq.go (lines 56-152),  *)
(* the connection it draws from, and the goroutines that borrow channels.   *)
(*                                                                          *)
(* A channel is dead once it is closed, by the pool, by the broker (a       *)
(* channel exception) or with its connection.  A dead channel object can    *)
(* still sit in the pool or in a goroutine's hands: the code never looks.   *)
(* ChannelPool.Get, Put and Close each run under the pool's mutex, so each  *)
(* is one step.                                                             *)
EXTENDS Naturals, Sequences, FiniteSets

CONSTANTS
    Users,      \* goroutines that borrow channels
    Channels,   \* identities of AMQP channel objects
    MaxSize,    \* ChannelPoolSize, the capacity of the buffered Go channel
    NoChannel   \* the nil *amqp.Channel

ASSUME MaxSizeAssumption == MaxSize \in Nat \ {0}
ASSUME NoChannelAssumption == NoChannel \notin Channels

VARIABLES
    conn,       \* "none" before a dial, then "up", then "down"
    pool,       \* "nil" before connect(), then "open", then "closed"
    idle,       \* the buffered Go channel: idle channels, oldest first
    open,       \* the channels that still work
    held        \* held[u]: the channel goroutine u has borrowed

poolVars == <<conn, pool, idle, open, held>>

Held == {held[u] : u \in Users} \ {NoChannel}
IdleSet == {idle[i] : i \in 1..Len(idle)}

\* Channel objects nobody refers to, and the one conn.Channel() returns: they
\* are interchangeable, so which one it is makes no difference.
Fresh == Channels \ (open \cup IdleSet \cup Held)
NewChannel == CHOOSE ch \in Fresh : TRUE

PoolInit ==
    /\ conn = "none"
    /\ pool = "nil"
    /\ idle = <<>>
    /\ open = {}
    /\ held = [u \in Users |-> NoChannel]

----------------------------------------------------------------------------
(* Faulty variants of the definitions below, named Slip...: each is a       *)
(* plausible slip in the Go code.  Nothing refers to them; putting one in   *)
(* the place of its original makes a property fail (PROJECT.json, mutants). *)

SlipRemaining == idle                   \* Get that only peeks
SlipGetAllowed == pool # "nil"          \* Get without the closed check
SlipGetFails == FALSE                   \* Get that waits for a connection
SlipHasRoom == Len(idle) <= MaxSize     \* off by one
SlipClosedWithPool == {}                \* Close that drops the channels

----------------------------------------------------------------------------
(* connect(): the pool is published only when the manager's lock is         *)
(* released, so dialling, borrowing the set-up channel, declaring the       *)
(* exchange and giving the channel back are one step with three outcomes.   *)

\* Whether connect() may run: Start calls it once, and no pool exists yet.
CanConnect == pool = "nil"

\* The exchange is declared; the deferred Put leaves the channel in the pool.
Establish ==
    /\ CanConnect
    /\ conn' = "up"
    /\ pool' = "open"
    /\ Fresh # {}
    /\ idle' = <<NewChannel>>
    /\ open' = {NewChannel}
    /\ UNCHANGED held

\* No set-up channel: the connection is closed, the empty pool stays open.
SetupGetFails ==
    /\ CanConnect
    /\ conn' = "down"
    /\ pool' = "open"
    /\ UNCHANGED <<idle, open, held>>

\* The declaration is refused: pool and connection are closed, and the
\* deferred Put closes the set-up channel.
DeclareFails ==
    /\ CanConnect
    /\ conn' = "down"
    /\ pool' = "closed"
    /\ UNCHANGED <<idle, open, held>>

\* The connection goes down, lost or closed by the manager, and every channel
\* of it dies.
ConnDown ==
    /\ conn = "up"
    /\ conn' = "down"
    /\ open' = {}
    /\ UNCHANGED <<pool, idle, held>>

\* The broker closes one channel.  A channel exception arrives asynchronously,
\* so the channel may be idle again by then.
ChannelError ==
    /\ \E ch \in open : open' = open \ {ch}
    /\ UNCHANGED <<conn, pool, idle, held>>

----------------------------------------------------------------------------
(* Get: an idle channel if there is one, whatever its health, else a new    *)
(* one from the connection.                                                 *)

\* Get refuses once the pool is closed.
GetAllowed == pool = "open"

\* What is left in the pool after a receive from the Go channel.
Remaining == Tail(idle)

TakeIdle(u) ==
    /\ GetAllowed
    /\ held[u] = NoChannel
    /\ idle # <<>>
    /\ held' = [held EXCEPT ![u] = Head(idle)]
    /\ idle' = Remaining
    /\ UNCHANGED <<conn, pool, open>>

CreateChannel(u) ==
    /\ GetAllowed
    /\ held[u] = NoChannel
    /\ idle = <<>>
    /\ conn = "up"
    /\ Fresh # {}
    /\ held' = [held EXCEPT ![u] = NewChannel]
    /\ open' = open \cup {NewChannel}
    /\ UNCHANGED <<conn, pool, idle>>

\* Get returns an error: the pool is closed, or it is empty and the connection
\* does not give a channel (it is down, or the broker's limit is reached).
GetFails == ~GetAllowed \/ idle = <<>>

----------------------------------------------------------------------------
(* Put: back into the pool if it is open and has room, else close it.       *)

\* Put(nil) does nothing.
Holds(u) == held[u] # NoChannel

HasRoom == Len(idle) < MaxSize

\* The channel that Put closes when it cannot keep it.
ClosedByPut(u) == {held[u]}

PutBack(u) ==
    /\ Holds(u)
    /\ pool = "open"
    /\ HasRoom
    /\ idle' = Append(idle, held[u])
    /\ held' = [held EXCEPT ![u] = NoChannel]
    /\ UNCHANGED <<conn, pool, open>>

PutClose(u) ==
    /\ Holds(u)
    /\ pool # "open" \/ ~HasRoom
    /\ open' = open \ ClosedByPut(u)
    /\ held' = [held EXCEPT ![u] = NoChannel]
    /\ UNCHANGED <<conn, pool, idle>>

Put(u) == PutBack(u) \/ PutClose(u)

\* Channels that Close closes: all that are idle.
ClosedWithPool == IdleSet

\* Close: a second call returns at once.
ClosePool ==
    /\ pool = "open"
    /\ pool' = "closed"
    /\ open' = open \ ClosedWithPool
    /\ idle' = <<>>
    /\ UNCHANGED <<conn, held>>

----------------------------------------------------------------------------
Get(u) == TakeIdle(u) \/ CreateChannel(u)

PoolNext ==
    \/ Establish \/ SetupGetFails \/ DeclareFails
    \/ ConnDown \/ ChannelError
    \/ ClosePool
    \/ \E u \in Users : Get(u) \/ Put(u)

PoolSpec == PoolInit /\ [][PoolNext]_poolVars

----------------------------------------------------------------------------
PoolTypeOK ==
    /\ conn \in {"none", "up", "down"}
    /\ pool \in {"nil", "open", "closed"}
    /\ idle \in Seq(Channels)
    /\ open \subseteq Channels
    /\ held \in [Users -> Channels \cup {NoChannel}]

\* A channel is lent to one goroutine at a time and is never both lent and
\* idle: AMQP channels must not be shared between concurrent publishers
\* (Get and Put, lines 83-126).
Exclusive ==
    /\ \A u, v \in Users : held[u] = held[v] /\ held[u] # NoChannel => u = v
    /\ \A u \in Users : held[u] \notin IdleSet
    /\ \A i, j \in 1..Len(idle) : idle[i] = idle[j] => i = j

\* No channel is left open on the broker with nobody to close it: whatever
\* way Get, Put, Close and a failed connect() interleave, a working channel is
\* idle in an open pool or in somebody's hands (lines 105-152, 338-359).
NoOrphan == open \subseteq IdleSet \cup Held

\* The channels kept idle never exceed the configured size, and none is idle
\* in a closed pool, where a send would panic (lines 113-116, 145-146).
IdleBounded == Len(idle) <= (IF pool = "open" THEN MaxSize ELSE 0)

\* A pool that has been closed opens no further channel and lends none: Close
\* is final for callers that took the pool pointer before it (lines 87-89).
ClosedIsFinal ==
    [][pool = "closed" =>
         /\ pool' = "closed"
         /\ open' \subseteq open
         /\ \A u \in Users : held'[u] \in {held[u], NoChannel}]_poolVars
============================================================================
