# Formal models of sunny

`sunny` (module `github.com/hfup/sunny`) is a Go application framework: it starts a
web server, gRPC servers and sub-services, and hands the application message
queues, limiters, caches, a key ring, sequences, tasks and cloud clients. This
directory holds TLA+ models of the parts of it that carry concurrent or
failure-prone logic, the TLC configurations that check them on small instances,
and theorems about them checked by TLAPS. All paths below are relative to `src/`.

Run from this directory:

    tlc -workers 2 -config MCMqManager.cfg MCMqManager
    tlapm MqManagerProofs.tla

## 1. Inventory

| component | code | state | operations | hard behaviours |
|---|---|---|---|---|
| RabbitMQ channel pool | `components/mqs/rabbitmq.go` 56-152 | buffered Go channel of AMQP channels, `closed`, the connection | `Get`, `Put`, `Close`, `createChannel` | borrowers against `Close`; channels that die while lent or idle; a full pool |
| RabbitMQ manager, producer | `components/mqs/rabbitmq.go` 154-684, 826-865 | `isConnected`, `mu`, pool and connection pointers, context, ticker | `Start`, `connect`, `Publish`, `Close`, `Reconnect`, monitor loop, resend loop | pointers read under a read lock and used after it; retries; a lock that is not reentrant; lost connections |
| RabbitMQ consumers | `components/mqs/rabbitmq.go` 686-820 | a channel of the pool, a delivery stream, `done` | `Consume`, `consumeLoop` | acknowledgement and requeue, a worker that must end and give its channel back |
| Failed-message stores | `components/mqs/memory_store.go`, `file_store.go` | a map; a JSON file | `Store`, `Retrieve`, `Remove`, `Clear`, `Backup`, `Restore` | crash between write and rename; writes that fail; lost updates |
| Kafka manager, producer | `components/mqs/kafka.go` 58-543, 685-740 | as RabbitMQ's, with a sarama client and producer | `Start`, `connect`, `Publish`, `Close`, `Reconnect`, monitor, resend | as RabbitMQ's; a read lock held while a message is on its way; answers that are lost |
| MQ factory | `components/mqs/factory.go` | none | `CreateMqManager` | none |
| Kafka consumers | `components/mqs/kafka.go` 548-700 | consumer group session, marked offsets | `ConsumeClaim`, `Consume` | a failed message behind a later mark; rebalances |
| In-process keyed lock | `components/limits/limit.go` 28-136 | `muMap`: key -> mutex with a reference count | `DoWithTryLock`, `DoWithWaitLock`, `getMutex`, `releaseMutex` | a mutex dropped while a caller is about to lock it |
| Redis keyed lock | `components/limits/limit.go` 138-286 | Redis keys with a time to live | the same, `WithValue` variants, `releaseLock` | expiry while a function runs, lost answers, crashes, cancelled contexts |
| Local cache | `components/caches/local.go` | `sync.Map` of items with expiry, a single-flight group, a cleanup goroutine | `Get`, `Set`, `Delete`, `Clean`, `cleanup`, `Exists`, `GetWithTTL`, `Close` | check and delete in two steps; concurrent loads of one key |
| Redis cache | `components/caches/redis.go` | Redis keys, a single-flight group | `Get`, `Set` and its variants, `Delete`, `Clean`, `SetTTL` | a miss and a load of the same key by many callers |
| JWT key ring | `components/auths/jwt.go`, `sunny.go` 973-981 | nine keys and an index, in the manager, on disk and in every application | `Start`, `SetKeys`, `UpdateKey`, `GenerateSignature` | rotation against tokens in use; updates that fail, repeat or are late; restarts |
| Sequences | `components/sequences/*.go` | a counter, in memory or in Redis | `Next`, `Reset` | wrap-around, concurrent callers, lost answers |
| Task manager | `components/tasks/task.go` | a map of tasks that nobody makes | `AddTask`, `RemoveTask`, `Start` | none: see "Not modelled" |
| Application lifecycle | `sunny.go` | servers, sub-services, contexts | `Init`, `Start`, `AddSubServices` | one part that fails to start, shared error variable, shutdown order |
| Routing and middleware | `role.go`, `group.go`, `context.go`, `sunny.go` 342-424, 711-765 | lists of before- and after-handlers of roles and groups | `UseRoles`, `UseBefore`, `AddRoleBeforeHandler`, `initWebRoutes`, `AbortAction`, a request | registration in any order; an abort or a panic in the middle of the chain |
| Remote resources | `resources.go` | configuration fetched at start | `Init` | one of several resources failing |
| gRPC clients | `sunny.go` 777-812, `components/grpcclients/` | map of clients | `GetGrpcClient` | double-checked creation |
| Object storage | `components/storages/*.go` | lazily made client | upload, sign | racing creation |
| Databases | `components/databases/*.go` | maps of connections filled at start | lookups | none beyond the libraries' |
| Locations, payments, types, utilities | `components/locations/`, `components/payments/`, `types/`, `utils/` | none | HTTP calls, plain functions | none |

How they interact. The application calls the managers of `components/` from many
goroutines; `sunny.go` builds them from the configuration and starts them.
`RabbitMqManager.Publish`, `RabbitMQProducer.Publish`, the resend loop and the
consumers all borrow AMQP channels from one channel pool; the resend loop calls the
same `Publish` as the application and shares the failed-message store with it; the
reconnect monitor and the application's `Close` and `Reconnect` change the
connection under all of them.

What makes each component correct, in one line each:

- channel pool: a channel has one user at a time and none leaks, whatever closes when;
- manager: a saved message stays saved until delivered or given up; every path gives
  its channel back; "disconnected" means that nothing is left open;
- keyed locks: functions of one key exclude each other (Redis: while the lease lasts),
  "busy" is only said when true, nobody waits for ever, no entry leaks;
- stores: what is stored survives a crash, and a failed write loses nothing stored;
- caches: one load per key at a time and no reload of what is cached;
- consumers: each delivery is acknowledged, or redelivered;
- key ring: a token signed by one application verifies in the others, and its key lives a
  whole round;
- routing: the action runs after all its before-handlers, an abort ends what is left;
- gRPC clients: one connection per service, whoever asks first;
- sequences: an id comes again only after a whole round;
- lifecycle: a part that fails to start stops the start, and a stop ends every part.

## 2. Modules

| module | extends | models |
|---|---|---|
| `ChannelPool` | | the pool, the AMQP connection and its borrowers |
| `Outbox` | | abstract specification of what a manager promises of the messages it could not send |
| `RabbitMq` | `ChannelPool` | the manager with its publishers, producers, resender, monitor, `Start`, `Close`, `Reconnect` and the store |
| `KafkaManager` | `RabbitMq` | the Kafka manager, as what it does differently |
| `MqManager` | `KafkaManager` (`Outbox` by INSTANCE) | the manager the application has: one of the two, by the type in the configuration |
| `KeyedLock` | | abstract specification of a lock per key |
| `UniLimiter` | (`KeyedLock` by INSTANCE) | the in-process keyed lock |
| `RedisLimiter` | `UniLimiter` | the keyed lock over Redis |
| `Limiter` | `RedisLimiter` | the interface `UniLimiterLockerInf`, with one of the two behind it |
| `RabbitConsumer` | `ChannelPool` | consumers of one queue, with the broker |
| `MessageStore` | | abstract specification of a failed-message store, with `Backup` and `Restore` |
| `FileStore` | `MessageStore` | the store in a JSON file |
| `Lifecycle` | | `Sunny.Start`: functions, sub-services, servers, signal and stop |
| `LocalCache` | | the in-memory cache with its loads and its cleanup |
| `KafkaConsumer` | | consumers of one partition in one group |
| `RedisCache` | | both Redis caches over one Redis |
| `JwtKeys` | | the ring of signing keys: its manager and its copies |
| `Routing` | | roles, groups, routes and a request through their handlers |
| `GrpcClients` | | `GetGrpcClient` |
| `IdSequence` | | the local and the Redis sequence |
| `MCServices` | `JwtKeys`, `Routing`, `GrpcClients`, `IdSequence`, `RedisCache` | one of them at a time, for TLC |
| `ChannelPoolProofs`, `MqManagerProofs`, `LimiterProofs`, `RabbitConsumerProofs`, `KafkaConsumerProofs`, `FileStoreProofs`, `LocalCacheProofs`, `SunnyProofs` | the module, `TLAPS` | theorems; `MqManagerProofs` has those of both managers, `SunnyProofs` those of `Lifecycle`, `JwtKeys`, `GrpcClients`, `IdSequence`, `Routing` and `RedisCache` |
| `MC…` | the module | model values for TLC |

### ChannelPool

`idle` is the buffered Go channel, `pool` the pointer and the `closed` flag together
("nil", "open", "closed"), `held[u]` the channel a goroutine has between `Get` and its
deferred `Put`. `open` is the set of channels that work: a channel object may be dead
and still idle or lent, since the code never looks. `Get` is `TakeIdle`,
`CreateChannel` or, for the error returns, `GetFails`; `Put` is `PutBack` or
`PutClose`; `ClosePool` is `Close`. Each of the three runs under the pool's mutex and
is one step. `Establish`, `SetupGetFails` and `DeclareFails` are the three ways in
which `connect()` (lines 324-364) leaves the pool. `ConnDown` and `ChannelError` are
the environment: a connection closed or lost, a channel closed by the broker.

### RabbitMq

`pc` says where each goroutine is; the labels follow `Publish` ("start", "get",
"send", "save", "put_…" and the outcome "ok", "saved", "lost"), the resend loop
("idle", "next", then through `Publish`), `connect()` ("dial", "launch") and `Reconnect`
("lock", "close_conn", "dial"). `mu` is the writer of `r.mu`; a read section is one
step, taken while nobody writes. `store` maps record ids to a body and a retry count.
The monitor and the resender read `r.isConnected` without the lock, and so do
`MonitorTick` and `Tick`, between any two steps of `Close`.

`Reconnect` holds `r.mu` and calls `connect()`, which locks it again. `CanLock` is
therefore false for the caller itself and the actions of `connect()` are disabled
for it: the goroutine is stuck as it is in the code.

### KafkaManager, MqManager, Outbox

`KafkaManager` has the variables of `RabbitMq`, since the code has the same fields: `conn` says
whether the client reaches the brokers, `pool` is `k.producer` (nil, open, closed), and the
channels stay empty. What differs has actions of its own: `KafkaManager.Publish` checks,
sends and saves under one read lock (366-411), so `readers` are those who hold it and `NoReaders`
is in the guard of whoever takes the write lock; `KafkaProducer` takes no lock (702-740);
`SendMessage` is two steps, the brokers' (`BrokersAccept`) and the answer's, and the answer may be lost
after the brokers have taken the message (`ProduceFails`); the brokers go and come back
by themselves (`BrokersLost`, `BrokersBack`), as sarama reconnects. The resend loop, the
monitor, `Close` and `Reconnect` are those of `RabbitMq`, line by line. `MqManager` chooses
the manager once (`kind`), as `CreateMqManager` does.

`Outbox` knows the store and the messages the broker has, and nothing else: a message is taken
(`Taken`), kept in a record of its own (`Keep`), a resend of a stored record fails and counts once, up to
`MaxRetries` (`CountFailure`), a record goes once its message has arrived or its retries are used up (`Drop`).
`MqManager` has its variables, so the refinement mapping is the identity. It promises no more
than the code keeps: a message may be lost before it has a record (519), may have two, and may be taken
twice.

### UniLimiter, KeyedLock

`muMap` and `refCount` are the map and the counts; `mine[p]` is the pointer a caller
has from `getMutex`. The map operations run under `l.mux` and are one step each;
taking the key's mutex (`Lock`, `TryFails`), leaving it (`Unlock`) and `releaseMutex`
are steps of their own. A function that returns an error leaves by the same steps.
`KeyedLock` has the owner of each key and the requests; the refinement mapping takes
as owner the caller at "run" and as requests the callers that have neither been
served nor refused.

### RedisLimiter, Limiter

`at`, `want` and `how` are the caller's place, its key and whether it waits, as `pc`, `key` and
`mode` are in `UniLimiter`; `redis[k]` is the value under the key. The caller's random value is the caller itself
(16 random bytes per call never repeat). `Acquire`, `Occupied` and `SetFails` are the
results of SETNX, the last one with the command carried out or not; `WakeUp` and
`GiveUp` the pause of 300 ms; `Release` the script that compares and deletes;
`ReleaseFails` its ignored error; `Expire` the time to live; `Crash` the end of the
process.

`Limiter` is a program with one of the lockers: `kind` says which, and the other one's
variables stay as they are. Its callers are the same in both.

### RabbitConsumer

`pc[c]` is where a consumer is: `Consume` ("get", "setup"), `consumeLoop` ("loop",
"handle", "ack", "nack") and "blocked", the send to `c.done` at lines 799 and 803. Nothing
in the repository reads `c.done` and it has no buffer, so a loop that ends stays there and
its deferred `Put` (line 792) is never reached; the model has no action out of "blocked"
but the end of the process. `held[c]` of `ChannelPool` is the consumer's own channel.
The broker is external: `ready` is the queue, `unacked[c]` what it has sent to `c` and
not seen settled, `stream[c]` the Go channel `c.delivery`. `Redeliver` is part of every step
in which a channel may die. `Ack` and `Nack` do nothing over a dead channel (their errors are
ignored) and with `AutoAck`.

### FileStore, MessageStore

`file`, `tmp` and `backup` are the three files; a file is whole, absent, empty or broken.
`os.WriteFile` is two steps (truncated, then whole) and either may be the last one, by an
error (`StepFails`) or because the process dies (`FCrash`); `os.Rename` is one. `writer` and
`readers` are the `RWMutex`; `data[p]` is what a goroutine has in memory. `Retrieve` and
`Count` read under the read lock, in one step, since a write excludes them. In `MessageStore`
a call takes effect in one step or fails and changes nothing, and a crash keeps what was
stored. It admits damage only for the file a `Restore` or a `Backup` in progress
writes to. `FileStore` has its variables, so the refinement mapping is the identity.

### Lifecycle

`pc` and `i` are the place of `Start` and its position in the list it works on: functions at
the start, sub-services, synchronous functions, services, servers to shut down, functions at
the stop. `Return` is every `return` after line 478 with its deferred `cldCancel`. `sub`,
`async` and `serving` are the goroutines it starts. The channel on which a sub-service
answers has no buffer, so that answer and receipt are one step (`SubStarted`, `SubFails`).
`err` is the one variable of lines 472-660, which the asynchronous functions assign too;
calling `Error()` on nil ends the process (`Die`). A gRPC goroutine uses the server that
`grpcServer` holds when it runs: `servedBy` remembers which one it was. A server that
cannot listen, and a gRPC server that was stopped before it began, are fatal (590, 607, 631).
`Shutdown` closes the listener at once; that it waits up to a second for open requests
makes no difference here. `Detached` are sub-services like the MQ managers, whose
goroutines have a context of their own: `Start` never closes them.

### LocalCache

A call of the `sync.Map` is one step and two calls are two: `Get` that finds an expired item goes
to "drop", and deletes whatever is there when it gets on (`Drop`); so do `Peek` (`Exists`,
`GetWithTTL`) and the cleanup. `group.Do` of `singleflight` is `flight[k]`, the getter that leads the
call of a key: `Lead` or `Join`, and `Finish`, which answers all that wait (`Served`). The leader looks
a second time (`LookAgain`), loads (`Load`, `LoadFails`) and stores (`StoreLoaded`); that it
loads with its own context, also for those that wait, is one of the reasons for `LoadFails`.
A cache without a `loadFunc` answers at once (`NotFound`). `Range` is `todo`, the keys yet to
be visited. `due` and `seen` only remember: the keys that lost their item since their last load, and
what a `Get` might have answered since it began.

### KafkaConsumer

`session[m]` is where the goroutine of `Consume` is: "out" between two calls of
`consumerGroup.Consume`, "claimed", "revoked" (a rebalance waits for it, or its context is done),
"evicted" (the group no longer waits) and "blocked", the send to `c.done`. `pc[m]`, `pos[m]` and
`marked[m]` belong to `ConsumeClaim`: "loop", "handle", "mark", "commit", the message it is at, the
offset marked. The group, its generations and its one committed offset are external: a commit counts
only while the group counts on its sender (`InGroup`), and may be lost. `Flush` is sarama's
automatic commit, which is on by default in the configuration that the group really
uses, the manager's.

### JwtKeys

`chain` and `cur` are `keysChain` and `currentKeyIndex` of the manager, `disk` what the
application has persisted in `keyUpdateHandler`, `copy` and `copyCur` the fields of each
application's `Jwt`, `queue` the updates on their way. The handlers are the application's. The
comment at `KeyUpdateHandler` (155-156) asks for a new key to be persisted and suggests a queue for telling
the other services, and says nothing of the two together. So they are two steps, `PersistKey` and
`PublishKey`, in either order, and the handler may return an error (`HandlerFails`) or die (`Crash`) before,
between and after them; the manager only logs an error (222, 267). A restart loads what was persisted
(`LoadKeys`). `told` only remembers which updates were published after they had been persisted. A tick
is two steps (`Rotate`, `MoveIndex`), as the slot is written before the index and both are
read without a lock; a slice that is read while it is replaced is taken to be the old one or the
new one. A key is the number of its making, so that its age is known. `UpdateKey` may be
delivered again, and leaves `currentKeyIndex` alone, as the code does.

### Routing

The application registers (`AddRoleHandler`, `UseRoles`, `UseOnRole`, `UseGroups`, `UseOnGroup`), in
any order; then `initWebRoutes` takes one route after the other (`AddRoute`) and injects what was
registered for the route's role, one handler per step (`Inject`); then a request enters (`FindRole`).
`Places` says where `sort.Slice` puts a handler that was appended to a sorted list. A handler is
its order and the number of its registration. `request.at` is the list the request is in,
and `AfterAbort` and `AfterList` are the two ways on from there. `ActionNext` is looked at after each
handler and never before the first, so the first after-handler of a list runs after an abort
as well. A role that has two routes has what was registered for it injected twice, as in
the loop at 378-391.

### GrpcClients, IdSequence, RedisCache

`GetGrpcClient` is a look under the read lock and, if it fails, a second one with the making of the
client under the write lock; each is one step. In `IdSequence`, `answer[d]` is the result of
the script on its way to the caller, which may never arrive, and `draws` and `round` only count. In
`RedisCache` a command is one step of Redis; `flight`, as in `LocalCache`, is the leader of
`group.Do`; a caller whose nested `Get` waits for the flight it leads is "stuck" for ever.

## 3. Runs

| run | instance | shows |
|---|---|---|
| `mq_manager` | either manager; a publisher, a producer, resender, monitor, one `Close`, one `Reconnect`, 3 record ids, a store whose writes may fail | `HoldsOnlyWhileSending`, `DisconnectedMeansDown`, `RoundIsStored`; what it owes its messages (`ImplementsOutbox`); no channel is shared or leaked (`Exclusive`, `NoOrphan`); a closed pool lends and opens nothing (`ClosedIsFinal`); nobody closes the Kafka producer under a message of the manager (`ReadersKeepProducer`); a publisher past the connection check returns even when the lock is stuck (`PublishReturns`); a connection that stays healthy empties the store (`HealthyDrains`) |
| `mq_reconnect` | either manager, one `Reconnect` | **violated**: `Reconnect` never returns (`ReconnectReturns`) |
| `rabbit_consumer` | two consumers that acknowledge and one with `AutoAck`, one message, 2 channels | no message is lost (`NothingLost`), two consumers handle it at once only over a dead channel (`HandledOnce`), and it is consumed however often the handler refuses it (`AllConsumed`) |
| `file_store` | 3 goroutines, 2 message ids | the file store implements `MessageStore` (`ImplementsStore`); only an interrupted `Restore` damages the file (`DamagedByRestoreOnly`) |
| `limiters` | either locker, 3 callers that try or wait; 2 keys and 3 mutexes in process, 1 key over Redis | `MutualExclusion`, `WaitersServed`, and `KeyedLock` is implemented (`ImplementsKeyedLock`), so that "busy" is never said of a free key; over Redis `ExclusiveWithinLease`, `ReleasesOwnLock`, `WaitingEnds` |
| `lifecycle` | 3 sub-services, the second fatal, the third detached; 2 asynchronous functions, 2 stop functions, every list of up to 3 services | a fatal failure ends the start (`NothingAfterFatal`); an orderly stop leaves no server but replaced gRPC servers (`LeftServing`) and runs every stop function (`EveryStopFunctionRuns`); sub-services end however `Start` returns (`SubServicesEnd`) |
| `lifecycle_async` | 2 asynchronous functions, up to 1 service | **violated**: what is logged as a function's error is not one (`LoggedIsError`) |
| `local_cache` | 2 goroutines that get, one that calls the other methods, 1 key, 2 values, with and without a loader | a key that was loaded is loaded again only once it has lost its item (`LoadedOncePerLoss`); an answer was current at some time during the call (`AnswersCurrent`); every `Get` is answered (`GetAnswered`); expired items leave the map (`ExpiredLeaves`) |
| `kafka_consumer` | two consumers that commit by hand, one with `EnableAutoCommit`, 3 messages, 2 generations | what is committed was given to a handler, but for what a session began behind before the group had an offset (`CommittedWereTried`) and its last message accepted (`CommitsFollowSuccess`); the offset never goes back (`OffsetGrows`); while one consumer is at work every message is given to a handler, with the same exception (`EachIsTried`) |
| `kafka_commit` | one consumer, 2 messages | **violated**: what a handler refused is not committed (`RefusedNotCommitted`) |
| `services` | one part at a time: a ring of 3 keys with 2 applications, 4 keys made, 2 updates on their way; 3 handlers of one role with one route, two or none; 3 callers of 2 gRPC services; 3 callers of a sequence of 3 ids that draw 7; 3 callers of both Redis caches, one key, 2 values | a key that is replaced has lasted a round, whatever handlers failed (`KeysLastARound`); a token whose key was persisted and then published verifies everywhere (`TokensTravel`); `GuardsPassed`, `AbortStops`; `OneConnection`; `IdsDistinct`; one flight per key (`FlightsAreLed`) |
| `redis_cache` | 2 callers of both caches, one key, 2 values | **violated**: a `Get` without an error returns what was stored (`GetReturnsStored`) |

`CHECK_DEADLOCK FALSE` is set where the program may really stop: in `MqManager`
when every one-shot caller has returned and the connection is down or
`Reconnect` is stuck, in `Limiter` when every process of the Redis locker has crashed, in `Lifecycle` when
`Start` has returned and its goroutines are done, in the Kafka consumers when every consumer is
blocked or the bounds are used up, in `MCServices` when a request has been served or the numbers are
drawn. The cache, the RabbitMQ consumers and the file store are checked for deadlock (in the
last two a restart of the process is always possible, so this says little). That no caller of the in-process
locker waits for ever is `WaitersServed`.

### Bounds

- Channels: a new channel is needed only when the pool is empty, so no more are alive
  than borrowers plus the pool; dead ones are reused once nobody refers to them.
- Record ids in `MqManager`: a failing resend adds a record (`Publish` saves a copy), so
  the store doubles in each round while the connection is down. `Room` lets a
  round begin, and a fault or `Close` happen, only while the free ids suffice for one
  copy of each stored record and one record of each publisher still running. With three
  ids this still lets a record fail, be copied, and both be resent or given up
  in later rounds.
- `tries` is capped at `MaxRetries + 1`. Each publisher sends one message;
  `Start` is called once, as in `sunny.go`.
- `RedisLimiter`: a caller has one key at a time and keys do not touch each other, so one key
  (`RedisKeys`) with three callers (holder, late releaser, waiter) shows every interplay. In
  process the keys share the map and the mutexes, hence two.
- `JwtKeys`: with three slots, the fourth key replaces the first, also when the keys between were not
  persisted or not published; two applications are the one that signs and the one that verifies, which start
  again at any time; two updates on the way (`MaxWaiting`) are one behind another. The applications are
  interchangeable (`MCSymmetry`; no liveness is checked there), and states of this part are told apart by its own
  variables (`MCView`), as the other parts stand still. The theorems
  hold for any length of the ring, any number of applications, keys and
  updates on their way.
- `Routing`: three handlers are one registered for the role before
  its route, one for its group, and one more before or behind either; requests share nothing that
  changes, so one is enough. `GrpcClients`: three callers are two that race and one that is
  late; `MaxConns` is one more than the marks. `IdSequence`: seven draws pass the wrap of three
  ids twice; base and places only matter through `MaxValue`.
- `RedisCache`: three callers are a leader, one that joins its flight and one that comes late or joins
  as well.
- Consumers: messages do not touch each other (the broker keeps no order and no
  limit on deliveries is set), so one message with two consumers that may both get it and
  one with `AutoAck` shows every interplay; two channels for three consumers make the pool
  run dry. The theorems hold for any number.
- File store: two ids with one value each tell lost, kept and removed messages apart;
  two goroutines that wait while a third is in a call show lost updates.
- `LocalCache`: keys do not touch each other (the map, the flights and the loop of the cleanup
  are per key), so one key is enough; two values tell a current answer from a stale one, and two
  getters are a leader and one that joins, or comes late. The theorems hold for any number.
- Kafka: three messages are one that is committed, one behind it that a session was taken away from, and one
  that might be committed past it; two generations let a claim be taken over once, by a session that starts
  from an offset or without one. The theorems hold for any number of both.
  `MayRebalance` lets a claim end only while a generation is left
  for another to begin, so that the bound stops no partition for ever. Partitions do not touch each
  other.
- `Lifecycle`: the second of three sub-services is the fatal one, so that there is one
  before and one after it; three services give two gRPC servers with an HTTP server before,
  between or after them. Functions of one kind run one after the other, and one or two of
  each show every order against the goroutines.

### Fairness

- A goroutine that can go on does (weak fairness of each goroutine's steps): the Go
  scheduler is fair to runnable goroutines, `Put` and `Unlock` are deferred, and the
  functions and handlers given to the framework are assumed to return. Calls by the
  application and faults have no fairness.
- `MqFairness`: besides, a store whose writes may fail does not fail for ever (strong fairness of
  the writes of the resend loop), and a call of `Start`, `Close` or `Reconnect` that has begun goes on.
- `Lock` of the in-process limiter is strongly fair: `sync.Mutex` hands itself to a
  waiter that has waited more than one millisecond.
- Redis: every time to live ends; of successful SETNX commands on a key that can
  succeed again and again, not every answer is lost.
- Consumers: a loop that can go on does; of the deliveries of a message, the broker does not
  pass over a consumer for ever (strong fairness of `Deliver` and `Receive` for each
  message), and a handler that is called with a message again and again accepts it at
  last. `AllConsumed` is conditional: from some time on a consumer is at work and no consumer
  that has ended still has a working channel. The code does not guarantee this condition (a
  cancelled consumer stays registered with the broker), so it is in the property and not
  in the fairness.
- `Lifecycle`: only a sub-service that minds its context is fair: it ends once the context is
  done (the contract of `Start(ctx, ...)`, `types/base.go` 23).
- `LocalCache`: the steps of a getter and of the cleanup; load functions return.
- Kafka: the steps of each consumer's goroutine, handlers included. Calls, rebalances, faults and new
  messages have none. `EachIsTried` is conditional on one consumer that is at work for ever,
  since one error ends a consumer for good (677).
- Tickers tick: `Tick`, `MonitorTick` are weakly fair within their goroutine.

### Faulty variants

The operators whose names begin with `Slip` are plausible mistakes (a dropped guard, a
missing reset, an off-by-one). No specification refers to them. `PROJECT.json`
("mutants") says which one, put in the place of its original, breaks which
property: each property is shown to depend on the code it is about.

## 4. Proofs

The theorems hold for every number of goroutines, channels, keys, records and retries
within the named assumptions of the modules (the goroutines of different roles are
distinct, `MaxSize` and `MaxRetries` are positive, the null values are not members).
`UniLimiter` assumes a finite set of callers, since it counts them.

- `ChannelPoolProofs`: `PoolTypeCorrect`, `PoolExclusive`, `PoolNoOrphan`,
  `PoolIdleBounded`, `PoolClosedIsFinal`. The inductive invariant is the conjunction of the
  four state properties and the absence of a pool before `connect()`; `Exclusive`
  needs the fresh channel of `CreateChannel` to be neither idle nor lent.
- `MqManagerProofs`, RabbitMQ: `ManagerUsesPool` shows that every step of the manager is a step of
  the pool or leaves it alone, so that the theorems of the pool carry over. The manager's own
  invariant (`Inv`) adds who holds `mu` at which label, that a borrower past the connection check
  implies a pool, and that "connected" implies that `Start` is over: `TypeCorrect`, `PoolExistsBeforeUse`.
  Two parts are shared with Kafka. `StoreInv`: the record being resent is stored with retries left, and
  producers never save. `SentBeforeOk`: a message is in `sent` when the
  resender settles it with "ok". Both are needed for a step of the loop to be a step of `Outbox`: without
  the first `CountFailure` might pass `MaxRetries`, without the second `Drop` might come too early.
- `MqManagerProofs`, Kafka (`KafkaInv`): a reader of the lock sends or saves and nobody writes then; a reader
  that sends is connected; connected, with no writer, means that the producer is open, and whoever closes has
  said so before it unlocks. The channels of `ChannelPool` stay unused (`NoChannels`).
- Together (`MqInv`), for whichever manager is in use: `EitherImplementsOutbox`, `SavedMessagesStay` (the
  action property `StoredUntilDone`, which follows from `Outbox`), `RoundsWorkOnStored`, `ChannelsGoBack`,
  `ManagerExclusive`, `ManagerNoOrphan`, `ManagerClosedIsFinal`, `NoHiddenConnection`,
  `ProducerKeptForReaders`. `ManagerIsOneOfTwo` shows that it stays the same manager for ever.
- `LimiterProofs`, in process: `TypeCorrect`, `Exclusion`, `CountExact`, `BusyJustified`, `Refinement`.
  The heart is that all callers between `getMutex` and `releaseMutex` of a key have the
  mutex that is in the map, and that the count is the cardinality of this set, so the
  entry goes with the last of them and never earlier.
  Over Redis: `LeaseKept`, `LeaseExcludes`, `OwnRelease`, from `LeaseHeld` and the
  fact that a caller between SETNX and release has a key. `LimiterIsBoth` carries all of them to
  whichever locker is in use.

- `RabbitConsumerProofs`: `NoMessageLost`, `NoDoubleHandling`, `ConsumerTypeCorrect`. The
  invariant says that a consumer whose channel works has at hand only what the broker
  counts as unacknowledged on it, that no message is counted at two places, and that a dead
  channel counts nothing; the invariant of the pool is carried over step by step, since
  `Restart` is not a step of the pool.
- `FileStoreProofs`: `StoreRefinement` (every step of the file protocol is a step of
  `MessageStore` or a stutter), `OnlyRestoreDamages`, `StoreTypeCorrect`. The invariant: a
  goroutine past the lock is the writer or a reader and never beside a writer, what it
  has read is still what the file holds, and before the rename the temporary file holds the
  whole result.

- `SunnyProofs`, `Start`: `FatalEndsStart`, `StopClosesServers`, `StopRunsAll`, `LifecycleTypeCorrect`.
  The invariant follows the position of `Start`: before the servers, no goroutine but those of
  sub-services exists and none after position `i`; during the shutdown the HTTP servers before
  `i` are down, also for goroutines that have not begun; a gRPC service that serves has a
  server, and one that has yet to begin implies that `grpcServer` is set.

- `SunnyProofs`, key ring: `KeysOutliveARound`, for any length of the ring. The invariant: a key in
  a slot has seen at least as many younger ones as its slot lies behind the current one, in the
  ring and in what is persisted, so that it holds again after a restart, however many updates
  were not persisted. `TokensAreGoodElsewhere`: of a key that was told (persisted, then published) the
  persisted ring has it in its slot, or a younger one; every application has it, or a younger key of the slot, or
  waits for it, and it waits behind all older keys of the slot. What a handler persists or publishes
  is younger than all that was told (`FreshKey`), so a key that is only persisted, or published first, spoils none
  of this, wherever its handler stops.
- `SunnyProofs`, gRPC: `OneConnectionPerMark`. Sequences: `IdsAreDistinct`; a number that was drawn
  in this round was drawn at least as many draws ago as the counter needs to get from it to where
  it is, so that when the counter is one before it a whole round has passed.

- `KafkaConsumerProofs`: `OffsetsCoverTried`, `OffsetsFollowSuccess`, `OffsetNeverGoesBack`,
  `ConsumerGroupTypeCorrect`. The invariant relates position, mark and commit of the one consumer that
  the group counts on: what lies before its position was given to a handler, or a session without
  an offset began behind it, what it has marked was accepted and is not ahead of its position, and the offset of the
  group is not ahead of it either.

- `LocalCacheProofs`: `NoNeedlessLoad`, `AnswersAreCurrent`, `CacheTypeCorrect`. The invariant: who works
  in a flight leads it, so there is one per key; a key that is not due has a fresh item, hence a
  second look that misses finds the key due, and only the leader's own store can end that; and
  a `Get` under way has seen all that is current now.

- `SunnyProofs`, routing: `ActionsAreGuarded`, `AbortsStop`, for any roles, paths, routes, orders and any
  number of handlers. The trace `ran` is a prefix of the role's before-handlers followed by the group's, up to
  where the request is (`RanInv`), and the action stands where both are over (`Checked`). That it is in ascending
  order needs more: each list is sorted, so `InsertHandler` says that an insertion at one of `Places` keeps a
  list sorted and its handlers; two handlers of one list may yet be in the trace in the order of the other list, so
  no handler is in a list of a role and in one of a group, which the number of its registration tells
  (`HandlersInv`). What was registered for a role with a route is in its list or about to be injected
  (`RoutedInv`). `AbortInv` says where a request may be after an abort and what it may have run since.

- `SunnyProofs`, `RedisCache`: `OneFlightPerKey`, `RawAnswersAreStored`, for any callers, keys and values. That
  whoever has joined waits for a leader is not inductive by itself: a flight must not be found with a leader that
  has left, hence `LeadersFly`. The second theorem shows that what `GetReturnsStored` finds
  broken is the typed cache alone (`RawOnGround`: a raw `Get` takes no flight).

Every invariant, action property and refinement of the passing runs is stated by a theorem. Model-checked only is
what needs fairness (`PublishReturns`, `HealthyDrains`, `AllConsumed`, `WaitersServed`, `WaitingEnds`,
`SubServicesEnd`, `GetAnswered`, `ExpiredLeaves`, `EachIsTried`), since `ENABLED` is out of the prover's reach.
`StoredUntilDone`, `BusyIsTrue` and `RawAnswersStored` are the other way round: proved and in no run, the first two
because the refinements of their run (`ImplementsOutbox`, `ImplementsKeyedLock`) imply them.

## 5. What the code does against its own words

- `Reconnect` takes `r.mu` and calls `connect()`, which takes it again: it never
  returns, and every later reader of the manager blocks, in either manager (run `mq_reconnect`). A tick
  that is pending when `Close` runs leads the monitor there too.
- The remaining ones are not runs; the models reproduce them. `ChannelPool.Get` (94) says it
  checks the channel and does not, so a dead channel is lent again and again.
  `Publish` (519) returns the error of a failing `Get` without saving the message,
  against line 159. A failing resend saves a second record of the message with a count
  of zero, so `MaxRetries` (26) bounds each record but not the message. A lost
  connection is never noticed (158, 633): `isConnected` becomes false only in `Close`.
  `DoWithWaitLock` over Redis (`limit.go` 17) is said to be serial, but the time to live
  is never renewed; `ExclusiveWithinLease` states what does hold.
  A consumer's loop ends at a send that nobody receives (799, 803): the goroutine, its
  channel and its registration stay, against the comment at 790 ("release the channel when
  consumption ends"). `Restore` (274) writes the store's file in place, unlike the other methods
  (208): interrupted, it leaves an empty file, which is read as "no messages", or a broken one.
- `Start` gives all its asynchronous functions one variable `err` (563): the test at 564
  protects `err.Error()` at 566 from nil, but another function may clear it in between, and
  the process panics (run `lifecycle_async`). Not runs: with several gRPC services only the last
  server is stopped (648), and two goroutines may serve with the same one (630); an error at
  602 or 616 leaves the servers before it running; without services `Start` returns at once and
  cancels the context of everything it has started; the MQ managers are never closed.

- A Kafka consumer that commits by hand goes on with the next message after a failure (577), and the
  offset of that one covers the failed message, against 576 and 97 (run `kafka_commit`). Not runs: with
  `EnableAutoCommit` no message is ever marked, so nothing is committed, against 96 and 586; the
  configuration made in `Consume` (637-656) is never used, so the offset reset and the
  timeouts given have no effect, and a group without an offset begins with new messages, so that until the first
  commit (with `EnableAutoCommit`, always) a message whose session ends before it is taken is lost: the next
  session begins behind it, and `CommittedWereTried` and `EachIsTried` excuse exactly these; nobody reads
  `c.done`, and the consumer group is never closed.
- The local cache deletes an expired item in a second step (78), and with it what was stored in between;
  a load stores its value over a newer `Set` (102).
- `RedisCache.Get` (133) returns the zero value on a hit, against 126 (run `redis_cache`). Not runs: on a
  miss it unmarshals the empty result (137), which fails with JSON, so that the loader is never called;
  with a serializer that takes it, the `Get` nested in the flight waits for its own flight (147).
  `Clean` with an empty prefix deletes every key of the Redis.
- Also not runs: `UpdateJwtKey` (`sunny.go` 973) says that the index it is given is the active one,
  but `Jwt.UpdateKey` never moves `currentKeyIndex`, so that an application signs with the slot that
  was current when it started; a key update handler that does what 155-156 ask, in either order, but stops between
  persisting and publishing, leaves an application that starts then signing with a key that no
  other has or is being sent, and one that publishes first does so, until it has persisted the key, for an application that
  restarts after it took the update, so `TokensTravel` claims only keys that were persisted, then
  published; `actionNext` (`context.go` 29) says whether the next handler runs, but the first
  after-handler runs after an abort as well; a role with two routes runs its registered handlers twice, and a role that
  only a `multiRoleHandler` chooses runs none of them; `maxValue` of the sequences is a `float64`, wrong
  from 16 places on; `oss.go` 37 makes the client after two checks without a lock, so that two may be made;
  a message sent over a `KafkaProducer` whose manager has been closed fails.

## 6. Plan

Modelled, checked and proved: the parts with the program's concurrent and
failure-prone logic. What is left, in order of weight:

1. `RedisLimiter` without expiry, crashes and lost answers implements `KeyedLock`.
2. `Init` (`sunny.go` 202-308) and `resources.go` as a prefix of `Lifecycle`: which resources a failed start
   leaves open.

### Not modelled

- Task manager: `taskMap` is never made, so `AddTask` panics on its first call (77) and the
  ticker loop has nothing to visit.
- Databases, object storage, remote resources, locations, payments: calls of libraries and services, whose
  clients are made at the start and kept; plain types and utilities keep no state.
- Logging, topic names, message headers, serialization, HTTP answers.
- Of the modelled components: the queue options `AutoDelete` and `Exclusive` (the broker's queue outlives its
  consumers in the model, so `NothingLost` is about queues without them); services of a protocol other than
  HTTP, HTTPS and gRPC; a persisted key index of 9 or more, which the manager never writes and `JwtKeyManager.Start`
  refuses (206-213); `SetFailedMessageStore` and the `Bind…` registrations, called before `Start`; the
  configuration defaults; methods that only read.
