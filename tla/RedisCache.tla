----------------------------- MODULE RedisCache -----------------------------
(* components/caches/redis.go: RedisCache, which serializes values and is    *)
(* meant to load what is missing, and RawRedisCache, which stores bytes, over *)
(* one Redis and one prefix.  Every command is one step of Redis; a command   *)
(* that fails does so before or after it is carried out.                      *)
(*                                                                            *)
(* The nested Get (line 147) calls r.group.Do with the key of the flight it   *)
(* runs in, and so waits for itself: a caller in this state is "stuck".       *)
EXTENDS FiniteSets

CONSTANTS
    CacheKeys, Values,
    Getters,        \* goroutines that get, any number of times
    Zero,           \* the zero value of T
    None,           \* no value
    NoCaller

ASSUME CacheAssumption == NoCaller \notin Getters

VARIABLES
    cell,           \* cell[k]: the value in Redis, None if there is none
    volatile,       \* the keys in Redis with a time to live
    loader,         \* whether there is a loadFunc
    lenient,        \* whether the serializer takes no bytes for a value
    flight,         \* flight[k]: the leader of the flight of k in r.group
    step,           \* where each caller is
    called,         \* called[c]: the key and the kind of cache c has called
    result,         \* what the call has returned: a value, None for an error
    seen            \* history: what the key has had during c's call

redisData == <<cell, volatile>>
options == <<loader, lenient>>
calls == <<step, called, result>>
cacheVars == <<redisData, options, flight, calls, seen>>

CacheInit ==
    /\ cell = [k \in CacheKeys |-> None]
    /\ volatile = {}
    /\ loader \in BOOLEAN
    /\ lenient \in BOOLEAN
    /\ flight = [k \in CacheKeys |-> NoCaller]
    /\ step = [c \in Getters |-> "idle"]
    /\ called \in [Getters -> [key : CacheKeys, cache : {"typed"}]]
    /\ result = [c \in Getters |-> None]
    /\ seen = [c \in Getters |-> {}]

Move(c, l) == step' = [step EXCEPT ![c] = l]

Answer(C, v) ==
    /\ step' = [c \in Getters |-> IF c \in C THEN "done" ELSE step[c]]
    /\ result' = [c \in Getters |-> IF c \in C THEN v ELSE result[c]]
    /\ UNCHANGED called

Stored(k) == cell[k] # None

\* What line 134 returns when Redis has given an answer.
Hit(c) == IF called[c].cache = "raw" THEN cell[called[c].key] ELSE Zero

----------------------------------------------------------------------------
(* The writers.                                                             *)

\* The keys in K get value v, or lose theirs; mortal are those with a time to live.
Write(K, v, mortal) ==
    /\ cell' = [k \in CacheKeys |-> IF k \in K THEN v ELSE cell[k]]
    /\ volatile' = mortal
    /\ seen' = [c \in Getters |-> IF called[c].key \in K THEN seen[c] \cup {v} ELSE seen[c]]
    /\ UNCHANGED <<options, flight, calls>>

\* Set, SetWithoutTTL, SetWithCustomTTL: a time to live that is not positive
\* is none.  Nothing is written when Marshal fails.
Set(k, v) == \E mortal \in {volatile \cup {k}, volatile \ {k}} : Write({k}, v, mortal)

Delete(k) == Write({k}, None, volatile \ {k})

\* One script: KEYS and DEL.
Clean == Write(CacheKeys, None, {})

\* EXPIRE deletes the key at once if the time is not positive.
SetTTL(k) ==
    /\ Stored(k)
    /\ \/ Write({k}, cell[k], volatile \cup {k})
       \/ Write({k}, None, volatile \ {k})

\* The time to live ends.
Expire(k) == k \in volatile /\ Write({k}, None, volatile \ {k})

----------------------------------------------------------------------------
(* Get.                                                                     *)

Get(c, k, cache) ==
    /\ step[c] \in {"idle", "done"}
    /\ Move(c, "get")
    /\ called' = [called EXCEPT ![c] = [key |-> k, cache |-> cache]]
    /\ seen' = [seen EXCEPT ![c] = {cell[k]}]
    /\ result' = [result EXCEPT ![c] = None]
    /\ UNCHANGED <<redisData, options, flight>>

\* The GET of RedisCache or RawRedisCache finds the key.
Finds(c) ==
    /\ step[c] = "get"
    /\ Stored(called[c].key)
    /\ Answer({c}, Hit(c))
    /\ UNCHANGED <<redisData, options, flight, seen>>

\* An error, which redis.Nil is as well: it is returned by a raw cache, without
\* a loader, and when the empty result does not unmarshal, as in JSON.
Unloadable(c) == called[c].cache = "raw" \/ ~loader \/ ~lenient

Fails(c) ==
    /\ step[c] = "get"
    /\ Unloadable(c)
    /\ Answer({c}, None)
    /\ UNCHANGED <<redisData, options, flight, seen>>

\* A faulty variant of the next definition: not by r.group.Do, but whoever
\* misses looks again and loads.
SlipFlies(c) ==
    /\ step[c] = "get"
    /\ ~Unloadable(c)
    /\ Move(c, "again") /\ flight' = [flight EXCEPT ![called[c].key] = c]
    /\ UNCHANGED <<redisData, options, called, result, seen>>

\* r.group.Do: the first caller leads a flight, the others join it.
Flies(c) ==
    /\ step[c] = "get"
    /\ ~Unloadable(c)
    /\ IF flight[called[c].key] = NoCaller
       THEN Move(c, "again") /\ flight' = [flight EXCEPT ![called[c].key] = c]
       ELSE Move(c, "joined") /\ UNCHANGED flight
    /\ UNCHANGED <<redisData, options, called, result, seen>>

\* The nested Get finds the key: the flight ends for all who are in it.
Lands(c) ==
    /\ step[c] = "again"
    /\ Stored(called[c].key)
    /\ Answer({c} \cup {d \in Getters : step[d] = "joined" /\ called[d].key = called[c].key}, Hit(c))
    /\ flight' = [flight EXCEPT ![called[c].key] = NoCaller]
    /\ UNCHANGED <<redisData, options, seen>>

\* It does not, and waits for the flight that it is itself.
Stalls(c) ==
    /\ step[c] = "again"
    /\ Move(c, "stuck")
    /\ UNCHANGED <<redisData, options, flight, called, result, seen>>

Getting(c) ==
    \/ \E k \in CacheKeys, cache \in {"typed", "raw"} : Get(c, k, cache)
    \/ Finds(c) \/ Fails(c) \/ Flies(c) \/ Lands(c) \/ Stalls(c)

Writing ==
    \/ \E k \in CacheKeys : \/ Delete(k) \/ SetTTL(k) \/ Expire(k)
                       \/ \E v \in Values : Set(k, v)
    \/ Clean

CacheNext == Writing \/ \E c \in Getters : Getting(c)

CacheSpec == CacheInit /\ [][CacheNext]_cacheVars

----------------------------------------------------------------------------
\* A key is looked up again by one caller at a time, however many miss it, and
\* a caller that joined waits for one who does (lines 145-170).
FlightsAreLed ==
    \A c \in Getters :
        LET leader == flight[called[c].key]
        IN  /\ step[c] \in {"again", "stuck"} => leader = c
            /\ step[c] = "joined" =>
                 /\ leader \in Getters
                 /\ step[leader] \in {"again", "stuck"}
                 /\ called[leader].key = called[c].key

\* What a Get of RawRedisCache returns, the key had at some time during the
\* call (lines 361-374), whichever cache the writers use.
RawAnswersStored ==
    \A c \in Getters :
        step[c] = "done" /\ called[c].cache = "raw" /\ result[c] # None => result[c] \in seen[c]

\* A Get that returns a value without an error returns one that the key had
\* during the call ("T: the cached value", redis.go lines 120-128, and
\* CacheInf.Get, cache.go line 9).
GetReturnsStored ==
    \A c \in Getters : step[c] = "done" /\ result[c] # None => result[c] \in seen[c]
=============================================================================
