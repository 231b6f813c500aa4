------------------------------ MODULE Limiter -------------------------------
(* The two keyed locks of components/limits/limit.go behind their one       *)
(* interface, UniLimiterLockerInf (lines 14-21).  An application is built   *)
(* with one of them: NewUniLimiterLocker or NewRedisLimiterLocker.          *)
EXTENDS RedisLimiter

CONSTANT Kinds      \* the lockers considered

ASSUME KindsAssumption == Kinds \subseteq {"uni", "redis"}

VARIABLE kind       \* the locker in use

limiterVars == <<kind, vars, redisVars>>

LimiterInit ==
    /\ kind \in Kinds
    /\ Init
    /\ RedisInit

UniRuns == kind = "uni" /\ UNCHANGED <<kind, redisVars>>
RedisRuns == kind = "redis" /\ UNCHANGED <<kind, vars>>

LimiterNext ==
    \/ UniRuns /\ Next
    \/ RedisRuns /\ RedisNext

LimiterSpec == LimiterInit /\ [][LimiterNext]_limiterVars

\* A caller of the in-process locker that can go on does, and every fn returns.
\* A waiter of a sync.Mutex is served although others keep arriving: after one
\* millisecond the mutex is handed over to it, hence strong fairness of Lock.
UniFairness ==
    \A p \in Procs : WF_limiterVars(UniRuns /\ Step(p)) /\ SF_limiterVars(UniRuns /\ Lock(p))

\* Over Redis, a live caller goes on, every fn returns, and every time to live
\* ends.  Redis does not lose the answer of every successful SETNX of a key: if
\* one can succeed again and again, one does (strong, as another caller may set
\* the key between two attempts).
RedisFairness ==
    /\ \A p \in Procs : WF_limiterVars(RedisRuns /\ RedisStep(p))
    /\ \A k \in RedisKeys : WF_limiterVars(RedisRuns /\ Expire(k))
    /\ \A k \in RedisKeys : SF_limiterVars(RedisRuns /\ \E p \in Procs : want[p] = k /\ Acquire(p))

LimiterFairSpec == LimiterSpec /\ UniFairness /\ RedisFairness
=============================================================================
