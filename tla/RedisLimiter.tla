---------------------------- MODULE RedisLimiter ----------------------------
(* RedisLimiterLocker of components/limits/limit.go (lines 138-286): a lock *)
(* per key kept in Redis with a time to live.                               *)
(*                                                                          *)
(* generateLockValue draws 16 random bytes for each call.  A caller has one *)
(* call at a time, so its lock value is the caller itself.  The prefix that *)
(* formatKey adds is the same for all callers of a locker and left out.     *)
EXTENDS UniLimiter      \* for the callers and the keys

CONSTANT RedisKeys      \* the keys that are asked for over Redis

ASSUME RedisKeysAssumption == RedisKeys \subseteq Keys

VARIABLES
    redis,      \* redis[k]: the value stored under k, NoProc if there is none
    at,         \* where each caller is
    how,       \* how[p]: "try" or "wait"
    want,        \* want[p]: the key p has called with
    done,       \* the callers whose context is cancelled
    overrun     \* history: callers whose lease ran out before they let go

redisVars == <<redis, at, how, want, done, overrun>>

RedisInit ==
    /\ redis = [k \in Keys |-> NoProc]
    /\ at = [p \in Procs |-> "idle"]
    /\ how = [p \in Procs |-> "try"]
    /\ want = [p \in Procs |-> NoKey]
    /\ done = {}
    /\ overrun = {}

Move(p, l) == at' = [at EXCEPT ![p] = l]

\* The call of p is over, and with it what it was called with.
Over(p, l) ==
    /\ Move(p, l)
    /\ how' = [how EXCEPT ![p] = "try"]
    /\ want' = [want EXCEPT ![p] = NoKey]
    /\ done' = done \ {p}
    /\ overrun' = overrun \ {p}

\* It returns: success, ErrLockBusy or another error.
Leave(p) == Over(p, "idle")

----------------------------------------------------------------------------
(* Faulty variants of the definitions below: nothing refers to them.        *)

SlipOwns(p) == TRUE             \* DEL without comparing the value
SlipExpirable(k) == FALSE       \* SET NX without a time to live
SlipAfterSet(p) == "run"        \* the result of SETNX is not looked at

----------------------------------------------------------------------------
RedisCall(p) ==
    /\ at[p] = "idle"
    /\ \E k \in RedisKeys : want' = [want EXCEPT ![p] = k]
    /\ \E m \in {"try", "wait"} : how' = [how EXCEPT ![p] = m]
    /\ Move(p, "set")
    /\ UNCHANGED <<redis, done, overrun>>

\* The caller's context is cancelled or times out.
Cancel(p) ==
    /\ at[p] \notin {"idle", "dead"}
    /\ p \notin done
    /\ done' = done \cup {p}
    /\ UNCHANGED <<redis, at, how, want, overrun>>

\* SETNX succeeds only on a key that does not exist.
Vacant(k) == redis[k] = NoProc

\* After a SETNX that did nothing: try gives up, wait sleeps 300 ms.
AfterSet(p) == IF how[p] = "try" THEN "refused" ELSE "sleep"

Acquire(p) ==
    /\ at[p] = "set"
    /\ p \notin done
    /\ Vacant(want[p])
    /\ redis' = [redis EXCEPT ![want[p]] = p]
    /\ Move(p, "run")
    /\ UNCHANGED <<how, want, done, overrun>>

Occupied(p) ==
    /\ at[p] = "set"
    /\ p \notin done
    /\ redis[want[p]] # NoProc
    /\ Move(p, AfterSet(p))
    /\ UNCHANGED <<redis, how, want, done, overrun>>

\* A caller that does not wait is told ErrLockBusy.
Refused(p) ==
    /\ at[p] = "refused"
    /\ Leave(p)
    /\ UNCHANGED redis

\* SETNX returns an error: the context is done, or Redis did not answer, in
\* which case the command may have been carried out.
SetFails(p) ==
    /\ at[p] = "set"
    /\ \/ redis' = redis
       \/ /\ p \notin done
          /\ Vacant(want[p])
          /\ redis' = [redis EXCEPT ![want[p]] = p]
    /\ Leave(p)

\* The pause between two attempts ends, by the timer or by the context.
WakeUp(p) ==
    /\ at[p] = "sleep"
    /\ Move(p, "set")
    /\ UNCHANGED <<redis, how, want, done, overrun>>

GiveUp(p) ==
    /\ at[p] = "sleep"
    /\ p \in done
    /\ Leave(p)
    /\ UNCHANGED redis

\* fn returns.
Finish(p) ==
    /\ at[p] = "run"
    /\ Move(p, "release")
    /\ UNCHANGED <<redis, how, want, done, overrun>>

\* releaseLock: a script that deletes the key if it still holds p's value.
Owns(p) == redis[want[p]] = p

Release(p) ==
    /\ at[p] = "release"
    /\ p \notin done
    /\ redis' = IF Owns(p) THEN [redis EXCEPT ![want[p]] = NoProc] ELSE redis
    /\ Leave(p)

\* The script is not run: the context is done or Redis does not answer.  The
\* error is ignored.
ReleaseFails(p) ==
    /\ at[p] = "release"
    /\ Leave(p)
    /\ UNCHANGED redis

----------------------------------------------------------------------------
\* Every key that is set has a time to live.
Expirable(k) == redis[k] # NoProc

\* The time to live ends, whatever the caller is doing: it is never renewed.
Expire(k) ==
    /\ Expirable(k)
    /\ redis' = [redis EXCEPT ![k] = NoProc]
    /\ overrun' = overrun \cup {p \in Procs : redis[k] = p /\ at[p] \in {"run", "release"} /\ want[p] = k}
    /\ UNCHANGED <<at, how, want, done>>

\* The process of a caller dies and its function with it.
Crash(p) ==
    /\ at[p] # "dead"
    /\ Over(p, "dead")
    /\ UNCHANGED redis

RedisStep(p) ==
    \/ Acquire(p) \/ Occupied(p) \/ Refused(p) \/ SetFails(p)
    \/ WakeUp(p) \/ GiveUp(p)
    \/ Finish(p) \/ Release(p) \/ ReleaseFails(p)

RedisNext ==
    \/ \E p \in Procs : RedisCall(p) \/ Cancel(p) \/ RedisStep(p) \/ Crash(p)
    \/ \E k \in Keys : Expire(k)

RedisSpec == RedisInit /\ [][RedisNext]_redisVars

----------------------------------------------------------------------------
RedisTypeOK ==
    /\ redis \in [Keys -> Procs \cup {NoProc}]
    /\ at \in [Procs -> {"idle", "set", "sleep", "refused", "run", "release", "dead"}]
    /\ how \in [Procs -> {"try", "wait"}]
    /\ want \in [Procs -> Keys \cup {NoKey}]
    /\ done \subseteq Procs
    /\ overrun \subseteq Procs

\* Until its lease runs out, a caller whose function runs has its value in
\* Redis, whatever other callers set, release, lose or retry (lines 212-286).
LeaseHeld ==
    \A p \in Procs : at[p] \in {"run", "release"} /\ p \notin overrun => redis[want[p]] = p

\* Two functions run under one key only if the lease of one of them ran out.
ExclusiveWithinLease ==
    \A p, q \in Procs :
        at[p] = "run" /\ at[q] = "run" /\ want[p] = want[q] /\ p # q => {p, q} \cap overrun # {}

\* Releasing never deletes the lock of somebody else, even after one's own
\* lease has run out (line 232: "to prevent deleting by mistake").  A key is
\* deleted by its owner's release, or by its time to live while no caller moves.
ReleasesOwnLock ==
    [][\A k \in Keys, p \in Procs :
          redis[k] = p /\ redis'[k] # p /\ at' # at => at[p] = "release" /\ want[p] = k]_redisVars

\* No key is blocked for ever by a caller that crashed, was cancelled or lost
\* its answer: while somebody waits, functions go on running under the want, or
\* the wait ends (lines 260-285).
WaitingEnds ==
    \A p \in Procs, k \in RedisKeys :
        at[p] = "sleep" /\ want[p] = k ~>
            \/ \E q \in Procs : at[q] = "run" /\ want[q] = k
            \/ at[p] \in {"idle", "dead"}
=============================================================================
