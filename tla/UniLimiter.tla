----------------------------- MODULE UniLimiter -----------------------------
(* UniLimiterLocker of components/limits/limit.go (lines 28-136): one mutex *)
(* per key, made by the first caller and thrown away by the last.           *)
(*                                                                          *)
(* getMutex and releaseMutex run under l.mux, so each is one step; between  *)
(* them a caller holds a pointer to a mutex the map may have forgotten.     *)
EXTENDS Integers, FiniteSets

CONSTANTS
    Procs,      \* goroutines that call the limiter, any number of times
    Keys,
    Mutexes,    \* identities of mutexRef objects
    NoProc, NoKey, NoMutex

ASSUME ProcsAssumption == IsFiniteSet(Procs) /\ NoProc \notin Procs
ASSUME KeysAssumption == NoKey \notin Keys
ASSUME MutexesAssumption == NoMutex \notin Mutexes

VARIABLES
    muMap,      \* l.muMap: key -> mutexRef, NoMutex where there is none
    refCount,   \* refCount[m]: the reference count of mutexRef m
    locked,     \* the mutexes that are locked
    pc,         \* where each caller is
    mode,       \* mode[p]: "try" for DoWithTryLock, "wait" for DoWithWaitLock
    key,        \* key[p]: the key p has called with
    mine        \* mine[p]: the mutex p got from getMutex

vars == <<muMap, refCount, locked, pc, mode, key, mine>>

\* Mutexes nobody can reach, which a new mutexRef may be.
Fresh == Mutexes \ ({muMap[k] : k \in Keys} \cup {mine[p] : p \in Procs})

Init ==
    /\ muMap = [k \in Keys |-> NoMutex]
    /\ refCount = [m \in Mutexes |-> 0]
    /\ locked = {}
    /\ pc = [p \in Procs |-> "idle"]
    /\ mode = [p \in Procs |-> "try"]
    /\ key = [p \in Procs |-> NoKey]
    /\ mine = [p \in Procs |-> NoMutex]

Goto(p, l) == pc' = [pc EXCEPT ![p] = l]

----------------------------------------------------------------------------
(* Faulty variants of the definitions below: nothing refers to them.        *)

SlipKnown(k) == FALSE               \* getMutex always makes a new mutex
SlipRefs(m) == refCount[m]          \* getMutex forgets to count
SlipLast(m) == TRUE                 \* releaseMutex always deletes
SlipCanTake(m) == TRUE              \* the mutex is not tested
SlipBusy(p) == TRUE                 \* TryLock reported as failed at random
SlipUnlocked(p) == {}               \* no deferred Unlock

----------------------------------------------------------------------------
Call(p) ==
    /\ pc[p] = "idle"
    /\ \E k \in Keys : key' = [key EXCEPT ![p] = k]
    /\ \E m \in {"try", "wait"} : mode' = [mode EXCEPT ![p] = m]
    /\ Goto(p, "get")
    /\ UNCHANGED <<muMap, refCount, locked, mine>>

\* The map has a mutex for key k.
Known(k) == muMap[k] # NoMutex

\* The count after one caller more has got mutex m.
Refs(m) == refCount[m] + 1

\* getMutex, key known: count the caller in.
GetKnown(p) ==
    /\ pc[p] = "get"
    /\ Known(key[p])
    /\ mine' = [mine EXCEPT ![p] = muMap[key[p]]]
    /\ refCount' = [refCount EXCEPT ![muMap[key[p]]] = Refs(muMap[key[p]])]
    /\ Goto(p, "lock")
    /\ UNCHANGED <<muMap, locked, mode, key>>

\* getMutex, key not known: a new mutex with one reference.
GetNew(p) ==
    /\ pc[p] = "get"
    /\ ~Known(key[p])
    /\ \E m \in Fresh :
          /\ mine' = [mine EXCEPT ![p] = m]
          /\ muMap' = [muMap EXCEPT ![key[p]] = m]
          /\ refCount' = [refCount EXCEPT ![m] = 1]
    /\ Goto(p, "lock")
    /\ UNCHANGED <<locked, mode, key>>

CanTake(m) == m \notin locked

\* Lock, or a TryLock that succeeds: fn runs.
Lock(p) ==
    /\ pc[p] = "lock"
    /\ CanTake(mine[p])
    /\ locked' = locked \cup {mine[p]}
    /\ Goto(p, "run")
    /\ UNCHANGED <<muMap, refCount, mode, key, mine>>

\* TryLock fails: ErrLockBusy, once the reference is given back.
Busy(p) == mine[p] \in locked

TryFails(p) ==
    /\ pc[p] = "lock"
    /\ mode[p] = "try"
    /\ Busy(p)
    /\ Goto(p, "refused")
    /\ UNCHANGED <<muMap, refCount, locked, mode, key, mine>>

\* fn has returned, with or without an error: the deferred Unlock.
Unlocked(p) == {mine[p]}

Unlock(p) ==
    /\ pc[p] = "run"
    /\ locked' = locked \ Unlocked(p)
    /\ Goto(p, "release")
    /\ UNCHANGED <<muMap, refCount, mode, key, mine>>

\* No reference to mutex m is left after this one.
Last(m) == refCount[m] - 1 <= 0

\* releaseMutex looks the key up again and counts down whatever it finds.
ReleaseMutex(p) ==
    /\ pc[p] \in {"release", "refused"}
    /\ IF Known(key[p])
       THEN LET m == muMap[key[p]] IN
              /\ refCount' = [refCount EXCEPT ![m] = @ - 1]
              /\ muMap' = IF Last(m) THEN [muMap EXCEPT ![key[p]] = NoMutex] ELSE muMap
       ELSE UNCHANGED <<refCount, muMap>>
    /\ key' = [key EXCEPT ![p] = NoKey]
    /\ mine' = [mine EXCEPT ![p] = NoMutex]
    /\ Goto(p, "idle")
    /\ UNCHANGED <<locked, mode>>

Step(p) == GetKnown(p) \/ GetNew(p) \/ Lock(p) \/ TryFails(p) \/ Unlock(p) \/ ReleaseMutex(p)

Next == \E p \in Procs : Call(p) \/ Step(p)

Spec == Init /\ [][Next]_vars

----------------------------------------------------------------------------
TypeOK ==
    /\ muMap \in [Keys -> Mutexes \cup {NoMutex}]
    /\ refCount \in [Mutexes -> Nat]
    /\ locked \subseteq Mutexes
    /\ pc \in [Procs -> {"idle", "get", "lock", "run", "release", "refused"}]
    /\ mode \in [Procs -> {"try", "wait"}]
    /\ key \in [Procs -> Keys \cup {NoKey}]
    /\ mine \in [Procs -> Mutexes \cup {NoMutex}]

\* The callers between getMutex and releaseMutex of key k.
Active(k) == {p \in Procs : key[p] = k /\ pc[p] \in {"lock", "run", "release", "refused"}}

\* No two functions given with the same key run at the same time, although
\* the key's mutex is made and dropped again and again (lines 52-136).
MutualExclusion ==
    \A p, q \in Procs : pc[p] = "run" /\ pc[q] = "run" /\ key[p] = key[q] => p = q

\* The reference count of a key is exactly the number of callers that use its
\* mutex; the key is in the map exactly while there is one; and all of them
\* have the mutex that is in the map (lines 52-85).
RefCountExact ==
    \A k \in Keys :
        /\ Known(k) => refCount[muMap[k]] = Cardinality(Active(k))
        /\ Known(k) <=> Active(k) # {}
        /\ \A p \in Active(k) : mine[p] = muMap[k]

\* A caller is told "lock busy" only while another caller's function runs
\* under the same key (lines 99-102).
BusyIsTrue ==
    [][\A p \in Procs : pc[p] = "lock" /\ pc'[p] = "refused" =>
          \E q \in Procs \ {p} : pc[q] = "run" /\ key[q] = key[p]]_vars

\* Every waiting caller runs its function in the end (lines 124-131).
WaitersServed == \A p \in Procs : pc[p] = "lock" /\ mode[p] = "wait" ~> pc[p] = "run"

\* The limiter implements KeyedLock: the owner of a key is the caller whose
\* function runs.
Owner == [k \in Keys |->
            IF \E p \in Procs : pc[p] = "run" /\ key[p] = k
            THEN CHOOSE p \in Procs : pc[p] = "run" /\ key[p] = k
            ELSE NoProc]
Request == [p \in Procs |-> IF pc[p] \in {"get", "lock", "run"} THEN key[p] ELSE NoKey]

Abstract == INSTANCE KeyedLock WITH owner <- Owner, request <- Request

ImplementsKeyedLock == Abstract!Spec
=============================================================================
