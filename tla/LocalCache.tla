----------------------------- MODULE LocalCache -----------------------------
(* The in-memory cache of components/caches/local.go: a sync.Map of items    *)
(* that expire, loads that go through a singleflight.Group, and a goroutine  *)
(* that cleans up.                                                           *)
(*                                                                           *)
(* A call of the sync.Map is one step, and what the code does between two    *)
(* calls is not.  To load an item and to look at the clock are one step: an  *)
(* item that expires in between had better expired before.                   *)
EXTENDS FiniteSets

CONSTANTS
    Keys, Values,
    Getters,        \* the goroutines of the application that call Get
    Others,         \* and those that call the other methods
    Cleaner,        \* the goroutine of startCleanup
    None            \* no value, no caller, an error

ASSUME NullAssumption == None \notin Values \cup Getters
ASSUME ProcsAssumption ==
    /\ Getters \cap Others = {}
    /\ Cleaner \notin Getters \cup Others

Procs == Getters \cup Others \cup {Cleaner}

VARIABLES
    loader,         \* whether the cache has a loadFunc
    data,           \* data[k]: the value stored under k, or None
    expired,        \* the keys whose item has expired
    flight,         \* flight[k]: the getter whose call of k the group holds, or None
    closed,         \* whether stopChan is closed
    pc, key,        \* where a goroutine is, and the key it works on
    todo,           \* the keys that Range has yet to visit
    res,            \* res[c]: the result of the call of c, None for an error
    \* What the properties remember:
    due,            \* the keys that have lost their item since they were last loaded
    seen            \* seen[c]: the values that were current at some time of a Get

mapVars == <<data, expired>>
procVars == <<pc, key, todo, res>>
vars == <<loader, mapVars, flight, closed, procVars, due, seen>>

Init ==
    /\ loader \in BOOLEAN
    /\ data = [k \in Keys |-> None]
    /\ expired = {}
    /\ flight = [k \in Keys |-> None]
    /\ closed = FALSE
    /\ pc = [p \in Procs |-> "idle"]
    /\ key \in [Procs -> Keys]
    /\ \A p, q \in Procs : key[p] = key[q]
    /\ todo = [p \in Procs |-> {}]
    /\ res = [c \in Getters |-> None]
    /\ due = Keys
    /\ seen = [c \in Getters |-> {}]

----------------------------------------------------------------------------
(* Faulty variants of the definitions below: nothing refers to them.         *)

SlipIsExpired(k) == FALSE               \* no look at the clock
SlipLoadAtOnce(k) == "load"             \* no second look in the flight
SlipGetAgain(k) ==                      \* the flight calls Get again
    IF k \in expired THEN "redrop" ELSE IF data[k] # None THEN "finish" ELSE "join"
SlipVisited == {}                       \* the cleanup visits nothing

----------------------------------------------------------------------------
IsExpired(k) == k \in expired
Hit(k) == data[k] # None /\ ~IsExpired(k)

\* The map without the key, and with a new item under it.
Delete(k) ==
    /\ data' = [data EXCEPT ![k] = None]
    /\ expired' = expired \ {k}

Store(k, v) ==
    /\ data' = [data EXCEPT ![k] = v]
    /\ expired' = expired \ {k}

Goto(p, l) == pc' = [pc EXCEPT ![p] = l]

\* What a look at the map leads to: label hit if the item is fresh, drop if it
\* has expired, miss if there is none.
Look(k, hit, drop, miss) ==
    IF Hit(k) THEN hit ELSE IF data[k] # None THEN drop ELSE miss

----------------------------------------------------------------------------
(* Get.                                                                      *)

Get(c, k) ==
    /\ pc[c] = "idle"
    /\ key' = [key EXCEPT ![c] = k]
    /\ Goto(c, Look(k, "answered", "drop", "join"))
    /\ res' = [res EXCEPT ![c] = IF Hit(k) THEN data[k] ELSE None]
    /\ UNCHANGED <<loader, mapVars, flight, closed, todo>>

\* The item that has expired is deleted, or whatever is stored by now.
Drop(c, from, to) ==
    /\ pc[c] = from
    /\ Delete(key[c])
    /\ Goto(c, to)
    /\ UNCHANGED <<loader, flight, closed, key, todo, res>>

NotFound(c) ==
    /\ pc[c] = "join" /\ ~loader
    /\ Goto(c, "answered")
    /\ UNCHANGED <<loader, mapVars, flight, closed, key, todo, res>>

\* group.Do: the call of the first caller of a key serves those that come
\* until it is over.
FlightKey(c) == key[c]

Lead(c) ==
    /\ pc[c] = "join" /\ loader
    /\ flight[FlightKey(c)] = None
    /\ flight' = [flight EXCEPT ![FlightKey(c)] = c]
    /\ Goto(c, "look")
    /\ UNCHANGED <<loader, mapVars, closed, key, todo, res>>

Join(c) ==
    /\ pc[c] = "join" /\ loader
    /\ flight[FlightKey(c)] # None
    /\ Goto(c, "wait")
    /\ UNCHANGED <<loader, mapVars, flight, closed, key, todo, res>>

\* The second look, in the flight.
SecondLook(k) == Look(k, "finish", "redrop", "load")

LookAgain(c) ==
    /\ pc[c] = "look"
    /\ Goto(c, SecondLook(key[c]))
    /\ res' = [res EXCEPT ![c] = IF Hit(key[c]) THEN data[key[c]] ELSE None]
    /\ UNCHANGED <<loader, mapVars, flight, closed, key, todo>>

\* loadFunc returns a value, or an error (also when the context of this caller
\* is cancelled: it is the one that loadFunc is given).
Load(c) ==
    /\ pc[c] = "load"
    /\ \E v \in Values : res' = [res EXCEPT ![c] = v]
    /\ Goto(c, "store")
    /\ UNCHANGED <<loader, mapVars, flight, closed, key, todo>>

LoadFails(c) ==
    /\ pc[c] = "load"
    /\ Goto(c, "finish")
    /\ UNCHANGED <<loader, mapVars, flight, closed, key, todo, res>>

StoreLoaded(c) ==
    /\ pc[c] = "store"
    /\ Store(key[c], res[c])
    /\ Goto(c, "finish")
    /\ UNCHANGED <<loader, flight, closed, key, todo, res>>

\* The call leaves the group, and all that wait for it have its result.
Served(c) == {c} \cup {d \in Getters : pc[d] = "wait" /\ FlightKey(d) = FlightKey(c)}

Finish(c) ==
    /\ pc[c] = "finish"
    /\ flight' = [flight EXCEPT ![FlightKey(c)] = None]
    /\ pc' = [p \in Procs |-> IF p \in Served(c) THEN "answered" ELSE pc[p]]
    /\ res' = [d \in Getters |-> IF d \in Served(c) THEN res[c] ELSE res[d]]
    /\ UNCHANGED <<loader, mapVars, closed, key, todo>>

Return(c) ==
    /\ pc[c] = "answered"
    /\ Goto(c, "idle")
    /\ res' = [res EXCEPT ![c] = None]
    /\ UNCHANGED <<loader, mapVars, flight, closed, key, todo>>

----------------------------------------------------------------------------
(* The other methods.                                                        *)

Set(o, k, v) ==
    /\ pc[o] = "idle"
    /\ Store(k, v)
    /\ UNCHANGED <<loader, flight, closed, procVars>>

Remove(o, k) ==
    /\ pc[o] = "idle"
    /\ Delete(k)
    /\ UNCHANGED <<loader, flight, closed, procVars>>

\* Exists and GetWithTTL that find an expired item.
Peek(o, k) ==
    /\ pc[o] = "idle" /\ IsExpired(k)
    /\ key' = [key EXCEPT ![o] = k]
    /\ Goto(o, "forget")
    /\ UNCHANGED <<loader, mapVars, flight, closed, todo, res>>

\* Range visits each key once, in any order, and sees what it then holds.
Clean(o) ==
    /\ pc[o] = "idle"
    /\ todo' = [todo EXCEPT ![o] = Keys]
    /\ Goto(o, "clean")
    /\ UNCHANGED <<loader, mapVars, flight, closed, key, res>>

CleanKey(o, k) ==
    /\ pc[o] = "clean" /\ k \in todo[o]
    /\ todo' = [todo EXCEPT ![o] = @ \ {k}]
    /\ Goto(o, IF todo[o] = {k} THEN "idle" ELSE "clean")
    /\ Delete(k)
    /\ UNCHANGED <<loader, flight, closed, key, res>>

Close(o) ==
    /\ pc[o] = "idle" /\ ~closed
    /\ closed' = TRUE
    /\ UNCHANGED <<loader, mapVars, flight, procVars>>

----------------------------------------------------------------------------
(* The goroutine that cleans up, and the clock.                              *)

Visited == Keys

Tick ==
    /\ pc[Cleaner] = "idle"
    /\ todo' = [todo EXCEPT ![Cleaner] = Visited]
    /\ Goto(Cleaner, "sweep")
    /\ UNCHANGED <<loader, mapVars, flight, closed, key, res>>

SweepKey(k) ==
    /\ pc[Cleaner] = "sweep" /\ k \in todo[Cleaner]
    /\ todo' = [todo EXCEPT ![Cleaner] = @ \ {k}]
    /\ IF IsExpired(k)
       THEN key' = [key EXCEPT ![Cleaner] = k] /\ Goto(Cleaner, "sweep_drop")
       ELSE UNCHANGED <<key, pc>>
    /\ UNCHANGED <<loader, mapVars, flight, closed, res>>

SweepDrop ==
    /\ pc[Cleaner] = "sweep_drop"
    /\ Delete(key[Cleaner])
    /\ Goto(Cleaner, "sweep")
    /\ UNCHANGED <<loader, flight, closed, key, todo, res>>

SweepEnds ==
    /\ pc[Cleaner] = "sweep" /\ todo[Cleaner] = {}
    /\ Goto(Cleaner, "idle")
    /\ UNCHANGED <<loader, mapVars, flight, closed, key, todo, res>>

Stop ==
    /\ pc[Cleaner] = "idle" /\ closed
    /\ Goto(Cleaner, "ended")
    /\ UNCHANGED <<loader, mapVars, flight, closed, key, todo, res>>

Expire(k) ==
    /\ data[k] # None /\ k \notin expired
    /\ expired' = expired \cup {k}
    /\ UNCHANGED <<loader, data, flight, closed, procVars>>

----------------------------------------------------------------------------
(* What the properties remember.                                             *)

InGet == {"drop", "join", "wait", "look", "redrop", "load", "store", "finish"}

Fresh(k) == data[k] # None /\ k \notin expired

\* The values that a Get of k may answer with: the one that is stored and has
\* not expired, and the one that the flight of k has as its result.
Current(k) ==
    {v \in Values :
        \/ Fresh(k) /\ v = data[k]
        \/ \E c \in Getters : pc[c] \in {"store", "finish"} /\ key[c] = k /\ v = res[c]}

Lost(k) == Fresh(k) /\ ~Fresh(k)'
Loaded(k) == \E c \in Getters : pc[c] = "store" /\ key[c] = k /\ pc'[c] = "finish"

Observe ==
    /\ due' = {k \in Keys : Lost(k) \/ (k \in due /\ ~Loaded(k))}
    /\ seen' = [c \in Getters |->
                  CASE pc'[c] \in InGet                        -> seen[c] \cup Current(key[c])'
                    [] pc'[c] = "answered" /\ pc[c] = "idle"   -> Current(key[c])'
                    [] pc'[c] = "answered" /\ pc[c] # "idle"   -> seen[c]
                    [] OTHER                                   -> {}]

----------------------------------------------------------------------------
GetStep(c) ==
    \/ Drop(c, "drop", "join") \/ Drop(c, "redrop", "load")
    \/ NotFound(c) \/ Lead(c) \/ Join(c) \/ LookAgain(c)
    \/ Load(c) \/ LoadFails(c) \/ StoreLoaded(c) \/ Finish(c) \/ Return(c)

OtherStep(o) ==
    \/ \E k \in Keys :
        \/ Remove(o, k) \/ Peek(o, k) \/ CleanKey(o, k)
        \/ \E v \in Values : Set(o, k, v)
    \/ Drop(o, "forget", "idle") \/ Clean(o) \/ Close(o)

CleanerStep == Tick \/ (\E k \in Keys : SweepKey(k)) \/ SweepDrop \/ SweepEnds

Next ==
    /\ \/ \E c \in Getters : GetStep(c) \/ \E k \in Keys : Get(c, k)
       \/ \E o \in Others : OtherStep(o)
       \/ CleanerStep \/ Stop
       \/ \E k \in Keys : Expire(k)
    /\ Observe

Spec == Init /\ [][Next]_vars

FairSpec ==
    /\ Spec
    /\ \A c \in Getters : WF_vars(GetStep(c) /\ Observe)
    /\ WF_vars(CleanerStep /\ Observe)

----------------------------------------------------------------------------
TypeOK ==
    /\ loader \in BOOLEAN /\ closed \in BOOLEAN
    /\ data \in [Keys -> Values \cup {None}]
    /\ expired \subseteq {k \in Keys : data[k] # None}
    /\ flight \in [Keys -> Getters \cup {None}]
    /\ pc \in [Procs -> InGet \cup {"idle", "answered", "forget", "clean", "sweep", "sweep_drop", "ended"}]
    /\ key \in [Procs -> Keys]
    /\ todo \in [Procs -> SUBSET Keys]
    /\ res \in [Getters -> Values \cup {None}]
    /\ due \subseteq Keys
    /\ seen \in [Getters -> SUBSET Values]

\* A key that was loaded is loaded again only after it has lost its item, by
\* expiry or deletion, however many callers missed it at the same time (the
\* single flight of line 84 and the second look of lines 86-93).
LoadedOncePerLoss ==
    \A c \in Getters : pc[c] = "load" => key[c] \in due

\* What Get answers was stored and unexpired, or the result of a flight that
\* was not over, at some time during the call (lines 72-117).
AnswersCurrent ==
    \A c \in Getters : pc[c] = "answered" /\ res[c] # None => res[c] \in seen[c]

\* Every Get is answered, whoever leads its flight and however it ends.
GetAnswered ==
    \A c \in Getters : pc[c] \in InGet ~> pc[c] = "answered"

\* As long as the cache is open, an item that has expired is removed or
\* replaced even if nobody asks for it (lines 191-199).
ExpiredLeaves ==
    \A k \in Keys : k \in expired ~> (k \notin expired \/ closed)
============================================================================
