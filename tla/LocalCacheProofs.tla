-------------------------- MODULE LocalCacheProofs --------------------------
(* What a Get answers and when a key is loaded, for any number of keys,      *)
(* values and goroutines.  The argument rests on two facts: the goroutine    *)
(* past the second look is the one that the flight of its key belongs to,    *)
(* and a key that is not due has a fresh item.                               *)
EXTENDS LocalCache, TLAPS

Working == {"look", "redrop", "load", "store", "finish"}

\* A goroutine at work in a flight leads the flight of its key.
FlightInv == \A c \in Getters : pc[c] \in Working => flight[key[c]] = c

\* There is a result from the second look or the load on.
ResInv == \A c \in Getters :
    /\ pc[c] \in {"drop", "join"} => res[c] = None
    /\ pc[c] = "store" => res[c] \in Values

\* A key that is not due has an item that has not expired.
DueInv == \A k \in Keys : k \in due \/ Fresh(k)

\* What is about to be loaded is due.
LoadInv == \A c \in Getters : pc[c] \in {"redrop", "load"} => key[c] \in due

\* A Get under way has seen what is current.
SeenInv == \A c \in Getters : pc[c] \in InGet => Current(key[c]) \subseteq seen[c]

Inv == TypeOK /\ FlightInv /\ ResInv /\ DueInv /\ LoadInv /\ SeenInv /\ AnswersCurrent

\* What a step must do for the invariant to last, apart from what is remembered.
Kept ==
    /\ loader' \in BOOLEAN /\ closed' \in BOOLEAN
    /\ data' \in [Keys -> Values \cup {None}]
    /\ expired' \subseteq {k \in Keys : data'[k] # None}
    /\ flight' \in [Keys -> Getters \cup {None}]
    /\ pc' \in [Procs -> InGet \cup {"idle", "answered", "forget", "clean", "sweep", "sweep_drop", "ended"}]
    /\ key' \in [Procs -> Keys]
    /\ todo' \in [Procs -> SUBSET Keys]
    /\ res' \in [Getters -> Values \cup {None}]
    /\ FlightInv'
    /\ ResInv'

\* Only the leader of a flight has a key loaded, and what it loads is stored.
LoadsKept ==
    /\ \A c \in Getters : pc'[c] \in {"redrop", "load"} =>
          /\ key'[c] = key[c]
          /\ pc[c] \in {"look", "redrop", "load"}
          /\ pc[c] = "look" => ~Fresh(key[c]) /\ ~Fresh(key[c])'
    /\ \A k \in Keys : Loaded(k) => Fresh(k)'

\* An answer is new and current, or was the result of the flight, or stays.
AnswersKept ==
    \A c \in Getters : pc'[c] = "answered" /\ res'[c] # None =>
        \/ pc[c] = "idle" /\ res'[c] \in Current(key[c])'
        \/ pc[c] \in InGet /\ res'[c] \in Current(key[c])
        \/ pc[c] = "answered" /\ res'[c] = res[c]

----------------------------------------------------------------------------
LEMMA InitInv == Init => Inv
BY NullAssumption, ProcsAssumption
   DEF Init, Inv, TypeOK, FlightInv, ResInv, DueInv, LoadInv, SeenInv, AnswersCurrent,
       Procs, Working, InGet

\* The part of a step that remembers.
LEMMA Remembering ==
    ASSUME Observe, NEW c \in Getters
    PROVE  /\ pc'[c] \in InGet => seen'[c] = seen[c] \cup Current(key[c])'
           /\ pc'[c] = "answered" /\ pc[c] = "idle" => seen'[c] = Current(key[c])'
           /\ pc'[c] = "answered" /\ pc[c] # "idle" => seen'[c] = seen[c]
           /\ seen'[c] \in {seen[c] \cup Current(key[c])', Current(key[c])', seen[c], {}}
BY DEF Observe, InGet

\* A step that does its part preserves the invariant.
LEMMA Preserved ==
    ASSUME Inv, Observe, Kept, LoadsKept, AnswersKept
    PROVE  Inv'
<1>1. TypeOK'
    <2>1. due' \subseteq Keys
        BY DEF Observe
    <2>2. \A c \in Getters : Current(key[c])' \subseteq Values
        BY DEF Current
    <2>3. seen' \in [Getters -> SUBSET Values]
        <3>1. seen' = [c \in Getters |-> seen'[c]]
            BY DEF Observe
        <3>2. \A c \in Getters : seen'[c] \subseteq Values
            BY Remembering, <2>2 DEF Inv, TypeOK
        <3> QED BY <3>1, <3>2
    <2> QED BY <2>1, <2>3 DEF Kept, TypeOK
<1>2. FlightInv' /\ ResInv'
    BY DEF Kept
<1>3. DueInv'
    <2> SUFFICES ASSUME NEW k \in Keys, ~Fresh(k)' PROVE k \in due'
        BY DEF DueInv
    <2>1. k \in due \/ Fresh(k)
        BY DEF Inv, DueInv
    <2>2. ~Loaded(k)
        BY DEF LoadsKept
    <2> QED BY <2>1, <2>2 DEF Observe, Lost
<1>4. LoadInv'
    <2> SUFFICES ASSUME NEW c \in Getters, pc'[c] \in {"redrop", "load"} PROVE key'[c] \in due'
        BY DEF LoadInv
    <2>1. key'[c] = key[c] /\ key[c] \in Keys
        BY DEF LoadsKept, Inv, TypeOK, Procs
    <2>2. CASE pc[c] = "look"
        BY <2>1, <2>2, <1>3 DEF LoadsKept, DueInv
    <2>3. CASE pc[c] \in {"redrop", "load"}
        <3>1. key[c] \in due
            BY <2>3 DEF Inv, LoadInv
        <3>2. \A d \in Getters : pc[d] = "store" => key[d] # key[c]
            BY <2>3 DEF Inv, FlightInv, Working
        <3>3. ~Loaded(key[c])
            BY <3>2 DEF Loaded
        <3> QED BY <2>1, <3>1, <3>3 DEF Observe
    <2> QED BY <2>2, <2>3 DEF LoadsKept
<1>5. SeenInv'
    BY Remembering DEF SeenInv
<1>6. AnswersCurrent'
    <2> SUFFICES ASSUME NEW c \in Getters, pc'[c] = "answered", res'[c] # None PROVE res'[c] \in seen'[c]
        BY DEF AnswersCurrent
    <2>1. CASE pc[c] = "idle" /\ res'[c] \in Current(key[c])'
        BY <2>1, Remembering
    <2>2. CASE pc[c] \in InGet /\ res'[c] \in Current(key[c])
        <3>1. res'[c] \in seen[c]
            BY <2>2 DEF Inv, SeenInv
        <3> QED BY <3>1, <2>2, Remembering DEF InGet
    <2>3. CASE pc[c] = "answered" /\ res'[c] = res[c]
        BY <2>3, Remembering DEF Inv, AnswersCurrent
    <2> QED BY <2>1, <2>2, <2>3 DEF AnswersKept
<1> QED BY <1>1, <1>2, <1>3, <1>4, <1>5, <1>6 DEF Inv

----------------------------------------------------------------------------
\* A getter goes on without a flight.
LEMMA GetOwn ==
    ASSUME Inv, NEW c \in Getters,
           (\E k \in Keys : Get(c, k)) \/ Drop(c, "drop", "join") \/ NotFound(c) \/ Return(c) \/ Join(c)
    PROVE  Kept /\ LoadsKept /\ AnswersKept
<1> USE NullAssumption, ProcsAssumption DEF Procs, Goto, mapVars, InGet
<1>1. CASE \E k \in Keys : Get(c, k)
    <2>1. PICK k \in Keys : Get(c, k)
        BY <1>1
    <2>2. /\ pc[c] = "idle"
          /\ key' = [key EXCEPT ![c] = k] /\ key'[c] = k
          /\ pc' = [pc EXCEPT ![c] = Look(k, "answered", "drop", "join")]
          /\ res' = [res EXCEPT ![c] = IF Fresh(k) THEN data[k] ELSE None]
          /\ UNCHANGED <<loader, data, expired, flight, closed, todo>>
        BY <2>1 DEF Get, Inv, TypeOK, Hit, IsExpired, Fresh
    <2>3. Look(k, "answered", "drop", "join") \in {"answered", "drop", "join"}
        BY DEF Look
    <2>4. /\ pc'[c] \in {"answered", "drop", "join"}
          /\ pc'[c] # "answered" => res'[c] = None
          /\ pc'[c] = "answered" => Fresh(k) /\ res'[c] = data[k]
          /\ \A d \in Procs \ {c} : pc'[d] = pc[d] /\ key'[d] = key[d]
          /\ \A d \in Getters \ {c} : res'[d] = res[d]
        BY <2>2, <2>3 DEF Inv, TypeOK, Look, Hit, IsExpired, Fresh
    <2>5. Kept
        BY <2>2, <2>4 DEF Inv, Kept, TypeOK, FlightInv, ResInv, Working, Fresh
    <2>6. LoadsKept
        BY <2>2, <2>4 DEF LoadsKept, Loaded
    <2>7. AnswersKept
        <3>1. pc'[c] = "answered" => res'[c] \in Current(key[c])'
            BY <2>2, <2>4 DEF Current, Fresh, Inv, TypeOK
        <3> QED BY <2>2, <2>4, <3>1 DEF AnswersKept
    <2> QED BY <2>5, <2>6, <2>7
<1>2. CASE Drop(c, "drop", "join")
    <2>1. Kept
        BY <1>2 DEF Drop, Delete, Inv, Kept, TypeOK, FlightInv, ResInv, Working
    <2>2. LoadsKept /\ AnswersKept
        BY <1>2 DEF Drop, Inv, TypeOK, LoadsKept, Loaded, AnswersKept
    <2> QED BY <2>1, <2>2
<1>3. CASE NotFound(c) \/ Return(c) \/ Join(c)
    <2>1. Kept
        BY <1>3 DEF NotFound, Return, Join, Inv, Kept, TypeOK, FlightInv, ResInv, Working
    <2>2. LoadsKept /\ AnswersKept
        BY <1>3 DEF NotFound, Return, Join, Inv, TypeOK, ResInv, LoadsKept, Loaded, AnswersKept
    <2> QED BY <2>1, <2>2
<1> QED BY <1>1, <1>2, <1>3

\* A getter goes on in its flight.
LEMMA GetFlight ==
    ASSUME Inv, NEW c \in Getters,
           \/ Lead(c) \/ LookAgain(c) \/ Drop(c, "redrop", "load") \/ Load(c) \/ LoadFails(c)
           \/ StoreLoaded(c) \/ Finish(c)
    PROVE  Kept /\ LoadsKept /\ AnswersKept
<1> USE NullAssumption, ProcsAssumption DEF Procs, Goto, mapVars, InGet, FlightKey
<1>1. CASE Lead(c)
    <2>1. Kept
        BY <1>1 DEF Lead, Inv, Kept, TypeOK, FlightInv, ResInv, Working
    <2>2. LoadsKept /\ AnswersKept
        BY <1>1 DEF Lead, Inv, TypeOK, LoadsKept, Loaded, AnswersKept
    <2> QED BY <2>1, <2>2
<1>2. CASE LookAgain(c)
    <2>1. /\ pc[c] = "look"
          /\ pc' = [pc EXCEPT ![c] = SecondLook(key[c])]
          /\ res' = [res EXCEPT ![c] = IF Fresh(key[c]) THEN data[key[c]] ELSE None]
          /\ UNCHANGED <<loader, data, expired, flight, closed, key, todo>>
        BY <1>2 DEF LookAgain, Hit, IsExpired, Fresh
    <2>2. /\ pc'[c] \in {"finish", "redrop", "load"}
          /\ Fresh(key[c]) => pc'[c] = "finish"
          /\ \A d \in Procs \ {c} : pc'[d] = pc[d]
          /\ \A d \in Getters \ {c} : res'[d] = res[d]
        BY <2>1 DEF Inv, TypeOK, SecondLook, Look, Hit, IsExpired, Fresh
    <2>3. Kept
        BY <2>1, <2>2 DEF Inv, Kept, TypeOK, FlightInv, ResInv, Working, Fresh
    <2>4. LoadsKept /\ AnswersKept
        BY <2>1, <2>2 DEF Inv, TypeOK, LoadsKept, Loaded, AnswersKept, Fresh
    <2> QED BY <2>3, <2>4
<1>3. CASE Drop(c, "redrop", "load")
    <2>1. Kept
        BY <1>3 DEF Drop, Delete, Inv, Kept, TypeOK, FlightInv, ResInv, Working
    <2>2. LoadsKept /\ AnswersKept
        BY <1>3 DEF Drop, Inv, TypeOK, LoadsKept, Loaded, AnswersKept
    <2> QED BY <2>1, <2>2
<1>4. CASE Load(c) \/ LoadFails(c)
    <2>1. Kept
        BY <1>4 DEF Load, LoadFails, Inv, Kept, TypeOK, FlightInv, ResInv, Working
    <2>2. LoadsKept /\ AnswersKept
        BY <1>4 DEF Load, LoadFails, Inv, TypeOK, LoadsKept, Loaded, AnswersKept
    <2> QED BY <2>1, <2>2
<1>5. CASE StoreLoaded(c)
    <2>1. Kept
        BY <1>5 DEF StoreLoaded, Store, Inv, Kept, TypeOK, FlightInv, ResInv, Working
    <2>2. \A d \in Getters : pc[d] = "store" /\ pc'[d] = "finish" => d = c
        BY <1>5 DEF StoreLoaded, Inv, TypeOK
    <2>3. Fresh(key[c])'
        BY <1>5 DEF StoreLoaded, Store, Inv, TypeOK, ResInv, Fresh
    <2>4. \A k \in Keys : Loaded(k) => Fresh(k)'
        BY <1>5, <2>2, <2>3 DEF Loaded, StoreLoaded, Fresh
    <2>5. LoadsKept /\ AnswersKept
        BY <1>5, <2>4 DEF StoreLoaded, Inv, TypeOK, LoadsKept, AnswersKept
    <2> QED BY <2>1, <2>5
<1>6. CASE Finish(c)
    <2>1. /\ pc[c] = "finish"
          /\ \A p \in Procs : pc'[p] = IF p \in Served(c) THEN "answered" ELSE pc[p]
          /\ \A d \in Getters : res'[d] = IF d \in Served(c) THEN res[c] ELSE res[d]
          /\ UNCHANGED <<loader, data, expired, closed, key, todo>>
        BY <1>6 DEF Finish
    <2>2. \A d \in Getters : d \in Served(c) => pc[d] \in {"wait", "finish"} /\ key[d] = key[c]
        BY <2>1 DEF Served
    <2>3. \A d \in Getters \ {c} : pc[d] \in Working => key[d] # key[c]
        BY <2>1 DEF Inv, FlightInv, Working
    <2>4. Kept
        <3>1. FlightInv'
            <4> SUFFICES ASSUME NEW d \in Getters, pc'[d] \in Working PROVE flight'[key'[d]] = d
                BY DEF FlightInv
            <4>1. d \notin Served(c) /\ pc[d] \in Working /\ d # c
                BY <2>1 DEF Working, Served
            <4> QED BY <1>6, <2>1, <2>3, <4>1 DEF Finish, Inv, TypeOK, FlightInv
        <3>2. ResInv'
            BY <2>1 DEF Inv, ResInv
        <3> QED BY <1>6, <2>1, <3>1, <3>2 DEF Finish, Inv, Kept, TypeOK, Served
    <2>5. LoadsKept
        BY <2>1 DEF LoadsKept, Loaded
    <2>6. AnswersKept
        <3> SUFFICES ASSUME NEW d \in Getters, pc'[d] = "answered", res'[d] # None
                     PROVE  \/ pc[d] \in InGet /\ res'[d] \in Current(key[d])
                            \/ pc[d] = "answered" /\ res'[d] = res[d]
            BY DEF AnswersKept
        <3>1. CASE d \in Served(c)
            BY <2>1, <2>2, <3>1 DEF Current, Inv, TypeOK
        <3>2. CASE d \notin Served(c)
            BY <2>1, <3>2
        <3> QED BY <3>1, <3>2
    <2> QED BY <2>4, <2>5, <2>6
<1> QED BY <1>1, <1>2, <1>3, <1>4, <1>5, <1>6

\* The other methods, the cleanup and the clock leave every Get where it is.
LEMMA OtherSteps ==
    ASSUME Inv,
           \/ \E o \in Others : OtherStep(o)
           \/ CleanerStep \/ Stop \/ \E k \in Keys : Expire(k)
    PROVE  Kept /\ LoadsKept /\ AnswersKept
<1> USE NullAssumption, ProcsAssumption DEF Procs
<1>1. /\ \A c \in Getters : pc'[c] = pc[c] /\ key'[c] = key[c]
      /\ UNCHANGED <<res, flight, loader>>
    <2>1. CASE \E o \in Others : OtherStep(o)
        BY <2>1 DEF OtherStep, Remove, Peek, CleanKey, Set, Drop, Clean, Close, Goto, mapVars, procVars, Inv, TypeOK
    <2>2. CASE CleanerStep \/ Stop \/ \E k \in Keys : Expire(k)
        BY <2>2 DEF CleanerStep, Tick, SweepKey, SweepDrop, SweepEnds, Stop, Expire, Goto, mapVars, procVars, Inv, TypeOK
    <2> QED BY <2>1, <2>2
<1>2. data' \in [Keys -> Values \cup {None}] /\ expired' \subseteq {k \in Keys : data'[k] # None}
    <2>1. CASE \E o \in Others : OtherStep(o)
        BY <2>1 DEF OtherStep, Remove, Peek, CleanKey, Set, Drop, Clean, Close, Delete, Store, mapVars, Inv, TypeOK
    <2>2. CASE CleanerStep \/ Stop \/ \E k \in Keys : Expire(k)
        BY <2>2 DEF CleanerStep, Tick, SweepKey, SweepDrop, SweepEnds, Stop, Expire, Delete, mapVars, Inv, TypeOK
    <2> QED BY <2>1, <2>2
<1>3. /\ closed' \in BOOLEAN
      /\ pc' \in [Procs -> InGet \cup {"idle", "answered", "forget", "clean", "sweep", "sweep_drop", "ended"}]
      /\ key' \in [Procs -> Keys]
      /\ todo' \in [Procs -> SUBSET Keys]
    <2>1. CASE \E o \in Others : OtherStep(o)
        <3>1. PICK o \in Others : OtherStep(o)
            BY <2>1
        <3>2. CASE \E k \in Keys : Remove(o, k) \/ (\E v \in Values : Set(o, k, v))
            BY <3>2 DEF Remove, Set, procVars, Inv, TypeOK
        <3>3. CASE \E k \in Keys : Peek(o, k) \/ CleanKey(o, k)
            BY <3>3 DEF Peek, CleanKey, Goto, Inv, TypeOK
        <3>4. CASE Drop(o, "forget", "idle") \/ Clean(o) \/ Close(o)
            BY <3>4 DEF Drop, Clean, Close, Goto, procVars, Inv, TypeOK
        <3> QED BY <3>1, <3>2, <3>3, <3>4 DEF OtherStep
    <2>2. CASE CleanerStep \/ Stop \/ \E k \in Keys : Expire(k)
        BY <2>2 DEF CleanerStep, Tick, SweepKey, SweepDrop, SweepEnds, Visited, Stop, Expire, Goto, mapVars, procVars, Inv, TypeOK
    <2> QED BY <2>1, <2>2
<1>4. FlightInv' /\ ResInv'
    BY <1>1 DEF Inv, FlightInv, ResInv
<1>5. Kept
    BY <1>1, <1>2, <1>3, <1>4 DEF Kept, Inv, TypeOK
<1>6. LoadsKept /\ AnswersKept
    BY <1>1 DEF LoadsKept, Loaded, AnswersKept
<1> QED BY <1>5, <1>6

----------------------------------------------------------------------------
\* The invariant holds in every reachable state.
THEOREM Inductive == Spec => []Inv
<1>1. Inv /\ [Next]_vars => Inv'
    <2> SUFFICES ASSUME Inv, [Next]_vars PROVE Inv'
        OBVIOUS
    <2>1. CASE UNCHANGED vars
        <3>1. \A k \in Keys : Fresh(k)' <=> Fresh(k)
            BY <2>1 DEF vars, mapVars, Fresh
        <3>2. \A c \in Getters : Current(key[c])' = Current(key[c])
            BY <2>1 DEF vars, mapVars, procVars, Current, Fresh
        <3> QED BY <2>1, <3>1, <3>2 DEF vars, mapVars, procVars, Inv, TypeOK, FlightInv, ResInv, DueInv, LoadInv,
                    SeenInv, AnswersCurrent
    <2>2. CASE Next
        <3>1. Kept /\ LoadsKept /\ AnswersKept
            BY <2>2, GetOwn, GetFlight, OtherSteps DEF Next, GetStep
        <3> QED BY <2>2, <3>1, Preserved DEF Next
    <2> QED BY <2>1, <2>2
<1> QED BY InitInv, <1>1, PTL DEF Spec

\* All variables hold values of their kind.
THEOREM CacheTypeCorrect == Spec => []TypeOK
BY Inductive, PTL DEF Inv

\* A key is loaded again only after it has lost its item, for any number of
\* callers that miss it at the same time.
THEOREM NoNeedlessLoad == Spec => []LoadedOncePerLoss
<1>1. Inv => LoadedOncePerLoss
    BY DEF Inv, LoadInv, LoadedOncePerLoss
<1> QED BY Inductive, <1>1, PTL

\* What a Get answers was current during the call.
THEOREM AnswersAreCurrent == Spec => []AnswersCurrent
BY Inductive, PTL DEF Inv
============================================================================
