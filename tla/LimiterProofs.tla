---------------------------- MODULE LimiterProofs ----------------------------
(* Why the two keyed locks exclude, for any finite set of callers and any    *)
(* keys.  In process: the mutex of a key may be dropped only when nobody     *)
(* uses it, which is what an exact reference count gives (RefCountExact);    *)
(* then all callers active on a key have the same mutex, and a mutex has one *)
(* holder.  Over Redis: while a lease lasts, the value under the key is its  *)
(* holder's.  The last theorem carries both over to Limiter.                 *)
EXTENDS Limiter, FiniteSetTheorems, TLAPS

InUse == {"lock", "run", "release", "refused"}

\* What a caller has at each place.
CallerInv ==
    \A p \in Procs :
        /\ pc[p] = "idle" => key[p] = NoKey /\ mine[p] = NoMutex
        /\ pc[p] = "get" => key[p] \in Keys /\ mine[p] = NoMutex
        /\ pc[p] \in InUse => key[p] \in Keys /\ mine[p] \in Mutexes

\* Two keys never share a mutex.
OwnMutex == \A k, l \in Keys : Known(k) /\ muMap[k] = muMap[l] => k = l

\* A mutex is locked exactly while one caller runs under it.
LockedInv ==
    /\ \A m \in locked : \E p \in Procs : pc[p] = "run" /\ mine[p] = m
    /\ \A p \in Procs : pc[p] = "run" => mine[p] \in locked
    /\ \A p, q \in Procs : pc[p] = "run" /\ pc[q] = "run" /\ mine[p] = mine[q] => p = q

Inv == TypeOK /\ CallerInv /\ OwnMutex /\ LockedInv /\ RefCountExact

LEMMA ActiveFinite == \A k \in Keys : IsFiniteSet(Active(k))
BY ProcsAssumption, FS_Subset DEF Active

\* A caller moving to another place inside its critical path changes nobody's
\* reference.
LEMMA SameActive ==
    ASSUME NEW p \in Procs, Inv, pc[p] \in InUse, pc'[p] \in InUse,
           \A q \in Procs \ {p} : pc'[q] = pc[q], UNCHANGED <<muMap, refCount, key, mine>>
    PROVE  RefCountExact'
<1>1. \A k \in Keys : Active(k)' = Active(k)
  BY DEF Active, InUse
<1> QED BY <1>1 DEF Inv, RefCountExact, Known

LEMMA InitInv == Init => Inv
<1> SUFFICES ASSUME Init PROVE Inv
  OBVIOUS
<1>1. \A k \in Keys : Active(k) = {} /\ ~Known(k)
  BY DEF Init, Active, Known
<1> QED BY <1>1 DEF Init, Inv, TypeOK, CallerInv, OwnMutex, LockedInv, RefCountExact, InUse

LEMMA CallInv == ASSUME Inv, NEW p \in Procs, Call(p) PROVE Inv'
<1> USE DEF Inv, TypeOK
<1>1. PICK k \in Keys : key' = [key EXCEPT ![p] = k]
  BY DEF Call
<1>2. /\ pc[p] = "idle" /\ pc' = [pc EXCEPT ![p] = "get"] /\ mode' \in [Procs -> {"try", "wait"}]
      /\ UNCHANGED <<muMap, refCount, locked, mine>>
  BY DEF Call, Goto
<1>3. \A l \in Keys : Active(l)' = Active(l)
  BY <1>1, <1>2 DEF Active
<1>4. TypeOK' /\ CallerInv'
  BY <1>1, <1>2 DEF CallerInv, InUse
<1>5. OwnMutex' /\ LockedInv'
  BY <1>2 DEF OwnMutex, Known, LockedInv
<1>6. RefCountExact'
  <2>1. \A l \in Keys : \A q \in Active(l) : q \in Procs /\ mine'[q] = mine[q]
    BY <1>2 DEF Active
  <2> QED BY <1>2, <1>3, <2>1 DEF RefCountExact, Known
<1> QED BY <1>4, <1>5, <1>6

LEMMA GetInv == ASSUME Inv, NEW p \in Procs, GetKnown(p) \/ GetNew(p) PROVE Inv'
<1> USE MutexesAssumption DEF Inv, TypeOK
<1>0. PICK k \in Keys : key[p] = k
  BY DEF GetKnown, GetNew, CallerInv
<1>1. pc[p] = "get" /\ mine[p] = NoMutex /\ p \notin Active(k)
  BY DEF GetKnown, GetNew, CallerInv, Active
<1>2. PICK m \in Mutexes :
        /\ mine' = [mine EXCEPT ![p] = m] /\ pc' = [pc EXCEPT ![p] = "lock"]
        /\ UNCHANGED <<locked, mode, key>>
        /\ \/ /\ Known(k) /\ m = muMap[k] /\ muMap' = muMap
              /\ refCount' = [refCount EXCEPT ![m] = @ + 1]
           \/ /\ ~Known(k) /\ m \in Fresh /\ muMap' = [muMap EXCEPT ![k] = m]
              /\ refCount' = [refCount EXCEPT ![m] = 1]
  <2>1. CASE GetKnown(p)
    BY <1>0, <1>1, <2>1 DEF GetKnown, Goto, Refs, Known
  <2>2. CASE GetNew(p)
    BY <1>0, <1>1, <2>2 DEF GetNew, Goto, Fresh
  <2> QED BY <2>1, <2>2
<1>3. TypeOK' /\ CallerInv'
  BY <1>0, <1>1, <1>2 DEF CallerInv, InUse
<1>4. OwnMutex'
  BY <1>0, <1>1, <1>2 DEF OwnMutex, Known, Fresh
<1>5. LockedInv'
  BY <1>0, <1>1, <1>2 DEF LockedInv
<1>6. /\ Active(k)' = Active(k) \cup {p}
      /\ \A l \in Keys \ {k} : Active(l)' = Active(l)
  BY <1>0, <1>1, <1>2 DEF Active
<1>7. Cardinality(Active(k)') = Cardinality(Active(k)) + 1
  BY <1>0, <1>1, <1>6, ActiveFinite, FS_AddElement
<1>8. RefCountExact'
  <2>1. ASSUME NEW l \in Keys \ {k}
        PROVE  /\ muMap'[l] = muMap[l]
               /\ Known(l) => refCount'[muMap[l]] = refCount[muMap[l]]
               /\ \A q \in Active(l) : q \in Procs /\ mine'[q] = mine[q]
    BY <1>0, <1>1, <1>2 DEF OwnMutex, Known, Fresh, Active
  <2>2. muMap'[k] = m /\ m # NoMutex /\ refCount'[m] = Cardinality(Active(k)')
    <3>1. CASE Known(k)
      BY <1>0, <1>1, <1>2, <1>7, <3>1 DEF RefCountExact, Known
    <3>2. CASE ~Known(k)
      <4>1. Active(k) = {}
        BY <1>0, <1>1, <3>2 DEF RefCountExact
      <4> QED BY <1>0, <1>1, <1>2, <1>7, <3>2, <4>1, FS_EmptySet
    <3> QED BY <3>1, <3>2
  <2>3. \A q \in Active(k)' : mine'[q] = m
    <3>1. ASSUME NEW q \in Active(k) PROVE mine'[q] = m
      <4>1. q \in Procs /\ q # p /\ mine[q] = muMap[k] /\ Known(k)
        BY <1>0, <1>1 DEF Active, RefCountExact
      <4> QED BY <1>2, <4>1
    <3> QED BY <1>2, <1>6, <3>1
  <2>4. \A l \in Keys \ {k} : /\ Known(l)' <=> Known(l)
                              /\ Known(l) => refCount'[muMap'[l]] = Cardinality(Active(l)')
                              /\ Known(l)' <=> Active(l)' # {}
                              /\ \A q \in Active(l)' : mine'[q] = muMap'[l]
    BY <1>6, <2>1 DEF RefCountExact, Known
  <2>5. Known(k)' /\ Active(k)' # {}
    BY <1>6, <2>2 DEF Known
  <2>6. ASSUME NEW l \in Keys
        PROVE  /\ Known(l)' => refCount'[muMap'[l]] = Cardinality(Active(l)')
               /\ Known(l)' <=> Active(l)' # {}
               /\ \A q \in Active(l)' : mine'[q] = muMap'[l]
    BY <2>2, <2>3, <2>4, <2>5
  <2> QED BY <2>6 DEF RefCountExact
<1> QED BY <1>3, <1>4, <1>5, <1>8

LEMMA LockInv == ASSUME Inv, NEW p \in Procs, Lock(p) \/ TryFails(p) \/ Unlock(p) PROVE Inv'
<1> USE DEF Inv, TypeOK
<1>1. RefCountExact'
  <2>1. pc[p] \in InUse /\ pc'[p] \in InUse /\ \A q \in Procs \ {p} : pc'[q] = pc[q]
    BY DEF Lock, TryFails, Unlock, Goto, InUse
  <2> QED BY <2>1, SameActive DEF Lock, TryFails, Unlock
<1>2. TypeOK' /\ CallerInv'
  BY DEF Lock, TryFails, Unlock, Goto, CallerInv, InUse
<1>3. OwnMutex'
  BY DEF Lock, TryFails, Unlock, OwnMutex, Known
<1>4. LockedInv'
  <2>1. CASE Lock(p)
    BY <2>1 DEF Lock, CanTake, Goto, LockedInv
  <2>2. CASE TryFails(p)
    BY <2>2 DEF TryFails, Goto, LockedInv
  <2>3. CASE Unlock(p)
    BY <2>3 DEF Unlock, Unlocked, Goto, LockedInv
  <2> QED BY <2>1, <2>2, <2>3
<1> QED BY <1>1, <1>2, <1>3, <1>4

LEMMA ReleaseInv == ASSUME Inv, NEW p \in Procs, ReleaseMutex(p) PROVE Inv'
<1> USE MutexesAssumption DEF Inv, TypeOK
<1>0. PICK k \in Keys : key[p] = k
  BY DEF ReleaseMutex, CallerInv, InUse
<1>1. PICK m \in Mutexes : mine[p] = m
  BY DEF ReleaseMutex, CallerInv, InUse
<1>2. p \in Active(k) /\ pc[p] \in {"release", "refused"}
  BY <1>0 DEF ReleaseMutex, Active
<1>3. Known(k) /\ muMap[k] = m /\ refCount[m] = Cardinality(Active(k))
  BY <1>0, <1>1, <1>2 DEF RefCountExact
<1>4. /\ key' = [key EXCEPT ![p] = NoKey] /\ mine' = [mine EXCEPT ![p] = NoMutex]
      /\ pc' = [pc EXCEPT ![p] = "idle"] /\ UNCHANGED <<locked, mode>>
      /\ refCount' = [refCount EXCEPT ![m] = @ - 1]
      /\ muMap' = IF refCount[m] - 1 <= 0 THEN [muMap EXCEPT ![k] = NoMutex] ELSE muMap
  BY <1>0, <1>3 DEF ReleaseMutex, Goto, Last
<1>5. /\ Active(k)' = Active(k) \ {p}
      /\ \A l \in Keys \ {k} : Active(l)' = Active(l)
  BY <1>0, <1>2, <1>4, KeysAssumption DEF Active
<1>6. /\ Cardinality(Active(k)) \in Nat \ {0}
      /\ Cardinality(Active(k)') = Cardinality(Active(k)) - 1
      /\ Cardinality(Active(k)') = 0 <=> Active(k)' = {}
  <2>1. IsFiniteSet(Active(k)) /\ IsFiniteSet(Active(k)')
    BY <1>5, ActiveFinite, FS_RemoveElement
  <2>2. Cardinality(Active(k)) \in Nat /\ Cardinality(Active(k)) # 0
    BY <1>2, <2>1, FS_CardinalityType, FS_EmptySet
  <2> QED BY <1>2, <1>5, <2>1, <2>2, FS_RemoveElement, FS_EmptySet
<1>7. TypeOK' /\ CallerInv'
  BY <1>3, <1>4, <1>6 DEF CallerInv, InUse
<1>8. OwnMutex'
  BY <1>4 DEF OwnMutex, Known
<1>9. LockedInv'
  BY <1>2, <1>4 DEF LockedInv
<1>10. RefCountExact'
  <2>1. ASSUME NEW l \in Keys \ {k}
        PROVE  /\ muMap'[l] = muMap[l]
               /\ Known(l) => refCount'[muMap[l]] = refCount[muMap[l]]
               /\ \A q \in Active(l) : mine'[q] = mine[q]
    BY <1>0, <1>3, <1>4 DEF OwnMutex, Known, Active
  <2>2. \A l \in Keys \ {k} : /\ Known(l) => refCount'[muMap'[l]] = Cardinality(Active(l)')
                              /\ Known(l)' <=> Active(l)' # {}
                              /\ Known(l)' <=> Known(l)
                              /\ \A q \in Active(l)' : mine'[q] = muMap'[l]
    BY <1>5, <2>1 DEF RefCountExact, Known
  <2>3. /\ Known(k)' => refCount'[muMap'[k]] = Cardinality(Active(k)')
        /\ Known(k)' <=> Active(k)' # {}
    BY <1>3, <1>4, <1>6 DEF Known
  <2>4. \A q \in Active(k)' : mine'[q] = muMap'[k]
    <3>1. ASSUME NEW q \in Active(k)' PROVE mine'[q] = m
      BY <1>3, <1>4, <1>5, <3>1 DEF Active, RefCountExact
    <3>2. Active(k)' # {} => muMap'[k] = m
      BY <1>3, <1>4, <1>6
    <3> QED BY <3>1, <3>2
  <2>5. ASSUME NEW l \in Keys
        PROVE  /\ Known(l)' => refCount'[muMap'[l]] = Cardinality(Active(l)')
               /\ Known(l)' <=> Active(l)' # {}
               /\ \A q \in Active(l)' : mine'[q] = muMap'[l]
    BY <2>2, <2>3, <2>4
  <2> QED BY <2>5 DEF RefCountExact
<1> QED BY <1>7, <1>8, <1>9, <1>10

LEMMA StepInv == Inv /\ [Next]_vars => Inv'
<1> SUFFICES ASSUME Inv, [Next]_vars PROVE Inv'
  OBVIOUS
<1>1. CASE UNCHANGED vars
  BY <1>1 DEF vars, Inv, TypeOK, CallerInv, OwnMutex, LockedInv, RefCountExact, Known, Active
<1> QED BY <1>1, CallInv, GetInv, LockInv, ReleaseInv DEF Next, Step

LEMMA InvAlways == Spec => []Inv
BY InitInv, StepInv, PTL DEF Spec

\* Inv makes the callers of one key share one mutex, and so excludes.
LEMMA InvExcludes == Inv => MutualExclusion
<1> SUFFICES ASSUME Inv, NEW p \in Procs, NEW q \in Procs,
                    pc[p] = "run", pc[q] = "run", key[p] = key[q]
             PROVE  p = q
  BY DEF MutualExclusion
<1>1. PICK k \in Keys : key[p] = k /\ key[q] = k
  BY DEF Inv, CallerInv, InUse
<1>2. mine[p] = muMap[k] /\ mine[q] = muMap[k]
  BY <1>1 DEF Inv, RefCountExact, Active
<1> QED BY <1>2 DEF Inv, LockedInv

----------------------------------------------------------------------------
(* The theorems.                                                            *)

\* Types; the reference counts are never negative.
THEOREM TypeCorrect == Spec => []TypeOK
<1>1. Inv => TypeOK BY DEF Inv
<1> QED BY <1>1, InvAlways, PTL

\* Functions given with the same key never run at the same time, for any
\* number of callers and keys.
THEOREM Exclusion == Spec => []MutualExclusion
BY InvAlways, InvExcludes, PTL

\* The reference count is exact and the map forgets a key exactly when its
\* last user leaves.
THEOREM CountExact == Spec => []RefCountExact
<1>1. Inv => RefCountExact BY DEF Inv
<1> QED BY <1>1, InvAlways, PTL

\* "lock busy" is always true when it is said.
THEOREM BusyJustified == Spec => BusyIsTrue
<1> DEFINE Truthful == \A p \in Procs : pc[p] = "lock" /\ pc'[p] = "refused" =>
                          \E q \in Procs \ {p} : pc[q] = "run" /\ key[q] = key[p]
<1>1. Inv /\ [Next]_vars => [Truthful]_vars
  <2> SUFFICES ASSUME Inv, Next, NEW p \in Procs, pc[p] = "lock", pc'[p] = "refused"
               PROVE  \E q \in Procs \ {p} : pc[q] = "run" /\ key[q] = key[p]
    OBVIOUS
  <2>1. TryFails(p)
    BY DEF Next, Step, Call, GetKnown, GetNew, Lock, TryFails, Unlock, ReleaseMutex, Goto, Inv, TypeOK
  <2>2. PICK q \in Procs : pc[q] = "run" /\ mine[q] = mine[p]
    BY <2>1 DEF TryFails, Busy, Inv, LockedInv
  <2>3. key[q] \in Keys /\ key[p] \in Keys
    BY <2>2 DEF Inv, CallerInv, InUse
  <2>4. /\ q \in Active(key[q]) /\ p \in Active(key[p])
    BY <2>2, <2>3 DEF Active
  <2>5. muMap[key[q]] = muMap[key[p]] /\ Known(key[q])
    BY <2>2, <2>3, <2>4 DEF Inv, RefCountExact
  <2> QED BY <2>2, <2>3, <2>5 DEF Inv, OwnMutex
<1> QED BY <1>1, InvAlways, PTL DEF Spec, BusyIsTrue

----------------------------------------------------------------------------
(* The limiter implements KeyedLock.                                        *)

Runs(p, k) == pc[p] = "run" /\ key[p] = k

\* The owner of a key under the refinement mapping: its only runner, if any.
OwnerIsRunner ==
    \A k \in Keys : /\ \A p \in Procs : Runs(p, k) => Owner[k] = p
                    /\ (\A p \in Procs : ~Runs(p, k)) => Owner[k] = NoProc

LEMMA OwnerFact == MutualExclusion => OwnerIsRunner
BY DEF MutualExclusion, OwnerIsRunner, Owner, Runs

\* A key changes hands only if its runner changes.
LEMMA OwnerSame ==
    ASSUME MutualExclusion, MutualExclusion', NEW k \in Keys,
           \A p \in Procs : Runs(p, k)' <=> Runs(p, k)
    PROVE  Owner'[k] = Owner[k]
<1>1. OwnerIsRunner /\ OwnerIsRunner'
  BY OwnerFact, PTL
<1> QED BY <1>1 DEF OwnerIsRunner

\* Every step of the limiter is a step of KeyedLock or changes nothing there.
LEMMA StepRefines ==
    ASSUME Inv, Inv', [Next]_vars
    PROVE  [Abstract!Next]_<<Owner, Request>>
<1> USE ProcsAssumption, KeysAssumption DEF Inv, TypeOK
<1>1. MutualExclusion /\ MutualExclusion' /\ OwnerIsRunner /\ OwnerIsRunner'
  <2>1. MutualExclusion /\ MutualExclusion'
    BY InvExcludes, PTL
  <2> QED BY <2>1, OwnerFact, PTL
<1>2. ASSUME \A p \in Procs, k \in Keys : Runs(p, k)' <=> Runs(p, k) PROVE Owner' = Owner
  BY <1>1, <1>2, OwnerSame DEF Owner
<1>3. ASSUME NEW p \in Procs, Call(p) PROVE Abstract!Ask(p, key'[p]) /\ key'[p] \in Keys
  <2>1. pc[p] = "idle" /\ pc' = [pc EXCEPT ![p] = "get"] /\ key'[p] \in Keys
        /\ \A q \in Procs \ {p} : key'[q] = key[q]
    BY <1>3 DEF Call, Goto
  <2>2. Owner' = Owner
    BY <1>2, <2>1 DEF Runs
  <2>3. Request[p] = NoKey /\ Request' = [Request EXCEPT ![p] = key'[p]]
    BY <2>1 DEF Request
  <2> QED BY <2>1, <2>2, <2>3 DEF Abstract!Ask
<1>4. ASSUME NEW p \in Procs, GetKnown(p) \/ GetNew(p) \/ ReleaseMutex(p)
      PROVE  UNCHANGED <<Owner, Request>>
  <2>1. \/ pc[p] = "get" /\ pc' = [pc EXCEPT ![p] = "lock"] /\ key' = key
        \/ /\ pc[p] \in {"release", "refused"} /\ pc' = [pc EXCEPT ![p] = "idle"]
           /\ key' = [key EXCEPT ![p] = NoKey]
    BY <1>4 DEF GetKnown, GetNew, ReleaseMutex, Goto
  <2>2. Owner' = Owner
    BY <1>2, <2>1 DEF Runs
  <2>3. Request' = Request
    BY <2>1 DEF Request
  <2> QED BY <2>2, <2>3
<1>5. ASSUME NEW p \in Procs, Lock(p) PROVE Abstract!Grant(p)
  <2>1. PICK k \in Keys : key[p] = k
    BY <1>5 DEF Lock, CallerInv, InUse
  <2>2. pc[p] = "lock" /\ pc' = [pc EXCEPT ![p] = "run"] /\ key' = key /\ mine[p] \notin locked
    BY <1>5 DEF Lock, Goto, CanTake
  <2>3. \A q \in Procs : ~Runs(q, k)
    <3>1. ASSUME NEW q \in Procs, Runs(q, k) PROVE FALSE
      <4>1. p \in Active(k) /\ q \in Active(k)
        BY <2>1, <2>2, <3>1 DEF Runs, Active
      <4>2. mine[p] = mine[q]
        BY <4>1 DEF RefCountExact
      <4> QED BY <2>2, <3>1, <4>2 DEF Runs, LockedInv
    <3> QED BY <3>1
  <2>4. Owner[k] = NoProc /\ Owner'[k] = p
    BY <1>1, <2>1, <2>2, <2>3 DEF OwnerIsRunner, Runs
  <2>5. ASSUME NEW l \in Keys \ {k} PROVE Owner'[l] = Owner[l]
    <3>1. \A q \in Procs : Runs(q, l)' <=> Runs(q, l)
      BY <2>1, <2>2 DEF Runs
    <3> QED BY <1>1, <3>1, OwnerSame
  <2>6. Owner' = [Owner EXCEPT ![k] = p]
    <3>1. Owner' = [l \in Keys |-> Owner'[l]] /\ DOMAIN Owner = Keys
      BY DEF Owner
    <3> QED BY <2>4, <2>5, <3>1
  <2>7. Request[p] = k /\ Request' = Request
    BY <2>1, <2>2 DEF Request
  <2> QED BY <2>4, <2>6, <2>7 DEF Abstract!Grant
<1>6. ASSUME NEW p \in Procs, TryFails(p) PROVE Abstract!Refuse(p)
  <2>1. PICK k \in Keys : key[p] = k
    BY <1>6 DEF TryFails, CallerInv, InUse
  <2>2. pc[p] = "lock" /\ pc' = [pc EXCEPT ![p] = "refused"] /\ key' = key /\ mine[p] \in locked
    BY <1>6 DEF TryFails, Goto, Busy
  <2>3. PICK q \in Procs : pc[q] = "run" /\ mine[q] = mine[p]
    BY <2>2 DEF LockedInv
  <2>4. key[q] = k
    <3>1. key[q] \in Keys
      BY <2>3 DEF CallerInv, InUse
    <3>2. mine[q] = muMap[key[q]] /\ Known(key[q]) /\ mine[p] = muMap[k]
      BY <2>1, <2>2, <2>3, <3>1 DEF RefCountExact, Active
    <3> QED BY <2>3, <3>1, <3>2 DEF OwnMutex
  <2>5. Owner[k] = q /\ q # p
    BY <1>1, <2>2, <2>3, <2>4 DEF OwnerIsRunner, Runs
  <2>6. Owner' = Owner
    BY <1>2, <2>2 DEF Runs
  <2>7. Request[p] = k /\ Request' = [Request EXCEPT ![p] = NoKey]
    BY <2>1, <2>2 DEF Request
  <2> QED BY <2>5, <2>6, <2>7 DEF Abstract!Refuse
<1>7. ASSUME NEW p \in Procs, Unlock(p) PROVE Abstract!GiveBack(p)
  <2>1. PICK k \in Keys : key[p] = k
    BY <1>7 DEF Unlock, CallerInv, InUse
  <2>2. pc[p] = "run" /\ pc' = [pc EXCEPT ![p] = "release"] /\ key' = key
    BY <1>7 DEF Unlock, Goto
  <2>3. Owner[k] = p
    BY <1>1, <2>1, <2>2 DEF OwnerIsRunner, Runs
  <2>4. Owner'[k] = NoProc
    <3>1. \A q \in Procs : ~Runs(q, k)'
      BY <1>1, <2>1, <2>2 DEF MutualExclusion, Runs
    <3> QED BY <1>1, <3>1 DEF OwnerIsRunner
  <2>5. ASSUME NEW l \in Keys \ {k} PROVE Owner'[l] = Owner[l]
    <3>1. \A q \in Procs : Runs(q, l)' <=> Runs(q, l)
      BY <2>1, <2>2 DEF Runs
    <3> QED BY <1>1, <3>1, OwnerSame
  <2>6. Owner' = [Owner EXCEPT ![k] = NoProc]
    BY <2>4, <2>5 DEF Owner
  <2>7. Request[p] = k /\ Request' = [Request EXCEPT ![p] = NoKey]
    BY <2>1, <2>2 DEF Request
  <2> QED BY <2>3, <2>6, <2>7 DEF Abstract!GiveBack
<1>8. CASE UNCHANGED vars
  BY <1>8 DEF vars, Owner, Request
<1> QED BY <1>3, <1>4, <1>5, <1>6, <1>7, <1>8 DEF Next, Step, Abstract!Next

\* The limiter implements KeyedLock: it grants, refuses and gives back keys as
\* the interface promises.
THEOREM Refinement == Spec => ImplementsKeyedLock
<1>1. Init => Abstract!Init
  BY DEF Init, Owner, Request, Abstract!Init
<1>2. Inv /\ Inv' /\ [Next]_vars => [Abstract!Next]_<<Owner, Request>>
  BY StepRefines
<1> QED BY <1>1, <1>2, InvAlways, PTL DEF Spec, ImplementsKeyedLock, Abstract!Spec

----------------------------------------------------------------------------
(* The lock over Redis: LeaseHeld is inductive with the types and with      *)
(* every active caller having a key.                                        *)

HasKey == \A p \in Procs : at[p] \notin {"idle", "dead"} => want[p] \in Keys

RedisInv == RedisTypeOK /\ HasKey /\ LeaseHeld

LEMMA RedisInitInv == RedisInit => RedisInv
BY DEF RedisInit, RedisInv, RedisTypeOK, HasKey, LeaseHeld

\* SETNX stores a value only where there is none, the script deletes only its
\* caller's value, and expiry marks whom it hits.
LEMMA RedisStepInv == RedisInv /\ [RedisNext]_redisVars => RedisInv'
<1> SUFFICES ASSUME RedisInv, [RedisNext]_redisVars PROVE RedisInv'
  OBVIOUS
<1> USE ProcsAssumption, KeysAssumption, RedisKeysAssumption DEF RedisInv, RedisTypeOK
<1>1. ASSUME NEW p \in Procs, RedisCall(p) \/ Cancel(p) PROVE RedisInv'
  BY <1>1 DEF RedisCall, Cancel, Move, HasKey, LeaseHeld
<1>2. ASSUME NEW p \in Procs, Acquire(p) PROVE RedisInv'
  BY <1>2 DEF Acquire, Vacant, Move, HasKey, LeaseHeld
<1>3. ASSUME NEW p \in Procs, Occupied(p) \/ WakeUp(p) \/ Finish(p) PROVE RedisInv'
  BY <1>3 DEF Occupied, WakeUp, Finish, AfterSet, Move, HasKey, LeaseHeld
<1>4. ASSUME NEW p \in Procs, Refused(p) \/ GiveUp(p) \/ ReleaseFails(p) PROVE RedisInv'
  BY <1>4 DEF Refused, GiveUp, ReleaseFails, Leave, Over, Move, HasKey, LeaseHeld
<1>5. ASSUME NEW p \in Procs, SetFails(p) PROVE RedisInv'
  BY <1>5 DEF SetFails, Vacant, Leave, Over, Move, HasKey, LeaseHeld
<1>6. ASSUME NEW p \in Procs, Release(p) PROVE RedisInv'
  BY <1>6 DEF Release, Owns, Leave, Over, Move, HasKey, LeaseHeld
<1>7. ASSUME NEW p \in Procs, Crash(p) PROVE RedisInv'
  BY <1>7 DEF Crash, Over, Move, HasKey, LeaseHeld
<1>8. ASSUME NEW k \in Keys, Expire(k) PROVE RedisInv'
  BY <1>8 DEF Expire, HasKey, LeaseHeld
<1>9. CASE UNCHANGED redisVars
  BY <1>9 DEF redisVars, HasKey, LeaseHeld
<1> QED BY <1>1, <1>2, <1>3, <1>4, <1>5, <1>6, <1>7, <1>8, <1>9 DEF RedisNext, RedisStep

LEMMA RedisInvAlways == RedisSpec => []RedisInv
BY RedisInitInv, RedisStepInv, PTL DEF RedisSpec

\* Until its lease runs out a caller's value stays in Redis.
THEOREM LeaseKept == RedisSpec => []LeaseHeld
<1>1. RedisInv => LeaseHeld BY DEF RedisInv
<1> QED BY <1>1, RedisInvAlways, PTL

\* Two functions overlap under one key only after a lease ran out.
THEOREM LeaseExcludes == RedisSpec => []ExclusiveWithinLease
<1>1. LeaseHeld => ExclusiveWithinLease
  BY DEF LeaseHeld, ExclusiveWithinLease
<1> QED BY <1>1, LeaseKept, PTL

\* Nobody deletes the lock of somebody else.
THEOREM OwnRelease == RedisSpec => ReleasesOwnLock
<1> DEFINE Own == \A k \in Keys, p \in Procs :
                    redis[k] = p /\ redis'[k] # p /\ at' # at => at[p] = "release" /\ want[p] = k
<1>1. RedisInv /\ [RedisNext]_redisVars => [Own]_redisVars
  <2> SUFFICES ASSUME RedisInv, RedisNext, NEW k \in Keys, NEW p \in Procs,
                      redis[k] = p, redis'[k] # p, at' # at
               PROVE  at[p] = "release" /\ want[p] = k
    OBVIOUS
  <2> USE ProcsAssumption DEF RedisInv, RedisTypeOK
  <2>1. PICK q \in Procs : Acquire(q) \/ SetFails(q) \/ Release(q)
    BY DEF RedisNext, RedisStep, RedisCall, Cancel, Occupied, Refused, WakeUp, GiveUp, Finish, ReleaseFails, Crash, Over, Expire
  <2>2. want[q] \in Keys
    BY <2>1 DEF HasKey, Acquire, SetFails, Release
  <2>3. ~Acquire(q) /\ ~SetFails(q)
    BY <2>2 DEF Acquire, SetFails, Vacant
  <2> QED BY <2>1, <2>2, <2>3 DEF Release, Owns
<1> QED BY <1>1, RedisInvAlways, PTL DEF RedisSpec, ReleasesOwnLock

----------------------------------------------------------------------------
(* The composition.                                                         *)

\* Whichever locker an application is built with, its run is a run of both
\* specifications: of one of them it does the steps, and the other one is left
\* alone.  So every theorem above holds of Limiter (lines 14-21).
THEOREM LimiterIsBoth == LimiterSpec => Spec /\ RedisSpec
<1>1. LimiterInit => Init /\ RedisInit
  BY DEF LimiterInit
<1>2. [LimiterNext]_limiterVars => [Next]_vars /\ [RedisNext]_redisVars
  BY DEF LimiterNext, UniRuns, RedisRuns, limiterVars
<1> QED BY <1>1, <1>2, PTL DEF LimiterSpec, Spec, RedisSpec
=============================================================================
