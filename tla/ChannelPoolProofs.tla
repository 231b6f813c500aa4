------------------------- MODULE ChannelPoolProofs -------------------------
(* What ChannelPool guarantees for any number of goroutines and any pool    *)
(* size.  The invariant is inductive as the conjunction of its four parts:  *)
(* NoOrphan and IdleBounded lean on Exclusive (a channel put back or closed *)
(* is in nobody else's hands), and Exclusive leans on Fresh.                *)
EXTENDS ChannelPool, TLAPS

PoolInv == PoolTypeOK /\ Exclusive /\ NoOrphan /\ IdleBounded

\* The initial state satisfies every part: nothing is idle, open or lent.
LEMMA PoolInitInv == PoolInit => PoolInv
BY MaxSizeAssumption DEF PoolInit, PoolInv, PoolTypeOK, Exclusive, NoOrphan, IdleBounded,
       IdleSet, Held

\* Whoever borrows gets a channel no other goroutine holds, and what Put and
\* Close do to the pool keeps every open channel owned (lines 83-152).
LEMMA PoolStepInv == PoolInv /\ [PoolNext]_poolVars => PoolInv'
<1> SUFFICES ASSUME PoolInv, [PoolNext]_poolVars PROVE PoolInv'
  OBVIOUS
<1> USE MaxSizeAssumption, NoChannelAssumption
      DEF PoolInv, PoolTypeOK, IdleBounded, Remaining, Holds, ClosedByPut
<1>1. CASE Establish
  <2>1. PICK ch \in Fresh : idle' = <<ch>> /\ open' = {ch}
    BY <1>1 DEF Establish, NewChannel
  <2>2. IdleSet' = {ch} /\ Held' = Held
    BY <1>1, <2>1 DEF Establish, IdleSet, Held
  <2>3. ch \in Channels /\ \A u \in Users : held[u] # ch
    BY <2>1 DEF Fresh, Held
  <2>4. PoolTypeOK' /\ IdleBounded'
    BY <1>1, <2>1, <2>3 DEF Establish
  <2>5. Exclusive' /\ NoOrphan'
    BY <1>1, <2>1, <2>2, <2>3 DEF Establish, Exclusive, NoOrphan
  <2> QED BY <2>4, <2>5
<1>2. CASE SetupGetFails \/ DeclareFails
  BY <1>2 DEF SetupGetFails, DeclareFails, CanConnect, Exclusive, NoOrphan, IdleSet, Held
<1>3. CASE ConnDown \/ ChannelError
  BY <1>3 DEF ConnDown, ChannelError, Exclusive, NoOrphan, IdleSet, Held
<1>4. CASE ClosePool
  BY <1>4 DEF ClosePool, ClosedWithPool, Exclusive, NoOrphan, IdleSet, Held
<1>5. ASSUME NEW u \in Users, TakeIdle(u) PROVE PoolInv'
  <2>1. /\ Head(idle) = idle[1]
        /\ Len(Tail(idle)) = Len(idle) - 1
        /\ \A i \in 1..Len(Tail(idle)) : Tail(idle)[i] = idle[i + 1]
        /\ Len(idle) \in Nat \ {0}
    BY <1>5 DEF TakeIdle
  <2>2. IdleSet = IdleSet' \cup {idle[1]} /\ idle[1] \notin IdleSet'
    <3>1. /\ Len(idle') = Len(idle) - 1
          /\ \A i \in 1..Len(idle') : idle'[i] = idle[i + 1]
      BY <1>5, <2>1 DEF TakeIdle
    <3>2. ASSUME NEW ch PROVE ch \in IdleSet' <=> \E i \in 2..Len(idle) : ch = idle[i]
      <4>1. ASSUME NEW i \in 2..Len(idle) PROVE i - 1 \in 1..Len(idle') /\ idle'[i - 1] = idle[i]
        BY <2>1, <3>1
      <4>2. ASSUME NEW i \in 1..Len(idle') PROVE i + 1 \in 2..Len(idle) /\ idle'[i] = idle[i + 1]
        BY <2>1, <3>1
      <4>3. ch \in IdleSet' <=> \E i \in 1..Len(idle') : ch = idle'[i]
        BY DEF IdleSet
      <4> HIDE DEF PoolInv, PoolTypeOK, IdleBounded, Remaining
      <4> QED BY <4>1, <4>2, <4>3
    <3>3. ASSUME NEW ch PROVE ch \in IdleSet <=> ch = idle[1] \/ ch \in IdleSet'
      <4>1. 1 \in 1..Len(idle) /\ \A i \in 1..Len(idle) : i = 1 \/ i \in 2..Len(idle)
        BY <2>1
      <4>2. \A i \in 2..Len(idle) : i \in 1..Len(idle)
        BY <2>1
      <4> QED BY <3>2, <4>1, <4>2 DEF IdleSet
    <3>4. idle[1] \notin IdleSet'
      BY <2>1, <3>2 DEF Exclusive
    <3> QED BY <3>3, <3>4
  <2>3. Held' = Held \cup {idle[1]}
    BY <1>5, <2>1 DEF TakeIdle, Held
  <2>4. PoolTypeOK' /\ IdleBounded'
    BY <1>5, <2>1 DEF TakeIdle, GetAllowed
  <2>5. NoOrphan'
    BY <1>5, <2>2, <2>3 DEF TakeIdle, NoOrphan
  <2>6. Exclusive'
    BY <1>5, <2>1, <2>2 DEF TakeIdle, Exclusive, IdleSet
  <2> QED BY <2>4, <2>5, <2>6
<1>6. ASSUME NEW u \in Users, CreateChannel(u) PROVE PoolInv'
  <2>1. PICK ch \in Fresh : held' = [held EXCEPT ![u] = ch] /\ open' = open \cup {ch}
    BY <1>6 DEF CreateChannel, NewChannel
  <2> QED BY <1>6, <2>1 DEF CreateChannel, GetAllowed, Fresh, Exclusive, NoOrphan, IdleSet, Held
<1>7. ASSUME NEW u \in Users, PutBack(u) PROVE PoolInv'
  <2>1. IdleSet' = IdleSet \cup {held[u]}
    BY <1>7 DEF PutBack, IdleSet
  <2>2. Held \subseteq Held' \cup {held[u]}
    BY <1>7 DEF PutBack, Held
  <2>3. PoolTypeOK' /\ IdleBounded'
    BY <1>7 DEF PutBack, HasRoom
  <2>4. NoOrphan'
    BY <1>7, <2>1, <2>2 DEF PutBack, NoOrphan
  <2>5. Exclusive'
    BY <1>7, <2>1 DEF PutBack, Exclusive, IdleSet
  <2> QED BY <2>3, <2>4, <2>5
<1>8. ASSUME NEW u \in Users, PutClose(u) PROVE PoolInv'
  BY <1>8 DEF PutClose, Exclusive, NoOrphan, IdleSet, Held
<1>9. CASE UNCHANGED poolVars
  BY <1>9 DEF poolVars, Exclusive, NoOrphan, IdleSet, Held
<1> QED BY <1>1, <1>2, <1>3, <1>4, <1>5, <1>6, <1>7, <1>8, <1>9 DEF PoolNext, Get, Put

\* Every state of the pool is well typed, with at most MaxSize idle channels
\* and none in a closed pool.
THEOREM PoolTypeCorrect == PoolSpec => []PoolTypeOK
<1>1. PoolInv => PoolTypeOK BY DEF PoolInv
<1> QED BY <1>1, PoolInitInv, PoolStepInv, PTL DEF PoolSpec

\* No channel is ever shared: two borrowers, or a borrower and the pool, never
\* refer to the same channel (lines 83-126).
THEOREM PoolExclusive == PoolSpec => []Exclusive
<1>1. PoolInv => Exclusive BY DEF PoolInv
<1> QED BY <1>1, PoolInitInv, PoolStepInv, PTL DEF PoolSpec

\* No channel is ever leaked open: each one is idle or borrowed, so a Put or
\* the Close of the pool will reach it (lines 105-152).
THEOREM PoolNoOrphan == PoolSpec => []NoOrphan
<1>1. PoolInv => NoOrphan BY DEF PoolInv
<1> QED BY <1>1, PoolInitInv, PoolStepInv, PTL DEF PoolSpec

\* The pool holds at most its configured number of idle channels.
THEOREM PoolIdleBounded == PoolSpec => []IdleBounded
<1>1. PoolInv => IdleBounded BY DEF PoolInv
<1> QED BY <1>1, PoolInitInv, PoolStepInv, PTL DEF PoolSpec

\* Close is final for one step.
LEMMA ClosedStep ==
    ASSUME PoolTypeOK, [PoolNext]_poolVars, pool = "closed"
    PROVE  /\ pool' = "closed"
           /\ open' \subseteq open
           /\ \A u \in Users : held'[u] \in {held[u], NoChannel}
<1> DEFINE Final == /\ pool' = "closed"
                    /\ open' \subseteq open
                    /\ \A u \in Users : held'[u] \in {held[u], NoChannel}
<1>1. CASE ConnDown \/ ChannelError
  BY <1>1 DEF ConnDown, ChannelError
<1>2. ASSUME NEW u \in Users, PutBack(u) \/ PutClose(u) PROVE Final
  BY <1>2 DEF PutBack, PutClose, ClosedByPut, PoolTypeOK
<1>3. CASE UNCHANGED poolVars
  BY <1>3 DEF poolVars
<1> QED BY <1>1, <1>2, <1>3 DEF PoolNext, Establish, SetupGetFails, DeclareFails, CanConnect,
           ClosePool, Get, Put, TakeIdle, CreateChannel, GetAllowed

\* Close is final: no later call opens or lends a channel of that pool.
THEOREM PoolClosedIsFinal == PoolSpec => ClosedIsFinal
<1>1. PoolTypeOK /\ [PoolNext]_poolVars =>
        (pool = "closed" =>
            /\ pool' = "closed"
            /\ open' \subseteq open
            /\ \A u \in Users : held'[u] \in {held[u], NoChannel})
  BY ClosedStep
<1> QED BY <1>1, PoolTypeCorrect, PTL DEF PoolSpec, ClosedIsFinal
============================================================================
