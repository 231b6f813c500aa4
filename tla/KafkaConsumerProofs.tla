------------------------ MODULE KafkaConsumerProofs -------------------------
(* What a committed offset means, for any number of consumers, messages and *)
(* generations.                                                             *)
(*                                                                          *)
(* The invariant has one part per consumer (ClaimInv): while it has a claim *)
(* everything before its position was tried or skipped, and what it has     *)
(* marked was accepted and lies before its position, or at it between the   *)
(* mark and the commit.  The other part (GroupInv) says that the group      *)
(* counts on one consumer at a time, and that the two properties hold.      *)
(* Together they give that an offset never goes back.                       *)
EXTENDS KafkaConsumer, TLAPS

Covered == tried \cup skipped

ClaimInv(m) ==
    /\ pc[m] = "idle" <=> session[m] \in {"new", "out", "blocked"}
    /\ pc[m] = "idle" => marked[m] = NoOffset
    /\ pc[m] # "idle" => pos[m] \in 1..(last + 1) /\ 1..(pos[m] - 1) \subseteq Covered
    /\ pc[m] \in {"handle", "mark", "commit"} => pos[m] <= last /\ pos[m] \in tried
    /\ pc[m] \in {"mark", "commit"} => pos[m] \in handled
    /\ pc[m] = "commit" => marked[m] = pos[m]
    /\ marked[m] # NoOffset => marked[m] \in handled
    /\ marked[m] < pos[m] \/ (marked[m] = pos[m] /\ pc[m] = "commit")
    /\ InGroup(m) => committed < pos[m] \/ (committed = pos[m] /\ pc[m] = "commit")

GroupInv ==
    /\ \A m, n \in Members : InGroup(m) /\ InGroup(n) => m = n
    /\ committed <= last
    /\ Covered \subseteq 1..last
    /\ CommittedWereTried
    /\ CommitsFollowSuccess

Inv == TypeOK /\ GroupInv /\ \A m \in Members : ClaimInv(m)

LEMMA InitInv == Init => Inv
BY BoundAssumption DEF Init, Inv, TypeOK, GroupInv, ClaimInv, Covered, InGroup, Offsets, Messages,
   NoOffset, CommittedWereTried, CommitsFollowSuccess

\* What the messages seen so far do to a consumer that does not move itself:
\* nothing, since they only become more, and the offset changes only for the
\* one consumer the group counts on.
LEMMA OtherClaim ==
    ASSUME Inv, NEW n \in Members,
           pc'[n] = pc[n], pos'[n] = pos[n], marked'[n] = marked[n], session'[n] = session[n],
           tried \subseteq tried', handled \subseteq handled', skipped \subseteq skipped',
           last' \in Offsets, last <= last', InGroup(n) => committed' = committed
    PROVE  ClaimInv(n)'
BY BoundAssumption DEF Inv, TypeOK, ClaimInv, Covered, InGroup, Offsets, Messages

----------------------------------------------------------------------------
(* One lemma per group of actions.                                          *)

\* A new message, and the steps outside a claim.
LEMMA OutsideInv ==
    ASSUME Inv, Produce \/ \E m \in Members : Consume(m) \/ Cancel(m) \/ Blocks(m) \/ Revoke(m) \/ Evict(m)
    PROVE  Inv'
<1> USE BoundAssumption DEF Inv
<1>1. CASE Produce
  <2>1. last' = last + 1 /\ last' \in Offsets /\ UNCHANGED <<committed, gens, session, cancelled, claimVars, ghosts>>
    BY <1>1 DEF Produce, TypeOK, Offsets
  <2>2. TypeOK'
    BY <2>1 DEF TypeOK, claimVars, ghosts
  <2>3. GroupInv'
    BY <2>1 DEF TypeOK, GroupInv, InGroup, Covered, ghosts, CommittedWereTried, CommitsFollowSuccess, Offsets, NoOffset
  <2>4. \A n \in Members : ClaimInv(n)'
    BY <2>1, OtherClaim DEF claimVars, ghosts, TypeOK, Offsets
  <2> QED BY <2>2, <2>3, <2>4
<1>2. ASSUME NEW m \in Members, Consume(m) \/ Cancel(m) \/ Blocks(m) \/ Revoke(m) \/ Evict(m) PROVE Inv'
  <2>1. /\ UNCHANGED <<last, committed, gens, claimVars, ghosts>>
        /\ cancelled' \subseteq Members
        /\ session' \in [Members -> {"new", "out", "claimed", "revoked", "evicted", "blocked"}]
        /\ \A n \in Members \ {m} : session'[n] = session[n]
        /\ \/ session[m] \in {"new", "out"} /\ session'[m] \in {"out", "blocked"}
           \/ session[m] \in {"claimed", "revoked"} /\ session'[m] \in {"revoked", "evicted"}
           \/ session'[m] = session[m]
    BY <1>2 DEF Consume, Cancel, Blocks, Revoke, Evict, InGroup, TypeOK, groupVars
  <2>2. TypeOK'
    BY <2>1 DEF TypeOK, claimVars, ghosts
  <2>3. GroupInv'
    BY <2>1 DEF TypeOK, GroupInv, InGroup, Covered, ghosts, CommittedWereTried, CommitsFollowSuccess
  <2>4. \A n \in Members \ {m} : ClaimInv(n)'
    BY <2>1, OtherClaim DEF claimVars, ghosts, TypeOK, Offsets
  <2>5. ClaimInv(m)'
    BY <2>1 DEF ClaimInv, InGroup, Covered, claimVars, ghosts
  <2> QED BY <2>2, <2>3, <2>4, <2>5
<1> QED BY <1>1, <1>2

\* A session begins at the offset of the group, or behind the last message.
LEMMA ClaimKeeps == ASSUME Inv, NEW m \in Members, Claim(m) PROVE Inv'
<1> USE BoundAssumption DEF Inv
<1>1. StartOffset \in 0..last /\ committed <= StartOffset
  BY DEF StartOffset, TypeOK, GroupInv, Offsets, NoOffset
<1>2. /\ \A n \in Members : ~InGroup(n)
      /\ gens' \in 0..MaxGens
      /\ session' = [session EXCEPT ![m] = "claimed"]
      /\ pc' = [pc EXCEPT ![m] = "loop"]
      /\ pos' = [pos EXCEPT ![m] = StartOffset + 1]
      /\ skipped' = skipped \cup PassedOver
      /\ UNCHANGED <<marked, last, committed, cancelled, tried, handled>>
      /\ session[m] = "out"
  BY DEF Claim, Goto, TypeOK
<1>3. TypeOK'
  BY <1>1, <1>2 DEF TypeOK, PassedOver, Offsets, Messages
<1>4. GroupInv'
  <2>1. \A n \in Members : InGroup(n)' => n = m
    BY <1>2 DEF InGroup, TypeOK
  <2>2. Covered' \subseteq 1..last' /\ Covered \subseteq Covered'
    BY <1>1, <1>2 DEF GroupInv, Covered, PassedOver, TypeOK, Offsets
  <2> QED BY <1>2, <2>1, <2>2 DEF GroupInv, CommittedWereTried, CommitsFollowSuccess, Covered
<1>5. \A n \in Members \ {m} : ClaimInv(n)'
  BY <1>2, OtherClaim DEF TypeOK, Offsets
<1>6. ClaimInv(m)'
  <2>1. pc[m] = "idle" /\ marked[m] = NoOffset
    BY <1>2 DEF ClaimInv
  <2>2. 1..StartOffset \subseteq Covered'
    <3>1. CASE committed = NoOffset
      BY <1>2, <3>1 DEF Covered, PassedOver
    <3>2. CASE committed # NoOffset
      BY <1>2, <3>2 DEF GroupInv, CommittedWereTried, Covered, StartOffset
    <3> QED BY <3>1, <3>2
  <2> QED BY <1>1, <1>2, <2>1, <2>2 DEF ClaimInv, TypeOK, NoOffset, Offsets
<1> QED BY <1>3, <1>4, <1>5, <1>6

\* A claim ends, or the process does.
LEMMA EndKeeps == ASSUME Inv, NEW m \in Members, Leave(m) \/ Crash(m) PROVE Inv'
<1> USE BoundAssumption DEF Inv
<1>1. /\ UNCHANGED <<groupVars, ghosts>> /\ cancelled' \subseteq Members
      /\ session' \in [Members -> {"new", "out", "claimed", "revoked", "evicted", "blocked"}]
      /\ session'[m] \in {"new", "out"}
      /\ \A n \in Members \ {m} : session'[n] = session[n]
      /\ pc' = [pc EXCEPT ![m] = "idle"]
      /\ pos' = [pos EXCEPT ![m] = 0]
      /\ marked' = [marked EXCEPT ![m] = NoOffset]
  BY DEF Leave, Crash, EndClaim, Goto, TypeOK
<1>2. TypeOK'
  BY <1>1 DEF TypeOK, groupVars, ghosts
<1>3. GroupInv'
  BY <1>1 DEF TypeOK, GroupInv, InGroup, Covered, groupVars, ghosts, CommittedWereTried, CommitsFollowSuccess
<1>4. \A n \in Members \ {m} : ClaimInv(n)'
  BY <1>1, OtherClaim DEF groupVars, ghosts, TypeOK, Offsets
<1>5. ClaimInv(m)'
  BY <1>1 DEF ClaimInv, InGroup, TypeOK, NoOffset
<1> QED BY <1>2, <1>3, <1>4, <1>5

\* The steps of ConsumeClaim that change no offset.
LEMMA LoopKeeps ==
    ASSUME Inv, NEW m \in Members, Take(m) \/ HandlerFails(m) \/ HandlerAccepts(m) \/ MarkMessage(m)
    PROVE  Inv'
<1> USE BoundAssumption DEF Inv
<1>1. /\ UNCHANGED <<groupVars, session, cancelled, skipped>>
      /\ tried \subseteq tried' /\ tried' \subseteq tried \cup {pos[m]}
      /\ handled \subseteq handled' /\ handled' \subseteq handled \cup {pos[m]}
      /\ pc' \in [Members -> {"idle", "loop", "handle", "mark", "commit"}]
      /\ \A n \in Members \ {m} : pc'[n] = pc[n] /\ pos'[n] = pos[n] /\ marked'[n] = marked[n]
      /\ pc[m] # "idle" /\ pos[m] \in 1..last
  BY DEF Take, HandlerFails, HandlerAccepts, MarkMessage, Advance, Goto, AfterFailure, AfterSuccess,
     ghosts, TypeOK, ClaimInv, Offsets
<1>2. /\ pos' \in [Members -> 0..(MaxMessages + 1)]
      /\ marked' \in [Members -> Offsets \cup {NoOffset}]
  BY <1>1 DEF Take, HandlerFails, HandlerAccepts, MarkMessage, Advance, NextMessage, Markable, TypeOK, Offsets
<1>3. TypeOK'
  BY <1>1, <1>2 DEF TypeOK, groupVars, Offsets, Messages
<1>4. GroupInv'
  BY <1>1 DEF TypeOK, GroupInv, InGroup, Covered, groupVars, CommittedWereTried, CommitsFollowSuccess
<1>5. \A n \in Members \ {m} : ClaimInv(n)'
  BY <1>1, OtherClaim DEF groupVars, TypeOK, Offsets
<1>6. ClaimInv(m)'
  <2> USE DEF ClaimInv, TypeOK, InGroup, groupVars
  <2>1. CASE Take(m)
    BY <1>1, <2>1 DEF Take, Goto, Covered
  <2>2. CASE HandlerFails(m) \/ HandlerAccepts(m)
    <3>1. pc[m] = "handle" /\ marked' = marked /\ pos[m] \in Covered /\ Covered \subseteq Covered'
      BY <1>1, <2>2 DEF HandlerFails, HandlerAccepts, Covered, ghosts
    <3>2. \/ pc'[m] = "loop" /\ pos'[m] = pos[m] + 1
          \/ pc'[m] = "mark" /\ pos'[m] = pos[m] /\ pos[m] \in handled'
      BY <1>1, <2>2 DEF HandlerFails, HandlerAccepts, Advance, NextMessage, AfterFailure, AfterSuccess, Goto
    <3> QED BY <1>1, <3>1, <3>2 DEF Offsets, NoOffset
  <2>3. CASE MarkMessage(m)
    BY <1>1, <2>3 DEF MarkMessage, Markable, Goto, Covered, ghosts, Offsets, NoOffset
  <2> QED BY <2>1, <2>2, <2>3
<1> QED BY <1>3, <1>4, <1>5, <1>6

\* A commit, by ConsumeClaim or automatic: the group takes what the consumer it
\* counts on has marked.
LEMMA CommitKeeps ==
    ASSUME Inv, NEW m \in Members, Commit(m) \/ Flush(m)
    PROVE  Inv' /\ committed' >= committed
<1> USE BoundAssumption DEF Inv
<1>1. /\ committed' = committed \/ (InGroup(m) /\ committed' = marked[m] /\ marked[m] # NoOffset)
      /\ UNCHANGED <<last, gens, session, cancelled, marked, ghosts>>
      /\ \A n \in Members \ {m} : pc'[n] = pc[n] /\ pos'[n] = pos[n]
      /\ pc' \in [Members -> {"idle", "loop", "handle", "mark", "commit"}]
      /\ \/ pc[m] = "commit" /\ pc'[m] = "loop" /\ pos'[m] = pos[m] + 1
         \/ pc'[m] = pc[m] /\ pos'[m] = pos[m] /\ marked[m] > committed
  BY DEF Commit, Flush, Advance, NextMessage, Goto, claimVars, TypeOK, ClaimInv, InGroup, Offsets, NoOffset
<1>2. pos' \in [Members -> 0..(MaxMessages + 1)] /\ committed' \in Offsets \cup {NoOffset}
  BY <1>1 DEF Commit, Flush, Advance, NextMessage, claimVars, TypeOK, ClaimInv, Offsets
<1>3. marked[m] # NoOffset => 1..marked[m] \subseteq Covered /\ marked[m] \in handled /\ marked[m] <= last
  BY DEF ClaimInv, TypeOK, Covered, Offsets, Messages, NoOffset
<1>4. committed' >= committed
  BY <1>1 DEF ClaimInv, TypeOK, Offsets, NoOffset
<1>5. TypeOK'
  BY <1>1, <1>2 DEF TypeOK, ghosts
<1>6. GroupInv'
  BY <1>1, <1>3 DEF TypeOK, GroupInv, InGroup, Covered, ghosts, CommittedWereTried, CommitsFollowSuccess
<1>7. \A n \in Members \ {m} : ClaimInv(n)'
  BY <1>1, OtherClaim DEF GroupInv, ghosts, TypeOK, Offsets
<1>8. ClaimInv(m)'
  BY <1>1 DEF ClaimInv, TypeOK, InGroup, Covered, ghosts, Offsets, NoOffset
<1> QED BY <1>4, <1>5, <1>6, <1>7, <1>8

----------------------------------------------------------------------------
LEMMA StepInv == Inv /\ [Next]_vars => Inv' /\ (committed' # committed => committed' >= committed)
<1> SUFFICES ASSUME Inv, [Next]_vars PROVE Inv' /\ (committed' # committed => committed' >= committed)
  OBVIOUS
<1>1. CASE Produce
  BY <1>1, OutsideInv DEF Produce
<1>2. ASSUME NEW m \in Members, Consume(m) \/ Cancel(m) \/ StopLoop(m) \/ ConsumeFails(m) \/ Revoke(m) \/ Evict(m)
      PROVE  Inv' /\ committed' = committed
  BY <1>2, OutsideInv DEF StopLoop, ConsumeFails, Consume, Cancel, Blocks, Revoke, Evict, groupVars
<1>3. ASSUME NEW m \in Members, Claim(m) PROVE Inv' /\ committed' = committed
  BY <1>3, ClaimKeeps DEF Claim
<1>4. ASSUME NEW m \in Members, Leave(m) \/ Crash(m) PROVE Inv' /\ committed' = committed
  BY <1>4, EndKeeps DEF Leave, Crash, groupVars
<1>5. ASSUME NEW m \in Members, Take(m) \/ HandlerFails(m) \/ HandlerAccepts(m) \/ MarkMessage(m)
      PROVE  Inv' /\ committed' = committed
  BY <1>5, LoopKeeps DEF Take, HandlerFails, HandlerAccepts, MarkMessage, groupVars
<1>6. ASSUME NEW m \in Members, Commit(m) \/ Flush(m) PROVE Inv' /\ committed' >= committed
  BY <1>6, CommitKeeps
<1>7. CASE UNCHANGED vars
  BY <1>7 DEF vars, groupVars, claimVars, ghosts, Inv, TypeOK, GroupInv, ClaimInv, Covered, InGroup,
     CommittedWereTried, CommitsFollowSuccess
<1> QED BY <1>1, <1>2, <1>3, <1>4, <1>5, <1>6, <1>7 DEF Next, Goroutine

LEMMA InvAlways == Spec => []Inv
<1>1. Inv /\ [Next]_vars => Inv' BY StepInv
<1> QED BY InitInv, <1>1, PTL DEF Spec

\* Types, for any number of consumers, messages and generations.
THEOREM ConsumerGroupTypeCorrect == Spec => []TypeOK
<1>1. Inv => TypeOK BY DEF Inv
<1> QED BY <1>1, InvAlways, PTL

\* A committed offset covers no message that was not given to a handler, but
\* for those that a session began behind before the group had an offset.
THEOREM OffsetsCoverTried == Spec => []CommittedWereTried
<1>1. Inv => CommittedWereTried BY DEF Inv, GroupInv
<1> QED BY <1>1, InvAlways, PTL

\* A committed offset is that of a message which a handler has accepted.
THEOREM OffsetsFollowSuccess == Spec => []CommitsFollowSuccess
<1>1. Inv => CommitsFollowSuccess BY DEF Inv, GroupInv
<1> QED BY <1>1, InvAlways, PTL

\* The offset of the group never goes back, whoever commits late.
THEOREM OffsetNeverGoesBack == Spec => OffsetGrows
<1>1. Inv /\ [Next]_vars => [committed' >= committed]_committed
  BY StepInv
<1> QED BY <1>1, InvAlways, PTL DEF Spec, OffsetGrows
=============================================================================
