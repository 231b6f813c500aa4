--------------------------- MODULE KafkaConsumer ---------------------------
(* The consumers of components/mqs/kafka.go (lines 548-685) that share one  *)
(* partition of a topic in one consumer group.  The partition, the group    *)
(* with its generations and the offsets it keeps are sarama's and Kafka's.  *)
(*                                                                          *)
(* Messages are numbered from 1.  The offset n is that of a consumer which  *)
(* has left the first n messages behind.                                    *)
EXTENDS Integers

CONSTANTS
    Members,        \* the consumers of the group
    AutoCommitters, \* those with EnableAutoCommit
    MaxMessages,    \* bound on the messages of the partition
    MaxGens         \* bound on the generations of the group

ASSUME MembersAssumption == AutoCommitters \subseteq Members
ASSUME BoundAssumption == MaxMessages \in Nat /\ MaxGens \in Nat

\* The group has not committed an offset.
NoOffset == -1

Offsets == 0..MaxMessages
Messages == 1..MaxMessages

VARIABLES
    last,           \* the last message of the partition
    committed,      \* the offset of the group
    gens,           \* how often the partition was assigned
    session,        \* session[m]: where the goroutine of Consume is
    cancelled,      \* the consumers whose context is done
    pc,             \* pc[m]: where ConsumeClaim is
    pos,            \* pos[m]: the message it is at
    marked,         \* marked[m]: the offset marked in the session, or NoOffset
    \* What the properties remember:
    tried, handled, \* the messages given to a handler, and those it accepted
    skipped         \* those not tried that a session began behind while the
                    \* group had no offset, also if they came in an earlier one

groupVars == <<last, committed, gens>>
claimVars == <<pc, pos, marked>>
ghosts == <<tried, handled, skipped>>
vars == <<groupVars, session, cancelled, claimVars, ghosts>>

Init ==
    /\ last = 0
    /\ committed = NoOffset
    /\ gens = 0
    /\ session = [m \in Members |-> "new"]
    /\ cancelled = {}
    /\ pc = [m \in Members |-> "idle"]
    /\ pos = [m \in Members |-> 0]
    /\ marked = [m \in Members |-> NoOffset]
    /\ tried = {} /\ handled = {} /\ skipped = {}

----------------------------------------------------------------------------
(* Faulty variants of the definitions below: nothing refers to them.        *)

SlipAfterFailure(m) == "mark"           \* a failure is treated as a success
SlipNext(m) == pos[m] + 2               \* the loop leaves a message out
SlipStartOffset == 0                    \* every session starts from the beginning
SlipFromEnd == last                     \* ... or with the messages to come

----------------------------------------------------------------------------
\* The group counts on m, and takes its commits.
InGroup(m) == session[m] \in {"claimed", "revoked"}

\* A generation must still be left for the next one to take over.
MayRebalance == gens < MaxGens

Goto(m, l) == pc' = [pc EXCEPT ![m] = l]

\* The claim is gone, with all it knows.
EndClaim(m) ==
    /\ Goto(m, "idle")
    /\ pos' = [pos EXCEPT ![m] = 0]
    /\ marked' = [marked EXCEPT ![m] = NoOffset]

----------------------------------------------------------------------------
(* Consume and its goroutine.                                               *)

\* The manager is connected and the consumer group is made.
Consume(m) ==
    /\ session[m] = "new"
    /\ session' = [session EXCEPT ![m] = "out"]
    /\ UNCHANGED <<groupVars, cancelled, claimVars, ghosts>>

Cancel(m) ==
    /\ session[m] # "new" /\ m \notin cancelled
    /\ cancelled' = cancelled \cup {m}
    /\ session' = [session EXCEPT ![m] = IF @ = "claimed" THEN "revoked" ELSE @]
    /\ MayRebalance
    /\ UNCHANGED <<groupVars, claimVars, ghosts>>

\* The configuration that the consumer group has is the manager's: a group
\* without an offset begins with the messages to come.
StartOffset == IF committed = NoOffset THEN last ELSE committed

\* What a session leaves behind for good that nobody has tried: without an
\* offset, all that has come so far, even what came during a session that was
\* taken away before it got to it.  With an offset, nothing is excused.
PassedOver == IF committed = NoOffset THEN 1..StartOffset \ tried ELSE {}

\* The partition is assigned to m, and ConsumeClaim begins.
Claim(m) ==
    /\ session[m] = "out" /\ m \notin cancelled
    /\ \A n \in Members : ~InGroup(n)
    /\ gens < MaxGens
    /\ gens' = gens + 1
    /\ session' = [session EXCEPT ![m] = "claimed"]
    /\ Goto(m, "loop")
    /\ pos' = [pos EXCEPT ![m] = StartOffset + 1]
    /\ UNCHANGED marked
    /\ skipped' = skipped \cup PassedOver
    /\ UNCHANGED <<last, committed, cancelled, tried, handled>>

\* ConsumeClaim has returned without an error, and Consume is called again.
Leave(m) ==
    /\ session[m] \in {"revoked", "evicted"} /\ pc[m] = "loop"
    /\ session' = [session EXCEPT ![m] = "out"]
    /\ EndClaim(m)
    /\ UNCHANGED <<groupVars, cancelled, ghosts>>

\* The goroutine sends to c.done, which nothing receives.
Blocks(m) ==
    /\ session[m] = "out"
    /\ session' = [session EXCEPT ![m] = "blocked"]
    /\ UNCHANGED <<groupVars, cancelled, claimVars, ghosts>>

StopLoop(m) == m \in cancelled /\ Blocks(m)
ConsumeFails(m) == m \notin cancelled /\ Blocks(m)

----------------------------------------------------------------------------
(* ConsumeClaim.  Messages that are there may still be taken once the       *)
(* context of the session is done: select chooses.                          *)

Take(m) ==
    /\ pc[m] = "loop" /\ pos[m] <= last
    /\ Goto(m, "handle")
    /\ tried' = tried \cup {pos[m]}
    /\ UNCHANGED <<groupVars, session, cancelled, pos, marked, handled, skipped>>

NextMessage(m) == pos[m] + 1
Advance(m, l) ==
    /\ Goto(m, l)
    /\ pos' = [pos EXCEPT ![m] = IF l = "loop" THEN NextMessage(m) ELSE @]

AfterFailure(m) == "loop"
AfterSuccess(m) == IF m \in AutoCommitters THEN "loop" ELSE "mark"

HandlerFails(m) ==
    /\ pc[m] = "handle"
    /\ Advance(m, AfterFailure(m))
    /\ UNCHANGED <<groupVars, session, cancelled, marked, ghosts>>

HandlerAccepts(m) ==
    /\ pc[m] = "handle"
    /\ handled' = handled \cup {pos[m]}
    /\ Advance(m, AfterSuccess(m))
    /\ UNCHANGED <<groupVars, session, cancelled, marked, tried, skipped>>

\* The offset behind the message is marked.
Markable(m) == pos[m]

MarkMessage(m) ==
    /\ pc[m] = "mark"
    /\ marked' = [marked EXCEPT ![m] = Markable(m)]
    /\ Goto(m, "commit")
    /\ UNCHANGED <<groupVars, session, cancelled, pos, ghosts>>

\* The group takes the offset, or it is lost on the way or refused, which the
\* session only reports.
Commit(m) ==
    /\ pc[m] = "commit"
    /\ committed' \in {committed} \cup (IF InGroup(m) THEN {marked[m]} ELSE {})
    /\ Advance(m, "loop")
    /\ UNCHANGED <<last, gens, session, cancelled, marked, ghosts>>

----------------------------------------------------------------------------
(* Kafka and sarama.                                                        *)

Produce ==
    /\ last < MaxMessages
    /\ last' = last + 1
    /\ UNCHANGED <<committed, gens, session, cancelled, claimVars, ghosts>>

\* Automatic commits are on by default, also in the configuration of the
\* manager: what is marked is committed now and then, and at the end.
Flush(m) ==
    /\ InGroup(m) /\ marked[m] > committed
    /\ committed' = marked[m]
    /\ UNCHANGED <<last, gens, session, cancelled, claimVars, ghosts>>

\* A rebalance begins and waits for m.
Revoke(m) ==
    /\ MayRebalance /\ session[m] = "claimed"
    /\ session' = [session EXCEPT ![m] = "revoked"]
    /\ UNCHANGED <<groupVars, cancelled, claimVars, ghosts>>

\* The group does not wait for m any longer.
Evict(m) ==
    /\ MayRebalance /\ InGroup(m)
    /\ session' = [session EXCEPT ![m] = "evicted"]
    /\ UNCHANGED <<groupVars, cancelled, claimVars, ghosts>>

\* The process dies and is started again.
Crash(m) ==
    /\ MayRebalance /\ session[m] # "new"
    /\ session' = [session EXCEPT ![m] = "new"]
    /\ cancelled' = cancelled \ {m}
    /\ EndClaim(m)
    /\ UNCHANGED <<groupVars, ghosts>>

----------------------------------------------------------------------------
Goroutine(m) ==
    \/ Claim(m) \/ Leave(m) \/ StopLoop(m)
    \/ Take(m) \/ HandlerFails(m) \/ HandlerAccepts(m) \/ MarkMessage(m) \/ Commit(m)

Next ==
    \/ Produce
    \/ \E m \in Members :
        \/ Goroutine(m) \/ Consume(m) \/ Cancel(m) \/ ConsumeFails(m)
        \/ Flush(m) \/ Revoke(m) \/ Evict(m) \/ Crash(m)

Spec == Init /\ [][Next]_vars

FairSpec == Spec /\ \A m \in Members : WF_vars(Goroutine(m))

----------------------------------------------------------------------------
TypeOK ==
    /\ last \in Offsets
    /\ committed \in Offsets \cup {NoOffset}
    /\ gens \in 0..MaxGens
    /\ session \in [Members -> {"new", "out", "claimed", "revoked", "evicted", "blocked"}]
    /\ cancelled \subseteq Members
    /\ pc \in [Members -> {"idle", "loop", "handle", "mark", "commit"}]
    /\ pos \in [Members -> 0..(MaxMessages + 1)]
    /\ marked \in [Members -> Offsets \cup {NoOffset}]
    /\ tried \subseteq Messages /\ handled \subseteq Messages /\ skipped \subseteq Messages

\* Every message before the offset of the group was given to a handler, but for
\* those that a session began behind before the group had an offset: once it
\* has one, rebalances, evictions and crashes in the middle of a claim leave
\* none out (lines 563-593).
CommittedWereTried ==
    committed # NoOffset => 1..committed \subseteq tried \cup skipped

\* The message that an offset is committed for was accepted by a handler, also
\* when the commit is carried out later (lines 579-585).
CommitsFollowSuccess == committed # NoOffset => committed \in handled \cup {0}

\* The offset of the group never goes back, whoever commits late.
OffsetGrows == [][committed' >= committed]_committed

\* If one consumer goes on for ever, every message is given to a handler, or
\* lies before the start of a session that had no offset to start from, however
\* the others come and go.
AtWork(m) == session[m] \notin {"new", "blocked"} /\ m \notin cancelled

EachIsTried ==
    (\E m \in Members : <>[]AtWork(m)) =>
        \A n \in Messages : n <= last ~> n \in tried \cup skipped

\* A message that the handler refused is not committed ("the message is not
\* marked, its offset is not committed", line 576).
RefusedNotCommitted ==
    committed # NoOffset => 1..committed \subseteq handled \cup skipped
============================================================================
