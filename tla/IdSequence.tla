----------------------------- MODULE IdSequence -----------------------------
(* The two generators of numbered ids of components/sequences: LocalSequence *)
(* counts in memory, RedisSequence in Redis, where many processes draw.      *)
(*                                                                           *)
(* An id is the number padded with zeros to strLen places.  The numbers have *)
(* at most that many, so the string is as good as the number.  maxValue is   *)
(* computed with float64: exact up to 15 places, for which this is a model.  *)
EXTENDS Integers

CONSTANTS
    Base, StrLen,   \* 10 and at most 15 in the code
    Drawers,        \* callers of Next
    MaxDraws        \* bound on the numbers that are drawn

ASSUME SequenceAssumption == Base \in Nat \ {0, 1} /\ StrLen \in Nat \ {0} /\ MaxDraws \in Nat

MaxValue == Base ^ StrLen - 1

ASSUME MaxValueAssumption == MaxValue \in Nat \ {0}

VARIABLES
    store,      \* where the counter is: "local" or "redis"
    current,    \* the counter; 0 also while the key is not in Redis
    answer,     \* answer[d]: the number drawn for d that is on its way to it
    held,       \* held[d]: the number that d has been given
    draws,      \* history: how many numbers have been drawn
    round       \* history: how often the counter has been reset

sequenceVars == <<store, current, answer, held, draws, round>>

\* A number with the history of its drawing.
Nothing == [id |-> 0, draw |-> 0, round |-> 0]

SequenceInit ==
    /\ store \in {"local", "redis"}
    /\ current = 0
    /\ answer = [d \in Drawers |-> Nothing]
    /\ held = [d \in Drawers |-> Nothing]
    /\ draws = 0
    /\ round = 0

\* LocalSequence.Next wraps before it counts ...
LocalDrawn == (IF current >= MaxValue THEN 0 ELSE current) + 1

\* A faulty variant of the next definition: the last number is never drawn.
SlipRedisDrawn == IF current + 1 > MaxValue - 1 THEN 1 ELSE current + 1

\* ... and the script of RedisSequence.Next afterwards.
RedisDrawn == IF current + 1 > MaxValue THEN 1 ELSE current + 1

Drawn(n) == [id |-> n, draw |-> draws + 1, round |-> round]

Draw(n) ==
    /\ draws < MaxDraws
    /\ draws' = draws + 1
    /\ current' = n
    /\ UNCHANGED <<store, round>>

\* Under the mutex of the sequence.
LocalNext(d) ==
    /\ store = "local"
    /\ Draw(LocalDrawn)
    /\ held' = [held EXCEPT ![d] = Drawn(LocalDrawn)]
    /\ UNCHANGED answer

\* Redis runs the script, in one step; the answer comes later ...
RedisNext(d) ==
    /\ store = "redis"
    /\ answer[d] = Nothing
    /\ Draw(RedisDrawn)
    /\ answer' = [answer EXCEPT ![d] = Drawn(RedisDrawn)]
    /\ UNCHANGED held

\* ... or is lost, and Next returns an error: the number is never used.
RedisAnswers(d) ==
    /\ answer[d] # Nothing
    /\ held' \in {[held EXCEPT ![d] = answer[d]], held}
    /\ answer' = [answer EXCEPT ![d] = Nothing]
    /\ UNCHANGED <<store, current, draws, round>>

\* RedisSequence.Reset.
Reset ==
    /\ store = "redis"
    /\ round < 1
    /\ current' = 0
    /\ round' = round + 1
    /\ UNCHANGED <<store, answer, held, draws>>

SequenceNext ==
    \/ \E d \in Drawers : LocalNext(d) \/ RedisNext(d) \/ RedisAnswers(d)
    \/ Reset

SequenceSpec == SequenceInit /\ [][SequenceNext]_sequenceVars

----------------------------------------------------------------------------
\* Two callers are given the same id only if all the ids of a round have been
\* drawn from the one to the other, or the counter has been reset between them:
\* the wrap skips none and repeats none, also when answers are lost or overtake
\* each other (local.go lines 32-46, redis.go lines 43-89).
IdsDistinct ==
    \A d, e \in Drawers :
        held[d].id = held[e].id /\ held[d].round = held[e].round /\ held[d].draw < held[e].draw =>
            held[d] = Nothing \/ held[e].draw - held[d].draw >= MaxValue
============================================================================
