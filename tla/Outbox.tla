------------------------------- MODULE Outbox -------------------------------
(* What a message manager promises of the messages it could not send        *)
(* (MqManagerInf and FailedMessageStore of components/mqs/mq.go): a         *)
(* message that was saved stays until the broker has it or MaxRetries       *)
(* resends have failed, and a failed resend counts at most once.  Who       *)
(* publishes, resends, reconnects or closes, over which broker, does not    *)
(* show here; either manager is shown to implement this module.             *)
EXTENDS Naturals

CONSTANTS Messages, Ids, MaxRetries, NoRecord

VARIABLES
    store,      \* the failed-message store: id -> record or NoRecord
    sent        \* the messages the broker has taken

Saved == {i \in Ids : store[i] # NoRecord}

Entry(m, n) == [body |-> m, retry |-> n]

Init ==
    /\ store = [i \in Ids |-> NoRecord]
    /\ sent = {}

\* The broker takes a message.
Taken(m) == sent' = sent \cup {m} /\ UNCHANGED store

\* A message that could not be sent gets a record of its own.
Keep(i, m) ==
    /\ i \notin Saved
    /\ store' = [store EXCEPT ![i] = Entry(m, 0)]
    /\ UNCHANGED sent

\* A resend of a record has failed.
CountFailure(i) ==
    /\ store[i].retry < MaxRetries
    /\ store' = [store EXCEPT ![i] = Entry(store[i].body, store[i].retry + 1)]
    /\ UNCHANGED sent

\* A record is dropped: its message has arrived, or it is given up.
Drop(i) ==
    /\ store[i].body \in sent \/ store[i].retry = MaxRetries
    /\ store' = [store EXCEPT ![i] = NoRecord]
    /\ UNCHANGED sent

Next ==
    \/ \E m \in Messages : Taken(m) \/ \E i \in Ids : Keep(i, m)
    \/ \E i \in Saved : CountFailure(i) \/ Drop(i)

Spec == Init /\ [][Next]_<<store, sent>>
=============================================================================
