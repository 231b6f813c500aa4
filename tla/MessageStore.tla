---------------------------- MODULE MessageStore ----------------------------
(* What a failed-message store promises (FailedMessageStore, mq.go 96-125), *)
(* with Backup and Restore of the file store: every call takes effect at    *)
(* one moment, entirely or, if it fails or the process dies, not at all.    *)
(* Only Restore and Backup may also leave what they write damaged.          *)
EXTENDS FiniteSets

CONSTANTS
    Procs,          \* goroutines that call the store
    Ids,            \* message ids
    Values,         \* what may be stored under an id
    NoValue, NoId

ASSUME NoValueAssumption == NoValue \notin Values
ASSUME NoIdAssumption == NoId \notin Ids

Maps == [Ids -> Values \cup {NoValue}]
EmptyMap == [i \in Ids |-> NoValue]

\* A file: whole, absent, or damaged by a write that stopped in the middle.
\* One that is empty is read as a store without messages, a broken one not.
Whole(m) == [kind |-> "whole", map |-> m]
Absent == [kind |-> "absent", map |-> EmptyMap]
Damaged == {[kind |-> k, map |-> EmptyMap] : k \in {"empty", "broken"}}
Files == {Whole(m) : m \in Maps} \cup {Absent} \cup Damaged

Readable(f) == f.kind # "broken"

Request(k, i, v) == [kind |-> k, id |-> i, value |-> v]
NoRequest == Request("none", NoId, NoValue)
Requests ==
    {Request("store", i, v) : i \in Ids, v \in Values}
    \cup {Request("remove", i, NoValue) : i \in Ids}
    \cup {Request(k, NoId, NoValue) : k \in {"clear", "restore", "backup", "retrieve"}}

Answer(s, m) == [status |-> s, map |-> m]
NoAnswer == Answer("none", EmptyMap)
Failed == Answer("failed", EmptyMap)
Ok == Answer("ok", EmptyMap)

Updates == {"store", "remove", "clear"}

\* The messages after request r on messages m.
Updated(r, m) ==
    IF r.kind = "clear" THEN EmptyMap ELSE [m EXCEPT ![r.id] = r.value]

VARIABLES
    file,       \* the stored messages
    backup,     \* the backup
    request,    \* request[p]: the call p is in
    answer      \* answer[p]: its result, once there is one

Init ==
    /\ file = Whole(EmptyMap)
    /\ backup = Absent
    /\ request = [p \in Procs |-> NoRequest]
    /\ answer = [p \in Procs |-> NoAnswer]

Reply(p, a) == answer' = [answer EXCEPT ![p] = a] /\ UNCHANGED request
Pending(p, kinds) == request[p].kind \in kinds /\ answer[p] = NoAnswer

Call(p) ==
    /\ request[p] = NoRequest
    /\ \E r \in Requests : request' = [request EXCEPT ![p] = r]
    /\ UNCHANGED <<file, backup, answer>>

Update(p) ==
    /\ Pending(p, Updates)
    /\ request[p].kind = "clear" \/ Readable(file)
    /\ file' = Whole(Updated(request[p], file.map))
    /\ Reply(p, Ok)
    /\ UNCHANGED backup

Retrieve(p) ==
    /\ Pending(p, {"retrieve"})
    /\ Readable(file)
    /\ Reply(p, Answer("ok", file.map))
    /\ UNCHANGED <<file, backup>>

Backup(p) ==
    /\ Pending(p, {"backup"})
    /\ backup' = file
    /\ Reply(p, Ok)
    /\ UNCHANGED file

\* Only a whole backup is ever restored.
Restore(p) ==
    /\ Pending(p, {"restore"})
    /\ backup.kind = "whole"
    /\ file' = backup
    /\ Reply(p, Ok)
    /\ UNCHANGED backup

\* A Restore or a Backup that is not over yet, and may never be.
Tear(p) ==
    /\ \/ Pending(p, {"restore"}) /\ backup.kind = "whole" /\ file' \in Damaged /\ UNCHANGED backup
       \/ Pending(p, {"backup"}) /\ backup' \in Damaged /\ UNCHANGED file
    /\ UNCHANGED <<request, answer>>

\* A call that fails leaves everything as it is.
Fail(p) ==
    /\ Pending(p, Updates \cup {"retrieve", "backup", "restore"})
    /\ Reply(p, Failed)
    /\ UNCHANGED <<file, backup>>

Return(p) ==
    /\ answer[p] # NoAnswer
    /\ request' = [request EXCEPT ![p] = NoRequest]
    /\ answer' = [answer EXCEPT ![p] = NoAnswer]
    /\ UNCHANGED <<file, backup>>

\* The process dies: the calls are gone, and what was stored is not.
Crash ==
    /\ request' = [p \in Procs |-> NoRequest]
    /\ answer' = [p \in Procs |-> NoAnswer]
    /\ UNCHANGED <<file, backup>>

Next ==
    \/ \E p \in Procs :
          \/ Call(p) \/ Update(p) \/ Retrieve(p) \/ Backup(p) \/ Restore(p)
          \/ Tear(p) \/ Fail(p) \/ Return(p)
    \/ Crash

Spec == Init /\ [][Next]_<<file, backup, request, answer>>
=============================================================================
