------------------------------ MODULE FileStore ------------------------------
(* FileFailedMessageStore of components/mqs/file_store.go: a map of         *)
(* messages in a JSON file, rewritten by every change.                      *)
(*                                                                          *)
(* os.WriteFile truncates a file and then writes it, so a crash or an error *)
(* in between leaves it damaged; os.Rename is atomic.  Count is a Retrieve. *)
EXTENDS MessageStore

CONSTANT NoProc
ASSUME NoProcAssumption == NoProc \notin Procs

VARIABLES
    tmp,        \* the file filePath.tmp
    writer,     \* the goroutine that holds s.mu for writing, or NoProc
    readers,    \* the goroutines that hold s.mu for reading
    pc,         \* where each goroutine is
    data        \* data[p]: the file p has read or is about to write

diskVars == <<file, tmp, backup>>
lockVars == <<writer, readers>>
callVars == <<request, answer>>
vars == <<file, backup, request, answer, tmp, writer, readers, pc, data>>

FInit ==
    /\ Init
    /\ tmp = Absent
    /\ writer = NoProc
    /\ readers = {}
    /\ pc = [p \in Procs |-> "idle"]
    /\ data = [p \in Procs |-> Absent]

Goto(p, l) == pc' = [pc EXCEPT ![p] = l]
Keep(p, f) == data' = [data EXCEPT ![p] = f]

\* The call is over but for its deferred Unlock.
Answers(p, a) == Reply(p, a) /\ Goto(p, "return")

----------------------------------------------------------------------------
(* Faulty variants of the definitions below: nothing refers to them.        *)

SlipSaveTarget(torn) ==             \* no temporary file
    /\ file' = torn
    /\ UNCHANGED <<tmp, backup>>
SlipShared(p) == writer = NoProc    \* the write lock does not wait for readers

----------------------------------------------------------------------------
FCall(p) ==
    /\ pc[p] = "idle"
    /\ Call(p)
    /\ Goto(p, "lock")
    /\ UNCHANGED <<tmp, lockVars, data>>

\* The first step after the lock, by method.
FirstStep(k) ==
    IF k \in {"store", "remove"} THEN "load"
    ELSE IF k = "clear" THEN "write"
    ELSE IF k = "restore" THEN "read_backup" ELSE "read"

\* s.mu.Lock waits for everybody, s.mu.RLock for the writer.
CanWrite(p) == writer = NoProc /\ readers = {}

Lock(p) ==
    /\ pc[p] = "lock"
    /\ IF request[p].kind \in Updates \cup {"restore"}
       THEN CanWrite(p) /\ writer' = p /\ UNCHANGED readers
       ELSE writer = NoProc /\ readers' = readers \cup {p} /\ UNCHANGED writer
    /\ Goto(p, FirstStep(request[p].kind))
    /\ Keep(p, IF request[p].kind = "clear" THEN Whole(EmptyMap) ELSE Absent)
    /\ UNCHANGED <<diskVars, callVars>>

\* Every step on a file may fail; the error is returned.
StepFails(p) ==
    /\ pc[p] \in {"load", "write", "write_rest", "read", "copy", "copy_rest",
                 "read_backup", "overwrite", "overwrite_rest"}
    /\ Answers(p, Failed)
    /\ UNCHANGED <<diskVars, lockVars, data>>

\* loadFromFile, then the change in memory.
Load(p) ==
    /\ pc[p] = "load"
    /\ Readable(file)
    /\ Keep(p, Whole(Updated(request[p], file.map)))
    /\ Goto(p, "write")
    /\ UNCHANGED <<diskVars, lockVars, callVars>>

\* saveToFile: the temporary file is truncated and written, then renamed.
SaveTarget(torn) ==
    /\ tmp' = torn
    /\ UNCHANGED <<file, backup>>

WriteTmp(p) ==
    /\ pc[p] = "write"
    /\ \E torn \in Damaged : SaveTarget(torn)
    /\ Goto(p, "write_rest")
    /\ UNCHANGED <<lockVars, callVars, data>>

WriteTmpRest(p) ==
    /\ pc[p] = "write_rest"
    /\ SaveTarget(data[p])
    /\ Goto(p, "rename")
    /\ UNCHANGED <<lockVars, callVars, data>>

Rename(p) ==
    /\ pc[p] = "rename"
    /\ file' = tmp
    /\ tmp' = Absent
    /\ Answers(p, Ok)
    /\ UNCHANGED <<backup, lockVars, data>>

\* The temporary file is removed if that succeeds.
RenameFails(p) ==
    /\ pc[p] = "rename"
    /\ tmp' \in {Absent, tmp}
    /\ Answers(p, Failed)
    /\ UNCHANGED <<file, backup, lockVars, data>>

\* Retrieve answers with what it reads; Backup copies the bytes as they are.
Read(p) ==
    /\ pc[p] = "read"
    /\ IF request[p].kind = "retrieve"
       THEN /\ Readable(file)
            /\ Answers(p, Answer("ok", file.map))
            /\ UNCHANGED data
       ELSE /\ Keep(p, file)
            /\ Goto(p, "copy")
            /\ UNCHANGED callVars
    /\ UNCHANGED <<diskVars, lockVars>>

Copy(p) ==
    /\ pc[p] = "copy"
    /\ backup' \in Damaged
    /\ Goto(p, "copy_rest")
    /\ UNCHANGED <<file, tmp, lockVars, callVars, data>>

CopyRest(p) ==
    /\ pc[p] = "copy_rest"
    /\ backup' = data[p]
    /\ Answers(p, Ok)
    /\ UNCHANGED <<file, tmp, lockVars, data>>

\* Restore parses the backup first: json.Unmarshal refuses an empty file too.
Valid(f) == f.kind = "whole"

ReadBackup(p) ==
    /\ pc[p] = "read_backup"
    /\ Valid(backup)
    /\ Keep(p, backup)
    /\ Goto(p, "overwrite")
    /\ UNCHANGED <<diskVars, lockVars, callVars>>

\* The store's file itself is overwritten.
Overwrite(p) ==
    /\ pc[p] = "overwrite"
    /\ file' \in Damaged
    /\ Goto(p, "overwrite_rest")
    /\ UNCHANGED <<tmp, backup, lockVars, callVars, data>>

OverwriteRest(p) ==
    /\ pc[p] = "overwrite_rest"
    /\ file' = data[p]
    /\ Answers(p, Ok)
    /\ UNCHANGED <<tmp, backup, lockVars, data>>

FReturn(p) ==
    /\ pc[p] = "return"
    /\ Return(p)
    /\ writer' = IF writer = p THEN NoProc ELSE writer
    /\ readers' = readers \ {p}
    /\ Goto(p, "idle")
    /\ Keep(p, Absent)
    /\ UNCHANGED tmp

\* The process dies and is started again; NewFileFailedMessageStore finds the
\* file there and leaves it.
FCrash ==
    /\ Crash
    /\ writer' = NoProc
    /\ readers' = {}
    /\ pc' = [p \in Procs |-> "idle"]
    /\ data' = [p \in Procs |-> Absent]
    /\ UNCHANGED tmp

Step(p) ==
    \/ FCall(p) \/ Lock(p) \/ StepFails(p) \/ FReturn(p)
    \/ Load(p) \/ WriteTmp(p) \/ WriteTmpRest(p) \/ Rename(p) \/ RenameFails(p)
    \/ Read(p) \/ Copy(p) \/ CopyRest(p)
    \/ ReadBackup(p) \/ Overwrite(p) \/ OverwriteRest(p)

FNext == FCrash \/ \E p \in Procs : Step(p)

FSpec == FInit /\ [][FNext]_vars

----------------------------------------------------------------------------
FTypeOK ==
    /\ {file, tmp, backup} \subseteq Files
    /\ request \in [Procs -> Requests \cup {NoRequest}]
    /\ answer \in [Procs -> {NoAnswer, Ok, Failed} \cup {Answer("ok", m) : m \in Maps}]
    /\ writer \in Procs \cup {NoProc}
    /\ readers \subseteq Procs
    /\ pc \in [Procs -> {"idle", "lock", "load", "write", "write_rest", "rename", "read", "copy",
                         "copy_rest", "read_backup", "overwrite", "overwrite_rest", "return"}]
    /\ data \in [Procs -> Files]

\* The file is damaged only by a Restore that was interrupted, never by
\* Store, Remove or Clear, wherever they fail or the process dies ("avoids
\* corruption of the data during the write", line 209).
DamagedByRestoreOnly ==
    [][file.kind = "whole" /\ file'.kind # "whole" =>
         \E p \in Procs : pc[p] = "overwrite" /\ backup.kind = "whole"]_vars

\* The file store implements MessageStore: calls of many goroutines are
\* atomic, one that fails changes nothing, and no crash loses what was stored
\* (lines 55-137, 228-278).
ImplementsStore == Spec
=============================================================================
