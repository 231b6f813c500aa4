--------------------------- MODULE FileStoreProofs ---------------------------
(* The file store implements MessageStore, for every number of goroutines,  *)
(* ids and values.  The argument: s.mu keeps the file still while a writer  *)
(* is between its read and its rename, and the backup's source still while  *)
(* it is copied; so the rename is the moment at which the change happens to *)
(* what was read, and the end of the copy the moment of the backup.         *)
EXTENDS FileStore, TLAPS

WriteLabels == {"write", "write_rest", "rename"}
RestoreLabels == {"read_backup", "overwrite", "overwrite_rest"}
CopyLabels == {"copy", "copy_rest"}

\* Who is past the lock holds it, alone if it writes.
LockInv ==
    /\ writer # NoProc => readers = {}
    /\ \A p \in Procs :
          /\ pc[p] \in {"load"} \cup WriteLabels \cup RestoreLabels => writer = p
          /\ pc[p] \in {"read"} \cup CopyLabels => p \in readers

\* The method that runs at each label, and when it has an answer.
CallInv ==
    \A p \in Procs :
        /\ pc[p] = "idle" <=> request[p] = NoRequest
        /\ pc[p] = "return" <=> answer[p] # NoAnswer
        /\ pc[p] = "load" => request[p].kind \in {"store", "remove"}
        /\ pc[p] \in WriteLabels => request[p].kind \in Updates
        /\ pc[p] = "read" => request[p].kind \in {"retrieve", "backup"}
        /\ pc[p] \in CopyLabels => request[p].kind = "backup"
        /\ pc[p] \in RestoreLabels => request[p].kind = "restore"

\* What a goroutine has read is still what the file or the backup holds.
DataInv ==
    \A p \in Procs :
        /\ pc[p] \in WriteLabels =>
              /\ request[p].kind = "clear" \/ Readable(file)
              /\ data[p] = Whole(Updated(request[p], file.map))
        /\ pc[p] = "rename" => tmp = data[p]
        /\ pc[p] \in CopyLabels => data[p] = file
        /\ pc[p] \in {"overwrite", "overwrite_rest"} => data[p] = backup /\ backup.kind = "whole"

Inv == FTypeOK /\ LockInv /\ CallInv /\ DataInv

----------------------------------------------------------------------------
\* The kinds of the requests.
LEMMA RequestKinds ==
    /\ \A r \in Requests : r.kind \in Updates \cup {"restore", "backup", "retrieve"}
    /\ NoRequest.kind = "none"
    /\ NoRequest \notin Requests
<1>1. \A r \in Requests : r.kind \in Updates \cup {"restore", "backup", "retrieve"}
    <2> SUFFICES ASSUME NEW r \in Requests
                 PROVE  r.kind \in Updates \cup {"restore", "backup", "retrieve"}
        OBVIOUS
    <2>1. CASE r \in {Request("store", i, v) : i \in Ids, v \in Values}
        BY <2>1 DEF Request, Updates
    <2>2. CASE r \in {Request("remove", i, NoValue) : i \in Ids}
        BY <2>2 DEF Request, Updates
    <2>3. CASE r \in {Request(k, NoId, NoValue) : k \in {"clear", "restore", "backup", "retrieve"}}
        BY <2>3 DEF Request, Updates
    <2> QED BY <2>1, <2>2, <2>3 DEF Requests
<1>2. NoRequest.kind = "none"
    BY DEF NoRequest, Request
<1> QED BY <1>1, <1>2 DEF Updates

\* A request turns messages into messages.
LEMMA UpdatedType ==
    ASSUME NEW r \in Requests, r.kind \in Updates, NEW m \in Maps
    PROVE  Updated(r, m) \in Maps
<1>1. CASE r.kind = "clear"
    BY <1>1 DEF Updated, EmptyMap, Maps
<1>2. CASE r.kind # "clear"
    <2>1. r.id \in Ids /\ r.value \in Values \cup {NoValue}
        BY <1>2 DEF Requests, Request, Updates
    <2> QED BY <2>1, <1>2 DEF Updated, Maps
<1> QED BY <1>1, <1>2

\* Every kind of file has a map, and a whole one has any.
LEMMA FileTypes ==
    /\ Absent \in Files
    /\ Damaged \subseteq Files
    /\ EmptyMap \in Maps
    /\ \A m \in Maps : Whole(m) \in Files
    /\ \A f \in Files : f.map \in Maps
<1>1. EmptyMap \in Maps
    BY DEF EmptyMap, Maps
<1> QED BY <1>1 DEF Files, Absent, Damaged, Whole

\* The three ways to answer differ from having no answer.
LEMMA Answers3 ==
    /\ Ok # NoAnswer /\ Failed # NoAnswer
    /\ \A m : Answer("ok", m) # NoAnswer
BY DEF Ok, Failed, NoAnswer, Answer

----------------------------------------------------------------------------
\* Types are kept by every step.
LEMMA TypeStep ==
    ASSUME Inv, [FNext]_vars PROVE FTypeOK'
<1> USE DEF FTypeOK
<1> USE FileTypes, RequestKinds
<1>0. FTypeOK
    BY DEF Inv
<1>1. CASE UNCHANGED vars
    BY <1>0, <1>1 DEF vars
<1>2. CASE FCrash
    BY <1>0, <1>2 DEF FCrash, Crash, NoAnswer
<1>3. CASE \E p \in Procs : Step(p)
    <2> SUFFICES ASSUME NEW p \in Procs, Step(p) PROVE FTypeOK'
        BY <1>3
    <2> USE DEF Goto, Keep, Answers, Reply, diskVars, lockVars, callVars
    <2>1. CASE FCall(p)
        BY <1>0, <2>1 DEF FCall, Call
    <2>2. CASE Lock(p)
        BY <1>0, <2>2 DEF Lock, FirstStep
    <2>3. CASE StepFails(p)
        BY <1>0, <2>3 DEF StepFails
    <2>4. CASE FReturn(p)
        BY <1>0, <2>4 DEF FReturn, Return
    <2>5. CASE Load(p)
        <3>1. request[p] \in Requests /\ request[p].kind \in Updates
            BY <1>0, <2>5 DEF Load, Inv, CallInv, Updates
        <3>2. Updated(request[p], file.map) \in Maps
            BY <1>0, <3>1, UpdatedType
        <3> QED BY <1>0, <2>5, <3>2 DEF Load
    <2>6. CASE WriteTmp(p)
        BY <1>0, <2>6 DEF WriteTmp, SaveTarget
    <2>7. CASE WriteTmpRest(p)
        BY <1>0, <2>7 DEF WriteTmpRest, SaveTarget
    <2>8. CASE Rename(p)
        BY <1>0, <2>8 DEF Rename
    <2>9. CASE RenameFails(p)
        BY <1>0, <2>9 DEF RenameFails
    <2>10. CASE Read(p)
        BY <1>0, <2>10 DEF Read
    <2>11. CASE Copy(p)
        BY <1>0, <2>11 DEF Copy
    <2>12. CASE CopyRest(p)
        BY <1>0, <2>12 DEF CopyRest
    <2>13. CASE ReadBackup(p)
        BY <1>0, <2>13 DEF ReadBackup
    <2>14. CASE Overwrite(p)
        BY <1>0, <2>14 DEF Overwrite
    <2>15. CASE OverwriteRest(p)
        BY <1>0, <2>15 DEF OverwriteRest
    <2> QED BY <2>1, <2>2, <2>3, <2>4, <2>5, <2>6, <2>7, <2>8, <2>9, <2>10, <2>11, <2>12,
               <2>13, <2>14, <2>15 DEF Step
<1> QED BY <1>1, <1>2, <1>3 DEF FNext
\* Who writes is alone, after every step.
LEMMA LockStep ==
    ASSUME Inv, [FNext]_vars PROVE LockInv'
<1> USE DEF Inv, FTypeOK, LockInv, WriteLabels, RestoreLabels, CopyLabels, Updates
<1>0. Inv
    OBVIOUS
<1>1. CASE UNCHANGED vars
    BY <1>0, <1>1 DEF vars
<1>2. CASE FCrash
    BY <1>0, <1>2 DEF FCrash, Crash
<1>3. CASE \E p \in Procs : Step(p)
    <2> SUFFICES ASSUME NEW p \in Procs, Step(p) PROVE LockInv'
        BY <1>3
    <2> USE DEF Goto, Keep, Answers, Reply, diskVars, lockVars, callVars
    <2>1. CASE FCall(p)
        BY <1>0, <2>1 DEF FCall, Call
    <2>2. CASE Lock(p)
        BY <1>0, <2>2, NoProcAssumption DEF Lock, FirstStep, CanWrite
    <2>3. CASE StepFails(p)
        BY <1>0, <2>3 DEF StepFails
    <2>4. CASE FReturn(p)
        BY <1>0, <2>4 DEF FReturn, Return
    <2>5. CASE Load(p)
        BY <1>0, <2>5 DEF Load
    <2>6. CASE WriteTmp(p)
        BY <1>0, <2>6 DEF WriteTmp, SaveTarget
    <2>7. CASE WriteTmpRest(p)
        BY <1>0, <2>7 DEF WriteTmpRest, SaveTarget
    <2>8. CASE Rename(p)
        BY <1>0, <2>8 DEF Rename
    <2>9. CASE RenameFails(p)
        BY <1>0, <2>9 DEF RenameFails
    <2>10. CASE Read(p)
        BY <1>0, <2>10 DEF Read
    <2>11. CASE Copy(p)
        BY <1>0, <2>11 DEF Copy
    <2>12. CASE CopyRest(p)
        BY <1>0, <2>12 DEF CopyRest
    <2>13. CASE ReadBackup(p)
        BY <1>0, <2>13 DEF ReadBackup
    <2>14. CASE Overwrite(p)
        BY <1>0, <2>14 DEF Overwrite
    <2>15. CASE OverwriteRest(p)
        BY <1>0, <2>15 DEF OverwriteRest
    <2> QED BY <2>1, <2>2, <2>3, <2>4, <2>5, <2>6, <2>7, <2>8, <2>9, <2>10, <2>11, <2>12,
               <2>13, <2>14, <2>15 DEF Step
<1> QED BY <1>1, <1>2, <1>3 DEF FNext

\* Labels, methods and answers stay in step.
LEMMA CallStep ==
    ASSUME Inv, [FNext]_vars PROVE CallInv'
<1> USE DEF Inv, FTypeOK, CallInv, WriteLabels, RestoreLabels, CopyLabels, Updates
<1>0. Inv
    OBVIOUS
<1>1. CASE UNCHANGED vars
    BY <1>0, <1>1 DEF vars
<1>2. CASE FCrash
    BY <1>0, <1>2, RequestKinds, Answers3 DEF FCrash, Crash
<1>3. CASE \E p \in Procs : Step(p)
    <2> SUFFICES ASSUME NEW p \in Procs, Step(p) PROVE CallInv'
        BY <1>3
    <2> USE DEF Goto, Keep, Answers, Reply, diskVars, lockVars, callVars
    <2>1. CASE FCall(p)
        BY <1>0, <2>1, RequestKinds, Answers3 DEF FCall, Call
    <2>2. CASE Lock(p)
        BY <1>0, <2>2, RequestKinds, Answers3 DEF Lock, FirstStep
    <2>3. CASE StepFails(p)
        BY <1>0, <2>3, RequestKinds, Answers3 DEF StepFails
    <2>4. CASE FReturn(p)
        BY <1>0, <2>4, RequestKinds, Answers3 DEF FReturn, Return
    <2>5. CASE Load(p)
        BY <1>0, <2>5, RequestKinds, Answers3 DEF Load
    <2>6. CASE WriteTmp(p)
        BY <1>0, <2>6, RequestKinds, Answers3 DEF WriteTmp, SaveTarget
    <2>7. CASE WriteTmpRest(p)
        BY <1>0, <2>7, RequestKinds, Answers3 DEF WriteTmpRest, SaveTarget
    <2>8. CASE Rename(p)
        BY <1>0, <2>8, RequestKinds, Answers3 DEF Rename
    <2>9. CASE RenameFails(p)
        BY <1>0, <2>9, RequestKinds, Answers3 DEF RenameFails
    <2>10. CASE Read(p)
        BY <1>0, <2>10, RequestKinds, Answers3 DEF Read
    <2>11. CASE Copy(p)
        BY <1>0, <2>11, RequestKinds, Answers3 DEF Copy
    <2>12. CASE CopyRest(p)
        BY <1>0, <2>12, RequestKinds, Answers3 DEF CopyRest
    <2>13. CASE ReadBackup(p)
        BY <1>0, <2>13, RequestKinds, Answers3 DEF ReadBackup
    <2>14. CASE Overwrite(p)
        BY <1>0, <2>14, RequestKinds, Answers3 DEF Overwrite
    <2>15. CASE OverwriteRest(p)
        BY <1>0, <2>15, RequestKinds, Answers3 DEF OverwriteRest
    <2> QED BY <2>1, <2>2, <2>3, <2>4, <2>5, <2>6, <2>7, <2>8, <2>9, <2>10, <2>11, <2>12,
               <2>13, <2>14, <2>15 DEF Step
<1> QED BY <1>1, <1>2, <1>3 DEF FNext

\* What was read stays what is there.
LEMMA DataStep ==
    ASSUME Inv, [FNext]_vars PROVE DataInv'
<1> USE DEF Inv, FTypeOK, LockInv, CallInv, DataInv, WriteLabels, RestoreLabels, CopyLabels, Updates
<1>0. Inv
    OBVIOUS
<1>1. CASE UNCHANGED vars
    BY <1>0, <1>1 DEF vars
<1>2. CASE FCrash
    BY <1>0, <1>2, RequestKinds DEF FCrash, Crash
<1>3. CASE \E p \in Procs : Step(p)
    <2> SUFFICES ASSUME NEW p \in Procs, Step(p) PROVE DataInv'
        BY <1>3
    <2> USE DEF Goto, Keep, Answers, Reply, diskVars, lockVars, callVars
    <2>1. CASE FCall(p)
        BY <1>0, <2>1, RequestKinds DEF FCall, Call
    <2>2. CASE Lock(p)
        BY <1>0, <2>2, RequestKinds DEF Lock, FirstStep, CanWrite, Updated
    <2>3. CASE StepFails(p)
        BY <1>0, <2>3, RequestKinds DEF StepFails
    <2>4. CASE FReturn(p)
        BY <1>0, <2>4, RequestKinds DEF FReturn, Return
    <2>5. CASE Load(p)
        BY <1>0, <2>5, RequestKinds DEF Load
    <2>6. CASE WriteTmp(p)
        BY <1>0, <2>6, RequestKinds DEF WriteTmp, SaveTarget
    <2>7. CASE WriteTmpRest(p)
        BY <1>0, <2>7, RequestKinds DEF WriteTmpRest, SaveTarget
    <2>8. CASE Rename(p)
        BY <1>0, <2>8, RequestKinds, NoProcAssumption DEF Rename
    <2>9. CASE RenameFails(p)
        BY <1>0, <2>9, RequestKinds DEF RenameFails
    <2>10. CASE Read(p)
        BY <1>0, <2>10, RequestKinds DEF Read
    <2>11. CASE Copy(p)
        BY <1>0, <2>11, RequestKinds, NoProcAssumption DEF Copy
    <2>12. CASE CopyRest(p)
        BY <1>0, <2>12, RequestKinds, NoProcAssumption DEF CopyRest
    <2>13. CASE ReadBackup(p)
        BY <1>0, <2>13, RequestKinds DEF ReadBackup, Valid
    <2>14. CASE Overwrite(p)
        BY <1>0, <2>14, RequestKinds, NoProcAssumption DEF Overwrite
    <2>15. CASE OverwriteRest(p)
        BY <1>0, <2>15, RequestKinds, NoProcAssumption DEF OverwriteRest
    <2> QED BY <2>1, <2>2, <2>3, <2>4, <2>5, <2>6, <2>7, <2>8, <2>9, <2>10, <2>11, <2>12,
               <2>13, <2>14, <2>15 DEF Step
<1> QED BY <1>1, <1>2, <1>3 DEF FNext

\* The invariant holds initially.
LEMMA InitInv == FInit => Inv
<1> SUFFICES ASSUME FInit PROVE Inv
    OBVIOUS
<1> USE DEF FInit, Init
<1>1. FTypeOK
    BY FileTypes DEF FTypeOK, Files
<1>2. LockInv
    BY DEF LockInv, WriteLabels, RestoreLabels, CopyLabels
<1>3. CallInv
    BY DEF CallInv, WriteLabels, RestoreLabels, CopyLabels
<1>4. DataInv
    BY DEF DataInv, WriteLabels, CopyLabels
<1> QED BY <1>1, <1>2, <1>3, <1>4 DEF Inv

\* It is inductive.
LEMMA Inductive == FSpec => []Inv
<1>1. Inv /\ [FNext]_vars => Inv'
    BY TypeStep, LockStep, CallStep, DataStep DEF Inv
<1> QED BY InitInv, <1>1, PTL DEF FSpec

\* The store's files, requests and answers are well formed in every state.
THEOREM StoreTypeCorrect == FSpec => []FTypeOK
<1>1. Inv => FTypeOK
    BY DEF Inv
<1> QED BY Inductive, <1>1, PTL

----------------------------------------------------------------------------
\* The variables of MessageStore.
storeVars == <<file, backup, request, answer>>

\* Every step of the file store is a step of MessageStore or a stutter.
LEMMA StepSimulates ==
    ASSUME Inv, [FNext]_vars PROVE [Next]_storeVars
<1> USE DEF storeVars
<1>0. Inv
    OBVIOUS
<1>1. CASE UNCHANGED vars
    BY <1>1 DEF vars
<1>2. CASE FCrash
    BY <1>2 DEF FCrash, Next
<1>3. CASE \E p \in Procs : Step(p)
    <2> SUFFICES ASSUME NEW p \in Procs, Step(p) PROVE [Next]_storeVars
        BY <1>3
    <2> USE DEF Goto, Keep, Answers, diskVars, lockVars, callVars
    <2>0. pc[p] # "return" => answer[p] = NoAnswer
        BY <1>0 DEF Inv, CallInv
    <2>1. CASE FCall(p)
        BY <2>1 DEF FCall, Next
    <2>2. CASE Lock(p)
        BY <2>2 DEF Lock
    <2>3. CASE StepFails(p)
        <3>1. request[p].kind \in Updates \cup {"retrieve", "backup", "restore"}
            BY <1>0, <2>3 DEF StepFails, Inv, CallInv, WriteLabels, RestoreLabels, CopyLabels, Updates
        <3>2. Fail(p)
            BY <2>0, <2>3, <3>1 DEF StepFails, Fail, Pending
        <3> QED BY <3>2 DEF Next
    <2>4. CASE FReturn(p)
        BY <2>4 DEF FReturn, Next
    <2>5. CASE Load(p)
        BY <2>5 DEF Load
    <2>6. CASE WriteTmp(p)
        BY <2>6 DEF WriteTmp, SaveTarget
    <2>7. CASE WriteTmpRest(p)
        BY <2>7 DEF WriteTmpRest, SaveTarget
    <2>8. CASE Rename(p)
        <3>1. /\ request[p].kind \in Updates
              /\ request[p].kind = "clear" \/ Readable(file)
              /\ file' = Whole(Updated(request[p], file.map))
            BY <1>0, <2>8 DEF Rename, Inv, CallInv, DataInv, WriteLabels
        <3>2. Update(p)
            BY <2>0, <2>8, <3>1 DEF Rename, Update, Pending
        <3> QED BY <3>2 DEF Next
    <2>9. CASE RenameFails(p)
        <3>1. request[p].kind \in Updates
            BY <1>0, <2>9 DEF RenameFails, Inv, CallInv, WriteLabels
        <3>2. Fail(p)
            BY <2>0, <2>9, <3>1 DEF RenameFails, Fail, Pending
        <3> QED BY <3>2 DEF Next
    <2>10. CASE Read(p)
        <3>1. CASE request[p].kind = "retrieve"
            <4>1. Retrieve(p)
                BY <2>0, <2>10, <3>1 DEF Read, Retrieve, Pending
            <4> QED BY <4>1 DEF Next
        <3>2. CASE request[p].kind # "retrieve"
            BY <2>10, <3>2 DEF Read
        <3> QED BY <3>1, <3>2
    <2>11. CASE Copy(p)
        <3>1. request[p].kind = "backup"
            BY <1>0, <2>11 DEF Copy, Inv, CallInv, CopyLabels
        <3>2. Tear(p)
            BY <2>0, <2>11, <3>1 DEF Copy, Tear, Pending
        <3> QED BY <3>2 DEF Next
    <2>12. CASE CopyRest(p)
        <3>1. request[p].kind = "backup" /\ data[p] = file
            BY <1>0, <2>12 DEF CopyRest, Inv, CallInv, DataInv, CopyLabels
        <3>2. Backup(p)
            BY <2>0, <2>12, <3>1 DEF CopyRest, Backup, Pending
        <3> QED BY <3>2 DEF Next
    <2>13. CASE ReadBackup(p)
        BY <2>13 DEF ReadBackup
    <2>14. CASE Overwrite(p)
        <3>1. request[p].kind = "restore" /\ backup.kind = "whole"
            BY <1>0, <2>14 DEF Overwrite, Inv, CallInv, DataInv, RestoreLabels
        <3>2. Tear(p)
            BY <2>0, <2>14, <3>1 DEF Overwrite, Tear, Pending
        <3> QED BY <3>2 DEF Next
    <2>15. CASE OverwriteRest(p)
        <3>1. request[p].kind = "restore" /\ backup.kind = "whole" /\ data[p] = backup
            BY <1>0, <2>15 DEF OverwriteRest, Inv, CallInv, DataInv, RestoreLabels
        <3>2. Restore(p)
            BY <2>0, <2>15, <3>1 DEF OverwriteRest, Restore, Pending
        <3> QED BY <3>2 DEF Next
    <2> QED BY <2>1, <2>2, <2>3, <2>4, <2>5, <2>6, <2>7, <2>8, <2>9, <2>10, <2>11, <2>12,
               <2>13, <2>14, <2>15 DEF Step
<1> QED BY <1>1, <1>2, <1>3 DEF FNext

\* The file store implements MessageStore: its calls are atomic and survive
\* crashes, for any number of goroutines and messages.
THEOREM StoreRefinement == FSpec => ImplementsStore
<1>1. FInit => Init
    BY DEF FInit
<1>2. Inv /\ [FNext]_vars => [Next]_storeVars
    BY StepSimulates
<1> QED BY Inductive, <1>1, <1>2, PTL DEF FSpec, Spec, ImplementsStore, storeVars

\* Only an interrupted Restore damages the file.
THEOREM OnlyRestoreDamages == FSpec => DamagedByRestoreOnly
<1>1. Inv /\ [FNext]_vars =>
         [file.kind = "whole" /\ file'.kind # "whole" =>
             \E p \in Procs : pc[p] = "overwrite" /\ backup.kind = "whole"]_vars
    <2> SUFFICES ASSUME Inv, [FNext]_vars, file' # file, file'.kind # "whole"
                 PROVE  \E p \in Procs : pc[p] = "overwrite" /\ backup.kind = "whole"
        BY DEF vars
    <2>1. ~UNCHANGED vars /\ ~FCrash
        BY DEF vars, FCrash, Crash
    <2>2. PICK p \in Procs : Step(p)
        BY <2>1 DEF FNext
    <2>3. Rename(p) \/ Overwrite(p) \/ OverwriteRest(p)
        BY <2>2 DEF Step, FCall, Call, Lock, StepFails, FReturn, Return, Load, WriteTmp, WriteTmpRest,
                    SaveTarget, RenameFails, Read, Copy, CopyRest, ReadBackup, diskVars
    <2>4. CASE Rename(p)
        <3>1. pc[p] = "rename" /\ file' = tmp
            BY <2>4 DEF Rename
        <3>2. tmp = Whole(Updated(request[p], file.map))
            BY <3>1 DEF Inv, DataInv, WriteLabels
        <3>3. file'.kind = "whole"
            BY <3>1, <3>2 DEF Whole
        <3> QED BY <3>3
    <2>5. CASE Overwrite(p)
        <3>1. pc[p] = "overwrite"
            BY <2>5 DEF Overwrite
        <3>2. backup.kind = "whole"
            BY <3>1 DEF Inv, DataInv
        <3> QED BY <3>1, <3>2
    <2>6. CASE OverwriteRest(p)
        BY <2>6 DEF OverwriteRest, Inv, DataInv
    <2> QED BY <2>3, <2>4, <2>5, <2>6
<1> QED BY Inductive, <1>1, PTL DEF FSpec, DamagedByRestoreOnly
==============================================================================
