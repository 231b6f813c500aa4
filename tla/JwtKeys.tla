------------------------------ MODULE JwtKeys ------------------------------
(* The ring of signing keys of components/auths/jwt.go: JwtKeyManager, the  *)
(* sub-service that makes a new key every period, and Jwt, the copy of the  *)
(* ring in each application, which signs and verifies.                      *)
(*                                                                          *)
(* The handlers that connect them are the application's.  The comment at    *)
(* KeyUpdateHandler (lines 155-156) asks for a new key to be persisted, and *)
(* suggests a queue for telling other services.  It promises nothing about  *)
(* the two together: they are two steps, in either order, and the handler   *)
(* may fail or die before, between and after them.  A restart loads what    *)
(* was persisted (KeyInitHandler, line 160).                                *)
EXTENDS Naturals, Sequences

CONSTANTS
    Size,           \* length of the ring; 9 in the code
    Apps,           \* applications that hold a Jwt
    MaxKeys,        \* bound on the keys that are made
    MaxWaiting,     \* bound on the updates on their way to an application
    NoToken

ASSUME RingAssumption == Size \in Nat \ {0, 1} /\ {MaxKeys, MaxWaiting} \subseteq Nat

\* A key is the number of the RandBytes call that made it; 0 is a nil slice.
NoKey == 0
Slots == 0..Size - 1
Keys == 1..MaxKeys
Rings == [Slots -> Keys \cup {NoKey}]
EmptyRing == [i \in Slots |-> NoKey]

VARIABLES
    made,           \* how many keys have been made
    at,             \* where the manager's goroutine is
    chain,          \* JwtKeyManager.keysChain
    cur,            \* JwtKeyManager.currentKeyIndex
    disk,           \* the persisted ring, as ring and index; 0 is no index,
                    \* and index i is kept as i + 1
    copy,           \* copy[a]: the keysChain of a's Jwt
    copyCur,        \* copyCur[a]: its currentKeyIndex
    queue,          \* queue[a]: the updates on their way to a
    token,          \* history: one token that some application has signed
    told            \* history: the updates published after they were persisted

managerKeys == <<made, at, chain, cur, disk>>
appKeys == <<copy, copyCur>>
jwtVars == <<managerKeys, appKeys, queue, token, told>>

JwtInit ==
    /\ made = 0
    /\ at = "off"
    /\ chain = EmptyRing
    /\ cur = 0
    /\ disk = [ring |-> EmptyRing, index |-> 0]
    /\ copy = [a \in Apps |-> EmptyRing]
    /\ copyCur = [a \in Apps |-> 0]
    /\ queue = [a \in Apps |-> <<>>]
    /\ token = NoToken
    /\ told = {}

----------------------------------------------------------------------------
(* Faulty variants of the definitions below: nothing refers to them.        *)

SlipNextIndex == (cur + 1) % (Size - 1)      \* wraps one slot too early
SlipUpdated(ring, u) ==                      \* an update off by one slot
    [ring EXCEPT ![(u.index + 1) % Size] = u.key]

----------------------------------------------------------------------------
(* JwtKeyManager.Start.                                                     *)

\* keyInitHandler fails, and so does the sub-service.
KeysUnavailable ==
    /\ at = "off"
    /\ at' = "failed"
    /\ UNCHANGED <<made, chain, cur, disk, appKeys, queue, token, told>>

\* What the loop over the persisted keys puts into the new ring.
Loaded == disk.ring

LoadKeys ==
    /\ at = "off"
    /\ disk.index # 0
    /\ chain' = Loaded
    /\ at' = "loaded"
    /\ UNCHANGED <<made, cur, disk, appKeys, queue, token, told>>

LoadIndex ==
    /\ at = "loaded"
    /\ cur' = disk.index - 1
    /\ at' = "ready"
    /\ UNCHANGED <<made, chain, disk, appKeys, queue, token, told>>

\* Nothing was persisted (the index is negative): the first key is made.
FirstKey ==
    /\ at = "off"
    /\ disk.index = 0
    /\ made < MaxKeys
    /\ made' = made + 1
    /\ chain' = [chain EXCEPT ![0] = made + 1]
    /\ cur' = 0
    /\ at' = "made"
    /\ UNCHANGED <<disk, appKeys, queue, token, told>>

\* A tick of the period.  The slot is written before the index moves, and
\* other goroutines read both without a lock.
NextIndex == (cur + 1) % Size

Rotate ==
    /\ at = "ready"
    /\ made < MaxKeys
    /\ made' = made + 1
    /\ chain' = [chain EXCEPT ![NextIndex] = made + 1]
    /\ at' = "slot"
    /\ UNCHANGED <<cur, disk, appKeys, queue, token, told>>

MoveIndex ==
    /\ at = "slot"
    /\ cur' = NextIndex
    /\ at' = "made"
    /\ UNCHANGED <<made, chain, disk, appKeys, queue, token, told>>

\* keyUpdateHandler persists the new key ...
PersistKey ==
    /\ at \in {"made", "published"}
    /\ disk' = [ring |-> [disk.ring EXCEPT ![cur] = chain[cur]], index |-> cur + 1]
    /\ at' = IF at = "made" THEN "persisted" ELSE "ready"
    /\ UNCHANGED <<made, chain, cur, appKeys, queue, token, told>>

\* ... and publishes it, to every application, before or after ...
Update == [index |-> cur, key |-> chain[cur]]

PublishKey ==
    /\ at \in {"made", "persisted"}
    /\ \A a \in Apps : Len(queue[a]) < MaxWaiting
    /\ queue' = [a \in Apps |-> Append(queue[a], Update)]
    /\ told' = IF at = "persisted" THEN told \cup {Update} ELSE told
    /\ at' = IF at = "made" THEN "published" ELSE "ready"
    /\ UNCHANGED <<made, chain, cur, disk, appKeys, token>>

\* ... or stops with an error that is only logged: whatever it has done
\* stays, and the manager goes on with the key.
HandlerFails ==
    /\ at \in {"made", "persisted", "published"}
    /\ at' = "ready"
    /\ UNCHANGED <<made, chain, cur, disk, appKeys, queue, token, told>>

\* The context is done: the goroutine ends, the ring stays readable.
Stop ==
    /\ at = "ready"
    /\ at' = "stopped"
    /\ UNCHANGED <<made, chain, cur, disk, appKeys, queue, token, told>>

\* The process dies, anywhere, and a new one starts with an empty ring.
Crash ==
    /\ at # "off"
    /\ at' = "off"
    /\ chain' = EmptyRing
    /\ cur' = 0
    /\ UNCHANGED <<made, disk, appKeys, queue, token, told>>

Managing ==
    \/ KeysUnavailable \/ LoadKeys \/ LoadIndex \/ FirstKey
    \/ Rotate \/ MoveIndex \/ PersistKey \/ PublishKey \/ HandlerFails
    \/ Stop \/ Crash

----------------------------------------------------------------------------
(* Jwt.                                                                     *)

\* The application starts: SetKeys takes the persisted ring, and refuses a
\* negative index, which leaves the new Jwt empty.
SetKeys(a) ==
    /\ copy' = [copy EXCEPT ![a] = IF disk.index # 0 THEN disk.ring ELSE EmptyRing]
    /\ copyCur' = [copyCur EXCEPT ![a] = IF disk.index # 0 THEN disk.index - 1 ELSE 0]
    /\ UNCHANGED <<managerKeys, queue, token, told>>

\* UpdateKey replaces one slot and leaves currentKeyIndex where it is.
Updated(ring, u) == [ring EXCEPT ![u.index] = u.key]

\* An update arrives; the queue may deliver it again.
UpdateKey(a) ==
    /\ queue[a] # <<>>
    /\ copy' = [copy EXCEPT ![a] = Updated(copy[a], Head(queue[a]))]
    /\ \/ queue' = [queue EXCEPT ![a] = Tail(@)]
       \/ UNCHANGED queue
    /\ UNCHANGED <<managerKeys, copyCur, token, told>>

\* GenerateSignature: with a nil key there is no token.
GenerateSignature(a) ==
    /\ copy[a][copyCur[a]] # NoKey
    /\ token' = [index |-> copyCur[a], key |-> copy[a][copyCur[a]]]
    /\ UNCHANGED <<managerKeys, appKeys, queue, told>>

\* GenerateSignatureWithKeyIndex gives the signature of t once more.
Verifies(a, t) == copy[a][t.index] = t.key

JwtNext ==
    \/ Managing
    \/ \E a \in Apps : SetKeys(a) \/ UpdateKey(a) \/ GenerateSignature(a)

JwtSpec == JwtInit /\ [][JwtNext]_jwtVars

----------------------------------------------------------------------------
\* The key that a tick overwrites is one after which the manager has made as
\* many keys as the rest of the ring holds, whatever handlers failed and
\* however often it restarted: no token dies before its round (line 260).
KeysLastARound ==
    [][\A s \in Slots :
         at' = "slot" /\ chain[s] # NoKey /\ chain'[s] # chain[s] =>
             made - chain[s] >= Size - 1]_jwtVars

\* A token that one application has signed, with a key that was persisted and
\* then published, verifies in every other: unless that one has a younger key
\* in the slot, or the update with the token's key is still on its way to it
\* (lines 37-110, and UpdateJwtKey, sunny.go lines 973-981).  Nothing is said
\* of a key whose handler stopped half-way or published before it persisted:
\* an application that starts then may sign with a key no other will have.
TokensTravel ==
    token # NoToken /\ token \in told =>
        \A a \in Apps :
            \/ Verifies(a, token)
            \/ copy[a][token.index] > token.key
            \/ \E i \in 1..Len(queue[a]) : queue[a][i] = token
============================================================================
