------------------------------ MODULE KeyedLock ------------------------------
(* What the limiters of components/limits/limit.go promise (lines 14-21): a *)
(* function given with a key runs while no other function given with that   *)
(* key does; a caller that does not wait is told "lock busy" only if one    *)
(* does.  The implementations are shown to be instances of this module.     *)
CONSTANTS Procs, Keys, NoProc, NoKey

VARIABLES
    owner,      \* owner[k]: the caller whose function runs under key k
    request     \* request[p]: the key caller p has asked for, or NoKey

Init ==
    /\ owner = [k \in Keys |-> NoProc]
    /\ request = [p \in Procs |-> NoKey]

Ask(p, k) ==
    /\ request[p] = NoKey
    /\ request' = [request EXCEPT ![p] = k]
    /\ UNCHANGED owner

Grant(p) ==
    /\ request[p] # NoKey
    /\ owner[request[p]] = NoProc
    /\ owner' = [owner EXCEPT ![request[p]] = p]
    /\ UNCHANGED request

Refuse(p) ==
    /\ request[p] # NoKey
    /\ owner[request[p]] \notin {NoProc, p}
    /\ request' = [request EXCEPT ![p] = NoKey]
    /\ UNCHANGED owner

GiveBack(p) ==
    /\ request[p] # NoKey
    /\ owner[request[p]] = p
    /\ owner' = [owner EXCEPT ![request[p]] = NoProc]
    /\ request' = [request EXCEPT ![p] = NoKey]

Next == \E p \in Procs :
            \/ \E k \in Keys : Ask(p, k)
            \/ Grant(p) \/ Refuse(p) \/ GiveBack(p)

Spec == Init /\ [][Next]_<<owner, request>>
==============================================================================
