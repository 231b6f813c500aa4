---------------------------- MODULE GrpcClients -----------------------------
(* Sunny.GetGrpcClient (sunny.go lines 771-812): one connection per service *)
(* mark, looked up under the read lock and made under the write lock.  What *)
(* runs under one of the locks is one step.                                 *)
EXTENDS Naturals

CONSTANTS
    Callers,        \* goroutines, each of which calls any number of times
    Marks,
    MaxConns,       \* bound on the connections that are made
    NoMark

ASSUME GrpcAssumption == MaxConns \in Nat /\ NoMark \notin Marks

\* A connection is the number of the NewClient call that made it.
NoConn == 0
Conns == 1..MaxConns

VARIABLES
    grpcClientMaps, \* grpcClientMaps[m], NoConn where there is none
    conns,          \* how many connections have been made
    asked,          \* asked[c]: the mark that c has called with
    stage,          \* where c is in its call
    got             \* got[c]: the connection c has been given

grpcVars == <<grpcClientMaps, conns, asked, stage, got>>

GrpcInit ==
    /\ grpcClientMaps = [m \in Marks |-> NoConn]
    /\ conns = 0
    /\ asked = [c \in Callers |-> NoMark]
    /\ stage = [c \in Callers |-> "idle"]
    /\ got = [c \in Callers |-> NoConn]

Exists(m) == grpcClientMaps[m] # NoConn

\* A faulty variant of the next definition: no second check.
SlipStillMissing(c) == TRUE

\* The check that is made again once the write lock is held.
StillMissing(c) == ~Exists(asked[c])

Ask(c, m) ==
    /\ stage[c] \in {"idle", "done"}
    /\ asked' = [asked EXCEPT ![c] = m]
    /\ stage' = [stage EXCEPT ![c] = "look"]
    /\ got' = [got EXCEPT ![c] = NoConn]
    /\ UNCHANGED <<grpcClientMaps, conns>>

GrpcReturn(c, conn) ==
    /\ got' = [got EXCEPT ![c] = conn]
    /\ stage' = [stage EXCEPT ![c] = "done"]
    /\ UNCHANGED asked

\* Under the read lock.
Look(c) ==
    /\ stage[c] = "look"
    /\ IF Exists(asked[c])
       THEN GrpcReturn(c, grpcClientMaps[asked[c]])
       ELSE stage' = [stage EXCEPT ![c] = "make"] /\ UNCHANGED <<asked, got>>
    /\ UNCHANGED <<grpcClientMaps, conns>>

\* Under the write lock: somebody else has been faster ...
Found(c) ==
    /\ stage[c] = "make"
    /\ ~StillMissing(c)
    /\ GrpcReturn(c, grpcClientMaps[asked[c]])
    /\ UNCHANGED <<grpcClientMaps, conns>>

\* ... or the connection is made and stored ...
Make(c) ==
    /\ stage[c] = "make"
    /\ StillMissing(c)
    /\ conns < MaxConns
    /\ conns' = conns + 1
    /\ grpcClientMaps' = [grpcClientMaps EXCEPT ![asked[c]] = conns + 1]
    /\ GrpcReturn(c, conns + 1)

\* ... or NewClient fails.
MakeFails(c) ==
    /\ stage[c] = "make"
    /\ StillMissing(c)
    /\ GrpcReturn(c, NoConn)
    /\ UNCHANGED <<grpcClientMaps, conns>>

GrpcNext ==
    \E c \in Callers :
        \/ \E m \in Marks : Ask(c, m)
        \/ Look(c) \/ Found(c) \/ Make(c) \/ MakeFails(c)

GrpcSpec == GrpcInit /\ [][GrpcNext]_grpcVars

----------------------------------------------------------------------------
\* Whoever has been given a connection has the one that all others get for the
\* mark, however many callers found none at once (the comment at line 793).
OneConnection ==
    \A c \in Callers : got[c] # NoConn => got[c] = grpcClientMaps[asked[c]]
============================================================================
