----------------------------- MODULE MCServices -----------------------------
(* The parts of an application that share no state with each other, checked  *)
(* one at a time: while one of them runs, the others stand in an initial     *)
(* state of theirs.  Their product would show nothing more.                  *)
EXTENDS JwtKeys, Routing, GrpcClients, IdSequence, RedisCache, TLC

CONSTANTS user, guest, userPath, otherPath

\* A role with one route, with two, and with none.
MCRoutings ==
    {<<[path |-> userPath, role |-> user]>>,
     <<[path |-> userPath, role |-> user], [path |-> otherPath, role |-> user]>>,
     <<[path |-> userPath, role |-> guest]>>}

\* Nothing tells one application from another.
MCSymmetry == Permutations(Apps)

VARIABLE part

servicesVars == <<jwtVars, routingVars, grpcVars, sequenceVars, cacheVars, part>>

Init ==
    /\ JwtInit /\ RoutingInit /\ GrpcInit /\ SequenceInit /\ CacheInit
    /\ part \in {"jwt", "routing", "grpc", "sequence", "cache"}
    /\ part = "routing" \/ (routes = (CHOOSE r \in Routings : TRUE) /\ multi = {})
    /\ part = "sequence" \/ store = "local"
    /\ part = "cache" \/ (~loader /\ ~lenient)

Next ==
    \/ part = "jwt" /\ JwtNext
          /\ UNCHANGED <<routingVars, grpcVars, sequenceVars, cacheVars, part>>
    \/ part = "routing" /\ RoutingNext
          /\ UNCHANGED <<jwtVars, grpcVars, sequenceVars, cacheVars, part>>
    \/ part = "grpc" /\ GrpcNext
          /\ UNCHANGED <<jwtVars, routingVars, sequenceVars, cacheVars, part>>
    \/ part = "sequence" /\ SequenceNext
          /\ UNCHANGED <<jwtVars, routingVars, grpcVars, cacheVars, part>>
    \/ part = "cache" /\ CacheNext
          /\ UNCHANGED <<jwtVars, routingVars, grpcVars, sequenceVars, part>>

Spec == Init /\ [][Next]_servicesVars

\* While the ring of keys runs, the others never leave their one initial state.
MCView ==
    <<part, IF part = "jwt" THEN jwtVars
            ELSE <<routingVars, grpcVars, sequenceVars, cacheVars>> >>
=============================================================================
