CONSTANTS
    Kinds = {"uni", "redis"}
    Procs = {p1, p2, p3}
    Keys = {k1, k2}
    RedisKeys = {k1}
    Mutexes = {m1, m2, m3}
    NoProc = NoProc
    NoKey = NoKey
    NoMutex = NoMutex
SPECIFICATION LimiterFairSpec
INVARIANTS
    MutualExclusion
    ExclusiveWithinLease
PROPERTIES
    WaitersServed
    ImplementsKeyedLock
    ReleasesOwnLock
    WaitingEnds
CHECK_DEADLOCK FALSE
