CONSTANTS
    CacheKeys = {k1}
    Values = {v1, v2}
    Getters = {c1, c2}
    Zero = Zero
    None = None
    NoCaller = NoCaller
SPECIFICATION CacheSpec
INVARIANT GetReturnsStored
