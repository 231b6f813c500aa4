CONSTANTS
    Size = 3
    Apps = {a1, a2}
    MaxKeys = 4
    MaxWaiting = 2
    NoToken = NoToken
    user = user
    guest = guest
    userPath = userPath
    otherPath = otherPath
    Routings <- MCRoutings
    Paths = {userPath, otherPath}
    Roles = {user, guest}
    Decorated = {user}
    Orders = {1, 2}
    MaxHandlers = 3
    NoRole = NoRole
    Callers = {c1, c2, c3}
    Marks = {m1, m2}
    MaxConns = 3
    NoMark = NoMark
    Base = 2
    StrLen = 2
    Drawers = {d1, d2, d3}
    MaxDraws = 7
    CacheKeys = {k1}
    Values = {v1, v2}
    Getters = {g1, g2, g3}
    Zero = Zero
    None = None
    NoCaller = NoCaller
SPECIFICATION Spec
SYMMETRY MCSymmetry
VIEW MCView
INVARIANTS
    TokensTravel
    GuardsPassed
    AbortStops
    OneConnection
    IdsDistinct
    FlightsAreLed
PROPERTIES
    KeysLastARound
CHECK_DEADLOCK FALSE
