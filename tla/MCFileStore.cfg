CONSTANTS
    Procs = {p1, p2, p3}
    Ids = {i1, i2}
    Values = {v1}
    NoValue = NoValue
    NoId = NoId
    NoProc = NoProc
SPECIFICATION FSpec
SYMMETRY Symmetry
PROPERTIES
    DamagedByRestoreOnly
    ImplementsStore
