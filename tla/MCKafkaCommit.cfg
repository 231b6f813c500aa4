CONSTANTS
    Members = {m1}
    AutoCommitters = {}
    MaxMessages = 2
    MaxGens = 2
SPECIFICATION Spec
INVARIANTS
    RefusedNotCommitted
CHECK_DEADLOCK FALSE
