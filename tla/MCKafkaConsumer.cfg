CONSTANTS
    Members = {m1, m2, a1}
    AutoCommitters = {a1}
    MaxMessages = 3
    MaxGens = 2
SPECIFICATION FairSpec
INVARIANTS
    CommittedWereTried
    CommitsFollowSuccess
PROPERTIES
    OffsetGrows
    EachIsTried
CHECK_DEADLOCK FALSE
