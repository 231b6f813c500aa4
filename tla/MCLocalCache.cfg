CONSTANTS
    Keys = {k1}
    Values = {v1, v2}
    Getters = {g1, g2}
    Others = {o1}
    Cleaner = cleaner
    None = none
SPECIFICATION FairSpec
INVARIANTS
    LoadedOncePerLoss
    AnswersCurrent
PROPERTIES
    GetAnswered
    ExpiredLeaves
