SPECIFICATION Spec
CONSTANTS
    c1 = c1

    Contents = {c1}
    budget = budget
    Datasets = {budget}
    Budget = budget
    empty = empty
    zeroed = zeroed
    Values = {empty, zeroed}
    Empty = empty
    NoCopy = NoCopy
    t1 = t1
    t2 = t2
    Threads = {t1, t2}
    DefaultRetention = 2
    MaxRetention = 3
    MaxRows = 0
    MaxRevs = 5
INVARIANTS
    TypeOK
    RetentionIsABound
    OneSeed
    PreRecoveryCopiesBounded
PROPERTIES
    RecoveryCopiesSurvive
CHECK_DEADLOCK FALSE
