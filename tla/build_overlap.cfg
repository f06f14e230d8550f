SPECIFICATION Spec
CONSTANTS
    j1 = j1
    j2 = j2
    Jobs = {j1, j2}
    p1 = p1
    p2 = p2
    Plans = {p1, p2}
    Watched = {}
    MaxLines = 0
    Retention = 1
    SilentHour = FALSE
SYMMETRY Symmetry
INVARIANTS
    TypeOK
    DoneMeansBuilt
    SignalledNeverDone
    NoBuildOutlivesItsJob
    LastBuildSucceeded
CHECK_DEADLOCK FALSE
