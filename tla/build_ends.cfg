SPECIFICATION FairSpec
CONSTANTS
    j1 = j1
    Jobs = {j1}
    p1 = p1
    p2 = p2
    Plans = {p1, p2}
    Watched = {j1}
    MaxLines = 2
    Retention = 5
    SilentHour = TRUE
PROPERTIES
    CancelEndsTheBuild
    StreamEnds
    FinalIsFinal
CHECK_DEADLOCK FALSE
