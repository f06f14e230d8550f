SPECIFICATION Spec
CONSTANTS
    c1 = c1
    c2 = c2
    Contents = {c1, c2}
    budget = budget
    Datasets = {budget}
    Budget = budget
    empty = empty
    zeroed = zeroed
    Values = {empty, zeroed}
    Empty = empty
    NoCopy = NoCopy

    Threads = {}
    DefaultRetention = 1
    MaxRetention = 2
    MaxRows = 2
    MaxRevs = 2
SYMMETRY Symmetry
INVARIANTS
    RowIdsStayApart
PROPERTIES
    RestoreIsExact
    RestoreCanBeUndone
    ImplementsHistory
CHECK_DEADLOCK FALSE
