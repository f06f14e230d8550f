SPECIFICATION Spec
CONSTANTS
    o1 = o1
    o2 = o2
    Lots = {l1, l2}
    Orders = {o1, o2}
    Sold <- MCSold
    MaxRow = 2
    MaxShares = 4
SYMMETRY Symmetry
INVARIANTS TypeOK SharesConserved BatchTakesShownRows
PROPERTIES BatchUndoRestores
CHECK_DEADLOCK FALSE
