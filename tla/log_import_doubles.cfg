SPECIFICATION Spec
CONSTANTS
    a1 = a1
    a2 = a2
    Accounts = {a1, a2}
    MaxDate = 2
    MaxShares = 1
    HandLots <- MCHandLots
    SaleDates = {2}
    Buys <- MCSmallBuys
    Sells <- MCSells
    None = None
    MaxTxns = 3
PROPERTIES ImportKeepsAgreement
CHECK_DEADLOCK FALSE
