SPECIFICATION Spec
CONSTANTS
    a1 = a1
    a2 = a2
    Accounts = {a1, a2}
    MaxDate = 2
    MaxShares = 1
    HandLots <- MCHandLots
    SaleDates = {2}
    Buys <- MCBuys
    Sells <- MCSells
    None = None
    MaxTxns = 3
INVARIANTS TypeOK OneRowPerActivity
PROPERTIES SyncExplains ManagedFollowsLog HandEditsReplay
CHECK_DEADLOCK FALSE
