SPECIFICATION LiveSpec
CONSTANTS
    Callers = {a, b, c}
    Reports = {r1, r2}
    None = None
    NumParts = 2
    PoolSize = 2
    MaxCall = 3
    MaxFault = 1
INVARIANTS TypeOK NoHoldAndWait SnapshotWhole
PROPERTY EveryCallReturns
CHECK_DEADLOCK FALSE
