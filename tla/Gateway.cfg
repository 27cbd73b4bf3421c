SPECIFICATION LiveSpec
CONSTANTS
    Devices = {d1, d2}
    MaxGen = 2
    MaxFlip = 2
    MaxFetch = 1
    MaxRefresh = 1
INVARIANT EventsTellChanges
PROPERTY PageCatchesUp
CHECK_DEADLOCK FALSE
