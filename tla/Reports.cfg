SPECIFICATION ReportsLiveSpec
CONSTANTS
    Versions = {v1, v2}
    Nothing = Nothing
    MaxChange = 2
    MaxSession = 2
    MaxRestart = 1
    MaxStoreFault = 1
INVARIANTS CachedWasSent NoRepeat
PROPERTY StoreCatchesUp
CHECK_DEADLOCK FALSE
