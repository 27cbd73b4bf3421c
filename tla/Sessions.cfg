SPECIFICATION LiveSpec
CONSTANTS
    NoDevice = NoDevice
    Devices = {d1}
    SessionIds = {s1, s2}
    MaxConns = 1
    MaxFailure = 1
INVARIANTS OvershootBounded OnlineIsAttached RowOnlineIsAttached BlockHolds
PROPERTIES KickCloses GoneShownOffline PresentShownOnline StopEnds
CHECK_DEADLOCK FALSE
