SPECIFICATION LiveSpec
CONSTANTS
    MaxAttempt = 2
    MaxInbox = 2
INVARIANTS OneSession NoHotReconnect
PROPERTIES DeniedStops RestartReconnects SignalStops
CHECK_DEADLOCK FALSE
