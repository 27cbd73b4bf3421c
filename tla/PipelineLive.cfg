SPECIFICATION LiveSpec
CONSTANTS
    c1 = c1
    c2 = c2
    None = None
    Commands = {c1, c2}
    Kind <- WorkThenShutdown
    QueueCap = 1
    MaxSession = 1
    MaxCrash = 0
    MaxStoreFault = 1
INVARIANT RecordTruthful
PROPERTIES QueuedBegins QueuedSettles
CHECK_DEADLOCK FALSE
