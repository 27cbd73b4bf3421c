SPECIFICATION Spec
CONSTANTS
    c1 = c1
    c2 = c2
    None = None
    Commands = {c1}
    Kind <- AllWork
    QueueCap = 1
    MaxSession = 1
    MaxCrash = 0
    MaxStoreFault = 0
PROPERTY ResultIsFinal
CHECK_DEADLOCK FALSE
