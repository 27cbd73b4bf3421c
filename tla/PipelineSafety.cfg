SPECIFICATION Spec
CONSTANTS
    c1 = c1
    c2 = c2
    None = None
    Commands = {c1, c2}
    Kind <- WorkThenRestart
    QueueCap = 1
    MaxSession = 2
    MaxCrash = 1
    MaxStoreFault = 0
INVARIANTS TypeOK NothingLostWhileUp InOrder
PROPERTY Implements
CHECK_DEADLOCK FALSE
