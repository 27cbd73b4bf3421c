SPECIFICATION Spec
CONSTANTS
    Devices = {d1, d2, d3}
    DefaultSize = 2
    MaxSize = 2
    MaxRow = 4
    MaxSecond = 3
    MaxFlip = 1
SYMMETRY Symmetry
INVARIANTS WalkComplete WalkSkipsNone SummaryCounts
CHECK_DEADLOCK FALSE
