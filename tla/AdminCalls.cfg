SPECIFICATION Spec
CONSTANTS
    Devices = {d1, d2}
    Clipped = clipped
    None = none
    LogDefault = 1
    LogMax = 2
    HistoryDefault = 1
    HistoryMax = 2
    Limits = {0, 2, 3}
    Ranges <- SomeRanges
    MaxRow = 2
    MaxEntry = 2
    MaxChange = 5
    MaxSecond = 1
    MaxFault = 1
SYMMETRY Symmetry
INVARIANTS AnswersRight LogTruthful MarkTold
CHECK_DEADLOCK FALSE
