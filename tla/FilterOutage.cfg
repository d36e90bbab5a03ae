CONSTANTS
    Hour = 2
    Day = 3
    UnitInterval = 2
    HcpIntervals = {}
    NotifyDays = 1
    HistoryLimit = 2
    Button = FALSE
    MaxTime = 8
    MaxChanges = 1
    MaxCrashes = 0
SPECIFICATION Spec
CHECK_DEADLOCK FALSE
INVARIANT WarnedOncePerCycle
