CONSTANTS
    Hour = 2
    Day = 3
    UnitInterval = 2
    HcpIntervals = {3}
    NotifyDays = 1
    HistoryLimit = 3
    Button = TRUE
    MaxTime = 7
    MaxChanges = 3
    MaxCrashes = 1
SPECIFICATION Spec
CHECK_DEADLOCK FALSE
INVARIANTS
    TypeOK
    HistoryIsReal
    WarningsHaveCause
    StoreIsCurrent
PROPERTIES
    CycleStartIsStable
    NoIdleSave
    EventuallyFollowsUnit
    DueIsSent
