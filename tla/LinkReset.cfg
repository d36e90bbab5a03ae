CONSTANTS
    MaxDelay = 4
    Silence = 3
    IssueDelay = 6
    ConnectTime = 2
    Resets = TRUE
SPECIFICATION Safety
CHECK_DEADLOCK FALSE
INVARIANT EveryOutageIsReported
