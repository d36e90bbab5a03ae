CONSTANTS
    MaxDelay = 4
    Silence = 3
    IssueDelay = 6
    ConnectTime = 2
    Resets = TRUE
SPECIFICATION Spec
CHECK_DEADLOCK FALSE
INVARIANTS
    IssuesAreReal
    OutageIsReported
PROPERTY
    KeepsConnecting
