CONSTANTS
    Codes = {a}
    Others = {push, command}
    Timeout = 2
    Poll = 1
    MaxDelay = 3
SPECIFICATION Spec
INVARIANTS
    ShownIsRecent
    AlarmsAreTold
