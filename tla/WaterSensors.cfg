CONSTANTS
    Sensors = {1, 2, 3}
    WebUIChoices <- OwnerChoices
    Configs <- OwnerConfigs
    CacheFor = 1
    StaleAfter = 1
    MaxRead = 1
    MaxFaults = 1
SPECIFICATION FairSpec
INVARIANTS
    NoStaleTemperature
PROPERTIES
    AssignmentIsKept
    ChoiceIsFollowed
