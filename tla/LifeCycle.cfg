CONSTANTS
    MaxLoads = 3
    MaxSaves = 2
    MaxChanges = 2
    RoomsWith = {FALSE}
SPECIFICATION FairSpec
CHECK_DEADLOCK FALSE
INVARIANTS
    OneClientIsAtWork
PROPERTIES
    AdapterComesBack
    OldClientsFallSilent
    OptionsAreInForce
    PiIsUpToDate
