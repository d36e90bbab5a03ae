CONSTANTS
    MaxLoads = 2
    MaxSaves = 1
    MaxChanges = 0
    RoomsWith = {}
SPECIFICATION PatientSpec
CHECK_DEADLOCK FALSE
PROPERTIES
    OptionsCanBeSaved
