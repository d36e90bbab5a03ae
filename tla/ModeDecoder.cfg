CONSTANTS
    Extracts = {0, 25, 55, 85}
    Supplies = {0, 13, 43, 73}
    QuietBeforeNight = 2
    NightWindow = 1
    PairWindow = 2
    AutoWindow = 1
SPECIFICATION Spec
INVARIANTS
    Level3IsSeen
    AutoIsImmediate
PROPERTIES
    LevelIsEarned
