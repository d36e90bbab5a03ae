CONSTANTS
    Dialogs = {d1, d2}
    Names <- RoomNames
    Strip <- WithoutSpaces
    Cut <- FirstLetters
    Fold <- LowerCase
    MaxRooms = 2
    MaxOpened = 3
SPECIFICATION FlowSpec
CHECK_DEADLOCK FALSE
INVARIANTS
    FlowTypeOK
    RoomNamesAreUnique
PROPERTIES
    OnlyTheUserRemovesRooms
