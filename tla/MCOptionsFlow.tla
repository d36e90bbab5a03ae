--------------------------- MODULE MCOptionsFlow ---------------------------
\* Names for the checks of OptionsFlow: two that differ in the case of a letter,
\* and one that is longer than a name may be, cut after the space in its middle.
EXTENDS OptionsFlow

RoomNames == {"Bath", "bath", "Hall", "Hall ", "Hall way"}
WithoutSpaces(n) == IF n = "Hall " THEN "Hall" ELSE n
FirstLetters(n) == IF n = "Hall way" THEN "Hall " ELSE n
LowerCase(n) == IF n = "Bath" THEN "bath" ELSE n
=============================================================================
