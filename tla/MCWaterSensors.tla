--------------------------- MODULE MCWaterSensors ---------------------------
\* The owner's settings for the checks of WaterSensors: a choice in the WebUI
\* against the order of the ids, or none; /etc against it, or nothing there.
EXTENDS WaterSensors

OwnerChoices == {<<2, 1>>}
OwnerConfigs == {NoPair, <<1, 2>>}
=============================================================================
