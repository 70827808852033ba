--------------------------- MODULE MCWidgetSettings ----------------------------
(* Small values for the settings.  The label is 3 bytes, the power cycle     *)
(* counter starts one below a carry into its high word.  One label fills it, *)
(* one is shorter and has no NUL, one is empty.                              *)
EXTENDS WidgetSettings

MCDefaultLabel == <<68, NUL>>
MCStartAddresses == {40000}
MCSerialNumbers == {<<65535, 1>>}
MCPowerCycles == {<<0, 65535>>}
MCSensorValues == {700}
MCPersonalities == {3}
MCLabels == {<<66, 66, 67>>, <<65>>, <<>>}
===============================================================================
