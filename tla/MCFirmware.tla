------------------------------ MODULE MCFirmware -------------------------------
(* A host that sends DMX frames to two start addresses, asks what can be     *)
(* asked, and changes the settings the lights and the UID depend on.         *)
EXTENDS Firmware, MCRDMHandlers

MCLeftovers == {[i \in 0 .. 7 |-> IF i = 0 THEN 0 ELSE 238]}

\* DMX data for all slots, for two, for none and with another start code.
Dmx(data) == [label |-> DMX_DATA_LABEL, data |-> data]
MCFrames == {Dmx(<<0, 10, 20, 30, 40, 50, 60>>), Dmx(<<0, 70, 80>>), Dmx(<<>>), Dmx(<<1, 9>>)}

MCWidget ==
  {[label |-> PARAMETERS_LABEL, data |-> <<>>],
   [label |-> SERIAL_NUMBER_LABEL, data |-> <<>>],
   [label |-> NAME_LABEL, data |-> <<>>],
   [label |-> MANUFACTURER_LABEL, data |-> <<>>]}

MCUnknown == {[label |-> 9, data |-> <<0, 85>>]}

MCHostMessages == MCFrames \cup MCWidget \cup MCUnknown

MCFirmwareRequests ==
  {Request(Us, "SET", "DMX_START_ADDRESS", <<0, 2>>),
   Request(Us, "SET", "DMX_PERSONALITY", <<2>>),
   Request(Us, "SET", "DMX_PERSONALITY", <<3>>),
   Request(Us, "SET", "MANUFACTURER_SET_SERIAL", <<0, 1, 0, 2>>)}
===============================================================================
