----------------------------- MODULE UsbProSender ------------------------------
(***************************************************************************)
(* The frames of the USB Pro protocol (UsbProSender.cpp, MessageLabels.h): *)
(* a start byte, a label, a length, least significant byte first, the      *)
(* bytes, and an end byte.  Both directions use them.                      *)
(***************************************************************************)
EXTENDS Integers, Sequences

SOM == 126  \* 0x7e
EOM == 231  \* 0xe7

PARAMETERS_LABEL == 3
DMX_DATA_LABEL == 6
SERIAL_NUMBER_LABEL == 10
MANUFACTURER_LABEL == 77
NAME_LABEL == 78
RDM_LABEL == 82

\* The two bytes of size, an int.
SendMessageHeader(label, size) ==
  <<SOM, label, size % 256, (size \div 256) % 256>>

SendMessageFooter == <<EOM>>

WriteMessage(label, data) ==
  SendMessageHeader(label, Len(data)) \o data \o SendMessageFooter
===============================================================================
