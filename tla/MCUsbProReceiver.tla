--------------------------- MODULE MCUsbProReceiver ----------------------------
(* A message without data, one whose data ends like a frame, and one that,    *)
(* after the loss of a length byte, announces more than the buffer holds.     *)
EXTENDS UsbProReceiver

MCMessages ==
  {[label |-> SERIAL_NUMBER_LABEL, data |-> <<>>],
   [label |-> DMX_DATA_LABEL, data |-> <<0, EOM>>],
   [label |-> RDM_LABEL, data |-> <<204, 1, 0>>]}
===============================================================================
