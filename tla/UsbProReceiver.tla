---------------------------- MODULE UsbProReceiver -----------------------------
(***************************************************************************)
(* The loop of UsbProReceiver.Read: a host sends messages as frames, byte  *)
(* by byte, into the serial port's buffer, and the receiver takes the      *)
(* frames apart and calls back with each message.                          *)
(*                                                                         *)
(* A callback, or the idle callback that writes the device label to the    *)
(* EEPROM, may take long; meanwhile bytes pile up in the serial buffer, and *)
(* one that finds it full is lost.  Neither the protocol nor the receiver  *)
(* has a checksum or a timeout.                                            *)
(*                                                                         *)
(* message is the first data_offset bytes of the buffer.  A byte beyond    *)
(* its end overwrites the stack: the mode is then "UNDEFINED", and nothing *)
(* more is known.                                                          *)
(***************************************************************************)
EXTENDS UsbProSender

CONSTANTS
  Messages,            (* What the host sends: a label and bytes of data.  *)
  BUFFER_SIZE,         (* Bytes a message may have, 600 in the code.       *)
  SERIAL_BUFFER_SIZE,  (* Bytes the serial port keeps, 64.                 *)
  MaxLosses,           (* Bound: how many bytes are lost.                  *)
  Nothing              (* No callback yet.                                 *)

VARIABLES
  recv_mode,
  label,
  expected_size,
  message,
  serial,     (* Bytes received by the serial port and not yet read.       *)
  sending,    (* Bytes of its current frame the host has not sent.         *)
  losses,     (* Bytes lost.                                               *)
  transit,    (* History: the messages of which bytes are still to be      *)
              (* read, with their number, and whether none was lost.       *)
  handed      (* History: the last callback, and a bit to tell two apart.  *)

receiver == <<recv_mode, label, expected_size, message>>
line == <<serial, sending, losses>>
vars == <<receiver, line, transit, handed>>

RecvMode ==
  {"PRE_SOM", "GOT_SOM", "GOT_LABEL", "GOT_DATA_LSB", "IN_DATA",
   "WAITING_FOR_EOM", "UNDEFINED"}

Byte == {n \in Nat : n < 256}
UnsignedShort == {n \in Nat : n < 65536}

ASSUME MessageAssumption ==
  \A m \in Messages : /\ m \in [label : Byte, data : Seq(Byte)]
                      /\ Len(m.data) <= BUFFER_SIZE

ASSUME SizeAssumption ==
  /\ BUFFER_SIZE \in UnsignedShort
  /\ SERIAL_BUFFER_SIZE \in Nat \ {0}
  /\ MaxLosses \in Nat

Frame(m) == WriteMessage(m.label, m.data)

Init ==
  /\ recv_mode = "PRE_SOM"
  /\ label = 0
  /\ expected_size = 0
  /\ message = <<>>
  /\ serial = <<>>
  /\ sending = <<>>
  /\ losses = 0
  /\ transit = <<>>
  /\ handed = [message |-> Nothing, bit |-> 0]

-----------------------------------------------------------------------------
(* The host and the serial port. *)

StartMessage(m) ==
  /\ sending = <<>>
  /\ sending' = Frame(m)
  /\ transit' = Append(transit, [message |-> m, unread |-> Len(Frame(m)), whole |-> TRUE])
  /\ UNCHANGED <<receiver, serial, losses, handed>>

\* The message at position k has one byte less to be read.
Less(k, entry) ==
  IF entry.unread > 1
  THEN [transit EXCEPT ![k] = [entry EXCEPT !.unread = @ - 1]]
  ELSE SubSeq(transit, 1, k - 1) \o SubSeq(transit, k + 1, Len(transit))

SendByte ==
  /\ sending # <<>>
  /\ Len(serial) < SERIAL_BUFFER_SIZE
  /\ serial' = Append(serial, Head(sending))
  /\ sending' = Tail(sending)
  /\ UNCHANGED <<receiver, losses, transit, handed>>

LoseByte ==
  /\ sending # <<>>
  /\ Len(serial) = SERIAL_BUFFER_SIZE
  /\ losses < MaxLosses
  /\ losses' = losses + 1
  /\ sending' = Tail(sending)
  /\ transit' = LET n == Len(transit)
                IN  Less(n, [transit[n] EXCEPT !.whole = FALSE])
  /\ UNCHANGED <<receiver, serial, handed>>

-----------------------------------------------------------------------------
(* UsbProReceiver.Read, one action per receiving state. *)

\* Serial.read takes the next byte out of the serial buffer.
Take ==
  /\ serial' = Tail(serial)
  /\ transit' = Less(1, transit[1])
  /\ UNCHANGED <<sending, losses>>

PreSom(data) ==
  /\ recv_mode = "PRE_SOM"
  /\ recv_mode' = IF data = SOM THEN "GOT_SOM" ELSE "PRE_SOM"
  /\ UNCHANGED <<label, expected_size, message, handed>>

GotSom(data) ==
  /\ recv_mode = "GOT_SOM"
  /\ label' = data
  /\ recv_mode' = "GOT_LABEL"
  /\ UNCHANGED <<expected_size, message, handed>>

\* (Mutant: data_offset is not reset.)
GotLabel_NoReset(data) ==
  /\ recv_mode = "GOT_LABEL"
  /\ expected_size' = data
  /\ recv_mode' = "GOT_DATA_LSB"
  /\ UNCHANGED <<label, message, handed>>

GotLabel(data) ==
  /\ recv_mode = "GOT_LABEL"
  /\ message' = <<>>
  /\ expected_size' = data
  /\ recv_mode' = "GOT_DATA_LSB"
  /\ UNCHANGED <<label, handed>>

\* (Mutant: a message without data is no case of its own.)
GotDataLsb_NoEmpty(data) ==
  /\ recv_mode = "GOT_DATA_LSB"
  /\ expected_size' = (expected_size + data * 256) % 65536
  /\ recv_mode' = "IN_DATA"
  /\ UNCHANGED <<label, message, handed>>

GotDataLsb(data) ==
  /\ recv_mode = "GOT_DATA_LSB"
  /\ expected_size' = (expected_size + data * 256) % 65536
  /\ recv_mode' = IF expected_size' = 0 THEN "WAITING_FOR_EOM" ELSE "IN_DATA"
  /\ UNCHANGED <<label, message, handed>>

\* (Mutant: the end is noticed one byte too late.)
InData_Late(data) ==
  /\ recv_mode = "IN_DATA"
  /\ message' = Append(message, data)
  /\ recv_mode' = IF Len(message) = expected_size THEN "WAITING_FOR_EOM" ELSE "IN_DATA"
  /\ UNCHANGED <<label, expected_size, handed>>

InData(data) ==
  /\ recv_mode = "IN_DATA"
  /\ IF Len(message) = BUFFER_SIZE
     THEN recv_mode' = "UNDEFINED" /\ UNCHANGED message
     ELSE /\ message' = Append(message, data)
          /\ recv_mode' = IF Len(message') = expected_size
                          THEN "WAITING_FOR_EOM" ELSE "IN_DATA"
  /\ UNCHANGED <<label, expected_size, handed>>

Callback ==
  handed' = [message |-> [label |-> label, data |-> message], bit |-> 1 - handed.bit]

\* (Mutant: it goes on waiting.)
WaitingForEom_Stays(data) ==
  /\ recv_mode = "WAITING_FOR_EOM"
  /\ IF data = EOM THEN Callback ELSE UNCHANGED handed
  /\ UNCHANGED receiver

WaitingForEom(data) ==
  /\ recv_mode = "WAITING_FOR_EOM"
  /\ IF data = EOM THEN Callback ELSE UNCHANGED handed
  /\ recv_mode' = "PRE_SOM"
  /\ UNCHANGED <<label, expected_size, message>>

Undefined == recv_mode = "UNDEFINED" /\ UNCHANGED <<receiver, handed>>

Read ==
  /\ serial # <<>>
  /\ Take
  /\ LET data == Head(serial)
     IN  \/ PreSom(data)
         \/ GotSom(data)
         \/ GotLabel(data)
         \/ GotDataLsb(data)
         \/ InData(data)
         \/ WaitingForEom(data)
         \/ Undefined

Next ==
  \/ \E m \in Messages : StartMessage(m)
  \/ SendByte
  \/ LoseByte
  \/ Read

\* The receiver reads what has arrived, and the host goes on sending, as a
\* DMX controller does.
Fairness ==
  /\ WF_vars(Read)
  /\ WF_vars(SendByte)
  /\ WF_vars(\E m \in Messages : StartMessage(m))

Spec == Init /\ [][Next]_vars /\ Fairness

-----------------------------------------------------------------------------
(* Properties. *)

LinkTypeOK ==
  /\ recv_mode \in RecvMode
  /\ label \in Byte
  /\ expected_size \in UnsignedShort
  /\ message \in Seq(Byte) /\ Len(message) <= BUFFER_SIZE
  /\ serial \in Seq(Byte) /\ Len(serial) <= SERIAL_BUFFER_SIZE
  /\ sending \in Seq(Byte)
  /\ losses \in 0 .. MaxLosses
  /\ handed.bit \in {0, 1}

\* The receiver has read n bytes of the frame of m and knows what they say.
Received(m, n) ==
  /\ n > 1 => label = m.label
  /\ n = 3 => expected_size = Len(m.data) % 256 /\ message = <<>>
  /\ n > 3 => expected_size = Len(m.data) /\ message = SubSeq(m.data, 1, n - 4)
  /\ recv_mode = CASE n = 0 -> "PRE_SOM"
                   [] n = 1 -> "GOT_SOM"
                   [] n = 2 -> "GOT_LABEL"
                   [] n = 3 -> "GOT_DATA_LSB"
                   [] n = Len(m.data) + 4 -> "WAITING_FOR_EOM"
                   [] OTHER -> "IN_DATA"

\* Between two messages the receiver waits for a start byte; within a message
\* that has lost nothing it has received what the host sent.
OutOfStep ==
  IF transit = <<>> THEN recv_mode # "PRE_SOM"
  ELSE LET first == Head(transit)
       IN  first.whole /\ ~Received(first.message, Len(Frame(first.message)) - first.unread)

\* What the link knows of the messages in transit.
Queue(entries) ==
  [k \in 1 .. Len(entries) |->
     [message |-> entries[k].message, whole |-> entries[k].whole]]

Link == INSTANCE MessageLink WITH queue <- Queue(transit), out <- OutOfStep

\* The receiver implements the link: messages that lose no byte are handed
\* over whole, in order and once, and are in the end, as long as nothing before
\* them was damaged; and only a lost byte gets the receiver out of step.
ImplementsLink == Link!Spec

\* The buffer is never overrun by the messages of a host that keeps to the
\* buffer's size, unless bytes get lost.
OverrunNeedsLoss == recv_mode = "UNDEFINED" => losses > 0

\* The end of the data is tested with ==: the offset can pass neither the
\* expected size nor, unless a header announced more than the buffer holds,
\* the end of the buffer, whatever bytes arrive.
SizeRespected ==
  /\ recv_mode = "IN_DATA" => Len(message) < expected_size
  /\ recv_mode = "WAITING_FOR_EOM" => Len(message) = expected_size
  /\ recv_mode = "UNDEFINED" => expected_size > BUFFER_SIZE

\* When bytes no longer get lost, a receiver that has not overrun its buffer
\* finds its way back into step and stays there, although it neither times out
\* nor looks for a start byte within a message.  (This supposes messages whose
\* bytes are not mistaken for a start byte.)
Resynchronizes == <>[](Link!Healthy \/ recv_mode = "UNDEFINED")
===============================================================================
