------------------------------- MODULE Firmware --------------------------------
(***************************************************************************)
(* main.cpp: the message a host sends is a DMX frame for the six lights, a *)
(* question about the widget, or an RDM message for RDMHandlers.  All of   *)
(* them go through one message buffer, whose bytes stay until they are     *)
(* overwritten.                                                            *)
(*                                                                         *)
(* The lights have no state of their own: pwm is the level last written to *)
(* each pin.  The LEDs are left out.                                       *)
(***************************************************************************)
EXTENDS RDMReplies

CONSTANTS
  HostMessages,  (* Messages other than RDM: a label and bytes of data.    *)
  Leftovers,     (* What the message buffer may hold at power-on.          *)
  BUFFER_PREFIX, (* Bytes of the buffer that are modelled, of 600.         *)
  NoLevel        (* No output level: a pin without power, or not known.    *)

VARIABLES
  message,       (* The first bytes of the buffer of UsbProReceiver.Read.  *)
  pwm,           (* The output levels.                                     *)
  shown,         (* History: the value last sent for each DMX slot since   *)
                 (* the address or the personality changed.                *)
  uid            (* History: the bytes of the UID the host was told by the *)
                 (* widget messages.                                       *)

rdmVars == <<settingsVars, flags, request, busy, replies, host>>
firmwareVars == <<rdmVars, message, pwm, shown, uid>>

Outputs == 0 .. 5
Slots == 1 .. BUFFER_PREFIX

\* The buffer has 600 bytes, a DMX frame at most 513.
ASSUME BufferAssumption ==
  /\ BUFFER_PREFIX \in 1 .. 600
  /\ Leftovers \subseteq [0 .. BUFFER_PREFIX - 1 -> Byte]
  /\ \A m \in HostMessages : m.data \in Seq(Byte) /\ Len(m.data) < BUFFER_PREFIX

\* The bytes of the buffer after a message with these data has been received.
Overwritten(data) ==
  [i \in DOMAIN message |-> IF i < Len(data) THEN data[i + 1] ELSE message[i]]

-----------------------------------------------------------------------------
(* The lights. *)

\* (Mutant: the second half is inverted for every personality above 1.)
Invert_All(i) == m_personality > 1

Invert(i) == (i < 3 /\ m_personality > 1) \/ (i >= 3 /\ m_personality = 3)

\* (Mutant: an output can be driven with 256.)
Level_Inverse(i, value) == IF Invert(i) THEN 256 - value ELSE value

Level(i, value) == IF Invert(i) THEN 255 - value ELSE value

\* SetPWM on the bytes from message[1] on; the loop ends at the first output
\* beyond size.  start_address is an unsigned int.
SetPWM(data, size) ==
  LET start_address == (m_start_address + 65535) % 65536
      Reached(i) == \A j \in 0 .. i : (start_address + j) % 65536 < size
  IN  pwm' = [i \in Outputs |-> IF Reached(i) THEN Level(i, data[1 + start_address + i])
                                              ELSE pwm[i]]

\* The outputs main sets before it starts to receive.
Dark == [i \in Outputs |-> Level(i, 0)]

-----------------------------------------------------------------------------
(* TakeAction, for the labels other than RDM_LABEL. *)

Widget(label, size, bytes) ==
  [kind |-> "widget",
   frame |-> SendMessageHeader(label, size) \o bytes \o SendMessageFooter]

\* The processor stores the least significant byte of a long first.
Backwards(bytes) == [k \in 1 .. Len(bytes) |-> bytes[Len(bytes) + 1 - k]]

DEVICE_PARAMS == <<0, 1, 0, 0, 40>>
DEVICE_ID == <<1, 0>>

\* (Mutant: most significant byte first, like an int of RDM.)
SendManufacturerResponse_BigEndian ==
  Widget(MANUFACTURER_LABEL, 2 + Len(MANUFACTURER_NAME),
         IntBytes(EstaId) \o MANUFACTURER_NAME)

SendManufacturerResponse ==
  Widget(MANUFACTURER_LABEL, 2 + Len(MANUFACTURER_NAME),
         <<EstaId % 256, EstaId \div 256>> \o MANUFACTURER_NAME)

SendSerialNumberResponse ==
  Widget(SERIAL_NUMBER_LABEL, 4, Backwards(LongBytes(SerialNumber)))

SendDeviceResponse ==
  Widget(NAME_LABEL, Len(DEVICE_ID) + Len(DEVICE_NAME), DEVICE_ID \o DEVICE_NAME)

\* The slots the host has sent.  SetPWM goes one byte beyond the message.
ShownBy(data) ==
  [s \in Slots |-> CASE s < Len(data) -> data[s + 1]
                     [] s = Len(data) -> NoLevel
                     [] OTHER -> shown[s]]

\* DMX data is dispatched on the first byte of the buffer, even if the message
\* has none.
DmxData(m) ==
  /\ m.label = DMX_DATA_LABEL
  /\ IF message'[0] = 0
     THEN /\ SetPWM(message', Len(m.data))
          /\ shown' = IF m.data = <<>> THEN shown ELSE ShownBy(m.data)
     ELSE UNCHANGED <<pwm, shown>>
  /\ replies' = <<>>
  /\ UNCHANGED uid

\* A message with a label the switch has no case for.
OtherMessage(m) ==
  /\ m.label \notin {PARAMETERS_LABEL, DMX_DATA_LABEL, SERIAL_NUMBER_LABEL, NAME_LABEL,
                     MANUFACTURER_LABEL, RDM_LABEL}
  /\ replies' = <<>>
  /\ UNCHANGED <<pwm, shown, uid>>

\* What the host makes of the data of the answer.
Told(reply) == SubSeq(reply.frame, 5, Len(reply.frame) - 1)

WidgetRequest(m) ==
  /\ \/ /\ m.label = PARAMETERS_LABEL
        /\ replies' = <<Widget(PARAMETERS_LABEL, Len(DEVICE_PARAMS), DEVICE_PARAMS)>>
        /\ UNCHANGED uid
     \/ /\ m.label = SERIAL_NUMBER_LABEL
        /\ replies' = <<SendSerialNumberResponse>>
        /\ uid' = [uid EXCEPT !.serial = Backwards(Told(replies'[1]))]
     \/ /\ m.label = NAME_LABEL
        /\ replies' = <<SendDeviceResponse>>
        /\ UNCHANGED uid
     \/ /\ m.label = MANUFACTURER_LABEL
        /\ replies' = <<SendManufacturerResponse>>
        /\ uid' = [uid EXCEPT !.esta = Backwards(SubSeq(Told(replies'[1]), 1, 2))]
  /\ UNCHANGED <<pwm, shown>>

TakeAction(m) ==
  /\ Waiting
  /\ message' = Overwritten(m.data)
  /\ request' = m
  /\ DmxData(m) \/ WidgetRequest(m) \/ OtherMessage(m)
  /\ UNCHANGED <<settingsVars, flags, busy, host>>

-----------------------------------------------------------------------------
(* RDM messages and the life of the device. *)

NothingShown == [s \in Slots |-> NoLevel]

\* A SET that is going to change what a history variable relies on.
Changes(r, parameters) == busy' /\ r.pid \in parameters

RDM(r) ==
  /\ Receive(r)
  /\ message' = Overwritten(RequestMessage(r))
  /\ shown' = IF Changes(r, {"DMX_START_ADDRESS", "DMX_PERSONALITY"})
              THEN NothingShown ELSE shown
  /\ uid' = IF Changes(r, {"MANUFACTURER_SET_SERIAL"})
            THEN [uid EXCEPT !.serial = Unknown] ELSE uid
  /\ UNCHANGED pwm

PowerOn ==
  /\ SwitchOn
  /\ message' \in Leftovers
  /\ UNCHANGED <<pwm, shown, uid>>

\* main goes on after WidgetSettings.Init: it sets the outputs and calls Read.
Run ==
  /\ Continue
  /\ IF phase' = "run" /\ phase # "run"
     THEN /\ pwm' = Dark
          /\ shown' = [s \in Slots |-> 0]
     ELSE UNCHANGED <<pwm, shown>>
  /\ UNCHANGED <<message, uid>>

Quiet == (Acknowledge \/ Idle) /\ UNCHANGED <<message, pwm, shown, uid>>

PowerFails ==
  /\ PowerLoss
  /\ pwm' = [i \in Outputs |-> NoLevel]
  /\ shown' = NothingShown
  /\ UNCHANGED <<message, uid>>

FirmwareInit ==
  /\ RDMInit
  /\ message \in Leftovers
  /\ pwm = [i \in Outputs |-> NoLevel]
  /\ shown = NothingShown
  /\ uid = [esta |-> Unknown, serial |-> Unknown]

FirmwareNext ==
  \/ PowerOn
  \/ Run
  \/ Quiet
  \/ PowerFails
  \/ \E m \in HostMessages : TakeAction(m)
  \/ \E r \in Requests : RDM(r)

FirmwareSpec == FirmwareInit /\ [][FirmwareNext]_firmwareVars

-----------------------------------------------------------------------------
(* Properties. *)

FirmwareTypeOK ==
  /\ TypeOK
  /\ message \in [0 .. BUFFER_PREFIX - 1 -> Byte]
  /\ pwm \in [Outputs -> Byte \cup {NoLevel}]
  /\ phase = "run" => \A i \in Outputs : pwm[i] \in Byte
  /\ shown \in [Slots -> Byte \cup {NoLevel}]

\* The outputs each personality inverts, as rdm_personalities describes them.
Inverted == <<{}, {0, 1, 2}, Outputs>>

\* What a write cut short may leave of the address and the personality, but no
\* handler lets pass, is not usable.
Usable ==
  IntOf(FieldBytes("start_address")) # 0 /\ FieldBytes("personality")[1] \in DOMAIN Inverted

\* From start-up on the lights show, at the stored address and inverted as the
\* stored personality says, what was last sent for their slots, and nothing at
\* first: short, empty and foreign frames, other messages in the same buffer
\* and EEPROM writes in between do not disturb them.
LightsShowSlots ==
  Ready /\ (TornWrites => Usable) =>
    \A i \in Outputs :
      LET slot == IntOf(FieldBytes("start_address")) + i
          personality == FieldBytes("personality")[1]
      IN  slot \in Slots /\ shown[slot] # NoLevel
            => pwm[i] = IF i \in Inverted[personality] THEN 255 - shown[slot] ELSE shown[slot]

\* A host that puts a UID together from the answers to the widget messages,
\* which have their own byte orders, addresses this device with it, even after
\* it was switched off and on.
ReportedUidWorks ==
  Ready /\ uid.esta # Unknown /\ uid.serial # Unknown
    => ToUs([esta |-> IntOf(uid.esta), serial |-> LongOf(uid.serial)])

\* SetPWM writes only slots of the DMX buffer it is given to the lights.
LightsOnlyFromFrame ==
  [][phase' = phase =>
       \A i \in Outputs :
         pwm'[i] # pwm[i] => m_start_address + i < Len(request'.data)]_firmwareVars
===============================================================================
