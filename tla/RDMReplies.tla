------------------------------ MODULE RDMReplies -------------------------------
(***************************************************************************)
(* What the replies of RDMHandlers look like on the wire: the parameter    *)
(* data of the GET handlers, the RDM header with its running checksum      *)
(* (RDMSender.cpp), and the frame around it.  The header of a frame is     *)
(* sent first, so each handler announces a size before it sends the bytes. *)
(*                                                                         *)
(* The bytes of a text are not told apart, only counted.  int has 2 bytes, *)
(* long has 4.                                                             *)
(***************************************************************************)
EXTENDS RDMHandlers, UsbProSender

CONSTANTS
  Controller,        (* The UID of the controller, six bytes.              *)
  BeyondTable        (* What a read of rdm_personalities beyond its ends   *)
                     (* gives for the slots of a personality.              *)

START_CODE == 204
SUB_START_CODE == 1
MINIMUM_RDM_PACKET_SIZE == 26

RDM_STATUS ==
  [OK |-> 0, BROADCAST |-> 1, FAILED |-> 2, FAILED_CHECKSUM |-> 3,
   INVALID_DESTINATION |-> 4, INVALID_COMMAND |-> 5]

RDM_RESPONSE == [ACK |-> 0, ACK_TIMER |-> 1, NACK |-> 2]

\* DISCOVERY stands for any other class.
COMMAND_CLASS ==
  [GET |-> 32, GET_RESPONSE |-> 33, SET |-> 48, SET_RESPONSE |-> 49, DISCOVERY |-> 16]

PID ==
  [QUEUED_MESSAGE              |-> 32,
   STATUS_MESSAGES             |-> 48,
   SUPPORTED_PARAMETERS        |-> 80,
   PARAMETER_DESCRIPTION       |-> 81,
   DEVICE_INFO                 |-> 96,
   PRODUCT_DETAIL_ID_LIST      |-> 112,
   DEVICE_MODEL_DESCRIPTION    |-> 128,
   MANUFACTURER_LABEL          |-> 129,
   DEVICE_LABEL                |-> 130,
   LANGUAGE_CAPABILITIES       |-> 160,
   LANGUAGE                    |-> 176,
   SOFTWARE_VERSION_LABEL      |-> 192,
   DMX_PERSONALITY             |-> 224,
   DMX_PERSONALITY_DESCRIPTION |-> 225,
   DMX_START_ADDRESS           |-> 240,
   SENSOR_DEFINITION           |-> 512,
   SENSOR_VALUE                |-> 513,
   RECORD_SENSORS              |-> 514,
   DEVICE_POWER_CYCLES         |-> 1029,
   IDENTIFY_DEVICE             |-> 4096,
   MANUFACTURER_SET_SERIAL     |-> SET_SERIAL_PID]

\* The entries of PID_DEFINITIONS with include_in_supported_params.
SupportedParams ==
  <<"QUEUED_MESSAGE", "PRODUCT_DETAIL_ID_LIST", "DEVICE_MODEL_DESCRIPTION",
    "MANUFACTURER_LABEL", "DEVICE_LABEL", "LANGUAGE_CAPABILITIES", "LANGUAGE",
    "DMX_PERSONALITY", "DMX_PERSONALITY_DESCRIPTION", "SENSOR_DEFINITION",
    "SENSOR_VALUE", "RECORD_SENSORS", "DEVICE_POWER_CYCLES",
    "MANUFACTURER_SET_SERIAL">>

Text(n) == [i \in 1 .. n |-> 65]

\* sizeof includes the NUL of a text, `sizeof - 1' and strlen do not.
DEVICE_NAME == Append(Text(17), NUL)
MANUFACTURER_NAME == Append(Text(13), NUL)
SOFTWARE_VERSION_STRING == Append(Text(3), NUL)
SET_SERIAL_PID_DESCRIPTION == Text(17)
TEMPERATURE_SENSOR_DESCRIPTION == Text(16)
rdm_personalities ==
  <<[slots |-> 6, description |-> Text(6)],
    [slots |-> 6, description |-> Text(23)],
    [slots |-> 6, description |-> Text(15)]>>

\* A torn first start can leave a personality that is not in the table; GetDeviceInfo
\* then sends whatever byte lies where its entry would be.
PersonalitySlots(p) ==
  IF p \in 1 .. PERSONALITIES THEN rdm_personalities[p].slots ELSE BeyondTable[p]
Description(p) == rdm_personalities[p].description

\* What the host puts into a request; a PID the firmware does not know is
\* STATUS_MESSAGES.  The length of an RDM message is a byte, so that a label has
\* to leave room for the header.
ASSUME WireAssumption ==
  /\ Controller \in Seq(Byte) /\ Len(Controller) = 6
  /\ BeyondTable \in [0 .. 255 -> 0 .. 255]
  /\ AnalogReadings # {}
  /\ MAX_LABEL_LENGTH + MINIMUM_RDM_PACKET_SIZE - 2 \in Byte
  /\ \A r \in Requests :
       /\ r.frame \in {"ok", "FAILED", "FAILED_CHECKSUM"}
       /\ r.esta \in Word /\ r.serial \in Long /\ r.sub \in Word
       /\ r.class \in {"GET", "SET", "DISCOVERY"}
       /\ r.pid \in DOMAIN PID

-----------------------------------------------------------------------------
(* The parameter data. *)

PidBytes(s) ==
  [i \in 1 .. 2 * Len(s) |-> IntBytes(PID[s[(i + 1) \div 2]])[2 - (i % 2)]]

\* The current reading is any of the possible ones.
SensorBytes(r, recorded) ==
  <<r.data[1]>> \o IntBytes(ReadTemperatureSensor(CHOOSE v \in AnalogReadings : TRUE))
    \o IntBytes(0) \o IntBytes(0) \o recorded

\* What the GET handlers send; data is the part that depends on the settings.
GetData(r, data) ==
  CASE r.pid = "SUPPORTED_PARAMETERS" -> PidBytes(SupportedParams)
    [] r.pid = "PARAMETER_DESCRIPTION" ->
         IntBytes(SET_SERIAL_PID) \o <<4, 3, 2, 0, 0, 0>> \o LongBytes(<<0, 0>>)
           \o LongBytes(<<65535, 65534>>) \o LongBytes(<<0, 1>>)
           \o SET_SERIAL_PID_DESCRIPTION
    [] r.pid = "DEVICE_INFO" ->
         IntBytes(256) \o IntBytes(2) \o IntBytes(1288) \o LongBytes(<<0, 1>>)
           \o IntBytes(PersonalitySlots(data[1]))
           \o <<data[1], PERSONALITIES, data[2], data[3]>> \o IntBytes(0) \o <<1>>
    [] r.pid = "PRODUCT_DETAIL_ID_LIST" -> IntBytes(1027)
    [] r.pid = "DEVICE_MODEL_DESCRIPTION" -> DEVICE_NAME
    [] r.pid = "MANUFACTURER_LABEL" -> MANUFACTURER_NAME
    [] r.pid \in {"LANGUAGE", "LANGUAGE_CAPABILITIES"} -> LANGUAGE_EN
    [] r.pid = "SOFTWARE_VERSION_LABEL" -> SOFTWARE_VERSION_STRING
    [] r.pid = "DMX_PERSONALITY" -> Append(data, PERSONALITIES)
    [] r.pid = "DMX_PERSONALITY_DESCRIPTION" ->
         <<r.data[1]>> \o IntBytes(PersonalitySlots(r.data[1]))
           \o Description(r.data[1])
    [] r.pid = "SENSOR_DEFINITION" ->
         <<r.data[1], 0, 1, 1>> \o IntBytes(0) \o IntBytes(1500) \o IntBytes(100)
           \o IntBytes(400) \o <<1>> \o TEMPERATURE_SENSOR_DESCRIPTION
    [] r.pid = "SENSOR_VALUE" -> SensorBytes(r, data)
    [] OTHER -> data

\* (Mutant: the size of the label buffer for that of the label.)
GetSize_Buffer(r, data) ==
  IF r.pid = "DEVICE_LABEL" THEN MAX_LABEL_LENGTH ELSE Len(GetData(r, data))

\* The param_data_size the GET handlers announce.
GetSize(r, data) ==
  CASE r.pid = "SUPPORTED_PARAMETERS" -> 2 * Len(SupportedParams)
    [] r.pid = "PARAMETER_DESCRIPTION" -> 20 + Len(SET_SERIAL_PID_DESCRIPTION)
    [] r.pid = "DEVICE_INFO" -> 19
    [] r.pid = "DEVICE_MODEL_DESCRIPTION" -> Len(DEVICE_NAME)
    [] r.pid = "MANUFACTURER_LABEL" -> Len(MANUFACTURER_NAME)
    [] r.pid = "DEVICE_LABEL" -> Len(data)
    [] r.pid \in {"LANGUAGE", "LANGUAGE_CAPABILITIES"} -> Len(LANGUAGE_EN)
    [] r.pid = "SOFTWARE_VERSION_LABEL" -> Len(SOFTWARE_VERSION_STRING)
    [] r.pid = "DMX_PERSONALITY_DESCRIPTION" ->
         3 + Len(Description(r.data[1]))
    [] r.pid = "SENSOR_DEFINITION" -> 13 + Len(TEMPERATURE_SENSOR_DESCRIPTION)
    [] r.pid = "SENSOR_VALUE" -> 9
    [] r.pid = "DEVICE_POWER_CYCLES" -> 4
    [] r.pid = "IDENTIFY_DEVICE" -> 1
    [] OTHER -> 2

\* The replies that carry data: to a GET, and to a SET of the sensor value.
HasGetData(r, reply) ==
  reply.type = "ACK" /\ reply.class = "GET_RESPONSE" /\ r.pid # "QUEUED_MESSAGE"
HasSensorData(r, reply) ==
  reply.type = "ACK" /\ reply.class = "SET_RESPONSE" /\ r.pid = "SENSOR_VALUE"

\* The parameter data of an RDM reply to r, and its announced size.
ParamData(r, reply) ==
  CASE reply.type = "ACK_TIMER" -> IntBytes(4)
    [] reply.type = "NACK" -> IntBytes(reply.data[1])
    [] HasGetData(r, reply) -> GetData(r, reply.data)
    [] HasSensorData(r, reply) -> SensorBytes(r, reply.data)
    [] OTHER -> <<>>

ParamSize(r, reply) ==
  CASE reply.type \in {"ACK_TIMER", "NACK"} -> 2
    [] HasGetData(r, reply) -> GetSize(r, reply.data)
    [] HasSensorData(r, reply) -> 9
    [] OTHER -> 0

-----------------------------------------------------------------------------
(* RDM messages. *)

\* The 16-bit sum of bytes.
Checksum(bytes) ==
  LET sum[n \in 0 .. Len(bytes)] ==
        IF n = 0 THEN 0 ELSE (sum[n - 1] + bytes[n]) % 65536
  IN  sum[Len(bytes)]

\* The request r as the host sends it, with transaction number 7.
RequestMessage(r) ==
  LET body ==
        <<START_CODE, SUB_START_CODE, (24 + r.pdl) % 256>> \o IntBytes(r.esta) \o LongBytes(r.serial)
          \o Controller \o <<7, 1, 0>> \o IntBytes(r.sub) \o <<COMMAND_CLASS[r.class]>>
          \o IntBytes(PID[r.pid]) \o <<r.pdl>> \o SubSeq(r.data, 1, r.pdl)
  IN  body \o IntBytes(Checksum(body))

\* StartCustomResponse to the last byte before the checksum.
ResponseBody(r, reply) ==
  LET received == RequestMessage(r)
      size == ParamSize(r, reply)
  IN  <<START_CODE, SUB_START_CODE, (MINIMUM_RDM_PACKET_SIZE - 2 + size) % 256>>
        \o SubSeq(received, 10, 15) \o IntBytes(EstaId) \o LongBytes(reply.source)
        \o <<received[16], RDM_RESPONSE[reply.type], reply.count>>
        \o SubSeq(received, 19, 20) \o <<COMMAND_CLASS[reply.class]>>
        \o IntBytes(PID[reply.pid]) \o <<size % 256>> \o ParamData(r, reply)

\* EndRDMResponse.  RDM_STATUS_OK, the first byte, adds 0 to the checksum.
RDMMessage(r, reply) ==
  LET body == ResponseBody(r, reply)
  IN  body \o IntBytes(Checksum(<<RDM_STATUS.OK>> \o body))

\* What is written to the serial port.
Sent(r, reply) ==
  CASE reply.kind = "status" -> WriteMessage(RDM_LABEL, <<RDM_STATUS[reply.code]>>)
    [] reply.kind = "rdm" ->
         SendMessageHeader(RDM_LABEL, 1 + MINIMUM_RDM_PACKET_SIZE + ParamSize(r, reply))
           \o <<RDM_STATUS.OK>> \o RDMMessage(r, reply) \o SendMessageFooter
    [] OTHER -> reply.frame

\* The tests HandleRDMMessage begins with, on the bytes of a message.
VerifyChecksum(message) ==
  LET size == Len(message)
      checksum == Checksum(SubSeq(message, 1, size - 2))
      offset == message[3]
  IN  /\ checksum \div 256 = message[offset + 1]
      /\ checksum % 256 = message[offset + 2]

FrameStatus(message) ==
  IF \/ Len(message) < MINIMUM_RDM_PACKET_SIZE
     \/ message[1] # START_CODE \/ message[2] # SUB_START_CODE
     \/ message[3] # Len(message) - 2
  THEN "FAILED"
  ELSE IF VerifyChecksum(message) THEN "ok" ELSE "FAILED_CHECKSUM"

-----------------------------------------------------------------------------
(* Properties. *)

\* A frame a receiver like UsbProReceiver takes: its length is announced.
Framed(frame) ==
  LET n == Len(frame)
  IN  /\ \A k \in 1 .. n : frame[k] \in 0 .. 255
      /\ n > 4 /\ frame[1] = SOM /\ frame[n] = EOM
      /\ frame[3] + frame[4] * 256 = n - 5

\* An RDM message passes the tests the firmware has for the messages of
\* others, it goes to the controller that asked, and its parameter data is as
\* long as it says.
WellFormed(message) ==
  /\ FrameStatus(message) = "ok"
  /\ SubSeq(message, 4, 9) = Controller
  /\ message[24] = Len(message) - MINIMUM_RDM_PACKET_SIZE

\* Every reply, whichever handler wrote it and whatever the settings are, is a
\* frame of the length its header announced, with a well-formed RDM message to
\* the controller.
RepliesWellFormed ==
  \A k \in 1 .. Len(replies) :
    LET frame == Sent(request, replies[k])
    IN  /\ Framed(frame)
        /\ replies[k].kind = "rdm"
             => WellFormed(SubSeq(frame, 6, Len(frame) - 1))
===============================================================================
