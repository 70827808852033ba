----------------------------- MODULE RDMHandlers ------------------------------
(***************************************************************************)
(* The RDM responder (RDMHandlers.cpp, RDMSender.cpp) on top of its        *)
(* settings: one request after the other is checked, dispatched by its     *)
(* PID, and answered; a handler that stores a setting answers when the     *)
(* EEPROM write is done.  A new device label is answered at once with an   *)
(* ACK_TIMER, written when the line is idle, and its completion fetched    *)
(* by the controller with GET QUEUED_MESSAGE.                              *)
(*                                                                         *)
(* A request is a record:                                                  *)
(*   frame   "ok", or why HandleRDMMessage refuses the packet              *)
(*   esta, serial   the destination UID                                    *)
(*   class   "GET", "SET", or "DISCOVERY" for any other command class     *)
(*   sub     the sub device                                                *)
(*   pid     the parameter, by its name in RDMEnums.h                      *)
(*   pdl     the parameter data length, byte 23                            *)
(*   data    the bytes of the buffer from byte 24 on                       *)
(* A reply is what is sent to the host under RDM_LABEL: a bare status      *)
(* code, or an RDM message.  Of its parameter data only the bytes that     *)
(* depend on the state are kept; texts, constants and the current reading  *)
(* of the temperature sensor are left out.                                 *)
(***************************************************************************)
EXTENDS WidgetSettings

CONSTANTS
  Requests,           (* What the host may send.                           *)
  AnalogReadings,     (* What the converter can read of the sensor.        *)
  MAX_MESSAGE_COUNT,  (* Where the message count saturates, 255.           *)
  NoRequest           (* No request since power-on.                        *)

VARIABLES
  m_device_label_pending,   (* A DEVICE_LABEL response is queued.          *)
  m_sent_device_label,      (* It was the last queued message sent.        *)
  m_message_count,          (* The count every RDM response carries.       *)
  m_identify_mode_enabled,
  request,                  (* The last request received.                  *)
  busy,                     (* Its handler has not returned.               *)
  replies,                  (* What has been sent in answer to it.         *)
  host                      (* History: what the controller was told.      *)

\* The buffer holds all the parameter data a length byte can announce, and
\* always more than a handler reads.
ASSUME RequestAssumption ==
  \A r \in Requests :
    /\ r.pdl \in Byte
    /\ r.data \in Seq(Byte) /\ Len(r.data) >= 4 /\ Len(r.data) >= r.pdl

\* The converter has ten bits, the message count is a byte.
ASSUME RangeAssumption ==
  /\ AnalogReadings \subseteq 0 .. 1023
  /\ MAX_MESSAGE_COUNT \in Byte \ {0}

queueVars == <<m_device_label_pending, m_sent_device_label, m_message_count>>
flags == <<queueVars, m_identify_mode_enabled>>
vars == <<settingsVars, flags, request, busy, replies, host>>

-----------------------------------------------------------------------------
(* The parameters. *)

Pid(get, set, argument_size) ==
  [get |-> get, set |-> set, get_argument_size |-> argument_size]

PID_DEFINITIONS ==
  [QUEUED_MESSAGE              |-> Pid(TRUE, FALSE, 1),
   SUPPORTED_PARAMETERS        |-> Pid(TRUE, FALSE, 0),
   PARAMETER_DESCRIPTION       |-> Pid(TRUE, FALSE, 2),
   DEVICE_INFO                 |-> Pid(TRUE, FALSE, 0),
   PRODUCT_DETAIL_ID_LIST      |-> Pid(TRUE, FALSE, 0),
   DEVICE_MODEL_DESCRIPTION    |-> Pid(TRUE, FALSE, 0),
   MANUFACTURER_LABEL          |-> Pid(TRUE, FALSE, 0),
   DEVICE_LABEL                |-> Pid(TRUE, TRUE, 0),
   LANGUAGE_CAPABILITIES       |-> Pid(TRUE, FALSE, 0),
   LANGUAGE                    |-> Pid(TRUE, TRUE, 0),
   SOFTWARE_VERSION_LABEL      |-> Pid(TRUE, FALSE, 0),
   DMX_PERSONALITY             |-> Pid(TRUE, TRUE, 0),
   DMX_PERSONALITY_DESCRIPTION |-> Pid(TRUE, FALSE, 1),
   DMX_START_ADDRESS           |-> Pid(TRUE, TRUE, 0),
   SENSOR_DEFINITION           |-> Pid(TRUE, FALSE, 1),
   SENSOR_VALUE                |-> Pid(TRUE, TRUE, 1),
   RECORD_SENSORS              |-> Pid(FALSE, TRUE, 0),
   DEVICE_POWER_CYCLES         |-> Pid(TRUE, TRUE, 0),
   IDENTIFY_DEVICE             |-> Pid(TRUE, TRUE, 0),
   MANUFACTURER_SET_SERIAL     |-> Pid(FALSE, TRUE, 4)]

NACK_REASON ==
  [UNKNOWN_PID |-> 0, FORMAT_ERROR |-> 1, UNSUPPORTED_COMMAND_CLASS |-> 5,
   DATA_OUT_OF_RANGE |-> 6, SUB_DEVICE_OUT_OF_RANGE |-> 9]

PERSONALITIES == 3
LANGUAGE_EN == <<101, 110>>
SET_SERIAL_PID == 32768
STATUS_GET_LAST_MESSAGE == 1

\* The parameter data length a SET must have; a label has at most 32 bytes.
SetSize ==
  [LANGUAGE |-> 2, DMX_PERSONALITY |-> 1, DMX_START_ADDRESS |-> 2,
   SENSOR_VALUE |-> 1, RECORD_SENSORS |-> 1, DEVICE_POWER_CYCLES |-> 4,
   IDENTIFY_DEVICE |-> 1, MANUFACTURER_SET_SERIAL |-> 4]

\* The value of a 16-bit `int' with the bits of w.
AsInt(w) == IF w < 32768 THEN w ELSE w - 65536

\* In tenths of a degree.
ReadTemperatureSensor(v) == (v * 5000) \div 1024

-----------------------------------------------------------------------------
(* Replies (RDMSender). *)

Status(code) == [kind |-> "status", code |-> code]

\* StartCustomResponse to EndRDMResponse.
CustomResponse(type, class, pid, data) ==
  [kind |-> "rdm", type |-> type, class |-> class, pid |-> pid,
   source |-> SerialNumber, count |-> m_message_count, data |-> data]

RDMResponse(r, type, data) ==
  CustomResponse(type,
                 IF r.class = "GET" THEN "GET_RESPONSE" ELSE "SET_RESPONSE",
                 r.pid, data)

Ack(r, data) == RDMResponse(r, "ACK", data)
AckTimer(r) == RDMResponse(r, "ACK_TIMER", <<>>)
Nack(r, reason) == RDMResponse(r, "NACK", <<NACK_REASON[reason]>>)

\* is_broadcast: the device part of the UID is all ones.
IsBroadcast(r) == r.serial = ALL_ONES

NackOrBroadcast(r, reason) ==
  IF IsBroadcast(r) THEN Status("BROADCAST") ELSE Nack(r, reason)

AckOrBroadcast(r) ==
  IF IsBroadcast(r) THEN Status("BROADCAST") ELSE Ack(r, <<>>)

SensorResponse(r) == Ack(r, FieldBytes("sensor"))

-----------------------------------------------------------------------------
(* HandleRDMMessage: the checks a request has to pass. *)

\* For this device, for all devices of its vendor, or for all devices.
ToUs(r) ==
  \/ r.esta = EstaId /\ (r.serial = SerialNumber \/ IsBroadcast(r))
  \/ r.esta = 65535 /\ IsBroadcast(r)

Known(r) == r.pid \in DOMAIN PID_DEFINITIONS
Gettable(r) == Known(r) /\ r.class = "GET" /\ PID_DEFINITIONS[r.pid].get

\* Every class but GET is taken for a SET.
Settable(r) == Known(r) /\ r.class # "GET" /\ PID_DEFINITIONS[r.pid].set

BadGetValue(r) ==
  \/ r.pid = "PARAMETER_DESCRIPTION" /\ IntOf(r.data) # SET_SERIAL_PID
  \/ r.pid = "DMX_PERSONALITY_DESCRIPTION" /\ r.data[1] \notin 1 .. PERSONALITIES
  \/ r.pid \in {"SENSOR_DEFINITION", "SENSOR_VALUE"} /\ r.data[1] # 0

BadSetSize(r) ==
  IF r.pid = "DEVICE_LABEL" THEN r.pdl > MAX_LABEL_LENGTH
                            ELSE r.pdl # SetSize[r.pid]

\* The start address is compared as an `int'.
BadSetValue(r) ==
  \/ r.pid = "LANGUAGE" /\ SubSeq(r.data, 1, 2) # LANGUAGE_EN
  \/ r.pid = "DMX_PERSONALITY" /\ r.data[1] \notin 1 .. PERSONALITIES
  \/ /\ r.pid = "DMX_START_ADDRESS"
     /\ LET a == AsInt(IntOf(r.data)) IN a = 0 \/ a > MAX_DMX_ADDRESS
  \/ r.pid \in {"SENSOR_VALUE", "RECORD_SENSORS"} /\ r.data[1] \notin {0, 255}
  \/ r.pid = "IDENTIFY_DEVICE" /\ r.data[1] \notin {0, 1}
  \/ r.pid = "MANUFACTURER_SET_SERIAL" /\ LongOf(r.data) = ALL_ONES

\* A check, and what is sent when it fails: a status code, a NACK, or a NACK
\* that a broadcast does not get.
StatusIf(fails, code) == [fails |-> fails, sends |-> "status", what |-> code]
NackIf(fails, reason) == [fails |-> fails, sends |-> "nack", what |-> reason]
NackOrBroadcastIf(fails, reason) ==
  [fails |-> fails, sends |-> "nack_or_broadcast", what |-> reason]

\* The checks in the order the code makes them, those of the handlers included.
Checks(r) ==
  <<StatusIf(r.frame # "ok", r.frame),
    StatusIf(~ToUs(r), IF IsBroadcast(r) THEN "BROADCAST" ELSE "INVALID_DESTINATION"),
    NackOrBroadcastIf(r.sub \notin {0, 65535}, "SUB_DEVICE_OUT_OF_RANGE"),
    NackOrBroadcastIf(~Known(r), "UNKNOWN_PID"),
    NackOrBroadcastIf(~Gettable(r) /\ ~Settable(r), "UNSUPPORTED_COMMAND_CLASS"),
    StatusIf(Gettable(r) /\ IsBroadcast(r), "BROADCAST"),
    NackIf(Gettable(r) /\ r.sub # 0, "SUB_DEVICE_OUT_OF_RANGE"),
    NackIf(Gettable(r) /\ r.pdl # PID_DEFINITIONS[r.pid].get_argument_size,
           "FORMAT_ERROR"),
    NackIf(Gettable(r) /\ BadGetValue(r), "DATA_OUT_OF_RANGE"),
    NackOrBroadcastIf(Settable(r) /\ BadSetSize(r), "FORMAT_ERROR"),
    NackIf(Settable(r) /\ r.pid = "SENSOR_VALUE" /\ BadSetValue(r), "DATA_OUT_OF_RANGE"),
    NackOrBroadcastIf(Settable(r) /\ BadSetValue(r), "DATA_OUT_OF_RANGE")>>

\* The reply of the first check that fails, as a set; empty if all pass.
Refusal(r) ==
  LET checks == Checks(r)
      failed == {k \in 1 .. Len(checks) : checks[k].fails}
      Sent(check) ==
        CASE check.sends = "status" -> Status(check.what)
          [] check.sends = "nack" -> Nack(r, check.what)
          [] OTHER -> NackOrBroadcast(r, check.what)
  IN  {Sent(checks[k]) : k \in {j \in failed : \A i \in failed : j <= i}}

\* A command class that is neither GET nor SET gets a status of its own, and
\* the request is then processed as if it had none.
Preface(r) ==
  IF r.class = "DISCOVERY" /\ r.frame = "ok" /\ ToUs(r)
  THEN <<Status("INVALID_COMMAND")>> ELSE <<>>

-----------------------------------------------------------------------------
(* The device and the controller at work. *)

\* The loop of UsbProReceiver.Read waits for serial data.
Waiting == Ready /\ ~busy

Unknown == <<>>
Promisable ==
  {"DMX_START_ADDRESS", "DMX_PERSONALITY", "MANUFACTURER_SET_SERIAL", "IDENTIFY_DEVICE"}

\* The history `host': the value of a parameter the controller may rely on,
\* from the ACK of its SET to the next SET; whether it was told by an
\* ACK_TIMER to collect the response of a SET DEVICE_LABEL; and the status
\* types of its last two GET QUEUED_MESSAGEs with what they got.
NoHistory ==
  [promised |-> [p \in Promisable |-> Unknown], owed |-> FALSE, queued |-> <<>>]

Promise(p, value) ==
  IF p \in Promisable THEN [host EXCEPT !.promised[p] = value] ELSE host

LastTwo(s) == IF Len(s) > 2 THEN Tail(s) ELSE s

RDMInit ==
  /\ Init
  /\ m_device_label_pending = FALSE
  /\ m_sent_device_label = FALSE
  /\ m_message_count = 0
  /\ m_identify_mode_enabled = 0
  /\ request = NoRequest
  /\ busy = FALSE
  /\ replies = <<>>
  /\ host = NoHistory

\* r has arrived and is answered at once.
Answer(r, reply) ==
  /\ request' = r
  /\ replies' = Append(Preface(r), reply)
  /\ UNCHANGED busy

Refuse(r) ==
  /\ \E reply \in Refusal(r) : Answer(r, reply)
  /\ UNCHANGED <<settingsVars, flags, host>>

\* What the GET handlers send of the state.
Data(p) ==
  CASE p = "DEVICE_INFO" -> <<m_personality>> \o IntBytes(m_start_address)
    [] p = "DEVICE_LABEL" -> DeviceLabel
    [] p = "DMX_PERSONALITY" -> <<m_personality>>
    [] p = "DMX_START_ADDRESS" -> IntBytes(m_start_address)
    [] p = "SENSOR_VALUE" -> FieldBytes("sensor")
    [] p = "DEVICE_POWER_CYCLES" -> FieldBytes("power_cycles")
    [] p = "IDENTIFY_DEVICE" -> <<m_identify_mode_enabled>>
    [] OTHER -> <<>>

Get(r) ==
  /\ Gettable(r) /\ r.pid # "QUEUED_MESSAGE"
  /\ Answer(r, Ack(r, Data(r.pid)))
  /\ UNCHANGED <<settingsVars, flags, host>>

\* The byte-sized counter stays at its ends.  (Mutants: without the tests.)
IncrementMessageCount_Wraps ==
  m_message_count' = (m_message_count + 1) % (MAX_MESSAGE_COUNT + 1)

IncrementMessageCount ==
  m_message_count' = AtMost(m_message_count + 1, MAX_MESSAGE_COUNT)

DecrementMessageCount_Unchecked == m_message_count' = m_message_count - 1

DecrementMessageCount ==
  m_message_count' = IF m_message_count = 0 THEN 0 ELSE m_message_count - 1

\* HandleGetQueuedMessage: the completion of a SET DEVICE_LABEL, the same
\* once more if it is the last message and asked for, or an empty list.
Queued(r, class, p) ==
  /\ Gettable(r) /\ r.pid = "QUEUED_MESSAGE"
  /\ Answer(r, [CustomResponse("ACK", class, p, <<>>) EXCEPT !.count = m_message_count'])
  /\ host' = [host EXCEPT !.queued =
                LastTwo(Append(@, [status |-> r.data[1], got |-> p])),
                          !.owed = @ /\ p # "DEVICE_LABEL"]
  /\ UNCHANGED <<settingsVars, m_identify_mode_enabled>>

GetQueuedLabel(r) ==
  /\ m_device_label_pending
  /\ DecrementMessageCount
  /\ m_device_label_pending' = FALSE
  /\ m_sent_device_label' = TRUE
  /\ Queued(r, "SET_RESPONSE", "DEVICE_LABEL")

\* (Mutant: the status type ERROR, 4, in place of GET_LAST_MESSAGE.)
LastIsLabel_Error(r) == m_sent_device_label /\ r.data[1] = 4

LastIsLabel(r) == m_sent_device_label /\ r.data[1] = STATUS_GET_LAST_MESSAGE

GetLastLabel(r) ==
  /\ ~m_device_label_pending /\ LastIsLabel(r)
  /\ UNCHANGED queueVars
  /\ Queued(r, "SET_RESPONSE", "DEVICE_LABEL")

GetNothingQueued(r) ==
  /\ ~m_device_label_pending /\ ~LastIsLabel(r)
  /\ m_sent_device_label' = FALSE
  /\ UNCHANGED <<m_device_label_pending, m_message_count>>
  /\ Queued(r, "GET_RESPONSE", "STATUS_MESSAGES")

\* HandleSetLanguage changes nothing: there is one language.
SetLanguage(r) ==
  /\ Settable(r) /\ r.pid = "LANGUAGE"
  /\ Answer(r, AckOrBroadcast(r))
  /\ UNCHANGED <<settingsVars, flags, host>>

SetIdentifyDevice(r) ==
  /\ Settable(r) /\ r.pid = "IDENTIFY_DEVICE"
  /\ Answer(r, AckOrBroadcast(r))
  /\ m_identify_mode_enabled' = r.data[1]
  /\ host' = Promise(r.pid, IF IsBroadcast(r) THEN Unknown ELSE SubSeq(r.data, 1, 1))
  /\ UNCHANGED <<settingsVars, queueVars>>

\* The ACK_TIMER is sent before the message it announces is counted.
SetLabel(r) ==
  /\ Settable(r) /\ r.pid = "DEVICE_LABEL"
  /\ SetDeviceLabel(SubSeq(r.data, 1, r.pdl))
  /\ \/ /\ IsBroadcast(r)
        /\ Answer(r, Status("BROADCAST"))
        /\ UNCHANGED <<queueVars, host>>
     \/ /\ ~IsBroadcast(r)
        /\ Answer(r, AckTimer(r))
        /\ m_device_label_pending' = TRUE
        /\ IncrementMessageCount
        /\ host' = [host EXCEPT !.owed = TRUE]
        /\ UNCHANGED m_sent_device_label
  /\ UNCHANGED m_identify_mode_enabled

\* The SET handlers that write to the EEPROM: their call of the setter ...
CallSetter(r) ==
  \/ r.pid = "DMX_PERSONALITY" /\ SetPersonality(r.data[1])
  \/ r.pid = "DMX_START_ADDRESS" /\ SetStartAddress(IntOf(r.data))
  \/ r.pid = "SENSOR_VALUE" /\ SaveSensorValue(0)
  \/ r.pid = "RECORD_SENSORS" /\ \E v \in AnalogReadings : SaveSensorValue(ReadTemperatureSensor(v))
  \/ r.pid = "DEVICE_POWER_CYCLES" /\ SetDevicePowerCycles(LongOf(r.data))
  \/ r.pid = "MANUFACTURER_SET_SERIAL" /\ SetSerialNumber(LongOf(r.data))

SetStored(r) ==
  /\ Settable(r) /\ CallSetter(r)
  /\ request' = r
  /\ busy' = TRUE
  /\ replies' = Preface(r)
  /\ host' = Promise(r.pid, Unknown)
  /\ UNCHANGED flags

\* ... and, when the setter has returned, their reply.
Reply ==
  /\ busy' = FALSE
  /\ replies' = Append(replies, IF request.pid = "SENSOR_VALUE"
                                THEN SensorResponse(request)
                                ELSE AckOrBroadcast(request))
  /\ host' = IF IsBroadcast(request) THEN host
             ELSE Promise(request.pid, SubSeq(request.data, 1, SetSize[request.pid]))
  /\ UNCHANGED <<settingsVars, flags, request>>

\* (Mutant: the reply does not wait for the EEPROM.)
Acknowledge_Early == busy /\ Reply

Acknowledge == Ready /\ busy /\ Reply

\* (Mutant: no write while a response is queued.)
Idle_NotWhileQueued ==
  /\ Waiting /\ ~m_device_label_pending /\ PerformWrite
  /\ UNCHANGED <<flags, request, busy, replies, host>>

\* Idle, called while there is no serial data, starts to write the label.
Idle ==
  /\ Waiting /\ PerformWrite
  /\ UNCHANGED <<flags, request, busy, replies, host>>

\* The running function goes on.  PerformWrite returns to Idle, which calls
\* QueueSetDeviceLabel: the message is queued, but not counted.
Continue ==
  /\ \/ /\ Return
        /\ m_device_label_pending' =
             (m_device_label_pending \/ Head(todo).field = "label_size")
     \/ /\ IncrementDevicePowerCycles \/ WriteByte
        /\ UNCHANGED m_device_label_pending
  /\ UNCHANGED <<m_sent_device_label, m_message_count, m_identify_mode_enabled,
                 request, busy, replies, host>>

SwitchOn ==
  /\ SettingsInit
  /\ UNCHANGED <<flags, request, busy, replies, host>>

\* The identify mode and the queue are lost; the rest of what the controller
\* was promised is not.
PowerLoss ==
  /\ PowerOff
  /\ m_device_label_pending' = FALSE
  /\ m_sent_device_label' = FALSE
  /\ m_message_count' = 0
  /\ m_identify_mode_enabled' = 0
  /\ request' = NoRequest
  /\ busy' = FALSE
  /\ replies' = <<>>
  /\ host' = [NoHistory EXCEPT
                !.promised = [host.promised EXCEPT !["IDENTIFY_DEVICE"] = Unknown]]

\* A request passes all checks and goes to its handler, or is refused.
Handle(r) ==
  \/ Get(r)
  \/ GetQueuedLabel(r)
  \/ GetLastLabel(r)
  \/ GetNothingQueued(r)
  \/ SetLanguage(r)
  \/ SetIdentifyDevice(r)
  \/ SetLabel(r)
  \/ SetStored(r)

Receive(r) ==
  /\ Waiting
  /\ \/ Refuse(r)
     \/ Refusal(r) = {} /\ Handle(r)

RDMNext ==
  \/ SwitchOn
  \/ Continue
  \/ Acknowledge
  \/ Idle
  \/ PowerLoss
  \/ \E r \in Requests : Receive(r)

\* A function that runs goes on, and the controller leaves the line quiet
\* again and again, but not forever, so that Idle is called.
Fairness == WF_vars(Continue) /\ WF_vars(Acknowledge) /\ SF_vars(Idle)

RDMSpec == RDMInit /\ [][RDMNext]_vars /\ Fairness

-----------------------------------------------------------------------------
(* Properties. *)

RDMTypeOK ==
  /\ TypeOK
  /\ m_device_label_pending \in BOOLEAN
  /\ m_sent_device_label \in BOOLEAN
  /\ m_message_count \in 0 .. MAX_MESSAGE_COUNT
  /\ m_identify_mode_enabled \in {0, 1}
  /\ request \in Requests \cup {NoRequest}
  /\ busy \in BOOLEAN
  /\ Len(replies) <= 2
  /\ host.owed \in BOOLEAN
  /\ Len(host.queued) <= 2

\* What a parameter is stored as.
Stored(p) ==
  CASE p = "DMX_START_ADDRESS" -> FieldBytes("start_address")
    [] p = "DMX_PERSONALITY" -> FieldBytes("personality")
    [] p = "MANUFACTURER_SET_SERIAL" -> FieldBytes("serial_number")
    [] p = "IDENTIFY_DEVICE" -> <<m_identify_mode_enabled>>

\* A SET that was acknowledged has taken effect and keeps it: until the next
\* SET of the parameter the device holds the acknowledged value, through any
\* other request, through loss of power at any byte of any other write, and
\* while it starts again.
PromisesKept ==
  \A p \in Promisable :
    host.promised[p] # Unknown => Stored(p) = host.promised[p]

\* The parameters a reply reports, with the values it gives them.
Reported(reply) ==
  IF reply.kind # "rdm" THEN {}
  ELSE {<<"MANUFACTURER_SET_SERIAL", LongBytes(reply.source)>>} \cup
       IF reply.class # "GET_RESPONSE" \/ reply.type # "ACK" THEN {}
       ELSE IF reply.pid = "DEVICE_INFO"
            THEN {<<"DMX_PERSONALITY", SubSeq(reply.data, 1, 1)>>,
                  <<"DMX_START_ADDRESS", SubSeq(reply.data, 2, 3)>>}
            ELSE {<<reply.pid, reply.data>>}

\* What the device tells the controller agrees with what it acknowledged: the
\* GET handlers read RAM copies, and the source UID is read from the EEPROM
\* for every reply, but both show the value of the last acknowledged SET.
AnswersMatchPromises ==
  \A k \in 1 .. Len(replies) : \A report \in Reported(replies[k]) :
    report[1] \in Promisable /\ host.promised[report[1]] # Unknown
      => report[2] = host.promised[report[1]]

\* A controller that was told to come back for the response of its SET
\* DEVICE_LABEL finds it: it stays queued, and announced by the message count,
\* until a GET QUEUED_MESSAGE delivers it.
OwedIsAnnounced ==
  host.owed => m_device_label_pending /\ m_message_count > 0

\* A controller that lost the response can ask for the last message as often
\* as it likes and gets it again.
RetransmitSafe ==
  LET q == host.queued
  IN  Len(q) = 2 /\ q[1].got = "DEVICE_LABEL" /\ q[2].status = STATUS_GET_LAST_MESSAGE
        => q[2].got = "DEVICE_LABEL"

\* A buffered label is written to the EEPROM, or lost with the power, however
\* many requests come in between.
LabelEventuallyStored == m_label_pending ~> ~m_label_pending

\* Every request gets one reply.
OneReply == Waiting => Len(replies) <= 1

\* A request to a broadcast or vendorcast UID is not answered with an RDM
\* message.
BroadcastUnanswered ==
  request # NoRequest /\ IsBroadcast(request)
    => \A k \in 1 .. Len(replies) : replies[k].kind = "status"

\* When the device answers GET QUEUED_MESSAGE with an empty list, and no label
\* waits for the idle write that would queue another response, it announces no
\* further messages: the count is the number of queued messages.
EmptyQueueAnnouncesNone ==
  ~m_label_pending =>
    \A k \in 1 .. Len(replies) :
      replies[k].kind = "rdm" /\ replies[k].pid = "STATUS_MESSAGES"
        => replies[k].count = 0

\* The handlers let only DMX slots pass as start addresses.
StartAddressChecked ==
  Waiting => m_start_address \in 1 .. MAX_DMX_ADDRESS
=============================================================================
