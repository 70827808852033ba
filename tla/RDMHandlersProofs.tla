-------------------------- MODULE RDMHandlersProofs ---------------------------
(***************************************************************************)
(* Theorems about RDMHandlers for every set of requests, every label       *)
(* length, every saturation of the message count and any number of starts. *)
(***************************************************************************)
EXTENDS RDMHandlers, WidgetSettingsProofs

\* What the controller may have been told.
HostType ==
  [promised : [Promisable -> Seq(Byte)],
   owed     : BOOLEAN,
   queued   : Seq([status : Byte, got : {"DEVICE_LABEL", "STATUS_MESSAGES"}])]

\* The parameters a SET of which is acknowledged when it is stored.
StoredPids ==
  {"DMX_PERSONALITY", "DMX_START_ADDRESS", "SENSOR_VALUE", "RECORD_SENSORS",
   "DEVICE_POWER_CYCLES", "MANUFACTURER_SET_SERIAL"}

\* While a handler waits for its setter, at most the complaint about the
\* command class has been sent.
BusyInv ==
  busy => /\ phase = "run"
          /\ request \in Requests /\ request.pid \in StoredPids /\ Settable(request)
          /\ replies \in {<<>>, <<Status("INVALID_COMMAND")>>}

\* RDMTypeOK with what it needs of its past.
RDMTypeInv == TypeInv /\ RDMTypeOK /\ host \in HostType /\ BusyInv

-----------------------------------------------------------------------------
(* Lemmas about requests. *)

\* The bytes of a request, read as the setters' arguments.
LEMMA RequestBytes ==
  ASSUME NEW r \in Requests
  PROVE  /\ r.data \in Seq(Byte)
         /\ r.data[1] \in Byte
         /\ IntOf(r.data) \in Word /\ LongOf(r.data) \in Long
         /\ \A n \in 0 .. 4 : SubSeq(r.data, 1, n) \in Seq(Byte)
         /\ SubSeq(r.data, 1, r.pdl) \in Seq(Byte)
<1>1. r.data \in Seq(Byte) /\ Len(r.data) >= 4 /\ r.pdl \in Nat /\ Len(r.data) >= r.pdl
  BY RequestAssumption DEF Byte
<1>2. r.data[1] \in Byte /\ r.data[2] \in Byte /\ r.data[3] \in Byte /\ r.data[4] \in Byte
  BY <1>1
<1>3. IntOf(r.data) \in Word /\ LongOf(r.data) \in Long
  BY <1>2, IntOfType DEF IntOf, LongOf, Long
<1>4. ASSUME NEW n \in Nat, n <= Len(r.data)
      PROVE  SubSeq(r.data, 1, n) \in Seq(Byte)
  BY <1>1, <1>4
<1> QED
  BY <1>1, <1>2, <1>3, <1>4

\* A temperature in tenths of a degree is a word.
LEMMA TemperatureType ==
  ASSUME NEW v \in AnalogReadings
  PROVE  ReadTemperatureSensor(v) \in Word
<1>1. v \in 0 .. 1023
  BY RangeAssumption
<1> QED
  BY <1>1 DEF ReadTemperatureSensor, Word

\* A handler's call of its setter is a step of the settings.
LEMMA CallSetterStep ==
  ASSUME NEW r \in Requests, CallSetter(r)
  PROVE  AnyStep /\ r.pid \in StoredPids /\ Ready
<1>1. AnyStep
  <2>1. ASSUME NEW v \in AnalogReadings, SaveSensorValue(ReadTemperatureSensor(v))
        PROVE  AnyStep
    BY <2>1, TemperatureType, SetterCalls
  <2>2. 0 \in Word
    BY DEF Word
  <2> QED
    BY <2>1, <2>2, RequestBytes, SetterCalls DEF CallSetter
<1>2. r.pid \in StoredPids
  BY DEF CallSetter, StoredPids
<1>3. Ready
  BY DEF CallSetter, SetPersonality, SetStartAddress, SaveSensorValue,
     SetDevicePowerCycles, SetSerialNumber, Call
<1> QED
  BY <1>1, <1>2, <1>3

\* A request that calls no setter that writes.
LEMMA OtherRequestQuiet ==
  ASSUME NEW r \in Requests, Receive(r), ~SetStored(r)
  PROVE  QuietStep
<1>1. UNCHANGED settingsVars => QuietStep
  BY DEF QuietStep
<1>2. Refuse(r) \/ Handle(r)
  BY DEF Receive
<1>3. CASE SetLabel(r)
  <2>1. SetDeviceLabel(SubSeq(r.data, 1, r.pdl))
    BY <1>3 DEF SetLabel
  <2> QED
    BY <2>1, RequestBytes DEF QuietStep
<1>4. CASE GetQueuedLabel(r) \/ GetLastLabel(r) \/ GetNothingQueued(r)
  BY <1>1, <1>4 DEF GetQueuedLabel, GetLastLabel, GetNothingQueued, Queued
<1> QED
  BY <1>1, <1>2, <1>3, <1>4 DEF Refuse, Handle, Get, SetLanguage, SetIdentifyDevice

\* Every step of the responder is one of its settings, or leaves them alone.
LEMMA QuietOrStored ==
  [RDMNext]_vars => QuietStep \/ \E r \in Requests : Receive(r) /\ SetStored(r)
<1>1. UNCHANGED settingsVars => QuietStep
  BY DEF QuietStep
<1>2. ASSUME NEW r \in Requests, Receive(r), ~SetStored(r) PROVE QuietStep
  BY <1>2, OtherRequestQuiet
<1>3. Continue \/ SwitchOn => QuietStep
  BY DEF Continue, SwitchOn, QuietStep, Internal
<1>4. Idle \/ PowerLoss => QuietStep
  BY DEF Idle, PowerLoss, QuietStep
<1>5. Acknowledge \/ UNCHANGED vars => QuietStep
  BY <1>1 DEF Acknowledge, Reply, vars
<1> QED
  BY <1>2, <1>3, <1>4, <1>5 DEF RDMNext

LEMMA RDMStep == [RDMNext]_vars => AnyStep
  BY QuietOrStored, CallSetterStep DEF AnyStep, SetStored

\* A request that passes all checks has a value its handler takes.
LEMMA AcceptedValue ==
  ASSUME NEW r, Refusal(r) = {}, Settable(r)
  PROVE  ~BadSetValue(r)
<1> DEFINE checks == Checks(r)
           failed == {k \in 1 .. 12 : checks[k].fails}
<1>1. Len(checks) = 12 /\ checks[12].fails = (Settable(r) /\ BadSetValue(r))
  BY DEF Checks, NackOrBroadcastIf
<1> HIDE DEF checks
<1>2. ASSUME NEW j \in failed, \A i \in failed : j <= i PROVE FALSE
  BY <1>1, <1>2 DEF Refusal, checks
<1>3. failed = {}
  <2>1. failed \subseteq Nat
    OBVIOUS
  <2> HIDE DEF failed
  <2> QED
    BY <1>2, <2>1, FirstOf
<1>4. ~checks[12].fails
  BY <1>3
<1> QED
  BY <1>1, <1>4

-----------------------------------------------------------------------------
(* RDMTypeInv is inductive. *)

LEMMA RDMInitTypeInv == RDMInit => RDMTypeInv
<1> SUFFICES ASSUME RDMInit PROVE RDMTypeInv
  OBVIOUS
<1>1. TypeInv
  BY InitTypeInv DEF RDMInit
<1>2. host \in HostType /\ host.owed = FALSE /\ host.queued = <<>>
  <2>1. [p \in Promisable |-> Unknown] \in [Promisable -> Seq(Byte)]
    BY DEF Unknown
  <2> QED
    BY <2>1 DEF RDMInit, NoHistory, HostType
<1>3. 0 \in 0 .. MAX_MESSAGE_COUNT
  BY RangeAssumption DEF Byte
<1>4. Len(host.queued) <= 2 /\ Len(replies) <= 2
  BY <1>2 DEF RDMInit
<1>5. TypeOK
  BY <1>1 DEF TypeInv
<1>6. RDMTypeOK
  BY <1>2, <1>3, <1>4, <1>5 DEF RDMInit, RDMTypeOK
<1>7. BusyInv
  BY DEF RDMInit, BusyInv
<1> QED
  BY <1>1, <1>2, <1>6, <1>7 DEF RDMTypeInv

LEMMA PrefaceType ==
  ASSUME NEW r
  PROVE  Preface(r) \in {<<>>, <<Status("INVALID_COMMAND")>>}
  BY DEF Preface

\* An answer follows at most one other reply.
LEMMA AnswerTypeInv ==
  ASSUME NEW r \in Requests, NEW reply, ~busy, Answer(r, reply)
  PROVE  /\ request' \in Requests \cup {NoRequest}
         /\ busy' \in BOOLEAN /\ BusyInv'
         /\ Len(replies') <= 2
<1>1. request' = r /\ busy' = FALSE /\ replies' = Append(Preface(r), reply)
  BY DEF Answer
<1>2. Len(Append(Preface(r), reply)) <= 2
  <2>1. CASE Preface(r) = <<>>
    BY <2>1
  <2>2. CASE Preface(r) = <<Status("INVALID_COMMAND")>>
    BY <2>2
  <2> QED
    BY <2>1, <2>2, PrefaceType
<1> QED
  BY <1>1, <1>2 DEF BusyInv

\* The counter stays within a byte.
LEMMA CountType ==
  ASSUME m_message_count \in 0 .. MAX_MESSAGE_COUNT
  PROVE  /\ IncrementMessageCount =>
              m_message_count' \in 0 .. MAX_MESSAGE_COUNT /\ m_message_count' > 0
         /\ DecrementMessageCount => m_message_count' \in 0 .. MAX_MESSAGE_COUNT
<1>1. MAX_MESSAGE_COUNT \in Nat /\ MAX_MESSAGE_COUNT > 0
  BY RangeAssumption DEF Byte
<1> QED
  BY <1>1 DEF IncrementMessageCount, DecrementMessageCount, AtMost

\* What the controller was told stays within its type.
LEMMA HostUpdates ==
  ASSUME host \in HostType
  PROVE  /\ \A p, value : value \in Seq(Byte) =>
              /\ Promise(p, value) \in HostType
              /\ Promise(p, value).owed = host.owed
              /\ Promise(p, value).queued = host.queued
         /\ \A value \in BOOLEAN : [host EXCEPT !.owed = value] \in HostType
  BY DEF HostType, Promise

\* The history keeps its last item and the new one.
LEMMA LastTwoItems ==
  ASSUME NEW S, NEW q \in Seq(S), Len(q) <= 2, NEW now \in S,
         NEW t, t = LastTwo(Append(q, now))
  PROVE  /\ t \in Seq(S) /\ Len(t) <= 2
         /\ t[Len(t)] = now
         /\ Len(t) = 2 => Len(q) \in 1 .. 2 /\ t[1] = q[Len(q)]
<1> DEFINE a == Append(q, now)
           n == Len(q)
<1>1. /\ a \in Seq(S) /\ Len(a) = n + 1 /\ a[n + 1] = now
      /\ \A i \in 1 .. n : a[i] = q[i]
      /\ n \in Nat /\ n <= 2
  OBVIOUS
<1>2. t = IF Len(a) > 2 THEN Tail(a) ELSE a
  BY DEF LastTwo
<1> HIDE DEF a, n
<1>3. CASE n = 2
  <2>1. Len(a) = 3
    BY <1>1, <1>3
  <2>2. t = Tail(a) /\ a # <<>>
    BY <1>2, <2>1
  <2>3. /\ t \in Seq(S) /\ Len(t) = Len(a) - 1
        /\ \A i \in 1 .. Len(t) : t[i] = a[i + 1]
    BY <1>1, <2>2, HeadTailProperties
  <2>4. Len(t) = 2
    BY <2>1, <2>3
  <2>5. t[1] = a[2] /\ t[2] = a[3]
    <3>1. 1 \in 1 .. Len(t) /\ 2 \in 1 .. Len(t)
      BY <2>4
    <3>2. t[1] = a[1 + 1] /\ t[2] = a[2 + 1]
      BY <2>3, <3>1
    <3> QED
      BY <3>2
  <2>6. a[2] = q[2] /\ a[3] = now
    BY <1>1, <1>3
  <2>7. t[Len(t)] = now /\ t[1] = q[n]
    BY <1>3, <2>4, <2>5, <2>6
  <2>8. Len(q) \in 1 .. 2 /\ t[1] = q[Len(q)]
    BY <1>3, <2>7 DEF n
  <2>9. Len(t) <= 2
    BY <2>4
  <2> QED
    BY <2>3, <2>7, <2>8, <2>9
<1>4. CASE n \in 0 .. 1
  <2>1. Len(a) <= 2
    BY <1>1, <1>4
  <2>2. t = a
    BY <1>2, <2>1
  <2> QED
    BY <1>1, <1>4, <2>1, <2>2 DEF n
<1> QED
  BY <1>1, <1>3, <1>4

\* The reply to GET QUEUED_MESSAGE and its place in the history.
LEMMA QueuedTypeInv ==
  ASSUME RDMTypeInv, NEW r \in Requests, NEW class,
         NEW p \in {"DEVICE_LABEL", "STATUS_MESSAGES"}, Queued(r, class, p)
  PROVE  /\ host' \in HostType
         /\ host'.owed = (host.owed /\ p # "DEVICE_LABEL")
         /\ Len(host'.queued) <= 2
         /\ host'.queued[Len(host'.queued)] = [status |-> r.data[1], got |-> p]
         /\ Len(host'.queued) = 2 =>
              Len(host.queued) \in 1 .. 2 /\ host'.queued[1] = host.queued[Len(host.queued)]
<1> DEFINE now == [status |-> r.data[1], got |-> p]
           Item == [status : Byte, got : {"DEVICE_LABEL", "STATUS_MESSAGES"}]
           q == host.queued
           t == LastTwo(Append(q, now))
<1>1. now \in Item
  BY RequestBytes
<1>2. host \in [promised : [Promisable -> Seq(Byte)], owed : BOOLEAN, queued : Seq(Item)]
  BY DEF RDMTypeInv, HostType
<1>3. host' = [host EXCEPT !.queued = t, !.owed = host.owed /\ p # "DEVICE_LABEL"]
  BY DEF Queued
<1> HIDE DEF now, Item
<1>4. q \in Seq(Item) /\ Len(q) <= 2
  BY <1>2 DEF RDMTypeInv, RDMTypeOK
<1>5. /\ t \in Seq(Item) /\ Len(t) <= 2 /\ t[Len(t)] = now
      /\ Len(t) = 2 => Len(q) \in 1 .. 2 /\ t[1] = q[Len(q)]
  BY <1>1, <1>4, LastTwoItems
<1> HIDE DEF t
<1>6. /\ host' \in [promised : [Promisable -> Seq(Byte)], owed : BOOLEAN, queued : Seq(Item)]
      /\ host'.queued = t
      /\ host'.owed = (host.owed /\ p # "DEVICE_LABEL")
  BY <1>2, <1>3, <1>5
<1> QED
  BY <1>5, <1>6 DEF now, Item, HostType

\* The parts of RDMTypeInv after a step.
LEMMA RDMTypeIntro ==
  ASSUME TypeInv',
         /\ m_device_label_pending' \in BOOLEAN /\ m_sent_device_label' \in BOOLEAN
         /\ m_message_count' \in 0 .. MAX_MESSAGE_COUNT
         /\ m_identify_mode_enabled' \in {0, 1},
         /\ request' \in Requests \cup {NoRequest} /\ busy' \in BOOLEAN
         /\ Len(replies') <= 2 /\ BusyInv',
         host' \in HostType, Len(host'.queued) <= 2
  PROVE  RDMTypeInv'
<1>1. host'.owed \in BOOLEAN
  BY DEF HostType
<1>2. TypeOK'
  BY DEF TypeInv
<1> QED
  BY <1>1, <1>2 DEF RDMTypeInv, RDMTypeOK, HostType

\* RDMTypeInv and what a step of the responder does to the settings.
LEMMA HandleTypeInv ==
  ASSUME RDMTypeInv, NEW r \in Requests, Receive(r), TypeInv'
  PROVE  RDMTypeInv'
<1>1. /\ m_device_label_pending \in BOOLEAN /\ m_sent_device_label \in BOOLEAN
      /\ m_message_count \in 0 .. MAX_MESSAGE_COUNT
      /\ m_identify_mode_enabled \in {0, 1}
      /\ host \in HostType /\ Len(host.queued) <= 2
  BY DEF RDMTypeInv, RDMTypeOK
<1>2. ~busy /\ Ready
  BY DEF Receive, Waiting
<1>3. ASSUME NEW reply, Answer(r, reply), UNCHANGED <<flags, host>>
      PROVE  RDMTypeInv'
  BY <1>1, <1>2, <1>3, AnswerTypeInv, RDMTypeIntro DEF flags, queueVars
<1>4. ASSUME Queued(r, "SET_RESPONSE", "DEVICE_LABEL")
             \/ Queued(r, "GET_RESPONSE", "STATUS_MESSAGES"),
             m_device_label_pending' \in BOOLEAN, m_sent_device_label' \in BOOLEAN,
             m_message_count' \in 0 .. MAX_MESSAGE_COUNT
      PROVE  RDMTypeInv'
  <2>1. host' \in HostType /\ Len(host'.queued) <= 2
    BY <1>4, QueuedTypeInv
  <2>2. \E reply : Answer(r, reply)
    BY <1>4 DEF Queued
  <2>3. m_identify_mode_enabled' \in {0, 1}
    BY <1>1, <1>4 DEF Queued
  <2> QED
    BY <1>2, <1>4, <2>1, <2>2, <2>3, AnswerTypeInv, RDMTypeIntro
<1>5. CASE Refuse(r)
  BY <1>3, <1>5 DEF Refuse
<1>6. CASE Get(r) \/ SetLanguage(r)
  BY <1>3, <1>6 DEF Get, SetLanguage
<1>7. CASE GetQueuedLabel(r)
  BY <1>1, <1>4, <1>7, CountType DEF GetQueuedLabel
<1>8. CASE GetLastLabel(r) \/ GetNothingQueued(r)
  BY <1>1, <1>4, <1>8 DEF GetLastLabel, GetNothingQueued, queueVars
<1>9. CASE Refusal(r) = {} /\ SetIdentifyDevice(r)
  <2>1. m_identify_mode_enabled' \in {0, 1}
    <3>1. Settable(r) /\ r.pid = "IDENTIFY_DEVICE" /\ m_identify_mode_enabled' = r.data[1]
      BY <1>9 DEF SetIdentifyDevice
    <3>2. ~BadSetValue(r)
      BY <1>9, <3>1, AcceptedValue
    <3> QED
      BY <3>1, <3>2 DEF BadSetValue
  <2>2. host' \in HostType /\ host'.queued = host.queued
    <3>1. Unknown \in Seq(Byte) /\ SubSeq(r.data, 1, 1) \in Seq(Byte)
      BY RequestBytes DEF Unknown
    <3> QED
      BY <1>1, <1>9, <3>1, HostUpdates DEF SetIdentifyDevice
  <2>3. UNCHANGED queueVars
    BY <1>9 DEF SetIdentifyDevice
  <2>4. Answer(r, AckOrBroadcast(r))
    BY <1>9 DEF SetIdentifyDevice
  <2> QED
    BY <1>1, <1>2, <2>1, <2>2, <2>3, <2>4, AnswerTypeInv, RDMTypeIntro DEF queueVars
<1>10. CASE SetLabel(r)
  <2>1. /\ m_device_label_pending' \in BOOLEAN /\ m_sent_device_label' \in BOOLEAN
        /\ m_message_count' \in 0 .. MAX_MESSAGE_COUNT
        /\ m_identify_mode_enabled' \in {0, 1}
    BY <1>1, <1>10, CountType DEF SetLabel, queueVars
  <2>2. host' \in HostType /\ host'.queued = host.queued
    <3>1. host' = host \/ host' = [host EXCEPT !.owed = TRUE]
      BY <1>10 DEF SetLabel
    <3>2. [host EXCEPT !.owed = TRUE] \in HostType
      BY <1>1, HostUpdates
    <3>3. [host EXCEPT !.owed = TRUE].queued = host.queued
      BY <1>1 DEF HostType
    <3> QED
      BY <1>1, <3>1, <3>2, <3>3
  <2>3. \E reply : Answer(r, reply)
    BY <1>10 DEF SetLabel
  <2> QED
    BY <1>1, <1>2, <2>1, <2>2, <2>3, AnswerTypeInv, RDMTypeIntro
<1>11. CASE SetStored(r)
  <2>1. /\ request' = r /\ busy' = TRUE /\ replies' = Preface(r)
        /\ host' = Promise(r.pid, Unknown) /\ UNCHANGED flags
        /\ r.pid \in StoredPids /\ phase' = "run" /\ Settable(r)
    <3>1. CallSetter(r) => phase' = phase
      BY DEF CallSetter, SetPersonality, SetStartAddress, SaveSensorValue,
         SetDevicePowerCycles, SetSerialNumber, Call
    <3> QED
      BY <1>2, <1>11, <3>1, CallSetterStep DEF SetStored, Ready
  <2>2. host' \in HostType /\ host'.queued = host.queued
    <3>1. Unknown \in Seq(Byte)
      BY DEF Unknown
    <3> QED
      BY <1>1, <2>1, <3>1, HostUpdates
  <2>3. BusyInv'
    BY <2>1, PrefaceType DEF BusyInv, Status, Settable, Known, PID_DEFINITIONS, Pid
  <2>4. Len(replies') <= 2
    <3>1. Len(<<>>) <= 2 /\ Len(<<Status("INVALID_COMMAND")>>) <= 2
      OBVIOUS
    <3> QED
      BY <2>1, <3>1, PrefaceType
  <2> QED
    BY <1>1, <2>1, <2>2, <2>3, <2>4, RDMTypeIntro DEF flags, queueVars
<1> QED
  BY <1>5, <1>6, <1>7, <1>8, <1>9, <1>10, <1>11 DEF Receive, Handle

LEMMA StepRDMTypeInv == RDMTypeInv /\ [RDMNext]_vars => RDMTypeInv'
<1> SUFFICES ASSUME RDMTypeInv, [RDMNext]_vars PROVE RDMTypeInv'
  OBVIOUS
<1>1. TypeInv'
  BY RDMStep, StepTypeInv DEF RDMTypeInv
<1>2. /\ m_device_label_pending \in BOOLEAN /\ m_sent_device_label \in BOOLEAN
      /\ m_message_count \in 0 .. MAX_MESSAGE_COUNT
      /\ m_identify_mode_enabled \in {0, 1}
      /\ request \in Requests \cup {NoRequest} /\ busy \in BOOLEAN
      /\ host \in HostType /\ Len(host.queued) <= 2
      /\ Len(replies) <= 2 /\ BusyInv
  BY DEF RDMTypeInv, RDMTypeOK
<1>3. ASSUME UNCHANGED <<m_sent_device_label, m_message_count, m_identify_mode_enabled,
                         request, busy, replies, host>>,
             m_device_label_pending' \in BOOLEAN, busy => phase' = phase
      PROVE  RDMTypeInv'
  <2>1. BusyInv'
    BY <1>2, <1>3 DEF BusyInv, Status
  <2> QED
    BY <1>1, <1>2, <1>3, <2>1, RDMTypeIntro
<1>4. CASE SwitchOn
  <2>1. ~busy
    BY <1>2, <1>4 DEF SwitchOn, SettingsInit, Boot, BusyInv
  <2> QED
    BY <1>2, <1>3, <1>4, <2>1 DEF SwitchOn, flags, queueVars
<1>5. CASE Continue
  <2>1. m_device_label_pending' \in BOOLEAN
    BY <1>2, <1>5 DEF Continue
  <2>2. busy => phase' = phase
    BY <1>2, <1>5 DEF Continue, Return, IncrementDevicePowerCycles, WriteByte, BusyInv
  <2> QED
    BY <1>3, <1>5, <2>1, <2>2 DEF Continue
<1>6. CASE Acknowledge
  <2>1. busy /\ Reply
    BY <1>6 DEF Acknowledge
  <2>2. replies \in {<<>>, <<Status("INVALID_COMMAND")>>} /\ request \in Requests
    BY <1>2, <2>1 DEF BusyInv
  <2>3. PICK reply : replies' = Append(replies, reply)
    BY <2>1 DEF Reply
  <2>4. Len(replies') <= 2
    <3>1. CASE replies = <<>>
      BY <2>3, <3>1
    <3>2. CASE replies = <<Status("INVALID_COMMAND")>>
      BY <2>3, <3>2
    <3> QED
      BY <2>2, <3>1, <3>2
  <2>5. BusyInv' /\ busy' = FALSE
    BY <2>1 DEF Reply, BusyInv
  <2>6. host' \in HostType /\ host'.queued = host.queued
    <3>1. SubSeq(request.data, 1, SetSize[request.pid]) \in Seq(Byte)
      <4>1. SetSize[request.pid] \in 0 .. 4
        BY <1>2, <2>1 DEF BusyInv, StoredPids, SetSize
      <4> QED
        BY <2>2, <4>1, RequestBytes
    <3> QED
      BY <1>2, <2>1, <3>1, HostUpdates DEF Reply
  <2> QED
    BY <1>1, <1>2, <2>1, <2>4, <2>5, <2>6, RDMTypeIntro DEF Reply, flags, queueVars
<1>7. CASE Idle
  <2>1. UNCHANGED <<flags, request, busy, replies, host, phase>>
    BY <1>7 DEF Idle, PerformWrite, Call
  <2> QED
    BY <1>2, <1>3, <2>1 DEF flags, queueVars
<1>8. CASE PowerLoss
  <2>1. /\ m_device_label_pending' = FALSE /\ m_sent_device_label' = FALSE
        /\ m_message_count' = 0 /\ m_identify_mode_enabled' = 0
        /\ request' = NoRequest /\ busy' = FALSE /\ replies' = <<>>
        /\ host' = [NoHistory EXCEPT
                      !.promised = [host.promised EXCEPT !["IDENTIFY_DEVICE"] = Unknown]]
    BY <1>8 DEF PowerLoss
  <2>2. host' \in HostType /\ host'.queued = <<>>
    <3> DEFINE kept == [host.promised EXCEPT !["IDENTIFY_DEVICE"] = Unknown]
    <3>1. kept \in [Promisable -> Seq(Byte)]
      <4>1. Unknown \in Seq(Byte)
        BY DEF Unknown
      <4> QED
        BY <1>2, <4>1 DEF HostType
    <3>2. NoHistory \in HostType /\ NoHistory.queued = <<>>
      <4>1. [p \in Promisable |-> Unknown] \in [Promisable -> Seq(Byte)]
        BY DEF Unknown
      <4> QED
        BY <4>1 DEF NoHistory, HostType
    <3>3. host' = [NoHistory EXCEPT !.promised = kept]
      BY <2>1
    <3> HIDE DEF kept
    <3> QED
      BY <3>1, <3>2, <3>3 DEF HostType
  <2>3. 0 \in 0 .. MAX_MESSAGE_COUNT
    BY RangeAssumption DEF Byte
  <2>4. Len(host'.queued) <= 2 /\ Len(replies') <= 2
    BY <2>1, <2>2
  <2>5. BusyInv'
    BY <2>1 DEF BusyInv
  <2> QED
    BY <1>1, <2>1, <2>2, <2>3, <2>4, <2>5, RDMTypeIntro
<1>9. CASE \E r \in Requests : Receive(r)
  BY <1>1, <1>9, HandleTypeInv
<1>10. CASE UNCHANGED vars
  BY <1>2, <1>3, <1>10 DEF vars, flags, queueVars, settingsVars, control
<1> QED
  BY <1>4, <1>5, <1>6, <1>7, <1>8, <1>9, <1>10 DEF RDMNext

\* Whatever requests arrive and wherever power fails: the settings keep the
\* types of SettingsTypeCorrect, the message count stays in its byte, a request
\* is answered with at most one reply after the complaint about its class, and
\* a SET IDENTIFY_DEVICE lets only 0 and 1 through.
THEOREM ResponderTypeCorrect == RDMSpec => []RDMTypeOK
<1>1. RDMTypeInv => RDMTypeOK
  BY DEF RDMTypeInv
<1> QED
  BY RDMInitTypeInv, StepRDMTypeInv, <1>1, PTL DEF RDMSpec

-----------------------------------------------------------------------------
(* The message queue.  RetransmitSafe speaks of the last two answers to GET  *)
(* QUEUED_MESSAGE; m_sent_device_label has to remember the first of them.    *)

LastGotLabel ==
  LET q == host.queued
  IN  Len(q) # 0 /\ q[Len(q)].got = "DEVICE_LABEL" => m_sent_device_label

QueueInv == OwedIsAnnounced /\ LastGotLabel /\ RetransmitSafe

\* A step that queues or loses nothing, and no GET QUEUED_MESSAGE.
LEMMA QueueUnchanged ==
  ASSUME QueueInv, host'.owed = host.owed, host'.queued = host.queued,
         m_device_label_pending => m_device_label_pending',
         UNCHANGED <<m_message_count, m_sent_device_label>>
  PROVE  QueueInv'
  BY DEF QueueInv, OwedIsAnnounced, LastGotLabel, RetransmitSafe

LEMMA StepQueueInv == RDMTypeInv /\ QueueInv /\ [RDMNext]_vars => QueueInv'
<1> SUFFICES ASSUME RDMTypeInv, QueueInv, [RDMNext]_vars PROVE QueueInv'
  OBVIOUS
<1>1. /\ m_message_count \in 0 .. MAX_MESSAGE_COUNT /\ host \in HostType
      /\ busy => request \in Requests /\ request.pid \in StoredPids
  BY DEF RDMTypeInv, RDMTypeOK, BusyInv
<1>2. ASSUME NEW r \in Requests, NEW class,
             NEW p \in {"DEVICE_LABEL", "STATUS_MESSAGES"}, Queued(r, class, p),
             p = "DEVICE_LABEL" => m_sent_device_label',
             p = "STATUS_MESSAGES" => ~m_device_label_pending /\ ~LastIsLabel(r)
      PROVE  QueueInv'
  <2> DEFINE q == host.queued
             t == host'.queued
  <2>1. /\ host'.owed = (host.owed /\ p # "DEVICE_LABEL")
        /\ t[Len(t)] = [status |-> r.data[1], got |-> p]
        /\ Len(t) = 2 => Len(q) \in 1 .. 2 /\ t[1] = q[Len(q)]
    BY <1>2, QueuedTypeInv
  <2> HIDE DEF q, t
  <2>2. ~host'.owed
    BY <1>2, <2>1 DEF QueueInv, OwedIsAnnounced
  <2>3. t[Len(t)].got = p /\ t[Len(t)].status = r.data[1]
    BY <2>1
  <2>4. LastGotLabel'
    BY <1>2, <2>3 DEF LastGotLabel, t
  <2>5. RetransmitSafe'
    <3>1. ASSUME Len(t) = 2, t[1].got = "DEVICE_LABEL", p = "STATUS_MESSAGES"
          PROVE  r.data[1] # STATUS_GET_LAST_MESSAGE
      <4>1. Len(q) # 0 /\ q[Len(q)].got = "DEVICE_LABEL"
        BY <2>1, <3>1
      <4>2. m_sent_device_label
        BY <4>1 DEF QueueInv, LastGotLabel, q
      <4> QED
        BY <1>2, <3>1, <4>2 DEF LastIsLabel
    <3>2. Len(t) = 2 => t[2].got = p /\ t[2].status = r.data[1]
      BY <2>3
    <3> QED
      BY <1>2, <3>1, <3>2 DEF RetransmitSafe, t
  <2> QED
    BY <2>2, <2>4, <2>5 DEF QueueInv, OwedIsAnnounced
<1>3. ASSUME NEW p, NEW value \in Seq(Byte), host' = Promise(p, value),
             UNCHANGED queueVars
      PROVE  QueueInv'
  BY <1>1, <1>3, HostUpdates, QueueUnchanged DEF queueVars
<1>4. ASSUME UNCHANGED <<host, m_message_count, m_sent_device_label>>,
             m_device_label_pending => m_device_label_pending'
      PROVE  QueueInv'
  BY <1>4, QueueUnchanged
<1>5. ASSUME NEW r \in Requests, Receive(r) PROVE QueueInv'
  <2>0. Unknown \in Seq(Byte)
    BY DEF Unknown
  <2>1. CASE Refuse(r) \/ Get(r) \/ SetLanguage(r)
    BY <1>4, <2>1 DEF Refuse, Get, SetLanguage, flags, queueVars
  <2>2. CASE GetQueuedLabel(r)
    BY <1>2, <2>2 DEF GetQueuedLabel
  <2>3. CASE GetLastLabel(r)
    BY <1>2, <2>3 DEF GetLastLabel, LastIsLabel, queueVars
  <2>4. CASE GetNothingQueued(r)
    BY <1>2, <2>4 DEF GetNothingQueued
  <2>5. CASE SetIdentifyDevice(r)
    <3>1. SubSeq(r.data, 1, 1) \in Seq(Byte)
      BY RequestBytes
    <3>2. /\ UNCHANGED queueVars
          /\ host' = Promise(r.pid, Unknown) \/ host' = Promise(r.pid, SubSeq(r.data, 1, 1))
      BY <2>5 DEF SetIdentifyDevice
    <3> QED
      BY <1>3, <2>0, <3>1, <3>2
  <2>6. CASE SetLabel(r)
    <3>1. CASE UNCHANGED <<queueVars, host>>
      BY <1>4, <3>1 DEF queueVars
    <3>2. CASE /\ m_device_label_pending' = TRUE /\ IncrementMessageCount
               /\ host' = [host EXCEPT !.owed = TRUE] /\ UNCHANGED m_sent_device_label
      <4>1. m_message_count' > 0
        BY <1>1, <3>2, CountType
      <4>2. host'.queued = host.queued
        BY <1>1, <3>2 DEF HostType
      <4>3. OwedIsAnnounced'
        BY <3>2, <4>1 DEF OwedIsAnnounced
      <4>4. LastGotLabel' /\ RetransmitSafe'
        BY <3>2, <4>2 DEF QueueInv, LastGotLabel, RetransmitSafe
      <4> QED
        BY <4>3, <4>4 DEF QueueInv
    <3> QED
      BY <2>6, <3>1, <3>2 DEF SetLabel
  <2>7. CASE SetStored(r)
    BY <1>3, <2>0, <2>7 DEF SetStored, flags
  <2> QED
    BY <1>5, <2>1, <2>2, <2>3, <2>4, <2>5, <2>6, <2>7 DEF Receive, Handle
<1>6. CASE Acknowledge
  <2>1. SubSeq(request.data, 1, SetSize[request.pid]) \in Seq(Byte)
    <3>1. SetSize[request.pid] \in 0 .. 4 /\ request \in Requests
      BY <1>1, <1>6 DEF Acknowledge, StoredPids, SetSize
    <3> QED
      BY <3>1, RequestBytes
  <2>2. UNCHANGED queueVars
    BY <1>6 DEF Acknowledge, Reply, flags
  <2>3. \/ host' = host
        \/ host' = Promise(request.pid, SubSeq(request.data, 1, SetSize[request.pid]))
    BY <1>6 DEF Acknowledge, Reply
  <2> QED
    BY <1>3, <1>4, <2>1, <2>2, <2>3 DEF queueVars
<1>7. CASE PowerLoss
  <2>1. host'.owed = FALSE /\ host'.queued = <<>>
    BY <1>7 DEF PowerLoss, NoHistory
  <2>2. Len(host'.queued) = 0
    BY <2>1
  <2>3. OwedIsAnnounced'
    BY <2>1 DEF OwedIsAnnounced
  <2>4. LastGotLabel'
    BY <2>2 DEF LastGotLabel
  <2>5. RetransmitSafe'
    BY <2>2 DEF RetransmitSafe
  <2> QED
    BY <2>3, <2>4, <2>5 DEF QueueInv
<1>8. CASE Continue
  <2>1. m_device_label_pending => m_device_label_pending'
    BY <1>8, Zenon DEF Continue
  <2> QED
    BY <1>4, <1>8, <2>1 DEF Continue
<1>9. CASE SwitchOn \/ Idle \/ UNCHANGED vars
  BY <1>4, <1>9 DEF SwitchOn, Idle, vars, flags, queueVars
<1> QED
  BY <1>5, <1>6, <1>7, <1>8, <1>9 DEF RDMNext

LEMMA RDMInitQueueInv == RDMInit => QueueInv
<1> SUFFICES ASSUME RDMInit PROVE QueueInv
  OBVIOUS
<1>1. host.owed = FALSE /\ host.queued = <<>>
  BY DEF RDMInit, NoHistory
<1> QED
  BY <1>1 DEF QueueInv, OwedIsAnnounced, LastGotLabel, RetransmitSafe

\* The response a controller was told to come back for is queued and announced
\* until it is fetched, whatever other requests, idle writes and message counts
\* come in between.
THEOREM QueueKeepsItsPromise == RDMSpec => []OwedIsAnnounced
<1>1. QueueInv => OwedIsAnnounced
  BY DEF QueueInv
<1> QED
  BY RDMInitTypeInv, StepRDMTypeInv, RDMInitQueueInv, StepQueueInv, <1>1, PTL DEF RDMSpec

\* A lost response can be asked for again, as often as need be.
THEOREM LastMessageRepeats == RDMSpec => []RetransmitSafe
<1>1. QueueInv => RetransmitSafe
  BY DEF QueueInv
<1> QED
  BY RDMInitTypeInv, StepRDMTypeInv, RDMInitQueueInv, StepQueueInv, <1>1, PTL DEF RDMSpec

===============================================================================
