---------------------------- MODULE FirmwareProofs -----------------------------
(***************************************************************************)
(* Theorems about the whole firmware: what the lights show and whom the    *)
(* reported UID reaches, for any messages of the host, any requests, any   *)
(* contents of the message buffer at power-on and any number of starts.    *)
(***************************************************************************)
EXTENDS Firmware, RepliesProofs

-----------------------------------------------------------------------------
(* The inductive invariant. *)

\* LightsShowSlots at the address and the personality in RAM, also between the
\* bytes of a write.  SetPWM reaches no output at the address 0.
LightsInv ==
  phase = "run" /\ m_start_address # 0 =>
    \A i \in Outputs :
      LET slot == m_start_address + i
      IN  slot \in Slots /\ shown[slot] # NoLevel => pwm[i] = Level(i, shown[slot])

\* Before the address or the personality changes in RAM, the history is void.
ShownInv ==
  phase = "run" /\ ~(Settled("start_address") /\ Settled("personality"))
    => shown = NothingShown

\* The last function before the main loop changes neither.
CountInv ==
  phase = "count" => \A k \in 1 .. Len(todo) : todo[k].field = "power_cycles"

\* The parts of the UID, once told, are what is stored for good.
PartTold(part, f) == part # Unknown => Configured /\ Settled(f) /\ part = FieldBytes(f)

UidInv == PartTold(uid.esta, "esta_id") /\ PartTold(uid.serial, "serial_number")

\* A start address and a personality the lights can be set with.
UsableBytes(f, bytes) ==
  /\ f = "start_address" => IntOf(bytes) # 0
  /\ f = "personality" => bytes[1] \in 1 .. 3

\* If every write is carried out, a device that is set up holds such values, or
\* is writing them.
UsableInv ==
  ~TornWrites =>
    /\ \A k \in 1 .. Len(todo) : UsableBytes(todo[k].field, todo[k].bytes)
    /\ \A f \in Cached :
         /\ Configured /\ Settled(f) => UsableBytes(f, FieldBytes(f))
         /\ ~Configured /\ phase # "off" => ~Settled(f)

\* FirmwareTypeOK without the settings.
LevelsType ==
  /\ message \in [0 .. BUFFER_PREFIX - 1 -> Byte]
  /\ pwm \in [Outputs -> Byte \cup {NoLevel}]
  /\ phase = "run" => \A i \in Outputs : pwm[i] \in Byte
  /\ shown \in [Slots -> Byte \cup {NoLevel}]

\* The history of the UID is a record.
UidType == uid = [esta |-> uid.esta, serial |-> uid.serial]

SettingsInv == StoreInv /\ SetUpInv
LevelsInv == LevelsType /\ LightsInv /\ ShownInv /\ CountInv

-----------------------------------------------------------------------------
(* The settings in the steps of the firmware. *)

\* As for the responder alone, a step is quiet or calls a setter.
LEMMA FirmwareStep ==
  [FirmwareNext]_firmwareVars
    => QuietStep \/ \E r \in Requests : RDM(r) /\ SetStored(r)
<1>1. UNCHANGED settingsVars => QuietStep
  BY DEF QuietStep
<1>2. ASSUME NEW m, TakeAction(m) PROVE QuietStep
  BY <1>1, <1>2 DEF TakeAction
<1>3. PowerOn \/ Run => QuietStep
  BY DEF PowerOn, Run, SwitchOn, Continue, Internal, QuietStep
<1>4. Quiet \/ PowerFails => QuietStep
  BY <1>1 DEF Quiet, PowerFails, Acknowledge, Reply, Idle, PowerLoss, QuietStep
<1>5. ASSUME NEW r \in Requests, RDM(r), ~SetStored(r) PROVE QuietStep
  BY <1>5, OtherRequestQuiet DEF RDM
<1>6. UNCHANGED firmwareVars => QuietStep
  BY <1>1 DEF firmwareVars, rdmVars
<1> QED
  BY <1>2, <1>3, <1>4, <1>5, <1>6 DEF FirmwareNext

LEMMA FirmwareAnyStep == [FirmwareNext]_firmwareVars => AnyStep
  BY FirmwareStep, CallSetterStep DEF AnyStep, SetStored

LEMMA StepSettingsInv == SettingsInv /\ [FirmwareNext]_firmwareVars => SettingsInv'
  BY FirmwareAnyStep, StepStoreInv, StepSetUpInv DEF SettingsInv

\* The handler that calls a setter was given a value it takes.
LEMMA TakenValue ==
  ASSUME NEW r \in Requests, RDM(r), SetStored(r)
  PROVE  ~BadSetValue(r) /\ CallSetter(r) /\ busy'
<1>1. Receive(r) /\ Settable(r) /\ CallSetter(r) /\ busy'
  BY DEF RDM, SetStored
<1>2. ~Refuse(r)
  <2>1. ~busy
    BY <1>1 DEF Receive, Waiting
  <2>2. Refuse(r) => UNCHANGED busy
    BY DEF Refuse, Answer
  <2> QED
    BY <1>1, <2>1, <2>2
<1>3. Refusal(r) = {}
  BY <1>1, <1>2 DEF Receive
<1> QED
  BY <1>1, <1>3, AcceptedValue

-----------------------------------------------------------------------------
(* The UID. *)

\* What is told stays true, for no step writes it.
LEMMA QuietTold ==
  ASSUME SettingsInv, NEW part, NEW f \in PromisedFields, PartTold(part, f), QuietStep
  PROVE  part # Unknown => Configured' /\ Settled(f)' /\ part = FieldBytes(f)'
<1> SUFFICES ASSUME part # Unknown
             PROVE  Configured' /\ Settled(f)' /\ part = FieldBytes(f)'
  OBVIOUS
<1>1. Configured /\ Settled(f) /\ part = FieldBytes(f) /\ StoreInv
  BY DEF PartTold, SettingsInv
<1>2. Configured'
  BY <1>1, StepConfigured DEF StoreInv, AnyStep
<1> QED
  BY <1>1, <1>2, QuietKeeps

\* The host finds between header and footer what was sent.
LEMMA ToldData ==
  ASSUME NEW label \in Byte, NEW n \in Word, NEW data, IsBytes(data, n)
  PROVE  Told(Widget(label, n, data)) = data
<1>1. PICK frame : frame = SendMessageHeader(label, n) \o data \o SendMessageFooter
  OBVIOUS
<1>2. FrameOf(frame, data, n)
  BY <1>1, FrameBytes
<1>3. IsBytes(frame, n + 5) /\ \A i \in 1 .. n : frame[4 + i] = data[i]
  BY <1>2 DEF FrameOf
<1>4. n \in Nat /\ frame \in Seq(Byte) /\ Len(frame) = n + 5
  BY <1>3 DEF IsBytes, Word
<1>5. PICK t : t = SubSeq(frame, 5, 5 + n - 1)
  OBVIOUS
<1>6. IsBytes(t, n) /\ \A i \in 1 .. n : t[i] = frame[5 + i - 1]
  <2>1. 5 \in Nat \ {0} /\ 5 + n <= Len(frame) + 1
    BY <1>4
  <2> QED
    BY <1>4, <1>5, <2>1, SomeBytes
<1>7. \A i \in 1 .. n : t[i] = data[i]
  <2> SUFFICES ASSUME NEW i \in 1 .. n PROVE t[i] = data[i]
    OBVIOUS
  <2>1. 5 + i - 1 = 4 + i
    BY <1>4
  <2> QED
    BY <1>3, <1>6, <2>1
<1>8. t = data
  BY <1>4, <1>6, <1>7, SeqEqual DEF IsBytes
<1>9. 5 + n - 1 = Len(frame) - 1
  BY <1>4
<1>10. Widget(label, n, data).frame = frame
  BY <1>1 DEF Widget
<1> QED
  BY <1>5, <1>8, <1>9, <1>10 DEF Told

\* The host and the processor reverse the same bytes.
LEMMA BackwardsBytes ==
  ASSUME NEW x, NEW n, IsBytes(x, n)
  PROVE  IsBytes(Backwards(x), n) /\ Backwards(Backwards(x)) = x
<1>1. n \in Nat /\ x \in Seq(Byte) /\ Len(x) = n
  BY DEF IsBytes
<1>2. PICK y : y = Backwards(x)
  OBVIOUS
<1>3. y = [k \in 1 .. n |-> x[n + 1 - k]]
  BY <1>1, <1>2 DEF Backwards
<1>4. \A k \in 1 .. n : n + 1 - k \in 1 .. n /\ x[n + 1 - k] \in Byte
  BY <1>1
<1>5. y \in Seq(Byte) /\ Len(y) = n /\ \A k \in 1 .. n : y[k] = x[n + 1 - k]
  BY <1>1, <1>3, <1>4
<1>6. PICK z : z = Backwards(y)
  OBVIOUS
<1>7. z = [k \in 1 .. n |-> y[n + 1 - k]]
  BY <1>5, <1>6 DEF Backwards
<1>8. z \in Seq(Byte) /\ Len(z) = n /\ \A k \in 1 .. n : z[k] = y[n + 1 - k]
  <2>1. \A k \in 1 .. n : y[n + 1 - k] \in Byte
    BY <1>4, <1>5
  <2> QED
    BY <1>1, <1>7, <2>1
<1>9. \A k \in 1 .. n : z[k] = x[k]
  <2> SUFFICES ASSUME NEW k \in 1 .. n PROVE z[k] = x[k]
    OBVIOUS
  <2>1. n + 1 - k \in 1 .. n /\ n + 1 - (n + 1 - k) = k
    BY <1>1
  <2> QED
    BY <1>5, <1>8, <2>1
<1>10. z = x
  BY <1>1, <1>8, <1>9, SeqEqual
<1>11. IsBytes(y, n)
  BY <1>1, <1>5 DEF IsBytes
<1> QED
  BY <1>2, <1>6, <1>10, <1>11

\* SendSerialNumberResponse sends the serial number as the processor holds it,
\* the host turns it round.
LEMMA SerialTold ==
  ASSUME TypeOK
  PROVE  Backwards(Told(SendSerialNumberResponse)) = FieldBytes("serial_number")
<1>1. PICK d : d = FieldBytes("serial_number")
  OBVIOUS
<1>2. IsBytes(d, 4)
  <2>1. "serial_number" \in Field /\ Width["serial_number"] = 4
    BY DEF Field, Width
  <2> QED
    BY <1>1, <2>1, FieldIsBytes
<1>3. PICK data : data = Backwards(d)
  OBVIOUS
<1>4. IsBytes(data, 4) /\ Backwards(data) = d
  BY <1>2, <1>3, BackwardsBytes
<1>5. SendSerialNumberResponse = Widget(SERIAL_NUMBER_LABEL, 4, data)
  <2>1. LongBytes(SerialNumber) = d
    BY <1>1, SentAsStored
  <2> QED
    BY <1>3, <2>1 DEF SendSerialNumberResponse
<1>6. SERIAL_NUMBER_LABEL \in Byte /\ 4 \in Word
  BY DEF SERIAL_NUMBER_LABEL, Byte, Word
<1>7. Told(SendSerialNumberResponse) = data
  BY <1>4, <1>5, <1>6, ToldData
<1> QED
  BY <1>1, <1>4, <1>7

\* SendManufacturerResponse sends its id low byte first.
LEMMA EstaTold ==
  ASSUME TypeOK
  PROVE  Backwards(SubSeq(Told(SendManufacturerResponse), 1, 2)) = FieldBytes("esta_id")
<1>1. PICK d : d = FieldBytes("esta_id")
  OBVIOUS
<1>2. IsBytes(d, 2)
  <2>1. "esta_id" \in Field /\ Width["esta_id"] = 2
    BY DEF Field, Width
  <2> QED
    BY <1>1, <2>1, FieldIsBytes
<1>3. d \in Seq(Byte) /\ Len(d) = 2 /\ d[1] \in Byte /\ d[2] \in Byte
  BY <1>2 DEF IsBytes
<1>4. EstaId \div 256 = d[1] /\ EstaId % 256 = d[2]
  <2>1. EstaId = d[1] * 256 + d[2]
    BY <1>1 DEF EstaId, IntOf
  <2> QED
    BY <1>3, <2>1, IntRoundTrip
<1>5. PICK low : low = <<d[2], d[1]>>
  OBVIOUS
<1>6. IsBytes(low, 2) /\ low[1] = d[2] /\ low[2] = d[1]
  BY <1>3, <1>5, ByteLists
<1>7. Backwards(low) = d
  <2>1. PICK y : y = Backwards(low)
    OBVIOUS
  <2>2. low \in Seq(Byte) /\ Len(low) = 2
    BY <1>6 DEF IsBytes
  <2>3. y = [k \in 1 .. 2 |-> low[2 + 1 - k]]
    BY <2>1, <2>2 DEF Backwards
  <2>4. y \in Seq(Byte) /\ Len(y) = 2
    BY <1>6, <2>1, BackwardsBytes DEF IsBytes
  <2>5. y[1] = d[1] /\ y[2] = d[2]
    BY <1>6, <2>3
  <2>6. \A k \in 1 .. Len(y) : y[k] = d[k]
    BY <2>4, <2>5
  <2> QED
    BY <1>3, <2>1, <2>4, <2>6, SeqEqual
<1>8. PICK data : data = low \o MANUFACTURER_NAME
  OBVIOUS
<1>9. PICK m : IsBytes(MANUFACTURER_NAME, m) /\ Len(MANUFACTURER_NAME) = m /\ 2 + m \in Word
  <2>1. IsBytes(MANUFACTURER_NAME, 14)
    BY Texts
  <2>2. Len(MANUFACTURER_NAME) = 14 /\ 2 + 14 \in Word
    BY <2>1 DEF IsBytes, Word
  <2> QED
    BY <2>1, <2>2
<1>10. Parts(data, low, 2, MANUFACTURER_NAME, m)
  BY <1>6, <1>8, <1>9, JoinedBytes
<1>11. IsBytes(data, 2 + m) /\ data[1] = low[1] /\ data[2] = low[2]
  BY <1>10 DEF Parts
<1>12. SendManufacturerResponse = Widget(MANUFACTURER_LABEL, 2 + m, data)
  BY <1>4, <1>5, <1>8, <1>9 DEF SendManufacturerResponse
<1>13. MANUFACTURER_LABEL \in Byte
  BY DEF MANUFACTURER_LABEL, Byte
<1>14. Told(SendManufacturerResponse) = data
  BY <1>9, <1>11, <1>12, <1>13, ToldData
<1>15. SubSeq(data, 1, 2) = low
  <2>1. PICK t : t = SubSeq(data, 1, 1 + 2 - 1)
    OBVIOUS
  <2>2. m \in Nat /\ data \in Seq(Byte) /\ Len(data) = 2 + m
    BY <1>9, <1>11 DEF IsBytes
  <2>3. IsBytes(t, 2) /\ \A k \in 1 .. 2 : t[k] = data[1 + k - 1]
    <3>1. 1 \in Nat \ {0} /\ 1 + 2 <= Len(data) + 1
      BY <2>2
    <3> QED
      BY <2>1, <2>2, <3>1, SomeBytes
  <2>4. t[1] = low[1] /\ t[2] = low[2]
    BY <1>11, <2>3
  <2>5. t \in Seq(Byte) /\ Len(t) = 2 /\ low \in Seq(Byte) /\ Len(low) = 2
    BY <1>6, <2>3 DEF IsBytes
  <2>6. \A k \in 1 .. Len(t) : t[k] = low[k]
    BY <2>4, <2>5
  <2>7. t = low
    BY <2>5, <2>6, SeqEqual
  <2>8. 1 + 2 - 1 = 2
    OBVIOUS
  <2> QED
    BY <2>1, <2>7, <2>8
<1> QED
  BY <1>1, <1>7, <1>14, <1>15

\* A setter leaves alone what was told, but for the serial number it sets.
LEMMA SetterTold ==
  ASSUME NEW r \in Requests, RDM(r), SetStored(r), NEW part, NEW f \in PromisedFields,
         PartTold(part, f), r.pid \in Lasting => FieldOf[r.pid] # f
  PROVE  part # Unknown => Configured' /\ Settled(f)' /\ part = FieldBytes(f)'
<1>1. CallSetter(r)
  BY TakenValue
<1>2. PICK w : /\ todo' = <<w>>
               /\ r.pid \in Lasting => w = Write(FieldOf[r.pid], Asked(r))
               /\ r.pid \notin Lasting => w.field \notin PromisedFields
  BY <1>1, SetterWrites
<1>3. UNCHANGED eeprom
  BY <1>1, SetterWrites
<1>4. w.field # f
  BY <1>2 DEF Write
<1>5. Settled(f)'
  BY <1>2, <1>4 DEF Settled
<1>6. FieldBytes(f)' = FieldBytes(f) /\ FieldBytes("magic")' = FieldBytes("magic")
  BY <1>3, FieldBytesUnchanged
<1>7. Configured => Configured'
  BY <1>6 DEF Configured, IntOf
<1> QED
  BY <1>5, <1>6, <1>7 DEF PartTold

LEMMA StepUidInv ==
  ASSUME SettingsInv, UidType, UidInv, [FirmwareNext]_firmwareVars
  PROVE  UidType' /\ UidInv'
<1>1. "esta_id" \in PromisedFields /\ "serial_number" \in PromisedFields
  BY DEF PromisedFields
<1>2. PartTold(uid.esta, "esta_id") /\ PartTold(uid.serial, "serial_number")
  BY DEF UidInv
<1>3. ASSUME UNCHANGED uid, QuietStep PROVE UidType' /\ UidInv'
  <2>1. /\ uid.esta # Unknown
             => Configured' /\ Settled("esta_id")' /\ uid.esta = FieldBytes("esta_id")'
        /\ uid.serial # Unknown
             => Configured' /\ Settled("serial_number")'
                /\ uid.serial = FieldBytes("serial_number")'
    BY <1>1, <1>2, <1>3, QuietTold
  <2> QED
    BY <1>3, <2>1 DEF UidType, UidInv, PartTold
<1>4. ASSUME NEW m, TakeAction(m) PROVE UidType' /\ UidInv'
  <2>1. Waiting /\ UNCHANGED settingsVars
    BY <1>4 DEF TakeAction
  <2>2. QuietStep
    BY <2>1 DEF QuietStep
  <2>3. TypeOK /\ UNCHANGED <<eeprom, todo>> /\ todo = <<>> /\ phase = "run"
    BY <2>1 DEF SettingsInv, StoreInv, TypeInv, settingsVars, control, Waiting, Ready
  <2>4. Configured /\ Settled("esta_id")' /\ Settled("serial_number")'
    BY <2>3 DEF SettingsInv, SetUpInv, Settled
  <2>5. /\ FieldBytes("esta_id")' = FieldBytes("esta_id")
        /\ FieldBytes("serial_number")' = FieldBytes("serial_number")
        /\ FieldBytes("magic")' = FieldBytes("magic")
    BY <2>3, FieldBytesUnchanged
  <2>6. Configured'
    BY <2>4, <2>5 DEF Configured, IntOf
  <2>7. CASE UNCHANGED uid
    BY <1>3, <2>2, <2>7
  <2>8. CASE uid' = [uid EXCEPT !.serial = Backwards(Told(SendSerialNumberResponse))]
    <3>1. uid' = [uid EXCEPT !.serial = FieldBytes("serial_number")]
      BY <2>3, <2>8, SerialTold
    <3>2. UidType' /\ uid'.esta = uid.esta /\ uid'.serial = FieldBytes("serial_number")
      BY <3>1 DEF UidType
    <3> QED
      BY <1>2, <2>4, <2>5, <2>6, <3>2 DEF UidInv, PartTold
  <2>9. CASE uid' = [uid EXCEPT !.esta =
                       Backwards(SubSeq(Told(SendManufacturerResponse), 1, 2))]
    <3>1. uid' = [uid EXCEPT !.esta = FieldBytes("esta_id")]
      BY <2>3, <2>9, EstaTold
    <3>2. UidType' /\ uid'.serial = uid.serial /\ uid'.esta = FieldBytes("esta_id")
      BY <3>1 DEF UidType
    <3> QED
      BY <1>2, <2>4, <2>5, <2>6, <3>2 DEF UidInv, PartTold
  <2>10. DmxData(m) \/ WidgetRequest(m) \/ OtherMessage(m)
    BY <1>4 DEF TakeAction
  <2>11. CASE WidgetRequest(m)
    <3>1. ASSUME NEW x, replies' = <<x>> PROVE replies'[1] = x
      BY <3>1
    <3> QED
      BY <2>7, <2>8, <2>9, <2>11, <3>1 DEF WidgetRequest
  <2> QED
    BY <2>7, <2>10, <2>11 DEF DmxData, OtherMessage
<1>5. ASSUME NEW r \in Requests, RDM(r) PROVE UidType' /\ UidInv'
  <2>1. CASE ~SetStored(r)
    <3>1. Receive(r)
      BY <1>5 DEF RDM
    <3>2. QuietStep
      BY <2>1, <3>1, OtherRequestQuiet
    <3>3. CASE UNCHANGED uid
      BY <1>3, <3>2, <3>3
    <3>4. CASE uid' = [uid EXCEPT !.serial = Unknown]
      <4>1. UidType' /\ uid'.esta = uid.esta /\ uid'.serial = Unknown
        BY <3>4 DEF UidType
      <4>2. uid.esta # Unknown
              => Configured' /\ Settled("esta_id")' /\ uid.esta = FieldBytes("esta_id")'
        BY <1>1, <1>2, <3>2, QuietTold
      <4> QED
        BY <4>1, <4>2 DEF UidInv, PartTold
    <3> QED
      BY <1>5, <3>3, <3>4 DEF RDM
  <2>2. CASE SetStored(r)
    <3>1. /\ r.pid \in Lasting => FieldOf[r.pid] # "esta_id"
          /\ r.pid \in Lasting /\ r.pid # "MANUFACTURER_SET_SERIAL"
               => FieldOf[r.pid] # "serial_number"
      BY DEF Lasting, FieldOf
    <3>2. uid.esta # Unknown
            => Configured' /\ Settled("esta_id")' /\ uid.esta = FieldBytes("esta_id")'
      BY <1>1, <1>2, <1>5, <2>2, <3>1, SetterTold
    <3>3. CASE r.pid = "MANUFACTURER_SET_SERIAL"
      <4>1. uid' = [uid EXCEPT !.serial = Unknown]
        BY <1>5, <2>2, <3>3, TakenValue DEF RDM, Changes
      <4>2. UidType' /\ uid'.esta = uid.esta /\ uid'.serial = Unknown
        BY <4>1 DEF UidType
      <4> QED
        BY <3>2, <4>2 DEF UidInv, PartTold
    <3>4. CASE r.pid # "MANUFACTURER_SET_SERIAL"
      <4>1. UNCHANGED uid
        BY <1>5, <3>4 DEF RDM, Changes
      <4>2. uid.serial # Unknown
              => Configured' /\ Settled("serial_number")'
                 /\ uid.serial = FieldBytes("serial_number")'
        BY <1>1, <1>2, <1>5, <2>2, <3>1, <3>4, SetterTold
      <4> QED
        BY <3>2, <4>1, <4>2 DEF UidType, UidInv, PartTold
    <3> QED
      BY <3>3, <3>4
  <2> QED
    BY <2>1, <2>2
<1>6. ASSUME PowerOn \/ Run \/ Quiet \/ PowerFails PROVE UidType' /\ UidInv'
  <2>1. UNCHANGED uid
    BY <1>6 DEF PowerOn, Run, Quiet, PowerFails
  <2>2. QuietStep
    <3>1. PowerOn \/ Run => QuietStep
      BY DEF PowerOn, Run, SwitchOn, Continue, Internal, QuietStep
    <3>2. Quiet \/ PowerFails => QuietStep
      BY DEF Quiet, PowerFails, Acknowledge, Reply, Idle, PowerLoss, QuietStep
    <3> QED
      BY <1>6, <3>1, <3>2
  <2> QED
    BY <1>3, <2>1, <2>2
<1>7. ASSUME UNCHANGED firmwareVars PROVE UidType' /\ UidInv'
  BY <1>3, <1>7 DEF firmwareVars, rdmVars, QuietStep
<1> QED
  BY <1>4, <1>5, <1>6, <1>7 DEF FirmwareNext

\* The UID put together from the parts is the one HandleRDMMessage compares with.
LEMMA ToldReaches == UidInv => ReportedUidWorks
<1> SUFFICES ASSUME UidInv, uid.esta # Unknown, uid.serial # Unknown
             PROVE  ToUs([esta |-> IntOf(uid.esta), serial |-> LongOf(uid.serial)])
  BY DEF ReportedUidWorks
<1>1. uid.esta = FieldBytes("esta_id") /\ uid.serial = FieldBytes("serial_number")
  BY DEF UidInv, PartTold
<1>2. IntOf(uid.esta) = EstaId /\ LongOf(uid.serial) = SerialNumber
  BY <1>1 DEF EstaId, SerialNumber
<1> QED
  BY <1>2 DEF ToUs

LEMMA FirmwareInitStore == FirmwareInit => SettingsInv /\ UidType /\ UidInv
<1> SUFFICES ASSUME FirmwareInit PROVE SettingsInv /\ UidType /\ UidInv
  OBVIOUS
<1>1. SettingsInv
  BY InitStoreInv DEF FirmwareInit, RDMInit, SettingsInv
<1>2. UidType /\ UidInv
  BY DEF FirmwareInit, UidType, UidInv, PartTold
<1> QED
  BY <1>1, <1>2

\* A host that asks for the manufacturer's id and the serial number, at any time
\* and in any order, with loss of power and other requests in between, gets a
\* UID that HandleRDMMessage takes for its own: SendManufacturerResponse and
\* SendSerialNumberResponse send their bytes in the orders the host expects, and
\* nothing but a SET of the serial number makes the answer stale.
THEOREM ReportedUidReaches == FirmwareSpec => []ReportedUidWorks
<1>1. SettingsInv /\ UidType /\ UidInv /\ [FirmwareNext]_firmwareVars
        => (SettingsInv /\ UidType /\ UidInv)'
  BY StepSettingsInv, StepUidInv
<1> QED
  BY <1>1, FirmwareInitStore, ToldReaches, PTL DEF FirmwareSpec

-----------------------------------------------------------------------------
(* Usable settings. *)

\* What stays when the EEPROM does.
LEMMA SameBytes ==
  ASSUME UNCHANGED eeprom
  PROVE  (Configured' <=> Configured) /\ \A f : FieldBytes(f)' = FieldBytes(f)
<1>1. \A f : FieldBytes(f)' = FieldBytes(f)
  BY DEF FieldBytes
<1> QED
  BY <1>1 DEF Configured, IntOf

\* A function starts to write usable values.
LEMMA QueueUsable ==
  ASSUME UsableInv, ~TornWrites, todo = <<>>, phase # "off", UNCHANGED eeprom,
         \A k \in 1 .. Len(todo') : UsableBytes(todo'[k].field, todo'[k].bytes)
  PROVE  UsableInv'
<1>1. \A f : Settled(f)
  BY DEF Settled
<1>2. Configured
  BY <1>1 DEF UsableInv, Cached
<1>3. Configured' /\ \A f : FieldBytes(f)' = FieldBytes(f)
  BY <1>2, SameBytes
<1>4. \A f \in Cached : UsableBytes(f, FieldBytes(f))
  BY <1>1, <1>2 DEF UsableInv
<1>5. \A f \in Cached : UsableBytes(f, FieldBytes(f))'
  BY <1>3, <1>4 DEF UsableBytes, IntOf
<1> QED
  BY <1>3, <1>5 DEF UsableInv, UsableBytes

LEMMA QuietUsable ==
  ASSUME SettingsInv, UsableInv, QuietStep
  PROVE  UsableInv'
<1> SUFFICES ASSUME ~TornWrites PROVE UsableInv'
  BY DEF UsableInv
<1>1. /\ TypeInv /\ CacheInv /\ MagicWrites /\ SetUpInv
      /\ \A k \in 1 .. Len(todo) : UsableBytes(todo[k].field, todo[k].bytes)
      /\ \A f \in Cached :
           /\ Configured /\ Settled(f) => UsableBytes(f, FieldBytes(f))
           /\ ~Configured /\ phase # "off" => ~Settled(f)
  BY DEF SettingsInv, StoreInv, UsableInv
<1>2. todo \in Seq(WriteType) /\ (todo # <<>> => phase # "off")
  BY <1>1 DEF TypeInv, TypeOK, WriteType
<1>3. ASSUME UNCHANGED <<eeprom, todo>>, phase' # "off" => phase # "off" \/ Configured
      PROVE  UsableInv'
  <2>1. \A f : Settled(f)' <=> Settled(f)
    BY <1>3 DEF Settled
  <2>2. \A k \in 1 .. Len(todo') : UsableBytes(todo'[k].field, todo'[k].bytes)
    BY <1>1, <1>3
  <2>3. ASSUME NEW f \in Cached
        PROVE  /\ Configured' /\ Settled(f)' => UsableBytes(f, FieldBytes(f)')
               /\ ~Configured' /\ phase' # "off" => ~Settled(f)'
    BY <1>1, <1>3, <2>1, <2>3, SameBytes
  <2> QED
    BY <2>2, <2>3 DEF UsableInv, UsableBytes
<1>4. CASE SettingsInit
  <2>1. phase = "off" /\ todo = <<>> /\ UNCHANGED eeprom
    BY <1>1, <1>4 DEF SettingsInit, Boot, TypeInv
  <2>2. CASE Configured
    BY <1>3, <1>4, <2>1, <2>2 DEF SettingsInit, LoadCaches, Configured
  <2>3. CASE ~Configured
    <3>1. todo' = InitWrites
      BY <1>4, <2>3 DEF SettingsInit, SetDefaults, Configured
    <3>2. ~Configured'
      BY <2>1, <2>3, SameBytes
    <3>3. /\ Len(InitWrites) = 7
          /\ InitWrites[2] = Write("start_address", IntBytes(1))
          /\ InitWrites[7] = Write("personality", <<1>>)
          /\ \A k \in 1 .. 7 : k \notin {2, 7} => InitWrites[k].field \notin Cached
      BY DEF InitWrites, StartAddressWrite, EstaIdWrite, SerialNumberWrite, PowerCyclesWrite,
         SensorWrite, PersonalityWrite, Write, Cached, DEFAULT_START_ADDRESS,
         DEFAULT_PERSONALITY
    <3>4. InitWrites[2].field = "start_address" /\ InitWrites[7].field = "personality"
      BY <3>3 DEF Write
    <3>5. UsableBytes(InitWrites[2].field, InitWrites[2].bytes)
      <4>1. 1 \in Word
        BY DEF Word
      <4>2. IntOf(IntBytes(1)) = 1
        BY <4>1, IntOfIntBytes
      <4>3. IntOf(InitWrites[2].bytes) # 0
        BY <3>3, <4>2 DEF Write
      <4> QED
        BY <3>4, <4>3 DEF UsableBytes
    <3>6. UsableBytes(InitWrites[7].field, InitWrites[7].bytes)
      <4>1. InitWrites[7].bytes[1] = 1
        BY <3>3 DEF Write
      <4> QED
        BY <3>4, <4>1 DEF UsableBytes
    <3>7. \A k \in 1 .. 7 : UsableBytes(InitWrites[k].field, InitWrites[k].bytes)
      <4>1. \A k \in 1 .. 7 : k \notin {2, 7} => UsableBytes(InitWrites[k].field, InitWrites[k].bytes)
        BY <3>3 DEF UsableBytes, Cached
      <4> QED
        BY <3>5, <3>6, <4>1
    <3>8. \A f \in Cached : ~Settled(f)'
      <4>1. 2 \in 1 .. Len(todo') /\ 7 \in 1 .. Len(todo')
        BY <3>1, <3>3
      <4>2. todo'[2].field = "start_address" /\ todo'[7].field = "personality"
        BY <3>1, <3>4
      <4> QED
        BY <4>1, <4>2 DEF Settled, Cached
    <3> QED
      BY <3>1, <3>2, <3>3, <3>7, <3>8 DEF UsableInv, UsableBytes
  <2> QED
    BY <2>2, <2>3
<1>5. CASE IncrementDevicePowerCycles
  <2>1. /\ todo = <<>> /\ phase # "off" /\ UNCHANGED eeprom
        /\ \E w : todo' = <<w>> /\ w.field = "power_cycles"
    BY <1>5 DEF IncrementDevicePowerCycles, PowerCyclesWrite, Write
  <2>2. \A k \in 1 .. Len(todo') : UsableBytes(todo'[k].field, todo'[k].bytes)
    BY <2>1 DEF UsableBytes
  <2> QED
    BY <2>1, <2>2, QueueUsable
<1>6. CASE WriteByte
  <2>1. UNCHANGED <<todo, phase>> /\ todo # <<>> /\ phase # "off"
    BY <1>2, <1>6 DEF WriteByte
  <2>2. Configured => Configured'
    BY <1>1, <1>6, StepConfigured DEF AnyStep, QuietStep, Internal
  <2>3. ASSUME NEW f \in Cached, Settled(f) PROVE FieldBytes(f)' = FieldBytes(f)
    <3>1. 1 \in 1 .. Len(todo) /\ Head(todo) = todo[1]
      BY <1>2, <2>1
    <3>2. f # Head(todo).field /\ f \in CoreFields
      BY <2>3, <3>1 DEF Settled, Cached, CoreFields, Field
    <3> QED
      BY <1>1, <1>6, <3>2, WriteByteKeeps
  <2>4. \A f : Settled(f)' <=> Settled(f)
    BY <2>1 DEF Settled
  <2>5. \A k \in 1 .. Len(todo') : UsableBytes(todo'[k].field, todo'[k].bytes)
    BY <1>1, <2>1
  <2>6. ASSUME NEW f \in Cached
        PROVE  /\ Configured' /\ Settled(f)' => UsableBytes(f, FieldBytes(f)')
               /\ ~Configured' /\ phase' # "off" => ~Settled(f)'
    BY <1>1, <2>1, <2>2, <2>3, <2>4
  <2> QED
    BY <2>5, <2>6 DEF UsableInv, UsableBytes
<1>7. CASE Return
  <2>1. todo # <<>> /\ todo' = Tail(todo) /\ UNCHANGED eeprom /\ phase # "off"
    BY <1>2, <1>7 DEF Return
  <2>2. /\ 1 \in 1 .. Len(todo) /\ Head(todo) = todo[1]
        /\ \A k \in 1 .. Len(todo') : k + 1 \in 1 .. Len(todo) /\ todo'[k] = todo[k + 1]
        /\ \A k \in 1 .. Len(todo) : k # 1 => k - 1 \in 1 .. Len(todo') /\ todo'[k - 1] = todo[k]
    BY <1>2, <2>1
  <2>3. \A k \in 1 .. Len(todo') : UsableBytes(todo'[k].field, todo'[k].bytes)
    BY <1>1, <2>2
  <2>4. ASSUME NEW f \in Cached, Configured', Settled(f)' PROVE UsableBytes(f, FieldBytes(f)')
    <3>1. Configured /\ FieldBytes(f)' = FieldBytes(f)
      BY <2>1, <2>4, SameBytes
    <3>2. CASE Settled(f)
      BY <1>1, <3>1, <3>2
    <3>3. CASE Head(todo).field = f
      <4>1. f # "label"
        BY DEF Cached
      <4>2. FieldBytes(f) = Head(todo).bytes
        BY <1>1, <1>7, <3>3, <4>1, ReturnedBytes
      <4>3. UsableBytes(Head(todo).field, Head(todo).bytes)
        BY <1>1, <2>2
      <4> QED
        BY <3>1, <3>3, <4>2, <4>3
    <3>4. Settled(f) \/ Head(todo).field = f
      <4>1. ASSUME NEW k \in 1 .. Len(todo), todo[k].field = f, k # 1 PROVE FALSE
        BY <2>2, <2>4, <4>1 DEF Settled
      <4> QED
        BY <2>2, <4>1 DEF Settled
    <3> QED
      BY <3>2, <3>3, <3>4
  <2>5. ASSUME NEW f \in Cached, ~Configured' PROVE ~Settled(f)'
    <3>1. ~Configured /\ ~Settled(f)
      BY <1>1, <2>1, <2>5, SameBytes
    <3>2. Head(todo).field = "magic" /\ f # "magic"
      BY <1>1, <2>1, <3>1 DEF SetUpInv, Cached
    <3>3. PICK k \in 1 .. Len(todo) : todo[k].field = f
      BY <3>1 DEF Settled
    <3>4. k # 1
      BY <2>2, <3>2, <3>3
    <3> QED
      BY <2>2, <3>3, <3>4 DEF Settled
  <2> QED
    BY <2>3, <2>4, <2>5 DEF UsableInv, UsableBytes
<1>8. CASE PowerOff
  <2>1. todo = <<>> /\ todo' = <<>> /\ phase' = "off" /\ UNCHANGED eeprom
    BY <1>8 DEF PowerOff
  <2> QED
    BY <1>3, <2>1
<1>9. CASE PerformWrite
  <2>1. todo = <<>> /\ phase # "off" /\ UNCHANGED eeprom /\ todo' = LabelWrites
    BY <1>9 DEF PerformWrite, Call, Ready
  <2>2. \A k \in 1 .. Len(todo') : todo'[k].field \in {"label", "label_size"}
    BY <2>1 DEF LabelWrites, Write
  <2>3. \A k \in 1 .. Len(todo') : UsableBytes(todo'[k].field, todo'[k].bytes)
    BY <2>2 DEF UsableBytes
  <2> QED
    BY <2>1, <2>3, QueueUsable
<1>10. CASE (\E l \in Seq(Byte) : SetDeviceLabel(l)) \/ UNCHANGED settingsVars
  BY <1>3, <1>10 DEF SetDeviceLabel, settingsVars, control
<1> QED
  BY <1>4, <1>5, <1>6, <1>7, <1>8, <1>9, <1>10 DEF QuietStep, Internal

\* A start address of 0 and a personality without a description are refused.
LEMMA SetterUsable ==
  ASSUME NEW r \in Requests, RDM(r), SetStored(r)
  PROVE  \E w : Call(<<w>>) /\ UsableBytes(w.field, w.bytes)
<1>1. CallSetter(r) /\ ~BadSetValue(r)
  BY TakenValue
<1>2. ASSUME NEW f \in Field \ Cached, NEW bytes, Call(<<Write(f, bytes)>>)
      PROVE  \E w : Call(<<w>>) /\ UsableBytes(w.field, w.bytes)
  <2>1. PICK w : w = Write(f, bytes)
    OBVIOUS
  <2>2. w.field = f /\ w.bytes = bytes
    BY <2>1 DEF Write
  <2>3. UsableBytes(w.field, w.bytes)
    BY <2>2 DEF UsableBytes, Cached
  <2> QED
    BY <1>2, <2>1, <2>3
<1>3. CASE r.pid = "DMX_PERSONALITY" /\ SetPersonality(r.data[1])
  <2>1. PICK w : w = PersonalityWrite(r.data[1])
    OBVIOUS
  <2>2. w.field = "personality" /\ w.bytes[1] = r.data[1]
    BY <2>1 DEF PersonalityWrite, Write
  <2>3. r.data[1] \in 1 .. 3
    BY <1>1, <1>3 DEF BadSetValue, PERSONALITIES
  <2>4. UsableBytes(w.field, w.bytes)
    BY <2>2, <2>3 DEF UsableBytes
  <2> QED
    BY <1>3, <2>1, <2>4 DEF SetPersonality
<1>4. CASE r.pid = "DMX_START_ADDRESS" /\ SetStartAddress(IntOf(r.data))
  <2>1. PICK a : a = IntOf(r.data)
    OBVIOUS
  <2>2. a \in Word
    BY <2>1, RequestBytes
  <2>3. a # 0
    <3>1. AsInt(a) # 0
      BY <1>1, <1>4, <2>1 DEF BadSetValue
    <3>2. AsInt(0) = 0
      BY DEF AsInt
    <3> QED
      BY <3>1, <3>2
  <2>4. PICK w : w = StartAddressWrite(a)
    OBVIOUS
  <2>5. w.field = "start_address" /\ IntOf(w.bytes) = a
    BY <2>2, <2>4, IntOfIntBytes DEF StartAddressWrite, Write
  <2>6. UsableBytes(w.field, w.bytes)
    BY <2>3, <2>5 DEF UsableBytes
  <2> QED
    BY <1>4, <2>1, <2>4, <2>6 DEF SetStartAddress
<1>5. /\ "sensor" \in Field \ Cached /\ "power_cycles" \in Field \ Cached
      /\ "serial_number" \in Field \ Cached
  BY DEF Field, Cached
<1>6. CASE \E v : SaveSensorValue(v)
  BY <1>2, <1>5, <1>6 DEF SaveSensorValue, SensorWrite
<1>7. CASE SetDevicePowerCycles(LongOf(r.data))
  BY <1>2, <1>5, <1>7 DEF SetDevicePowerCycles, PowerCyclesWrite
<1>8. CASE SetSerialNumber(LongOf(r.data))
  BY <1>2, <1>5, <1>8 DEF SetSerialNumber, SerialNumberWrite
<1> QED
  BY <1>1, <1>3, <1>4, <1>6, <1>7, <1>8 DEF CallSetter

LEMMA StepUsableInv ==
  ASSUME SettingsInv, UsableInv, [FirmwareNext]_firmwareVars
  PROVE  UsableInv'
<1>1. ASSUME NEW r \in Requests, RDM(r), SetStored(r), ~TornWrites PROVE UsableInv'
  <2>1. PICK w : Call(<<w>>) /\ UsableBytes(w.field, w.bytes)
    BY <1>1, SetterUsable
  <2>2. todo = <<>> /\ phase # "off" /\ UNCHANGED eeprom /\ todo' = <<w>>
    BY <2>1 DEF Call, Ready
  <2>3. \A k \in 1 .. Len(todo') : UsableBytes(todo'[k].field, todo'[k].bytes)
    BY <2>1, <2>2
  <2> QED
    BY <1>1, <2>2, <2>3, QueueUsable
<1>2. TornWrites => UsableInv'
  BY DEF UsableInv
<1> QED
  BY <1>1, <1>2, FirmwareStep, QuietUsable

-----------------------------------------------------------------------------
(* The lights. *)

\* An output is driven with a byte.
LEMMA LevelType ==
  ASSUME NEW i, NEW value \in Byte
  PROVE  Level(i, value) \in Byte
  BY DEF Level, Byte

\* What is left of an earlier message is bytes.
LEMMA OverwrittenType ==
  ASSUME message \in [0 .. BUFFER_PREFIX - 1 -> Byte], NEW data \in Seq(Byte)
  PROVE  /\ Overwritten(data) \in [0 .. BUFFER_PREFIX - 1 -> Byte]
         /\ \A i \in 0 .. BUFFER_PREFIX - 1 :
              i < Len(data) => Overwritten(data)[i] = data[i + 1]
<1>1. Overwritten(data)
        = [i \in 0 .. BUFFER_PREFIX - 1 |-> IF i < Len(data) THEN data[i + 1] ELSE message[i]]
  BY DEF Overwritten
<1>2. \A i \in 0 .. BUFFER_PREFIX - 1 : i < Len(data) => data[i + 1] \in Byte
  BY BufferAssumption
<1> QED
  BY <1>1, <1>2

\* The outputs SetPWM reaches with a message of `size' bytes: those whose slot
\* is at most `size', which is one beyond the message.
LEMMA ReachedOutputs ==
  ASSUME TypeOK, NEW data, NEW size \in 0 .. BUFFER_PREFIX - 1, SetPWM(data, size), NEW i \in Outputs
  PROVE  /\ m_start_address = 0 \/ m_start_address + i > BUFFER_PREFIX => pwm'[i] = pwm[i]
         /\ m_start_address # 0 /\ m_start_address + i <= BUFFER_PREFIX
              => pwm'[i] = IF m_start_address + i <= size
                           THEN Level(i, data[m_start_address + i]) ELSE pwm[i]
<1> DEFINE start == (m_start_address + 65535) % 65536
           Reached(k) == \A j \in 0 .. k : (start + j) % 65536 < size
<1>1. /\ m_start_address \in Nat /\ m_start_address < 65536 /\ i \in 0 .. 5
      /\ BUFFER_PREFIX \in 1 .. 600 /\ size \in Nat /\ size < BUFFER_PREFIX
  <2>1. m_start_address \in Nat /\ m_start_address < 65536 /\ i \in 0 .. 5
    BY DEF TypeOK, Word, Outputs
  <2>2. BUFFER_PREFIX \in 1 .. 600
    BY BufferAssumption
  <2>3. size \in Nat /\ size < BUFFER_PREFIX
    BY <2>2
  <2> QED
    BY <2>1, <2>2, <2>3
<1>2. pwm'[i] = IF Reached(i) THEN Level(i, data[1 + start + i]) ELSE pwm[i]
  BY DEF SetPWM
<1>3. m_start_address = 0 => start = 65535
  BY <1>1
<1>4. m_start_address # 0 => start = m_start_address - 1
  BY <1>1
<1>5. start \in Nat /\ start < 65536
  BY <1>1
<1>6. Reached(i) => start < size
  <2>1. 0 \in 0 .. i /\ (start + 0) % 65536 = start
    BY <1>1, <1>5
  <2> QED
    BY <2>1
<1> HIDE DEF start
<1>7. Reached(i) => start + i < size
  <2> SUFFICES ASSUME Reached(i) PROVE start + i < size
    OBVIOUS
  <2>1. start < BUFFER_PREFIX
    BY <1>1, <1>5, <1>6
  <2>2. i \in 0 .. i /\ (start + i) % 65536 = start + i
    BY <1>1, <1>5, <2>1
  <2> QED
    BY <2>2
<1>8. start + i < size => Reached(i)
  <2> SUFFICES ASSUME start + i < size, NEW j \in 0 .. i PROVE (start + j) % 65536 < size
    OBVIOUS
  <2>1. start + j < size /\ start + j < 65536 /\ start + j \in Nat
    BY <1>1, <1>5
  <2>2. (start + j) % 65536 = start + j
    BY <2>1
  <2> QED
    BY <2>1, <2>2
<1>9. Reached(i) <=> start + i < size
  BY <1>7, <1>8
<1> HIDE DEF Reached
<1>10. m_start_address = 0 \/ m_start_address + i > BUFFER_PREFIX => pwm'[i] = pwm[i]
  BY <1>1, <1>2, <1>3, <1>4, <1>9
<1>11. ASSUME m_start_address # 0, m_start_address + i <= BUFFER_PREFIX
       PROVE  pwm'[i] = IF m_start_address + i <= size
                        THEN Level(i, data[m_start_address + i]) ELSE pwm[i]
  <2>1. 1 + start + i = m_start_address + i
    BY <1>1, <1>4, <1>11
  <2>2. Reached(i) <=> m_start_address + i <= size
    BY <1>1, <1>5, <1>9, <2>1
  <2> QED
    BY <1>2, <2>1, <2>2
<1> QED
  BY <1>10, <1>11

\* What the history keeps of a frame.
LEMMA ShownByFrame ==
  ASSUME shown \in [Slots -> Byte \cup {NoLevel}], NEW data \in Seq(Byte)
  PROVE  /\ ShownBy(data) \in [Slots -> Byte \cup {NoLevel}]
         /\ \A s \in Slots : /\ s < Len(data) => ShownBy(data)[s] = data[s + 1]
                             /\ s = Len(data) => ShownBy(data)[s] = NoLevel
                             /\ s > Len(data) => ShownBy(data)[s] = shown[s]
<1>1. Len(data) \in Nat /\ \A s \in Slots : s \in Nat /\ s >= 1
  BY BufferAssumption DEF Slots
<1>2. ASSUME NEW s \in Slots
      PROVE  /\ s < Len(data) => ShownBy(data)[s] = data[s + 1] /\ data[s + 1] \in Byte
             /\ s = Len(data) => ShownBy(data)[s] = NoLevel
             /\ s > Len(data) => ShownBy(data)[s] = shown[s]
  <2>1. CASE s < Len(data)
    BY <1>1, <2>1 DEF ShownBy
  <2>2. CASE s = Len(data)
    BY <1>1, <2>2 DEF ShownBy
  <2>3. CASE s > Len(data)
    BY <1>1, <2>3 DEF ShownBy
  <2> QED
    BY <1>1, <2>1, <2>2, <2>3
<1>3. \A s \in Slots : ShownBy(data)[s] \in Byte \cup {NoLevel}
  BY <1>1, <1>2
<1>4. ShownBy(data) = [s \in Slots |-> ShownBy(data)[s]]
  BY DEF ShownBy
<1> QED
  BY <1>2, <1>3, <1>4

\* A frame, long, short or empty, sets the outputs whose slots it has.
LEMMA DmxLevels ==
  ASSUME TypeOK, LevelsInv, NEW m \in HostMessages, TakeAction(m), DmxData(m)
  PROVE  LevelsType' /\ LightsInv'
<1>1. /\ phase = "run" /\ phase' = phase
      /\ m_start_address' = m_start_address /\ m_personality' = m_personality
      /\ message' = Overwritten(m.data)
  BY DEF TakeAction, Waiting, Ready, settingsVars, ram, control
<1>2. PICK n : n = Len(m.data)
  OBVIOUS
<1>3. m.data \in Seq(Byte) /\ n \in 0 .. BUFFER_PREFIX - 1 /\ n < BUFFER_PREFIX /\ BUFFER_PREFIX \in 1 .. 600
  <2>1. m.data \in Seq(Byte) /\ n < BUFFER_PREFIX /\ BUFFER_PREFIX \in 1 .. 600
    BY <1>2, BufferAssumption
  <2>2. n \in Nat
    BY <1>2, <2>1
  <2> QED
    BY <2>1, <2>2
<1>4. LevelsType /\ LightsInv
  BY Zenon DEF LevelsInv
<1>5. /\ message' \in [0 .. BUFFER_PREFIX - 1 -> Byte]
      /\ \A i \in 0 .. BUFFER_PREFIX - 1 : i < n => message'[i] = m.data[i + 1]
  <2>1. message \in [0 .. BUFFER_PREFIX - 1 -> Byte]
    BY <1>4 DEF LevelsType
  <2>2. m.data \in Seq(Byte)
    BY <1>3
  <2>3. /\ Overwritten(m.data) \in [0 .. BUFFER_PREFIX - 1 -> Byte]
        /\ \A i \in 0 .. BUFFER_PREFIX - 1 :
             i < Len(m.data) => Overwritten(m.data)[i] = m.data[i + 1]
    BY <2>1, <2>2, OverwrittenType, Zenon
  <2> QED
    BY <1>1, <1>2, <2>3
<1>6. \A i, v : Level(i, v)' = Level(i, v)
  BY <1>1 DEF Level, Invert
<1>7. CASE UNCHANGED <<pwm, shown>>
  <2>1. LevelsType'
    BY <1>1, <1>4, <1>5, <1>7 DEF LevelsType
  <2>2. LightsInv'
    BY <1>1, <1>4, <1>6, <1>7 DEF LightsInv
  <2> QED
    BY <2>1, <2>2
<1>8. CASE /\ SetPWM(message', n)
           /\ shown' = IF m.data = <<>> THEN shown ELSE ShownBy(m.data)
  <2>1. m_start_address \in Nat /\ \A i \in Outputs : i \in 0 .. 5
    BY DEF TypeOK, Word, Outputs
  <2>2. \A i \in Outputs :
          /\ m_start_address = 0 \/ m_start_address + i > BUFFER_PREFIX => pwm'[i] = pwm[i]
          /\ m_start_address # 0 /\ m_start_address + i <= BUFFER_PREFIX
               => pwm'[i] = IF m_start_address + i <= n
                            THEN Level(i, message'[m_start_address + i]) ELSE pwm[i]
    <3>1. n \in 0 .. BUFFER_PREFIX - 1 /\ SetPWM(message', n)
      BY <1>3, <1>8
    <3> QED
      BY <3>1, ReachedOutputs, Zenon
  <2>3. /\ pwm \in [Outputs -> Byte \cup {NoLevel}] /\ \A i \in Outputs : pwm[i] \in Byte
        /\ shown \in [Slots -> Byte \cup {NoLevel}]
    BY <1>1, <1>4 DEF LevelsType
  <2>4. \A i \in Outputs : pwm'[i] \in Byte
    <3> SUFFICES ASSUME NEW i \in Outputs PROVE pwm'[i] \in Byte
      OBVIOUS
    <3>1. CASE m_start_address # 0 /\ m_start_address + i <= n
      <4>1. PICK slot : slot = m_start_address + i
        OBVIOUS
      <4>2. slot \in 0 .. BUFFER_PREFIX - 1 /\ slot <= BUFFER_PREFIX
        BY <1>3, <2>1, <3>1, <4>1
      <4>3. message'[slot] \in Byte
        <5>1. message' \in [0 .. BUFFER_PREFIX - 1 -> Byte]
          BY <1>5
        <5> QED
          BY <4>2, <5>1
      <4>4. pwm'[i] = IF slot <= n THEN Level(i, message'[slot]) ELSE pwm[i]
        BY <2>2, <3>1, <4>1, <4>2, Zenon
      <4>5. pwm'[i] = Level(i, message'[slot])
        BY <3>1, <4>1, <4>4, Zenon
      <4> QED
        BY <4>3, <4>5, LevelType
    <3>2. CASE m_start_address = 0 \/ ~(m_start_address + i <= n)
      <4>1. pwm'[i] = pwm[i]
        BY <1>3, <2>1, <2>2, <3>2
      <4> QED
        BY <2>3, <4>1
    <3> QED
      BY <3>1, <3>2
  <2>5. pwm' = [i \in Outputs |-> pwm'[i]]
    BY <1>8 DEF SetPWM
  <2>6. pwm' \in [Outputs -> Byte \cup {NoLevel}]
    BY <2>4, <2>5
  <2>7. /\ ShownBy(m.data) \in [Slots -> Byte \cup {NoLevel}]
        /\ \A s \in Slots : /\ s < n => ShownBy(m.data)[s] = m.data[s + 1]
                            /\ s = n => ShownBy(m.data)[s] = NoLevel
                            /\ s > n => ShownBy(m.data)[s] = shown[s]
    <3>1. m.data \in Seq(Byte) /\ shown \in [Slots -> Byte \cup {NoLevel}]
      BY <1>3, <2>3
    <3>2. /\ ShownBy(m.data) \in [Slots -> Byte \cup {NoLevel}]
          /\ \A s \in Slots : /\ s < Len(m.data) => ShownBy(m.data)[s] = m.data[s + 1]
                              /\ s = Len(m.data) => ShownBy(m.data)[s] = NoLevel
                              /\ s > Len(m.data) => ShownBy(m.data)[s] = shown[s]
      BY <3>1, ShownByFrame, Zenon
    <3> QED
      BY <1>2, <3>2, Zenon
  <2>8. LevelsType'
    <3>1. shown' \in [Slots -> Byte \cup {NoLevel}]
      BY <1>8, <2>3, <2>7
    <3> QED
      BY <1>5, <2>4, <2>6, <3>1 DEF LevelsType
  <2>9. ASSUME NEW i \in Outputs, NEW slot, slot = m_start_address + i, m_start_address # 0,
               slot \in Slots, shown'[slot] # NoLevel
        PROVE  pwm'[i] = Level(i, shown'[slot])
    <3>1. slot \in Nat /\ slot >= 1 /\ slot <= BUFFER_PREFIX
      BY <1>3, <2>9 DEF Slots
    <3>2. pwm'[i] = IF slot <= n THEN Level(i, message'[slot]) ELSE pwm[i]
      BY <2>2, <2>9, <3>1
    <3>3. CASE slot <= n
      <4>1. m.data # <<>>
        BY <1>2, <3>1, <3>3
      <4>2. shown' = ShownBy(m.data)
        BY <1>8, <4>1
      <4>3. slot # n
        BY <2>7, <2>9, <4>2
      <4>4. slot < n
        BY <1>3, <3>1, <3>3, <4>3
      <4>5. shown'[slot] = m.data[slot + 1]
        BY <2>7, <2>9, <4>2, <4>4
      <4>6. slot \in 0 .. BUFFER_PREFIX - 1
        BY <1>3, <3>1, <4>4
      <4>7. message'[slot] = m.data[slot + 1]
        BY <1>5, <4>4, <4>6
      <4> QED
        BY <3>2, <3>3, <4>5, <4>7
    <3>4. CASE ~(slot <= n)
      <4>1. slot > n
        BY <1>3, <3>1, <3>4
      <4>2. shown'[slot] = shown[slot]
        BY <1>8, <2>7, <2>9, <4>1
      <4>3. pwm[i] = Level(i, shown[slot])
        BY <1>1, <1>4, <2>9, <4>2 DEF LightsInv
      <4> QED
        BY <3>2, <3>4, <4>2, <4>3
    <3> QED
      BY <3>3, <3>4
  <2>10. LightsInv'
    BY <1>1, <1>6, <2>9 DEF LightsInv
  <2> QED
    BY <2>8, <2>10
<1> QED
  BY <1>2, <1>7, <1>8 DEF DmxData

\* Steps in which the lights and all they depend on stay.
LEMMA KeptLevels ==
  ASSUME LevelsInv, message' \in [0 .. BUFFER_PREFIX - 1 -> Byte],
         UNCHANGED <<phase, todo, m_start_address, m_personality, pwm, shown>>
  PROVE  LevelsInv'
<1>1. LevelsType'
  BY DEF LevelsInv, LevelsType
<1>2. LightsInv'
  BY DEF LevelsInv, LightsInv, Level, Invert
<1>3. ShownInv' /\ CountInv'
  BY DEF LevelsInv, ShownInv, CountInv, Settled, NothingShown, Slots
<1> QED
  BY <1>1, <1>2, <1>3 DEF LevelsInv

\* While the history is void, the address and the personality may change.
LEMMA VoidLevels ==
  ASSUME LevelsInv, phase = "run", phase' = "run", UNCHANGED pwm,
         message' \in [0 .. BUFFER_PREFIX - 1 -> Byte], shown' = NothingShown
  PROVE  LevelsInv'
<1>1. \A s \in Slots : shown'[s] = NoLevel
  BY DEF NothingShown
<1>2. LevelsType'
  BY DEF LevelsInv, LevelsType, NothingShown
<1>3. LightsInv'
  BY <1>1 DEF LightsInv
<1>4. ShownInv' /\ CountInv'
  BY DEF ShownInv, CountInv, NothingShown, Slots
<1> QED
  BY <1>2, <1>3, <1>4 DEF LevelsInv

\* Writes of other settings come and go.
LEMMA SettledLevels ==
  ASSUME LevelsInv, phase = "run",
         UNCHANGED <<phase, m_start_address, m_personality, pwm, shown>>,
         message' \in [0 .. BUFFER_PREFIX - 1 -> Byte],
         Settled("start_address")', Settled("personality")'
  PROVE  LevelsInv'
<1>1. LevelsType'
  BY DEF LevelsInv, LevelsType
<1>2. LightsInv'
  BY DEF LevelsInv, LightsInv, Level, Invert
<1>3. ShownInv' /\ CountInv'
  BY DEF ShownInv, CountInv
<1> QED
  BY <1>1, <1>2, <1>3 DEF LevelsInv

\* A step of a device that does not reach the main loop.
LEMMA IdleLevels ==
  ASSUME LevelsInv, phase' # "run", CountInv',
         message' \in [0 .. BUFFER_PREFIX - 1 -> Byte],
         \/ UNCHANGED <<pwm, shown>>
         \/ pwm' = [i \in Outputs |-> NoLevel] /\ shown' = NothingShown
  PROVE  LevelsInv'
<1>1. LevelsType'
  BY DEF LevelsInv, LevelsType, NothingShown
<1>2. LightsInv' /\ ShownInv'
  BY DEF LightsInv, ShownInv
<1> QED
  BY <1>1, <1>2 DEF LevelsInv

\* main sets the outputs when WidgetSettings.Init has returned; from then on
\* the writes that return are those of the handlers.
LEMMA RunLevels ==
  ASSUME SettingsInv, LevelsInv, Run
  PROVE  LevelsInv'
<1>1. LevelsType /\ LightsInv /\ ShownInv /\ CountInv /\ UNCHANGED message
  BY DEF LevelsInv, Run
<1>2. message' \in [0 .. BUFFER_PREFIX - 1 -> Byte]
  BY <1>1 DEF LevelsType
<1>3. todo \in Seq(WriteType)
  BY DEF SettingsInv, StoreInv, TypeInv, TypeOK, WriteType
<1>4. CASE WriteByte
  <2>1. UNCHANGED <<phase, todo, m_start_address, m_personality>>
    BY <1>4 DEF WriteByte, ram
  <2>2. UNCHANGED <<pwm, shown>>
    BY <2>1 DEF Run
  <2> QED
    BY <1>2, <2>1, <2>2, KeptLevels
<1>5. CASE IncrementDevicePowerCycles
  <2>1. phase' = "count" /\ \E w : todo' = <<w>> /\ w.field = "power_cycles"
    BY <1>5 DEF IncrementDevicePowerCycles, PowerCyclesWrite, Write
  <2>2. CountInv'
    BY <2>1 DEF CountInv
  <2>3. UNCHANGED <<pwm, shown>>
    BY <2>1 DEF Run
  <2> QED
    BY <1>2, <2>1, <2>2, <2>3, IdleLevels
<1>6. CASE Return
  <2>1. todo # <<>> /\ todo' = Tail(todo)
    BY <1>6 DEF Return
  <2>2. /\ 1 \in 1 .. Len(todo) /\ Head(todo) = todo[1]
        /\ \A k \in 1 .. Len(todo') : k + 1 \in 1 .. Len(todo) /\ todo'[k] = todo[k + 1]
    BY <1>3, <2>1
  <2>3. /\ Head(todo).field # "start_address" => m_start_address' = m_start_address
        /\ Head(todo).field # "personality" => m_personality' = m_personality
    BY <1>6 DEF Return
  <2>4. \A f : Settled(f) => Settled(f)' /\ Head(todo).field # f
    BY <2>2 DEF Settled
  <2>5. CASE phase = "run"
    <3>1. phase' = "run" /\ UNCHANGED <<pwm, shown>>
      BY <1>6, <2>5 DEF Return, Run
    <3>2. CASE shown = NothingShown
      BY <1>2, <2>5, <3>1, <3>2, VoidLevels
    <3>3. CASE Settled("start_address") /\ Settled("personality")
      BY <1>2, <2>3, <2>4, <2>5, <3>1, <3>3, SettledLevels
    <3> QED
      BY <1>1, <2>5, <3>2, <3>3 DEF ShownInv
  <2>6. CASE phase = "count"
    <3>1. phase' = "run" /\ pwm' = Dark /\ shown' = [s \in Slots |-> 0]
      BY <1>6, <2>6 DEF Return, Run
    <3>2. \A k \in 1 .. Len(todo) : todo[k].field = "power_cycles"
      BY <1>1, <2>6 DEF CountInv
    <3>3. Settled("start_address") /\ Settled("personality")
      BY <3>2 DEF Settled
    <3>4. Settled("start_address")' /\ Settled("personality")' /\ UNCHANGED m_personality
      BY <2>3, <2>4, <3>3
    <3>5. 0 \in Byte /\ \A i \in Outputs : pwm'[i] = Level(i, 0)
      BY <3>1 DEF Byte, Dark
    <3>6. \A i \in Outputs : pwm'[i] \in Byte
      BY <3>5, LevelType
    <3>7. LevelsType'
      <4>1. pwm' = [i \in Outputs |-> pwm'[i]]
        BY <3>1 DEF Dark
      <4>2. pwm' \in [Outputs -> Byte \cup {NoLevel}]
        BY <3>6, <4>1
      <4>3. shown' \in [Slots -> Byte \cup {NoLevel}]
        BY <3>1, <3>5
      <4> QED
        BY <1>2, <3>6, <4>2, <4>3 DEF LevelsType
    <3>8. \A i, v : Level(i, v)' = Level(i, v)
      BY <3>4 DEF Level, Invert
    <3>9. \A s \in Slots : shown'[s] = 0
      BY <3>1
    <3>10. LightsInv'
      BY <3>5, <3>8, <3>9 DEF LightsInv
    <3>11. ShownInv' /\ CountInv'
      BY <3>1, <3>4 DEF ShownInv, CountInv
    <3> QED
      BY <3>7, <3>10, <3>11 DEF LevelsInv
  <2>7. CASE phase \notin {"run", "count"}
    <3>1. phase' = phase
      BY <1>6, <2>7 DEF Return
    <3>2. UNCHANGED <<pwm, shown>>
      BY <3>1 DEF Run
    <3>3. CountInv'
      BY <2>7, <3>1 DEF CountInv
    <3> QED
      BY <1>2, <2>7, <3>1, <3>2, <3>3, IdleLevels
  <2> QED
    BY <2>5, <2>6, <2>7
<1> QED
  BY <1>4, <1>5, <1>6 DEF Run, Continue

\* No handler changes the address or the personality in RAM before the EEPROM
\* holds it.
LEMMA ReceiveKeeps ==
  ASSUME NEW r \in Requests, Receive(r)
  PROVE  /\ phase = "run"
         /\ UNCHANGED <<phase, m_start_address, m_personality>>
         /\ UNCHANGED todo \/ SetStored(r)
<1>1. phase = "run"
  BY DEF Receive, Waiting, Ready
<1>2. CASE UNCHANGED settingsVars
  BY <1>1, <1>2 DEF settingsVars, ram, control
<1>3. CASE SetStored(r)
  <2>1. \E writes : Call(writes)
    BY <1>3 DEF SetStored, CallSetter, SetPersonality, SetStartAddress, SaveSensorValue,
       SetDevicePowerCycles, SetSerialNumber
  <2> QED
    BY <1>1, <1>3, <2>1 DEF Call, ram
<1>4. CASE SetLabel(r)
  BY <1>1, <1>4 DEF SetLabel, SetDeviceLabel, control
<1>5. Refuse(r) \/ Get(r) \/ SetLanguage(r) \/ SetIdentifyDevice(r) => UNCHANGED settingsVars
  BY DEF Refuse, Get, SetLanguage, SetIdentifyDevice
<1>6. GetQueuedLabel(r) \/ GetLastLabel(r) \/ GetNothingQueued(r) => UNCHANGED settingsVars
  BY DEF GetQueuedLabel, GetLastLabel, GetNothingQueued, Queued
<1> QED
  BY <1>2, <1>3, <1>4, <1>5, <1>6 DEF Receive, Handle

\* A setter of the address or the personality is called with the history void.
LEMMA RequestLevels ==
  ASSUME LevelsInv, NEW r \in Requests, RDM(r)
  PROVE  LevelsInv'
<1>1. Receive(r) /\ UNCHANGED pwm /\ shown' \in {NothingShown, shown}
  BY DEF RDM
<1>2. /\ phase = "run" /\ UNCHANGED <<phase, m_start_address, m_personality>>
      /\ UNCHANGED todo \/ SetStored(r)
  BY <1>1, ReceiveKeeps
<1>3. message' \in [0 .. BUFFER_PREFIX - 1 -> Byte]
  <2>1. message' = Overwritten(RequestMessage(r))
    BY DEF RDM
  <2>2. RequestMessage(r) \in Seq(Byte)
    BY RequestMessageBytes DEF HoldsController, IsBytes
  <2> QED
    BY <2>1, <2>2, OverwrittenType DEF LevelsInv, LevelsType
<1>4. CASE shown' = NothingShown
  BY <1>1, <1>2, <1>3, <1>4, VoidLevels
<1>5. CASE UNCHANGED shown /\ UNCHANGED todo
  BY <1>1, <1>2, <1>3, <1>5, KeptLevels
<1>6. CASE shown' # NothingShown /\ SetStored(r)
  <2>1. CallSetter(r) /\ busy'
    BY <1>6, TakenValue
  <2>2. r.pid \notin {"DMX_START_ADDRESS", "DMX_PERSONALITY"} /\ UNCHANGED shown
    BY <1>6, <2>1 DEF RDM, Changes
  <2>3. PICK w : /\ todo' = <<w>>
                 /\ r.pid \in Lasting => w = Write(FieldOf[r.pid], Asked(r))
                 /\ r.pid \notin Lasting => w.field \notin PromisedFields
    BY <2>1, SetterWrites
  <2>4. w.field \notin Cached
    <3>1. r.pid \in Lasting => FieldOf[r.pid] = "serial_number"
      BY <2>2 DEF Lasting, FieldOf
    <3> QED
      BY <2>3, <3>1 DEF Write, PromisedFields, Cached
  <2>5. Settled("start_address")' /\ Settled("personality")'
    BY <2>3, <2>4 DEF Settled, Cached
  <2> QED
    BY <1>1, <1>2, <1>3, <2>2, <2>5, SettledLevels
<1> QED
  BY <1>1, <1>2, <1>4, <1>5, <1>6

LEMMA StepLevelsInv ==
  ASSUME SettingsInv, LevelsInv, [FirmwareNext]_firmwareVars
  PROVE  LevelsInv'
<1>1. TypeOK /\ LevelsType
  BY DEF SettingsInv, StoreInv, TypeInv, LevelsInv
<1>2. CASE PowerOn
  <2>1. phase' = "init" /\ message' \in Leftovers /\ UNCHANGED <<pwm, shown>>
    BY <1>2 DEF PowerOn, SwitchOn, SettingsInit, Boot
  <2>2. message' \in [0 .. BUFFER_PREFIX - 1 -> Byte]
    BY <2>1, BufferAssumption
  <2> QED
    BY <2>1, <2>2, IdleLevels DEF CountInv
<1>3. CASE Run
  BY <1>3, RunLevels
<1>4. CASE Quiet
  <2>1. UNCHANGED <<message, pwm, shown>>
    BY <1>4 DEF Quiet
  <2>2. message' \in [0 .. BUFFER_PREFIX - 1 -> Byte]
    BY <1>1, <2>1 DEF LevelsType
  <2>3. CASE Acknowledge
    <3>1. UNCHANGED <<phase, todo, m_start_address, m_personality>>
      BY <2>3 DEF Acknowledge, Reply, settingsVars, ram, control
    <3> QED
      BY <2>1, <2>2, <3>1, KeptLevels
  <2>4. CASE Idle
    <3>1. /\ phase = "run" /\ UNCHANGED <<phase, m_start_address, m_personality>>
          /\ todo' = LabelWrites
      BY <2>4 DEF Idle, PerformWrite, Call, Ready, ram
    <3>2. \A k \in 1 .. Len(todo') : todo'[k].field \in {"label", "label_size"}
      BY <3>1 DEF LabelWrites, Write
    <3>3. Settled("start_address")' /\ Settled("personality")'
      BY <3>2 DEF Settled
    <3> QED
      BY <2>1, <2>2, <3>1, <3>3, SettledLevels
  <2> QED
    BY <1>4, <2>3, <2>4 DEF Quiet
<1>5. CASE PowerFails
  <2>1. /\ phase' = "off" /\ UNCHANGED message
        /\ pwm' = [i \in Outputs |-> NoLevel] /\ shown' = NothingShown
    BY <1>5 DEF PowerFails, PowerLoss, PowerOff
  <2>2. CountInv'
    BY <2>1 DEF CountInv
  <2>3. message' \in [0 .. BUFFER_PREFIX - 1 -> Byte]
    BY <1>1, <2>1 DEF LevelsType
  <2> QED
    BY <2>1, <2>2, <2>3, IdleLevels
<1>6. ASSUME NEW m \in HostMessages, TakeAction(m) PROVE LevelsInv'
  <2>1. /\ phase = "run" /\ todo = <<>>
        /\ UNCHANGED <<phase, todo, m_start_address, m_personality>>
        /\ message' = Overwritten(m.data)
    BY <1>6 DEF TakeAction, Waiting, Ready, settingsVars, ram, control
  <2>2. message' \in [0 .. BUFFER_PREFIX - 1 -> Byte]
    <3>1. m.data \in Seq(Byte)
      BY BufferAssumption
    <3> QED
      BY <1>1, <2>1, <3>1, OverwrittenType DEF LevelsType
  <2>3. CASE WidgetRequest(m) \/ OtherMessage(m)
    <3>1. UNCHANGED <<pwm, shown>>
      BY <2>3 DEF WidgetRequest, OtherMessage
    <3> QED
      BY <2>1, <2>2, <3>1, KeptLevels
  <2>4. CASE DmxData(m)
    <3>1. LevelsType' /\ LightsInv'
      BY <1>1, <1>6, <2>4, DmxLevels
    <3>2. ShownInv' /\ CountInv'
      BY <2>1 DEF ShownInv, CountInv, Settled
    <3> QED
      BY <3>1, <3>2 DEF LevelsInv
  <2> QED
    BY <1>6, <2>3, <2>4 DEF TakeAction
<1>7. ASSUME NEW r \in Requests, RDM(r) PROVE LevelsInv'
  BY <1>7, RequestLevels
<1>8. CASE UNCHANGED firmwareVars
  <2>1. UNCHANGED <<message, phase, todo, m_start_address, m_personality, pwm, shown>>
    BY <1>8 DEF firmwareVars, rdmVars, settingsVars, ram, control
  <2> QED
    BY <1>1, <2>1, KeptLevels DEF LevelsType
<1> QED
  BY <1>2, <1>3, <1>4, <1>5, <1>6, <1>7, <1>8 DEF FirmwareNext

LEMMA FirmwareInitLevels == FirmwareInit => LevelsInv /\ UsableInv
<1> SUFFICES ASSUME FirmwareInit PROVE LevelsInv /\ UsableInv
  OBVIOUS
<1>1. /\ phase = "off" /\ todo = <<>> /\ eeprom = [a \in Address |-> ERASED]
      /\ message \in [0 .. BUFFER_PREFIX - 1 -> Byte]
      /\ pwm = [i \in Outputs |-> NoLevel] /\ shown = NothingShown
  BY BufferAssumption DEF FirmwareInit, RDMInit, Init
<1>2. LevelsType
  BY <1>1 DEF LevelsType, NothingShown
<1>3. LightsInv /\ ShownInv /\ CountInv
  BY <1>1 DEF LightsInv, ShownInv, CountInv
<1>4. ~Configured
  <2>1. 0 \in Address /\ 1 \in Address
    BY LabelLength DEF Address
  <2>2. FieldBytes("magic")[1] = 255 /\ FieldBytes("magic")[2] = 255
    BY <1>1, <2>1 DEF FieldBytes, Width, Offset, ERASED
  <2> QED
    BY <2>2 DEF Configured, IntOf, MAGIC_NUMBER
<1>5. UsableInv
  BY <1>1, <1>4 DEF UsableInv
<1> QED
  BY <1>2, <1>3, <1>5 DEF LevelsInv

\* For any requests, messages, label length and number of starts, the settings,
\* the buffer, the history and the levels keep their types: SetPWM drives every
\* output with a byte from the moment the main loop runs, also from the byte
\* beyond a short frame and what an earlier message left in the buffer.
THEOREM FirmwareTypeCorrect == FirmwareSpec => []FirmwareTypeOK
<1>1. SettingsInv /\ LevelsInv /\ [FirmwareNext]_firmwareVars => (SettingsInv /\ LevelsInv)'
  BY StepSettingsInv, StepLevelsInv
<1>2. FirmwareInit => SettingsInv /\ LevelsInv
  BY FirmwareInitStore, FirmwareInitLevels
<1>3. SettingsInv /\ LevelsInv => FirmwareTypeOK
  BY DEF SettingsInv, StoreInv, TypeInv, LevelsInv, LevelsType, FirmwareTypeOK
<1> QED
  BY <1>1, <1>2, <1>3, PTL DEF FirmwareSpec

-----------------------------------------------------------------------------
(* The lights of a device that waits for a message. *)

\* The code inverts the outputs the personality describes.
LEMMA InvertedOutputs ==
  ASSUME m_personality \in 1 .. 3, NEW i \in Outputs
  PROVE  Invert(i) <=> i \in Inverted[m_personality]
<1>1. i \in 0 .. 5
  BY DEF Outputs
<1>2. CASE m_personality = 1
  BY <1>1, <1>2 DEF Invert, Inverted
<1>3. CASE m_personality = 2
  BY <1>1, <1>3 DEF Invert, Inverted
<1>4. CASE m_personality = 3
  BY <1>1, <1>4 DEF Invert, Inverted, Outputs
<1> QED
  BY <1>2, <1>3, <1>4

LEMMA ReadyLights == SettingsInv /\ LevelsInv /\ UsableInv => LightsShowSlots
<1> SUFFICES ASSUME SettingsInv, LevelsInv, UsableInv, Ready, TornWrites => Usable
             PROVE  \A i \in Outputs :
                      LET slot == IntOf(FieldBytes("start_address")) + i
                          personality == FieldBytes("personality")[1]
                      IN  slot \in Slots /\ shown[slot] # NoLevel
                            => pwm[i] = IF i \in Inverted[personality]
                                        THEN 255 - shown[slot] ELSE shown[slot]
  BY DEF LightsShowSlots
<1>1. phase = "run" /\ todo = <<>>
  BY DEF Ready
<1>2. \A f : Settled(f)
  BY <1>1 DEF Settled
<1>3. /\ m_start_address = IntOf(FieldBytes("start_address"))
      /\ m_personality = FieldBytes("personality")[1]
  BY <1>1, <1>2 DEF SettingsInv, StoreInv, CacheInv, StartAddressCoherent, PersonalityCoherent
<1>4. m_start_address # 0 /\ m_personality \in 1 .. 3
  <2>1. CASE TornWrites
    <3>1. DOMAIN Inverted = 1 .. 3
      BY DEF Inverted
    <3> QED
      BY <1>3, <2>1, <3>1 DEF Usable
  <2>2. CASE ~TornWrites
    <3>1. Configured
      BY <1>1 DEF SettingsInv, SetUpInv
    <3>2. \A f \in Cached : UsableBytes(f, FieldBytes(f))
      BY <1>2, <2>2, <3>1 DEF UsableInv
    <3> QED
      BY <1>3, <3>2 DEF Cached, UsableBytes
  <2> QED
    BY <2>1, <2>2
<1>5. ASSUME NEW i \in Outputs, NEW slot, slot = m_start_address + i, slot \in Slots,
             shown[slot] # NoLevel
      PROVE  pwm[i] = IF i \in Inverted[m_personality] THEN 255 - shown[slot] ELSE shown[slot]
  <2>1. pwm[i] = Level(i, shown[slot])
    BY <1>1, <1>4, <1>5 DEF LevelsInv, LightsInv
  <2>2. Invert(i) <=> i \in Inverted[m_personality]
    BY <1>4, InvertedOutputs
  <2> QED
    BY <2>1, <2>2 DEF Level
<1> QED
  BY <1>3, <1>5

\* Whenever the device waits for a message, an output shows the value last sent
\* for its slot: any sequence of frames of any length, other messages through
\* the same buffer, RDM requests, label writes and loss of power.  With power
\* lost inside a write the address and the personality may be values no handler
\* lets pass; with one the code can work with, the lights are right again.
THEOREM LightsFollowSlots == FirmwareSpec => []LightsShowSlots
<1>1. SettingsInv /\ LevelsInv /\ UsableInv /\ [FirmwareNext]_firmwareVars
        => (SettingsInv /\ LevelsInv /\ UsableInv)'
  BY StepSettingsInv, StepLevelsInv, StepUsableInv
<1>2. FirmwareInit => SettingsInv /\ LevelsInv /\ UsableInv
  BY FirmwareInitStore, FirmwareInitLevels
<1> QED
  BY <1>1, <1>2, ReadyLights, PTL DEF FirmwareSpec
===============================================================================
