-------------------------- MODULE RDMPromisesProofs ---------------------------
(***************************************************************************)
(* Theorems about what RDMHandlers acknowledges: it is stored, survives    *)
(* the loss of power at any byte, and is what the device reports.          *)
(***************************************************************************)
EXTENDS RDMHandlersProofs

\* The promises kept in the EEPROM, and where.
FieldOf ==
  [DMX_START_ADDRESS       |-> "start_address",
   DMX_PERSONALITY         |-> "personality",
   MANUFACTURER_SET_SERIAL |-> "serial_number"]

Lasting == DOMAIN FieldOf

\* A device that runs is set up, or about to be: Init writes the magic number
\* first.
SetUpInv ==
  phase # "off" => Configured \/ (todo # <<>> /\ Head(todo).field = "magic")

\* The bytes a SET promises.
Asked(r) == SubSeq(r.data, 1, SetSize[r.pid])

\* The setter of a handler that has not replied is writing what was asked for,
\* or has written it.
SetterInv ==
  busy /\ request.pid \in Lasting
    => LET w == Write(FieldOf[request.pid], Asked(request))
       IN  todo = <<w>> \/ (todo = <<>> /\ FieldBytes(w.field) = w.bytes)

\* Nothing is writing a field with a promise, and Init will not.
Kept(p) ==
  host.promised[p] # Unknown
    => /\ Settled(FieldOf[p]) /\ Configured
       /\ FieldBytes(FieldOf[p]) = host.promised[p]

IdentifyKept ==
  LET promised == host.promised["IDENTIFY_DEVICE"]
  IN  promised # Unknown => <<m_identify_mode_enabled>> = promised

PromiseInv ==
  SetUpInv /\ SetterInv /\ (\A p \in Lasting : Kept(p)) /\ IdentifyKept

\* The settings' part of the invariant.
StoreInv == TypeInv /\ CacheInv /\ MagicWrites

\* The fields whose acknowledged values have to last, and the manufacturer's id,
\* which nothing sets.
PromisedFields == Cached \cup {"serial_number", "esta_id"}

-----------------------------------------------------------------------------
(* Lemmas about bytes. *)

\* What is read back from what WriteInt wrote for a word that was read.
LEMMA IntRoundTrip ==
  ASSUME NEW a \in Byte, NEW b \in Byte
  PROVE  (a * 256 + b) \div 256 = a /\ (a * 256 + b) % 256 = b
  BY DEF Byte

\* A setter called with the bytes of a request writes these bytes.
LEMMA AskedBytes ==
  ASSUME NEW d \in Seq(Byte), Len(d) >= 4
  PROVE  /\ IntBytes(IntOf(d)) = SubSeq(d, 1, 2)
         /\ LongBytes(LongOf(d)) = SubSeq(d, 1, 4)
         /\ <<d[1]>> = SubSeq(d, 1, 1)
<1>1. d[1] \in Byte /\ d[2] \in Byte /\ d[3] \in Byte /\ d[4] \in Byte
  OBVIOUS
<1>2. ASSUME NEW n \in 1 .. 4
      PROVE  /\ SubSeq(d, 1, n) \in Seq(Byte) /\ Len(SubSeq(d, 1, n)) = n
             /\ \A i \in 1 .. n : SubSeq(d, 1, n)[i] = d[i]
  OBVIOUS
<1>3. IntBytes(IntOf(d)) = <<d[1], d[2]>>
  BY <1>1, IntRoundTrip DEF IntBytes, IntOf
<1>4. LongBytes(LongOf(d)) = <<d[1], d[2]>> \o <<d[3], d[4]>>
  BY <1>1, IntRoundTrip DEF LongBytes, LongOf, IntBytes, IntOf
<1>5. /\ <<d[1], d[2]>> \o <<d[3], d[4]>> \in Seq(Byte)
      /\ Len(<<d[1], d[2]>> \o <<d[3], d[4]>>) = 4
      /\ \A i \in 1 .. 4 : (<<d[1], d[2]>> \o <<d[3], d[4]>>)[i] = d[i]
  BY <1>1
<1>6. LongBytes(LongOf(d)) = SubSeq(d, 1, 4)
  <2>1. 4 \in 1 .. 4
    OBVIOUS
  <2> QED
    BY <1>2, <1>4, <1>5, <2>1, SeqEqual
<1>7. <<d[1], d[2]>> = SubSeq(d, 1, 2)
  <2>1. 2 \in 1 .. 4 /\ <<d[1], d[2]>> \in Seq(Byte) /\ Len(<<d[1], d[2]>>) = 2
    BY <1>1
  <2>2. \A i \in 1 .. 2 : <<d[1], d[2]>>[i] = d[i]
    OBVIOUS
  <2> QED
    BY <1>2, <2>1, <2>2, SeqEqual
<1>8. <<d[1]>> = SubSeq(d, 1, 1)
  <2>1. 1 \in 1 .. 4 /\ <<d[1]>> \in Seq(Byte) /\ Len(<<d[1]>>) = 1
    BY <1>1
  <2>2. \A i \in 1 .. 1 : <<d[1]>>[i] = d[i]
    OBVIOUS
  <2> QED
    BY <1>2, <2>1, <2>2, SeqEqual
<1> QED
  BY <1>3, <1>6, <1>7, <1>8

-----------------------------------------------------------------------------
(* The settings. *)

LEMMA InitStoreInv == Init => StoreInv /\ SetUpInv
<1>1. Init => CacheInv /\ MagicWrites /\ SetUpInv
  BY DEF Init, CacheInv, Progress, StartAddressCoherent, PersonalityCoherent,
     MagicWrites, SetUpInv
<1> QED
  BY <1>1, InitTypeInv DEF StoreInv

LEMMA StepStoreInv == StoreInv /\ AnyStep => StoreInv'
  BY StepTypeInv, StepCacheInv, StepMagicWrites DEF StoreInv

\* Once a device runs it is set up, and stays so.
LEMMA StepSetUpInv ==
  ASSUME StoreInv, SetUpInv, AnyStep
  PROVE  SetUpInv'
<1>1. TypeInv /\ CacheInv /\ MagicWrites
  BY DEF StoreInv
<1>2. CASE Configured
  BY <1>1, <1>2, StepConfigured DEF SetUpInv
<1>3. CASE ~Configured /\ phase # "off"
  <2>1. todo # <<>> /\ Head(todo).field = "magic"
    BY <1>3 DEF SetUpInv
  <2>2. CASE Return
    <3>1. FieldBytes("magic") = Head(todo).bytes
      BY <1>1, <2>1, <2>2, ReturnedBytes
    <3>2. Head(todo).bytes = IntBytes(MAGIC_NUMBER)
      <4>1. 1 \in 1 .. Len(todo) /\ Head(todo) = todo[1]
        BY <1>1, <2>1 DEF TypeInv, TypeOK
      <4> QED
        BY <1>1, <2>1, <4>1 DEF MagicWrites
    <3>3. IntOf(IntBytes(MAGIC_NUMBER)) = MAGIC_NUMBER
      BY DEF IntOf, IntBytes, MAGIC_NUMBER
    <3> QED
      BY <1>3, <3>1, <3>2, <3>3 DEF Configured
  <2>3. CASE WriteByte
    BY <2>1, <2>3 DEF WriteByte, SetUpInv
  <2>4. CASE PowerOff
    BY <2>4 DEF PowerOff, SetUpInv
  <2>5. CASE UNCHANGED settingsVars
    BY <2>1, <2>5 DEF settingsVars, control, SetUpInv
  <2>6. ~SettingsInit /\ ~IncrementDevicePowerCycles
    BY <1>3, <2>1 DEF SettingsInit, Boot, IncrementDevicePowerCycles
  <2>7. ~Ready
    BY <2>1 DEF Ready
  <2> QED
    BY <2>2, <2>3, <2>4, <2>5, <2>6, <2>7
    DEF AnyStep, QuietStep, Internal, PerformWrite, Call, SetDeviceLabel
<1>4. CASE ~Configured /\ phase = "off"
  <2>1. CASE SettingsInit
    <3>1. SetDefaults
      BY <1>4, <2>1 DEF SettingsInit, Configured
    <3>2. todo' # <<>> /\ Head(todo').field = "magic"
      BY <3>1 DEF SetDefaults, InitWrites, Write
    <3> QED
      BY <3>2 DEF SetUpInv
  <2>2. CASE UNCHANGED settingsVars
    BY <1>4, <2>2 DEF settingsVars, control, SetUpInv
  <2>3. todo = <<>> /\ ~Ready
    BY <1>1, <1>4 DEF TypeInv, Ready
  <2> QED
    BY <1>4, <2>1, <2>2, <2>3
    DEF AnyStep, QuietStep, Internal, PerformWrite, Call, SetDeviceLabel,
        IncrementDevicePowerCycles, WriteByte, Return, PowerOff
<1> QED
  BY <1>2, <1>3, <1>4

\* A quiet step of a device that is set up leaves a promised field alone that
\* is not being written.
LEMMA QuietKeeps ==
  ASSUME StoreInv, Configured, QuietStep, NEW f \in PromisedFields, Settled(f)
  PROVE  Settled(f)' /\ FieldBytes(f)' = FieldBytes(f)
<1>1. TypeInv
  BY DEF StoreInv
<1>2. f \notin {"power_cycles", "label", "label_size"}
  BY DEF PromisedFields, Cached
<1>3. CASE WriteByte
  <2>1. 1 \in 1 .. Len(todo) /\ Head(todo) = todo[1]
    BY <1>1, <1>3 DEF WriteByte, TypeInv, TypeOK
  <2>2. f # Head(todo).field
    BY <2>1 DEF Settled
  <2>3. f \in CoreFields
    BY DEF PromisedFields, Cached, CoreFields, Field
  <2> QED
    BY <1>1, <1>3, <2>2, <2>3, WriteByteKeeps DEF WriteByte, Settled
<1>4. CASE Return
  <2>1. \A k \in 1 .. Len(todo') : k + 1 \in 1 .. Len(todo) /\ todo'[k] = todo[k + 1]
    BY <1>1, <1>4 DEF Return, TypeInv, TypeOK
  <2> QED
    BY <1>4, <2>1, FieldBytesUnchanged DEF Return, Settled
<1>5. CASE SettingsInit
  <2>1. LoadCaches /\ UNCHANGED eeprom
    BY <1>5 DEF SettingsInit, Boot, Configured
  <2> QED
    BY <2>1, FieldBytesUnchanged DEF LoadCaches, Settled
<1>6. CASE IncrementDevicePowerCycles
  BY <1>2, <1>6, FieldBytesUnchanged DEF IncrementDevicePowerCycles, PowerCyclesWrite,
     Write, Settled
<1>7. CASE PowerOff
  BY <1>7, FieldBytesUnchanged DEF PowerOff, Settled
<1>8. CASE PerformWrite
  BY <1>2, <1>8, FieldBytesUnchanged DEF PerformWrite, Call, LabelWrites, Write, Settled
<1>9. CASE (\E l \in Seq(Byte) : SetDeviceLabel(l)) \/ UNCHANGED settingsVars
  BY <1>9, FieldBytesUnchanged DEF SetDeviceLabel, control, settingsVars, Settled
<1> QED
  BY <1>3, <1>4, <1>5, <1>6, <1>7, <1>8, <1>9 DEF QuietStep, Internal

-----------------------------------------------------------------------------
(* The promises. *)

LEMMA LastingFields ==
  ASSUME NEW p \in Lasting
  PROVE  p \in Promisable /\ p # "IDENTIFY_DEVICE" /\ FieldOf[p] \in PromisedFields
  BY DEF Lasting, FieldOf, Promisable, PromisedFields, Cached

\* A promise that a SET makes or withdraws leaves the others alone.
LEMMA PromiseUpdates ==
  ASSUME host \in HostType, NEW p, NEW value, NEW q \in Promisable
  PROVE  Promise(p, value).promised[q] = IF q = p THEN value ELSE host.promised[q]
<1>1. CASE p \in Promisable
  <2> DEFINE kept == [host.promised EXCEPT ![p] = value]
  <2>1. kept[q] = IF q = p THEN value ELSE host.promised[q]
    BY <1>1 DEF HostType
  <2> HIDE DEF kept
  <2>2. [host EXCEPT !.promised = kept].promised = kept
    BY DEF HostType
  <2> QED
    BY <1>1, <2>1, <2>2 DEF Promise, kept
<1>2. CASE p \notin Promisable
  BY <1>2 DEF Promise
<1> QED
  BY <1>1, <1>2

\* What a handler that calls its setter will have written.
LEMMA SetterWrites ==
  ASSUME NEW r \in Requests, CallSetter(r)
  PROVE  /\ UNCHANGED eeprom
         /\ \E w : /\ todo' = <<w>>
                   /\ r.pid \in Lasting => w = Write(FieldOf[r.pid], Asked(r))
                   /\ r.pid \notin Lasting => w.field \notin PromisedFields
<1>1. /\ IntBytes(IntOf(r.data)) = SubSeq(r.data, 1, 2)
      /\ LongBytes(LongOf(r.data)) = SubSeq(r.data, 1, 4)
      /\ <<r.data[1]>> = SubSeq(r.data, 1, 1)
  BY AskedBytes, RequestAssumption
<1>2. CASE r.pid = "DMX_PERSONALITY" /\ SetPersonality(r.data[1])
  <2>1. r.pid \in Lasting /\ FieldOf[r.pid] = "personality" /\ SetSize[r.pid] = 1
    BY <1>2 DEF Lasting, FieldOf, SetSize
  <2>2. Asked(r) = <<r.data[1]>>
    BY <1>1, <2>1, Zenon DEF Asked
  <2> QED
    BY <1>2, <2>1, <2>2 DEF SetPersonality, Call, PersonalityWrite, Write
<1>3. CASE r.pid = "DMX_START_ADDRESS" /\ SetStartAddress(IntOf(r.data))
  <2>1. /\ r.pid \in Lasting /\ FieldOf[r.pid] = "start_address"
        /\ Asked(r) = IntBytes(IntOf(r.data))
    BY <1>1, <1>3 DEF Lasting, FieldOf, Asked, SetSize
  <2> QED
    BY <1>3, <2>1 DEF SetStartAddress, Call, StartAddressWrite, Write
<1>4. CASE r.pid = "MANUFACTURER_SET_SERIAL" /\ SetSerialNumber(LongOf(r.data))
  <2>1. /\ r.pid \in Lasting /\ FieldOf[r.pid] = "serial_number"
        /\ Asked(r) = LongBytes(LongOf(r.data))
    BY <1>1, <1>4 DEF Lasting, FieldOf, Asked, SetSize
  <2> QED
    BY <1>4, <2>1 DEF SetSerialNumber, Call, SerialNumberWrite, Write
<1>5. CASE /\ r.pid \in {"SENSOR_VALUE", "RECORD_SENSORS"}
           /\ \E v : SaveSensorValue(v)
  <2>1. r.pid \notin Lasting /\ "sensor" \notin PromisedFields
    BY <1>5 DEF Lasting, FieldOf, PromisedFields, Cached
  <2> QED
    BY <1>5, <2>1 DEF SaveSensorValue, Call, SensorWrite, Write
<1>6. CASE r.pid = "DEVICE_POWER_CYCLES" /\ SetDevicePowerCycles(LongOf(r.data))
  <2>1. r.pid \notin Lasting /\ "power_cycles" \notin PromisedFields
    BY <1>6 DEF Lasting, FieldOf, PromisedFields, Cached
  <2> QED
    BY <1>6, <2>1 DEF SetDevicePowerCycles, Call, PowerCyclesWrite, Write
<1> QED
  BY <1>2, <1>3, <1>4, <1>5, <1>6 DEF CallSetter

\* A quiet step keeps what was promised and is promised still.
LEMMA QuietKept ==
  ASSUME StoreInv, PromiseInv, QuietStep, NEW p \in Lasting,
         host'.promised[p] \in {Unknown, host.promised[p]}
  PROVE  Kept(p)'
<1>1. SUFFICES ASSUME host'.promised[p] = host.promised[p], host.promised[p] # Unknown
               PROVE  Kept(p)'
  BY DEF Kept
<1>2. Settled(FieldOf[p]) /\ Configured /\ FieldBytes(FieldOf[p]) = host.promised[p]
  BY <1>1 DEF PromiseInv, Kept
<1>3. Settled(FieldOf[p])' /\ FieldBytes(FieldOf[p])' = FieldBytes(FieldOf[p])
  BY <1>2, QuietKeeps, LastingFields
<1>4. Configured'
  BY <1>2, StepConfigured DEF StoreInv, AnyStep
<1> QED
  BY <1>1, <1>2, <1>3, <1>4 DEF Kept

\* The setter of a handler is called, goes on, and returns.
LEMMA StepSetterInv ==
  ASSUME StoreInv, RDMTypeInv, PromiseInv, [RDMNext]_vars
  PROVE  SetterInv'
<1>1. /\ TypeInv /\ CacheInv
      /\ busy => phase = "run" /\ request \in Requests
  BY DEF StoreInv, RDMTypeInv, BusyInv
<1>2. ASSUME ~busy' PROVE SetterInv'
  BY <1>2 DEF SetterInv
<1>3. ASSUME UNCHANGED <<busy, request, todo, eeprom>> PROVE SetterInv'
  BY <1>3 DEF PromiseInv, SetterInv, Write, Asked, FieldBytes
<1>4. CASE Continue
  <2>1. UNCHANGED <<busy, request>>
    BY <1>4 DEF Continue
  <2> SUFFICES ASSUME busy, request.pid \in Lasting PROVE SetterInv'
    BY <1>2, <2>1 DEF SetterInv
  <2> DEFINE w == Write(FieldOf[request.pid], Asked(request))
  <2>2. todo = <<w>> \/ (todo = <<>> /\ FieldBytes(w.field) = w.bytes)
    BY DEF PromiseInv, SetterInv
  <2>3. w' = w
    BY <2>1 DEF Write, Asked
  <2>4. w.field # "label"
    BY LastingFields DEF Write, PromisedFields, Cached
  <2> HIDE DEF w
  <2>5. CASE WriteByte
    <3>1. todo = <<w>> /\ todo' = <<w>>
      BY <2>2, <2>5 DEF WriteByte
    <3> QED
      BY <2>3, <3>1 DEF SetterInv, w
  <2>6. CASE Return
    <3>1. todo = <<w>> /\ Head(todo) = w /\ todo' = <<>> /\ UNCHANGED eeprom
      BY <2>2, <2>6 DEF Return
    <3>2. FieldBytes(w.field) = w.bytes
      BY <1>1, <2>4, <2>6, <3>1, ReturnedBytes
    <3>3. FieldBytes(w.field)' = w'.bytes
      BY <2>3, <3>1, <3>2 DEF FieldBytes
    <3> QED
      BY <2>3, <3>1, <3>3 DEF SetterInv, w
  <2>7. ~IncrementDevicePowerCycles
    BY <1>1 DEF IncrementDevicePowerCycles
  <2> QED
    BY <1>4, <2>5, <2>6, <2>7 DEF Continue
<1>5. ASSUME NEW r \in Requests, Receive(r) PROVE SetterInv'
  <2>1. CASE SetStored(r)
    <3>1. request' = r /\ CallSetter(r)
      BY <2>1 DEF SetStored
    <3>2. r.pid \in Lasting => todo' = <<Write(FieldOf[r.pid], Asked(r))>>
      BY <3>1, SetterWrites
    <3> QED
      BY <3>1, <3>2 DEF SetterInv, Write, Asked
  <2>2. CASE \E reply : Answer(r, reply)
    BY <1>2, <1>5, <2>2 DEF Receive, Waiting, Answer
  <2>3. Queued(r, "SET_RESPONSE", "DEVICE_LABEL") \/ Queued(r, "GET_RESPONSE", "STATUS_MESSAGES")
          => \E reply : Answer(r, reply)
    BY DEF Queued
  <2>4. Handle(r) => SetStored(r) \/ \E reply : Answer(r, reply)
    BY <2>3 DEF Handle, SetLabel, Get, SetLanguage, SetIdentifyDevice, GetQueuedLabel,
       GetLastLabel, GetNothingQueued
  <2>5. Refuse(r) => \E reply : Answer(r, reply)
    BY DEF Refuse
  <2> QED
    BY <1>5, <2>1, <2>2, <2>4, <2>5 DEF Receive
<1>6. CASE Acknowledge \/ PowerLoss
  BY <1>2, <1>6 DEF Acknowledge, Reply, PowerLoss
<1>7. CASE SwitchOn
  BY <1>1, <1>2, <1>7 DEF SwitchOn, SettingsInit, Boot
<1>8. CASE Idle
  BY <1>2, <1>8 DEF Idle, Waiting
<1>9. CASE UNCHANGED vars
  BY <1>3, <1>9 DEF vars, settingsVars, control
<1> QED
  BY <1>4, <1>5, <1>6, <1>7, <1>8, <1>9 DEF RDMNext

\* What a step does to the promises.
LEMMA PromiseSteps ==
  ASSUME RDMTypeInv, [RDMNext]_vars, NEW p \in Promisable
  PROVE  \/ host'.promised[p] \in {Unknown, host.promised[p]}
         \/ Acknowledge /\ p = request.pid /\ host'.promised[p] = Asked(request)
         \/ \E r \in Requests :
              /\ Receive(r) /\ SetIdentifyDevice(r) /\ p = "IDENTIFY_DEVICE"
              /\ host'.promised[p] = SubSeq(r.data, 1, 1)
<1>1. host \in HostType
  BY DEF RDMTypeInv
<1>2. ASSUME NEW q, NEW value, host' = Promise(q, value)
      PROVE  host'.promised[p] = IF p = q THEN value ELSE host.promised[p]
  BY <1>1, <1>2, PromiseUpdates
<1>3. ASSUME NEW r \in Requests, Receive(r)
      PROVE  \/ host'.promised[p] \in {Unknown, host.promised[p]}
             \/ /\ SetIdentifyDevice(r) /\ p = "IDENTIFY_DEVICE"
                /\ host'.promised[p] = SubSeq(r.data, 1, 1)
  <2>1. CASE Refuse(r) \/ Get(r) \/ SetLanguage(r)
    BY <2>1 DEF Refuse, Get, SetLanguage
  <2>2. CASE GetQueuedLabel(r) \/ GetLastLabel(r) \/ GetNothingQueued(r)
    <3>1. host'.promised = host.promised
      BY <1>1, <2>2 DEF GetQueuedLabel, GetLastLabel, GetNothingQueued, Queued, HostType
    <3> QED
      BY <3>1
  <2>3. CASE SetIdentifyDevice(r)
    <3>1. /\ r.pid = "IDENTIFY_DEVICE"
          /\ \/ host' = Promise(r.pid, Unknown)
             \/ host' = Promise(r.pid, SubSeq(r.data, 1, 1))
      BY <2>3 DEF SetIdentifyDevice
    <3> QED
      BY <1>2, <2>3, <3>1
  <2>4. CASE SetLabel(r)
    <3>1. host' = host \/ host' = [host EXCEPT !.owed = TRUE]
      BY <2>4 DEF SetLabel
    <3> QED
      BY <1>1, <3>1 DEF HostType
  <2>5. CASE SetStored(r)
    BY <1>2, <2>5 DEF SetStored
  <2> QED
    BY <1>3, <2>1, <2>2, <2>3, <2>4, <2>5 DEF Receive, Handle
<1>4. CASE Acknowledge
  <2>1. host' = host \/ host' = Promise(request.pid, Asked(request))
    BY <1>4 DEF Acknowledge, Reply, Asked
  <2> QED
    BY <1>2, <1>4, <2>1
<1>5. CASE PowerLoss
  <2> DEFINE kept == [host.promised EXCEPT !["IDENTIFY_DEVICE"] = Unknown]
  <2>1. host' = [NoHistory EXCEPT !.promised = kept]
    BY <1>5 DEF PowerLoss
  <2>2. kept[p] \in {Unknown, host.promised[p]}
    BY <1>1 DEF HostType
  <2> HIDE DEF kept
  <2>3. host'.promised = kept
    BY <2>1 DEF NoHistory
  <2> QED
    BY <2>2, <2>3
<1>6. CASE SwitchOn \/ Continue \/ Idle \/ UNCHANGED vars
  BY <1>6 DEF SwitchOn, Continue, Idle, vars
<1> QED
  BY <1>3, <1>4, <1>5, <1>6 DEF RDMNext

LEMMA StepKept ==
  ASSUME StoreInv, RDMTypeInv, PromiseInv, [RDMNext]_vars, NEW p \in Lasting
  PROVE  Kept(p)'
<1>1. CASE host'.promised[p] \in {Unknown, host.promised[p]} /\ QuietStep
  BY <1>1, QuietKept
<1>2. CASE \E r \in Requests : Receive(r) /\ SetStored(r)
  <2>1. PICK r \in Requests : Receive(r) /\ SetStored(r)
    BY <1>2
  <2>2. /\ host \in HostType /\ host' = Promise(r.pid, Unknown)
        /\ CallSetter(r)
    BY <2>1 DEF RDMTypeInv, SetStored
  <2>3. host'.promised[p] = IF p = r.pid THEN Unknown ELSE host.promised[p]
    BY <2>2, LastingFields, PromiseUpdates
  <2>4. CASE p # r.pid /\ host.promised[p] # Unknown
    <3>1. /\ Configured /\ FieldBytes(FieldOf[p]) = host.promised[p]
      BY <2>4 DEF PromiseInv, Kept
    <3>2. UNCHANGED eeprom
      BY <2>2, SetterWrites
    <3>3. PICK w : /\ todo' = <<w>>
                   /\ r.pid \in Lasting => w = Write(FieldOf[r.pid], Asked(r))
                   /\ r.pid \notin Lasting => w.field \notin PromisedFields
      BY <2>2, SetterWrites
    <3>4. w.field # FieldOf[p]
      <4>1. CASE r.pid \in Lasting
        BY <2>4, <3>3, <4>1 DEF Lasting, FieldOf, Write
      <4>2. CASE r.pid \notin Lasting
        BY <3>3, <4>2, LastingFields
      <4> QED
        BY <4>1, <4>2
    <3>5. Settled(FieldOf[p])'
      BY <3>3, <3>4 DEF Settled
    <3>6. Configured' /\ FieldBytes(FieldOf[p])' = FieldBytes(FieldOf[p])
      BY <3>1, <3>2, FieldBytesUnchanged DEF Configured, IntOf
    <3> QED
      BY <2>3, <2>4, <3>1, <3>5, <3>6 DEF Kept
  <2> QED
    BY <2>3, <2>4 DEF Kept
<1>3. CASE Acknowledge /\ p = request.pid /\ host'.promised[p] = Asked(request)
  <2>1. Ready /\ busy /\ UNCHANGED settingsVars
    BY <1>3 DEF Acknowledge, Reply
  <2>2. todo = <<>> /\ phase = "run" /\ UNCHANGED <<eeprom, todo>>
    BY <2>1 DEF Ready, settingsVars, control
  <2>3. FieldBytes(FieldOf[p]) = Asked(request)
    BY <1>3, <2>1, <2>2 DEF PromiseInv, SetterInv, Write
  <2>4. Configured
    BY <2>2 DEF PromiseInv, SetUpInv
  <2>5. Settled(FieldOf[p])'
    BY <2>2 DEF Settled
  <2>6. Configured' /\ FieldBytes(FieldOf[p])' = FieldBytes(FieldOf[p])
    BY <2>2, <2>4, FieldBytesUnchanged DEF Configured, IntOf
  <2> QED
    BY <1>3, <2>3, <2>5, <2>6 DEF Kept
<1> QED
  <2>1. \/ host'.promised[p] \in {Unknown, host.promised[p]}
        \/ Acknowledge /\ p = request.pid /\ host'.promised[p] = Asked(request)
    BY PromiseSteps, LastingFields
  <2> QED
    BY <2>1, <1>1, <1>2, <1>3, QuietOrStored

\* The identify mode is only in RAM, and so is what is promised of it.
LEMMA StepIdentifyKept ==
  ASSUME RDMTypeInv, IdentifyKept, [RDMNext]_vars
  PROVE  IdentifyKept'
<1> DEFINE p == "IDENTIFY_DEVICE"
<1>1. p \in Promisable
  BY DEF Promisable
<1>2. CASE \E r \in Requests : Receive(r) /\ SetIdentifyDevice(r)
  <2>1. PICK r \in Requests : Receive(r) /\ SetIdentifyDevice(r)
    BY <1>2
  <2>2. /\ r.pid = p /\ m_identify_mode_enabled' = r.data[1]
        /\ host' = Promise(p, Unknown) \/ host' = Promise(p, SubSeq(r.data, 1, 1))
    BY <2>1 DEF SetIdentifyDevice
  <2>3. host'.promised[p] \in {Unknown, SubSeq(r.data, 1, 1)}
    <3>1. \A value : Promise(p, value).promised[p] = value
      BY <1>1, PromiseUpdates DEF RDMTypeInv
    <3> QED
      BY <2>2, <3>1
  <2>4. <<r.data[1]>> = SubSeq(r.data, 1, 1)
    BY AskedBytes, RequestAssumption
  <2> HIDE DEF p
  <2>5. <<m_identify_mode_enabled>>' = SubSeq(r.data, 1, 1)
    BY <2>2, <2>4
  <2> QED
    BY <2>3, <2>5 DEF IdentifyKept, p
<1>3. CASE UNCHANGED m_identify_mode_enabled /\ host'.promised[p] \in {Unknown, host.promised[p]}
  BY <1>3 DEF IdentifyKept
<1>4. CASE PowerLoss
  <2>1. host'.promised[p] = Unknown
    <3> DEFINE kept == [host.promised EXCEPT ![p] = Unknown]
    <3>1. host' = [NoHistory EXCEPT !.promised = kept]
      BY <1>4 DEF PowerLoss
    <3>2. kept[p] = Unknown
      BY <1>1 DEF RDMTypeInv, HostType
    <3> HIDE DEF kept
    <3>3. host'.promised = kept
      BY <3>1 DEF NoHistory
    <3> QED
      BY <3>2, <3>3
  <2> QED
    BY <2>1 DEF IdentifyKept
<1>5. ASSUME ~PowerLoss, ~\E r \in Requests : Receive(r) /\ SetIdentifyDevice(r)
      PROVE  UNCHANGED m_identify_mode_enabled
  <2>1. ASSUME NEW r \in Requests, Receive(r), ~SetIdentifyDevice(r)
        PROVE  UNCHANGED m_identify_mode_enabled
    BY <2>1 DEF Receive, Refuse, Handle, Get, GetQueuedLabel, GetLastLabel,
       GetNothingQueued, Queued, SetLanguage, SetLabel, SetStored, flags
  <2> QED
    BY <1>5, <2>1 DEF RDMNext, SwitchOn, Continue, Acknowledge, Reply, Idle, vars, flags
<1>6. ASSUME ~\E r \in Requests : Receive(r) /\ SetIdentifyDevice(r)
      PROVE  host'.promised[p] \in {Unknown, host.promised[p]}
  <2>1. ~(Acknowledge /\ p = request.pid)
    BY DEF Acknowledge, RDMTypeInv, BusyInv, StoredPids
  <2> QED
    BY <1>1, <1>6, <2>1, PromiseSteps
<1> QED
  BY <1>2, <1>3, <1>4, <1>5, <1>6

LEMMA StepPromiseInv ==
  StoreInv /\ RDMTypeInv /\ PromiseInv /\ [RDMNext]_vars => PromiseInv'
<1> SUFFICES ASSUME StoreInv, RDMTypeInv, PromiseInv, [RDMNext]_vars PROVE PromiseInv'
  OBVIOUS
<1>1. SetUpInv'
  BY RDMStep, StepSetUpInv DEF PromiseInv
<1>2. SetterInv'
  BY StepSetterInv
<1>3. \A p \in Lasting : Kept(p)'
  BY StepKept
<1>4. IdentifyKept'
  BY StepIdentifyKept DEF PromiseInv
<1> QED
  BY <1>1, <1>2, <1>3, <1>4 DEF PromiseInv, Lasting, FieldOf

LEMMA InitPromiseInv == RDMInit => StoreInv /\ PromiseInv
<1> SUFFICES ASSUME RDMInit PROVE StoreInv /\ PromiseInv
  OBVIOUS
<1>1. StoreInv /\ SetUpInv
  BY InitStoreInv DEF RDMInit
<1>2. \A p \in Promisable : host.promised[p] = Unknown
  BY DEF RDMInit, NoHistory
<1>3. \A p \in Lasting : Kept(p)
  BY <1>2, LastingFields DEF Kept
<1>4. IdentifyKept /\ SetterInv
  BY <1>2 DEF IdentifyKept, SetterInv, RDMInit, Promisable
<1> QED
  BY <1>1, <1>3, <1>4 DEF PromiseInv

LEMMA PromiseInvKeeps == PromiseInv => PromisesKept
<1> SUFFICES ASSUME PromiseInv, NEW p \in Promisable, host.promised[p] # Unknown
             PROVE  Stored(p) = host.promised[p]
  BY DEF PromisesKept
<1>1. CASE p \in Lasting
  BY <1>1 DEF PromiseInv, Kept, Lasting, FieldOf, Stored
<1>2. CASE p = "IDENTIFY_DEVICE"
  BY <1>2 DEF PromiseInv, IdentifyKept, Stored
<1> QED
  BY <1>1, <1>2 DEF Promisable, Lasting, FieldOf

\* A SET that was acknowledged has been stored, and no other request, write of
\* the label, loss of power at any byte, or start takes it back.
THEOREM AcknowledgedIsKept == RDMSpec => []PromisesKept
<1>1. StoreInv /\ [RDMNext]_vars => StoreInv'
  BY RDMStep, StepStoreInv
<1> QED
  BY RDMInitTypeInv, StepRDMTypeInv, InitPromiseInv, <1>1, StepPromiseInv,
     PromiseInvKeeps, PTL DEF RDMSpec

-----------------------------------------------------------------------------
(* The replies. *)

\* A field that is read as a value and sent as bytes is sent as it is stored.
LEMMA SentAsStored ==
  ASSUME TypeOK
  PROVE  /\ LongBytes(SerialNumber) = FieldBytes("serial_number")
         /\ IntBytes(IntOf(FieldBytes("start_address"))) = FieldBytes("start_address")
         /\ <<FieldBytes("personality")[1]>> = FieldBytes("personality")
<1>1. ASSUME NEW f \in Field
      PROVE  /\ FieldBytes(f) \in Seq(Byte) /\ Len(FieldBytes(f)) = Width[f]
             /\ \A i \in 1 .. Width[f] : FieldBytes(f)[i] \in Byte
  BY FieldBytesSeq, FieldBytesType DEF TypeOK
<1>2. LongBytes(SerialNumber) = FieldBytes("serial_number")
  <2> DEFINE d == FieldBytes("serial_number")
  <2>1. "serial_number" \in Field /\ Width["serial_number"] = 4
    BY DEF Field, Width
  <2>2. d \in Seq(Byte) /\ Len(d) = 4
    BY <1>1, <2>1
  <2>3. SerialNumber = LongOf(d)
    BY DEF SerialNumber
  <2> HIDE DEF d
  <2>4. LongBytes(LongOf(d)) = SubSeq(d, 1, 4)
    BY <2>2, AskedBytes
  <2>5. SubSeq(d, 1, 4) = d
    BY <2>2
  <2> QED
    BY <2>3, <2>4, <2>5 DEF d
<1>3. IntBytes(IntOf(FieldBytes("start_address"))) = FieldBytes("start_address")
  <2> DEFINE d == FieldBytes("start_address")
  <2>1. "start_address" \in Field /\ Width["start_address"] = 2
    BY DEF Field, Width
  <2>2. d \in Seq(Byte) /\ Len(d) = 2
    BY <1>1, <2>1
  <2> HIDE DEF d
  <2>3. d[1] \in Byte /\ d[2] \in Byte
    BY <2>2
  <2>4. IntBytes(IntOf(d)) = <<d[1], d[2]>>
    BY <2>3, IntRoundTrip DEF IntBytes, IntOf
  <2>5. <<d[1], d[2]>> = d
    BY <2>2
  <2> QED
    BY <2>4, <2>5 DEF d
<1>4. <<FieldBytes("personality")[1]>> = FieldBytes("personality")
  <2> DEFINE d == FieldBytes("personality")
  <2>1. "personality" \in Field /\ Width["personality"] = 1
    BY DEF Field, Width
  <2>2. d \in Seq(Byte) /\ Len(d) = 1
    BY <1>1, <2>1
  <2> HIDE DEF d
  <2>3. <<d[1]>> = d
    BY <2>2
  <2> QED
    BY <2>3 DEF d
<1> QED
  BY <1>2, <1>3, <1>4

\* Most replies report nothing but the source UID.
LEMMA SourceReport ==
  ASSUME NEW x, x.kind = "rdm", x.source = SerialNumber,
         x.class # "GET_RESPONSE" \/ x.type # "ACK" \/ x.pid = "STATUS_MESSAGES",
         NEW report \in Reported(x), report[1] \in Promisable
  PROVE  report = <<"MANUFACTURER_SET_SERIAL", LongBytes(SerialNumber)>>
<1>1. "STATUS_MESSAGES" \notin Promisable
  BY DEF Promisable
<1> QED
  BY <1>1 DEF Reported

\* The personality and the start address in a DEVICE_INFO reply.
LEMMA InfoBytes ==
  ASSUME NEW a, NEW b, NEW c
  PROVE  /\ SubSeq(<<a>> \o <<b, c>>, 1, 1) = <<a>>
         /\ SubSeq(<<a>> \o <<b, c>>, 2, 3) = <<b, c>>
<1> DEFINE S == {a, b, c}
           d == <<a>> \o <<b, c>>
<1>1. d[1] = a /\ d[2] = b /\ d[3] = c
  OBVIOUS
<1>2. a \in S /\ b \in S /\ c \in S
  OBVIOUS
<1>3. /\ <<a>> \in Seq(S) /\ Len(<<a>>) = 1 /\ <<a>>[1] = a
      /\ <<b, c>> \in Seq(S) /\ Len(<<b, c>>) = 2 /\ <<b, c>>[1] = b /\ <<b, c>>[2] = c
  BY <1>2
<1> HIDE DEF d, S
<1>4. SubSeq(d, 1, 1) = <<a>>
  <2> DEFINE t == SubSeq(d, 1, 1)
  <2>1. \A i \in 1 .. 1 : d[i] \in S
    BY <1>1, <1>2
  <2>2. t \in Seq(S) /\ Len(t) = 1 /\ \A i \in 1 .. 1 : t[i] = d[1 + i - 1]
    BY <2>1, SubSeqProperties
  <2> HIDE DEF t
  <2>3. \A i \in 1 .. 1 : t[i] = <<a>>[i]
    BY <1>1, <2>2
  <2>4. t = <<a>>
    BY <1>3, <2>2, <2>3, SeqEqual
  <2> QED
    BY <2>4 DEF t
<1>5. SubSeq(d, 2, 3) = <<b, c>>
  <2> DEFINE t == SubSeq(d, 2, 3)
  <2>1. \A i \in 2 .. 3 : d[i] \in S
    BY <1>1, <1>2
  <2>2. t \in Seq(S) /\ Len(t) = 2 /\ \A i \in 1 .. 2 : t[i] = d[2 + i - 1]
    BY <2>1, SubSeqProperties
  <2> HIDE DEF t
  <2>3. t[1] = d[2] /\ t[2] = d[3]
    BY <2>2
  <2>4. \A i \in 1 .. 2 : t[i] = <<b, c>>[i]
    BY <1>1, <1>3, <2>3
  <2>5. t = <<b, c>>
    BY <1>3, <2>2, <2>4, SeqEqual
  <2> QED
    BY <2>5 DEF t
<1> QED
  BY <1>4, <1>5 DEF d

\* Every field of the state a GET reports has the stored value.
LEMMA GetReport ==
  ASSUME TypeInv, CacheInv, Ready, NEW r, Gettable(r),
         NEW report \in Reported(Ack(r, Data(r.pid))), report[1] \in Promisable
  PROVE  report[2] = Stored(report[1])
<1> DEFINE x == Ack(r, Data(r.pid))
<1>1. /\ x.kind = "rdm" /\ x.type = "ACK" /\ x.class = "GET_RESPONSE"
      /\ x.pid = r.pid /\ x.source = SerialNumber /\ x.data = Data(r.pid)
  BY DEF Ack, RDMResponse, CustomResponse, Gettable
<1>2. /\ m_start_address = IntOf(FieldBytes("start_address"))
      /\ m_personality = FieldBytes("personality")[1]
  BY DEF CacheInv, StartAddressCoherent, PersonalityCoherent, Settled, Ready
<1>3. /\ LongBytes(SerialNumber) = FieldBytes("serial_number")
      /\ IntBytes(m_start_address) = FieldBytes("start_address")
      /\ <<m_personality>> = FieldBytes("personality")
  BY <1>2, SentAsStored DEF TypeInv
<1> HIDE DEF x
<1>4. CASE report = <<"MANUFACTURER_SET_SERIAL", LongBytes(SerialNumber)>>
  BY <1>3, <1>4 DEF Stored
<1>5. CASE r.pid = "DEVICE_INFO" /\ report = <<"DMX_PERSONALITY", SubSeq(x.data, 1, 1)>>
  <2>1. x.data = <<m_personality>> \o IntBytes(m_start_address)
    BY <1>1, <1>5 DEF Data
  <2>2. SubSeq(x.data, 1, 1) = <<m_personality>>
    BY <2>1, InfoBytes DEF IntBytes
  <2> QED
    BY <1>3, <1>5, <2>2 DEF Stored
<1>6. CASE r.pid = "DEVICE_INFO" /\ report = <<"DMX_START_ADDRESS", SubSeq(x.data, 2, 3)>>
  <2>1. x.data = <<m_personality>> \o IntBytes(m_start_address)
    BY <1>1, <1>6 DEF Data
  <2>2. SubSeq(x.data, 2, 3) = IntBytes(m_start_address)
    BY <2>1, InfoBytes DEF IntBytes
  <2> QED
    BY <1>3, <1>6, <2>2 DEF Stored
<1>7. CASE r.pid # "DEVICE_INFO" /\ report = <<r.pid, Data(r.pid)>>
  <2>1. r.pid \in {"DMX_START_ADDRESS", "DMX_PERSONALITY", "IDENTIFY_DEVICE"}
    BY <1>7 DEF Gettable, Promisable, PID_DEFINITIONS, Pid
  <2> QED
    BY <1>3, <1>7, <2>1 DEF Data, Stored
<1>8. \/ report = <<"MANUFACTURER_SET_SERIAL", LongBytes(SerialNumber)>>
      \/ /\ r.pid = "DEVICE_INFO"
         /\ report \in {<<"DMX_PERSONALITY", SubSeq(x.data, 1, 1)>>,
                        <<"DMX_START_ADDRESS", SubSeq(x.data, 2, 3)>>}
      \/ r.pid # "DEVICE_INFO" /\ report = <<r.pid, Data(r.pid)>>
  BY <1>1 DEF Reported, x
<1> QED
  BY <1>4, <1>5, <1>6, <1>7, <1>8

\* Refusals are status codes and NACKs.
LEMMA RefusalReplies ==
  ASSUME NEW r, NEW reply \in Refusal(r)
  PROVE  (\E c : reply = Status(c)) \/ \E reason : reply = Nack(r, reason)
<1> DEFINE checks == Checks(r)
           Sent(check) == CASE check.sends = "status" -> Status(check.what)
                            [] check.sends = "nack" -> Nack(r, check.what)
                            [] OTHER -> NackOrBroadcast(r, check.what)
<1> HIDE DEF checks
<1>1. PICK k \in 1 .. Len(checks) : reply = Sent(checks[k])
  BY DEF Refusal, checks
<1>2. CASE checks[k].sends = "status"
  BY <1>1, <1>2
<1>3. CASE checks[k].sends = "nack"
  BY <1>1, <1>3
<1>4. CASE checks[k].sends \notin {"status", "nack"}
  BY <1>1, <1>4 DEF NackOrBroadcast
<1> QED
  BY <1>2, <1>3, <1>4

\* A reply that is sent while the promises are kept, and reports what is stored.
LEMMA TrueReply ==
  ASSUME PromisesKept', NEW reply,
         NEW before \in {<<>>, <<Status("INVALID_COMMAND")>>},
         replies' = Append(before, reply),
         \A report \in Reported(reply) :
           report[1] \in Promisable => report[2] = Stored(report[1])'
  PROVE  AnswersMatchPromises'
<1>1. Reported(Status("INVALID_COMMAND")) = {}
  BY DEF Reported, Status
<1>2. \A k \in 1 .. Len(replies') : replies'[k] \in {reply, Status("INVALID_COMMAND")}
  <2>1. CASE before = <<>>
    BY <2>1
  <2>2. CASE before = <<Status("INVALID_COMMAND")>>
    BY <2>2
  <2> QED
    BY <2>1, <2>2
<1> SUFFICES ASSUME NEW k \in 1 .. Len(replies'), NEW report \in Reported(replies'[k]),
                    report[1] \in Promisable, host'.promised[report[1]] # Unknown
             PROVE  report[2] = host'.promised[report[1]]
  BY DEF AnswersMatchPromises, Reported, LongBytes
<1>3. report \in Reported(reply)
  BY <1>1, <1>2
<1>4. report[2] = Stored(report[1])'
  BY <1>3
<1>5. Stored(report[1])' = host'.promised[report[1]]
  BY DEF PromisesKept, Stored
<1> QED
  BY <1>4, <1>5

\* A reply that reports only the source UID, or nothing.
LEMMA SourceReply ==
  ASSUME TypeInv, UNCHANGED eeprom, NEW reply,
         \/ reply.kind = "status"
         \/ /\ reply.kind = "rdm" /\ reply.source = SerialNumber
            /\ reply.class # "GET_RESPONSE" \/ reply.type # "ACK" \/ reply.pid = "STATUS_MESSAGES",
         NEW report \in Reported(reply), report[1] \in Promisable
  PROVE  report[2] = Stored(report[1])'
<1>1. reply.kind = "rdm"
  BY DEF Reported
<1>2. report = <<"MANUFACTURER_SET_SERIAL", LongBytes(SerialNumber)>>
  BY <1>1, SourceReport
<1>3. LongBytes(SerialNumber) = FieldBytes("serial_number")
  BY SentAsStored DEF TypeInv
<1>4. FieldBytes("serial_number")' = FieldBytes("serial_number")
  BY FieldBytesUnchanged
<1> QED
  BY <1>2, <1>3, <1>4 DEF Stored

\* A reply that is sent at once: to a GET it shows what is stored, any other
\* shows the source UID at most.
LEMMA AnswerReports ==
  ASSUME StoreInv, NEW r \in Requests, Receive(r), NEW reply, Answer(r, reply),
         NEW report \in Reported(reply), report[1] \in Promisable
  PROVE  report[2] = Stored(report[1])'
<1>1. Ready /\ TypeInv /\ CacheInv
  BY DEF Receive, Waiting, StoreInv
<1>2. \A other : Answer(r, other) => other = reply
  <2> SUFFICES ASSUME NEW other, Answer(r, other) PROVE other = reply
    OBVIOUS
  <2>1. Append(Preface(r), other) = Append(Preface(r), reply)
    BY DEF Answer
  <2>2. CASE Preface(r) = <<>>
    BY <2>1, <2>2
  <2>3. CASE Preface(r) = <<Status("INVALID_COMMAND")>>
    <3>1. ASSUME NEW x PROVE Append(<<Status("INVALID_COMMAND")>>, x)[2] = x
      OBVIOUS
    <3> QED
      BY <2>1, <2>3, <3>1
  <2> QED
    BY <2>2, <2>3, PrefaceType
<1>3. ASSUME UNCHANGED eeprom,
             \/ reply.kind = "status"
             \/ /\ reply.kind = "rdm" /\ reply.source = SerialNumber
                /\ reply.class # "GET_RESPONSE" \/ reply.type # "ACK"
                     \/ reply.pid = "STATUS_MESSAGES"
      PROVE  report[2] = Stored(report[1])'
  BY <1>1, <1>3, SourceReply
<1>4. CASE Refuse(r)
  <2>1. UNCHANGED eeprom /\ reply \in Refusal(r)
    BY <1>2, <1>4 DEF Refuse, settingsVars
  <2>2. (\E c : reply = Status(c)) \/ \E reason : reply = Nack(r, reason)
    BY <2>1, RefusalReplies
  <2> QED
    BY <1>3, <2>1, <2>2 DEF Status, Nack, RDMResponse, CustomResponse
<1>5. CASE Get(r)
  <2>1. /\ Gettable(r) /\ reply = Ack(r, Data(r.pid))
        /\ UNCHANGED <<eeprom, m_identify_mode_enabled>>
    BY <1>2, <1>5 DEF Get, settingsVars, flags
  <2>2. report[2] = Stored(report[1])
    BY <1>1, <2>1, GetReport
  <2>3. Stored(report[1])' = Stored(report[1])
    BY <2>1 DEF Stored, FieldBytes, Promisable
  <2> QED
    BY <2>2, <2>3
<1>6. CASE GetQueuedLabel(r) \/ GetLastLabel(r) \/ GetNothingQueued(r)
  <2>1. PICK class, p :
          /\ Queued(r, class, p)
          /\ class = "SET_RESPONSE" \/ p = "STATUS_MESSAGES"
    BY <1>6 DEF GetQueuedLabel, GetLastLabel, GetNothingQueued
  <2>2. UNCHANGED eeprom
    BY <2>1 DEF Queued, settingsVars
  <2>3. reply = [CustomResponse("ACK", class, p, <<>>) EXCEPT !.count = m_message_count']
    BY <1>2, <2>1 DEF Queued
  <2> QED
    BY <1>3, <2>1, <2>2, <2>3 DEF CustomResponse
<1>7. CASE SetLanguage(r) \/ SetIdentifyDevice(r) \/ SetLabel(r)
  <2>1. UNCHANGED eeprom
    BY <1>7 DEF SetLanguage, SetIdentifyDevice, SetLabel, SetDeviceLabel, settingsVars
  <2>2. Settable(r) /\ reply \in {AckOrBroadcast(r), Status("BROADCAST"), AckTimer(r)}
    BY <1>2, <1>7 DEF SetLanguage, SetIdentifyDevice, SetLabel
  <2> QED
    BY <1>3, <2>1, <2>2
    DEF Settable, AckOrBroadcast, Ack, AckTimer, Status, RDMResponse, CustomResponse
<1>8. ~SetStored(r)
  BY <1>1 DEF SetStored, Answer, Receive, Waiting
<1> QED
  BY <1>4, <1>5, <1>6, <1>7, <1>8 DEF Receive, Handle

\* What was told stays true: no step makes a promise that an earlier answer
\* to the same request contradicts.
LEMMA AnswersStay ==
  ASSUME AnswersMatchPromises, UNCHANGED replies,
         \A p \in Promisable : host'.promised[p] \in {Unknown, host.promised[p]}
  PROVE  AnswersMatchPromises'
  BY DEF AnswersMatchPromises, Reported, LongBytes

LEMMA StepAnswers ==
  ASSUME StoreInv, RDMTypeInv, PromisesKept', AnswersMatchPromises, [RDMNext]_vars
  PROVE  AnswersMatchPromises'
<1>1. \A c : Reported(Status(c)) = {}
  BY DEF Reported, Status
<1>2. ASSUME replies' \in {<<>>, <<Status("INVALID_COMMAND")>>} PROVE AnswersMatchPromises'
  <2>1. \A k \in 1 .. Len(replies') : Reported(replies'[k]) = {}
    BY <1>1, <1>2
  <2> QED
    BY <2>1 DEF AnswersMatchPromises, Reported, LongBytes
<1>3. CASE PowerLoss
  BY <1>2, <1>3 DEF PowerLoss
<1>4. CASE SwitchOn \/ Continue \/ Idle \/ UNCHANGED vars
  <2>1. UNCHANGED <<replies, host>>
    BY <1>4 DEF SwitchOn, Continue, Idle, vars
  <2> QED
    BY <2>1, AnswersStay
<1>5. CASE Acknowledge
  <2> DEFINE reply == IF request.pid = "SENSOR_VALUE"
                      THEN SensorResponse(request) ELSE AckOrBroadcast(request)
  <2>1. /\ replies \in {<<>>, <<Status("INVALID_COMMAND")>>} /\ Settable(request)
        /\ UNCHANGED eeprom /\ replies' = Append(replies, reply)
    BY <1>5 DEF Acknowledge, Reply, RDMTypeInv, BusyInv, settingsVars
  <2>2. \/ reply.kind = "status"
        \/ /\ reply.kind = "rdm" /\ reply.source = SerialNumber
           /\ reply.class # "GET_RESPONSE"
    BY <2>1 DEF Settable, SensorResponse, AckOrBroadcast, Ack, Status, RDMResponse,
       CustomResponse
  <2> HIDE DEF reply
  <2>3. \A report \in Reported(reply) :
          report[1] \in Promisable => report[2] = Stored(report[1])'
    BY <2>1, <2>2, SourceReply DEF StoreInv
  <2> QED
    BY <2>1, <2>3, TrueReply
<1>6. ASSUME NEW r \in Requests, Receive(r) PROVE AnswersMatchPromises'
  <2>1. CASE SetStored(r)
    BY <1>2, <2>1, PrefaceType DEF SetStored
  <2>2. ASSUME NEW reply, Answer(r, reply) PROVE AnswersMatchPromises'
    <3>1. replies' = Append(Preface(r), reply)
      BY <2>2 DEF Answer
    <3>2. \A report \in Reported(reply) :
            report[1] \in Promisable => report[2] = Stored(report[1])'
      BY <1>6, <2>2, AnswerReports
    <3> QED
      BY <3>1, <3>2, PrefaceType, TrueReply
  <2>3. SetStored(r) \/ \E reply : Answer(r, reply)
    BY <1>6 DEF Receive, Refuse, Handle, SetLabel, Get, SetLanguage, SetIdentifyDevice,
       GetQueuedLabel, GetLastLabel, GetNothingQueued, Queued
  <2> QED
    BY <2>1, <2>2, <2>3
<1> QED
  BY <1>3, <1>4, <1>5, <1>6 DEF RDMNext

\* No reply contradicts what was acknowledged: the copies in RAM and the UID
\* read for every reply show the value of the last acknowledged SET.
THEOREM AnswersAreTrue == RDMSpec => []AnswersMatchPromises
<1>1. StoreInv /\ [RDMNext]_vars => StoreInv'
  BY RDMStep, StepStoreInv
<1>2. RDMInit => AnswersMatchPromises
  BY DEF RDMInit, AnswersMatchPromises
<1>3. StoreInv /\ RDMTypeInv /\ PromisesKept' /\ AnswersMatchPromises /\ [RDMNext]_vars
        => AnswersMatchPromises'
  BY StepAnswers
<1> QED
  BY RDMInitTypeInv, StepRDMTypeInv, InitPromiseInv, <1>1, <1>2, <1>3, StepPromiseInv,
     PromiseInvKeeps, PTL DEF RDMSpec

===============================================================================
