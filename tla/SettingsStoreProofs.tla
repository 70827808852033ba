-------------------------- MODULE SettingsStoreProofs ---------------------------
(***************************************************************************)
(* Theorems about WidgetSettings as a store: a write changes its own field *)
(* only, a label that was written is the label readers get, and the bytes  *)
(* behave like the registers of SettingsStore.                             *)
(***************************************************************************)
EXTENDS WidgetSettingsProofs

-----------------------------------------------------------------------------
(* Fields. *)

\* Only a running write changes the EEPROM.
LEMMA OnlyWriteByteStores ==
  ASSUME AnyStep, ~WriteByte
  PROVE  UNCHANGED eeprom
  BY DEF AnyStep, QuietStep, Internal, SettingsInit, Boot,
     IncrementDevicePowerCycles, Return, PowerOff, PerformWrite, Call,
     SetDeviceLabel, settingsVars

\* The layout gives each core field bytes of its own.
LEMMA StepKeepsOthers ==
  ASSUME TypeInv, AnyStep, NEW f \in CoreFields
  PROVE  ChangesOnlyItsField(f)
<1>1. CASE WriteByte
  BY <1>1, WriteByteKeeps DEF ChangesOnlyItsField, WriteByte
<1>2. CASE ~WriteByte
  BY <1>2, OnlyWriteByteStores, FieldBytesUnchanged DEF ChangesOnlyItsField
<1> QED
  BY <1>1, <1>2

\* Whatever is written, and wherever power fails, a step changes the bytes of
\* a field other than the power cycle counter and the sensor value only while
\* a write of this field is going on.
THEOREM WritesKeepToTheirField == Spec => CoreFieldsIsolated
<1>1. TypeInv /\ [Next]_settingsVars =>
        [\A f \in Field \ {"power_cycles", "sensor"} :
           ChangesOnlyItsField(f)]_settingsVars
  BY NextIsAnyStep, StepKeepsOthers DEF CoreFields
<1> QED
  BY <1>1, InitTypeInv, NextIsAnyStep, StepTypeInv, PTL DEF Spec, CoreFieldsIsolated

-----------------------------------------------------------------------------
(* Labels. *)

\* LabelOf is the text before the first NUL of the bytes in use.
LabelEnd(bytes, size, n) ==
  /\ n \in 0 .. size
  /\ \A i \in 1 .. n : bytes[i] # NUL
  /\ n = size \/ bytes[n + 1] = NUL

LEMMA LabelEndExists ==
  ASSUME NEW bytes, NEW size \in Nat
  PROVE  \E n \in 0 .. size : LabelEnd(bytes, size, n)
<1> DEFINE K == {n \in 0 .. size : n = size \/ bytes[n + 1] = NUL}
<1>1. K \subseteq Nat /\ K # {}
  <2>1. size \in K
    OBVIOUS
  <2> QED
    BY <2>1
<1>2. PICK n \in K : \A i \in K : n <= i
  <2> HIDE DEF K
  <2> QED
    BY <1>1, FirstOf
<1>3. ASSUME NEW i \in 1 .. n PROVE bytes[i] # NUL
  <2>1. i - 1 \in 0 .. size /\ ~(n <= i - 1) /\ (i - 1) + 1 = i
    OBVIOUS
  <2>2. i - 1 \notin K
    BY <1>2, <2>1
  <2> QED
    BY <2>1, <2>2
<1> QED
  BY <1>3 DEF LabelEnd

LEMMA LabelEndUnique ==
  ASSUME NEW bytes, NEW size \in Nat, NEW n, NEW m,
         LabelEnd(bytes, size, n), LabelEnd(bytes, size, m)
  PROVE  n = m
<1>1. n \in 0 .. size /\ m \in 0 .. size
  BY DEF LabelEnd
<1>2. CASE n < m
  <2>1. n + 1 \in 1 .. m /\ n # size
    BY <1>1, <1>2
  <2> QED
    BY <2>1 DEF LabelEnd
<1>3. CASE m < n
  <2>1. m + 1 \in 1 .. n /\ m # size
    BY <1>1, <1>3
  <2> QED
    BY <2>1 DEF LabelEnd
<1> QED
  BY <1>1, <1>2, <1>3

LEMMA LabelOfIs ==
  ASSUME NEW bytes, NEW size \in Nat, NEW n, LabelEnd(bytes, size, n)
  PROVE  LabelOf(bytes, size) = SubSeq(bytes, 1, n)
<1> DEFINE c == CHOOSE k \in 0 .. size : /\ \A i \in 1 .. k : bytes[i] # NUL
                                         /\ k = size \/ bytes[k + 1] = NUL
<1>1. LabelEnd(bytes, size, c)
  BY DEF LabelEnd
<1>2. LabelOf(bytes, size) = SubSeq(bytes, 1, c)
  BY DEF LabelOf
<1> HIDE DEF c
<1>3. c = n
  BY <1>1, LabelEndUnique
<1> QED
  BY <1>2, <1>3

\* Readers see the bytes in use and no others.
LEMMA SameLabel ==
  ASSUME NEW b \in Seq(Byte), NEW c \in Seq(Byte), NEW size \in Nat,
         size <= Len(b), size <= Len(c), \A i \in 1 .. size : b[i] = c[i]
  PROVE  LabelOf(b, size) = LabelOf(c, size)
<1>1. PICK n \in 0 .. size : LabelEnd(b, size, n)
  BY LabelEndExists
<1>2. LabelEnd(c, size, n)
  BY <1>1 DEF LabelEnd
<1>3. LabelOf(b, size) = SubSeq(b, 1, n) /\ LabelOf(c, size) = SubSeq(c, 1, n)
  BY <1>1, <1>2, LabelOfIs
<1>4. /\ SubSeq(b, 1, n) \in Seq(Byte) /\ SubSeq(c, 1, n) \in Seq(Byte)
      /\ Len(SubSeq(b, 1, n)) = n /\ Len(SubSeq(c, 1, n)) = n
      /\ \A i \in 1 .. n : SubSeq(b, 1, n)[i] = SubSeq(c, 1, n)[i]
  BY <1>1
<1> QED
  BY <1>3, <1>4, SeqEqual

-----------------------------------------------------------------------------
(* What is queued, and what that says of the label.  Init's writes begin     *)
(* with the magic number, PerformWrite's are the two of the buffered label,  *)
(* and no field is queued twice.                                             *)

Distinct ==
  \A j, k \in 1 .. Len(todo) : todo[j].field = todo[k].field => j = k

SetUpQueue == \A k \in 1 .. Len(todo) : todo[k].field = "magic" => todo = InitWrites

TextStored ==
  \A i \in 1 .. Len(m_label_buffer) : FieldBytes("label")[i] = m_label_buffer[i]

SizeStored == FieldBytes("label_size") = IntBytes(Len(m_label_buffer))

LabelQueued == \E k \in 1 .. Len(todo) : todo[k].field \in {"label", "label_size"}

LabelQueue ==
  LabelQueued => /\ m_label_pending
                 /\ todo = LabelWrites \/ (todo = <<LabelWrites[2]>> /\ TextStored)

\* What SetDeviceLabel makes of the label it is called with.
Cut(l) == SubSeq(l, 1, AtMost(Len(l), MAX_LABEL_LENGTH))

LegalBuffer ==
  m_label_pending => \E l \in Labels \cup {DEFAULT_LABEL} : m_label_buffer = Cut(l)

LabelInv == Distinct /\ SetUpQueue /\ LabelQueue /\ LegalBuffer

\* The fields of the setters that write at once.
SetterFields ==
  {"start_address", "serial_number", "power_cycles", "sensor", "personality"}

LEMMA SetterCases ==
  [Next]_settingsVars =>
    \/ Internal
    \/ PowerOff
    \/ PerformWrite
    \/ \E l \in Labels : SetDeviceLabel(l)
    \/ \E w \in WriteType : Fits(w) /\ w.field \in SetterFields /\ Call(<<w>>)
    \/ UNCHANGED settingsVars
<1>1. ASSUME NEW a \in StartAddresses, SetStartAddress(a)
      PROVE  \E w \in WriteType : Fits(w) /\ w.field \in SetterFields /\ Call(<<w>>)
  <2>1. Fits(StartAddressWrite(a)) /\ StartAddressWrite(a).field \in SetterFields
    BY ValueAssumption, SetterWritesFit DEF StartAddressWrite, Write, SetterFields
  <2> QED
    BY <1>1, <2>1 DEF SetStartAddress, Fits
<1>2. ASSUME NEW s \in SerialNumbers, SetSerialNumber(s)
      PROVE  \E w \in WriteType : Fits(w) /\ w.field \in SetterFields /\ Call(<<w>>)
  <2>1. Fits(SerialNumberWrite(s)) /\ SerialNumberWrite(s).field \in SetterFields
    BY ValueAssumption, SetterWritesFit DEF SerialNumberWrite, Write, SetterFields
  <2> QED
    BY <1>2, <2>1 DEF SetSerialNumber, Fits
<1>3. ASSUME NEW c \in PowerCycles, SetDevicePowerCycles(c)
      PROVE  \E w \in WriteType : Fits(w) /\ w.field \in SetterFields /\ Call(<<w>>)
  <2>1. Fits(PowerCyclesWrite(c)) /\ PowerCyclesWrite(c).field \in SetterFields
    BY ValueAssumption, SetterWritesFit DEF PowerCyclesWrite, Write, SetterFields
  <2> QED
    BY <1>3, <2>1 DEF SetDevicePowerCycles, Fits
<1>4. ASSUME NEW v \in SensorValues, SaveSensorValue(v)
      PROVE  \E w \in WriteType : Fits(w) /\ w.field \in SetterFields /\ Call(<<w>>)
  <2>1. Fits(SensorWrite(v)) /\ SensorWrite(v).field \in SetterFields
    BY ValueAssumption, SetterWritesFit DEF SensorWrite, Write, SetterFields
  <2> QED
    BY <1>4, <2>1 DEF SaveSensorValue, Fits
<1>5. ASSUME NEW p \in Personalities, SetPersonality(p)
      PROVE  \E w \in WriteType : Fits(w) /\ w.field \in SetterFields /\ Call(<<w>>)
  <2>1. Fits(PersonalityWrite(p)) /\ PersonalityWrite(p).field \in SetterFields
    BY ValueAssumption, SetterWritesFit DEF PersonalityWrite, Write, SetterFields
  <2> QED
    BY <1>5, <2>1 DEF SetPersonality, Fits
<1> QED
  BY <1>1, <1>2, <1>3, <1>4, <1>5 DEF Next

\* A step that queues one write of a field other than the label.
LEMMA QueueOneLabelInv ==
  ASSUME LabelInv, NEW w, w.field \notin {"magic", "label", "label_size"},
         todo' = <<w>>, UNCHANGED <<eeprom, ram>>
  PROVE  LabelInv'
<1>1. Distinct' /\ SetUpQueue'
  BY DEF Distinct, SetUpQueue
<1>2. LabelQueue'
  BY DEF LabelQueue, LabelQueued
<1>3. LegalBuffer'
  BY DEF LabelInv, LegalBuffer, ram
<1> QED
  BY <1>1, <1>2, <1>3 DEF LabelInv

\* A step that leaves the queue and what the label consists of alone.
LEMMA KeepLabelInv ==
  ASSUME LabelInv, UNCHANGED <<eeprom, m_label_buffer, m_label_pending, todo>>
  PROVE  LabelInv'
<1>1. FieldBytes("label")' = FieldBytes("label")
  BY FieldBytesUnchanged
<1>2. TextStored' = TextStored /\ LabelWrites' = LabelWrites
  BY <1>1 DEF TextStored, LabelWrites, IntBytes, Write
<1> QED
  BY <1>2 DEF LabelInv, Distinct, SetUpQueue, LabelQueue, LabelQueued, LegalBuffer

LEMMA WriteByteLabelInv == TypeInv /\ LabelInv /\ WriteByte => LabelInv'
<1> SUFFICES ASSUME TypeInv, LabelInv, WriteByte PROVE LabelInv'
  OBVIOUS
<1>1. /\ UNCHANGED <<m_label_buffer, m_label_pending, todo>>
      /\ todo # <<>> /\ 1 \in 1 .. Len(todo) /\ Head(todo) = todo[1]
  BY DEF WriteByte, ram, TypeInv, TypeOK
<1>2. ASSUME Head(todo).field # "label" PROVE TextStored' = TextStored
  <2>1. "label" \in CoreFields
    BY DEF CoreFields, Field
  <2> QED
    BY <1>1, <1>2, <2>1, WriteByteKeeps DEF TextStored
<1>3. LabelQueue'
  <2>1. LabelQueued' = LabelQueued /\ LabelWrites' = LabelWrites
    BY <1>1 DEF LabelQueued, LabelWrites, IntBytes, Write
  <2>2. todo = <<LabelWrites[2]>> => Head(todo).field = "label_size"
    BY DEF LabelWrites, Write
  <2> QED
    BY <1>1, <1>2, <2>1, <2>2 DEF LabelInv, LabelQueue
<1> QED
  BY <1>1, <1>3 DEF LabelInv, Distinct, SetUpQueue, LegalBuffer

LEMMA ReturnLabelInv == TypeInv /\ CacheInv /\ LabelInv /\ Return => LabelInv'
<1> SUFFICES ASSUME TypeInv, CacheInv, LabelInv, Return PROVE LabelInv'
  OBVIOUS
<1> DEFINE w == Head(todo)
<1>1. /\ todo # <<>> /\ w = todo[1] /\ 1 \in 1 .. Len(todo) /\ todo' = Tail(todo)
      /\ written = Len(w.bytes)
      /\ m_label_pending' = (m_label_pending /\ w.field # "label_size")
      /\ UNCHANGED <<eeprom, m_label_buffer>>
  BY DEF Return, TypeInv, TypeOK
<1>2. /\ Len(todo') \in Nat
      /\ \A k \in 1 .. Len(todo') :
           k + 1 \in 1 .. Len(todo) /\ todo'[k] = todo[k + 1] /\ k + 1 # 1
  BY <1>1 DEF TypeInv, TypeOK
<1>3. TextStored' = TextStored /\ LabelWrites' = LabelWrites
  BY <1>1, FieldBytesUnchanged DEF TextStored, LabelWrites, IntBytes, Write
<1>4. Distinct'
  <2>1. ASSUME NEW j \in 1 .. Len(todo'), NEW k \in 1 .. Len(todo'),
               todo'[j].field = todo'[k].field
        PROVE  j = k
    <3>1. j + 1 = k + 1
      BY <1>2, <2>1 DEF LabelInv, Distinct
    <3> QED
      BY <3>1
  <2> QED
    BY <2>1 DEF Distinct
<1>5. SetUpQueue'
  <2>1. ASSUME NEW k \in 1 .. Len(todo'), todo'[k].field = "magic" PROVE FALSE
    <3>1. todo = InitWrites
      BY <1>2, <2>1 DEF LabelInv, SetUpQueue
    <3>2. todo[1].field = "magic"
      BY <3>1 DEF InitWrites, Write
    <3> QED
      BY <1>1, <1>2, <2>1, <3>2 DEF LabelInv, Distinct
  <2> QED
    BY <2>1 DEF SetUpQueue
<1>6. CASE ~LabelQueued
  <2>1. w.field \notin {"label", "label_size"} /\ ~LabelQueued'
    BY <1>1, <1>2, <1>6 DEF LabelQueued
  <2> QED
    BY <1>1, <1>3, <1>4, <1>5, <2>1 DEF LabelInv, LabelQueue, LegalBuffer
<1>7. CASE LabelQueued /\ todo = LabelWrites
  <2>1. /\ w = Write("label", m_label_buffer) /\ w.field = "label"
        /\ w.bytes = m_label_buffer /\ todo' = <<LabelWrites[2]>>
    BY <1>1, <1>7 DEF LabelWrites, Write
  <2>2. TextStored
    BY <1>1, <2>1 DEF CacheInv, Progress, TextStored
  <2>3. m_label_pending' /\ m_label_pending
    BY <1>1, <1>7, <2>1 DEF LabelInv, LabelQueue
  <2> QED
    BY <1>1, <1>3, <1>4, <1>5, <2>1, <2>2, <2>3 DEF LabelInv, LabelQueue, LegalBuffer
<1>8. CASE LabelQueued /\ todo # LabelWrites
  <2>1. todo = <<LabelWrites[2]>>
    BY <1>8 DEF LabelInv, LabelQueue
  <2>2. w.field = "label_size" /\ todo' = <<>>
    BY <1>1, <2>1 DEF LabelWrites, Write
  <2>3. ~LabelQueued'
    BY <2>2 DEF LabelQueued
  <2>4. ~m_label_pending'
    BY <1>1, <2>2, Zenon
  <2> QED
    BY <1>4, <1>5, <2>3, <2>4 DEF LabelInv, LabelQueue, LegalBuffer
<1> QED
  BY <1>6, <1>7, <1>8

LEMMA SetDefaultsLabelInv ==
  ASSUME LabelInv, SetDefaults
  PROVE  LabelInv'
<1>1. /\ todo' = InitWrites /\ m_label_pending' = TRUE
      /\ m_label_buffer' = Cut(DEFAULT_LABEL)
  BY DEF SetDefaults, BufferLabel, Cut
<1>2. /\ Len(InitWrites) = 7
      /\ InitWrites[1].field = "magic" /\ InitWrites[2].field = "start_address"
      /\ InitWrites[3].field = "esta_id" /\ InitWrites[4].field = "serial_number"
      /\ InitWrites[5].field = "power_cycles" /\ InitWrites[6].field = "sensor"
      /\ InitWrites[7].field = "personality"
  BY DEF InitWrites, Write, StartAddressWrite, EstaIdWrite, SerialNumberWrite,
     PowerCyclesWrite, SensorWrite, PersonalityWrite
<1>3. Distinct'
  <2>1. ASSUME NEW j \in 1 .. 7, NEW k \in 1 .. 7,
               InitWrites[j].field = InitWrites[k].field
        PROVE  j = k
    <3>1. j \in {1, 2, 3, 4, 5, 6, 7} /\ k \in {1, 2, 3, 4, 5, 6, 7}
      OBVIOUS
    <3> QED
      BY <1>2, <2>1, <3>1
  <2> QED
    BY <1>1, <1>2, <2>1 DEF Distinct
<1>4. ~LabelQueued'
  <2>1. ASSUME NEW k \in 1 .. 7 PROVE InitWrites[k].field \notin {"label", "label_size"}
    <3>1. k \in {1, 2, 3, 4, 5, 6, 7}
      OBVIOUS
    <3> QED
      BY <1>2, <3>1
  <2> QED
    BY <1>1, <1>2, <2>1 DEF LabelQueued
<1>5. SetUpQueue'
  BY <1>1 DEF SetUpQueue, InitWrites, Write, StartAddressWrite, EstaIdWrite,
     SerialNumberWrite, PowerCyclesWrite, SensorWrite, PersonalityWrite, IntBytes,
     LongBytes
<1>6. LegalBuffer' /\ LabelQueue'
  BY <1>1, <1>4 DEF LegalBuffer, LabelQueue, Cut, AtMost
<1> QED
  BY <1>3, <1>5, <1>6 DEF LabelInv

LEMMA StepLabelInv ==
  TypeInv /\ CacheInv /\ LabelInv /\ [Next]_settingsVars => LabelInv'
<1> SUFFICES ASSUME TypeInv, CacheInv, LabelInv, [Next]_settingsVars PROVE LabelInv'
  OBVIOUS
<1>1. CASE SettingsInit
  <2>1. ASSUME LoadCaches PROVE LabelInv'
    BY <1>1, <2>1, KeepLabelInv DEF SettingsInit, Boot, LoadCaches
  <2> QED
    BY <1>1, <2>1, SetDefaultsLabelInv DEF SettingsInit
<1>2. CASE IncrementDevicePowerCycles
  <2>1. PowerCyclesWrite(Plus1(DevicePowerCycles)).field = "power_cycles"
    BY DEF PowerCyclesWrite, Write
  <2> QED
    BY <1>2, <2>1, QueueOneLabelInv DEF IncrementDevicePowerCycles
<1>3. CASE PowerOff
  <2>1. todo' = <<>> /\ m_label_buffer' = <<>> /\ m_label_pending' = FALSE
    BY <1>3 DEF PowerOff, ResetRAM
  <2> QED
    BY <2>1 DEF LabelInv, Distinct, SetUpQueue, LabelQueue, LabelQueued, LegalBuffer
<1>4. CASE PerformWrite
  <2>1. /\ todo' = LabelWrites /\ m_label_pending
        /\ UNCHANGED <<eeprom, m_label_buffer, m_label_pending>>
    BY <1>4 DEF PerformWrite, Call, ram
  <2>2. LabelWrites' = LabelWrites
    BY <2>1 DEF LabelWrites, IntBytes, Write
  <2>3. /\ Len(LabelWrites) = 2 /\ LabelWrites[1].field = "label"
        /\ LabelWrites[2].field = "label_size"
    BY DEF LabelWrites, Write
  <2>4. Distinct' /\ SetUpQueue'
    <3>1. \A k \in 1 .. 2 : k \in {1, 2}
      OBVIOUS
    <3> QED
      BY <2>1, <2>3, <3>1 DEF Distinct, SetUpQueue
  <2>5. LabelQueue' /\ LegalBuffer'
    BY <2>1, <2>2 DEF LabelQueue, LegalBuffer, LabelInv
  <2> QED
    BY <2>4, <2>5 DEF LabelInv
<1>5. ASSUME NEW l \in Labels, SetDeviceLabel(l) PROVE LabelInv'
  <2>1. /\ todo = <<>> /\ todo' = <<>> /\ m_label_pending' = TRUE
        /\ m_label_buffer' = Cut(l)
    BY <1>5 DEF SetDeviceLabel, Ready, BufferLabel, control, Cut
  <2>2. LegalBuffer'
    BY <2>1 DEF LegalBuffer, Cut, AtMost
  <2> QED
    BY <2>1, <2>2 DEF LabelInv, Distinct, SetUpQueue, LabelQueue, LabelQueued
<1>6. ASSUME NEW w, w.field \in SetterFields, Call(<<w>>) PROVE LabelInv'
  BY <1>6, QueueOneLabelInv DEF Call, SetterFields
<1>7. CASE UNCHANGED settingsVars
  BY <1>7, KeepLabelInv DEF settingsVars, ram, control
<1> QED
  BY <1>1, <1>2, <1>3, <1>4, <1>5, <1>6, <1>7, WriteByteLabelInv, ReturnLabelInv,
     SetterCases DEF Internal

\* What WriteInt wrote, ReadInt reads; so do WriteLong and ReadLong.
LEMMA IntOfIntBytes ==
  ASSUME NEW w \in Word
  PROVE  IntOf(IntBytes(w)) = w
<1> DEFINE q == w \div 256
           r == w % 256
<1>1. r = w - 256 * q /\ q \in Nat /\ w \in Nat
  BY DEF Word
<1>2. IntBytes(w) = <<q, r>>
  BY DEF IntBytes
<1> HIDE DEF q, r
<1>3. q * 256 + r = w
  BY <1>1
<1> QED
  BY <1>2, <1>3 DEF IntOf

\* The label in the EEPROM is the one in the buffer.
LEMMA StoredLabel ==
  ASSUME TypeOK, TextStored, SizeStored
  PROVE  LabelReads
<1> DEFINE n == Len(m_label_buffer)
           text == FieldBytes("label")
<1>1. n \in Nat /\ n \in Word /\ n <= MAX_LABEL_LENGTH
  BY LabelLength DEF TypeOK, Word
<1>2. IntOf(FieldBytes("label_size")) = n
  BY <1>1, IntOfIntBytes DEF SizeStored
<1>3. AtMost(n, MAX_LABEL_LENGTH) = n
  BY <1>1, LabelLength DEF AtMost
<1>4. text \in Seq(Byte) /\ Len(text) = MAX_LABEL_LENGTH
  <2>1. "label" \in Field /\ Width["label"] = MAX_LABEL_LENGTH
    BY DEF Field, Width
  <2> QED
    BY <2>1, FieldBytesSeq DEF TypeOK
<1>5. \A i \in 1 .. n : text[i] = m_label_buffer[i]
  BY DEF TextStored
<1>6. DeviceLabel = LabelOf(text, n)
  BY <1>2, <1>3 DEF DeviceLabel
<1>7. m_label_buffer \in Seq(Byte)
  BY DEF TypeOK
<1> HIDE DEF n, text
<1>8. n = Len(m_label_buffer) /\ n <= Len(text) /\ n <= Len(m_label_buffer)
  BY <1>1, <1>4 DEF n
<1> QED
  BY <1>1, <1>4, <1>5, <1>6, <1>7, <1>8, SameLabel DEF n, LabelReads

\* The return that ends a pending label is that of the write of its size; the
\* text is then in the EEPROM already.
LEMMA ReturnEndsLabel ==
  ASSUME TypeInv, CacheInv, LabelInv, Return, m_label_pending, ~m_label_pending'
  PROVE  TextStored /\ SizeStored
<1> DEFINE w == Head(todo)
<1>1. /\ todo # <<>> /\ w = todo[1] /\ 1 \in 1 .. Len(todo)
      /\ m_label_pending' = (m_label_pending /\ w.field # "label_size")
  BY DEF Return, TypeInv, TypeOK
<1>2. w.field = "label_size"
  BY <1>1
<1>3. todo # LabelWrites
  BY <1>1, <1>2 DEF LabelWrites, Write
<1>4. todo = <<LabelWrites[2]>> /\ TextStored
  BY <1>1, <1>2, <1>3 DEF LabelInv, LabelQueue, LabelQueued
<1>5. w.bytes = IntBytes(Len(m_label_buffer))
  BY <1>1, <1>4 DEF LabelWrites, Write
<1> QED
  BY <1>2, <1>4, <1>5, ReturnedBytes DEF SizeStored

\* While a step leaves the bytes of the label and the buffer alone, readers go
\* on getting the same.
LEMMA SameReading ==
  ASSUME FieldBytes("label")' = FieldBytes("label"),
         FieldBytes("label_size")' = FieldBytes("label_size"),
         UNCHANGED m_label_buffer
  PROVE  LabelReads' = LabelReads
<1>1. DeviceLabel' = DeviceLabel
  BY DEF DeviceLabel, IntOf, AtMost
<1> QED
  BY <1>1 DEF LabelReads

LEMMA StepLabelReads ==
  ASSUME TypeInv, CacheInv, LabelInv, [Next]_settingsVars, phase = "run", phase' = "run",
         ~m_label_pending', m_label_pending \/ LabelReads
  PROVE  LabelReads'
<1>1. AnyStep
  BY NextIsAnyStep
<1>2. CASE m_label_pending
  <2>1. Return
    BY <1>2, SetterCases DEF Internal, SettingsInit, Boot, IncrementDevicePowerCycles,
       WriteByte, PowerOff, PerformWrite, SetDeviceLabel, BufferLabel, Call, settingsVars, ram
  <2>2. TextStored /\ SizeStored
    BY <1>2, <2>1, ReturnEndsLabel
  <2>3. LabelReads
    BY <2>2, StoredLabel DEF TypeInv
  <2>4. UNCHANGED <<eeprom, m_label_buffer>>
    BY <2>1 DEF Return
  <2> QED
    BY <2>3, <2>4, FieldBytesUnchanged, SameReading
<1>3. CASE ~m_label_pending
  <2>1. "label" \in CoreFields /\ "label_size" \in CoreFields
    BY DEF CoreFields, Field
  <2>2. ChangesOnlyItsField("label") /\ ChangesOnlyItsField("label_size")
    BY <1>1, <2>1, StepKeepsOthers
  <2>3. todo # <<>> => Head(todo).field \notin {"label", "label_size"}
    <3>1. todo # <<>> => 1 \in 1 .. Len(todo) /\ Head(todo) = todo[1]
      BY DEF TypeInv, TypeOK
    <3> QED
      BY <1>3, <3>1 DEF LabelInv, LabelQueue, LabelQueued
  <2>4. UNCHANGED m_label_buffer
    BY SetterCases DEF Internal, SettingsInit, Boot, IncrementDevicePowerCycles, WriteByte,
       Return, PowerOff, PerformWrite, SetDeviceLabel, BufferLabel, Call, settingsVars, ram
  <2> QED
    BY <1>3, <2>2, <2>3, <2>4, SameReading DEF ChangesOnlyItsField
<1> QED
  BY <1>2, <1>3

\* From the moment a label has been written it is the label readers get, cut to
\* its first NUL, until another is set or the power goes: for every label and
\* every length, over whatever an earlier label or a torn write left in the
\* EEPROM.
THEOREM WrittenLabelIsRead == Spec => LabelWritten
<1> DEFINE Inv == TypeInv /\ CacheInv /\ LabelInv
<1>1. Init => Inv
  <2>1. Init => CacheInv
    BY DEF Init, CacheInv, Progress, StartAddressCoherent, PersonalityCoherent
  <2>2. Init => LabelInv
    BY DEF Init, LabelInv, Distinct, SetUpQueue, LabelQueue, LabelQueued, LegalBuffer
  <2> QED
    BY <2>1, <2>2, InitTypeInv
<1>2. Inv /\ [Next]_settingsVars => Inv'
  BY NextIsAnyStep, StepTypeInv, StepCacheInv, StepLabelInv
<1>3. Inv /\ [Next]_settingsVars =>
        [phase = "run" /\ phase' = "run" /\ ~m_label_pending'
           /\ (m_label_pending \/ LabelReads)
         => LabelReads']_settingsVars
  BY StepLabelReads
<1> QED
  BY <1>1, <1>2, <1>3, PTL DEF Spec, LabelWritten

-----------------------------------------------------------------------------
(* The refinement.  First, what Pending and Changing are, before and after a *)
(* step.                                                                     *)

\* Of a field that is queued once there is one write to choose.
LEMMA ChosenWrite ==
  ASSUME NEW q, NEW k \in 1 .. Len(q),
         \A j \in 1 .. Len(q) : q[j].field = q[k].field => j = k
  PROVE  (CHOOSE j \in {i \in 1 .. Len(q) : q[i].field = q[k].field} : TRUE) = k
<1> DEFINE K == {i \in 1 .. Len(q) : q[i].field = q[k].field}
<1>1. K = {k}
  OBVIOUS
<1> HIDE DEF K
<1>2. (CHOOSE j \in K : TRUE) = k
  BY <1>1
<1> QED
  BY <1>2 DEF K

LEMMA PendingNow ==
  ASSUME Distinct, NEW f
  PROVE  /\ \A k \in 1 .. Len(todo) : todo[k].field = f => Pending(f) = todo[k].bytes
         /\ Settled(f) => Pending(f) = FieldBytes(f)
<1>1. ASSUME NEW k \in 1 .. Len(todo), todo[k].field = f
      PROVE  Pending(f) = todo[k].bytes
  <2>1. (CHOOSE j \in {i \in 1 .. Len(todo) : todo[i].field = f} : TRUE) = k
    BY <1>1, ChosenWrite DEF Distinct
  <2>2. {i \in 1 .. Len(todo) : todo[i].field = f} # {}
    BY <1>1
  <2> QED
    BY <2>1, <2>2 DEF Pending
<1>2. ASSUME Settled(f) PROVE Pending(f) = FieldBytes(f)
  <2>1. {i \in 1 .. Len(todo) : todo[i].field = f} = {}
    BY <1>2 DEF Settled
  <2> QED
    BY <2>1 DEF Pending
<1> QED
  BY <1>1, <1>2

LEMMA PendingNext ==
  ASSUME Distinct', NEW f
  PROVE  /\ \A k \in 1 .. Len(todo') :
              todo'[k].field = f => Pending(f)' = todo'[k].bytes
         /\ Settled(f)' => Pending(f)' = FieldBytes(f)'
<1>1. ASSUME NEW k \in 1 .. Len(todo'), todo'[k].field = f
      PROVE  Pending(f)' = todo'[k].bytes
  <2>1. (CHOOSE j \in {i \in 1 .. Len(todo') : todo'[i].field = f} : TRUE) = k
    BY <1>1, ChosenWrite DEF Distinct
  <2>2. {i \in 1 .. Len(todo') : todo'[i].field = f} # {}
    BY <1>1
  <2> QED
    BY <2>1, <2>2 DEF Pending
<1>2. ASSUME Settled(f)' PROVE Pending(f)' = FieldBytes(f)'
  <2>1. {i \in 1 .. Len(todo') : todo'[i].field = f} = {}
    BY <1>2 DEF Settled
  <2> QED
    BY <2>1 DEF Pending
<1> QED
  BY <1>1, <1>2

\* A byte that is stored changes no register: its field is queued.
LEMMA WriteBytePending ==
  ASSUME TypeInv, Distinct, WriteByte, NEW f \in CoreFields
  PROVE  Pending(f)' = Pending(f)
<1>1. /\ todo' = todo /\ todo # <<>>
      /\ 1 \in 1 .. Len(todo) /\ Head(todo) = todo[1]
  BY DEF WriteByte, TypeInv, TypeOK
<1>2. Distinct'
  BY <1>1 DEF Distinct
<1>3. CASE Settled(f)
  <2>1. Settled(f)' /\ f # Head(todo).field
    BY <1>1, <1>3 DEF Settled
  <2>2. FieldBytes(f)' = FieldBytes(f)
    BY <2>1, WriteByteKeeps
  <2> QED
    BY <1>2, <1>3, <2>1, <2>2, PendingNow, PendingNext
<1>4. CASE ~Settled(f)
  <2>1. PICK k \in 1 .. Len(todo) : todo[k].field = f
    BY <1>4 DEF Settled
  <2> QED
    BY <1>1, <1>2, <2>1, PendingNow, PendingNext
<1> QED
  BY <1>3, <1>4

\* When a write returns, its field holds its bytes; the text of a label may be
\* followed by the rest of an older one.
LEMMA ReturnPending ==
  ASSUME TypeInv, CacheInv, Distinct, Distinct', Return,
         NEW f, f = "label" => Head(todo).field # "label"
  PROVE  Pending(f)' = Pending(f)
<1>1. /\ todo' = Tail(todo) /\ todo # <<>> /\ todo \in Seq(WriteType)
      /\ 1 \in 1 .. Len(todo) /\ Head(todo) = todo[1]
  BY DEF Return, TypeInv, TypeOK, WriteType
<1>2. \A k \in 1 .. Len(todo') : k + 1 \in 1 .. Len(todo) /\ todo'[k] = todo[k + 1]
  BY <1>1
<1>3. \A k \in 1 .. Len(todo) :
        k # 1 => k - 1 \in 1 .. Len(todo') /\ todo'[k - 1] = todo[k]
  BY <1>1
<1>4. FieldBytes(f)' = FieldBytes(f)
  BY FieldBytesUnchanged DEF Return
<1>5. CASE Settled(f)
  <2>1. Settled(f)'
    BY <1>2, <1>5 DEF Settled
  <2> QED
    BY <1>4, <1>5, <2>1, PendingNow, PendingNext
<1>6. CASE Head(todo).field = f
  <2>1. Settled(f)'
    <3>1. ASSUME NEW k \in 1 .. Len(todo'), todo'[k].field = f PROVE FALSE
      <4>1. k + 1 = 1
        BY <1>1, <1>2, <1>6, <3>1 DEF Distinct
      <4> QED
        BY <4>1
    <3> QED
      BY <3>1 DEF Settled
  <2>2. Pending(f)' = FieldBytes(f)
    BY <1>4, <2>1, PendingNext
  <2>3. Pending(f) = Head(todo).bytes
    BY <1>1, <1>6, PendingNow
  <2>4. FieldBytes(f) = Head(todo).bytes
    BY <1>6, ReturnedBytes
  <2> QED
    BY <2>2, <2>3, <2>4
<1>7. CASE ~Settled(f) /\ Head(todo).field # f
  <2>1. PICK k \in 1 .. Len(todo) : todo[k].field = f
    BY <1>7 DEF Settled
  <2>2. k - 1 \in 1 .. Len(todo') /\ todo'[k - 1] = todo[k]
    BY <1>1, <1>3, <1>7, <2>1
  <2> QED
    BY <2>1, <2>2, PendingNow, PendingNext
<1> QED
  BY <1>5, <1>6, <1>7

\* A step that queues one write, from a state in which none was queued.
LEMMA QueueOnePending ==
  ASSUME todo = <<>>, NEW w, todo' = <<w>>, UNCHANGED eeprom, NEW f
  PROVE  Pending(f)' = IF f = w.field THEN w.bytes ELSE Pending(f)
<1>1. Distinct /\ Distinct' /\ Settled(f)
  BY DEF Distinct, Settled
<1>2. FieldBytes(f)' = FieldBytes(f)
  BY FieldBytesUnchanged
<1>3. CASE f = w.field
  <2>1. 1 \in 1 .. Len(todo') /\ todo'[1] = w
    OBVIOUS
  <2> QED
    BY <1>1, <1>3, <2>1, PendingNext
<1>4. CASE f # w.field
  <2>1. Settled(f)'
    BY <1>4 DEF Settled
  <2> QED
    BY <1>1, <1>2, <1>4, <2>1, PendingNow, PendingNext
<1> QED
  BY <1>3, <1>4

LEMMA LongOfLongBytes ==
  ASSUME NEW l \in Long
  PROVE  LongOf(LongBytes(l)) = l
<1>1. l[1] \in Word /\ l[2] \in Word /\ l = <<l[1], l[2]>>
  BY DEF Long
<1> DEFINE a == l[1] \div 256
           b == l[1] % 256
           c == l[2] \div 256
           d == l[2] % 256
<1>2. a * 256 + b = l[1] /\ c * 256 + d = l[2]
  BY <1>1, IntOfIntBytes DEF IntOf, IntBytes
<1>3. LongBytes(l) = <<a, b>> \o <<c, d>>
  BY DEF LongBytes, IntBytes
<1> HIDE DEF a, b, c, d
<1>4. /\ LongBytes(l)[1] = a /\ LongBytes(l)[2] = b
      /\ LongBytes(l)[3] = c /\ LongBytes(l)[4] = d
  BY <1>3
<1> QED
  BY <1>1, <1>2, <1>4 DEF LongOf, IntOf

-----------------------------------------------------------------------------
(* The registers before and after each step. *)

LEMMA SameLabelPending ==
  ASSUME Pending("label")' = Pending("label"),
         Pending("label_size")' = Pending("label_size")
  PROVE  PendingLabel' = PendingLabel
  BY DEF PendingLabel

LEMMA SameContents ==
  ASSUME \A f \in CoreFields \ {"label"} : Pending(f)' = Pending(f),
         PendingLabel' = PendingLabel
  PROVE  Contents' = Contents /\ New' = New
<1>1. /\ "magic" \in CoreFields \ {"label"} /\ "start_address" \in CoreFields \ {"label"}
      /\ "esta_id" \in CoreFields \ {"label"} /\ "personality" \in CoreFields \ {"label"}
      /\ "serial_number" \in CoreFields \ {"label"}
  BY DEF CoreFields, Field
<1> QED
  BY <1>1 DEF Contents, New, IntOf, LongOf

\* A step to which no register corresponds.
LEMMA Stutters ==
  ASSUME UNCHANGED <<phase # "off", New, Contents, Changing>>
  PROVE  [Store!Next]_(Store!vars)
  BY DEF Store!vars

LEMMA SettingsInitStore ==
  ASSUME TypeInv, LabelInv, LabelInv', SettingsInit
  PROVE  Store!SwitchOn
<1>1. /\ phase = "off" /\ phase' = "init" /\ todo = <<>> /\ UNCHANGED eeprom
      /\ IF Configured THEN LoadCaches ELSE SetDefaults
  BY DEF SettingsInit, Boot, TypeInv, Configured
<1>2. \A f : Pending(f) = FieldBytes(f)
  BY <1>1, PendingNow DEF LabelInv, Settled
<1>3. New = ~Configured
  BY <1>2 DEF New, Configured
<1>4. CASE Configured
  <2>1. todo' = <<>>
    BY <1>1, <1>4 DEF LoadCaches
  <2>2. \A f : Pending(f)' = FieldBytes(f)'
    BY <2>1, PendingNext DEF LabelInv, Settled
  <2>3. \A f : Pending(f)' = Pending(f)
    BY <1>1, <1>2, <2>2, FieldBytesUnchanged
  <2>4. Contents' = Contents /\ New' = New
    BY <2>3, SameLabelPending, SameContents
  <2>5. Changing' = Changing
    BY <1>1, <2>1 DEF Changing
  <2> QED
    BY <1>1, <1>3, <1>4, <2>4, <2>5 DEF Store!SwitchOn
<1>5. CASE ~Configured
  <2>1. /\ todo' = InitWrites /\ Len(todo') = 7
        /\ todo'[1] = Write("magic", IntBytes(MAGIC_NUMBER))
        /\ todo'[2] = StartAddressWrite(DEFAULT_START_ADDRESS)
        /\ todo'[3] = EstaIdWrite(DEFAULT_ESTA_ID)
        /\ todo'[4] = SerialNumberWrite(DEFAULT_SERIAL_NUMBER)
        /\ todo'[5] = PowerCyclesWrite(<<0, 0>>)
        /\ todo'[6] = SensorWrite(0)
        /\ todo'[7] = PersonalityWrite(DEFAULT_PERSONALITY)
    BY <1>1, <1>5 DEF SetDefaults, InitWrites
  <2>2. /\ todo'[1].field = "magic" /\ todo'[2].field = "start_address"
        /\ todo'[3].field = "esta_id" /\ todo'[4].field = "serial_number"
        /\ todo'[5].field = "power_cycles" /\ todo'[6].field = "sensor"
        /\ todo'[7].field = "personality"
    BY <2>1 DEF Write, StartAddressWrite, EstaIdWrite, SerialNumberWrite,
       PowerCyclesWrite, SensorWrite, PersonalityWrite
  <2>3. ASSUME NEW f, NEW k \in 1 .. Len(todo'), todo'[k].field = f
        PROVE  Pending(f)' = todo'[k].bytes
    BY <2>3, PendingNext DEF LabelInv
  <2>4. \A k \in 1 .. Len(todo') : k \in {1, 2, 3, 4, 5, 6, 7}
    BY <2>1
  <2>5. PendingLabel' = PendingLabel
    <3>1. Settled("label")' /\ Settled("label_size")'
      BY <2>2, <2>4 DEF Settled
    <3>2. /\ Pending("label")' = FieldBytes("label")'
          /\ Pending("label_size")' = FieldBytes("label_size")'
      BY <3>1, PendingNext DEF LabelInv
    <3> QED
      BY <1>1, <1>2, <3>2, FieldBytesUnchanged, SameLabelPending
  <2>6. /\ Pending("magic")' = IntBytes(MAGIC_NUMBER)
        /\ Pending("start_address")' = IntBytes(DEFAULT_START_ADDRESS)
        /\ Pending("esta_id")' = IntBytes(DEFAULT_ESTA_ID)
        /\ Pending("serial_number")' = LongBytes(DEFAULT_SERIAL_NUMBER)
        /\ Pending("personality")' = <<DEFAULT_PERSONALITY>>
    BY <2>1, <2>2, <2>3 DEF Write, StartAddressWrite, EstaIdWrite, SerialNumberWrite,
       PersonalityWrite
  <2>7. /\ MAGIC_NUMBER \in Word /\ DEFAULT_START_ADDRESS \in Word
        /\ DEFAULT_ESTA_ID \in Word /\ DEFAULT_SERIAL_NUMBER \in Long
    BY DEF MAGIC_NUMBER, DEFAULT_START_ADDRESS, DEFAULT_ESTA_ID, DEFAULT_SERIAL_NUMBER,
       Word, Long
  <2>8. /\ IntOf(Pending("magic")') = MAGIC_NUMBER
        /\ IntOf(Pending("start_address")') = DEFAULT_START_ADDRESS
        /\ IntOf(Pending("esta_id")') = DEFAULT_ESTA_ID
        /\ LongOf(Pending("serial_number")') = DEFAULT_SERIAL_NUMBER
        /\ Pending("personality")'[1] = DEFAULT_PERSONALITY
    BY <2>6, <2>7, IntOfIntBytes, LongOfLongBytes
  <2>9. New' = FALSE
    BY <2>8 DEF New, IntOf
  <2>10. Contents' = [s \in Registers |->
                        IF s \in DOMAIN Default THEN Default[s] ELSE Contents[s]]
    BY <2>5, <2>8 DEF Contents, Default, Registers, IntOf, LongOf
  <2>11. Changing' = DOMAIN Default
    <3>1. {RegisterOf(todo'[k].field) : k \in 1 .. Len(todo')} \cap Registers
            = {"start_address", "esta_id", "serial_number", "personality"}
      BY <2>1, <2>2, <2>4 DEF RegisterOf, Registers
    <3> QED
      BY <3>1 DEF Changing, Default
  <2> QED
    BY <1>1, <1>3, <1>5, <2>9, <2>10, <2>11 DEF Store!SwitchOn
<1> QED
  BY <1>4, <1>5

LEMMA WriteByteStore ==
  ASSUME TypeInv, LabelInv, WriteByte
  PROVE  [Store!Next]_(Store!vars)
<1>1. \A f \in CoreFields : Pending(f)' = Pending(f)
  BY WriteBytePending DEF LabelInv
<1>2. "label" \in CoreFields /\ "label_size" \in CoreFields
  BY DEF CoreFields, Field
<1>3. Contents' = Contents /\ New' = New
  BY <1>1, <1>2, SameLabelPending, SameContents
<1>4. Changing' = Changing
  BY DEF WriteByte, Changing, RegisterOf
<1>5. phase' = phase
  BY DEF WriteByte
<1> QED
  BY <1>3, <1>4, <1>5, Stutters

\* The text of the label has returned, its size has not: readers will see as
\* much of the field as was written.
LEMMA TextReturned ==
  ASSUME TypeInv, CacheInv, LabelInv, LabelInv', Return, Head(todo).field = "label"
  PROVE  PendingLabel' = PendingLabel
<1> DEFINE n == Len(m_label_buffer)
           text == FieldBytes("label")
<1>1. /\ todo # <<>> /\ 1 \in 1 .. Len(todo) /\ Head(todo) = todo[1]
      /\ todo' = Tail(todo)
      /\ UNCHANGED <<eeprom, m_label_buffer>>
  BY DEF Return, TypeInv, TypeOK
<1>2. todo = LabelWrites
  <2>1. LabelQueued
    BY <1>1 DEF LabelQueued
  <2>2. <<LabelWrites[2]>>[1].field = "label_size"
    BY DEF LabelWrites, Write
  <2> QED
    BY <1>1, <2>1, <2>2 DEF LabelInv, LabelQueue
<1>3. /\ Len(todo) = 2 /\ todo[1].field = "label" /\ todo[1].bytes = m_label_buffer
      /\ todo[2].field = "label_size" /\ todo[2].bytes = IntBytes(n)
      /\ todo' = <<todo[2]>>
  BY <1>1, <1>2 DEF LabelWrites, Write
<1>4. Pending("label") = m_label_buffer /\ Pending("label_size") = IntBytes(n)
  <2>1. 2 \in 1 .. Len(todo)
    BY <1>3
  <2> QED
    BY <1>1, <1>3, <2>1, PendingNow DEF LabelInv
<1>5. Pending("label")' = text /\ Pending("label_size")' = IntBytes(n)
  <2>1. Settled("label")' /\ 1 \in 1 .. Len(todo') /\ todo'[1] = todo[2]
    BY <1>3 DEF Settled
  <2>2. FieldBytes("label")' = text
    BY <1>1, FieldBytesUnchanged
  <2> QED
    BY <1>3, <2>1, <2>2, PendingNext DEF LabelInv
<1>6. n \in Nat /\ n \in Word /\ n <= MAX_LABEL_LENGTH /\ m_label_buffer \in Seq(Byte)
  BY LabelLength DEF TypeInv, TypeOK, Word
<1>7. text \in Seq(Byte) /\ Len(text) = MAX_LABEL_LENGTH
  <2>1. "label" \in Field /\ Width["label"] = MAX_LABEL_LENGTH
    BY DEF Field, Width
  <2> QED
    BY <2>1, FieldBytesSeq DEF TypeInv, TypeOK
<1>8. \A i \in 1 .. n : text[i] = m_label_buffer[i]
  BY <1>1, <1>3 DEF CacheInv, Progress, Return
<1>9. AtMost(IntOf(IntBytes(n)), MAX_LABEL_LENGTH) = n
  BY <1>6, IntOfIntBytes, LabelLength DEF AtMost
<1>10. PendingLabel = LabelOf(m_label_buffer, n)
  BY <1>4, <1>9 DEF PendingLabel
<1>11. PendingLabel' = LabelOf(text, n)
  <2>1. PendingLabel' = LabelOf(Pending("label")',
                          AtMost(IntOf(Pending("label_size")'), MAX_LABEL_LENGTH))
    BY DEF PendingLabel
  <2> QED
    BY <1>5, <1>9, <2>1
<1>12. n <= Len(text) /\ n <= Len(m_label_buffer)
  BY <1>6, <1>7
<1> HIDE DEF n, text
<1> QED
  BY <1>6, <1>7, <1>8, <1>10, <1>11, <1>12, SameLabel

LEMMA ReturnStore ==
  ASSUME TypeInv, CacheInv, LabelInv, LabelInv', Return
  PROVE  [Store!Next]_(Store!vars)
<1>1. \A f \in CoreFields \ {"label"} : Pending(f)' = Pending(f)
  BY ReturnPending DEF LabelInv
<1>2. PendingLabel' = PendingLabel
  <2>1. CASE Head(todo).field = "label"
    BY <2>1, TextReturned
  <2>2. CASE Head(todo).field # "label"
    BY <2>2, ReturnPending, SameLabelPending DEF LabelInv
  <2> QED
    BY <2>1, <2>2
<1>3. Contents' = Contents /\ New' = New
  BY <1>1, <1>2, SameContents
<1>4. (phase # "off")' = (phase # "off")
  BY DEF Return, TypeInv
<1>5. Changing' \subseteq Changing
  <2>1. \A k \in 1 .. Len(todo') : k + 1 \in 1 .. Len(todo) /\ todo'[k] = todo[k + 1]
    BY DEF Return, TypeInv, TypeOK
  <2> QED
    BY <2>1 DEF Changing, RegisterOf
<1>6. Store!Stored
  BY <1>3, <1>4, <1>5 DEF Store!Stored
<1> QED
  BY <1>6 DEF Store!Next

\* A setter of a register.
LEMMA CallStore ==
  ASSUME LabelInv, NEW w, NEW s \in Registers, w.field = s, s # "label",
         Call(<<w>>), NEW v \in Legal[s],
         s \in {"start_address", "esta_id"} => IntOf(w.bytes) = v,
         s = "serial_number" => LongOf(w.bytes) = v,
         s = "personality" => w.bytes[1] = v
  PROVE  Store!Set(s)
<1>1. /\ phase = "run" /\ phase' = "run" /\ todo = <<>> /\ todo' = <<w>>
      /\ UNCHANGED eeprom
  BY DEF Call, Ready
<1>2. \A f : Pending(f)' = IF f = s THEN w.bytes ELSE Pending(f)
  BY <1>1, QueueOnePending
<1>3. PendingLabel' = PendingLabel
  <2>1. s # "label_size"
    BY DEF Registers
  <2> QED
    BY <1>2, <2>1, SameLabelPending
<1>4. New' = New
  <2>1. s # "magic"
    BY DEF Registers
  <2>2. Pending("magic")' = Pending("magic")
    BY <1>2, <2>1
  <2> QED
    BY <2>2 DEF New, IntOf
<1>5. Contents' = [Contents EXCEPT ![s] = v]
  <2>1. /\ (IntOf(Pending("start_address")))' =
             IF s = "start_address" THEN v ELSE IntOf(Pending("start_address"))
        /\ (IntOf(Pending("esta_id")))' =
             IF s = "esta_id" THEN v ELSE IntOf(Pending("esta_id"))
        /\ (LongOf(Pending("serial_number")))' =
             IF s = "serial_number" THEN v ELSE LongOf(Pending("serial_number"))
        /\ (Pending("personality")[1])' =
             IF s = "personality" THEN v ELSE Pending("personality")[1]
    BY <1>2
  <2>2. s \in {"start_address", "esta_id", "serial_number", "personality"}
    BY DEF Registers
  <2> QED
    BY <1>3, <2>1, <2>2 DEF Contents
<1>6. Changing = {} /\ Changing' = {s}
  <2>1. RegisterOf(s) = s
    BY DEF RegisterOf, Registers
  <2> QED
    BY <1>1, <2>1 DEF Changing
<1> QED
  BY <1>1, <1>4, <1>5, <1>6 DEF Store!Set

\* A write of the power cycle counter or the sensor value changes no register.
LEMMA OtherCallStore ==
  ASSUME LabelInv, NEW w, w.field \in {"power_cycles", "sensor"},
         todo = <<>>, todo' = <<w>>, phase # "off", phase' # "off", UNCHANGED eeprom
  PROVE  [Store!Next]_(Store!vars)
<1>1. \A f \in CoreFields : Pending(f)' = Pending(f)
  BY QueueOnePending DEF CoreFields
<1>2. "label" \in CoreFields /\ "label_size" \in CoreFields
  BY DEF CoreFields, Field
<1>3. Contents' = Contents /\ New' = New
  BY <1>1, <1>2, SameLabelPending, SameContents
<1>4. Changing = {} /\ Changing' = {}
  BY DEF Changing, RegisterOf, Registers
<1> QED
  BY <1>3, <1>4, Stutters

\* PerformWrite sets the label to the one that was buffered, as far as readers
\* will see it.
LEMMA PerformWriteStore ==
  ASSUME TypeInv, LabelInv, LabelInv', PerformWrite
  PROVE  Store!Set("label")
<1> DEFINE n == Len(m_label_buffer)
<1>1. /\ phase = "run" /\ phase' = "run" /\ todo = <<>> /\ todo' = LabelWrites
      /\ m_label_pending /\ UNCHANGED <<eeprom, m_label_buffer>>
  BY DEF PerformWrite, Call, Ready, ram
<1>2. /\ Len(todo') = 2 /\ 1 \in 1 .. Len(todo') /\ 2 \in 1 .. Len(todo')
      /\ todo'[1].field = "label" /\ todo'[1].bytes = m_label_buffer
      /\ todo'[2].field = "label_size" /\ todo'[2].bytes = IntBytes(n)
  BY <1>1 DEF LabelWrites, Write
<1>3. \A k \in 1 .. Len(todo') : k \in {1, 2}
  BY <1>2
<1>4. Pending("label")' = m_label_buffer /\ Pending("label_size")' = IntBytes(n)
  BY <1>2, PendingNext DEF LabelInv
<1>5. ASSUME NEW f, f \notin {"label", "label_size"}
      PROVE  Pending(f)' = Pending(f)
  <2>1. Settled(f) /\ Settled(f)'
    BY <1>1, <1>2, <1>3, <1>5 DEF Settled
  <2> QED
    BY <1>1, <2>1, PendingNow, PendingNext, FieldBytesUnchanged DEF LabelInv
<1>6. n \in Nat /\ n \in Word /\ n <= MAX_LABEL_LENGTH /\ m_label_buffer \in Seq(Byte)
  BY LabelLength DEF TypeInv, TypeOK, Word
<1>7. AtMost(IntOf(IntBytes(n)), MAX_LABEL_LENGTH) = n
  BY <1>6, IntOfIntBytes, LabelLength DEF AtMost
<1>8. PendingLabel' = LabelOf(m_label_buffer, n)
  <2>1. PendingLabel' = LabelOf(Pending("label")',
                          AtMost(IntOf(Pending("label_size")'), MAX_LABEL_LENGTH))
    BY DEF PendingLabel
  <2> QED
    BY <1>4, <1>7, <2>1
<1>9. LabelOf(m_label_buffer, n) \in Legal["label"]
  <2>1. PICK l \in Labels \cup {DEFAULT_LABEL} : m_label_buffer = Cut(l)
    BY <1>1 DEF LabelInv, LegalBuffer
  <2> DEFINE m == AtMost(Len(l), MAX_LABEL_LENGTH)
  <2>2. l \in Seq(Byte)
    BY LabelAssumption
  <2>3. m \in Nat /\ m <= Len(l)
    BY <2>2, LabelLength DEF AtMost
  <2>4. /\ SubSeq(l, 1, m) \in Seq(Byte) /\ Len(SubSeq(l, 1, m)) = m
        /\ \A i \in 1 .. m : SubSeq(l, 1, m)[i] = l[i]
    BY <2>2, <2>3
  <2>5. m_label_buffer = SubSeq(l, 1, m)
    BY <2>1 DEF Cut
  <2>6. n = m
    BY <2>4, <2>5
  <2>7. LabelOf(l, m) \in Legal["label"]
    BY DEF Legal
  <2> DEFINE cut == SubSeq(l, 1, m)
  <2>8. /\ cut \in Seq(Byte) /\ m <= Len(cut) /\ m_label_buffer = cut
        /\ \A i \in 1 .. m : cut[i] = l[i]
    BY <2>3, <2>4, <2>5
  <2> HIDE DEF m, n, cut
  <2>9. LabelOf(cut, m) = LabelOf(l, m)
    BY <2>2, <2>3, <2>8, SameLabel
  <2> QED
    BY <2>6, <2>7, <2>8, <2>9
<1>10. New' = New
  BY <1>5 DEF New, IntOf
<1>11. Contents' = [Contents EXCEPT !["label"] = LabelOf(m_label_buffer, n)]
  BY <1>5, <1>8 DEF Contents, IntOf, LongOf
<1>12. Changing = {} /\ Changing' = {"label"}
  <2>1. RegisterOf("label") = "label" /\ RegisterOf("label_size") = "label"
    BY DEF RegisterOf
  <2> QED
    BY <1>1, <1>2, <1>3, <2>1 DEF Changing, Registers
<1> QED
  BY <1>1, <1>9, <1>10, <1>11, <1>12 DEF Store!Set

\* A loss of power: the registers that are not changing keep their values, and
\* a set-up is repeated only if its first write was still going on.
LEMMA PowerOffStore ==
  ASSUME LabelInv, LabelInv', PowerOff
  PROVE  Store!SwitchOff
<1>1. phase # "off" /\ phase' = "off" /\ todo' = <<>> /\ UNCHANGED eeprom
  BY DEF PowerOff
<1>2. \A f : Pending(f)' = FieldBytes(f)
  BY <1>1, PendingNext, FieldBytesUnchanged DEF LabelInv, Settled
<1>3. \A f : Settled(f) => Pending(f)' = Pending(f)
  BY <1>2, PendingNow DEF LabelInv
<1>4. Changing' = {}
  BY <1>1 DEF Changing
<1>5. New' = New \/ (Changing = DOMAIN Default /\ New' = TRUE)
  <2>1. CASE Settled("magic")
    BY <1>3, <2>1 DEF New, IntOf
  <2>2. CASE ~Settled("magic")
    <3>1. PICK k \in 1 .. Len(todo) : todo[k].field = "magic"
      BY <2>2 DEF Settled
    <3>2. todo = InitWrites
      BY <3>1 DEF LabelInv, SetUpQueue
    <3>3. Changing = DOMAIN Default
      <4>1. /\ Len(todo) = 7
            /\ todo[1].field = "magic" /\ todo[2].field = "start_address"
            /\ todo[3].field = "esta_id" /\ todo[4].field = "serial_number"
            /\ todo[5].field = "power_cycles" /\ todo[6].field = "sensor"
            /\ todo[7].field = "personality"
        BY <3>2 DEF InitWrites, Write, StartAddressWrite, EstaIdWrite,
           SerialNumberWrite, PowerCyclesWrite, SensorWrite, PersonalityWrite
      <4>2. \A j \in 1 .. Len(todo) : j \in {1, 2, 3, 4, 5, 6, 7}
        BY <4>1
      <4> QED
        BY <4>1, <4>2 DEF Changing, RegisterOf, Registers, Default
    <3>4. New = FALSE
      <4>1. todo[1] = Write("magic", IntBytes(MAGIC_NUMBER)) /\ 1 \in 1 .. Len(todo)
        BY <3>2 DEF InitWrites
      <4>2. Pending("magic") = IntBytes(MAGIC_NUMBER)
        BY <4>1, PendingNow DEF LabelInv, Write
      <4>3. MAGIC_NUMBER \in Word
        BY DEF MAGIC_NUMBER, Word
      <4> QED
        BY <4>2, <4>3, IntOfIntBytes DEF New
    <3>5. New' \in BOOLEAN
      BY DEF New
    <3> QED
      BY <3>3, <3>4, <3>5
  <2> QED
    BY <2>1, <2>2
<1>6. ASSUME NEW s \in Registers \ Changing PROVE Contents'[s] = Contents[s]
  <2>1. ASSUME NEW f, RegisterOf(f) = s PROVE Pending(f)' = Pending(f)
    <3>1. Settled(f)
      BY <1>6, <2>1 DEF Changing, Settled
    <3> QED
      BY <1>3, <3>1
  <2>2. CASE s = "label"
    <3>1. RegisterOf("label") = s /\ RegisterOf("label_size") = s
      BY <2>2 DEF RegisterOf
    <3>2. PendingLabel' = PendingLabel
      BY <2>1, <3>1, SameLabelPending
    <3> QED
      BY <2>2, <3>2 DEF Contents
  <2>3. CASE s # "label"
    <3>1. RegisterOf(s) = s
      BY <2>3 DEF RegisterOf, Registers
    <3>2. Pending(s)' = Pending(s)
      BY <2>1, <3>1
    <3> QED
      BY <2>3, <3>2 DEF Contents, Registers, IntOf, LongOf
  <2> QED
    BY <2>2, <2>3
<1>7. DOMAIN Contents' = Registers
  BY DEF Contents, Registers
<1> QED
  BY <1>1, <1>4, <1>5, <1>6, <1>7 DEF Store!SwitchOff

LEMMA StepStore ==
  ASSUME TypeInv, CacheInv, LabelInv, LabelInv', [Next]_settingsVars
  PROVE  [Store!Next]_(Store!vars)
<1>0. "start_address" \in Registers /\ "serial_number" \in Registers
      /\ "personality" \in Registers /\ "label" \in Registers
  BY DEF Registers
<1>1. CASE SettingsInit
  BY <1>1, SettingsInitStore DEF Store!Next
<1>2. CASE IncrementDevicePowerCycles
  <2>1. PowerCyclesWrite(Plus1(DevicePowerCycles)).field = "power_cycles"
    BY DEF PowerCyclesWrite, Write
  <2> QED
    BY <1>2, <2>1, OtherCallStore DEF IncrementDevicePowerCycles
<1>3. CASE PowerOff
  BY <1>3, PowerOffStore DEF Store!Next
<1>4. CASE PerformWrite
  BY <1>0, <1>4, PerformWriteStore DEF Store!Next
<1>5. ASSUME NEW a \in StartAddresses, SetStartAddress(a) PROVE Store!Set("start_address")
  <2>1. a \in Word /\ a \in Legal["start_address"]
    BY ValueAssumption DEF Legal
  <2>2. /\ StartAddressWrite(a).field = "start_address"
        /\ StartAddressWrite(a).bytes = IntBytes(a)
    BY DEF StartAddressWrite, Write
  <2> QED
    BY <1>0, <1>5, <2>1, <2>2, IntOfIntBytes, CallStore DEF SetStartAddress
<1>6. ASSUME NEW l \in SerialNumbers, SetSerialNumber(l) PROVE Store!Set("serial_number")
  <2>1. l \in Long /\ l \in Legal["serial_number"]
    BY ValueAssumption DEF Legal
  <2>2. /\ SerialNumberWrite(l).field = "serial_number"
        /\ SerialNumberWrite(l).bytes = LongBytes(l)
    BY DEF SerialNumberWrite, Write
  <2> QED
    BY <1>0, <1>6, <2>1, <2>2, LongOfLongBytes, CallStore DEF SetSerialNumber
<1>7. ASSUME NEW p \in Personalities, SetPersonality(p) PROVE Store!Set("personality")
  <2>1. p \in Legal["personality"]
    BY DEF Legal
  <2>2. PersonalityWrite(p).field = "personality" /\ PersonalityWrite(p).bytes[1] = p
    BY DEF PersonalityWrite, Write
  <2> QED
    BY <1>0, <1>7, <2>1, <2>2, CallStore DEF SetPersonality
<1>8. ASSUME NEW c, SetDevicePowerCycles(c) PROVE [Store!Next]_(Store!vars)
  <2>1. PowerCyclesWrite(c).field = "power_cycles"
    BY DEF PowerCyclesWrite, Write
  <2> QED
    BY <1>8, <2>1, OtherCallStore DEF SetDevicePowerCycles, Call, Ready
<1>9. ASSUME NEW v, SaveSensorValue(v) PROVE [Store!Next]_(Store!vars)
  <2>1. SensorWrite(v).field = "sensor"
    BY DEF SensorWrite, Write
  <2> QED
    BY <1>9, <2>1, OtherCallStore DEF SaveSensorValue, Call, Ready
<1>10. CASE (\E l \in Labels : SetDeviceLabel(l)) \/ UNCHANGED settingsVars
  <2>1. UNCHANGED <<eeprom, phase, todo>>
    BY <1>10 DEF SetDeviceLabel, control, settingsVars
  <2>2. \A f : FieldBytes(f)' = FieldBytes(f)
    BY <2>1, FieldBytesUnchanged
  <2>3. \A f : Pending(f)' = Pending(f)
    BY <2>1, <2>2 DEF Pending
  <2>4. Contents' = Contents /\ New' = New
    BY <2>3, SameLabelPending, SameContents
  <2>5. Changing' = Changing
    BY <2>1 DEF Changing, RegisterOf
  <2> QED
    BY <2>1, <2>4, <2>5, Stutters
<1> QED
  BY <1>0, <1>1, <1>2, <1>3, <1>4, <1>5, <1>6, <1>7, <1>8, <1>9, <1>10, WriteByteStore,
     ReturnStore DEF Next, Internal, Store!Next

\* A new EEPROM is a blank store.
LEMMA InitStore == Init => Store!Init
<1> SUFFICES ASSUME Init PROVE Store!Init
  OBVIOUS
<1> DEFINE text == [i \in 1 .. MAX_LABEL_LENGTH |-> ERASED]
<1>1. phase = "off" /\ todo = <<>> /\ eeprom = [a \in Address |-> ERASED]
  BY DEF Init
<1>2. ASSUME NEW f \in Field
      PROVE  Pending(f) = [i \in 1 .. Width[f] |-> ERASED]
  <2>1. Pending(f) = FieldBytes(f)
    BY <1>1, PendingNow DEF Settled, Distinct
  <2>2. \A i \in 1 .. Width[f] : Offset[f] + i - 1 \in Address
    BY Layout, LabelLength DEF Address
  <2> QED
    BY <1>1, <2>1, <2>2 DEF FieldBytes
<1>3. /\ Width["magic"] = 2 /\ Width["start_address"] = 2 /\ Width["esta_id"] = 2
      /\ Width["serial_number"] = 4 /\ Width["personality"] = 1
      /\ Width["label_size"] = 2 /\ Width["label"] = MAX_LABEL_LENGTH
      /\ {"magic", "start_address", "esta_id", "serial_number", "personality",
          "label_size", "label"} \subseteq Field
  BY DEF Width, Field
<1>4. /\ IntOf(Pending("magic")) = 65535 /\ IntOf(Pending("start_address")) = 65535
      /\ IntOf(Pending("esta_id")) = 65535
      /\ LongOf(Pending("serial_number")) = ALL_ONES
      /\ Pending("personality")[1] = ERASED
      /\ IntOf(Pending("label_size")) = 65535
      /\ Pending("label") = text
  <2>1. ASSUME NEW f \in Field, NEW i \in 1 .. Width[f] PROVE Pending(f)[i] = 255
    <3>1. Pending(f) = [j \in 1 .. Width[f] |-> ERASED]
      BY <1>2
    <3>2. [j \in 1 .. Width[f] |-> ERASED][i] = ERASED
      OBVIOUS
    <3> QED
      BY <3>1, <3>2 DEF ERASED
  <2>2. ASSUME NEW f \in Field, Width[f] = 2 PROVE IntOf(Pending(f)) = 65535
    <3>1. Pending(f)[1] = 255 /\ Pending(f)[2] = 255
      BY <2>1, <2>2
    <3> QED
      BY <3>1 DEF IntOf
  <2>3. LongOf(Pending("serial_number")) = ALL_ONES
    <3>1. 1 \in 1 .. 4 /\ 2 \in 1 .. 4 /\ 3 \in 1 .. 4 /\ 4 \in 1 .. 4
      OBVIOUS
    <3>2. /\ Pending("serial_number")[1] = 255 /\ Pending("serial_number")[2] = 255
          /\ Pending("serial_number")[3] = 255 /\ Pending("serial_number")[4] = 255
      BY <1>3, <2>1, <3>1
    <3> QED
      BY <3>2 DEF LongOf, IntOf, ALL_ONES
  <2>4. Pending("personality")[1] = ERASED
    <3>1. 1 \in 1 .. 1
      OBVIOUS
    <3> QED
      BY <1>3, <2>1, <3>1 DEF ERASED
  <2>5. Pending("label") = text
    BY <1>2, <1>3
  <2> HIDE DEF text
  <2> QED
    BY <1>3, <2>2, <2>3, <2>4, <2>5
<1>5. PendingLabel = text
  <2>1. AtMost(65535, MAX_LABEL_LENGTH) = MAX_LABEL_LENGTH
    BY LabelLength DEF AtMost, Word
  <2>2. LabelEnd(text, MAX_LABEL_LENGTH, MAX_LABEL_LENGTH)
    BY LabelLength DEF LabelEnd, ERASED, NUL
  <2>3. LabelOf(text, MAX_LABEL_LENGTH) = SubSeq(text, 1, MAX_LABEL_LENGTH)
    BY <2>2, LabelOfIs, LabelLength
  <2>4. SubSeq(text, 1, MAX_LABEL_LENGTH) = text
    BY LabelLength
  <2>5. LabelOf(text, MAX_LABEL_LENGTH) = text
    BY <2>3, <2>4
  <2> HIDE DEF text
  <2>6. PendingLabel = LabelOf(text, MAX_LABEL_LENGTH)
    BY <1>4, <2>1 DEF PendingLabel
  <2> QED
    BY <2>5, <2>6
<1>6. New = TRUE
  BY <1>4 DEF New, MAGIC_NUMBER
<1>7. Contents = Blank
  <2>1. Blank = [start_address |-> 65535, esta_id |-> 65535, serial_number |-> ALL_ONES,
                 personality |-> ERASED, label |-> text]
    BY DEF Blank
  <2> HIDE DEF text
  <2> QED
    BY <1>4, <1>5, <2>1 DEF Contents
<1>8. Changing = {}
  BY <1>1 DEF Changing
<1> QED
  BY <1>1, <1>6, <1>7, <1>8 DEF Store!Init

\* The bytes, the two writes of a label and the setup of seven writes behave
\* like registers, each of them set at once, for all values, label lengths and
\* losses of power: a loss of power costs at most the registers being written.
THEOREM BytesAreRegisters == Spec => ImplementsStore
<1> DEFINE Inv == TypeInv /\ CacheInv /\ LabelInv
<1>1. Init => Inv
  <2>1. Init => CacheInv
    BY DEF Init, CacheInv, Progress, StartAddressCoherent, PersonalityCoherent
  <2>2. Init => LabelInv
    BY DEF Init, LabelInv, Distinct, SetUpQueue, LabelQueue, LabelQueued, LegalBuffer
  <2> QED
    BY <2>1, <2>2, InitTypeInv
<1>2. Inv /\ [Next]_settingsVars => Inv'
  BY NextIsAnyStep, StepTypeInv, StepCacheInv, StepLabelInv
<1>3. Inv /\ Inv' /\ [Next]_settingsVars => [Store!Next]_(Store!vars)
  BY StepStore
<1> QED
  BY <1>1, <1>2, <1>3, InitStore, PTL DEF Spec, ImplementsStore, Store!Spec
===============================================================================
