------------------------- MODULE WidgetSettingsProofs --------------------------
(***************************************************************************)
(* Theorems about WidgetSettings for every label length, every value the   *)
(* setters are called with and any number of starts.                       *)
(***************************************************************************)
EXTENDS WidgetSettings, SequenceTheorems, WellFoundedInduction, TLAPS

WriteType == [field : Field, bytes : Seq(Byte)]

\* A write that fits into the bytes of its field; only a label may be shorter.
Fits(w) ==
  /\ w \in WriteType
  /\ Len(w.bytes) <= Width[w.field]
  /\ w.field # "label" => Len(w.bytes) = Width[w.field]

\* What TypeOK needs of its past: the queued writes fit, a write begins at its
\* first byte, and a device that is off has nothing to do and may be switched
\* on once more.
TypeInv ==
  /\ TypeOK
  /\ \A k \in 1 .. Len(todo) : Fits(todo[k])
  /\ todo = <<>> => written = 0
  /\ phase = "off" => todo = <<>> /\ boots < MaxBoots

-----------------------------------------------------------------------------
(* Lemmas about bytes, fields and writes. *)

\* WriteInt writes two bytes.
LEMMA IntBytesType ==
  ASSUME NEW w \in Word
  PROVE  IntBytes(w) \in Seq(Byte) /\ Len(IntBytes(w)) = 2
<1>1. w \div 256 \in Byte /\ w % 256 \in Byte
  BY DEF Word, Byte
<1> QED
  BY <1>1 DEF IntBytes

\* WriteLong writes four.
LEMMA LongBytesType ==
  ASSUME NEW l \in Long
  PROVE  LongBytes(l) \in Seq(Byte) /\ Len(LongBytes(l)) = 4
<1> DEFINE high == IntBytes(l[1])
           low == IntBytes(l[2])
<1>1. l[1] \in Word /\ l[2] \in Word
  BY DEF Long
<1>2. high \in Seq(Byte) /\ low \in Seq(Byte) /\ Len(high) = 2 /\ Len(low) = 2
  BY <1>1, IntBytesType
<1>3. LongBytes(l) = high \o low
  BY DEF LongBytes
<1> HIDE DEF high, low
<1>4. high \o low \in Seq(Byte) /\ Len(high \o low) = Len(high) + Len(low)
  BY <1>2, ConcatProperties
<1>5. Len(high) + Len(low) = 4
  BY <1>2
<1> QED
  BY <1>3, <1>4, <1>5

\* ReadInt gives a value WriteInt takes.
LEMMA IntOfType ==
  ASSUME NEW a \in Byte, NEW b \in Byte
  PROVE  a * 256 + b \in Word
  BY DEF Byte, Word

\* Incrementing an unsigned long gives one.
LEMMA Plus1Type ==
  ASSUME NEW l \in Long
  PROVE  Plus1(l) \in Long
<1>1. l[1] \in Word /\ l[2] \in Word
  BY DEF Long
<1>2. ASSUME NEW w \in Word
      PROVE  (w < 65535 => w + 1 \in Word) /\ (w + 1) % 65536 \in Word /\ 0 \in Word
  BY DEF Word
<1> QED
  BY <1>1, <1>2 DEF Plus1, Long

\* A set of naturals that is not empty has a first one.
LEMMA FirstOf ==
  ASSUME NEW K, K \subseteq Nat, K # {}
  PROVE  \E k \in K : \A i \in K : k <= i
<1> DEFINE R == OpToRel(<, Nat)
<1>1. \A i, k \in Nat : <<i, k>> \in R <=> i < k
  BY DEF OpToRel
<1> HIDE DEF R
<1>2. IsWellFoundedOn(R, Nat)
  BY NatLessThanWellFounded DEF R
<1>3. PICK k \in K : \A i \in K : ~(<<i, k>> \in R)
  BY <1>2, WFMin
<1>4. ASSUME NEW i \in K PROVE k <= i
  <2>1. i \in Nat /\ k \in Nat
    OBVIOUS
  <2>2. ~(i < k)
    BY <1>1, <1>3, <2>1
  <2> QED
    BY <2>1, <2>2
<1> QED
  BY <1>4

LEMMA LabelLength == MAX_LABEL_LENGTH \in Nat /\ MAX_LABEL_LENGTH \in Word
  BY LabelAssumption DEF Byte, Word

\* Every field lies in the EEPROM.
LEMMA Layout ==
  ASSUME NEW f \in Field
  PROVE  /\ Width[f] \in Nat /\ Offset[f] \in Nat
         /\ Offset[f] + Width[f] <= 17 + MAX_LABEL_LENGTH
  BY LabelLength DEF Field, Width, Offset

LEMMA FieldBytesType ==
  ASSUME eeprom \in [Address -> Byte], NEW f \in Field, NEW i \in 1 .. Width[f]
  PROVE  FieldBytes(f)[i] \in Byte
<1>1. Offset[f] + i - 1 \in Address
  BY Layout, LabelLength DEF Address
<1> QED
  BY <1>1 DEF FieldBytes

LEMMA FieldBytesSeq ==
  ASSUME eeprom \in [Address -> Byte], NEW f \in Field
  PROVE  FieldBytes(f) \in Seq(Byte) /\ Len(FieldBytes(f)) = Width[f]
<1> DEFINE n == Width[f]
           g == FieldBytes(f)
<1>1. n \in Nat
  BY Layout
<1>2. \A i \in 1 .. n : g[i] \in Byte
  BY FieldBytesType
<1>3. g = [i \in 1 .. n |-> eeprom[Offset[f] + i - 1]]
  BY DEF FieldBytes
<1>4. g = [i \in 1 .. n |-> g[i]]
  BY <1>3
<1> HIDE DEF n, g
<1>5. g \in [1 .. n -> Byte]
  BY <1>2, <1>4
<1>6. g \in Seq(Byte)
  BY <1>1, <1>5
<1>7. DOMAIN g = 1 .. n /\ DOMAIN g = 1 .. Len(g) /\ Len(g) \in Nat
  BY <1>5, <1>6
<1>8. Len(g) = n
  BY <1>1, <1>7
<1> QED
  BY <1>6, <1>8 DEF n, g

\* The successor of the power cycle counter can be stored.
LEMMA PowerCyclesType ==
  ASSUME eeprom \in [Address -> Byte]
  PROVE  Plus1(DevicePowerCycles) \in Long
<1> DEFINE b == FieldBytes("power_cycles")
<1>1. "power_cycles" \in Field /\ Width["power_cycles"] = 4
  BY DEF Field, Width
<1>2. b[1] \in Byte /\ b[2] \in Byte /\ b[3] \in Byte /\ b[4] \in Byte
  BY <1>1, FieldBytesType
<1>3. b[1] * 256 + b[2] \in Word /\ b[3] * 256 + b[4] \in Word
  BY <1>2, IntOfType
<1>4. DevicePowerCycles \in Long
  BY <1>3 DEF DevicePowerCycles, LongOf, IntOf, Long
<1> QED
  BY <1>4, Plus1Type

LEMMA FitsIntro ==
  ASSUME NEW f \in Field, NEW b \in Seq(Byte), Len(b) <= Width[f],
         f # "label" => Len(b) = Width[f]
  PROVE  Fits(Write(f, b))
  BY DEF Fits, Write, WriteType

\* Every setter writes a value that fits into its field.
LEMMA SetterWritesFit ==
  /\ \A w \in Word : /\ Fits(StartAddressWrite(w))
                     /\ Fits(EstaIdWrite(w))
                     /\ Fits(SensorWrite(w))
                     /\ Fits(Write("magic", IntBytes(w)))
                     /\ Fits(Write("label_size", IntBytes(w)))
  /\ \A l \in Long : Fits(SerialNumberWrite(l)) /\ Fits(PowerCyclesWrite(l))
  /\ \A p \in Byte : Fits(PersonalityWrite(p))
<1>1. ASSUME NEW w \in Word,
             NEW f \in {"start_address", "esta_id", "sensor", "magic", "label_size"}
      PROVE  Fits(Write(f, IntBytes(w)))
  <2>1. f \in Field /\ Width[f] = 2
    BY DEF Field, Width
  <2> DEFINE b == IntBytes(w)
  <2>2. b \in Seq(Byte) /\ Len(b) = 2
    BY IntBytesType
  <2> HIDE DEF b
  <2>3. Len(b) <= Width[f] /\ Len(b) = Width[f]
    BY <2>1, <2>2
  <2>4. Fits(Write(f, b))
    BY <2>1, <2>2, <2>3, FitsIntro
  <2> QED
    BY <2>4 DEF b
<1>2. ASSUME NEW l \in Long, NEW f \in {"serial_number", "power_cycles"}
      PROVE  Fits(Write(f, LongBytes(l)))
  <2>1. f \in Field /\ Width[f] = 4
    BY DEF Field, Width
  <2> DEFINE b == LongBytes(l)
  <2>2. b \in Seq(Byte) /\ Len(b) = 4
    BY LongBytesType
  <2> HIDE DEF b
  <2>3. Len(b) <= Width[f] /\ Len(b) = Width[f]
    BY <2>1, <2>2
  <2>4. Fits(Write(f, b))
    BY <2>1, <2>2, <2>3, FitsIntro
  <2> QED
    BY <2>4 DEF b
<1>3. ASSUME NEW p \in Byte
      PROVE  Fits(Write("personality", <<p>>))
  <2>1. "personality" \in Field /\ Width["personality"] = 1
    BY DEF Field, Width
  <2>2. <<p>> \in Seq(Byte) /\ Len(<<p>>) <= Width["personality"]
        /\ Len(<<p>>) = Width["personality"]
    BY <2>1
  <2> QED
    BY <2>1, <2>2, FitsIntro
<1> QED
  BY <1>1, <1>2, <1>3 DEF StartAddressWrite, EstaIdWrite, SensorWrite,
     SerialNumberWrite, PowerCyclesWrite, PersonalityWrite

\* So do the writes of Init.
LEMMA InitWritesFit ==
  /\ InitWrites \in Seq(WriteType)
  /\ \A k \in 1 .. Len(InitWrites) : Fits(InitWrites[k])
<1>1. /\ MAGIC_NUMBER \in Word /\ DEFAULT_START_ADDRESS \in Word
      /\ DEFAULT_ESTA_ID \in Word /\ 0 \in Word /\ 1 \in Word
      /\ DEFAULT_PERSONALITY \in Byte
  BY DEF MAGIC_NUMBER, DEFAULT_START_ADDRESS, DEFAULT_ESTA_ID,
     DEFAULT_PERSONALITY, Word, Byte
<1>2. DEFAULT_SERIAL_NUMBER \in Long /\ <<0, 0>> \in Long
  BY <1>1 DEF DEFAULT_SERIAL_NUMBER, Long
<1>3. /\ Fits(Write("magic", IntBytes(MAGIC_NUMBER)))
      /\ Fits(StartAddressWrite(DEFAULT_START_ADDRESS))
      /\ Fits(EstaIdWrite(DEFAULT_ESTA_ID))
      /\ Fits(SerialNumberWrite(DEFAULT_SERIAL_NUMBER))
      /\ Fits(PowerCyclesWrite(<<0, 0>>))
      /\ Fits(SensorWrite(0))
      /\ Fits(PersonalityWrite(DEFAULT_PERSONALITY))
  BY <1>1, <1>2, SetterWritesFit
<1> QED
  BY <1>3 DEF InitWrites, Fits

\* The label that is buffered fits, and so do the two writes that store it.
LEMMA BufferType ==
  ASSUME NEW label \in Seq(Byte), BufferLabel(label)
  PROVE  /\ m_label_buffer' \in Seq(Byte)
         /\ Len(m_label_buffer') <= MAX_LABEL_LENGTH
         /\ m_label_pending' \in BOOLEAN
<1> DEFINE n == AtMost(Len(label), MAX_LABEL_LENGTH)
<1>1. n \in Nat /\ n <= Len(label) /\ n <= MAX_LABEL_LENGTH
  BY LabelLength DEF AtMost
<1>2. SubSeq(label, 1, n) \in Seq(Byte) /\ Len(SubSeq(label, 1, n)) = n
  BY <1>1
<1> QED
  BY <1>1, <1>2 DEF BufferLabel

LEMMA LabelWritesFit ==
  ASSUME TypeOK
  PROVE  /\ LabelWrites \in Seq(WriteType)
         /\ \A k \in 1 .. Len(LabelWrites) : Fits(LabelWrites[k])
<1>1. Len(m_label_buffer) \in Word
  BY LabelLength DEF TypeOK, Word
<1>2. Fits(Write("label_size", IntBytes(Len(m_label_buffer))))
  BY <1>1, SetterWritesFit
<1>3. "label" \in Field /\ Width["label"] = MAX_LABEL_LENGTH
  BY DEF Field, Width
<1>4. Fits(Write("label", m_label_buffer))
  BY <1>3, FitsIntro DEF TypeOK
<1> QED
  BY <1>2, <1>4 DEF LabelWrites, Fits

-----------------------------------------------------------------------------
(* The steps of the settings, whoever calls the setters; a quiet step is one *)
(* that calls none of those that write.                                      *)

QuietStep ==
  \/ Internal
  \/ PowerOff
  \/ PerformWrite
  \/ \E l \in Seq(Byte) : SetDeviceLabel(l)
  \/ UNCHANGED settingsVars

AnyStep ==
  \/ QuietStep
  \/ \E w \in WriteType : Fits(w) /\ w.field # "magic" /\ Call(<<w>>)

\* A setter that queues one write that fits.
LEMMA AnyCall ==
  ASSUME NEW w, Fits(w), w.field # "magic", Call(<<w>>)
  PROVE  AnyStep
  BY DEF AnyStep, QuietStep, Fits

\* A setter called with a value of the type it takes.
LEMMA SetterCalls ==
  /\ \A a \in Word : SetStartAddress(a) \/ SaveSensorValue(a) => AnyStep
  /\ \A l \in Long : SetSerialNumber(l) \/ SetDevicePowerCycles(l) => AnyStep
  /\ \A p \in Byte : SetPersonality(p) => AnyStep
<1>1. ASSUME NEW a \in Word, SetStartAddress(a) \/ SaveSensorValue(a) PROVE AnyStep
  <2>1. /\ Fits(StartAddressWrite(a)) /\ StartAddressWrite(a).field # "magic"
        /\ Fits(SensorWrite(a)) /\ SensorWrite(a).field # "magic"
    BY SetterWritesFit DEF StartAddressWrite, SensorWrite, Write
  <2> QED
    BY <1>1, <2>1, AnyCall DEF SetStartAddress, SaveSensorValue
<1>2. ASSUME NEW l \in Long, SetSerialNumber(l) \/ SetDevicePowerCycles(l) PROVE AnyStep
  <2>1. /\ Fits(SerialNumberWrite(l)) /\ SerialNumberWrite(l).field # "magic"
        /\ Fits(PowerCyclesWrite(l)) /\ PowerCyclesWrite(l).field # "magic"
    BY SetterWritesFit DEF SerialNumberWrite, PowerCyclesWrite, Write
  <2> QED
    BY <1>2, <2>1, AnyCall DEF SetSerialNumber, SetDevicePowerCycles
<1>3. ASSUME NEW p \in Byte, SetPersonality(p) PROVE AnyStep
  <2>1. Fits(PersonalityWrite(p)) /\ PersonalityWrite(p).field # "magic"
    BY SetterWritesFit DEF PersonalityWrite, Write
  <2> QED
    BY <1>3, <2>1, AnyCall DEF SetPersonality
<1> QED
  BY <1>1, <1>2, <1>3

\* The setters' constants are of these types.
LEMMA NextIsAnyStep == [Next]_settingsVars => AnyStep
<1>1. ASSUME \E l \in Labels : SetDeviceLabel(l) PROVE AnyStep
  BY <1>1, LabelAssumption DEF AnyStep, QuietStep
<1>2. ASSUME Internal \/ PowerOff \/ PerformWrite \/ UNCHANGED settingsVars PROVE AnyStep
  BY <1>2 DEF AnyStep, QuietStep
<1>3. /\ \A a \in StartAddresses : a \in Word
      /\ \A v \in SensorValues : v \in Word
      /\ \A l \in SerialNumbers : l \in Long
      /\ \A c \in PowerCycles : c \in Long
      /\ \A p \in Personalities : p \in Byte
  BY ValueAssumption
<1> QED
  BY <1>1, <1>2, <1>3, SetterCalls DEF Next

-----------------------------------------------------------------------------
(* TypeInv is inductive. *)

LEMMA InitTypeInv == Init => TypeInv
<1> SUFFICES ASSUME Init PROVE TypeInv
  OBVIOUS
<1>1. 0 \in Byte /\ 0 \in Word /\ ERASED \in Byte
  BY DEF Byte, Word, ERASED
<1>2. eeprom \in [Address -> Byte]
  BY <1>1 DEF Init
<1>3. /\ m_label_buffer \in Seq(Byte) /\ Len(m_label_buffer) <= MAX_LABEL_LENGTH
      /\ todo \in Seq([field : Field, bytes : Seq(Byte)]) /\ todo = <<>>
  BY LabelLength DEF Init
<1>4. boots \in 0 .. MaxBoots /\ boots < MaxBoots
  BY BoundAssumption DEF Init
<1>5. /\ \A k \in 1 .. Len(todo) : Len(todo[k].bytes) <= Width[todo[k].field]
      /\ \A k \in 1 .. Len(todo) : Fits(todo[k])
  BY <1>3
<1>6. written \in Nat /\ written = 0 /\ phase = "off" /\ m_label_pending = FALSE
      /\ m_start_address = 0 /\ m_personality = 0
  BY DEF Init
<1> QED
  BY <1>1, <1>2, <1>3, <1>4, <1>5, <1>6 DEF TypeInv, TypeOK

\* A call queues writes that fit.
LEMMA CallTypeInv ==
  ASSUME TypeInv, NEW writes \in Seq(WriteType),
         \A k \in 1 .. Len(writes) : Fits(writes[k]), Call(writes)
  PROVE  TypeInv'
<1>1. /\ todo' \in Seq(WriteType)
      /\ \A k \in 1 .. Len(todo') : Fits(todo'[k])
      /\ written' = 0 /\ phase' = "run"
  BY DEF Call, Ready, TypeInv
<1>2. UNCHANGED <<eeprom, m_start_address, m_personality, m_label_buffer,
                  m_label_pending, boots>>
  BY DEF Call, ram
<1>3. todo' # <<>> => written' <= Len(Head(todo').bytes)
  BY <1>1 DEF WriteType
<1> QED
  BY <1>1, <1>2, <1>3 DEF TypeInv, TypeOK, WriteType, Fits

\* A setter that queues one write that fits.
LEMMA CallOneTypeInv ==
  ASSUME TypeInv, NEW w, Fits(w), Call(<<w>>)
  PROVE  TypeInv'
<1>1. <<w>> \in Seq(WriteType) /\ \A k \in 1 .. Len(<<w>>) : Fits(<<w>>[k])
  BY DEF Fits
<1> QED
  BY <1>1, CallTypeInv

LEMMA SettingsInitTypeInv == TypeInv /\ SettingsInit => TypeInv'
<1> SUFFICES ASSUME TypeInv, SettingsInit PROVE TypeInv'
  OBVIOUS
<1>1. /\ phase = "off" /\ phase' = "init" /\ boots' = boots + 1
      /\ UNCHANGED <<eeprom, written>>
      /\ LoadCaches \/ SetDefaults
  BY DEF SettingsInit, Boot
<1>2. boots' \in 0 .. MaxBoots /\ todo = <<>> /\ written' = 0
  BY <1>1, BoundAssumption DEF TypeInv, TypeOK
<1>3. CASE LoadCaches
  <2>1. \A f \in Field, i \in Nat : i \in 1 .. Width[f] => FieldBytes(f)[i] \in Byte
    BY FieldBytesType DEF TypeInv, TypeOK
  <2>2. /\ "start_address" \in Field /\ Width["start_address"] = 2
        /\ "personality" \in Field /\ Width["personality"] = 1
    BY DEF Field, Width
  <2>3. /\ FieldBytes("start_address")[1] \in Byte
        /\ FieldBytes("start_address")[2] \in Byte
        /\ FieldBytes("personality")[1] \in Byte
    BY <2>1, <2>2
  <2>4. m_start_address' \in Word /\ m_personality' \in Byte
    BY <1>3, <2>3, IntOfType DEF LoadCaches, IntOf
  <2>5. UNCHANGED <<m_label_buffer, m_label_pending, todo>>
    BY <1>3 DEF LoadCaches
  <2> QED
    BY <1>1, <1>2, <2>4, <2>5 DEF TypeInv, TypeOK
<1>4. CASE SetDefaults
  <2>1. /\ todo' = InitWrites /\ BufferLabel(DEFAULT_LABEL)
        /\ UNCHANGED <<m_start_address, m_personality>>
    BY <1>4 DEF SetDefaults
  <2>2. /\ m_label_buffer' \in Seq(Byte) /\ Len(m_label_buffer') <= MAX_LABEL_LENGTH
        /\ m_label_pending' \in BOOLEAN
    BY <2>1, BufferType, LabelAssumption
  <2>3. /\ todo' \in Seq(WriteType)
        /\ \A k \in 1 .. Len(todo') : Fits(todo'[k])
    BY <2>1, InitWritesFit
  <2>4. todo' # <<>> => written' <= Len(Head(todo').bytes)
    BY <1>2, <2>3 DEF WriteType
  <2> QED
    BY <1>1, <1>2, <2>1, <2>2, <2>3, <2>4 DEF TypeInv, TypeOK, WriteType, Fits
<1> QED
  BY <1>1, <1>3, <1>4

\* The write that is going on fits.
LEMMA HeadFits ==
  ASSUME TypeInv, todo # <<>>
  PROVE  Fits(Head(todo))
<1>1. todo \in Seq(WriteType) /\ \A k \in 1 .. Len(todo) : Fits(todo[k])
  BY DEF TypeInv, TypeOK, WriteType
<1>2. 1 \in 1 .. Len(todo) /\ Head(todo) = todo[1]
  BY <1>1
<1> QED
  BY <1>1, <1>2

LEMMA WriteByteTypeInv == TypeInv /\ WriteByte => TypeInv'
<1> SUFFICES ASSUME TypeInv, WriteByte PROVE TypeInv'
  OBVIOUS
<1> DEFINE w == Head(todo)
<1>0. todo # <<>> /\ Fits(w)
  BY HeadFits DEF WriteByte
<1>1. /\ w \in WriteType /\ written < Len(w.bytes)
      /\ Len(w.bytes) <= Width[w.field] /\ written \in Nat
  BY <1>0 DEF WriteByte, TypeInv, TypeOK, Fits
<1>2. w.field \in Field /\ w.bytes \in Seq(Byte) /\ w.bytes[written + 1] \in Byte
  BY <1>1 DEF WriteType
<1>3. eeprom' = [eeprom EXCEPT ![Offset[w.field] + written] = w.bytes[written + 1]]
  BY DEF WriteByte
<1>4. eeprom' \in [Address -> Byte]
  BY <1>2, <1>3 DEF TypeInv, TypeOK
<1>5. written' \in Nat /\ written' <= Len(w.bytes)
  BY <1>1, <1>2 DEF WriteByte
<1>6. UNCHANGED <<m_start_address, m_personality, m_label_buffer, m_label_pending,
                  phase, todo, boots>>
  BY DEF WriteByte, ram
<1>7. todo' # <<>> /\ Head(todo') = w
  BY <1>0, <1>6
<1> HIDE DEF w
<1> QED
  BY <1>4, <1>5, <1>6, <1>7 DEF TypeInv, TypeOK

LEMMA ReturnTypeInv == TypeInv /\ Return => TypeInv'
<1> SUFFICES ASSUME TypeInv, Return PROVE TypeInv'
  OBVIOUS
<1> DEFINE w == Head(todo)
<1>0. todo # <<>> /\ Fits(w)
  BY HeadFits DEF Return
<1>1. /\ todo # <<>> /\ todo \in Seq(WriteType) /\ w \in WriteType
      /\ written = Len(w.bytes)
      /\ todo' = Tail(todo) /\ written' = 0
  BY <1>0 DEF Return, TypeInv, TypeOK, WriteType, Fits
<1>2. todo' \in Seq(WriteType)
  BY <1>1
<1>3. \A k \in 1 .. Len(todo') : Fits(todo'[k])
  <2>1. \A k \in 1 .. Len(todo') : k + 1 \in 1 .. Len(todo) /\ todo'[k] = todo[k + 1]
    BY <1>1
  <2> QED
    BY <2>1 DEF TypeInv, TypeOK
<1>4. todo' # <<>> => written' <= Len(Head(todo').bytes)
  BY <1>1, <1>2 DEF WriteType
<1>5. m_start_address' \in Word /\ m_personality' \in Byte
  <2>1. /\ m_start_address' = IF w.field = "start_address" THEN IntOf(w.bytes)
                              ELSE m_start_address
        /\ m_personality' = IF w.field = "personality" THEN w.bytes[1]
                            ELSE m_personality
        /\ m_start_address \in Word /\ m_personality \in Byte
    BY DEF Return, TypeInv, TypeOK
  <2>2. CASE w.field = "start_address"
    <3>0. Width["start_address"] = 2
      BY DEF Width
    <3>1. Len(w.bytes) = 2 /\ w.bytes \in Seq(Byte)
      BY <1>0, <2>2, <3>0 DEF Fits, WriteType
    <3>2. IntOf(w.bytes) \in Word
      BY <3>1, IntOfType DEF IntOf
    <3> QED
      BY <2>1, <2>2, <3>2
  <2>3. CASE w.field = "personality"
    <3>0. Width["personality"] = 1
      BY DEF Width
    <3>1. Len(w.bytes) = 1 /\ w.bytes \in Seq(Byte)
      BY <1>0, <2>3, <3>0 DEF Fits, WriteType
    <3>2. w.bytes[1] \in Byte
      BY <3>1
    <3> QED
      BY <2>1, <2>3, <3>2
  <2> QED
    BY <2>1, <2>2, <2>3
<1>6. m_label_pending' \in BOOLEAN
  BY DEF Return, TypeInv, TypeOK
<1>7. phase' \in {"init", "count", "run"}
  <2>1. phase \in {"init", "count", "run"}
    BY <1>1 DEF TypeInv, TypeOK
  <2> QED
    BY <2>1 DEF Return
<1>8. UNCHANGED <<eeprom, m_label_buffer, boots>>
  BY DEF Return
<1> QED
  BY <1>1, <1>2, <1>3, <1>4, <1>5, <1>6, <1>7, <1>8 DEF TypeInv, TypeOK, WriteType, Fits

LEMMA StepTypeInv == TypeInv /\ AnyStep => TypeInv'
<1> SUFFICES ASSUME TypeInv, AnyStep PROVE TypeInv'
  OBVIOUS
<1>1. CASE Internal
  <2>1. CASE IncrementDevicePowerCycles
    <3>1. eeprom \in [Address -> Byte]
      BY DEF TypeInv, TypeOK
    <3>2. Fits(PowerCyclesWrite(Plus1(DevicePowerCycles)))
      BY <3>1, PowerCyclesType, SetterWritesFit
    <3> DEFINE w == PowerCyclesWrite(Plus1(DevicePowerCycles))
    <3>3. /\ todo' = <<w>> /\ written' = 0 /\ phase' = "count"
          /\ UNCHANGED <<eeprom, m_start_address, m_personality, m_label_buffer,
                         m_label_pending, boots>>
      BY <2>1 DEF IncrementDevicePowerCycles, TypeInv, ram
    <3> HIDE DEF w
    <3>4. /\ todo' \in Seq(WriteType) /\ \A k \in 1 .. Len(todo') : Fits(todo'[k])
          /\ written' <= Len(Head(todo').bytes)
      BY <3>2, <3>3 DEF w, Fits, WriteType
    <3> QED
      BY <3>3, <3>4 DEF TypeInv, TypeOK, WriteType, Fits
  <2> QED
    BY <1>1, <2>1, SettingsInitTypeInv, WriteByteTypeInv, ReturnTypeInv DEF Internal
<1>2. CASE PowerOff
  <2>1. /\ phase' = "off" /\ todo' = <<>> /\ written' = 0 /\ boots < MaxBoots
        /\ UNCHANGED <<eeprom, boots>>
    BY <1>2 DEF PowerOff
  <2>0. 0 \in Word /\ 0 \in Byte
    BY DEF Word, Byte
  <2>2. /\ m_start_address' \in Word /\ m_personality' \in Byte
        /\ m_label_buffer' = <<>> /\ m_label_pending' \in BOOLEAN
    BY <1>2, <2>0 DEF PowerOff, ResetRAM
  <2>3. m_label_buffer' \in Seq(Byte) /\ Len(m_label_buffer') <= MAX_LABEL_LENGTH
    BY <2>2, LabelLength
  <2>4. /\ todo' \in Seq(WriteType) /\ \A k \in 1 .. Len(todo') : Fits(todo'[k])
    BY <2>1
  <2> QED
    BY <2>1, <2>2, <2>3, <2>4 DEF TypeInv, TypeOK, WriteType, Fits
<1>3. CASE PerformWrite
  BY <1>3, LabelWritesFit, CallTypeInv DEF PerformWrite, TypeInv
<1>4. ASSUME NEW w \in WriteType, Fits(w), Call(<<w>>) PROVE TypeInv'
  BY <1>4, CallOneTypeInv
<1>5. ASSUME NEW l \in Seq(Byte), SetDeviceLabel(l) PROVE TypeInv'
  <2>1. /\ BufferLabel(l)
        /\ UNCHANGED <<eeprom, m_start_address, phase, m_personality, todo, written, boots>>
    BY <1>5 DEF SetDeviceLabel, control
  <2>2. /\ m_label_buffer' \in Seq(Byte) /\ Len(m_label_buffer') <= MAX_LABEL_LENGTH
        /\ m_label_pending' \in BOOLEAN
    BY <2>1, BufferType
  <2> QED
    BY <2>1, <2>2 DEF TypeInv, TypeOK
<1>6. CASE UNCHANGED settingsVars
  BY <1>6 DEF settingsVars, ram, control, TypeInv, TypeOK
<1> QED
  BY <1>1, <1>2, <1>3, <1>4, <1>5, <1>6 DEF AnyStep, QuietStep

\* Whatever the host sets and whenever the power fails, the EEPROM and the
\* caches hold bytes and words, every write stays within the bytes of its
\* field, and the label within its buffer.
THEOREM SettingsTypeCorrect == Spec => []TypeOK
<1>1. TypeInv => TypeOK
  BY DEF TypeInv
<1> QED
  BY InitTypeInv, NextIsAnyStep, StepTypeInv, <1>1, PTL DEF Spec

-----------------------------------------------------------------------------
(* The caches.  CacheCoherent speaks of the main loop between two calls; its *)
(* inductive form follows a write from its first byte to the assignment that *)
(* comes after the last.                                                     *)

Cached == {"start_address", "personality"}

\* They share no byte with another field.
CoreFields == Field \ {"power_cycles", "sensor"}

\* No write of f is queued.
Settled(f) == \A k \in 1 .. Len(todo) : todo[k].field # f

\* The bytes the running write has stored are in the EEPROM.
Progress ==
  todo # <<>> => \A i \in 1 .. written :
                   FieldBytes(Head(todo).field)[i] = Head(todo).bytes[i]

StartAddressCoherent ==
  phase # "off" /\ Settled("start_address")
    => m_start_address = IntOf(FieldBytes("start_address"))

PersonalityCoherent ==
  phase # "off" /\ Settled("personality")
    => m_personality = FieldBytes("personality")[1]

CacheInv == Progress /\ StartAddressCoherent /\ PersonalityCoherent

LEMMA IsolatedBytes ==
  ASSUME NEW f \in CoreFields, NEW g \in Field, f # g,
         NEW i \in 1 .. Width[f], NEW j \in Nat, j < Width[g]
  PROVE  Offset[f] + i - 1 # Offset[g] + j
  BY LabelLength DEF CoreFields, Field, Width, Offset

\* What a step does to the bytes of a field that stays as it is.
LEMMA FieldBytesUnchanged ==
  ASSUME UNCHANGED eeprom, NEW f
  PROVE  FieldBytes(f)' = FieldBytes(f)
  BY DEF FieldBytes

\* A step that only queues writes, from a state in which none was queued.
LEMMA QueueCacheInv ==
  ASSUME TypeInv, CacheInv, todo = <<>>, phase # "off",
         UNCHANGED <<eeprom, m_start_address, m_personality, written>>
  PROVE  CacheInv'
<1>1. written' = 0
  BY DEF TypeInv
<1>2. Settled("start_address") /\ Settled("personality")
  BY DEF Settled
<1>3. /\ m_start_address = IntOf(FieldBytes("start_address"))
      /\ m_personality = FieldBytes("personality")[1]
  BY <1>2 DEF CacheInv, StartAddressCoherent, PersonalityCoherent
<1>4. /\ FieldBytes("start_address")' = FieldBytes("start_address")
      /\ FieldBytes("personality")' = FieldBytes("personality")
  BY FieldBytesUnchanged
<1>5. m_start_address' = IntOf(FieldBytes("start_address")') /\ StartAddressCoherent'
  BY <1>3, <1>4 DEF StartAddressCoherent, IntOf
<1>6. PersonalityCoherent'
  BY <1>3, <1>4 DEF PersonalityCoherent
<1>7. Progress'
  BY <1>1 DEF Progress
<1> QED
  BY <1>5, <1>6, <1>7 DEF CacheInv

\* A byte written to one field is no byte of another core field.
LEMMA WriteByteKeeps ==
  ASSUME TypeInv, WriteByte, NEW f \in CoreFields, f # Head(todo).field
  PROVE  FieldBytes(f)' = FieldBytes(f)
<1> DEFINE w == Head(todo)
           a == Offset[w.field] + written
<1>1. todo # <<>> /\ Fits(w)
  BY HeadFits DEF WriteByte
<1>2. /\ w.field \in Field /\ w.bytes \in Seq(Byte) /\ written \in Nat
      /\ written < Len(w.bytes) /\ Len(w.bytes) <= Width[w.field]
  BY <1>1 DEF WriteByte, Fits, WriteType, TypeInv, TypeOK
<1>3. Width[w.field] \in Nat /\ Offset[w.field] \in Nat /\ written < Width[w.field]
  BY <1>2, Layout
<1>4. a \in Address
  BY <1>2, <1>3, Layout, LabelLength DEF Address
<1>5. /\ eeprom' = [eeprom EXCEPT ![a] = w.bytes[written + 1]]
      /\ eeprom \in [Address -> Byte]
  BY DEF WriteByte, TypeInv, TypeOK
<1>6. f \in Field
  BY DEF CoreFields
<1>7. ASSUME NEW i \in 1 .. Width[f]
      PROVE  eeprom'[Offset[f] + i - 1] = eeprom[Offset[f] + i - 1]
  <2>1. Offset[f] + i - 1 # a
    BY <1>2, <1>3, IsolatedBytes
  <2>2. Offset[f] + i - 1 \in Address
    BY <1>6, Layout, LabelLength DEF Address
  <2> QED
    BY <1>5, <2>1, <2>2
<1> QED
  BY <1>7 DEF FieldBytes

LEMMA WriteByteCacheInv == TypeInv /\ CacheInv /\ WriteByte => CacheInv'
<1> SUFFICES ASSUME TypeInv, CacheInv, WriteByte PROVE CacheInv'
  OBVIOUS
<1> DEFINE w == Head(todo)
           a == Offset[w.field] + written
<1>1. todo # <<>> /\ Fits(w)
  BY HeadFits DEF WriteByte
<1>2. /\ w.field \in Field /\ w.bytes \in Seq(Byte) /\ written \in Nat
      /\ written < Len(w.bytes) /\ Len(w.bytes) <= Width[w.field]
  BY <1>1 DEF WriteByte, Fits, WriteType, TypeInv, TypeOK
<1>3. Width[w.field] \in Nat /\ Offset[w.field] \in Nat /\ written < Width[w.field]
  BY <1>2, Layout
<1>4. a \in Address
  BY <1>2, <1>3, Layout, LabelLength DEF Address
<1>5. /\ eeprom' = [eeprom EXCEPT ![a] = w.bytes[written + 1]]
      /\ eeprom \in [Address -> Byte]
      /\ written' = written + 1
      /\ UNCHANGED <<m_start_address, m_personality, phase, todo>>
  BY DEF WriteByte, ram, TypeInv, TypeOK
<1>6. ASSUME NEW f \in Cached, f # w.field
      PROVE  FieldBytes(f)' = FieldBytes(f)
  BY <1>6, WriteByteKeeps DEF Cached, CoreFields, Field
<1>7. ASSUME NEW f \in Cached
      PROVE  Settled(f)' => Settled(f) /\ FieldBytes(f)' = FieldBytes(f)
  <2>1. Settled(f)' => Settled(f)
    BY <1>5 DEF Settled
  <2>2. 1 \in 1 .. Len(todo) /\ w = todo[1]
    BY <1>1 DEF TypeInv, TypeOK
  <2>3. Settled(f) => f # w.field
    BY <2>2 DEF Settled
  <2> QED
    BY <2>1, <2>3, <1>6
<1>8. StartAddressCoherent'
  <2>1. Settled("start_address")' =>
          FieldBytes("start_address")' = FieldBytes("start_address") /\ Settled("start_address")
    BY <1>7 DEF Cached
  <2> QED
    BY <1>5, <2>1 DEF CacheInv, StartAddressCoherent, IntOf
<1>9. PersonalityCoherent'
  <2>1. Settled("personality")' =>
          FieldBytes("personality")' = FieldBytes("personality") /\ Settled("personality")
    BY <1>7 DEF Cached
  <2> QED
    BY <1>5, <2>1 DEF CacheInv, PersonalityCoherent
<1>10. Progress'
  <2>1. Head(todo') = w /\ todo' # <<>>
    BY <1>1, <1>5
  <2>2. ASSUME NEW i \in 1 .. written'
        PROVE  FieldBytes(w.field)'[i] = w.bytes[i]
    <3>1. i \in 1 .. Width[w.field] /\ i <= written + 1 /\ i \in Nat
      BY <1>2, <1>3, <1>5
    <3>2. FieldBytes(w.field)'[i] = eeprom'[Offset[w.field] + i - 1]
      BY <3>1, <1>5 DEF FieldBytes
    <3>3. CASE i = written + 1
      <4>1. Offset[w.field] + i - 1 = a
        BY <1>2, <1>3, <3>3
      <4> QED
        BY <1>4, <1>5, <3>2, <3>3, <4>1
    <3>4. CASE i # written + 1
      <4>1. i \in 1 .. written
        BY <1>2, <3>1, <3>4
      <4>2. FieldBytes(w.field)[i] = w.bytes[i]
        BY <1>1, <4>1 DEF CacheInv, Progress
      <4>3. FieldBytes(w.field)[i] = eeprom[Offset[w.field] + i - 1]
        BY <3>1 DEF FieldBytes
      <4>4. Offset[w.field] + i - 1 # a /\ Offset[w.field] + i - 1 \in Address
        BY <1>2, <1>3, <3>1, <4>1, Layout, LabelLength DEF Address
      <4> QED
        BY <1>5, <3>2, <4>2, <4>3, <4>4
    <3> QED
      BY <3>3, <3>4
  <2> QED
    BY <2>1, <2>2, <1>5 DEF Progress, FieldBytes
<1> QED
  BY <1>8, <1>9, <1>10 DEF CacheInv

LEMMA ReturnCacheInv == TypeInv /\ CacheInv /\ Return => CacheInv'
<1> SUFFICES ASSUME TypeInv, CacheInv, Return PROVE CacheInv'
  OBVIOUS
<1> DEFINE w == Head(todo)
<1>1. todo # <<>> /\ Fits(w) /\ todo \in Seq(WriteType) /\ phase # "off"
  BY HeadFits DEF Return, TypeInv, TypeOK, WriteType
<1>2. /\ written = Len(w.bytes) /\ w.bytes \in Seq(Byte)
      /\ todo' = Tail(todo) /\ written' = 0
      /\ UNCHANGED eeprom
  BY <1>1 DEF Return, Fits, WriteType
<1>3. \A i \in 1 .. Len(w.bytes) : FieldBytes(w.field)[i] = w.bytes[i]
  BY <1>1, <1>2 DEF CacheInv, Progress
<1>4. ASSUME NEW f, f # w.field
      PROVE  Settled(f)' => Settled(f)
  <2>1. \A k \in 1 .. Len(todo) :
          k = 1 \/ (k - 1 \in 1 .. Len(todo') /\ todo'[k - 1] = todo[k])
    BY <1>1, <1>2
  <2>2. todo[1] = w
    BY <1>1
  <2> QED
    BY <1>4, <2>1, <2>2 DEF Settled
<1>5. StartAddressCoherent'
  <2>1. FieldBytes("start_address")' = FieldBytes("start_address")
    BY <1>2, FieldBytesUnchanged
  <2>2. CASE w.field = "start_address"
    <3>1. Width["start_address"] = 2
      BY DEF Width
    <3>2. Len(w.bytes) = 2
      BY <1>1, <2>2, <3>1 DEF Fits
    <3>3. IntOf(FieldBytes("start_address")) = IntOf(w.bytes)
      BY <1>3, <2>2, <3>2 DEF IntOf
    <3>4. m_start_address' = IntOf(w.bytes)
      BY <2>2 DEF Return
    <3> QED
      BY <2>1, <3>3, <3>4 DEF StartAddressCoherent, IntOf
  <2>3. CASE w.field # "start_address"
    <3>1. m_start_address' = m_start_address
      BY <2>3 DEF Return
    <3>2. Settled("start_address")' => Settled("start_address")
      BY <1>4, <2>3
    <3> QED
      BY <1>1, <2>1, <3>1, <3>2 DEF CacheInv, StartAddressCoherent, IntOf
  <2> QED
    BY <2>2, <2>3
<1>6. PersonalityCoherent'
  <2>1. FieldBytes("personality")' = FieldBytes("personality")
    BY <1>2, FieldBytesUnchanged
  <2>2. CASE w.field = "personality"
    <3>1. Width["personality"] = 1
      BY DEF Width
    <3>2. Len(w.bytes) = 1
      BY <1>1, <2>2, <3>1 DEF Fits
    <3>3. FieldBytes("personality")[1] = w.bytes[1]
      BY <1>3, <2>2, <3>2
    <3>4. m_personality' = w.bytes[1]
      BY <2>2 DEF Return
    <3> QED
      BY <2>1, <3>3, <3>4 DEF PersonalityCoherent
  <2>3. CASE w.field # "personality"
    <3>1. m_personality' = m_personality
      BY <2>3 DEF Return
    <3>2. Settled("personality")' => Settled("personality")
      BY <1>4, <2>3
    <3> QED
      BY <1>1, <2>1, <3>1, <3>2 DEF CacheInv, PersonalityCoherent
  <2> QED
    BY <2>2, <2>3
<1>7. Progress'
  BY <1>2 DEF Progress
<1> QED
  BY <1>5, <1>6, <1>7 DEF CacheInv

\* When a write returns, its field holds its bytes.
LEMMA ReturnedBytes ==
  ASSUME TypeInv, CacheInv, Return, Head(todo).field # "label"
  PROVE  FieldBytes(Head(todo).field) = Head(todo).bytes
<1> DEFINE w == Head(todo)
<1>1. Fits(w) /\ written = Len(w.bytes) /\ todo # <<>>
  BY HeadFits DEF Return
<1>2. /\ w.bytes \in Seq(Byte) /\ w.field \in Field /\ Width[w.field] \in Nat
      /\ Len(w.bytes) = Width[w.field]
  BY <1>1, Layout DEF Fits, WriteType
<1>3. \A i \in 1 .. Len(w.bytes) : FieldBytes(w.field)[i] = w.bytes[i]
  BY <1>1 DEF CacheInv, Progress
<1>4. FieldBytes(w.field) \in Seq(Byte) /\ Len(FieldBytes(w.field)) = Width[w.field]
  BY <1>2, FieldBytesSeq DEF TypeInv, TypeOK
<1> HIDE DEF w
<1>5. FieldBytes(w.field) = w.bytes
  BY <1>2, <1>3, <1>4, SeqEqual
<1> QED
  BY <1>5 DEF w

LEMMA SettingsInitCacheInv == TypeInv /\ CacheInv /\ SettingsInit => CacheInv'
<1> SUFFICES ASSUME TypeInv, CacheInv, SettingsInit PROVE CacheInv'
  OBVIOUS
<1>1. /\ todo = <<>> /\ written' = 0 /\ UNCHANGED eeprom
      /\ LoadCaches \/ SetDefaults
  BY DEF SettingsInit, Boot, TypeInv
<1>2. /\ FieldBytes("start_address")' = FieldBytes("start_address")
      /\ FieldBytes("personality")' = FieldBytes("personality")
  BY <1>1, FieldBytesUnchanged
<1>3. Progress'
  BY <1>1 DEF Progress
<1>4. CASE LoadCaches
  BY <1>2, <1>3, <1>4 DEF LoadCaches, CacheInv, StartAddressCoherent,
     PersonalityCoherent, IntOf
<1>5. CASE SetDefaults
  <2>1. todo' = InitWrites
    BY <1>5 DEF SetDefaults
  <2>2. /\ Len(InitWrites) = 7
        /\ InitWrites[2].field = "start_address" /\ InitWrites[7].field = "personality"
    BY DEF InitWrites, StartAddressWrite, PersonalityWrite, Write
  <2>3. ~Settled("start_address")' /\ ~Settled("personality")'
    BY <2>1, <2>2 DEF Settled
  <2> QED
    BY <1>3, <2>3 DEF CacheInv, StartAddressCoherent, PersonalityCoherent
<1> QED
  BY <1>1, <1>4, <1>5

LEMMA StepCacheInv == TypeInv /\ CacheInv /\ AnyStep => CacheInv'
<1> SUFFICES ASSUME TypeInv, CacheInv, AnyStep PROVE CacheInv'
  OBVIOUS
<1>1. ASSUME NEW writes, Call(writes) PROVE CacheInv'
  BY <1>1, QueueCacheInv DEF Call, Ready, ram
<1>2. CASE IncrementDevicePowerCycles
  BY <1>2, QueueCacheInv DEF IncrementDevicePowerCycles, ram
<1>3. CASE PowerOff
  <2>1. phase' = "off" /\ written' = 0
    BY <1>3 DEF PowerOff
  <2> QED
    BY <2>1 DEF CacheInv, Progress, StartAddressCoherent, PersonalityCoherent
<1>4. ASSUME NEW l, SetDeviceLabel(l) PROVE CacheInv'
  BY <1>4, QueueCacheInv DEF SetDeviceLabel, Ready, control
<1>5. CASE UNCHANGED settingsVars
  BY <1>5 DEF settingsVars, ram, control, CacheInv, Progress, StartAddressCoherent,
     PersonalityCoherent, Settled, FieldBytes, IntOf
<1> QED
  BY <1>1, <1>2, <1>3, <1>4, <1>5, SettingsInitCacheInv, WriteByteCacheInv,
     ReturnCacheInv
  DEF AnyStep, QuietStep, Internal, PerformWrite

\* Between two calls of the main loop the RAM copies of the start address and
\* the personality equal the EEPROM's, for any history of setters and starts,
\* with power lost at any byte.
THEOREM CachesStayCoherent == Spec => []CacheCoherent
<1>1. Init => CacheInv
  BY DEF Init, CacheInv, Progress, StartAddressCoherent, PersonalityCoherent
<1>2. CacheInv => CacheCoherent
  BY DEF CacheInv, CacheCoherent, StartAddressCoherent, PersonalityCoherent,
     Settled, Ready
<1> QED
  BY <1>1, <1>2, InitTypeInv, NextIsAnyStep, StepTypeInv, StepCacheInv, PTL DEF Spec

-----------------------------------------------------------------------------
(* The magic number.  Only Init writes it, and nothing but its own value. *)

MagicWrites ==
  \A k \in 1 .. Len(todo) :
    todo[k].field = "magic" => todo[k].bytes = IntBytes(MAGIC_NUMBER)

MagicInv == TypeInv /\ MagicWrites

\* No field shares a byte with the magic number.
LEMMA MagicIsolated ==
  ASSUME NEW g \in Field, g # "magic", NEW i \in 1 .. Width["magic"],
         NEW j \in Nat, j < Width[g]
  PROVE  Offset["magic"] + i - 1 # Offset[g] + j
  BY LabelLength DEF Field, Width, Offset

\* Configured, byte by byte.
LEMMA MagicBytes ==
  ASSUME NEW a \in Byte, NEW b \in Byte
  PROVE  a * 256 + b = MAGIC_NUMBER <=> <<a, b>> = IntBytes(MAGIC_NUMBER)
<1>1. IntBytes(MAGIC_NUMBER) = <<79, 77>>
  BY DEF IntBytes, MAGIC_NUMBER
<1>2. a * 256 + b = MAGIC_NUMBER <=> a = 79 /\ b = 77
  BY DEF Byte, MAGIC_NUMBER
<1> QED
  BY <1>1, <1>2

LEMMA StepMagicWrites == TypeInv /\ MagicWrites /\ AnyStep => MagicWrites'
<1> SUFFICES ASSUME TypeInv, MagicWrites, AnyStep PROVE MagicWrites'
  OBVIOUS
<1>1. ASSUME NEW w, w.field # "magic", todo' = <<w>> PROVE MagicWrites'
  BY <1>1 DEF MagicWrites
<1>2. ASSUME UNCHANGED todo PROVE MagicWrites'
  BY <1>2 DEF MagicWrites
<1>3. CASE SettingsInit
  <2>1. ASSUME SetDefaults PROVE MagicWrites'
    BY <2>1 DEF SetDefaults, MagicWrites, InitWrites, StartAddressWrite, EstaIdWrite,
       SerialNumberWrite, PowerCyclesWrite, SensorWrite, PersonalityWrite, Write
  <2> QED
    BY <1>2, <1>3, <2>1 DEF SettingsInit, LoadCaches
<1>4. CASE IncrementDevicePowerCycles
  BY <1>1, <1>4 DEF IncrementDevicePowerCycles, PowerCyclesWrite, Write
<1>5. CASE WriteByte
  BY <1>2, <1>5 DEF WriteByte
<1>6. CASE Return
  <2>1. todo # <<>> /\ todo' = Tail(todo) /\ todo \in Seq(WriteType)
    BY <1>6 DEF Return, TypeInv, TypeOK, WriteType
  <2>2. \A k \in 1 .. Len(todo') : k + 1 \in 1 .. Len(todo) /\ todo'[k] = todo[k + 1]
    BY <2>1
  <2> QED
    BY <2>2 DEF MagicWrites
<1>7. CASE PowerOff
  BY <1>7 DEF PowerOff, MagicWrites
<1>8. CASE PerformWrite
  BY <1>8 DEF PerformWrite, Call, LabelWrites, Write, MagicWrites
<1>9. ASSUME NEW w, w.field # "magic", Call(<<w>>) PROVE MagicWrites'
  BY <1>1, <1>9 DEF Call
<1>10. ASSUME NEW l, SetDeviceLabel(l) PROVE MagicWrites'
  BY <1>2, <1>10 DEF SetDeviceLabel, control
<1>11. CASE UNCHANGED settingsVars
  BY <1>2, <1>11 DEF settingsVars, control
<1> QED
  BY <1>3, <1>4, <1>5, <1>6, <1>7, <1>8, <1>9, <1>10, <1>11 DEF AnyStep, QuietStep, Internal

\* A byte written over a configured device's magic number is the one it had.
LEMMA WriteByteConfigured ==
  ASSUME TypeInv, MagicWrites, Configured, WriteByte
  PROVE  Configured'
<1> DEFINE w == Head(todo)
           a == Offset[w.field] + written
           m == IntBytes(MAGIC_NUMBER)
<1>1. todo # <<>> /\ Fits(w) /\ w = todo[1] /\ 1 \in 1 .. Len(todo)
  BY HeadFits DEF WriteByte, TypeInv, TypeOK
<1>2. /\ w.field \in Field /\ written \in Nat /\ written < Width[w.field]
      /\ eeprom' = [eeprom EXCEPT ![a] = w.bytes[written + 1]]
      /\ eeprom \in [Address -> Byte]
  BY <1>1, Layout DEF WriteByte, Fits, WriteType, TypeInv, TypeOK
<1>3. /\ Width["magic"] = 2 /\ Offset["magic"] = 0 /\ "magic" \in Field
      /\ 0 \in Address /\ 1 \in Address
  BY LabelLength DEF Width, Offset, Field, Address
<1>4. /\ FieldBytes("magic")[1] = eeprom[0] /\ FieldBytes("magic")[2] = eeprom[1]
      /\ FieldBytes("magic")'[1] = eeprom'[0] /\ FieldBytes("magic")'[2] = eeprom'[1]
  BY <1>3 DEF FieldBytes
<1>5. eeprom[0] = m[1] /\ eeprom[1] = m[2]
  <2>1. eeprom[0] * 256 + eeprom[1] = MAGIC_NUMBER
    BY <1>4 DEF Configured, IntOf
  <2>2. <<eeprom[0], eeprom[1]>> = m
    BY <1>2, <1>3, <2>1, MagicBytes
  <2> QED
    BY <2>2
<1>6. eeprom'[0] = eeprom[0] /\ eeprom'[1] = eeprom[1]
  <2>1. CASE w.field = "magic"
    <3>1. w.bytes = m /\ a = written /\ written \in {0, 1}
      BY <1>1, <1>2, <1>3, <2>1 DEF MagicWrites
    <3> QED
      BY <1>2, <1>3, <1>5, <3>1
  <2>2. CASE w.field # "magic"
    <3>1. \A i \in 1 .. 2 : Offset["magic"] + i - 1 # a
      BY <1>2, <1>3, <2>2, MagicIsolated
    <3>2. a # 0 /\ a # 1
      <4>1. 1 \in 1 .. 2 /\ 2 \in 1 .. 2
        OBVIOUS
      <4> QED
        BY <1>3, <3>1, <4>1
    <3> QED
      BY <1>2, <1>3, <3>2
  <2> QED
    BY <2>1, <2>2
<1> QED
  BY <1>4, <1>6 DEF Configured, IntOf

\* A configured device stays so.
LEMMA StepConfigured ==
  ASSUME TypeInv, MagicWrites, Configured, AnyStep
  PROVE  Configured'
<1>1. CASE WriteByte
  BY <1>1, WriteByteConfigured
<1>2. CASE ~WriteByte
  <2>1. UNCHANGED eeprom
    BY <1>2 DEF AnyStep, QuietStep, Internal, SettingsInit, Boot, IncrementDevicePowerCycles,
       Return, PowerOff, PerformWrite, Call, SetDeviceLabel, settingsVars
  <2> QED
    BY <2>1, FieldBytesUnchanged DEF Configured, IntOf
<1> QED
  BY <1>1, <1>2

\* No loss of power and no setter makes Init take a configured device for a
\* new one.
THEOREM NeverReset == Spec => StaysConfigured
<1>1. Init => MagicInv
  <2>1. Init => MagicWrites
    BY DEF Init, MagicWrites
  <2> QED
    BY <2>1, InitTypeInv DEF MagicInv
<1>2. MagicInv /\ [Next]_settingsVars => MagicInv'
  BY NextIsAnyStep, StepTypeInv, StepMagicWrites DEF MagicInv
<1>3. MagicInv /\ [Next]_settingsVars => [Configured => Configured']_settingsVars
  BY NextIsAnyStep, StepConfigured DEF MagicInv
<1> QED
  BY <1>1, <1>2, <1>3, PTL DEF Spec, StaysConfigured
===============================================================================
