---------------------------- MODULE WidgetSettings ----------------------------
(***************************************************************************)
(* The settings of the widget (WidgetSettings.cpp): an EEPROM that keeps   *)
(* its bytes when the power goes, two settings cached in RAM, and a device *)
(* label that is buffered in RAM and written to the EEPROM when the host   *)
(* is quiet.                                                               *)
(*                                                                         *)
(* The firmware has one thread, so the only thing that can happen between  *)
(* two EEPROM bytes of one setter is a loss of power.  A setter is hence   *)
(* three kinds of steps: the call, which queues the EEPROM writes the      *)
(* setter makes in the order it makes them; one step per byte; and the     *)
(* return, which makes the assignments that follow the EEPROM write.       *)
(*                                                                         *)
(* 16-bit values are naturals below 2^16, 32-bit values pairs <<high, low>> *)
(* of 16-bit words.                                                        *)
(***************************************************************************)
EXTENDS Integers, Sequences

CONSTANTS
  MAX_LABEL_LENGTH,  (* Bytes reserved for the label, 32 in the code.      *)
  DEFAULT_LABEL,     (* Label of a new device, with its trailing NUL.      *)
  StartAddresses,    (* What the callers of the setters pass; RDMHandlers  *)
  SerialNumbers,     (* says which values its checks let through.          *)
  PowerCycles,
  SensorValues,
  Personalities,
  Labels,
  MaxBoots,          (* Bound: how often the device is switched on.        *)
  TornWrites         (* TRUE if power may fail between two EEPROM bytes,   *)
                     (* FALSE if it only fails between two setters.        *)

VARIABLES
  eeprom,            (* Persistent: Address -> Byte.                       *)
  m_start_address,   (* RAM copy of the start address.                     *)
  m_personality,     (* RAM copy of the personality.                       *)
  m_label_buffer,    (* The first m_label_size bytes of the label buffer.  *)
  m_label_pending,   (* The buffer has not been written yet.               *)
  phase,             (* "off", in WidgetSettings.Init ("init", "count") or *)
                     (* in the main loop ("run").                          *)
  todo,              (* EEPROM writes the running function has not ended.  *)
  written,           (* Bytes of the first of them already in the EEPROM.  *)
  boots              (* How often the device was switched on.              *)

ram == <<m_start_address, m_personality, m_label_buffer, m_label_pending>>
control == <<phase, todo, written, boots>>
settingsVars == <<eeprom, ram, control>>

-----------------------------------------------------------------------------
(* Bytes, words and longs. *)

Byte == {n \in Nat : n < 256}
Word == {n \in Nat : n < 65536}
Long == Word \X Word

NUL == 0
ERASED == 255  \* a byte of a new EEPROM

\* (Mutant: the low byte is not truncated.)
IntBytes_Wide(w) == <<w \div 256, w>>

\* WriteInt's two bytes, high byte first, and WriteLong's four.
IntBytes(w) == <<w \div 256, w % 256>>
LongBytes(l) == IntBytes(l[1]) \o IntBytes(l[2])

\* ReadInt and ReadLong on the bytes they read.
IntOf(bytes) == bytes[1] * 256 + bytes[2]
LongOf(bytes) == <<IntOf(bytes), bytes[3] * 256 + bytes[4]>>

\* Adding 1 to an unsigned long: the low word carries, the high word wraps.
Plus1(l) ==
  IF l[2] < 65535 THEN <<l[1], l[2] + 1>> ELSE <<(l[1] + 1) % 65536, 0>>

ASSUME LabelAssumption ==
  /\ MAX_LABEL_LENGTH \in Byte
  /\ DEFAULT_LABEL \in Seq(Byte)
  /\ \A l \in Labels : l \in Seq(Byte)

ASSUME ValueAssumption ==
  /\ StartAddresses \subseteq Word
  /\ SerialNumbers \subseteq Long
  /\ PowerCycles \subseteq Long
  /\ SensorValues \subseteq Word
  /\ Personalities \subseteq Byte

ASSUME BoundAssumption ==
  /\ MaxBoots \in Nat \ {0}
  /\ TornWrites \in BOOLEAN

-----------------------------------------------------------------------------
(* The EEPROM layout.  The offsets after the label are 44, 46 and 48 in the *)
(* code; here they are written relative to the end of the label, so that    *)
(* the label can be shortened.                                              *)

Field == {"magic", "start_address", "esta_id", "serial_number", "label_size",
          "label", "power_cycles", "sensor", "personality"}

\* (Mutants: the label starts inside its size, the start address inside the
\* magic number.)
Offset_Label11 ==
  [magic         |-> 0,
   start_address |-> 2,
   esta_id       |-> 4,
   serial_number |-> 6,
   label_size    |-> 10,
   label         |-> 11,
   power_cycles  |-> 12 + MAX_LABEL_LENGTH,
   sensor        |-> 14 + MAX_LABEL_LENGTH,
   personality   |-> 16 + MAX_LABEL_LENGTH]

Offset_Address1 == [Offset_Label11 EXCEPT !.start_address = 1, !.label = 12]

Offset ==
  [magic         |-> 0,
   start_address |-> 2,
   esta_id       |-> 4,
   serial_number |-> 6,
   label_size    |-> 10,
   label         |-> 12,
   power_cycles  |-> 12 + MAX_LABEL_LENGTH,
   sensor        |-> 14 + MAX_LABEL_LENGTH,
   personality   |-> 16 + MAX_LABEL_LENGTH]

\* The widths the comment at the head of the file gives.
Width ==
  [magic |-> 2, start_address |-> 2, esta_id |-> 2, serial_number |-> 4,
   label_size |-> 2, label |-> MAX_LABEL_LENGTH, power_cycles |-> 4,
   sensor |-> 2, personality |-> 1]

Address == 0 .. 16 + MAX_LABEL_LENGTH

FieldBytes(f) == [i \in 1 .. Width[f] |-> eeprom[Offset[f] + i - 1]]

MAGIC_NUMBER == 20301               \* 0x4f4d
DEFAULT_START_ADDRESS == 1
DEFAULT_ESTA_ID == 31344            \* 0x7a70
DEFAULT_SERIAL_NUMBER == <<0, 1>>
DEFAULT_PERSONALITY == 1
MAX_DMX_ADDRESS == 512
ALL_ONES == <<65535, 65535>>        \* the serial number no device may have

-----------------------------------------------------------------------------
(* The getters. *)

EstaId == IntOf(FieldBytes("esta_id"))
SerialNumber == LongOf(FieldBytes("serial_number"))
DevicePowerCycles == LongOf(FieldBytes("power_cycles"))
SensorValue == IntOf(FieldBytes("sensor"))

\* The label in `bytes', of which `size' are in use: it ends at the first NUL.
LabelOf(bytes, size) ==
  LET length == CHOOSE n \in 0 .. size :
                  /\ \A i \in 1 .. n : bytes[i] # NUL
                  /\ n = size \/ bytes[n + 1] = NUL
  IN  SubSeq(bytes, 1, length)

AtMost(n, limit) == IF n < limit THEN n ELSE limit

DeviceLabel ==
  LabelOf(FieldBytes("label"),
          AtMost(IntOf(FieldBytes("label_size")), MAX_LABEL_LENGTH))

-----------------------------------------------------------------------------
(* What the setters write. *)

Write(f, bytes) == [field |-> f, bytes |-> bytes]

StartAddressWrite(a) == Write("start_address", IntBytes(a))
EstaIdWrite(id) == Write("esta_id", IntBytes(id))
SerialNumberWrite(s) == Write("serial_number", LongBytes(s))
PowerCyclesWrite(c) == Write("power_cycles", LongBytes(c))
SensorWrite(v) == Write("sensor", IntBytes(v))
PersonalityWrite(p) == Write("personality", <<p>>)

\* The writes of Init on a new device, in the order of its statements.
InitWrites ==
  <<Write("magic", IntBytes(MAGIC_NUMBER)),
    StartAddressWrite(DEFAULT_START_ADDRESS),
    EstaIdWrite(DEFAULT_ESTA_ID),
    SerialNumberWrite(DEFAULT_SERIAL_NUMBER),
    PowerCyclesWrite(<<0, 0>>),
    SensorWrite(0),
    PersonalityWrite(DEFAULT_PERSONALITY)>>

\* (Mutant: the size counts a terminator.)
LabelWrites_Counted ==
  <<Write("label", m_label_buffer),
    Write("label_size", IntBytes(Len(m_label_buffer) + 1))>>

\* PerformWrite stores the text of the label before its size.
LabelWrites ==
  <<Write("label", m_label_buffer),
    Write("label_size", IntBytes(Len(m_label_buffer)))>>

-----------------------------------------------------------------------------
(* Power, start-up and the steps of a running function. *)

\* The main loop is between two calls and no EEPROM write is outstanding.
Ready == phase = "run" /\ todo = <<>>

ResetRAM ==
  /\ m_start_address' = 0
  /\ m_personality' = 0
  /\ m_label_buffer' = <<>>
  /\ m_label_pending' = FALSE

Init ==
  /\ eeprom = [a \in Address |-> ERASED]
  /\ m_start_address = 0
  /\ m_personality = 0
  /\ m_label_buffer = <<>>
  /\ m_label_pending = FALSE
  /\ phase = "off"
  /\ todo = <<>>
  /\ written = 0
  /\ boots = 0

\* SetDeviceLabel only fills the buffer.
BufferLabel(label) ==
  /\ m_label_buffer' = SubSeq(label, 1, AtMost(Len(label), MAX_LABEL_LENGTH))
  /\ m_label_pending' = TRUE

\* WidgetSettings.Init up to the power cycle counter: load the caches, or
\* queue the writes of a new device.  The default label is buffered here
\* although Init does so between two writes: nothing reads the buffer before
\* Init ends, and a loss of power clears it.
LoadCaches ==
  /\ m_start_address' = IntOf(FieldBytes("start_address"))
  /\ m_personality' = FieldBytes("personality")[1]
  /\ UNCHANGED <<m_label_buffer, m_label_pending, todo>>

SetDefaults ==
  /\ todo' = InitWrites
  /\ BufferLabel(DEFAULT_LABEL)
  /\ UNCHANGED <<m_start_address, m_personality>>

Boot ==
  /\ phase = "off"
  /\ phase' = "init"
  /\ boots' = boots + 1
  /\ UNCHANGED <<eeprom, written>>

\* (Mutants: the personality is not loaded; the magic number is not tested.)
SettingsInit_NoPersonality ==
  /\ Boot
  /\ IF IntOf(FieldBytes("magic")) = MAGIC_NUMBER
     THEN /\ m_start_address' = IntOf(FieldBytes("start_address"))
          /\ UNCHANGED <<m_personality, m_label_buffer, m_label_pending, todo>>
     ELSE SetDefaults

SettingsInit_Always == Boot /\ SetDefaults

SettingsInit ==
  /\ Boot
  /\ IF IntOf(FieldBytes("magic")) = MAGIC_NUMBER THEN LoadCaches ELSE SetDefaults

\* The last statement of Init.  It reads the counter after all of Init's
\* writes, the one of the sensor value included.
IncrementDevicePowerCycles ==
  /\ phase = "init" /\ todo = <<>>
  /\ phase' = "count"
  /\ todo' = <<PowerCyclesWrite(Plus1(DevicePowerCycles))>>
  /\ UNCHANGED <<eeprom, ram, written, boots>>

\* EEPROM.write of the next byte.
WriteByte ==
  /\ todo # <<>>
  /\ written < Len(Head(todo).bytes)
  /\ eeprom' = [eeprom EXCEPT ![Offset[Head(todo).field] + written] =
                   Head(todo).bytes[written + 1]]
  /\ written' = written + 1
  /\ UNCHANGED <<ram, phase, todo, boots>>

\* All bytes of a write are stored: the assignments that follow it.  A value
\* below 2^16 is what IntOf reads back from its IntBytes, so the RAM copies
\* take the setter's argument.
Return ==
  /\ todo # <<>>
  /\ LET write == Head(todo)
     IN  /\ written = Len(write.bytes)
         /\ m_start_address' = IF write.field = "start_address"
                               THEN IntOf(write.bytes) ELSE m_start_address
         /\ m_personality' = IF write.field = "personality"
                             THEN write.bytes[1] ELSE m_personality
         /\ m_label_pending' = (m_label_pending /\ write.field # "label_size")
  /\ todo' = Tail(todo)
  /\ written' = 0
  /\ phase' = IF phase = "count" THEN "run" ELSE phase
  /\ UNCHANGED <<eeprom, m_label_buffer, boots>>

\* The RAM is lost and with it the rest of the running function.
PowerOff ==
  /\ phase # "off"
  /\ boots < MaxBoots
  /\ TornWrites \/ todo = <<>>
  /\ phase' = "off"
  /\ todo' = <<>>
  /\ written' = 0
  /\ ResetRAM
  /\ UNCHANGED <<eeprom, boots>>

-----------------------------------------------------------------------------
(* The setters the main loop calls. *)

Call(writes) ==
  /\ Ready
  /\ todo' = writes
  /\ UNCHANGED <<eeprom, ram, phase, written, boots>>

SetStartAddress(a) == Call(<<StartAddressWrite(a)>>)
SetSerialNumber(s) == Call(<<SerialNumberWrite(s)>>)
SetDevicePowerCycles(c) == Call(<<PowerCyclesWrite(c)>>)
SaveSensorValue(v) == Call(<<SensorWrite(v)>>)
SetPersonality(p) == Call(<<PersonalityWrite(p)>>)

SetDeviceLabel(label) ==
  /\ Ready
  /\ BufferLabel(label)
  /\ UNCHANGED <<eeprom, m_start_address, m_personality, control>>

\* PerformWrite when a label is pending; otherwise it changes nothing.
PerformWrite == m_label_pending /\ Call(LabelWrites)

\* What goes on inside the device without a call of the main loop.
Internal == SettingsInit \/ IncrementDevicePowerCycles \/ WriteByte \/ Return

Next ==
  \/ Internal
  \/ PowerOff
  \/ PerformWrite
  \/ \E a \in StartAddresses : SetStartAddress(a)
  \/ \E s \in SerialNumbers : SetSerialNumber(s)
  \/ \E c \in PowerCycles : SetDevicePowerCycles(c)
  \/ \E v \in SensorValues : SaveSensorValue(v)
  \/ \E p \in Personalities : SetPersonality(p)
  \/ \E l \in Labels : SetDeviceLabel(l)

Spec == Init /\ [][Next]_settingsVars

-----------------------------------------------------------------------------
(* Properties. *)

TypeOK ==
  /\ eeprom \in [Address -> Byte]
  /\ m_start_address \in Word
  /\ m_personality \in Byte
  /\ m_label_buffer \in Seq(Byte) /\ Len(m_label_buffer) <= MAX_LABEL_LENGTH
  /\ m_label_pending \in BOOLEAN
  /\ phase \in {"off", "init", "count", "run"}
  /\ todo \in Seq([field : Field, bytes : Seq(Byte)])
  /\ \A k \in 1 .. Len(todo) : Len(todo[k].bytes) <= Width[todo[k].field]
  /\ written \in Nat
  /\ todo # <<>> => written <= Len(Head(todo).bytes)
  /\ boots \in 0 .. MaxBoots

\* The RAM copies that SetPWM and the GET handlers read are what the EEPROM
\* holds, whatever sequence of power losses, starts and setters came before.
CacheCoherent ==
  Ready => /\ m_start_address = IntOf(FieldBytes("start_address"))
           /\ m_personality = FieldBytes("personality")[1]

\* Once the main loop runs, every setting is one the code can work with: the
\* personality indexes rdm_personalities, the start address is a DMX slot, and
\* the UID is neither another vendor's nor a broadcast address.
SettingsValid ==
  Ready => /\ m_start_address \in 1 .. MAX_DMX_ADDRESS
           /\ m_personality \in 1 .. 3
           /\ EstaId = DEFAULT_ESTA_ID
           /\ SerialNumber # ALL_ONES

\* Readers get the label last set, up to its first NUL.
LabelReads == DeviceLabel = LabelOf(m_label_buffer, Len(m_label_buffer))

\* From the moment the buffered label has been written, readers get the label
\* last set, the empty one included, even over the remains of a longer label
\* or of a write that a loss of power cut short; and they keep getting it until
\* another label is set or the power goes.
LabelWritten ==
  [][phase = "run" /\ phase' = "run" /\ ~m_label_pending'
       /\ (m_label_pending \/ LabelReads)
     => LabelReads']_settingsVars

\* A step changes the bytes of field f only while a write of f is going on.
ChangesOnlyItsField(f) ==
  FieldBytes(f)' # FieldBytes(f) => todo # <<>> /\ Head(todo).field = f

\* The layout comment gives each field bytes of its own: a setter changes no
\* other field, not even for the time of the write.
FieldsIsolated == [][\A f \in Field : ChangesOnlyItsField(f)]_settingsVars

\* The same for all fields but the power cycle counter and the sensor value,
\* whose bytes overlap.
CoreFieldsIsolated ==
  [][\A f \in Field \ {"power_cycles", "sensor"} :
       ChangesOnlyItsField(f)]_settingsVars

\* A device that has been set up is never set up again: no loss of power and
\* no setter damages the magic number, so Init never discards the settings of
\* a configured device.
Configured == IntOf(FieldBytes("magic")) = MAGIC_NUMBER
StaysConfigured == [][Configured => Configured']_settingsVars

-----------------------------------------------------------------------------
(* The settings as registers: a register has its new value from the moment  *)
(* its write is queued, and is changing until the write has returned.       *)

\* The bytes of a field when the running function will have ended.
Pending(f) ==
  LET K == {k \in 1 .. Len(todo) : todo[k].field = f}
  IN  IF K = {} THEN FieldBytes(f) ELSE todo[CHOOSE k \in K : TRUE].bytes

PendingLabel ==
  LabelOf(Pending("label"), AtMost(IntOf(Pending("label_size")), MAX_LABEL_LENGTH))

Registers == {"start_address", "esta_id", "serial_number", "personality", "label"}

\* The register a field is part of.
RegisterOf(f) == IF f = "label_size" THEN "label" ELSE f

\* What a setter may make a reader see: SetDeviceLabel cuts the label off.
Legal ==
  [start_address |-> StartAddresses,
   esta_id       |-> {},
   serial_number |-> SerialNumbers,
   personality   |-> Personalities,
   label         |-> {LabelOf(l, AtMost(Len(l), MAX_LABEL_LENGTH)) :
                        l \in Labels \cup {DEFAULT_LABEL}}]

Default ==
  [start_address |-> DEFAULT_START_ADDRESS,
   esta_id       |-> DEFAULT_ESTA_ID,
   serial_number |-> DEFAULT_SERIAL_NUMBER,
   personality   |-> DEFAULT_PERSONALITY]

Blank ==
  [start_address |-> 65535,
   esta_id       |-> 65535,
   serial_number |-> ALL_ONES,
   personality   |-> ERASED,
   label         |-> [i \in 1 .. MAX_LABEL_LENGTH |-> ERASED]]

New == IntOf(Pending("magic")) # MAGIC_NUMBER

Contents ==
  [start_address |-> IntOf(Pending("start_address")),
   esta_id       |-> IntOf(Pending("esta_id")),
   serial_number |-> LongOf(Pending("serial_number")),
   personality   |-> Pending("personality")[1],
   label         |-> PendingLabel]

Changing == {RegisterOf(todo[k].field) : k \in 1 .. Len(todo)} \cap Registers

Store == INSTANCE SettingsStore WITH
  Setting <- Registers, up <- phase # "off", new <- New, store <- Contents,
  changing <- Changing

\* The bytes behave like such registers, wherever power fails: whatever the
\* order in which setters and Init write, a loss of power costs at most the
\* settings that were being written.
ImplementsStore == Store!Spec
=============================================================================
