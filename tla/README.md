# A verification model of the RGB mixer firmware

The firmware makes an Arduino a six-channel dimmer behind a USB port. The host
speaks the "USB Pro" frame format; in the frames travel DMX data, a few widget
requests, and RDM requests that read and change the device's settings. The
settings live in the EEPROM. There is one thread and no interrupt code of the
firmware's own: `main` initializes the settings and then stays in
`UsbProReceiver::Read` for ever.

So the hard behaviours are not races between threads. They are

- *loss of power*, which can come between any two EEPROM bytes, destroys the RAM
  and keeps the EEPROM;
- *sequences of legal requests*, because handlers communicate through state that
  outlives them (settings, RAM copies, the queued message, the message count);
- *the idle callback*, which does deferred work between requests, at times the
  controller cannot know;
- *the width of integers* (`int` has 16 bits on this processor);
- *a byte stream without timeouts*, whose other end may lose bytes.

## Inventory

| Part | State it keeps | Operations | Talks to | Correct when |
|------|----------------|------------|----------|--------------|
| `WidgetSettings.{h,cpp}` | EEPROM bytes; RAM copies of start address and personality; label buffer, its size, `m_label_pending` | `Init`, getters, setters, `PerformWrite` | EEPROM library; called by `main`, `RDMHandlers`, `RDMSender` | fields do not disturb each other; copies agree with the EEPROM; a stored label reads back; defaults are given once and completely |
| `RDMHandlers.{h,cpp}` | `m_identify_mode_enabled`, `m_device_label_pending`, `m_sent_device_label` | `HandleRDMMessage` (checks, dispatch), 17 GET and 9 SET handlers, `QueueSetDeviceLabel` | `WidgetSettings`, `RDMSender`; called by `main` | one reply per request, none to broadcasts; an acknowledged SET stays in force; bad values are refused; a queued response is neither lost nor unannounced |
| `RDMSender.{h,cpp}` | `m_message_count`, the running checksum | start, send and end a reply; NACK, ACK, ACK_TIMER, status codes; count up and down | `UsbProSender`; reads the UID from `WidgetSettings` | length and checksum agree with the bytes sent; the count stays within a byte |
| `UsbProReceiver.{h,cpp}` | receive state, label, expected size, offset, a 600 byte buffer (locals of `Read`) | one byte at a time; message and idle callbacks | serial port; calls `main`'s callbacks | whole frames are delivered, once and in order; after lost bytes it finds a frame start again; the buffer is not overrun |
| `UsbProSender.{h,cpp}` | none | frame header, bytes, footer | serial port | what it frames the host's receiver can read |
| `main.cpp` | `led_state`, the output levels | `main`, `TakeAction`, `Idle`, `SetPWM`, three widget replies | all of the above | outputs follow the last frame, the start address and the personality |
| `RDMEnums.h`, `MessageLabels.h`, `Common.h` | none | constants | | constants of the modules that use them |
| EEPROM, `Serial`, `analogRead` (Arduino) | outside the repository | modelled from their use: `EEPROM.write` stores one byte and keeps it without power; the sensor returns some value | | |
| `pulsedtr.py`, `Makefile`, texts | none | build and upload | | not modelled |

`PROJECT.json` lists the hazards of this code at their lines, those no property
covers yet included.

## The modules

    SettingsStore      MessageLink            abstract specifications
         ^                  ^
    WidgetSettings     UsbProReceiver         state machines
         ^                  |
    RDMHandlers        UsbProSender           frames, for both directions
         ^                  |
    RDMReplies <------------+                 bytes of the replies
         ^
    Firmware                                  main.cpp: dispatch and lights

`WidgetSettings.tla` is the EEPROM and the code around it. A setter is three
kinds of steps: the call (`SetStartAddress(a)` and so on) queues in `todo` the
EEPROM writes the function makes, in its order; `WriteByte` stores one byte;
`Return` makes the assignments that follow the write, such as
`m_start_address = start_address`. `PowerOff` may come between any two of them
when `TornWrites` holds. `SettingsInit` is `Init` up to its last statement,
`IncrementDevicePowerCycles` that statement, which reads the counter only after
the other writes. The offsets are the code's, written relative to the length of
the label; with `MAX_LABEL_LENGTH = 32` they are 44, 46 and 48. The label buffer
and its size are one sequence. `MatchesEstaId` has no caller and is left out.

`SettingsStore.tla` is what the rest of the firmware expects: named registers
that take a legal value when they are set, survive loss of power and get their
defaults the first time and never again. A loss of power may damage the registers
that are being changed at that moment (`changing`) and no others.
`WidgetSettings` implements it through the mapping at its end: a register has its
new value from the moment its write is queued, and is being changed until that
write has returned. It maps to no code of its own.

`RDMHandlers.tla` extends `WidgetSettings` with the responder. `Checks(r)` is the
list of the tests of `HandleRDMMessage` and of the handlers in the code's order,
each with its reply; a request is answered by the first that fails (`Refuse`) or
goes to its handler (`Handle`). A handler that stores a setting takes two steps
around the setter's: `SetStored` calls it and `Acknowledge` replies when it has
returned. `Idle` is the idle callback; `Continue` lets a running function go on
and, after the label write, calls `QueueSetDeviceLabel`. `SwitchOn` and
`PowerLoss` are the settings' actions with the responder's RAM. `Preface` is the
status the code sends for an unknown command class before it goes on. The
variable `host` is history: what the controller was told (values acknowledged,
whether it is owed a label response, its last two queued-message polls).

`RDMReplies.tla` has no state. It says which bytes a reply is: what each GET
handler sends (`GetData`), what it announced before (`GetSize`, the
`param_data_size` arguments), the header and the running checksum of `RDMSender`,
the frame of `UsbProSender` around it; and the tests of length, start codes and
checksum the firmware makes on messages it receives (`FrameStatus`). What
GET DEVICE_INFO reads beyond the ends of the personality table, when a torn first
start left a personality that is not in it, is a constant with any bytes for
values (`BeyondTable`). The reply is
a function of the request and the abstract reply of `RDMHandlers`; texts are
counted, their letters are not told apart.

`UsbProSender.tla` is the frame format, used by replies and by the host.

`UsbProReceiver.tla` is the loop of `Read`: one action per receiving state, a
16-bit `expected_size`, the message buffer as the bytes written to it so far. The
host sends frames into a serial buffer; a byte that finds it full is lost
(`LoseByte`), because `Read` may be inside a callback, an EEPROM write included. A
byte written behind the buffer overwrites the stack: the mode is `UNDEFINED` from
then on and every outcome the properties speak of is left open. `transit` is
history: of which messages bytes are still to be read and whether one was lost.

`MessageLink.tla` is the link the firmware wants: messages arrive whole, in order
and once; a damaged message puts the link out of step, and until it is in step
again it may swallow messages and hand over junk. `UsbProReceiver` implements it
(`Link`, `ImplementsLink`), with the fairness of the abstract link.

`Firmware.tla` is `main.cpp` on top of the responder: `TakeAction` for DMX frames
(`DmxData`), widget questions (`WidgetRequest`) and messages with a label the
switch does not know (`OtherMessage`), `RDM` for RDM messages, `SetPWM` with its unsigned
arithmetic, the levels set before `Read` (`Run`), and the first bytes of the one
message buffer, which keep what an earlier message left there (`Overwritten`).
`shown` and `uid` are history: what the host last sent for a slot, and the UID it
was told by the widget replies. LEDs are left out. It takes whole messages as
given: `ImplementsLink` is what the receiver promises it.

`MCWidgetSettings`, `MCRDMHandlers`, `MCUsbProReceiver` and `MCFirmware` hold the
values for TLC. `WidgetSettingsProofs`, `SettingsStoreProofs`,
`RDMHandlersProofs`, `RDMPromisesProofs`, `RepliesProofs`, `FirmwareProofs`,
`UsbProReceiverProofs` and `MessageLinkProofs` hold the theorems. Definitions named with a suffix, as
`IntBytes_Wide`, are mutants: plausible bugs that are no part of the
specification, used to show that the properties notice them.

## The runs

| Run | Shows | Bounds |
|-----|-------|--------|
| `settings` | `TypeOK`, `CacheCoherent`, `LabelWritten`, `CoreFieldsIsolated`, `StaysConfigured`; `ImplementsStore`: the bytes behave like the registers of `SettingsStore` | labels of 3, 1 and 0 bytes where 3 fit, and a default with its NUL; one value for each other setter; 3 starts, power fails anywhere |
| `rdm_durable` | `PromisesKept`, `AnswersMatchPromises`, `RepliesWellFormed` | 43 requests: legal SETs, a GET of every parameter, and one for every way to be refused; 2 starts, power fails anywhere |
| `rdm_queue` | `RDMTypeOK`, `OwedIsAnnounced`, `RetransmitSafe`, `RepliesWellFormed`, `LabelEventuallyStored` | two labels, a broadcast one, both polls, a stored SET in between; the count saturates at 3; 2 starts |
| `link` | `LinkTypeOK`, `SizeRespected`, `OverrunNeedsLoss`, `ImplementsLink`, `Resynchronizes` | a message without data, one whose data hold an end byte, one whose first byte makes a length beyond the buffer after a loss; message buffer of 4 bytes, serial buffer of 2, 3 losses |
| `firmware` | `FirmwareTypeOK`, `LightsShowSlots`, `ReportedUidWorks` | DMX frames for all slots, two, none, and with another start code; the widget questions; a message with an unknown label; SETs of address, personality and serial number; 2 starts |

`MCRDMHandlers` and `MCFirmware` list the requests and messages.

Why the bounds are enough. The label length only shifts the later offsets. With
three bytes `settings` sets a full label, a shorter one without a NUL, an empty
one and, first of all, the default with its NUL; the three follow each other and
the default in any order, written whole or torn. A size that is one too large, or
always the maximum, shows as soon as a shorter label without a NUL follows a longer
one. Two starts are a first and a later one;
`settings` has a third. The
values include start addresses with a zero low byte and with two non-zero bytes,
a counter one below a carry into its high word, and in `rdm_durable` two UIDs, so
that a request may be addressed to the old UID after the change. A count that
saturates at 3 reaches its limit and its zero in a few requests; nothing depends
on 255 itself. The receiver knows sizes only by comparing them: a buffer of 4
bytes can be filled exactly, and overrun by a length taken from a data byte; three
losses are two in one message and one in the next. In `firmware` eight bytes of
the buffer hold a start code, the slots of both start addresses and one byte
behind a full frame.

*Fairness*. `RDMSpec`: `WF` of `Continue` and `Acknowledge`: a function that runs
is not stopped. `SF` of `Idle`: a controller leaves the line quiet again and again,
if only for a byte's time, and `Read` then calls the idle callback; strong
fairness because requests disable `Idle` in between. There is none for power, for
the first switch-on or for requests. A host that never stops sending is excluded:
the firmware would never write the label then. `UsbProReceiver`: `WF` of `Read`
(the loop reads what has arrived), of `SendByte` and of the host starting a
message: a DMX controller sends frames without end. Without the last the receiver
would wait inside a damaged message for ever, since it has no timeout.

`Resynchronizes` supposes messages whose bytes are not mistaken for a start byte
(`MCMessages` has none): with such bytes a receiver that is out of step can lock
on to the same place of a repeated message again and again. It also leaves out a
receiver that has overrun its buffer.

Deadlock is checked in every run but is never reached: a device that is on can
receive, be switched on, or lose power, and a host can always send. A run that
ends by `MaxBoots` still receives.

### Disagreements with the code's comments

These seven runs are expected to be violated; each shows a disagreement between a
comment and the code.

- `settings_layout` (`FieldsIsolated`): the layout comment gives the power cycle
  counter four bytes, the offsets leave it two; it shares them with the recorded
  sensor value.
- `settings_first_boot` (`SettingsValid`): `Init` writes the magic number before
  the settings. Power lost in between leaves erased settings that every later
  start takes for valid. The run has no requests, so nothing else is the cause.
- `rdm_other_class` (`OneReply`): an unknown command class is refused and the
  request executed as a SET.
- `rdm_broadcast` (`BroadcastUnanswered`): a broadcast SET SENSOR_VALUE is
  answered with an RDM message.
- `rdm_start_address` (`StartAddressChecked`): the value is compared as a signed
  integer; 0x8000 and above pass.
- `rdm_message_count` (`EmptyQueueAnnouncesNone`): two SETs of the label without a
  poll in between count two messages and queue one. When the label is written and
  the one response fetched, the empty list still announces a message. Besides a
  loss of power only another SET of the label can end this, if its idle write
  queues a response of its own: that one is not counted, and fetching it takes the
  count down.
- `firmware_frame_end` (`LightsOnlyFromFrame`): `SetPWM` gets the size of the
  message with its start code and reads one byte behind the frame, where an
  earlier message or the power-on left something.

`CoreFieldsIsolated`, `ImplementsStore`, `PromisesKept`, `OwedIsAnnounced` and
`LightsShowSlots` say what holds in spite of them. The first two leave out the two
fields that overlap, and the last the slot directly behind a short frame; nothing
else is left out.

Three more oddities were met that no run is about. A controller that polls early
gets a positive response before the label is stored, and another one after. The
write of a broadcast or of the default label queues a response nobody asked for.
And the comment "we don't use queued messages" (src/RDMSender.cpp:104) is stale:
HandleGetQueuedMessage calls this function with a PID of its own.

## What is proved

The theorems hold for every value of the constants that satisfies the named
assumptions, and any number of starts.

*Settings* (`WidgetSettingsProofs`), for every label length up to 255
(`LabelAssumption`), every set of values the setters may be called with
(`ValueAssumption`), power loss anywhere or only between setters
(`BoundAssumption`):

- `SettingsTypeCorrect`: `Spec => []TypeOK`. The invariant is `TypeInv`: `TypeOK`
  alone is not inductive, because a byte is stored at offset plus `written`; one
  has to know that every queued write has the length of its field (`Fits`), that
  a new write starts at its first byte, and that a device that is off has nothing
  queued. That the fields lie inside the EEPROM is the lemma `Layout`.
- `CachesStayCoherent`: `Spec => []CacheCoherent`. While a write is going on
  copy and EEPROM differ, so the invariant `CacheInv` says what is true then: the
  bytes stored so far are those of the write (`Progress`), and a copy either
  agrees with the EEPROM or a write of its field is still queued. The step that
  matters is `WriteByte`, with the lemma that no other field's bytes lie in a core
  field (`IsolatedBytes`), one that is not the power cycle counter or the sensor.
- `NeverReset`: `Spec => StaysConfigured`. No setter queues a write of the magic
  number (`MagicWrites`), no other field overlaps it (`MagicIsolated`), and the
  write that `Init` queues on a new device only ever stores its own value.

The steps are stated for `AnyStep`, a step of the settings with any arguments the
types allow, so that the responder's proofs can use them: `RDMStep` shows that
every step of `RDMHandlers` is one.

*Store* (`SettingsStoreProofs`), under the same assumptions as the settings:

- `WritesKeepToTheirField`: `Spec => CoreFieldsIsolated`, and `WrittenLabelIsRead`:
  `Spec => LabelWritten`. The invariant `LabelInv` says which writes can be
  queued together (no field twice, the text of a label before its size), that
  those of a label are queued only while it is pending, and that its text is in the
  EEPROM when the size alone is left to write. So both are there when the label is
  no longer pending (`ReturnEndsLabel`), and later writes do not touch them. What `LabelOf` reads is characterized by its end (`LabelEnd`), which
  exists and is unique, so no induction over the text is needed.
- `BytesAreRegisters`: `Spec => ImplementsStore`, the whole refinement. One lemma
  per step says which step of the store it is: `SettingsInit` is `SwitchOn`, a
  call is `Set`, a byte that is stored changes no register because its field is
  queued, the return of a write is `Stored` or a stutter (a label's text is read
  as its size allows only when both have returned), a loss of power is
  `SwitchOff`, which may damage the fields still queued.

*Responder* (`RDMHandlersProofs`), for every set of requests that fit the buffer
(`RequestAssumption`), every saturation of the count up to 255 and every reading
of a ten-bit converter (`RangeAssumption`):

- `ResponderTypeCorrect`: `RDMSpec => []RDMTypeOK`. The invariant `RDMTypeInv`
  adds what a handler that waits for its setter knows (`BusyInv`): its request is
  a legal one for it, and at most the complaint about the command class was sent.
  That the identify mode is 0 or 1 rests on `AcceptedValue`: what passes the
  twelve checks has a legal value.
- `QueueKeepsItsPromise`: `RDMSpec => []OwedIsAnnounced`, and `LastMessageRepeats`:
  `RDMSpec => []RetransmitSafe`. The invariant `QueueInv` adds that
  `m_sent_device_label` remembers that the last poll got the label
  (`LastGotLabel`).

*Promises* (`RDMPromisesProofs`), under the same assumptions:

- `AcknowledgedIsKept`: `RDMSpec => []PromisesKept`. The invariant: a running
  device is set up or will be (`SetUpInv`, else a start could overwrite what was
  acknowledged); the setter of a waiting handler is writing what was asked for or
  has written it (`SetterInv`); what is promised is in the EEPROM, and nothing
  that is queued writes there (`Kept`).
- `AnswersAreTrue`: `RDMSpec => []AnswersMatchPromises`, from the same invariant,
  the coherence of the copies, and lemmas on how a value that was read is sent
  (`SentAsStored`).

*Replies* (`RepliesProofs`), for every request whose fields fit their bytes and
every label that leaves room for the header in an RDM message, and whatever lies
behind the personality table (`WireAssumption`, besides the responder's
assumptions):

- `RepliesAreWellFormed`: `RDMSpec => []RepliesWellFormed`. The invariant
  `RepliesInv` says of every reply of the last request that it is one the sender
  can frame (`GoodReply`): its data are as many bytes as its handler announced
  before it sent them, and few enough for the length byte. Lemmas on the GET
  handlers count the data of each (`GetBytes` collects them). A reply holds what was
  read when it was sent, so it stays good when the settings change.
- The checksum is a sum over all bytes of a message, defined as a recursive
  function. That there is such a function (`SumExists`, from `SumStep`), that its
  values are words (`SumType`) and that the status byte sent in front of a message
  changes no sum (`ZeroAddsNothing`) are shown by the first place where they would
  fail: a nonempty set of naturals has a least element (`FirstOf`), so no
  induction is needed. A reply then passes the test the firmware itself makes of a
  message (`VerifyChecksum`).
- The controller's UID is followed through both messages: it stands in the bytes 10
  to 15 of the request (`RequestMessageBytes`), is copied to the bytes 4 to 9 of the
  reply, and nothing that is sent later moves it (`HoldsController`,
  `ControllerStays`).

*Firmware* (`FirmwareProofs`), for every set of messages that fit the buffer and
whatever the buffer holds at power-on (`BufferAssumption`). Every step of the
firmware is a step of the settings (`FirmwareAnyStep`), so that the invariants
above are kept (`SettingsInv`).

- `ReportedUidReaches`: `FirmwareSpec => []ReportedUidWorks`. The invariant
  `UidInv`: a part of the UID that was told is stored, in a device that is set up,
  and no queued write can change it; without these a write or a start that
  is still to come could change what the host was told. `BackwardsBytes` is the byte order of the answer.
- `FirmwareTypeCorrect`: `FirmwareSpec => []FirmwareTypeOK`, and
  `LightsFollowSlots`: `FirmwareSpec => []LightsShowSlots`. The lights are set
  from the RAM copies, the property speaks of the EEPROM. `LightsInv` therefore
  states the property of the copies, in every state of the main loop, also between
  the bytes of a write; `CacheInv` turns it into the property when the write has
  returned. `ShownInv` adds that nothing counts as shown while one of the two
  settings is being written, and `CountInv` that the last function before the
  main loop touches neither. The step that matters is a DMX frame:
  `ReachedOutputs` shows that `SetPWM`, with its unsigned arithmetic, sets exactly
  the outputs whose slots are in the message or one behind it.
- `UsableInv`, which `LightsShowSlots` needs when every write is carried out: no
  request, default or start leaves a start address of 0 or a personality outside
  1 to 3. It is false when power may cut a write short.

*Receiver* (`UsbProReceiverProofs`), for every message and buffer size and any
loss of bytes (`MessageAssumption`, `SizeAssumption`):

- `ReceiverTypeCorrect`: `Spec => []LinkTypeOK`, and `OffsetWithinSize`:
  `Spec => []SizeRespected`.

*Link* (`MessageLinkProofs`), under the same assumptions; `MessageAssumption` also
says that no message is longer than the buffer:

- `ReceiverIsLink`: `Spec => Link!Init /\ [][Link!Next]_(Link!vars)`, the safety
  part of `ImplementsLink`, and `NoLossNoOverrun`: `Spec => []OverrunNeedsLoss`.
  The invariant `Stream` says how the frames lie in the byte stream: the bytes in
  the serial buffer and those still to be sent fall into one segment per message
  in transit, and the segment of a message that has lost nothing is the end of its
  frame. So the next byte of a whole message is the one the receiver expects
  (`FirstByte`, `WholeReceived`), and the last one hands over the message that was
  sent; there is no induction over the frame. `StepInv` adds that a receiver whose
  line has lost no byte is in step, hence never beyond its buffer.

Every invariant and action property of a passing run is a theorem. Only
model-checked is liveness, fairness being beyond the prover:
`LabelEventuallyStored`, `Resynchronizes`, and the `Progress` part of
`ImplementsLink`.

The proofs found these errors of earlier versions of the model, all of which TLC
had missed because its instances had no such values:

- `LightsShowSlots` was false after a write cut short (the high byte of a start
  address 5 stored over that of 0x0100 leaves 0; an erased personality is
  255). It now supposes usable settings when `TornWrites` holds.
- `Run` set the lights when `main` went on from `Init` to the power cycle count,
  not only when it reached the main loop.
- Messages with a label that `TakeAction` has no case for, which still overwrite
  the buffer, were missing.
- The length byte of a reply was not reduced to a byte.
- Two cases of `ParamData` and of `ParamSize` overlapped, so that their value
  rested on the order in which TLC tries them.

## Not modelled, and why

- The LEDs, the letters of texts, the time an EEPROM write or an `ACK_TIMER`
  takes: no property is about them.
- The idle callback inside `UsbProReceiver`, and one composition of the receiver
  with the responder: the receiver's promise (`MessageLink`) is the interface the
  modules above assume, as the code's callback is.
- Where the parameter data of a request come from when its parameter data length
  is larger than the message: `data` is arbitrary in the theorems.
- A DMX frame of more slots than the buffer: the receiver's hazard, covered there.
- `Makefile`, `pulsedtr.py`, texts: no logic of the firmware.
