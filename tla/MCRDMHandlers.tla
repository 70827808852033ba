---------------------------- MODULE MCRDMHandlers ------------------------------
(* Requests to a device with a two-byte label.  The parameter data is padded *)
(* with zeros to four bytes: the buffer always holds more than a handler     *)
(* reads.                                                                    *)
EXTENDS RDMReplies

MCDefaultLabel == <<68, NUL>>
MCAnalogReadings == {51}
MCController == <<1, 2, 3, 4, 5, 6>>
MCBeyondTable == [p \in 0 .. 255 |-> 255 - p]

Uid(serial) == [esta |-> DEFAULT_ESTA_ID, serial |-> serial]
Us == Uid(DEFAULT_SERIAL_NUMBER)
Renamed == Uid(<<1, 2>>)
Vendorcast == Uid(ALL_ONES)
Broadcast == [esta |-> 65535, serial |-> ALL_ONES]

Padded(data) == data \o [i \in 1 .. 4 - Len(data) |-> 0]

Request(to, class, pid, data) ==
  [frame |-> "ok", esta |-> to.esta, serial |-> to.serial, class |-> class,
   sub |-> 0, pid |-> pid, pdl |-> Len(data), data |-> Padded(data)]

\* SETs of the parameters that are acknowledged and kept, the serial number
\* among them, so that the device is known by either of two UIDs.
MCSets ==
  {Request(Us, "SET", "DMX_START_ADDRESS", <<2, 0>>),
   Request(Us, "SET", "DMX_START_ADDRESS", <<0, 0>>),
   Request(Vendorcast, "SET", "DMX_START_ADDRESS", <<0, 7>>),
   Request(Us, "SET", "DMX_PERSONALITY", <<3>>),
   Request(Us, "SET", "DMX_PERSONALITY", <<4>>),
   Request(Us, "SET", "MANUFACTURER_SET_SERIAL", <<0, 1, 0, 2>>),
   Request(Renamed, "SET", "MANUFACTURER_SET_SERIAL", <<255, 255, 255, 255>>),
   Request(Us, "SET", "DEVICE_POWER_CYCLES", <<0, 0, 255, 255>>),
   Request(Us, "SET", "SENSOR_VALUE", <<255>>),
   Request(Broadcast, "SET", "RECORD_SENSORS", <<0>>),
   Request(Us, "SET", "IDENTIFY_DEVICE", <<1>>),
   Request(Renamed, "SET", "IDENTIFY_DEVICE", <<0>>)}

MCGets ==
  {Request(Renamed, "GET", "DEVICE_INFO", <<>>)}

\* A GET of every parameter that has one.
MCAllGets ==
  {Request(Us, "GET", p, <<>>) :
     p \in {q \in DOMAIN PID_DEFINITIONS :
              PID_DEFINITIONS[q].get /\ PID_DEFINITIONS[q].get_argument_size = 0}} \cup
  {Request(Us, "GET", "PARAMETER_DESCRIPTION", <<128, 0>>),
   Request(Us, "GET", "DMX_PERSONALITY_DESCRIPTION", <<2>>),
   Request(Us, "GET", "SENSOR_DEFINITION", <<0>>),
   Request(Us, "GET", "SENSOR_VALUE", <<0>>)}

\* A request of every kind that HandleRDMMessage or a handler refuses.
MCRefused ==
  {[Request(Us, "GET", "DEVICE_INFO", <<>>) EXCEPT !.frame = "FAILED"],
   [Request(Us, "GET", "DEVICE_INFO", <<>>) EXCEPT !.frame = "FAILED_CHECKSUM"],
   [Request(Us, "SET", "IDENTIFY_DEVICE", <<1>>) EXCEPT !.sub = 1],
   [Request(Us, "GET", "DEVICE_INFO", <<>>) EXCEPT !.sub = 65535],
   Request(Us, "GET", "STATUS_MESSAGES", <<>>),
   Request(Us, "SET", "DEVICE_INFO", <<>>),
   Request(Us, "GET", "RECORD_SENSORS", <<>>),
   Request(Vendorcast, "GET", "DEVICE_INFO", <<>>),
   Request(Us, "GET", "SENSOR_VALUE", <<>>),
   Request(Us, "GET", "SENSOR_VALUE", <<1>>),
   Request(Us, "SET", "DEVICE_LABEL", <<65, 65, 65>>),
   Request(Us, "SET", "LANGUAGE", <<0, 0>>)}

MCDurableRequests ==
  MCSets \cup MCGets \cup MCAllGets \cup MCRefused \cup
  {Request(Us, "SET", "LANGUAGE", LANGUAGE_EN)}

\* Two labels and the two ways to ask for the queued message.
MCQueueRequests ==
  {Request(Us, "SET", "DEVICE_LABEL", <<65>>),
   Request(Us, "SET", "DEVICE_LABEL", <<66, 67>>),
   Request(Vendorcast, "SET", "DEVICE_LABEL", <<65>>),
   Request(Us, "GET", "DEVICE_LABEL", <<>>),
   Request(Us, "GET", "QUEUED_MESSAGE", <<1>>),
   Request(Us, "GET", "QUEUED_MESSAGE", <<4>>),
   Request(Us, "SET", "RECORD_SENSORS", <<0>>)}

\* Requests the doc comments of the handlers say something else about.
MCOtherClass == {Request(Us, "DISCOVERY", "IDENTIFY_DEVICE", <<1>>)}
MCBroadcastSensor == {Request(Broadcast, "SET", "SENSOR_VALUE", <<255>>)}
MCLargeAddress == {Request(Us, "SET", "DMX_START_ADDRESS", <<128, 1>>)}
===============================================================================
