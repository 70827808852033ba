------------------------- MODULE UsbProReceiverProofs --------------------------
(***************************************************************************)
(* Theorems about UsbProReceiver for every set of messages, every buffer   *)
(* size and any number of lost bytes.                                      *)
(***************************************************************************)
EXTENDS UsbProReceiver, SequenceTheorems, TLAPS

\* What SizeRespected needs: the data of a message begin at the start of the
\* buffer.
SizeInv ==
  /\ LinkTypeOK
  /\ SizeRespected
  /\ recv_mode = "GOT_DATA_LSB" => message = <<>>

\* The bytes of a length.
LEMMA LengthBytes ==
  ASSUME NEW n \in Nat
  PROVE  n % 256 \in Byte /\ (n \div 256) % 256 \in Byte
<1>1. ASSUME NEW k \in Nat PROVE k % 256 \in Nat /\ k % 256 < 256
  OBVIOUS
<1>2. n \div 256 \in Nat
  OBVIOUS
<1> QED
  BY <1>1, <1>2 DEF Byte

\* A frame is a sequence of bytes.
LEMMA FrameType ==
  ASSUME NEW m \in Messages
  PROVE  Frame(m) \in Seq(Byte)
<1> DEFINE low == Len(m.data) % 256
           high == (Len(m.data) \div 256) % 256
           header == <<SOM, m.label, low, high>>
<1>1. m.label \in Byte /\ m.data \in Seq(Byte) /\ Len(m.data) \in Nat
  BY MessageAssumption, LenProperties
<1>2. SOM \in Byte /\ EOM \in Byte
  BY DEF SOM, EOM, Byte
<1>3. low \in Byte /\ high \in Byte
  BY <1>1, LengthBytes
<1>4. Frame(m) = header \o m.data \o <<EOM>>
  BY DEF Frame, WriteMessage, SendMessageHeader, SendMessageFooter
<1> HIDE DEF low, high
<1>5. header \in Seq(Byte)
  BY <1>1, <1>2, <1>3
<1> HIDE DEF header
<1>6. header \o m.data \in Seq(Byte)
  BY <1>1, <1>5, ConcatProperties
<1>7. <<EOM>> \in Seq(Byte)
  BY <1>2
<1> QED
  BY <1>4, <1>6, <1>7, ConcatProperties

LEMMA InitSizeInv == Init => SizeInv
  BY SizeAssumption
  DEF Init, SizeInv, LinkTypeOK, SizeRespected, RecvMode, Byte, UnsignedShort

\* The host and the serial port move bytes.
LEMMA SerialType ==
  ASSUME LinkTypeOK, serial # <<>>
  PROVE  /\ Head(serial) \in Byte /\ Tail(serial) \in Seq(Byte)
         /\ Len(Tail(serial)) = Len(serial) - 1
  BY HeadTailProperties DEF LinkTypeOK

LEMMA HostSizeInv ==
  ASSUME SizeInv, (\E m \in Messages : StartMessage(m)) \/ SendByte \/ LoseByte
  PROVE  SizeInv'
<1> USE DEF SizeInv, LinkTypeOK
<1>1. UNCHANGED <<receiver, handed>>
  BY DEF StartMessage, SendByte, LoseByte
<1>2. ASSUME NEW m \in Messages, StartMessage(m)
      PROVE  sending' \in Seq(Byte) /\ UNCHANGED <<serial, losses>>
  BY <1>2, FrameType DEF StartMessage
<1>3. ASSUME sending # <<>>
      PROVE  Head(sending) \in Byte /\ Tail(sending) \in Seq(Byte)
  BY <1>3, HeadTailProperties
<1>4. CASE SendByte
  <2>1. serial' = Append(serial, Head(sending)) /\ Head(sending) \in Byte
    BY <1>3, <1>4 DEF SendByte
  <2>2. serial' \in Seq(Byte) /\ Len(serial') = Len(serial) + 1
    BY <2>1, AppendProperties
  <2>3. Len(serial') <= SERIAL_BUFFER_SIZE
    BY <1>4, <2>2, SizeAssumption, LenProperties DEF SendByte
  <2> QED
    BY <1>1, <1>3, <1>4, <2>2, <2>3 DEF SendByte, receiver, SizeRespected
<1>5. CASE LoseByte
  <2>1. sending' \in Seq(Byte) /\ serial' = serial
    BY <1>3, <1>5 DEF LoseByte
  <2>2. losses' \in 0 .. MaxLosses
    BY <1>5, SizeAssumption DEF LoseByte
  <2> QED
    BY <1>1, <2>1, <2>2 DEF receiver, SizeRespected
<1>6. CASE \E m \in Messages : StartMessage(m)
  BY <1>1, <1>2, <1>6 DEF receiver, SizeRespected
<1> QED
  BY <1>4, <1>5, <1>6

\* One lemma per receiving state: what a byte does to the receiver.
ReceiverInv ==
  /\ recv_mode \in RecvMode
  /\ label \in Byte
  /\ expected_size \in UnsignedShort
  /\ message \in Seq(Byte) /\ Len(message) <= BUFFER_SIZE
  /\ handed.bit \in {0, 1}
  /\ SizeRespected
  /\ recv_mode = "GOT_DATA_LSB" => message = <<>>

LEMMA HeaderSizeInv ==
  ASSUME ReceiverInv, NEW data \in Byte,
         PreSom(data) \/ GotSom(data) \/ GotLabel(data)
  PROVE  ReceiverInv'
<1>1. data \in UnsignedShort
  BY DEF Byte, UnsignedShort
<1>2. <<>> \in Seq(Byte) /\ Len(<<>>) <= BUFFER_SIZE
  BY SizeAssumption DEF UnsignedShort
<1>3. CASE PreSom(data)
  BY <1>3 DEF ReceiverInv, PreSom, RecvMode, SizeRespected
<1>4. CASE GotSom(data)
  BY <1>4 DEF ReceiverInv, GotSom, RecvMode, SizeRespected
<1>5. CASE GotLabel(data)
  BY <1>1, <1>2, <1>5 DEF ReceiverInv, GotLabel, RecvMode, SizeRespected
<1> QED
  BY <1>3, <1>4, <1>5

LEMMA LengthSizeInv ==
  ASSUME ReceiverInv, NEW data \in Byte, GotDataLsb(data)
  PROVE  ReceiverInv'
<1>1. expected_size' \in UnsignedShort
  BY DEF ReceiverInv, GotDataLsb, Byte, UnsignedShort
<1>2. message = <<>> /\ message' = message /\ Len(message') = 0
  BY DEF ReceiverInv, GotDataLsb
<1>3. recv_mode' = IF expected_size' = 0 THEN "WAITING_FOR_EOM" ELSE "IN_DATA"
  BY DEF GotDataLsb
<1>4. SizeRespected'
  BY <1>1, <1>2, <1>3 DEF SizeRespected, UnsignedShort
<1> QED
  BY <1>1, <1>2, <1>3, <1>4 DEF ReceiverInv, GotDataLsb, RecvMode

LEMMA DataSizeInv ==
  ASSUME ReceiverInv, NEW data \in Byte, InData(data)
  PROVE  ReceiverInv'
<1>1. Len(message) < expected_size /\ Len(message) \in Nat /\ expected_size \in Nat
  BY LenProperties DEF ReceiverInv, SizeRespected, InData, UnsignedShort
<1>2. BUFFER_SIZE \in Nat
  BY SizeAssumption DEF UnsignedShort
<1>3. CASE Len(message) = BUFFER_SIZE
  BY <1>1, <1>2, <1>3 DEF ReceiverInv, SizeRespected, InData, RecvMode
<1>4. CASE Len(message) # BUFFER_SIZE
  <2>1. message' = Append(message, data)
    BY <1>4 DEF InData
  <2>2. message' \in Seq(Byte) /\ Len(message') = Len(message) + 1
    BY <2>1, AppendProperties DEF ReceiverInv
  <2>3. Len(message') <= BUFFER_SIZE /\ Len(message') <= expected_size
    BY <1>1, <1>2, <1>4, <2>2 DEF ReceiverInv
  <2>4. /\ expected_size' = expected_size
        /\ recv_mode' = IF Len(message') = expected_size THEN "WAITING_FOR_EOM" ELSE "IN_DATA"
    BY <1>4 DEF InData
  <2>5. SizeRespected'
    BY <1>1, <2>2, <2>3, <2>4 DEF SizeRespected
  <2> QED
    BY <1>4, <2>2, <2>3, <2>4, <2>5 DEF ReceiverInv, InData, RecvMode
<1> QED
  BY <1>3, <1>4

LEMMA EndSizeInv ==
  ASSUME ReceiverInv, NEW data \in Byte, WaitingForEom(data) \/ Undefined
  PROVE  ReceiverInv'
<1>1. CASE WaitingForEom(data)
  <2>1. handed'.bit \in {0, 1}
    BY <1>1 DEF WaitingForEom, Callback, ReceiverInv
  <2> QED
    BY <1>1, <2>1 DEF WaitingForEom, ReceiverInv, RecvMode, SizeRespected
<1>2. CASE Undefined
  BY <1>2 DEF Undefined, receiver, ReceiverInv, SizeRespected
<1> QED
  BY <1>1, <1>2

LEMMA ReadSizeInv == SizeInv /\ Read => SizeInv'
<1> SUFFICES ASSUME SizeInv, Read PROVE SizeInv'
  OBVIOUS
<1> DEFINE data == Head(serial)
<1>1. /\ data \in Byte /\ serial' \in Seq(Byte)
      /\ Len(serial') <= SERIAL_BUFFER_SIZE
      /\ UNCHANGED <<sending, losses>>
  BY SerialType, SizeAssumption, LenProperties DEF SizeInv, LinkTypeOK, Read, Take
<1>2. ReceiverInv
  BY DEF SizeInv, LinkTypeOK, ReceiverInv
<1>3. \/ PreSom(data) \/ GotSom(data) \/ GotLabel(data)
      \/ GotDataLsb(data) \/ InData(data) \/ WaitingForEom(data) \/ Undefined
  BY DEF Read
<1> HIDE DEF data
<1>4. ReceiverInv'
  BY <1>1, <1>2, <1>3, HeaderSizeInv, LengthSizeInv, DataSizeInv, EndSizeInv
<1> QED
  BY <1>1, <1>4 DEF SizeInv, LinkTypeOK, ReceiverInv

LEMMA NextSizeInv == SizeInv /\ [Next]_vars => SizeInv'
<1> SUFFICES ASSUME SizeInv, [Next]_vars PROVE SizeInv'
  OBVIOUS
<1>1. CASE UNCHANGED vars
  BY <1>1 DEF vars, receiver, line, SizeInv, LinkTypeOK, SizeRespected
<1>2. CASE Next
  BY <1>2, HostSizeInv, ReadSizeInv DEF Next
<1> QED
  BY <1>1, <1>2

\* The receiver's variables keep their types, and its buffer its bounds, for
\* every stream of bytes a host can cause.
THEOREM ReceiverTypeCorrect == Spec => []LinkTypeOK
<1>1. SizeInv => LinkTypeOK
  BY DEF SizeInv
<1> QED
  BY <1>1, InitSizeInv, NextSizeInv, PTL DEF Spec

\* The offset never passes the expected size, so the test with == is enough,
\* and the end of the buffer is passed only by a message that announced more
\* than the buffer holds.
THEOREM OffsetWithinSize == Spec => []SizeRespected
<1>1. SizeInv => SizeRespected
  BY DEF SizeInv
<1> QED
  BY <1>1, InitSizeInv, NextSizeInv, PTL DEF Spec
===============================================================================
