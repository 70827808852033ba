--------------------------- MODULE MessageLinkProofs ----------------------------
(***************************************************************************)
(* Theorems about UsbProReceiver as a link: it does nothing a MessageLink  *)
(* would not do, and a host that keeps to the size of the buffer overruns  *)
(* it only if bytes get lost.                                              *)
(***************************************************************************)
EXTENDS UsbProReceiverProofs

-----------------------------------------------------------------------------
(* Frames. *)

LEMMA MessageType ==
  ASSUME NEW m \in Messages
  PROVE  /\ m = [label |-> m.label, data |-> m.data]
         /\ m.label \in Byte /\ m.data \in Seq(Byte) /\ Len(m.data) \in Nat
         /\ Len(m.data) <= BUFFER_SIZE /\ Len(m.data) < 65536
  BY MessageAssumption, SizeAssumption, LenProperties DEF UnsignedShort

\* The bytes of a frame.
LEMMA FrameBytes ==
  ASSUME NEW m \in Messages
  PROVE  /\ Len(Frame(m)) = Len(m.data) + 5
         /\ Frame(m)[1] = SOM
         /\ Frame(m)[2] = m.label
         /\ Frame(m)[3] = Len(m.data) % 256
         /\ Frame(m)[4] = (Len(m.data) \div 256) % 256
         /\ \A i \in 1 .. Len(m.data) : Frame(m)[4 + i] = m.data[i]
         /\ Frame(m)[Len(m.data) + 5] = EOM
<1> DEFINE low == Len(m.data) % 256
           high == (Len(m.data) \div 256) % 256
           header == <<SOM, m.label, low, high>>
           body == header \o m.data
<1>1. m.label \in Byte /\ m.data \in Seq(Byte) /\ Len(m.data) \in Nat
  BY MessageType
<1>2. low \in Byte /\ high \in Byte /\ SOM \in Byte /\ EOM \in Byte
  <2>1. SOM \in Byte /\ EOM \in Byte
    BY DEF SOM, EOM, Byte
  <2> QED
    BY <1>1, <2>1, LengthBytes
<1>3. Frame(m) = body \o <<EOM>>
  BY DEF Frame, WriteMessage, SendMessageHeader, SendMessageFooter
<1>4. /\ Frame(m)[3] = low <=> Frame(m)[3] = Len(m.data) % 256
      /\ Frame(m)[4] = high <=> Frame(m)[4] = (Len(m.data) \div 256) % 256
  OBVIOUS
<1> HIDE DEF low, high
<1>5. /\ header \in Seq(Byte) /\ Len(header) = 4
      /\ header[1] = SOM /\ header[2] = m.label /\ header[3] = low /\ header[4] = high
  BY <1>1, <1>2
<1> HIDE DEF header
<1>6. /\ body \in Seq(Byte) /\ Len(body) = Len(m.data) + 4
      /\ \A i \in 1 .. 4 : body[i] = header[i]
      /\ \A i \in 1 .. Len(m.data) : body[4 + i] = m.data[i]
  <2>1. /\ body \in Seq(Byte) /\ Len(body) = Len(header) + Len(m.data)
        /\ \A i \in 1 .. Len(header) + Len(m.data) :
             body[i] = IF i <= Len(header) THEN header[i] ELSE m.data[i - Len(header)]
    BY <1>1, <1>5, ConcatProperties
  <2> HIDE DEF body
  <2>2. \A i \in 1 .. Len(m.data) + 4 :
          body[i] = IF i <= 4 THEN header[i] ELSE m.data[i - 4]
    BY <1>1, <1>5, <2>1
  <2>3. ASSUME NEW i \in 1 .. Len(m.data) PROVE body[4 + i] = m.data[i]
    <3>1. 4 + i \in 1 .. Len(m.data) + 4 /\ ~(4 + i <= 4) /\ (4 + i) - 4 = i
      BY <1>1
    <3> QED
      BY <2>2, <3>1
  <2>4. ASSUME NEW i \in 1 .. 4 PROVE body[i] = header[i]
    <3>1. i \in 1 .. Len(m.data) + 4 /\ i <= 4
      BY <1>1
    <3> QED
      BY <2>2, <3>1
  <2>5. Len(body) = Len(m.data) + 4
    BY <1>1, <1>5, <2>1
  <2> QED
    BY <2>1, <2>3, <2>4, <2>5
<1> HIDE DEF body
<1>7. /\ Len(body \o <<EOM>>) = Len(m.data) + 5
      /\ \A i \in 1 .. Len(m.data) + 4 : (body \o <<EOM>>)[i] = body[i]
      /\ (body \o <<EOM>>)[Len(m.data) + 5] = EOM
  BY <1>1, <1>2, <1>6
<1>8. \A i \in 1 .. Len(m.data) : 4 + i \in 1 .. Len(m.data) + 4
  BY <1>1
<1>9. \A i \in 1 .. 4 : i \in 1 .. Len(m.data) + 4
  BY <1>1
<1>10. 1 \in 1 .. 4 /\ 2 \in 1 .. 4 /\ 3 \in 1 .. 4 /\ 4 \in 1 .. 4
  OBVIOUS
<1>11. \A i \in 1 .. 4 : Frame(m)[i] = header[i]
  BY <1>3, <1>6, <1>7, <1>9
<1>12. \A i \in 1 .. Len(m.data) : Frame(m)[4 + i] = m.data[i]
  BY <1>3, <1>6, <1>7, <1>8
<1> QED
  BY <1>3, <1>4, <1>5, <1>7, <1>10, <1>11, <1>12

-----------------------------------------------------------------------------
(* The stream: the bytes in the serial buffer and those still to be sent are *)
(* the unread bytes of the messages in transit, one after the other.  A      *)
(* message that has lost nothing ends with the end of its frame, and all but *)
(* the first are still complete.                                             *)

Entry == [message : Messages, unread : Nat \ {0}, whole : BOOLEAN]

FrameLength(entry) == Len(Frame(entry.message))

Entries(t) ==
  /\ t \in Seq(Entry)
  /\ \A k \in 1 .. Len(t) :
       t[k].whole => /\ t[k].unread <= FrameLength(t[k])
                     /\ k > 1 => t[k].unread = FrameLength(t[k])

ByteAt(r, s, i) == IF i <= Len(r) THEN r[i] ELSE s[i - Len(r)]

\* The bytes of the k-th message are those after position start[k].
Segments(t, r, s, start) ==
  /\ start \in [1 .. Len(t) + 1 -> Nat]
  /\ start[1] = 0
  /\ start[Len(t) + 1] = Len(r) + Len(s)
  /\ \A j, k \in 1 .. Len(t) + 1 : j < k => start[j] < start[k]
  /\ \A k \in 1 .. Len(t) : start[k + 1] = start[k] + t[k].unread
  /\ \A k \in 1 .. Len(t) : t[k].whole =>
       \A j \in 1 .. t[k].unread :
         ByteAt(r, s, start[k] + j)
           = Frame(t[k].message)[FrameLength(t[k]) - t[k].unread + j]
  /\ s # <<>> => Len(t) > 0 /\ start[Len(t)] <= Len(r)

Stream == Entries(transit) /\ \E start : Segments(transit, serial, sending, start)

\* Where the segments lie.
LEMMA SegmentBounds ==
  ASSUME NEW t, Entries(t), NEW r \in Seq(Byte), NEW s \in Seq(Byte),
         NEW start, Segments(t, r, s, start)
  PROVE  /\ Len(t) \in Nat /\ Len(r) \in Nat /\ Len(s) \in Nat
         /\ \A k \in 1 .. Len(t) + 1 :
              start[k] \in Nat /\ start[k] <= Len(r) + Len(s)
         /\ \A k \in 1 .. Len(t) :
              /\ t[k] \in Entry /\ t[k].unread \in Nat \ {0}
              /\ start[k + 1] = start[k] + t[k].unread
              /\ k > 1 => start[k] > 0
<1>1. Len(t) \in Nat /\ Len(r) \in Nat /\ Len(s) \in Nat
  BY LenProperties DEF Entries
<1>2. ASSUME NEW k \in 1 .. Len(t) + 1
      PROVE  start[k] \in Nat /\ start[k] <= Len(r) + Len(s)
  <2>1. /\ Len(t) + 1 \in 1 .. Len(t) + 1
        /\ (k = Len(t) + 1 \/ k < Len(t) + 1)
    BY <1>1
  <2>2. start[k] \in Nat /\ start[Len(t) + 1] \in Nat
    BY <2>1 DEF Segments
  <2>3. start[Len(t) + 1] = Len(r) + Len(s)
    BY DEF Segments
  <2>4. k = Len(t) + 1 \/ start[k] < start[Len(t) + 1]
    BY <2>1 DEF Segments
  <2> QED
    BY <2>2, <2>3, <2>4
<1>3. ASSUME NEW k \in 1 .. Len(t)
      PROVE  /\ t[k] \in Entry /\ t[k].unread \in Nat \ {0}
             /\ start[k + 1] = start[k] + t[k].unread
             /\ k > 1 => start[k] > 0
  <2>1. t[k] \in Entry
    BY DEF Entries
  <2>2. t[k].unread \in Nat \ {0}
    BY <2>1 DEF Entry
  <2>3. start[k + 1] = start[k] + t[k].unread
    BY DEF Segments
  <2>4. k > 1 => start[k] > 0
    <3>1. 1 \in 1 .. Len(t) + 1 /\ k \in 1 .. Len(t) + 1 /\ start[1] = 0
      BY <1>1 DEF Segments
    <3> QED
      BY <3>1 DEF Segments
  <2> QED
    BY <2>1, <2>2, <2>3, <2>4
<1> QED
  BY <1>1, <1>2, <1>3

\* A new message: its frame follows what is in the serial buffer.
LEMMA StartStream ==
  ASSUME Stream, LinkTypeOK, NEW m \in Messages, StartMessage(m)
  PROVE  Stream'
<1> DEFINE n == Len(transit)
           L == Len(Frame(m))
           e == [message |-> m, unread |-> Len(Frame(m)), whole |-> TRUE]
<1>1. /\ sending = <<>> /\ sending' = Frame(m) /\ serial' = serial
      /\ transit' = Append(transit, e)
  BY DEF StartMessage
<1>2. L \in Nat \ {0} /\ Frame(m) \in Seq(Byte) /\ Len(serial) \in Nat
  <2>0. Len(m.data) \in Nat
    BY MessageType
  <2>1. L = Len(m.data) + 5
    BY FrameBytes
  <2>2. serial \in Seq(Byte)
    BY DEF LinkTypeOK
  <2> QED
    BY <2>0, <2>1, <2>2, FrameType, LenProperties
<1>3. e \in Entry /\ e.message = m /\ e.unread = L /\ e.whole /\ FrameLength(e) = L
  BY <1>2 DEF Entry, FrameLength
<1> HIDE DEF e
<1>4. /\ transit \in Seq(Entry) /\ transit' \in Seq(Entry) /\ Len(transit') = n + 1
      /\ n \in Nat /\ transit'[n + 1] = e
      /\ \A k \in 1 .. n : transit'[k] = transit[k]
  BY <1>1, <1>3 DEF Stream, Entries
<1>5. Entries(transit')
  <2>1. ASSUME NEW k \in 1 .. Len(transit'), transit'[k].whole
        PROVE  /\ transit'[k].unread <= FrameLength(transit'[k])
               /\ k > 1 => transit'[k].unread = FrameLength(transit'[k])
    <3>1. CASE k = n + 1
      BY <1>2, <1>3, <1>4, <3>1
    <3>2. CASE k # n + 1
      <4>1. k \in 1 .. n
        BY <1>4, <3>2
      <4> QED
        BY <1>4, <2>1, <4>1 DEF Stream, Entries
    <3> QED
      BY <3>1, <3>2
  <2> QED
    BY <1>4, <2>1 DEF Entries
<1>6. PICK start : Segments(transit, serial, sending, start)
  BY DEF Stream
<1>7. /\ start \in [1 .. n + 1 -> Nat] /\ start[1] = 0 /\ start[n + 1] = Len(serial)
      /\ \A j, k \in 1 .. n + 1 : j < k => start[j] < start[k]
      /\ \A k \in 1 .. n : start[k + 1] = start[k] + transit[k].unread
  BY <1>1, <1>6 DEF Segments
<1>8. PICK next : next = [k \in 1 .. n + 2 |->
                            IF k = n + 2 THEN Len(serial) + L ELSE start[k]]
  OBVIOUS
<1> HIDE DEF L
<1>9. /\ next \in [1 .. n + 2 -> Nat]
      /\ next[n + 2] = Len(serial) + L
      /\ \A k \in 1 .. n + 1 : next[k] = start[k]
  BY <1>2, <1>4, <1>7, <1>8
<1>10. \A k \in 1 .. n + 1 : start[k] \in Nat /\ start[k] <= Len(serial)
  <2>1. ASSUME NEW k \in 1 .. n + 1 PROVE k = n + 1 \/ start[k] < start[n + 1]
    <3>1. n + 1 \in 1 .. n + 1 /\ (k = n + 1 \/ k < n + 1)
      BY <1>4
    <3> QED
      BY <1>7, <3>1
  <2>2. ASSUME NEW k \in 1 .. n + 1 PROVE start[k] \in Nat
    BY <1>7
  <2> QED
    BY <1>2, <1>7, <2>1, <2>2
<1>11. \A j, k \in 1 .. n + 2 : j < k => next[j] < next[k]
  <2>1. ASSUME NEW j \in 1 .. n + 2, NEW k \in 1 .. n + 2, j < k
        PROVE  next[j] < next[k]
    <3>1. j \in 1 .. n + 1
      BY <1>4, <2>1
    <3>2. CASE k = n + 2
      BY <1>2, <1>9, <1>10, <3>1, <3>2
    <3>3. CASE k # n + 2
      <4>1. k \in 1 .. n + 1
        BY <1>4, <3>3
      <4> QED
        BY <1>7, <1>9, <2>1, <3>1, <4>1
    <3> QED
      BY <3>2, <3>3
  <2> QED
    BY <2>1
<1>12. ASSUME NEW k \in 1 .. n + 1
       PROVE  next[k + 1] = next[k] + transit'[k].unread
  <2>1. CASE k = n + 1
    <3>1. /\ next[n + 1] = Len(serial) /\ transit'[n + 1].unread = L
          /\ n + 1 + 1 = n + 2
      BY <1>3, <1>4, <1>7, <1>9
    <3> QED
      BY <1>2, <1>9, <2>1, <3>1
  <2>2. CASE k # n + 1
    <3>1. k \in 1 .. n /\ k + 1 \in 1 .. n + 1
      BY <1>4, <2>2
    <3> QED
      BY <1>4, <1>7, <1>9, <3>1
  <2> QED
    BY <2>1, <2>2
<1>13. ASSUME NEW k \in 1 .. n + 1, transit'[k].whole,
              NEW j \in 1 .. transit'[k].unread
       PROVE  ByteAt(serial', sending', next[k] + j)
                = Frame(transit'[k].message)[FrameLength(transit'[k])
                                               - transit'[k].unread + j]
  <2>1. CASE k = n + 1
    <3>1. next[k] = Len(serial) /\ transit'[k] = e /\ j \in 1 .. L
      BY <1>3, <1>4, <1>7, <1>9, <2>1
    <3>2. ByteAt(serial', sending', next[k] + j) = Frame(m)[j]
      BY <1>1, <1>2, <3>1 DEF ByteAt
    <3>3. FrameLength(e) - e.unread + j = j
      BY <1>2, <1>3, <3>1
    <3> QED
      BY <1>3, <3>1, <3>2, <3>3
  <2>2. CASE k # n + 1
    <3>1. k \in 1 .. n /\ k + 1 \in 1 .. n + 1
      BY <1>4, <2>2
    <3>2. /\ transit'[k] = transit[k] /\ next[k] = start[k] /\ start[k] \in Nat
          /\ transit[k].unread \in Nat
      <4>1. transit[k] \in Entry /\ k \in 1 .. n + 1
        BY <1>4, <3>1
      <4> QED
        BY <1>4, <1>9, <1>10, <3>1, <4>1 DEF Entry
    <3>3. start[k] + j <= Len(serial)
      <4>1. start[k + 1] = start[k] + transit[k].unread /\ start[k + 1] <= Len(serial)
        BY <1>7, <1>10, <3>1
      <4>2. j <= transit[k].unread /\ j \in Nat
        BY <3>2
      <4> QED
        BY <1>2, <3>2, <4>1, <4>2
    <3>4. ByteAt(serial', sending', next[k] + j) = ByteAt(serial, sending, start[k] + j)
      BY <1>1, <3>2, <3>3 DEF ByteAt
    <3> QED
      BY <1>6, <1>13, <3>1, <3>2, <3>4 DEF Segments
  <2> QED
    BY <2>1, <2>2
<1>14. Segments(transit', serial', sending', next)
  <2>1. n + 1 \in 1 .. n + 1 /\ 1 \in 1 .. n + 1
    BY <1>4
  <2>2. next[1] = 0 /\ next[n + 1] <= Len(serial')
    BY <1>1, <1>2, <1>7, <1>9, <2>1
  <2>3. next[n + 2] = Len(serial') + Len(sending')
    BY <1>1, <1>9 DEF L
  <2> QED
    BY <1>4, <1>9, <1>11, <1>12, <1>13, <2>2, <2>3 DEF Segments
<1> QED
  BY <1>5, <1>14 DEF Stream

\* Head and tail of a sequence, element by element.
LEMMA HeadTail ==
  ASSUME NEW S, NEW s \in Seq(S), s # <<>>
  PROVE  /\ Head(s) = s[1] /\ Tail(s) \in Seq(S) /\ Len(Tail(s)) = Len(s) - 1
         /\ Len(s) \in Nat \ {0}
         /\ \A i \in 1 .. Len(s) - 1 : Tail(s)[i] = s[i + 1]
  OBVIOUS

\* A byte moves from the host to the serial buffer.
LEMMA SendStream ==
  ASSUME Stream, LinkTypeOK, SendByte
  PROVE  Stream'
<1> DEFINE n == Len(transit)
<1>1. /\ sending # <<>> /\ serial' = Append(serial, Head(sending))
      /\ sending' = Tail(sending) /\ transit' = transit
  BY DEF SendByte
<1>2. PICK start : Segments(transit, serial, sending, start)
  BY DEF Stream
<1>3. /\ serial \in Seq(Byte) /\ sending \in Seq(Byte) /\ Len(serial) \in Nat
  BY LenProperties DEF LinkTypeOK
<1>4. /\ Head(sending) = sending[1] /\ Len(sending') = Len(sending) - 1
      /\ Len(sending) \in Nat \ {0} /\ Head(sending) \in Byte
      /\ \A i \in 1 .. Len(sending) - 1 : sending'[i] = sending[i + 1]
  BY <1>1, <1>3, HeadTail
<1>5. /\ Len(serial') = Len(serial) + 1 /\ serial'[Len(serial) + 1] = sending[1]
      /\ \A i \in 1 .. Len(serial) : serial'[i] = serial[i]
  BY <1>1, <1>3, <1>4, AppendProperties
<1>6. ASSUME NEW i \in 1 .. Len(serial) + Len(sending)
      PROVE  ByteAt(serial', sending', i) = ByteAt(serial, sending, i)
  <2>1. CASE i <= Len(serial)
    BY <1>3, <1>5, <2>1 DEF ByteAt
  <2>2. CASE i = Len(serial) + 1
    BY <1>3, <1>5, <2>2 DEF ByteAt
  <2>3. CASE i > Len(serial) + 1
    <3>1. /\ ~(i <= Len(serial)) /\ ~(i <= Len(serial) + 1)
          /\ i - (Len(serial) + 1) \in 1 .. Len(sending) - 1
          /\ i - (Len(serial) + 1) + 1 = i - Len(serial)
      BY <1>3, <1>4, <2>3
    <3>2. sending'[i - (Len(serial) + 1)] = sending[i - Len(serial)]
      BY <1>4, <3>1
    <3> QED
      BY <1>5, <3>1, <3>2 DEF ByteAt
  <2> QED
    BY <1>3, <2>1, <2>2, <2>3
<1>7. ASSUME NEW k \in 1 .. n, NEW j \in 1 .. transit[k].unread
      PROVE  start[k] + j \in 1 .. Len(serial) + Len(sending)
  <2>1. k \in 1 .. n + 1 /\ k + 1 \in 1 .. n + 1 /\ Entries(transit)
    BY DEF Stream, Entries
  <2>2. /\ start[k] \in Nat /\ start[k + 1] <= Len(serial) + Len(sending)
        /\ transit[k].unread \in Nat /\ start[k + 1] = start[k] + transit[k].unread
    BY <1>2, <1>3, <2>1, SegmentBounds
  <2> QED
    BY <1>3, <1>4, <2>2
<1>8. Segments(transit', serial', sending', start)
  <2>1. Len(serial') + Len(sending') = Len(serial) + Len(sending)
    BY <1>3, <1>4, <1>5
  <2>2. ASSUME NEW k \in 1 .. n, transit[k].whole, NEW j \in 1 .. transit[k].unread
        PROVE  ByteAt(serial', sending', start[k] + j)
                 = Frame(transit[k].message)[FrameLength(transit[k])
                                               - transit[k].unread + j]
    BY <1>2, <1>6, <1>7, <2>2 DEF Segments
  <2>3. n > 0 /\ start[n] <= Len(serial')
    <3>1. n \in Nat /\ n > 0 /\ start[n] <= Len(serial) /\ n \in 1 .. n + 1
      BY <1>1, <1>2 DEF Segments, Stream, Entries
    <3>2. start[n] \in Nat
      BY <1>2, <3>1 DEF Segments
    <3> QED
      BY <1>3, <1>5, <3>1, <3>2
  <2> QED
    BY <1>1, <1>2, <2>1, <2>2, <2>3 DEF Segments
<1> QED
  BY <1>1, <1>8 DEF Stream

\* What Less makes of the messages in transit.
LEMMA LessMany ==
  ASSUME transit \in Seq(Entry), NEW k \in 1 .. Len(transit), NEW e \in Entry,
         e.unread > 1
  PROVE  /\ Less(k, e) \in Seq(Entry) /\ Len(Less(k, e)) = Len(transit)
         /\ \A i \in 1 .. Len(transit) : i # k => Less(k, e)[i] = transit[i]
         /\ Less(k, e)[k].message = e.message /\ Less(k, e)[k].whole = e.whole
         /\ Less(k, e)[k].unread = e.unread - 1
<1> DEFINE f == [e EXCEPT !.unread = @ - 1]
<1>1. Less(k, e) = [transit EXCEPT ![k] = f]
  BY DEF Less
<1>2. f \in Entry /\ f.message = e.message /\ f.whole = e.whole /\ f.unread = e.unread - 1
  <2>1. f.message = e.message /\ f.whole = e.whole /\ f.unread = e.unread - 1
    BY DEF Entry
  <2>2. e.unread - 1 \in Nat \ {0}
    BY DEF Entry
  <2>3. f \in Entry
    BY <2>2 DEF Entry
  <2> QED
    BY <2>1, <2>3
<1> HIDE DEF f
<1> QED
  BY <1>1, <1>2

LEMMA LessLast ==
  ASSUME transit \in Seq(Entry), transit # <<>>, NEW e \in Entry, ~(e.unread > 1)
  PROVE  /\ Less(Len(transit), e) \in Seq(Entry)
         /\ Len(Less(Len(transit), e)) = Len(transit) - 1
         /\ \A i \in 1 .. Len(transit) - 1 : Less(Len(transit), e)[i] = transit[i]
<1> DEFINE n == Len(transit)
           a == SubSeq(transit, 1, n - 1)
           b == SubSeq(transit, n + 1, n)
<1>0. n \in Nat \ {0}
  BY HeadTail
<1>1. Less(n, e) = a \o b
  BY Zenon DEF Less
<1>2. /\ a \in Seq(Entry) /\ Len(a) = n - 1
      /\ \A i \in 1 .. n - 1 : a[i] = transit[i]
  <2>1. 1 \in Int /\ n - 1 \in Int /\ \A i \in 1 .. n - 1 : transit[i] \in Entry
    BY <1>0
  <2>2. /\ a \in Seq(Entry)
        /\ Len(a) = IF 1 <= n - 1 THEN n - 1 - 1 + 1 ELSE 0
        /\ \A i \in 1 .. n - 1 - 1 + 1 : a[i] = transit[1 + i - 1]
    BY <2>1, SubSeqProperties
  <2> HIDE DEF a
  <2>3. Len(a) = n - 1
    <3> HIDE DEF n
    <3> QED
      BY <1>0, <2>2
  <2>4. ASSUME NEW i \in 1 .. n - 1 PROVE a[i] = transit[i]
    <3>1. i \in 1 .. n - 1 - 1 + 1 /\ 1 + i - 1 = i
      BY <1>0
    <3> QED
      BY <2>2, <3>1
  <2> QED
    BY <2>2, <2>3, <2>4
<1>4. b = <<>>
  BY <1>0
<1> HIDE DEF a, b
<1>3. a \o b = a
  BY <1>2, <1>4
<1> QED
  BY <1>1, <1>2, <1>3

LEMMA LessFirst ==
  ASSUME transit \in Seq(Entry), transit # <<>>, NEW e \in Entry, ~(e.unread > 1)
  PROVE  /\ Less(1, e) \in Seq(Entry) /\ Less(1, e) = Tail(transit)
         /\ Len(Less(1, e)) = Len(transit) - 1
         /\ \A i \in 1 .. Len(transit) - 1 : Less(1, e)[i] = transit[i + 1]
<1> DEFINE n == Len(transit)
           a == SubSeq(transit, 1, 1 - 1)
           b == SubSeq(transit, 1 + 1, n)
<1>1. Less(1, e) = a \o b
  BY DEF Less
<1>2. a = <<>> /\ b = Tail(transit) /\ b \in Seq(Entry)
  OBVIOUS
<1> HIDE DEF a, b
<1>3. a \o b = b
  BY <1>2
<1>4. /\ Len(Tail(transit)) = n - 1
      /\ \A i \in 1 .. n - 1 : Tail(transit)[i] = transit[i + 1]
  BY HeadTail
<1> QED
  BY <1>1, <1>2, <1>3, <1>4

\* A byte of the message that is being sent is lost.
LEMMA LoseStream ==
  ASSUME Stream, LinkTypeOK, LoseByte
  PROVE  Stream'
<1> DEFINE n == Len(transit)
           e == [transit[n] EXCEPT !.whole = FALSE]
<1>1. /\ sending # <<>> /\ serial' = serial /\ sending' = Tail(sending)
      /\ transit' = Less(n, e)
  BY DEF LoseByte
<1>2. PICK start : Segments(transit, serial, sending, start)
  BY DEF Stream
<1>3. /\ serial \in Seq(Byte) /\ sending \in Seq(Byte) /\ transit \in Seq(Entry)
      /\ Entries(transit)
  BY DEF LinkTypeOK, Stream, Entries
<1>4. Len(sending') = Len(sending) - 1 /\ Len(sending) \in Nat \ {0}
  BY <1>1, <1>3, HeadTail
<1>5. /\ n \in Nat /\ Len(serial) \in Nat /\ n > 0 /\ start[n] <= Len(serial)
      /\ \A k \in 1 .. n + 1 : start[k] \in Nat
      /\ \A k \in 1 .. n :
           /\ transit[k] \in Entry /\ transit[k].unread \in Nat \ {0}
           /\ start[k + 1] = start[k] + transit[k].unread
  <2>1. n > 0 /\ start[n] <= Len(serial)
    BY <1>1, <1>2 DEF Segments
  <2> QED
    BY <1>2, <1>3, <2>1, SegmentBounds
<1>6. n \in 1 .. n /\ n \in 1 .. n + 1 /\ n + 1 \in 1 .. n + 1 /\ transit # <<>>
  BY <1>5
<1>7. /\ e \in Entry /\ e.message = transit[n].message /\ e.whole = FALSE
      /\ e.unread = transit[n].unread
  BY <1>5, <1>6 DEF Entry
<1> HIDE DEF e
<1>8. /\ start[n + 1] = start[n] + e.unread
      /\ start[n + 1] = Len(serial) + Len(sending)
      /\ start \in [1 .. n + 1 -> Nat] /\ start[1] = 0
      /\ \A j, k \in 1 .. n + 1 : j < k => start[j] < start[k]
  BY <1>2, <1>5, <1>6, <1>7 DEF Segments
<1>9. ASSUME NEW k \in 1 .. n - 1, transit[k].whole, NEW j \in 1 .. transit[k].unread
      PROVE  ByteAt(serial', sending', start[k] + j)
               = Frame(transit[k].message)[FrameLength(transit[k])
                                             - transit[k].unread + j]
  <2>1. k \in 1 .. n /\ k + 1 \in 1 .. n + 1 /\ k \in 1 .. n + 1
        /\ (k + 1 = n \/ k + 1 < n)
    BY <1>5
  <2>2. start[k + 1] <= Len(serial)
    BY <1>5, <1>6, <1>8, <2>1
  <2>3. start[k] + j <= Len(serial)
    BY <1>5, <2>1, <2>2
  <2>4. ByteAt(serial', sending', start[k] + j) = ByteAt(serial, sending, start[k] + j)
    BY <1>1, <2>3 DEF ByteAt
  <2> QED
    BY <1>2, <1>9, <2>1, <2>4 DEF Segments
<1>10. CASE e.unread > 1
  <2>1. /\ transit' \in Seq(Entry) /\ Len(transit') = n
        /\ \A i \in 1 .. n : i # n => transit'[i] = transit[i]
        /\ transit'[n].whole = FALSE /\ transit'[n].unread = e.unread - 1
    BY <1>1, <1>3, <1>6, <1>7, <1>10, LessMany
  <2>2. Entries(transit')
    BY <1>3, <2>1 DEF Entries, FrameLength
  <2>3. PICK next : next = [start EXCEPT ![n + 1] = @ - 1]
    OBVIOUS
  <2>4. /\ next \in [1 .. n + 1 -> Nat] /\ next[n + 1] = start[n + 1] - 1
        /\ \A k \in 1 .. n : next[k] = start[k]
    BY <1>5, <1>6, <1>7, <1>8, <1>10, <2>3
  <2>5. start[n] < next[n + 1]
    BY <1>5, <1>6, <1>7, <1>8, <1>10, <2>4
  <2>6. \A j, k \in 1 .. n + 1 : j < k => next[j] < next[k]
    <3>1. ASSUME NEW j \in 1 .. n + 1, NEW k \in 1 .. n + 1, j < k
          PROVE  next[j] < next[k]
      <4>1. j \in 1 .. n /\ next[j] = start[j] /\ (j = n \/ j < n)
        BY <1>5, <2>4, <3>1
      <4>0. start[j] \in Nat /\ start[n] \in Nat /\ next[n + 1] \in Nat /\ j \in 1 .. n + 1
        BY <1>5, <1>6, <2>4, <3>1
      <4>2. CASE k = n + 1
        <5>1. j = n \/ start[j] < start[n]
          BY <1>6, <1>8, <4>0, <4>1
        <5> QED
          BY <2>5, <4>0, <4>1, <4>2, <5>1
      <4>3. CASE k # n + 1
        <5>1. k \in 1 .. n /\ k \in 1 .. n + 1
          BY <1>5, <4>3
        <5> QED
          BY <1>8, <2>4, <3>1, <4>0, <4>1, <5>1
      <4> QED
        BY <4>2, <4>3
    <3> QED
      BY <3>1
  <2>7. ASSUME NEW k \in 1 .. n PROVE next[k + 1] = next[k] + transit'[k].unread
    <3>1. CASE k = n
      BY <1>5, <1>6, <1>7, <1>8, <2>1, <2>4, <3>1
    <3>2. CASE k # n
      <4>1. k + 1 \in 1 .. n
        BY <1>5, <3>2
      <4> QED
        BY <1>5, <2>1, <2>4, <3>2, <4>1
    <3> QED
      BY <3>1, <3>2
  <2>8. ASSUME NEW k \in 1 .. n, transit'[k].whole, NEW j \in 1 .. transit'[k].unread
        PROVE  ByteAt(serial', sending', next[k] + j)
                 = Frame(transit'[k].message)[FrameLength(transit'[k])
                                                - transit'[k].unread + j]
    <3>1. k # n
      BY <2>1, <2>8
    <3>2. k \in 1 .. n - 1 /\ transit'[k] = transit[k] /\ next[k] = start[k]
      BY <1>5, <2>1, <2>4, <3>1
    <3> QED
      BY <1>9, <2>8, <3>2
  <2>9. next[1] = 0 /\ next[n + 1] = Len(serial') + Len(sending')
    BY <1>1, <1>4, <1>5, <1>8, <2>4
  <2>10. Len(transit') > 0 /\ next[n] <= Len(serial')
    BY <1>1, <1>5, <1>6, <2>1, <2>4, Zenon
  <2>11. Segments(transit', serial', sending', next)
    BY <2>1, <2>4, <2>6, <2>7, <2>8, <2>9, <2>10 DEF Segments
  <2> QED
    BY <2>2, <2>11 DEF Stream
<1>11. CASE ~(e.unread > 1)
  <2>1. /\ transit' \in Seq(Entry) /\ Len(transit') = n - 1
        /\ \A i \in 1 .. n - 1 : transit'[i] = transit[i]
    BY <1>1, <1>3, <1>6, <1>7, <1>11, LessLast
  <2>2. Entries(transit')
    <3>1. \A i \in 1 .. n - 1 : i \in 1 .. n
      BY <1>5
    <3> QED
      BY <1>3, <2>1, <3>1 DEF Entries, FrameLength
  <2>3. start[n + 1] = start[n] + 1
    BY <1>5, <1>6, <1>7, <1>8, <1>11
  <2>4. /\ Len(sending) = 1 /\ Len(sending') = 0 /\ sending' = <<>>
        /\ start[n] = Len(serial)
    <3>1. Len(sending) = 1 /\ start[n] = Len(serial)
      BY <1>4, <1>5, <1>6, <1>8, <2>3
    <3>2. Len(sending') = 0 /\ sending' \in Seq(Byte)
      BY <1>1, <1>3, <1>4, <3>1, HeadTail
    <3> QED
      BY <3>1, <3>2, EmptySeq
  <2>5. PICK next : next = [k \in 1 .. n |-> start[k]]
    OBVIOUS
  <2>6. next \in [1 .. n -> Nat] /\ \A k \in 1 .. n : next[k] = start[k]
    BY <1>5, <2>5
  <2>7. \A j, k \in 1 .. n : j < k => next[j] < next[k]
    <3>1. \A k \in 1 .. n : k \in 1 .. n + 1
      BY <1>5
    <3> QED
      BY <1>8, <2>6, <3>1
  <2>8. ASSUME NEW k \in 1 .. n - 1 PROVE next[k + 1] = next[k] + transit'[k].unread
    <3>1. k \in 1 .. n /\ k + 1 \in 1 .. n
      BY <1>5
    <3> QED
      BY <1>5, <2>1, <2>6, <3>1
  <2>9. ASSUME NEW k \in 1 .. n - 1, transit'[k].whole,
               NEW j \in 1 .. transit'[k].unread
        PROVE  ByteAt(serial', sending', next[k] + j)
                 = Frame(transit'[k].message)[FrameLength(transit'[k])
                                                - transit'[k].unread + j]
    <3>1. transit'[k] = transit[k] /\ k \in 1 .. n /\ next[k] = start[k]
      BY <1>5, <2>1, <2>6
    <3> QED
      BY <1>9, <2>9, <3>1
  <2>10. next[1] = 0 /\ next[n] = Len(serial') + Len(sending')
    <3>1. 1 \in 1 .. n
      BY <1>5
    <3> QED
      <4>1. next[1] = 0
        BY <1>8, <2>6, <3>1
      <4>2. next[n] = Len(serial)
        BY <1>6, <2>4, <2>6
      <4> QED
        <5>1. Len(serial') = Len(serial) /\ Len(serial) \in Nat /\ Len(sending') = 0
          BY <1>1, <1>5, <2>4, Zenon
        <5> QED
          BY <4>1, <4>2, <5>1
  <2>11. Segments(transit', serial', sending', next)
    <3>1. Len(transit') + 1 = n
      BY <1>5, <2>1
    <3> QED
      <4>1. /\ next \in [1 .. Len(transit') + 1 -> Nat]
            /\ next[Len(transit') + 1] = Len(serial') + Len(sending')
            /\ \A j, k \in 1 .. Len(transit') + 1 : j < k => next[j] < next[k]
        BY <2>6, <2>7, <2>10, <3>1
      <4>2. /\ \A k \in 1 .. Len(transit') : next[k + 1] = next[k] + transit'[k].unread
            /\ \A k \in 1 .. Len(transit') : transit'[k].whole =>
                 \A j \in 1 .. transit'[k].unread :
                   ByteAt(serial', sending', next[k] + j)
                     = Frame(transit'[k].message)[FrameLength(transit'[k])
                                                    - transit'[k].unread + j]
        BY <2>1, <2>8, <2>9, Zenon
      <4>3. next[1] = 0
        BY <2>10
      <4> QED
        BY <2>4, <4>1, <4>2, <4>3, Zenon DEF Segments
  <2> QED
    BY <2>2, <2>11 DEF Stream
<1> QED
  BY <1>10, <1>11

\* What is read next is a byte of the first message in transit: the next one of
\* its frame, if the message has lost nothing.
LEMMA FirstByte ==
  ASSUME Stream, LinkTypeOK, serial # <<>>
  PROVE  /\ transit # <<>> /\ transit[1] \in Entry /\ Len(transit) \in Nat \ {0}
         /\ transit[1].unread \in Nat \ {0} /\ FrameLength(transit[1]) \in Nat
         /\ transit[1].whole =>
              /\ transit[1].unread <= FrameLength(transit[1])
              /\ Head(serial)
                   = Frame(transit[1].message)[FrameLength(transit[1])
                                                 - transit[1].unread + 1]
<1> DEFINE n == Len(transit)
<1>1. PICK start : Segments(transit, serial, sending, start)
  BY DEF Stream
<1>2. /\ serial \in Seq(Byte) /\ sending \in Seq(Byte) /\ transit \in Seq(Entry)
      /\ Entries(transit) /\ Len(serial) \in Nat /\ Len(sending) \in Nat /\ n \in Nat
  BY LenProperties DEF LinkTypeOK, Stream, Entries
<1>3. Head(serial) = serial[1] /\ Len(serial) > 0
  BY <1>2, HeadTail
<1>4. n > 0
  <2>1. CASE n = 0
    <3>1. start[1] = 0 /\ start[n + 1] = Len(serial) + Len(sending) /\ n + 1 = 1
      BY <1>1, <2>1 DEF Segments
    <3> QED
      BY <1>2, <1>3, <3>1
  <2> QED
    BY <1>2, <2>1
<1>5. 1 \in 1 .. n /\ start[1] = 0
  BY <1>1, <1>2, <1>4 DEF Segments
<1>6. transit[1] \in Entry /\ transit[1].unread \in Nat \ {0} /\ transit[1].message \in Messages
  <2>1. transit[1] \in Entry
    BY <1>2, <1>5
  <2> QED
    BY <2>1 DEF Entry
<1>7. FrameLength(transit[1]) \in Nat
  BY <1>6, FrameType, LenProperties DEF FrameLength
<1>8. ASSUME transit[1].whole
      PROVE  /\ transit[1].unread <= FrameLength(transit[1])
             /\ Head(serial) = Frame(transit[1].message)[FrameLength(transit[1])
                                                           - transit[1].unread + 1]
  <2>1. 1 \in 1 .. transit[1].unread
    BY <1>6
  <2>2. ByteAt(serial, sending, 0 + 1) = serial[1]
    BY <1>3 DEF ByteAt
  <2> QED
    BY <1>1, <1>2, <1>3, <1>5, <1>8, <2>1, <2>2 DEF Segments, Entries
<1> QED
  BY <1>2, <1>4, <1>6, <1>7, <1>8

\* The receiver takes a byte out of the serial buffer.
LEMMA TakeStream ==
  ASSUME Stream, LinkTypeOK, serial # <<>>, Take
  PROVE  Stream'
<1> DEFINE n == Len(transit)
           e == transit[1]
<1>1. /\ serial' = Tail(serial) /\ sending' = sending /\ transit' = Less(1, e)
  BY DEF Take
<1>2. PICK start : Segments(transit, serial, sending, start)
  BY DEF Stream
<1>3. /\ serial \in Seq(Byte) /\ sending \in Seq(Byte) /\ transit \in Seq(Entry)
      /\ Entries(transit)
  BY DEF LinkTypeOK, Stream, Entries
<1>4. /\ Len(serial') = Len(serial) - 1 /\ Len(serial) \in Nat \ {0}
      /\ \A i \in 1 .. Len(serial) - 1 : serial'[i] = serial[i + 1]
      /\ Len(sending) \in Nat
  BY <1>1, <1>3, HeadTail, LenProperties
<1>5. /\ transit # <<>> /\ n \in Nat \ {0} /\ e \in Entry
      /\ e.unread \in Nat \ {0} /\ FrameLength(e) \in Nat
      /\ e.whole => e.unread <= FrameLength(e)
  BY FirstByte
<1>6. /\ 1 \in 1 .. n /\ 1 \in 1 .. n + 1 /\ 2 \in 1 .. n + 1
      /\ n \in 1 .. n + 1 /\ n + 1 \in 1 .. n + 1
  BY <1>5
<1>7. /\ start \in [1 .. n + 1 -> Nat] /\ start[1] = 0
      /\ start[n + 1] = Len(serial) + Len(sending)
      /\ \A j, k \in 1 .. n + 1 : j < k => start[j] < start[k]
      /\ \A k \in 1 .. n + 1 : start[k] \in Nat
      /\ \A k \in 1 .. n : start[k + 1] = start[k] + transit[k].unread
  BY <1>2 DEF Segments
<1>8. ASSUME NEW k \in 2 .. n + 1
      PROVE  k \in 1 .. n + 1 /\ start[k] \in Nat \ {0} /\ start[k] - 1 \in Nat
  <2>1. k \in 1 .. n + 1 /\ 1 < k
    BY <1>5
  <2>2. start[1] < start[k]
    BY <1>6, <1>7, <2>1
  <2> QED
    BY <1>7, <2>1, <2>2
<1>9. ASSUME NEW k \in 1 .. n
      PROVE  transit[k].unread \in Nat \ {0}
  <2>1. transit[k] \in Entry
    BY <1>3
  <2> QED
    BY <2>1 DEF Entry
<1>10. ASSUME NEW i \in Nat \ {0}
       PROVE  ByteAt(serial', sending', i) = ByteAt(serial, sending, i + 1)
  <2>1. CASE i <= Len(serial) - 1
    BY <1>1, <1>4, <2>1 DEF ByteAt
  <2>2. CASE ~(i <= Len(serial) - 1)
    <3>1. /\ ~(i <= Len(serial')) /\ ~(i + 1 <= Len(serial))
          /\ i - Len(serial') = i + 1 - Len(serial)
      BY <1>4, <2>2
    <3> QED
      BY <1>1, <3>1 DEF ByteAt
  <2> QED
    BY <2>1, <2>2
<1>11. ASSUME sending # <<>> PROVE start[n] <= Len(serial)
  BY <1>2, <1>11 DEF Segments
<1> HIDE DEF e
<1>12. CASE e.unread > 1
  <2>1. /\ transit' \in Seq(Entry) /\ Len(transit') = n
        /\ \A i \in 1 .. n : i # 1 => transit'[i] = transit[i]
        /\ transit'[1].message = e.message /\ transit'[1].whole = e.whole
        /\ transit'[1].unread = e.unread - 1
    BY <1>1, <1>3, <1>5, <1>6, <1>12, LessMany
  <2>2. Entries(transit')
    <3>1. e.whole => e.unread - 1 <= FrameLength(e)
      BY <1>5
    <3>2. FrameLength(transit'[1]) = FrameLength(e)
      BY <2>1 DEF FrameLength
    <3>3. ASSUME NEW k \in 1 .. Len(transit'), transit'[k].whole
          PROVE  /\ transit'[k].unread <= FrameLength(transit'[k])
                 /\ k > 1 => transit'[k].unread = FrameLength(transit'[k])
      <4>1. CASE k = 1
        BY <2>1, <3>1, <3>2, <3>3, <4>1
      <4>2. CASE k # 1
        <5>1. k \in 1 .. n /\ transit'[k] = transit[k]
          BY <2>1, <4>2
        <5> QED
          BY <1>3, <3>3, <5>1 DEF Entries
      <4> QED
        BY <4>1, <4>2
    <3> QED
      BY <2>1, <3>3 DEF Entries
  <2>3. PICK next : next = [k \in 1 .. n + 1 |-> IF k = 1 THEN 0 ELSE start[k] - 1]
    OBVIOUS
  <2>4. /\ next[1] = 0
        /\ \A k \in 2 .. n + 1 : next[k] = start[k] - 1
        /\ next \in [1 .. n + 1 -> Nat]
    <3>1. \A k \in 1 .. n + 1 : k = 1 \/ k \in 2 .. n + 1
      BY <1>5
    <3> QED
      BY <1>6, <1>8, <2>3, <3>1
  <2>5. \A j, k \in 1 .. n + 1 : j < k => next[j] < next[k]
    <3>1. ASSUME NEW j \in 1 .. n + 1, NEW k \in 1 .. n + 1, j < k
          PROVE  next[j] < next[k]
      <4>1. k \in 2 .. n + 1 /\ next[k] = start[k] - 1 /\ start[k] \in Nat
        BY <1>5, <1>7, <2>4, <3>1
      <4>2. CASE j = 1
        <5>1. k = 2 \/ start[2] < start[k]
          BY <1>6, <1>7, <4>1
        <5>2. start[1 + 1] = start[1] + transit[1].unread
          BY <1>6, <1>7
        <5>3. start[2] = e.unread /\ start[2] \in Nat
          BY <1>5, <1>7, <5>2 DEF e
        <5> QED
          BY <1>5, <1>12, <2>4, <4>1, <4>2, <5>1, <5>3
      <4>3. CASE j # 1
        <5>1. j \in 2 .. n + 1 /\ next[j] = start[j] - 1 /\ start[j] \in Nat
          BY <1>5, <1>7, <2>4, <4>3
        <5>2. start[j] < start[k]
          BY <1>7, <3>1
        <5> QED
          BY <4>1, <5>1, <5>2
      <4> QED
        BY <4>2, <4>3
    <3> QED
      BY <3>1
  <2>6. ASSUME NEW k \in 1 .. n PROVE next[k + 1] = next[k] + transit'[k].unread
    <3>1. /\ k + 1 \in 2 .. n + 1 /\ k \in 1 .. n + 1
          /\ next[k + 1] = start[k + 1] - 1
          /\ start[k + 1] = start[k] + transit[k].unread
          /\ start[k] \in Nat /\ transit[k].unread \in Nat
      BY <1>5, <1>7, <1>9, <2>4
    <3>2. CASE k = 1
      BY <1>5, <1>7, <2>1, <2>4, <3>1, <3>2 DEF e
    <3>3. CASE k # 1
      <4>1. k \in 2 .. n + 1 /\ transit'[k] = transit[k]
        BY <1>5, <2>1, <3>3
      <4> QED
        BY <2>4, <3>1, <4>1
    <3> QED
      BY <3>2, <3>3
  <2>7. ASSUME NEW k \in 1 .. n, transit'[k].whole, NEW j \in 1 .. transit'[k].unread
        PROVE  ByteAt(serial', sending', next[k] + j)
                 = Frame(transit'[k].message)[FrameLength(transit'[k])
                                                - transit'[k].unread + j]
    <3>1. CASE k = 1
      <4>1. /\ transit[1].whole /\ j \in Nat \ {0} /\ j + 1 \in 1 .. transit[1].unread
        BY <1>5, <2>1, <2>7, <3>1 DEF e
      <4>2. ByteAt(serial, sending, start[1] + (j + 1))
              = Frame(transit[1].message)[FrameLength(transit[1])
                                            - transit[1].unread + (j + 1)]
        BY <1>2, <1>6, <4>1 DEF Segments
      <4>3. /\ start[1] + (j + 1) = j + 1 /\ next[1] + j = j
            /\ FrameLength(e) - e.unread + (j + 1) = FrameLength(e) - (e.unread - 1) + j
        <5>1. start[1] = 0 /\ next[1] = 0 /\ j \in Nat
          BY <1>7, <2>4, <4>1
        <5>2. PICK l \in Nat : l = FrameLength(e)
          BY <1>5
        <5>3. PICK u \in Nat : u = e.unread
          BY <1>5
        <5>4. l - u + (j + 1) = l - (u - 1) + j
          BY <5>1
        <5>5. start[1] + (j + 1) = j + 1 /\ next[1] + j = j
          BY <5>1
        <5> QED
          BY <5>2, <5>3, <5>4, <5>5, Zenon
      <4>4. FrameLength(transit'[1]) = FrameLength(e)
        BY <2>1 DEF FrameLength
      <4>5. ByteAt(serial', sending', next[1] + j) = ByteAt(serial, sending, j + 1)
        BY <1>10, <4>1, <4>3
      <4>6. ByteAt(serial, sending, j + 1)
              = Frame(e.message)[FrameLength(e) - (e.unread - 1) + j]
        BY <4>2, <4>3 DEF e
      <4> QED
        BY <2>1, <3>1, <4>4, <4>5, <4>6
    <3>2. CASE k # 1
      <4>1. k \in 2 .. n + 1 /\ transit'[k] = transit[k] /\ next[k] = start[k] - 1
        BY <1>5, <2>1, <2>4, <3>2
      <4>2. start[k] \in Nat \ {0} /\ transit[k].unread \in Nat
        BY <1>8, <1>9, <4>1
      <4>3. j \in Nat \ {0} /\ j \in 1 .. transit[k].unread
        BY <4>1, <4>2
      <4>4. next[k] + j \in Nat \ {0} /\ next[k] + j + 1 = start[k] + j
        BY <4>1, <4>2, <4>3
      <4>5. ByteAt(serial', sending', next[k] + j) = ByteAt(serial, sending, start[k] + j)
        BY <1>10, <4>4
      <4> QED
        BY <1>2, <2>7, <4>1, <4>3, <4>5 DEF Segments
    <3> QED
      BY <3>1, <3>2
  <2>8. next[n + 1] = Len(serial') + Len(sending')
    <3>1. n + 1 \in 2 .. n + 1 /\ Len(sending') = Len(sending)
      BY <1>1, <1>5
    <3> QED
      BY <1>4, <1>7, <2>4, <3>1
  <2>9. sending' # <<>> => n > 0 /\ next[n] <= Len(serial')
    <3>1. CASE n = 1
      <4>1. 0 <= Len(serial') /\ n > 0
        BY <1>4, <1>5
      <4>2. next[n] = 0
        BY <2>4, <3>1, Zenon
      <4> QED
        BY <4>1, <4>2, Zenon
    <3>2. CASE n # 1
      <4>2. n \in 2 .. n + 1
        <5> HIDE DEF n
        <5> QED
          BY <1>5, <3>2
      <4>1. next[n] = start[n] - 1 /\ start[n] \in Nat
        BY <1>6, <1>7, <2>4, <4>2
      <4> QED
        BY <1>1, <1>4, <1>5, <1>11, <4>1
    <3> QED
      BY <3>1, <3>2
  <2>10. Segments(transit', serial', sending', next)
    BY <2>1, <2>4, <2>5, <2>6, <2>7, <2>8, <2>9, Zenon DEF Segments
  <2> QED
    BY <2>2, <2>10 DEF Stream
<1>13. CASE ~(e.unread > 1)
  <2>1. /\ transit' \in Seq(Entry) /\ Len(transit') = n - 1
        /\ \A i \in 1 .. n - 1 : transit'[i] = transit[i + 1]
    BY <1>1, <1>3, <1>5, <1>13, LessFirst
  <2>2. \A k \in 1 .. n - 1 : k + 1 \in 1 .. n /\ k + 1 > 1
    BY <1>5
  <2>3. Entries(transit')
    <3>1. ASSUME NEW k \in 1 .. n - 1, transit'[k].whole
          PROVE  transit'[k].unread = FrameLength(transit'[k])
      BY <1>3, <2>1, <2>2, <3>1 DEF Entries
    <3>2. ASSUME NEW k \in 1 .. n - 1
          PROVE  transit'[k].unread \in Nat
      BY <1>9, <2>1, <2>2
    <3> QED
      BY <2>1, <3>1, <3>2 DEF Entries
  <2>4. PICK next : next = [k \in 1 .. n |-> start[k + 1] - 1]
    OBVIOUS
  <2>5. \A k \in 1 .. n : k + 1 \in 2 .. n + 1 /\ k + 1 \in 1 .. n + 1
    BY <1>5
  <2>6. /\ next \in [1 .. n -> Nat]
        /\ \A k \in 1 .. n : next[k] = start[k + 1] - 1 /\ start[k + 1] \in Nat \ {0}
    BY <1>8, <2>4, <2>5
  <2>7. start[1 + 1] = start[1] + transit[1].unread /\ e.unread = 1
    BY <1>5, <1>6, <1>7, <1>13
  <2>8. next[1] = 0
    BY <1>6, <1>7, <2>6, <2>7 DEF e
  <2>9. \A j, k \in 1 .. n : j < k => next[j] < next[k]
    <3>1. ASSUME NEW j \in 1 .. n, NEW k \in 1 .. n, j < k
          PROVE  next[j] < next[k]
      <4>1. start[j + 1] < start[k + 1]
        <5>1. j + 1 < k + 1
          BY <3>1
        <5> QED
          BY <1>7, <2>5, <5>1
      <4> QED
        BY <2>6, <4>1
    <3> QED
      BY <3>1
  <2>10. ASSUME NEW k \in 1 .. n - 1 PROVE next[k + 1] = next[k] + transit'[k].unread
    <3>1. /\ k \in 1 .. n /\ k + 1 \in 1 .. n
          /\ transit'[k] = transit[k + 1]
      BY <1>5, <2>1
    <3>2. /\ start[k + 1 + 1] = start[k + 1] + transit[k + 1].unread
          /\ transit[k + 1].unread \in Nat
      BY <1>7, <1>9, <3>1
    <3> QED
      BY <2>6, <3>1, <3>2
  <2>11. ASSUME NEW k \in 1 .. n - 1, transit'[k].whole,
                NEW j \in 1 .. transit'[k].unread
         PROVE  ByteAt(serial', sending', next[k] + j)
                  = Frame(transit'[k].message)[FrameLength(transit'[k])
                                                 - transit'[k].unread + j]
    <3>1. /\ k \in 1 .. n /\ k + 1 \in 1 .. n
          /\ transit'[k] = transit[k + 1]
      BY <1>5, <2>1
    <3>2. /\ next[k] = start[k + 1] - 1 /\ start[k + 1] \in Nat \ {0}
          /\ j \in Nat \ {0}
      BY <1>9, <2>6, <3>1
    <3>3. next[k] + j \in Nat \ {0} /\ next[k] + j + 1 = start[k + 1] + j
      BY <3>2
    <3>4. ByteAt(serial', sending', next[k] + j) = ByteAt(serial, sending, start[k + 1] + j)
      BY <1>10, <3>3
    <3> QED
      BY <1>2, <2>11, <3>1, <3>4 DEF Segments
  <2>12. next[n] = Len(serial') + Len(sending')
    <3>1. n \in 1 .. n /\ Len(sending') = Len(sending)
      BY <1>1, <1>5
    <3> QED
      BY <1>4, <1>7, <2>6, <3>1
  <2>13. ASSUME sending' # <<>>
         PROVE  n - 1 > 0 /\ next[n - 1] <= Len(serial')
    <3>1. CASE n = 1
      <4>1. start[n + 1] = 1 /\ sending # <<>>
        BY <1>1, <1>7, <2>7, <2>13, <3>1 DEF e
      <4>2. Len(sending) > 0
        BY <1>3, <4>1, HeadTail
      <4>3. Len(serial) + Len(sending) = 1
        <5>1. start[n + 1] = Len(serial) + Len(sending)
          BY <1>7
        <5> QED
          BY <4>1, <5>1, Zenon
      <4> QED
        BY <1>4, <4>2, <4>3
    <3>2. CASE n # 1
      <4>1. n - 1 \in 1 .. n /\ n - 1 + 1 = n /\ n - 1 > 0
        <5> HIDE DEF n
        <5> QED
          BY <1>5, <3>2
      <4>2. next[n - 1] = start[n] - 1 /\ start[n] \in Nat
        BY <2>6, <4>1
      <4> QED
        BY <1>1, <1>4, <1>11, <2>13, <4>1, <4>2
    <3> QED
      BY <3>1, <3>2
  <2>14. Segments(transit', serial', sending', next)
    <3>1. Len(transit') + 1 = n
      BY <1>5, <2>1
    <3>2. /\ \A k \in 1 .. Len(transit') : next[k + 1] = next[k] + transit'[k].unread
          /\ \A k \in 1 .. Len(transit') : transit'[k].whole =>
               \A j \in 1 .. transit'[k].unread :
                 ByteAt(serial', sending', next[k] + j)
                   = Frame(transit'[k].message)[FrameLength(transit'[k])
                                                  - transit'[k].unread + j]
          /\ sending' # <<>> => Len(transit') > 0 /\ next[Len(transit')] <= Len(serial')
      BY <2>1, <2>10, <2>11, <2>13, Zenon
    <3>3. /\ next \in [1 .. Len(transit') + 1 -> Nat]
          /\ next[Len(transit') + 1] = Len(serial') + Len(sending')
          /\ \A j, k \in 1 .. Len(transit') + 1 : j < k => next[j] < next[k]
      BY <2>6, <2>9, <2>12, <3>1
    <3> QED
      BY <2>8, <3>2, <3>3, Zenon DEF Segments
  <2> QED
    BY <2>3, <2>14 DEF Stream
<1> QED
  BY <1>12, <1>13

-----------------------------------------------------------------------------
(* What a byte of a whole message does to a receiver that is in step. *)

ReceiveByte(data) ==
  \/ PreSom(data)
  \/ GotSom(data)
  \/ GotLabel(data)
  \/ GotDataLsb(data)
  \/ InData(data)
  \/ WaitingForEom(data)
  \/ Undefined

\* The two length bytes make up the length again.
LEMMA LengthRead ==
  ASSUME NEW n \in Nat, n < 65536
  PROVE  ((n % 256) + ((n \div 256) % 256) * 256) % 65536 = n
<1>1. PICK q : q = n \div 256
  OBVIOUS
<1>2. PICK r : r = n % 256
  OBVIOUS
<1>3. q \in 0 .. 255 /\ r \in 0 .. 255 /\ n = 256 * q + r
  BY <1>1, <1>2
<1>4. q % 256 = q
  BY <1>3
<1> QED
  BY <1>1, <1>2, <1>3, <1>4

\* The receiving state after n bytes of a frame.
Mode(m, n) == CASE n = 0 -> "PRE_SOM"
                [] n = 1 -> "GOT_SOM"
                [] n = 2 -> "GOT_LABEL"
                [] n = 3 -> "GOT_DATA_LSB"
                [] n = Len(m.data) + 4 -> "WAITING_FOR_EOM"
                [] OTHER -> "IN_DATA"

LEMMA ModeIs ==
  ASSUME NEW m, Len(m.data) \in Nat
  PROVE  /\ Mode(m, 0) = "PRE_SOM"
         /\ Mode(m, 1) = "GOT_SOM"
         /\ Mode(m, 2) = "GOT_LABEL"
         /\ Mode(m, 3) = "GOT_DATA_LSB"
         /\ Len(m.data) = 0 => Mode(m, 4) = "WAITING_FOR_EOM"
         /\ Len(m.data) # 0 => Mode(m, 4) = "IN_DATA"
         /\ Mode(m, Len(m.data) + 4) = "WAITING_FOR_EOM"
         /\ \A n \in Nat : n > 3 /\ n # Len(m.data) + 4 => Mode(m, n) = "IN_DATA"
<1> DEFINE L == Len(m.data)
<1>1. PICK k \in Nat : k = L
  OBVIOUS
<1>2. \A n : Mode(m, n) = CASE n = 0 -> "PRE_SOM"
                            [] n = 1 -> "GOT_SOM"
                            [] n = 2 -> "GOT_LABEL"
                            [] n = 3 -> "GOT_DATA_LSB"
                            [] n = k + 4 -> "WAITING_FOR_EOM"
                            [] OTHER -> "IN_DATA"
  BY <1>1 DEF Mode
<1> HIDE DEF L
<1>3. /\ Mode(m, 0) = "PRE_SOM" /\ Mode(m, 1) = "GOT_SOM"
      /\ Mode(m, 2) = "GOT_LABEL" /\ Mode(m, 3) = "GOT_DATA_LSB"
  BY <1>2
<1>4. /\ k = 0 => Mode(m, 4) = "WAITING_FOR_EOM"
      /\ k # 0 => Mode(m, 4) = "IN_DATA"
  <2>1. k + 4 = 4 <=> k = 0
    OBVIOUS
  <2> QED
    BY <1>2, <2>1
<1>5. Mode(m, k + 4) = "WAITING_FOR_EOM"
  <2>1. k + 4 # 0 /\ k + 4 # 1 /\ k + 4 # 2 /\ k + 4 # 3
    OBVIOUS
  <2> QED
    BY <1>2, <2>1
<1>6. ASSUME NEW n \in Nat, n > 3, n # k + 4 PROVE Mode(m, n) = "IN_DATA"
  <2>1. n # 0 /\ n # 1 /\ n # 2 /\ n # 3
    BY <1>6
  <2> QED
    BY <1>2, <1>6, <2>1
<1> QED
  BY <1>1, <1>3, <1>4, <1>5, <1>6 DEF L

\* What is known of the header after n bytes.
LEMMA ReceivedNow ==
  ASSUME NEW m, NEW n, Received(m, n)
  PROVE  /\ n > 1 => label = m.label
         /\ n = 3 => expected_size = Len(m.data) % 256 /\ message = <<>>
         /\ n > 3 => expected_size = Len(m.data) /\ message = SubSeq(m.data, 1, n - 4)
         /\ recv_mode = Mode(m, n)
  BY Zenon DEF Received, Mode

LEMMA ReceivedNext ==
  ASSUME NEW m, NEW n,
         n > 1 => label' = m.label,
         n = 3 => expected_size' = Len(m.data) % 256 /\ message' = <<>>,
         n > 3 => expected_size' = Len(m.data) /\ message' = SubSeq(m.data, 1, n - 4),
         recv_mode' = Mode(m, n)
  PROVE  Received(m, n)'
  BY Zenon DEF Received, Mode

\* In each receiving state there is one thing to do.
LEMMA OneState ==
  ASSUME NEW data, ReceiveByte(data)
  PROVE  /\ recv_mode = "PRE_SOM" => PreSom(data)
         /\ recv_mode = "GOT_SOM" => GotSom(data)
         /\ recv_mode = "GOT_LABEL" => GotLabel(data)
         /\ recv_mode = "GOT_DATA_LSB" => GotDataLsb(data)
         /\ recv_mode = "IN_DATA" => InData(data)
         /\ recv_mode = "WAITING_FOR_EOM" => WaitingForEom(data)
  BY DEF ReceiveByte, PreSom, GotSom, GotLabel, GotDataLsb, InData, WaitingForEom,
     Undefined

LEMMA HeaderReceived ==
  ASSUME NEW m \in Messages, NEW n \in 0 .. 3, Received(m, n),
         ReceiveByte(Frame(m)[n + 1])
  PROVE  Received(m, n + 1)' /\ UNCHANGED handed
<1> DEFINE data == Frame(m)[n + 1]
<1>1. PICK L : L = Len(m.data)
  OBVIOUS
<1>2. PICK low : low = L % 256
  OBVIOUS
<1>3. PICK high : high = (L \div 256) % 256
  OBVIOUS
<1>4. L \in Nat
  BY <1>1, MessageType
<1>5. (low + high * 256) % 65536 = L
  <2>1. L \in Nat /\ L < 65536
    BY <1>1, MessageType
  <2>2. ((L % 256) + ((L \div 256) % 256) * 256) % 65536 = L
    BY <2>1, LengthRead
  <2> QED
    BY <1>2, <1>3, <2>2, SMT
<1>6. /\ Mode(m, 0) = "PRE_SOM" /\ Mode(m, 1) = "GOT_SOM"
      /\ Mode(m, 2) = "GOT_LABEL" /\ Mode(m, 3) = "GOT_DATA_LSB"
      /\ L = 0 => Mode(m, 4) = "WAITING_FOR_EOM"
      /\ L # 0 => Mode(m, 4) = "IN_DATA"
  BY <1>1, <1>4, ModeIs, Zenon
<1>7. /\ recv_mode = Mode(m, n)
      /\ n > 1 => label = m.label
      /\ n = 3 => expected_size = low /\ message = <<>>
  BY <1>1, <1>2, ReceivedNow, Zenon
<1>8. /\ Frame(m)[1] = SOM /\ Frame(m)[2] = m.label
      /\ Frame(m)[3] = low /\ Frame(m)[4] = high
  BY <1>1, <1>2, <1>3, FrameBytes, Zenon
<1>9. /\ n = 0 => n + 1 = 1 /\ data = SOM
      /\ n = 1 => n + 1 = 2 /\ data = m.label
      /\ n = 2 => n + 1 = 3 /\ data = low
      /\ n = 3 => n + 1 = 4 /\ data = high
  <2>1. /\ n = 0 => n + 1 = 1
        /\ n = 1 => n + 1 = 2
        /\ n = 2 => n + 1 = 3
        /\ n = 3 => n + 1 = 4
    OBVIOUS
  <2> QED
    BY <1>8, <2>1, Zenon
<1>10. ReceiveByte(data)
  OBVIOUS
<1> HIDE DEF data
<1>11. CASE n = 0
  <2>1. PreSom(data)
    BY <1>6, <1>7, <1>10, <1>11, OneState
  <2>2. recv_mode' = "GOT_SOM" /\ UNCHANGED handed
    BY <1>9, <1>11, <2>1 DEF PreSom
  <2>3. Received(m, 1)'
    <3>1. ~(1 > 1) /\ ~(1 = 3) /\ ~(1 > 3)
      OBVIOUS
    <3> QED
      BY <1>6, <2>2, <3>1, ReceivedNext, Zenon
  <2> QED
    BY <1>9, <1>11, <2>2, <2>3
<1>12. CASE n = 1
  <2>1. GotSom(data)
    BY <1>6, <1>7, <1>10, <1>12, OneState
  <2>2. recv_mode' = "GOT_LABEL" /\ label' = m.label /\ UNCHANGED handed
    BY <1>9, <1>12, <2>1 DEF GotSom
  <2>3. Received(m, 2)'
    <3>1. ~(2 = 3) /\ ~(2 > 3)
      OBVIOUS
    <3> QED
      BY <1>6, <2>2, <3>1, ReceivedNext, Zenon
  <2> QED
    BY <1>9, <1>12, <2>2, <2>3
<1>13. CASE n = 2
  <2>1. GotLabel(data)
    BY <1>6, <1>7, <1>10, <1>13, OneState
  <2>2. /\ recv_mode' = "GOT_DATA_LSB" /\ label' = m.label
        /\ expected_size' = low /\ message' = <<>> /\ UNCHANGED handed
    BY <1>7, <1>9, <1>13, <2>1 DEF GotLabel
  <2>3. Received(m, 3)'
    <3>1. ~(3 > 3)
      OBVIOUS
    <3> QED
      BY <1>1, <1>2, <1>6, <2>2, <3>1, ReceivedNext, Zenon
  <2> QED
    BY <1>9, <1>13, <2>2, <2>3
<1>14. CASE n = 3
  <2>1. GotDataLsb(data)
    BY <1>6, <1>7, <1>10, <1>14, OneState
  <2>2. /\ expected_size' = L
        /\ expected_size' = 0 => recv_mode' = "WAITING_FOR_EOM"
        /\ expected_size' # 0 => recv_mode' = "IN_DATA"
        /\ label' = m.label /\ message' = <<>> /\ UNCHANGED handed
    <3>1. data = high /\ expected_size = low /\ label = m.label /\ message = <<>>
      BY <1>7, <1>9, <1>14
    <3>2. /\ expected_size' = (expected_size + data * 256) % 65536
          /\ recv_mode' = IF expected_size' = 0 THEN "WAITING_FOR_EOM" ELSE "IN_DATA"
          /\ label' = label /\ message' = message /\ UNCHANGED handed
      BY <2>1, SMT DEF GotDataLsb
    <3>4. expected_size' = L
      <4>1. expected_size' = (expected_size + data * 256) % 65536
        BY <3>2, SMT
      <4> QED
        BY <1>5, <3>1, <4>1, SMT
    <3>5. label' = label /\ message' = message /\ UNCHANGED handed
      BY <2>1, SMT DEF GotDataLsb
    <3>3. /\ expected_size' = 0 => recv_mode' = "WAITING_FOR_EOM"
          /\ expected_size' # 0 => recv_mode' = "IN_DATA"
      <4>1. recv_mode' = IF expected_size' = 0 THEN "WAITING_FOR_EOM" ELSE "IN_DATA"
        BY <3>2, SMT
      <4> QED
        BY <4>1, SMT
    <3> QED
      BY <3>1, <3>3, <3>4, <3>5, Zenon
  <2>4. SubSeq(m.data, 1, 4 - 4) = <<>>
    <3>1. 4 - 4 < 1 /\ 4 - 4 \in Int /\ 1 \in Int
      OBVIOUS
    <3> QED
      BY <3>1, SubSeqEmpty
  <2>5. recv_mode' = Mode(m, 4)
    BY <1>6, <2>2, Zenon
  <2>6. Received(m, 4)'
    <3>1. ~(4 = 3)
      OBVIOUS
    <3> QED
      BY <1>1, <2>2, <2>4, <2>5, <3>1, ReceivedNext, Zenon
  <2> QED
    BY <1>9, <1>14, <2>2, <2>6
<1> QED
  BY <1>11, <1>12, <1>13, <1>14

LEMMA DataReceived ==
  ASSUME NEW m \in Messages, NEW n \in Nat, n > 3, n < Len(m.data) + 4, Received(m, n),
         ReceiveByte(Frame(m)[n + 1])
  PROVE  Received(m, n + 1)' /\ UNCHANGED handed
<1> DEFINE L == Len(m.data)
<1>1. /\ L \in Nat /\ L <= BUFFER_SIZE /\ m.data \in Seq(Byte)
      /\ BUFFER_SIZE \in Nat
  BY MessageType, SizeAssumption DEF UnsignedShort
<1>2. PICK k \in Nat : n = k + 4
  <2>1. n - 4 \in Nat /\ n = (n - 4) + 4
    OBVIOUS
  <2> QED
    BY <2>1
<1>3. k + 1 \in 1 .. L /\ k < BUFFER_SIZE /\ 4 + (k + 1) = n + 1
  BY <1>1, <1>2
<1>4. Frame(m)[n + 1] = m.data[k + 1]
  <2>1. \A i \in 1 .. L : Frame(m)[4 + i] = m.data[i]
    BY FrameBytes
  <2>2. Frame(m)[4 + (k + 1)] = m.data[k + 1]
    BY <1>3, <2>1
  <2> QED
    BY <1>3, <2>2, Zenon
<1>5. /\ recv_mode = "IN_DATA" /\ label = m.label /\ expected_size = L
      /\ message = SubSeq(m.data, 1, k)
  <2>1. n - 4 = k /\ n # L + 4 /\ n > 1
    BY <1>1, <1>2
  <2>2. Mode(m, n) = "IN_DATA"
    BY <1>1, <2>1, ModeIs
  <2> QED
    BY <2>1, <2>2, ReceivedNow
<1>6. /\ message \in Seq(Byte) /\ Len(message) = k
      /\ \A i \in 1 .. k : message[i] = m.data[i]
  <2>1. 1 \in Int /\ k \in Int /\ \A i \in 1 .. k : m.data[i] \in Byte
    BY <1>1, <1>3
  <2>2. /\ message \in Seq(Byte) /\ Len(message) = IF 1 <= k THEN k - 1 + 1 ELSE 0
        /\ \A i \in 1 .. k - 1 + 1 : message[i] = m.data[1 + i - 1]
    BY <1>5, <2>1, SubSeqProperties
  <2> QED
    BY <2>2
<1>7. /\ message' = Append(message, m.data[k + 1])
      /\ recv_mode' = IF Len(message') = L THEN "WAITING_FOR_EOM" ELSE "IN_DATA"
      /\ label' = m.label /\ expected_size' = L /\ UNCHANGED handed
  <2>1. Len(message) # BUFFER_SIZE
    BY <1>1, <1>3, <1>6
  <2>2. InData(m.data[k + 1])
    BY <1>4, <1>5, OneState
  <2> QED
    BY <1>5, <2>1, <2>2 DEF InData
<1>8. message' = SubSeq(m.data, 1, k + 1)
  <2>1. /\ message' \in Seq(Byte) /\ Len(message') = k + 1 /\ message'[k + 1] = m.data[k + 1]
        /\ \A i \in 1 .. k : message'[i] = message[i]
    <3>1. m.data[k + 1] \in Byte
      BY <1>1, <1>3
    <3> QED
      BY <1>6, <1>7, <3>1, AppendProperties
  <2>2. PICK s : s = SubSeq(m.data, 1, k + 1)
    OBVIOUS
  <2>3. 1 \in Int /\ k + 1 \in Int /\ \A i \in 1 .. k + 1 : m.data[i] \in Byte
    BY <1>1, <1>3
  <2>4. /\ s \in Seq(Byte) /\ Len(s) = IF 1 <= k + 1 THEN k + 1 - 1 + 1 ELSE 0
        /\ \A i \in 1 .. k + 1 - 1 + 1 : s[i] = m.data[1 + i - 1]
    BY <2>2, <2>3, SubSeqProperties
  <2>5. Len(s) = k + 1 /\ \A i \in 1 .. k + 1 : s[i] = m.data[i]
    BY <2>4
  <2>6. \A i \in 1 .. k + 1 : message'[i] = s[i]
    <3>1. \A i \in 1 .. k + 1 : i = k + 1 \/ i \in 1 .. k
      OBVIOUS
    <3> QED
      BY <1>6, <2>1, <2>5, <3>1
  <2> QED
    BY <2>1, <2>2, <2>4, <2>5, <2>6, SeqEqual
<1>9. Len(message') = k + 1
  BY <1>6, <1>7
<1>10. PICK z \in Nat : z = n + 1
  OBVIOUS
<1>11. z - 4 = k + 1 /\ z > 3 /\ z > 1 /\ z # 3 /\ (z = L + 4 <=> k + 1 = L)
  BY <1>1, <1>2, <1>10
<1>12. recv_mode' = Mode(m, z)
  <2>1. CASE k + 1 = L
    BY <1>1, <1>7, <1>9, <1>11, <2>1, ModeIs
  <2>2. CASE k + 1 # L
    BY <1>1, <1>7, <1>9, <1>11, <2>2, ModeIs
  <2> QED
    BY <2>1, <2>2
<1>13. Received(m, z)'
  BY <1>7, <1>8, <1>11, <1>12, ReceivedNext
<1> QED
  BY <1>7, <1>10, <1>13

\* The last byte: the callback gets the message that was sent.
LEMMA EndReceived ==
  ASSUME NEW m \in Messages, Received(m, Len(m.data) + 4),
         ReceiveByte(Frame(m)[Len(m.data) + 5])
  PROVE  /\ recv_mode' = "PRE_SOM"
         /\ handed' = [message |-> m, bit |-> 1 - handed.bit]
<1> DEFINE L == Len(m.data)
<1>1. L \in Nat /\ m.data \in Seq(Byte) /\ m = [label |-> m.label, data |-> m.data]
  BY MessageType
<1>2. PICK z : z = L + 4
  OBVIOUS
<1>3. z \in Nat /\ z > 3 /\ z - 4 = L
  BY <1>1, <1>2
<1>4. /\ recv_mode = "WAITING_FOR_EOM" /\ label = m.label
      /\ message = SubSeq(m.data, 1, L)
  <2>1. Mode(m, z) = "WAITING_FOR_EOM" /\ Received(m, z) /\ z > 1
    BY <1>1, <1>2, <1>3, ModeIs
  <2> QED
    BY <1>3, <2>1, ReceivedNow
<1>5. SubSeq(m.data, 1, L) = m.data
  <2>1. PICK s : s = SubSeq(m.data, 1, L)
    OBVIOUS
  <2>2. 1 \in Int /\ L \in Int /\ \A i \in 1 .. L : m.data[i] \in Byte
    BY <1>1
  <2>3. /\ s \in Seq(Byte) /\ Len(s) = IF 1 <= L THEN L - 1 + 1 ELSE 0
        /\ \A i \in 1 .. L - 1 + 1 : s[i] = m.data[1 + i - 1]
    BY <2>1, <2>2, SubSeqProperties
  <2>4. Len(s) = L /\ \A i \in 1 .. L : s[i] = m.data[i]
    <3> HIDE DEF L
    <3> QED
      BY <1>1, <2>3
  <2> QED
    BY <1>1, <2>1, <2>3, <2>4, SeqEqual
<1>6. Frame(m)[Len(m.data) + 5] = EOM
  BY FrameBytes
<1> QED
  <2>1. WaitingForEom(EOM)
    BY <1>4, <1>6, OneState
  <2> QED
    BY <1>1, <1>4, <1>5, <2>1 DEF WaitingForEom, Callback

\* A whole message and a receiver in step.
LEMMA WholeReceived ==
  ASSUME NEW m \in Messages, NEW n \in Nat, n < Len(Frame(m)), Received(m, n),
         ReceiveByte(Frame(m)[n + 1])
  PROVE  /\ n + 1 < Len(Frame(m)) => Received(m, n + 1)' /\ UNCHANGED handed
         /\ n + 1 = Len(Frame(m)) =>
              /\ recv_mode' = "PRE_SOM"
              /\ handed' = [message |-> m, bit |-> 1 - handed.bit]
<1>1. PICK L \in Nat : L = Len(m.data) /\ Len(Frame(m)) = L + 5
  <2>1. Len(m.data) \in Nat
    BY MessageType
  <2>2. Len(Frame(m)) = Len(m.data) + 5
    BY FrameBytes
  <2> QED
    BY <2>1, <2>2, Zenon
<1>2. CASE n < 4
  <2>1. n \in 0 .. 3 /\ n + 1 # L + 5
    BY <1>1, <1>2
  <2> QED
    BY <1>1, <2>1, HeaderReceived
<1>3. CASE n > 3 /\ n < L + 4
  <2>1. n + 1 # L + 5
    BY <1>1, <1>3
  <2> QED
    BY <1>1, <1>3, <2>1, DataReceived
<1>4. CASE n = L + 4
  <2>1. n + 1 = L + 5 /\ ~(n + 1 < L + 5)
    BY <1>1, <1>4
  <2> QED
    BY <1>1, <1>4, <2>1, EndReceived
<1> QED
  BY <1>1, <1>2, <1>3, <1>4

-----------------------------------------------------------------------------
(* The link. *)

Whole == [message : Messages, whole : BOOLEAN]

LEMMA QueueIs ==
  ASSUME NEW t \in Seq(Entry)
  PROVE  /\ Queue(t) \in Seq(Whole) /\ Len(Queue(t)) = Len(t) /\ Len(t) \in Nat
         /\ \A k \in 1 .. Len(t) :
              /\ Queue(t)[k] = [message |-> t[k].message, whole |-> t[k].whole]
              /\ Queue(t)[k] \in Whole
         /\ Queue(t) = <<>> <=> t = <<>>
<1>1. Len(t) \in Nat
  BY LenProperties
<1>2. ASSUME NEW k \in 1 .. Len(t)
      PROVE  [message |-> t[k].message, whole |-> t[k].whole] \in Whole
  <2>1. t[k] \in Entry
    OBVIOUS
  <2> QED
    BY <2>1 DEF Entry, Whole
<1>3. /\ Queue(t) \in Seq(Whole) /\ Len(Queue(t)) = Len(t)
      /\ \A k \in 1 .. Len(t) :
           Queue(t)[k] = [message |-> t[k].message, whole |-> t[k].whole]
  BY <1>1, <1>2 DEF Queue
<1>4. Queue(t) = <<>> <=> t = <<>>
  BY <1>1, <1>3, EmptySeq
<1> QED
  BY <1>1, <1>2, <1>3, <1>4

\* What OutOfStep says of the first message.
LEMMA InStepNow ==
  ASSUME transit # <<>>, NEW m, NEW n, Head(transit).message = m,
         Len(Frame(m)) - Head(transit).unread = n
  PROVE  OutOfStep <=> Head(transit).whole /\ ~Received(m, n)
  BY Zenon DEF OutOfStep

LEMMA InStepNext ==
  ASSUME transit' # <<>>, NEW m, NEW n, Head(transit').message = m,
         Len(Frame(m)) - Head(transit').unread = n
  PROVE  OutOfStep' <=> Head(transit').whole /\ ~Received(m, n)'
  BY Zenon DEF OutOfStep, Received

\* Of a message that is still complete nothing has been received.
LEMMA NothingReceived ==
  ASSUME NEW m
  PROVE  /\ Received(m, 0) <=> recv_mode = "PRE_SOM"
         /\ Received(m, 0)' <=> recv_mode' = "PRE_SOM"
<1>1. ~(0 > 1) /\ ~(0 = 3) /\ ~(0 > 3)
  OBVIOUS
<1>2. Mode(m, 0) = "PRE_SOM"
  BY DEF Mode
<1> QED
  BY <1>1, <1>2, Zenon DEF Received, Mode

\* The receiver has not moved, and the first message is the same.
LEMMA SameStep ==
  ASSUME UNCHANGED receiver, transit # <<>>, transit' # <<>>,
         Head(transit') = Head(transit)
  PROVE  OutOfStep' = OutOfStep
  BY Zenon DEF receiver, OutOfStep, Received

\* The host begins a message: the link gets one to deliver.
LEMMA StartLink ==
  ASSUME Stream, NEW m \in Messages, StartMessage(m)
  PROVE  /\ Link!Send(m)
         /\ OutOfStep' = OutOfStep
         /\ (\A k \in 1 .. Len(transit) : transit[k].whole) =>
              \A k \in 1 .. Len(transit') : transit'[k].whole
<1> DEFINE e == [message |-> m, unread |-> Len(Frame(m)), whole |-> TRUE]
<1>1. transit' = Append(transit, e) /\ UNCHANGED <<receiver, handed>>
  BY DEF StartMessage
<1>2. Len(Frame(m)) \in Nat \ {0}
  <2>1. Len(m.data) \in Nat
    BY MessageType
  <2>2. Len(Frame(m)) = Len(m.data) + 5
    BY FrameBytes
  <2> QED
    BY <2>1, <2>2
<1>3. e \in Entry /\ e.message = m /\ e.whole = TRUE /\ e.unread = Len(Frame(m))
  BY <1>2 DEF Entry
<1> HIDE DEF e
<1>4. transit \in Seq(Entry)
  BY DEF Stream, Entries
<1>5. /\ transit' \in Seq(Entry) /\ Len(transit') = Len(transit) + 1
      /\ transit'[Len(transit) + 1] = e /\ Len(transit) \in Nat
      /\ \A k \in 1 .. Len(transit) : transit'[k] = transit[k]
  BY <1>1, <1>3, <1>4, AppendProperties, LenProperties
<1>6. transit' # <<>>
  BY <1>5
<1>7. OutOfStep' = OutOfStep
  <2>1. CASE transit = <<>>
    <3>1. Head(transit') = e
      BY <1>5, <2>1
    <3>2. Len(Frame(m)) - e.unread = 0
      BY <1>2, <1>3
    <3>3. OutOfStep' <=> ~Received(m, 0)'
      BY <1>3, <1>6, <3>1, <3>2, InStepNext
    <3>4. OutOfStep <=> recv_mode # "PRE_SOM"
      BY <2>1 DEF OutOfStep
    <3>5. recv_mode' = recv_mode
      BY <1>1 DEF receiver
    <3>6. OutOfStep' <=> OutOfStep
      BY <3>3, <3>4, <3>5, NothingReceived
    <3>7. OutOfStep' \in BOOLEAN /\ OutOfStep \in BOOLEAN
      BY <1>6, <2>1, <3>1, <1>3, Zenon DEF OutOfStep
    <3> QED
      BY <3>6, <3>7
  <2>2. CASE transit # <<>>
    <3>1. Head(transit') = Head(transit)
      BY <1>1, <1>4, <1>5, <1>6, <2>2
    <3> QED
      BY <1>1, <1>6, <2>2, <3>1, SameStep
  <2> QED
    BY <2>1, <2>2
<1>8. Queue(transit') = Append(Queue(transit), [message |-> m, whole |-> TRUE])
  <2>1. PICK w : w = [message |-> m, whole |-> TRUE]
    OBVIOUS
  <2>2. w \in Whole
    BY <2>1 DEF Whole
  <2>3. PICK q : q = Queue(transit)
    OBVIOUS
  <2>4. PICK p : p = Queue(transit')
    OBVIOUS
  <2>5. /\ q \in Seq(Whole) /\ Len(q) = Len(transit)
        /\ \A k \in 1 .. Len(transit) :
             q[k] = [message |-> transit[k].message, whole |-> transit[k].whole]
    BY <1>4, <2>3, QueueIs
  <2>6. /\ p \in Seq(Whole) /\ Len(p) = Len(transit')
        /\ \A k \in 1 .. Len(transit') :
             p[k] = [message |-> transit'[k].message, whole |-> transit'[k].whole]
    BY <1>5, <2>4, QueueIs
  <2>7. /\ Append(q, w) \in Seq(Whole) /\ Len(Append(q, w)) = Len(q) + 1
        /\ Append(q, w)[Len(q) + 1] = w
        /\ \A k \in 1 .. Len(q) : Append(q, w)[k] = q[k]
    BY <2>2, <2>5, AppendProperties
  <2>8. ASSUME NEW k \in 1 .. Len(p) PROVE p[k] = Append(q, w)[k]
    <3>1. CASE k = Len(q) + 1
      BY <1>3, <1>5, <2>1, <2>5, <2>6, <2>7, <2>8, <3>1
    <3>2. CASE k # Len(q) + 1
      <4>1. k \in 1 .. Len(transit)
        BY <1>5, <2>5, <2>6, <3>2
      <4>2. k \in 1 .. Len(transit')
        BY <2>6
      <4> QED
        BY <1>5, <2>5, <2>6, <2>7, <4>1, <4>2, Zenon
    <3> QED
      BY <3>1, <3>2
  <2>9. p = Append(q, w)
    BY <1>5, <2>5, <2>6, <2>7, <2>8, SeqEqual
  <2> QED
    BY <2>1, <2>3, <2>4, <2>9
<1>9. ASSUME \A k \in 1 .. Len(transit) : transit[k].whole,
             NEW k \in 1 .. Len(transit')
      PROVE  transit'[k].whole
  <2>1. CASE k = Len(transit) + 1
    BY <1>3, <1>5, <2>1
  <2>2. CASE k # Len(transit) + 1
    <3>1. k \in 1 .. Len(transit)
      BY <1>5, <2>2
    <3> QED
      BY <1>5, <1>9, <3>1
  <2> QED
    BY <2>1, <2>2
<1> QED
  BY <1>1, <1>7, <1>8, <1>9 DEF Link!Send

\* A byte is lost: the link damages its last message.
LEMMA LoseLink ==
  ASSUME Stream, LinkTypeOK, LoseByte
  PROVE  Link!Damage
<1> DEFINE n == Len(transit)
           e == [transit[n] EXCEPT !.whole = FALSE]
<1>1. /\ sending # <<>> /\ transit' = Less(n, e) /\ UNCHANGED <<receiver, handed>>
  BY DEF LoseByte
<1>2. transit \in Seq(Entry) /\ n \in Nat /\ n > 0
  <2>1. PICK start : Segments(transit, serial, sending, start)
    BY DEF Stream
  <2>2. n > 0
    BY <1>1, <2>1 DEF Segments
  <2> QED
    BY <2>2, LenProperties DEF Stream, Entries
<1>3. n \in 1 .. n /\ transit # <<>> /\ transit[n] \in Entry
  BY <1>2
<1>4. /\ e \in Entry /\ e.message = transit[n].message /\ e.whole = FALSE
      /\ e.unread = transit[n].unread
  BY <1>3 DEF Entry
<1> HIDE DEF e
<1>5. PICK q : q = Queue(transit)
  OBVIOUS
<1>6. PICK p : p = Queue(transit')
  OBVIOUS
<1>7. /\ q \in Seq(Whole) /\ Len(q) = n /\ q # <<>>
      /\ \A k \in 1 .. n :
           q[k] = [message |-> transit[k].message, whole |-> transit[k].whole]
  BY <1>2, <1>3, <1>5, QueueIs
<1>8. CASE e.unread > 1
  <2>1. /\ transit' \in Seq(Entry) /\ Len(transit') = n
        /\ \A i \in 1 .. n : i # n => transit'[i] = transit[i]
        /\ transit'[n].message = e.message /\ transit'[n].whole = e.whole
    BY <1>1, <1>2, <1>3, <1>4, <1>8, LessMany
  <2>2. /\ p \in Seq(Whole) /\ Len(p) = n
        /\ \A k \in 1 .. n :
             p[k] = [message |-> transit'[k].message, whole |-> transit'[k].whole]
    BY <1>6, <2>1, QueueIs
  <2>3. PICK s : s = [q EXCEPT ![n].whole = FALSE]
    OBVIOUS
  <2>4. q[n] = [message |-> transit[n].message, whole |-> transit[n].whole]
    BY <1>3, <1>7
  <2>5. [q[n] EXCEPT !.whole = FALSE] = [message |-> transit[n].message, whole |-> FALSE]
    <3>1. ASSUME NEW w \in Whole
          PROVE  [w EXCEPT !.whole = FALSE] = [message |-> w.message, whole |-> FALSE]
      <4>1. PICK r : r = [w EXCEPT !.whole = FALSE]
        OBVIOUS
      <4>2. r \in Whole /\ r.message = w.message /\ r.whole = FALSE
        BY <4>1 DEF Whole
      <4>3. r = [message |-> r.message, whole |-> r.whole]
        BY <4>2 DEF Whole
      <4> QED
        BY <4>1, <4>2, <4>3, Zenon
    <3>2. q[n] \in Whole /\ q[n].message = transit[n].message
      BY <1>3, <1>7, <2>4
    <3> QED
      BY <3>1, <3>2, Zenon
  <2>6. s = [q EXCEPT ![n] = [message |-> transit[n].message, whole |-> FALSE]]
    BY <2>3, <2>5
  <2>7. [message |-> transit[n].message, whole |-> FALSE] \in Whole
    <3>1. transit[n].message \in Messages
      BY <1>3 DEF Entry
    <3> QED
      BY <3>1 DEF Whole
  <2>8. /\ s \in Seq(Whole) /\ Len(s) = n
        /\ s[n] = [message |-> transit[n].message, whole |-> FALSE]
        /\ \A k \in 1 .. n : k # n => s[k] = q[k]
    BY <1>3, <1>7, <2>6, <2>7
  <2>9. ASSUME NEW k \in 1 .. n PROVE p[k] = s[k]
    <3>1. CASE k = n
      BY <1>4, <2>1, <2>2, <2>8, <3>1, Zenon
    <3>2. CASE k # n
      BY <1>7, <2>1, <2>2, <2>8, <3>2, Zenon
    <3> QED
      BY <3>1, <3>2
  <2>10. p = s
    BY <2>2, <2>8, <2>9, SeqEqual
  <2>11. n > 1 => OutOfStep' = OutOfStep
    <3>1. ASSUME n > 1 PROVE Head(transit') = Head(transit) /\ transit' # <<>>
      <4>1. 1 \in 1 .. n /\ 1 # n
        <5> HIDE DEF n
        <5> QED
          BY <1>2, <3>1
      <4>2. transit'[1] = transit[1]
        BY <2>1, <4>1
      <4> QED
        BY <1>2, <2>1, <4>1, <4>2
    <3> QED
      BY <1>1, <1>3, <3>1, SameStep
  <2> QED
    BY <1>1, <1>5, <1>6, <1>7, <2>3, <2>10, <2>11 DEF Link!Damage
<1>9. CASE ~(e.unread > 1)
  <2>1. /\ transit' \in Seq(Entry) /\ Len(transit') = n - 1
        /\ \A i \in 1 .. n - 1 : transit'[i] = transit[i]
    BY <1>1, <1>2, <1>3, <1>4, <1>9, LessLast
  <2>2. /\ p \in Seq(Whole) /\ Len(p) = n - 1
        /\ \A k \in 1 .. n - 1 :
             p[k] = [message |-> transit'[k].message, whole |-> transit'[k].whole]
    BY <1>6, <2>1, QueueIs
  <2>3. PICK s : s = SubSeq(q, 1, n - 1)
    OBVIOUS
  <2>4. /\ s \in Seq(Whole) /\ Len(s) = n - 1
        /\ \A k \in 1 .. n - 1 : s[k] = q[k]
    <3>1. 1 \in Int /\ n - 1 \in Int /\ \A i \in 1 .. n - 1 : q[i] \in Whole
      BY <1>2, <1>7
    <3>2. /\ s \in Seq(Whole)
          /\ Len(s) = IF 1 <= n - 1 THEN n - 1 - 1 + 1 ELSE 0
          /\ \A i \in 1 .. n - 1 - 1 + 1 : s[i] = q[1 + i - 1]
      BY <2>3, <3>1, SubSeqProperties
    <3> HIDE DEF n
    <3> QED
      BY <1>2, <3>2
  <2>5. \A k \in 1 .. n - 1 : k \in 1 .. n
    BY <1>2
  <2>6. \A k \in 1 .. n - 1 : p[k] = s[k]
    BY <1>7, <2>1, <2>2, <2>4, <2>5, Zenon
  <2>7. p = s
    BY <2>2, <2>4, <2>6, SeqEqual
  <2>8. n > 1 => OutOfStep' = OutOfStep
    <3>1. ASSUME n > 1 PROVE Head(transit') = Head(transit) /\ transit' # <<>>
      <4>1. 1 \in 1 .. n - 1
        BY <1>2, <3>1
      <4>2. transit'[1] = transit[1] /\ Len(transit') # 0
        BY <2>1, <4>1
      <4> QED
        BY <1>2, <2>1, <4>1, <4>2
    <3> QED
      BY <1>1, <1>3, <3>1, SameStep
  <2> QED
    BY <1>1, <1>5, <1>6, <1>7, <2>3, <2>7, <2>8 DEF Link!Damage
<1> QED
  BY <1>8, <1>9

LEMMA OutOfStepBoolean == OutOfStep \in BOOLEAN /\ OutOfStep' \in BOOLEAN
<1>1. OutOfStep \in BOOLEAN
  <2>1. CASE transit = <<>>
    BY <2>1, Zenon DEF OutOfStep
  <2>2. CASE transit # <<>>
    BY <2>2, Zenon DEF OutOfStep
  <2> QED
    BY <2>1, <2>2
<1>2. OutOfStep' \in BOOLEAN
  <2>1. CASE transit' = <<>>
    BY <2>1, Zenon DEF OutOfStep
  <2>2. CASE transit' # <<>>
    BY <2>2, Zenon DEF OutOfStep
  <2> QED
    BY <2>1, <2>2
<1> QED
  BY <1>1, <1>2

\* What a healthy link looks like in the receiver, once something can be read.
LEMMA HealthyReceived ==
  ASSUME Stream, LinkTypeOK, serial # <<>>, Link!Healthy
  PROVE  /\ transit[1].whole
         /\ \E m \in Messages, n \in Nat :
              /\ m = transit[1].message
              /\ n = Len(Frame(m)) - transit[1].unread
              /\ n < Len(Frame(m)) /\ Len(Frame(m)) \in Nat
              /\ Received(m, n)
              /\ Head(serial) = Frame(m)[n + 1]
<1> DEFINE e == transit[1]
<1>1. /\ transit # <<>> /\ e \in Entry /\ Len(transit) \in Nat \ {0}
      /\ e.unread \in Nat \ {0} /\ FrameLength(e) \in Nat
      /\ e.whole => /\ e.unread <= FrameLength(e)
                    /\ Head(serial) = Frame(e.message)[FrameLength(e) - e.unread + 1]
  BY FirstByte
<1>2. transit \in Seq(Entry) /\ 1 \in 1 .. Len(transit)
  BY <1>1 DEF Stream, Entries
<1>3. Head(transit) = e
  BY <1>1, <1>2, HeadTail
<1>4. PICK q : q = Queue(transit)
  OBVIOUS
<1>5. q \in Seq(Whole) /\ q # <<>> /\ q[1] = [message |-> e.message, whole |-> e.whole]
  BY <1>1, <1>2, <1>4, QueueIs
<1>6. Head(q) = q[1]
  BY <1>5, HeadTail
<1>7. ~OutOfStep /\ Head(q).whole
  BY <1>4, <1>5, Zenon DEF Link!Healthy
<1>8. e.whole
  BY <1>5, <1>6, <1>7
<1>9. PICK m \in Messages : m = e.message
  BY <1>1 DEF Entry
<1>10. FrameLength(e) = Len(Frame(m))
  BY <1>9 DEF FrameLength
<1>11. PICK n \in Nat : n = Len(Frame(m)) - e.unread /\ n < Len(Frame(m))
  <2>1. Len(Frame(m)) - e.unread \in Nat /\ Len(Frame(m)) - e.unread < Len(Frame(m))
    BY <1>1, <1>8, <1>10
  <2> QED
    BY <2>1
<1>12. Received(m, n)
  BY <1>1, <1>3, <1>7, <1>8, <1>9, <1>11, InStepNow, Zenon
<1>13. Head(serial) = Frame(m)[n + 1]
  BY <1>1, <1>8, <1>9, <1>10, <1>11, Zenon
<1>14. Len(Frame(m)) \in Nat
  BY <1>1, <1>10
<1> QED
  BY <1>8, <1>9, <1>11, <1>12, <1>13, <1>14

\* A byte is read that is not the last of its message: the link still has the
\* same messages to deliver.
LEMMA TakeSome ==
  ASSUME transit \in Seq(Entry), transit # <<>>, Take, transit[1].unread > 1
  PROVE  /\ Queue(transit') = Queue(transit) /\ transit' # <<>>
         /\ Head(transit').message = transit[1].message
         /\ Head(transit').whole = transit[1].whole
         /\ Head(transit').unread = transit[1].unread - 1
         /\ (\A k \in 1 .. Len(transit) : transit[k].whole) =>
              \A k \in 1 .. Len(transit') : transit'[k].whole
<1> DEFINE n == Len(transit)
           e == transit[1]
<1>1. n \in Nat \ {0} /\ 1 \in 1 .. n /\ e \in Entry
  BY HeadTail
<1>2. transit' = Less(1, e)
  BY DEF Take
<1>3. e.unread > 1
  OBVIOUS
<1> HIDE DEF e
<1>4. /\ transit' \in Seq(Entry) /\ Len(transit') = n
      /\ \A i \in 1 .. n : i # 1 => transit'[i] = transit[i]
      /\ transit'[1].message = e.message /\ transit'[1].whole = e.whole
      /\ transit'[1].unread = e.unread - 1
  BY <1>1, <1>2, <1>3, LessMany
<1>5. transit' # <<>> /\ Head(transit') = transit'[1]
  <2>1. transit' # <<>>
    BY <1>1, <1>4
  <2> QED
    BY <1>4, <2>1, HeadTail
<1>6. PICK q : q = Queue(transit)
  OBVIOUS
<1>7. PICK p : p = Queue(transit')
  OBVIOUS
<1>8. /\ q \in Seq(Whole) /\ Len(q) = n
      /\ \A k \in 1 .. n :
           q[k] = [message |-> transit[k].message, whole |-> transit[k].whole]
  BY <1>6, QueueIs
<1>9. /\ p \in Seq(Whole) /\ Len(p) = n
      /\ \A k \in 1 .. n :
           p[k] = [message |-> transit'[k].message, whole |-> transit'[k].whole]
  BY <1>4, <1>7, QueueIs
<1>10. ASSUME NEW k \in 1 .. n
       PROVE  transit'[k].message = transit[k].message /\ transit'[k].whole = transit[k].whole
  BY <1>4, Zenon DEF e
<1>11. p = q
  <2>1. \A k \in 1 .. n : p[k] = q[k]
    BY <1>8, <1>9, <1>10, Zenon
  <2> QED
    BY <1>8, <1>9, <2>1, SeqEqual
<1> QED
  BY <1>4, <1>5, <1>6, <1>7, <1>10, <1>11, Zenon DEF e

\* The last byte of a message is read: the link has one message less.
LEMMA TakeLast ==
  ASSUME transit \in Seq(Entry), transit # <<>>, Take, ~(transit[1].unread > 1)
  PROVE  /\ Queue(transit') = Tail(Queue(transit)) /\ Queue(transit) # <<>>
         /\ Head(Queue(transit)) = [message |-> transit[1].message,
                                    whole |-> transit[1].whole]
         /\ transit' \in Seq(Entry) /\ Len(transit') = Len(transit) - 1
         /\ \A i \in 1 .. Len(transit) - 1 : transit'[i] = transit[i + 1]
         /\ (\A k \in 1 .. Len(transit) : transit[k].whole) =>
              \A k \in 1 .. Len(transit') : transit'[k].whole
<1> DEFINE n == Len(transit)
           e == transit[1]
<1>1. n \in Nat \ {0} /\ 1 \in 1 .. n /\ e \in Entry
  BY HeadTail
<1>2. transit' = Less(1, e)
  BY DEF Take
<1>3. /\ transit' \in Seq(Entry) /\ Len(transit') = n - 1
      /\ \A i \in 1 .. n - 1 : transit'[i] = transit[i + 1]
  BY <1>1, <1>2, LessFirst
<1> HIDE DEF e
<1>4. PICK q : q = Queue(transit)
  OBVIOUS
<1>5. PICK p : p = Queue(transit')
  OBVIOUS
<1>6. /\ q \in Seq(Whole) /\ Len(q) = n /\ q # <<>>
      /\ \A k \in 1 .. n :
           q[k] = [message |-> transit[k].message, whole |-> transit[k].whole]
  BY <1>4, QueueIs
<1>7. /\ p \in Seq(Whole) /\ Len(p) = n - 1
      /\ \A k \in 1 .. n - 1 :
           p[k] = [message |-> transit'[k].message, whole |-> transit'[k].whole]
  BY <1>3, <1>5, QueueIs
<1>8. /\ Head(q) = q[1] /\ Tail(q) \in Seq(Whole) /\ Len(Tail(q)) = n - 1
      /\ \A i \in 1 .. n - 1 : Tail(q)[i] = q[i + 1]
  BY <1>6, HeadTail
<1>9. \A k \in 1 .. n - 1 : k + 1 \in 1 .. n
  BY <1>1
<1>10. p = Tail(q)
  <2>1. \A k \in 1 .. n - 1 : p[k] = Tail(q)[k]
    BY <1>3, <1>6, <1>7, <1>8, <1>9, Zenon
  <2> QED
    BY <1>7, <1>8, <2>1, SeqEqual
<1>11. Head(q) = [message |-> e.message, whole |-> e.whole]
  BY <1>1, <1>6, <1>8 DEF e
<1>12. ASSUME \A k \in 1 .. n : transit[k].whole
       PROVE  \A k \in 1 .. n - 1 : transit'[k].whole
  BY <1>3, <1>9, <1>12, Zenon
<1> QED
  BY <1>3, <1>4, <1>5, <1>6, <1>10, <1>11, <1>12, Zenon DEF e

\* Reading: a healthy link delivers its first message with the last byte and
\* stays in step; an unhealthy one stumbles on.
LEMMA ReadLink ==
  ASSUME Stream, Stream', LinkTypeOK, Read
  PROVE  /\ Link!Healthy => /\ ~OutOfStep'
                            /\ \/ Link!Deliver
                               \/ UNCHANGED <<Queue(transit), OutOfStep, handed>>
         /\ ~Link!Healthy => Link!Stumble
         /\ (\A k \in 1 .. Len(transit) : transit[k].whole) =>
              \A k \in 1 .. Len(transit') : transit'[k].whole
<1>1. serial # <<>> /\ Take /\ ReceiveByte(Head(serial))
  BY DEF Read, ReceiveByte
<1>2. /\ transit \in Seq(Entry) /\ transit # <<>> /\ transit[1].unread \in Nat \ {0}
      /\ Len(transit) \in Nat \ {0}
  BY <1>1, FirstByte DEF Stream, Entries
<1>3. CASE transit[1].unread > 1
  <2>1. /\ Queue(transit') = Queue(transit) /\ transit' # <<>>
        /\ Head(transit').message = transit[1].message
        /\ Head(transit').whole = transit[1].whole
        /\ Head(transit').unread = transit[1].unread - 1
    BY <1>1, <1>2, <1>3, TakeSome
  <2>2. (\A k \in 1 .. Len(transit) : transit[k].whole) =>
          \A k \in 1 .. Len(transit') : transit'[k].whole
    BY <1>1, <1>2, <1>3, TakeSome
  <2>3. ASSUME ~Link!Healthy PROVE Link!Stumble
    BY <2>1, <2>3, Zenon DEF Link!Stumble
  <2>4. ASSUME Link!Healthy
        PROVE  ~OutOfStep' /\ UNCHANGED <<Queue(transit), OutOfStep, handed>>
    <3>1. PICK m \in Messages, n \in Nat :
            /\ m = transit[1].message
            /\ n = Len(Frame(m)) - transit[1].unread
            /\ n < Len(Frame(m)) /\ Len(Frame(m)) \in Nat
            /\ Received(m, n)
            /\ Head(serial) = Frame(m)[n + 1]
      BY <1>1, <2>4, HealthyReceived
    <3>2. n + 1 < Len(Frame(m)) /\ n + 1 = Len(Frame(m)) - (transit[1].unread - 1)
      BY <1>2, <1>3, <3>1
    <3>3. Received(m, n + 1)' /\ UNCHANGED handed
      <4>1. ReceiveByte(Frame(m)[n + 1])
        BY <1>1, <3>1, Zenon
      <4> QED
        BY <3>1, <3>2, <4>1, WholeReceived, Zenon
    <3>4. PICK z : z = n + 1
      OBVIOUS
    <3>5. Received(m, z)'
      BY <3>3, <3>4, Zenon DEF Received
    <3>6. ~OutOfStep'
      BY <2>1, <3>1, <3>2, <3>4, <3>5, InStepNext, Zenon
    <3>7. ~OutOfStep
      BY <2>4, Zenon DEF Link!Healthy
    <3>8. OutOfStep' = OutOfStep
      BY <3>6, <3>7, OutOfStepBoolean
    <3> QED
      BY <2>1, <3>3, <3>6, <3>8, Zenon
  <2> QED
    BY <2>2, <2>3, <2>4
<1>4. CASE ~(transit[1].unread > 1)
  <2>1. /\ Queue(transit') = Tail(Queue(transit)) /\ Queue(transit) # <<>>
        /\ Head(Queue(transit)) = [message |-> transit[1].message,
                                   whole |-> transit[1].whole]
        /\ transit' \in Seq(Entry) /\ Len(transit') = Len(transit) - 1
        /\ \A i \in 1 .. Len(transit) - 1 : transit'[i] = transit[i + 1]
    BY <1>1, <1>2, <1>4, TakeLast
  <2>2. (\A k \in 1 .. Len(transit) : transit[k].whole) =>
          \A k \in 1 .. Len(transit') : transit'[k].whole
    BY <1>1, <1>2, <1>4, TakeLast
  <2>3. ASSUME ~Link!Healthy PROVE Link!Stumble
    BY <2>1, <2>3, Zenon DEF Link!Stumble
  <2>4. ASSUME Link!Healthy
        PROVE  ~OutOfStep' /\ Link!Deliver
    <3>1. PICK m \in Messages, n \in Nat :
            /\ m = transit[1].message
            /\ n = Len(Frame(m)) - transit[1].unread
            /\ n < Len(Frame(m)) /\ Len(Frame(m)) \in Nat
            /\ Received(m, n)
            /\ Head(serial) = Frame(m)[n + 1]
      BY <1>1, <2>4, HealthyReceived
    <3>2. n + 1 = Len(Frame(m))
      BY <1>2, <1>4, <3>1
    <3>3. recv_mode' = "PRE_SOM" /\ handed' = [message |-> m, bit |-> 1 - handed.bit]
      <4>1. ReceiveByte(Frame(m)[n + 1])
        BY <1>1, <3>1, Zenon
      <4> QED
        BY <3>1, <3>2, <4>1, WholeReceived, Zenon
    <3>4. ~OutOfStep'
      <4>1. CASE transit' = <<>>
        BY <3>3, <4>1, Zenon DEF OutOfStep
      <4>2. CASE transit' # <<>>
        <5>1. 1 \in 1 .. Len(transit') /\ Head(transit') = transit'[1]
          BY <2>1, <4>2, HeadTail
        <5>2. /\ transit'[1] \in Entry /\ transit'[1] = transit[2] /\ 2 \in 1 .. Len(transit)
          <6>1. 1 \in 1 .. Len(transit) - 1 /\ 1 + 1 = 2 /\ 2 \in 1 .. Len(transit)
            BY <1>2, <2>1, <5>1
          <6> QED
            BY <2>1, <5>1, <6>1
        <5>3. CASE transit'[1].whole
          <6>1. transit[2].unread = FrameLength(transit[2])
            BY <5>2, <5>3 DEF Stream, Entries
          <6>2. PICK k \in Messages : k = transit'[1].message
            BY <5>2 DEF Entry
          <6>3. transit'[1].unread = Len(Frame(k)) /\ Len(Frame(k)) \in Nat
            BY <5>2, <6>1, <6>2, FrameType, LenProperties DEF FrameLength
          <6>4. Len(Frame(k)) - transit'[1].unread = 0
            BY <6>3
          <6>5. Received(k, 0)'
            BY <3>3, NothingReceived
          <6> QED
            BY <4>2, <5>1, <6>2, <6>4, <6>5, InStepNext, Zenon
        <5>4. CASE ~transit'[1].whole
          BY <4>2, <5>1, <5>4, InStepNext, Zenon
        <5> QED
          BY <5>3, <5>4
      <4> QED
        BY <4>1, <4>2
    <3>5. OutOfStep' = FALSE
      BY <3>4, OutOfStepBoolean
    <3>6. handed' = [message |-> Head(Queue(transit)).message, bit |-> 1 - handed.bit]
      BY <2>1, <3>1, <3>3
    <3> QED
      BY <2>1, <2>4, <3>4, <3>5, <3>6, Zenon DEF Link!Deliver
  <2> QED
    BY <2>2, <2>3, <2>4
<1> QED
  BY <1>3, <1>4

-----------------------------------------------------------------------------
(* The invariant and the theorems. *)

\* As long as no byte has been lost every message in transit is whole and the
\* receiver is in step with it.
StepInv ==
  losses = 0 => /\ \A k \in 1 .. Len(transit) : transit[k].whole
                /\ ~OutOfStep

LinkInv == SizeInv /\ Stream /\ StepInv

LEMMA InitLinkInv == Init => LinkInv /\ Link!Init
<1> SUFFICES ASSUME Init PROVE LinkInv /\ Link!Init
  OBVIOUS
<1>1. /\ recv_mode = "PRE_SOM" /\ serial = <<>> /\ sending = <<>> /\ transit = <<>>
      /\ handed = [message |-> Nothing, bit |-> 0]
  BY DEF Init
<1>2. Stream
  <2>1. Entries(transit)
    BY <1>1 DEF Entries
  <2>2. PICK start : start = [k \in 1 .. 1 |-> 0]
    OBVIOUS
  <2>3. Len(transit) = 0 /\ Len(serial) = 0 /\ Len(sending) = 0
    BY <1>1
  <2>4. Segments(transit, serial, sending, start)
    BY <1>1, <2>2, <2>3 DEF Segments
  <2> QED
    BY <2>1, <2>4 DEF Stream
<1>3. ~OutOfStep
  BY <1>1 DEF OutOfStep
<1>4. OutOfStep = FALSE
  BY <1>3, OutOfStepBoolean
<1>5. Queue(transit) = <<>>
  BY <1>1, EmptySeq, QueueIs
<1>6. StepInv
  BY <1>1, <1>3 DEF StepInv
<1> QED
  BY <1>1, <1>2, <1>4, <1>5, <1>6, InitSizeInv DEF LinkInv, Link!Init

LEMMA StepLinkInv ==
  ASSUME LinkInv, [Next]_vars
  PROVE  LinkInv' /\ [Link!Next]_(Link!vars)
<1>1. SizeInv' /\ LinkTypeOK
  BY NextSizeInv DEF LinkInv, SizeInv
<1>2. Stream /\ StepInv
  BY DEF LinkInv
<1>3. ASSUME NEW m \in Messages, StartMessage(m)
      PROVE  LinkInv' /\ Link!Next
  <2>1. Stream'
    BY <1>1, <1>2, <1>3, StartStream
  <2>2. /\ Link!Send(m) /\ OutOfStep' = OutOfStep
        /\ (\A k \in 1 .. Len(transit) : transit[k].whole) =>
             \A k \in 1 .. Len(transit') : transit'[k].whole
    BY <1>2, <1>3, StartLink
  <2>3. losses' = losses
    BY <1>3 DEF StartMessage
  <2>4. StepInv'
    BY <1>2, <2>2, <2>3, Zenon DEF StepInv
  <2> QED
    BY <1>1, <2>1, <2>2, <2>4 DEF LinkInv, Link!Next
<1>4. ASSUME SendByte
      PROVE  LinkInv' /\ UNCHANGED Link!vars
  <2>1. Stream'
    BY <1>1, <1>2, <1>4, SendStream
  <2>2. UNCHANGED <<receiver, losses, transit, handed>>
    BY <1>4 DEF SendByte
  <2>3. OutOfStep' = OutOfStep /\ Queue(transit') = Queue(transit)
    BY <2>2, Zenon DEF OutOfStep, Received, receiver
  <2>4. StepInv'
    BY <1>2, <2>2, <2>3, Zenon DEF StepInv
  <2> QED
    BY <1>1, <2>1, <2>2, <2>3, <2>4 DEF LinkInv, Link!vars
<1>5. ASSUME LoseByte
      PROVE  LinkInv' /\ Link!Next
  <2>1. Stream' /\ Link!Damage
    BY <1>1, <1>2, <1>5, LoseStream, LoseLink
  <2>2. losses' # 0
    BY <1>1, <1>5 DEF LoseByte, LinkTypeOK
  <2> QED
    BY <1>1, <2>1, <2>2 DEF LinkInv, StepInv, Link!Next
<1>6. ASSUME Read
      PROVE  LinkInv' /\ [Link!Next]_(Link!vars)
  <2>1. Stream'
    BY <1>1, <1>2, <1>6, TakeStream DEF Read
  <2>2. /\ Link!Healthy => /\ ~OutOfStep'
                           /\ \/ Link!Deliver
                              \/ UNCHANGED <<Queue(transit), OutOfStep, handed>>
        /\ ~Link!Healthy => Link!Stumble
        /\ (\A k \in 1 .. Len(transit) : transit[k].whole) =>
             \A k \in 1 .. Len(transit') : transit'[k].whole
    BY <1>1, <1>2, <1>6, <2>1, ReadLink
  <2>3. losses' = losses
    BY <1>6 DEF Read, Take
  <2>4. StepInv'
    <3>1. ASSUME losses = 0 PROVE Link!Healthy
      <4>1. CASE transit = <<>>
        <5>1. Queue(transit) = <<>>
          BY <1>2, <4>1, QueueIs DEF Stream, Entries
        <5> QED
          BY <1>2, <3>1, <5>1, Zenon DEF StepInv, Link!Healthy
      <4>2. CASE transit # <<>>
        <5>1. transit \in Seq(Entry) /\ 1 \in 1 .. Len(transit)
          BY <1>2, <4>2, HeadTail DEF Stream, Entries
        <5>2. PICK q : q = Queue(transit)
          OBVIOUS
        <5>3. /\ q \in Seq(Whole) /\ q # <<>>
              /\ q[1] = [message |-> transit[1].message, whole |-> transit[1].whole]
          BY <4>2, <5>1, <5>2, QueueIs
        <5>4. Head(q) = q[1]
          BY <5>3, HeadTail
        <5>5. transit[1].whole /\ ~OutOfStep
          BY <1>2, <3>1, <5>1 DEF StepInv
        <5>6. Head(q).whole
          BY <5>3, <5>4, <5>5
        <5> QED
          BY <5>2, <5>5, <5>6, Zenon DEF Link!Healthy
      <4> QED
        BY <4>1, <4>2
    <3> QED
      BY <1>2, <2>2, <2>3, <3>1, Zenon DEF StepInv
  <2>5. [Link!Next]_(Link!vars)
    BY <2>2, Zenon DEF Link!Next, Link!vars
  <2> QED
    BY <1>1, <2>1, <2>4, <2>5 DEF LinkInv
<1>7. CASE UNCHANGED vars
  <2>1. UNCHANGED <<receiver, serial, sending, losses, transit, handed>>
    BY <1>7 DEF vars, line
  <2>2. OutOfStep' = OutOfStep /\ Queue(transit') = Queue(transit)
    BY <2>1, Zenon DEF OutOfStep, Received, receiver
  <2>3. Stream' /\ StepInv'
    BY <1>2, <2>1, <2>2, Zenon DEF Stream, StepInv
  <2> QED
    BY <1>1, <2>1, <2>2, <2>3 DEF LinkInv, Link!vars
<1> QED
  BY <1>3, <1>4, <1>5, <1>6, <1>7 DEF Next

\* A host that keeps to the size of the buffer overruns it only if a byte gets
\* lost, whatever it sends and however large the buffers are.
THEOREM NoLossNoOverrun == Spec => []OverrunNeedsLoss
<1>1. LinkInv => OverrunNeedsLoss
  <2> SUFFICES ASSUME LinkInv, recv_mode = "UNDEFINED", losses = 0 PROVE FALSE
    BY DEF OverrunNeedsLoss, LinkInv, SizeInv, LinkTypeOK
  <2>1. ~OutOfStep /\ \A k \in 1 .. Len(transit) : transit[k].whole
    BY DEF LinkInv, StepInv
  <2>2. CASE transit = <<>>
    BY <2>1, <2>2 DEF OutOfStep
  <2>3. CASE transit # <<>>
    <3>1. transit \in Seq(Entry) /\ 1 \in 1 .. Len(transit) /\ Head(transit) = transit[1]
      BY <2>3, HeadTail DEF LinkInv, Stream, Entries
    <3>2. PICK m : m = Head(transit).message
      OBVIOUS
    <3>3. PICK n : n = Len(Frame(m)) - Head(transit).unread
      OBVIOUS
    <3>4. Received(m, n)
      BY <2>1, <2>3, <3>1, <3>2, <3>3, InStepNow, Zenon
    <3>5. recv_mode = Mode(m, n)
      BY <3>4, ReceivedNow
    <3> QED
      BY <3>5 DEF Mode
  <2> QED
    BY <2>2, <2>3
<1>2. LinkInv /\ [Next]_vars => LinkInv'
  BY StepLinkInv
<1> QED
  BY <1>1, <1>2, InitLinkInv, PTL DEF Spec

\* The receiver does nothing a link would not do: it delivers messages whole,
\* in order and once until one is damaged, and only damage gets it out of
\* step.  (The safety part of ImplementsLink.)
THEOREM ReceiverIsLink == Spec => Link!Init /\ [][Link!Next]_(Link!vars)
<1>1. LinkInv /\ [Next]_vars => LinkInv' /\ [Link!Next]_(Link!vars)
  BY StepLinkInv
<1> QED
  BY <1>1, InitLinkInv, PTL DEF Spec
===============================================================================
