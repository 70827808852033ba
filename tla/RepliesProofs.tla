----------------------------- MODULE RepliesProofs ------------------------------
(***************************************************************************)
(* Theorems about the bytes of the replies, for every request and every    *)
(* setting.                                                                *)
(***************************************************************************)
EXTENDS RDMReplies, RDMPromisesProofs, SettingsStoreProofs

-----------------------------------------------------------------------------
(* The checksum.  Its running sum is a recursive function: that there is one *)
(* has to be shown before anything can be said of it.                        *)

\* sum is the running sum of the first m bytes.
IsSum(sum, bytes, m) ==
  sum = [n \in 0 .. m |-> IF n = 0 THEN 0 ELSE (sum[n - 1] + bytes[n]) % 65536]

SumOf(bytes) == CHOOSE sum : IsSum(sum, bytes, Len(bytes))

LEMMA ChecksumIsSum ==
  ASSUME NEW bytes
  PROVE  Checksum(bytes) = SumOf(bytes)[Len(bytes)]
BY DEF Checksum, SumOf, IsSum

\* A running sum can be continued by one byte.
LEMMA SumStep ==
  ASSUME NEW bytes, NEW m \in Nat, NEW sum, IsSum(sum, bytes, m)
  PROVE  \E next : IsSum(next, bytes, m + 1)
<1> DEFINE next == [n \in 0 .. m + 1 |-> IF n = m + 1 THEN (sum[m] + bytes[m + 1]) % 65536
                                                      ELSE sum[n]]
           right == [n \in 0 .. m + 1 |-> IF n = 0 THEN 0
                                           ELSE (next[n - 1] + bytes[n]) % 65536]
<1>1. ASSUME NEW n \in 0 .. m + 1 PROVE next[n] = right[n]
  <2>1. CASE n = 0
    <3>1. 0 \in 0 .. m /\ 0 # m + 1
      OBVIOUS
    <3> QED
      BY <2>1, <3>1 DEF IsSum
  <2>2. CASE n = m + 1
    <3>1. n - 1 = m /\ m \in 0 .. m + 1 /\ m # m + 1 /\ n # 0
      BY <2>2
    <3> QED
      BY <2>2, <3>1
  <2>3. CASE n \in 1 .. m
    <3>1. n \in 0 .. m /\ n # 0 /\ n # m + 1
      BY <2>3
    <3>2. n - 1 \in 0 .. m + 1 /\ n - 1 # m + 1
      BY <2>3
    <3>3. sum[n] = (sum[n - 1] + bytes[n]) % 65536
      BY <3>1 DEF IsSum
    <3> QED
      BY <3>1, <3>2, <3>3
  <2> QED
    BY <2>1, <2>2, <2>3
<1>2. next = [n \in 0 .. m + 1 |-> next[n]]
  OBVIOUS
<1>3. right = [n \in 0 .. m + 1 |-> right[n]]
  OBVIOUS
<1>4. next = right
  <2> HIDE DEF next, right
  <2> QED
    BY <1>1, <1>2, <1>3
<1>5. IsSum(next, bytes, m + 1)
  BY <1>4 DEF IsSum
<1> QED
  BY <1>5

\* Every sequence of bytes has a running sum.
LEMMA SumExists ==
  ASSUME NEW bytes, NEW m \in Nat
  PROVE  \E sum : IsSum(sum, bytes, m)
<1> DEFINE K == {n \in Nat : ~ \E sum : IsSum(sum, bytes, n)}
<1>1. SUFFICES ASSUME K # {} PROVE FALSE
  OBVIOUS
<1>2. PICK k \in K : \A i \in K : k <= i
  <2>1. K \subseteq Nat
    OBVIOUS
  <2> HIDE DEF K
  <2> QED
    BY <1>1, <2>1, FirstOf
<1>3. k # 0
  <2> DEFINE zero == [n \in 0 .. 0 |-> 0]
  <2>1. zero = [n \in 0 .. 0 |-> IF n = 0 THEN 0 ELSE (zero[n - 1] + bytes[n]) % 65536]
    OBVIOUS
  <2>2. IsSum(zero, bytes, 0)
    BY <2>1 DEF IsSum
  <2> QED
    BY <2>2
<1>4. k - 1 \in Nat /\ k - 1 \notin K
  BY <1>2, <1>3
<1>5. \E sum : IsSum(sum, bytes, k - 1)
  BY <1>4
<1>6. \E sum : IsSum(sum, bytes, k - 1 + 1)
  BY <1>4, <1>5, SumStep
<1>7. k - 1 + 1 = k
  BY <1>4
<1> QED
  BY <1>2, <1>6, <1>7

LEMMA SumSteps ==
  ASSUME NEW bytes \in Seq(Byte)
  PROVE  /\ SumOf(bytes)[0] = 0
         /\ \A n \in 1 .. Len(bytes) :
              SumOf(bytes)[n] = (SumOf(bytes)[n - 1] + bytes[n]) % 65536
<1> DEFINE s == SumOf(bytes)
<1>1. PICK m \in Nat : m = Len(bytes)
  OBVIOUS
<1>2. IsSum(s, bytes, m)
  BY <1>1, SumExists DEF SumOf
<1> HIDE DEF s
<1>3. s[0] = 0 /\ \A n \in 1 .. m : s[n] = (s[n - 1] + bytes[n]) % 65536
  <2>1. 0 \in 0 .. m
    OBVIOUS
  <2>2. \A n \in 1 .. m : n \in 0 .. m /\ n # 0
    OBVIOUS
  <2> QED
    BY <1>2, <2>1, <2>2 DEF IsSum
<1> QED
  BY <1>1, <1>3 DEF s

\* A running sum of bytes consists of words.
LEMMA SumType ==
  ASSUME NEW bytes \in Seq(Byte), NEW n \in 0 .. Len(bytes)
  PROVE  SumOf(bytes)[n] \in Word
<1> DEFINE s == SumOf(bytes)
           K == {k \in Nat : k <= Len(bytes) /\ s[k] \notin Word}
<1>0. Len(bytes) \in Nat
  OBVIOUS
<1>1. SUFFICES ASSUME K # {} PROVE FALSE
  BY <1>0
<1>2. PICK k \in K : \A i \in K : k <= i
  <2>1. K \subseteq Nat
    OBVIOUS
  <2> HIDE DEF K
  <2> QED
    BY <1>1, <2>1, FirstOf
<1>3. s[0] = 0 /\ \A i \in 1 .. Len(bytes) : s[i] = (s[i - 1] + bytes[i]) % 65536
  BY SumSteps
<1> HIDE DEF s
<1>4. k # 0
  BY <1>2, <1>3 DEF Word
<1>5. k \in 1 .. Len(bytes) /\ k - 1 \in Nat /\ k - 1 <= Len(bytes) /\ ~(k <= k - 1)
  BY <1>0, <1>2, <1>4
<1>6. s[k - 1] \in Word /\ bytes[k] \in Byte
  BY <1>2, <1>5
<1>7. (s[k - 1] + bytes[k]) % 65536 \in Word
  BY <1>6 DEF Word, Byte
<1> QED
  BY <1>2, <1>3, <1>5, <1>7

LEMMA ChecksumType ==
  ASSUME NEW bytes \in Seq(Byte)
  PROVE  Checksum(bytes) \in Word
<1>1. Len(bytes) \in 0 .. Len(bytes)
  OBVIOUS
<1> QED
  BY <1>1, ChecksumIsSum, SumType

LEMMA CatBytes ==
  ASSUME NEW x \in Seq(Byte), NEW y \in Seq(Byte)
  PROVE  /\ x \o y \in Seq(Byte)
         /\ Len(x \o y) = Len(x) + Len(y)
         /\ \A i \in 1 .. Len(x) : (x \o y)[i] = x[i]
         /\ \A i \in 1 .. Len(y) : (x \o y)[Len(x) + i] = y[i]
  OBVIOUS

\* RDM_STATUS_OK, which is sent in front, leaves the checksum as it is.
LEMMA ZeroAddsNothing ==
  ASSUME NEW bytes \in Seq(Byte)
  PROVE  Checksum(<<0>> \o bytes) = Checksum(bytes)
<1> DEFINE c == <<0>> \o bytes
           s == SumOf(bytes)
           t == SumOf(c)
           K == {k \in Nat : k <= Len(bytes) /\ t[k + 1] # s[k]}
<1>0. PICK m \in Nat : m = Len(bytes)
  OBVIOUS
<1>1. /\ c \in Seq(Byte) /\ Len(c) = m + 1 /\ c[1] = 0
      /\ \A i \in 1 .. m : c[i + 1] = bytes[i]
  <2>1. 0 \in Byte
    BY DEF Byte
  <2> DEFINE z == <<0>>
  <2>2. z \in Seq(Byte) /\ Len(z) = 1 /\ z[1] = 0
    BY <2>1
  <2> HIDE DEF z
  <2>3. /\ z \o bytes \in Seq(Byte) /\ Len(z \o bytes) = Len(z) + Len(bytes)
        /\ \A i \in 1 .. Len(z) : (z \o bytes)[i] = z[i]
        /\ \A i \in 1 .. Len(bytes) : (z \o bytes)[Len(z) + i] = bytes[i]
    BY <2>2, CatBytes
  <2>4. c = z \o bytes
    BY DEF z
  <2> HIDE DEF c
  <2>5. 1 \in 1 .. Len(z) /\ Len(z) + Len(bytes) = m + 1
    BY <1>0, <2>2
  <2>6. \A i \in 1 .. m : Len(z) + i = i + 1
    BY <2>2
  <2> QED
    BY <1>0, <2>2, <2>3, <2>4, <2>5, <2>6
<1>2. s[0] = 0 /\ \A i \in 1 .. m : s[i] = (s[i - 1] + bytes[i]) % 65536
  BY <1>0, SumSteps
<1>3. t[0] = 0 /\ \A i \in 1 .. m + 1 : t[i] = (t[i - 1] + c[i]) % 65536
  <2>1. c \in Seq(Byte) /\ Len(c) = m + 1
    BY <1>1
  <2> HIDE DEF c
  <2>2. /\ SumOf(c)[0] = 0
        /\ \A i \in 1 .. Len(c) : SumOf(c)[i] = (SumOf(c)[i - 1] + c[i]) % 65536
    BY <2>1, SumSteps
  <2> QED
    BY <2>1, <2>2
<1>4. Checksum(bytes) = s[m] /\ Checksum(c) = t[m + 1]
  BY <1>0, <1>1, ChecksumIsSum
<1> HIDE DEF c, s, t
<1>5. SUFFICES ASSUME K # {} PROVE FALSE
  <2>1. m \notin K => t[m + 1] = s[m]
    BY <1>0
  <2>2. t[m + 1] = s[m] => Checksum(c) = Checksum(bytes)
    BY <1>4
  <2> HIDE DEF K
  <2> QED
    BY <2>1, <2>2 DEF c
<1>6. PICK k \in K : \A i \in K : k <= i
  <2>1. K \subseteq Nat
    OBVIOUS
  <2> HIDE DEF K
  <2> QED
    BY <1>5, <2>1, FirstOf
<1>7. k # 0
  <2>1. 1 \in 1 .. m + 1
    BY <1>0
  <2>2. t[1] = (t[1 - 1] + c[1]) % 65536
    BY <1>3, <2>1
  <2>3. t[1] = 0
    BY <1>1, <1>3, <2>2
  <2> QED
    BY <1>2, <1>6, <2>3
<1>8. k \in 1 .. m /\ k - 1 \in Nat /\ k - 1 <= m /\ ~(k <= k - 1)
  BY <1>0, <1>6, <1>7
<1>9. t[k - 1 + 1] = s[k - 1]
  BY <1>0, <1>6, <1>8
<1>10. k - 1 + 1 = k /\ k + 1 - 1 = k /\ k + 1 \in 1 .. m + 1
  BY <1>8
<1>11. t[k + 1] = (t[k] + c[k + 1]) % 65536 /\ s[k] = (s[k - 1] + bytes[k]) % 65536
  BY <1>2, <1>3, <1>8, <1>10
<1>12. t[k + 1] = s[k]
  BY <1>1, <1>8, <1>9, <1>10, <1>11
<1> QED
  BY <1>6, <1>12

-----------------------------------------------------------------------------
(* Sequences of n bytes, and how they are put together. *)

IsBytes(x, n) == n \in Nat /\ x \in Seq(Byte) /\ Len(x) = n

LEMMA Joined ==
  \A x, y, m, n : IsBytes(x, m) /\ IsBytes(y, n) => IsBytes(x \o y, m + n)
<1> SUFFICES ASSUME NEW x, NEW y, NEW m, NEW n, IsBytes(x, m), IsBytes(y, n)
             PROVE  IsBytes(x \o y, m + n)
  OBVIOUS
<1>1. m \in Nat /\ n \in Nat /\ x \in Seq(Byte) /\ y \in Seq(Byte) /\ Len(x) = m /\ Len(y) = n
  BY DEF IsBytes
<1>2. x \o y \in Seq(Byte) /\ Len(x \o y) = Len(x) + Len(y)
  BY <1>1, CatBytes
<1>3. m + n \in Nat
  BY <1>1
<1> QED
  BY <1>1, <1>2, <1>3 DEF IsBytes

\* z consists of the m bytes of x and the n bytes of y.
Parts(z, x, m, y, n) ==
  /\ IsBytes(z, m + n)
  /\ \A i \in 1 .. m : z[i] = x[i]
  /\ \A i \in 1 .. n : z[m + i] = y[i]

\* Where the bytes of two sequences are in their concatenation.
LEMMA JoinedBytes ==
  \A x, y, m, n : IsBytes(x, m) /\ IsBytes(y, n) => Parts(x \o y, x, m, y, n)
<1> SUFFICES ASSUME NEW x, NEW y, NEW m, NEW n, IsBytes(x, m), IsBytes(y, n)
             PROVE  Parts(x \o y, x, m, y, n)
  OBVIOUS
<1>1. m \in Nat /\ n \in Nat /\ x \in Seq(Byte) /\ y \in Seq(Byte) /\ Len(x) = m /\ Len(y) = n
  BY DEF IsBytes
<1>2. /\ \A i \in 1 .. Len(x) : (x \o y)[i] = x[i]
      /\ \A i \in 1 .. Len(y) : (x \o y)[Len(x) + i] = y[i]
  BY <1>1, CatBytes
<1>3. IsBytes(x \o y, m + n)
  BY Joined
<1> QED
  BY <1>1, <1>2, <1>3 DEF Parts

\* A list of bytes in brackets.
LEMMA ByteLists ==
  /\ \A a \in Byte : IsBytes(<<a>>, 1)
  /\ \A a, b \in Byte : IsBytes(<<a, b>>, 2)
  /\ \A a, b, c \in Byte : IsBytes(<<a, b, c>>, 3)
  /\ IsBytes(<<>>, 0)
  BY DEF IsBytes

LEMMA NumberBytes ==
  /\ \A w \in Word : IsBytes(IntBytes(w), 2)
  /\ \A l \in Long : IsBytes(LongBytes(l), 4)
  BY IntBytesType, LongBytesType DEF IsBytes

\* All identifiers of RDM are words or bytes.
LEMMA RDMConstants ==
  /\ \A p \in DOMAIN PID : PID[p] \in Word
  /\ \A c \in DOMAIN COMMAND_CLASS : COMMAND_CLASS[c] \in Byte
  /\ \A c \in DOMAIN RDM_STATUS : RDM_STATUS[c] \in Byte
  /\ \A t \in DOMAIN RDM_RESPONSE : RDM_RESPONSE[t] \in Byte
  /\ DOMAIN PID_DEFINITIONS \subseteq DOMAIN PID
  /\ START_CODE \in Byte /\ SUB_START_CODE \in Byte
  BY DEF PID, COMMAND_CLASS, RDM_STATUS, RDM_RESPONSE, PID_DEFINITIONS, START_CODE,
     SUB_START_CODE, SET_SERIAL_PID, Word, Byte

-----------------------------------------------------------------------------
(* The bytes of a request that a reply repeats. *)

\* m bytes that hold the UID of the controller behind the first k.
HoldsController(z, m, k) ==
  /\ IsBytes(z, m) /\ k \in Nat /\ m >= k + 6
  /\ \A i \in 1 .. 6 : z[k + i] = Controller[i]

LEMMA ControllerStays ==
  \A x, y, m, n, k : HoldsController(x, m, k) /\ IsBytes(y, n)
                       => HoldsController(x \o y, m + n, k)
<1> SUFFICES ASSUME NEW x, NEW y, NEW m, NEW n, NEW k, HoldsController(x, m, k),
                    IsBytes(y, n)
             PROVE  HoldsController(x \o y, m + n, k)
  OBVIOUS
<1>1. PICK z : z = x \o y
  OBVIOUS
<1>2. m \in Nat /\ n \in Nat /\ k \in Nat /\ m >= k + 6 /\ m + n >= k + 6
  BY DEF HoldsController, IsBytes
<1>3. IsBytes(z, m + n) /\ \A i \in 1 .. m : z[i] = x[i]
  <2>1. Parts(z, x, m, y, n)
    BY <1>1, JoinedBytes DEF HoldsController
  <2> QED
    BY <2>1 DEF Parts
<1>4. ASSUME NEW i \in 1 .. 6 PROVE z[k + i] = Controller[i]
  <2>1. k + i \in 1 .. m
    BY <1>2
  <2> QED
    BY <1>3, <2>1 DEF HoldsController
<1> QED
  BY <1>1, <1>2, <1>3, <1>4 DEF HoldsController

\* A request names its sender in the bytes 10 to 15.
LEMMA RequestMessageBytes ==
  ASSUME NEW r \in Requests
  PROVE  \E m \in Nat : m >= 26 /\ HoldsController(RequestMessage(r), m, 9)
<1> DEFINE p0 == <<START_CODE, SUB_START_CODE, (24 + r.pdl) % 256>>
           p1 == p0 \o IntBytes(r.esta)
           p2 == p1 \o LongBytes(r.serial)
           p3 == p2 \o Controller
           p4 == p3 \o <<7, 1, 0>>
           p5 == p4 \o IntBytes(r.sub)
           p6 == p5 \o <<COMMAND_CLASS[r.class]>>
           p7 == p6 \o IntBytes(PID[r.pid])
           p8 == p7 \o <<r.pdl>>
           data == SubSeq(r.data, 1, r.pdl)
           body == p8 \o data
<1>1. /\ r.esta \in Word /\ r.serial \in Long /\ r.sub \in Word
      /\ r.class \in DOMAIN COMMAND_CLASS /\ r.pid \in DOMAIN PID /\ r.pdl \in Byte
      /\ IsBytes(Controller, 6)
  BY WireAssumption, RequestAssumption DEF COMMAND_CLASS, IsBytes
<1>2. IsBytes(p0, 3)
  <2>1. (24 + r.pdl) % 256 \in Byte
    BY <1>1 DEF Byte
  <2> QED
    BY <2>1, RDMConstants, ByteLists
<1> HIDE DEF p0
<1>3. IsBytes(p1, 3 + 2)
  BY <1>1, <1>2, NumberBytes, Joined
<1> HIDE DEF p1
<1>4. IsBytes(p2, 3 + 2 + 4)
  BY <1>1, <1>3, NumberBytes, Joined
<1> HIDE DEF p2
<1>5. HoldsController(p3, 15, 9)
  <2>1. PICK m : m = 9
    OBVIOUS
  <2>2. IsBytes(p2, m)
    BY <1>4, <2>1
  <2>3. PICK z : z = p3
    OBVIOUS
  <2>4. Parts(z, p2, m, Controller, 6)
    BY <1>1, <2>2, <2>3, JoinedBytes
  <2>5. IsBytes(z, 9 + 6) /\ \A i \in 1 .. 6 : z[9 + i] = Controller[i]
    BY <2>1, <2>4 DEF Parts
  <2>6. 9 + 6 = 15 /\ 9 \in Nat
    OBVIOUS
  <2> HIDE DEF p3
  <2> QED
    BY <2>3, <2>5, <2>6 DEF HoldsController
<1> HIDE DEF p3
<1>6. HoldsController(p4, 15 + 3, 9)
  <2>1. IsBytes(<<7, 1, 0>>, 3)
    BY ByteLists DEF Byte
  <2> QED
    BY <1>5, <2>1, ControllerStays
<1> HIDE DEF p4
<1>7. HoldsController(p5, 15 + 3 + 2, 9)
  BY <1>1, <1>6, NumberBytes, ControllerStays
<1> HIDE DEF p5
<1>8. HoldsController(p6, 15 + 3 + 2 + 1, 9)
  <2>1. IsBytes(<<COMMAND_CLASS[r.class]>>, 1)
    BY <1>1, RDMConstants, ByteLists
  <2> QED
    BY <1>7, <2>1, ControllerStays
<1> HIDE DEF p6
<1>9. HoldsController(p7, 15 + 3 + 2 + 1 + 2, 9)
  <2>1. IsBytes(IntBytes(PID[r.pid]), 2)
    BY <1>1, RDMConstants, NumberBytes
  <2> QED
    BY <1>8, <2>1, ControllerStays
<1> HIDE DEF p7
<1>10. HoldsController(p8, 15 + 3 + 2 + 1 + 2 + 1, 9)
  <2>1. IsBytes(<<r.pdl>>, 1)
    BY <1>1, ByteLists
  <2> QED
    BY <1>9, <2>1, ControllerStays
<1> HIDE DEF p8
<1>11. PICK n \in Nat : IsBytes(data, n)
  BY RequestBytes DEF IsBytes
<1> HIDE DEF data
<1>12. HoldsController(body, 15 + 3 + 2 + 1 + 2 + 1 + n, 9)
  BY <1>10, <1>11, ControllerStays
<1>13. RequestMessage(r) = body \o IntBytes(Checksum(body))
  BY DEF RequestMessage, body, data, p0, p1, p2, p3, p4, p5, p6, p7, p8
<1> HIDE DEF body
<1>14. IsBytes(IntBytes(Checksum(body)), 2)
  BY <1>12, ChecksumType, NumberBytes DEF IsBytes, HoldsController
<1>15. HoldsController(RequestMessage(r), 15 + 3 + 2 + 1 + 2 + 1 + n + 2, 9)
  BY <1>12, <1>13, <1>14, ControllerStays
<1>16. 15 + 3 + 2 + 1 + 2 + 1 + n + 2 \in Nat /\ 15 + 3 + 2 + 1 + 2 + 1 + n + 2 >= 26
  BY <1>11
<1> QED
  BY <1>15, <1>16

-----------------------------------------------------------------------------
(* The parameter data are as long as the handlers announce. *)

LEMMA ArrayBytes ==
  ASSUME NEW n \in Nat, NEW t \in [1 .. n -> Byte]
  PROVE  IsBytes(t, n)
<1>1. t \in Seq(Byte) /\ DOMAIN t = 1 .. n
  OBVIOUS
<1>2. Len(t) = n
  BY <1>1
<1> QED
  BY <1>1, <1>2 DEF IsBytes

LEMMA TextBytes ==
  ASSUME NEW n \in Nat
  PROVE  IsBytes(Text(n), n)
<1>1. Text(n) \in [1 .. n -> Byte]
  BY DEF Text, Byte
<1> QED
  BY <1>1, ArrayBytes

\* A text with its NUL.
LEMMA TerminatedBytes ==
  ASSUME NEW n \in Nat
  PROVE  IsBytes(Append(Text(n), NUL), n + 1)
<1> DEFINE t == Text(n)
<1>1. t \in Seq(Byte) /\ Len(t) = n /\ NUL \in Byte
  BY TextBytes DEF IsBytes, NUL, Byte
<1> HIDE DEF t
<1>2. Append(t, NUL) \in Seq(Byte) /\ Len(Append(t, NUL)) = n + 1
  BY <1>1
<1> QED
  BY <1>2 DEF IsBytes, t

LEMMA Texts ==
  /\ IsBytes(DEVICE_NAME, 18) /\ IsBytes(MANUFACTURER_NAME, 14)
  /\ IsBytes(SOFTWARE_VERSION_STRING, 4) /\ IsBytes(SET_SERIAL_PID_DESCRIPTION, 17)
  /\ IsBytes(TEMPERATURE_SENSOR_DESCRIPTION, 16) /\ IsBytes(LANGUAGE_EN, 2)
  /\ \A p \in 1 .. PERSONALITIES :
       \E n \in 6 .. 23 : IsBytes(rdm_personalities[p].description, n)
<1>1. IsBytes(DEVICE_NAME, 17 + 1) /\ IsBytes(MANUFACTURER_NAME, 13 + 1)
      /\ IsBytes(SOFTWARE_VERSION_STRING, 3 + 1)
  BY TerminatedBytes DEF DEVICE_NAME, MANUFACTURER_NAME, SOFTWARE_VERSION_STRING
<1>2. IsBytes(SET_SERIAL_PID_DESCRIPTION, 17) /\ IsBytes(TEMPERATURE_SENSOR_DESCRIPTION, 16)
  BY TextBytes DEF SET_SERIAL_PID_DESCRIPTION, TEMPERATURE_SENSOR_DESCRIPTION
<1>3. IsBytes(LANGUAGE_EN, 2)
  BY ByteLists DEF LANGUAGE_EN, Byte
<1>4. ASSUME NEW p \in 1 .. PERSONALITIES
      PROVE  \E n \in 6 .. 23 : IsBytes(rdm_personalities[p].description, n)
  <2>1. p \in {1, 2, 3}
    BY DEF PERSONALITIES
  <2>2. /\ rdm_personalities[1].description = Text(6)
        /\ rdm_personalities[2].description = Text(23)
        /\ rdm_personalities[3].description = Text(15)
    BY DEF rdm_personalities
  <2>3. /\ IsBytes(Text(6), 6) /\ IsBytes(Text(23), 23) /\ IsBytes(Text(15), 15)
        /\ 6 \in 6 .. 23 /\ 23 \in 6 .. 23 /\ 15 \in 6 .. 23
    BY TextBytes
  <2> QED
    BY <2>1, <2>2, <2>3
<1> QED
  BY <1>1, <1>2, <1>3, <1>4

\* Two bytes for each supported parameter.
LEMMA SupportedParamsBytes == IsBytes(PidBytes(SupportedParams), 28)
<1> DEFINE b == PidBytes(SupportedParams)
<1>1. Len(SupportedParams) = 14 /\ \A k \in 1 .. 14 : SupportedParams[k] \in DOMAIN PID
  BY DEF SupportedParams, PID
<1>2. b = [i \in 1 .. 28 |-> IntBytes(PID[SupportedParams[(i + 1) \div 2]])[2 - (i % 2)]]
  BY <1>1 DEF PidBytes
<1>3. ASSUME NEW i \in 1 .. 28
      PROVE  IntBytes(PID[SupportedParams[(i + 1) \div 2]])[2 - (i % 2)] \in Byte
  <2>1. (i + 1) \div 2 \in 1 .. 14 /\ 2 - (i % 2) \in 1 .. 2
    OBVIOUS
  <2> DEFINE x == IntBytes(PID[SupportedParams[(i + 1) \div 2]])
  <2>2. PID[SupportedParams[(i + 1) \div 2]] \in Word
    BY <1>1, <2>1, RDMConstants
  <2>3. x \in Seq(Byte) /\ Len(x) = 2
    BY <2>2, IntBytesType
  <2> HIDE DEF x
  <2>4. \A k \in 1 .. 2 : x[k] \in Byte
    BY <2>3
  <2> QED
    BY <2>1, <2>4 DEF x
<1> HIDE DEF b
<1>4. b \in [1 .. 28 -> Byte]
  BY <1>2, <1>3
<1> QED
  BY <1>4, ArrayBytes DEF b

\* The state a GET handler reports.
IsData(p, data) ==
  CASE p = "DEVICE_INFO" -> IsBytes(data, 3)
    [] p = "DEVICE_LABEL" -> \E n \in 0 .. MAX_LABEL_LENGTH : IsBytes(data, n)
    [] p \in {"DMX_PERSONALITY", "IDENTIFY_DEVICE"} -> IsBytes(data, 1)
    [] p \in {"DMX_START_ADDRESS", "SENSOR_VALUE"} -> IsBytes(data, 2)
    [] p = "DEVICE_POWER_CYCLES" -> IsBytes(data, 4)
    [] OTHER -> data = <<>>

\* The slots sent are a byte, in the table and beyond it.
LEMMA SlotsType == ASSUME NEW p \in Byte PROVE PersonalitySlots(p) \in Word
<1>1. ASSUME p \in 1 .. PERSONALITIES PROVE rdm_personalities[p].slots = 6
  <2>1. p \in {1, 2, 3}
    BY <1>1 DEF PERSONALITIES
  <2> QED
    BY <2>1 DEF rdm_personalities
<1>2. 6 \in Word /\ BeyondTable[p] \in Word
  <2>1. p \in 0 .. 255
    BY DEF Byte
  <2>2. BeyondTable[p] \in 0 .. 255
    BY <2>1, WireAssumption
  <2> QED
    BY <2>2 DEF Word
<1> QED
  BY <1>1, <1>2 DEF PersonalitySlots

\* The sensor, whose number is the first byte of the request.
LEMMA SensorData ==
  ASSUME NEW r \in Requests, NEW data, IsBytes(data, 2)
  PROVE  IsBytes(SensorBytes(r, data), 9)
<1> DEFINE v == CHOOSE x \in AnalogReadings : TRUE
           t == ReadTemperatureSensor(v)
           s0 == <<r.data[1]>> \o IntBytes(t)
           s1 == s0 \o IntBytes(0)
           s2 == s1 \o IntBytes(0)
<1>1. t \in Word /\ 0 \in Word
  <2>1. v \in AnalogReadings
    BY WireAssumption
  <2> HIDE DEF v
  <2> QED
    BY <2>1, TemperatureType DEF Word
<1> HIDE DEF t
<1>2. IsBytes(<<r.data[1]>>, 1)
  BY RequestBytes, ByteLists
<1>3. IsBytes(s0, 1 + 2)
  BY <1>1, <1>2, NumberBytes, Joined
<1> HIDE DEF s0
<1>4. IsBytes(s1, 1 + 2 + 2)
  BY <1>1, <1>3, NumberBytes, Joined
<1> HIDE DEF s1
<1>5. IsBytes(s2, 1 + 2 + 2 + 2)
  BY <1>1, <1>4, NumberBytes, Joined
<1> HIDE DEF s2
<1>6. IsBytes(s2 \o data, 1 + 2 + 2 + 2 + 2)
  BY <1>5, Joined
<1>7. SensorBytes(r, data) = s2 \o data
  BY DEF SensorBytes, s0, s1, s2, t
<1> QED
  BY <1>6, <1>7

\* A byte of a sequence of bytes.
LEMMA ByteAt ==
  ASSUME NEW x, NEW n, IsBytes(x, n), NEW i \in 1 .. n
  PROVE  x[i] \in Byte
  BY DEF IsBytes

\* IsBytes with the size the handler announces.
AnnouncedGet(r, data) ==
  /\ IsBytes(GetData(r, data), GetSize(r, data))
  /\ GetSize(r, data) + MINIMUM_RDM_PACKET_SIZE - 2 \in Byte

\* The size of a reply that fits.
LEMMA SmallSizes == \A n \in 0 .. 64 : n + MINIMUM_RDM_PACKET_SIZE - 2 \in Byte
  BY DEF MINIMUM_RDM_PACKET_SIZE, Byte

\* The numbers in the parameter data that do not depend on the state.
LEMMA NumbersSent ==
  /\ \A w \in {0, 1, 2, 100, 256, 400, 1027, 1288, 1500, SET_SERIAL_PID} :
       IsBytes(IntBytes(w), 2)
  /\ \A l \in {<<0, 0>>, <<0, 1>>, <<65535, 65534>>} : IsBytes(LongBytes(l), 4)
<1>1. \A w \in {0, 1, 2, 100, 256, 400, 1027, 1288, 1500, SET_SERIAL_PID} : w \in Word
  BY DEF SET_SERIAL_PID, Word
<1>2. 0 \in Word /\ 1 \in Word /\ 65535 \in Word /\ 65534 \in Word
  BY DEF Word
<1>3. \A l \in {<<0, 0>>, <<0, 1>>, <<65535, 65534>>} : l \in Long
  BY <1>2 DEF Long
<1> QED
  BY <1>1, <1>3, NumberBytes

LEMMA SixBytes == \A a, b, c, d, e, f \in Byte : IsBytes(<<a, b, c, d, e, f>>, 6)
  BY DEF IsBytes

LEMMA KindBytes == IsBytes(<<4, 3, 2, 0, 0, 0>>, 6)
<1>1. 4 \in Byte /\ 3 \in Byte /\ 2 \in Byte /\ 0 \in Byte
  BY DEF Byte
<1> QED
  BY <1>1, SixBytes

\* The description of MANUFACTURER_SET_SERIAL.
LEMMA ParameterDescription ==
  ASSUME NEW r, r.pid = "PARAMETER_DESCRIPTION", NEW data
  PROVE  AnnouncedGet(r, data)
<1>1. PICK pid : pid = IntBytes(SET_SERIAL_PID) /\ IsBytes(pid, 2)
  BY NumbersSent
<1>2. PICK kind : kind = <<4, 3, 2, 0, 0, 0>> /\ IsBytes(kind, 6)
  BY KindBytes
<1>3. PICK least : least = LongBytes(<<0, 0>>) /\ IsBytes(least, 4)
  BY NumbersSent
<1>4. PICK most : most = LongBytes(<<65535, 65534>>) /\ IsBytes(most, 4)
  BY NumbersSent
<1>5. PICK default : default = LongBytes(<<0, 1>>) /\ IsBytes(default, 4)
  BY NumbersSent
<1> DEFINE d0 == pid \o kind
           d1 == d0 \o least
           d2 == d1 \o most
           d3 == d2 \o default
           d4 == d3 \o SET_SERIAL_PID_DESCRIPTION
<1>6. GetData(r, data) = d4
  BY <1>1, <1>2, <1>3, <1>4, <1>5, SMTT(30) DEF GetData
<1>7. IsBytes(d0, 2 + 6)
  BY <1>1, <1>2, Joined
<1> HIDE DEF d0
<1>8. IsBytes(d1, 2 + 6 + 4)
  BY <1>3, <1>7, Joined
<1> HIDE DEF d1
<1>9. IsBytes(d2, 2 + 6 + 4 + 4)
  BY <1>4, <1>8, Joined
<1> HIDE DEF d2
<1>10. IsBytes(d3, 2 + 6 + 4 + 4 + 4)
  BY <1>5, <1>9, Joined
<1> HIDE DEF d3
<1>11. IsBytes(d4, 2 + 6 + 4 + 4 + 4 + 17)
  BY <1>10, Texts, Joined
<1>12. GetSize(r, data) = 20 + 17
  BY Texts DEF GetSize, IsBytes
<1>13. 37 \in 0 .. 64
  OBVIOUS
<1> QED
  BY <1>6, <1>11, <1>12, <1>13, SmallSizes DEF AnnouncedGet

LEMMA DeviceInfo ==
  ASSUME NEW r, r.pid = "DEVICE_INFO", NEW data, IsBytes(data, 3)
  PROVE  AnnouncedGet(r, data)
<1>1. PICK rdm : rdm = IntBytes(256) /\ IsBytes(rdm, 2)
  BY NumbersSent
<1>2. PICK model : model = IntBytes(2) /\ IsBytes(model, 2)
  BY NumbersSent
<1>3. PICK category : category = IntBytes(1288) /\ IsBytes(category, 2)
  BY NumbersSent
<1>4. PICK version : version = LongBytes(<<0, 1>>) /\ IsBytes(version, 4)
  BY NumbersSent
<1>5. PICK slots : slots = IntBytes(PersonalitySlots(data[1])) /\ IsBytes(slots, 2)
  BY ByteAt, SlotsType, NumberBytes
<1>6. PICK settings : /\ settings = <<data[1], PERSONALITIES, data[2], data[3]>>
                      /\ IsBytes(settings, 4)
  <2>1. data[1] \in Byte /\ data[2] \in Byte /\ data[3] \in Byte
    BY ByteAt
  <2>2. PERSONALITIES \in Byte
    BY DEF PERSONALITIES, Byte
  <2>3. IsBytes(<<data[1], PERSONALITIES, data[2], data[3]>>, 4)
    BY <2>1, <2>2 DEF IsBytes
  <2> QED
    BY <2>3
<1>7. PICK subs : subs = IntBytes(0) /\ IsBytes(subs, 2)
  BY NumbersSent
<1>8. PICK sensors : sensors = <<1>> /\ IsBytes(sensors, 1)
  <2>1. 1 \in Byte
    BY DEF Byte
  <2> QED
    BY <2>1, ByteLists, Zenon
<1> DEFINE d0 == rdm \o model
           d1 == d0 \o category
           d2 == d1 \o version
           d3 == d2 \o slots
           d4 == d3 \o settings
           d5 == d4 \o subs
           d6 == d5 \o sensors
<1>9. GetData(r, data) = d6
  BY <1>1, <1>2, <1>3, <1>4, <1>5, <1>6, <1>7, <1>8 DEF GetData
<1>10. IsBytes(d0, 2 + 2)
  BY <1>1, <1>2, Joined
<1> HIDE DEF d0
<1>11. IsBytes(d1, 2 + 2 + 2)
  BY <1>3, <1>10, Joined
<1> HIDE DEF d1
<1>12. IsBytes(d2, 2 + 2 + 2 + 4)
  BY <1>4, <1>11, Joined
<1> HIDE DEF d2
<1>13. IsBytes(d3, 2 + 2 + 2 + 4 + 2)
  BY <1>5, <1>12, Joined
<1> HIDE DEF d3
<1>14. IsBytes(d4, 2 + 2 + 2 + 4 + 2 + 4)
  BY <1>6, <1>13, Joined
<1> HIDE DEF d4
<1>15. IsBytes(d5, 2 + 2 + 2 + 4 + 2 + 4 + 2)
  BY <1>7, <1>14, Joined
<1> HIDE DEF d5
<1>16. IsBytes(d6, 2 + 2 + 2 + 4 + 2 + 4 + 2 + 1)
  BY <1>8, <1>15, Joined
<1>17. GetSize(r, data) = 19 /\ 19 \in 0 .. 64
  BY DEF GetSize
<1> QED
  BY <1>9, <1>16, <1>17, SmallSizes DEF AnnouncedGet

LEMMA SensorDefinition ==
  ASSUME NEW r \in Requests, r.pid = "SENSOR_DEFINITION", NEW data
  PROVE  AnnouncedGet(r, data)
<1> DEFINE kind == <<r.data[1], 0, 1, 1>>
           d0 == kind \o IntBytes(0)
           d1 == d0 \o IntBytes(1500)
           d2 == d1 \o IntBytes(100)
           d3 == d2 \o IntBytes(400)
           d4 == d3 \o <<1>>
           d5 == d4 \o TEMPERATURE_SENSOR_DESCRIPTION
<1>0. IsBytes(IntBytes(1500), 2)
  BY NumbersSent
<1>1. IsBytes(IntBytes(0), 2) /\ IsBytes(IntBytes(100), 2) /\ IsBytes(IntBytes(400), 2)
  BY NumbersSent
<1>2. IsBytes(kind, 4) /\ IsBytes(<<1>>, 1)
  <2>1. r.data[1] \in Byte
    BY RequestBytes
  <2>2. 0 \in Byte /\ 1 \in Byte
    BY DEF Byte
  <2> QED
    BY <2>1, <2>2 DEF IsBytes
<1> HIDE DEF kind
<1>3. IsBytes(d0, 4 + 2)
  BY <1>1, <1>2, Joined
<1> HIDE DEF d0
<1>4. IsBytes(d1, 4 + 2 + 2)
  BY <1>0, <1>3, Joined
<1> HIDE DEF d1
<1>5. IsBytes(d2, 4 + 2 + 2 + 2)
  BY <1>1, <1>4, Joined
<1> HIDE DEF d2
<1>6. IsBytes(d3, 4 + 2 + 2 + 2 + 2)
  BY <1>1, <1>5, Joined
<1> HIDE DEF d3
<1>7. IsBytes(d4, 4 + 2 + 2 + 2 + 2 + 1)
  BY <1>2, <1>6, Joined
<1> HIDE DEF d4
<1>8. IsBytes(d5, 4 + 2 + 2 + 2 + 2 + 1 + 16)
  BY <1>7, Texts, Joined
<1>9. GetData(r, data) = d5
  BY DEF GetData, d0, d1, d2, d3, d4, kind
<1>10. GetSize(r, data) = 13 + 16 /\ 29 \in 0 .. 64
  BY Texts DEF GetSize, IsBytes
<1> QED
  BY <1>8, <1>9, <1>10, SmallSizes DEF AnnouncedGet

LEMMA PersonalityDescription ==
  ASSUME NEW r \in Requests, r.pid = "DMX_PERSONALITY_DESCRIPTION",
         r.data[1] \in 1 .. PERSONALITIES, NEW data
  PROVE  AnnouncedGet(r, data)
<1> DEFINE p == r.data[1]
           text == Description(p)
           d0 == <<p>> \o IntBytes(PersonalitySlots(p))
<1>1. PICK n \in 6 .. 23 : IsBytes(text, n)
  BY Texts DEF Description
<1>2. IsBytes(<<p>>, 1) /\ IsBytes(IntBytes(PersonalitySlots(p)), 2)
  BY RequestBytes, ByteLists, SlotsType, NumberBytes
<1>3. GetData(r, data) = d0 \o text
  BY DEF GetData
<1>4. GetSize(r, data) = 3 + Len(text)
  BY DEF GetSize
<1> HIDE DEF p, text
<1>5. IsBytes(d0, 1 + 2)
  BY <1>2, Joined
<1> HIDE DEF d0
<1>6. IsBytes(d0 \o text, 1 + 2 + n)
  BY <1>1, <1>5, Joined
<1>7. Len(text) = n
  BY <1>1 DEF IsBytes
<1>8. 3 + n \in 0 .. 64 /\ 1 + 2 + n = 3 + n
  BY <1>1
<1> QED
  BY <1>3, <1>4, <1>6, <1>7, <1>8, SmallSizes DEF AnnouncedGet

LEMMA AnnouncedIntro ==
  ASSUME NEW r, NEW data, NEW n \in 0 .. 64, NEW x, IsBytes(x, n),
         GetData(r, data) = x, GetSize(r, data) = n
  PROVE  AnnouncedGet(r, data)
  BY SmallSizes DEF AnnouncedGet

\* The texts and numbers that do not depend on the state.
LEMMA ConstantReplies ==
  ASSUME NEW r, NEW data,
         r.pid \in {"SUPPORTED_PARAMETERS", "PRODUCT_DETAIL_ID_LIST",
                   "DEVICE_MODEL_DESCRIPTION", "MANUFACTURER_LABEL", "LANGUAGE",
                   "LANGUAGE_CAPABILITIES", "SOFTWARE_VERSION_LABEL"}
  PROVE  AnnouncedGet(r, data)
<1>1. CASE r.pid = "SUPPORTED_PARAMETERS"
  <2>1. GetData(r, data) = PidBytes(SupportedParams)
    BY <1>1 DEF GetData
  <2>2. GetSize(r, data) = 28
    <3>1. Len(SupportedParams) = 14
      BY DEF SupportedParams
    <3>2. GetSize(r, data) = 2 * Len(SupportedParams)
      BY <1>1 DEF GetSize
    <3> QED
      BY <3>1, <3>2
  <2> QED
    BY <2>1, <2>2, SupportedParamsBytes, AnnouncedIntro
<1>2. CASE r.pid = "PRODUCT_DETAIL_ID_LIST"
  <2>1. GetData(r, data) = IntBytes(1027)
    BY <1>2 DEF GetData
  <2>2. GetSize(r, data) = 2
    BY <1>2 DEF GetSize
  <2>3. IsBytes(IntBytes(1027), 2)
    BY NumbersSent
  <2> QED
    BY <2>1, <2>2, <2>3, AnnouncedIntro
<1>3. CASE r.pid = "DEVICE_MODEL_DESCRIPTION"
  <2>1. GetData(r, data) = DEVICE_NAME /\ GetSize(r, data) = Len(DEVICE_NAME)
    BY <1>3 DEF GetData, GetSize
  <2>2. IsBytes(DEVICE_NAME, 18) /\ Len(DEVICE_NAME) = 18
    BY Texts DEF IsBytes
  <2> QED
    BY <2>1, <2>2, AnnouncedIntro
<1>4. CASE r.pid = "MANUFACTURER_LABEL"
  <2>1. GetData(r, data) = MANUFACTURER_NAME /\ GetSize(r, data) = Len(MANUFACTURER_NAME)
    BY <1>4 DEF GetData, GetSize
  <2>2. IsBytes(MANUFACTURER_NAME, 14) /\ Len(MANUFACTURER_NAME) = 14
    BY Texts DEF IsBytes
  <2> QED
    BY <2>1, <2>2, AnnouncedIntro
<1>5. CASE r.pid \in {"LANGUAGE", "LANGUAGE_CAPABILITIES"}
  <2>1. GetData(r, data) = LANGUAGE_EN /\ GetSize(r, data) = Len(LANGUAGE_EN)
    BY <1>5 DEF GetData, GetSize
  <2>2. IsBytes(LANGUAGE_EN, 2) /\ Len(LANGUAGE_EN) = 2
    BY Texts DEF IsBytes
  <2> QED
    BY <2>1, <2>2, AnnouncedIntro
<1>6. CASE r.pid = "SOFTWARE_VERSION_LABEL"
  <2>1. /\ GetData(r, data) = SOFTWARE_VERSION_STRING
        /\ GetSize(r, data) = Len(SOFTWARE_VERSION_STRING)
    BY <1>6 DEF GetData, GetSize
  <2>2. IsBytes(SOFTWARE_VERSION_STRING, 4) /\ Len(SOFTWARE_VERSION_STRING) = 4
    BY Texts DEF IsBytes
  <2> QED
    BY <2>1, <2>2, AnnouncedIntro
<1> QED
  BY <1>1, <1>2, <1>3, <1>4, <1>5, <1>6

\* The settings, as the GET handlers report them.
LEMMA SettingReplies ==
  ASSUME NEW r \in Requests, NEW data, IsData(r.pid, data),
         r.pid \in {"DEVICE_LABEL", "DMX_PERSONALITY", "DMX_START_ADDRESS", "SENSOR_VALUE",
                   "DEVICE_POWER_CYCLES", "IDENTIFY_DEVICE"}
  PROVE  AnnouncedGet(r, data)
<1>1. CASE r.pid = "DEVICE_LABEL"
  <2>1. PICK n \in 0 .. MAX_LABEL_LENGTH : IsBytes(data, n)
    BY <1>1 DEF IsData
  <2>2. GetData(r, data) = data /\ GetSize(r, data) = Len(data) /\ Len(data) = n
    BY <1>1, <2>1 DEF GetData, GetSize, IsBytes
  <2>3. n + MINIMUM_RDM_PACKET_SIZE - 2 \in Byte
    <3>1. MAX_LABEL_LENGTH + MINIMUM_RDM_PACKET_SIZE - 2 \in Byte /\ MAX_LABEL_LENGTH \in Nat
      BY WireAssumption, LabelLength
    <3> QED
      BY <3>1 DEF Byte, MINIMUM_RDM_PACKET_SIZE
  <2> QED
    BY <2>1, <2>2, <2>3 DEF AnnouncedGet
<1>2. CASE r.pid = "DMX_PERSONALITY"
  <2>1. GetData(r, data) = Append(data, PERSONALITIES) /\ GetSize(r, data) = 2
    BY <1>2 DEF GetData, GetSize
  <2>2. data \in Seq(Byte) /\ Len(data) = 1
    BY <1>2 DEF IsData, IsBytes
  <2>3. PERSONALITIES \in Byte
    BY DEF PERSONALITIES, Byte
  <2> DEFINE x == Append(data, PERSONALITIES)
  <2>4. x \in Seq(Byte) /\ Len(x) = Len(data) + 1
    BY <2>2, <2>3, AppendProperties, ZenonT(30)
  <2>5. GetData(r, data) = x
    BY <2>1
  <2> HIDE DEF x
  <2>6. IsBytes(x, 2)
    BY <2>2, <2>4 DEF IsBytes
  <2> QED
    BY <2>1, <2>5, <2>6, AnnouncedIntro
<1>3. CASE r.pid = "DMX_START_ADDRESS"
  <2>1. GetData(r, data) = data /\ GetSize(r, data) = 2 /\ IsBytes(data, 2)
    BY <1>3 DEF GetData, GetSize, IsData
  <2> QED
    BY <2>1, AnnouncedIntro
<1>4. CASE r.pid = "SENSOR_VALUE"
  <2>1. GetData(r, data) = SensorBytes(r, data) /\ GetSize(r, data) = 9 /\ IsBytes(data, 2)
    BY <1>4 DEF GetData, GetSize, IsData
  <2> QED
    BY <2>1, SensorData, AnnouncedIntro
<1>5. CASE r.pid = "DEVICE_POWER_CYCLES"
  <2>1. GetData(r, data) = data /\ GetSize(r, data) = 4 /\ IsBytes(data, 4)
    BY <1>5 DEF GetData, GetSize, IsData
  <2> QED
    BY <2>1, AnnouncedIntro
<1>6. CASE r.pid = "IDENTIFY_DEVICE"
  <2>1. GetData(r, data) = data /\ GetSize(r, data) = 1 /\ IsBytes(data, 1)
    BY <1>6 DEF GetData, GetSize, IsData
  <2> QED
    BY <2>1, AnnouncedIntro
<1> QED
  BY <1>1, <1>2, <1>3, <1>4, <1>5, <1>6

\* Every GET handler sends as many bytes as it announced.
LEMMA GetBytes ==
  ASSUME NEW r \in Requests, NEW data, IsData(r.pid, data),
         Gettable(r), ~BadGetValue(r), r.pid # "QUEUED_MESSAGE"
  PROVE  AnnouncedGet(r, data)
<1>1. r.pid = "DMX_PERSONALITY_DESCRIPTION" => r.data[1] \in 1 .. PERSONALITIES
  BY DEF BadGetValue
<1>2. r.pid = "DEVICE_INFO" => IsBytes(data, 3)
  BY DEF IsData
<1>3. \/ r.pid \in {"SUPPORTED_PARAMETERS", "PRODUCT_DETAIL_ID_LIST",
                   "DEVICE_MODEL_DESCRIPTION", "MANUFACTURER_LABEL", "LANGUAGE",
                   "LANGUAGE_CAPABILITIES", "SOFTWARE_VERSION_LABEL"}
      \/ r.pid \in {"DEVICE_LABEL", "DMX_PERSONALITY", "DMX_START_ADDRESS", "SENSOR_VALUE",
                   "DEVICE_POWER_CYCLES", "IDENTIFY_DEVICE"}
      \/ r.pid \in {"PARAMETER_DESCRIPTION", "DEVICE_INFO", "SENSOR_DEFINITION",
                   "DMX_PERSONALITY_DESCRIPTION"}
  BY DEF Gettable, Known, PID_DEFINITIONS, Pid
<1> QED
  BY <1>1, <1>2, <1>3, ConstantReplies, SettingReplies, ParameterDescription, DeviceInfo,
     SensorDefinition, PersonalityDescription

-----------------------------------------------------------------------------
(* What the settings contribute to a reply. *)

LEMMA FieldIsBytes ==
  ASSUME TypeOK, NEW f \in Field
  PROVE  IsBytes(FieldBytes(f), Width[f])
  BY FieldBytesSeq, Layout DEF TypeOK, IsBytes

\* The label that is read has at most as many bytes as a label may have.
LEMMA DeviceLabelBytes ==
  ASSUME TypeOK
  PROVE  \E n \in 0 .. MAX_LABEL_LENGTH : IsBytes(DeviceLabel, n)
<1> DEFINE text == FieldBytes("label")
           size == FieldBytes("label_size")
<1>1. text \in Seq(Byte) /\ Len(text) = MAX_LABEL_LENGTH
  <2>1. "label" \in Field /\ Width["label"] = MAX_LABEL_LENGTH
    BY DEF Field, Width
  <2> QED
    BY <2>1, FieldIsBytes DEF IsBytes
<1>2. IntOf(size) \in Nat
  <2>1. "label_size" \in Field /\ Width["label_size"] = 2
    BY DEF Field, Width
  <2>2. size[1] \in Byte /\ size[2] \in Byte
    BY <2>1, FieldBytesType DEF TypeOK
  <2> QED
    BY <2>2 DEF IntOf, Byte
<1>3. PICK m : m = AtMost(IntOf(size), MAX_LABEL_LENGTH)
  OBVIOUS
<1>4. m \in 0 .. MAX_LABEL_LENGTH
  BY <1>2, <1>3, LabelLength DEF AtMost
<1>5. PICK n \in 0 .. m : LabelEnd(text, m, n)
  BY <1>4, LabelEndExists
<1>6. DeviceLabel = SubSeq(text, 1, n)
  BY <1>3, <1>4, <1>5, LabelOfIs DEF DeviceLabel
<1>7. n \in 0 .. MAX_LABEL_LENGTH /\ n <= Len(text) /\ n \in Nat
  BY <1>1, <1>4, LabelLength
<1>8. SubSeq(text, 1, n) \in Seq(Byte) /\ Len(SubSeq(text, 1, n)) = n
  BY <1>1, <1>7
<1> QED
  BY <1>6, <1>7, <1>8 DEF IsBytes

\* The state the GET handlers report is as long as the replies expect.
LEMMA DataType ==
  ASSUME TypeOK, m_identify_mode_enabled \in {0, 1}, NEW p
  PROVE  IsData(p, Data(p))
<1>1. IsBytes(<<m_personality>>, 1) /\ IsBytes(<<m_identify_mode_enabled>>, 1)
      /\ IsBytes(IntBytes(m_start_address), 2)
  <2>1. m_personality \in Byte /\ m_start_address \in Word
    BY DEF TypeOK
  <2>2. m_identify_mode_enabled \in Byte
    BY DEF Byte
  <2> QED
    BY <2>1, <2>2, ByteLists, NumberBytes
<1>2. IsBytes(FieldBytes("sensor"), 2) /\ IsBytes(FieldBytes("power_cycles"), 4)
  <2>1. /\ "sensor" \in Field /\ Width["sensor"] = 2
        /\ "power_cycles" \in Field /\ Width["power_cycles"] = 4
    BY DEF Field, Width
  <2> QED
    BY <2>1, FieldIsBytes
<1>3. IsBytes(<<m_personality>> \o IntBytes(m_start_address), 1 + 2)
  BY <1>1, Joined
<1>4. CASE p = "DEVICE_INFO"
  BY <1>3, <1>4 DEF IsData, Data
<1>5. CASE p = "DEVICE_LABEL"
  BY <1>5, DeviceLabelBytes DEF IsData, Data
<1>6. CASE p \in {"DMX_PERSONALITY", "IDENTIFY_DEVICE"}
  BY <1>1, <1>6 DEF IsData, Data
<1>7. CASE p \in {"DMX_START_ADDRESS", "SENSOR_VALUE"}
  BY <1>1, <1>2, <1>7 DEF IsData, Data
<1>8. CASE p = "DEVICE_POWER_CYCLES"
  BY <1>2, <1>8 DEF IsData, Data
<1>9. CASE p \notin {"DEVICE_INFO", "DEVICE_LABEL", "DMX_PERSONALITY", "IDENTIFY_DEVICE",
                     "DMX_START_ADDRESS", "SENSOR_VALUE", "DEVICE_POWER_CYCLES"}
  BY <1>9 DEF IsData, Data
<1> QED
  BY <1>4, <1>5, <1>6, <1>7, <1>8, <1>9

-----------------------------------------------------------------------------
(* Well-formed replies.  Whether a reply is one does not depend on the state *)
(* it is looked at in, but for the manufacturer's id.                        *)

GoodRDM(r, x) ==
  /\ x.kind = "rdm"
  /\ x.type \in DOMAIN RDM_RESPONSE
  /\ x.class \in {"GET_RESPONSE", "SET_RESPONSE"}
  /\ x.pid \in DOMAIN PID
  /\ x.source \in Long
  /\ x.count \in Byte
  /\ IsBytes(ParamData(r, x), ParamSize(r, x))
  /\ ParamSize(r, x) + MINIMUM_RDM_PACKET_SIZE - 2 \in Byte

GoodReply(r, x) ==
  \/ \E c \in DOMAIN RDM_STATUS : x = Status(c)
  \/ GoodRDM(r, x)

RepliesInv ==
  replies # <<>> => /\ request \in Requests
                    /\ \A k \in 1 .. Len(replies) : GoodReply(request, replies[k])

LEMMA SerialType ==
  ASSUME TypeOK
  PROVE  SerialNumber \in Long
<1> DEFINE d == FieldBytes("serial_number")
<1>1. "serial_number" \in Field /\ Width["serial_number"] = 4
  BY DEF Field, Width
<1>2. d[1] \in Byte /\ d[2] \in Byte /\ d[3] \in Byte /\ d[4] \in Byte
  BY <1>1, FieldBytesType DEF TypeOK
<1> HIDE DEF d
<1>3. d[1] * 256 + d[2] \in Word /\ d[3] * 256 + d[4] \in Word
  BY <1>2, IntOfType
<1> QED
  BY <1>3 DEF SerialNumber, LongOf, IntOf, Long, d

\* The header of a custom response.
LEMMA ResponseHeader ==
  ASSUME RDMTypeInv, NEW r \in Requests, NEW type \in DOMAIN RDM_RESPONSE, NEW data, NEW x,
         x = RDMResponse(r, type, data)
  PROVE  /\ x.kind = "rdm" /\ x.type = type /\ x.data = data
         /\ x.class = (IF r.class = "GET" THEN "GET_RESPONSE" ELSE "SET_RESPONSE")
         /\ x.pid = r.pid /\ x.pid \in DOMAIN PID
         /\ x.source \in Long /\ x.count \in Byte
<1>1. SerialNumber \in Long
  BY SerialType DEF RDMTypeInv, RDMTypeOK
<1>2. m_message_count \in Byte
  BY RangeAssumption DEF RDMTypeInv, RDMTypeOK, Byte
<1>3. r.pid \in DOMAIN PID
  BY WireAssumption
<1> QED
  BY <1>1, <1>2, <1>3 DEF RDMResponse, CustomResponse

LEMMA StatusIsGood ==
  ASSUME NEW r, NEW c \in DOMAIN RDM_STATUS
  PROVE  GoodReply(r, Status(c))
  BY DEF GoodReply

\* A NACK and an ACK_TIMER have two bytes of data.
LEMMA NackIsGood ==
  ASSUME RDMTypeInv, NEW r \in Requests, NEW reason \in DOMAIN NACK_REASON
  PROVE  GoodReply(r, Nack(r, reason))
<1>0. PICK x : x = Nack(r, reason)
  OBVIOUS
<1>1. "NACK" \in DOMAIN RDM_RESPONSE
  BY DEF RDM_RESPONSE
<1>2. /\ x.kind = "rdm" /\ x.type = "NACK" /\ x.data = <<NACK_REASON[reason]>>
      /\ x.class \in {"GET_RESPONSE", "SET_RESPONSE"}
      /\ x.pid \in DOMAIN PID /\ x.source \in Long /\ x.count \in Byte
  BY <1>0, <1>1, ResponseHeader DEF Nack
<1>3. NACK_REASON[reason] \in Word
  BY DEF NACK_REASON, Word
<1>4. ParamData(r, x) = IntBytes(NACK_REASON[reason]) /\ ParamSize(r, x) = 2
  BY <1>2 DEF ParamData, ParamSize, HasGetData, HasSensorData
<1>5. IsBytes(ParamData(r, x), ParamSize(r, x))
  BY <1>3, <1>4, NumberBytes
<1>6. ParamSize(r, x) + MINIMUM_RDM_PACKET_SIZE - 2 \in Byte
  BY <1>4, SmallSizes
<1>10. GoodReply(r, x)
  BY <1>1, <1>2, <1>5, <1>6 DEF GoodReply, GoodRDM
<1> QED
  BY <1>0, <1>10

LEMMA AckTimerIsGood ==
  ASSUME RDMTypeInv, NEW r \in Requests
  PROVE  GoodReply(r, AckTimer(r))
<1>0. PICK x : x = AckTimer(r)
  OBVIOUS
<1>1. "ACK_TIMER" \in DOMAIN RDM_RESPONSE
  BY DEF RDM_RESPONSE
<1>2. /\ x.kind = "rdm" /\ x.type = "ACK_TIMER"
      /\ x.class \in {"GET_RESPONSE", "SET_RESPONSE"}
      /\ x.pid \in DOMAIN PID /\ x.source \in Long /\ x.count \in Byte
  BY <1>0, <1>1, ResponseHeader DEF AckTimer
<1>3. 4 \in Word
  BY DEF Word
<1>4. ParamData(r, x) = IntBytes(4) /\ ParamSize(r, x) = 2
  BY <1>2 DEF ParamData, ParamSize, HasGetData, HasSensorData
<1>5. IsBytes(ParamData(r, x), ParamSize(r, x))
  BY <1>3, <1>4, NumberBytes
<1>6. ParamSize(r, x) + MINIMUM_RDM_PACKET_SIZE - 2 \in Byte
  BY <1>4, SmallSizes
<1>10. GoodReply(r, x)
  BY <1>1, <1>2, <1>5, <1>6 DEF GoodReply, GoodRDM
<1> QED
  BY <1>0, <1>10

\* A GET is answered with what GetBytes speaks of.
LEMMA GetAckIsGood ==
  ASSUME RDMTypeInv, NEW r \in Requests, Gettable(r), ~BadGetValue(r),
         r.pid # "QUEUED_MESSAGE"
  PROVE  GoodReply(r, Ack(r, Data(r.pid)))
<1>0. PICK x : x = Ack(r, Data(r.pid))
  OBVIOUS
<1>1. "ACK" \in DOMAIN RDM_RESPONSE
  BY DEF RDM_RESPONSE
<1>2. r.class = "GET"
  BY DEF Gettable
<1>3. /\ x.kind = "rdm" /\ x.type = "ACK" /\ x.data = Data(r.pid)
      /\ x.class = "GET_RESPONSE"
      /\ x.pid \in DOMAIN PID /\ x.source \in Long /\ x.count \in Byte
  BY <1>0, <1>1, <1>2, ResponseHeader DEF Ack
<1>4. ParamData(r, x) = GetData(r, Data(r.pid)) /\ ParamSize(r, x) = GetSize(r, Data(r.pid))
  BY <1>3 DEF ParamData, ParamSize, HasGetData, HasSensorData
<1>5. IsData(r.pid, Data(r.pid))
  BY DataType DEF RDMTypeInv, RDMTypeOK
<1>6. AnnouncedGet(r, Data(r.pid))
  BY <1>5, GetBytes
<1>10. GoodReply(r, x)
  BY <1>1, <1>3, <1>4, <1>6 DEF AnnouncedGet, GoodReply, GoodRDM
<1> QED
  BY <1>0, <1>10

\* An ACK of a SET is empty, but for that of a SET SENSOR_VALUE.
LEMMA SetAckIsGood ==
  ASSUME RDMTypeInv, NEW r \in Requests, Settable(r)
  PROVE  /\ r.pid # "SENSOR_VALUE" => GoodReply(r, AckOrBroadcast(r))
         /\ GoodReply(r, SensorResponse(r))
<1>1. "ACK" \in DOMAIN RDM_RESPONSE /\ r.class # "GET"
  BY DEF RDM_RESPONSE, Settable
<1>2. ASSUME NEW data, NEW x, x = Ack(r, data)
      PROVE  /\ x.kind = "rdm" /\ x.type = "ACK" /\ x.data = data
             /\ x.class = "SET_RESPONSE"
             /\ x.pid \in DOMAIN PID /\ x.source \in Long /\ x.count \in Byte
  BY <1>1, <1>2, ResponseHeader DEF Ack
<1>3. r.pid # "QUEUED_MESSAGE"
  BY DEF Settable, PID_DEFINITIONS, Pid
<1>4. ASSUME r.pid # "SENSOR_VALUE" PROVE GoodReply(r, AckOrBroadcast(r))
  <2>1. CASE IsBroadcast(r)
    <3>1. "BROADCAST" \in DOMAIN RDM_STATUS
      BY DEF RDM_STATUS
    <3> QED
      BY <2>1, <3>1, StatusIsGood DEF AckOrBroadcast
  <2>2. CASE ~IsBroadcast(r)
    <3>1. PICK x : x = Ack(r, <<>>)
      OBVIOUS
    <3>2. /\ x.kind = "rdm" /\ x.type = "ACK" /\ x.class = "SET_RESPONSE"
          /\ x.pid \in DOMAIN PID /\ x.source \in Long /\ x.count \in Byte
      BY <1>2, <3>1
    <3>3. ParamData(r, x) = <<>> /\ ParamSize(r, x) = 0
      BY <1>3, <1>4, <3>2 DEF ParamData, ParamSize, HasGetData, HasSensorData
    <3>4. IsBytes(ParamData(r, x), ParamSize(r, x))
      BY <3>3, ByteLists
    <3>5. ParamSize(r, x) + MINIMUM_RDM_PACKET_SIZE - 2 \in Byte
      BY <3>3, SmallSizes
    <3>6. GoodReply(r, x)
      BY <1>1, <3>2, <3>4, <3>5 DEF GoodReply, GoodRDM
    <3> QED
      BY <2>2, <3>1, <3>6 DEF AckOrBroadcast
  <2> QED
    BY <2>1, <2>2
<1>5. GoodReply(r, SensorResponse(r))
  <2>1. PICK x : x = Ack(r, FieldBytes("sensor"))
    OBVIOUS
  <2>2. /\ x.kind = "rdm" /\ x.type = "ACK" /\ x.class = "SET_RESPONSE"
        /\ x.data = FieldBytes("sensor")
        /\ x.pid \in DOMAIN PID /\ x.source \in Long /\ x.count \in Byte
    BY <1>2, <2>1
  <2>3. IsBytes(x.data, 2)
    <3>1. "sensor" \in Field /\ Width["sensor"] = 2
      BY DEF Field, Width
    <3> QED
      BY <2>2, <3>1, FieldIsBytes DEF RDMTypeInv, RDMTypeOK
  <2>4. CASE r.pid = "SENSOR_VALUE"
    <3>1. ParamData(r, x) = SensorBytes(r, x.data) /\ ParamSize(r, x) = 9
      BY <2>2, <2>4 DEF ParamData, ParamSize, HasGetData, HasSensorData
    <3>2. IsBytes(ParamData(r, x), ParamSize(r, x))
      BY <2>3, <3>1, SensorData
    <3>3. ParamSize(r, x) + MINIMUM_RDM_PACKET_SIZE - 2 \in Byte
      BY <3>1, SmallSizes
    <3> QED
      BY <1>1, <2>1, <2>2, <3>2, <3>3 DEF GoodReply, GoodRDM, SensorResponse
  <2>5. CASE r.pid # "SENSOR_VALUE"
    <3>1. ParamData(r, x) = <<>> /\ ParamSize(r, x) = 0
      BY <1>3, <2>2, <2>5 DEF ParamData, ParamSize, HasGetData, HasSensorData
    <3>2. IsBytes(ParamData(r, x), ParamSize(r, x))
      BY <3>1, ByteLists
    <3>3. ParamSize(r, x) + MINIMUM_RDM_PACKET_SIZE - 2 \in Byte
      BY <3>1, SmallSizes
    <3> QED
      BY <1>1, <2>1, <2>2, <3>2, <3>3 DEF GoodReply, GoodRDM, SensorResponse
  <2> QED
    BY <2>4, <2>5
<1> QED
  BY <1>4, <1>5

\* The response to GET QUEUED_MESSAGE is empty and may carry another PID.
LEMMA QueuedIsGood ==
  ASSUME RDMTypeInv, NEW r \in Requests, r.pid = "QUEUED_MESSAGE", NEW count \in Byte,
         NEW class \in {"GET_RESPONSE", "SET_RESPONSE"},
         NEW p \in {"DEVICE_LABEL", "STATUS_MESSAGES"}
  PROVE  GoodReply(r, [CustomResponse("ACK", class, p, <<>>) EXCEPT !.count = count])
<1>0. PICK x : x = [CustomResponse("ACK", class, p, <<>>) EXCEPT !.count = count]
  OBVIOUS
<1>1. /\ x.kind = "rdm" /\ x.type = "ACK" /\ x.class = class /\ x.pid = p
      /\ x.source = SerialNumber /\ x.count = count
  BY <1>0 DEF CustomResponse
<1>2. SerialNumber \in Long
  BY SerialType DEF RDMTypeInv, RDMTypeOK
<1>3. "ACK" \in DOMAIN RDM_RESPONSE /\ p \in DOMAIN PID
  BY DEF RDM_RESPONSE, PID
<1>4. ParamData(r, x) = <<>> /\ ParamSize(r, x) = 0
  BY <1>1 DEF ParamData, ParamSize, HasGetData, HasSensorData
<1>5. IsBytes(ParamData(r, x), ParamSize(r, x))
  BY <1>4, ByteLists
<1>6. ParamSize(r, x) + MINIMUM_RDM_PACKET_SIZE - 2 \in Byte
  BY <1>4, SmallSizes
<1>10. GoodReply(r, x)
  BY <1>1, <1>2, <1>3, <1>5, <1>6 DEF GoodReply, GoodRDM
<1> QED
  BY <1>0, <1>10

\* The checks announce status codes and NACK reasons that exist.
LEMMA CheckReplies ==
  ASSUME NEW r \in Requests, NEW k \in 1 .. 12, Checks(r)[k].fails
  PROVE  \/ Checks(r)[k].sends = "status" /\ Checks(r)[k].what \in DOMAIN RDM_STATUS
         \/ /\ Checks(r)[k].sends \in {"nack", "nack_or_broadcast"}
            /\ Checks(r)[k].what \in DOMAIN NACK_REASON
<1>1. k \in {1, 2, 3, 4, 5, 6, 7, 8, 9, 10, 11, 12}
  OBVIOUS
<1>2. CASE k = 1
  <2>1. r.frame \in {"ok", "FAILED", "FAILED_CHECKSUM"}
    BY WireAssumption
  <2>2. /\ Checks(r)[1].fails = (r.frame # "ok")
        /\ Checks(r)[1].sends = "status" /\ Checks(r)[1].what = r.frame
    BY DEF Checks, StatusIf
  <2> QED
    BY <1>2, <2>1, <2>2 DEF RDM_STATUS
<1>3. CASE k = 2
  <2>1. /\ Checks(r)[2].sends = "status"
        /\ Checks(r)[2].what \in {"BROADCAST", "INVALID_DESTINATION"}
    BY DEF Checks, StatusIf
  <2> QED
    BY <1>3, <2>1 DEF RDM_STATUS
<1>4. CASE k = 6
  <2>1. Checks(r)[6].sends = "status" /\ Checks(r)[6].what = "BROADCAST"
    BY DEF Checks, StatusIf
  <2> QED
    BY <1>4, <2>1 DEF RDM_STATUS
<1>5. CASE k \in {3, 4, 5}
  BY <1>5 DEF Checks, NackOrBroadcastIf, NACK_REASON
<1>6. CASE k = 10
  BY <1>6 DEF Checks, NackOrBroadcastIf, NACK_REASON
<1>7. CASE k = 12
  BY <1>7 DEF Checks, NackOrBroadcastIf, NACK_REASON
<1>8. CASE k \in {7, 8, 9, 11}
  BY <1>8 DEF Checks, NackIf, NACK_REASON
<1> QED
  BY <1>1, <1>2, <1>3, <1>4, <1>5, <1>6, <1>7, <1>8

LEMMA RefusalIsGood ==
  ASSUME RDMTypeInv, NEW r \in Requests, NEW reply \in Refusal(r)
  PROVE  GoodReply(r, reply)
<1> DEFINE checks == Checks(r)
           Sent0(check) == CASE check.sends = "status" -> Status(check.what)
                             [] check.sends = "nack" -> Nack(r, check.what)
                             [] OTHER -> NackOrBroadcast(r, check.what)
<1>1. Len(checks) = 12
  BY DEF Checks
<1> HIDE DEF checks
<1>2. PICK k \in 1 .. 12 : checks[k].fails /\ reply = Sent0(checks[k])
  BY <1>1 DEF Refusal, checks
<1> DEFINE c == checks[k]
<1>3. \/ c.sends = "status" /\ c.what \in DOMAIN RDM_STATUS
      \/ c.sends \in {"nack", "nack_or_broadcast"} /\ c.what \in DOMAIN NACK_REASON
  BY <1>2, CheckReplies DEF checks
<1> HIDE DEF c
<1>4. \/ \E code \in DOMAIN RDM_STATUS : reply = Status(code)
      \/ \E reason \in DOMAIN NACK_REASON : reply = Nack(r, reason)
  <2>1. CASE c.sends = "status"
    BY <1>2, <1>3, <2>1 DEF c
  <2>2. CASE c.sends = "nack"
    BY <1>2, <1>3, <2>2 DEF c
  <2>3. CASE c.sends = "nack_or_broadcast"
    <3>1. reply = NackOrBroadcast(r, c.what) /\ c.what \in DOMAIN NACK_REASON
      BY <1>2, <1>3, <2>3 DEF c
    <3>2. "BROADCAST" \in DOMAIN RDM_STATUS
      BY DEF RDM_STATUS
    <3> QED
      BY <3>1, <3>2 DEF NackOrBroadcast
  <2> QED
    BY <1>3, <2>1, <2>2, <2>3
<1> QED
  BY <1>4, StatusIsGood, NackIsGood

\* A GET that passes all checks has a value its handler takes.
LEMMA AcceptedGet ==
  ASSUME NEW r, Refusal(r) = {}, Gettable(r)
  PROVE  ~BadGetValue(r)
<1> DEFINE checks == Checks(r)
           failed == {k \in 1 .. 12 : checks[k].fails}
<1>1. Len(checks) = 12 /\ checks[9].fails = (Gettable(r) /\ BadGetValue(r))
  BY DEF Checks, NackIf
<1> HIDE DEF checks
<1>2. ASSUME NEW j \in failed, \A i \in failed : j <= i PROVE FALSE
  BY <1>1, <1>2 DEF Refusal, checks
<1>3. failed = {}
  <2>1. failed \subseteq Nat
    OBVIOUS
  <2> HIDE DEF failed
  <2> QED
    BY <1>2, <2>1, FirstOf
<1>4. ~checks[9].fails
  BY <1>3
<1> QED
  BY <1>1, <1>4

-----------------------------------------------------------------------------
(* RepliesInv is inductive. *)

\* A good reply after good replies.
LEMMA GoodAppend ==
  ASSUME NEW r \in Requests, NEW reply, GoodReply(r, reply),
         NEW before \in {<<>>, <<Status("INVALID_COMMAND")>>},
         replies' = Append(before, reply), request' = r
  PROVE  RepliesInv'
<1>1. GoodReply(r, Status("INVALID_COMMAND"))
  BY StatusIsGood DEF RDM_STATUS
<1>2. \A k \in 1 .. Len(replies') : replies'[k] \in {reply, Status("INVALID_COMMAND")}
  <2>1. CASE before = <<>>
    BY <2>1
  <2>2. CASE before = <<Status("INVALID_COMMAND")>>
    BY <2>2
  <2> QED
    BY <2>1, <2>2
<1> QED
  BY <1>1, <1>2 DEF RepliesInv, GoodReply, GoodRDM, ParamData, ParamSize

LEMMA AnswerReplies ==
  ASSUME NEW r \in Requests, NEW reply, GoodReply(r, reply), Answer(r, reply)
  PROVE  RepliesInv'
  BY PrefaceType, GoodAppend DEF Answer

LEMMA ReceiveReplies ==
  ASSUME RDMTypeInv, RDMTypeInv', NEW r \in Requests, Receive(r)
  PROVE  RepliesInv'
<1>1. CASE Refuse(r)
  BY <1>1, RefusalIsGood, AnswerReplies DEF Refuse
<1>2. CASE Refusal(r) = {} /\ Get(r)
  BY <1>2, AcceptedGet, GetAckIsGood, AnswerReplies DEF Get
<1>3. CASE GetQueuedLabel(r) \/ GetLastLabel(r) \/ GetNothingQueued(r)
  <2>1. PICK class \in {"GET_RESPONSE", "SET_RESPONSE"},
             p \in {"DEVICE_LABEL", "STATUS_MESSAGES"} : Queued(r, class, p)
    BY <1>3 DEF GetQueuedLabel, GetLastLabel, GetNothingQueued
  <2>2. m_message_count' \in Byte
    BY RangeAssumption DEF RDMTypeInv, RDMTypeOK, Byte
  <2> QED
    BY <2>1, <2>2, QueuedIsGood, AnswerReplies DEF Queued
<1>4. CASE SetLanguage(r) \/ SetIdentifyDevice(r)
  <2>1. Settable(r) /\ r.pid # "SENSOR_VALUE" /\ Answer(r, AckOrBroadcast(r))
    BY <1>4 DEF SetLanguage, SetIdentifyDevice
  <2> QED
    BY <2>1, SetAckIsGood, AnswerReplies
<1>5. CASE SetLabel(r)
  <2>1. "BROADCAST" \in DOMAIN RDM_STATUS
    BY DEF RDM_STATUS
  <2> QED
    BY <1>5, <2>1, StatusIsGood, AckTimerIsGood, AnswerReplies DEF SetLabel
<1>6. CASE SetStored(r)
  <2>1. request' = r /\ replies' \in {<<>>, <<Status("INVALID_COMMAND")>>}
    BY <1>6, PrefaceType DEF SetStored
  <2>2. GoodReply(r, Status("INVALID_COMMAND"))
    BY StatusIsGood DEF RDM_STATUS
  <2>3. \A k \in 1 .. Len(replies') : replies'[k] = Status("INVALID_COMMAND")
    BY <2>1
  <2> QED
    BY <2>1, <2>2, <2>3 DEF RepliesInv, GoodReply, GoodRDM, ParamData, ParamSize
<1> QED
  BY <1>1, <1>2, <1>3, <1>4, <1>5, <1>6 DEF Receive, Handle

LEMMA StepReplies ==
  ASSUME RDMTypeInv, RDMTypeInv', RepliesInv, [RDMNext]_vars
  PROVE  RepliesInv'
<1>1. CASE UNCHANGED <<request, replies>>
  BY <1>1 DEF RepliesInv, GoodReply, GoodRDM, ParamData, ParamSize
<1>2. CASE Acknowledge
  <2>1. busy /\ Reply
    BY <1>2 DEF Acknowledge
  <2>2. /\ request \in Requests /\ Settable(request)
        /\ replies \in {<<>>, <<Status("INVALID_COMMAND")>>}
    BY <2>1 DEF RDMTypeInv, BusyInv
  <2>3. PICK reply : /\ replies' = Append(replies, reply)
                     /\ reply = IF request.pid = "SENSOR_VALUE"
                                THEN SensorResponse(request) ELSE AckOrBroadcast(request)
    BY <2>1 DEF Reply
  <2>4. GoodReply(request, reply)
    BY <2>2, <2>3, SetAckIsGood
  <2>5. request' = request
    BY <2>1 DEF Reply
  <2> QED
    BY <2>2, <2>3, <2>4, <2>5, GoodAppend
<1>3. CASE PowerLoss
  BY <1>3 DEF PowerLoss, RepliesInv
<1>4. CASE SwitchOn \/ Continue \/ Idle \/ UNCHANGED vars
  BY <1>1, <1>4 DEF SwitchOn, Continue, Idle, vars
<1> QED
  BY <1>2, <1>3, <1>4, ReceiveReplies DEF RDMNext

-----------------------------------------------------------------------------
(* Good replies on the wire. *)

\* Some consecutive bytes.
LEMMA SomeBytes ==
  ASSUME NEW x \in Seq(Byte), NEW i \in Nat \ {0}, NEW n \in Nat, i + n <= Len(x) + 1
  PROVE  /\ IsBytes(SubSeq(x, i, i + n - 1), n)
         /\ \A k \in 1 .. n : SubSeq(x, i, i + n - 1)[k] = x[i + k - 1]
<1> DEFINE t == SubSeq(x, i, i + n - 1)
<1>1. /\ i \in Int /\ i + n - 1 \in Int
      /\ \A k \in i .. i + n - 1 : x[k] \in Byte
  OBVIOUS
<1>2. /\ t \in Seq(Byte)
      /\ Len(t) = (IF i <= i + n - 1 THEN (i + n - 1) - i + 1 ELSE 0)
      /\ \A k \in 1 .. (i + n - 1) - i + 1 : t[k] = x[i + k - 1]
  BY <1>1, SubSeqProperties, SMTT(30)
<1> HIDE DEF t
<1>3. Len(t) = n /\ (i + n - 1) - i + 1 = n
  BY <1>2
<1> QED
  BY <1>2, <1>3 DEF IsBytes, t

\* A sequence of bytes has a length and its elements are bytes.
LEMMA EachByte ==
  ASSUME NEW x, NEW n, IsBytes(x, n)
  PROVE  n \in Nat /\ Len(x) = n /\ \A k \in 1 .. n : x[k] \in Byte /\ x[k] \in 0 .. 255
<1>1. n \in Nat /\ x \in Seq(Byte) /\ Len(x) = n
  BY DEF IsBytes
<1>2. \A k \in 1 .. n : x[k] \in Byte
  BY <1>1
<1>3. \A b \in Byte : b \in 0 .. 255
  BY DEF Byte
<1> QED
  BY <1>1, <1>2, <1>3

\* A frame with the n bytes of data.
FrameOf(frame, data, n) ==
  /\ Framed(frame)
  /\ IsBytes(frame, n + 5)
  /\ \A i \in 1 .. n : frame[4 + i] = data[i]

\* A frame as UsbProSender writes it.
LEMMA FrameBytes ==
  ASSUME NEW label \in Byte, NEW n \in Word, NEW data, IsBytes(data, n), NEW frame,
         frame = SendMessageHeader(label, n) \o data \o SendMessageFooter
  PROVE  FrameOf(frame, data, n)
<1>1. PICK h : h = SendMessageHeader(label, n)
  OBVIOUS
<1>2. IsBytes(h, 4) /\ h[1] = SOM /\ h[3] = n % 256 /\ h[4] = n \div 256
  <2>1. n % 256 \in Byte /\ n \div 256 \in Byte /\ (n \div 256) % 256 = n \div 256
    BY DEF Word, Byte
  <2>2. SOM \in Byte
    BY DEF SOM, Byte
  <2>3. h = <<SOM, label, n % 256, n \div 256>>
    BY <1>1, <2>1 DEF SendMessageHeader
  <2> QED
    BY <2>1, <2>2, <2>3 DEF IsBytes
<1>3. PICK f : f = SendMessageFooter
  OBVIOUS
<1>4. IsBytes(f, 1) /\ f[1] = EOM
  <2>1. EOM \in Byte
    BY DEF EOM, Byte
  <2> QED
    BY <1>3, <2>1, ByteLists DEF SendMessageFooter
<1>5. n \in Nat
  BY DEF Word
<1>6. PICK g : g = h \o data
  OBVIOUS
<1>7. /\ IsBytes(g, 4 + n)
      /\ \A i \in 1 .. 4 : g[i] = h[i]
      /\ \A i \in 1 .. n : g[4 + i] = data[i]
  <2>1. Parts(g, h, 4, data, n)
    BY <1>2, <1>6, JoinedBytes
  <2> QED
    BY <2>1 DEF Parts
<1>8. frame = g \o f
  BY <1>1, <1>3, <1>6
<1>9. /\ IsBytes(frame, 4 + n + 1)
      /\ \A i \in 1 .. 4 + n : frame[i] = g[i]
      /\ \A i \in 1 .. 1 : frame[4 + n + i] = f[i]
  <2>1. Parts(frame, g, 4 + n, f, 1)
    BY <1>4, <1>7, <1>8, JoinedBytes
  <2> QED
    BY <2>1 DEF Parts
<1>10. \A i \in 1 .. n : frame[4 + i] = data[i]
  <2> SUFFICES ASSUME NEW i \in 1 .. n PROVE frame[4 + i] = data[i]
    OBVIOUS
  <2>1. 4 + i \in 1 .. 4 + n
    BY <1>5
  <2> QED
    BY <1>7, <1>9, <2>1
<1>11. frame[1] = SOM /\ frame[3] = n % 256 /\ frame[4] = n \div 256 /\ frame[n + 5] = EOM
  <2>1. \A i \in 1 .. 4 : i \in 1 .. 4 + n
    BY <1>5
  <2>2. \A i \in 1 .. 4 : frame[i] = h[i]
    BY <1>7, <1>9, <2>1
  <2>3. frame[4 + n + 1] = f[1]
    <3>1. 1 \in 1 .. 1
      OBVIOUS
    <3> QED
      BY <1>9, <3>1, Zenon
  <2>4. 4 + n + 1 = n + 5
    BY <1>5
  <2>5. frame[n + 5] = EOM
    BY <1>4, <2>3, <2>4
  <2>6. frame[1] = h[1] /\ frame[3] = h[3] /\ frame[4] = h[4]
    <3>1. 1 \in 1 .. 4 /\ 3 \in 1 .. 4 /\ 4 \in 1 .. 4
      OBVIOUS
    <3> QED
      BY <2>2, <3>1, Zenon
  <2> QED
    BY <1>2, <2>5, <2>6
<1>12. IsBytes(frame, n + 5)
  <2>1. 4 + n + 1 = n + 5
    BY <1>5
  <2> QED
    BY <1>9, <2>1
<1>13. /\ Len(frame) = n + 5
       /\ \A k \in 1 .. Len(frame) : frame[k] \in 0 .. 255
  BY <1>12, EachByte
<1>14. (n % 256) + (n \div 256) * 256 = n
  BY <1>5
<1>15. Framed(frame)
  <2>1. frame[1] = SOM /\ frame[Len(frame)] = EOM
    BY <1>11, <1>13
  <2>2. frame[3] + frame[4] * 256 = Len(frame) - 5 /\ Len(frame) > 4
    <3>1. frame[3] + frame[4] * 256 = n
      BY <1>11, <1>14
    <3> QED
      BY <1>5, <1>13, <3>1
  <2> QED
    BY <1>13, <2>1, <2>2 DEF Framed
<1> QED
  BY <1>10, <1>12, <1>15 DEF FrameOf

LEMMA EstaIdType ==
  ASSUME TypeOK
  PROVE  EstaId \in Word
<1> DEFINE d == FieldBytes("esta_id")
<1>1. "esta_id" \in Field /\ Width["esta_id"] = 2
  BY DEF Field, Width
<1>2. d[1] \in Byte /\ d[2] \in Byte
  BY <1>1, FieldBytesType DEF TypeOK
<1> HIDE DEF d
<1>3. d[1] * 256 + d[2] \in Word
  BY <1>2, IntOfType
<1> QED
  BY <1>3 DEF EstaId, IntOf, d

\* The first m bytes of a message to the controller whose parameter data has
\* size bytes.
Header(z, m, size) ==
  /\ HoldsController(z, m, 3)
  /\ z[1] = START_CODE /\ z[2] = SUB_START_CODE /\ z[3] = 24 + size

LEMMA HeaderGrows ==
  \A x, m, size, y, n : Header(x, m, size) /\ IsBytes(y, n) => Header(x \o y, m + n, size)
<1> SUFFICES ASSUME NEW x, NEW m, NEW size, NEW y, NEW n, Header(x, m, size), IsBytes(y, n)
             PROVE  Header(x \o y, m + n, size)
  OBVIOUS
<1>1. PICK z : z = x \o y
  OBVIOUS
<1>2. IsBytes(x, m)
  BY DEF Header, HoldsController
<1>3. Parts(z, x, m, y, n)
  BY <1>1, <1>2, JoinedBytes
<1>4. m \in Nat /\ m >= 9
  BY DEF IsBytes, Header, HoldsController
<1>5. 1 \in 1 .. m /\ 2 \in 1 .. m /\ 3 \in 1 .. m
  BY <1>4
<1>6. z[1] = x[1] /\ z[2] = x[2] /\ z[3] = x[3]
  BY <1>3, <1>5 DEF Parts
<1>7. HoldsController(z, m + n, 3)
  BY <1>1, ControllerStays DEF Header
<1>8. Header(z, m + n, size)
  BY <1>5, <1>6, <1>7 DEF Header
<1> QED
  BY <1>1, <1>8

\* What StartCustomResponse and the handler sum up: the message says how long it
\* is, where it goes, and how long its parameter data is.
LEMMA BodyBytes ==
  ASSUME TypeOK, NEW r \in Requests, NEW x, GoodRDM(r, x), NEW size, size = ParamSize(r, x),
         NEW body, body = ResponseBody(r, x)
  PROVE  /\ size \in Nat /\ 24 + size \in Byte
         /\ Header(body, 24 + size, size)
         /\ body[24] = size
<1>1. /\ x.type \in DOMAIN RDM_RESPONSE /\ x.pid \in DOMAIN PID
      /\ x.class \in DOMAIN COMMAND_CLASS
      /\ x.source \in Long /\ x.count \in Byte
  BY DEF GoodRDM, COMMAND_CLASS
<1>2. IsBytes(ParamData(r, x), size)
  BY DEF GoodRDM
<1>3. /\ size \in Nat /\ 24 + size \in Byte /\ size \in Byte
      /\ (24 + size) % 256 = 24 + size /\ size % 256 = size
  <2>1. size \in Nat /\ size + 26 - 2 \in Byte
    BY <1>2 DEF GoodRDM, MINIMUM_RDM_PACKET_SIZE, IsBytes
  <2> QED
    BY <2>1 DEF Byte
<1>4. PICK received : received = RequestMessage(r)
  OBVIOUS
<1>5. /\ received \in Seq(Byte) /\ Len(received) >= 26
      /\ \A i \in 1 .. 6 : received[9 + i] = Controller[i]
  BY <1>4, RequestMessageBytes DEF HoldsController, IsBytes
<1>6. /\ IsBytes(SubSeq(received, 10, 15), 6) /\ received[16] \in Byte
      /\ IsBytes(SubSeq(received, 19, 20), 2)
      /\ \A i \in 1 .. 6 : SubSeq(received, 10, 15)[i] = Controller[i]
  <2>0. 10 \in Nat \ {0} /\ 6 \in Nat /\ 10 + 6 <= Len(received) + 1
    BY <1>5
  <2>1. /\ IsBytes(SubSeq(received, 10, 10 + 6 - 1), 6)
        /\ \A i \in 1 .. 6 : SubSeq(received, 10, 10 + 6 - 1)[i] = received[10 + i - 1]
    BY <1>5, <2>0, SomeBytes
  <2>2. IsBytes(SubSeq(received, 19, 19 + 2 - 1), 2)
    BY <1>5, SomeBytes
  <2>3. 10 + 6 - 1 = 15 /\ 19 + 2 - 1 = 20
    OBVIOUS
  <2>4. received[16] \in Byte
    BY <1>5
  <2>5. \A i \in 1 .. 6 : 10 + i - 1 = 9 + i
    OBVIOUS
  <2> QED
    BY <1>5, <2>1, <2>2, <2>3, <2>4, <2>5
<1>7. PICK p1 : p1 = <<START_CODE, SUB_START_CODE, 24 + size>>
  OBVIOUS
<1>8. /\ IsBytes(p1, 3)
      /\ p1[1] = START_CODE /\ p1[2] = SUB_START_CODE /\ p1[3] = 24 + size
  BY <1>3, <1>7, RDMConstants, ByteLists
<1>9. PICK p2 : p2 = p1 \o SubSeq(received, 10, 15)
  OBVIOUS
<1>10. Header(p2, 3 + 6, size)
  <2>1. Parts(p2, p1, 3, SubSeq(received, 10, 15), 6)
    BY <1>6, <1>8, <1>9, JoinedBytes
  <2>2. /\ IsBytes(p2, 3 + 6)
        /\ \A i \in 1 .. 3 : p2[i] = p1[i]
        /\ \A i \in 1 .. 6 : p2[3 + i] = SubSeq(received, 10, 15)[i]
    BY <2>1 DEF Parts
  <2>3. HoldsController(p2, 3 + 6, 3)
    BY <1>6, <2>2 DEF HoldsController
  <2> QED
    BY <1>8, <2>2, <2>3 DEF Header
<1>11. PICK p3 : p3 = p2 \o IntBytes(EstaId)
  OBVIOUS
<1>12. Header(p3, 3 + 6 + 2, size)
  BY <1>10, <1>11, EstaIdType, NumberBytes, HeaderGrows
<1>13. PICK p4 : p4 = p3 \o LongBytes(x.source)
  OBVIOUS
<1>14. Header(p4, 3 + 6 + 2 + 4, size)
  BY <1>1, <1>12, <1>13, NumberBytes, HeaderGrows
<1>15. PICK p5 : p5 = p4 \o <<received[16], RDM_RESPONSE[x.type], x.count>>
  OBVIOUS
<1>16. Header(p5, 3 + 6 + 2 + 4 + 3, size)
  <2>1. IsBytes(<<received[16], RDM_RESPONSE[x.type], x.count>>, 3)
    BY <1>1, <1>6, RDMConstants, ByteLists
  <2> QED
    BY <1>14, <1>15, <2>1, HeaderGrows
<1>17. PICK p6 : p6 = p5 \o SubSeq(received, 19, 20)
  OBVIOUS
<1>18. Header(p6, 3 + 6 + 2 + 4 + 3 + 2, size)
  BY <1>6, <1>16, <1>17, HeaderGrows
<1>19. PICK p7 : p7 = p6 \o <<COMMAND_CLASS[x.class]>>
  OBVIOUS
<1>20. Header(p7, 3 + 6 + 2 + 4 + 3 + 2 + 1, size)
  <2>1. IsBytes(<<COMMAND_CLASS[x.class]>>, 1)
    BY <1>1, RDMConstants, ByteLists
  <2> QED
    BY <1>18, <1>19, <2>1, HeaderGrows
<1>21. PICK p8 : p8 = p7 \o IntBytes(PID[x.pid])
  OBVIOUS
<1>22. Header(p8, 3 + 6 + 2 + 4 + 3 + 2 + 1 + 2, size)
  <2>1. IsBytes(IntBytes(PID[x.pid]), 2)
    BY <1>1, RDMConstants, NumberBytes
  <2> QED
    BY <1>20, <1>21, <2>1, HeaderGrows
<1>23. PICK last : last = <<size>>
  OBVIOUS
<1>24. IsBytes(last, 1) /\ last[1] = size
  BY <1>3, <1>23, ByteLists
<1>25. PICK p9 : p9 = p8 \o last
  OBVIOUS
<1>26. Header(p9, 24, size) /\ p9[24] = size
  <2>1. Header(p8, 23, size)
    <3>1. 3 + 6 + 2 + 4 + 3 + 2 + 1 + 2 = 23
      OBVIOUS
    <3> QED
      BY <1>22, <3>1
  <2>2. Header(p9, 23 + 1, size)
    BY <1>24, <1>25, <2>1, HeaderGrows, SMTT(30)
  <2>3. Parts(p9, p8, 23, last, 1)
    BY <1>24, <1>25, <2>1, JoinedBytes DEF Header, HoldsController
  <2>4. p9[23 + 1] = last[1]
    BY <2>3 DEF Parts
  <2>5. 23 + 1 = 24
    OBVIOUS
  <2> QED
    BY <1>24, <2>2, <2>4, <2>5
<1>27. body = p9 \o ParamData(r, x)
  <2>1. PICK b3 : b3 = (MINIMUM_RDM_PACKET_SIZE - 2 + size) % 256
    OBVIOUS
  <2>2. b3 = 24 + size
    BY <1>3, <2>1 DEF MINIMUM_RDM_PACKET_SIZE
  <2>3. body = <<START_CODE, SUB_START_CODE, b3>>
                 \o SubSeq(received, 10, 15) \o IntBytes(EstaId) \o LongBytes(x.source)
                 \o <<received[16], RDM_RESPONSE[x.type], x.count>>
                 \o SubSeq(received, 19, 20) \o <<COMMAND_CLASS[x.class]>>
                 \o IntBytes(PID[x.pid]) \o <<size % 256>> \o ParamData(r, x)
    BY <1>4, <2>1 DEF ResponseBody
  <2>4. <<size % 256>> = last
    BY <1>3, <1>23
  <2> QED
    BY <1>7, <1>9, <1>11, <1>13, <1>15, <1>17, <1>19, <1>21, <1>25, <2>2, <2>3, <2>4
<1>28. Header(body, 24 + size, size)
  BY <1>2, <1>26, <1>27, HeaderGrows
<1>29. body[24] = size
  <2>1. IsBytes(p9, 24)
    BY <1>26 DEF Header, HoldsController
  <2>2. Parts(body, p9, 24, ParamData(r, x), size)
    BY <1>2, <1>27, <2>1, JoinedBytes
  <2>3. 24 \in 1 .. 24
    OBVIOUS
  <2>4. body[24] = p9[24]
    BY <2>2, <2>3 DEF Parts
  <2> QED
    BY <1>26, <2>4
<1> QED
  BY <1>3, <1>28, <1>29

\* The finished message: the checksum stands where its length says and is that
\* of the bytes before it, the controller where a message names its destination.
LEMMA MessageBytes ==
  ASSUME TypeOK, NEW r \in Requests, NEW x, GoodRDM(r, x), NEW size, size = ParamSize(r, x),
         NEW message, message = RDMMessage(r, x)
  PROVE  IsBytes(message, 26 + size) /\ WellFormed(message)
<1>1. PICK body : body = ResponseBody(r, x)
  OBVIOUS
<1>2. size \in Nat /\ 24 + size \in Byte /\ Header(body, 24 + size, size) /\ body[24] = size
  BY <1>1, BodyBytes
<1>3. PICK k : k = 24 + size
  OBVIOUS
<1>4. k \in Nat /\ k >= 24 /\ k + 2 = 26 + size /\ IsBytes(body, k)
  BY <1>2, <1>3 DEF Header, HoldsController
<1>5. body \in Seq(Byte) /\ Len(body) = k
  BY <1>4 DEF IsBytes
<1>6. PICK sum : sum = Checksum(body)
  OBVIOUS
<1>7. PICK c : c = IntBytes(sum)
  OBVIOUS
<1>8. IsBytes(c, 2) /\ c[1] = sum \div 256 /\ c[2] = sum % 256
  <2>1. sum \in Word
    BY <1>5, <1>6, ChecksumType
  <2> QED
    BY <1>7, <2>1, NumberBytes DEF IntBytes
<1>9. message = body \o c
  <2>1. Checksum(<<RDM_STATUS.OK>> \o body) = sum
    <3>1. RDM_STATUS.OK = 0
      BY DEF RDM_STATUS
    <3> QED
      BY <1>5, <1>6, <3>1, ZeroAddsNothing
  <2>2. message = body \o IntBytes(Checksum(<<RDM_STATUS.OK>> \o body))
    BY <1>1 DEF RDMMessage
  <2> QED
    BY <1>7, <2>1, <2>2
<1>10. /\ IsBytes(message, k + 2)
       /\ \A i \in 1 .. k : message[i] = body[i]
       /\ \A i \in 1 .. 2 : message[k + i] = c[i]
  <2>1. Parts(message, body, k, c, 2)
    BY <1>4, <1>8, <1>9, JoinedBytes
  <2> QED
    BY <2>1 DEF Parts
<1>11. IsBytes(message, 26 + size)
  BY <1>4, <1>10
<1>12. message \in Seq(Byte) /\ Len(message) = k + 2
  BY <1>10 DEF IsBytes
<1>13. /\ message[1] = START_CODE /\ message[2] = SUB_START_CODE /\ message[3] = k
       /\ message[24] = size
  <2>1. 1 \in 1 .. k /\ 2 \in 1 .. k /\ 3 \in 1 .. k /\ 24 \in 1 .. k
    BY <1>4
  <2> QED
    BY <1>2, <1>3, <1>10, <2>1 DEF Header
<1>14. SubSeq(message, 1, k + 2 - 2) = body
  <2>1. PICK t : t = SubSeq(message, 1, 1 + k - 1)
    OBVIOUS
  <2>2. IsBytes(t, k) /\ \A i \in 1 .. k : t[i] = message[1 + i - 1]
    <3>1. 1 \in Nat \ {0} /\ 1 + k <= Len(message) + 1
      BY <1>4, <1>12
    <3> QED
      BY <1>4, <1>12, <2>1, <3>1, SomeBytes
  <2>3. t \in Seq(Byte) /\ Len(t) = k
    BY <2>2 DEF IsBytes
  <2>4. \A i \in 1 .. Len(t) : t[i] = body[i]
    <3> SUFFICES ASSUME NEW i \in 1 .. k PROVE t[i] = body[i]
      BY <2>3
    <3>1. 1 + i - 1 = i
      BY <1>4
    <3> QED
      BY <1>10, <2>2, <3>1
  <2>5. t = body
    BY <1>5, <2>3, <2>4, SeqEqual
  <2>6. 1 + k - 1 = k + 2 - 2
    BY <1>4
  <2> QED
    BY <2>1, <2>5, <2>6
<1>15. message[k + 1] = sum \div 256 /\ message[k + 2] = sum % 256
  BY <1>8, <1>10
<1>16. VerifyChecksum(message)
  <2>1. PICK n, offset : n = Len(message) /\ offset = message[3]
    OBVIOUS
  <2>2. n = k + 2 /\ offset = k
    BY <1>12, <1>13, <2>1
  <2>3. Checksum(SubSeq(message, 1, n - 2)) = sum
    <3>1. n - 2 = k + 2 - 2
      BY <1>4, <2>2
    <3>2. SubSeq(message, 1, n - 2) = body
      BY <1>14, <3>1
    <3> QED
      BY <1>6, <3>2
  <2>4. sum \div 256 = message[offset + 1] /\ sum % 256 = message[offset + 2]
    BY <1>15, <2>2
  <2> QED
    BY <2>1, <2>3, <2>4 DEF VerifyChecksum
<1>17. Len(message) >= 26 /\ message[3] = Len(message) - 2 /\ message[24] = Len(message) - 26
  BY <1>2, <1>3, <1>4, <1>12, <1>13
<1>18. FrameStatus(message) = "ok"
  <2>1. MINIMUM_RDM_PACKET_SIZE = 26 /\ ~(Len(message) < 26)
    BY <1>12, <1>4, <1>17 DEF MINIMUM_RDM_PACKET_SIZE
  <2> QED
    BY <1>13, <1>16, <1>17, <2>1 DEF FrameStatus
<1>19. SubSeq(message, 4, 9) = Controller
  <2>1. PICK t : t = SubSeq(message, 4, 4 + 6 - 1)
    OBVIOUS
  <2>2. IsBytes(t, 6) /\ \A i \in 1 .. 6 : t[i] = message[4 + i - 1]
    <3>1. 4 + 6 <= Len(message) + 1
      BY <1>4, <1>12
    <3> QED
      BY <1>12, <2>1, <3>1, SomeBytes
  <2>3. \A i \in 1 .. 6 : body[3 + i] = Controller[i]
    BY <1>2 DEF Header, HoldsController
  <2>4. ASSUME NEW i \in 1 .. 6 PROVE t[i] = Controller[i]
    <3>1. 4 + i - 1 = 3 + i /\ 3 + i \in 1 .. k
      BY <1>4
    <3> QED
      BY <1>10, <2>2, <2>3, <3>1
  <2>5. t = Controller
    <3>1. /\ t \in Seq(Byte) /\ Len(t) = 6
          /\ Controller \in Seq(Byte) /\ Len(Controller) = 6
      BY <2>2, WireAssumption DEF IsBytes
    <3> QED
      BY <2>4, <3>1, SeqEqual
  <2>6. 4 + 6 - 1 = 9
    OBVIOUS
  <2> QED
    BY <2>1, <2>5, <2>6
<1> QED
  BY <1>11, <1>17, <1>18, <1>19 DEF WellFormed, MINIMUM_RDM_PACKET_SIZE

\* One byte that says how the request was taken.
LEMMA StatusOnTheWire ==
  ASSUME NEW r, NEW c \in DOMAIN RDM_STATUS, NEW x, x = Status(c)
  PROVE  Framed(Sent(r, x)) /\ x.kind = "status"
<1>1. x.kind = "status" /\ x.code = c
  BY DEF Status
<1>2. PICK data : data = <<RDM_STATUS[c]>>
  OBVIOUS
<1>3. IsBytes(data, 1) /\ Len(data) = 1
  BY <1>2, RDMConstants, ByteLists DEF IsBytes
<1>4. PICK frame : frame = SendMessageHeader(RDM_LABEL, 1) \o data \o SendMessageFooter
  OBVIOUS
<1>5. RDM_LABEL \in Byte /\ 1 \in Word
  BY DEF RDM_LABEL, Byte, Word
<1>6. Framed(frame)
  BY <1>3, <1>4, <1>5, FrameBytes DEF FrameOf
<1>7. Sent(r, x) = frame
  BY <1>1, <1>2, <1>3, <1>4 DEF Sent, WriteMessage
<1> QED
  BY <1>1, <1>6, <1>7

\* An RDM message behind RDM_STATUS_OK.
LEMMA RDMOnTheWire ==
  ASSUME TypeOK, NEW r \in Requests, NEW x, GoodRDM(r, x), NEW frame, frame = Sent(r, x)
  PROVE  Framed(frame) /\ WellFormed(SubSeq(frame, 6, Len(frame) - 1))
<1>1. PICK size, message : size = ParamSize(r, x) /\ message = RDMMessage(r, x)
  OBVIOUS
<1>2. IsBytes(message, 26 + size) /\ WellFormed(message)
  BY <1>1, MessageBytes
<1>3. size \in Nat /\ 1 + (26 + size) \in Word
  <2>1. PICK body : body = ResponseBody(r, x)
    OBVIOUS
  <2>2. size \in Nat /\ 24 + size \in Byte
    BY <1>1, <2>1, BodyBytes
  <2> QED
    BY <2>2 DEF Byte, Word
<1>4. PICK m : m = 26 + size
  OBVIOUS
<1>5. m \in Nat /\ 1 + m \in Word /\ IsBytes(message, m)
  BY <1>2, <1>3, <1>4
<1>6. PICK z : z = <<RDM_STATUS.OK>>
  OBVIOUS
<1>7. IsBytes(z, 1)
  BY <1>6, RDMConstants, ByteLists DEF RDM_STATUS
<1>8. PICK data : data = z \o message
  OBVIOUS
<1>9. /\ IsBytes(data, 1 + m)
      /\ \A i \in 1 .. m : data[1 + i] = message[i]
  <2>1. Parts(data, z, 1, message, m)
    BY <1>5, <1>7, <1>8, JoinedBytes
  <2> QED
    BY <2>1 DEF Parts
<1>10. PICK h : h = SendMessageHeader(RDM_LABEL, 1 + m)
  OBVIOUS
<1>11. RDM_LABEL \in Byte
  BY DEF RDM_LABEL, Byte
<1>12. frame = h \o data \o SendMessageFooter
  <2>1. x.kind = "rdm"
    BY DEF GoodRDM
  <2>2. 1 + MINIMUM_RDM_PACKET_SIZE + size = 1 + m
    BY <1>3, <1>4 DEF MINIMUM_RDM_PACKET_SIZE
  <2>3. frame = h \o z \o message \o SendMessageFooter
    BY <1>1, <1>6, <1>10, <2>1, <2>2 DEF Sent
  <2>4. h \in Seq(Byte)
    <3>1. PICK n : n = 1 + m
      OBVIOUS
    <3>2. n % 256 \in Byte /\ (n \div 256) % 256 \in Byte /\ SOM \in Byte
      BY <1>5, <3>1 DEF Word, Byte, SOM
    <3>3. h = <<SOM, RDM_LABEL, n % 256, (n \div 256) % 256>>
      BY <1>10, <3>1 DEF SendMessageHeader
    <3> QED
      BY <1>11, <3>2, <3>3
  <2>5. z \in Seq(Byte) /\ message \in Seq(Byte)
    BY <1>5, <1>7 DEF IsBytes
  <2>6. (h \o z) \o message = h \o (z \o message)
    BY <2>4, <2>5, ConcatAssociative
  <2> QED
    BY <1>8, <2>3, <2>6
<1>13. /\ Framed(frame)
       /\ IsBytes(frame, (1 + m) + 5)
       /\ \A i \in 1 .. 1 + m : frame[4 + i] = data[i]
  <2>1. PICK w : w = 1 + m
    OBVIOUS
  <2>2. w \in Word /\ IsBytes(data, w)
    BY <1>5, <1>9, <2>1
  <2>3. frame = SendMessageHeader(RDM_LABEL, w) \o data \o SendMessageFooter
    BY <1>10, <1>12, <2>1
  <2>4. FrameOf(frame, data, w)
    BY <1>11, <2>2, <2>3, FrameBytes
  <2> QED
    BY <2>1, <2>4 DEF FrameOf
<1>14. frame \in Seq(Byte) /\ Len(frame) = m + 6
  BY <1>5, <1>13 DEF IsBytes
<1>15. PICK t : t = SubSeq(frame, 6, 6 + m - 1)
  OBVIOUS
<1>16. IsBytes(t, m) /\ \A i \in 1 .. m : t[i] = frame[6 + i - 1]
  BY <1>5, <1>14, <1>15, SomeBytes
<1>17. \A i \in 1 .. m : t[i] = message[i]
  <2> SUFFICES ASSUME NEW i \in 1 .. m PROVE t[i] = message[i]
    OBVIOUS
  <2>1. 6 + i - 1 = 4 + (1 + i) /\ 1 + i \in 1 .. 1 + m
    BY <1>5
  <2> QED
    BY <1>9, <1>13, <1>16, <2>1
<1>18. t = message
  BY <1>5, <1>16, <1>17, SeqEqual DEF IsBytes
<1>19. 6 + m - 1 = Len(frame) - 1
  BY <1>5, <1>14
<1> QED
  BY <1>2, <1>13, <1>15, <1>18, <1>19

LEMMA GoodOnTheWire ==
  ASSUME RDMTypeInv, RepliesInv
  PROVE  RepliesWellFormed
<1> SUFFICES ASSUME NEW k \in 1 .. Len(replies), NEW frame, frame = Sent(request, replies[k])
             PROVE  /\ Framed(frame)
                    /\ replies[k].kind = "rdm" => WellFormed(SubSeq(frame, 6, Len(frame) - 1))
  BY DEF RepliesWellFormed
<1>1. replies # <<>>
  OBVIOUS
<1>2. request \in Requests /\ GoodReply(request, replies[k]) /\ TypeOK
  BY <1>1 DEF RepliesInv, RDMTypeInv, RDMTypeOK
<1>3. CASE GoodRDM(request, replies[k])
  BY <1>2, <1>3, RDMOnTheWire
<1>4. CASE \E c \in DOMAIN RDM_STATUS : replies[k] = Status(c)
  BY <1>4, StatusOnTheWire
<1> QED
  BY <1>2, <1>3, <1>4 DEF GoodReply

-----------------------------------------------------------------------------
(* The theorem. *)

\* Whatever handler answers and whatever the settings hold, torn, erased or set:
\* each reply RDMHandlers.cpp writes to the serial port is a frame of the length
\* its header announced before the data was sent, and an RDM message in it
\* passes VerifyChecksum, is addressed to the controller that sent the request,
\* and gives the length of its parameter data.  This is so for every request,
\* label length and sensor reading, not just the small sets of a run.
THEOREM RepliesAreWellFormed == RDMSpec => []RepliesWellFormed
<1>1. RDMInit => RDMTypeInv /\ RepliesInv
  BY RDMInitTypeInv DEF RDMInit, RepliesInv
<1>2. RDMTypeInv /\ RepliesInv /\ [RDMNext]_vars => (RDMTypeInv /\ RepliesInv)'
  BY StepRDMTypeInv, StepReplies
<1>3. RDMTypeInv /\ RepliesInv => RepliesWellFormed
  BY GoodOnTheWire
<1> QED
  BY <1>1, <1>2, <1>3, PTL DEF RDMSpec
===============================================================================
