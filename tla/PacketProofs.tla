---------------------------- MODULE PacketProofs ----------------------------
(***************************************************************************)
(* Theorems of Packet, for every number of byte values, maximal length and *)
(* checksum.                                                               *)
(***************************************************************************)
EXTENDS Packet, SequenceTheorems, TLAPS

LEMMA Constants ==
  /\ Radix \in Nat /\ Radix > 3 /\ MaxPl \in Nat /\ MaxPl > 0
  /\ BufferLen \in Nat /\ BufferLen = MaxPl + 8
  /\ \A i \in Byte : i \in Nat
BY PacketAssumption DEF BufferLen, Byte

LEMMA Products == \A i, j \in Nat : i * j \in Nat
OBVIOUS

(***************************************************************************)
(* What the decoder can tell of a buffer.                                  *)
(***************************************************************************)
LEMMA HeaderFacts ==
  ASSUME NEW s \in Seq(Byte), s # <<>>, IsStart(s), Len(s) >= s[1]
  PROVE  /\ Len(s) \in Nat /\ s[1] \in {2, 3}
         /\ PayloadLen(s) \in Nat
         /\ FrameLen(s) = s[1] + PayloadLen(s) + 3
         /\ LenOK(s) => PayloadLen(s) \in 1 .. MaxPl
<1>1. Len(s) \in Nat /\ s[1] \in {2, 3} BY LenProperties DEF IsStart
<1>2. s[2] \in Nat BY <1>1, ElementOfSeq, Constants
<1>3. s[1] = 3 => s[3] \in Nat BY <1>1, ElementOfSeq, Constants
<1>4. PayloadLen(s) \in Nat
  <2>1. CASE s[1] = 2 BY <2>1, <1>2 DEF PayloadLen
  <2>2. CASE s[1] = 3
    <3>1. s[2] * Radix \in Nat BY <1>2, Constants, Products
    <3> QED BY <3>1, <2>2, <1>3 DEF PayloadLen
  <2> QED BY <2>1, <2>2, <1>1
<1>5. LenOK(s) => PayloadLen(s) \in 1 .. MaxPl BY <1>1, <1>4, Constants DEF LenOK
<1> QED BY <1>1, <1>4, <1>5 DEF FrameLen

\* The three ways in which bytes may be missing.
LEMMA MissingFacts ==
  ASSUME NEW s \in Seq(Byte)
  PROVE  /\ s = <<>> => Missing(s) = 1
         /\ s # <<>> /\ ~IsStart(s) => Missing(s) = 0
         /\ s # <<>> /\ IsStart(s) /\ Len(s) < s[1] => Missing(s) = s[1] - Len(s)
         /\ s # <<>> /\ IsStart(s) /\ Len(s) >= s[1] =>
              Missing(s) = IF LenOK(s) /\ Len(s) < FrameLen(s) THEN FrameLen(s) - Len(s) ELSE 0
         /\ Missing(s) \in Nat
         /\ Missing(s) > 0 => Len(s) < MaxPl + 6
<1>0. Len(s) \in Nat /\ (s = <<>> => Len(s) = 0) BY LenProperties, EmptySeq
<1>1. CASE s = <<>> BY <1>1, <1>0, Constants DEF Missing
<1>2. CASE s # <<>> /\ ~IsStart(s) BY <1>2 DEF Missing
<1>3. CASE s # <<>> /\ IsStart(s) /\ Len(s) < s[1]
  <2>1. Missing(s) = s[1] - Len(s) BY <1>3 DEF Missing
  <2>2. s[1] \in {2, 3} BY <1>3 DEF IsStart
  <2> QED BY <1>0, <1>3, <2>1, <2>2, Constants
<1>4. CASE s # <<>> /\ IsStart(s) /\ ~(Len(s) < s[1])
  <2>0. Len(s) >= s[1] BY <1>0, <1>4 DEF IsStart
  <2>1. Missing(s) = IF LenOK(s) /\ Len(s) < FrameLen(s) THEN FrameLen(s) - Len(s) ELSE 0
    BY <1>4 DEF Missing
  <2>2. /\ s[1] \in {2, 3} /\ PayloadLen(s) \in Nat /\ FrameLen(s) = s[1] + PayloadLen(s) + 3
        /\ LenOK(s) => PayloadLen(s) \in 1 .. MaxPl
    BY <1>4, <2>0, HeaderFacts
  <2> QED BY <1>0, <1>4, <2>1, <2>2, Constants
<1>5. s[1] \in {2, 3} \/ ~IsStart(s) BY DEF IsStart
<1> QED BY <1>0, <1>1, <1>2, <1>3, <1>4, <1>5

\* A frame that is found lies in the buffer.
LEMMA ValidFits ==
  ASSUME NEW s \in Seq(Byte), Missing(s) = 0, Valid(s)
  PROVE  /\ s # <<>> /\ Len(s) \in Nat /\ s[1] \in {2, 3}
         /\ PayloadLen(s) \in 1 .. MaxPl
         /\ FrameLen(s) = s[1] + PayloadLen(s) + 3 /\ FrameLen(s) \in 1 .. Len(s)
<1>1. s # <<>> BY MissingFacts
<1>2. Len(s) \in Nat /\ s[1] \in {2, 3} BY LenProperties DEF Valid, IsStart
<1>3. Len(s) >= s[1]
  <2> SUFFICES ASSUME Len(s) < s[1] PROVE FALSE
    BY <1>2
  <2>1. Missing(s) = s[1] - Len(s) BY <1>1, MissingFacts DEF Valid
  <2> QED BY <2>1, <1>2
<1>4. PayloadLen(s) \in 1 .. MaxPl /\ FrameLen(s) = s[1] + PayloadLen(s) + 3
  BY <1>1, <1>3, HeaderFacts DEF Valid
<1>5. FrameLen(s) \in Nat BY <1>2, <1>4, Constants
<1>6. ~(Len(s) < FrameLen(s))
  <2> SUFFICES ASSUME Len(s) < FrameLen(s) PROVE FALSE
    OBVIOUS
  <2>1. Missing(s) = FrameLen(s) - Len(s) BY <1>1, <1>3, MissingFacts DEF Valid
  <2> QED BY <2>1, <1>2, <1>5
<1> QED BY <1>1, <1>2, <1>4, <1>5, <1>6, Constants

LEMMA PartIsSeq ==
  ASSUME NEW s \in Seq(Byte), NEW m \in Nat \ {0}, NEW n \in 0 .. Len(s)
  PROVE  /\ SubSeq(s, m, n) \in Seq(Byte)
         /\ Len(SubSeq(s, m, n)) = IF m <= n THEN n - m + 1 ELSE 0
         /\ \A i \in 1 .. n - m + 1 : SubSeq(s, m, n)[i] = s[m + i - 1]
<1>1. Len(s) \in Nat BY LenProperties
<1>2. \A i \in m .. n : s[i] \in Byte BY <1>1, ElementOfSeq
<1>3. m \in Int /\ n \in Int BY <1>1
<1> QED BY <1>2, <1>3, SubSeqProperties

LEMMA PayloadOfType ==
  ASSUME NEW s \in Seq(Byte), Missing(s) = 0, Valid(s)
  PROVE  PayloadOf(s) \in Payload /\ PayloadOf(s) \in Seq(Byte) /\ Len(PayloadOf(s)) = PayloadLen(s)
<1>1. s[1] \in {2, 3} /\ PayloadLen(s) \in 1 .. MaxPl /\ Len(s) \in Nat
      /\ s[1] + PayloadLen(s) + 3 \in 1 .. Len(s)
  BY ValidFits
<1>2. s[1] + 1 \in Nat \ {0} /\ s[1] + PayloadLen(s) \in 0 .. Len(s) BY <1>1, Constants
<1>3. PayloadOf(s) \in Seq(Byte) /\ Len(PayloadOf(s)) = PayloadLen(s)
  <2> DEFINE m == s[1] + 1
             n == s[1] + PayloadLen(s)
  <2>1. m <= n /\ n - m + 1 = PayloadLen(s) BY <1>1, Constants
  <2>2. m \in Nat \ {0} /\ n \in 0 .. Len(s) BY <1>2
  <2> HIDE DEF m, n
  <2>3. SubSeq(s, m, n) \in Seq(Byte) /\ Len(SubSeq(s, m, n)) = PayloadLen(s)
    BY <2>1, <2>2, PartIsSeq
  <2> QED BY <2>3 DEF PayloadOf, m, n
<1>4. PayloadOf(s) \in [1 .. PayloadLen(s) -> Byte] BY <1>3, LenProperties
<1> QED BY <1>1, <1>3, <1>4 DEF Payload

(***************************************************************************)
(* The bytes and pointers stay in rx_buffer, and bytes_left counts what    *)
(* is missing: the two are proved together.                                *)
(***************************************************************************)
PacketInv == PacketTypeOK /\ WaitsForMissing

LEMMA PacketInit == Init => PacketInv
<1> SUFFICES ASSUME Init PROVE PacketInv
  OBVIOUS
<1>1. data \in Seq(Byte) /\ Len(data) = 0 /\ data = <<>> BY EmptySeq DEF Init
<1>2. Missing(data) = 1 BY <1>1, MissingFacts
<1> QED BY <1>1, <1>2, Constants DEF Init, PacketInv, PacketTypeOK, WaitsForMissing

\* One more byte of a frame that has begun: one byte less is missing.
LEMMA AppendMissing ==
  ASSUME NEW s \in Seq(Byte), NEW b \in Byte, Missing(s) > 1
  PROVE  /\ Missing(Append(s, b)) = Missing(s) - 1
         /\ Append(s, b) # <<>>
<1> DEFINE t == Append(s, b)
<1>0. Len(s) \in Nat BY LenProperties
<1>1. t \in Seq(Byte) /\ t # <<>> /\ Len(t) = Len(s) + 1 /\ \A i \in 1 .. Len(s) : t[i] = s[i]
  BY AppendProperties
<1>2. s # <<>> /\ IsStart(s) BY MissingFacts
<1>3. Len(s) >= 1 BY <1>0, <1>2, EmptySeq
<1>4. t[1] = s[1] /\ IsStart(t) /\ s[1] \in {2, 3} BY <1>0, <1>1, <1>2, <1>3 DEF IsStart
<1> HIDE DEF t
<1>5. CASE Len(s) < s[1]
  <2>1. Missing(s) = s[1] - Len(s) BY <1>2, <1>5, MissingFacts
  <2>2. Len(t) < t[1] BY <2>1, <1>0, <1>1, <1>4
  <2>3. Missing(t) = t[1] - Len(t) BY <2>2, <1>1, <1>4, MissingFacts
  <2> QED BY <2>1, <2>3, <1>0, <1>1, <1>4 DEF t
<1>6. CASE Len(s) >= s[1]
  <2>1. LenOK(s) /\ Missing(s) = FrameLen(s) - Len(s) BY <1>2, <1>6, MissingFacts
  <2>2. PayloadLen(t) = PayloadLen(s) BY <1>0, <1>1, <1>4, <1>6 DEF PayloadLen
  <2>3. LenOK(t) /\ FrameLen(t) = FrameLen(s) BY <2>1, <2>2, <1>4 DEF LenOK, FrameLen
  <2>4. FrameLen(s) \in Nat BY <1>2, <1>6, <1>4, HeaderFacts
  <2>5. Len(t) >= t[1] /\ Len(t) < FrameLen(t) BY <2>1, <2>3, <2>4, <1>0, <1>1, <1>4, <1>6
  <2>6. Missing(t) = FrameLen(t) - Len(t) BY <2>3, <2>5, <1>1, <1>4, MissingFacts
  <2> QED BY <2>1, <2>3, <2>4, <2>6, <1>0, <1>1 DEF t
<1> QED BY <1>0, <1>4, <1>5, <1>6

LEMMA PacketStep == PacketInv /\ [Next]_vars => PacketInv'
<1> SUFFICES ASSUME PacketInv, [Next]_vars PROVE PacketInv'
  OBVIOUS
<1>0. /\ data \in Seq(Byte) /\ Len(data) \in Nat /\ read \in Nat /\ read + Len(data) <= BufferLen
      /\ left \in Nat /\ got \in Payload \cup {<<>>} /\ pc \in {"idle", "scan"}
  BY LenProperties DEF PacketInv, PacketTypeOK
<1>m. Missing(data) \in Nat /\ (Missing(data) > 0 => Len(data) < MaxPl + 6) BY <1>0, MissingFacts
<1>e. <<>> \in Seq(Byte) /\ Len(<<>>) = 0 BY EmptySeq
<1>1. ASSUME NEW b \in Byte, Receive(b) PROVE PacketInv'
  <2>0. Missing(data) > 0 /\ left \in {0, Missing(data)} /\ (left = 0 => data = <<>>)
        /\ Len(data) < MaxPl + 6
    BY <1>1 DEF Receive, PacketInv, WaitsForMissing
  <2>1. ~Full BY <2>0, <1>0, Constants DEF Full
  <2>2. data' = Append(data, b) /\ data' \in Seq(Byte) /\ Len(data') = Len(data) + 1
    BY <2>1, <1>0, <1>1, AppendProperties DEF Receive
  <2>3. read' = IF read + Len(data) >= BufferLen THEN 0 ELSE read BY <2>1, <1>1 DEF Receive
  <2>4. read' \in Nat /\ read' + Len(data') <= BufferLen
    BY <2>0, <2>2, <2>3, <1>0, Constants
  <2>5. CASE left > 1
    <3>1. left' = left - 1 /\ pc' = pc BY <2>1, <2>5, <1>1 DEF Receive
    <3>2. left = Missing(data) /\ Missing(data) > 1 BY <2>0, <2>5, <1>0
    <3>3. Missing(data') = Missing(data) - 1 /\ data' # <<>>
      BY <2>2, <3>2, <1>0, AppendMissing
    <3>4. left' \in Nat /\ left' > 0 /\ left' = Missing(data') BY <3>1, <3>2, <3>3, <1>0
    <3>5. Len(data') < MaxPl + 6 BY <3>4, <2>2, MissingFacts
    <3> QED BY <2>2, <2>4, <3>1, <3>4, <3>5, <1>0, <1>1
            DEF Receive, PacketInv, PacketTypeOK, WaitsForMissing
  <2>6. CASE ~(left > 1)
    <3>1. pc' = "scan" /\ left' = left BY <2>1, <2>6, <1>1 DEF Receive
    <3> QED BY <2>2, <2>4, <3>1, <1>0, <1>1 DEF Receive, PacketInv, PacketTypeOK, WaitsForMissing
  <2> QED BY <2>5, <2>6
<1>2. CASE Deliver
  <2>0. Missing(data) = 0 /\ Valid(data) BY <1>2 DEF Deliver
  <2>1. FrameLen(data) \in 1 .. Len(data) BY <2>0, <1>0, ValidFits
  <2>2. FrameLen(data) + 1 \in Nat \ {0} /\ Len(data) \in 0 .. Len(data) BY <2>1, <1>0
  <2>3. data' \in Seq(Byte) /\ Len(data') = Len(data) - FrameLen(data)
    BY <2>1, <2>2, <1>0, <1>2, PartIsSeq DEF Deliver
  <2>4. got' \in Payload BY <2>0, <1>0, <1>2, PayloadOfType DEF Deliver
  <2>5. read' \in Nat /\ read' + Len(data') <= BufferLen
    BY <2>1, <2>3, <1>0, <1>2, Constants DEF Deliver
  <2> QED BY <2>3, <2>4, <2>5, <1>2 DEF Deliver, PacketInv, PacketTypeOK, WaitsForMissing
<1>3. CASE Skip
  <2>1. data # <<>> BY <1>0, <1>3, MissingFacts DEF Skip
  <2>2. data' \in Seq(Byte) /\ Len(data') = Len(data) - 1
    BY <2>1, <1>0, <1>3, HeadTailProperties DEF Skip
  <2>3. Len(data) > 0 BY <2>1, <1>0, EmptySeq
  <2> QED BY <2>2, <2>3, <1>0, <1>3, Constants DEF Skip, PacketInv, PacketTypeOK, WaitsForMissing
<1>4. CASE Wait
  <2>1. data' = data /\ left' = Missing(data) /\ Missing(data) > 0 /\ pc' = "idle" /\ got' = got
    BY <1>4 DEF Wait
  <2>2. read' \in Nat /\ read' + Len(data) <= BufferLen BY <1>0, <1>4, Constants DEF Wait
  <2>3. Len(data) < MaxPl + 6 BY <2>1, <1>m
  <2> QED BY <2>1, <2>2, <2>3, <1>0, <1>m DEF PacketInv, PacketTypeOK, WaitsForMissing
<1>5. CASE Reset
  <2>1. data' = <<>> /\ Missing(data') = 1 /\ Len(data') = 0
    BY <1>5, <1>e, MissingFacts DEF Reset
  <2> QED BY <2>1, <1>0, <1>5, <1>e, Constants DEF Reset, PacketInv, PacketTypeOK, WaitsForMissing
<1>6. CASE UNCHANGED vars
  BY <1>6 DEF vars, PacketInv, PacketTypeOK, WaitsForMissing
<1> QED BY <1>1, <1>2, <1>3, <1>4, <1>5, <1>6 DEF Next, Scan

LEMMA PacketInvariant == Spec => []PacketInv
BY PacketInit, PacketStep, PTL DEF Spec

\* Both pointers and what lies between them stay in rx_buffer.
THEOREM PacketTypeCorrect == Spec => []PacketTypeOK
<1>1. PacketInv => PacketTypeOK BY DEF PacketInv
<1> QED BY <1>1, PacketInvariant, PTL

\* Between two bytes the decoder waits for what is missing of one frame, and
\* the branch "Out of space (should not happen)" is never taken.
THEOREM WaitsForTheRest == Spec => []WaitsForMissing
<1>1. PacketInv => WaitsForMissing BY DEF PacketInv
<1> QED BY <1>1, PacketInvariant, PTL

(***************************************************************************)
(* What is delivered.                                                      *)
(***************************************************************************)
LEMMA ValidIsFramed ==
  ASSUME NEW s \in Seq(Byte), Missing(s) = 0, Valid(s)
  PROVE  Framed(s, PayloadOf(s), SubSeq(s, FrameLen(s) + 1, Len(s)))
<1> DEFINE h == s[1]
           n == PayloadLen(s)
           f == FrameLen(s)
           rest == SubSeq(s, f + 1, Len(s))
<1>1. /\ s # <<>> /\ Len(s) \in Nat /\ h \in {2, 3} /\ n \in 1 .. MaxPl
      /\ f = h + n + 3 /\ f \in 1 .. Len(s)
  BY ValidFits
<1>2. PayloadOf(s) = SubSeq(s, h + 1, h + n) /\ PayloadOf(s) # <<>>
  BY <1>1, PayloadOfType, EmptySeq DEF PayloadOf
<1>3. Crc(PayloadOf(s)) = SubSeq(s, h + n + 1, h + n + 2)
  <2>1. f - 2 = h + n + 1 /\ f - 1 = h + n + 2 BY <1>1
  <2> QED BY <2>1 DEF Valid
<1> HIDE DEF f, n, h
<1>4. <<3>> = SubSeq(s, h + n + 3, h + n + 3)
  <2>1. h + n + 3 \in 1 .. Len(s) /\ s[h + n + 3] = 3 BY <1>1 DEF Valid, f, n, h
  <2>2. SubSeq(s, h + n + 3, h + n + 3) = <<s[h + n + 3]>> \o SubSeq(s, h + n + 3 + 1, h + n + 3)
    BY <2>1, SubSeqRecursiveFirst
  <2>3. SubSeq(s, h + n + 3 + 1, h + n + 3) = <<>> BY <1>1, Constants, SubSeqEmpty
  <2>4. <<3>> \in Seq(Int) BY Z3
  <2> QED BY <2>1, <2>2, <2>3, <2>4, ConcatEmptySeq
<1>a. /\ h + 1 \in 1 .. Len(s) + 1 /\ Len(s) \in h + n + 3 .. Len(s)
      /\ h + n \in (h + 1) - 1 .. Len(s)
      /\ h + n + 2 \in (h + 1) - 1 .. Len(s) /\ h + n + 2 \in h + n .. Len(s)
      /\ h + n + 3 \in (h + 1) - 1 .. Len(s) /\ h + n + 3 \in h + n + 2 .. Len(s)
      /\ (h + n) + 1 = h + n + 1 /\ (h + n + 2) + 1 = h + n + 3 /\ f = h + n + 3
  BY <1>1, Constants
<1>5. SubSeq(s, h + 1, h + n) \o SubSeq(s, h + n + 1, h + n + 2) = SubSeq(s, h + 1, h + n + 2)
  BY <1>a, ConcatAdjacentSubSeq
<1>6. SubSeq(s, h + 1, h + n + 2) \o SubSeq(s, h + n + 3, h + n + 3) = SubSeq(s, h + 1, h + n + 3)
  <2>1. SubSeq(s, h + 1, h + n + 2) \o SubSeq(s, (h + n + 2) + 1, h + n + 3)
          = SubSeq(s, h + 1, h + n + 3)
    BY <1>a, ConcatAdjacentSubSeq
  <2> QED BY <2>1, <1>a
<1>7. SubSeq(s, h + 1, h + n + 3) \o rest = SubSeq(s, h + 1, Len(s))
  BY <1>a, ConcatAdjacentSubSeq
<1>8. PayloadOf(s) \o Crc(PayloadOf(s)) \o <<3>> \o rest = SubSeq(s, h + 1, Len(s))
  BY <1>2, <1>3, <1>4, <1>5, <1>6, <1>7
<1> QED BY <1>1, <1>2, <1>8 DEF Framed, h, f

\* What process_func receives was framed with its length and checksum, and
\* exactly its frame is taken from the stream.
THEOREM DeliversOnlyFrames == Spec => DeliversFrames
<1>1. PacketInv /\ [Next]_vars => [got' \notin {got, <<>>} => Framed(data, got', data')]_vars
  <2> SUFFICES ASSUME PacketInv, Next, got' \notin {got, <<>>} PROVE Framed(data, got', data')
    OBVIOUS
  <2>1. Deliver BY DEF Next, Scan, Receive, Skip, Wait, Reset
  <2> QED BY <2>1, ValidIsFramed DEF Deliver, PacketInv, PacketTypeOK
<1> QED BY <1>1, PacketInvariant, PTL DEF Spec, DeliversFrames

(***************************************************************************)
(* No frame is lost.  A length written by Header is read by PayloadLen.    *)
(***************************************************************************)
LEMMA DivMod ==
  ASSUME NEW n \in Nat
  PROVE  /\ n = (n \div Radix) * Radix + (n % Radix)
         /\ n \div Radix \in Nat /\ n % Radix \in Nat
<1>1. Radix \in Nat /\ Radix > 0 BY Constants
<1>2. n = (n \div Radix) * Radix + (n % Radix) BY <1>1, Z3
<1>3. n \div Radix \in Nat /\ n % Radix \in Nat BY <1>1, Z3
<1> QED BY <1>2, <1>3

LEMMA HeaderShape ==
  ASSUME NEW n \in 1 .. MaxPl
  PROVE  /\ Header(n) \in Seq(Nat) /\ Len(Header(n)) \in {2, 3} /\ Header(n)[1] = Len(Header(n))
         /\ DOMAIN Header(n) = 1 .. Len(Header(n))
         /\ Len(Header(n)) = 2 => n < Radix /\ Header(n)[2] = n
         /\ Len(Header(n)) = 3 =>
              ~(n < Radix) /\ Header(n)[2] = n \div Radix /\ Header(n)[3] = n % Radix
<1>0. n \in Nat /\ n \div Radix \in Nat /\ n % Radix \in Nat BY DivMod, Constants
<1>1. CASE n < Radix
  <2>1. Header(n) = <<2, n>> BY <1>1 DEF Header
  <2> QED BY <2>1, <1>0, <1>1
<1>2. CASE ~(n < Radix)
  <2>1. Header(n) = <<3, n \div Radix, n % Radix>> BY <1>2 DEF Header
  <2> DEFINE a == n \div Radix
             b == n % Radix
  <2>2. a \in Nat /\ b \in Nat BY <1>0
  <2> HIDE DEF a, b
  <2>3. /\ <<3, a, b>> \in Seq(Nat) /\ Len(<<3, a, b>>) = 3 /\ DOMAIN <<3, a, b>> = 1 .. 3
        /\ <<3, a, b>>[1] = 3 /\ <<3, a, b>>[2] = a /\ <<3, a, b>>[3] = b
    BY <2>2
  <2> QED BY <2>1, <2>3, <1>2 DEF a, b
<1> QED BY <1>1, <1>2

LEMMA HeaderMatch ==
  ASSUME NEW s \in Seq(Byte), NEW n \in 1 .. MaxPl, Len(s) >= Len(Header(n)),
         \A i \in DOMAIN Header(n) : s[i] = Header(n)[i]
  PROVE  /\ s # <<>> /\ IsStart(s) /\ s[1] = Len(Header(n)) /\ Len(s) >= s[1]
         /\ PayloadLen(s) = n /\ LenOK(s) /\ FrameLen(s) = Len(Header(n)) + n + 3
<1>0. n \in Nat /\ n >= 1 /\ n <= MaxPl BY Constants
<1>1. s # <<>> BY HeaderShape, EmptySeq
<1>2. s[1] = Len(Header(n)) /\ s[1] \in {2, 3} /\ IsStart(s) BY HeaderShape DEF IsStart
<1>3. PayloadLen(s) = n
  <2>1. CASE Len(Header(n)) = 2 BY <2>1, <1>2, HeaderShape DEF PayloadLen
  <2>2. CASE Len(Header(n)) = 3
    <3>1. s[2] = n \div Radix /\ s[3] = n % Radix BY <2>2, HeaderShape
    <3>2. PayloadLen(s) = (n \div Radix) * Radix + (n % Radix) BY <3>1, <2>2, <1>2 DEF PayloadLen
    <3> QED BY <3>2, <1>0, DivMod
  <2> QED BY <2>1, <2>2, HeaderShape
<1>4. s[1] = 3 => n >= Radix
  <2>1. s[1] = 3 => ~(n < Radix) BY <1>2, HeaderShape
  <2> QED BY <2>1, <1>0, Constants
<1>5. LenOK(s) BY <1>0, <1>2, <1>3, <1>4, Constants DEF LenOK
<1> QED BY <1>1, <1>2, <1>3, <1>5 DEF FrameLen

LEMMA FunctionIsSeq ==
  ASSUME NEW k \in Nat, NEW p \in [1 .. k -> Byte]
  PROVE  p \in Seq(Byte) /\ Len(p) = k
OBVIOUS

LEMMA BytesAreNat == Seq(Byte) \subseteq Seq(Nat)
BY SeqMonotonic, Constants

LEMMA EncodeShape ==
  ASSUME NEW p \in Payload
  PROVE  /\ p \in Seq(Byte) /\ Len(p) \in 1 .. MaxPl /\ Encode(p) \in Seq(Nat)
         /\ Len(Encode(p)) = Len(Header(Len(p))) + Len(p) + 3
         /\ \A i \in 1 .. Len(Header(Len(p))) : Encode(p)[i] = Header(Len(p))[i]
         /\ \A i \in 1 .. 2 : Encode(p)[Len(Header(Len(p))) + Len(p) + i] = Crc(p)[i]
         /\ Encode(p)[Len(Encode(p))] = 3
<1> DEFINE n == Len(p)
           h == Len(Header(n))
<1>1. p \in Seq(Byte) /\ n \in 1 .. MaxPl /\ p \in Seq(Nat)
  <2>1. PICK k \in 1 .. MaxPl : p \in [1 .. k -> Byte] BY DEF Payload
  <2>2. p \in Seq(Byte) /\ Len(p) = k BY <2>1, Constants
  <2> QED BY <2>2, BytesAreNat
<1>2. Header(n) \in Seq(Nat) /\ h \in {2, 3} BY <1>1, HeaderShape
<1>3. Crc(p) \in Seq(Nat) /\ Len(Crc(p)) = 2
  <2>1. Crc(p) \in [1 .. 2 -> Byte] BY PacketAssumption
  <2>2. Crc(p) \in Seq(Byte) /\ Len(Crc(p)) = 2 BY <2>1, FunctionIsSeq
  <2> QED BY <2>2, BytesAreNat
<1>4. <<3>> \in Seq(Nat) /\ Len(<<3>>) = 1 /\ <<3>>[1] = 3 OBVIOUS
<1>n. n \in Nat /\ n >= 1 BY <1>1, Constants
<1> HIDE DEF n, h
<1>5. /\ Header(n) \o p \in Seq(Nat) /\ Len(Header(n) \o p) = h + n
      /\ \A i \in 1 .. h : (Header(n) \o p)[i] = Header(n)[i]
  BY <1>1, <1>2, <1>n, ConcatProperties DEF n, h
<1>6. /\ Header(n) \o p \o Crc(p) \in Seq(Nat) /\ Len(Header(n) \o p \o Crc(p)) = h + n + 2
      /\ \A i \in 1 .. h : (Header(n) \o p \o Crc(p))[i] = Header(n)[i]
      /\ \A i \in 1 .. 2 : (Header(n) \o p \o Crc(p))[h + n + i] = Crc(p)[i]
  <2> DEFINE a == Header(n) \o p
             b == Crc(p)
  <2>1. a \in Seq(Nat) /\ b \in Seq(Nat) /\ Len(a) = h + n /\ Len(b) = 2 BY <1>3, <1>5
  <2>2. \A i \in 1 .. h : a[i] = Header(n)[i] BY <1>5
  <2> HIDE DEF a, b
  <2>3. /\ a \o b \in Seq(Nat) /\ Len(a \o b) = h + n + 2
        /\ \A i \in 1 .. h + n + 2 : (a \o b)[i] = IF i <= h + n THEN a[i] ELSE b[i - (h + n)]
    <3>1. Len(a) + Len(b) = h + n + 2 BY <1>2, <1>n, <2>1
    <3>2. /\ a \o b \in Seq(Nat) /\ Len(a \o b) = Len(a) + Len(b)
          /\ \A i \in 1 .. Len(a) + Len(b) :
               (a \o b)[i] = IF i <= Len(a) THEN a[i] ELSE b[i - Len(a)]
      BY <2>1, ConcatProperties
    <3> QED BY <3>1, <3>2, <2>1
  <2>4. ASSUME NEW i \in 1 .. h PROVE (a \o b)[i] = Header(n)[i]
    <3>1. i \in 1 .. h + n + 2 /\ i <= h + n BY <1>2, <1>n
    <3> QED BY <3>1, <2>2, <2>3
  <2>5. ASSUME NEW i \in 1 .. 2 PROVE (a \o b)[h + n + i] = b[i]
    <3>1. h + n + i \in 1 .. h + n + 2 /\ ~(h + n + i <= h + n) /\ h + n + i - (h + n) = i
      BY <1>2, <1>n
    <3>2. ASSUME NEW m \in 1 .. h + n + 2, m = h + n + i PROVE (a \o b)[m] = b[i]
      <4>1. ~(m <= h + n) /\ m - (h + n) = i BY <3>1, <3>2, <1>2, <1>n
      <4>2. (a \o b)[m] = b[m - (h + n)] BY <4>1, <2>3
      <4> QED BY <4>1, <4>2
    <3> QED BY <3>1, <3>2
  <2> QED BY <2>3, <2>4, <2>5 DEF a, b
<1>7. /\ Encode(p) \in Seq(Nat) /\ Len(Encode(p)) = h + n + 3
      /\ \A i \in 1 .. h : Encode(p)[i] = Header(n)[i]
      /\ \A i \in 1 .. 2 : Encode(p)[h + n + i] = Crc(p)[i]
      /\ Encode(p)[h + n + 3] = 3
  <2>1. Encode(p) = (Header(n) \o p \o Crc(p)) \o <<3>> BY DEF Encode, n
  <2> DEFINE a == Header(n) \o p \o Crc(p)
             b == <<3>>
  <2>2. a \in Seq(Nat) /\ b \in Seq(Nat) /\ Len(a) = h + n + 2 /\ Len(b) = 1 /\ b[1] = 3
    BY <1>4, <1>6
  <2>3. /\ \A i \in 1 .. h : a[i] = Header(n)[i]
        /\ \A i \in 1 .. 2 : a[h + n + i] = Crc(p)[i]
    BY <1>6
  <2>4. Encode(p) = a \o b BY <2>1
  <2> HIDE DEF a, b
  <2>5. /\ a \o b \in Seq(Nat) /\ Len(a \o b) = h + n + 3
        /\ \A i \in 1 .. h + n + 3 :
             (a \o b)[i] = IF i <= h + n + 2 THEN a[i] ELSE b[i - (h + n + 2)]
    <3>1. Len(a) + Len(b) = h + n + 3 BY <1>2, <1>n, <2>2
    <3>2. /\ a \o b \in Seq(Nat) /\ Len(a \o b) = Len(a) + Len(b)
          /\ \A i \in 1 .. Len(a) + Len(b) :
               (a \o b)[i] = IF i <= Len(a) THEN a[i] ELSE b[i - Len(a)]
      BY <2>2, ConcatProperties
    <3> QED BY <3>1, <3>2, <2>2
  <2>6. ASSUME NEW i \in 1 .. h PROVE (a \o b)[i] = Header(n)[i]
    <3>1. i \in 1 .. h + n + 3 /\ i <= h + n + 2 BY <1>2, <1>n
    <3> QED BY <3>1, <2>3, <2>5
  <2>7. ASSUME NEW i \in 1 .. 2 PROVE (a \o b)[h + n + i] = Crc(p)[i]
    <3>1. h + n + i \in 1 .. h + n + 3 /\ h + n + i <= h + n + 2 BY <1>2, <1>n
    <3> QED BY <3>1, <2>3, <2>5
  <2>8. (a \o b)[h + n + 3] = 3
    <3>1. h + n + 3 \in 1 .. h + n + 3 /\ ~(h + n + 3 <= h + n + 2) /\ h + n + 3 - (h + n + 2) = 1
      BY <1>2, <1>n
    <3>2. ASSUME NEW m \in 1 .. h + n + 3, m = h + n + 3 PROVE (a \o b)[m] = 3
      <4>1. ~(m <= h + n + 2) /\ m - (h + n + 2) = 1 BY <3>1, <3>2, <1>2, <1>n
      <4>2. (a \o b)[m] = b[m - (h + n + 2)] BY <4>1, <2>5
      <4> QED BY <4>1, <4>2, <2>2
    <3> QED BY <3>1, <3>2
  <2> QED BY <2>4, <2>5, <2>6, <2>7, <2>8
<1> QED BY <1>1, <1>7 DEF n, h

\* A frame at the front is one that try_decode_packet accepts.
LEMMA FrameIsValid ==
  ASSUME NEW s \in Seq(Byte), FrameAtHead(s)
  PROVE  /\ Missing(s) = 0 /\ Valid(s)
         /\ s = Encode(PayloadOf(s)) \o SubSeq(s, FrameLen(s) + 1, Len(s))
<1>0. Len(s) \in Nat BY LenProperties
<1>1. PICK h \in {2, 3}, n \in 1 .. MaxPl :
        /\ h + n + 3 <= Len(s)
        /\ SubSeq(s, 1, h + n + 3) = Encode(SubSeq(s, h + 1, h + n))
  BY DEF FrameAtHead
<1> DEFINE p == SubSeq(s, h + 1, h + n)
           f == h + n + 3
<1>2. n \in Nat /\ n >= 1 /\ n <= MaxPl /\ f \in Nat /\ f \in 1 .. Len(s) BY <1>0, <1>1, Constants
<1>3. p \in Seq(Byte) /\ Len(p) = n
  <2>1. h + 1 \in Nat \ {0} /\ h + n \in 0 .. Len(s) /\ h + 1 <= h + n /\ (h + n) - (h + 1) + 1 = n
    BY <1>0, <1>1, <1>2
  <2> QED BY <2>1, PartIsSeq
<1>4. p \in Payload
  <2>1. p \in [1 .. n -> Byte] BY <1>3, LenProperties
  <2> QED BY <2>1 DEF Payload
<1>5. SubSeq(s, 1, f) \in Seq(Byte) /\ Len(SubSeq(s, 1, f)) = f
      /\ \A i \in 1 .. f : SubSeq(s, 1, f)[i] = s[i]
  <2>1. 1 \in Nat \ {0} /\ f \in 0 .. Len(s) /\ 1 <= f /\ f - 1 + 1 = f BY <1>0, <1>2
  <2>2. \A i \in 1 .. f : 1 + i - 1 = i BY <1>2
  <2> QED BY <2>1, <2>2, PartIsSeq
<1>6. SubSeq(s, 1, f) = Encode(p) BY <1>1
<1> HIDE DEF p
<1>7. /\ Len(Header(n)) + n + 3 = f
      /\ \A i \in 1 .. Len(Header(n)) : Encode(p)[i] = Header(n)[i]
      /\ \A i \in 1 .. 2 : Encode(p)[Len(Header(n)) + n + i] = Crc(p)[i]
      /\ Encode(p)[f] = 3
  BY <1>3, <1>4, <1>5, <1>6, EncodeShape
<1>8. Len(Header(n)) = h /\ DOMAIN Header(n) = 1 .. h BY <1>2, <1>7, HeaderShape
<1>9. \A i \in DOMAIN Header(n) : s[i] = Header(n)[i]
  <2>1. \A i \in 1 .. h : i \in 1 .. f BY <1>2
  <2> QED BY <2>1, <1>5, <1>6, <1>7, <1>8
<1>10. /\ s # <<>> /\ IsStart(s) /\ s[1] = h /\ Len(s) >= s[1]
       /\ PayloadLen(s) = n /\ LenOK(s) /\ FrameLen(s) = f
  <2>1. Len(s) >= Len(Header(n)) BY <1>0, <1>2, <1>8
  <2> QED BY <2>1, <1>8, <1>9, HeaderMatch
<1>11. Missing(s) = 0
  <2>1. ~(Len(s) < f) BY <1>0, <1>2
  <2> QED BY <2>1, <1>10, MissingFacts
<1>12. PayloadOf(s) = p BY <1>10 DEF PayloadOf, p
<1>13. Valid(s)
  <2>1. s[f] = 3 BY <1>2, <1>5, <1>6, <1>7
  <2>2. SubSeq(s, f - 2, f - 1) = Crc(p)
    <3>1. f - 2 \in Nat \ {0} /\ f - 1 \in 0 .. Len(s) /\ f - 2 <= f - 1
          /\ (f - 1) - (f - 2) + 1 = 2
      BY <1>0, <1>2
    <3>2. SubSeq(s, f - 2, f - 1) \in Seq(Byte) /\ Len(SubSeq(s, f - 2, f - 1)) = 2
          /\ \A i \in 1 .. 2 : SubSeq(s, f - 2, f - 1)[i] = s[f - 2 + i - 1]
      BY <3>1, PartIsSeq
    <3>3. \A i \in 1 .. 2 : f - 2 + i - 1 \in 1 .. f /\ f - 2 + i - 1 = Len(Header(n)) + n + i
      BY <1>2, <1>8
    <3>4. \A i \in 1 .. 2 : SubSeq(s, f - 2, f - 1)[i] = Crc(p)[i]
      BY <3>2, <3>3, <1>5, <1>6, <1>7
    <3>5. Crc(p) \in [1 .. 2 -> Byte] BY <1>4, PacketAssumption
    <3>6. SubSeq(s, f - 2, f - 1) \in [1 .. 2 -> Byte] BY <3>2, LenProperties
    <3> QED BY <3>4, <3>5, <3>6
  <2> QED BY <2>1, <2>2, <1>10, <1>12 DEF Valid
<1>14. s = Encode(p) \o SubSeq(s, f + 1, Len(s))
  <2>1. 1 \in 1 .. Len(s) + 1 /\ f \in 1 - 1 .. Len(s) /\ Len(s) \in f .. Len(s) BY <1>0, <1>2
  <2>2. SubSeq(s, 1, f) \o SubSeq(s, f + 1, Len(s)) = SubSeq(s, 1, Len(s))
    BY <2>1, ConcatAdjacentSubSeq
  <2> QED BY <2>2, <1>6, SubSeqFull
<1> QED BY <1>10, <1>11, <1>12, <1>13, <1>14

\* A frame that has begun is one that try_decode_packet waits for.
LEMMA BegunIsMissing ==
  ASSUME NEW s \in Seq(Byte), FrameBegun(s)
  PROVE  Missing(s) > 0
<1>0. Len(s) \in Nat /\ DOMAIN s = 1 .. Len(s) BY LenProperties
<1>1. PICK n \in 1 .. MaxPl :
        /\ Len(s) < Len(Header(n)) + n + 3
        /\ \A i \in DOMAIN Header(n) \cap DOMAIN s : s[i] = Header(n)[i]
  BY DEF FrameBegun
<1>2. CASE s = <<>>
  <2>1. Missing(s) = 1 BY <1>2, MissingFacts
  <2> QED BY <2>1
<1>3. CASE s # <<>>
  <2>1. Len(s) > 0 BY <1>0, <1>3, EmptySeq
  <2>2. s[1] = Len(Header(n)) /\ IsStart(s)
    <3>1. Header(n)[1] = Len(Header(n)) /\ Len(Header(n)) \in {2, 3} /\ 1 \in DOMAIN Header(n)
      BY HeaderShape
    <3>2. 1 \in DOMAIN s BY <2>1, <1>0
    <3> QED BY <3>1, <3>2, <1>1 DEF IsStart
  <2>3. CASE Len(s) < s[1]
    <3>1. Missing(s) = s[1] - Len(s) BY <2>2, <2>3, <1>3, MissingFacts
    <3> QED BY <3>1, <2>2, <2>3, <1>0, HeaderShape
  <2>4. CASE Len(s) >= s[1]
    <3>1. \A i \in DOMAIN Header(n) : s[i] = Header(n)[i]
      BY <2>2, <2>4, <1>0, <1>1, HeaderShape
    <3>2. LenOK(s) /\ FrameLen(s) = Len(Header(n)) + n + 3
      BY <3>1, <2>2, <2>4, HeaderMatch
    <3>3. Missing(s) = FrameLen(s) - Len(s) BY <3>2, <2>2, <2>4, <1>1, <1>3, MissingFacts
    <3> QED BY <3>2, <3>3, <1>0, <1>1, HeaderShape, Constants
  <2> QED BY <2>2, <2>3, <2>4, <1>0, HeaderShape
<1> QED BY <1>2, <1>3

LEMMA HeadIsDelivered ==
  ASSUME PacketInv, Next, pc = "scan", FrameAtHead(data)
  PROVE  got' # <<>> /\ data = Encode(got') \o data'
<1>0. data \in Seq(Byte) BY DEF PacketInv, PacketTypeOK
<1>1. Missing(data) = 0 /\ Valid(data) BY <1>0, FrameIsValid
<1>2. Deliver BY <1>1 DEF Next, Scan, Receive, Reset, Skip, Wait
<1>3. got' # <<>> BY <1>0, <1>1, <1>2, PayloadOfType, ValidFits, EmptySeq DEF Deliver
<1> QED BY <1>0, <1>2, <1>3, FrameIsValid DEF Deliver

\* No frame is lost, whatever came before it.
THEOREM NoFrameIsLost == Spec => LosesNoFrame
<1>1. PacketInv /\ [Next]_vars =>
        [ pc = "scan" =>
            /\ FrameAtHead(data) => got' # <<>> /\ data = Encode(got') \o data'
            /\ FrameBegun(data) => data' = data /\ got' = got
            /\ data' # data => Framed(data, got', data') \/ data' = Tail(data) ]_vars
  <2> SUFFICES ASSUME PacketInv, Next, pc = "scan"
               PROVE  /\ FrameAtHead(data) => got' # <<>> /\ data = Encode(got') \o data'
                      /\ FrameBegun(data) => data' = data /\ got' = got
                      /\ data' # data => Framed(data, got', data') \/ data' = Tail(data)
    OBVIOUS
  <2>0. data \in Seq(Byte) BY DEF PacketInv, PacketTypeOK
  <2>1. Deliver \/ Skip \/ Wait BY DEF Next, Scan, Receive, Reset
  <2>2. ASSUME FrameAtHead(data) PROVE got' # <<>> /\ data = Encode(got') \o data'
    BY <2>2, HeadIsDelivered
  <2>3. ASSUME FrameBegun(data) PROVE data' = data /\ got' = got
    BY <2>0, <2>1, <2>3, BegunIsMissing DEF Deliver, Skip, Wait
  <2>4. data' # data => Framed(data, got', data') \/ data' = Tail(data)
    BY <2>0, <2>1, ValidIsFramed DEF Deliver, Skip, Wait
  <2> QED BY <2>2, <2>3, <2>4
<1> QED BY <1>1, PacketInvariant, PTL DEF Spec, LosesNoFrame

(***************************************************************************)
(* What is sent is what is received.  No frame is the beginning of         *)
(* another one, so that a stream can be cut into frames in one way only.   *)
(***************************************************************************)
LEMMA HeaderInjective ==
  ASSUME NEW m \in 1 .. MaxPl, NEW n \in 1 .. MaxPl,
         Len(Header(m)) = Len(Header(n)),
         \A i \in 1 .. Len(Header(m)) : Header(m)[i] = Header(n)[i]
  PROVE  m = n
<1>0. m \in Nat /\ n \in Nat BY Constants
<1>1. CASE Len(Header(m)) = 2
  <2>1. Header(m)[2] = Header(n)[2] BY <1>1
  <2> QED BY <1>1, <2>1, HeaderShape
<1>2. CASE Len(Header(m)) = 3
  <2>1. Header(m)[2] = Header(n)[2] /\ Header(m)[3] = Header(n)[3] BY <1>2
  <2>2. m \div Radix = n \div Radix /\ m % Radix = n % Radix BY <1>2, <2>1, HeaderShape
  <2>3. /\ m = (m \div Radix) * Radix + (m % Radix)
        /\ n = (n \div Radix) * Radix + (n % Radix)
    BY <1>0, DivMod
  <2> QED BY <2>2, <2>3
<1> QED BY <1>1, <1>2, HeaderShape

LEMMA CancelLeft ==
  ASSUME NEW s \in Seq(Nat), NEW t \in Seq(Nat), NEW v \in Seq(Nat), s \o t = s \o v
  PROVE  t = v
BY ConcatSimplifications, Zenon

LEMMA FrontOfConcat ==
  ASSUME NEW s \in Seq(Nat), NEW t \in Seq(Nat)
  PROVE  \A i \in 1 .. Len(s) : (s \o t)[i] = s[i]
BY ConcatProperties, LenProperties

\* A name for concatenation that the provers leave alone.
Cat(s, t) == s \o t

LEMMA CatFacts ==
  /\ \A s, t \in Seq(Nat) : Cat(s, t) \in Seq(Nat)
  /\ \A s, t, u \in Seq(Nat) : Cat(Cat(s, t), u) = Cat(s, Cat(t, u))
<1>1. ASSUME NEW s \in Seq(Nat), NEW t \in Seq(Nat), NEW u \in Seq(Nat)
      PROVE  (s \o t) \o u = s \o (t \o u)
  BY ConcatAssociative
<1>2. \A s, t, u \in Seq(Nat) : Cat(Cat(s, t), u) = Cat(s, Cat(t, u)) BY <1>1 DEF Cat
<1>3. \A s, t \in Seq(Nat) : Cat(s, t) \in Seq(Nat) BY ConcatProperties DEF Cat
<1> QED BY <1>2, <1>3

LEMMA Regroup ==
  \A h, p, c, t, r \in Seq(Nat) :
    /\ Cat(Cat(c, t), r) \in Seq(Nat) /\ Cat(p, Cat(Cat(c, t), r)) \in Seq(Nat)
    /\ Cat(Cat(Cat(Cat(h, p), c), t), r) = Cat(h, Cat(p, Cat(Cat(c, t), r)))
<1> TAKE h, p, c, t, r \in Seq(Nat)
<1>1. Cat(c, t) \in Seq(Nat) /\ Cat(h, p) \in Seq(Nat) BY CatFacts
<1>2. Cat(Cat(c, t), r) \in Seq(Nat) BY <1>1, CatFacts
<1>3. Cat(Cat(Cat(h, p), c), t) = Cat(Cat(h, p), Cat(c, t)) BY <1>1, CatFacts
<1>4. Cat(Cat(Cat(h, p), Cat(c, t)), r) = Cat(Cat(h, p), Cat(Cat(c, t), r)) BY <1>1, CatFacts
<1>5. Cat(Cat(h, p), Cat(Cat(c, t), r)) = Cat(h, Cat(p, Cat(Cat(c, t), r))) BY <1>2, CatFacts
<1> QED BY <1>2, <1>3, <1>4, <1>5, CatFacts

Trailer(p) == Crc(p) \o <<3>>

LEMMA EncodeParts ==
  ASSUME NEW p \in Payload, NEW r \in Seq(Nat)
  PROVE  /\ Encode(p) \in Seq(Nat) /\ Header(Len(p)) \in Seq(Nat) /\ p \in Seq(Nat)
         /\ Trailer(p) \o r \in Seq(Nat) /\ p \o (Trailer(p) \o r) \in Seq(Nat)
         /\ Encode(p) \o r = Header(Len(p)) \o (p \o (Trailer(p) \o r))
<1> DEFINE h == Header(Len(p))
           c == Crc(p)
           t == <<3>>
<1>1. p \in Seq(Byte) /\ p \in Seq(Nat) /\ Encode(p) \in Seq(Nat) /\ h \in Seq(Nat)
  BY EncodeShape, BytesAreNat, HeaderShape
<1>2. c \in Seq(Nat)
  <2>1. c \in [1 .. 2 -> Byte] BY PacketAssumption
  <2>2. c \in Seq(Byte) BY <2>1, FunctionIsSeq
  <2> QED BY <2>2, BytesAreNat
<1>3. t \in Seq(Nat) OBVIOUS
<1>4. Encode(p) = Cat(Cat(Cat(h, p), c), t) BY DEF Encode, Cat
<1>5. Trailer(p) = Cat(c, t) BY DEF Trailer, Cat
<1> HIDE DEF h, c, t
<1>6. /\ Cat(Trailer(p), r) \in Seq(Nat) /\ Cat(p, Cat(Trailer(p), r)) \in Seq(Nat)
      /\ Cat(Encode(p), r) = Cat(h, Cat(p, Cat(Trailer(p), r)))
  <2>1. p \in Seq(Nat) /\ h \in Seq(Nat) BY <1>1
  <2>2. /\ Cat(Cat(c, t), r) \in Seq(Nat) /\ Cat(p, Cat(Cat(c, t), r)) \in Seq(Nat)
        /\ Cat(Cat(Cat(Cat(h, p), c), t), r) = Cat(h, Cat(p, Cat(Cat(c, t), r)))
    BY <2>1, <1>2, <1>3, Regroup
  <2> QED BY <2>2, <1>4, <1>5, Zenon
<1> QED BY <1>1, <1>6 DEF h, Cat

\* A stream of frames can be cut in one way only: packet_send_packet writes no frame
\* that is the beginning of another frame.
THEOREM FramesAreUnambiguous ==
  ASSUME NEW p \in Payload, NEW q \in Payload, NEW r \in Seq(Nat), NEW s \in Seq(Nat),
         Encode(p) \o r = Encode(q) \o s
  PROVE  p = q /\ r = s
<1> DEFINE m == Len(p)
           n == Len(q)
           e == Encode(p) \o r
<1>1. /\ m \in 1 .. MaxPl /\ n \in 1 .. MaxPl
      /\ Encode(p) \in Seq(Nat) /\ Encode(q) \in Seq(Nat)
      /\ Len(Encode(p)) = Len(Header(m)) + m + 3 /\ Len(Encode(q)) = Len(Header(n)) + n + 3
      /\ \A i \in 1 .. Len(Header(m)) : Encode(p)[i] = Header(m)[i]
      /\ \A i \in 1 .. Len(Header(n)) : Encode(q)[i] = Header(n)[i]
  BY EncodeShape
<1>2. Len(Header(m)) \in {2, 3} /\ Len(Header(n)) \in {2, 3} BY <1>1, HeaderShape
<1>3. \A i \in 1 .. Len(Encode(p)) : e[i] = Encode(p)[i] BY <1>1, FrontOfConcat
<1>4. \A i \in 1 .. Len(Encode(q)) : e[i] = Encode(q)[i] BY <1>1, FrontOfConcat
<1>5. /\ 1 .. Len(Header(m)) \subseteq 1 .. Len(Encode(p))
      /\ 1 .. Len(Header(n)) \subseteq 1 .. Len(Encode(q))
  <2>1. m \in Nat /\ n \in Nat BY <1>1, Constants
  <2>2. Len(Header(m)) <= Len(Encode(p)) /\ Len(Header(n)) <= Len(Encode(q))
    BY <2>1, <1>1, <1>2
  <2>3. Len(Encode(p)) \in Nat /\ Len(Encode(q)) \in Nat BY <1>1, LenProperties
  <2> QED BY <2>2, <2>3, <1>2
<1> HIDE DEF e, m, n
<1>6. /\ \A i \in 1 .. Len(Header(m)) : e[i] = Header(m)[i]
      /\ \A i \in 1 .. Len(Header(n)) : e[i] = Header(n)[i]
  BY <1>1, <1>3, <1>4, <1>5
<1>7. Len(Header(m)) = Len(Header(n))
  <2>1. e[1] = Header(m)[1] /\ e[1] = Header(n)[1] BY <1>2, <1>6
  <2> QED BY <2>1, <1>1, HeaderShape
<1>8. m = n BY <1>1, <1>6, <1>7, HeaderInjective
<1> DEFINE x == Trailer(p) \o r
           y == Trailer(q) \o s
<1>9. /\ Header(m) \in Seq(Nat) /\ p \in Seq(Nat) /\ q \in Seq(Nat) /\ x \in Seq(Nat) /\ y \in Seq(Nat)
      /\ p \o x \in Seq(Nat) /\ q \o y \in Seq(Nat)
      /\ Header(m) \o (p \o x) = Header(m) \o (q \o y)
  BY <1>8, EncodeParts DEF m, n
<1> HIDE DEF x, y
<1>10. p \o x = q \o y BY <1>9, CancelLeft
<1>11. p = q
  <2>1. Len(p) = Len(q) BY <1>8 DEF m, n
  <2>2. ASSUME NEW i \in 1 .. Len(p) PROVE p[i] = q[i]
    <3>1. (p \o x)[i] = p[i] BY <1>9, ConcatProperties, LenProperties
    <3>2. (q \o y)[i] = q[i] BY <2>1, <1>9, ConcatProperties, LenProperties
    <3> QED BY <3>1, <3>2, <1>10
  <2> QED BY <2>1, <2>2, <1>9, SeqEqual
<1>12. r = s BY <1>1, <1>11, CancelLeft
<1> QED BY <1>11, <1>12

LEMMA CutOneWay ==
  \A p, q \in Payload, r, s \in Seq(Nat) : Cat(Encode(p), r) = Cat(Encode(q), s) => p = q /\ r = s
BY FramesAreUnambiguous DEF Cat

LEMMA EncodedIsAtHead ==
  ASSUME NEW p \in Payload, NEW r \in Seq(Nat)
  PROVE  FrameAtHead(Encode(p) \o r)
<1> DEFINE n == Len(p)
           h == Len(Header(n))
           s == Encode(p) \o r
           x == Trailer(p) \o r
<1>1. /\ n \in 1 .. MaxPl /\ h \in {2, 3}
      /\ Encode(p) \in Seq(Nat) /\ Len(Encode(p)) = h + n + 3
  BY EncodeShape, HeaderShape
<1>2. Len(r) \in Nat /\ n \in Nat /\ n >= 1 BY <1>1, LenProperties, Constants
<1>3. s \in Seq(Nat) /\ Len(s) = h + n + 3 + Len(r)
  <2>1. s \in Seq(Nat) /\ Len(s) = Len(Encode(p)) + Len(r) BY <1>1, ConcatProperties
  <2> QED BY <2>1, <1>1
<1>4. SubSeq(s, 1, h + n + 3) = Encode(p)
  <2>1. SubSeq(s, 1, Len(Encode(p))) = SubSeq(Encode(p), 1, Len(Encode(p)))
    BY <1>1, <1>2, SubSeqOfConcat1
  <2> QED BY <2>1, <1>1, SubSeqFull
<1>5. /\ Header(n) \in Seq(Nat) /\ p \in Seq(Nat) /\ x \in Seq(Nat) /\ p \o x \in Seq(Nat)
      /\ s = Header(n) \o (p \o x)
  BY EncodeParts
<1> HIDE DEF s, x
<1>6. SubSeq(s, h + 1, h + n) = p
  <2>1. Len(p \o x) = n + Len(x) /\ Len(x) \in Nat BY <1>5, ConcatProperties, LenProperties
  <2>2. /\ h + 1 \in Len(Header(n)) + 1 .. Len(Header(n)) + Len(p \o x)
        /\ h + n \in Len(Header(n)) + 1 .. Len(Header(n)) + Len(p \o x)
    BY <2>1, <1>1, <1>2
  <2>3. SubSeq(s, h + 1, h + n) = SubSeq(p \o x, h + 1 - h, h + n - h)
    BY <2>2, <1>5, SubSeqOfConcat2
  <2>4. h + 1 - h = 1 /\ h + n - h = n BY <1>1, <1>2
  <2>5. SubSeq(p \o x, 1, n) = SubSeq(p, 1, n)
    BY <1>2, <1>5, SubSeqOfConcat1
  <2> QED BY <2>3, <2>4, <2>5, <1>5, SubSeqFull
<1>7. h + n + 3 <= Len(s) BY <1>1, <1>2, <1>3 DEF s
<1> QED BY <1>1, <1>4, <1>6, <1>7 DEF FrameAtHead, s

\* The decoder undoes packet_send_packet: where a frame that it has made lies at the front
\* of what was received, the next turn gives process_func the payload that was sent, and
\* leaves exactly what came after the frame, for every payload and checksum.
THEOREM ReceivedAsSent ==
  Spec => [][ \A p \in Payload, r \in Seq(Byte) :
                pc = "scan" /\ data = Encode(p) \o r => got' = p /\ data' = r ]_vars
<1>1. PacketInv /\ PacketInv' /\ [Next]_vars =>
        [ \A p \in Payload, r \in Seq(Byte) :
            pc = "scan" /\ data = Encode(p) \o r => got' = p /\ data' = r ]_vars
  <2> SUFFICES ASSUME PacketInv, PacketInv', Next, NEW p \in Payload, NEW r \in Seq(Byte),
                      pc = "scan", data = Encode(p) \o r
               PROVE  got' = p /\ data' = r
    OBVIOUS
  <2>1. data \in Seq(Byte) /\ data' \in Seq(Byte) /\ got' \in Payload \cup {<<>>}
    BY DEF PacketInv, PacketTypeOK
  <2>2. r \in Seq(Nat) /\ data' \in Seq(Nat) BY <2>1, BytesAreNat
  <2>3. FrameAtHead(data) BY <2>2, EncodedIsAtHead
  <2>4. got' # <<>> /\ data = Encode(got') \o data' BY <2>3, HeadIsDelivered
  <2>5. got' \in Payload BY <2>1, <2>4
  <2>6. PICK q \in Payload, s \in Seq(Nat) : q = got' /\ s = data' BY <2>2, <2>5
  <2>7. Cat(Encode(p), r) = Cat(Encode(q), s) BY <2>4, <2>6 DEF Cat
  <2>8. p = q /\ r = s BY <2>2, <2>7, CutOneWay
  <2> QED BY <2>6, <2>8
<1> QED BY <1>1, PacketInvariant, PTL DEF Spec

(***************************************************************************)
(* The decoding loop.                                                      *)
(***************************************************************************)
\* Every turn of the decoding loop takes bytes away or ends it: it has at most as many
\* turns as rx_buffer has bytes, whatever they are.
THEOREM ScanShortens ==
  Spec => [][ pc = "scan" => pc' = "idle" \/ Len(data') < Len(data) ]_<<data, read, left, pc>>
<1>1. PacketInv /\ [Next]_vars =>
        [ pc = "scan" => pc' = "idle" \/ Len(data') < Len(data) ]_<<data, read, left, pc>>
  <2> SUFFICES ASSUME PacketInv, Next, pc = "scan" PROVE pc' = "idle" \/ Len(data') < Len(data)
    BY DEF vars
  <2>0. data \in Seq(Byte) /\ Len(data) \in Nat BY LenProperties DEF PacketInv, PacketTypeOK
  <2>1. CASE Deliver
    <3>1. FrameLen(data) \in 1 .. Len(data) BY <2>0, <2>1, ValidFits DEF Deliver
    <3>2. FrameLen(data) + 1 \in Nat \ {0} /\ Len(data) \in 0 .. Len(data) BY <3>1, <2>0
    <3>3. Len(data') = Len(data) - FrameLen(data)
      BY <3>1, <3>2, <2>0, <2>1, PartIsSeq DEF Deliver
    <3> QED BY <3>1, <3>3, <2>0
  <2>2. CASE Skip
    <3>1. data # <<>> BY <2>0, <2>2, MissingFacts DEF Skip
    <3>2. Len(data') = Len(data) - 1 BY <3>1, <2>0, <2>2, HeadTailProperties DEF Skip
    <3> QED BY <3>2, <2>0
  <2>3. CASE Wait BY <2>3 DEF Wait
  <2> QED BY <2>1, <2>2, <2>3 DEF Next, Scan, Receive, Reset
<1> QED BY <1>1, PacketInvariant, PTL DEF Spec
=============================================================================
