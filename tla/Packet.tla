------------------------------ MODULE Packet ------------------------------
(***************************************************************************)
(* comm/packet.c: the framing of packets on a byte stream (USB, UART,      *)
(* LoRa) and the decoder that finds the frames again in what arrives.      *)
(*                                                                         *)
(* Any byte may arrive at any time, so that noise, cut frames and bytes of *)
(* one frame that look like the start of another are all included.  Of     *)
(* rx_buffer only the bytes between rx_read_ptr and rx_write_ptr are kept  *)
(* (data): the others are never read.  One step is the arrival of a byte   *)
(* or one turn of the decoding loop.                                       *)
(***************************************************************************)
EXTENDS Naturals, Sequences

CONSTANTS Radix,     \* number of byte values: 256
          MaxPl,     \* PACKET_MAX_PL_LEN
          Crc(_)     \* crc16 of a payload as two bytes, high byte first

Byte == 0 .. Radix - 1
Payload == UNION {[1 .. n -> Byte] : n \in 1 .. MaxPl}

ASSUME PacketAssumption ==
  /\ Radix \in Nat /\ Radix > 3
  /\ MaxPl \in Nat \ {0} /\ MaxPl < Radix * Radix
  /\ \A p \in Payload : Crc(p) \in [1 .. 2 -> Byte]

BufferLen == MaxPl + 8

VARIABLES data,    \* rx_buffer from rx_read_ptr to rx_write_ptr
          read,    \* rx_read_ptr
          left,    \* bytes_left
          pc,      \* "idle": between two calls of packet_process_byte
          got      \* the last packet given to process_func for this byte (history)

vars == <<data, read, left, pc, got>>

(***************************************************************************)
(* packet_send_packet: a length that fits in a byte is sent in one.        *)
(***************************************************************************)
Header(n) == IF n < Radix THEN <<2, n>> ELSE <<3, n \div Radix, n % Radix>>

Encode(p) == Header(Len(p)) \o p \o Crc(p) \o <<3>>

(***************************************************************************)
(* try_decode_packet.  The first byte is also the length of the header.    *)
(***************************************************************************)
IsStart(s) == s[1] \in {2, 3}

PayloadLen(s) == IF s[1] = 2 THEN s[2] ELSE s[2] * Radix + s[3]

\* Mutant: a packet of maximal length is taken for too long.
LenOKBelowMax(s) ==
  /\ IF s[1] = 2 THEN PayloadLen(s) >= 1 ELSE PayloadLen(s) >= Radix - 1
  /\ PayloadLen(s) < MaxPl

LenOK(s) ==
  /\ IF s[1] = 2 THEN PayloadLen(s) >= 1 ELSE PayloadLen(s) >= Radix - 1
  /\ PayloadLen(s) <= MaxPl

FrameLen(s) == s[1] + PayloadLen(s) + 3

\* How many bytes it takes to tell more about the packet; 0: it can be told.
Missing(s) ==
  CASE s = <<>>                     -> 1
    [] s # <<>> /\ ~IsStart(s)      -> 0
    [] s # <<>> /\ IsStart(s) /\ Len(s) < s[1] -> s[1] - Len(s)
    [] OTHER -> IF LenOK(s) /\ Len(s) < FrameLen(s) THEN FrameLen(s) - Len(s) ELSE 0

PayloadOf(s) == SubSeq(s, s[1] + 1, s[1] + PayloadLen(s))

\* Mutant: the CRC is not compared.
ValidNoCrc(s) == IsStart(s) /\ LenOK(s) /\ s[FrameLen(s)] = 3

Valid(s) ==
  /\ IsStart(s) /\ LenOK(s)
  /\ s[FrameLen(s)] = 3
  /\ SubSeq(s, FrameLen(s) - 2, FrameLen(s) - 1) = Crc(PayloadOf(s))

(***************************************************************************)
(* packet_process_byte.  When the buffer ends, what is left is moved to    *)
(* its front.  Nothing is tried while more than one byte is missing.       *)
(***************************************************************************)
\* Mutant: the pointers are kept when the buffer ends.
ReceiveNoShift(b) ==
  /\ pc = "idle"
  /\ data' = IF Len(data) >= BufferLen THEN <<b>> ELSE Append(data, b)
  /\ read' = IF Len(data) >= BufferLen THEN 0 ELSE read
  /\ IF left > 1 THEN left' = left - 1 /\ UNCHANGED pc
                 ELSE pc' = "scan" /\ UNCHANGED left
  /\ got' = <<>>

\* Mutant: the last missing byte is waited for without looking.
ReceiveLate(b) ==
  /\ pc = "idle"
  /\ data' = IF Len(data) >= BufferLen THEN <<b>> ELSE Append(data, b)
  /\ read' = IF Len(data) >= BufferLen \/ read + Len(data) >= BufferLen THEN 0 ELSE read
  /\ IF left > 0 THEN left' = left - 1 /\ UNCHANGED pc
                 ELSE pc' = "scan" /\ UNCHANGED left
  /\ got' = <<>>

Full == Len(data) >= BufferLen

Receive(b) ==
  /\ pc = "idle"
  /\ data' = IF Full THEN <<b>> ELSE Append(data, b)
  /\ read' = IF Full \/ read + Len(data) >= BufferLen THEN 0 ELSE read
  /\ IF Full THEN left' = 0 /\ UNCHANGED pc
     ELSE IF left > 1 THEN left' = left - 1 /\ UNCHANGED pc
     ELSE pc' = "scan" /\ UNCHANGED left
  /\ got' = <<>>

Deliver ==
  /\ pc = "scan" /\ Missing(data) = 0 /\ Valid(data)
  /\ got' = PayloadOf(data)
  /\ data' = SubSeq(data, FrameLen(data) + 1, Len(data))
  /\ read' = read + FrameLen(data)
  /\ left' = 0
  /\ UNCHANGED pc

\* Mutant: an invalid frame is left where it is.
SkipNothing ==
  /\ pc = "scan" /\ Missing(data) = 0 /\ ~Valid(data)
  /\ left' = 0
  /\ UNCHANGED <<data, read, pc, got>>

Skip ==
  /\ pc = "scan" /\ Missing(data) = 0 /\ ~Valid(data)
  /\ data' = Tail(data)
  /\ read' = read + 1
  /\ left' = 0
  /\ UNCHANGED <<pc, got>>

Wait ==
  /\ pc = "scan" /\ Missing(data) > 0
  /\ left' = Missing(data)
  /\ read' = IF data = <<>> THEN 0 ELSE read
  /\ pc' = "idle"
  /\ UNCHANGED <<data, got>>

Reset ==
  /\ pc = "idle"
  /\ data' = <<>> /\ read' = 0 /\ left' = 0
  /\ UNCHANGED <<pc, got>>

Init == data = <<>> /\ read = 0 /\ left = 0 /\ pc = "idle" /\ got = <<>>

Scan == Deliver \/ Skip \/ Wait

Next == (\E b \in Byte : Receive(b)) \/ Scan \/ Reset

Spec == Init /\ [][Next]_vars /\ WF_vars(Scan)

(***************************************************************************)
(* Properties.                                                             *)
(***************************************************************************)
\* The bytes kept and both pointers stay within rx_buffer.
PacketTypeOK ==
  /\ data \in Seq(Byte)
  /\ read \in Nat /\ read + Len(data) <= BufferLen
  /\ left \in Nat
  /\ pc \in {"idle", "scan"}
  /\ got \in Payload \cup {<<>>}

\* Between two bytes the decoder waits for exactly what is missing of the one
\* frame that it has the beginning of.  What it keeps is therefore always
\* shorter than the longest frame: a false start byte delays a frame by less
\* than that, and the branch "Out of space (should not happen)" is not taken.
WaitsForMissing ==
  pc = "idle" =>
    /\ Missing(data) > 0
    /\ left \in {0, Missing(data)}
    /\ left = 0 => data = <<>>
    /\ Len(data) < MaxPl + 6

\* Does s start with a frame as packet_send_packet makes it?
FrameAtHead(s) ==
  \E h \in {2, 3}, n \in 1 .. MaxPl :
    /\ h + n + 3 <= Len(s)
    /\ SubSeq(s, 1, h + n + 3) = Encode(SubSeq(s, h + 1, h + n))

\* May s become a frame, by what there is of its header?
FrameBegun(s) ==
  \E n \in 1 .. MaxPl :
    /\ Len(s) < Len(Header(n)) + n + 3
    /\ \A i \in DOMAIN Header(n) \cap DOMAIN s : s[i] = Header(n)[i]

\* Is s a frame of payload p, with one or two bytes of length, and then rest?
Framed(s, p, rest) ==
  /\ s # <<>> /\ p # <<>> /\ s[1] \in {2, 3}
  /\ SubSeq(s, s[1] + 1, Len(s)) = p \o Crc(p) \o <<3>> \o rest

\* No frame is lost in what was received, whatever came before it: a whole
\* frame at the front is delivered by the next step, which leaves all that
\* came after it, one that has begun is waited for, and of anything else one
\* byte is dropped at a time.
LosesNoFrame ==
  [][ pc = "scan" =>
        /\ FrameAtHead(data) => got' # <<>> /\ data = Encode(got') \o data'
        /\ FrameBegun(data) => data' = data /\ got' = got
        /\ data' # data => Framed(data, got', data') \/ data' = Tail(data) ]_vars

\* What process_func receives was framed with its length and its CRC, and
\* exactly that frame is taken from the stream.
DeliversFrames == [][ got' \notin {got, <<>>} => Framed(data, got', data') ]_vars

\* The decoding loop ends for every byte.
ByteDone == pc = "scan" ~> pc = "idle"
===========================================================================
