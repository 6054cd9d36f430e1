----------------------------- MODULE CanBuffer -----------------------------
(***************************************************************************)
(* comm/comm_can.c: packets longer than a frame on the CAN bus.            *)
(*                                                                         *)
(* comm_can_send_buffer of the other nodes cuts a packet into fragments    *)
(* that name their offset but neither the packet nor the sender, and ends  *)
(* it with a frame that names length, CRC, sender and what to do.  Frames  *)
(* of several nodes interleave and each may be lost.  decode_msg of this   *)
(* node puts them together in rx_buffer and runs the packet.  Replies to   *)
(* blocking commands are sent later, by another thread.                    *)
(*                                                                         *)
(* Fragments are full, so that offsets and fill levels count fragments     *)
(* (a short last fragment gives a level that matches no offset).  A CRC    *)
(* tells any two contents apart.  Packets of at most 6 bytes have no       *)
(* fragments: their only frame is CAN_PACKET_PROCESS_SHORT_BUFFER.  Of the *)
(* way from the bus to decode_msg only what CanRing shows matters here: no *)
(* frame overtakes another, and none is decoded twice.                     *)
(***************************************************************************)
EXTENDS Naturals, Sequences

CONSTANTS Packets,
          Length,      \* [Packets -> Nat]: number of fragments
          NoFrame,
          Sender,      \* [Packets -> node]
          Mode,        \* [Packets -> 0 .. 3]: the argument "send"
          Blocking,    \* packets that go to the blocking thread
          Buffers,     \* RX_BUFFER_NUM
          BufferLen    \* RX_BUFFER_SIZE

Nodes == {Sender[p] : p \in Packets}

\* The frame after the last fragment is CAN_PACKET_PROCESS_*_BUFFER.
Frames == UNION {{[pkt |-> p, i |-> i] : i \in 0 .. Length[p]} : p \in Packets}

ASSUME BufferAssumption ==
  /\ Length \in [Packets -> Nat] /\ Mode \in [Packets -> 0 .. 3]
  /\ Buffers \in Nat \ {0} /\ BufferLen \in Nat
  /\ NoFrame \notin Packets \cup Frames \cup Nodes

VARIABLES job,      \* [Nodes -> frame to be sent next or NoFrame]
          rx,       \* rx_buffer up to rx_buffer_offset
          last,     \* rx_buffer_last_id
          type,     \* rx_buffer_response_type
          asked,    \* packet that the blocking thread works on, or NoFrame
          done,     \* what the last step ran: a packet or NoFrame (history)
          answer,   \* reply sent by the last step: <<packet, to, mode>> or <<>> (history)
          since,    \* packets that ended while asked was worked on (history)
          track     \* the frames just decoded, see Tracked (history)

canVars == <<job, rx, last, type, asked, done, answer, since, track>>

Fragments(p) == [k \in 1 .. Length[p] |-> [pkt |-> p, i |-> k - 1]]

Untracked == [pkt |-> NoFrame, next |-> 0, fails |-> 0]

LastFrame(f) == f.i = Length[f.pkt]

(***************************************************************************)
(* Senders and bus.                                                        *)
(***************************************************************************)
NextFrames(n) ==
  IF job[n] # NoFrame THEN {job[n]}
  ELSE {[pkt |-> p, i |-> 0] : p \in {q \in Packets : Sender[q] = n}}

\* comm_can_send_buffer: the result of a transmission is not looked at.
SendFrame(n, f) ==
  job' = [job EXCEPT ![n] = IF LastFrame(f) THEN NoFrame ELSE [f EXCEPT !.i = f.i + 1]]

Lose(n, f) ==
  /\ SendFrame(n, f)
  /\ done' = NoFrame /\ answer' = <<>>
  /\ track' = Untracked
  /\ UNCHANGED <<rx, last, type, asked, since>>

(***************************************************************************)
(* decode_msg.                                                             *)
(***************************************************************************)
FilledTo(n) == {b \in 1 .. Buffers : Len(rx[b]) = n}

First(S) == CHOOSE b \in S : \A c \in S : b <= c

\* Mutant: a fragment that fits nowhere goes to the first buffer.
FillAnyhow(f) ==
  LET S == IF FilledTo(f.i) # {} THEN FilledTo(f.i) ELSE {1} IN
  rx' = IF f.i + 1 > BufferLen THEN rx ELSE [rx EXCEPT ![First(S)] = Append(@, f)]

\* CAN_PACKET_FILL_RX_BUFFER and its LONG form.
Fill(f) ==
  LET S == IF FilledTo(f.i) # {} THEN FilledTo(f.i) ELSE IF f.i = 0 THEN {1} ELSE {} IN
  rx' = IF S = {} \/ f.i + 1 > BufferLen THEN rx
        ELSE [rx EXCEPT ![First(S)] = Append(SubSeq(@, 1, f.i), f)]

\* Mutant: the CRC is not compared.
CompleteByLength(p) ==
  Length[p] > 0 => Length[p] <= BufferLen /\ FilledTo(Length[p]) # {}

Complete(p) ==
  Length[p] > 0 => /\ Length[p] <= BufferLen
                   /\ FilledTo(Length[p]) # {}
                   /\ rx[First(FilledTo(Length[p]))] = Fragments(p)

\* Mutant: a buffer is emptied only when its packet is run.
EmptyIfComplete(p) ==
  rx' = IF Length[p] > 0 /\ Complete(p)
        THEN [rx EXCEPT ![First(FilledTo(Length[p]))] = <<>>] ELSE rx

\* CAN_PACKET_PROCESS_RX_BUFFER.
Empty(p) ==
  rx' = CASE Length[p] = 0 \/ Length[p] > BufferLen -> rx
          [] FilledTo(Length[p]) = {} -> [b \in 1 .. Buffers |-> <<>>]
          [] OTHER -> [rx EXCEPT ![First(FilledTo(Length[p]))] = <<>>]

\* Mutant: whoever sends a packet is noted.
NoteSenderAlways(p) ==
  last' = Sender[p] /\ type' = IF Mode[p] = 3 THEN 0 ELSE 1

NoteSender(p) ==
  /\ last' = IF Mode[p] \in {0, 3} THEN Sender[p] ELSE last
  /\ type' = IF Mode[p] = 3 THEN 0 ELSE 1

\* commands_process_packet with send_packet_wrapper, commands_send_packet_can_last
\* or commands_process_packet without reply function.
Run(p) ==
  /\ done' = p
  /\ IF p \in Blocking
     THEN asked' = (IF asked = NoFrame THEN p ELSE asked) /\ answer' = <<>>
     ELSE /\ answer' = IF Mode[p] \in {0, 3} THEN <<p, last', type'>> ELSE <<>>
          /\ UNCHANGED asked

\* How often in a row has this packet been sent here without a loss or another
\* frame in between, and not been run?  next counts its frames decoded so far.
Tracked(f) ==
  LET t == IF track.pkt = f.pkt /\ track.next = f.i THEN track
           ELSE IF f.i = 0 THEN [Untracked EXCEPT !.pkt = f.pkt] ELSE Untracked IN
  track' = IF t = Untracked THEN t
           ELSE IF LastFrame(f)
           THEN [t EXCEPT !.next = 0, !.fails = IF done' = f.pkt THEN 0 ELSE @ + 1]
           ELSE [t EXCEPT !.next = @ + 1]

Ignored == done' = NoFrame /\ answer' = <<>> /\ UNCHANGED asked

Fragment(f) == ~LastFrame(f) /\ Fill(f) /\ Ignored /\ UNCHANGED <<last, type, since>>

Process(f) ==
  /\ LastFrame(f)
  /\ NoteSender(f.pkt) /\ Empty(f.pkt)
  /\ IF Complete(f.pkt) THEN Run(f.pkt) ELSE Ignored
  /\ since' = IF asked = NoFrame THEN {} ELSE since \cup {f.pkt}

Deliver(n, f) ==
  /\ SendFrame(n, f)
  /\ Fragment(f) \/ Process(f)
  /\ Tracked(f)

\* The blocking thread replies: send_packet_wrapper takes what the last sender was.
BlockingReply ==
  /\ asked # NoFrame
  /\ answer' = IF Mode[asked] \in {0, 3} THEN <<asked, last, type>> ELSE <<>>
  /\ asked' = NoFrame /\ done' = NoFrame
  /\ UNCHANGED <<job, rx, last, type, since, track>>

CanInit ==
  /\ job = [n \in Nodes |-> NoFrame]
  /\ rx = [b \in 1 .. Buffers |-> <<>>]
  /\ last = NoFrame /\ type = 1
  /\ asked = NoFrame /\ done = NoFrame /\ answer = <<>> /\ since = {}
  /\ track = Untracked

CanNext ==
  \/ \E n \in Nodes : \E f \in NextFrames(n) : Deliver(n, f) \/ Lose(n, f)
  \/ BlockingReply

CanSpec == CanInit /\ [][CanNext]_canVars

(***************************************************************************)
(* Properties.                                                             *)
(***************************************************************************)
\* In every buffer a fragment lies at its own offset, and within the buffer,
\* whichever packets the fragments are of.
CanTypeOK ==
  /\ job \in [Nodes -> Frames \cup {NoFrame}]
  /\ rx \in [1 .. Buffers -> Seq(Frames)]
  /\ \A b \in 1 .. Buffers :
       Len(rx[b]) <= BufferLen /\ \A k \in DOMAIN rx[b] : rx[b][k].i = k - 1
  /\ last \in Nodes \cup {NoFrame} /\ type \in {0, 1}
  /\ since \subseteq Packets
  /\ asked \in Blocking \cup {NoFrame} /\ done \in Packets \cup {NoFrame}

\* A packet is run as its sender sent it or not at all: fragments of several
\* packets in one buffer are never run.
RunsWhatWasSent ==
  [][ \A p \in Packets : done' = p =>
        /\ job[Sender[p]] \in {NoFrame, [pkt |-> p, i |-> Length[p]]}
        /\ Length[p] > 0 => \E b \in 1 .. Buffers : rx[b] = Fragments(p) /\ rx'[b] = <<>> ]_canVars

\* Whatever other senders and losses have left in the buffers, a packet that
\* is sent twice without a loss or another frame in between is run.
RetryDelivers == track.fails <= 1

Answerable(p) == Mode[p] \in {0, 3}

\* The reply to a command goes to the node that sent it and is passed on or run there as
\* the command asked, whatever other nodes send.  So does the reply of the blocking
\* thread, however long it takes, unless in the meantime a packet ended, run or not,
\* that was to be answered to another node, or in another way.
AnswersAsker ==
  answer # <<>> =>
    LET p == answer[1]
        between == IF p \in Blocking THEN since ELSE {} IN
    /\ (\A q \in between : Answerable(q) => Sender[q] = Sender[p]) => answer[2] = Sender[p]
    /\ (\A q \in between : Mode[q] = 3 <=> Mode[p] = 3)
         => answer[3] = (IF Mode[p] = 3 THEN 0 ELSE 1)

\* What the code does not keep: "Packet goes to commands_process_packet of receiver",
\* or "the reply is processed locally", for every reply of the blocking thread.
EveryReplyReturns ==
  answer # <<>> =>
    /\ answer[2] = Sender[answer[1]]
    /\ answer[3] = IF Mode[answer[1]] = 3 THEN 0 ELSE 1
=============================================================================
