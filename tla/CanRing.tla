------------------------------ MODULE CanRing ------------------------------
(***************************************************************************)
(* comm/comm_can.c: the ring of received frames between cancom_read_thread *)
(* and cancom_process_thread.                                              *)
(*                                                                         *)
(* The read thread has the higher priority, so that storing a frame and    *)
(* signalling the other thread is one step for that one.  The process      *)
(* thread takes a pointer into the ring under can_rx_mtx and copies the    *)
(* frame, a struct of several words, after it has given the mutex back:    *)
(* the read thread can store a frame before the copy and in the middle of  *)
(* it.  The copy is made in two steps here, and is Torn when its two parts *)
(* come from different frames.  decode_msg works on the copy.              *)
(***************************************************************************)
EXTENDS Naturals, Sequences

CONSTANTS Frames,    \* what can be received
          NoFrame,
          Torn,      \* the first words of one frame with the rest of another
          Size       \* RX_FRAMES_SIZE

ASSUME RingAssumption ==
  /\ Size \in Nat /\ Size > 1
  /\ NoFrame \notin Frames /\ Torn \notin Frames /\ Torn # NoFrame

VARIABLES slots,   \* rx_frames
          read,    \* frame_read
          write,   \* frame_write
          event,   \* is the event of process_tp pending?
          proc,    \* where cancom_process_thread is
          taken,   \* rxmsg_tmp
          msg      \* rxmsg, the copy

ringVars == <<slots, read, write, event, proc, taken, msg>>

RingInit ==
  /\ slots = [i \in 0 .. Size - 1 |-> NoFrame]
  /\ read = 0 /\ write = 0 /\ taken = 0
  /\ event = FALSE /\ proc = "wait" /\ msg = NoFrame

\* Mutant: the index runs one slot too far.
IncLate(i) == IF i = Size THEN 0 ELSE i + 1

Inc(i) == IF i + 1 = Size THEN 0 ELSE i + 1

\* cancom_read_thread: no test for a full ring.
Receive(f) ==
  /\ slots' = [slots EXCEPT ![write] = f]
  /\ write' = Inc(write)
  /\ event' = TRUE
  /\ UNCHANGED <<read, proc, taken, msg>>

Wake ==
  /\ proc = "wait" /\ event
  /\ event' = FALSE /\ proc' = "get"
  /\ UNCHANGED <<slots, read, write, taken, msg>>

\* Mutant: the index is increased before it is used.
GetNextFrame ==
  /\ proc = "get" /\ read # write
  /\ taken' = Inc(read) /\ read' = Inc(read) /\ proc' = "copy"
  /\ UNCHANGED <<slots, write, event, msg>>

\* comm_can_get_rx_frame: a pointer to the oldest frame.
GetFrame ==
  /\ proc = "get" /\ read # write
  /\ taken' = read /\ read' = Inc(read) /\ proc' = "copy"
  /\ UNCHANGED <<slots, write, event, msg>>

GetNothing ==
  /\ proc = "get" /\ read = write
  /\ proc' = "wait"
  /\ UNCHANGED <<slots, read, write, event, taken, msg>>

\* The copy is begun.
CopyHead ==
  /\ proc = "copy" /\ proc' = "rest"
  /\ msg' = slots[taken]
  /\ UNCHANGED <<slots, read, write, event, taken>>

Together(a, b) == IF a = b THEN a ELSE Torn

\* The copy is completed from the words that the slot holds now.
CopyRest ==
  /\ proc = "rest" /\ proc' = "decode"
  /\ msg' = Together(msg, slots[taken])
  /\ UNCHANGED <<slots, read, write, event, taken>>

\* Mutant: one frame is processed for each event.
DecodeOne ==
  /\ proc = "decode" /\ proc' = "wait"
  /\ UNCHANGED <<slots, read, write, event, taken, msg>>

\* decode_msg has run on the copy.
Decode ==
  /\ proc = "decode" /\ proc' = "get"
  /\ UNCHANGED <<slots, read, write, event, taken, msg>>

RingProcess == Wake \/ GetFrame \/ GetNothing \/ CopyHead \/ CopyRest \/ Decode

RingNext == (\E f \in Frames : Receive(f)) \/ RingProcess

RingSpec == RingInit /\ [][RingNext]_ringVars /\ WF_ringVars(RingProcess)

(***************************************************************************)
(* Properties.                                                             *)
(***************************************************************************)
RingTypeOK ==
  /\ slots \in [0 .. Size - 1 -> Frames \cup {NoFrame}]
  /\ read \in 0 .. Size - 1 /\ write \in 0 .. Size - 1 /\ taken \in 0 .. Size - 1
  /\ event \in BOOLEAN
  /\ proc \in {"wait", "get", "copy", "rest", "decode"}
  /\ msg \in Frames \cup {NoFrame, Torn}

Unread == IF read <= write THEN write - read ELSE write + Size - read

At(k) == slots[IF read + k < Size THEN read + k ELSE read + k - Size]

Waiting == [k \in 1 .. Unread |-> At(k - 1)]

\* The frame that was taken and not yet decoded: what the copy will be, or is.
InHand ==
  CASE proc = "copy"   -> slots[taken]
    [] proc = "rest"   -> Together(msg, slots[taken])
    [] proc = "decode" -> msg
    [] OTHER           -> NoFrame

Queue == INSTANCE CanQueue WITH Capacity <- Size - 1, queue <- Waiting, cur <- InHand

\* The one step that spoils the frame in hand: it is being copied, Size - 1
\* frames wait behind it, and the next one received takes its slot.
Spoils ==
  /\ proc \in {"copy", "rest"}
  /\ Unread = Size - 1
  /\ \E f \in Frames : Receive(f)

\* Every step but that one is a step of the queue above: frames are decoded
\* once and in the order in which they came, the copy made outside the mutex is
\* the frame that was taken, whole, and frames that wait are lost only when
\* Size - 1 do.
ImplementsQueue == Queue!QInit /\ [][Spoils \/ Queue!QNext]_(Queue!qvars)

\* No frame is forgotten because the event came at the wrong moment: the
\* thread does not wait while frames are in the ring and no event is pending.
NoLostEvent == proc = "wait" /\ read # write => event

\* Frames that wait are taken, unless an overflow clears the ring.
RingDrains == read # write ~> proc = "copy" \/ read = write

\* What the step that spoils a copy can do: a frame is decoded whose parts come
\* from two frames.
FramesWhole == proc = "decode" => msg # Torn
============================================================================
