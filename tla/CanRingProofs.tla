--------------------------- MODULE CanRingProofs ---------------------------
(***************************************************************************)
(* Theorems of CanRing, for every size of the ring: its type, that no      *)
(* event is lost, and that it implements the queue of CanQueue.            *)
(***************************************************************************)
EXTENDS CanRing, SequenceTheorems, TLAPS

(***************************************************************************)
(* The invariant.  The slot that is being copied is the one before         *)
(* frame_read, the slots between frame_read and frame_write hold frames,   *)
(* and a copy is made of frames.                                           *)
(***************************************************************************)
TakenIsBeforeRead ==
  proc \in {"copy", "rest"} => Inc(taken) = read /\ slots[taken] \in Frames

CopyIsFrames == proc \in {"rest", "decode"} => msg # NoFrame

UnreadAreFrames == \A k \in 0 .. Unread - 1 : At(k) \in Frames

RingInv ==
  /\ RingTypeOK
  /\ NoLostEvent
  /\ TakenIsBeforeRead
  /\ UnreadAreFrames
  /\ CopyIsFrames

LEMMA UnreadBounds ==
  ASSUME RingTypeOK
  PROVE  /\ Unread \in 0 .. Size - 1
         /\ Unread = 0 <=> read = write
         /\ Unread = Size - 1 <=> Inc(write) = read
BY RingAssumption DEF RingTypeOK, Unread, Inc

LEMMA IncType == ASSUME NEW i \in 0 .. Size - 1 PROVE Inc(i) \in 0 .. Size - 1
BY RingAssumption DEF Inc

\* What a received frame does to the slots that are waiting.
LEMMA ReceiveUnread ==
  ASSUME RingTypeOK, UnreadAreFrames, NEW f \in Frames, Receive(f), Inc(write) # read
  PROVE  /\ Unread' = Unread + 1
         /\ \A k \in 0 .. Unread - 1 : At(k)' = At(k)
         /\ \A k \in Nat : k = Unread => At(k)' = f
<1>1. Unread' = Unread + 1
  BY RingAssumption DEF RingTypeOK, Receive, Unread, Inc
<1>2. ASSUME NEW k \in 0 .. Unread - 1 PROVE At(k)' = At(k)
  BY <1>2, RingAssumption DEF RingTypeOK, Receive, Unread, At
<1>3. ASSUME NEW k \in Nat, k = Unread PROVE At(k)' = slots'[write]
  <2>1. read' = read BY DEF Receive
  <2>2. (IF read + k < Size THEN read + k ELSE read + k - Size) = write
    BY <1>3, RingAssumption DEF RingTypeOK, Unread
  <2> QED BY <2>1, <2>2 DEF At
<1>4. slots'[write] = f BY DEF RingTypeOK, Receive
<1> QED BY <1>1, <1>2, <1>3, <1>4

LEMMA ReceiveFullRing ==
  ASSUME RingTypeOK, NEW f \in Frames, Receive(f), Inc(write) = read
  PROVE  Unread' = 0
BY RingAssumption DEF RingTypeOK, Receive, Unread, Inc

\* What taking a frame does to them.
LEMMA TakeUnread ==
  ASSUME RingTypeOK, GetFrame
  PROVE  /\ Unread > 0 /\ Unread' = Unread - 1
         /\ \A k \in 0 .. Unread - 2 : At(k)' = At(k + 1)
         /\ At(0) = slots[read]
<1>1. Unread > 0 /\ Unread' = Unread - 1
  BY RingAssumption DEF RingTypeOK, GetFrame, Unread, Inc
<1>2. ASSUME NEW k \in 0 .. Unread - 2 PROVE At(k)' = At(k + 1)
  BY <1>2, RingAssumption DEF RingTypeOK, GetFrame, Unread, At, Inc
<1>3. At(0) = slots[read] BY RingAssumption DEF RingTypeOK, At
<1> QED BY <1>1, <1>2, <1>3

LEMMA RingInitInv == RingInit => RingInv
<1> SUFFICES ASSUME RingInit PROVE RingInv
  OBVIOUS
<1>0. 0 \in 0 .. Size - 1 BY RingAssumption
<1>1. RingTypeOK BY <1>0 DEF RingInit, RingTypeOK
<1>2. Unread = 0 BY DEF RingInit, Unread
<1> QED BY <1>1, <1>2 DEF RingInit, RingInv, NoLostEvent, TakenIsBeforeRead,
                          UnreadAreFrames, CopyIsFrames

LEMMA RingNextInv == RingInv /\ [RingNext]_ringVars => RingInv'
<1> SUFFICES ASSUME RingInv, [RingNext]_ringVars PROVE RingInv'
  OBVIOUS
<1> USE DEF RingInv
<1>1. ASSUME NEW f \in Frames, Receive(f) PROVE RingInv'
  <2>1. RingTypeOK' BY <1>1, IncType DEF RingTypeOK, Receive
  <2>2. NoLostEvent' BY <1>1 DEF Receive, NoLostEvent
  <2>3. TakenIsBeforeRead'
    BY <1>1 DEF Receive, TakenIsBeforeRead, RingTypeOK, Inc
  <2>4. UnreadAreFrames'
    <3>1. CASE Inc(write) = read
      BY <1>1, <3>1, ReceiveFullRing DEF UnreadAreFrames
    <3>2. CASE Inc(write) # read
      <4>0. Unread \in Nat BY UnreadBounds
      <4>1. ASSUME NEW k \in 0 .. Unread PROVE At(k)' \in Frames
        <5>1. CASE k = Unread BY <1>1, <3>2, <5>1, <4>0, ReceiveUnread
        <5>2. CASE k \in 0 .. Unread - 1
          BY <1>1, <3>2, <5>2, ReceiveUnread DEF UnreadAreFrames
        <5> QED BY <5>1, <5>2, <4>0
      <4> QED BY <4>1, <1>1, <3>2, ReceiveUnread, UnreadBounds DEF UnreadAreFrames
    <3> QED BY <3>1, <3>2
  <2>5. CopyIsFrames' BY <1>1 DEF Receive, CopyIsFrames
  <2> QED BY <2>1, <2>2, <2>3, <2>4, <2>5
<1>2. CASE Wake
  BY <1>2 DEF Wake, RingTypeOK, NoLostEvent, TakenIsBeforeRead, UnreadAreFrames,
              CopyIsFrames, Unread, At
<1>3. CASE GetFrame
  <2>1. RingTypeOK' BY <1>3, IncType DEF RingTypeOK, GetFrame
  <2>2. NoLostEvent' BY <1>3 DEF GetFrame, NoLostEvent
  <2>3. TakenIsBeforeRead'
    BY <1>3, TakeUnread, UnreadBounds DEF GetFrame, TakenIsBeforeRead, UnreadAreFrames, Inc
  <2>4. UnreadAreFrames'
    BY <1>3, TakeUnread, UnreadBounds DEF UnreadAreFrames
  <2>5. CopyIsFrames' BY <1>3 DEF GetFrame, CopyIsFrames
  <2> QED BY <2>1, <2>2, <2>3, <2>4, <2>5
<1>4. CASE GetNothing
  BY <1>4 DEF GetNothing, RingTypeOK, NoLostEvent, TakenIsBeforeRead, UnreadAreFrames,
              CopyIsFrames, Unread, At
<1>5. CASE CopyHead
  BY <1>5, RingAssumption DEF CopyHead, RingTypeOK, NoLostEvent, TakenIsBeforeRead,
              UnreadAreFrames, CopyIsFrames, Unread, At, Inc
<1>6. CASE CopyRest
  <2>1. Together(msg, slots[taken]) \in Frames \cup {NoFrame, Torn}
    BY <1>6 DEF CopyRest, RingTypeOK, Together
  <2>2. Together(msg, slots[taken]) # NoFrame
    BY <1>6, RingAssumption DEF CopyRest, CopyIsFrames, Together
  <2> QED
    BY <1>6, <2>1, <2>2 DEF CopyRest, RingTypeOK, NoLostEvent, TakenIsBeforeRead,
              UnreadAreFrames, CopyIsFrames, Unread, At
<1>7. CASE Decode
  BY <1>7 DEF Decode, RingTypeOK, NoLostEvent, TakenIsBeforeRead, UnreadAreFrames,
              CopyIsFrames, Unread, At
<1>8. CASE UNCHANGED ringVars
  BY <1>8 DEF ringVars, RingTypeOK, NoLostEvent, TakenIsBeforeRead, UnreadAreFrames,
              CopyIsFrames, Unread, At, Inc
<1> QED
  BY <1>1, <1>2, <1>3, <1>4, <1>5, <1>6, <1>7, <1>8 DEF RingNext, RingProcess

\* Every index of the ring and of cancom_process_thread keeps its range.
THEOREM RingTypeCorrect == RingSpec => []RingTypeOK
<1>1. RingInv => RingTypeOK BY DEF RingInv
<1> QED BY <1>1, RingInitInv, RingNextInv, PTL DEF RingSpec

\* cancom_process_thread does not wait while the ring holds frames and no
\* event is pending.
THEOREM EventsNotLost == RingSpec => []NoLostEvent
<1>1. RingInv => NoLostEvent BY DEF RingInv
<1> QED BY <1>1, RingInitInv, RingNextInv, PTL DEF RingSpec

(***************************************************************************)
(* The refinement.                                                         *)
(***************************************************************************)
LEMMA WaitingSeq ==
  RingInv => Waiting \in Seq(Frames) /\ Len(Waiting) = Unread
<1> SUFFICES ASSUME RingInv PROVE Waiting \in Seq(Frames) /\ Len(Waiting) = Unread
  OBVIOUS
<1>1. Unread \in Nat BY UnreadBounds DEF RingInv
<1>2. \A k \in 1 .. Unread : At(k - 1) \in Frames
  BY <1>1 DEF RingInv, UnreadAreFrames
<1> QED BY <1>1, <1>2, IsASeq, LenProperties DEF Waiting

LEMMA WaitingSeqNext ==
  RingInv' => (Waiting \in Seq(Frames) /\ Len(Waiting) = Unread)'
BY WaitingSeq, PTL

LEMMA RingInitQueue == RingInit => Queue!QInit
<1> SUFFICES ASSUME RingInit PROVE Queue!QInit
  OBVIOUS
<1>1. Unread = 0 BY DEF RingInit, Unread
<1>2. RingInv BY RingInitInv
<1>3. Waiting = <<>> BY <1>1, <1>2, WaitingSeq, EmptySeq
<1>4. InHand = NoFrame BY DEF RingInit, InHand
<1> QED BY <1>3, <1>4 DEF Queue!QInit

LEMMA RingStepQueue ==
  RingInv /\ RingInv' /\ [RingNext]_ringVars => [Spoils \/ Queue!QNext]_(Queue!qvars)
<1> SUFFICES ASSUME RingInv, RingInv', [RingNext]_ringVars
             PROVE  Spoils \/ Queue!QNext \/ UNCHANGED <<Waiting, InHand>>
  BY DEF Queue!qvars
<1>w. /\ Waiting \in Seq(Frames) /\ Len(Waiting) = Unread
      /\ Waiting' \in Seq(Frames) /\ Len(Waiting') = Unread'
  BY WaitingSeq, WaitingSeqNext
<1>u. Unread \in 0 .. Size - 1 BY UnreadBounds DEF RingInv
<1>1. ASSUME NEW f \in Frames, Receive(f), Inc(write) # read PROVE Queue!Put(f)
  <2>1. Waiting' = Append(Waiting, f)
    <3>1. Len(Append(Waiting, f)) = Unread + 1 /\ Append(Waiting, f) \in Seq(Frames)
      BY <1>w, <1>1, AppendProperties
    <3>2. Unread' = Unread + 1 BY <1>1, ReceiveUnread DEF RingInv
    <3>3. ASSUME NEW i \in 1 .. Unread' PROVE Waiting'[i] = Append(Waiting, f)[i]
      <4>1. Waiting'[i] = At(i - 1)' BY DEF Waiting
      <4>2. CASE i = Unread + 1
        <5>1. Append(Waiting, f)[i] = f BY <4>2, <1>w, <1>1, AppendProperties
        <5>2. At(i - 1)' = f BY <4>2, <1>u, <1>1, ReceiveUnread DEF RingInv
        <5> QED BY <5>1, <5>2, <4>1
      <4>3. CASE i \in 1 .. Unread
        <5>1. At(i - 1)' = At(i - 1) BY <4>3, <1>u, <1>1, ReceiveUnread DEF RingInv
        <5>2. Append(Waiting, f)[i] = Waiting[i] BY <4>3, <1>w, <1>1, AppendProperties
        <5> QED BY <5>1, <5>2, <4>1, <4>3 DEF Waiting
      <4>4. i = Unread + 1 \/ i \in 1 .. Unread BY <3>2, <1>u, RingAssumption
      <4> QED BY <4>2, <4>3, <4>4
    <3> QED BY <3>1, <3>2, <3>3, <1>w, SeqEqual
  <2>2. Len(Waiting) < Size - 1
    <3>1. Unread # Size - 1 BY <1>1, UnreadBounds DEF RingInv
    <3> QED BY <3>1, <1>u, <1>w, RingAssumption
  <2>3. InHand' = InHand
    BY <1>1, RingAssumption
    DEF RingInv, RingTypeOK, Receive, InHand, Together, TakenIsBeforeRead
  <2> QED BY <2>1, <2>2, <2>3 DEF Queue!Put
<1>2. ASSUME NEW f \in Frames, Receive(f), Inc(write) = read
      PROVE  Spoils \/ Queue!Overflow
  <2>0. Unread = Size - 1 BY <1>2, UnreadBounds DEF RingInv
  <2>1. Len(Waiting) = Size - 1 BY <2>0, <1>w
  <2>2. Waiting' = <<>> BY <1>2, <1>w, ReceiveFullRing, EmptySeq DEF RingInv
  <2>3. CASE proc \in {"copy", "rest"} BY <1>2, <2>0, <2>3 DEF Spoils
  <2>4. CASE proc \notin {"copy", "rest"}
    <3>1. InHand' = InHand BY <2>4, <1>2 DEF Receive, InHand
    <3> QED BY <2>1, <2>2, <3>1 DEF Queue!Overflow
  <2> QED BY <2>3, <2>4
<1>3. CASE GetFrame
  <2>1. Waiting # <<>> BY <1>3, <1>w, TakeUnread, EmptySeq DEF RingInv
  <2>2. InHand = NoFrame /\ InHand' = slots[read] BY <1>3 DEF GetFrame, InHand
  <2>3. Head(Waiting) = slots[read]
    <3>1. Waiting[1] = At(0) BY <1>3, <1>u, TakeUnread DEF Waiting, RingInv
    <3> QED BY <3>1, <2>1, <1>w, <1>3, TakeUnread DEF RingInv
  <2>4. Waiting' = Tail(Waiting)
    <3>1. Tail(Waiting) \in Seq(Frames) /\ Len(Tail(Waiting)) = Unread - 1
      BY <2>1, <1>w, HeadTailProperties
    <3>2. Unread' = Unread - 1 BY <1>3, TakeUnread DEF RingInv
    <3>3. ASSUME NEW i \in 1 .. Unread' PROVE Waiting'[i] = Tail(Waiting)[i]
      <4>1. Waiting'[i] = At(i - 1)' BY DEF Waiting
      <4>2. At(i - 1)' = At(i) BY <3>2, <1>u, <1>3, TakeUnread DEF RingInv
      <4>3. Tail(Waiting)[i] = Waiting[i + 1]
        BY <2>1, <1>w, <3>1, <3>2, HeadTailProperties
      <4>4. Waiting[i + 1] = At(i) BY <3>2, <1>u DEF Waiting
      <4> QED BY <4>1, <4>2, <4>3, <4>4
    <3> QED BY <3>1, <3>2, <3>3, <1>w, SeqEqual
  <2> QED BY <2>1, <2>2, <2>3, <2>4 DEF Queue!QNext, Queue!Take
<1>4. CASE Decode
  <2>1. Waiting' = Waiting BY <1>4 DEF Decode, Waiting, Unread, At
  <2>2. InHand # NoFrame /\ InHand' = NoFrame
    BY <1>4 DEF Decode, InHand, RingInv, CopyIsFrames
  <2> QED BY <2>1, <2>2 DEF Queue!QNext, Queue!HandOver
<1>5. CASE CopyHead
  <2>1. Waiting' = Waiting BY <1>5 DEF CopyHead, Waiting, Unread, At
  <2>2. InHand' = InHand BY <1>5 DEF CopyHead, InHand, Together
  <2> QED BY <2>1, <2>2
<1>6. CASE CopyRest
  <2>1. Waiting' = Waiting BY <1>6 DEF CopyRest, Waiting, Unread, At
  <2>2. InHand' = InHand BY <1>6 DEF CopyRest, InHand
  <2> QED BY <2>1, <2>2
<1>7. CASE Wake \/ GetNothing \/ UNCHANGED ringVars
  BY <1>7 DEF Wake, GetNothing, ringVars, Waiting, Unread, At, InHand, Together
<1> QED
  BY <1>1, <1>2, <1>3, <1>4, <1>5, <1>6, <1>7 DEF RingNext, RingProcess, Queue!QNext

\* The receive ring of comm_can.c is the bounded queue of CanQueue in every step
\* but one: frames are decoded once, in order and whole, though the copy is made
\* outside can_rx_mtx, and are lost only when Size - 1 wait.  The step that is
\* not one of the queue is named: a frame stored in the middle of, or before, a
\* copy while Size - 1 others wait, which replaces or tears the copy.
THEOREM RingImplementsQueue == RingSpec => ImplementsQueue
<1> QED BY RingInitInv, RingNextInv, RingInitQueue, RingStepQueue, PTL
        DEF RingSpec, ImplementsQueue
============================================================================
