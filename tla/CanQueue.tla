----------------------------- MODULE CanQueue -----------------------------
(***************************************************************************)
(* What the receive ring of comm_can.c promises the thread that processes  *)
(* frames: a queue of bounded length.  A frame that comes when the queue   *)
(* is full takes all that are waiting with it; the frame that was taken    *)
(* out already stays what it is until it has been handed over.             *)
(***************************************************************************)
EXTENDS Naturals, Sequences

CONSTANTS Frames, Capacity, NoFrame

VARIABLES queue,   \* frames received and not yet taken
          cur      \* the frame being handed over, or NoFrame

qvars == <<queue, cur>>

QInit == queue = <<>> /\ cur = NoFrame

Put(f) == Len(queue) < Capacity /\ queue' = Append(queue, f) /\ UNCHANGED cur

Overflow == Len(queue) = Capacity /\ queue' = <<>> /\ UNCHANGED cur

Take ==
  /\ cur = NoFrame /\ queue # <<>>
  /\ cur' = Head(queue) /\ queue' = Tail(queue)

HandOver == cur # NoFrame /\ cur' = NoFrame /\ UNCHANGED queue

QNext == (\E f \in Frames : Put(f)) \/ Overflow \/ Take \/ HandOver

QSpec == QInit /\ [][QNext]_qvars
===========================================================================
