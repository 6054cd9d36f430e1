----------------------------- MODULE Commands -----------------------------
(***************************************************************************)
(* comm/commands.c: which link a reply goes to, and the hand-over of       *)
(* blocking commands to their thread.                                      *)
(*                                                                         *)
(* Every link (USB, each UART, CAN, radio) calls commands_process_packet   *)
(* from a thread of its own.  The threads and the blocking thread share    *)
(* the processor in slices, and a slice may end anywhere.  The variables   *)
(* are shared without a lock, so each access is a step.  A request stands  *)
(* for a command, with its length, the motor its thread had selected and   *)
(* its link.  Which of them a variable was taken from is all that is kept. *)
(***************************************************************************)
EXTENDS Naturals

CONSTANTS Links,
          NullLinks,          \* those whose reply_func is NULL (CAN, "send" 2)
          Kinds,              \* blocking commands
          Motors, Second,     \* motors; the one behind utils_second_motor_id
          None, Dummy         \* NULL; send_func_dummy

Requests == [kind : Kinds, motor : Motors, link : Links]

ASSUME CommandsAssumption ==
  /\ NullLinks \subseteq Links
  /\ None \notin Links \cup Requests \cup {Dummy} /\ Dummy \notin Links

VARIABLES pc, req,              \* per link: where it is, and with which request
          canFwd,               \* send_func_can_fwd
          closing,              \* is send_func_blocking about to be cleared for a closed link?
          buf, len, motor, func,\* blocking_thread_cmd_buffer, _len, blocking_thread_motor,
                                \* send_func_blocking: the request each was taken from
          isBlocking, event,    \* is_blocking; is the event of blocking_tp pending?
          thread,               \* where blocking_thread is
          selected, size,       \* the motor it has selected, its local len
          accepted,             \* the request that passed the test last (history)
          raced                 \* was is_blocking tested by two links before either set it, or
                                \* before blocking_thread was in its loop? (history)

linkVars == <<pc, req, canFwd, closing>>
handVars == <<buf, len, motor, func, isBlocking, event, accepted, raced>>
threadVars == <<thread, selected, size>>
vars == <<linkVars, handVars, threadVars>>

\* reply_func, once send_func_dummy has taken the place of NULL.
Reply(l) == IF l \in NullLinks THEN Dummy ELSE l

Step(l, from, to) == pc[l] = from /\ pc' = [pc EXCEPT ![l] = to]

\* The call returns.
Return(l, from) == Step(l, from, "idle") /\ req' = [req EXCEPT ![l] = None]

(***************************************************************************)
(* commands_process_packet.                                                *)
(***************************************************************************)
Arrive(l, r) ==
  /\ Step(l, "idle", IF canFwd = None THEN "first" ELSE "case")
  /\ r.link = l /\ req' = [req EXCEPT ![l] = r]
  /\ UNCHANGED <<canFwd, closing, handVars, threadVars>>

First(l) ==
  /\ Step(l, "first", "case")
  /\ canFwd' = Reply(l)
  /\ UNCHANGED <<req, closing, handVars, threadVars>>

\* A command that is answered at once, through reply_func itself.
Answer(l) == Return(l, "case") /\ UNCHANGED <<canFwd, closing, handVars, threadVars>>

\* COMM_FORWARD_CAN, to another node.
Forward(l) ==
  /\ Return(l, "case")
  /\ canFwd' = Reply(l)
  /\ UNCHANGED <<closing, handVars, threadVars>>

\* COMM_FORWARD_CAN, to the second motor of this node: the packet in it is
\* processed by a call of commands_process_packet in the same thread.
ForwardLocal(l) ==
  /\ Second \in Motors
  /\ Step(l, "case", "inner")
  /\ canFwd' = Reply(l)
  /\ UNCHANGED <<req, closing, handVars, threadVars>>

\* Mutant: the id of the motor is taken for its number.
InnerById(l) ==
  /\ Step(l, "inner", IF canFwd = None THEN "first" ELSE "case")
  /\ req' = [req EXCEPT ![l].motor = Dummy]
  /\ UNCHANGED <<canFwd, closing, handVars, threadVars>>

Inner(l) ==
  /\ Step(l, "inner", IF canFwd = None THEN "first" ELSE "case")
  /\ req' = [req EXCEPT ![l].motor = Second]
  /\ UNCHANGED <<canFwd, closing, handVars, threadVars>>

Filled == {"motor", "func", "signal"}     \* is_blocking is set

Filling == {"copy", "len", "flag"} \cup Filled

\* Another link has passed the test and not set the flag, or the thread is going to
\* clear it once more.
Window(l) == thread = "boot" \/ \E m \in Links \ {l} : pc[m] \in Filling \ Filled

\* Nothing is left of earlier commands.
Quiet == thread = "wait" /\ ~event /\ \A m \in Links : pc[m] \notin Filling

\* Mutant: is_blocking is not tested.
PassAlways(l) ==
  /\ Step(l, "case", "copy")
  /\ accepted' = req[l]
  /\ raced' = IF Quiet THEN FALSE ELSE raced \/ Window(l)
  /\ UNCHANGED <<req, canFwd, closing, buf, len, motor, func, isBlocking, event, threadVars>>

\* A blocking command: is_blocking is tested.
Pass(l) ==
  /\ ~isBlocking
  /\ Step(l, "case", "copy")
  /\ accepted' = req[l]
  /\ raced' = IF Quiet THEN FALSE ELSE raced \/ Window(l)
  /\ UNCHANGED <<req, canFwd, closing, buf, len, motor, func, isBlocking, event, threadVars>>

\* Mutant: the packet is copied before is_blocking is tested.
DiscardLate(l) ==
  /\ isBlocking
  /\ Return(l, "case") /\ buf' = req[l]
  /\ UNCHANGED <<canFwd, closing, len, motor, func, isBlocking, event, accepted, raced, threadVars>>

Discard(l) ==
  /\ isBlocking
  /\ Return(l, "case") /\ UNCHANGED <<canFwd, closing, handVars, threadVars>>

Copy(l) ==
  /\ Step(l, "copy", "len") /\ buf' = req[l]
  /\ UNCHANGED <<req, canFwd, closing, len, motor, func, isBlocking, event, accepted, raced, threadVars>>

SetLen(l) ==
  /\ Step(l, "len", "flag") /\ len' = req[l]
  /\ UNCHANGED <<req, canFwd, closing, buf, motor, func, isBlocking, event, accepted, raced, threadVars>>

SetFlag(l) ==
  /\ Step(l, "flag", "motor") /\ isBlocking' = TRUE
  /\ UNCHANGED <<req, canFwd, closing, buf, len, motor, func, event, accepted, raced, threadVars>>

SetMotor(l) ==
  /\ Step(l, "motor", "func") /\ motor' = req[l]
  /\ UNCHANGED <<req, canFwd, closing, buf, len, func, isBlocking, event, accepted, raced, threadVars>>

SetFunc(l) ==
  /\ Step(l, "func", "signal") /\ func' = Reply(l)
  /\ UNCHANGED <<req, canFwd, closing, buf, len, motor, isBlocking, event, accepted, raced, threadVars>>

\* Mutant: the thread is not signalled.
SignalNothing(l) == Return(l, "signal") /\ UNCHANGED <<canFwd, closing, handVars, threadVars>>

Signal(l) ==
  /\ Return(l, "signal") /\ event' = TRUE
  /\ UNCHANGED <<canFwd, closing, buf, len, motor, func, isBlocking, accepted, raced, threadVars>>

HandOver(l) == Copy(l) \/ SetLen(l) \/ SetFlag(l) \/ SetMotor(l) \/ SetFunc(l) \/ Signal(l)

\* commands_unregister_reply_func, which C libraries may call at any time.
\* Bound: one call at a time.
Unregister(l) ==
  /\ ~closing /\ closing' = (func = l)
  /\ canFwd' = IF canFwd = l THEN None ELSE canFwd
  /\ UNCHANGED <<pc, req, handVars, threadVars>>

\* send_func_blocking is cleared, which may be another link's by now.
Clear ==
  /\ closing /\ closing' = FALSE
  /\ func' = None
  /\ UNCHANGED <<pc, req, canFwd, buf, len, motor, isBlocking, event, accepted, raced, threadVars>>

(***************************************************************************)
(* blocking_thread.                                                        *)
(***************************************************************************)
\* Mutant: is_blocking stays set.
FreeKeeps ==
  /\ thread \in {"boot", "free"} /\ thread' = "wait"
  /\ selected' = None /\ size' = None
  /\ UNCHANGED <<linkVars, handVars>>

\* main_init_done, or the end of the loop's body and of its local variables.
Free ==
  /\ thread \in {"boot", "free"} /\ thread' = "wait"
  /\ isBlocking' = FALSE /\ selected' = None /\ size' = None
  /\ UNCHANGED <<linkVars, buf, len, motor, func, event, accepted, raced>>

Wait ==
  /\ thread = "wait" /\ event
  /\ event' = FALSE /\ thread' = "select"
  /\ UNCHANGED <<linkVars, buf, len, motor, func, isBlocking, accepted, raced, selected, size>>

SelectMotor ==
  /\ thread = "select" /\ thread' = "load"
  /\ selected' = motor
  /\ UNCHANGED <<linkVars, handVars, size>>

Load ==
  /\ thread = "load" /\ thread' = "run"
  /\ size' = len
  /\ UNCHANGED <<linkVars, handVars, selected>>

\* The command itself: it reads the buffer, may take seconds, and ends with a
\* reply, unless it has none (COMM_TERMINAL_CMD) or nobody to send it to.
Run ==
  /\ thread = "run"
  /\ \/ func # None /\ thread' = "reply"
     \/ thread' = "free"
  /\ UNCHANGED <<linkVars, handVars, selected, size>>

SendReply ==
  /\ thread = "reply" /\ thread' = "free"
  /\ UNCHANGED <<linkVars, handVars, selected, size>>

BlockingThread == Free \/ Wait \/ SelectMotor \/ Load \/ Run \/ SendReply

Init ==
  /\ pc = [l \in Links |-> "idle"] /\ req = [l \in Links |-> None]
  /\ canFwd = None /\ closing = FALSE
  /\ buf = None /\ len = None /\ motor = None /\ func = None
  /\ isBlocking = FALSE /\ event = FALSE /\ accepted = None /\ raced = FALSE
  /\ thread = "boot" /\ selected = None /\ size = None

LinkStep(l) ==
  \/ First(l) \/ Answer(l) \/ Forward(l) \/ ForwardLocal(l) \/ Inner(l)
  \/ Pass(l) \/ Discard(l) \/ HandOver(l)

Next ==
  \/ \E l \in Links : (\E r \in Requests : Arrive(l, r)) \/ LinkStep(l) \/ Unregister(l)
  \/ Clear \/ BlockingThread

Spec ==
  /\ Init /\ [][Next]_vars
  /\ WF_vars(BlockingThread) /\ \A l \in Links : WF_vars(LinkStep(l))

(***************************************************************************)
(* Properties.                                                             *)
(***************************************************************************)
CommandsTypeOK ==
  /\ pc \in [Links -> {"idle", "first", "case", "inner"} \cup Filling]
  /\ req \in [Links -> Requests \cup {None}]
  /\ {canFwd, func} \subseteq Links \cup {None, Dummy}
  /\ {buf, len, motor, selected, size, accepted} \subseteq Requests \cup {None}
  /\ {closing, isBlocking, event, raced} \subseteq BOOLEAN
  /\ thread \in {"boot", "free", "wait", "select", "load", "run", "reply"}

\* A blocking command runs with the buffer, the length and the motor of one
\* request, and the reply goes to the link that the request came from, or
\* nowhere when that was closed: whatever the other links do, unless one of
\* them passed the test of is_blocking between the test and the assignment of
\* another, or before the thread had cleared it for the first time.  (Neither
\* is excluded: DiscardedWhileRunning shows what then happens.)
RunsWhatWasAccepted ==
  thread \in {"run", "reply"} /\ ~raced =>
    /\ accepted # None
    /\ buf = accepted /\ size = accepted /\ selected = accepted
    /\ func \in {Reply(accepted.link), None}

\* A command handed over without such a race is run, whatever other links send
\* until the thread comes to it.
AcceptedIsRun ==
  \A l \in Links :
    pc[l] = "signal" /\ ~raced ~> thread = "run" /\ buf # None /\ buf.link = l

\* Blocking commands are not locked out for good, races or not: when
\* is_blocking is set, something that leads to its being cleared is on the way.
Freed ==
  isBlocking => \/ \E l \in Links : pc[l] \in Filled
                \/ event
                \/ thread \in {"boot", "select", "load", "run", "reply", "free"}

\* ... and it is cleared.
BlockingEnds == isBlocking ~> ~isBlocking

\* "Only one of them runs at any given time, in their own thread.  If other
\* blocking commands come before the previous one has finished, they are
\* discarded": the buffer is not changed under a command that runs.
DiscardedWhileRunning ==
  [][ buf' # buf => thread \notin {"select", "load", "run", "reply"} ]_vars
===========================================================================
