-------------------------- MODULE CommandsProofs --------------------------
(***************************************************************************)
(* Theorems of Commands, for all links, commands and motors, and with      *)
(* every interleaving of the threads.                                      *)
(***************************************************************************)
EXTENDS Commands, TLAPS

(***************************************************************************)
(* Type.  A link that is not idle has a request, and its own.              *)
(***************************************************************************)
ReqOK ==
  \A l \in Links :
    /\ pc[l] # "idle" => req[l] \in Requests /\ req[l].link = l
    /\ pc[l] = "inner" => Second \in Motors

TypeInv == CommandsTypeOK /\ ReqOK

LEMMA ReplyType == ASSUME NEW l \in Links PROVE Reply(l) \in Links \cup {Dummy}
BY DEF Reply

LEMMA NoneIsNone ==
  /\ \A l \in Links : l # None /\ l # Dummy /\ Reply(l) # None
  /\ \A r \in Requests : r # None
BY CommandsAssumption DEF Reply

LEMMA InnerRequest ==
  ASSUME NEW r \in Requests, Second \in Motors
  PROVE  /\ [r EXCEPT !.motor = Second] \in Requests
         /\ [r EXCEPT !.motor = Second].link = r.link
BY DEF Requests

LEMMA TypeInit == Init => TypeInv
BY DEF Init, TypeInv, CommandsTypeOK, ReqOK, Filling, Filled

LEMMA TypeStep == TypeInv /\ [Next]_vars => TypeInv'
<1> SUFFICES ASSUME TypeInv, [Next]_vars PROVE TypeInv'
  OBVIOUS
<1> USE DEF TypeInv, CommandsTypeOK, ReqOK, threadVars, handVars, Filling, Filled
<1>1. ASSUME NEW l \in Links, NEW r \in Requests, Arrive(l, r) PROVE TypeInv'
  BY <1>1 DEF Arrive, Step
<1>2. ASSUME NEW l \in Links, First(l) PROVE TypeInv'
  BY <1>2, ReplyType DEF First, Step
<1>3. ASSUME NEW l \in Links, Answer(l) \/ Discard(l) PROVE TypeInv'
  BY <1>3 DEF Answer, Discard, Return, Step
<1>4. ASSUME NEW l \in Links, Forward(l) \/ ForwardLocal(l) PROVE TypeInv'
  BY <1>4, ReplyType DEF Forward, ForwardLocal, Return, Step
<1>5. ASSUME NEW l \in Links, Inner(l) PROVE TypeInv'
  <2>1. /\ [req[l] EXCEPT !.motor = Second] \in Requests
        /\ [req[l] EXCEPT !.motor = Second].link = l
    <3>1. req[l] \in Requests /\ req[l].link = l /\ Second \in Motors
      BY <1>5 DEF Inner, Step
    <3> QED BY <3>1, InnerRequest
  <2>2. req' = [req EXCEPT ![l] = [req[l] EXCEPT !.motor = Second]] BY <1>5 DEF Inner
  <2> QED BY <1>5, <2>1, <2>2 DEF Inner, Step
<1>6. ASSUME NEW l \in Links, Pass(l) PROVE TypeInv'
  <2>1. raced' \in BOOLEAN BY <1>6 DEF Pass, Quiet, Window
  <2>2. pc' \in [Links -> {"idle", "first", "case", "inner"} \cup Filling] BY <1>6 DEF Pass, Step
  <2>4. accepted' \in Requests \cup {None} BY <1>6 DEF Pass, Step
  <2>3. ReqOK' BY <1>6 DEF Pass, Step
  <2>5. UNCHANGED <<req, canFwd, closing, buf, len, motor, func, isBlocking, event, thread,
                    selected, size>>
    BY <1>6 DEF Pass
  <2>6. CommandsTypeOK' BY <2>1, <2>2, <2>4, <2>5
  <2> QED BY <2>3, <2>6
<1>7. ASSUME NEW l \in Links, Copy(l) \/ SetLen(l) PROVE TypeInv'
  BY <1>7 DEF Copy, SetLen, Step
<1>8. ASSUME NEW l \in Links, SetFlag(l) \/ SetMotor(l) PROVE TypeInv'
  <2>1. CASE SetFlag(l) BY <2>1 DEF SetFlag, Step
  <2>2. CASE SetMotor(l) BY <2>2 DEF SetMotor, Step
  <2> QED BY <1>8, <2>1, <2>2
<1>9. ASSUME NEW l \in Links, SetFunc(l) PROVE TypeInv'
  BY <1>9, ReplyType DEF SetFunc, Step
<1>10. ASSUME NEW l \in Links, Signal(l) PROVE TypeInv'
  BY <1>10 DEF Signal, Return, Step
<1>11. ASSUME NEW l \in Links, Unregister(l) PROVE TypeInv'
  BY <1>11 DEF Unregister
<1>12. CASE Clear
  BY <1>12 DEF Clear
<1>13. CASE BlockingThread
  BY <1>13 DEF BlockingThread, Free, Wait, SelectMotor, Load, Run, SendReply, linkVars
<1>14. CASE UNCHANGED vars
  BY <1>14 DEF vars, linkVars
<1> QED
  BY <1>1, <1>2, <1>3, <1>4, <1>5, <1>6, <1>7, <1>8, <1>9, <1>10, <1>11, <1>12, <1>13, <1>14
  DEF Next, LinkStep, HandOver

\* Every shared variable of commands.c keeps its range.
THEOREM CommandsTypeCorrect == Spec => []CommandsTypeOK
<1>1. TypeInv => CommandsTypeOK BY DEF TypeInv
<1> QED BY <1>1, TypeInit, TypeStep, PTL DEF Spec

(***************************************************************************)
(* The hand-over, while no test of is_blocking has raced with another.     *)
(* One link fills the variables, and the blocking thread waits; once the   *)
(* event is set they are all of the request accepted, and stay so until    *)
(* is_blocking is cleared.                                                 *)
(***************************************************************************)
Handed ==
  /\ accepted # None /\ buf = accepted /\ len = accepted /\ motor = accepted
  /\ func \in {Reply(accepted.link), None}

OneFilling == \A l, m \in Links : pc[l] \in Filling /\ pc[m] \in Filling => l = m

LinkOK(l) ==
  /\ pc[l] \in Filling =>
       /\ thread = "wait" /\ ~event /\ accepted = req[l]
       /\ isBlocking <=> pc[l] \in Filled
  /\ pc[l] \in {"len", "flag"} \cup Filled => buf = req[l]
  /\ pc[l] \in {"flag"} \cup Filled => len = req[l]
  /\ pc[l] \in {"func", "signal"} => motor = req[l]
  /\ pc[l] = "signal" => func \in {Reply(l), None}

ThreadOK ==
  /\ thread = "boot" => ~isBlocking
  /\ thread \notin {"boot", "wait"} => isBlocking /\ ~event
  /\ event => isBlocking /\ thread = "wait" /\ Handed
  /\ thread \in {"select", "load", "run", "reply"} => Handed
  /\ thread \in {"load", "run", "reply"} => selected = motor
  /\ thread \in {"run", "reply"} => size = len

Clean == OneFilling /\ (\A l \in Links : LinkOK(l)) /\ ThreadOK

HandInv == TypeInv /\ (raced \/ Clean)

LEMMA HandInit == Init => HandInv
<1> SUFFICES ASSUME Init PROVE HandInv
  OBVIOUS
<1>1. \A l \in Links : pc[l] = "idle" BY DEF Init
<1>2. OneFilling /\ (\A l \in Links : LinkOK(l))
  BY <1>1 DEF OneFilling, LinkOK, Filling, Filled
<1>3. ThreadOK BY DEF Init, ThreadOK
<1> QED BY <1>2, <1>3, TypeInit DEF HandInv, Clean

\* A test that no other races with: everything of the last command is over.
LEMMA PassHand ==
  ASSUME HandInv, NEW l \in Links, Pass(l)
  PROVE  raced' \/ Clean'
<1> SUFFICES ASSUME ~raced' PROVE Clean'
  OBVIOUS
<1>0. /\ pc \in [Links -> {"idle", "first", "case", "inner"} \cup Filling]
      /\ req[l] \in Requests /\ req[l].link = l
  BY DEF HandInv, TypeInv, CommandsTypeOK, ReqOK, Pass, Step
<1>1. Quiet
  <2>1. CASE Quiet BY <2>1
  <2>2. CASE ~Quiet
    <3>1. ~raced /\ ~Window(l) BY <2>2 DEF Pass
    <3>2. ~isBlocking BY DEF Pass
    <3>3. thread = "wait" /\ ~event BY <3>1, <3>2 DEF HandInv, Clean, ThreadOK, Window
    <3>4. ASSUME NEW m \in Links PROVE pc[m] \notin Filling
      <4>1. pc[m] \in Filled => isBlocking BY <3>1 DEF HandInv, Clean, LinkOK, Filling
      <4>2. m # l => pc[m] \notin Filling \ Filled BY <3>1 DEF Window
      <4>3. pc[l] \notin Filling BY <1>0 DEF Pass, Step, Filling, Filled
      <4> QED BY <3>2, <4>1, <4>2, <4>3
    <3> QED BY <3>3, <3>4 DEF Quiet
  <2> QED BY <2>1, <2>2
<1>2. /\ pc'[l] = "copy" /\ \A m \in Links : m # l => pc'[m] = pc[m]
      /\ req' = req /\ accepted' = req[l] /\ isBlocking' = FALSE /\ ~event' /\ thread' = "wait"
  BY <1>0, <1>1 DEF Pass, Step, Quiet, threadVars, HandInv, TypeInv, CommandsTypeOK
<1>3. \A m \in Links : m # l => pc'[m] \notin Filling BY <1>1, <1>2 DEF Quiet
<1>4. OneFilling' BY <1>3 DEF OneFilling
<1>5. (\A m \in Links : LinkOK(m))'
  <2>1. LinkOK(l)'
    <3>1. pc'[l] = "copy" /\ pc'[l] \notin Filled BY <1>2 DEF Filled
    <3>2. accepted' = req'[l] /\ (isBlocking' <=> pc'[l] \in Filled) BY <1>2, <3>1
    <3> QED BY <1>2, <3>1, <3>2 DEF LinkOK, Filled
  <2>2. ASSUME NEW m \in Links, m # l PROVE LinkOK(m)' BY <1>3, <2>2 DEF LinkOK, Filling, Filled
  <2> QED BY <2>1, <2>2
<1>6. ThreadOK' BY <1>2 DEF ThreadOK
<1> QED BY <1>4, <1>5, <1>6 DEF Clean

\* The steps of a link that is not filling the variables.
LEMMA OtherStepHand ==
  ASSUME HandInv, ~raced, NEW l \in Links,
         First(l) \/ Answer(l) \/ Forward(l) \/ ForwardLocal(l) \/ Inner(l) \/ Discard(l)
  PROVE  Clean'
<1>0. pc \in [Links -> {"idle", "first", "case", "inner"} \cup Filling]
  BY DEF HandInv, TypeInv, CommandsTypeOK
<1>00. req \in [Links -> Requests \cup {None}]
  BY DEF HandInv, TypeInv, CommandsTypeOK
<1>1. /\ pc[l] \notin Filling /\ pc'[l] \notin Filling
      /\ \A m \in Links : m # l => pc'[m] = pc[m] /\ req'[m] = req[m]
      /\ UNCHANGED <<buf, len, motor, func, isBlocking, event, accepted, thread, selected, size>>
  BY <1>0, <1>00 DEF First, Answer, Forward, ForwardLocal, Inner, Discard, Return, Step, handVars,
                     threadVars, Filling, Filled
<1>2. Clean BY DEF HandInv
<1>3. OneFilling' BY <1>1, <1>2 DEF Clean, OneFilling
<1>4. (\A m \in Links : LinkOK(m))' BY <1>1, <1>2 DEF Clean, LinkOK, Filling, Filled
<1>5. ThreadOK' BY <1>1, <1>2 DEF Clean, ThreadOK, Handed
<1> QED BY <1>3, <1>4, <1>5 DEF Clean

\* The steps of the link that is.
LEMMA FillStepHand ==
  ASSUME HandInv, ~raced, NEW l \in Links, HandOver(l)
  PROVE  Clean'
<1>0. /\ pc \in [Links -> {"idle", "first", "case", "inner"} \cup Filling]
      /\ req \in [Links -> Requests \cup {None}]
      /\ pc[l] \in Filling /\ req[l] \in Requests /\ req[l].link = l
  BY DEF HandInv, TypeInv, CommandsTypeOK, ReqOK, HandOver, Copy, SetLen, SetFlag, SetMotor, SetFunc,
         Signal, Return, Step, Filling, Filled
<1>1. /\ Clean
      /\ \A m \in Links : m # l => pc[m] \notin Filling
  BY <1>0 DEF HandInv, Clean, OneFilling
<1>2. /\ thread' = thread /\ selected' = selected /\ size' = size
      /\ \A m \in Links : m # l => pc'[m] = pc[m]
  BY <1>0 DEF HandOver, Copy, SetLen, SetFlag, SetMotor, SetFunc, Signal, Return, Step, threadVars
<1>3. OneFilling' BY <1>1, <1>2 DEF OneFilling
<1>4. \A m \in Links : m # l => LinkOK(m)' BY <1>1, <1>2 DEF LinkOK, Filling, Filled
<1> SUFFICES LinkOK(l)' /\ ThreadOK'
  BY <1>3, <1>4 DEF Clean
<1> USE DEF Clean, LinkOK, ThreadOK, Filling, Filled, Handed
<1>5. CASE Copy(l) BY <1>0, <1>1, <1>2, <1>5 DEF Copy, Step
<1>6. CASE SetLen(l) BY <1>0, <1>1, <1>2, <1>6 DEF SetLen, Step
<1>7. CASE SetFlag(l) BY <1>0, <1>1, <1>2, <1>7 DEF SetFlag, Step
<1>8. CASE SetMotor(l) BY <1>0, <1>1, <1>2, <1>8 DEF SetMotor, Step
<1>9. CASE SetFunc(l) BY <1>0, <1>1, <1>2, <1>9 DEF SetFunc, Step
<1>10. CASE Signal(l)
  <2>1. pc[l] = "signal" /\ pc'[l] = "idle" /\ event' BY <1>0, <1>10 DEF Signal, Return, Step
  <2>2. Handed /\ isBlocking /\ thread = "wait"
    <3>1. accepted = req[l] BY <1>1, <2>1
    <3> QED BY <1>0, <1>1, <2>1, <3>1, NoneIsNone
  <2>3. UNCHANGED <<buf, len, motor, func, isBlocking, accepted>> BY <1>10 DEF Signal
  <2> QED BY <2>1, <2>2, <2>3, <1>2
<1> QED BY <1>5, <1>6, <1>7, <1>8, <1>9, <1>10 DEF HandOver

\* The thread's steps.  No link is filling the variables.
LEMMA ThreadStepHand ==
  ASSUME HandInv, ~raced, BlockingThread
  PROVE  Clean'
<1>0. Clean BY DEF HandInv
<1>1. UNCHANGED <<pc, req>>
  BY DEF BlockingThread, Free, Wait, SelectMotor, Load, Run, SendReply, linkVars
<1>2. \A m \in Links : pc[m] \notin Filling
  BY <1>0 DEF BlockingThread, Free, Wait, SelectMotor, Load, Run, SendReply, Clean, LinkOK
<1>3. OneFilling' BY <1>1, <1>2 DEF OneFilling
<1>4. (\A m \in Links : LinkOK(m))' BY <1>1, <1>2 DEF LinkOK, Filling, Filled
<1>5. ThreadOK'
  <2> USE <1>0 DEF Clean, ThreadOK, Handed
  <2>1. CASE Free
    <3>1. ~event BY <2>1 DEF Free, HandInv, TypeInv, CommandsTypeOK
    <3> QED BY <2>1, <3>1 DEF Free
  <2>2. CASE Wait BY <2>2 DEF Wait
  <2>3. CASE SelectMotor BY <2>3 DEF SelectMotor, handVars
  <2>4. CASE Load BY <2>4 DEF Load, handVars
  <2>5. CASE Run \/ SendReply BY <2>5 DEF Run, SendReply, handVars
  <2> QED BY <2>1, <2>2, <2>3, <2>4, <2>5 DEF BlockingThread
<1> QED BY <1>3, <1>4, <1>5 DEF Clean

LEMMA HandStep == HandInv /\ [Next]_vars => HandInv'
<1> SUFFICES ASSUME HandInv, [Next]_vars PROVE raced' \/ Clean'
  BY TypeStep DEF HandInv
<1>0. TypeInv /\ (raced \/ Clean) BY DEF HandInv
<1>1. ASSUME NEW l \in Links, NEW r \in Requests, Arrive(l, r) PROVE raced' \/ Clean'
  <2>0. /\ \A m \in Links : m # l => pc'[m] = pc[m] /\ req'[m] = req[m]
        /\ pc[l] \notin Filling /\ pc'[l] \notin Filling
    BY <1>0, <1>1 DEF Arrive, Step, TypeInv, CommandsTypeOK, Filling, Filled
  <2>1. UNCHANGED <<buf, len, motor, func, isBlocking, event, accepted, raced, thread, selected, size>>
    BY <1>1 DEF Arrive, handVars, threadVars
  <2>2. CASE raced BY <2>1, <2>2
  <2>3. CASE Clean
    <3>1. OneFilling' BY <2>0, <2>3 DEF Clean, OneFilling
    <3>2. (\A m \in Links : LinkOK(m))' BY <2>0, <2>1, <2>3 DEF Clean, LinkOK, Filling, Filled
    <3>3. ThreadOK' BY <2>1, <2>3 DEF Clean, ThreadOK, Handed
    <3> QED BY <3>1, <3>2, <3>3 DEF Clean
  <2> QED BY <1>0, <2>2, <2>3
<1>2. ASSUME NEW l \in Links, LinkStep(l) PROVE raced' \/ Clean'
  <2>1. CASE Pass(l) BY <2>1, PassHand
  <2>2. CASE ~Pass(l) /\ raced
    BY <1>2, <2>2 DEF LinkStep, HandOver, First, Answer, Forward, ForwardLocal, Inner, Discard, Copy,
                      SetLen, SetFlag, SetMotor, SetFunc, Signal, handVars
  <2>3. CASE ~Pass(l) /\ ~raced
    BY <1>2, <2>3, OtherStepHand, FillStepHand DEF LinkStep
  <2> QED BY <2>1, <2>2, <2>3
<1>3. CASE Clear \/ \E l \in Links : Unregister(l)
  <2>1. /\ UNCHANGED <<pc, req, buf, len, motor, isBlocking, event, accepted, raced>>
        /\ UNCHANGED <<thread, selected, size>>
        /\ func' \in {func, None}
    BY <1>3 DEF Clear, Unregister, handVars, threadVars
  <2>2. CASE raced BY <2>1, <2>2
  <2>3. CASE Clean
    <3>1. OneFilling' BY <2>1, <2>3 DEF Clean, OneFilling
    <3>2. (\A m \in Links : LinkOK(m))' BY <2>1, <2>3 DEF Clean, LinkOK
    <3>3. ThreadOK' BY <2>1, <2>3 DEF Clean, ThreadOK, Handed
    <3> QED BY <3>1, <3>2, <3>3 DEF Clean
  <2> QED BY <1>0, <2>2, <2>3
<1>4. CASE BlockingThread
  <2>1. raced' = raced
    BY <1>4 DEF BlockingThread, Free, Wait, SelectMotor, Load, Run, SendReply, handVars
  <2> QED BY <1>4, <2>1, ThreadStepHand
<1>5. CASE UNCHANGED vars
  BY <1>0, <1>5 DEF vars, linkVars, handVars, threadVars, Clean, OneFilling, LinkOK, ThreadOK, Handed
<1> QED BY <1>1, <1>2, <1>3, <1>4, <1>5 DEF Next

\* A blocking command runs with the buffer, length and motor of one request,
\* and with its reply function or with none, in every interleaving of the
\* threads and with links that are closed at any time, unless two links passed
\* the test of is_blocking before one of them had set it, or one passed it
\* before the thread was in its loop.
THEOREM AcceptedRuns == Spec => []RunsWhatWasAccepted
<1>1. HandInv => RunsWhatWasAccepted
  BY DEF HandInv, Clean, ThreadOK, Handed, RunsWhatWasAccepted
<1> QED BY <1>1, HandInit, HandStep, PTL DEF Spec

(***************************************************************************)
(* is_blocking is cleared again.                                           *)
(***************************************************************************)
LEMMA FreedStep == CommandsTypeOK /\ Freed /\ [Next]_vars => Freed'
<1> SUFFICES ASSUME CommandsTypeOK, Freed, [Next]_vars PROVE Freed'
  OBVIOUS
<1> USE DEF Freed, Filled
<1>0. pc \in [Links -> {"idle", "first", "case", "inner"} \cup Filling]
  BY DEF CommandsTypeOK
<1>1. ASSUME NEW l \in Links, NEW r \in Requests, Arrive(l, r) PROVE Freed'
  BY <1>0, <1>1 DEF Arrive, Step, handVars, threadVars
<1>2. ASSUME NEW l \in Links,
             First(l) \/ Answer(l) \/ Forward(l) \/ ForwardLocal(l) \/ Inner(l) \/ Discard(l)
      PROVE  Freed'
  BY <1>0, <1>2 DEF First, Answer, Forward, ForwardLocal, Inner, Discard, Return, Step, handVars,
                    threadVars
<1>3. ASSUME NEW l \in Links, Pass(l) \/ Copy(l) \/ SetLen(l) PROVE Freed'
  BY <1>0, <1>3 DEF Pass, Copy, SetLen, Step, threadVars
<1>4. ASSUME NEW l \in Links, SetFlag(l) \/ SetMotor(l) \/ SetFunc(l) PROVE Freed'
  <2>1. pc'[l] \in Filled BY <1>0, <1>4 DEF SetFlag, SetMotor, SetFunc, Step
  <2> QED BY <2>1
<1>5. ASSUME NEW l \in Links, Signal(l) PROVE Freed'
  BY <1>5 DEF Signal
<1>6. CASE Clear \/ \E l \in Links : Unregister(l)
  BY <1>6 DEF Clear, Unregister, handVars, threadVars
<1>7. CASE BlockingThread
  BY <1>7 DEF BlockingThread, Free, Wait, SelectMotor, Load, Run, SendReply, linkVars, handVars
<1>8. CASE UNCHANGED vars
  BY <1>8 DEF vars, linkVars, handVars, threadVars
<1> QED BY <1>1, <1>2, <1>3, <1>4, <1>5, <1>6, <1>7, <1>8 DEF Next, LinkStep, HandOver

\* Blocking commands are never locked out for good, whatever races there are:
\* whenever is_blocking is set, someone who will clear it is on the way.
THEOREM NeverLockedOut == Spec => []Freed
<1>1. Init => Freed BY DEF Init, Freed
<1>2. TypeInv => CommandsTypeOK BY DEF TypeInv
<1> QED BY <1>1, <1>2, TypeInit, TypeStep, FreedStep, PTL DEF Spec
===========================================================================
