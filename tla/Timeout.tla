----------------------------- MODULE Timeout -----------------------------
(***************************************************************************)
(* timeout.c beside MotorControl: the thread that brakes the motors when   *)
(* no command has come for timeout_msec or the kill switch is on.          *)
(*                                                                         *)
(* The unit of time is the period of this thread, 10 ms: between two of    *)
(* its iterations each motor's m_ignore_iterations is counted down by one  *)
(* unit.  Without dual motors mc_interface_select_motor_thread does        *)
(* nothing; with them the thread keeps the motor that it selected last.    *)
(***************************************************************************)
EXTENDS MotorControl

CONSTANTS TimeoutThread,  \* the thread, one of Threads
          BrakeCurrent,   \* is timeout_brake_current at least cc_min_current?
          KillSwitch,     \* is a kill switch configured?
          KillIgnore      \* units of mc_interface_ignore_input_both(20)

ASSUME TimeoutAssumption ==
  /\ TimeoutThread \in Threads \ Detectors
  /\ BrakeCurrent \in BOOLEAN /\ KillSwitch \in BOOLEAN
  /\ KillIgnore \in Nat

Others == Threads \ {TimeoutThread}

VARIABLES tpc,         \* position in the loop of timeout_thread
          selected,    \* motor_selected of the thread
          hasTimeout, killActive,
          killSw,      \* kill_sw, sampled in this iteration
          killPin,     \* the switch
          elapsed,     \* has timeout_msec passed since last_update_time?
          slept        \* has the 10 ms sleep ended?

timeout == <<tpc, selected, hasTimeout, killActive, killSw>>
inputs  == <<killPin, elapsed>>
tvars   == <<vars, timeout, inputs, slept>>

Brake == [op |-> "set_brake_current", amp |-> BrakeCurrent]
Release == [op |-> "release_motor", amp |-> FALSE]

MotorNow(m) == IF Motors = {1, 2} THEN m ELSE 1

Select(m) == selected' = IF Motors = {1, 2} THEN m ELSE selected

(***************************************************************************)
(* One iteration.                                                          *)
(***************************************************************************)
TimeoutCheck ==
  /\ tpc = "sleep" /\ slept /\ Waiting
  /\ slept' = FALSE
  /\ killSw' = killPin
  /\ IF killPin \/ elapsed
     THEN tpc' = "release" /\ UNCHANGED <<hasTimeout, killActive>>
     ELSE hasTimeout' = FALSE /\ killActive' = FALSE /\ UNCHANGED tpc
  /\ UNCHANGED <<vars, selected, inputs>>

TimeoutRelease ==
  /\ tpc = "release" /\ Waiting
  /\ IF hasTimeout \/ killActive THEN UNCHANGED foc ELSE FocSet(MotorNow(selected), Release)
  /\ tpc' = "unlock"
  /\ UNCHANGED <<iface, isr, fault, thread, timer, ghost,
                 selected, hasTimeout, killActive, killSw, inputs, slept>>


TimeoutUnlock ==
  /\ tpc = "unlock" /\ Waiting
  /\ locked' = [locked EXCEPT ![MotorNow(selected)] = FALSE]
  /\ tpc' = "brake_1"
  /\ UNCHANGED <<foc, faultNow, ignore, overrideOnce, isr, fault, thread, timer, ghost,
                 selected, hasTimeout, killActive, killSw, inputs, slept>>

TryBrake(m) ==
  \/ Begin(TimeoutThread, m, Brake)
  \/ ~Admits(m) /\ Waiting /\ UNCHANGED vars

TimeoutBrake1 ==
  /\ tpc = "brake_1"
  /\ Select(1)
  /\ TryBrake(1)
  /\ tpc' = "brake_2"
  /\ UNCHANGED <<hasTimeout, killActive, killSw, inputs, slept>>

TimeoutBrake2 ==
  /\ tpc = "brake_2" /\ pc[TimeoutThread] = "idle"
  /\ Select(2)
  /\ TryBrake(MotorNow(2))
  /\ tpc' = "end"
  /\ UNCHANGED <<hasTimeout, killActive, killSw, inputs, slept>>

TimeoutEnd ==
  /\ tpc = "end" /\ pc[TimeoutThread] = "idle" /\ Waiting
  /\ IF killSw
     THEN IgnoreInput(Motors, KillIgnore) /\ UNCHANGED hasTimeout
     ELSE hasTimeout' = TRUE /\ UNCHANGED <<ignore, ghost>>
  /\ killActive' = killSw
  /\ tpc' = "sleep"
  /\ UNCHANGED <<foc, faultNow, locked, overrideOnce, isr, fault, thread, timer,
                 selected, killSw, inputs, slept>>

TimeoutCommand ==
  /\ Consume(TimeoutThread) \/ Act(TimeoutThread)
  /\ UNCHANGED <<timeout, inputs, slept>>

TimeoutLoop ==
  \/ TimeoutCheck \/ TimeoutRelease \/ TimeoutUnlock
  \/ TimeoutBrake1 \/ TimeoutBrake2 \/ TimeoutEnd \/ TimeoutCommand

(***************************************************************************)
(* The surroundings: time passes, a caller of a command calls              *)
(* timeout_reset, the switch is moved.                                     *)
(***************************************************************************)
Elapse == ~elapsed /\ elapsed' = TRUE /\ UNCHANGED <<vars, timeout, killPin, slept>>

TimeoutReset == elapsed /\ elapsed' = FALSE /\ UNCHANGED <<vars, timeout, killPin, slept>>

MoveKillSwitch ==
  /\ KillSwitch
  /\ killPin' = ~killPin
  /\ UNCHANGED <<vars, timeout, elapsed, slept>>

TimerTasks ==
  /\ tpc = "sleep" /\ ~slept
  /\ TimerThread
  /\ slept' = (task' = NoTask /\ turn' = 1)
  /\ UNCHANGED <<timeout, inputs>>

OtherSteps ==
  /\ \/ \E t \in Others : ThreadStep(t)
     \/ Interrupt \/ FaultThread
     \/ \E m \in Motors : TimerUpdate(m)
  /\ UNCHANGED <<timeout, inputs, slept>>

TimeoutInit ==
  /\ Init
  /\ tpc = "sleep" /\ selected = 1
  /\ hasTimeout = FALSE /\ killActive = FALSE /\ killSw = FALSE
  /\ killPin = FALSE /\ elapsed = FALSE /\ slept = TRUE

TimeoutNext ==
  \/ TimeoutLoop \/ Elapse \/ TimeoutReset \/ MoveKillSwitch \/ TimerTasks \/ OtherSteps

TimeoutSpec == TimeoutInit /\ [][TimeoutNext]_tvars

\* Threads of the same priority share the processor in turn.
FairTimeoutSpec ==
  /\ TimeoutSpec
  /\ SF_tvars(TimeoutLoop) /\ SF_tvars(TimerTasks)
  /\ WF_tvars(OtherSteps /\ FaultThread)
  /\ \A m \in Motors : SF_tvars(OtherSteps /\ TimerUpdate(m))
  /\ \A t \in Others : SF_tvars(OtherSteps /\ (Consume(t) \/ Act(t) \/ EStopRelease(t)))

(***************************************************************************)
(* Properties.                                                             *)
(***************************************************************************)
\* Every variable has the values its C counterpart can have.
TimeoutTypeOK ==
  /\ TypeOK
  /\ tpc \in {"sleep", "release", "unlock", "brake_1", "brake_2", "end"}
  /\ selected \in {1, 2}
  /\ hasTimeout \in BOOLEAN /\ killActive \in BOOLEAN /\ killSw \in BOOLEAN
  /\ killPin \in BOOLEAN /\ elapsed \in BOOLEAN /\ slept \in BOOLEAN

Braked(m) == state[m] = "OFF" \/ mode[m] = "CURRENT_BRAKE"

Hung ==
  <>[][\A t \in Others : pc'[t] = pc[t] /\ session'[t] = session[t]]_tvars


\* What the code does not keep: while the kill switch is seen on, no command of another
\* thread takes effect.
KillSwitchBlocks == [][killActive => \A t \in Others : ~Act(t)]_tvars

\* Nor does it stop the motor for good when it stays on.
KillSwitchStops ==
  Hung /\ <>[]killPin /\ <>[]Quiet => \A m \in Motors : <>[]Braked(m)
==========================================================================
