-------------------------- MODULE MotorControl --------------------------
(***************************************************************************)
(* Who may drive a motor, and who may stop it: the command functions of    *)
(* motor/mc_interface.c with mc_interface_try_input, the control lock,     *)
(* the fault path from the ADC interrupt through fault_stop_thread, the    *)
(* 1 ms task run_timer_tasks, and the state of motor/mcpwm_foc.c that they *)
(* change.  Motors are driven by FOC (motor_type = MOTOR_TYPE_FOC).        *)
(*                                                                         *)
(* An interrupt may fall between any two steps.  fault_stop_thread runs at *)
(* HIGHPRIO - 3: once it is signalled no other thread takes a step until   *)
(* it waits again.  All other threads run at NORMALPRIO and share the      *)
(* processor in quanta, so that one may be preempted by another wherever   *)
(* it reads shared state in one step and writes or relies on it in a later *)
(* one: m_ignore_iterations and the lock in mc_interface_try_input, and    *)
(* the countdown, which tests, loads and stores.                           *)
(*                                                                         *)
(* Ghost state: held[m], what is left of the ignore time set last, unless  *)
(* the countdown had already loaded the old one and overwrites it;         *)
(* late[m], the threads that were past mc_interface_try_input then and     *)
(* have yet to act.                                                        *)
(***************************************************************************)
EXTENDS Integers

CONSTANTS Motors,         \* {1}, or {1, 2} with HW_HAS_DUAL_MOTORS
          Threads,        \* threads that send motor commands
          Detectors,      \* those that lock the control
          Commands,       \* commands they send: [op, amp]
          Faults,         \* fault codes that the ADC interrupt may report
          StopTime,       \* m_fault_stop_time_ms
          IgnoreTimes,    \* arguments of mc_interface_ignore_input_both
          ZeroMinCurrent  \* is cc_min_current 0?

ModeOf == [set_duty |-> "DUTY", set_pid_speed |-> "SPEED", set_pid_pos |-> "POS",
           set_current |-> "CURRENT", release_motor |-> "CURRENT",
           set_brake_current |-> "CURRENT_BRAKE", set_handbrake |-> "HANDBRAKE",
           set_openloop_current |-> "OPENLOOP", set_openloop_phase |-> "OPENLOOP_PHASE",
           set_openloop_duty |-> "OPENLOOP_DUTY",
           set_openloop_duty_phase |-> "OPENLOOP_DUTY_PHASE"]

\* The modes in which timer_update may stop the modulation.
CurrentModes == {"CURRENT", "CURRENT_BRAKE", "HANDBRAKE", "OPENLOOP", "OPENLOOP_PHASE"}
Modes == CurrentModes \cup
         {"NONE", "DUTY", "SPEED", "POS", "OPENLOOP_DUTY", "OPENLOOP_DUTY_PHASE"}

\* amp: the argument is at least cc_min_current (s_pid_min_erpm for a speed).
Command == [op : DOMAIN ModeOf, amp : BOOLEAN]

NoFault == "NONE"

ASSUME MotorAssumption == Motors \in {{1}, {1, 2}}
ASSUME ThreadAssumption == Detectors \subseteq Threads /\ Commands \subseteq Command
ASSUME FaultAssumption == NoFault \notin Faults
ASSUME TimeAssumption == StopTime \in Nat /\ IgnoreTimes \subseteq Nat
ASSUME SwitchAssumption == ZeroMinCurrent \in BOOLEAN

VARIABLES
  \* motor_all_state_t of mcpwm_foc.c
  state, mode, iqSet, idSet, released,
  \* motor_if_state_t of mc_interface.c
  faultNow, ignore, locked, overrideOnce,
  drvFault,    \* level of the gate driver's fault pin
  sampled,     \* has the ADC interrupt run since the last 1 ms task?
  \* fault_stop_thread
  faultData,   \* m_fault_data, the one slot that all reports share
  signalled,   \* its event is pending
  copy,        \* fault_data_copy; no code yet while only the motor is copied
  \* command threads: position in a command function, the command, its motor
  pc, call,
  session,     \* motor that a detector has locked, 0 for none
  \* "mcif timer": position in run_timer_tasks, motor whose turn it is
  task, turn,
  held, late

foc    == <<state, mode, iqSet, idSet, released>>
iface  == <<faultNow, ignore, locked, overrideOnce>>
isr    == <<drvFault, sampled>>
fault  == <<faultData, signalled, copy>>
thread == <<pc, call, session>>
timer  == <<task, turn>>
ghost  == <<held, late>>
vars   == <<foc, iface, isr, fault, thread, timer, ghost>>

NoCopy == [code |-> NoFault, motor |-> 0]
NoTask == [step |-> "none", left |-> 0]
NoCall == [motor |-> 0, cmd |-> [op |-> "release_motor", amp |-> FALSE]]

AtMost(a, b) == IF a < b THEN a ELSE b

(***************************************************************************)
(* mcpwm_foc.c: the setters, mcpwm_foc_stop_pwm, and timer_update, which   *)
(* the "foc timer" thread runs for each motor without selecting it, so     *)
(* that get_motor_now() is motor 1 there.                                  *)
(***************************************************************************)
Starts(c) ==
  \/ c.op \in {"set_duty", "set_pid_pos", "set_openloop_duty", "set_openloop_duty_phase"}
  \/ c.op # "release_motor" /\ c.amp
  \/ c.op # "release_motor" /\ ModeOf[c.op] \in CurrentModes /\ ZeroMinCurrent

FocSet(m, c) ==
  /\ mode' = [mode EXCEPT ![m] = ModeOf[c.op]]
  /\ iqSet' = [iqSet EXCEPT ![m] =
       IF c.op \in {"release_motor", "set_openloop_phase"} THEN FALSE
       ELSE IF ModeOf[c.op] \in CurrentModes THEN c.amp ELSE @]
  /\ idSet' = [idSet EXCEPT ![m] =
       IF c.op \in {"release_motor", "set_current"} THEN FALSE
       ELSE IF c.op = "set_openloop_phase" THEN c.amp ELSE @]
  /\ state' = [state EXCEPT ![m] = IF Starts(c) THEN "RUNNING" ELSE @]
  /\ released' = [released EXCEPT ![m] =
       IF c.op = "release_motor" THEN TRUE
       ELSE IF Starts(c) /\ state[m] # "RUNNING" THEN FALSE ELSE @]

FocStop(m) ==
  /\ mode' = [mode EXCEPT ![m] = "NONE"]
  /\ state' = [state EXCEPT ![m] = "OFF"]
  /\ iqSet' = [iqSet EXCEPT ![m] = FALSE]
  /\ idSet' = [idSet EXCEPT ![m] = FALSE]
  /\ UNCHANGED released

\* Mutant: plain current control is not in the list of modes.
TimeToStopBraking(m) ==
  /\ state[m] = "RUNNING" /\ mode[m] \in CurrentModes \ {"CURRENT"}
  /\ ~iqSet[m] /\ ~idSet[m]
  /\ ZeroMinCurrent => released[1]

TimeToStop(m) ==
  /\ state[m] = "RUNNING" /\ mode[m] \in CurrentModes
  /\ ~iqSet[m] /\ ~idSet[m]
  /\ ZeroMinCurrent => released[1]

\* fault_stop_thread waits: other threads may run.
Waiting == ~signalled /\ copy = NoCopy

(***************************************************************************)
(* Ignore times.  The countdown of motor m has loaded the old time: a new  *)
(* one is lost, and nobody may count on it or on what it replaces.         *)
(***************************************************************************)
Counting(m) == task.step = "store" /\ turn = m

PastCheck(m) == {t \in Threads : pc[t] \in {"consume", "act"} /\ call[t].motor = m}

IgnoreInput(M, time) ==
  /\ ignore' = [m \in Motors |-> IF m \in M THEN time ELSE ignore[m]]
  /\ held' = [m \in Motors |->
       IF m \notin M THEN held[m]
       ELSE IF Counting(m) THEN AtMost(held[m], time) ELSE time]
  /\ late' = [m \in Motors |->
       IF m \in M /\ ~Counting(m) THEN PastCheck(m) ELSE late[m]]

(***************************************************************************)
(* mc_interface_try_input and the command that follows it.                 *)
(***************************************************************************)
\* Mutant: try_input forgets m_ignore_iterations once the lock is overridden.
AdmitsIgnoring(m) == locked[m] => overrideOnce[m]

Admits(m) == ignore[m] = 0 /\ (locked[m] => overrideOnce[m])

Begin(t, m, c) ==
  /\ Waiting /\ pc[t] = "idle"
  /\ session[t] \in {0, m}
  /\ Admits(m)
  /\ pc' = [pc EXCEPT ![t] = IF locked[m] THEN "consume" ELSE "act"]
  /\ call' = [call EXCEPT ![t] = [motor |-> m, cmd |-> c]]
  /\ UNCHANGED <<foc, iface, isr, fault, session, timer, ghost>>

Consume(t) ==
  /\ pc[t] = "consume" /\ Waiting
  /\ overrideOnce' = [overrideOnce EXCEPT ![call[t].motor] = FALSE]
  /\ pc' = [pc EXCEPT ![t] = "act"]
  /\ UNCHANGED <<foc, faultNow, ignore, locked, isr, fault, call, session, timer, ghost>>

Act(t) ==
  /\ pc[t] = "act" /\ Waiting
  /\ FocSet(call[t].motor, call[t].cmd)
  /\ pc' = [pc EXCEPT ![t] = "idle"]
  /\ call' = [call EXCEPT ![t] = NoCall]
  /\ late' = [late EXCEPT ![call[t].motor] = @ \ {t}]
  /\ UNCHANGED <<iface, isr, fault, session, timer, held>>

(***************************************************************************)
(* The control lock, as the detection routines use it: lock, then commands *)
(* that are each preceded by an override, then unlock.                     *)
(***************************************************************************)
Lock(t, m) ==
  /\ Waiting /\ pc[t] = "idle" /\ session[t] = 0
  /\ session' = [session EXCEPT ![t] = m]
  /\ locked' = [locked EXCEPT ![m] = TRUE]
  /\ UNCHANGED <<foc, faultNow, ignore, overrideOnce, isr, fault, pc, call, timer, ghost>>

LockOverrideOnce(t) ==
  /\ Waiting /\ pc[t] = "idle" /\ session[t] # 0
  /\ overrideOnce' = [overrideOnce EXCEPT ![session[t]] = TRUE]
  /\ UNCHANGED <<foc, faultNow, ignore, locked, isr, fault, thread, timer, ghost>>

Unlock(t) ==
  /\ Waiting /\ pc[t] = "idle" /\ session[t] # 0
  /\ locked' = [locked EXCEPT ![session[t]] = FALSE]
  /\ session' = [session EXCEPT ![t] = 0]
  /\ UNCHANGED <<foc, faultNow, ignore, overrideOnce, isr, fault, pc, call, timer, ghost>>

(***************************************************************************)
(* COMM_MOTOR_ESTOP: mc_interface_ignore_input_both, then                  *)
(* mc_interface_release_motor_override_both.                               *)
(***************************************************************************)
EStop(t, time) ==
  /\ Waiting /\ pc[t] = "idle"
  /\ IgnoreInput(Motors, time)
  /\ pc' = [pc EXCEPT ![t] = "release"]
  /\ UNCHANGED <<foc, faultNow, locked, overrideOnce, isr, fault, call, session, timer>>

EStopRelease(t) ==
  /\ pc[t] = "release" /\ Waiting
  /\ mode' = [m \in Motors |-> "CURRENT"]
  /\ iqSet' = [m \in Motors |-> FALSE] /\ idSet' = [m \in Motors |-> FALSE]
  /\ released' = [m \in Motors |-> TRUE]
  /\ pc' = [pc EXCEPT ![t] = "idle"]
  /\ UNCHANGED <<state, iface, isr, fault, call, session, timer, ghost>>

(***************************************************************************)
(* mc_interface_mc_timer_isr and mc_interface_fault_stop.  The pin of the  *)
(* gate driver is a level, the other faults are conditions of one sample.  *)
(***************************************************************************)
Report(m, f) ==
  /\ f = "DRV" => drvFault[m]
  /\ faultData' = [code |-> f, motor |-> m]
  /\ signalled' = TRUE
  /\ sampled' = [sampled EXCEPT ![m] = @ \/ f = "DRV"]
  /\ UNCHANGED <<foc, iface, drvFault, copy, thread, timer, ghost>>

DrvPin(m) ==
  /\ "DRV" \in Faults
  /\ drvFault' = [drvFault EXCEPT ![m] = ~@]
  /\ UNCHANGED <<foc, iface, sampled, fault, thread, timer, ghost>>

(***************************************************************************)
(* fault_stop_thread.                                                      *)
(***************************************************************************)
FaultWait ==
  /\ signalled /\ copy = NoCopy
  /\ signalled' = FALSE
  /\ copy' = [code |-> NoFault, motor |-> faultData.motor]
  /\ UNCHANGED <<foc, iface, isr, faultData, thread, timer, ghost>>

FaultCopy ==
  /\ copy # NoCopy /\ copy.code = NoFault
  /\ copy' = [copy EXCEPT !.code = faultData.code]
  /\ UNCHANGED <<foc, iface, isr, faultData, signalled, thread, timer, ghost>>

\* The same fault as before: commands are ignored for longer.
FaultAgain ==
  /\ copy.code # NoFault /\ faultNow[copy.motor] = copy.code
  /\ IgnoreInput({copy.motor}, StopTime)
  /\ copy' = NoCopy
  /\ UNCHANGED <<foc, faultNow, locked, overrideOnce, isr, faultData, signalled, thread, timer>>

FaultStop ==
  /\ copy.code # NoFault /\ faultNow[copy.motor] # copy.code
  /\ IgnoreInput({copy.motor}, StopTime)
  /\ FocStop(copy.motor)
  /\ faultNow' = [faultNow EXCEPT ![copy.motor] = copy.code]
  /\ copy' = NoCopy
  /\ UNCHANGED <<locked, overrideOnce, isr, faultData, signalled, thread, timer>>

(***************************************************************************)
(* run_timer_tasks, for each motor in turn.  The interrupt is far faster:  *)
(* a gate driver fault has been reported since the last round.  The time   *)
(* is tested, loaded and stored: an interrupt or another thread may set it *)
(* in between, also to 0.                                                  *)
(***************************************************************************)
NextTurn == IF Motors = {1, 2} THEN 3 - turn ELSE 1

NextRound ==
  /\ turn' = NextTurn
  /\ sampled' = [sampled EXCEPT ![turn] = FALSE]
  /\ held' = [held EXCEPT ![turn] = IF @ > 0 THEN @ - 1 ELSE 0]

\* Mutant: the countdown is not guarded.
CountsUnchecked(m) == TRUE

Counts(m) == ignore[m] > 0

TickTest ==
  /\ Waiting /\ task = NoTask
  /\ drvFault[turn] => sampled[turn]
  /\ IF ~Counts(turn) /\ drvFault[turn]
     THEN NextRound /\ UNCHANGED task
     ELSE /\ task' = [NoTask EXCEPT !.step = IF Counts(turn) THEN "load" ELSE "clear"]
          /\ UNCHANGED <<turn, sampled, held>>
  /\ UNCHANGED <<foc, iface, drvFault, fault, thread, late>>

TickLoad ==
  /\ task.step = "load" /\ Waiting
  /\ task' = [step |-> "store", left |-> ignore[turn]]
  /\ UNCHANGED <<foc, iface, isr, fault, thread, turn, ghost>>

TickStore ==
  /\ task.step = "store" /\ Waiting
  /\ ignore' = [ignore EXCEPT ![turn] = task.left - 1]
  /\ task' = NoTask
  /\ NextRound
  /\ UNCHANGED <<foc, faultNow, locked, overrideOnce, drvFault, fault, thread, late>>

\* Mutant: the fault code is never cleared.
TickClearNothing ==
  /\ task.step = "clear" /\ Waiting
  /\ task' = NoTask
  /\ NextRound
  /\ UNCHANGED <<foc, iface, drvFault, fault, thread, late>>

TickClear ==
  /\ task.step = "clear" /\ Waiting
  /\ faultNow' = [faultNow EXCEPT ![turn] = NoFault]
  /\ task' = NoTask
  /\ NextRound
  /\ UNCHANGED <<foc, ignore, locked, overrideOnce, drvFault, fault, thread, late>>

\* timer_update of mcpwm_foc.c, in a system lock.
TimerUpdate(m) ==
  /\ Waiting
  /\ TimeToStop(m)
  /\ FocStop(m)
  /\ UNCHANGED <<iface, isr, fault, thread, timer, ghost>>

(***************************************************************************)
(* The system.                                                             *)
(***************************************************************************)
Init ==
  /\ state = [m \in Motors |-> "OFF"] /\ mode = [m \in Motors |-> "NONE"]
  /\ iqSet = [m \in Motors |-> FALSE] /\ idSet = [m \in Motors |-> FALSE]
  /\ released = [m \in Motors |-> FALSE]
  /\ faultNow = [m \in Motors |-> NoFault]
  /\ ignore = [m \in Motors |-> 0]
  /\ locked = [m \in Motors |-> FALSE] /\ overrideOnce = [m \in Motors |-> FALSE]
  /\ drvFault = [m \in Motors |-> FALSE] /\ sampled = [m \in Motors |-> FALSE]
  /\ faultData = [code |-> NoFault, motor |-> 1]
  /\ signalled = FALSE /\ copy = NoCopy
  /\ pc = [t \in Threads |-> "idle"] /\ call = [t \in Threads |-> NoCall]
  /\ session = [t \in Threads |-> 0]
  /\ task = NoTask /\ turn = 1
  /\ held = [m \in Motors |-> 0] /\ late = [m \in Motors |-> {}]

ThreadStep(t) ==
  \/ \E m \in Motors, c \in Commands : Begin(t, m, c)
  \/ Consume(t) \/ Act(t)
  \/ (\E time \in IgnoreTimes : EStop(t, time)) \/ EStopRelease(t)
  \/ t \in Detectors /\ ((\E m \in Motors : Lock(t, m)) \/ LockOverrideOnce(t) \/ Unlock(t))

Interrupt == \E m \in Motors : DrvPin(m) \/ \E f \in Faults : Report(m, f)

FaultThread == FaultWait \/ FaultCopy \/ FaultAgain \/ FaultStop

TimerThread == TickTest \/ TickLoad \/ TickStore \/ TickClear

Next ==
  \/ \E t \in Threads : ThreadStep(t)
  \/ Interrupt
  \/ FaultThread
  \/ TimerThread
  \/ \E m \in Motors : TimerUpdate(m)

Spec == Init /\ [][Next]_vars

(***************************************************************************)
(* Threads of the same priority share the processor in turn: a thread that *)
(* is ready again and again runs.                                          *)
(***************************************************************************)
Fairness ==
  /\ WF_vars(FaultThread)
  /\ SF_vars(TimerThread)
  /\ \A m \in Motors : SF_vars(TimerUpdate(m))
  /\ \A t \in Threads : SF_vars(Consume(t) \/ Act(t) \/ EStopRelease(t))

FairSpec == Spec /\ Fairness

(***************************************************************************)
(* Properties.                                                             *)
(***************************************************************************)
\* Every variable has the values its C counterpart can have.  The countdown may leave
\* m_ignore_iterations at -1, when a time of 0 is set after its test, and at no less.
TypeOK ==
  /\ state \in [Motors -> {"OFF", "RUNNING"}] /\ mode \in [Motors -> Modes]
  /\ iqSet \in [Motors -> BOOLEAN] /\ idSet \in [Motors -> BOOLEAN]
  /\ released \in [Motors -> BOOLEAN]
  /\ faultNow \in [Motors -> Faults \cup {NoFault}]
  /\ ignore \in [Motors -> Nat \cup {-1}]
  /\ held \in [Motors -> Nat] /\ late \in [Motors -> SUBSET Threads]
  /\ locked \in [Motors -> BOOLEAN] /\ overrideOnce \in [Motors -> BOOLEAN]
  /\ drvFault \in [Motors -> BOOLEAN] /\ sampled \in [Motors -> BOOLEAN]
  /\ faultData \in [code : Faults \cup {NoFault}, motor : Motors]
  /\ signalled \in BOOLEAN
  /\ copy \in [code : Faults \cup {NoFault}, motor : Motors \cup {0}]
  /\ pc \in [Threads -> {"idle", "consume", "act", "release"}]
  /\ call \in [Threads -> [motor : Motors \cup {0}, cmd : Command]]
  /\ session \in [Threads -> Motors \cup {0}]
  /\ task \in [step : {"none", "load", "store", "clear"}, left : Nat]
  /\ turn \in Motors

\* While an ignore time is running, however it was set and whatever is counted down or
\* set beside it, a command takes effect only if its thread was past
\* mc_interface_try_input when the time was set, and each of these only once.
OnlyLateCommands ==
  [][\A t \in Threads :
       Act(t) /\ held[call[t].motor] > 0 => t \in late[call[t].motor]]_vars

Releasing(m) ==
  released[m] /\ mode[m] = "CURRENT" /\ ~iqSet[m] /\ ~idSet[m] /\ state[m] = "RUNNING"

\* "Disconnect the motor and let it turn freely": as long as interrupts leave the
\* threads time to run, a released motor is switched off unless another command
\* comes first.
ReleaseStops == []<>Waiting => \A m \in Motors : Releasing(m) ~> ~Releasing(m)

Quiet == Waiting /\ \A m \in Motors : ~drvFault[m]

\* When no fault is reported any more, every fault code is cleared for good and no
\* motor is left ignoring commands.
FaultsClear ==
  <>[]Quiet => <>[](\A m \in Motors : faultNow[m] = NoFault /\ ignore[m] = 0)

(***************************************************************************)
(* What comments of the code say and the code does not keep.               *)
(***************************************************************************)
\* mc_timer_isr checks "for faults that should stop the motor": when
\* fault_stop_thread has handled a fault of a motor, the motor is off.
HandledFaultStops == [][FaultAgain \/ FaultStop => state'[copy.motor] = "OFF"]_vars

\* "Ignore motor control commands for this amount of time."
IgnoreHolds == [][\A t \in Threads : Act(t) => held[call[t].motor] = 0]_vars

\* "Allow just one motor control command in the locked state": no two threads take
\* the same override.
JustOneCommand ==
  \A t, u \in Threads :
    pc[t] = "consume" /\ pc[u] = "consume" /\ call[t].motor = call[u].motor => t = u
=========================================================================
