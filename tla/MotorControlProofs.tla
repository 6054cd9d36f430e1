------------------------ MODULE MotorControlProofs ------------------------
(***************************************************************************)
(* Theorems of MotorControl, for all threads, commands, faults and ignore  *)
(* times, wherever the threads preempt each other.                         *)
(***************************************************************************)
EXTENDS MotorControl, TLAPS

(***************************************************************************)
(* What TypeOK needs to be inductive: the countdown goes on from a time    *)
(* that has not run out, or from a new one, which is a natural number; a   *)
(* command that is under way has a motor, and so has a copied fault.       *)
(***************************************************************************)
TaskOK == task.step = "load" => ignore[turn] \in Nat

CallOK == \A t \in Threads : pc[t] \in {"consume", "act"} => call[t].motor \in Motors

CopyOK == copy.code # NoFault => copy.motor \in Motors

TypeInv == TypeOK /\ TaskOK /\ CallOK /\ CopyOK

LEMMA MotorFacts == 1 \in Motors /\ 0 \notin Motors
BY MotorAssumption

LEMMA NextTurnType == turn \in Motors => NextTurn \in Motors
BY MotorAssumption DEF NextTurn

\* Every command selects a control mode.
LEMMA CommandMode ==
  ASSUME NEW c \in Command
  PROVE  ModeOf[c.op] \in Modes /\ c.amp \in BOOLEAN
BY DEF Command, ModeOf, Modes, CurrentModes

LEMMA NoCallType == NoCall \in [motor : Motors \cup {0}, cmd : Command]
BY DEF NoCall, Command, ModeOf

FocType ==
  /\ state \in [Motors -> {"OFF", "RUNNING"}] /\ mode \in [Motors -> Modes]
  /\ iqSet \in [Motors -> BOOLEAN] /\ idSet \in [Motors -> BOOLEAN]
  /\ released \in [Motors -> BOOLEAN]

LEMMA FocSetType ==
  ASSUME FocType, NEW m \in Motors, NEW c \in Command, FocSet(m, c)
  PROVE  FocType'
<1>1. ModeOf[c.op] \in Modes /\ c.amp \in BOOLEAN BY CommandMode
<1> QED BY <1>1 DEF FocType, FocSet

LEMMA FocStopType ==
  ASSUME FocType, NEW m \in Motors, FocStop(m)
  PROVE  FocType'
BY DEF FocType, FocStop, Modes

HoldType ==
  /\ ignore \in [Motors -> Nat \cup {-1}]
  /\ held \in [Motors -> Nat] /\ late \in [Motors -> SUBSET Threads]

\* An ignore time keeps the types, and the countdown may go on from it.
LEMMA IgnoreInputType ==
  ASSUME HoldType, TaskOK, NEW M \in SUBSET Motors, NEW time \in Nat,
         IgnoreInput(M, time), turn \in Motors, UNCHANGED timer
  PROVE  HoldType' /\ TaskOK'
<1>1. ignore' \in [Motors -> Nat \cup {-1}] BY DEF IgnoreInput, HoldType
<1>2. held' \in [Motors -> Nat] BY DEF IgnoreInput, HoldType, AtMost
<1>3. late' \in [Motors -> SUBSET Threads] BY DEF IgnoreInput, HoldType, PastCheck
<1>4. TaskOK' BY DEF IgnoreInput, TaskOK, timer
<1> QED BY <1>1, <1>2, <1>3, <1>4 DEF HoldType

LEMMA TypeInit == Init => TypeInv
<1> SUFFICES ASSUME Init PROVE TypeInv
  OBVIOUS
<1>1. NoCall \in [motor : Motors \cup {0}, cmd : Command] BY NoCallType
<1>2. TypeOK
  BY <1>1, MotorFacts DEF Init, TypeOK, NoCopy, NoTask, Modes
<1>3. TaskOK /\ CallOK /\ CopyOK BY DEF Init, NoTask, NoCopy, TaskOK, CallOK, CopyOK
<1> QED BY <1>2, <1>3 DEF TypeInv

LEMMA TypeStep == TypeInv /\ [Next]_vars => TypeInv'
<1> SUFFICES ASSUME TypeInv, [Next]_vars PROVE TypeInv'
  OBVIOUS
<1> USE DEF TypeInv, NoCopy, NoTask
<1>0. HoldType /\ FocType BY DEF TypeOK, HoldType, FocType
<1>1. CASE UNCHANGED vars
  BY <1>1 DEF vars, foc, iface, isr, fault, thread, timer, ghost, TypeOK, TaskOK, CallOK, CopyOK
<1>2. ASSUME NEW t \in Threads, ThreadStep(t) PROVE TypeInv'
  <2>1. ASSUME NEW m \in Motors, NEW c \in Commands, Begin(t, m, c) PROVE TypeInv'
    <3>1. c \in Command BY ThreadAssumption
    <3> QED BY <2>1, <3>1
            DEF Begin, TypeOK, TaskOK, CallOK, CopyOK, foc, iface, isr, fault, timer, ghost
  <2>2. CASE Consume(t)
    BY <2>2 DEF Consume, TypeOK, TaskOK, CallOK, CopyOK, foc, isr, fault, timer, ghost
  <2>3. CASE Act(t)
    <3>1. call[t].motor \in Motors /\ call[t].cmd \in Command
      BY <2>3 DEF Act, TypeOK, CallOK
    <3>2. FocType' BY <1>0, <2>3, <3>1, FocSetType DEF Act
    <3>3. NoCall \in [motor : Motors \cup {0}, cmd : Command] BY NoCallType
    <3>4. late' \in [Motors -> SUBSET Threads] BY <2>3, <3>1 DEF Act, TypeOK
    <3> QED BY <2>3, <3>2, <3>3, <3>4
            DEF Act, TypeOK, FocType, TaskOK, CallOK, CopyOK, iface, isr, fault, timer
  <2>4. ASSUME NEW time \in IgnoreTimes, EStop(t, time) PROVE TypeInv'
    <3>1. time \in Nat BY TimeAssumption
    <3>2. HoldType' /\ TaskOK'
      BY <1>0, <2>4, <3>1, IgnoreInputType DEF EStop, TypeOK
    <3> QED BY <2>4, <3>2
            DEF EStop, TypeOK, HoldType, CallOK, CopyOK, foc, isr, fault, timer
  <2>5. CASE EStopRelease(t)
    BY <2>5 DEF EStopRelease, TypeOK, TaskOK, CallOK, CopyOK, Modes, CurrentModes,
           iface, isr, fault, timer, ghost
  <2>6. ASSUME NEW m \in Motors, Lock(t, m) PROVE TypeInv'
    BY <2>6 DEF Lock, TypeOK, TaskOK, CallOK, CopyOK, foc, isr, fault, timer, ghost
  <2>7. CASE LockOverrideOnce(t)
    BY <2>7 DEF LockOverrideOnce, TypeOK, TaskOK, CallOK, CopyOK, foc, isr, fault, thread, timer, ghost
  <2>8. CASE Unlock(t)
    BY <2>8 DEF Unlock, TypeOK, TaskOK, CallOK, CopyOK, foc, isr, fault, timer, ghost
  <2> QED BY <1>2, <2>1, <2>2, <2>3, <2>4, <2>5, <2>6, <2>7, <2>8 DEF ThreadStep
<1>3. CASE Interrupt
  <2>1. ASSUME NEW m \in Motors, DrvPin(m) PROVE TypeInv'
    BY <2>1 DEF DrvPin, TypeOK, TaskOK, CallOK, CopyOK, foc, iface, fault, thread, timer, ghost
  <2>2. ASSUME NEW m \in Motors, NEW f \in Faults, Report(m, f) PROVE TypeInv'
    BY <2>2 DEF Report, TypeOK, TaskOK, CallOK, CopyOK, foc, iface, thread, timer, ghost
  <2> QED BY <1>3, <2>1, <2>2 DEF Interrupt
<1>4. CASE FaultThread
  <2>1. CASE FaultWait
    BY <2>1 DEF FaultWait, TypeOK, TaskOK, CallOK, CopyOK, foc, iface, isr, thread, timer, ghost
  <2>2. CASE FaultCopy
    BY <2>2 DEF FaultCopy, TypeOK, TaskOK, CallOK, CopyOK, foc, iface, isr, thread, timer, ghost
  <2>3. ASSUME copy.motor \in Motors, IgnoreInput({copy.motor}, StopTime), UNCHANGED timer
        PROVE  HoldType' /\ TaskOK'
    BY <1>0, <2>3, TimeAssumption, IgnoreInputType DEF TypeOK
  <2>4. CASE FaultAgain
    <3>1. HoldType' /\ TaskOK' BY <2>3, <2>4 DEF FaultAgain, CopyOK
    <3> QED BY <2>4, <3>1
            DEF FaultAgain, HoldType, TypeOK, CallOK, CopyOK, foc, isr, thread, timer
  <2>5. CASE FaultStop
    <3>1. copy.motor \in Motors BY <2>5 DEF FaultStop, CopyOK
    <3>2. HoldType' /\ TaskOK' BY <2>3, <2>5, <3>1 DEF FaultStop
    <3>3. FocType' BY <1>0, <2>5, <3>1, FocStopType DEF FaultStop
    <3> QED BY <2>5, <3>1, <3>2, <3>3
            DEF FaultStop, HoldType, TypeOK, FocType, CallOK, CopyOK, isr, thread, timer
  <2> QED BY <1>4, <2>1, <2>2, <2>4, <2>5 DEF FaultThread
<1>5. CASE TimerThread
  <2>1. CASE TickTest
    <3>1. UNCHANGED <<foc, iface, drvFault, fault, thread, late>> BY <2>1 DEF TickTest
    <3>2. CASE NextRound /\ UNCHANGED task
      BY <2>1, <3>1, <3>2, NextTurnType
      DEF TickTest, NextRound, TypeOK, TaskOK, CallOK, CopyOK, foc, iface, fault, thread
    <3>3. CASE /\ task' = [NoTask EXCEPT !.step = IF Counts(turn) THEN "load" ELSE "clear"]
               /\ UNCHANGED <<turn, sampled, held>>
      BY <3>1, <3>3
      DEF Counts, TypeOK, TaskOK, CallOK, CopyOK, foc, iface, fault, thread
    <3> QED BY <2>1, <3>2, <3>3 DEF TickTest
  <2>2. CASE TickLoad
    BY <2>2 DEF TickLoad, TypeOK, TaskOK, CallOK, CopyOK, foc, iface, isr, fault, thread, ghost
  <2>3. CASE TickStore
    <3>1. task.left - 1 \in Nat \cup {-1} BY DEF TypeOK
    <3> QED BY <2>3, <3>1, NextTurnType
            DEF TickStore, NextRound, TypeOK, TaskOK, CallOK, CopyOK, foc, fault, thread
  <2>4. CASE TickClear
    BY <2>4, NextTurnType
    DEF TickClear, NextRound, TypeOK, TaskOK, CallOK, CopyOK, foc, fault, thread
  <2> QED BY <1>5, <2>1, <2>2, <2>3, <2>4 DEF TimerThread
<1>6. ASSUME NEW m \in Motors, TimerUpdate(m) PROVE TypeInv'
  <2>1. FocType' BY <1>0, <1>6, FocStopType DEF TimerUpdate
  <2> QED BY <1>6, <2>1
          DEF TimerUpdate, TypeOK, FocType, TaskOK, CallOK, CopyOK, iface, isr, fault, thread, timer, ghost
<1> QED BY <1>1, <1>2, <1>3, <1>4, <1>5, <1>6 DEF Next

LEMMA TypeInvariant == Spec => []TypeInv
BY TypeInit, TypeStep, PTL DEF Spec

\* Every variable of the motor control keeps the values that its C counterpart can
\* have, whatever the threads, interrupts and faults do and wherever they preempt:
\* the countdown that an interrupt changes under its feet never leaves less than -1.
THEOREM ControlTypeCorrect == Spec => []TypeOK
<1>1. TypeInv => TypeOK BY DEF TypeInv
<1> QED BY <1>1, TypeInvariant, PTL

(***************************************************************************)
(* Ignore times.  What is left of the last one is no more than             *)
(* m_ignore_iterations, nor than what the countdown is about to decrement  *)
(* and store; every thread past mc_interface_try_input while it runs was   *)
(* there when it was set.                                                  *)
(***************************************************************************)
HeldLeft ==
  \A m \in Motors : held[m] > 0 =>
    /\ held[m] <= ignore[m]
    /\ Counting(m) => held[m] <= task.left

PastIsLate ==
  \A t \in Threads :
    pc[t] \in {"consume", "act"} /\ held[call[t].motor] > 0 => t \in late[call[t].motor]

LateInv == TypeInv /\ HeldLeft /\ PastIsLate

LEMMA LateInit == Init => LateInv
BY TypeInit DEF Init, LateInv, HeldLeft, PastIsLate

\* Setting an ignore time, also while the countdown has loaded the old one.
LEMMA IgnoreInputLate ==
  ASSUME LateInv, NEW M \in SUBSET Motors, NEW time \in Nat, IgnoreInput(M, time),
         UNCHANGED <<call, timer>>,
         \A t \in Threads : pc'[t] \in {"consume", "act"} => pc'[t] = pc[t]
  PROVE  HeldLeft' /\ PastIsLate'
<1> USE DEF HeldLeft, PastIsLate
<1>1. TypeOK /\ CallOK /\ HeldLeft /\ PastIsLate BY DEF LateInv, TypeInv
<1>2. HeldLeft'
  <2> SUFFICES ASSUME NEW m \in Motors, held'[m] > 0
               PROVE  held'[m] <= ignore'[m] /\ (Counting(m)' => held'[m] <= task'.left)
    OBVIOUS
  <2>1. Counting(m)' = Counting(m) /\ task' = task BY DEF Counting, timer
  <2>2. CASE m \in M
    BY <1>1, <2>1, <2>2 DEF IgnoreInput, AtMost, TypeOK
  <2>3. CASE m \notin M
    BY <1>1, <2>1, <2>3 DEF IgnoreInput, TypeOK
  <2> QED BY <2>2, <2>3
<1>3. PastIsLate'
  <2> SUFFICES ASSUME NEW t \in Threads, pc'[t] \in {"consume", "act"}, held'[call'[t].motor] > 0
               PROVE  t \in late'[call'[t].motor]
    OBVIOUS
  <2> DEFINE m == call[t].motor
  <2>1. call'[t].motor = m /\ pc[t] \in {"consume", "act"} /\ m \in Motors BY <1>1 DEF CallOK
  <2>2. CASE m \in M /\ ~Counting(m)
    BY <2>1, <2>2 DEF IgnoreInput, PastCheck
  <2>3. CASE m \in M /\ Counting(m)
    <3>1. held'[m] <= held[m] /\ late'[m] = late[m]
      BY <1>1, <2>1, <2>3 DEF IgnoreInput, AtMost, TypeOK
    <3>2. held'[m] > 0 BY <2>1
    <3>3. held[m] \in Nat /\ held'[m] \in Nat
      BY <1>1, <2>1, <2>3 DEF IgnoreInput, AtMost, TypeOK
    <3>4. held[m] > 0 BY <3>1, <3>2, <3>3
    <3>5. t \in late[m] BY <1>1, <2>1, <3>4
    <3> QED BY <2>1, <3>1, <3>5
  <2>4. CASE m \notin M
    BY <1>1, <2>1, <2>4 DEF IgnoreInput
  <2> QED BY <2>2, <2>3, <2>4
<1> QED BY <1>2, <1>3

LEMMA LateStep == LateInv /\ [Next]_vars => LateInv'
<1> SUFFICES ASSUME LateInv, [Next]_vars PROVE LateInv'
  OBVIOUS
<1> USE DEF HeldLeft, PastIsLate, Counting
<1>1. TypeInv /\ TypeInv' /\ TypeOK /\ CallOK /\ CopyOK /\ HeldLeft /\ PastIsLate
  BY TypeStep DEF LateInv, TypeInv
<1>2. SUFFICES HeldLeft' /\ PastIsLate'
  BY <1>1 DEF LateInv
<1>3. CASE UNCHANGED <<ignore, pc, call, timer, ghost>>
  BY <1>1, <1>3 DEF timer, ghost
<1>4. ASSUME NEW t \in Threads, ThreadStep(t) PROVE HeldLeft' /\ PastIsLate'
  <2>1. ASSUME NEW m \in Motors, NEW c \in Commands, Begin(t, m, c)
        PROVE  HeldLeft' /\ PastIsLate'
    <3>1. ignore[m] = 0 BY <2>1 DEF Begin, Admits
    <3>2. held[m] = 0 BY <1>1, <3>1 DEF TypeOK
    <3>3. UNCHANGED <<ignore, task, turn, held, late>> BY <2>1 DEF Begin, iface, timer, ghost
    <3>4. call'[t].motor = m /\ \A u \in Threads \ {t} : pc'[u] = pc[u] /\ call'[u] = call[u]
      BY <1>1, <2>1 DEF Begin, TypeOK
    <3> QED BY <1>1, <3>2, <3>3, <3>4
  <2>2. CASE Consume(t)
    BY <1>1, <2>2 DEF Consume, timer, ghost, TypeOK
  <2>3. CASE Act(t)
    <3>1. UNCHANGED <<ignore, task, turn, held>> BY <2>3 DEF Act, iface, timer
    <3>2. pc'[t] = "idle" /\ \A u \in Threads \ {t} : pc'[u] = pc[u] /\ call'[u] = call[u]
      BY <1>1, <2>3 DEF Act, TypeOK
    <3>3. \A m \in Motors : late[m] \ {t} \subseteq late'[m]
      BY <1>1, <2>3 DEF Act, TypeOK
    <3> QED BY <1>1, <3>1, <3>2, <3>3 DEF CallOK
  <2>4. ASSUME NEW time \in IgnoreTimes, EStop(t, time) PROVE HeldLeft' /\ PastIsLate'
    <3>1. time \in Nat /\ IgnoreInput(Motors, time) /\ UNCHANGED <<call, timer>>
      BY <2>4, TimeAssumption DEF EStop
    <3>2. \A u \in Threads : pc'[u] \in {"consume", "act"} => pc'[u] = pc[u]
      BY <1>1, <2>4 DEF EStop, TypeOK
    <3> QED BY <3>1, <3>2, IgnoreInputLate
  <2>5. CASE EStopRelease(t)
    BY <1>1, <2>5 DEF EStopRelease, iface, timer, ghost, TypeOK
  <2>6. ASSUME \/ \E m \in Motors : Lock(t, m)
               \/ LockOverrideOnce(t) \/ Unlock(t)
        PROVE  HeldLeft' /\ PastIsLate'
    BY <1>3, <2>6 DEF Lock, LockOverrideOnce, Unlock, thread
  <2> QED BY <1>4, <2>1, <2>2, <2>3, <2>4, <2>5, <2>6 DEF ThreadStep
<1>5. CASE FaultAgain \/ FaultStop
  <2>1. copy.motor \in Motors /\ StopTime \in Nat
    BY <1>1, <1>5, TimeAssumption DEF FaultAgain, FaultStop, CopyOK
  <2>2. IgnoreInput({copy.motor}, StopTime) /\ UNCHANGED <<pc, call, timer>>
    BY <1>5 DEF FaultAgain, FaultStop, thread
  <2> QED BY <2>1, <2>2, IgnoreInputLate
<1>6. CASE TimerThread
  <2>1. turn \in Motors /\ turn' \in Motors BY <1>1 DEF TypeInv, TypeOK
  \* The end of a motor's turn.
  <2>2. ASSUME NextRound, task' = NoTask, UNCHANGED <<pc, call, late>>,
               \A m \in Motors \ {turn} : ignore'[m] = ignore[m],
               held[turn] > 1 => held[turn] - 1 <= ignore'[turn]
        PROVE  HeldLeft' /\ PastIsLate'
    <3>1. \A m \in Motors : held'[m] <= held[m] BY <1>1, <2>2 DEF NextRound, TypeOK
    <3>2. held'[turn] = IF held[turn] > 0 THEN held[turn] - 1 ELSE 0
      BY <1>1, <2>1, <2>2 DEF NextRound, TypeOK
    <3>3. \A m \in Motors \ {turn} : held'[m] = held[m]
      BY <1>1, <2>2 DEF NextRound, TypeOK
    <3>4. PastIsLate' BY <1>1, <2>2, <3>1 DEF CallOK, TypeInv, TypeOK
    <3>5. \A m \in Motors : held'[m] > 0 => held'[m] <= ignore'[m]
      <4>1. held[turn] \in Nat BY <1>1 DEF TypeOK
      <4>2. held'[turn] > 0 => held'[turn] <= ignore'[turn]
        BY <2>2, <3>2, <4>1
      <4> QED BY <1>1, <2>2, <3>3, <4>2
    <3> QED BY <2>2, <3>4, <3>5 DEF NoTask
  <2>3. CASE TickTest
    <3>1. UNCHANGED <<ignore, pc, call, late>> /\ task = NoTask
      BY <2>3 DEF TickTest, iface, thread
    <3>2. CASE NextRound /\ UNCHANGED task
      BY <1>1, <2>1, <2>2, <3>1, <3>2 DEF TypeOK
    <3>3. CASE /\ task' = [NoTask EXCEPT !.step = IF Counts(turn) THEN "load" ELSE "clear"]
               /\ UNCHANGED <<turn, held>>
      <4>1. task'.step # "store" BY <3>3 DEF NoTask
      <4> QED BY <1>1, <3>1, <3>3, <4>1
    <3> QED BY <2>3, <3>2, <3>3 DEF TickTest
  <2>4. CASE TickLoad
    BY <1>1, <2>4 DEF TickLoad, iface, thread, ghost
  <2>5. CASE TickStore
    <3>1. NextRound /\ task' = NoTask /\ UNCHANGED <<pc, call, late>>
      BY <2>5 DEF TickStore, thread
    <3>2. ignore' = [ignore EXCEPT ![turn] = task.left - 1] /\ task.step = "store"
      BY <2>5 DEF TickStore
    <3>3. held[turn] > 1 => held[turn] <= task.left BY <1>1, <2>1, <3>2 DEF TypeOK
    <3> QED BY <1>1, <2>1, <2>2, <3>1, <3>2, <3>3 DEF TypeOK
  <2>6. CASE TickClear
    <3>1. NextRound /\ task' = NoTask /\ UNCHANGED <<ignore, pc, call, late>>
      BY <2>6 DEF TickClear, thread
    <3> QED BY <1>1, <2>1, <2>2, <3>1 DEF TypeOK
  <2> QED BY <1>6, <2>3, <2>4, <2>5, <2>6 DEF TimerThread
<1>7. CASE \/ UNCHANGED vars \/ Interrupt \/ FaultWait \/ FaultCopy
           \/ \E m \in Motors : TimerUpdate(m)
  BY <1>3, <1>7 DEF vars, Interrupt, DrvPin, Report, FaultWait, FaultCopy, TimerUpdate, iface, thread
<1> QED BY <1>4, <1>5, <1>6, <1>7 DEF Next, FaultThread

LEMMA LateActs ==
  ASSUME LateInv, NEW t \in Threads, Act(t), held[call[t].motor] > 0
  PROVE  t \in late[call[t].motor]
BY DEF LateInv, PastIsLate, Act

\* Whatever ignore times faults and callers set, longer or shorter than those that run,
\* and whatever is preempted: while one runs, only threads that were past
\* mc_interface_try_input when it was set still command the motor.
THEOREM OnlyLateCommandsAct == Spec => OnlyLateCommands
<1>1. LateInv /\ [Next]_vars
        => [\A t \in Threads :
              Act(t) /\ held[call[t].motor] > 0 => t \in late[call[t].motor]]_vars
  BY LateActs
<1> QED BY <1>1, LateInit, LateStep, PTL DEF Spec, OnlyLateCommands
=============================================================================
