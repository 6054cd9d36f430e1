-------------------------- MODULE TimeoutProofs --------------------------
(***************************************************************************)
(* Theorems of Timeout, for all threads, commands, faults and times, one   *)
(* or two motors.                                                          *)
(***************************************************************************)
EXTENDS Timeout, MotorControlProofs

LoopType ==
  /\ tpc \in {"sleep", "release", "unlock", "brake_1", "brake_2", "end"}
  /\ selected \in {1, 2}
  /\ {hasTimeout, killActive, killSw, killPin, elapsed, slept} \subseteq BOOLEAN

LEMMA OwnCommands == Brake \in Command /\ Release \in Command
BY TimeoutAssumption DEF Brake, Release, Command, ModeOf

LEMMA MotorNowType == ASSUME NEW m \in {1, 2} PROVE MotorNow(m) \in Motors
BY MotorAssumption DEF MotorNow

\* The steps of the timeout thread that are no steps of MotorControl.
LEMMA OwnStepType ==
  ASSUME TypeInv, LoopType,
         \/ TimeoutRelease \/ TimeoutUnlock
         \/ TimeoutBrake1 \/ TimeoutBrake2 \/ TimeoutEnd
  PROVE  TypeInv'
<1> USE DEF TypeInv
<1>1. CASE TimeoutRelease
  <2>1. UNCHANGED <<iface, isr, fault, thread, timer, ghost>> BY <1>1 DEF TimeoutRelease
  <2>2. CASE UNCHANGED foc
    BY <2>1, <2>2 DEF TypeOK, TaskOK, CallOK, CopyOK, foc, iface, isr, fault, thread, timer, ghost
  <2>3. CASE FocSet(MotorNow(selected), Release)
    <3>1. MotorNow(selected) \in Motors BY MotorNowType DEF LoopType
    <3>2. FocType' BY <2>3, <3>1, OwnCommands, FocSetType DEF TypeOK, FocType
    <3> QED BY <2>1, <3>2
            DEF TypeOK, FocType, TaskOK, CallOK, CopyOK, iface, isr, fault, thread, timer, ghost
  <2> QED BY <1>1, <2>2, <2>3 DEF TimeoutRelease
<1>2. CASE TimeoutUnlock
  BY <1>2 DEF TimeoutUnlock, TypeOK, TaskOK, CallOK, CopyOK, foc, isr, fault, thread, timer, ghost
<1>3. ASSUME NEW m \in Motors, TryBrake(m) PROVE TypeInv'
  <2>1. CASE UNCHANGED vars
    BY <2>1 DEF vars, foc, iface, isr, fault, thread, timer, ghost, TypeOK, TaskOK, CallOK, CopyOK
  <2>2. CASE Begin(TimeoutThread, m, Brake)
    BY <2>2, OwnCommands, TimeoutAssumption
    DEF Begin, TypeOK, TaskOK, CallOK, CopyOK, foc, iface, isr, fault, timer, ghost
  <2> QED BY <1>3, <2>1, <2>2 DEF TryBrake
<1>4. CASE TimeoutBrake1
  BY <1>3, <1>4, MotorFacts DEF TimeoutBrake1
<1>5. CASE TimeoutBrake2
  BY <1>3, <1>5, MotorNowType DEF TimeoutBrake2
<1>6. CASE TimeoutEnd
  <2>1. UNCHANGED <<foc, faultNow, locked, overrideOnce, isr, fault, thread, timer>>
    BY <1>6 DEF TimeoutEnd
  <2>2. HoldType' /\ TaskOK'
    <3>1. HoldType /\ turn \in Motors BY DEF TypeOK, HoldType
    <3>2. CASE IgnoreInput(Motors, KillIgnore)
      BY <2>1, <3>1, <3>2, IgnoreInputType, TimeoutAssumption
    <3>3. CASE UNCHANGED <<ignore, ghost>>
      BY <2>1, <3>1, <3>3 DEF HoldType, TaskOK, timer, ghost
    <3> QED BY <1>6, <3>2, <3>3 DEF TimeoutEnd
  <2> QED BY <2>1, <2>2 DEF TypeOK, HoldType, CallOK, CopyOK, foc, isr, fault, thread, timer
<1> QED BY <1>1, <1>2, <1>4, <1>5, <1>6

LEMMA TimeoutTypeInit == TimeoutInit => TypeInv /\ LoopType
BY TypeInit DEF TimeoutInit, LoopType

\* Every other step is one of MotorControl, or leaves its variables alone.
LEMMA OtherStepsAre ==
  ASSUME [TimeoutNext]_tvars
  PROVE  \/ [Next]_vars
         \/ TimeoutRelease \/ TimeoutUnlock \/ TimeoutBrake1 \/ TimeoutBrake2 \/ TimeoutEnd
<1>1. CASE UNCHANGED vars
  BY <1>1
<1>2. CASE TimeoutCommand
  BY <1>2, TimeoutAssumption DEF TimeoutCommand, Next, ThreadStep
<1>3. CASE TimerTasks
  BY <1>3 DEF TimerTasks, Next
<1>4. CASE OtherSteps
  BY <1>4 DEF OtherSteps, Others, Next
<1> QED
  BY <1>1, <1>2, <1>3, <1>4
  DEF TimeoutNext, TimeoutLoop, TimeoutCheck, Elapse, TimeoutReset, MoveKillSwitch, tvars

LEMMA LoopTypeStep == LoopType /\ [TimeoutNext]_tvars => LoopType'
<1> SUFFICES ASSUME LoopType, [TimeoutNext]_tvars PROVE LoopType'
  OBVIOUS
<1> USE DEF LoopType, timeout, inputs
<1>1. CASE UNCHANGED tvars BY <1>1 DEF tvars
<1>2. CASE TimeoutCheck BY <1>2 DEF TimeoutCheck
<1>3. CASE TimeoutRelease \/ TimeoutUnlock BY <1>3 DEF TimeoutRelease, TimeoutUnlock
<1>4. CASE TimeoutBrake1 \/ TimeoutBrake2 BY <1>4 DEF TimeoutBrake1, TimeoutBrake2, Select
<1>5. CASE TimeoutEnd BY <1>5 DEF TimeoutEnd
<1>6. CASE TimeoutCommand \/ OtherSteps BY <1>6 DEF TimeoutCommand, OtherSteps
<1>7. CASE Elapse \/ TimeoutReset \/ MoveKillSwitch
  BY <1>7 DEF Elapse, TimeoutReset, MoveKillSwitch
<1>8. CASE TimerTasks BY <1>8 DEF TimerTasks
<1> QED BY <1>1, <1>2, <1>3, <1>4, <1>5, <1>6, <1>7, <1>8 DEF TimeoutNext, TimeoutLoop

LEMMA TimeoutTypeStep ==
  TypeInv /\ LoopType /\ [TimeoutNext]_tvars => (TypeInv /\ LoopType)'
BY OtherStepsAre, OwnStepType, TypeStep, LoopTypeStep

\* Every variable of the timeout thread, and those of the motors under its steps,
\* keep the values that their C counterparts can have.
THEOREM TimeoutTypeCorrect == TimeoutSpec => []TimeoutTypeOK
<1>1. TypeInv /\ LoopType => TimeoutTypeOK BY DEF TypeInv, LoopType, TimeoutTypeOK
<1> QED BY <1>1, TimeoutTypeInit, TimeoutTypeStep, PTL DEF TimeoutSpec

(***************************************************************************)
(* What MotorControl promises still holds beside the timeout thread, whose *)
(* release, unlock and ignore time are steps that MotorControl has not.    *)
(***************************************************************************)
LEMMA LateOwnStep ==
  ASSUME LateInv, LoopType,
         \/ TimeoutRelease \/ TimeoutUnlock
         \/ TimeoutBrake1 \/ TimeoutBrake2 \/ TimeoutEnd
  PROVE  LateInv'
<1> USE DEF HeldLeft, PastIsLate, Counting
<1>1. TypeOK /\ CallOK /\ HeldLeft /\ PastIsLate /\ TypeInv'
  BY OwnStepType DEF LateInv, TypeInv
<1>2. SUFFICES HeldLeft' /\ PastIsLate'
  BY <1>1 DEF LateInv
<1>3. CASE UNCHANGED <<ignore, pc, call, timer, ghost>>
  BY <1>1, <1>3 DEF timer, ghost
<1>4. ASSUME NEW m \in Motors, TryBrake(m) PROVE HeldLeft' /\ PastIsLate'
  <2>1. CASE UNCHANGED vars
    BY <1>3, <2>1 DEF vars, iface, thread
  <2>2. CASE Begin(TimeoutThread, m, Brake)
    <3>1. ignore[m] = 0 BY <2>2 DEF Begin, Admits
    <3>2. held[m] = 0 BY <1>1, <3>1 DEF TypeOK
    <3>3. UNCHANGED <<ignore, task, turn, held, late>> BY <2>2 DEF Begin, iface, timer, ghost
    <3>4. /\ call'[TimeoutThread].motor = m
          /\ \A u \in Threads \ {TimeoutThread} : pc'[u] = pc[u] /\ call'[u] = call[u]
      BY <1>1, <2>2, TimeoutAssumption DEF Begin, TypeOK
    <3> QED BY <1>1, <3>2, <3>3, <3>4
  <2> QED BY <1>4, <2>1, <2>2 DEF TryBrake
<1>5. CASE TimeoutRelease \/ TimeoutUnlock
  BY <1>3, <1>5 DEF TimeoutRelease, TimeoutUnlock, iface, thread
<1>6. CASE TimeoutBrake1 \/ TimeoutBrake2
  BY <1>4, <1>6, MotorFacts, MotorNowType DEF TimeoutBrake1, TimeoutBrake2
<1>7. CASE TimeoutEnd
  <2>1. UNCHANGED <<pc, call, timer>> BY <1>7 DEF TimeoutEnd, thread
  <2>2. CASE IgnoreInput(Motors, KillIgnore)
    BY <2>1, <2>2, IgnoreInputLate, TimeoutAssumption
  <2>3. CASE UNCHANGED <<ignore, ghost>>
    BY <1>3, <2>1, <2>3
  <2> QED BY <1>7, <2>2, <2>3 DEF TimeoutEnd
<1> QED BY <1>5, <1>6, <1>7

\* The timeout thread brakes like any other thread, and the time for which its kill
\* switch has commands ignored holds like any other: while one runs, only threads that
\* were past mc_interface_try_input when it was set still command the motor.
THEOREM TimeoutKeepsIgnoring == TimeoutSpec => OnlyLateCommands
<1> DEFINE Inv == LateInv /\ LoopType
<1>1. TimeoutInit => Inv
  BY LateInit, TimeoutTypeInit DEF TimeoutInit
<1>2. Inv /\ [TimeoutNext]_tvars => Inv'
  BY LateStep, LateOwnStep, OtherStepsAre, LoopTypeStep
<1>3. Inv /\ [TimeoutNext]_tvars
        => [\A t \in Threads :
              Act(t) /\ held[call[t].motor] > 0 => t \in late[call[t].motor]]_vars
  BY LateActs
<1> QED BY <1>1, <1>2, <1>3, PTL DEF TimeoutSpec, OnlyLateCommands
==========================================================================
