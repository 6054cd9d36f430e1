----------------------------- MODULE ConfStore -----------------------------
(***************************************************************************)
(* conf_general.c: configurations, backup data and single variables on top *)
(* of the emulated EEPROM.                                                 *)
(*                                                                         *)
(* A value takes several half-words, each written by a call of             *)
(* EE_WriteVariable; power may fail between the calls and in them, a call  *)
(* may fail, and several threads store.  The EEPROM does what NvMap says,  *)
(* which Eeprom is shown to implement: after a call that failed, until a   *)
(* boot succeeds, a call may succeed with no effect and a half-word may    *)
(* read as any value written since it was last stored for sure.  The       *)
(* half-words of one value are told apart from those of another and not    *)
(* from each other, so that a value is named once; a CRC tells any mixture *)
(* from a value.                                                           *)
(***************************************************************************)
EXTENDS Naturals, Sequences

CONSTANTS Areas,         \* MCCONF, MCCONF_2, APPCONF, BACKUP, HW and CUSTOM variables
          Checked,       \* those with a CRC: the configurations
          Addr,          \* [Areas -> sequence of virtual addresses]
          Kept,          \* addresses in VirtAddVarTab: all but those of MCCONF_2
          Values, None,
          Threads,
          MaxLosses,     \* bound on the power losses
          FlashErrors,   \* may a write fail?
          PowerSwitch    \* HW_SHUTDOWN_HOLD_ON

Vars == UNION {{Addr[a][i] : i \in DOMAIN Addr[a]} : a \in Areas}

\* A store under way: where it is, what it writes, the half-word it is at, and
\* whether all went well so far (is_ok).
Op == [at : {"release", "write", "call", "unlock"}, area : Areas, value : Values, i : Nat, ok : BOOLEAN]

\* The address ranges EEPROM_BASE_... are apart.
ASSUME ConfAssumption ==
  /\ Checked \subseteq Areas /\ Kept \subseteq Vars
  /\ \A a \in Areas : Len(Addr[a]) \in Nat \ {0} /\ DOMAIN Addr[a] = 1 .. Len(Addr[a])
  /\ \A a, b \in Areas : \A i \in DOMAIN Addr[a], j \in DOMAIN Addr[b] :
       Addr[a][i] = Addr[b][j] => a = b /\ i = j
  /\ None \notin Values \cup Threads \cup Op
  /\ MaxLosses \in Nat /\ {FlashErrors, PowerSwitch} \subseteq BOOLEAN

VARIABLES store, call, power, failed, may,   \* the EEPROM, see NvMap
          op,                   \* per thread: the store it is in, or None
          owner,                \* who holds utils_sys_lock_cnt, or None
          losses,
          last,                 \* per area: value stored last for sure (history)
          tried                 \* per area: values of stores begun since, and None after
                                \* an error, which may lose any value (history)

nvVars == <<store, call, power, failed, may>>
history == <<last, tried>>
vars == <<nvVars, op, owner, losses, history>>

Nv == INSTANCE NvMap WITH Data <- Values

Word(a, i) == store[Addr[a][i]]

Whole(a) == \A i \in DOMAIN Addr[a] : Word(a, i) = Word(a, 1)

Missing(a) == \E i \in DOMAIN Addr[a] : Word(a, i) = None

\* What is made of all half-words where nothing is missing: the value or, of
\* two values, a mixture.
Mixture(a) == IF Whole(a) THEN Word(a, 1) ELSE [i \in DOMAIN Addr[a] |-> Word(a, i)]

\* Mutant: the CRC is not compared.
ReadOfUnchecked(a) == IF Missing(a) THEN None ELSE Mixture(a)

\* What a read returns: defaults (None) if a half-word is missing or the CRC
\* does not match.
ReadOf(a) ==
  IF Missing(a) \/ (a \in Checked /\ ~Whole(a)) THEN None ELSE Mixture(a)

(***************************************************************************)
(* The stores.  utils_sys_lock_cnt stops all other threads, except that    *)
(* timeout_configure_IWDT_slowest takes a mutex on hardware with a power   *)
(* switch, which ends the critical section.                                *)
(***************************************************************************)
\* Mutant: the lock stops nobody.
MayRunUnlocked(t) == power

MayRun(t) == power /\ (owner \in {None, t} \/ PowerSwitch)

At(t, s) == MayRun(t) /\ op[t] # None /\ op[t].at = s

Begin(t, a, v) ==
  /\ MayRun(t) /\ op[t] = None
  /\ op' = [op EXCEPT ![t] = [at |-> "release", area |-> a, value |-> v, i |-> 1, ok |-> TRUE]]
  /\ UNCHANGED <<nvVars, owner, losses, history>>

\* mc_interface_wait_for_motor_release_both fails.
NotReleased(t) ==
  /\ At(t, "release")
  /\ op' = [op EXCEPT ![t] = None]
  /\ UNCHANGED <<nvVars, owner, losses, history>>

Lock(t) ==
  /\ At(t, "release")
  /\ op' = [op EXCEPT ![t].at = "write"]
  /\ owner' = t
  /\ tried' = [tried EXCEPT ![op[t].area] = @ \cup {op[t].value}]
  /\ UNCHANGED <<nvVars, losses, last>>

Target(t) == Addr[op[t].area][op[t].i]
Current(t) == <<Target(t), op[t].value>>

\* EE_WriteVariable is called, takes effect and returns.
Call(t) ==
  /\ At(t, "write")
  /\ call' = call \cup {Current(t)}
  /\ may' = [may EXCEPT ![Target(t)] = @ \cup {op[t].value}]
  /\ op' = [op EXCEPT ![t].at = "call"]
  /\ UNCHANGED <<store, power, failed, owner, losses, history>>

Effect(t) ==
  /\ At(t, "call") /\ Current(t) \in call /\ ~failed
  /\ store' = [store EXCEPT ![Target(t)] = op[t].value]
  /\ UNCHANGED <<call, power, failed, may, op, owner, losses, history>>

\* Mutant: the loop ends one half-word early.
NextWordShort(o) ==
  IF o.i + 1 >= Len(Addr[o.area]) THEN [o EXCEPT !.at = "unlock"]
  ELSE [o EXCEPT !.at = "write", !.i = @ + 1]

NextWord(o) ==
  IF o.i = Len(Addr[o.area]) THEN [o EXCEPT !.at = "unlock"]
  ELSE [o EXCEPT !.at = "write", !.i = @ + 1]

Return(t) ==
  /\ At(t, "call")
  /\ failed \/ store[Target(t)] = op[t].value
  /\ call' = call \ {Current(t)}
  /\ may' = IF failed THEN may ELSE [may EXCEPT ![Target(t)] = {op[t].value}]
  /\ op' = [op EXCEPT ![t] = NextWord(@)]
  /\ UNCHANGED <<store, power, failed, owner, losses, history>>

\* An error may lose any variable.
Doubt == tried' = IF failed' THEN [a \in Areas |-> tried[a] \cup {None}] ELSE tried

\* The call fails, before or after its effect: the loop ends.
Error(t) ==
  /\ FlashErrors /\ At(t, "call")
  /\ call' = call \ {Current(t)} /\ failed' = TRUE
  /\ op' = [op EXCEPT ![t].at = "unlock", ![t].ok = FALSE]
  /\ Doubt
  /\ UNCHANGED <<store, power, may, owner, losses, last>>

\* The value counts as stored unless an error has come before, even one of
\* another store.
Unlock(t) ==
  /\ At(t, "unlock")
  /\ owner' = None
  /\ op' = [op EXCEPT ![t] = None]
  /\ IF op[t].ok /\ ~failed
     THEN /\ last' = [last EXCEPT ![op[t].area] = op[t].value]
          /\ tried' = [tried EXCEPT ![op[t].area] = {}]
     ELSE UNCHANGED history
  /\ UNCHANGED <<nvVars, losses>>

\* What a store returns where it ends.  If the motor is not released, stores of
\* configurations return false, and those of single variables and of the backup
\* data 100, which is true.
Result(t) == IF op[t].at = "release" THEN op[t].area \notin Checked ELSE op[t].ok

(***************************************************************************)
(* The EEPROM's own steps.                                                 *)
(***************************************************************************)
\* The page swap of a call drops what is not in VirtAddVarTab.
Drop ==
  /\ call # {} /\ ~failed
  /\ store' = [v \in Vars |-> IF v \in Kept THEN store[v] ELSE None]
  /\ UNCHANGED <<call, power, failed, may, op, owner, losses, history>>

\* After an error a variable reads as one of the values written since it was
\* last stored for sure, or as missing.
Shift(v) ==
  /\ failed
  /\ \E d \in may[v] \cup {None} : store' = [store EXCEPT ![v] = d]
  /\ UNCHANGED <<call, power, failed, may, op, owner, losses, history>>

PowerOff ==
  /\ power /\ losses < MaxLosses
  /\ power' = FALSE /\ call' = {} /\ losses' = losses + 1
  /\ op' = [t \in Threads |-> None] /\ owner' = None
  /\ UNCHANGED <<store, failed, may, history>>

\* The boot, whose result conf_general_init does not look at.
PowerOn ==
  /\ ~power /\ power' = TRUE
  /\ failed' \in BOOLEAN /\ (failed' => FlashErrors)
  /\ Nv!Settles
  /\ Doubt
  /\ UNCHANGED <<store, call, op, owner, losses, last>>

Init ==
  /\ Nv!Init
  /\ op = [t \in Threads |-> None] /\ owner = None /\ losses = 0
  /\ last = [a \in Areas |-> None] /\ tried = [a \in Areas |-> {}]

Step(t) ==
  \/ NotReleased(t) \/ Lock(t) \/ Call(t) \/ Effect(t) \/ Return(t) \/ Error(t) \/ Unlock(t)

Next ==
  \/ \E t \in Threads : Step(t) \/ \E a \in Areas, v \in Values : Begin(t, a, v)
  \/ Drop \/ \E v \in Vars : Shift(v)
  \/ PowerOff \/ PowerOn

Spec == Init /\ [][Next]_vars

(***************************************************************************)
(* Properties.                                                             *)
(***************************************************************************)
\* What is stored with success is read back, across restarts, whatever is
\* stored in other areas and by other threads meanwhile.  An error in any of
\* these stores leaves every area in doubt until it is stored anew after a
\* boot that succeeds, and a page swap drops an area outside VirtAddVarTab.
Listed(a) == \A i \in DOMAIN Addr[a] : Addr[a][i] \in Kept

StoredSurvives == \A a \in Areas : Listed(a) /\ tried[a] = {} => ReadOf(a) = last[a]

\* Whatever has failed, in this area or in another, a configuration is read as
\* a whole: the last that was stored, one whose store has begun since, or
\* defaults, and never a mixture of two.  So is an area without a CRC into
\* which nothing was stored since.
ReadsAsStored ==
  \A a \in Areas : a \in Checked \/ tried[a] \subseteq {None} =>
    ReadOf(a) \in {None, last[a]} \cup tried[a]

\* The EEPROM is used as it has to be: one call at a time and none without
\* power, each of which returns, fails or is cut by a power loss.
UsesNvMap == Nv!Init /\ [][Nv!Next]_nvVars

\* Not kept, conf_general.c:152 and 286: "true for success, false if something
\* went wrong" (conf_general.c:231, 250).
TrueMeansStored ==
  [][\A t \in Threads, a \in Areas :
       (NotReleased(t) \/ Unlock(t)) /\ op[t].area = a /\ Result(t)
         => ReadOf(a)' = op[t].value]_vars
============================================================================
