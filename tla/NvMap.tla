---------------------------- MODULE NvMap ----------------------------
(***************************************************************************)
(* What the emulated EEPROM promises conf_general.c: a map from virtual    *)
(* addresses to half-words that one call at a time may change, and only at *)
(* the address and to the value of that call.  A call that returns has     *)
(* taken effect; one that a power loss cuts has either taken effect or     *)
(* not.  The variables outside Kept have no entry in VirtAddVarTab: they   *)
(* may be dropped by a call (a page swap does).                            *)
(*                                                                         *)
(* From a call that fails to the next boot that succeeds it is less: a     *)
(* call returns whether or not it has taken effect, and a variable reads   *)
(* as any of the values of may, or as missing, and the boot may settle on  *)
(* each of them.                                                           *)
(***************************************************************************)
CONSTANTS Vars,    \* virtual addresses in use
          Kept,    \* those listed in VirtAddVarTab
          Data,    \* half-word values
          None     \* "variable not found"

VARIABLES store,   \* what a read returns once the pages are recovered
          call,    \* the write in progress, as {<<v, d>>}, or {}
          power,
          failed,  \* a call has failed and no boot has succeeded since
          may      \* per variable: what was stored last for sure, and what was written since

vars == <<store, call, power, failed, may>>

Init ==
  /\ store = [v \in Vars |-> None] /\ may = [v \in Vars |-> {None}]
  /\ call = {} /\ power = FALSE /\ failed = FALSE

Shifts == store' \in [Vars -> Data \cup {None}] /\ \A v \in Vars : store'[v] \in may'[v] \cup {None}

\* A step that writes nothing leaves the map alone, unless calls have failed.
Stays == IF failed \/ failed' THEN Shifts ELSE UNCHANGED store

\* A boot succeeds or fails. After an error it may have lost any variable.
Settles ==
  may' = IF failed /\ ~failed' THEN [v \in Vars |-> may[v] \cup {None}] ELSE may

PowerOn == ~power /\ power' = TRUE /\ failed' \in BOOLEAN /\ Settles /\ Stays /\ UNCHANGED call

Settle == power /\ call = {} /\ failed' = FALSE /\ Settles /\ Stays /\ UNCHANGED <<call, power>>

PowerOff == power /\ power' = FALSE /\ call' = {} /\ Stays /\ UNCHANGED <<failed, may>>

Fail == power /\ call' = {} /\ failed' = TRUE /\ Stays /\ UNCHANGED <<power, may>>

Shift == failed /\ Shifts /\ UNCHANGED <<call, power, failed, may>>

Begin(v, d) ==
  /\ power /\ call = {} /\ call' = {<<v, d>>}
  /\ may' = [may EXCEPT ![v] = @ \cup {d}]
  /\ Stays
  /\ UNCHANGED <<power, failed>>

\* The call takes effect, and may return in the same step.
Commit(v, d) ==
  /\ call = {<<v, d>>} /\ ~failed
  /\ store' = [store EXCEPT ![v] = d]
  /\ call' \in {call, {}}
  /\ may' = IF call' = {} THEN [may EXCEPT ![v] = {d}] ELSE may
  /\ UNCHANGED <<power, failed>>

\* A write of the value that is there returns at once.
Return(v, d) ==
  /\ power /\ call \in {{}, {<<v, d>>}} /\ call' = {}
  /\ IF failed THEN UNCHANGED may ELSE store[v] = d /\ may' = [may EXCEPT ![v] = {d}]
  /\ Stays
  /\ UNCHANGED <<power, failed>>

Drop(S) ==
  /\ call # {} /\ ~failed
  /\ store' = [v \in Vars |-> IF v \in S THEN None ELSE store[v]]
  /\ UNCHANGED <<call, power, failed, may>>

Next == \/ PowerOn \/ PowerOff \/ Settle \/ Fail \/ Shift
        \/ \E v \in Vars, d \in Data : Begin(v, d) \/ Commit(v, d) \/ Return(v, d)
        \/ \E S \in SUBSET (Vars \ Kept) : Drop(S)

Spec == Init /\ [][Next]_vars
======================================================================
