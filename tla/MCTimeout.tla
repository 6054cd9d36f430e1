---------------------------- MODULE MCTimeout ----------------------------
(***************************************************************************)
(* Instances of Timeout for TLC.                                           *)
(***************************************************************************)
EXTENDS Timeout

CONSTANTS app, detect, watch

Throttle == {[op |-> "set_current", amp |-> TRUE], [op |-> "set_duty", amp |-> FALSE]}
Duty == {[op |-> "set_duty", amp |-> FALSE]}
Single == {1}
Dual == {1, 2}
==========================================================================
