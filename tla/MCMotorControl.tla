------------------------- MODULE MCMotorControl -------------------------
(***************************************************************************)
(* Instances of MotorControl for TLC.                                      *)
(***************************************************************************)
EXTENDS MotorControl

CONSTANTS app, detect

Cmd(op, amp) == [op |-> op, amp |-> amp]

Throttle == {Cmd("set_current", TRUE), Cmd("set_duty", FALSE), Cmd("release_motor", FALSE)}
Duty == {Cmd("set_duty", FALSE)}
Driving == {Cmd("set_current", TRUE), Cmd("set_current", FALSE), Cmd("release_motor", FALSE)}
Single == {1}
Dual == {1, 2}
=========================================================================
