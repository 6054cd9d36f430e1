---------------------------- MODULE MCCommands ----------------------------
(***************************************************************************)
(* Instances of Commands for TLC.                                          *)
(***************************************************************************)
EXTENDS Commands

CONSTANTS usb, uart, can, detect
===========================================================================
