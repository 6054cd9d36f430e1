---------------------------- MODULE MCEeprom ----------------------------
(***************************************************************************)
(* Instances of Eeprom for TLC.                                            *)
(***************************************************************************)
EXTENDS Eeprom

CONSTANTS a, b, c, d1, d2

TableA  == <<a>>
TableAB == <<a, b>>
======================================================================
