------------------------------ MODULE MCRing ------------------------------
(***************************************************************************)
(* An instance of CanRing for TLC.                                         *)
(***************************************************************************)
EXTENDS CanRing

CONSTANTS f1, f2, f3
===========================================================================
