------------------------------- MODULE MCCan -------------------------------
(***************************************************************************)
(* Instances of CanBuffer for TLC.  Both nodes send blocking commands: A   *)
(* one of two fragments; B a short one whose reply it will run, and a      *)
(* packet of three fragments to be passed on.  A also sends a short        *)
(* command without a reply.                                                *)
(***************************************************************************)
EXTENDS CanBuffer, TLC

CONSTANTS a, b, c, d, A, B

FourLengths == a :> 2 @@ b :> 3 @@ c :> 0 @@ d :> 0
FourSenders == a :> A @@ b :> B @@ c :> B @@ d :> A
FourModes == a :> 0 @@ b :> 1 @@ c :> 3 @@ d :> 2
============================================================================
