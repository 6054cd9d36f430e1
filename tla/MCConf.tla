------------------------------- MODULE MCConf -------------------------------
(***************************************************************************)
(* Instances of ConfStore for TLC.  mc2 is the configuration of the second *)
(* motor, whose addresses VirtAddVarTab does not list.                     *)
(***************************************************************************)
EXTENDS ConfStore, TLC, Functions

CONSTANTS mc, mc2, custom, v1, v2, t1, t2

Words == mc :> <<"m1", "m2">> @@ mc2 :> <<"n1">> @@ custom :> <<"c1", "c2">>
ListedAddr == UNION {Range(Words[a]) : a \in Areas \ {mc2}}
Symmetric == Permutations({v1, v2}) \cup Permutations({t1, t2})
=============================================================================
