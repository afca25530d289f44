------------------------------ MODULE MCLanding ------------------------------
(* Instance of Landing for TLC: two runs of one repository and the people who use it. *)
EXTENDS Landing, TLC
CONSTANTS a, b
RoundsOf == (a :> 2) @@ (b :> 1)
DryOf == (a :> 1) @@ (b :> 1)
==============================================================================
