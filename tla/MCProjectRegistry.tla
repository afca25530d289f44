------------------------- MODULE MCProjectRegistry -------------------------
(* An instance of ProjectRegistry for TLC: controllers, and pids, are interchangeable. *)
EXTENDS ProjectRegistry, TLC
Symm == Permutations(Ctls) \cup Permutations(Pids)
=============================================================================
