------------------------------ MODULE MCRunLock ------------------------------
(* A small instance of RunLock for TLC. *)
EXTENDS RunLock, TLC

Interchangeable == Permutations(Proc)
=============================================================================
