----------------------------- MODULE MCTestGates -----------------------------
(* A small instance of TestGates for TLC. *)
EXTENDS TestGates
=============================================================================
