---------------------------- MODULE MCConvergence ----------------------------
(* A small instance of Convergence for TLC: one watched gate, and one that the *)
(* skeptic phase asks for.                                                     *)
EXTENDS Convergence

JustTests == {"tests-pass"}
JustAudit == {"honesty-audit"}
TestsAndAudit == JustTests \cup JustAudit
=============================================================================
