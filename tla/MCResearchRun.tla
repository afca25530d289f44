---------------------------- MODULE MCResearchRun ----------------------------
(* A small instance of ResearchRun for TLC: one question, two rounds. *)
EXTENDS ResearchRun
=============================================================================
