----------------------------- MODULE MCPlanWork -----------------------------
(* A small instance of PlanWork for TLC: every step touches the one file. *)
EXTENDS PlanWork
MCTouches == [s \in Steps |-> {"f"}]
=============================================================================
