---------------------------- MODULE VerifiedTarget ----------------------------
(***************************************************************************)
(* What automatic landing promises of a target branch, whatever runs,      *)
(* ledgers and landing calls stand behind it: the branch only moves        *)
(* forward in history, and a commit made by a run gets there only under a  *)
(* commit that a fresh test run has vetted; the rest is people's work.     *)
(* Landing implements it.                                                  *)
(***************************************************************************)
EXTENDS Integers
CONSTANT Commits                       \* numbers; 0 is the first commit
VARIABLES parent,                      \* the history: a commit, its parent
          target,                      \* the tip of the target branch
          theirs,                      \* the commits people made
          vetted                       \* the commits a fresh test run passed
vars == <<parent, target, theirs, vetted>>

Born == DOMAIN parent

\* The commits reachable from c: no set that has c and its commits' parents is without them.
Reach(c) ==
  {x \in Born : \A S \in SUBSET Born : c \in S /\ (\A y \in S : parent[y] \in S) => x \in S}

Init == /\ parent \in UNION {[born -> born] : born \in {B \in SUBSET Commits : 0 \in B}}
        /\ parent[0] = 0
        /\ target \in Born
        /\ Reach(target) \subseteq theirs /\ theirs \subseteq Born
        /\ vetted = {}

Commit(c, p, person) ==
  /\ c \notin Born
  /\ parent' = [x \in Born \cup {c} |-> IF x = c THEN p ELSE parent[x]]
  /\ theirs' = IF person THEN theirs \cup {c} ELSE theirs
  /\ UNCHANGED <<target, vetted>>

Vet(c) == vetted' = vetted \cup {c} /\ UNCHANGED <<parent, target, theirs>>

Forward(c) == target \in Reach(c) /\ target' = c /\ UNCHANGED <<parent, theirs, vetted>>

Next == \/ \E c \in Commits : \E p \in Born : \E person \in BOOLEAN : Commit(c, p, person)
        \/ \E c \in Born : Vet(c)
        \/ \E c \in vetted \cup theirs : Forward(c)

Spec == Init /\ [][Next]_vars
===============================================================================
