------------------------------- MODULE PlanWork ------------------------------
(***************************************************************************)
(* The plan of an implement-mode project while peers work through it: the  *)
(* marks of PLAN.md, the commits of the peers and the pre-commit hook that *)
(* vets them, the gates over the plan (templates/modes/implement/checks),  *)
(* and `peers-ctl ack-block`, by which an operator accepts a blocked step. *)
(*                                                                         *)
(* A commit keeps what the gates read back from it: its author, the files  *)
(* it changes, the steps its diff of PLAN.md takes from "[ ]" to "[x]", and*)
(* the files it signs off (peers-review).  The author is what the attest   *)
(* note, or before it the Peer trailer, says; authors known by their email *)
(* only are left out, and so are plans that do not parse.                  *)
(***************************************************************************)
EXTENDS Naturals, Sequences, FiniteSets

CONSTANTS Peers, Steps, Files,
          Touches,     \* [Steps -> SUBSET Files], the `touches:` of a step
          Signed,      \* <<file, peer>> pairs of justifications.log
          Operators,   \* terminals in which the operator may run ack-block
          MaxCommits,  \* bound: commits of the run
          MaxAcks      \* bound: ack-block calls

PlanAssumption ==
  /\ Touches \in [Steps -> SUBSET Files]
  /\ Signed \subseteq Files \X Peers
  /\ MaxCommits \in Nat /\ MaxAcks \in Nat

VARIABLES plan,    \* PLAN.md in the work tree: Steps -> mark
          head,    \* PLAN.md at HEAD
          hist,    \* the commits: [by, files, checked, signs]
          blocks,  \* the steps with an entry in .peers/blocks.log
          op,      \* each ack-block under way: [at, step, text]
          acks     \* ack-block calls made

vars == <<plan, head, hist, blocks, op, acks>>

Marks == {"open", "done", "partial", "blocked", "blocked-ack"}
Quiet == [at |-> "idle"]

TypeOK == /\ plan \in [Steps -> Marks]
          /\ head \in [Steps -> Marks]
          /\ Len(hist) \in 0..MaxCommits
          /\ \A i \in 1..Len(hist) :
               hist[i] \in [by : Peers, files : SUBSET Files,
                            checked : SUBSET Steps, signs : SUBSET Files]
          /\ blocks \subseteq Steps
          /\ acks \in 0..MaxAcks

Init == /\ plan = [s \in Steps |-> "open"]
        /\ head = plan
        /\ hist = <<>>
        /\ blocks = {}
        /\ op = [o \in Operators |-> Quiet]
        /\ acks = 0

-----------------------------------------------------------------------------
\* The commits before the n-th that change file f, and the last of them
Changing(f, n) == {i \in 1..(n - 1) : f \in hist[i].files}
LastOf(S) == CHOOSE i \in S : \A j \in S : j <= i
LastImplIdentity(f, n) ==
  IF Changing(f, n) = {} THEN {} ELSE {hist[LastOf(Changing(f, n))].by}

LastToucherNow(f, n) ==
  LET S == {i \in 1..Len(hist) : i # n /\ f \in hist[i].files}
  IN IF S = {} THEN {} ELSE {hist[LastOf(S)].by}

\* find_review_commit: a peers-review commit for f by someone who never changed f
IndependentReview(f) ==
  \E i \in 1..Len(hist) : /\ f \in hist[i].signs
                          /\ \A j \in 1..Len(hist) :
                               f \in hist[j].files => hist[j].by # hist[i].by

CheckoffsOf(s) == {i \in 1..Len(hist) : s \in hist[i].checked}
\* the latest commit that took the step from "[ ]" to "[x]"
FindCheckoffCommit(s) == LastOf(CheckoffsOf(s))

CheckoffByLastEditor ==
  \A s \in Steps : plan[s] = "done" /\ CheckoffsOf(s) # {} =>
     LET n == FindCheckoffCommit(s)
     IN \A f \in Touches[s] :
          hist[n].by \in LastToucherNow(f, n) => IndependentReview(f)

CheckoffByOtherPeer ==
  \A s \in Steps : plan[s] = "done" /\ CheckoffsOf(s) # {} =>
     LET n == FindCheckoffCommit(s)
     IN \A f \in Touches[s] :
          hist[n].by \in LastImplIdentity(f, n) => IndependentReview(f)

PlanChecklistEmpty == \A s \in Steps : plan[s] # "open"
NoUnresolvedBlocks == \A s \in Steps : plan[s] # "blocked"

\* the gates over the plan that decide whether the run may converge
PlanGatesGreen == PlanChecklistEmpty /\ NoUnresolvedBlocks /\ CheckoffByOtherPeer

\* the pre-commit hook, for a commit of p that checks off these steps: their
\* files were last changed by another peer, or another peer signed them
HookPasses(p, checked) ==
  \A s \in checked : \A f \in Touches[s] :
     LET impl == LastImplIdentity(f, Len(hist) + 1)
     IN p \in impl => \E q \in Peers \ impl : <<f, q>> \in Signed

-----------------------------------------------------------------------------
\* A peer edits one mark of PLAN.md; acknowledging is the operator's
EditMark(s, m) ==
  /\ plan[s] # m /\ plan[s] # "blocked-ack"
  /\ m \in Marks \ {"blocked-ack"}
  /\ plan' = [plan EXCEPT ![s] = m]
  /\ UNCHANGED <<head, hist, blocks, op, acks>>

\* A peer commits some files, with PLAN.md (staged) or without it, or signs files
\* off in a commit of its own; the hook looks at the plan it stages
Commit(p, files, signs, staged) ==
  LET next == IF staged THEN plan ELSE head
      checked == {s \in Steps : head[s] = "open" /\ next[s] = "done"} IN
  /\ Len(hist) < MaxCommits
  /\ next # head \/ files # {} \/ signs # {}
  /\ files = {} \/ signs = {}
  /\ HookPasses(p, checked)
  /\ hist' = Append(hist, [by |-> p, files |-> files,
                           checked |-> checked, signs |-> signs])
  /\ head' = next
  /\ UNCHANGED <<plan, blocks, op, acks>>

\* cmd_ack_block reads PLAN.md and computes the text it will write
AckRead(o, s) ==
  /\ op[o] = Quiet /\ acks < MaxAcks
  /\ plan[s] = "blocked"
  /\ op' = [op EXCEPT ![o] = [at |-> "log", step |-> s,
                              text |-> [plan EXCEPT ![s] = "blocked-ack"]]]
  /\ acks' = acks + 1
  /\ UNCHANGED <<plan, head, hist, blocks>>

AckRewriteFirst(o) ==
  /\ op[o].at = "log"
  /\ plan' = op[o].text
  /\ op' = [op EXCEPT ![o].at = "plan"]
  /\ UNCHANGED <<head, hist, blocks, acks>>

\* it appends the entry to blocks.log and syncs it to the disk
AckLog(o) == /\ op[o].at = "log"
             /\ blocks' = blocks \cup {op[o].step}
             /\ op' = [op EXCEPT ![o].at = "plan"]
             /\ UNCHANGED <<plan, head, hist, acks>>

\* and only then rewrites PLAN.md
AckWrite(o) == /\ op[o].at = "plan"
               /\ plan' = op[o].text
               /\ op' = [op EXCEPT ![o] = Quiet]
               /\ UNCHANGED <<head, hist, blocks, acks>>

\* the command is killed between two of its steps
AckKilled(o) == /\ op[o] # Quiet
                /\ op' = [op EXCEPT ![o] = Quiet]
                /\ UNCHANGED <<plan, head, hist, blocks, acks>>

Next == \/ \E s \in Steps, m \in Marks : EditMark(s, m)
        \/ \E p \in Peers, files, signs \in SUBSET Files, staged \in BOOLEAN :
              Commit(p, files, signs, staged)
        \/ \E o \in Operators : \/ \E s \in Steps : AckRead(o, s)
                                \/ AckLog(o) \/ AckWrite(o) \/ AckKilled(o)

Spec == Init /\ [][Next]_vars

-----------------------------------------------------------------------------
\* The two layers of the reviewer rule agree: when nobody used the hook's own
\* escape, a history whose every commit passed the hook also passes the gate,
\* whatever was unchecked, redone, changed after the checkoff or checked again
\* (checkoff_by_other_peer.py:150 "so both layers agree on identity").
HookedHistoryIsClean == Signed = {} => CheckoffByOtherPeer

\* No step is acknowledged without its entry in blocks.log, wherever the command
\* is killed (cli.py:1060 "leaves an unaudited [BLOCKED-ACK]").
NoUnauditedAck == \A s \in Steps : plan[s] = "blocked-ack" => s \in blocks

\* The plan says what happened (checkoff_by_other_peer.py:150, cli.py:1060).
PlanIsHonest == HookedHistoryIsClean /\ NoUnauditedAck

\* When the gates over the plan are green every step is finished or accepted:
\* "[PARTIAL] in-flight -- fails plan-checklist-empty so it cannot converge"
\* (docs/MODES_IMPLEMENT.md:112).  The gate looks for open steps only.
GreenPlanIsFinished ==
  PlanGatesGreen => \A s \in Steps : plan[s] \in {"done", "blocked-ack"}
=============================================================================
