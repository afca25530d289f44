----------------------------- MODULE SoftReviews -----------------------------
(***************************************************************************)
(* The soft goals of a run: peers review the work on their turns, a review *)
(* is a commit with a "## Review" section and a Peer-Review-Of trailer, and*)
(* the driver keeps counters in state.json from which it tells whether a   *)
(* goal has its consensus (driver_soft_reviews.py).                        *)
(*                                                                         *)
(* One goal; its reviewer mode is fixed for a behaviour.  `all` is not kept*)
(* by the driver: it is every review ever ingested, against which the      *)
(* counters are held.                                                      *)
(***************************************************************************)
EXTENDS Naturals, Sequences, FiniteSets

CONSTANTS Peers, Modes,
          ConsensusNeeded, QuorumNum, QuorumDen,
          HistoryCap,   \* reviews kept in the history (20 in the code)
          MaxReviews    \* bound: reviews of a behaviour

\* goals.py accepts a quorum of any size; one of more reviews than the history
\* keeps is never reached (QuorumOfLastReviews).
SoftAssumption ==
  /\ Modes \subseteq {"other", "alternating", "both", "quorum"}
  /\ {ConsensusNeeded, QuorumNum, QuorumDen, HistoryCap, MaxReviews} \subseteq Nat
  /\ QuorumDen <= HistoryCap

VARIABLES mode,      \* goal.reviewer
          count,     \* soft["consensus_count"]
          last,      \* soft["last_pass"], ["last_reviewer"]: [pass, by]
          perPeer,   \* soft["per_peer"][p]["consensus_count"]
          history,   \* soft["history"]: the last reviews, [pass, by]
          all        \* every review ingested

vars == <<mode, count, last, perPeer, history, all>>

None == "none"
Rolling == {"other", "alternating"}
LastN(s, n) == IF Len(s) <= n THEN s ELSE SubSeq(s, Len(s) - n + 1, Len(s))

Init == /\ mode \in Modes
        /\ count = 0
        /\ last = [pass |-> FALSE, by |-> None]
        /\ perPeer = [p \in Peers |-> 0]
        /\ history = <<>>
        /\ all = <<>>

CountEveryPass(p, pass) == IF pass THEN count + 1 ELSE 0

\* a pass counts on only after a pass of somebody else
NextCount(p, pass) == IF ~pass THEN 0
                      ELSE IF last.pass /\ last.by # p THEN count + 1
                      ELSE 1

\* _record_soft_review_from_commit: whoever ships a review is counted, asked or
\* not; a commit without a section, a JSON object or a boolean is only warned of
Record(p, pass) ==
  /\ Len(all) < MaxReviews
  /\ count' = IF mode \in Rolling THEN NextCount(p, pass) ELSE count
  /\ last' = IF mode \in Rolling THEN [pass |-> pass, by |-> p] ELSE last
  /\ perPeer' = [perPeer EXCEPT ![p] = IF pass THEN @ + 1 ELSE 0]
  /\ history' = LastN(Append(history, [pass |-> pass, by |-> p]), HistoryCap)
  /\ all' = Append(all, [pass |-> pass, by |-> p])
  /\ UNCHANGED mode

Next == \E p \in Peers, pass \in BOOLEAN : Record(p, pass)

Spec == Init /\ [][Next]_vars

Passers(s) == {s[i].by : i \in {j \in 1..Len(s) : s[j].pass}}

\* _soft_goal_passed
SoftGoalPassed ==
  \/ mode \in Rolling /\ count >= ConsensusNeeded
  \/ mode = "both" /\ \A p \in Peers : perPeer[p] >= ConsensusNeeded
  \/ /\ mode = "quorum"
     /\ LET recent == LastN(history, QuorumDen)
        IN  /\ Len(recent) >= QuorumDen
            /\ Cardinality(Passers(recent)) >= QuorumNum

-----------------------------------------------------------------------------
\* The same, told from the reviews themselves
AllPass(s, n) == Len(s) >= n /\ \A i \in (Len(s) - n + 1)..Len(s) : s[i].pass
NoPeerTwice(s, n) ==
  \A i \in (Len(s) - n + 2)..Len(s) : s[i].by # s[i - 1].by

\* the passes of p since its last failure
PassesOf(p) ==
  {i \in DOMAIN all : /\ all[i].by = p
                      /\ \A j \in i..Len(all) : all[j].by = p => all[j].pass}
QuorumReached ==
  LET recent == LastN(all, QuorumDen)
  IN  Len(recent) = QuorumDen /\ Cardinality(Passers(recent)) >= QuorumNum

Consensus ==
  \/ /\ mode \in Rolling
     /\ AllPass(all, ConsensusNeeded)
     /\ NoPeerTwice(all, ConsensusNeeded)
  \/ mode = "both" /\ \A p \in Peers : Cardinality(PassesOf(p)) >= ConsensusNeeded
  \/ mode = "quorum" /\ QuorumReached

\* The counters say consensus exactly when the reviews do: a peer that passes
\* its own work twice is one vote, one failure undoes the passes before it, and
\* a trimmed history loses nothing the quorum looks at
\* (driver_soft_reviews.py:355, 191).
ConsensusIsEarned == SoftGoalPassed <=> Consensus

\* What a comment says of a quorum: "Last `quorum_den` reviews must contain
\* >= quorum_num pass" (driver_soft_reviews.py:184).
QuorumOfLastReviews == mode = "quorum" => (QuorumReached <=> SoftGoalPassed)
=============================================================================
