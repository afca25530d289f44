---------------------------- MODULE MCComponents ----------------------------
(* Small instances of the components for TLC; and for those that something has  *)
(* to end of, the fairness their scheduling justifies, and that it does.        *)
EXTENDS Components, TLC

MCGoalSet == (0 :> {"tests"}) @@ (1 :> {"lint", "tests"})
MCTouches == <<{"f"}>>

\* what a commit may say of the bug
Other == [report |-> "none", resolve |-> "none", defer |-> FALSE,
          repro |-> "none", waive |-> FALSE]
MCCommits ==
  {Other, [Other EXCEPT !.defer = TRUE], [Other EXCEPT !.waive = TRUE],
   [Other EXCEPT !.report = "high", !.resolve = "fixed"],
   [Other EXCEPT !.resolve = "fixed", !.repro = "test"],
   [Other EXCEPT !.resolve = "wontfix", !.defer = TRUE]}
  \cup {[Other EXCEPT !.report = s] : s \in {"low", "high"}}
  \cup {[Other EXCEPT !.resolve = s] : s \in {"fixed", "wontfix"}}
  \cup {[Other EXCEPT !.repro = r] : r \in {"bare", "test"}}

\* what a child may write
OutTexts == {<<>>, <<"er", "ror">>, <<"echo", "er">>, <<"halt", "er">>,
             <<"echo", "halt", "envRate">>, <<"er", "ror", "envHalt">>,
             <<"text", "er", "ror", "text">>}
ErrTexts == {<<>>, <<"er", "ror">>}
MCScripts == {[out |-> o, err |-> <<>>, tee |-> FALSE] : o \in OutTexts}
              \cup {[out |-> <<"text">>, err |-> e, tee |-> e = <<>>] : e \in ErrTexts}
              \cup {[out |-> <<"er", "ror">>, err |-> <<>>, tee |-> TRUE]}

MCOrder == <<"a", "b">>
MCTruth == [a |-> "flaky", b |-> "missing"]

\* the path of one project begins like the other's
MCWithin == {<<"a", "a">>, <<"a", "ab">>, <<"ab", "ab">>}

-----------------------------------------------------------------------------
(* The fairness of each component, of its own behaviours: one condition on a
   disjunction stands for one on each of its disjuncts, for only the disjunct
   of the subject is ever enabled.                                           *)
Launches == \E fixer \in {"landing", "escalate-only"} : Bring!Launch(fixer)
Fairness ==
  /\ SF_vars(InCall(Call!RunsOver))
  /\ WF_vars(\/ InCall(Call!Monitor) \/ InReap(Reap!StartPeer)
             \/ InBring(Launches) \/ InProxy(Proxy!Step("k1")))
  /\ WF_vars(\/ InCall(Call!Reading("out"))
             \/ InReap(Reap!PollPeer \/ Reap!TerminatePeer)
             \/ InBring(Bring!Round \/ Bring!IdleRound \/ Bring!RunsDry)
             \/ InProxy(Proxy!Step("k2")))
  /\ WF_vars(\/ InCall(Call!Reading("err")) \/ InReap(Reap!ReapOrphans)
             \/ InBring(Bring!Diagnose) \/ InProxy(Proxy!Step("k3")))
  /\ WF_vars(InBring(Bring!Turn \/ Bring!TurnsSpent))
  /\ WF_vars(InBring(Bring!Report))

FairSpec == Spec /\ Fairness

(* health_guard.py:1018: "absolute_max stays the hard backstop": every call
   ends, although a helper process holds the pipes open.                     *)
InvocationEnds ==
  (subject = "PeerInvocation") ~> (subject = "PeerInvocation" /\ Call!Ended)

(* health_guard.py:680: no orphan stays a zombie, which would count against
   the container's limit of processes for good.                              *)
OrphansAreReaped ==
  \A p \in Orphans : (subject = "Reaper" /\ Reap!Zombie(p)) ~>
                      (subject = "Reaper" /\ ~Reap!Zombie(p))

(* modes/bring_up/loop.py:94 and spine/stop_on_dry.py: the fix budget of each case and the dry
   rule end the run, also when each fix breaks another case.                 *)
RunEnds ==
  (subject = "BringUp" /\ Bring!InRounds) ~> (subject = "BringUp" /\ Bring!Done)

(* A request that is let in is answered, whoever holds the two locks (the
   accept loop and ClaudeTokenStore.refresh in server.py).                   *)
RequestsEnd ==
  \A c \in Conns : (subject = "AuthProxy" /\ Proxy!LetIn(c)) ~>
                    (subject = "AuthProxy" /\ Proxy!Answered(c))

(* What one of the components begins ends, under its fairness.               *)
EverythingEnds == InvocationEnds /\ OrphansAreReaped /\ RunEnds /\ RequestsEnd
=============================================================================
