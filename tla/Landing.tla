-------------------------------- MODULE Landing --------------------------------
(***************************************************************************)
(* land() of src/peers/spine/auto_merge.py, beside the runs it lands and   *)
(* the people who push: the decision from a first read of the ledger, the  *)
(* fresh recheck, the self-hosting test on the recorded base, the target's *)
(* tip and its ancestry, the compare-and-swap, and the landed row.  Each   *)
(* is a step of its own; any of them may find that the ledger, the branch  *)
(* or the target has moved since the one before.                           *)
(***************************************************************************)
EXTENDS SpineRun

CONSTANT AutoMerge     \* the runs whose op-config asks for auto-merge

VARIABLES
  target,      \* the tip of refs/heads/<target>
  call,        \* run -> its landing call: step, converged commit, tip read, swapped
  result,      \* run -> what its landing call returned; a killed call is made again
  vetted       \* the commits whose checkout a recheck passed

landVars == <<target, call, result, vetted>>
vars == <<spineVars, landVars>>

NoCall == [at |-> "none", sha |-> None, tip |-> None, merged |-> FALSE]

Init == /\ SpineInit
        /\ target = 0 /\ vetted = {}
        /\ call = [r \in Runs |-> NoCall]
        /\ result = [r \in Runs |-> "none"]

Answer(r, answer) ==
  /\ result' = [result EXCEPT ![r] = answer]
  /\ call' = [call EXCEPT ![r] = [NoCall EXCEPT !.merged = call[r].merged]]
Advance(r, step) == call' = [call EXCEPT ![r].at = step] /\ UNCHANGED result

\* Steps 1 to 2b: the decision and the attested converged commit.
Decide(r) ==
  /\ call[r].at = "none" /\ pc[r] # "new" /\ result[r] = "none"
  /\ LET rows == ledger[r]
         sha == ConvergedCommit(rows)
     IN  IF ~Torn(rows) /\ r \in AutoMerge /\ AllPass(rows, branch[r]) /\ sha \in notes
         THEN /\ call' = [call EXCEPT ![r] = [NoCall EXCEPT !.at = "recheck", !.sha = sha]]
              /\ UNCHANGED result
         ELSE Answer(r, IF Torn(rows) THEN "error" ELSE "refused")
  /\ UNCHANGED <<spineVars, target, vetted>>

\* Step 3: the ledger is read again, the commit pinned again, the gates asked again.
Reread(r) ==
  /\ call[r].at = "recheck"
  /\ IF Torn(ledger[r]) THEN Answer(r, "error")
     ELSE IF /\ ConvergedCommit(ledger[r]) = call[r].sha
             /\ call[r].sha \in notes
             /\ AllPass(ledger[r], branch[r])
          THEN Advance(r, "tests") ELSE Answer(r, "refused")
  /\ UNCHANGED <<spineVars, target, vetted>>

\* The injected test run on a detached worktree at the converged commit.
Recheck(r) ==
  /\ call[r].at = "tests"
  /\ \/ Advance(r, "hosting") /\ vetted' = vetted \cup {call[r].sha}
     \/ Answer(r, "refused") /\ UNCHANGED vetted
     \/ Answer(r, "error") /\ UNCHANGED vetted       \* the lease is refused
  /\ UNCHANGED <<spineVars, target>>

DetectInLastCommit(r) ==                                   \* mutant
  /\ call[r].at = "hosting"
  /\ IF SameRules(parent[call[r].sha], call[r].sha) THEN Advance(r, "resolve") ELSE Answer(r, "refused")
  /\ UNCHANGED <<spineVars, target, vetted>>

\* Step 4: the converged diff against the base the lease recorded.
DetectSelfHosting(r) ==
  /\ call[r].at = "hosting"
  /\ IF SameRules(base[r], call[r].sha) THEN Advance(r, "resolve") ELSE Answer(r, "refused")
  /\ UNCHANGED <<spineVars, target, vetted>>

ResolveWithoutAncestry(r) ==                               \* mutant
  /\ call[r].at = "resolve"
  /\ call' = [call EXCEPT ![r].at = "swap", ![r].tip = target]
  /\ UNCHANGED <<spineVars, target, result, vetted>>

\* Step 5: the target's tip, which has to be an ancestor ...
ResolveTarget(r) ==
  /\ call[r].at = "resolve"
  /\ IF target \in History(call[r].sha)
     THEN call' = [call EXCEPT ![r].at = "swap", ![r].tip = target] /\ UNCHANGED result
     ELSE Answer(r, "refused")
  /\ UNCHANGED <<spineVars, target, vetted>>

SwapIgnoringRace(r) ==                                     \* mutant
  /\ call[r].at = "swap"
  /\ target' = IF target = call[r].tip THEN call[r].sha ELSE target
  /\ call' = [call EXCEPT ![r].at = "row", ![r].merged = TRUE]
  /\ UNCHANGED <<spineVars, result, vetted>>

\* ... and the compare-and-swap on the tip that was read.
Swap(r) ==
  /\ call[r].at = "swap"
  /\ IF target = call[r].tip
     THEN /\ target' = call[r].sha
          /\ call' = [call EXCEPT ![r].at = "row", ![r].merged = TRUE]
          /\ UNCHANGED result
     ELSE Answer(r, "refused") /\ UNCHANGED target
  /\ UNCHANGED <<spineVars, vetted>>

\* Step 6: the landed row; an append that fails is answered like any other error.
RecordLanding(r) ==
  /\ call[r].at = "row"
  /\ \/ Append1(r, Attested("landed", call[r].sha)) /\ Answer(r, "landed") /\ UNCHANGED faults
     \/ UNCHANGED ledger /\ Answer(r, "error") /\ Fault
  /\ UNCHANGED <<git, notes, base, branch, blocked, pc, rounds, work, target, vetted>>

\* The process that called land() is killed; half a landed row may stay behind.
CrashLanding(r) ==
  /\ call[r].at # "none" /\ Fault
  /\ call' = [call EXCEPT ![r] = NoCall]
  /\ \/ UNCHANGED ledger
     \/ call[r].at = "row" /\ Append1(r, Plain("torn"))
  /\ UNCHANGED <<git, notes, base, branch, blocked, pc, rounds, work, target, result, vetted>>

\* People commit on top of the target, and push their commits by a fast-forward.
PeopleCommit ==
  /\ Grow(target, rules[target])
  /\ theirs' = theirs \cup {NewCommit}
  /\ UNCHANGED <<notes, base, branch, ledger, blocked, pc, rounds, work, faults, landVars>>
Push ==
  /\ \E c \in theirs \ {target} : target \in History(c) /\ target' = c
  /\ UNCHANGED <<spineVars, call, result, vetted>>

LandStep(r) ==
  \/ Decide(r) \/ Reread(r) \/ Recheck(r) \/ DetectSelfHosting(r)
  \/ ResolveTarget(r) \/ Swap(r) \/ RecordLanding(r) \/ CrashLanding(r)

Next == \/ \E r \in Runs : RunStep(r) /\ UNCHANGED landVars
        \/ \E r \in Runs : LandStep(r)
        \/ PeopleCommit \/ Push

Spec == Init /\ [][Next]_vars

-----------------------------------------------------------------------------
Places == {"new", "round", "implement", "read-notes", "write-notes", "confirm", "landing",
           "check", "ended", "failed", "crashed"}
Steps == {"none", "recheck", "tests", "hosting", "resolve", "swap", "row"}
Events == {"run-start", "dry-round", "confirmed-work", "landing", "propagation", "stop",
           "landed", "torn"}

TypeOK ==
  /\ parent \in [Born -> Born] /\ 0 \in Born /\ Born \subseteq Commits
  /\ rules \in [Born -> {0, 1}] /\ theirs \subseteq Born /\ target \in Born
  /\ base \in [Runs -> theirs] /\ branch \in [Runs -> Born]
  /\ notes \subseteq Commits /\ vetted \subseteq Commits
  /\ ledger \in [Runs -> Seq([event : Events, sha : Commits \cup {None}, by : BOOLEAN])]
  /\ blocked \in [Runs -> BOOLEAN] /\ pc \in [Runs -> Places] /\ rounds \in [Runs -> Nat]
  /\ work \in [Runs -> [from : Commits, sha : Commits \cup {None}, seen : SUBSET Commits]]
  /\ call \in [Runs -> [at : Steps, sha : Commits \cup {None}, tip : Commits \cup {None},
                       merged : BOOLEAN]]
  /\ result \in [Runs -> {"none", "landed", "refused", "error"}]
  /\ faults \in Nat

\* A landing keeps the promise of VerifiedTarget: runs' commits reach the target
\* only under a commit whose own checkout passed the recheck, and the target never
\* loses a commit, with two runs landing and people pushing at the same time.
VT == INSTANCE VerifiedTarget
TargetKeepsPromise == VT!Spec

\* The ledger never claims a landing that is not in the target's history, whichever
\* calls were killed, refused or overtaken (step 6 comes after the compare-and-swap).
LandedRowsAreTrue ==
  \A r \in Runs : \A i \in DOMAIN ledger[r] :
    ledger[r][i].event = "landed" => ledger[r][i].sha \in History(target)

\* stop-on-dry: of any dry_n + 1 rounds in a row, one confirmed work that is attested
\* (stop_on_dry.py: a fabricated confirmation defers nothing).
DryRunsStop ==
  \A r \in Runs : \A a, b \in DOMAIN ledger[r] :
    LET done == {i \in a..b : IsRound(ledger[r][i])}
    IN  Cardinality(done) > DryN[r] => \E i \in done : ledger[r][i].by

\* A run forked from the target never changes the governance paths of the target by
\* landing: such a diff waits for a review, even with the target moved on meanwhile.
GovernanceNeedsReview ==
  [][\A r \in Runs : call'[r].merged /\ ~call[r].merged /\ base[r] \in History(call[r].tip)
       => rules[target'] = rules[target]]_vars

\* "ANY error on the merge path -> no merge" (auto_merge.py): a call that returns an
\* error has not moved the target.
ErrorMeansNotMerged == \A r \in Runs : result[r] = "error" => ~call[r].merged

===============================================================================
