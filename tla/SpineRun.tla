------------------------------- MODULE SpineRun -------------------------------
(***************************************************************************)
(* Runs of the spine: drive() of src/peers/spine/mode_run.py over the      *)
(* rounds of the develop front end, each run in its own leased branch, its *)
(* hash-chained ledger .peers/run.jsonl, and the attestation notes all     *)
(* runs of a repository share.  A round audits, verifies and authors       *)
(* (Round), commits (Implement), writes the notes (ReadNotes, WriteNotes)  *)
(* and appends its rows one by one, so that other processes, and kills,    *)
(* come in between.                                                        *)
(***************************************************************************)
EXTENDS Integers, Sequences, FiniteSets

CONSTANTS
  Runs,          \* the runs that share the repository
  Commits,       \* numbers of commits; 0 is the target's first tip
  MaxRounds,     \* run -> its Budget.max_rounds
  DryN,          \* run -> its OpConfig.dry_n
  GateDryN,      \* the dry_n build_landing_contract() leaves at its default
  K,             \* refuters per finding
  MaxFaults,     \* kills and failed appends in a history
  None           \* no commit

ASSUME SpineAssumption ==
  /\ MaxRounds \in [Runs -> Nat \ {0}] /\ DryN \in [Runs -> Nat \ {0}] /\ GateDryN \in Nat \ {0} /\ K \in Nat \ {0}
  /\ Commits \subseteq Nat /\ 0 \in Commits /\ None \notin Commits

VARIABLES
  parent,        \* the commits that exist, each with its parent
  rules,         \* what a commit's tree says in the governance paths
  theirs,        \* the commits people made
  notes,         \* the commits with a peers-attest note
  base,          \* run -> the fork point its lease recorded
  branch,        \* run -> the tip of its branch
  ledger,        \* run -> the rows of its ledger
  blocked,       \* run -> prepare() found no trustworthy bar
  pc,            \* run -> where drive() is
  rounds,        \* run -> the rounds of this drive()
  work,          \* run -> the round's start, its commit and the notes it read
  faults

git == <<parent, rules, theirs>>
spineVars == <<git, notes, base, branch, ledger, blocked, pc, rounds, work, faults>>

-----------------------------------------------------------------------------
(* Commits, rows and the gates over them.                                  *)

Born == DOMAIN parent

\* The commits reachable from c: the least set with c that has its commits' parents.
\* The first commit counts as its own parent.
History(c) ==
  {x \in Born : \A S \in SUBSET Born : c \in S /\ (\A y \in S : parent[y] \in S) => x \in S}

\* Commits are numbered in the order they are made, while there are numbers left.
Fresh == {c \in Commits : \A x \in Born : x < c}
NewCommit == CHOOSE c \in Fresh : TRUE
Grow(p, text) ==
  /\ Fresh # {}
  /\ parent' = [x \in Born \cup {NewCommit} |-> IF x = NewCommit THEN p ELSE parent[x]]
  /\ rules' = [x \in Born \cup {NewCommit} |-> IF x = NewCommit THEN text ELSE rules[x]]

\* A row; "by" says that append_attested() found a note on its commit.
Row(event, sha, by) == [event |-> event, sha |-> sha, by |-> by]
Plain(event) == Row(event, None, FALSE)
Attested(event, sha) == Row(event, sha, sha \in notes)
Torn(rows) == \E i \in DOMAIN rows : rows[i].event = "torn"

IsRealUnattested(row) == row.event = "confirmed-work"     \* mutant: FIX 9 undone
IsReal(row) == row.event = "confirmed-work" /\ row.by
IsRound(row) == row.event \in {"dry-round", "confirmed-work"}
DryStreak(rows) ==
  LET since == {i \in DOMAIN rows : \A j \in i..Len(rows) : ~IsReal(rows[j])}
  IN  Cardinality({i \in since : IsRound(rows[i])})

Confirmed(rows) == {i \in DOMAIN rows : rows[i].event = "confirmed-work"}
Independent(rows) ==
  {i \in DOMAIN rows : rows[i].event \in {"confirmed-work", "propagation", "landed"}}

ModeRunValid(rows) == rows # <<>> /\ rows[1].event = "run-start"
WitnessLedgered(rows) ==
  Confirmed(rows) # {} /\ \A i \in Confirmed(rows) : rows[i].sha \in Born
AuthorshipAttested(rows, head) ==
  \A i \in Independent(rows) : rows[i].by /\ rows[i].sha \in History(head) /\ rows[i].sha \in notes
StopOnDry(rows) ==
  DryStreak(rows) >= GateDryN => \E i \in DOMAIN rows : rows[i].event = "stop"
AllPass(rows, head) ==
  ModeRunValid(rows) /\ WitnessLedgered(rows) /\ AuthorshipAttested(rows, head) /\ StopOnDry(rows)

ConvergedCommit(rows) ==
  IF Confirmed(rows) = {} THEN None
  ELSE rows[CHOOSE i \in Confirmed(rows) : \A j \in Confirmed(rows) : j <= i].sha

\* verify_claim: the claim survives while fewer than half the refuters refute it.
Survives(refuted) == refuted < (K + 1) \div 2

\* The net diff of two commits names no governance path.
SameRules(a, b) == rules[a] = rules[b]

-----------------------------------------------------------------------------
(* drive() and the rounds of the develop front end.                        *)

Append1(r, row) == ledger' = [ledger EXCEPT ![r] = Append(@, row)]
Goto(r, label) == pc' = [pc EXCEPT ![r] = label]
\* A round that confirms nothing appends its dry-round row and goes on to the checks.
DryRound(r) == Append1(r, Plain("dry-round")) /\ Goto(r, "check")

LoadOpConfig(r) == Append1(r, Plain("run-start"))
\* infer_bar() or ensure_bar(): an absent bar blocks every round.
Prepare(r) == \E absent \in BOOLEAN : blocked' = [blocked EXCEPT ![r] = absent]
Start(r) ==
  /\ pc[r] = "new"
  /\ LoadOpConfig(r) /\ Prepare(r)
  /\ Goto(r, "round")
  /\ UNCHANGED <<git, notes, base, branch, rounds, work, faults>>

\* AUDIT and VERIFY: does a finding survive its refuters?  AUTHOR: is there a
\* contract?  If so, there is work for the implementer; else the round is dry.
HasSurvivor == \E finding \in BOOLEAN, refuted \in 0..K : finding /\ Survives(refuted)
Round(r) ==
  /\ pc[r] = "round"
  /\ \/ /\ ~blocked[r] /\ HasSurvivor
        /\ Goto(r, "implement") /\ UNCHANGED ledger
     \/ DryRound(r)
  /\ work' = [work EXCEPT ![r] = [from |-> branch[r], sha |-> None, seen |-> {}]]
  /\ UNCHANGED <<git, notes, base, branch, blocked, rounds, faults>>

\* A commit touches the governance paths, or it does not.
Texts(r) == {rules[branch[r]], 1}

\* IMPLEMENT converges on a commit of this run's branch ...
Implement(r, text) ==
  /\ pc[r] = "implement"
  /\ Grow(branch[r], text)
  /\ branch' = [branch EXCEPT ![r] = NewCommit]
  /\ work' = [work EXCEPT ![r].sha = NewCommit]
  /\ Goto(r, "read-notes")
  /\ UNCHANGED <<theirs, notes, base, ledger, blocked, rounds, faults>>

\* ... or does not: a spent budget, or an agent that committed by itself and left
\* nothing to commit, whose commit then stays on the branch.
ImplementFails(r) ==
  /\ pc[r] = "implement"
  /\ \/ UNCHANGED <<git, branch>>
     \/ \E text \in Texts(r) :
          /\ Grow(branch[r], text) /\ UNCHANGED theirs
          /\ branch' = [branch EXCEPT ![r] = NewCommit]
  /\ DryRound(r)
  /\ UNCHANGED <<notes, base, blocked, rounds, work, faults>>

\* attest_commits(): "git notes add" reads the notes tree and writes it back.
ReadNotes(r) ==
  /\ pc[r] = "read-notes"
  /\ work' = [work EXCEPT ![r].seen = notes]
  /\ Goto(r, "write-notes")
  /\ UNCHANGED <<git, notes, base, branch, ledger, blocked, rounds, faults>>
WriteNotes(r) ==
  /\ pc[r] = "write-notes"
  /\ notes' = work[r].seen \cup (History(work[r].sha) \ History(work[r].from))
  /\ work' = [work EXCEPT ![r].seen = {}]
  /\ Goto(r, "confirm")
  /\ UNCHANGED <<git, base, branch, ledger, blocked, rounds, faults>>

Confirm(r) ==
  /\ pc[r] = "confirm"
  /\ Append1(r, Attested("confirmed-work", work[r].sha))
  /\ Goto(r, "landing")
  /\ UNCHANGED <<git, notes, base, branch, blocked, rounds, work, faults>>

\* The contract is derived from a fresh read; a torn ledger raises out of drive().
\* Else the landing row and, for the isolated branch, the propagation row.
RecordOutcome(r) ==
  /\ pc[r] = "landing"
  /\ IF Torn(ledger[r]) THEN Goto(r, "failed") /\ UNCHANGED ledger
     ELSE /\ ledger' = [ledger EXCEPT ![r] =
               @ \o <<Plain("landing"), Attested("propagation", work[r].sha)>>]
          /\ Goto(r, "check")
  /\ UNCHANGED <<git, notes, base, branch, blocked, rounds, work, faults>>

\* After each round: abort on a torn ledger (interpret() then raises), stop when
\* dry, stop when the rounds are spent.
Check(r) ==
  /\ pc[r] = "check"
  /\ rounds' = [rounds EXCEPT ![r] = @ + 1]
  /\ \/ Torn(ledger[r]) /\ Append1(r, Plain("stop")) /\ Goto(r, "failed")
     \/ /\ ~Torn(ledger[r])
        /\ IF DryStreak(ledger[r]) >= DryN[r] \/ rounds[r] + 1 >= MaxRounds[r]
           THEN Append1(r, Plain("stop")) /\ Goto(r, "ended")
           ELSE UNCHANGED ledger /\ Goto(r, "round")
  /\ UNCHANGED <<git, notes, base, branch, blocked, work, faults>>

Fault == faults < MaxFaults /\ faults' = faults + 1
Live(r) == pc[r] \notin {"new", "ended", "failed", "crashed"}

\* A kill; one that hits an append leaves half a row.
Crash(r) ==
  /\ Live(r)
  /\ Goto(r, "crashed") /\ Fault
  /\ \/ UNCHANGED ledger
     \/ pc[r] \in {"confirm", "landing"} /\ Append1(r, Plain("torn"))
  /\ UNCHANGED <<git, notes, base, branch, blocked, rounds, work>>

SpineInit ==
  /\ \E ahead \in SUBSET (Commits \cap {1}) :   \* people's branch, not merged into the target
       /\ parent = [c \in {0} \cup ahead |-> 0]
       /\ theirs = {0} \cup ahead
       /\ rules \in [{0} \cup ahead -> {0, 1}] /\ rules[0] = 0
  /\ notes = {}
  /\ base \in [Runs -> theirs]
  /\ branch = base
  /\ ledger = [r \in Runs |-> <<>>]
  /\ blocked = [r \in Runs |-> FALSE]
  /\ pc = [r \in Runs |-> "new"]
  /\ rounds = [r \in Runs |-> 0] /\ faults = 0
  /\ work = [r \in Runs |-> [from |-> base[r], sha |-> None, seen |-> {}]]

RunStep(r) ==
  \/ Start(r) \/ Round(r) \/ ImplementFails(r)
  \/ \E text \in Texts(r) : Implement(r, text)
  \/ ReadNotes(r) \/ WriteNotes(r) \/ Confirm(r)
  \/ RecordOutcome(r) \/ Check(r) \/ Crash(r)
===============================================================================
