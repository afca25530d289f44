------------------------------ MODULE BringUp ------------------------------
(***************************************************************************)
(* `peers bring-up` (modes/bring_up, cli.py cmd_bring_up): a corpus of     *)
(* cases is driven through a tool; the loop sweeps every case each round,  *)
(* judges it with layered oracles, and lets the landing fixer diagnose,    *)
(* have the diagnosis attacked, and edit the tool until the case passes.   *)
(* The fixer edits the tool's own checkout: what a failed attempt leaves   *)
(* there stays there.  A tree is the set of cases that fail on it; the     *)
(* agents may turn it into any other.                                      *)
(***************************************************************************)
EXTENDS Naturals, Sequences, FiniteSets, SequencesExt

CONSTANTS
  Order,        \* the corpus: a sequence of distinct cases
  Truth,        \* per case: its ground truth is "present", "missing" or "flaky"
  Budget,       \* per_case_fix_budget
  DryN          \* dry_n of the op-config

BringUpAssumption ==
  /\ Order \in Seq(ToSet(Order)) /\ Order # <<>> /\ IsInjective(Order)
  /\ Truth \in [ToSet(Order) -> {"present", "missing", "flaky"}]
  /\ Budget \in Nat \ {0} /\ DryN \in Nat \ {0}

VARIABLES
  phase,        \* what the process is doing
  work, dirty,  \* the checkout: the cases failing on it, and whether git sees a diff
  commits,      \* the tree of every commit, HEAD last
  green, excluded, stuck, attempts, converged,   \* BringUpLoop
  target,       \* the case being fixed, what it was judged, the turns left
  rows,         \* the run ledger
  facts         \* memory facts: <<case, commit>>

loop == <<green, excluded, stuck, attempts, converged>>
tree == <<work, dirty, commits>>
vars == <<phase, work, dirty, commits, green, excluded, stuck, attempts, converged,
          target, rows, facts>>

Cases == ToSet(Order)
Kinds == {"none", "tool-bug", "corpus-error", "needs-adjudication"}
NoTarget == [case |-> Order[1], kind |-> "none", turns |-> 0]
HeadSha == Len(commits)

TypeOK ==
  /\ phase \in {"idle", "start", "round", "diagnose", "implement", "report", "done"}
  /\ work \subseteq Cases /\ dirty \in BOOLEAN
  /\ commits \in Seq(SUBSET Cases)
  /\ green \subseteq Cases /\ excluded \subseteq Cases /\ stuck \subseteq Cases
  /\ attempts \in [Cases -> 0..Budget] /\ converged \in BOOLEAN
  /\ target.case \in Cases /\ target.turns \in 0..Budget
  /\ facts \subseteq Cases \X (1..HeadSha)

Init ==
  /\ phase = "idle"
  /\ \E broken \in SUBSET Cases : work = broken /\ commits = <<broken>>
  /\ dirty = FALSE
  /\ green = {} /\ excluded = {} /\ stuck = {}
  /\ attempts = [c \in Cases |-> 0] /\ converged = FALSE
  /\ target = NoTarget /\ rows = <<>> /\ facts = {}

-----------------------------------------------------------------------------
(* The oracles.  Each gives "pass" or the category of its failure. *)

RuntimeOracle(observed) == IF observed = "ok" THEN "pass" ELSE "tool-bug"

\* Mutant of DifferentialOracle: ground truth that cannot be read is absent.
DropUnreadable(expected, actual) ==
  CASE expected \in {"error", "missing"} -> "corpus-error"
    [] expected = "value" /\ actual = "same" -> "pass"
    [] OTHER -> "tool-bug"

DifferentialOracle(expected, actual) ==
  CASE expected = "error" -> "needs-adjudication"
    [] expected = "missing" -> "corpus-error"
    [] expected = "value" /\ actual \in {"error", "unreadable"} -> "tool-bug"
    [] expected = "value" /\ actual = "same" -> "pass"
    [] OTHER -> "needs-adjudication"

(* The worst category of the failing layers. *)
Adjudicate(verdicts) ==
  CASE verdicts = {"pass"} -> "none"
    [] "tool-bug" \in verdicts -> "tool-bug"
    [] "corpus-error" \in verdicts /\ "tool-bug" \notin verdicts -> "corpus-error"
    [] OTHER -> "needs-adjudication"

GroundTruth(c) ==
  CASE Truth[c] = "present" -> {"value"}
    [] Truth[c] = "missing" -> {"missing"}
    [] Truth[c] = "flaky" -> {"value", "error"}

(* A working case runs clean and gives the expected verdict; a failing one
   crashes, times out, or gives another verdict or none.                    *)
Observations(c, broken) ==
  IF c \in broken
  THEN {<<"timeout", "unreadable">>, <<"rc", "error">>, <<"ok", "other">>}
  ELSE {<<"ok", "same">>}

(* What one sweep of a case on a tree may judge. *)
Judge(c, broken) ==
  {Adjudicate({RuntimeOracle(o[1]), DifferentialOracle(e, o[2])}) :
     o \in Observations(c, broken), e \in GroundTruth(c)}

-----------------------------------------------------------------------------
(* The ledger: run-start first, and never a second one. *)

Row(event, c, sha) == [event |-> event, case |-> c, sha |-> sha]
Append1(event) == rows' = Append(rows, Row(event, Order[1], 0))

(* cmd_bring_up on a fresh ledger.  drive() and the report pass both start
   with load_op_config.                                                     *)
Launch(fixer) ==
  /\ phase = "idle" /\ rows = <<>>
  /\ phase' = IF fixer = "landing" THEN "round" ELSE "report"
  /\ Append1("run-start")
  /\ UNCHANGED <<tree, loop, target, facts>>

(* A manifest, repository, corpus or peer that is no good: one abort row. *)
ValidationFails ==
  /\ phase = "idle" /\ rows = <<>>
  /\ phase' = "done" /\ Append1("aborted")
  /\ UNCHANGED <<tree, loop, target, facts>>

(* The next bring-up on the repository finds the ledger of this one, also one
   that holds an abort row and no more: load_op_config refuses it, and only the
   landing command says so in the ledger.                                    *)
LaunchAgain ==
  /\ phase = "done" /\ rows # <<>> /\ Last(rows).event # "aborted"
  /\ Append1("aborted")
  /\ UNCHANGED <<phase, tree, loop, target, facts>>

-----------------------------------------------------------------------------
(* One round of the landing loop. *)

Terminal == excluded \cup stuck
Pending(g, x, s) == Cases \ (g \cup x \cup s)
Priority(kind) == IF kind = "tool-bug" THEN 0 ELSE 1
IsBefore(c, d) == \E i, j \in 1..Len(Order) : i < j /\ Order[i] = c /\ Order[j] = d

(* The worst failure, the first of the corpus order among equals. *)
Worst(failures, j) ==
  CHOOSE c \in failures : \A d \in failures \ {c} :
     \/ Priority(j[c]) < Priority(j[d])
     \/ Priority(j[c]) = Priority(j[d]) /\ IsBefore(c, d)

(* stop_on_dry: DryN dry rounds since the last confirmed unit; rows of gates
   are no rounds.                                                            *)
DryRows(log) ==
  LET confirmed(i) == log[i].event = "confirmed-work"
  IN  {i \in DOMAIN log : /\ log[i].event = "dry-round"
                           /\ \A k \in i..Len(log) : ~confirmed(k)}
RanDry == Cardinality(DryRows(rows)) >= DryN

Sweep(j) ==
  /\ green' = {c \in DOMAIN j : j[c] = "none"}
  /\ excluded' = excluded \cup {c \in DOMAIN j : j[c] = "corpus-error"}
  /\ facts' = facts \cup {<<c, HeadSha>> : c \in green'}

Failures(j) == {c \in DOMAIN j : j[c] \notin {"none", "corpus-error"}}

(* step(): every case that is not terminal is swept, then one is picked. *)
Round ==
  /\ phase = "round" /\ ~RanDry /\ ~converged
  /\ \E j \in [Cases \ Terminal -> Kinds] :
       LET failures == Failures(j)
           c == Worst(failures, j)
       IN
       /\ \A d \in DOMAIN j : j[d] \in Judge(d, work)
       /\ Sweep(j)
       /\ CASE failures = {} ->
                 /\ converged' = TRUE /\ Append1("dry-round")
                 /\ UNCHANGED <<phase, stuck, attempts, target>>
            [] failures # {} /\ attempts[c] >= Budget ->
                 /\ stuck' = stuck \cup {c}
                 /\ converged' = (Pending(green', excluded', stuck') = {})
                 /\ Append1("dry-round")
                 /\ UNCHANGED <<phase, attempts, target>>
            [] OTHER ->
                 /\ attempts' = [attempts EXCEPT ![c] = @ + 1]
                 /\ target' = [case |-> c, kind |-> j[c], turns |-> Budget]
                 /\ phase' = "diagnose"
                 /\ UNCHANGED <<stuck, converged, rows>>
  /\ UNCHANGED tree

(* Converged: the loop idles until the dry rule stops the run. *)
IdleRound ==
  /\ phase = "round" /\ ~RanDry /\ converged
  /\ Append1("dry-round")
  /\ UNCHANGED <<phase, tree, loop, target, facts>>

RunsDry ==
  /\ phase = "round" /\ RanDry
  /\ phase' = "done" /\ Append1("stop")
  /\ UNCHANGED <<tree, loop, target, facts>>

(* max_rounds: the budget of the op-config may end the run after any round. *)
RoundsSpent ==
  /\ phase = "round" /\ ~RanDry /\ Len(rows) > 1
  /\ phase' = "done" /\ Append1("stop")
  /\ UNCHANGED <<tree, loop, target, facts>>

NoFix ==
  /\ phase' = "round" /\ target' = NoTarget /\ Append1("dry-round")

(* The diagnosis: tool-bug, corpus-error or nothing usable; then k refuters,
   a majority of which may kill it.  Only a surviving tool-bug goes on.     *)
Diagnose ==
  /\ phase = "diagnose"
  /\ \/ NoFix
     \/ /\ phase' = "implement"
        /\ rows' = Append(rows, Row("gate", target.case, 0))
        /\ UNCHANGED target
     \/ /\ phase' = "round" /\ target' = NoTarget
        /\ rows' = rows \o <<Row("gate", target.case, 0), Row("dry-round", Order[1], 0)>>
  /\ UNCHANGED <<tree, loop, facts>>

\* Mutant of Accepted: the driver's exit status is enough.
AcceptCleanExit(c, broken) == {RuntimeOracle(o[1]) = "pass" : o \in Observations(c, broken)}

Accepted(c, broken) == {j = "none" : j \in Judge(c, broken)}

\* Mutant of SpendTurn: a turn that raised costs nothing.
SpendNoTurn == UNCHANGED target

SpendTurn == target' = [target EXCEPT !.turns = @ - 1]

(* One turn of AgentConvergenceRunner: the agent edits the checkout; a turn
   that raised or failed the acceptance is retried on top of its edits, one
   that passed is committed, unless there is nothing to commit.             *)
Turn ==
  /\ phase = "implement" /\ target.turns > 0
  /\ \E edit \in SUBSET Cases, touched \in BOOLEAN :
       /\ touched \/ edit = work
       /\ work' = edit
       /\ \/ /\ \/ TRUE              \* the turn raised
                \/ FALSE \in Accepted(target.case, edit)
             /\ dirty' = (dirty \/ touched)
             /\ SpendTurn
             /\ UNCHANGED <<phase, commits, rows>>
          \/ /\ TRUE \in Accepted(target.case, edit)
             /\ IF dirty \/ touched
                THEN /\ commits' = Append(commits, edit)
                     /\ dirty' = FALSE
                     /\ rows' = Append(rows, Row("confirmed-work", target.case, HeadSha + 1))
                     /\ phase' = "round" /\ target' = NoTarget
                ELSE NoFix /\ UNCHANGED <<commits, dirty>>
          \/ /\ TRUE \in Accepted(target.case, edit)   \* committed, but the note
             /\ dirty \/ touched                        \* could not be written
             /\ commits' = Append(commits, edit) /\ dirty' = FALSE
             /\ NoFix
  /\ UNCHANGED <<loop, facts>>

TurnsSpent ==
  /\ phase = "implement" /\ target.turns = 0
  /\ NoFix
  /\ UNCHANGED <<tree, loop, facts>>

(* drive() raised: the landing command writes the abort row. *)
Crash ==
  /\ phase \in {"round", "diagnose", "implement"}
  /\ phase' = "done" /\ Append1("aborted") /\ target' = NoTarget
  /\ UNCHANGED <<tree, loop, facts>>

-----------------------------------------------------------------------------
(* The escalate-only pass: each case once, one verdict row each, one stop. *)

Report ==
  /\ phase = "report"
  /\ \/ \E j \in [Cases -> Kinds] :
          /\ \A c \in Cases : j[c] \in Judge(c, work)
          /\ rows' = Append(
               rows \o [i \in 1..Len(Order) |-> Row("bringup-verdict", Order[i], 0)],
               Row("stop", Order[1], 0))
          /\ facts' = facts \cup {<<c, HeadSha>> : c \in {d \in Cases : j[d] = "none"}}
     \/ Append1("aborted") /\ UNCHANGED facts
  /\ phase' = "done"
  /\ UNCHANGED <<tree, loop, target>>

Next ==
  \/ \E fixer \in {"landing", "escalate-only"} : Launch(fixer)
  \/ ValidationFails \/ LaunchAgain \/ Round \/ IdleRound \/ RunsDry \/ RoundsSpent \/ Diagnose \/ Turn
  \/ TurnsSpent \/ Crash \/ Report

Fairness ==
  /\ WF_vars(\E fixer \in {"landing", "escalate-only"} : Launch(fixer))
  /\ WF_vars(Round \/ IdleRound \/ RunsDry) /\ WF_vars(Diagnose)
  /\ WF_vars(Turn \/ TurnsSpent) /\ WF_vars(Report)

Spec == Init /\ [][Next]_vars /\ Fairness

-----------------------------------------------------------------------------
(* frontend.py:151 and fixer.py:11: every confirmed fix is a commit of its own
   on which the case passes, and it is never a case whose ground truth is
   missing, whatever its crashes were taken for.                             *)
ConfirmedIsFixed ==
  \A i, k \in 1..Len(rows) :
    rows[i].event = "confirmed-work" =>
      /\ rows[i].sha \in 2..HeadSha /\ rows[i].case \notin commits[rows[i].sha]
      /\ Truth[rows[i].case] # "missing"
      /\ rows[k].event = "confirmed-work" /\ rows[k].sha = rows[i].sha => k = i

(* loop.py:89: a loop that converged without a stuck case left no failing case
   in the checkout, but for those that have no ground truth.                 *)
ConvergedIsGreen ==
  converged => work \ Terminal = {} /\ \A c \in excluded : Truth[c] = "missing"

(* Both hold of a landing bring-up (loop.py:89, frontend.py:151).            *)
BroughtUpIsGreen == ConfirmedIsFixed /\ ConvergedIsGreen

(* loop.py:94 and spine/stop_on_dry.py: the fix budget of each case and the dry
   rule end the run, also without a bound on the rounds, also when each fix
   breaks another case.                                                      *)
InRounds == phase = "round"
Done == phase = "done"
RunEnds == InRounds ~> Done

(* memory.py:4: a fact is "pinned to the tool commit-sha at which peers
   observed it": the case passes on that commit.                             *)
FactsHoldAtSha == \A f \in facts : f[1] \notin commits[f[2]]
=============================================================================
