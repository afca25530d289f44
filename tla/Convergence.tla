----------------------------- MODULE Convergence -----------------------------
(***************************************************************************)
(* When the peer loop may stop with "complete", when it gives up with      *)
(* "stuck:<gate>" and when it pauses for the operator: the pre-tick and    *)
(* post-tick hooks of peers.driver_tick_hooks with the counters of         *)
(* peers.stuck_progress, peers.skeptic_engine and peers.driver_helpers,    *)
(* the two saves that end a tick, and restarts from state.json.            *)
(*                                                                         *)
(* Gates are evaluated synchronously here (pipeline_gates off, the         *)
(* default).  A peer run is abstracted to what the hooks read of it: the   *)
(* gates that are red on the tree it leaves, whether it succeeded, was     *)
(* rate-limited or filed a blocking Bug-Report, the PLAN steps done and    *)
(* the soft goals' consensus.  Counters saturate where they are compared.  *)
(***************************************************************************)
EXTENDS Integers, FiniteSets

CONSTANTS
  Modes,          \* modes a project may be in: "implement", "hunt-open-ended"
                  \* or another mode's name
  Gates,          \* hard gates whose verdict depends on the tree alone
  Watched,        \* goals.stuck_halt_gates
  SkepticGates,   \* PHASE_B_SKEPTIC_GATES
  CleanN,         \* goals.convergence_n of modes with a convergence-reached
                  \* gate; 0: no such gate anywhere
  StuckAfter,     \* goals.stuck_halt_after
  PhaseAN,        \* convergence_n of the PLAN's front matter
  PhaseBN,        \* phase_b_n (2)
  SkepticEnabled, \* auto_skeptic_enabled
  Checkpoint,     \* .peers/checkpoint_requested exists
  Ends,           \* how a process may end besides the loop's own reasons
  MaxIterations,  \* budget.max_iterations
  MaxSteps,       \* bound on PLAN steps, for finiteness
  MaxStarts       \* bound on (re)starts, for finiteness

ASSUME GateAssumption ==
  /\ Watched \subseteq Gates /\ SkepticGates \subseteq Gates
  /\ CleanN \in Nat /\ StuckAfter \in Nat \ {0} /\ PhaseAN \in Nat
  /\ PhaseBN \in Nat /\ MaxIterations \in Nat /\ MaxSteps \in Nat
  /\ SkepticEnabled \in BOOLEAN /\ Checkpoint \in BOOLEAN
  /\ Ends \subseteq {"crash", "interrupt", "max_ticks"}
  /\ MaxStarts \in Nat

VARIABLES
  mode,      \* the mode goals.yaml was built for; never changes
  pc,        \* the process's place in the tick ("down": no process)
  st,        \* the in-memory state dictionary
  disk,      \* state.json
  ranAt,     \* _auto_skeptic_ran_at, pending: both keys are never persisted
  pending,   \* _auto_skeptic_prompt_pending
  ticks,     \* whether this process has finished a tick
  failed,    \* gates red in the results the upcoming tick was planned on
  run,       \* what the last peer run was
  tree,      \* the repository: red gates, PLAN steps done, soft consensus
  reason,    \* how the last process ended: last-stop-reason, or "crash"
  starts,    \* processes started, the running one included
  \* ---- history, read by the properties only ---------------------------
  cleanRun,  \* clean successful ticks in a row, rate-limited ones aside
  greenRun,  \* ticks in a row that were planned on all-green gates
  greenAt,   \* iteration at which each watched gate was last seen green
  sinceAudit, \* this process's runs since its last re-audit; 2: two or more, or none
  goodRun,   \* flawless ticks in a row
  pauses,    \* checkpoint exits
  building,  \* whether an implementation tick has been launched
  lost       \* what a process's end lost: an evaluation of the gates, or the count
             \* of a run (_update_convergence_counter)

hist == <<cleanRun, greenRun, greenAt, sinceAudit, goodRun, pauses, building,
          lost>>
vars == <<mode, pc, st, disk, ranAt, pending, ticks, failed, run, tree, reason,
          starts, hist>>

CleanGate ==
  IF CleanN > 0 /\ mode \notin {"implement", "hunt-open-ended"}
  THEN {"convergence-reached"} ELSE {}
AllGates == Gates \cup CleanGate
NeverRan == -2
AtMost(n, bound) == IF n < bound THEN n ELSE bound
AtLeastOne(n) == IF n = 0 THEN 1 ELSE n
------------------------------------------------------------------------------
(* Helpers on the state dictionary *)

\* The convergence-reached check reads consecutive_clean_ticks from state.json,
\* not from memory.
convergence_reached == disk.clean >= CleanN

\* Gates that an evaluation finds red.
RedNow == tree.red \cup (IF convergence_reached THEN {} ELSE CleanGate)

\* Mutant: the refresh after a tick counts a gate that is still red again.
RecordedCountingRepeats(s, ids, red, repeat) ==
  [s EXCEPT
    !.failing = (@ \ ids) \cup (ids \cap red \cap Watched),
    !.stuck = [g \in Watched |->
                 IF g \notin ids THEN @[g]
                 ELSE IF g \in red THEN AtMost(@[g] + 1, StuckAfter) ELSE 0]]

\* _record_goal_results over the evaluated gates ids.
Recorded(s, ids, red, repeat) ==
  [s EXCEPT
    !.failing = (@ \ ids) \cup (ids \cap red \cap Watched),
    !.stuck = [g \in Watched |->
                 IF g \notin ids THEN @[g]
                 ELSE IF g \notin red THEN 0
                 ELSE IF g \notin s.failing THEN 1
                 ELSE IF repeat THEN AtMost(@[g] + 1, StuckAfter)
                 ELSE IF @[g] = 0 THEN 1 ELSE @[g]]]

\* reset_stuck_on_progress; only implement mode has gates to forgive.
Forgiven(s) ==
  IF mode # "implement" THEN s
  ELSE [s EXCEPT
         !.stuck = IF s.planDone >= 0 /\ tree.done > s.planDone
                   THEN [g \in Watched |-> 0] ELSE @,
         !.planDone = tree.done]

\* SkepticEngine.update_two_phase_counters with _resolve_convergence_state.
TwoPhase(s, ids, red) ==
  IF mode # "implement" THEN s
  ELSE LET green == ids # {} /\ ids \cap red = {}
           hard == IF green THEN AtMost(s.hardGreen + 1, PhaseAN) ELSE 0
           extra == IF s.phase # "B" THEN s.extra
                    ELSE IF SkepticGates \subseteq ids \ red
                    THEN AtMost(s.extra + 1, PhaseBN) ELSE 0
       IN  [s EXCEPT
             !.hardGreen = hard, !.extra = extra,
             !.phase = IF @ = "A" /\ hard >= PhaseAN THEN "B"
                       ELSE IF @ = "B" /\ extra >= PhaseBN THEN "complete"
                       ELSE @]

\* _resolve_phase of the tick about to fire.
Prelude(i) ==
  IF mode # "implement" \/ i > 2 THEN "implementation"
  ELSE IF i = 2 THEN "architecture" ELSE "prelude"

StuckGates == {g \in Watched : st.stuck[g] >= StuckAfter}

FreshState ==
  [iteration |-> 0, clean |-> 0, failing |-> {},
   stuck |-> [g \in Watched |-> 0], planDone |-> -1, hardGreen |-> 0,
   extra |-> 0, phase |-> "A", prelude |-> "none"]

Init ==
  /\ pc = "down" /\ st = FreshState /\ disk = FreshState
  /\ ranAt = NeverRan /\ pending = FALSE /\ ticks = FALSE /\ failed = {}
  /\ run = [success |-> FALSE, limited |-> FALSE, bug |-> FALSE]
  /\ tree \in [red : SUBSET Gates, done : {0}, soft : {FALSE}]
  /\ reason = "none" /\ starts = 0
  /\ cleanRun = 0 /\ greenRun = 0 /\ greenAt = [g \in Watched |-> 0]
  /\ sinceAudit = 2 /\ goodRun = 0 /\ pauses = 0
  /\ building = FALSE /\ lost = {} /\ mode \in Modes

Save == disk' = st'
Exit(why) == pc' = "down" /\ reason' = why

\* OrchestratorDriver.run: load state.json and enter the loop.
Start ==
  /\ pc = "down" /\ starts < MaxStarts
  /\ pc' = "top" /\ starts' = starts + 1
  /\ st' = disk /\ ranAt' = NeverRan /\ pending' = FALSE /\ ticks' = FALSE
  /\ goodRun' = 0 /\ sinceAudit' = 2
  /\ UNCHANGED <<mode, disk, failed, run, tree, reason, cleanRun, greenRun, greenAt,
                 pauses, building, lost>>
------------------------------------------------------------------------------
(* _pre_tick_exit *)

SeenGreen == [g \in Watched |->
                IF g \in RedNow THEN greenAt[g] ELSE st.iteration]

\* _exit_with_fresh_results: gates are evaluated and recorded once more.
ExitWithFreshResults(why) ==
  /\ st' = Recorded(st, AllGates, RedNow, TRUE)
  /\ greenAt' = SeenGreen
  /\ Save /\ Exit(why)
  /\ UNCHANGED <<ranAt, pending, ticks, failed, run, tree, mode, starts, cleanRun,
                 greenRun, sinceAudit, goodRun, building, lost>>

OverBudget == st.iteration >= MaxIterations

\* The tick limit the process was started with is reached.
ExitOnMaxTicks ==
  /\ pc = "top" /\ "max_ticks" \in Ends /\ ticks
  /\ ExitWithFreshResults("max_ticks") /\ UNCHANGED pauses

ExitOnBudget ==
  /\ pc = "top" /\ OverBudget
  /\ ExitWithFreshResults("budget") /\ UNCHANGED pauses

ExitWhenStuck ==
  /\ pc = "top" /\ ~OverBudget /\ StuckGates # {}
  /\ ExitWithFreshResults("stuck") /\ UNCHANGED pauses

\* All hard gates are run; their verdicts drive three sets of counters.
EvaluateGates ==
  /\ pc = "top" /\ ~OverBudget /\ StuckGates = {}
  /\ failed' = RedNow
  /\ st' = TwoPhase(Forgiven(Recorded(st, AllGates, RedNow, TRUE)),
                    AllGates, RedNow)
  /\ greenAt' = SeenGreen
  /\ pc' = "decide"
  /\ UNCHANGED <<disk, ranAt, pending, ticks, run, tree, reason, mode, starts,
                 cleanRun, greenRun, sinceAudit, goodRun, pauses, building, lost>>

\* Mutants: soft goals are forgotten; a process that never re-audited does not
\* ask; the re-audit is asked for again right after it ran.
ConvergedHardOnly == failed = {}
SkepticDueOnceRan ==
  SkepticEnabled /\ ranAt # NeverRan /\ st.iteration - ranAt > 1
SkepticDueAgain == SkepticEnabled /\ st.iteration - ranAt >= 0

\* _all_green_including_soft on the results just recorded.
Converged == failed = {} /\ tree.soft
SkepticDue == SkepticEnabled /\ st.iteration - ranAt > 1

NotConverged ==
  /\ pc = "decide" /\ ~Converged
  /\ pc' = "checkpoint"
  /\ UNCHANGED <<st, disk, ranAt, pending, ticks, failed, run, tree, reason,
                 mode, starts, hist>>

\* hunt-open-ended: convergence is progress, not an end.
HuntGoesOn ==
  /\ pc = "decide" /\ Converged /\ mode = "hunt-open-ended"
  /\ pc' = "checkpoint" /\ UNCHANGED st /\ Save
  /\ UNCHANGED <<ranAt, pending, ticks, failed, run, tree, reason, mode, starts, hist>>

\* One critical re-audit tick before a terminal exit.
AskSkeptic ==
  /\ pc = "decide" /\ Converged /\ mode # "hunt-open-ended" /\ SkepticDue
  /\ pending' = TRUE
  /\ pc' = "checkpoint" /\ UNCHANGED st /\ Save
  /\ UNCHANGED <<ranAt, ticks, failed, run, tree, reason, mode, starts, hist>>

\* implement mode also wants its two phases behind it.
AwaitPhaseB ==
  /\ pc = "decide" /\ Converged /\ ~SkepticDue
  /\ mode = "implement" /\ st.phase # "complete"
  /\ pc' = "checkpoint" /\ UNCHANGED st /\ Save
  /\ UNCHANGED <<ranAt, pending, ticks, failed, run, tree, reason, mode, starts, hist>>

Complete ==
  /\ pc = "decide" /\ Converged /\ ~SkepticDue
  /\ mode # "hunt-open-ended"
  /\ mode = "implement" => st.phase = "complete"
  /\ UNCHANGED st /\ Save /\ Exit("complete")
  /\ UNCHANGED <<ranAt, pending, ticks, failed, run, tree, mode, starts, hist>>

\* Mutant: the boundary is looked for one tick late.
CheckpointDueLate ==
  Checkpoint /\ st.prelude = "architecture"
             /\ Prelude(st.iteration - 1) = "implementation"

CheckpointDue ==
  Checkpoint /\ st.prelude = "architecture"
             /\ Prelude(st.iteration) = "implementation"

\* Mutant: the pause does not record the phase it was taken at.
PauseUnrecorded ==
  /\ pc = "checkpoint" /\ CheckpointDue
  /\ st' = Recorded(st, AllGates, RedNow, TRUE)
  /\ greenAt' = SeenGreen
  /\ Save /\ Exit("checkpoint")
  /\ pauses' = pauses + 1
  /\ UNCHANGED <<ranAt, pending, ticks, failed, run, tree, mode, starts, cleanRun,
                 greenRun, sinceAudit, goodRun, building, lost>>

\* _maybe_checkpoint_exit records the phase, then pauses at the boundary.
PauseAtCheckpoint ==
  /\ pc = "checkpoint" /\ CheckpointDue
  /\ st' = Recorded([st EXCEPT !.prelude = Prelude(st.iteration)],
                    AllGates, RedNow, TRUE)
  /\ greenAt' = SeenGreen
  /\ Save /\ Exit("checkpoint")
  /\ pauses' = pauses + 1
  /\ UNCHANGED <<ranAt, pending, ticks, failed, run, tree, mode, starts, cleanRun,
                 greenRun, sinceAudit, goodRun, building, lost>>

\* _record_phase and _prepare_tick_prompt: the skeptic prompt is consumed.
LaunchPeer ==
  /\ pc = "checkpoint" /\ ~CheckpointDue
  /\ st' = [st EXCEPT !.prelude = Prelude(st.iteration)]
  /\ ranAt' = IF pending THEN st.iteration + 1 ELSE ranAt
  /\ sinceAudit' = IF pending THEN 0 ELSE AtMost(sinceAudit + 1, 2)
  /\ pending' = FALSE
  /\ pc' = "peer"
  /\ building' =
       (building \/ (mode = "implement" /\ st'.prelude = "implementation"))
  /\ UNCHANGED <<disk, ticks, failed, run, tree, reason, mode, starts, cleanRun,
                 greenRun, greenAt, goodRun, pauses, lost>>
------------------------------------------------------------------------------
(* The peer, and the end of its tick *)

RunResults ==
  {r \in [success : BOOLEAN, limited : BOOLEAN, bug : BOOLEAN] :
     ~(r.success /\ r.limited)}

\* The run ends; its commits are in the repository whatever happens next.
PeerReturns ==
  /\ pc = "peer"
  /\ run' \in RunResults
  /\ tree' \in [red : SUBSET Gates,
                done : {d \in {tree.done, tree.done + 1} : d <= MaxSteps},
                soft : BOOLEAN]
  /\ pc' = "finalize"
  /\ cleanRun' = IF run'.limited THEN cleanRun
                 ELSE IF run'.success /\ ~run'.bug THEN AtMost(cleanRun + 1, CleanN)
                 ELSE 0
  /\ greenRun' = IF failed = {} THEN AtMost(greenRun + 1, PhaseAN) ELSE 0
  /\ goodRun' = IF run'.success /\ ~run'.bug /\ tree'.red = {} /\ tree'.soft
                THEN goodRun + 1 ELSE 0
  /\ UNCHANGED <<st, disk, ranAt, pending, ticks, failed, reason, mode, starts,
                 greenAt, sinceAudit, pauses, building, lost>>

\* _finalize_tick up to its save: a success re-evaluates the gates that were
\* red before the tick (_refresh_goals_after_tick), without counting repeats.
FinalizeTick ==
  LET s == [st EXCEPT !.iteration = @ + 1]
  IN
  /\ pc = "finalize"
  /\ st' = IF run.success /\ failed # {}
           THEN TwoPhase(Forgiven(Recorded(s, failed, RedNow, FALSE)),
                         failed, RedNow)
           ELSE s
  /\ greenAt' = [g \in Watched |->
                   IF run.success /\ g \in failed /\ g \notin RedNow
                   THEN st.iteration + 1 ELSE greenAt[g]]
  /\ Save
  /\ pc' = "count"
  /\ UNCHANGED <<ranAt, pending, ticks, failed, run, tree, reason, mode, starts,
                 cleanRun, greenRun, sinceAudit, goodRun, pauses, building, lost>>

\* Mutant: a failed tick leaves the count alone; only a Bug-Report resets it.
CountCleanPastFailures ==
  /\ pc = "count"
  /\ st' = [st EXCEPT !.clean = IF run.bug THEN 0
                                ELSE IF run.success THEN AtMost(@ + 1, CleanN)
                                ELSE @]
  /\ Save
  /\ ticks' = TRUE
  /\ pc' = "top"
  /\ UNCHANGED <<ranAt, pending, failed, run, tree, reason, mode, starts, hist>>

\* _update_convergence_counter, saved on its own.
CountClean ==
  /\ pc = "count"
  /\ IF run.limited THEN UNCHANGED <<st, disk>>
     ELSE /\ st' = [st EXCEPT !.clean =
                      IF run.success /\ ~run.bug THEN AtMost(@ + 1, CleanN) ELSE 0]
          /\ Save
  /\ ticks' = TRUE
  /\ pc' = "top"
  /\ UNCHANGED <<ranAt, pending, failed, run, tree, reason, mode, starts, hist>>
------------------------------------------------------------------------------
(* The process can be stopped anywhere. *)

LostCount == IF pc \in {"finalize", "count"} THEN {"count"} ELSE {}
LostEvaluation ==
  IF pc \in {"decide", "checkpoint", "peer", "finalize"} THEN {"evaluation"} ELSE {}

\* SIGTERM, an exception, a goal mutation: what memory holds is saved.
Interrupt ==
  /\ "interrupt" \in Ends /\ pc # "down"
  /\ UNCHANGED st /\ Save /\ Exit("interrupted")
  /\ lost' = lost \cup LostCount
  /\ UNCHANGED <<mode, ranAt, pending, ticks, failed, run, tree, starts, cleanRun,
                 greenRun, greenAt, sinceAudit, goodRun, pauses, building>>

Crash ==
  /\ "crash" \in Ends /\ pc # "down"
  /\ Exit("crash")
  /\ lost' = lost \cup LostCount \cup LostEvaluation
  /\ UNCHANGED <<mode, st, disk, ranAt, pending, ticks, failed, run, tree,
                 starts, cleanRun, greenRun, greenAt, sinceAudit, goodRun,
                 pauses, building>>

Next ==
  \/ Start \/ ExitOnMaxTicks \/ ExitOnBudget \/ ExitWhenStuck \/ EvaluateGates
  \/ NotConverged \/ HuntGoesOn \/ AskSkeptic \/ AwaitPhaseB \/ Complete
  \/ PauseAtCheckpoint \/ LaunchPeer \/ PeerReturns \/ FinalizeTick
  \/ CountClean \/ Interrupt \/ Crash

Spec == Init /\ [][Next]_vars
------------------------------------------------------------------------------
(* Properties *)

StateDict ==
  [iteration : 0..MaxIterations, clean : 0..CleanN, failing : SUBSET Watched,
   stuck : [Watched -> 0..StuckAfter], planDone : -1..MaxSteps, hardGreen : 0..PhaseAN,
   extra : 0..PhaseBN, phase : {"A", "B", "complete"},
   prelude : {"none", "prelude", "architecture", "implementation"}]

\* What state.json holds and memory adds to it, and the bounds of the histories.
TypeOK ==
  /\ mode \in Modes /\ starts \in 0..MaxStarts
  /\ pc \in {"down", "top", "decide", "checkpoint", "peer", "finalize", "count"}
  /\ st \in StateDict /\ disk \in StateDict
  /\ ranAt \in NeverRan..MaxIterations /\ pending \in BOOLEAN /\ ticks \in BOOLEAN
  /\ failed \subseteq AllGates /\ run \in RunResults
  /\ tree \in [red : SUBSET Gates, done : 0..MaxSteps, soft : BOOLEAN]
  /\ reason \in {"none", "crash", "interrupted", "max_ticks", "budget", "stuck", "complete",
                 "checkpoint"}
  /\ cleanRun \in 0..CleanN /\ greenRun \in 0..PhaseAN /\ sinceAudit \in 0..2
  /\ goodRun \in Nat /\ pauses \in Nat /\ greenAt \in [Watched -> Nat]
  /\ building \in BOOLEAN /\ lost \subseteq {"count", "evaluation"}

\* "complete" is only ever said of a tree on which every hard gate is green
\* and every soft goal has its consensus, whatever was green before
\* (driver_soft_reviews._all_green_including_soft, GoalEngine.all_green).
CompleteIsGreen ==
  [][pc' = "down" /\ reason' = "complete" /\ pc # "down"
       => tree.red = {} /\ tree.soft]_vars

\* convergence-reached: "N consecutive clean ticks": a failed tick or a blocking
\* Bug-Report starts the count again (_update_convergence_counter).
CompleteNeedsCleanStreak ==
  pc = "down" /\ reason = "complete" /\ CleanGate # {} => cleanRun >= CleanN

\* The same of processes that were not ended between a run and the save of its
\* count: whatever restarts, tick limits and interrupts happen elsewhere, the
\* count that completes a run is never more than its clean streak.
CompleteNeedsCleanStreakUncut ==
  "count" \in lost \/ CompleteNeedsCleanStreak

\* With the re-audit enabled a process completes only if one of its own last two
\* runs was the re-audit, whatever an earlier process did (_pre_tick_exit,
\* _prepare_tick_prompt).  How it ended is not asked: a rate-limited one counts.
CompleteNeedsAudit ==
  [][pc = "decide" /\ pc' = "down" /\ reason' = "complete" /\ SkepticEnabled
       => sinceAudit < 2]_vars

\* "complete" is said once, of a green tree, after the clean streak and the
\* re-audit, though gates, soft goals, counters and phases are each updated at a
\* different point of the tick (_pre_tick_exit).
CompleteIsEarned ==
  CompleteIsGreen /\ CompleteNeedsAudit /\ []CompleteNeedsCleanStreakUncut

\* convergence_n: "N consecutive clean ticks to converge": implement mode
\* completes only after N ticks in a row planned on all-green gates.
CompleteNeedsGreenStreak ==
  pc = "down" /\ reason = "complete" /\ mode = "implement" => greenRun >= PhaseAN

\* "stuck:<gate>" only when the gate stayed red for stuck_halt_after ticks
\* (compute_stuck_gate_halt_reason), a tick around which a process ended or
\* paused counting once more each time: its red result is evaluated again.  A
\* crash that loses an evaluation may lose a green one, and is left out.
StuckMeansRedTicks ==
  [][pc = "top" /\ pc' = "down" /\ reason' = "stuck" /\ "evaluation" \notin lost
       => \E g \in Watched :
            st.iteration - greenAt[g] + (starts - 1) + pauses >= StuckAfter]_vars

\* The flawless ticks that bring every counter to its end (an empty set of gates
\* never lets implement mode reach phase B), and the one the re-audit may add.
FlawlessTicks ==
  IF mode = "implement" THEN AtLeastOne(PhaseAN) + AtLeastOne(PhaseBN)
  ELSE AtLeastOne(CleanN)

\* A loop whose ticks are all flawless completes within the ticks the counters
\* ask for, hunt-open-ended aside: nothing else can hold it back.
ConvergesPromptly ==
  mode # "hunt-open-ended" /\ (mode = "implement" => Gates # {})
    => goodRun <= FlawlessTicks + 1

\* With --checkpoint no implementation tick starts before the operator had the
\* pause (_should_checkpoint).
NoBuildBeforePause == Checkpoint /\ building => pauses > 0

\* The pause happens once: the restarted loop goes on (the phase is saved).
PausesOnce == pauses <= 1

\* The checkpoint fires on a boundary that the very tick which crosses it records:
\* a restart neither skips it nor fires it again (driver_helpers.py:224).
PausesAsPlanned == NoBuildBeforePause /\ PausesOnce
=============================================================================
