-------------------------------- MODULE Fleet --------------------------------
(***************************************************************************)
(* The fleet conductor (peers.fleet): `peers-ctl fleet` runs a program of  *)
(* mode-runs, some of which depend on others, as child processes on a pool *)
(* of slots.                                                               *)
(*                                                                         *)
(* What the conductor knows is in two places: the fleet ledger on disk,    *)
(* here its folds latest_status, slot_of and propagation_edges, and the    *)
(* memory of its ProcessSlotRunner.  A kill loses the memory and leaves    *)
(* the children running.  A child works in a leased worktree with a ledger *)
(* of its own and, if its front end ends, copies that ledger and pins its  *)
(* commit before the worktree is torn down.                                *)
(*                                                                         *)
(* conduct_fleet takes its dep_check, lander and should_reject as          *)
(* parameters: dep_check is the production one or the tests', the lander   *)
(* and should_reject may answer anything.  The injected is_self_hosting    *)
(* answers by the run.                                                     *)
(***************************************************************************)
EXTENDS Naturals, Sequences, FiniteSets, FiniteSetsExt, SequencesExt

CONSTANTS
  Run,        \* the mode-runs of the program
  Order,      \* their order in the manifest
  Slots,      \* size of the pool: the slots are 1..Slots
  NoRun,      \* occupant of an empty slot
  Allowed,    \* the slots that a run's affinity allows
  Budget,     \* tokens of a run; an unbudgeted one is over any ceiling
  MaxRuns,    \* the ceiling on runs
  AutoMerge,  \* runs whose landing is "auto-merge"
  Hosting,    \* runs whose diff is self-hosting
  Programs,   \* the dependencies, the ceiling on tokens, how the conductor is set
              \* up, and the bound on faults (wedged children, rejections and
              \* kills), for finiteness
  MaxStarts   \* bound on conductor processes, for finiteness

\* validate_program: a program is run only when its dependencies have no cycle
\* and every one of them between two tools is on a run that it depends on
Acyclic(deps) ==
  \A S \in SUBSET Run \ {{}} : \E r \in S : deps[r] \cap S = {}
ValidProgram(p) ==
  /\ Acyclic(p.deps)
  /\ \A r \in Run : \A producer \in Run :
       <<producer, r>> \in p.cross => producer \in p.deps[r]

ASSUME FleetAssumption ==
  /\ Slots \in Nat /\ NoRun \notin Run
  /\ Order \in Seq(Run) /\ Range(Order) = Run /\ IsInjective(Order)
  /\ Allowed \in [Run -> SUBSET (1..Slots)] /\ Budget \in [Run -> Nat]
  /\ MaxRuns \in Nat
  /\ AutoMerge \subseteq Run /\ Hosting \subseteq Run
  /\ Programs \subseteq [deps : [Run -> SUBSET Run], cross : SUBSET (Run \X Run),
                         dep_check : {"production", "injected"},
                         max_tokens : Nat, max_ticks : BOOLEAN,
                         max_faults : Nat]
  /\ \A p \in Programs : ValidProgram(p)
  /\ MaxStarts \in Nat

VARIABLES
  program,
  status,   \* fleet ledger: latest_status
  slotOf,   \* fleet ledger: slot_of
  edges,    \* fleet ledger: propagation_edges
  pc,       \* where the conductor is in its tick
  slot,     \* SlotRunner._slots: the run in a slot
  reported, \* slots whose run was reported done
  seen,     \* runs_by_id of this tick: the ledger that a run object reads
  todo,     \* slots, landings or dependents that a loop still has to visit
  agenda,   \* what the scheduler assigned and the conductor has to start
  blocked,  \* all_blocked_by_ceiling
  asked,    \* how far should_reject was asked, along the order
  acted,    \* this tick started or restarted a run
  cause,    \* FleetResult.cause
  child,    \* what the process of a run is doing
  tree,     \* runs with a worktree and its record in .peers/spine-runs
  work,     \* runs whose ledger in the worktree is converged
  kept,     \* the verdict on the ledger kept in .peers/fleet-runs
  faults, starts,
  revived,  \* history: rejected runs that were restarted
  cut       \* history: a kill interrupted a cascade

ledger == <<status, slotOf, edges>>
runner == <<slot, reported>>
tick == <<seen, todo, agenda, blocked, asked, acted>>
artifacts == <<tree, work, kept>>
hist == <<faults, starts, revived, cut>>
vars == <<program, ledger, pc, runner, tick, cause, child, artifacts, hist>>

Slot == 1..Slots
NoSlot == 0
Position(r) == CHOOSE i \in 1..Len(Order) : Order[i] = r
InFlight == {"running", "start-intent"}
Terminal == {"converged", "failed", "landed", "rejected"}
Statuses == {"none"} \cup InFlight \cup Terminal
Alive == {"launched", "working", "persisted"}
Held == {slot[s] : s \in Slot} \ {NoRun}

Empty == [s \in Slot |-> NoRun]
Unseen == [r \in Run |-> "none"]

Init ==
  /\ program \in Programs
  /\ status = [r \in Run |-> "none"]
  /\ slotOf = [r \in Run |-> NoSlot] /\ edges = {}
  /\ pc = "top" /\ cause = "none"
  /\ slot = Empty /\ reported = {}
  /\ seen = Unseen /\ todo = {} /\ agenda = << >>
  /\ blocked = FALSE /\ asked = 0 /\ acted = FALSE
  /\ child = [r \in Run |-> "none"]
  /\ tree = {} /\ work = {} /\ kept = [r \in Run |-> "none"]
  /\ faults = 0 /\ starts = 1 /\ revived = {} /\ cut = FALSE
------------------------------------------------------------------------------
(* The child of a run: peers.fleet.run_one in a leased worktree *)

Becomes(r, state) == child' = [child EXCEPT ![r] = state]

\* The lease sweeps what a killed predecessor left and starts a new ledger.
ChildLeases(r) ==
  /\ child[r] = "launched"
  /\ Becomes(r, "working")
  /\ tree' = tree \cup {r} /\ work' = work \ {r}
  /\ UNCHANGED kept

\* drive confirms the work on the run's ledger.
ChildConverges(r) ==
  /\ child[r] = "working" /\ r \notin work
  /\ work' = work \cup {r}
  /\ UNCHANGED <<child, tree, kept>>

\* _persist_fleet_run.
ChildPersists(r) ==
  /\ child[r] = "working"
  /\ Becomes(r, "persisted")
  /\ kept' = [kept EXCEPT ![r] = IF r \in work THEN "converged" ELSE "open"]
  /\ UNCHANGED <<tree, work>>

\* The lease ends, after _persist_fleet_run or an error, and the process exits.
ChildEnds(r) ==
  /\ child[r] \in {"working", "persisted"}
  /\ Becomes(r, "exited")
  /\ tree' = tree \ {r} /\ work' = work \ {r}
  /\ UNCHANGED kept

\* It is killed, or fails before its lease: what there is stays.
ChildDies(r) ==
  /\ child[r] \in {"launched", "working"}
  /\ Becomes(r, "exited")
  /\ UNCHANGED artifacts

ChildProgress(r) == ChildLeases(r) \/ ChildPersists(r) \/ ChildEnds(r)
ChildStep(r) ==
  /\ ChildProgress(r) \/ ChildConverges(r) \/ ChildDies(r)
  /\ UNCHANGED <<program, ledger, pc, runner, tick, cause, hist>>
------------------------------------------------------------------------------
(* The conductor's tools *)

\* The children of the slots are killed by their process groups.
Killed(rs) ==
  [r \in Run |-> IF r \in rs /\ child[r] \in Alive THEN "exited" ELSE child[r]]

\* conduct_fleet returns and cmd_fleet shuts the slot runner down.
Finish(why) ==
  /\ cause' = why /\ pc' = "down"
  /\ child' = Killed(Held)

\* is_converged on the ledger that the run object of this tick points to; a
\* ledger that is gone is read as an empty one.
Verified(r) ==
  \/ seen[r] = "kept" /\ kept[r] = "converged"
  \/ seen[r] = "tree" /\ r \in tree /\ r \in work

Record(r, what) == status' = [status EXCEPT ![r] = what]
------------------------------------------------------------------------------
(* One tick: the world, and the runs that ended *)

\* reconcile-or-halt: every observed run is in its slot and no other.
Agrees(occupant) ==
  \A s \in Slot : occupant[s] # NoRun =>
    /\ slotOf[occupant[s]] = s
    /\ \A t \in Slot : occupant[t] = occupant[s] => t = s

\* runs_by_id, then observe: a slot reported done is dropped after its run
\* object was made once more.  conduct_tick halts if the world disagrees.
Observe ==
  LET occupant == [s \in Slot |-> IF s \in reported THEN NoRun ELSE slot[s]]
  IN
  /\ pc = "top"
  /\ seen' = [r \in Run |-> IF r \notin Held THEN "none"
                            ELSE IF kept[r] # "none" THEN "kept"
                            ELSE IF r \in tree THEN "tree" ELSE "none"]
  /\ slot' = occupant /\ reported' = {}
  /\ todo' = {s \in Slot : occupant[s] # NoRun}
  /\ acted' = FALSE
  /\ IF Agrees(occupant) THEN pc' = "liveness" /\ UNCHANGED <<cause, child>>
     ELSE Finish("halted")
  /\ UNCHANGED <<program, ledger, agenda, blocked, asked, artifacts, hist>>

VisitSlot(s) ==
  /\ pc = "liveness" /\ todo # {} /\ s = Min(todo)
  /\ todo' = todo \ {s}

FindLive(s) ==
  /\ VisitSlot(s) /\ child[slot[s]] \in Alive
  /\ UNCHANGED <<program, ledger, pc, runner, seen, agenda, blocked, asked,
                 acted, cause, child, artifacts, hist>>

\* A child idle for too long is killed and started again, in its slot.
RestartWedged(s) ==
  LET r == slot[s]
  IN
  /\ VisitSlot(s) /\ child[r] \in Alive
  /\ faults < program.max_faults /\ faults' = faults + 1
  /\ Becomes(r, "launched")
  /\ Record(r, "running") /\ slotOf' = [slotOf EXCEPT ![r] = s]
  /\ acted' = TRUE
  /\ revived' = IF status[r] = "rejected" THEN revived \cup {r} ELSE revived
  /\ UNCHANGED <<program, edges, pc, runner, seen, agenda, blocked, asked, cause,
                 artifacts, starts, cut>>

\* Mutant: whoever is done is verified again, whatever the ledger says.
ReportAnyDone(s) ==
  LET r == slot[s]
  IN
  /\ VisitSlot(s) /\ child[r] = "exited"
  /\ reported' = reported \cup {s}
  /\ Record(r, IF Verified(r) THEN "converged" ELSE "failed")
  /\ UNCHANGED <<program, slotOf, edges, pc, slot, seen, agenda, blocked, asked,
                 acted, cause, child, artifacts, hist>>

\* Mutant: the end of a run that did not converge is not recorded.
ReportConverged(s) ==
  LET r == slot[s]
  IN
  /\ VisitSlot(s) /\ child[r] = "exited"
  /\ reported' = reported \cup {s}
  /\ IF status[r] \in InFlight /\ Verified(r) THEN Record(r, "converged")
     ELSE UNCHANGED status
  /\ UNCHANGED <<program, slotOf, edges, pc, slot, seen, agenda, blocked, asked,
                 acted, cause, child, artifacts, hist>>

\* "done": the run is verified on its own ledger and its end recorded.
ReportDone(s) ==
  LET r == slot[s]
  IN
  /\ VisitSlot(s) /\ child[r] = "exited"
  /\ reported' = reported \cup {s}
  /\ IF status[r] \in InFlight
     THEN Record(r, IF Verified(r) THEN "converged" ELSE "failed")
     ELSE UNCHANGED status
  /\ UNCHANGED <<program, slotOf, edges, pc, slot, seen, agenda, blocked, asked,
                 acted, cause, child, artifacts, hist>>
------------------------------------------------------------------------------
(* One tick: the scheduler *)

\* Mutant: an open start-intent is not running yet.
RunningOnly == {r \in Run : status[r] = "running"}

Running == {r \in Run : status[r] \in InFlight}
Pending(r) == r \notin Running /\ status[r] \notin Terminal

\* The injected dep_check of the tests.
Ready(r) == Pending(r) /\ \A p \in program.deps[r] : status[p] = "converged"

\* The sum of the budgets of some runs: how many tokens it is of which run.
Tokens(rs) == Cardinality(UNION {{r} \X (1..Budget[r]) : r \in rs})

\* Mutant: what was assigned in this tick does not count against the ceiling.
ConsiderAlone(sofar, r) ==
  LET free == Allowed[r] \ sofar.used
      over == \/ sofar.tokens + Budget[r] > program.max_tokens
              \/ Cardinality(sofar.used) >= MaxRuns
  IN IF ~Ready(r) THEN sofar
     ELSE IF over THEN [sofar EXCEPT !.over = TRUE]
     ELSE IF free = {} THEN sofar
     ELSE [sofar EXCEPT !.starts = Append(@, <<r, Min(free)>>),
                       !.used = @ \cup {Min(free)}]

\* One step of startable_runs: a run that is ready is over the ceiling, without a
\* slot, or assigned.
Consider(sofar, r) ==
  LET free == Allowed[r] \ sofar.used
      over == \/ sofar.tokens + Budget[r] > program.max_tokens
              \/ Cardinality(sofar.used) >= MaxRuns
  IN IF ~Ready(r) THEN sofar
     ELSE IF over THEN [sofar EXCEPT !.over = TRUE]
     ELSE IF free = {} THEN sofar
     ELSE [sofar EXCEPT !.starts = Append(@, <<r, Min(free)>>),
                       !.used = @ \cup {Min(free)},
                       !.tokens = @ + Budget[r]]

\* What is assigned after the first i runs of the program.
unplanned == [starts |-> << >>, over |-> FALSE,
              used |-> {slotOf[r] : r \in Running} \ {NoSlot},
              tokens |-> Tokens(Running)]
plan[i \in 0..Len(Order)] ==
  IF i = 0 THEN unplanned ELSE Consider(plan[i - 1], Order[i])

startable_runs == plan[Len(Order)]

\* _producer_edges: only a producer of the same tool needs no converged commit.
Recordable(p, r) == Verified(p) \/ <<p, r>> \notin program.cross
Consumed == {"running", "converged", "landed"}

\* Routing and scheduling.  The landings (tier1) are the auto-merge runs whose
\* diff is known and not self-hosting.
Schedule ==
  LET starting == {a[1] : a \in Range(startable_runs.starts)}
  IN
  /\ pc = "liveness" /\ todo = {}
  /\ ~(program.dep_check = "production"
       /\ \E r \in Run : Pending(r) /\ program.deps[r] # {})
  /\ todo' = {r \in AutoMerge \ Hosting : status[r] = "converged" /\ Verified(r)}
  /\ agenda' = startable_runs.starts
  /\ blocked' = (startable_runs.over /\ agenda' = << >>) /\ asked' = 0
  /\ edges' = edges \cup {e \in Run \X Run :
                            /\ e[2] \notin starting /\ status[e[2]] \in Consumed
                            /\ e[1] \in program.deps[e[2]] /\ Recordable(e[1], e[2])}
  /\ pc' = "start"
  /\ UNCHANGED <<program, status, slotOf, runner, seen, acted, cause, child,
                 artifacts, hist>>

\* make_dep_check looks the consumer up among the runs that have a slot, where
\* one that still has to be started never is: KeyError, and conduct_fleet ends.
ScheduleRaises ==
  /\ pc = "liveness" /\ todo = {}
  /\ program.dep_check = "production"
  /\ \E r \in Run : Pending(r) /\ program.deps[r] # {}
  /\ Finish("aborted")
  /\ UNCHANGED <<program, ledger, runner, tick, artifacts, hist>>
------------------------------------------------------------------------------
(* One tick: write-ahead starts *)

\* A consumer whose producer's edge cannot be recorded is not started.
SkipUnrecordable ==
  /\ pc = "start" /\ agenda # << >>
  /\ \E p \in program.deps[Head(agenda)[1]] : ~Recordable(p, Head(agenda)[1])
  /\ agenda' = Tail(agenda)
  /\ UNCHANGED <<program, ledger, pc, runner, seen, todo, blocked, asked, acted,
                 cause, child, artifacts, hist>>

\* Mutant: only a producer with a converged commit gets an edge.
IntentWithAttestedEdges ==
  LET r == Head(agenda)[1]
  IN
  /\ pc = "start" /\ agenda # << >>
  /\ \A p \in program.deps[r] : Recordable(p, r)
  /\ edges' = edges \cup {<<p, r>> : p \in {q \in program.deps[r] : Verified(q)}}
  /\ Record(r, "start-intent")
  /\ slotOf' = [slotOf EXCEPT ![r] = Head(agenda)[2]]
  /\ pc' = "launch"
  /\ UNCHANGED <<program, runner, tick, cause, child, artifacts, hist>>

\* Every edge, then the intent.
RecordIntent ==
  LET r == Head(agenda)[1]
  IN
  /\ pc = "start" /\ agenda # << >>
  /\ \A p \in program.deps[r] : Recordable(p, r)
  /\ edges' = edges \cup {<<p, r>> : p \in program.deps[r]}
  /\ Record(r, "start-intent")
  /\ slotOf' = [slotOf EXCEPT ![r] = Head(agenda)[2]]
  /\ pc' = "launch"
  /\ UNCHANGED <<program, runner, tick, cause, child, artifacts, hist>>

\* Mutant: the run is started on any slot that the runner has free.
LaunchAnywhere ==
  LET r == Head(agenda)[1]
  IN
  /\ pc = "launch"
  /\ \E s \in Allowed[r] :
       /\ slot[s] = NoRun
       /\ slot' = [slot EXCEPT ![s] = r] /\ reported' = reported \ {s}
  /\ Becomes(r, "launched")
  /\ pc' = "launched"
  /\ UNCHANGED <<program, ledger, tick, cause, artifacts, hist>>

\* SlotRunner.start: whoever still is in the slot is killed first.
Launch ==
  LET r == Head(agenda)[1]
      s == Head(agenda)[2]
  IN
  /\ pc = "launch"
  /\ child' = [Killed({slot[s]}) EXCEPT ![r] = "launched"]
  /\ slot' = [slot EXCEPT ![s] = r] /\ reported' = reported \ {s}
  /\ pc' = "launched"
  /\ UNCHANGED <<program, ledger, tick, cause, artifacts, hist>>

\* "cannot resolve base for run", of a new start or of a wedged child's: the
\* fleet is aborted, an intent stays.
LaunchFails ==
  /\ \/ pc = "launch"
     \/ pc = "liveness" /\ todo # {} /\ child[slot[Min(todo)]] \in Alive
  /\ Finish("aborted")
  /\ UNCHANGED <<program, ledger, runner, tick, artifacts, hist>>

RecordRunning ==
  LET r == Head(agenda)[1]
  IN
  /\ pc = "launched"
  /\ Record(r, "running") /\ slotOf' = [slotOf EXCEPT ![r] = Head(agenda)[2]]
  /\ agenda' = Tail(agenda) /\ acted' = TRUE
  /\ pc' = "start"
  /\ UNCHANGED <<program, edges, runner, seen, todo, blocked, asked, cause, child,
                 artifacts, hist>>
------------------------------------------------------------------------------
(* One tick: landings, rejections and the end *)

\* _land_tier1: the lander lands a verified run, or the run needs a review.
Land(r) ==
  /\ pc = "start" /\ agenda = << >> /\ r \in todo
  /\ todo' = todo \ {r}
  /\ \/ Verified(r) /\ Record(r, "landed")
     \/ UNCHANGED status
  /\ UNCHANGED <<program, slotOf, edges, pc, runner, seen, agenda, blocked, asked,
                 acted, cause, child, artifacts, hist>>

\* Whatever is reached from r along the recorded edges.
cascade_invalidate(r) ==
  {q \in Run \ {r} : \A S \in SUBSET Run :
     r \in S /\ (\A e \in edges : e[1] \in S => e[2] \in S) => q \in S}

\* _drive_rejections and reject_run: along the order, should_reject turned a
\* converged run down.
RejectRoot(r) ==
  /\ pc \in {"start", "revoke"} /\ agenda = << >> /\ todo = {}
  /\ status[r] = "converged" /\ Position(r) > asked
  /\ faults < program.max_faults /\ faults' = faults + 1
  /\ Record(r, "rejected")
  /\ asked' = Position(r) /\ todo' = cascade_invalidate(r)
  /\ pc' = "revoke"
  /\ UNCHANGED <<program, slotOf, edges, runner, seen, agenda, blocked, acted,
                 cause, child, artifacts, starts, revived, cut>>

RejectDependent(q) ==
  /\ pc = "revoke" /\ q \in todo
  /\ Record(q, "rejected")
  /\ todo' = todo \ {q}
  /\ UNCHANGED <<program, slotOf, edges, pc, runner, seen, agenda, blocked, asked,
                 acted, cause, child, artifacts, hist>>

\* The next tick, unless nothing is left to do or to wait for.  max_ticks is
\* reached at some tick, if it is given.
EndTick ==
  LET waiting == \E r \in Run : status[r] \in InFlight
  IN
  /\ \/ pc = "start" /\ agenda = << >>
     \/ pc = "revoke"
  /\ todo = {}
  /\ IF \A r \in Run : status[r] \in Terminal THEN Finish("complete")
     ELSE IF blocked /\ ~waiting THEN Finish("ceiling")
     ELSE IF ~waiting /\ ~acted THEN Finish("stalled")
     ELSE \/ program.max_ticks /\ Finish("max-ticks")
          \/ pc' = "top" /\ UNCHANGED <<cause, child>>
  /\ UNCHANGED <<program, ledger, runner, tick, artifacts, hist>>

Conduct ==
  \/ Observe
  \/ \E s \in Slot : FindLive(s) \/ RestartWedged(s) \/ ReportDone(s)
  \/ Schedule \/ ScheduleRaises
  \/ SkipUnrecordable \/ RecordIntent \/ Launch \/ LaunchFails \/ RecordRunning
  \/ \E r \in Run : Land(r) \/ RejectRoot(r) \/ RejectDependent(r)
  \/ EndTick
------------------------------------------------------------------------------
(* The conductor's process *)

\* It is killed: its children, in process groups of their own, go on.
Crash ==
  /\ pc # "down" /\ starts < MaxStarts
  /\ faults < program.max_faults /\ faults' = faults + 1
  /\ pc' = "down" /\ cause' = "killed"
  /\ cut' = (cut \/ (pc = "revoke" /\ todo # {}))
  /\ UNCHANGED <<program, ledger, runner, tick, child, artifacts, starts, revived>>

\* cmd_fleet again, on the same ledger.
Start ==
  /\ pc = "down" /\ starts < MaxStarts
  /\ starts' = starts + 1
  /\ slot' = Empty /\ reported' = {}
  /\ seen' = Unseen /\ todo' = {} /\ agenda' = << >>
  /\ blocked' = FALSE /\ asked' = 0 /\ acted' = FALSE
  /\ pc' = "top" /\ cause' = "none"
  /\ UNCHANGED <<program, ledger, child, artifacts, faults, revived, cut>>

Next ==
  \/ Conduct \/ Crash \/ Start
  \/ \E r \in Run : ChildStep(r)

\* A conductor takes its next step, and every child comes to its end: a run
\* has a budget of its own.
Fairness ==
  /\ WF_vars(Conduct)
  /\ \A r \in Run : WF_vars(ChildProgress(r) /\ ChildStep(r))

Spec == Init /\ [][Next]_vars /\ Fairness
------------------------------------------------------------------------------
(* Properties *)

\* Every variable has its type.
TypeOK ==
  /\ program \in Programs
  /\ status \in [Run -> Statuses] /\ slotOf \in [Run -> Slot \cup {NoSlot}]
  /\ edges \subseteq Run \X Run
  /\ pc \in {"top", "liveness", "start", "launch", "launched", "revoke", "down"}
  /\ slot \in [Slot -> Run \cup {NoRun}] /\ reported \subseteq Slot
  /\ seen \in [Run -> {"none", "tree", "kept"}]
  /\ todo \subseteq Slot \cup Run
  /\ agenda \in Seq(Run \X Slot)
  /\ blocked \in BOOLEAN /\ asked \in 0..Len(Order) /\ acted \in BOOLEAN
  /\ child \in [Run -> {"none", "exited"} \cup Alive]
  /\ tree \subseteq Run /\ work \subseteq Run
  /\ kept \in [Run -> {"none", "converged", "open"}]
  /\ faults \in Nat /\ starts \in Nat
  /\ revived \subseteq Run /\ cut \in BOOLEAN
  /\ cause \in {"none", "halted", "aborted", "complete", "ceiling", "stalled",
                "max-ticks", "killed"}

\* The write-ahead start never makes the conductor halt over its own doing
\* (conduct_tick, "reconcile or halt"): at every tick the slot runner's memory
\* is what the fleet ledger says, across restarts, wedged children and
\* rejections.
NeverHalts == cause # "halted"

\* A run never has two processes, whatever was killed between its intent, its
\* start and its "running" row, and a start only ever displaces a run that was
\* rejected (conductor.py, blockers F5-2 and F5-3).
NoDoubleStart ==
  pc = "launch" =>
    LET r == Head(agenda)[1]
        q == slot[Head(agenda)[2]]
    IN /\ child[r] \notin Alive
       /\ q # NoRun /\ child[q] \in Alive => status[q] = "rejected"

\* The budgets of the runs in flight stay within the ceiling (scheduler.py,
\* "never an autonomous overrun"), leaving aside the rejected runs that a
\* restart put in flight again.
WithinCeiling ==
  Tokens(Running \ revived) <= program.max_tokens

\* What a schedule starts is safe to start: across ticks, kills and a second
\* conductor on the same ledger the slots, the budget and the ledger agree
\* (scheduler.py:203, conductor.py:350).
StartsAreSound == NeverHalts /\ NoDoubleStart /\ WithinCeiling

\* A rejected run takes everything that was built on it with it
\* (conductor.reject_run, cascade_invalidate), unless the conductor was killed
\* in the middle of it or a rejected run was restarted.
CascadeComplete ==
  pc \in {"top", "liveness"} /\ ~cut =>
    \A r \in Run \ revived : status[r] \in {"failed"} \cup InFlight \cup Consumed =>
      \A p \in program.deps[r] : status[p] # "rejected"

\* A run that ended is not brought back by a late report: what has landed stays
\* landed unless it is rejected, and only a restart revives a rejected run.
SettledStaysSettled ==
  [][\A r \in Run :
       /\ status[r] = "landed" => status'[r] \in {"landed", "rejected"}
       /\ status[r] = "failed" => status'[r] \in {"failed", "rejected"}
       /\ status[r] = "rejected" => status'[r] \in {"rejected", "running"}]_vars

\* conduct_fleet comes to an end, if nobody kills it: no run is waited for in
\* vain (daemon.py, "to an honest terminal").
FleetEnds == [](pc = "top" /\ starts = 1 => <>(pc = "down"))

\* "the conductor always sees a finished run ONCE (to transition it on its own
\* ledger)" (slot_runner.py): a run that converged and was kept is not recorded
\* as failed.
FailedMeansUnconverged ==
  \A r \in Run : status[r] = "failed" => kept[r] # "converged"
==============================================================================
