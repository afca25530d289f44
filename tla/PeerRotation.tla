---------------------------- MODULE PeerRotation ----------------------------
(***************************************************************************)
(* The peer loop's own bookkeeping: whose turn it is, how healthy each     *)
(* peer is, what the budget has paid for, and what survives a crash, an    *)
(* interrupt or a halt of the process (peers.turn_manager,                 *)
(* peers.driver_peer_health, peers.anti_cheat_guard, the accounting of     *)
(* peers.budget_accountant and the order of peers.tick_loop).              *)
(*                                                                         *)
(* Gates and convergence are the subject of module Convergence; here the   *)
(* ways a tick can end the loop that do not depend on peers are the one    *)
(* action StopBeforeTick.  Peers are their positions 0..N-1 in peer_order. *)
(* Failure credit is counted in halves: "half" is the 0.5 entry of         *)
(* recent_runs, so FailLimit is twice the code's threshold.                *)
(***************************************************************************)
EXTENDS Integers, Sequences, FiniteSets

CONSTANTS
  N,              \* number of configured peers
  Recovery,       \* positions whose role is "recovery" (spares)
  MaxRetries,     \* config max_retries (default 1)
  RecoveryInterval, \* config recovery_interval (default 8)
  Window,         \* length of recent_runs (5)
  FailLimit,      \* half-credits that degrade a peer (2 * 3)
  CheatLimit,     \* consecutive reverts that degrade a peer (2)
  MaxIterations,  \* budget.max_iterations
  MaxFailures,    \* budget.max_consecutive_failures
  MaxStarts       \* bound on (re)starts of the process, for finiteness

ASSUME ConfigAssumption ==
  /\ N \in Nat /\ N >= 2
  /\ Recovery \subseteq 0..N-1
  /\ MaxRetries \in Nat
  /\ RecoveryInterval \in Nat
  /\ Window \in Nat \ {0}
  /\ FailLimit \in Nat \ {0}
  /\ CheatLimit \in Nat \ {0}
  /\ MaxIterations \in Nat
  /\ MaxFailures \in Nat
  /\ MaxStarts \in Nat

Peers == 0..N-1

\* An absent "..._iter" annotation.
Unset == -1

VARIABLES
  pc,             \* where the process is in the tick ("down": no process)
  active,         \* the peer whose tick is in flight
  outcome,        \* what health_guard and git say of that run
  success,        \* the tick's success flag
  fresh,          \* no tick has finished since this process started
  reason,         \* last-stop-reason of the last process
  \* ---- the in-memory state dictionary --------------------------------
  turn_index, iteration, consecutive_failures,
  health,         \* peers[p].state
  fails,          \* peers[p].consecutive_fails
  runs,           \* peers[p].recent_runs
  degraded_at,    \* peers[p].degraded_at_iter
  cooldown,       \* peers[p].recovery_cooldown_iter
  cheats,         \* peers[p].failed_cheating
  prewarned,      \* peers[p].anti_cheat_prewarned
  disk,           \* state.json
  \* ---- history, read by the properties only ---------------------------
  ran,            \* peer runs launched, ever
  stops,          \* process ends that lost or never charged a peer run
  starts,         \* process starts, ever
  lastTurn        \* iteration at which each peer was last launched

mem == <<turn_index, iteration, consecutive_failures, health, fails, runs,
         degraded_at, cooldown, cheats, prewarned>>
hist == <<ran, stops, starts, lastTurn>>
vars == <<pc, active, outcome, success, fresh, reason, mem, disk, hist>>

InFlight == {"peer", "post", "advance", "account", "health", "halt", "save"}
Outcomes == {"handoff", "justified", "testonly", "half", "fail", "limited"}
PeerStates == {"healthy", "degraded", "halted", "unavailable"}
Credits == {"ok", "half", "fail"}
------------------------------------------------------------------------------
(* TurnManager *)

\* Mutant: no modulus.
SuccessorNoWrap(i) == i + 1

Successor(i) == IF i = N - 1 THEN 0 ELSE i + 1

\* Rotation steps from position i to position p.
Distance(i, p) == IF p >= i THEN p - i ELSE p + N - i

\* Mutant: the interval is only counted from a failed recovery turn.
RecoveryDueAfterCooldown(p) ==
  /\ RecoveryInterval > 0
  /\ health[p] = "degraded"
  /\ cooldown[p] # Unset /\ iteration - cooldown[p] >= RecoveryInterval

RecoveryDue(p) ==
  /\ RecoveryInterval > 0
  /\ health[p] = "degraded"
  /\ LET since == IF cooldown[p] # Unset THEN cooldown[p] ELSE degraded_at[p]
     IN  since # Unset /\ iteration - since >= RecoveryInterval

Eligible(p) ==
  /\ health[p] # "halted"
  /\ health[p] = "degraded" => RecoveryDue(p)

\* Recovery-role peers join only when no default peer is eligible.
Candidates ==
  LET default == {p \in Peers \ Recovery : Eligible(p)}
  IN  IF default # {} THEN default ELSE {p \in Peers : Eligible(p)}

\* current(): the first candidate from turn_index on, in rotation order; the
\* peer at turn_index itself when nobody is eligible.
Current ==
  IF Candidates = {} THEN turn_index
  ELSE CHOOSE p \in Candidates :
         \A q \in Candidates : Distance(turn_index, p) <= Distance(turn_index, q)
------------------------------------------------------------------------------
(* StateStore *)

FreshState ==
  [turn |-> 0, iteration |-> 0, failures |-> 0,
   health |-> [p \in Peers |-> "healthy"], fails |-> [p \in Peers |-> 0],
   runs |-> [p \in Peers |-> << >>], degraded_at |-> [p \in Peers |-> Unset],
   cooldown |-> [p \in Peers |-> Unset], cheats |-> [p \in Peers |-> 0],
   prewarned |-> [p \in Peers |-> FALSE]]

\* save(): the whole dictionary replaces the file atomically.
Save ==
  disk' = [turn |-> turn_index', iteration |-> iteration',
           failures |-> consecutive_failures', health |-> health',
           fails |-> fails', runs |-> runs', degraded_at |-> degraded_at',
           cooldown |-> cooldown', cheats |-> cheats',
           prewarned |-> prewarned']

\* load()
Load ==
  /\ turn_index' = disk.turn
  /\ iteration' = disk.iteration
  /\ consecutive_failures' = disk.failures
  /\ health' = disk.health
  /\ fails' = disk.fails
  /\ runs' = disk.runs
  /\ degraded_at' = disk.degraded_at
  /\ cooldown' = disk.cooldown
  /\ cheats' = disk.cheats
  /\ prewarned' = disk.prewarned

Init ==
  /\ pc = "down" /\ active = 0 /\ outcome = "fail" /\ success = FALSE
  /\ fresh = TRUE /\ reason = "none"
  /\ disk = FreshState
  /\ turn_index = 0 /\ iteration = 0 /\ consecutive_failures = 0
  /\ health = FreshState.health /\ fails = FreshState.fails
  /\ runs = FreshState.runs /\ degraded_at = FreshState.degraded_at
  /\ cooldown = FreshState.cooldown /\ cheats = FreshState.cheats
  /\ prewarned = FreshState.prewarned
  /\ ran = 0 /\ stops = 0 /\ starts = 0 /\ lastTurn = [p \in Peers |-> 0]

\* The process ends; a clean end leaves its reason in last-stop-reason.txt.
Exit(why) == pc' = "down" /\ reason' = why

\* OrchestratorDriver.run under a free run.lock: load state, enter the loop.
Start ==
  /\ pc = "down" /\ starts < MaxStarts
  /\ Load
  /\ pc' = "top" /\ fresh' = TRUE /\ starts' = starts + 1
  /\ UNCHANGED <<active, outcome, success, reason, disk, ran, stops, lastTurn>>
------------------------------------------------------------------------------
(* One tick *)

OverBudget == iteration >= MaxIterations \/ consecutive_failures >= MaxFailures

\* _pre_tick_exit on the budget: the state is saved on the way out.
StopOnBudget ==
  /\ pc = "top" /\ OverBudget
  /\ Exit("budget")
  /\ UNCHANGED mem /\ Save
  /\ UNCHANGED <<active, outcome, success, fresh, hist>>

\* Every other exit between two ticks: max_ticks, runtime, token or dollar
\* caps, a stuck gate, a goal mutation, a checkpoint, convergence.
StopBeforeTick ==
  /\ pc = "top" /\ ~OverBudget
  /\ Exit("stopped")
  /\ UNCHANGED mem /\ Save
  /\ UNCHANGED <<active, outcome, success, fresh, hist>>

\* Mutant: the prompt is built for peer_order[turn_index], not for current().
LaunchAtIndex ==
  /\ pc = "top" /\ ~OverBudget
  /\ active' = turn_index
  /\ pc' = "peer"
  /\ ran' = ran + 1
  /\ lastTurn' = [lastTurn EXCEPT ![turn_index] = iteration]
  /\ UNCHANGED <<outcome, success, fresh, reason, mem, disk, stops, starts>>

\* Mutant: the loop waits until a peer is eligible.
LaunchWhenEligible ==
  /\ pc = "top" /\ ~OverBudget /\ Candidates # {}
  /\ active' = Current /\ turn_index' = Current
  /\ pc' = "peer"
  /\ ran' = ran + 1
  /\ lastTurn' = [lastTurn EXCEPT ![Current] = iteration]
  /\ UNCHANGED <<outcome, success, fresh, reason, iteration,
                 consecutive_failures, health, fails, runs, degraded_at,
                 cooldown, cheats, prewarned, disk, stops, starts>>

\* _prepare_tick_prompt pins turn_index at current(); _invoke_peer launches.
LaunchPeer ==
  /\ pc = "top" /\ ~OverBudget
  /\ active' = Current
  /\ turn_index' = Current
  /\ pc' = "peer"
  /\ ran' = ran + 1
  /\ lastTurn' = [lastTurn EXCEPT ![Current] = iteration]
  /\ UNCHANGED <<outcome, success, fresh, reason, iteration,
                 consecutive_failures, health, fails, runs, degraded_at,
                 cooldown, cheats, prewarned, disk, stops, starts>>

\* The run hit a halt-class pattern (auth, quota): the peer is unavailable and
\* the process ends at once, before any accounting of the tick.
HaltPattern ==
  /\ pc = "peer"
  /\ health' = [health EXCEPT ![active] = "unavailable"]
  /\ Exit("peer-unavailable")
  /\ UNCHANGED <<turn_index, iteration, consecutive_failures, fails, runs,
                 degraded_at, cooldown, cheats, prewarned>>
  /\ Save
  /\ stops' = stops + 1
  /\ UNCHANGED <<active, outcome, success, fresh, ran, starts, lastTurn>>

\* Any other way the subprocess ends, the timeouts of health_guard included.
PeerReturns ==
  /\ pc = "peer"
  /\ outcome' \in Outcomes
  /\ pc' = "post"
  /\ UNCHANGED <<active, success, fresh, reason, mem, disk, hist>>

\* _post_run and AntiCheatGuard.apply_outcome.
PostRun ==
  /\ pc = "post"
  /\ \/ /\ outcome = "handoff"
        /\ success' = TRUE
        /\ cheats' = [cheats EXCEPT ![active] = 0]
        /\ prewarned' = [prewarned EXCEPT ![active] = FALSE]
     \/ /\ outcome = "justified"       \* a test-only handoff with a rationale
        /\ success' = TRUE
        /\ prewarned' = [prewarned EXCEPT ![active] = FALSE]
        /\ UNCHANGED cheats
     \/ /\ outcome = "testonly" /\ ~prewarned[active]
        /\ success' = TRUE
        /\ prewarned' = [prewarned EXCEPT ![active] = TRUE]
        /\ UNCHANGED cheats
     \/ /\ outcome = "testonly" /\ prewarned[active]
        /\ success' = FALSE
        /\ prewarned' = [prewarned EXCEPT ![active] = FALSE]
        /\ cheats' = [cheats EXCEPT ![active] = @ + 1]
     \/ /\ outcome \in {"half", "fail", "limited"}
        /\ success' = FALSE
        /\ cheats' = [cheats EXCEPT ![active] = 0]
        /\ UNCHANGED prewarned
  /\ pc' = "advance"
  /\ UNCHANGED <<active, outcome, fresh, reason, turn_index, iteration,
                 consecutive_failures, health, fails, runs, degraded_at,
                 cooldown, disk, hist>>

\* TurnManager.advance: charges current(), not the peer it was told ran.
Advance ==
  /\ pc = "advance"
  /\ LET rotate == \/ outcome = "limited" \/ success
                   \/ fails[Current] + 1 > MaxRetries
     IN  /\ fails' = [fails EXCEPT ![Current] = IF rotate THEN 0 ELSE @ + 1]
         /\ turn_index' = IF rotate THEN Successor(Current) ELSE Current
  /\ pc' = "account"
  /\ UNCHANGED <<active, outcome, success, fresh, reason, iteration,
                 consecutive_failures, health, runs, degraded_at, cooldown,
                 cheats, prewarned, disk, hist>>

\* Mutant: a rate-limited tick is neutral for the iteration counter as well.
AccountLimitedNeutral ==
  /\ pc = "account"
  /\ iteration' = IF outcome = "limited" THEN iteration ELSE iteration + 1
  /\ consecutive_failures' =
       IF success \/ outcome = "limited" THEN 0 ELSE consecutive_failures + 1
  /\ pc' = "health"
  /\ UNCHANGED <<active, outcome, success, fresh, reason, turn_index, health,
                 fails, runs, degraded_at, cooldown, cheats, prewarned, disk,
                 hist>>

\* record_tick_accounting
Account ==
  /\ pc = "account"
  /\ iteration' = iteration + 1
  /\ consecutive_failures' =
       IF success \/ outcome = "limited" THEN 0 ELSE consecutive_failures + 1
  /\ pc' = "health"
  /\ UNCHANGED <<active, outcome, success, fresh, reason, turn_index, health,
                 fails, runs, degraded_at, cooldown, cheats, prewarned, disk,
                 hist>>

Push(window, entry) ==
  IF Len(window) < Window THEN Append(window, entry)
  ELSE Append(Tail(window), entry)

\* recent_fails, in halves.
FailCredit(window) ==
  2 * Cardinality({i \in DOMAIN window : window[i] = "fail"})
    + Cardinality({i \in DOMAIN window : window[i] = "half"})

\* _update_peer_health
UpdateHealth ==
  LET entry == IF success \/ outcome = "limited" THEN "ok"
               ELSE IF outcome = "half" THEN "half" ELSE "fail"
      window == Push(runs[active], entry)
      was == health[active]
      recovers == success /\ was = "degraded"
      degrades == /\ ~recovers
                  /\ \/ ~success /\ FailCredit(window) >= FailLimit
                     \/ cheats[active] >= CheatLimit
  IN
  /\ pc = "health"
  /\ runs' = [runs EXCEPT ![active] = window]
  /\ IF outcome = "limited"
     THEN UNCHANGED <<health, degraded_at, cooldown>>
     ELSE /\ health' = [health EXCEPT ![active] =
                          IF recovers THEN "healthy"
                          ELSE IF degrades THEN "degraded" ELSE @]
          /\ degraded_at' = [degraded_at EXCEPT ![active] =
                               IF recovers THEN Unset
                               ELSE IF degrades /\ was # "degraded"
                               THEN iteration ELSE @]
          /\ cooldown' = [cooldown EXCEPT ![active] =
                            IF recovers THEN Unset
                            ELSE IF ~success /\ was = "degraded"
                            THEN iteration ELSE @]
  /\ pc' = "halt"
  /\ UNCHANGED <<active, outcome, success, fresh, reason, turn_index,
                 iteration, consecutive_failures, fails, cheats, prewarned,
                 disk, hist>>

Benched == {"degraded", "halted"}

\* _maybe_halt, after the rate-limit backoff has been slept.
MaybeHalt ==
  /\ pc = "halt"
  /\ health' = IF \A p \in Peers : health[p] \in Benched
               THEN [p \in Peers |-> "halted"] ELSE health
  /\ pc' = "save"
  /\ UNCHANGED <<active, outcome, success, fresh, reason, turn_index,
                 iteration, consecutive_failures, fails, runs, degraded_at,
                 cooldown, cheats, prewarned, disk, hist>>

\* Mutant: the tick ends without saving.
EndTickUnsaved ==
  /\ pc = "save"
  /\ UNCHANGED <<mem, disk>>
  /\ fresh' = FALSE
  /\ IF \A p \in Peers : health[p] = "halted"
     THEN Exit("all-peers-degraded")
     ELSE pc' = "top" /\ UNCHANGED reason
  /\ UNCHANGED <<active, outcome, success, hist>>

\* The end of _finalize_tick; a tick that halted the loop is the last one.
SaveTick ==
  /\ pc = "save"
  /\ UNCHANGED mem /\ Save
  /\ fresh' = FALSE
  /\ IF \A p \in Peers : health[p] = "halted"
     THEN Exit("all-peers-degraded")
     ELSE pc' = "top" /\ UNCHANGED reason
  /\ UNCHANGED <<active, outcome, success, hist>>
------------------------------------------------------------------------------
(* The process can be interrupted or die between any two of these steps. *)

Charged == pc \in {"top", "health", "halt", "save"}

\* SIGTERM: whatever is in memory is saved, mid-tick or not.
Interrupt ==
  /\ pc # "down"
  /\ Exit("interrupted")
  /\ UNCHANGED mem /\ Save
  /\ stops' = IF Charged THEN stops ELSE stops + 1
  /\ UNCHANGED <<active, outcome, success, fresh, ran, starts, lastTurn>>

\* SIGKILL, power loss: the file keeps the last save, the reason the last exit.
Crash ==
  /\ pc # "down"
  /\ pc' = "down"
  /\ stops' = IF pc \in InFlight THEN stops + 1 ELSE stops
  /\ UNCHANGED <<active, outcome, success, fresh, reason, mem, disk, ran,
                 starts, lastTurn>>

Tick ==
  \/ StopOnBudget \/ LaunchPeer \/ HaltPattern \/ PeerReturns \/ PostRun
  \/ Advance \/ Account \/ UpdateHealth \/ MaybeHalt \/ SaveTick

Next == Start \/ Tick \/ StopBeforeTick \/ Interrupt \/ Crash

Spec == Init /\ [][Next]_vars

\* The process runs on its own and health_guard bounds every peer run with
\* absolute_max_runtime_s, so an enabled step of the loop is taken.
FairSpec == Spec /\ WF_vars(Tick)
------------------------------------------------------------------------------
(* Properties *)

StateType == [turn : Peers, iteration : Nat, failures : Nat,
              health : [Peers -> PeerStates], fails : [Peers -> Nat],
              runs : [Peers -> Seq(Credits)],
              degraded_at : [Peers -> Nat \cup {Unset}],
              cooldown : [Peers -> Nat \cup {Unset}],
              cheats : [Peers -> Nat], prewarned : [Peers -> BOOLEAN]]

TypeOK ==
  /\ pc \in {"down", "top"} \cup InFlight
  /\ active \in Peers /\ outcome \in Outcomes
  /\ success \in BOOLEAN /\ fresh \in BOOLEAN
  /\ turn_index \in Peers /\ iteration \in Nat /\ consecutive_failures \in Nat
  /\ health \in [Peers -> PeerStates] /\ fails \in [Peers -> Nat]
  /\ runs \in [Peers -> Seq(Credits)]
  /\ degraded_at \in [Peers -> Nat \cup {Unset}]
  /\ cooldown \in [Peers -> Nat \cup {Unset}]
  /\ cheats \in [Peers -> Nat] /\ prewarned \in [Peers -> BOOLEAN]
  /\ disk \in StateType
  /\ ran \in Nat /\ stops \in Nat /\ starts \in Nat
  /\ lastTurn \in [Peers -> Nat]

\* The peer charged at the end of a tick is the peer that ran: advance() asks
\* current() again, minutes after the prompt was built, and must get the same
\* answer (turn_manager.advance, driver_tick_hooks._prepare_tick_prompt).
RanPeerIsCharged == pc \in {"peer", "post", "advance"} => Current = active

\* However often the process is killed, interrupted or halted, peers are
\* launched at most max_iterations times plus once per process end that left
\* its run uncharged (budget_accountant.record_tick_accounting).
LaunchesWithinBudget == ran <= MaxIterations + stops

\* A crash loses at most the tick in flight: state.json is never more than one
\* iteration behind the process (tick_loop._finalize_tick, state_store.save).
CrashLosesOneTick == pc # "down" => iteration \in disk.iteration..disk.iteration + 1

\* With every peer benched the loop stops: only the first tick after a restart
\* can still be given to a benched peer (driver_peer_health._maybe_halt).
NoTickWhenAllBenched ==
  pc = "top" /\ ~fresh => \E p \in Peers : health[p] \notin Benched

\* No default-role peer waits longer than its bench plus everybody else's
\* retries: a degraded peer is benched, not starved (turn_manager.current).
NoStarvation ==
  \A p \in Peers \ Recovery :
    RecoveryInterval > 0 /\ health[p] # "halted" =>
      iteration - lastTurn[p] <=
        1 + RecoveryInterval + (N - 1) * (MaxRetries + 1)

\* A running loop ends by itself: each tick it survives is paid for, so the
\* iteration budget ends it whatever peers do (TickLoop.run).
LoopTerminates == pc = "top" ~> pc = "down"

\* turn_manager.current() promises one recovery turn per recovery_interval:
\* a peer degraded at iteration d, while a default peer could run instead,
\* gets no turn before d + recovery_interval.
WaitsFullCooldown ==
  [][LET p == active' IN
       (pc = "top" /\ pc' = "peer" /\ health[p] = "degraded"
          /\ \E q \in Peers \ (Recovery \cup {p}) : Eligible(q))
       => iteration - degraded_at[p] >= RecoveryInterval]_vars
=============================================================================
