# A TLA+ model of peers

`peers` runs coding agents ("peers") in turn on a git repository until the
project's gates are green, a budget is spent or somebody has to look.  The
substrate around the agents is what these modules model: whose turn it is, when
a run may say "complete", which verdicts it may believe, and how several
processes share a project, its worktrees and its branches.  What an agent
writes, and what a gate script looks for, is never modelled: an agent's run is
any change of the repository, a gate is red or green.

All paths below are relative to `src/src/` unless they say otherwise.

## 1. Inventory

### 1.1 The parts and how they interact

| part | code | state it keeps | what it does |
|---|---|---|---|
| tick loop | `peers/tick_loop.py`, `driver_tick_hooks.py`, `_driver_orchestrator_impl.py`, `driver_lifecycle.py` | the state dictionary in memory, `state.json`, `last-stop-reason.txt` | pre-tick exits, launch of one peer, post-run checks, accounting, saving, halts, interrupts |
| turn rotation and health | `turn_manager.py`, `driver_peer_health.py` | `turn_index`; per peer a state, failures, the last five runs, bench and cooldown marks | who runs next, who is benched, who gets a recovery turn, when nobody is left |
| budgets | `budget_accountant.py` | iterations, consecutive failures, tokens, dollars, run time | ends the loop |
| anti-cheat, attestation | `anti_cheat_guard.py`, `attest.py` | `failed_cheating`, a pre-warning, attribution of commits | reverts a cheating commit, credits half a failure |
| convergence | `goal_engine.py`, `skeptic_engine.py`, `stuck_progress.py`, `driver_helpers.py` | clean counter, two-phase counters and phase, stuck counters, plan steps, the memory-only marks of the skeptic tick | when "complete", "stuck:<gate>" or a checkpoint pause is due |
| soft reviews | `driver_soft_reviews.py` | per goal the recent verdicts and a consensus count | the soft half of "all green" |
| gate pipeline | `driver_gate_pipeline.py`, `async_gate_runner.py`, `goal_reload.py` | last results, the memo of passes, a queue of evaluations and a worker thread | which verdict a tick is planned on |
| driver lock | `_driver_orchestrator_impl.py`, `state_store.py`, `peers_ctl/store.py`, `cli.py` | `.peers/run.lock` and its flock | one driver per project |
| worktree leases | `spine/worktree.py` | prune lock, acquire locks, run locks, liveness records, worktrees, branches | an isolated worktree per mode_run, and the sweep of crash leftovers |
| spine | `spine/ledger.py`, `gates.py`, `auto_merge.py`, `landing.py`, `baseline.py`, `propagate.py`, `self_hosting.py` | an append-only ledger per mode_run, refs of the target | is a mode_run converged, and may its branch be landed |
| fleet | `fleet/*.py` | the fleet ledger, start intents, slots with child processes | schedules mode_runs over several tools, satisfies their dependencies, lands and rejects them |
| front ends | `develop/`, `research/`, `modes/bring_up/` | rounds and claims in the spine's ledger | one mode_run over injected agents |
| health guard | `health_guard.py`, `structured_halt.py`, `liveness.py` | the child process, two reader threads and their buffers, deadlines, zombies | supervises one call of a peer: timeouts, halt patterns, the class of its result; reaps as PID 1 |
| comms | `comm_layer.py`, `driver_tick_hooks.py` | commits with trailers, numbered files, a bookmark of what was told | messages between peers |
| records | `driver_observability.py`, `attest.py` | `runs.jsonl`, stream logs, attestation notes | what happened in a tick, and who wrote a commit |
| bug ledger | `bug_hunt.py`, `regression_baseline.py` | trailers of commits; baselines and their digests | which bugs are answered, which tests were green before |
| peers-ctl | `peers_ctl/*.py` | the registry of projects, pids with start times, caps and their sidecar, contracts with an audit log | start, stop, reconcile, new, amend, ack-block, resume |
| terminal interface | `peers_ctl/tui/*.py` | the run selected, what was read last, one child that streams | shows the files the loop writes |
| auth proxy | `auth_proxy/*.py` | permits, a file with a rotating pair of tokens | forwards requests of containers, refreshes the pair |
| gate scripts | `peers/templates/modes/*/checks/*.py` | none | read the repository, exit 0 or 1 |

One tick of the loop touches most of the upper half of the table: the pipeline
delivers verdicts, the hooks decide between the exits, the turn manager names
the peer, the health guard supervises it, the anti-cheat guard looks at its
commits, the accountant charges it, health and turn are updated, `state.json`
is saved, gates are evaluated again, the clean counter is advanced and saved a
second time.  The parts share the state dictionary, which is why their order
matters more than their code.

### 1.2 What is hard

* **Order inside the tick.**  Every part reads what another one wrote earlier in
  the tick, or in the tick before, and `advance()` asks a second time who it is
  that ran.
* **What survives the process.**  State lives in memory, in `state.json`, in
  memory-only marks, in the repository; a crash, an interrupt or a halt leaves
  each of them at a different point.
* **Stale verdicts.**  With `pipeline_gates` a verdict is computed on another
  thread for a commit and a goal set that may both be history when it arrives.
* **Locks on files.**  A flock belongs to an inode, names are unlinked, and a
  killed process drops its locks half-way through.
* **Several processes.**  Drivers, leases, sweeps, probes, the fleet and its
  children, and the operators' commands meet in the file system, never in memory.
* **Files written one after the other.**  A contract, a plan, a project, a budget
  and a landing are each several files; a kill leaves the first ones written.
* **Threads around a child process.**  What a child wrote, that it has ended, and
  who holds its pipes are three facts that arrive in any order.

`PROJECT.json` lists each of these hazards at its line, with the properties that
look for it.

### 1.3 What makes each part correct

| part | correct when |
|---|---|
| rotation, health | the peer that ran is charged; benching starves nobody; a bench lasts its cooldown; nobody left means halt |
| budgets, saving | no limit is overrun, however the process ends; a crash loses one tick |
| convergence | "complete" is said of a green, agreed, re-audited tree after the clean streak, and is then not held back; "stuck" has its red ticks; the operator's pause comes before any implementation, once |
| gate pipeline | no verdict of another commit or goal set counts; completion rests on a fresh evaluation |
| driver lock | never two drivers in one project |
| leases | a sweep takes nothing in use; a mode_run is leased once at a time; what a crash leaves does not block the next lease |
| spine | the target only moves forward, to commits a fresh test run has passed; the ledger claims no landing that did not happen; fabricated confirmations keep no run alive |
| fleet | nothing is started twice or over the ceiling; a rejection reaches all that depends on it; what is settled stays so; it ends |
| call of a peer | a success has no error in its output; the status is the child's own; every call ends |
| soft reviews, bug ledger, plan, test gates | the counters say what the history of reviews, reports, sign-offs and tests says, however it was written |
| mail, records | no mail is overwritten, and none is behind a saved bookmark that was in no prompt; a note names the writer of a commit or nobody |
| contracts, budgets, scaffolding | after any kill the next command that says it is done left a whole: audited, of the asked cap, of one plan |
| registry | one loop per project; no signal for a stranger |
| front ends | a confirmed unit rests on evidence of its own round, or on a fix that passes |
| terminal interface, auth proxy | what is painted is of the run selected; no child, permit or token is left behind |

## 2. Plan

Written: everything that keeps state and decides on it, in the order of its
importance -- the loop (`PeerRotation`, `Convergence`, `GatePipeline`), the locks
(`RunLock`, `WorktreeLease`), the fleet (`Fleet`), the spine and its landing
(`SpineRun`, `Landing`, the abstract `VerifiedTarget`), the operators' side
(`ProjectRegistry`, `RunBudget`, `Scaffold`, `HostHooks`, `FrozenContracts`, `PlanWork`), the
tick's parts (`PeerInvocation`, `Reaper`, `TickLog`, `PeerMail`, `SoftReviews`,
`TestGates`, `BugHunt`), the front ends (`BringUp`, `ResearchRun`) and what stands
beside them (`Cockpit`, `AuthProxy`).

What composes what: `Landing` extends `SpineRun`, so that landing calls, driving runs and
people interleave on one repository, and implements `VerifiedTarget`. `Components` only puts
the components that share no state side by side, so that one module can be checked and proved
about (section 4); `MCComponents` is its small instance.  The others meet at an input: `Fleet`
takes a landing's verdict from any `Landing`, `Convergence` takes the consensus of
`SoftReviews`, the gates of `GatePipeline`, `BugHunt`, `TestGates` and `PlanWork` as red or
green, and `PeerRotation` takes the class that `PeerInvocation` gives a call.

To come, in this order:

1. An abstract fleet ("a run is started at most once at a time and lands after
   what it depends on") that `Fleet` implements; the invariant of `Fleet_proofs` has
   what its simulation needs.
2. A second research process and two runs of one project in `TickLog`; both are
   assumed away and nothing in the code excludes the first.

### PeerRotation -- `turn_manager`, `driver_peer_health`, `budget_accountant`

State: the state dictionary's keys under their own names, `disk` for
`state.json`, `pc` for the place in `TickLoop.run`, and `active`, `outcome`,
`success` for the run in flight.  Peers are their positions in `peer_order`.
Half failures (a reverted cheat, a warning) are counted in halves, so the limit
is twice the code's.

| action | code |
|---|---|
| `Start` | `OrchestratorDriver.run`: load, overlay, the turn manager |
| `StopOnBudget`, `StopBeforeTick` | `_pre_tick_exit` |
| `LaunchPeer` | `_prepare_tick_prompt`, which pins `current()` for the tick |
| `PeerReturns`, `HaltPattern` | `_invoke_peer` with its retries; the halt-pattern exit, which charges nothing |
| `PostRun` | `AntiCheatGuard.apply_outcome` |
| `Advance`, `Account`, `UpdateHealth`, `MaybeHalt`, `SaveTick` | `_finalize_tick`, in its order |
| `Interrupt`, `Crash` | SIGTERM (memory is saved as it is), SIGKILL (it is not) |

`Current` is `TurnManager.current` as a set of candidates and the distance from
`turn_index`; `Load` and `Save` are `StateStore.load` and `save` with their
normalisations.

### Convergence -- `driver_tick_hooks`, `skeptic_engine`, `stuck_progress`, `driver_helpers`

State: `st` (memory), `disk`, the two skeptic marks that are never persisted,
`tree` (which gates are red on it, plan steps done, soft consensus), `run` (what
the last peer run was).  The pre-tick exits are one action each, in the code's
order (`ExitOnMaxTicks`, `ExitOnBudget`, `ExitWhenStuck`, `EvaluateGates`, then
`NotConverged`, `HuntGoesOn`, `AskSkeptic`, `AwaitPhaseB`, `Complete`), then
`PauseAtCheckpoint`, `LaunchPeer`, `PeerReturns`, `FinalizeTick` (first save) and
`CountClean` (second save).  Counters saturate where the code compares them.

### GatePipeline -- `goal_engine`, `driver_gate_pipeline`, `async_gate_runner`, `goal_reload`

State: the engine's `last` and `cache`, the runner's `queue` and `worker`, the
version of the goals each of them holds, and the repository: HEAD, the working
tree and which gates are red on both.  The driver's steps and the worker's
interleave.  With `pipelined` FALSE the driver evaluates everything itself.

### RunLock -- `_driver_orchestrator_impl`, `state_store`, `cli`, `peers_ctl/store`

A file is a number; `path` is the file that the name `run.lock` refers to, `fd`
the file a process has open, `owner` the holder of its flock.  Drivers open,
lock, run, release; a release opens, locks and unlinks; a probe opens, locks and
unlocks; anyone is killed anywhere.

### WorktreeLease -- `spine/worktree`

One process holds the prune lock, sweeps (`TakePruneLock` to `FinishSweep`),
takes the acquire lock of its mode_run, adds and guards the worktree, lets the
prune lock go, publishes its record, works, and tears down in the code's order
without the prune lock.  git is modelled by its effects on worktrees and
branches.

### Fleet -- `fleet/conductor`, `daemon`, `slot_runner`, `scheduler`, `fleet_ledger`, `invalidate`, `run_one`

State: the folds of the fleet ledger (`status`, `slotOf`, `edges`), which survive a
kill; the slot runner's memory (`slot`, `reported`), which does not; the locals of
a tick (`seen`, `todo`, `agenda`, `blocked`, `asked`, `acted`); and per run what its
process does (`child`), whether it has a worktree (`tree`), whether the ledger in
it is converged (`work`) and the ledger kept when it ended (`kept`).

| action | code |
|---|---|
| `Observe` | `runs_by_id`, then `observe`, then reconcile-or-halt |
| `FindLive`, `RestartWedged`, `ReportDone` | the liveness loop, slot by slot |
| `Schedule`, `ScheduleRaises` | routing, `startable_runs`, the edges of consumed runs; a `dep_check` that raises |
| `SkipUnrecordable`, `RecordIntent`, `Launch`, `LaunchFails`, `RecordRunning` | the write-ahead start of one run |
| `Land`, `RejectRoot`, `RejectDependent`, `EndTick` | `_land_tier1`, `_drive_rejections` with `reject_run`, the ends of `conduct_fleet` |
| `ChildLeases` ... `ChildDies` | `run_one.main` around `_lease_drive_persist` |
| `Crash`, `Start` | SIGKILL of the conductor, `peers-ctl fleet` again |

`conduct_fleet` takes `dep_check`, `lander` and `should_reject` as parameters.  The
lander and `should_reject` may answer anything; `dep_check` is the production one or
the one the tests inject; `cmd_fleet` gives no `should_reject`, so rejections are
what the interface allows and the tests do.  A program's settings are one value of
`Programs`, so one run checks several.  `plan` is the loop of `startable_runs` as a
function of how many runs it has looked at; `Tokens`, the sum of budgets, is the
cardinality of the tokens themselves, which is a sum one can reason about.

### SpineRun, Landing, VerifiedTarget -- `spine/*`, `develop/frontend`

`SpineRun` is `drive()` over develop's rounds, for several runs of one repository:
commits with their parents, the notes all runs share, per run a branch and a
ledger of rows.  A round audits and authors (`Round`), commits (`Implement`), reads
and rewrites the notes (`ReadNotes`, `WriteNotes`, a read and a write with other
runs between) and appends its rows; `Check` aborts on a torn ledger, stops when dry
or when the rounds are spent; `Die` is a kill anywhere.  `Landing` adds `land()`:
`Decide`, `Reread`, `Recheck`, `DetectSelfHosting`, `ResolveTarget`, `Swap` (the
compare-and-swap of the ref), `RecordLanding`, and `PeopleCommit`, `Push` of others.
The history of a commit (`History`) is the least set that has it and every parent.
`VerifiedTarget` is what that promises: a branch that moves forward only, to a
commit people made or a fresh test run has vetted.  `Landing` implements it with its
own `parent`, `target`, `theirs`, `vetted` as the mapping (`TargetKeepsPromise`).

### ProjectRegistry -- `peers_ctl/runner`, `store`, `cli`

One project, several `peers-ctl` processes.  The record, the start lock, what each
controller has read (`ctl`), the processes behind the pids with their start times,
the container, the sidecars, the sentinel file.  `CmdStart` to `RecordStart` is
`start_project`, `CmdStop` to `WriteStopped` is `stop_project`, `Reconcile` is every
listing command; pids end and are reused between any two steps, podman may fail, and a controller may be
killed anywhere in its command.

### RunBudget -- `runner`, `peers_ctl/cli`, `budget_accountant`

The four places of the cap (`config`, `sidecar`, `disk`, `mem`), written by `CmdStart`
(`ClearOverride`, `PersistOverride`, `MirrorState`, `CheckBudget`), `CmdResume`
(`ApplyResumeBudget`), the operator's editor, and the driver's `Tick`.

### Scaffold, HostHooks -- `peers/cli` init, `peers_ctl/cli` new

A project directory as a command builds it up, part by part (`Clone`, `Docs`, `Wipe`,
`Copy`, `TagBaseline`, `Pin`, `Ignore`, `Contracts`, `Forget`, `Add`); every step may be
the last (`Leave`), runs start and commit in between.

`HostHooks` is `peers init --driver=hooks --install`: the one settings file of each host
that all projects of an operator share, read (`Read`), merged (`Merged`), written to a
temporary file of one fixed name (`WriteTmp`, with the backup) and replaced (`Replace`) by
the commands of several projects, without a lock; `Switch` changes the driver, `Kill` ends
a command anywhere.  `Within` says of which projects the marker is a part of another's, as
`/a` is of `/ab`: the code looks for its own entry by that.

### FrozenContracts, PlanWork -- `peers_ctl/contracts`, the implement mode's checks

`FrozenContracts`: the command, its hash and the audit log, written by truncate and
fill (`Write`), beside a gate that verifies and then executes.  `PlanWork`: PLAN.md in
the tree and at HEAD, the history with who checked what off and who signed, the
hook, the gates over both, and `ack-block` in its three steps.

### PeerInvocation, Reaper -- `health_guard`, `structured_halt`

`PeerInvocation` is one `invoke()`: the child writes fragments, two reader threads
take them in chunks and may stall in the tee, a helper may hold the pipes, the
monitor polls, scans what is fresh, times out, terminates, joins, scans again and
classifies.  Text is a sequence of fragments, so that a pattern may be cut in two
and an echoed line differs from a real one.  `Reaper` is PID 1: zombies of strangers,
the sweep inside the poll loop, the reaping after it, and the status that Popen
sees.

### TickLog, PeerMail, SoftReviews -- the tick's records and messages

`TickLog`: a tick from `Boot` or `Save` to `Save`, with the head before and after the peer, the
note written from them, the row, the logs per stream and their rotation, and commits of the
operator.  `PeerMail`: the bookmark in memory and on disk, inboxes and archives, what was put
into a prompt (`told`), what a peer was started with (`seen`), and what was in a prompt that no
peer got (`cut`): the start of the peer failed (`LaunchFails`), after which the turn ends and
is saved like any other, or the driver was stopped before it. `SoftReviews`: the counters of
one goal in each reviewer mode, beside `all`, the whole history that the code does not keep.

### TestGates, BugHunt -- evidence in the repository

`TestGates`: one test file and one source file, baselines that are seeded at the start as
far as the snapshots succeed and anchored in the driver's memory as far as there are
any, peers that edit tests, skips, sources, baselines and gate scripts.  A snapshot may
fail, and a project may start without tests/, where one of the skips writes nothing; a gate
without a digest is not checked for forgery.  `BugHunt`: the trailers of any history of commits about one bug,
scanned newest first as the code does (`Scan`, a recursive function of how many commits
are left out).

### BringUp, ResearchRun -- the other front ends

`BringUp`: rounds over the corpus, verdicts, diagnosis, turns of the fixer on a
checkout that keeps what a failed attempt left, commits, rows, facts, crashes.
`ResearchRun`: sub-questions, witnesses by origin, classification, RESEARCH.md in the
tree and in HEAD, the one ledger all runs append to, kills and later starts.

### Cockpit, AuthProxy

`Cockpit`: selection, one worker, the messages that wait (two at most), the data painted,
the child that streams.  `AuthProxy`: permits and threads of the accept loop, the two locks around a
refresh, the pair in the file and the provider's newest one, answers that are lost.

## 4. The runs

| run | question | instance | result |
|---|---|---|---|
| `rotation` | does the bookkeeping hold over restarts, interrupts, crashes? | 2 peers and a spare, 6 iterations, 2 starts | passes |
| `convergence` | when may a run say "complete", "stuck", or pause? | 3 modes, one watched gate and one skeptic gate, 5 iterations, 2 starts | passes |
| `fleet` | does the conductor start, restart, land and reject rightly, over kills? | 3 runs, 2 slots, 4 programs | passes |
| `runlock` | do the locks keep drivers apart unless the file is removed under somebody? | 4 processes | passes |
| `landing` | does a landing keep the target's promise beside other runs and people? | 2 runs of 2 and 1 rounds, 3 commits, a kill | passes |
| `registry` | one loop per project, and no stranger signalled? | 2 controllers (one may be killed), 2 pids, 2 starts, host and container | passes |
| `liveness` | does each call, reaping, bring-up and request end, with the truth? | 4 components, below | passes |
| `safety` | 14 components, each against its own hazards | below | passes |
| `runlock_unlinked` | do the locks always keep drivers apart? | 3 processes | **no** |
| `research_gate` | does a confirmed claim stay witnessed? | one question, 2 rounds | **no** |
| `tests_never` | does a missing baseline fail closed? | 2 peers, 3 edits | **no** |
| `plan_partial` | does a [PARTIAL] step hold up convergence? | 1 step, 2 peers | **no** |

`Components` is the sum of eighteen components that share no state: a behaviour is a
behaviour of one of them, the `subject`, which never changes.  Its variables stand in slots
`x1`, `x2`, ..., the first as many as the component has; the names the component gives
them are defined as those slots, and the component is instantiated over the names.  So the
state space is the sum of theirs, never a product, and a property named `P` there says `P`
of the component in the behaviours that are its.  `safety` and `liveness` are two runs of
`MCComponents`, on the fourteen components whose properties are safety only, and on the
four that something has to end of; `Subjects` says which.

What each checked property says is in the comment above it.  In short:

* **rotation.** `RanPeerIsCharged`; `LaunchesWithinBudget` (the run is never longer
  than the budget plus once per end that lost a charge); `CrashLosesOneTick`;
  `NoStarvation` (a bound on the ticks a peer waits); `LoopTerminates`.
* **convergence.** `CompleteIsEarned` (green, audited, after a clean streak that no
  rate-limited tick cut), `StuckMeansRedTicks`, `PausesAsPlanned` (before any build,
  once), `ConvergesPromptly` (flawless ticks are not held back).
* **fleet.** `StartsAreSound` (no halt of its own doing, no double start, within the
  ceiling), `CascadeComplete`, `SettledStaysSettled`, `FleetEnds`.
* **runlock.** `ExclusiveUnlessOrphaned`.
* **landing.** `TargetKeepsPromise` (the refinement), `LandedRowsAreTrue`,
  `DryRunsStop`, `GovernanceNeedsReview`.
* **registry.** `OneLoop` (unless a loop was lost in one of three named ways),
  `TermSparesStrangers`.
* **liveness.** `SuccessIsClean`, `PeerStatusIsReal`, `BroughtUpIsGreen`,
  `ProxyIsSound`, and `EverythingEnds`: a call, a zombie, a bring-up, a request.
* **safety.** `ConvergedIsFresh` and `CountedIsCurrent` (GatePipeline),
  `ConsensusIsEarned` (SoftReviews), `MailIsKept` (PeerMail), `LogsTellTheTruth`
  (TickLog), `ConvergedIsUnforged` (TestGates), `PlanIsHonest` (PlanWork),
  `ExecutedIsAudited` (FrozenContracts), `BugsAreAnswered` (BugHunt),
  `ConfirmedIsCorroborated` (ResearchRun), `BudgetIsAsked` (RunBudget),
  `ScaffoldIsWhole` (Scaffold, and of HostHooks: the operator's own entries stay, and what
  a command that ran alone says it installed is there), `LeasesAreSafe` (WorktreeLease),
  `CockpitIsCurrent` (Cockpit).

Four of them are narrower than their names, because the code is.  `MailIsKept` counts mail
as told that was in the prompt of a peer whose start failed, or that a stop prevented
(`ToldIsStarted` is what one might expect).  `ConvergedIsUnforged` trusts a skip baseline
that was captured during the run, if none was anchored when it started (`OwnSkipsAreSigned`).
`LandedRowsAreTrue` looks from the rows to the target: that no target moves without its row is
`ErrorMeansNotMerged`, refuted below.  `CascadeComplete` is about the edges a cascade follows
and excepts one that a kill cuts off in the middle, which the code never takes up again.

### Bounds

Every constant named `Max...`, and `max_faults` of a fleet program, is a bound; each is
a guard of the module that has it, and there are no others.  They are enough for the
cases the properties speak of:

* Six iterations with `RecoveryInterval` 2 and `FailLimit` 2 let a peer be benched,
  recover and be benched again in either process; with `Window` 1 its health is
  decided by its last run alone.  Five iterations let either phase be reached, lost
  and reached again with `CleanN` 2 and `StuckAfter` 3.
* Four processes and four files let the lock file be removed under one process while
  two more start.  Three leases of two mode_runs let a lease run beside a teardown and
  a sweep, and be followed by one of the same mode_run.
* Three runs on two slots are a chain, a pair beside an independent run, three runs
  over a ceiling of two tokens, and the production `dep_check`; two faults are any two
  of a wedged child, a rejection and a kill.
* In `landing` one run may commit twice and the other once beside people's commit, so
  each may find the target moved by another run or by people; one kill falls
  anywhere.  Dry limits of 1 make every second round decisive.
* Two starts, two pids and two controllers let each record, signal or verdict be of an
  older start than the one that runs.
* Scripts of a child are the texts that matter: nothing, an error in one piece and in
  two, an echo of it, a halt pattern, a halt behind an echo, a rate-limit envelope, a
  halt envelope behind an error, more than the buffer holds, and the same on stderr.
* Three connections for two permits let one be refused; two pairs of tokens and a lost
  answer let one be refreshed late.  A flaky case and one without ground truth are the
  two a bring-up can be wrong about.
* Three peers, five reviews and a history of four let a quorum of two thirds be
  reached, undone and trimmed.  Two operators and two acknowledgements let one overwrite
what the other wrote to PLAN.md.  Two waiting messages let one of the run selected before
stand behind or before one of the run selected now.  Four commits about a bug are a report, an answer, a
  second report and an answer to it.  Three commands on caps 1 and 2, three amends of
  two commands, three scaffolding commands with two plans, two rounds in two research
  runs are each one more than what a first cut of the code could be confused by.

`CHECK_DEADLOCK FALSE` stands in every configuration because every one of these
programs ends.  Symmetry is used over processes in `runlock` and over controllers and
pids in `registry`; no liveness property is checked there.

### Fairness

* `rotation` assumes weak fairness of `Tick`, the loop's own steps.  The loop is one
  thread that never blocks for ever: its one external wait is the peer's call, which
  ends (`InvocationEnds`).  `Start`, `StopBeforeTick`, `Interrupt` and `Crash` have none.
* `fleet` assumes weak fairness of `Conduct` and of every child's progress to its end:
  a child runs under a budget of its own.  The code restarts a wedged child without a
  limit, so `FleetEnds` rests on `max_faults`; it speaks of the first conductor only, for
  a second one may wait for ever.
* `liveness`, PeerInvocation: the monitor and the reader threads are scheduled (weak),
  and time passes: the absolute limit is reached as often as it stays ahead (strong,
  `RunsOver`).  The child and the helper that holds the pipes have none: they may hang.
* `liveness`, Reaper: the driver's own steps.  Strangers and the peer have none, but
  that the driver terminates the peer it polls.
* `liveness`, BringUp: the rounds, diagnoses, turns and the report; agents answer because
  their calls end.  Crashes have none and are bounded by the relaunches.
* `liveness`, AuthProxy: each connection's thread.  The restarts of the sidecar have none.

In `MCComponents` one condition on a disjunction of steps of different components stands
for one on each: `subject` never changes, so only the disjuncts of one component are
ever enabled in a behaviour.

### Findings

The four violation runs are disagreements between the code and its own documentation
or comments; `PROJECT.json` quotes the lines.

1. `run.lock` is unlinked although the README says it stays; two drivers can run in one
   project (`runlock_unlinked`).
2. Every confirmed research round rewrites the RESEARCH.md that an earlier row is
   witnessed by; after a second one the ledger gate is red for good (`research_gate`).
3. A baseline that was never captured is captured by a peer from the code it has
   modified, as the red gate says, and the run converges (`tests_never`).
4. A plan with a `[PARTIAL]` step passes the gate that is to hold it up
   (`plan_partial`).

### Claims the code does not keep

The modules state these too, each above its definition with the line it is quoted
from.  No run is spent on them; TLC refutes each one when it is named in place of the
properties of the configuration below, for a component of the sum as
`subject = "..." => Instance!Property` in `MCComponents`.

| property | module | configuration | what happens |
|---|---|---|---|
| `WaitsFullCooldown` | PeerRotation | `Rotation` with `N = 2`, no spare, 9 iterations and failures | a peer benched again after an all-peers halt inherits the old mark and recovers at once |
| `CompleteNeedsCleanStreak` | Convergence | `Convergence` | a crash between the two saves keeps a streak that a failed tick had ended; a rate-limited skeptic tick counts as the re-audit |
| `CompleteNeedsGreenStreak` | Convergence | `Convergence` | the phase "complete" is sticky: after red, one green evaluation completes |
| `FailedMeansUnconverged` | Fleet | `Fleet` | run objects are made before liveness is asked: a child that ends in between is verified on the worktree it has removed |
| `ErrorMeansNotMerged` | Landing | `Landing` | an append that fails after the compare-and-swap reports an error for a target that has moved |
| `StopFailsClosed` | ProjectRegistry | `Registry` | a podman probe that fails is read as no container: the stop writes "stopped" beside one that runs on |
| `KillSparesStrangers` | ProjectRegistry | `Registry` | SIGKILL after the grace period goes to a pid that was given away meanwhile |
| `StoppedIsClean` | ProjectRegistry | `Registry` | reconcile reads the sentinel of another run, here of a start that is not recorded yet, and settles the one that died as "stopped" |
| `GreenResultsConverge` | GatePipeline | `Safety` | overlapped, a red verdict in the engine's last results is not replaced by a polled green one |
| `ExecutedIsPinned` | FrozenContracts | `Safety` | an amend truncates the command between verification and execution: the shell runs an empty script |
| `EveryFixIsReproduced` | BugHunt | `Safety` | only the newest fix of a bug is asked for a test that came first |
| `TicksHaveRows` | TickLog | `Safety` | an interrupted tick is counted, and saved as counted, without a row |
| `GroupIsBounded` | TickLog | `Safety` | a tick cut off before it rotates leaves its logs to the next one, which adds its own |
| `ToldIsStarted` | PeerMail | `Safety` | the bookmark moves and the files are archived while the prompt is built: a peer that cannot be started, or a stop, leaves them told to nobody; a kill, the files |
| `OwnSkipsAreSigned` | TestGates | `Safety` | without tests/, or after a failed snapshot, no skip baseline is anchored: a peer skips a test, captures it with --snapshot, and the run converges |
| `QuorumOfLastReviews` | SoftReviews | its `Spec`, a quorum of 2 in 3 and a history of 2 | a quorum of more reviews than the history keeps (20) is accepted in goals.yaml and never reached |
| `BaselineIsBeforePeers` | Scaffold | `Safety` | `init --force` moves the tag over commits of peers |
| `ResumeExtends` | RunBudget | `Safety` | a resumed cap is overwritten at the start by the one of config.yaml |
| `HaltIsGenuine` | PeerInvocation | `Liveness` | the polling scan starts in the middle of an echoed line and takes its rest for a halt |
| `RescanSeesAll` | PeerInvocation | `Liveness` | a reader that is held up in its tee when it is told to stop does not drain the pipe, and an error that is still in there is a success |
| `GoalStatusIsReal` | Reaper | `Liveness` | the sweep of the poll loop, or the reaping at the end of a call, takes a gate command that runs beside it: its failure is reported as 0 |
| `FactsHoldAtSha` | BringUp | `Liveness` | a fact is pinned to HEAD while the checkout it was observed on is dirty |
| `LiveFollowsTick` | Cockpit | its `Spec`, one run, 3 ticks | the live panel keys its child on the peer: the next tick of the same peer has another file, which nothing follows |

Smaller things the models show: a restart counts a red gate's result again towards
"stuck"; a status probe can refuse a starting driver; a teardown killed between
`worktree remove` and `branch -D` leaves a branch that refuses one lease; the lost update
of PLAN.md when two `ack-block` calls, or one and a peer, rewrite it
(`peers_ctl/cli.py:1067`); an amend killed while contracts.sha is empty, after which no
amend verifies; a step that goes from `[PARTIAL]` to `[x]` needs no other peer; the
commits of a cut-off tick are never attested; the hooks of `/a` are written over those of
`/ab`, because a marker is searched for as a part of a command (`peers/cli.py:59`); of two
overlapping installs one may put the other's file in place, and the other then fails for want of
its temporary file, which is said.  In the fleet: an intent or a "running" row
whose run is in no slot of the new conductor is never looked at again, although
`fleet/conductor.py:34-35` says that the next tick reconciles an open intent; the
production `dep_check` looks for a run object of the consumer before it was started and
aborts the fleet in the first tick of a program with dependencies (`ScheduleRaises`).

## 5. Proofs

Eight modules hold theorems.  All of them are of a specification without fairness, for
every value of the constants that the module's assumption admits; the bounds on starts,
kills, rounds and faults are constants like any other, so a theorem holds for every one.

| module | theorems | assumption |
|---|---|---|
| `PeerRotation_proofs` | `TypeCorrect`, `RanPeerIsChargedHolds`, `LaunchesWithinBudgetHolds`, `CrashLosesOneTickHolds`, `NoTickWhenAllBenchedHolds`, `NoStarvationHolds` | `ConfigAssumption`: two peers or more, limits are naturals |
| `RunLock_proofs` | `LockTypeCorrect`, `ExclusiveUnlessOrphanedHolds` | none |
| `Convergence_proofs` | `TypeCorrect`, `CompleteIsEarnedAlways`, `StuckMeansRedTicksAlways`, `PausesAsPlannedAlways`, `ConvergesPromptlyAlways` | `GateAssumption`: limits are naturals, `stuck_halt_after` is not 0 |
| `Fleet_proofs` | `TypeCorrect`, `StartsAreSoundAlways`, `CascadeCompleteAlways`, `SettledStaysSettledAlways` | `FleetAssumption`: programs that `validate_program` accepts |
| `Landing_proofs` | `TypeCorrect`, `LandedRowsAreTrueAlways`, `DryRunsStopAlways`, `GovernanceNeedsReviewAlways`, `LandingImplementsVerifiedTarget` | `SpineAssumption`: limits are positive, commits are numbers |
| `ProjectRegistry_proofs` | `TypeCorrect`, `OneLoopAlways`, `TermSparesStrangersAlways` | `RegistryAssumption`: the marks for "none" and "missing" are no pids or times |
| `Tick_proofs` | `PipelineFresh`, `PipelineCurrent` | `PipelineAssumption`: what is cached is expensive, goal sets are sets of gates |
| | `SoftEarned` | `SoftAssumption`: the modes of goals.py; the history holds a quorum |
| | `MailKept` | `MailAssumption`: the bounds are naturals |
| | `LogTrue`, `PlanHonest` | none |
| | `CallClean` | `InvocationAssumption`: scripts are texts, a buffer holds more than two fragments |
| | `BugsAnswered` | `BugAssumption`: a report has a severity of the code's, or is none |
| | the eight properties of these components of the sum: `ConvergedIsFreshAlways`, `CountedIsCurrentAlways`, `ConsensusIsEarnedAlways`, `MailIsKeptAlways`, `LogsTellTheTruthAlways`, `PlanIsHonestAlways`, `SuccessIsCleanAlways`, `BugsAreAnsweredAlways` | `ComponentsAssumption`: those of the components |
| `Host_proofs` | `CappedAsAsked` | `BudgetAssumption`: a cap is a positive number |
| | `ReapReal` | `ReaperAssumption`: an orphan is nobody's child |
| | `PinnedAudited`, `TestedUnforged`, `ScafWhole`, `AskedCorroborated`, `CockCurrent` | none |
| | `ProxySound` | `ProxyAssumption`: finitely many connections, a permit or more |
| | `HooksInstalled` | `HooksAssumption`: being a part of is reflexive and transitive |
| | `BringGreen` | `BringUpAssumption`: a corpus without doubles, positive limits |
| | `LeaseSafe` | `LeaseAssumption`: the mark for "nobody" is no process |
| | the ten properties of these components of the sum: `BudgetIsAskedAlways`, `PeerStatusIsRealAlways`, `ExecutedIsAuditedAlways`, `ProxyIsSoundAlways`, `ConvergedIsUnforgedAlways`, `ScaffoldIsWholeAlways`, `ConfirmedIsCorroboratedAlways`, `BroughtUpIsGreenAlways`, `CockpitIsCurrentAlways`, `LeasesAreSafeAlways` | `ComponentsAssumption` |

Every safety property that a passing run checks is stated by one of these theorems.  In
`Tick_proofs` and `Host_proofs` there are two of each: one about the component and its steps,
for all values of its own constants, and one about the sum, `Spec` of `Components`.  The
second follows from the first, because the subject stays what it is (`SubjectStays`) and a step
of the sum is one of the subject (`StepsOfSubject`); no invariant of a component is looked
at again.  TLC checked the properties on these runs, and the inductive invariants of the first
six modules, before they were proved.

**PeerRotation.**  The type invariant is inductive once the loaded state is known to have
the state type.  The others need three strengthenings:

* a **ledger** (`Ledger`) that relates the runs launched to the iterations charged in
  memory and on disk, and says for every place in the tick whether the run in flight is
  charged already: `LaunchesWithinBudget` alone says nothing of a process that restarts
  from an older file;
* **who is decided**: between the launch and `advance()` the answer of `current()`
  depends only on state no step in between touches, and after `MaybeHalt` a loop
  that goes on has a peer that is not benched;
* **how far the turn is** (`Patient`): a peer that may run is at most `Rank` ticks away,
  which every tick of another peer lowers, because it moves the position on or uses up a
  retry; no mark of the bench is newer than the peer's last turn; and both hold of the
  file as well as of memory, for any process may go on from the file.

**RunLock.**  `ExclusiveUnlessOrphaned` is not inductive: `SameFile` says that, as long as
nothing was orphaned, every process that has a file open has the one the name refers to,
so two owners would own one file.

**Convergence.**  The counters are compared with histories the program does not keep
(`cleanRun`, `goodRun`, `greenAt`, `sinceAudit`).  The invariant follows each through the
two saves of a tick: outside a tick the file is the memory (`Saved`); the clean count is
never ahead of the clean streak, in memory or on disk, once the tick in flight is counted
(`CountIsClean`); a stuck counter is ahead of the red ticks by no more than the starts and
pauses (`RedIsCounted`); the prelude recorded tells on which side of the checkpoint the
project is (`PauseIsRecorded`); the two phases keep step with the flawless ticks
(`Flawless`, `Prompt`).  The attempt showed that the bound first stated for
`ConvergesPromptly` was wrong where a limit is 0 (a limit of 0 still takes a tick) and for
implement mode without gates, which never reaches phase B; the run's instance has neither.

**Fleet.**  `startable_runs` is proved about once (`PlanSound`: what is assigned is ready, of
distinct runs, in distinct free slots, within the ceiling) by following `plan` from one run
to the next.  The rest says what the conductor still has in hand is as the schedule saw it,
although each start is several steps: what is due is unstarted, on its dependencies'
commits, in slots nobody has (`DueIsNew`, `Intended`), and paid for (`DueIsPaid`); a run
in a slot was started there on the ledger (`InSlots`), so no tick halts over the conductor's own
doing; a slot reported done has no live process and an ended run (`ReportedEnded`), so a
late report revives nothing; edges are complete for whatever was started (`EdgesHeld`), and
the set a cascade has still to visit is closed under them (`Cascaded`, `CascadeClosed`).

**Landing.**  Commits form a tree in which a parent is smaller (`Tree`), so histories of old
commits never change when one is born (`AncestorsGrow`).  A run's own commits are nobody
else's (`OwnApart`) and its rows and landing calls name only those (`OwnNamed`); what a
landing call has established when it gets to a step still holds there, though others move the
target in between (`Called`); while the target is between a fork point and a tip, its
governance rules are those of the fork (`Governed`).  `DryRunsStop` is about all windows of
a ledger and follows from the last streak (`Paced`).  The refinement is proved step by step:
every step of a run, a call or a person is a step of `VerifiedTarget` or leaves its variables
alone.

**ProjectRegistry.**  The start lock is held by exactly the start that is inside it (`Held`);
until a loop is lost in one of the three named ways, a live one is the one the record names or
was just spawned by the start that is about to record it (`Named`); a remembered pid with a start time
can only be a process of this project, because a pid that was given away has a newer one
(`Told`).

**Tick_proofs.**  Most of what these theorems say rests on what is in flight:

* *gates*: a memoized pass under the key of now is a pass now, since every tick makes a new
  key (`CacheSound`); whatever the worker has is of the goals in force, and of HEAD's tree
  if it is of HEAD's commit (`QueueSound`); so what is merged at the top of a tick is current;
* *mail*: a file has one number, in the inbox or the archive and never in both, and what the
  bookmark has passed was told or is in the prompt that is being built (`MailInv`);
* *records*: commits after the recorded head are of the peer that runs, none has a note yet,
  and a copy under way is of the oldest log (`LogInv`);
* *reviews*: a counter is not a number of passes but the statement that it is n or more
  exactly when the last n reviews are passes of no peer twice in a row; the history is the end
  of all reviews (`SoftInv`);
* *plan*: each commit passed the hook on the history before it, which no later commit
  changes (`Hooked`, `ChangerStays`); an acknowledgement writes only marks whose entry is there;
* *call*: an untruncated buffer is a beginning of what the child wrote (`BufferHolds`), and once
  the readers are told to stop without a verdict, the child is gone and everything is read but
  by a reader its tee holds up (`ReadersAreDone`, and the claim `RescanSeesAll`);
* *bug ledger*: `Known` says what the scan knows at each commit of the commits from there on:
  the newest report, the highest severity, and the newest word if no report is newer.

**Host_proofs.**  The budget: what was asked is in the sidecar, and a reset keeps the driver
out until it launches one (`BudgetInv`).  The proxy: permits and open connections add up
(`PermitsCounted`), and only the holder of the refresh lock may be ahead of the file
(`OneRefreshes`).  Contracts: what a gate has verified is in the log, which only grows
(`ContractsInv`).  Test gates: a run converges on files that match the digests it has, and
nobody edits after that (`TestsInv`).  Scaffold: each stage of a command says which parts of
the project it has written already, and of which plan (`ScaffoldInv`); hooks: what a command
will write has the operator's entries as they were (`CommandsKeep`), and a command that ran
alone finds its own temporary file (`AloneIsAlone`).  Research: from the top of a round to its
end every claim is of this round and this start (`OfThisRound`).  Bring-up: a row of a fix
names a commit on which the case passes, and commits never change (`RowsFixed`).  Leases: who
holds the prune lock does so from its sweep until its worktree is guarded, so a sweep finds
every worktree in use guarded (`Owned`); a branch is made only once, which keeps two leases of
one mode_run apart though the lock file may be removed under one of them (`Branched`,
`OneLeasePerRun`); and until that happens, the only worktree of a mode_run is its lease's, or a
leftover that the lease's own sweep came too early for (`OwnTree`, `BranchGone`).

The definitions were written so that they can be reasoned about: a history is a least
closed set instead of a recursion over commits, a sum of budgets is a cardinality, the loop
over the runs is a function on naturals.  What follows by induction over naturals is proved
from a least counterexample (`LeastNatural`, `PlanUnfolds`, `AncestorsOrdered`, `ScanIsDefined`), because a
rule of induction that takes an operator cannot be instantiated.

**Only model-checked:** the liveness properties, `LoopTerminates`, `FleetEnds` and
`EverythingEnds`: they need the fairness of the code's scheduling, and fairness and ENABLED are out
of the prover's reach.  The theorems about components whose `Spec` states fairness (`PeerInvocation`,
`Reaper`, `BringUp`, `Cockpit`, `AuthProxy`) are of their `Init` and `Next` without it.

## 6. Not modelled

* Prompts, recon, code maps, dashboards, reports, billing, the parsing of goals,
  manifests, peer specs and modes: no state the program decides on.
* Token and dollar budgets are one nondeterministic exit; the wall clock is `RunBudget`.
* The file-system checks of `safe_io` (no symlinks, own files) are taken as given.
* The liveness probes behind the hang timeout (session log, API socket) are one
  Boolean silence; the length of a backoff is not followed.
* What a gate script looks for in a text, and what an agent writes, are inputs.
* The baseline builder, `direction.py`, the source cache, `justifications`, `doctor`,
  `replay` and `compare` write once or only read.
* Assumed: one research process at a time in a repository, and in `TickLog` that a peer
  dies with its driver.

`PROJECT.json` says so component by component.
