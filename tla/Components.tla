----------------------------- MODULE Components -----------------------------
(***************************************************************************)
(* The components that share no state, one at a time: a behaviour is one   *)
(* of one of them, the subject, for any values of its parameters.  What    *)
(* has to hold of a component is said of the behaviours it is the subject  *)
(* of.                                                                     *)
(***************************************************************************)
EXTENDS Integers, Sequences

CONSTANTS
  Subjects,                                                     \* the components of an instance, by name
  Gates, Expensive, Cacheable, GoalSet, Pipelining,             \* GatePipeline
  Reviewers, Modes, ConsensusNeeded, QuorumNum, QuorumDen, HistoryCap,
  MaxReviews,                                                   \* SoftReviews
  Peers, Topics, MaxCommits, MaxFiles,                          \* PeerMail
  LogStreams, Threshold, MaxTicks,                              \* TickLog
  Tests, MaxEdits,                                              \* TestGates
  Steps, PlanFiles, Touches, Signed, Operators, MaxPlanCommits, MaxAcks,  \* PlanWork
  Commands, MaxAmends,                                          \* FrozenContracts
  BugCommits, MaxBugCommits,                                    \* BugHunt
  Urls, Narratives, Honest, MaxQuestions, K, MaxRounds, DryN, MaxStarts,
  MaxKills,                                                     \* ResearchRun
  Caps, DefaultCap, MaxBudgetCommands, NoCap,                   \* RunBudget
  Plans, MaxCommands, MaxScaffoldCommits,                       \* Scaffold
  Proc, Run, NoProcess, MaxLeases, MaxLockFiles, MaxCrashes,    \* WorktreeLease
  Runs, MaxChildren, MaxMessages,                               \* Cockpit
  Projects, Within,                                             \* HostHooks
  Scripts, BufCap,                                              \* PeerInvocation
  Orphans,                                                      \* Reaper
  Order, Truth, Budget,                                         \* BringUp
  Conns, MaxConcurrent, MaxPairs                                \* AuthProxy

VARIABLES
  subject,    \* the component this behaviour is of
  x1, x2, x3, x4, x5, x6, x7, x8, x9, x10, x11, x12, x13, x14, x15, x16, x17,
  x18, x19

vars == <<subject, x1, x2, x3, x4, x5, x6, x7, x8, x9, x10, x11, x12, x13,
          x14, x15, x16, x17, x18, x19>>

(* A component with n variables keeps them in the first n slots.  A name that
   several components have is the same slot in each.                         *)
head == x1
mode == x1
log == x1
run == x1
driver == x1
tees == x1
script == x1
life == x1
work == x1
conn == x1
last == x2
seen == x2
started == x2
tests == x2
plan == x2
topic == x2
target == x2
file == x2
child == x2
live == x3
count == x3
cut == x3
commits == x3
marker == x3
hist == x3
acc == x3
disk == x3
cmd == x3
running == x3
ended == x3
slots == x3
pc == x4
perPeer == x4
phase == x4
authors == x4
blocks == x4
sha == x4
commands == x4
active == x4
rc == x4
loop == x4
busy == x4
pipelined == x5
history == x5
files == x5
rows == x5
reviews == x5
op == x5
writer == x5
starts == x5
fresh == x5
reading == x5
tmp == x5
mutex == x5
ticks == x6
all == x6
saved == x6
passing == x6
acks == x6
gate == x6
todo == x6
tag == x6
posted == x6
said == x6
holder == x6
dirty == x6
flock == x6
tree == x7
turn == x7
peer == x7
skips == x7
kills == x7
config == x7
dot == x7
alone == x7
wrote == x7
green == x7
newest == x7
goals == x8
book == x8
halting == x8
scripts == x8
enabled == x8
sidecar == x8
ignored == x8
leases == x8
data == x8
had == x8
taken == x8
excluded == x8
lost == x8
yaml == x9
seeds == x9
iteration == x9
anchor == x9
web == x9
mem == x9
record == x9
prune == x9
shown == x9
buf == x9
stuck == x9
paired == x10
told == x10
plain == x10
edits == x10
blocked == x10
start == x10
drivers == x10
listed == x10
stream == x10
reader == x10
attempts == x10
committed == x11
inbox == x11
zipped == x11
rounds == x11
resume == x11
runOf == x11
eof == x11
stop == x11
converged == x11
cache == x12
archive == x12
written == x12
ran == x12
asked == x12
guard == x12
kids == x12
quiet == x12
facts == x12
results == x13
claims == x13
extended == x13
branches == x13
old == x13
queue == x14
confirmed == x14
reason == x14
victim == x14
mon == x14
worker == x15
report == x15
fd == x15
sawExit == x15
ledger == x16
owner == x16
class == x16
records == x17
halted == x17
crashes == x18
orphaned == x19

Pipeline == INSTANCE GatePipeline
Soft == INSTANCE SoftReviews WITH Peers <- Reviewers
Mail == INSTANCE PeerMail
Log == INSTANCE TickLog WITH Streams <- LogStreams
Tested == INSTANCE TestGates
Plan == INSTANCE PlanWork WITH Files <- PlanFiles, MaxCommits <- MaxPlanCommits
Pinned == INSTANCE FrozenContracts
Bugs == INSTANCE BugHunt WITH Commits <- BugCommits, MaxCommits <- MaxBugCommits
Asked == INSTANCE ResearchRun
Capped == INSTANCE RunBudget WITH None <- NoCap, MaxCommands <- MaxBudgetCommands
Scaf == INSTANCE Scaffold WITH MaxCommits <- MaxScaffoldCommits
Lease == INSTANCE WorktreeLease WITH Nobody <- NoProcess, MaxFiles <- MaxLockFiles
Cock == INSTANCE Cockpit
Hooks == INSTANCE HostHooks
Call == INSTANCE PeerInvocation
Reap == INSTANCE Reaper
Bring == INSTANCE BringUp
Proxy == INSTANCE AuthProxy

ASSUME ComponentsAssumption ==
  /\ Pipeline!PipelineAssumption /\ Soft!SoftAssumption /\ Mail!MailAssumption
  /\ Plan!PlanAssumption /\ Pinned!ContractsAssumption /\ Bugs!BugAssumption
  /\ Capped!BudgetAssumption /\ Lease!LeaseAssumption /\ Hooks!HooksAssumption
  /\ Call!InvocationAssumption /\ Reap!ReaperAssumption
  /\ Bring!BringUpAssumption /\ Proxy!ProxyAssumption

(* The slots from the k-th on are of no use to a component with fewer variables. *)
From18 == x18 = 0 /\ x19 = 0
Rest18 == <<x18, x19>>
From17 == x17 = 0 /\ From18
Rest17 == <<x17, x18, x19>>
From16 == x16 = 0 /\ From17
Rest16 == <<x16, x17, x18, x19>>
From15 == x15 = 0 /\ From16
Rest15 == <<x15, x16, x17, x18, x19>>
From13 == x13 = 0 /\ x14 = 0 /\ From15
Rest13 == <<x13, x14, x15, x16, x17, x18, x19>>
From11 == x11 = 0 /\ x12 = 0 /\ From13
Rest11 == <<x11, x12, x13, x14, x15, x16, x17, x18, x19>>
From9 == x9 = 0 /\ x10 = 0 /\ From11
Rest9 == <<x9, x10, x11, x12, x13, x14, x15, x16, x17, x18, x19>>
From7 == x7 = 0 /\ x8 = 0 /\ From9
Rest7 == <<x7, x8, x9, x10, x11, x12, x13, x14, x15, x16, x17, x18, x19>>
From5 == x5 = 0 /\ x6 = 0 /\ From7
Rest5 == <<x5, x6, x7, x8, x9, x10, x11, x12, x13, x14, x15, x16, x17, x18, x19>>
From2 == x2 = 0 /\ x3 = 0 /\ x4 = 0 /\ From5
Rest2 == <<x2, x3, x4, x5, x6, x7, x8, x9, x10, x11, x12, x13, x14, x15, x16, x17,
            x18, x19>>

Init ==
  /\ subject \in Subjects
  /\ \/ subject = "GatePipeline" /\ Pipeline!Init /\ From16
     \/ subject = "SoftReviews" /\ Soft!Init /\ From7
     \/ subject = "PeerMail" /\ Mail!Init /\ From13
     \/ subject = "TickLog" /\ Log!Init /\ From13
     \/ subject = "TestGates" /\ Tested!Init /\ From11
     \/ subject = "PlanWork" /\ Plan!Init /\ From7
     \/ subject = "FrozenContracts" /\ Pinned!Init /\ From7
     \/ subject = "BugHunt" /\ Bugs!Init /\ From2
     \/ subject = "ResearchRun" /\ Asked!Init /\ From17
     \/ subject = "RunBudget" /\ Capped!Init /\ From15
     \/ subject = "Scaffold" /\ Scaf!Init /\ From11
     \/ subject = "WorktreeLease" /\ Lease!Init
     \/ subject = "Cockpit" /\ Cock!Init /\ From13
     \/ subject = "HostHooks" /\ Hooks!Init /\ From9
     \/ subject = "PeerInvocation" /\ Call!Init /\ From18
     \/ subject = "Reaper" /\ Reap!Init /\ From5
     \/ subject = "BringUp" /\ Bring!Init /\ From13
     \/ subject = "AuthProxy" /\ Proxy!Init /\ From9

(* A step of each component, and that nothing else changes. *)
InPipeline(A) == subject = "GatePipeline" /\ A /\ UNCHANGED <<subject, Rest16>>
InSoft(A) == subject = "SoftReviews" /\ A /\ UNCHANGED <<subject, Rest7>>
InMail(A) == subject = "PeerMail" /\ A /\ UNCHANGED <<subject, Rest13>>
InLog(A) == subject = "TickLog" /\ A /\ UNCHANGED <<subject, Rest13>>
InTested(A) == subject = "TestGates" /\ A /\ UNCHANGED <<subject, Rest11>>
InPlan(A) == subject = "PlanWork" /\ A /\ UNCHANGED <<subject, Rest7>>
InPinned(A) == subject = "FrozenContracts" /\ A /\ UNCHANGED <<subject, Rest7>>
InBugs(A) == subject = "BugHunt" /\ A /\ UNCHANGED <<subject, Rest2>>
InAsked(A) == subject = "ResearchRun" /\ A /\ UNCHANGED <<subject, Rest17>>
InCapped(A) == subject = "RunBudget" /\ A /\ UNCHANGED <<subject, Rest15>>
InScaf(A) == subject = "Scaffold" /\ A /\ UNCHANGED <<subject, Rest11>>
InLease(A) == subject = "WorktreeLease" /\ A /\ UNCHANGED <<subject>>
InCock(A) == subject = "Cockpit" /\ A /\ UNCHANGED <<subject, Rest13>>
InHooks(A) == subject = "HostHooks" /\ A /\ UNCHANGED <<subject, Rest9>>
InCall(A) == subject = "PeerInvocation" /\ A /\ UNCHANGED <<subject, Rest18>>
InReap(A) == subject = "Reaper" /\ A /\ UNCHANGED <<subject, Rest5>>
InBring(A) == subject = "BringUp" /\ A /\ UNCHANGED <<subject, Rest13>>
InProxy(A) == subject = "AuthProxy" /\ A /\ UNCHANGED <<subject, Rest9>>

Next ==
  \/ InPipeline(Pipeline!Next) \/ InSoft(Soft!Next) \/ InMail(Mail!Next) \/ InLog(Log!Next)
  \/ InTested(Tested!Next) \/ InPlan(Plan!Next) \/ InPinned(Pinned!Next) \/ InBugs(Bugs!Next)
  \/ InAsked(Asked!Next) \/ InCapped(Capped!Next) \/ InScaf(Scaf!Next) \/ InLease(Lease!Next)
  \/ InCock(Cock!Next) \/ InHooks(Hooks!Next) \/ InCall(Call!Next) \/ InReap(Reap!Next)
  \/ InBring(Bring!Next) \/ InProxy(Proxy!Next)

Spec == Init /\ [][Next]_vars

-----------------------------------------------------------------------------
\* "convergence/complete is never declared on a stale verdict": every gate of the
\* goals in force is green on the working tree at that moment
\* (_converged_after_fresh_recheck); and with pipeline_gates off it is not
\* withheld on one either (_evaluate_gates_for_tick).
ConvergedIsFresh ==
  subject = "GatePipeline" => Pipeline!ConvergedIsFresh

\* The verdicts a tick is planned on, and the counters are fed with, cover the
\* goals in force and judge the working tree or HEAD, never an older commit or
\* an older goal set (_evaluate_gates_for_tick, invalidate_in_flight).
\* A commit is not judged twice at a time.
CountedIsCurrent ==
  subject = "GatePipeline" => Pipeline!CountedIsCurrent

\* The counters of a soft goal say consensus exactly when the reviews do: a peer
\* that passes its own work twice is one vote, one failure undoes the passes
\* before it, and a trimmed history loses nothing the quorum looks at
\* (driver_soft_reviews.py:355, 191).
ConsensusIsEarned == subject = "SoftReviews" => Soft!ConsensusIsEarned

\* What a peer wrote to another is never overwritten, and what the bookmark says
\* was told has been in a prompt, whatever is killed in between: in that of a peer
\* that was started, but for starts that fail and stops before them
\* (comm_layer.py:376, driver_tick_hooks.py:504, health_guard.py:857).
MailIsKept ==
  subject = "PeerMail" => Mail!MailIsKept

\* The record of a tick is true: a rotation that is cut off loses no log, and a
\* commit's note names its writer or nobody, whatever ticks are cut off and
\* whatever the operator commits in between (driver_observability.py:250,
\* attest.py:72).
LogsTellTheTruth ==
  subject = "TickLog" => Log!LogsTellTheTruth

\* A run that the test gates let converge lost no test of the baseline it
\* anchored, and every skip or marker in it is older than the run or was signed by
\* another peer, but for skips when no skip baseline was anchored at the start,
\* however the peers have written the baselines and the gates' scripts
\* (no_regression.py:2, no_skipped_tests.py:271, regression_baseline.py:84).
ConvergedIsUnforged ==
  subject = "TestGates" => Tested!ConvergedIsUnforged

\* The plan says what happened: a history whose every commit passed the reviewer
\* hook passes the reviewer gate too, and no step is acknowledged without its
\* entry in blocks.log (checkoff_by_other_peer.py:150, peers_ctl/cli.py:1060).
PlanIsHonest ==
  subject = "PlanWork" => Plan!PlanIsHonest

\* What a gate verified and then executed has its entry in the audit log,
\* however the amends before were cut (contracts.py:302).
ExecutedIsAudited == subject = "FrozenContracts" => Pinned!ExecutedIsAudited

\* A bug some peer reported as blocking keeps the gate red until the last word on
\* it, said since its last report, is that it is fixed or put off; and a fix is
\* let through only with a test that came first or an explanation that came
\* after (bug_hunt.py:414, 502, 776).
BugsAreAnswered ==
  subject = "BugHunt" => Bugs!BugsAreAnswered

\* Confirmed work rests on evidence of its own round only, found in two
\* independent origins, whatever earlier rounds, failed fetches and killed runs
\* left behind (research/frontend.py:184, 219).
ConfirmedIsCorroborated == subject = "ResearchRun" => Asked!ConfirmedIsCorroborated

\* The cap a start asked for wins over config.yaml in every later run, until
\* another start changes it or --reset-budget takes it back, and a run that
\* starts with a fresh budget is never stopped for what earlier runs spent
\* (docs/SECURITY.md:228, runner.py:1566).
BudgetIsAsked == subject = "RunBudget" => Capped!BudgetIsAsked

\* A command that says it is done left a project of one piece, whatever was left
\* of the commands before it: goals and their pinned hash, the contracts of this
\* plan and of no earlier one, a record (peers/cli.py:486, peers_ctl/cli.py:822);
\* and what it put into the files all projects share is there, beside all the
\* operator has in them (peers/cli.py:75, 164).
ScaffoldIsWhole ==
  /\ subject = "Scaffold" => Scaf!ScaffoldIsWhole
  /\ subject = "HostHooks" => Hooks!HooksAreInstalled

\* "no prune runs while another lease is mid-setup": from `worktree add` to the
\* teardown a lease's worktree and branch are there, whatever sweeps run and
\* whichever leases are killed; two leases of one mode_run are never in use
\* together; and unless an acquire lock was removed under a process that had it
\* open, a live one keeps its record, and one that ends by itself leaves no branch
\* that refuses the next (spine/worktree.py:406, 467, 481, 575).
LeasesAreSafe ==
  [][subject = "WorktreeLease" => Lease!LeasesAreSafe]_vars

\* What is painted was read from the run that is selected, though the selection
\* may have moved meanwhile, and at most one child streams and the cockpit holds
\* it (tui/app.py:466, 803).
CockpitIsCurrent ==
  [][subject = "Cockpit" => Cock!CockpitIsCurrent]_vars

\* health_guard.py:1133 (BUG-007): whatever the threads' timing and the chunks,
\* a call is a success, or rate-limited, only if no actionable error is in what
\* the child wrote, but for what truncation dropped and what a reader that its
\* tee held up left in the pipe.
SuccessIsClean == subject = "PeerInvocation" => Call!SuccessIsClean

\* health_guard.py:716: the sweep inside the poll loop never takes the status
\* of the peer, whose Popen would then report 0 and mask a failure.
PeerStatusIsReal == subject = "Reaper" => Reap!PeerStatusIsReal

\* A confirmed fix is a commit of its own on which the case passes, and is
\* never of a case whose ground truth is missing, whatever its crashes were
\* taken for; a loop that converged without a stuck case left no failing case in
\* the checkout, but for those without ground truth (modes/bring_up/frontend.py:152,
\* modes/bring_up/fixer.py:11, modes/bring_up/loop.py:89).
BroughtUpIsGreen ==
  subject = "BringUp" => Bring!BroughtUpIsGreen

\* Every permit of the accept loop is held by a connection that is being
\* served, or the loop wedges after MaxConcurrent threads that did not start;
\* and concurrent 401s never show the provider a pair it has rotated away,
\* unless an earlier answer of it was lost (auth_proxy/server.py:439,
\* ClaudeTokenStore.refresh).
ProxyIsSound ==
  subject = "AuthProxy" => Proxy!ProxyIsSound
=============================================================================
