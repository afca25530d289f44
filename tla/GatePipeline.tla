----------------------------- MODULE GatePipeline -----------------------------
(***************************************************************************)
(* How hard-gate verdicts reach the tick: GoalEngine's evaluation, memo    *)
(* and last results (peers.goal_engine), the overlapped evaluation of      *)
(* expensive gates on the commit a tick produced (peers.async_gate_runner, *)
(* peers.driver_gate_pipeline) and the hot reload of goals.yaml            *)
(* (peers.goal_reload).                                                    *)
(*                                                                         *)
(* A goals.yaml is a version of the goal set; a tree says, per version,    *)
(* which gates are red on it.  Gates read the working tree, the overlapped *)
(* ones the tree of a commit.  Soft goals are taken to be satisfied, so    *)
(* that convergence hangs on the hard gates alone.                         *)
(***************************************************************************)
EXTENDS Integers, Sequences, FiniteSets

CONSTANTS
  Gates,      \* every hard gate of any version
  Expensive,  \* gates marked expensive
  Cacheable,  \* gates whose PASS may be memoized
  GoalSet,    \* version -> its gates; version 0 is the one started with
  Pipelining, \* values pipeline_gates may have been started with
  MaxTicks    \* bound on ticks, for finiteness

Versions == DOMAIN GoalSet

PipelineAssumption ==
  /\ Expensive \subseteq Gates /\ Cacheable \subseteq Gates
  /\ 0 \in Versions /\ \A v \in Versions : GoalSet[v] \in (SUBSET Gates) \ {{}}
  /\ Pipelining \subseteq BOOLEAN /\ MaxTicks \in Nat

VARIABLES
  pipelined,  \* pipeline_gates; never changes
  pc,         \* the driver: top, sync, decide, peer, finalize, done, halted
  goals,      \* version the driver, the engine and the runner hold
  yaml,       \* version in .peers/goals.yaml
  paired,     \* HEAD's commit edits goals.yaml together with a source file
  head,       \* HEAD, as the tick that committed it
  tree,       \* the working tree, as the tick that changed it
  committed,  \* red gates on HEAD's tree, per version
  live,       \* red gates on the working tree, per version
  last,       \* GoalEngine._last
  cache,      \* GoalEngine._cache: gate -> key of its memoized PASS
  results,    \* what the tick is planned on
  queue,      \* AsyncGateRunner._order with _futures
  worker,     \* the executor's only thread: "idle" or "busy"
  ticks

vars == <<pipelined, pc, goals, yaml, paired, head, tree, committed, live, last, cache,
          results, queue, worker, ticks>>
repo == <<pipelined, yaml, paired, head, tree, committed, live, ticks>>

NoKey == <<-1, -1>>
Unknown == [known |-> {}, red |-> {}]
RedMaps == {m \in [Versions -> SUBSET Gates] :
              \A v \in Versions : m[v] \subseteq GoalSet[v]}
------------------------------------------------------------------------------
(* GoalEngine *)

CheapIds == GoalSet[goals] \ Expensive
ExpensiveIds == GoalSet[goals] \cap Expensive

\* evaluate_hard_gates: a memoized PASS is reused on a byte-identical tree
\* under the same HEAD, everything else runs on the working tree.
Key == <<tree, head>>
RunRed(ids) == {g \in ids \cap live[goals] : g \notin Cacheable \/ cache[g] # Key}
Memoized(ids) ==
  [g \in Cacheable |-> IF g \in ids \ RunRed(ids) THEN Key ELSE cache[g]]

\* Results with the gates ids replaced by their new verdicts.
Merge(verdicts, ids, red) ==
  [known |-> verdicts.known \cup ids, red |-> (verdicts.red \ ids) \cup red]

AllGreen(verdicts) == verdicts.known # {} /\ verdicts.red = {}

Init ==
  /\ pc = "top" /\ goals = 0 /\ yaml = 0 /\ paired = FALSE
  /\ head = 0 /\ tree = 0 /\ ticks = 0
  /\ committed \in RedMaps /\ live \in RedMaps
  /\ last = Unknown /\ results = Unknown
  /\ cache = [g \in Cacheable |-> NoKey]
  /\ queue = << >> /\ worker = "idle"
  /\ pipelined \in Pipelining
------------------------------------------------------------------------------
(* The goals.yaml mutation guard *)

HaltOnMutation ==
  /\ pc = "top" /\ yaml # goals /\ ~paired
  /\ pc' = "halted"
  /\ UNCHANGED <<goals, last, cache, results, queue, worker, repo>>

\* Mutant: the evaluations in flight survive the reload.
ReloadKeepsQueue ==
  /\ pc = "top" /\ yaml # goals /\ paired
  /\ goals' = yaml /\ cache' = [g \in Cacheable |-> NoKey]
  /\ UNCHANGED <<pc, last, results, queue, worker, repo>>

\* _reload_driver_goals with invalidate_in_flight: a running evaluation is not
\* interrupted, but nobody holds its future any more.
Reload ==
  /\ pc = "top" /\ yaml # goals /\ paired
  /\ goals' = yaml
  /\ cache' = [g \in Cacheable |-> NoKey]
  /\ queue' = << >>
  /\ UNCHANGED <<pc, last, results, worker, repo>>
------------------------------------------------------------------------------
(* Evaluation before a tick *)

\* Mutant: last results are updated, never replaced.
EvaluateAllMerging ==
  LET ids == GoalSet[goals]
  IN
  /\ pc = "top" /\ ~pipelined /\ yaml = goals
  /\ last' = Merge(last, ids, RunRed(ids))
  /\ results' = Merge(Unknown, ids, RunRed(ids))
  /\ cache' = Memoized(ids)
  /\ pc' = "decide"
  /\ UNCHANGED <<goals, queue, worker, repo>>

\* pipeline_gates off: everything is evaluated, the last results are replaced.
EvaluateAll ==
  LET ids == GoalSet[goals]
  IN
  /\ pc = "top" /\ ~pipelined /\ yaml = goals
  /\ last' = Merge(Unknown, ids, RunRed(ids))
  /\ results' = last'
  /\ cache' = Memoized(ids)
  /\ pc' = "decide"
  /\ UNCHANGED <<goals, queue, worker, repo>>

Finished == {i \in DOMAIN queue : queue[i].status \in {"done", "failed"}}
Newest == CHOOSE i \in Finished : \A j \in Finished : j <= i

\* The polled verdict is trusted for the commit being judged only.
Usable ==
  /\ Finished # {}
  /\ queue[Newest].status = "done"
  /\ queue[Newest].sha = head

VerdictOf(entry) == GoalSet[entry.version] \cap Expensive

\* _evaluate_gates_for_tick: cheap gates now, expensive ones from the overlap;
\* poll_latest drops the finished evaluation and the superseded ones.
PollVerdict ==
  LET cheap == RunRed(CheapIds)
  IN
  /\ pc = "top" /\ pipelined /\ yaml = goals
  /\ last' = Merge(last, CheapIds, cheap)
  /\ cache' = Memoized(CheapIds)
  /\ queue' = IF Finished = {} THEN queue ELSE SubSeq(queue, Newest + 1, Len(queue))
  /\ \/ /\ Usable
        /\ results' =
             Merge([known |-> VerdictOf(queue[Newest]),
                    red |-> VerdictOf(queue[Newest])
                              \cap queue[Newest].red[queue[Newest].version]],
                   CheapIds, cheap)
        /\ pc' = "decide"
     \/ /\ ~Usable
        /\ results' = Merge(Unknown, CheapIds, cheap)
        /\ pc' = "sync"
  /\ UNCHANGED <<goals, worker, repo>>

\* The synchronous fallback.
EvaluateExpensive ==
  /\ pc = "sync"
  /\ last' = Merge(last, ExpensiveIds, RunRed(ExpensiveIds))
  /\ results' = Merge(results, ExpensiveIds, RunRed(ExpensiveIds))
  /\ cache' = Memoized(ExpensiveIds)
  /\ pc' = "decide"
  /\ UNCHANGED <<goals, queue, worker, repo>>
------------------------------------------------------------------------------
(* _converged_after_fresh_recheck *)

NotConverged ==
  /\ pc = "decide" /\ ~AllGreen(last)
  /\ pc' = "peer"
  /\ UNCHANGED <<goals, last, cache, results, queue, worker, repo>>

\* Mutant: green last results are enough.
ConvergeUnchecked ==
  /\ pc = "decide" /\ AllGreen(last)
  /\ pc' = "done"
  /\ UNCHANGED <<goals, last, cache, results, queue, worker, repo>>

\* Expensive gates run again on the working tree before "complete"; the tick
\* keeps the results it was planned on.
Recheck ==
  /\ pc = "decide" /\ AllGreen(last)
  /\ IF pipelined
     THEN /\ last' = Merge(last, ExpensiveIds, RunRed(ExpensiveIds))
          /\ cache' = Memoized(ExpensiveIds)
     ELSE UNCHANGED <<last, cache>>
  /\ pc' = IF AllGreen(last') THEN "done" ELSE "peer"
  /\ UNCHANGED <<goals, results, queue, worker, repo>>
------------------------------------------------------------------------------
(* The peer's run, and what its tick does with the gates *)

\* The peer may commit, change the tree and edit goals.yaml; the verdicts of
\* an untouched tree under the same HEAD stay what they were.
PeerReturns ==
  \E commits \in BOOLEAN, changes \in BOOLEAN, edited \in Versions :
  /\ pc = "peer" /\ ticks < MaxTicks
  /\ ticks' = ticks + 1
  /\ head' = IF commits THEN ticks' ELSE head
  /\ tree' = IF changes THEN ticks' ELSE tree
  /\ committed' \in IF commits THEN RedMaps ELSE {committed}
  /\ live' \in IF commits \/ changes THEN RedMaps ELSE {live}
  /\ yaml' = edited
  /\ paired' \in IF commits THEN BOOLEAN ELSE {FALSE}
  /\ pc' = "finalize"
  /\ UNCHANGED <<pipelined, goals, last, cache, results, queue, worker>>

\* Mutant: every tick submits, whether or not HEAD is already being judged.
SubmittedAgain(entries) ==
  IF pipelined /\ ExpensiveIds # {}
  THEN Append(entries, [sha |-> head, red |-> committed, status |-> "pending",
                        version |-> goals])
  ELSE entries

\* submit(): HEAD's expensive gates, unless they are queued already.
Submitted(entries) ==
  IF pipelined /\ ExpensiveIds # {} /\ \A i \in DOMAIN entries : entries[i].sha # head
  THEN Append(entries, [sha |-> head, red |-> committed, status |-> "pending",
                        version |-> goals])
  ELSE entries

\* A success re-evaluates the gates the tick was told are red; then HEAD's
\* expensive gates are submitted.
FinalizeTick ==
  /\ pc = "finalize"
  /\ \E success \in BOOLEAN :
       LET ids == IF success THEN results.red \cap GoalSet[goals] ELSE {}
       IN  /\ last' = Merge(last, ids, RunRed(ids))
           /\ cache' = Memoized(ids)
  /\ queue' = Submitted(queue)
  /\ pc' = "top"
  /\ UNCHANGED <<goals, results, worker, repo>>
------------------------------------------------------------------------------
(* The background worker *)

Pending == {i \in DOMAIN queue : queue[i].status = "pending"}
Running == {i \in DOMAIN queue : queue[i].status = "running"}

\* The executor takes the oldest submission; _run reads the goals now.
WorkerStart ==
  /\ worker = "idle" /\ Pending # {}
  /\ LET i == CHOOSE i \in Pending : \A j \in Pending : i <= j
     IN  queue' = [queue EXCEPT ![i].status = "running", ![i].version = goals]
  /\ worker' = "busy"
  /\ UNCHANGED <<pc, goals, last, cache, results, repo>>

\* The evaluation ends, or could not be run at all; nobody waits for one that
\* was invalidated while it ran.
WorkerFinish ==
  /\ worker = "busy"
  /\ \E status \in {"done", "failed"} :
       queue' = [i \in DOMAIN queue |->
                   IF i \in Running THEN [queue[i] EXCEPT !.status = status]
                   ELSE queue[i]]
  /\ worker' = "idle"
  /\ UNCHANGED <<pc, goals, last, cache, results, repo>>

Driver ==
  \/ HaltOnMutation \/ Reload \/ EvaluateAll \/ PollVerdict \/ EvaluateExpensive
  \/ NotConverged \/ Recheck \/ PeerReturns \/ FinalizeTick

Next == Driver \/ WorkerStart \/ WorkerFinish

Spec == Init /\ [][Next]_vars
------------------------------------------------------------------------------
(* Properties *)

TypeOK ==
  /\ pc \in {"top", "sync", "decide", "peer", "finalize", "done", "halted"}
  /\ {goals, yaml} \subseteq Versions /\ paired \in BOOLEAN
  /\ {head, tree, ticks} \subseteq 0..MaxTicks
  /\ {committed, live} \subseteq RedMaps
  /\ \A verdicts \in {last, results} :
       /\ verdicts.red \subseteq verdicts.known
       /\ verdicts.known \subseteq Gates
  /\ worker \in {"idle", "busy"}
  /\ \A i \in DOMAIN queue :
       queue[i].status \in {"pending", "running", "done", "failed"}
  /\ Cardinality(Running) <= IF worker = "busy" THEN 1 ELSE 0

\* "convergence/complete is never declared on a stale verdict"
\* (_converged_after_fresh_recheck): every gate of the goals in force is green
\* on the working tree at that moment.
CompleteIsFresh == pc = "done" => live[goals] = {} /\ yaml = goals

\* "identical verdicts, only timing differs" (_evaluate_gates_for_tick): a tick
\* whose gates were all found green, and are green on the working tree too, is
\* not held back by the results that all_green() reads.
GreenResultsConverge ==
  pc = "decide" /\ AllGreen(results) /\ live[goals] = {} => AllGreen(last)

\* Convergence is neither declared on a stale verdict nor, with pipeline_gates
\* off, where every evaluation is a full one, withheld on one.
ConvergedIsFresh == CompleteIsFresh /\ (pipelined \/ GreenResultsConverge)

\* The verdicts a tick is planned on, and the counters are fed with, cover the
\* goals in force and judge the working tree or HEAD, never an older commit or
\* an older goal set (_evaluate_gates_for_tick, invalidate_in_flight).
PlannedOnCurrent ==
  pc = "decide" =>
    /\ results.known = GoalSet[goals]
    /\ \A g \in results.known :
         \/ g \in results.red <=> g \in live[goals]
         \/ g \in Expensive /\ (g \in results.red <=> g \in committed[goals])

\* No commit's gates are queued or run twice at a time (submit is idempotent).
OneEvaluationPerCommit ==
  \A i, j \in DOMAIN queue : queue[i].sha = queue[j].sha => i = j

\* No verdict is counted that is not current, and none is asked for twice.
CountedIsCurrent == PlannedOnCurrent /\ OneEvaluationPerCommit
=============================================================================
