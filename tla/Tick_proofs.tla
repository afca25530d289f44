----------------------------- MODULE Tick_proofs -----------------------------
(***************************************************************************)
(* What a tick relies on and what it leaves behind, proved for all         *)
(* parameters: the verdicts it is planned on and ended on, the mail its    *)
(* peers read, its logs and notes, the soft reviews, the plan, the call of *)
(* a peer and the bug ledger.                                              *)
(*                                                                         *)
(* A theorem about each component as Components instantiates it, from an   *)
(* inductive invariant of that component alone; then the property of the   *)
(* sum, for whichever component is the subject.                            *)
(***************************************************************************)
EXTENDS Components, FiniteSets, FiniteSetTheorems, WellFoundedInduction, TLAPS

-----------------------------------------------------------------------------
(* Numbers and sequences.                                                   *)

\* A set of naturals that is not empty has a least number.
LEMMA LeastNatural ==
  ASSUME NEW T \in SUBSET Nat, T # {}
  PROVE  \E m \in T : \A k \in T : m <= k
<1> DEFINE R == StrictSubsetOrdering(Nat)
           U == {0..n : n \in T}
<1>1. U \subseteq FiniteSubsetsOf(Nat) /\ U # {}
  <2>1. ASSUME NEW n \in T
        PROVE  0..n \in FiniteSubsetsOf(Nat)
    BY <2>1, FS_Interval DEF FiniteSubsetsOf
  <2> QED
    BY <2>1
<1>2. PICK u \in U : \A v \in U : <<v, u>> \notin R
  <2> HIDE DEF R, U
  <2> QED
    BY <1>1, FS_StrictSubsetOrderingWellFounded, WFMin DEF R
<1>3. PICK m \in T : u = 0..m
  OBVIOUS
<1>4. ASSUME NEW k \in T, k < m
      PROVE  FALSE
  <2>1. 0..k \in U /\ <<0..k, 0..m>> \notin R
    BY <1>2, <1>3
  <2>2. 0..k \subseteq Nat /\ 0..m \subseteq Nat /\ 0..k \subseteq 0..m
    BY <1>4
  <2>3. m \in 0..m /\ m \notin 0..k
    BY <1>4
  <2>4. 0..k # 0..m
    BY <2>3
  <2> QED
    BY <2>1, <2>2, <2>4 DEF StrictSubsetOrdering
<1> QED
  BY <1>4

\* A set of numbers up to n that is not empty has a greatest.
LEMMA GreatestNatural ==
  ASSUME NEW n \in Nat, NEW S \in SUBSET (0..n), S # {}
  PROVE  \E m \in S : \A k \in S : k <= m
<1> DEFINE T == {i \in 0..n : n - i \in S}
<1>1. T \in SUBSET Nat /\ T # {}
  <2>1. PICK k \in S : TRUE
    OBVIOUS
  <2>2. k \in Nat /\ k <= n
    BY <2>1
  <2>3. n - k \in 0..n /\ n - (n - k) = k
    BY <2>2
  <2>4. n - k \in T
    BY <2>1, <2>3
  <2>5. T \in SUBSET Nat
    OBVIOUS
  <2> QED
    BY <2>4, <2>5
<1>2. PICK t \in T : \A u \in T : t <= u
  <2> HIDE DEF T
  <2> QED
    BY <1>1, LeastNatural
<1>3. ASSUME NEW k \in S
      PROVE  k <= n - t
  <2>1. n - k \in 0..n /\ n - (n - k) = k
    BY <1>3
  <2>2. t <= n - k
    BY <1>2, <1>3, <2>1
  <2> QED
    BY <1>3, <2>2
<1> QED
  BY <1>2, <1>3

-----------------------------------------------------------------------------
(* The gates: verdicts, the memo and the overlapped evaluations.            *)

\* HEAD and the working tree are named by the tick that made them.
Named ==
  /\ ticks \in Nat /\ head \in 0..ticks /\ tree \in 0..ticks
  /\ goals \in Pipeline!Versions /\ yaml \in Pipeline!Versions
  /\ committed \in Pipeline!RedMaps /\ live \in Pipeline!RedMaps

Results == [known : SUBSET Gates, red : SUBSET Gates]
Entries == [sha : Nat, red : Pipeline!RedMaps, version : Pipeline!Versions,
            status : {"pending", "running", "done", "failed"}]

\* A memoized PASS under the key of the tree and HEAD of now is a PASS now, and
\* no key is of a tree or a HEAD still to come.
CacheSound ==
  /\ cache \in [Cacheable -> Int \X Int]
  /\ \A g \in Cacheable : cache[g][1] <= ticks /\ cache[g][2] <= ticks
  /\ \A g \in Cacheable : cache[g] = Pipeline!Key => g \notin live[goals]

\* What is evaluated in the background is of the goals in force, of one commit
\* each, and for HEAD's commit it is HEAD's tree.
QueueSound ==
  /\ queue \in Seq(Entries)
  /\ \A i \in DOMAIN queue :
       /\ queue[i].version = goals /\ queue[i].sha <= ticks
       /\ queue[i].sha = head => queue[i].red = committed
  /\ Pipeline!OneEvaluationPerCommit

\* The last results of the gates ids are those of the working tree.
LastIsLive(ids) == ids \subseteq last.known /\ last.red \cap ids = live[goals] \cap ids

Planned ==
  /\ pc \in {"sync", "decide", "done"} => yaml = goals /\ LastIsLive(Pipeline!CheapIds)
  /\ pc = "sync" => pipelined /\ results.known = Pipeline!CheapIds
                    /\ results.red = live[goals] \cap Pipeline!CheapIds
  /\ pc \in {"decide", "done"} /\ ~pipelined =>
       last = results /\ LastIsLive(GoalSet[goals])
  /\ Pipeline!PlannedOnCurrent

GatesInv ==
  /\ Named /\ last \in Results /\ results \in Results
  /\ CacheSound /\ QueueSound /\ Planned /\ Pipeline!CompleteIsFresh

\* The head of a sequence dropped.
LEMMA TailFrom ==
  ASSUME NEW S, NEW s \in Seq(S), NEW n \in 0..Len(s)
  PROVE  LET t == SubSeq(s, n + 1, Len(s))
         IN  /\ t \in Seq(S) /\ Len(t) = Len(s) - n
             /\ \A i \in DOMAIN t : n + i \in DOMAIN s /\ t[i] = s[n + i]
<1> DEFINE t == SubSeq(s, n + 1, Len(s))
<1>1. t = [i \in 1..(Len(s) - n) |-> s[n + i]]
  <2>1. t = [i \in 1..(Len(s) - (n + 1) + 1) |-> s[n + 1 + i - 1]]
    OBVIOUS
  <2>2. Len(s) - (n + 1) + 1 = Len(s) - n
    OBVIOUS
  <2>3. \A i \in 1..(Len(s) - n) : n + 1 + i - 1 = n + i
    OBVIOUS
  <2> QED
    BY <2>1, <2>2, <2>3
<1>2. \A i \in 1..(Len(s) - n) : n + i \in 1..Len(s) /\ s[n + i] \in S
  OBVIOUS
<1>3. Len(s) - n \in Nat
  OBVIOUS
<1> QED
  BY <1>1, <1>2, <1>3

\* A gate is found red exactly when it is red: the memo answers only for a tree it
\* has judged (GoalEngine.evaluate_hard_gates).
LEMMA RunRedIsLive ==
  ASSUME CacheSound, NEW ids
  PROVE  Pipeline!RunRed(ids) = ids \cap live[goals]
BY DEF CacheSound, Pipeline!RunRed

\* Memoizing what was found green keeps the memo sound.
LEMMA MemoStaysSound ==
  ASSUME Named, CacheSound, NEW ids, cache' = Pipeline!Memoized(ids),
         UNCHANGED <<goals, live, head, tree, ticks>>
  PROVE  CacheSound'
<1>1. Pipeline!RunRed(ids) = ids \cap live[goals]
  BY RunRedIsLive
<1>2. Pipeline!Key \in Int \X Int /\ Pipeline!Key[1] <= ticks /\ Pipeline!Key[2] <= ticks
  BY DEF Named, Pipeline!Key
<1>3. \A g \in Cacheable :
        cache'[g] = IF g \in ids \ live[goals] THEN Pipeline!Key ELSE cache[g]
  BY <1>1 DEF Pipeline!Memoized
<1>4. cache' \in [Cacheable -> Int \X Int]
  BY <1>1, <1>2 DEF CacheSound, Pipeline!Memoized
<1>5. Pipeline!Key' = Pipeline!Key
  BY DEF Pipeline!Key
<1> QED
  BY <1>2, <1>3, <1>4, <1>5 DEF CacheSound

\* The verdicts of some gates, replaced by what is red on the working tree.
LEMMA MergeIsLive ==
  ASSUME Named, Pipeline!PipelineAssumption, NEW verdicts \in Results,
         NEW ids \in SUBSET GoalSet[goals]
  PROVE  LET new == Pipeline!Merge(verdicts, ids, ids \cap live[goals])
         IN  /\ new \in Results
             /\ new.known = verdicts.known \cup ids
             /\ new.red = (verdicts.red \ ids) \cup (ids \cap live[goals])
<1>1. GoalSet[goals] \subseteq Gates
  BY DEF Named, Pipeline!PipelineAssumption, Pipeline!Versions
<1> QED
  BY <1>1 DEF Pipeline!Merge, Results

\* What is left of the queue when the finished evaluation and those before it are
\* dropped (poll_latest), and when HEAD's gates are submitted.
LEMMA QueueShrinks ==
  ASSUME QueueSound, NEW n \in 0..Len(queue),
         queue' = SubSeq(queue, n + 1, Len(queue)),
         UNCHANGED <<goals, head, committed, ticks>>
  PROVE  QueueSound'
<1>1. queue' \in Seq(Entries)
      /\ \A i \in DOMAIN queue' : n + i \in DOMAIN queue /\ queue'[i] = queue[n + i]
  BY TailFrom, Zenon DEF QueueSound
<1>2. \A i, j \in DOMAIN queue' : n + i = n + j => i = j
  BY <1>1
<1>3. ASSUME NEW i \in DOMAIN queue', NEW j \in DOMAIN queue',
             queue'[i].sha = queue'[j].sha
      PROVE  i = j
  <2>1. /\ n + i \in DOMAIN queue /\ n + j \in DOMAIN queue
        /\ queue[n + i].sha = queue[n + j].sha
    BY <1>1, <1>3
  <2>2. n + i = n + j
    BY <2>1, Zenon DEF QueueSound, Pipeline!OneEvaluationPerCommit
  <2> QED
    BY <1>2, <2>2
<1> QED
  <2>1. Entries' = Entries
    BY DEF Entries
  <2> QED
    BY <1>1, <1>3, <2>1 DEF QueueSound, Pipeline!OneEvaluationPerCommit

\* A job that is submitted judges the commit and the goals of its moment, and no
\* other one judges that commit.
LEMMA QueueGrows ==
  ASSUME Named, QueueSound, queue' = Pipeline!Submitted(queue),
         UNCHANGED <<goals, head, committed, ticks>>
  PROVE  QueueSound'
<1> DEFINE new == [sha |-> head, red |-> committed, status |-> "pending", version |-> goals]
<1>1. CASE queue' = queue
  BY <1>1 DEF QueueSound, Pipeline!OneEvaluationPerCommit
<1>2. CASE /\ queue' = Append(queue, new)
           /\ \A i \in DOMAIN queue : queue[i].sha # head
  <2>1. new \in Entries
    BY DEF Named, Entries
  <2>2. queue \in Seq(Entries)
    BY DEF QueueSound
  <2>3. queue' \in Seq(Entries) /\ DOMAIN queue' = 1..(Len(queue) + 1)
    BY <1>2, <2>1, <2>2
  <2>4. \A i \in DOMAIN queue' :
          IF i = Len(queue) + 1 THEN queue'[i] = new
          ELSE i \in DOMAIN queue /\ queue'[i] = queue[i]
    BY <1>2, <2>1, <2>2
  <2>5. new.sha = head /\ new.red = committed /\ new.version = goals /\ head <= ticks
    BY DEF Named
  <2>6. \A i \in DOMAIN queue' :
          /\ queue'[i].version = goals /\ queue'[i].sha <= ticks
          /\ queue'[i].sha = head => queue'[i].red = committed
    <3> HIDE DEF new
    <3> QED
      BY <2>4, <2>5 DEF QueueSound
  <2>7. \A i, j \in DOMAIN queue' : queue'[i].sha = queue'[j].sha => i = j
    <3> HIDE DEF new
    <3> QED
      BY <1>2, <2>4, <2>5 DEF QueueSound, Pipeline!OneEvaluationPerCommit
  <2> QED
    BY <2>3, <2>6, <2>7 DEF QueueSound, Pipeline!OneEvaluationPerCommit
<1> QED
  BY <1>1, <1>2 DEF Pipeline!Submitted

\* The worker changes what an entry says of the evaluation, nothing else.
LEMMA QueueWorks ==
  ASSUME QueueSound, queue' \in Seq(Entries), Len(queue') = Len(queue),
         \A i \in DOMAIN queue :
           /\ queue'[i].version = goals /\ queue'[i].sha = queue[i].sha
           /\ queue'[i].red = queue[i].red,
         UNCHANGED <<goals, head, committed, ticks>>
  PROVE  QueueSound'
<1>1. DOMAIN queue' = DOMAIN queue
  BY DEF QueueSound
<1>2. Entries' = Entries
  BY DEF Entries
<1> QED
  BY <1>1, <1>2 DEF QueueSound, Pipeline!OneEvaluationPerCommit

\* The newest finished evaluation is one of the queue.
LEMMA NewestFinished ==
  ASSUME QueueSound, Pipeline!Finished # {}
  PROVE  Pipeline!Newest \in DOMAIN queue
<1>1. Len(queue) \in Nat /\ DOMAIN queue = 1..Len(queue)
  BY DEF QueueSound
<1>2. Pipeline!Finished \in SUBSET (0..Len(queue))
  BY <1>1 DEF Pipeline!Finished
<1>3. \E i \in Pipeline!Finished : \A j \in Pipeline!Finished : j <= i
  BY <1>1, <1>2, GreatestNatural
<1>4. Pipeline!Newest \in Pipeline!Finished
  BY <1>3 DEF Pipeline!Newest
<1> QED
  BY <1>4 DEF Pipeline!Finished

\* At the start nothing is known and nothing is being evaluated.
LEMMA GatesStart == Pipeline!PipelineAssumption /\ Pipeline!Init => GatesInv
<1> SUFFICES ASSUME Pipeline!PipelineAssumption, Pipeline!Init
             PROVE  GatesInv
  OBVIOUS
<1> USE DEF Pipeline!Init
<1>1. Named
  BY DEF Named, Pipeline!PipelineAssumption
<1>2. last \in Results /\ results \in Results
  BY DEF Pipeline!Unknown, Results
<1>3. CacheSound
  <2>1. cache \in [Cacheable -> Int \X Int]
    BY DEF Pipeline!NoKey
  <2>2. \A g \in Cacheable : cache[g] = <<-1, -1>>
    BY DEF Pipeline!NoKey
  <2>3. Pipeline!Key = <<0, 0>>
    BY DEF Pipeline!Key
  <2> QED
    BY <2>1, <2>2, <2>3 DEF CacheSound
<1>4. QueueSound
  BY DEF QueueSound, Pipeline!OneEvaluationPerCommit
<1>5. Planned /\ Pipeline!CompleteIsFresh
  BY DEF Planned, Pipeline!PlannedOnCurrent, Pipeline!CompleteIsFresh
<1> QED
  BY <1>1, <1>2, <1>3, <1>4, <1>5 DEF GatesInv

\* A goals.yaml edited on its own stops the run; edited with the code it is
\* reloaded, and what was memoized or in flight is dropped.
LEMMA MutationKeepsGates ==
  ASSUME GatesInv, Pipeline!HaltOnMutation \/ Pipeline!Reload
  PROVE  GatesInv'
<1>1. CASE Pipeline!HaltOnMutation
  <2>1. /\ pc' = "halted"
        /\ UNCHANGED <<goals, last, cache, results, queue, worker, pipelined, yaml, paired,
                       head, tree, committed, live, ticks>>
    BY <1>1 DEF Pipeline!HaltOnMutation, Pipeline!repo
  <2> QED
    BY <2>1 DEF GatesInv, Named, CacheSound, QueueSound, Planned, Pipeline!Key,
       Pipeline!PlannedOnCurrent, Pipeline!CompleteIsFresh, Pipeline!OneEvaluationPerCommit
<1>2. CASE Pipeline!Reload
  <2>1. /\ pc = "top" /\ pc' = "top" /\ goals' = yaml /\ queue' = << >>
        /\ cache' = [g \in Cacheable |-> Pipeline!NoKey]
        /\ UNCHANGED <<last, results, pipelined, yaml, head, tree, committed, live, ticks>>
    BY <1>2 DEF Pipeline!Reload, Pipeline!repo
  <2>2. Named'
    BY <2>1 DEF GatesInv, Named
  <2>3. CacheSound'
    <3>1. cache' \in [Cacheable -> Int \X Int] /\ \A g \in Cacheable : cache'[g] = <<-1, -1>>
      BY <2>1 DEF Pipeline!NoKey
    <3>2. Pipeline!Key' = <<tree, head>> /\ tree >= 0 /\ head >= 0 /\ ticks' \in Nat
      BY <2>1 DEF Pipeline!Key, GatesInv, Named
    <3>3. \A g \in Cacheable : /\ cache'[g][1] = -1 /\ cache'[g][2] = -1
                               /\ cache'[g] # Pipeline!Key'
      BY <3>1, <3>2
    <3>4. \A g \in Cacheable : cache'[g][1] <= ticks' /\ cache'[g][2] <= ticks'
      BY <3>2, <3>3
    <3> QED
      BY <3>1, <3>3, <3>4 DEF CacheSound
  <2>4. QueueSound'
    BY <2>1 DEF QueueSound, Pipeline!OneEvaluationPerCommit
  <2>5. Planned' /\ Pipeline!CompleteIsFresh'
    BY <2>1 DEF Planned, Pipeline!PlannedOnCurrent, Pipeline!CompleteIsFresh
  <2> QED
    BY <2>1, <2>2, <2>3, <2>4, <2>5 DEF GatesInv
<1> QED
  BY <1>1, <1>2

\* pipeline_gates off: the tick is planned on the whole of the working tree.
LEMMA EvaluationKeepsGates ==
  ASSUME Pipeline!PipelineAssumption, GatesInv, Pipeline!EvaluateAll
  PROVE  GatesInv'
<1> DEFINE ids == GoalSet[goals]
<1>1. /\ pc' = "decide" /\ yaml = goals
      /\ last' = Pipeline!Merge(Pipeline!Unknown, ids, Pipeline!RunRed(ids))
      /\ results' = last' /\ cache' = Pipeline!Memoized(ids)
      /\ UNCHANGED <<goals, queue, pipelined, yaml, head, tree, committed, live, ticks>>
  BY DEF Pipeline!EvaluateAll, Pipeline!repo
<1>2. Pipeline!Unknown \in Results /\ Pipeline!Unknown.known = {} /\ Pipeline!Unknown.red = {}
  BY DEF Pipeline!Unknown, Results
<1>3. last' \in Results /\ last'.known = ids /\ last'.red = ids \cap live[goals]
  <2>1. last' = Pipeline!Merge(Pipeline!Unknown, ids, ids \cap live[goals])
    BY <1>1, RunRedIsLive DEF GatesInv
  <2>2. /\ last' \in Results /\ last'.known = Pipeline!Unknown.known \cup ids
        /\ last'.red = (Pipeline!Unknown.red \ ids) \cup (ids \cap live[goals])
    BY <1>2, <2>1, MergeIsLive, Zenon DEF GatesInv
  <2> QED
    BY <1>2, <2>2
<1>4. Named' /\ QueueSound'
  BY <1>1 DEF GatesInv, Named, QueueSound, Pipeline!OneEvaluationPerCommit
<1>5. CacheSound'
  BY <1>1, MemoStaysSound DEF GatesInv
<1>6. Planned' /\ Pipeline!CompleteIsFresh'
  BY <1>1, <1>3 DEF Planned, LastIsLive, Pipeline!PlannedOnCurrent, Pipeline!CheapIds,
     Pipeline!CompleteIsFresh
<1> QED
  BY <1>1, <1>3, <1>4, <1>5, <1>6 DEF GatesInv

\* pipeline_gates on: the cheap gates are judged on the working tree, the
\* expensive ones on HEAD if the overlap has judged HEAD, else they are still to
\* be judged (_evaluate_gates_for_tick).
LEMMA PollKeepsGates ==
  ASSUME Pipeline!PipelineAssumption, GatesInv, Pipeline!PollVerdict
  PROVE  GatesInv'
<1> DEFINE ids == Pipeline!CheapIds
           red == ids \cap live[goals]
           entry == queue[Pipeline!Newest]
           polled == [known |-> Pipeline!VerdictOf(entry),
                      red |-> Pipeline!VerdictOf(entry) \cap entry.red[entry.version]]
<1>1. /\ pc = "top" /\ pipelined /\ yaml = goals /\ ids \in SUBSET GoalSet[goals]
      /\ Pipeline!RunRed(ids) = red
      /\ last' = Pipeline!Merge(last, ids, red) /\ cache' = Pipeline!Memoized(ids)
      /\ UNCHANGED <<goals, pipelined, yaml, head, tree, committed, live, ticks>>
  BY RunRedIsLive DEF Pipeline!PollVerdict, Pipeline!repo, Pipeline!CheapIds, GatesInv
<1>2. /\ last' \in Results /\ last'.known = last.known \cup ids
      /\ last'.red = (last.red \ ids) \cup red
  BY <1>1, MergeIsLive, Zenon DEF GatesInv
<1>3. Named' /\ CacheSound'
  <2>1. Named'
    BY <1>1 DEF GatesInv, Named
  <2> QED
    BY <1>1, <2>1, MemoStaysSound DEF GatesInv
<1>4. QueueSound'
  <2>1. CASE Pipeline!Finished = {}
    <3>1. queue' = queue
      BY <2>1 DEF Pipeline!PollVerdict
    <3> QED
      BY <1>1, <3>1 DEF GatesInv, QueueSound, Pipeline!OneEvaluationPerCommit
  <2>2. CASE Pipeline!Finished # {}
    <3>1. queue' = SubSeq(queue, Pipeline!Newest + 1, Len(queue))
      BY <2>2 DEF Pipeline!PollVerdict
    <3>2. Pipeline!Newest \in 0..Len(queue)
      BY <2>2, NewestFinished DEF GatesInv, QueueSound
    <3> QED
      BY <1>1, <3>1, <3>2, QueueShrinks DEF GatesInv
  <2> QED
    BY <2>1, <2>2
<1>5. LastIsLive(ids)'
  BY <1>1, <1>2 DEF LastIsLive, Pipeline!CheapIds
<1>6. CASE Pipeline!Usable
  <2>1. pc' = "decide" /\ results' = Pipeline!Merge(polled, ids, red)
    BY <1>1, <1>6 DEF Pipeline!PollVerdict
  <2>2. /\ entry.version = goals /\ entry.sha = head /\ entry.red = committed
    BY <1>6, NewestFinished DEF Pipeline!Usable, GatesInv, QueueSound
  <2>3. /\ polled.known = Pipeline!ExpensiveIds
        /\ polled.red = Pipeline!ExpensiveIds \cap committed[goals]
    BY <2>2 DEF Pipeline!VerdictOf, Pipeline!ExpensiveIds
  <2>4. polled \in Results
    <3>1. Pipeline!ExpensiveIds \subseteq Gates
      BY DEF Pipeline!PipelineAssumption, Pipeline!ExpensiveIds
    <3> QED
      BY <2>3, <3>1 DEF Results
  <2>5. /\ results' \in Results /\ results'.known = Pipeline!ExpensiveIds \cup ids
        /\ results'.red = ((Pipeline!ExpensiveIds \cap committed[goals]) \ ids) \cup red
    <3> HIDE DEF polled
    <3>1. /\ results' \in Results /\ results'.known = polled.known \cup ids
          /\ results'.red = (polled.red \ ids) \cup red
      BY <1>1, <2>1, <2>4, MergeIsLive, Zenon DEF GatesInv
    <3> QED
      BY <2>3, <3>1
  <2>6. Pipeline!PlannedOnCurrent'
    BY <1>1, <2>5 DEF Pipeline!PlannedOnCurrent, Pipeline!ExpensiveIds, Pipeline!CheapIds
  <2>7. Planned' /\ Pipeline!CompleteIsFresh'
    BY <1>1, <1>5, <2>1, <2>6 DEF Planned, Pipeline!CompleteIsFresh
  <2> QED
    BY <1>2, <1>3, <1>4, <2>5, <2>7 DEF GatesInv
<1>7. CASE ~Pipeline!Usable
  <2>1. pc' = "sync" /\ results' = Pipeline!Merge(Pipeline!Unknown, ids, red)
    BY <1>1, <1>7 DEF Pipeline!PollVerdict
  <2>2. Pipeline!Unknown \in Results /\ Pipeline!Unknown.known = {} /\ Pipeline!Unknown.red = {}
    BY DEF Pipeline!Unknown, Results
  <2>3. results' \in Results /\ results'.known = ids /\ results'.red = red
    <3>1. /\ results' \in Results /\ results'.known = Pipeline!Unknown.known \cup ids
          /\ results'.red = (Pipeline!Unknown.red \ ids) \cup red
      BY <1>1, <2>1, <2>2, MergeIsLive, Zenon DEF GatesInv
    <3> QED
      BY <2>2, <3>1
  <2>4. Planned' /\ Pipeline!CompleteIsFresh'
    BY <1>1, <1>5, <2>1, <2>3 DEF Planned, Pipeline!PlannedOnCurrent, Pipeline!CompleteIsFresh,
       Pipeline!CheapIds
  <2> QED
    BY <1>2, <1>3, <1>4, <2>3, <2>4 DEF GatesInv
<1> QED
  BY <1>6, <1>7

\* The expensive gates of HEAD not judged yet are judged on the working tree.
LEMMA FallbackKeepsGates ==
  ASSUME Pipeline!PipelineAssumption, GatesInv, Pipeline!EvaluateExpensive
  PROVE  GatesInv'
<1> DEFINE ids == Pipeline!ExpensiveIds
           red == ids \cap live[goals]
<1>1. /\ pc = "sync" /\ pc' = "decide" /\ ids \in SUBSET GoalSet[goals]
      /\ last' = Pipeline!Merge(last, ids, red)
      /\ results' = Pipeline!Merge(results, ids, red) /\ cache' = Pipeline!Memoized(ids)
      /\ UNCHANGED <<goals, queue, pipelined, yaml, head, tree, committed, live, ticks>>
  BY RunRedIsLive DEF Pipeline!EvaluateExpensive, Pipeline!repo, Pipeline!ExpensiveIds,
       GatesInv
<1>2. /\ last' \in Results /\ last'.known = last.known \cup ids
      /\ last'.red = (last.red \ ids) \cup red
  BY <1>1, MergeIsLive, Zenon DEF GatesInv
<1>3. /\ results' \in Results /\ results'.known = results.known \cup ids
      /\ results'.red = (results.red \ ids) \cup red
  BY <1>1, MergeIsLive, Zenon DEF GatesInv
<1>4. Named' /\ QueueSound'
  BY <1>1 DEF GatesInv, Named, QueueSound, Pipeline!OneEvaluationPerCommit
<1>5. CacheSound'
  BY <1>1, MemoStaysSound DEF GatesInv
<1>6. /\ yaml = goals /\ LastIsLive(Pipeline!CheapIds)
      /\ results.known = Pipeline!CheapIds /\ results.red = live[goals] \cap Pipeline!CheapIds
  BY <1>1 DEF GatesInv, Planned
<1>7. /\ LastIsLive(Pipeline!CheapIds)' /\ LastIsLive(GoalSet[goals])'
      /\ results'.known = GoalSet[goals] /\ results'.red = GoalSet[goals] \cap live[goals]
  BY <1>1, <1>2, <1>3, <1>6 DEF LastIsLive, Pipeline!CheapIds, Pipeline!ExpensiveIds
<1>8. Pipeline!PlannedOnCurrent' /\ Pipeline!CompleteIsFresh'
  BY <1>1, <1>7 DEF Pipeline!PlannedOnCurrent, Pipeline!CompleteIsFresh
<1>9. Planned'
  <2>1. pipelined
    BY <1>1 DEF GatesInv, Planned
  <2> QED
    BY <1>1, <1>6, <1>7, <1>8, <2>1 DEF Planned
<1> QED
  BY <1>2, <1>3, <1>4, <1>5, <1>8, <1>9 DEF GatesInv

\* A tick is ended as converged only when every gate has just been found green.
LEMMA DecisionKeepsGates ==
  ASSUME Pipeline!PipelineAssumption, GatesInv, Pipeline!NotConverged \/ Pipeline!Recheck
  PROVE  GatesInv'
<1>1. CASE Pipeline!NotConverged
  <2>1. /\ pc' = "peer"
        /\ UNCHANGED <<goals, last, cache, results, queue, pipelined, yaml, head, tree,
                       committed, live, ticks>>
    BY <1>1 DEF Pipeline!NotConverged, Pipeline!repo
  <2> QED
    BY <2>1 DEF GatesInv, Named, CacheSound, QueueSound, Planned, Pipeline!Key,
       Pipeline!PlannedOnCurrent, Pipeline!CompleteIsFresh, Pipeline!OneEvaluationPerCommit
<1>2. CASE Pipeline!Recheck
  <2> DEFINE ids == Pipeline!ExpensiveIds
             red == ids \cap live[goals]
  <2>1. /\ pc = "decide" /\ ids \in SUBSET GoalSet[goals]
        /\ pc' = IF Pipeline!AllGreen(last') THEN "done" ELSE "peer"
        /\ UNCHANGED <<goals, results, queue, pipelined, yaml, head, tree, committed, live,
                       ticks>>
    BY <1>2 DEF Pipeline!Recheck, Pipeline!repo, Pipeline!ExpensiveIds
  <2>2. yaml = goals /\ LastIsLive(Pipeline!CheapIds) /\ live[goals] \subseteq GoalSet[goals]
    BY <2>1 DEF GatesInv, Named, Planned, Pipeline!RedMaps
  <2>3. Named' /\ QueueSound'
    BY <2>1 DEF GatesInv, Named, QueueSound, Pipeline!OneEvaluationPerCommit
  <2>4. /\ last' \in Results /\ CacheSound' /\ LastIsLive(GoalSet[goals])'
        /\ ~pipelined => last' = results'
    <3>1. CASE ~pipelined
      <4>1. UNCHANGED <<last, cache>> /\ last = results /\ LastIsLive(GoalSet[goals])
        BY <1>2, <2>1, <3>1 DEF Pipeline!Recheck, GatesInv, Planned
      <4> QED
        BY <2>1, <4>1 DEF GatesInv, CacheSound, Pipeline!Key, LastIsLive
    <3>2. CASE pipelined
      <4>1. last' = Pipeline!Merge(last, ids, red) /\ cache' = Pipeline!Memoized(ids)
        BY <1>2, <3>2, RunRedIsLive DEF Pipeline!Recheck, GatesInv
      <4>2. /\ last' \in Results /\ last'.known = last.known \cup ids
            /\ last'.red = (last.red \ ids) \cup red
        BY <2>1, <4>1, MergeIsLive, Zenon DEF GatesInv
      <4>3. CacheSound'
        BY <2>1, <4>1, MemoStaysSound DEF GatesInv
      <4>4. LastIsLive(GoalSet[goals])'
        BY <2>1, <2>2, <4>2 DEF LastIsLive, Pipeline!CheapIds, Pipeline!ExpensiveIds
      <4> QED
        BY <3>2, <4>2, <4>3, <4>4
    <3> QED
      BY <3>1, <3>2
  <2>5. Pipeline!CompleteIsFresh'
    BY <2>1, <2>2, <2>4 DEF Pipeline!CompleteIsFresh, Pipeline!AllGreen, LastIsLive
  <2>6. Planned' /\ results' \in Results
    BY <2>1, <2>2, <2>4 DEF Planned, Pipeline!PlannedOnCurrent, LastIsLive, Pipeline!CheapIds,
       GatesInv
  <2> QED
    BY <2>3, <2>4, <2>5, <2>6 DEF GatesInv
<1> QED
  BY <1>1, <1>2

\* What a peer commits or changes gets the name of its tick, which no memoized or
\* queued verdict has.
LEMMA PeerKeepsGates ==
  ASSUME Pipeline!PipelineAssumption, GatesInv, Pipeline!PeerReturns
  PROVE  GatesInv'
<1>1. PICK committing \in BOOLEAN, changes \in BOOLEAN, edited \in Pipeline!Versions :
        /\ ticks' = ticks + 1
        /\ head' = IF committing THEN ticks' ELSE head
        /\ tree' = IF changes THEN ticks' ELSE tree
        /\ committed' \in IF committing THEN Pipeline!RedMaps ELSE {committed}
        /\ live' \in IF committing \/ changes THEN Pipeline!RedMaps ELSE {live}
        /\ yaml' = edited /\ pc' = "finalize"
        /\ UNCHANGED <<pipelined, goals, last, cache, results, queue>>
  BY DEF Pipeline!PeerReturns
<1>2. Named'
  BY <1>1 DEF GatesInv, Named
<1>3. CacheSound'
  <2>1. ASSUME NEW g \in Cacheable, cache'[g] = Pipeline!Key'
        PROVE  g \notin live'[goals']
    <3>1. cache[g][1] = tree' /\ cache[g][2] = head'
      BY <1>1, <2>1 DEF Pipeline!Key
    <3>2. /\ cache[g] \in Int \X Int /\ ticks \in Nat
          /\ cache[g][1] <= ticks /\ cache[g][2] <= ticks
      BY <2>1 DEF GatesInv, CacheSound, Named
    <3>3. ~committing /\ ~changes
      BY <1>1, <3>1, <3>2
    <3>4. live' = live /\ Pipeline!Key' = Pipeline!Key
      BY <1>1, <3>3 DEF Pipeline!Key
    <3> QED
      BY <1>1, <2>1, <3>4 DEF GatesInv, CacheSound
  <2> QED
    BY <1>1, <2>1 DEF GatesInv, Named, CacheSound
<1>4. QueueSound'
  <2>1. ASSUME NEW i \in DOMAIN queue
        PROVE  /\ queue[i].sha <= ticks'
               /\ queue[i].sha = head' => queue[i].red = committed'
    <3>1. /\ ticks \in Nat /\ queue[i].sha \in Nat /\ queue[i].sha <= ticks
          /\ queue[i].sha = head => queue[i].red = committed
      <4>1. queue[i] \in Entries
        BY <2>1 DEF GatesInv, QueueSound
      <4>2. queue[i].sha \in Nat
        BY <4>1 DEF Entries
      <4> QED
        BY <2>1, <4>2 DEF GatesInv, QueueSound, Named
    <3>2. CASE committing
      BY <1>1, <3>1, <3>2
    <3>3. CASE ~committing
      BY <1>1, <3>1, <3>3
    <3> QED
      BY <3>2, <3>3
  <2> QED
    BY <1>1, <2>1 DEF GatesInv, QueueSound, Pipeline!OneEvaluationPerCommit
<1>5. Planned' /\ Pipeline!CompleteIsFresh'
  BY <1>1 DEF Planned, Pipeline!PlannedOnCurrent, Pipeline!CompleteIsFresh
<1> QED
  BY <1>1, <1>2, <1>3, <1>4, <1>5 DEF GatesInv

\* After the peer: the gates that were red again, and HEAD's gates submitted.
LEMMA FinalizeKeepsGates ==
  ASSUME Pipeline!PipelineAssumption, GatesInv, Pipeline!FinalizeTick
  PROVE  GatesInv'
<1>1. PICK ids \in SUBSET GoalSet[goals] :
        /\ last' = Pipeline!Merge(last, ids, Pipeline!RunRed(ids))
        /\ cache' = Pipeline!Memoized(ids)
  <2>1. PICK success \in BOOLEAN :
          LET ids == IF success THEN results.red \cap GoalSet[goals] ELSE {}
          IN  /\ last' = Pipeline!Merge(last, ids, Pipeline!RunRed(ids))
              /\ cache' = Pipeline!Memoized(ids)
    BY DEF Pipeline!FinalizeTick
  <2> DEFINE ids == IF success THEN results.red \cap GoalSet[goals] ELSE {}
  <2>2. ids \in SUBSET GoalSet[goals]
    OBVIOUS
  <2> QED
    BY <2>1, <2>2
<1>2. /\ pc' = "top" /\ queue' = Pipeline!Submitted(queue)
      /\ UNCHANGED <<goals, results, pipelined, yaml, head, tree, committed, live, ticks>>
  BY DEF Pipeline!FinalizeTick, Pipeline!repo
<1>3. last' \in Results
  <2>1. last' = Pipeline!Merge(last, ids, ids \cap live[goals])
    BY <1>1, RunRedIsLive DEF GatesInv
  <2> QED
    BY <2>1, MergeIsLive, Zenon DEF GatesInv
<1>4. Named' /\ CacheSound' /\ QueueSound'
  <2>1. Named'
    BY <1>2 DEF GatesInv, Named
  <2>2. CacheSound'
    BY <1>1, <1>2, MemoStaysSound DEF GatesInv
  <2>3. QueueSound'
    BY <1>2, QueueGrows DEF GatesInv
  <2> QED
    BY <2>1, <2>2, <2>3
<1>5. Planned' /\ Pipeline!CompleteIsFresh'
  BY <1>2 DEF Planned, Pipeline!PlannedOnCurrent, Pipeline!CompleteIsFresh
<1> QED
  BY <1>2, <1>3, <1>4, <1>5 DEF GatesInv

\* The background worker judges a commit by the goals in force, whatever they were
\* when it was submitted.
LEMMA WorkerKeepsGates ==
  ASSUME GatesInv, Pipeline!WorkerStart \/ Pipeline!WorkerFinish
  PROVE  GatesInv'
<1>1. UNCHANGED <<pc, goals, last, cache, results, pipelined, yaml, head, tree, committed,
                  live, ticks>>
  BY DEF Pipeline!WorkerStart, Pipeline!WorkerFinish, Pipeline!repo
<1>2. /\ queue \in Seq(Entries) /\ goals \in Pipeline!Versions
      /\ \A i \in DOMAIN queue : queue[i].version = goals
  BY DEF GatesInv, QueueSound, Named
<1>3. /\ queue' \in Seq(Entries) /\ Len(queue') = Len(queue)
      /\ \A i \in DOMAIN queue :
           /\ queue'[i].version = goals /\ queue'[i].sha = queue[i].sha
           /\ queue'[i].red = queue[i].red
  <2>1. CASE Pipeline!WorkerStart
    <3>1. PICK i : queue' = [queue EXCEPT ![i].status = "running", ![i].version = goals]
      BY <2>1 DEF Pipeline!WorkerStart
    <3> DEFINE new == [queue[i] EXCEPT !.status = "running", !.version = goals]
    <3>2. queue' = [j \in DOMAIN queue |-> IF j = i THEN new ELSE queue[j]]
      <4>1. queue \in [DOMAIN queue -> Entries]
        BY <1>2
      <4> QED
        BY <3>1, <4>1
    <3>3. ASSUME NEW j \in DOMAIN queue
          PROVE  /\ queue'[j] \in Entries /\ queue'[j].version = goals
                 /\ queue'[j].sha = queue[j].sha /\ queue'[j].red = queue[j].red
      <4>1. queue[j] \in Entries
        BY <1>2, <3>3
      <4>2. j = i => /\ new \in Entries /\ new.version = goals
                     /\ new.sha = queue[j].sha /\ new.red = queue[j].red
        BY <1>2, <4>1 DEF Entries
      <4> QED
        BY <1>2, <3>2, <3>3, <4>1, <4>2
    <3>4. queue' \in [1..Len(queue) -> Entries]
      <4> HIDE DEF new
      <4>1. DOMAIN queue = 1..Len(queue)
        BY <1>2
      <4> QED
        BY <3>2, <3>3, <4>1
    <3>5. queue' \in Seq(Entries) /\ Len(queue') = Len(queue)
      BY <1>2, <3>4
    <3> QED
      BY <3>3, <3>5
  <2>2. CASE Pipeline!WorkerFinish
    <3>1. PICK status \in {"done", "failed"} :
            queue' = [i \in DOMAIN queue |->
                        IF i \in Pipeline!Running THEN [queue[i] EXCEPT !.status = status]
                        ELSE queue[i]]
      BY <2>2 DEF Pipeline!WorkerFinish
    <3>2. ASSUME NEW i \in DOMAIN queue
          PROVE  /\ queue'[i] \in Entries /\ queue'[i].version = queue[i].version
                 /\ queue'[i].sha = queue[i].sha /\ queue'[i].red = queue[i].red
      <4>1. queue[i] \in Entries
        BY <1>2, <3>2
      <4>2. /\ [queue[i] EXCEPT !.status = status] \in Entries
            /\ [queue[i] EXCEPT !.status = status].version = queue[i].version
            /\ [queue[i] EXCEPT !.status = status].sha = queue[i].sha
            /\ [queue[i] EXCEPT !.status = status].red = queue[i].red
        BY <4>1 DEF Entries
      <4> QED
        BY <3>1, <3>2, <4>1, <4>2
    <3>3. DOMAIN queue = 1..Len(queue) /\ DOMAIN queue' = DOMAIN queue
      BY <1>2, <3>1
    <3>4. queue' \in Seq(Entries)
      <4>1. queue' \in [1..Len(queue) -> Entries]
        BY <3>1, <3>2, <3>3
      <4> QED
        BY <1>2, <4>1
    <3> QED
      BY <1>2, <3>2, <3>3, <3>4
  <2> QED
    BY <2>1, <2>2
<1>4. QueueSound'
  BY <1>1, <1>3, QueueWorks DEF GatesInv
<1>5. Named' /\ CacheSound'
  BY <1>1 DEF GatesInv, Named, CacheSound, Pipeline!Key
<1>6. Planned' /\ Pipeline!CompleteIsFresh'
  BY <1>1 DEF GatesInv, Planned, LastIsLive, Pipeline!CheapIds, Pipeline!PlannedOnCurrent,
     Pipeline!CompleteIsFresh
<1> QED
  BY <1>1, <1>4, <1>5, <1>6 DEF GatesInv

\* The verdicts stay sound, whatever the interleaving of the driver, its peers and
\* the background worker.
LEMMA GatesStep ==
  ASSUME Pipeline!PipelineAssumption, GatesInv, [Pipeline!Next]_Pipeline!vars
  PROVE  GatesInv'
<1>1. CASE UNCHANGED Pipeline!vars
  <2>1. UNCHANGED <<pipelined, pc, goals, yaml, head, tree, committed, live, last, cache,
                    results, queue, ticks>>
    BY <1>1 DEF Pipeline!vars
  <2>2. Named' /\ CacheSound' /\ QueueSound'
    BY <2>1 DEF GatesInv, Named, CacheSound, QueueSound, Pipeline!Key,
       Pipeline!OneEvaluationPerCommit
  <2>3. Planned' /\ Pipeline!CompleteIsFresh'
    BY <2>1 DEF GatesInv, Planned, LastIsLive, Pipeline!CheapIds, Pipeline!PlannedOnCurrent,
       Pipeline!CompleteIsFresh
  <2> QED
    BY <2>1, <2>2, <2>3 DEF GatesInv
<1>2. CASE Pipeline!Driver
  BY <1>2, MutationKeepsGates, EvaluationKeepsGates, PollKeepsGates, FallbackKeepsGates,
     DecisionKeepsGates, PeerKeepsGates, FinalizeKeepsGates DEF Pipeline!Driver
<1>3. CASE Pipeline!WorkerStart \/ Pipeline!WorkerFinish
  BY <1>3, WorkerKeepsGates
<1> QED
  BY <1>1, <1>2, <1>3 DEF Pipeline!Next

\* All of it holds of every behaviour.
LEMMA GatesAlways ==
  ASSUME Pipeline!PipelineAssumption
  PROVE  Pipeline!Spec => []GatesInv
<1>1. Pipeline!Init => GatesInv
  BY GatesStart
<1>2. GatesInv /\ [Pipeline!Next]_Pipeline!vars => GatesInv'
  BY GatesStep
<1> QED
  BY <1>1, <1>2, PTL DEF Pipeline!Spec

\* "convergence/complete is never declared on a stale verdict": when the tick ends
\* the run, every gate of the goals in force is green on the working tree; and
\* with pipeline_gates off a tree that is green is not held back either
\* (_converged_after_fresh_recheck, _evaluate_gates_for_tick).
THEOREM PipelineFresh ==
  ASSUME Pipeline!PipelineAssumption
  PROVE  Pipeline!Spec => []Pipeline!ConvergedIsFresh
<1>1. GatesInv => Pipeline!ConvergedIsFresh
  BY DEF GatesInv, Planned, Pipeline!ConvergedIsFresh, Pipeline!GreenResultsConverge
<1> QED
  BY <1>1, GatesAlways, PTL

\* The verdicts a tick is planned on cover the goals in force and judge the working
\* tree or HEAD, never an older commit or an older goal set; and no commit is
\* judged twice at a time (_evaluate_gates_for_tick, invalidate_in_flight, submit).
THEOREM PipelineCurrent ==
  ASSUME Pipeline!PipelineAssumption
  PROVE  Pipeline!Spec => []Pipeline!CountedIsCurrent
<1>1. GatesInv => Pipeline!CountedIsCurrent
  BY DEF GatesInv, Planned, QueueSound, Pipeline!CountedIsCurrent
<1> QED
  BY <1>1, GatesAlways, PTL

-----------------------------------------------------------------------------
(* The mail: what the bookmarks have passed was told, and files keep names. *)

MarkValues == Nat \cup {-1}
Letters == [n : Nat, topic : Topics, suffix : Nat, id : Nat]

\* A bookmark is within the log, and the saved one is never ahead.
MarksBehind ==
  /\ turn \in Peers /\ log \in Seq(Mail!Authors)
  /\ book \in [Peers -> MarkValues] /\ saved \in [Peers -> MarkValues]
  /\ seeds \in [Peers -> Nat]
  /\ \A p \in Peers : saved[p] <= book[p] /\ book[p] <= Len(log)

\* What the bookmark of the driver has passed was in a prompt, or is in the one
\* being built.
PassedIsTold ==
  /\ \A p \in Peers : \A i \in (seeds[p] + 1)..book[p] :
       log[i] = p => Mail!Commit(i) \in seen \cup cut \cup told
  /\ phase = "running" => told \subseteq seen
  /\ phase = "idle" => told = {}

\* The files of an inbox and of its archive.
FilesKept ==
  /\ files \in 0..MaxFiles
  /\ inbox \in [Mail!Pairs -> SUBSET Letters] /\ archive \in [Mail!Pairs -> SUBSET Letters]
  /\ \A pq \in Mail!Pairs :
       /\ \A f, g \in inbox[pq] \cup archive[pq] : f.id = g.id => f = g
       /\ \A f \in inbox[pq] \cup archive[pq] : f.id \in 1..files
       /\ \A f \in inbox[pq] : f.suffix = 0 /\ f.n <= files
       /\ inbox[pq] \cap archive[pq] = {}

MailInv ==
  /\ MarksBehind /\ PassedIsTold /\ FilesKept
  /\ Mail!BookmarkSkipsNothing /\ Mail!NothingIsClobbered

\* The least of a set of numbers, and the greatest of a bounded one.
LEMMA MinIsLeast ==
  ASSUME NEW S \in SUBSET Nat, S # {}
  PROVE  Mail!Min(S) \in S /\ \A k \in S : Mail!Min(S) <= k
BY LeastNatural DEF Mail!Min

\* What Max says of a set of numbers.
LEMMA MaxIsGreatest ==
  ASSUME NEW n \in Nat, NEW S \in SUBSET (0..n), S # {}
  PROVE  Mail!Max(S) \in S /\ \A k \in S : k <= Mail!Max(S)
BY GreatestNatural DEF Mail!Max

\* Where a sender's bookmark is moved to: to its newest commit, or to the end of
\* the log when it is set for the first time (new_commits_by).
LEMMA NewMark ==
  ASSUME MarksBehind, NEW p \in Peers
  PROVE  LET m == Mail!Marks[p]
         IN  /\ m \in MarkValues /\ book[p] <= m /\ m <= Len(log)
             /\ p # turn /\ book[p] = Mail!NoMark => m = Len(log)
             /\ p # turn /\ book[p] # Mail!NoMark =>
                  \A i \in (book[p] + 1)..m : log[i] = p => i \in Mail!By(p, book[p])
             /\ p = turn => m = book[p]
<1>1. /\ book[p] \in MarkValues /\ book[p] <= Len(log) /\ Len(log) \in Nat /\ Mail!NoMark = -1
  BY DEF MarksBehind, Mail!NoMark
<1>2. Mail!Marks[p] = IF p = turn THEN book[p]
                      ELSE IF book[p] = Mail!NoMark THEN Len(log)
                      ELSE Mail!Max({book[p]} \cup Mail!By(p, book[p]))
  BY DEF Mail!Marks
<1>3. CASE p = turn \/ book[p] = Mail!NoMark
  BY <1>1, <1>2, <1>3 DEF MarkValues
<1>4. CASE p # turn /\ book[p] # Mail!NoMark
  <2> DEFINE S == {book[p]} \cup Mail!By(p, book[p])
  <2>1. book[p] \in Nat
    BY <1>1, <1>4 DEF MarkValues
  <2>2. Mail!By(p, book[p]) = {i \in (book[p] + 1)..Len(log) : log[i] = p}
    BY <1>4 DEF Mail!By
  <2>3. S \in SUBSET (0..Len(log)) /\ S # {}
    BY <1>1, <2>1, <2>2
  <2>4. PICK m \in S : m = Mail!Max(S) /\ \A k \in S : k <= m
    BY <1>1, <2>3, MaxIsGreatest
  <2>5. Mail!Marks[p] = m
    BY <1>2, <1>4, <2>4
  <2>6. /\ Mail!Marks[p] \in Nat /\ Mail!Marks[p] <= Len(log) /\ book[p] <= Mail!Marks[p]
    <3>1. m \in 0..Len(log) /\ book[p] <= m
      BY <2>3, <2>4
    <3> QED
      BY <1>1, <2>5, <3>1
  <2>7. \A i \in (book[p] + 1)..Mail!Marks[p] : log[i] = p => i \in Mail!By(p, book[p])
    BY <1>1, <2>1, <2>2, <2>6
  <2> QED
    BY <1>4, <2>6, <2>7 DEF MarkValues
<1> QED
  BY <1>3, <1>4

\* At the start there are no bookmarks, no commits and no files.
LEMMA MailStart == Mail!MailAssumption /\ Mail!Init => MailInv
<1> SUFFICES ASSUME Mail!MailAssumption, Mail!Init
             PROVE  MailInv
  OBVIOUS
<1> USE DEF Mail!Init
<1>1. MarksBehind
  BY DEF MarksBehind, MarkValues, Mail!NoMark
<1>2. \A p \in Peers : (seeds[p] + 1)..book[p] = {} /\ (seeds[p] + 1)..saved[p] = {}
  BY DEF Mail!NoMark
<1>3. PassedIsTold /\ Mail!BookmarkSkipsNothing
  BY <1>2 DEF PassedIsTold, Mail!BookmarkSkipsNothing
<1>4. FilesKept /\ Mail!NothingIsClobbered
  BY DEF FilesKept, Mail!NothingIsClobbered, Mail!OneFilePerName, Mail!MailAssumption
<1> QED
  BY <1>1, <1>3, <1>4 DEF MailInv

\* What happens to no file.
LEMMA FilesUntouched ==
  ASSUME FilesKept, Mail!NothingIsClobbered, UNCHANGED Mail!fileVars
  PROVE  FilesKept' /\ Mail!NothingIsClobbered'
BY DEF FilesKept, Mail!NothingIsClobbered, Mail!Kept, Mail!OneFilePerName, Mail!fileVars

\* What happens to no commit and no bookmark.
LEMMA CommitsUntouched ==
  ASSUME MarksBehind, PassedIsTold, Mail!BookmarkSkipsNothing, UNCHANGED Mail!gitVars,
         turn' = turn, cut' = cut, seen \subseteq seen', told \subseteq told',
         phase' = "running" => told' \subseteq seen', phase' # "idle"
  PROVE  MarksBehind' /\ PassedIsTold' /\ Mail!BookmarkSkipsNothing'
<1>1. UNCHANGED <<log, book, saved, seeds>>
  BY DEF Mail!gitVars
<1> QED
  BY <1>1 DEF MarksBehind, PassedIsTold, Mail!BookmarkSkipsNothing

\* Building a prompt moves the bookmarks over what it tells (_read_inbox).
LEMMA ReadCommitsKeepsMail ==
  ASSUME MailInv, Mail!ReadCommits
  PROVE  MailInv'
<1>1. /\ phase' = "reading" /\ book' = Mail!Marks
      /\ seeds' = [p \in Peers |->
                     IF p # turn /\ book[p] = Mail!NoMark THEN Len(log) ELSE seeds[p]]
      /\ told' = {Mail!Commit(i) : i \in UNION {Mail!By(p, book[p]) : p \in Mail!Others}}
      /\ UNCHANGED <<turn, log, seen, cut, saved>> /\ UNCHANGED Mail!fileVars
  BY DEF Mail!ReadCommits, Mail!ReadPrompt
<1>2. /\ log \in Seq(Mail!Authors) /\ Len(log) \in Nat /\ Mail!NoMark = -1
      /\ \A p \in Peers : /\ book[p] \in MarkValues /\ saved[p] \in MarkValues
                          /\ saved[p] <= book[p] /\ seeds[p] \in Nat
                          /\ book'[p] = Mail!Marks[p]
  BY <1>1 DEF MailInv, MarksBehind, Mail!NoMark
<1>3. MarksBehind'
  <2>1. book' \in [Peers -> MarkValues] /\ seeds' \in [Peers -> Nat]
    <3>1. DOMAIN Mail!Marks = Peers /\ Mail!Marks = [p \in Peers |-> Mail!Marks[p]]
      BY DEF Mail!Marks
    <3>2. \A p \in Peers : Mail!Marks[p] \in MarkValues
      BY NewMark DEF MailInv
    <3> QED
      BY <1>1, <1>2, <3>1, <3>2
  <2>2. ASSUME NEW p \in Peers
        PROVE  saved'[p] <= book'[p] /\ book'[p] <= Len(log')
    <3>1. book'[p] \in MarkValues /\ book[p] <= book'[p] /\ book'[p] <= Len(log)
      BY <1>2, <2>2, NewMark DEF MailInv
    <3> QED
      BY <1>1, <1>2, <2>2, <3>1 DEF MarkValues
  <2> QED
    BY <1>1, <1>2, <2>1, <2>2 DEF MailInv, MarksBehind
<1>4. PassedIsTold'
  <2>1. ASSUME NEW p \in Peers, NEW i \in (seeds'[p] + 1)..book'[p], log[i] = p
        PROVE  Mail!Commit(i) \in seen \cup cut \cup told'
    <3>1. /\ book'[p] = Mail!Marks[p] /\ i \in Int /\ book'[p] \in MarkValues
      BY <1>2, <2>1, NewMark DEF MailInv, MarkValues
    <3>2. CASE p = turn
      <4>1. book'[p] = book[p] /\ seeds'[p] = seeds[p]
        BY <1>1, <1>2, <2>1, <3>2, NewMark DEF MailInv
      <4>2. told = {}
        BY DEF Mail!ReadCommits, Mail!ReadPrompt, MailInv, PassedIsTold
      <4> QED
        BY <2>1, <4>1, <4>2 DEF MailInv, PassedIsTold
    <3>3. CASE p # turn /\ book[p] = Mail!NoMark
      <4>1. seeds'[p] = Len(log) /\ book'[p] = Len(log)
        BY <1>1, <1>2, <2>1, <3>3, NewMark DEF MailInv
      <4> QED
        BY <1>2, <2>1, <4>1
    <3>4. CASE p # turn /\ book[p] # Mail!NoMark
      <4>1. seeds'[p] = seeds[p] /\ book[p] \in Nat
        BY <1>1, <1>2, <2>1, <3>4 DEF MarkValues
      <4>2. CASE i <= book[p]
        <5>1. told = {} /\ i \in (seeds[p] + 1)..book[p]
          BY <1>2, <2>1, <4>1, <4>2 DEF MailInv, PassedIsTold, Mail!ReadCommits,
               Mail!ReadPrompt
        <5> QED
          BY <2>1, <5>1 DEF MailInv, PassedIsTold
      <4>3. CASE i > book[p]
        <5>1. i \in (book[p] + 1)..Mail!Marks[p]
          BY <2>1, <3>1, <4>1, <4>3 DEF MarkValues
        <5>2. i \in Mail!By(p, book[p])
          BY <1>2, <2>1, <3>4, <5>1, NewMark DEF MailInv
        <5> QED
          BY <1>1, <3>4, <2>1, <5>2 DEF Mail!Others
      <4> QED
        BY <3>1, <4>1, <4>2, <4>3
    <3> QED
      BY <3>2, <3>3, <3>4
  <2> QED
    BY <1>1, <2>1 DEF PassedIsTold
<1>5. Mail!BookmarkSkipsNothing'
  <2>1. ASSUME NEW p \in Peers, NEW i \in (seeds'[p] + 1)..saved[p], log[i] = p
        PROVE  Mail!Commit(i) \in seen \cup cut
    <3>1. CASE p # turn /\ book[p] = Mail!NoMark
      BY <1>1, <1>2, <2>1, <3>1 DEF MarkValues
    <3>2. CASE ~(p # turn /\ book[p] = Mail!NoMark)
      <4>1. seeds'[p] = seeds[p]
        BY <1>1, <2>1, <3>2
      <4> QED
        BY <2>1, <4>1 DEF MailInv, Mail!BookmarkSkipsNothing
    <3> QED
      BY <3>1, <3>2
  <2> QED
    BY <1>1, <2>1 DEF Mail!BookmarkSkipsNothing
<1> QED
  BY <1>1, <1>3, <1>4, <1>5, FilesUntouched DEF MailInv

\* The archive has room for one more of every name: a suffix is taken by a file,
\* and there are more suffixes than files.
LEMMA FreeSuffix ==
  ASSUME Mail!MailAssumption, FilesKept, NEW pq \in Mail!Pairs, NEW f \in Letters
  PROVE  Mail!Suffixes \ Mail!TakenAs(archive[pq], f) # {}
<1> SUFFICES ASSUME Mail!Suffixes \subseteq Mail!TakenAs(archive[pq], f)
             PROVE  FALSE
  OBVIOUS
<1> DEFINE keeper(k) == CHOOSE g \in archive[pq] : g.suffix = k
           ids == [k \in 0..MaxFiles |-> keeper(k).id]
<1>1. MaxFiles \in Nat /\ files \in 0..MaxFiles
  BY DEF Mail!MailAssumption, FilesKept
<1>2. \A k \in 0..MaxFiles : keeper(k) \in archive[pq] /\ keeper(k).suffix = k
  <2>1. \A k \in 0..MaxFiles : \E g \in archive[pq] : g.suffix = k
    BY DEF Mail!Suffixes, Mail!TakenAs
  <2> QED
    BY <2>1
<1>3. ids \in [0..MaxFiles -> 1..files]
  BY <1>2 DEF FilesKept
<1>4. /\ IsFiniteSet(0..MaxFiles) /\ Cardinality(0..MaxFiles) = MaxFiles + 1
      /\ IsFiniteSet(1..files) /\ Cardinality(1..files) = files
  <2>1. 0 \in Int /\ 1 \in Int /\ MaxFiles \in Int /\ files \in Int
    BY <1>1
  <2>2. /\ IsFiniteSet(0..MaxFiles)
        /\ Cardinality(0..MaxFiles) = IF 0 > MaxFiles THEN 0 ELSE MaxFiles - 0 + 1
        /\ IsFiniteSet(1..files)
        /\ Cardinality(1..files) = IF 1 > files THEN 0 ELSE files - 1 + 1
    BY <2>1, FS_Interval
  <2> QED
    BY <1>1, <2>2
<1>5. \E j, k \in 0..MaxFiles : j # k /\ ids[j] = ids[k]
  <2>1. Cardinality(1..files) < Cardinality(0..MaxFiles)
    BY <1>1, <1>4
  <2> HIDE DEF ids
  <2> QED
    BY <1>3, <1>4, <2>1, FS_PigeonHole
<1>6. PICK j \in 0..MaxFiles, k \in 0..MaxFiles : j # k /\ ids[j] = ids[k]
  BY <1>5
<1>7. keeper(j).id = keeper(k).id
  BY <1>6
<1>8. keeper(j) = keeper(k)
  <2> HIDE DEF keeper
  <2> QED
    BY <1>2, <1>6, <1>7 DEF FilesKept
<1> QED
  <2> HIDE DEF keeper
  <2> QED
    BY <1>2, <1>6, <1>8

\* A file is put into the archive under a name no other file has there (archive()).
LEMMA PutAwayKeepsNames ==
  ASSUME Mail!MailAssumption, FilesKept, NEW pq \in Mail!Pairs, NEW f \in inbox[pq],
         Mail!OneFilePerName(archive[pq])
  PROVE  \E k \in Nat : LET g == [f EXCEPT !.suffix = k]
                        IN  /\ g \in Letters /\ g.id = f.id
                            /\ Mail!PutAway(archive[pq], f) = archive[pq] \cup {g}
                            /\ Mail!OneFilePerName(archive[pq] \cup {g})
<1> DEFINE free == Mail!Suffixes \ Mail!TakenAs(archive[pq], f)
           k == Mail!Min(free)
           g == [f EXCEPT !.suffix = k]
<1>1. f \in Letters /\ archive[pq] \subseteq Letters
  BY DEF FilesKept
<1>2. k \in free /\ free \subseteq Nat
  <2>1. free # {}
    BY <1>1, FreeSuffix
  <2>2. free \subseteq Nat
    BY DEF Mail!Suffixes, Mail!MailAssumption
  <2> HIDE DEF free
  <2> QED
    BY <2>1, <2>2, MinIsLeast
<1>3. k \in Nat /\ k \notin Mail!TakenAs(archive[pq], f)
  BY <1>2
<1>4. g \in Letters /\ g.id = f.id /\ g.n = f.n /\ g.topic = f.topic /\ g.suffix = k
  <2> HIDE DEF k
  <2> QED
    BY <1>1, <1>3 DEF Letters
<1>5. \A h \in archive[pq] : ~Mail!SameName(h, g) /\ ~Mail!SameName(g, h)
  <2> HIDE DEF k
  <2> QED
    BY <1>3, <1>4 DEF Mail!TakenAs, Mail!SameName
<1>6. Mail!OneFilePerName(archive[pq] \cup {g})
  <2> HIDE DEF g
  <2> QED
    BY <1>5 DEF Mail!OneFilePerName
<1>7. Mail!PutAway(archive[pq], f) = archive[pq] \cup {g}
  BY DEF Mail!PutAway
<1> QED
  BY <1>3, <1>4, <1>6, <1>7

\* Reading a file puts it away, or leaves it to be told again.
LEMMA ReadFileKeepsMail ==
  ASSUME Mail!MailAssumption, MailInv, Mail!ReadFile
  PROVE  MailInv'
<1>1. /\ phase = "reading" /\ phase' = "reading" /\ told \subseteq told'
      /\ UNCHANGED <<turn, seen, cut, files>> /\ UNCHANGED Mail!gitVars
  BY DEF Mail!ReadFile
<1>2. MarksBehind' /\ PassedIsTold' /\ Mail!BookmarkSkipsNothing'
  BY <1>1, CommitsUntouched DEF MailInv
<1>3. CASE UNCHANGED <<inbox, archive>>
  BY <1>1, <1>2, <1>3, FilesUntouched DEF MailInv, Mail!fileVars
<1>4. CASE ~UNCHANGED <<inbox, archive>>
  <2>1. PICK s \in Mail!Others : \E f \in inbox[<<s, turn>>] :
          /\ inbox' = [inbox EXCEPT ![<<s, turn>>] = @ \ {f}]
          /\ archive' = [archive EXCEPT ![<<s, turn>>] = Mail!PutAway(@, f)]
    BY <1>4 DEF Mail!ReadFile
  <2> DEFINE pq == <<s, turn>>
  <2>2. PICK f \in inbox[pq] :
          /\ inbox' = [inbox EXCEPT ![pq] = @ \ {f}]
          /\ archive' = [archive EXCEPT ![pq] = Mail!PutAway(@, f)]
    BY <2>1
  <2>3. pq \in Mail!Pairs
    BY DEF Mail!Pairs, Mail!Others, MailInv, MarksBehind
  <2> HIDE DEF pq
  <2>4. FilesKept /\ Mail!NothingIsClobbered /\ Mail!OneFilePerName(archive[pq])
    BY <2>3 DEF MailInv, Mail!NothingIsClobbered
  <2>5. PICK k \in Nat : LET g == [f EXCEPT !.suffix = k]
                         IN  /\ g \in Letters /\ g.id = f.id
                             /\ Mail!PutAway(archive[pq], f) = archive[pq] \cup {g}
                             /\ Mail!OneFilePerName(archive[pq] \cup {g})
    BY <2>2, <2>3, <2>4, PutAwayKeepsNames
  <2>6. PICK g \in Letters : /\ g.id = f.id
                             /\ Mail!PutAway(archive[pq], f) = archive[pq] \cup {g}
                             /\ Mail!OneFilePerName(archive[pq] \cup {g})
    BY <2>5
  <2>7. /\ inbox' \in [Mail!Pairs -> SUBSET Letters]
        /\ archive' \in [Mail!Pairs -> SUBSET Letters]
        /\ inbox'[pq] = inbox[pq] \ {f} /\ archive'[pq] = archive[pq] \cup {g}
        /\ \A rs \in Mail!Pairs \ {pq} : inbox'[rs] = inbox[rs] /\ archive'[rs] = archive[rs]
    BY <2>2, <2>3, <2>4, <2>6 DEF FilesKept
  <2>8. FilesKept'
    <3>1. /\ \A h, i \in inbox[pq] \cup archive[pq] : h.id = i.id => h = i
          /\ \A h \in inbox[pq] \cup archive[pq] : h.id \in 1..files
          /\ f \notin archive[pq]
      BY <2>2, <2>3, <2>4 DEF FilesKept
    <3>2. \A h \in inbox'[pq] \cup archive'[pq] : h = g \/ h.id # g.id
      BY <2>2, <2>6, <2>7, <3>1
    <3>3. g \notin inbox'[pq]
      BY <2>2, <2>6, <2>7, <3>1
    <3>4. \A h, i \in inbox'[pq] \cup archive'[pq] : h.id = i.id => h = i
      BY <2>7, <3>1, <3>2
    <3>5. \A h \in inbox'[pq] \cup archive'[pq] : h.id \in 1..files
      BY <2>2, <2>6, <2>7, <3>1
    <3>6. inbox'[pq] \cap archive'[pq] = {} /\ \A h \in inbox'[pq] : h.suffix = 0 /\ h.n <= files
      BY <2>3, <2>4, <2>7, <3>3 DEF FilesKept
    <3>7. files' = files /\ Mail!Pairs' = Mail!Pairs
      BY <1>1
    <3> QED
      BY <2>4, <2>7, <3>4, <3>5, <3>6, <3>7 DEF FilesKept
  <2>9. Mail!NothingIsClobbered'
    <3>1. ASSUME NEW id \in 1..files
          PROVE  Mail!Kept(id)'
      <4>1. PICK rs \in Mail!Pairs : \E h \in inbox[rs] \cup archive[rs] : h.id = id
        BY <2>4, <3>1 DEF Mail!NothingIsClobbered, Mail!Kept
      <4>2. \E h \in inbox'[rs] \cup archive'[rs] : h.id = id
        BY <2>6, <2>7, <4>1
      <4> QED
        BY <4>2 DEF Mail!Kept
    <3>2. ASSUME NEW rs \in Mail!Pairs
          PROVE  Mail!OneFilePerName(inbox'[rs]) /\ Mail!OneFilePerName(archive'[rs])
      BY <2>4, <2>6, <2>7 DEF Mail!NothingIsClobbered, Mail!OneFilePerName
    <3> QED
      BY <1>1, <3>1, <3>2 DEF Mail!NothingIsClobbered, Mail!Kept, Mail!OneFilePerName
  <2> QED
    BY <1>2, <2>8, <2>9 DEF MailInv
<1> QED
  BY <1>3, <1>4

\* A file that is sent has a number no file of the inbox has (send()).
LEMMA SendKeepsMail ==
  ASSUME Mail!MailAssumption, MailInv, NEW q \in Peers, NEW t \in Topics, Mail!Send(q, t)
  PROVE  MailInv'
<1> DEFINE pq == <<turn, q>>
           numbers == {0} \cup {f.n : f \in inbox[pq]}
           n == 1 + Mail!Max(numbers)
           new == [n |-> n, topic |-> t, suffix |-> 0, id |-> files + 1]
<1>1. /\ phase = "running" /\ files < MaxFiles /\ q # turn /\ files' = files + 1
      /\ inbox' = [inbox EXCEPT ![pq] = @ \cup {new}]
      /\ UNCHANGED <<phase, turn, told, seen, cut, archive>> /\ UNCHANGED Mail!gitVars
  BY DEF Mail!Send
<1>2. MarksBehind' /\ PassedIsTold' /\ Mail!BookmarkSkipsNothing'
  BY <1>1, CommitsUntouched DEF MailInv, PassedIsTold
<1>3. pq \in Mail!Pairs /\ FilesKept /\ Mail!NothingIsClobbered
  BY <1>1 DEF Mail!Pairs, MailInv, MarksBehind
<1> HIDE DEF pq
<1>4. files \in Nat /\ n \in 1..(files + 1) /\ \A f \in inbox[pq] : f.n # n
  <2>1. files \in Nat /\ \A f \in inbox[pq] : f.n \in 0..files
    BY <1>3 DEF FilesKept, Letters
  <2>2. numbers \in SUBSET (0..files) /\ numbers # {}
    BY <2>1
  <2>3. PICK m \in numbers : m = Mail!Max(numbers) /\ \A k \in numbers : k <= m
    <3> HIDE DEF numbers
    <3> QED
      BY <2>1, <2>2, MaxIsGreatest
  <2>4. n = 1 + m /\ m \in 0..files
    BY <2>2, <2>3
  <2>5. \A f \in inbox[pq] : f.n \in 0..files /\ f.n <= m
    BY <2>1, <2>3
  <2> HIDE DEF n, numbers
  <2> QED
    BY <2>1, <2>4, <2>5
<1> HIDE DEF n
<1>5. /\ new \in Letters /\ new.id = files + 1 /\ new.suffix = 0 /\ new.n = n
      /\ \A f \in inbox[pq] \cup archive[pq] : f.id # new.id
      /\ \A f \in inbox[pq] : ~Mail!SameName(f, new) /\ ~Mail!SameName(new, f)
  <2>1. new \in Letters /\ new.id = files + 1 /\ new.suffix = 0 /\ new.n = n
    BY <1>4 DEF Letters
  <2>2. \A f \in inbox[pq] \cup archive[pq] : f.id \in 1..files
    BY <1>3 DEF FilesKept
  <2>3. \A f \in inbox[pq] \cup archive[pq] : f.id # new.id
    BY <1>4, <2>1, <2>2
  <2> HIDE DEF new
  <2> QED
    BY <1>4, <2>1, <2>3 DEF Mail!SameName
<1> HIDE DEF new
<1>6. /\ inbox' \in [Mail!Pairs -> SUBSET Letters] /\ inbox'[pq] = inbox[pq] \cup {new}
      /\ \A rs \in Mail!Pairs \ {pq} : inbox'[rs] = inbox[rs]
  BY <1>1, <1>3, <1>5 DEF FilesKept
<1>7. FilesKept'
  <2>1. ASSUME NEW rs \in Mail!Pairs
        PROVE  /\ \A f, g \in inbox'[rs] \cup archive[rs] : f.id = g.id => f = g
               /\ \A f \in inbox'[rs] \cup archive[rs] : f.id \in 1..files'
               /\ \A f \in inbox'[rs] : f.suffix = 0 /\ f.n <= files'
               /\ inbox'[rs] \cap archive[rs] = {}
    <3>1. /\ \A f, g \in inbox[rs] \cup archive[rs] : f.id = g.id => f = g
          /\ \A f \in inbox[rs] \cup archive[rs] : f.id \in 1..files /\ f.n \in Nat
          /\ \A f \in inbox[rs] : f.suffix = 0 /\ f.n <= files
          /\ inbox[rs] \cap archive[rs] = {}
      BY <1>3, <2>1 DEF FilesKept, Letters
    <3>2. CASE rs = pq
      <4>1. new \notin archive[pq]
        BY <1>5
      <4>2. new.id \in 1..files' /\ new.n <= files'
        BY <1>1, <1>4, <1>5
      <4>3. \A f \in inbox[rs] \cup archive[rs] : f.id \in 1..files'
        BY <1>1, <1>4, <3>1
      <4>4. \A f \in inbox[rs] : f.n <= files'
        BY <1>1, <1>4, <3>1
      <4> QED
        BY <1>5, <1>6, <3>1, <3>2, <4>1, <4>2, <4>3, <4>4
    <3>3. CASE rs # pq
      BY <1>1, <1>4, <1>6, <2>1, <3>1, <3>3
    <3> QED
      BY <3>2, <3>3
  <2>2. files' \in 0..MaxFiles
    BY <1>1, <1>3, <1>4 DEF FilesKept, Mail!MailAssumption
  <2> QED
    BY <1>1, <1>3, <1>6, <2>1, <2>2 DEF FilesKept
<1>8. Mail!NothingIsClobbered'
  <2>1. ASSUME NEW id \in 1..files'
        PROVE  \E rs \in Mail!Pairs : \E f \in inbox'[rs] \cup archive[rs] : f.id = id
    <3>1. CASE id = files + 1
      BY <1>3, <1>5, <1>6, <3>1
    <3>2. CASE id # files + 1
      <4>1. id \in 1..files
        BY <1>1, <1>4, <2>1, <3>2
      <4>2. PICK rs \in Mail!Pairs : \E f \in inbox[rs] \cup archive[rs] : f.id = id
        BY <1>3, <4>1 DEF Mail!NothingIsClobbered, Mail!Kept
      <4> QED
        BY <1>6, <4>2
    <3> QED
      BY <3>1, <3>2
  <2>2. ASSUME NEW rs \in Mail!Pairs
        PROVE  Mail!OneFilePerName(inbox'[rs]) /\ Mail!OneFilePerName(archive[rs])
    BY <1>3, <1>5, <1>6 DEF Mail!NothingIsClobbered, Mail!OneFilePerName
  <2> QED
    BY <1>1, <2>1, <2>2 DEF Mail!NothingIsClobbered, Mail!Kept, Mail!OneFilePerName
<1> QED
  BY <1>2, <1>7, <1>8 DEF MailInv

\* A peer is started with what it was told, or is not; and anybody may commit.
LEMMA TurnKeepsMail ==
  ASSUME MailInv,
         Mail!Launch \/ Mail!LaunchFails \/ \E a \in Mail!Authors : Mail!Commits(a)
  PROVE  MailInv'
<1>1. CASE Mail!Launch
  <2>1. /\ phase' = "running" /\ seen' = seen \cup told
        /\ UNCHANGED <<turn, told, cut>> /\ UNCHANGED Mail!gitVars
        /\ UNCHANGED Mail!fileVars
    BY <1>1 DEF Mail!Launch
  <2>2. MarksBehind' /\ PassedIsTold' /\ Mail!BookmarkSkipsNothing'
    BY <2>1, CommitsUntouched DEF MailInv
  <2> QED
    BY <2>1, <2>2, FilesUntouched DEF MailInv
<1>2. CASE Mail!LaunchFails
  <2>1. /\ phase' = "failed" /\ UNCHANGED <<turn, told, seen, cut>>
        /\ UNCHANGED Mail!gitVars /\ UNCHANGED Mail!fileVars
    BY <1>2 DEF Mail!LaunchFails
  <2>2. MarksBehind' /\ PassedIsTold' /\ Mail!BookmarkSkipsNothing'
    BY <2>1, CommitsUntouched DEF MailInv
  <2> QED
    BY <2>1, <2>2, FilesUntouched DEF MailInv
<1>3. ASSUME NEW a \in Mail!Authors, Mail!Commits(a)
      PROVE  MailInv'
  <2>1. /\ log' = Append(log, a)
        /\ UNCHANGED <<phase, turn, book, saved, seeds, told, seen, cut>>
        /\ UNCHANGED Mail!fileVars
    BY <1>3 DEF Mail!Commits
  <2>2. /\ log' \in Seq(Mail!Authors) /\ Len(log') = Len(log) + 1 /\ Len(log) \in Nat
        /\ \A i \in 1..Len(log) : log'[i] = log[i]
    BY <2>1 DEF MailInv, MarksBehind
  <2>3. \A p \in Peers : /\ book[p] \in Int /\ saved[p] \in Int /\ seeds[p] \in Nat
                         /\ book[p] <= Len(log) /\ saved[p] <= Len(log)
    BY DEF MailInv, MarksBehind, MarkValues
  <2>4. MarksBehind'
    BY <2>1, <2>2, <2>3 DEF MailInv, MarksBehind
  <2>5. \A p \in Peers : /\ \A i \in (seeds[p] + 1)..book[p] : log'[i] = log[i]
                         /\ \A i \in (seeds[p] + 1)..saved[p] : log'[i] = log[i]
    BY SMTT(30), <2>2, <2>3
  <2>6. PassedIsTold' /\ Mail!BookmarkSkipsNothing'
    BY <2>1, <2>5 DEF MailInv, PassedIsTold, Mail!BookmarkSkipsNothing
  <2> QED
    BY <2>1, <2>4, <2>6, FilesUntouched DEF MailInv
<1> QED
  BY <1>1, <1>2, <1>3

\* The end of a turn and a stop save the bookmarks, over what was told; a kill
\* goes back to the saved ones.
LEMMA EndingKeepsMail ==
  ASSUME MailInv, Mail!Stop \/ Mail!Kill \/ \E next \in Peers : Mail!EndTurn(next)
  PROVE  MailInv'
<1>1. /\ phase' = "idle" /\ told' = {} /\ turn' \in Peers
      /\ UNCHANGED <<log, seeds, seen>> /\ UNCHANGED Mail!fileVars
  BY DEF Mail!Stop, Mail!Kill, Mail!EndTurn, MailInv, MarksBehind
<1>2. CASE Mail!Kill
  <2>1. book' = saved /\ UNCHANGED <<saved, cut>>
    BY <1>2 DEF Mail!Kill
  <2>2. MarksBehind'
    <3>1. \A p \in Peers : saved[p] <= Len(log) /\ saved[p] <= saved[p]
      BY SMTT(60) DEF MailInv, MarksBehind, MarkValues
    <3> QED
      BY <1>1, <2>1, <3>1 DEF MailInv, MarksBehind
  <2>3. PassedIsTold' /\ Mail!BookmarkSkipsNothing'
    BY <1>1, <2>1 DEF MailInv, PassedIsTold, Mail!BookmarkSkipsNothing
  <2> QED
    BY <1>1, <2>2, <2>3, FilesUntouched DEF MailInv
<1>3. CASE Mail!Stop \/ \E next \in Peers : Mail!EndTurn(next)
  <2>1. saved' = book /\ book' = book /\ seen \cup cut \cup told \subseteq seen \cup cut'
    BY <1>3 DEF Mail!Stop, Mail!EndTurn, MailInv, PassedIsTold
  <2>2. MarksBehind'
    <3>1. \A p \in Peers : book[p] <= book[p]
      BY DEF MailInv, MarksBehind, MarkValues
    <3> QED
      BY <1>1, <2>1, <3>1 DEF MailInv, MarksBehind
  <2>3. PassedIsTold' /\ Mail!BookmarkSkipsNothing'
    BY <1>1, <2>1 DEF MailInv, PassedIsTold, Mail!BookmarkSkipsNothing
  <2> QED
    BY <1>1, <2>2, <2>3, FilesUntouched DEF MailInv
<1> QED
  BY <1>2, <1>3

\* The mail stays sound, whatever is committed, sent, stopped or killed.
LEMMA MailStep ==
  ASSUME Mail!MailAssumption, MailInv, [Mail!Next]_Mail!vars
  PROVE  MailInv'
<1>1. CASE UNCHANGED Mail!vars
  <2>1. /\ UNCHANGED <<phase, turn, log, book, saved, seeds, told, seen, cut>>
        /\ UNCHANGED Mail!fileVars
    BY <1>1 DEF Mail!vars, Mail!fileVars
  <2> QED
    BY <2>1, FilesUntouched DEF MailInv, MarksBehind, PassedIsTold, Mail!BookmarkSkipsNothing
<1>2. CASE Mail!Next
  BY <1>2, ReadCommitsKeepsMail, ReadFileKeepsMail, SendKeepsMail, TurnKeepsMail,
     EndingKeepsMail DEF Mail!Next
<1> QED
  BY <1>1, <1>2

\* What a peer wrote to another is never overwritten, in the inbox or in the
\* archive, and a commit behind a saved bookmark has been in a prompt: one that a
\* peer was started with, unless it could not be started or a stop came first
\* (comm_layer.py:376, driver_tick_hooks.py:504, health_guard.py:857).
THEOREM MailKept ==
  ASSUME Mail!MailAssumption
  PROVE  Mail!Spec => []Mail!MailIsKept
<1>1. Mail!Init => MailInv
  BY MailStart
<1>2. MailInv /\ [Mail!Next]_Mail!vars => MailInv'
  BY MailStep
<1>3. MailInv => Mail!MailIsKept
  BY DEF MailInv, Mail!MailIsKept
<1> QED
  BY <1>1, <1>2, <1>3, PTL DEF Mail!Spec

-----------------------------------------------------------------------------
(* The record of a tick: logs, their rotation and attestations.             *)

Copy(n, attempt, whole) == [name |-> n, attempt |-> attempt, whole |-> whole]

\* A copy is made of the log that will be removed, and is whole by then.
CopyIsOfOldest ==
  /\ \A z \in zipped : z = Copy(z.name, z.attempt, z.whole)
  /\ pc = "copy" => Copy(Log!Oldest, plain[Log!Oldest], FALSE) \in zipped
  /\ pc = "unlink" => Copy(Log!Oldest, plain[Log!Oldest], TRUE) \in zipped

CommitRecords == [by : Peers \cup {"operator"}, note : Peers \cup {Log!Nobody}]

\* Until the commits of a tick are attested, all that follow the head it began at
\* are its peer's, and have no note.
SinceHead ==
  /\ commits \in Seq(CommitRecords) /\ peer \in Peers \cup {Log!Nobody}
  /\ pc \in {"peer", "rotate", "copy", "unlink", "account", "attest"} =>
       /\ head \in 0..Len(commits) /\ peer \in Peers
       /\ \A i \in DOMAIN commits :
            i > head => commits[i].by = peer /\ commits[i].note = Log!Nobody

LogInv == CopyIsOfOldest /\ SinceHead /\ Log!LogsTellTheTruth

\* Nothing is logged or committed before the first run.
LEMMA LogStart == Log!Init => LogInv
<1> SUFFICES ASSUME Log!Init
             PROVE  LogInv
  OBVIOUS
<1> USE DEF Log!Init
<1>1. CopyIsOfOldest /\ SinceHead
  BY DEF CopyIsOfOldest, SinceHead
<1>2. DOMAIN written = {} /\ DOMAIN commits = {}
  OBVIOUS
<1> QED
  BY <1>1, <1>2 DEF LogInv, Log!LogsTellTheTruth, Log!LogsAreKept, Log!AttestedByWriter

\* What touches no log.
LEMMA LogsUntouched ==
  ASSUME CopyIsOfOldest, Log!LogsAreKept, UNCHANGED Log!files, pc' \notin {"copy", "unlink"}
  PROVE  CopyIsOfOldest' /\ Log!LogsAreKept'
<1>1. UNCHANGED <<plain, zipped, written>>
  BY DEF Log!files
<1> QED
  BY <1>1 DEF CopyIsOfOldest, Log!LogsAreKept

\* What touches no commit.
LEMMA HistoryUntouched ==
  ASSUME SinceHead, Log!AttestedByWriter, UNCHANGED <<commits, head, peer>>,
         pc' \in {"peer", "rotate", "copy", "unlink", "account", "attest"} =>
           pc \in {"peer", "rotate", "copy", "unlink", "account", "attest"}
  PROVE  SinceHead' /\ Log!AttestedByWriter'
BY DEF SinceHead, Log!AttestedByWriter, CommitRecords, Log!Nobody

\* What the peer has written is logged, whatever was logged under the names before.
LEMMA AnswerKeepsLogs ==
  ASSUME LogInv, Log!Answer
  PROVE  LogInv'
<1>1. PICK names : plain' = Log!Written(plain, names) /\ written' = Log!Written(written, names)
  BY DEF Log!Answer
<1>2. pc = "peer" /\ pc' = "rotate" /\ UNCHANGED <<zipped, commits, head, peer>>
  BY DEF Log!Answer
<1>3. Log!LogsAreKept'
  <2>1. ASSUME NEW n \in DOMAIN written'
        PROVE  \/ n \in DOMAIN plain' /\ plain'[n] = written'[n]
               \/ Copy(n, written'[n], TRUE) \in zipped
    <3>1. CASE n \in names
      BY <1>1, <3>1 DEF Log!Written
    <3>2. CASE n \notin names
      <4>1. n \in DOMAIN written /\ written'[n] = written[n]
        BY <1>1, <2>1, <3>2 DEF Log!Written
      <4>2. n \in DOMAIN plain => n \in DOMAIN plain' /\ plain'[n] = plain[n]
        BY <1>1, <3>2 DEF Log!Written
      <4> QED
        BY <4>1, <4>2 DEF LogInv, Log!LogsTellTheTruth, Log!LogsAreKept, Copy
    <3> QED
      BY <3>1, <3>2
  <2> QED
    BY <1>2, <2>1 DEF Log!LogsAreKept, Copy
<1>4. CopyIsOfOldest'
  BY <1>2 DEF LogInv, CopyIsOfOldest
<1>5. SinceHead' /\ Log!AttestedByWriter'
  BY <1>2, HistoryUntouched DEF LogInv, Log!LogsTellTheTruth
<1> QED
  BY <1>3, <1>4, <1>5 DEF LogInv, Log!LogsTellTheTruth

\* A rotation removes a log only once all of it is in the copy
\* (_maybe_rotate_peer_logs).
LEMMA RotationKeepsLogs ==
  ASSUME LogInv, \/ Log!BeginCopy \/ Log!NoRotation \/ Log!EndCopy
                 \/ Log!CopyFails \/ Log!Unlink
  PROVE  LogInv'
<1>1. /\ pc \in {"rotate", "copy", "unlink"} /\ pc' \in {"copy", "unlink", "account"}
      /\ UNCHANGED <<commits, head, peer, written>>
  BY DEF Log!BeginCopy, Log!NoRotation, Log!EndCopy, Log!CopyFails, Log!Unlink, Log!files,
     Log!tick
<1>2. SinceHead' /\ Log!AttestedByWriter'
  BY <1>1, HistoryUntouched DEF LogInv, Log!LogsTellTheTruth
<1>3. CopyIsOfOldest /\ Log!LogsAreKept
  BY DEF LogInv, Log!LogsTellTheTruth
<1>4. CASE Log!NoRotation \/ Log!CopyFails
  <2>1. UNCHANGED Log!files /\ pc' = "account"
    BY <1>4 DEF Log!NoRotation, Log!CopyFails
  <2> QED
    BY <1>2, <1>3, <2>1, LogsUntouched DEF LogInv, Log!LogsTellTheTruth
<1>5. CASE Log!BeginCopy
  <2>1. /\ zipped' = zipped \cup {Copy(Log!Oldest, plain[Log!Oldest], FALSE)}
        /\ plain' = plain /\ pc' = "copy"
    BY <1>5 DEF Log!BeginCopy, Copy
  <2>2. Log!Oldest' = Log!Oldest
    BY <2>1 DEF Log!Oldest
  <2>3. CopyIsOfOldest'
    BY <1>3, <2>1, <2>2 DEF CopyIsOfOldest, Copy
  <2>4. Log!LogsAreKept'
    BY <1>1, <1>3, <2>1 DEF Log!LogsAreKept
  <2> QED
    BY <1>2, <2>3, <2>4 DEF LogInv, Log!LogsTellTheTruth
<1>6. CASE Log!EndCopy
  <2>1. /\ zipped' = {IF z.name = Log!Oldest THEN [z EXCEPT !.whole = TRUE] ELSE z : z \in zipped}
        /\ plain' = plain /\ pc = "copy" /\ pc' = "unlink"
    BY <1>6 DEF Log!EndCopy
  <2>2. Log!Oldest' = Log!Oldest
    BY <2>1 DEF Log!Oldest
  <2>3. \A z \in zipped : [z EXCEPT !.whole = TRUE] = Copy(z.name, z.attempt, TRUE)
    <3>1. ASSUME NEW z \in zipped
          PROVE  [z EXCEPT !.whole = TRUE] = Copy(z.name, z.attempt, TRUE)
      <4>1. z = Copy(z.name, z.attempt, z.whole)
        BY <1>3, <3>1 DEF CopyIsOfOldest
      <4>2. [z EXCEPT !.whole = TRUE] \in [name : {z.name}, attempt : {z.attempt}, whole : {TRUE}]
        BY <4>1 DEF Copy
      <4>3. \A a, b, c : \A r \in [name : {a}, attempt : {b}, whole : {c}] :
              r = [name |-> a, attempt |-> b, whole |-> c]
        OBVIOUS
      <4> QED
        BY <4>2, <4>3 DEF Copy
    <3> QED
      BY <3>1
  <2>4. \A z \in zipped : IF z.name = Log!Oldest THEN Copy(z.name, z.attempt, TRUE) \in zipped'
                          ELSE z \in zipped'
    BY <2>1, <2>3
  <2>5. Copy(Log!Oldest, plain[Log!Oldest], TRUE) \in zipped'
    <3>1. Copy(Log!Oldest, plain[Log!Oldest], FALSE) \in zipped
      BY <1>3, <2>1 DEF CopyIsOfOldest
    <3>2. /\ Copy(Log!Oldest, plain[Log!Oldest], FALSE).name = Log!Oldest
          /\ Copy(Log!Oldest, plain[Log!Oldest], FALSE).attempt = plain[Log!Oldest]
      BY DEF Copy
    <3> QED
      BY <2>4, <3>1, <3>2
  <2>6. \A z \in zipped' : z = Copy(z.name, z.attempt, z.whole)
    <3>1. ASSUME NEW z \in zipped'
          PROVE  z = Copy(z.name, z.attempt, z.whole)
      <4>1. \/ z \in zipped
            \/ \E y \in zipped : z = Copy(y.name, y.attempt, TRUE)
        BY <2>1, <2>3, <3>1
      <4> QED
        BY <1>3, <4>1 DEF CopyIsOfOldest, Copy
    <3> QED
      BY <3>1
  <2>7. CopyIsOfOldest'
    BY <2>1, <2>2, <2>5, <2>6 DEF CopyIsOfOldest
  <2>8. Log!LogsAreKept'
    <3>1. \A n, a : Copy(n, a, TRUE) \in zipped => Copy(n, a, TRUE) \in zipped'
      <4>1. \A n, a : Copy(n, a, TRUE).name = n /\ Copy(n, a, TRUE).attempt = a
        BY DEF Copy
      <4> QED
        BY <2>4, <4>1
    <3> QED
      BY <1>1, <1>3, <2>1, <3>1 DEF Log!LogsAreKept, Copy
  <2> QED
    BY <1>2, <2>7, <2>8 DEF LogInv, Log!LogsTellTheTruth
<1>7. CASE Log!Unlink
  <2>1. /\ plain' = [n \in DOMAIN plain \ {Log!Oldest} |-> plain[n]]
        /\ zipped' = zipped /\ pc = "unlink" /\ pc' = "account"
    BY <1>7 DEF Log!Unlink, Log!Restrict
  <2>2. Copy(Log!Oldest, plain[Log!Oldest], TRUE) \in zipped
    BY <1>3, <2>1 DEF CopyIsOfOldest
  <2>3. Log!LogsAreKept'
    BY <1>1, <1>3, <2>1, <2>2 DEF Log!LogsAreKept, Copy
  <2>4. CopyIsOfOldest'
    BY <1>3, <2>1 DEF CopyIsOfOldest
  <2> QED
    BY <1>2, <2>3, <2>4 DEF LogInv, Log!LogsTellTheTruth
<1> QED
  BY <1>4, <1>5, <1>6, <1>7

\* Commits are followed by attestations of their own tick only (attest.py).
LEMMA CommitsKeepLogs ==
  ASSUME LogInv, \/ \E p \in Peers : Log!Invoke(p)
                 \/ \E who \in Peers \cup {"operator"} : Log!Commit(who)
                 \/ Log!Attest
  PROVE  LogInv'
<1>1. UNCHANGED Log!files /\ pc' \notin {"copy", "unlink"}
  BY DEF Log!Invoke, Log!StartTick, Log!Commit, Log!Attest
<1>2. CopyIsOfOldest' /\ Log!LogsAreKept'
  BY <1>1, LogsUntouched DEF LogInv, Log!LogsTellTheTruth
<1>3. /\ commits \in Seq(CommitRecords) /\ Len(commits) \in Nat
      /\ \A i \in DOMAIN commits : /\ commits[i] \in CommitRecords
                                   /\ commits[i].note \in {Log!Nobody, commits[i].by}
  BY DEF LogInv, SinceHead, Log!LogsTellTheTruth, Log!AttestedByWriter
<1>4. CASE \E p \in Peers : Log!Invoke(p)
  <2>1. pc' = "peer" /\ peer' \in Peers /\ head' = Len(commits) /\ commits' = commits
    BY <1>4 DEF Log!Invoke, Log!StartTick
  <2> QED
    BY <1>2, <1>3, <2>1 DEF LogInv, SinceHead, Log!LogsTellTheTruth, Log!AttestedByWriter
<1>5. ASSUME NEW who \in Peers \cup {"operator"}, Log!Commit(who)
      PROVE  LogInv'
  <2> DEFINE new == [by |-> who, note |-> Log!Nobody]
  <2>1. /\ pc = (IF who = peer THEN "peer" ELSE "off")
        /\ commits' = Append(commits, new) /\ UNCHANGED <<pc, peer, head>>
    BY <1>5 DEF Log!Commit, Log!tick
  <2>2. new \in CommitRecords /\ new.by = who /\ new.note = Log!Nobody
    BY DEF CommitRecords
  <2> HIDE DEF new
  <2>3. /\ commits' \in Seq(CommitRecords) /\ Len(commits') = Len(commits) + 1
        /\ \A i \in DOMAIN commits' :
             IF i = Len(commits) + 1 THEN commits'[i] = new
             ELSE i \in DOMAIN commits /\ commits'[i] = commits[i]
    BY <1>3, <2>1, <2>2
  <2>4. Log!AttestedByWriter'
    BY <1>3, <2>2, <2>3 DEF Log!AttestedByWriter
  <2>5. SinceHead'
    BY <1>3, <2>1, <2>2, <2>3 DEF LogInv, SinceHead
  <2> QED
    BY <1>2, <2>4, <2>5 DEF LogInv, Log!LogsTellTheTruth
<1>6. CASE Log!Attest
  <2>1. /\ pc = "attest" /\ pc' = "row" /\ UNCHANGED <<peer, head>>
        /\ \/ commits' = commits
           \/ commits' = [i \in DOMAIN commits |->
                IF i > head THEN [commits[i] EXCEPT !.note = peer] ELSE commits[i]]
    BY <1>6 DEF Log!Attest, Log!tick
  <2>2. CASE commits' = commits
    BY <1>2, <1>3, <2>1, <2>2 DEF LogInv, SinceHead, Log!LogsTellTheTruth, Log!AttestedByWriter
  <2>3. CASE commits' = [i \in DOMAIN commits |->
               IF i > head THEN [commits[i] EXCEPT !.note = peer] ELSE commits[i]]
    <3>1. ASSUME NEW i \in DOMAIN commits
          PROVE  /\ commits'[i] \in CommitRecords
                 /\ commits'[i].note \in {Log!Nobody, commits'[i].by}
      <4>1. peer \in Peers /\ (i > head => commits[i].by = peer)
        BY <2>1, <3>1 DEF LogInv, SinceHead
      <4>2. [commits[i] EXCEPT !.note = peer] \in CommitRecords
            /\ [commits[i] EXCEPT !.note = peer].note = peer
            /\ [commits[i] EXCEPT !.note = peer].by = commits[i].by
        BY <1>3, <3>1, <4>1 DEF CommitRecords
      <4> QED
        BY <1>3, <2>3, <3>1, <4>1, <4>2
    <3>2. DOMAIN commits = 1..Len(commits) /\ DOMAIN commits' = DOMAIN commits
      BY <1>3, <2>3
    <3>3. commits' \in Seq(CommitRecords)
      <4>1. commits' \in [1..Len(commits) -> CommitRecords]
        BY <2>3, <3>1, <3>2
      <4> QED
        BY <1>3, <4>1
    <3>4. SinceHead' /\ Log!AttestedByWriter'
      BY <2>1, <3>1, <3>2, <3>3 DEF LogInv, SinceHead, Log!AttestedByWriter
    <3> QED
      BY <1>2, <3>4 DEF LogInv, Log!LogsTellTheTruth
  <2> QED
    BY <2>1, <2>2, <2>3
<1> QED
  BY <1>4, <1>5, <1>6

\* The record of a tick stays true, whatever is cut off, interrupted or killed.
LEMMA LogStep ==
  ASSUME LogInv, [Log!Next]_Log!vars
  PROVE  LogInv'
<1>1. CASE \/ Log!Boot \/ Log!Halt \/ Log!Account \/ Log!AppendRow \/ Log!Save
           \/ Log!Interrupt \/ Log!Kill
  <2>1. /\ UNCHANGED <<commits, head, peer>> /\ UNCHANGED Log!files
        /\ pc' \notin {"copy", "unlink"}
        /\ pc' \in {"peer", "rotate", "copy", "unlink", "account", "attest"} =>
             pc \in {"peer", "rotate", "copy", "unlink", "account", "attest"}
    BY <1>1 DEF Log!Boot, Log!Halt, Log!Account, Log!AppendRow, Log!Save, Log!Interrupt,
       Log!Kill, Log!tick
  <2> QED
    BY <2>1, LogsUntouched, HistoryUntouched DEF LogInv, Log!LogsTellTheTruth
<1>2. CASE UNCHANGED Log!vars
  <2>1. UNCHANGED <<pc, commits, head, peer, plain, zipped, written>>
    BY <1>2 DEF Log!vars
  <2>2. CopyIsOfOldest'
    <3>1. Log!Oldest' = Log!Oldest
      BY <2>1 DEF Log!Oldest
    <3> QED
      BY <2>1, <3>1 DEF LogInv, CopyIsOfOldest
  <2>3. Log!LogsAreKept'
    BY <2>1 DEF LogInv, Log!LogsTellTheTruth, Log!LogsAreKept
  <2> QED
    BY <2>1, <2>2, <2>3, HistoryUntouched DEF LogInv, Log!LogsTellTheTruth
<1> QED
  BY <1>1, <1>2, AnswerKeepsLogs, RotationKeepsLogs, CommitsKeepLogs DEF Log!Next

\* The record of a tick is true: a rotation that is cut off loses no log, and a
\* commit's note names its writer or nobody, whatever ticks are cut off and
\* whatever the operator commits in between (driver_observability.py:250,
\* attest.py:72).
THEOREM LogTrue == Log!Spec => []Log!LogsTellTheTruth
<1>1. Log!Init => LogInv
  BY LogStart
<1>2. LogInv /\ [Log!Next]_Log!vars => LogInv'
  BY LogStep
<1>3. LogInv => Log!LogsTellTheTruth
  BY DEF LogInv
<1> QED
  BY <1>1, <1>2, <1>3, PTL DEF Log!Spec

-----------------------------------------------------------------------------
(* The reviews: counters, and a history that is trimmed.                    *)

Reviews == [pass : BOOLEAN, by : Reviewers]

\* The last n reviews are passes, none of a peer twice in a row.
InARow(n) == Soft!AllPass(all, n) /\ Soft!NoPeerTwice(all, n)

\* Each counter says of all reviews what it is there to say.
SoftInv ==
  /\ mode \in Modes /\ all \in Seq(Reviews) /\ count \in Nat
  /\ mode \in Soft!Rolling =>
       /\ last = IF all = << >> THEN [pass |-> FALSE, by |-> Soft!None] ELSE all[Len(all)]
       /\ \A n \in Nat : count >= n <=> InARow(n)
  /\ perPeer \in [Reviewers -> Nat]
  /\ \A p \in Reviewers : perPeer[p] = Cardinality(Soft!PassesOf(p))
  /\ history = Soft!LastN(all, HistoryCap)

\* Two sequences of the same length and members are the same.
LEMMA SameSequence ==
  ASSUME NEW S, NEW s \in Seq(S), NEW t \in Seq(S), Len(s) = Len(t),
         \A i \in 1..Len(s) : s[i] = t[i]
  PROVE  s = t
<1>1. s = [i \in 1..Len(s) |-> s[i]] /\ t = [i \in 1..Len(t) |-> t[i]]
  OBVIOUS
<1> QED
  BY <1>1

\* The end of a sequence.
LEMMA LastNIs ==
  ASSUME NEW S, NEW s \in Seq(S), NEW n \in Nat
  PROVE  LET t == Soft!LastN(s, n)
         IN  /\ t \in Seq(S) /\ Len(t) = IF Len(s) <= n THEN Len(s) ELSE n
             /\ \A i \in 1..Len(t) : t[i] = s[Len(s) - Len(t) + i]
<1>1. Len(s) \in Nat
  OBVIOUS
<1>2. CASE Len(s) <= n
  <2>1. Soft!LastN(s, n) = s
    BY <1>2 DEF Soft!LastN
  <2> QED
    BY <1>1, <1>2, <2>1
<1>3. CASE ~(Len(s) <= n)
  <2> DEFINE t == SubSeq(s, Len(s) - n + 1, Len(s))
  <2>1. Soft!LastN(s, n) = t
    BY <1>3 DEF Soft!LastN
  <2>2. Len(s) - n \in 0..Len(s)
    BY <1>1, <1>3
  <2>3. /\ t \in Seq(S) /\ Len(t) = Len(s) - (Len(s) - n)
        /\ \A i \in DOMAIN t : t[i] = s[Len(s) - n + i]
    BY <2>2, TailFrom
  <2>4. Len(t) = n /\ DOMAIN t = 1..Len(t)
    BY <1>1, <2>3
  <2> QED
    BY <1>3, <2>1, <2>3, <2>4
<1> QED
  BY <1>2, <1>3

\* The end of the end of a sequence is its end, and so is the end of what was cut
\* before it grew.
LEMMA LastNOfLastN ==
  ASSUME NEW S, NEW s \in Seq(S), NEW m \in Nat, NEW n \in Nat, m <= n
  PROVE  Soft!LastN(Soft!LastN(s, n), m) = Soft!LastN(s, m)
<1> DEFINE t == Soft!LastN(s, n)
           u == Soft!LastN(t, m)
           v == Soft!LastN(s, m)
<1>1. /\ t \in Seq(S) /\ Len(t) = IF Len(s) <= n THEN Len(s) ELSE n
      /\ \A i \in 1..Len(t) : t[i] = s[Len(s) - Len(t) + i]
  BY LastNIs
<1>2. /\ v \in Seq(S) /\ Len(v) = IF Len(s) <= m THEN Len(s) ELSE m
      /\ \A i \in 1..Len(v) : v[i] = s[Len(s) - Len(v) + i]
  BY LastNIs
<1> HIDE DEF t
<1>3. /\ u \in Seq(S) /\ Len(u) = IF Len(t) <= m THEN Len(t) ELSE m
      /\ \A i \in 1..Len(u) : u[i] = t[Len(t) - Len(u) + i]
  BY <1>1, LastNIs
<1> HIDE DEF u, v
<1>4. /\ Len(s) \in Nat /\ Len(t) \in Nat /\ Len(u) \in Nat
      /\ Len(u) = Len(v) /\ Len(u) <= Len(t)
  <2>1. Len(s) \in Nat /\ Len(t) \in Nat
    BY <1>1
  <2> QED
    BY <1>1, <1>2, <1>3, <2>1
<1>5. ASSUME NEW i \in 1..Len(u)
      PROVE  u[i] = v[i]
  <2>1. Len(t) - Len(u) + i \in 1..Len(t) /\ Len(t) \in Nat
    BY <1>4, <1>5
  <2>2. u[i] = s[Len(s) - Len(t) + (Len(t) - Len(u) + i)]
    BY <1>1, <1>3, <1>5, <2>1
  <2>3. Len(s) - Len(t) + (Len(t) - Len(u) + i) = Len(s) - Len(v) + i
    BY <1>4, <1>5, <2>1
  <2> QED
    BY <1>2, <1>4, <1>5, <2>2, <2>3
<1> QED
  BY <1>2, <1>3, <1>4, <1>5, SameSequence DEF t, u, v

\* Trimming before a review is added loses nothing that trimming after it keeps.
LEMMA LastNOfAppend ==
  ASSUME NEW S, NEW s \in Seq(S), NEW x \in S, NEW n \in Nat
  PROVE  Soft!LastN(Append(Soft!LastN(s, n), x), n) = Soft!LastN(Append(s, x), n)
<1> DEFINE t == Soft!LastN(s, n)
           w == Append(t, x)
           r == Append(s, x)
           u == Soft!LastN(w, n)
           v == Soft!LastN(r, n)
<1>1. /\ t \in Seq(S) /\ Len(t) = IF Len(s) <= n THEN Len(s) ELSE n
      /\ \A i \in 1..Len(t) : t[i] = s[Len(s) - Len(t) + i]
  BY LastNIs
<1> HIDE DEF t
<1>2. /\ w \in Seq(S) /\ Len(w) = Len(t) + 1 /\ w[Len(t) + 1] = x
      /\ \A i \in 1..Len(t) : w[i] = t[i]
      /\ r \in Seq(S) /\ Len(r) = Len(s) + 1 /\ r[Len(s) + 1] = x
      /\ \A i \in 1..Len(s) : r[i] = s[i]
  BY <1>1
<1> HIDE DEF w, r
<1>3. /\ u \in Seq(S) /\ Len(u) = IF Len(w) <= n THEN Len(w) ELSE n
      /\ \A i \in 1..Len(u) : u[i] = w[Len(w) - Len(u) + i]
  <2>1. w \in Seq(S)
    BY <1>2
  <2> QED
    BY <2>1, LastNIs
<1>4. /\ v \in Seq(S) /\ Len(v) = IF Len(r) <= n THEN Len(r) ELSE n
      /\ \A i \in 1..Len(v) : v[i] = r[Len(r) - Len(v) + i]
  <2>1. r \in Seq(S)
    BY <1>2
  <2> QED
    BY <2>1, LastNIs
<1> HIDE DEF u, v
<1>5. /\ Len(s) \in Nat /\ Len(t) \in Nat /\ Len(u) \in Nat /\ Len(u) = Len(v)
      /\ Len(t) <= Len(s) /\ Len(u) <= Len(t) + 1
      /\ Len(w) = Len(t) + 1 /\ Len(r) = Len(s) + 1
  <2>1. Len(s) \in Nat /\ Len(t) \in Nat
    BY <1>1
  <2> QED
    BY <1>1, <1>2, <1>3, <1>4, <2>1
<1>6. ASSUME NEW j \in 1..(Len(t) + 1)
      PROVE  w[j] = r[Len(s) - Len(t) + j]
  <2>1. CASE j \in 1..Len(t)
    <3>1. Len(s) - Len(t) + j \in 1..Len(s)
      BY <1>5, <2>1
    <3> QED
      BY <1>1, <1>2, <2>1, <3>1
  <2>2. CASE j = Len(t) + 1
    <3>1. Len(s) - Len(t) + j = Len(s) + 1
      BY <1>5, <2>2
    <3> QED
      BY <1>2, <2>2, <3>1
  <2> QED
    BY <1>5, <1>6, <2>1, <2>2
<1>7. ASSUME NEW i \in 1..Len(u)
      PROVE  u[i] = v[i]
  <2> DEFINE j == Len(w) - Len(u) + i
  <2>1. /\ j \in 1..(Len(t) + 1)
        /\ Len(s) - Len(t) + j = Len(r) - Len(v) + i
    BY <1>5, <1>7
  <2>2. u[i] = w[j] /\ v[i] = r[Len(r) - Len(v) + i]
    BY <1>3, <1>5, <1>7, <1>4
  <2> QED
    BY <1>6, <2>1, <2>2
<1> QED
  BY <1>3, <1>5, <1>7, <1>4, SameSequence DEF t, u, v, w, r

\* One more review: the last n + 1 in a row are the last n and the new one.
LEMMA InARowGrows ==
  ASSUME all \in Seq(Reviews), NEW r \in Reviews, all' = Append(all, r), NEW n \in Nat
  PROVE  /\ InARow(0)'
         /\ InARow(n + 1)' <=> /\ r.pass /\ InARow(n)
                               /\ n > 0 => all[Len(all)].by # r.by
<1> DEFINE l == Len(all)
<1>1. /\ l \in Nat /\ Len(all') = l + 1 /\ all'[l + 1] = r
      /\ \A i \in 1..l : all'[i] = all[i]
  OBVIOUS
<1> HIDE DEF l
<1>2. InARow(0)'
  BY <1>1 DEF InARow, Soft!AllPass, Soft!NoPeerTwice
<1>3. Soft!AllPass(all', n + 1) <=> r.pass /\ Soft!AllPass(all, n)
  <2>1. Soft!AllPass(all', n + 1) <=>
          l + 1 >= n + 1 /\ \A i \in (l - n + 1)..(l + 1) : all'[i].pass
    <3>1. (l + 1) - (n + 1) + 1 = l - n + 1
      BY <1>1
    <3> QED
      BY <1>1, <3>1 DEF Soft!AllPass
  <2>2. Soft!AllPass(all, n) <=> l >= n /\ \A i \in (l - n + 1)..l : all[i].pass
    BY <1>1 DEF Soft!AllPass, l
  <2>3. l >= n => \A i \in (l - n + 1)..l : i \in 1..l
    BY <1>1
  <2>4. \A i \in (l - n + 1)..(l + 1) : i = l + 1 \/ i \in (l - n + 1)..l
    BY <1>1
  <2>5. l + 1 \in (l - n + 1)..(l + 1) /\ \A i \in (l - n + 1)..l : i \in (l - n + 1)..(l + 1)
    BY <1>1
  <2>6. l + 1 >= n + 1 <=> l >= n
    BY <1>1
  <2> QED
    BY <1>1, <2>1, <2>2, <2>3, <2>4, <2>5, <2>6
<1>4. ASSUME l >= n
      PROVE  Soft!NoPeerTwice(all', n + 1) <=>
               Soft!NoPeerTwice(all, n) /\ (n > 0 => all[l].by # r.by)
  <2>1. Soft!NoPeerTwice(all', n + 1) <=>
          \A i \in (l - n + 2)..(l + 1) : all'[i].by # all'[i - 1].by
    <3>1. (l + 1) - (n + 1) + 2 = l - n + 2
      BY <1>1
    <3> QED
      BY <1>1, <3>1 DEF Soft!NoPeerTwice
  <2>2. Soft!NoPeerTwice(all, n) <=> \A i \in (l - n + 2)..l : all[i].by # all[i - 1].by
    BY <1>1 DEF Soft!NoPeerTwice, l
  <2>3. \A i \in (l - n + 2)..l : i \in 1..l /\ i - 1 \in 1..l
    BY <1>1, <1>4
  <2>4. \A i \in (l - n + 2)..(l + 1) : i = l + 1 \/ i \in (l - n + 2)..l
    BY <1>1
  <2>5. /\ l + 1 \in (l - n + 2)..(l + 1) <=> n > 0
        /\ \A i \in (l - n + 2)..l : i \in (l - n + 2)..(l + 1)
    BY <1>1
  <2>6. n > 0 => all'[(l + 1) - 1] = all[l]
    BY <1>1, <1>4
  <2>7. (\A i \in (l - n + 2)..l : all'[i].by # all'[i - 1].by)
        <=> \A i \in (l - n + 2)..l : all[i].by # all[i - 1].by
    BY <1>1, <2>3
  <2>8. all'[l + 1].by = r.by
    BY <1>1
  <2>9. ASSUME Soft!NoPeerTwice(all', n + 1)
        PROVE  Soft!NoPeerTwice(all, n) /\ (n > 0 => all[l].by # r.by)
    <3>1. \A i \in (l - n + 2)..l : all'[i].by # all'[i - 1].by
      BY <2>1, <2>5, <2>9
    <3>2. ASSUME n > 0
          PROVE  all'[l + 1].by # all'[(l + 1) - 1].by
      <4>1. l + 1 \in (l - n + 2)..(l + 1)
        BY <2>5, <3>2
      <4>2. \A i \in (l - n + 2)..(l + 1) : all'[i].by # all'[i - 1].by
        BY <2>1, <2>9
      <4> QED
        BY <4>1, <4>2, Zenon
    <3> QED
      BY <2>2, <2>6, <2>7, <2>8, <3>1, <3>2
  <2>10. ASSUME Soft!NoPeerTwice(all, n), n > 0 => all[l].by # r.by
         PROVE  Soft!NoPeerTwice(all', n + 1)
    <3>1. \A i \in (l - n + 2)..l : all'[i].by # all'[i - 1].by
      BY <2>2, <2>7, <2>10
    <3>2. n > 0 => all'[l + 1].by # all'[(l + 1) - 1].by
      BY <2>6, <2>8, <2>10
    <3>3. \A i \in (l - n + 2)..(l + 1) : all'[i].by # all'[i - 1].by
      <4>1. ASSUME NEW i \in (l - n + 2)..(l + 1)
            PROVE  all'[i].by # all'[i - 1].by
        <5>1. CASE i = l + 1
          BY <2>5, <3>2, <4>1, <5>1
        <5>2. CASE i \in (l - n + 2)..l
          BY <3>1, <5>2
        <5> QED
          BY <2>4, <4>1, <5>1, <5>2
      <4> QED
        BY <4>1
    <3> QED
      BY <2>1, <3>3
  <2> QED
    BY <2>9, <2>10
<1>5. Soft!AllPass(all, n) => l >= n
  BY DEF Soft!AllPass, l
<1> QED
  BY <1>2, <1>3, <1>4, <1>5 DEF InARow, l

\* The rolling counter counts the reviews in a row (_next_consensus_count).
LEMMA CountGrows ==
  ASSUME SoftInv, mode \in Soft!Rolling, NEW p \in Reviewers, NEW pass \in BOOLEAN,
         all' = Append(all, [pass |-> pass, by |-> p]), count' = Soft!NextCount(p, pass)
  PROVE  count' \in Nat /\ \A n \in Nat : count' >= n <=> InARow(n)'
<1> DEFINE r == [pass |-> pass, by |-> p]
<1>1. /\ r \in Reviews /\ r.pass = pass /\ r.by = p /\ all \in Seq(Reviews) /\ count \in Nat
      /\ \A n \in Nat : count >= n <=> InARow(n)
      /\ last = IF all = << >> THEN [pass |-> FALSE, by |-> Soft!None] ELSE all[Len(all)]
  BY DEF SoftInv, Reviews
<1>2. /\ InARow(0)'
      /\ \A n \in Nat : InARow(n + 1)' <=> /\ pass /\ InARow(n)
                                           /\ n > 0 => all[Len(all)].by # p
  BY <1>1, InARowGrows
<1>3. \A n \in Nat \ {0} : InARow(n) => last = all[Len(all)] /\ last.pass
  <2>1. ASSUME NEW n \in Nat \ {0}, InARow(n)
        PROVE  last = all[Len(all)] /\ last.pass
    <3>1. Len(all) \in Nat /\ Len(all) >= n /\ \A i \in (Len(all) - n + 1)..Len(all) : all[i].pass
      BY <1>1, <2>1 DEF InARow, Soft!AllPass
    <3>2. Len(all) \in (Len(all) - n + 1)..Len(all) /\ all # << >>
      BY <2>1, <3>1
    <3> QED
      BY <1>1, <3>1, <3>2
  <2> QED
    BY <2>1
<1>4. count' \in Nat
  BY <1>1 DEF Soft!NextCount
<1>5. \A n \in Nat : count' >= n + 1 <=> InARow(n + 1)'
  <2>1. ASSUME NEW n \in Nat
        PROVE  count' >= n + 1 <=> InARow(n + 1)'
    <3>1. CASE ~pass
      <4>1. count' = 0 /\ ~InARow(n + 1)'
        BY <1>2, <3>1 DEF Soft!NextCount
      <4> QED
        BY <4>1
    <3>2. CASE pass /\ last.pass /\ last.by # p
      <4>1. count' = count + 1
        BY <3>2 DEF Soft!NextCount
      <4>2. InARow(n + 1)' <=> InARow(n)
        <5>1. n > 0 /\ InARow(n) => all[Len(all)].by # p
          BY <1>3, <3>2
        <5> QED
          BY <1>2, <3>2, <5>1
      <4> QED
        BY <1>1, <4>1, <4>2
    <3>3. CASE pass /\ ~(last.pass /\ last.by # p)
      <4>1. count' = 1
        BY <3>3 DEF Soft!NextCount
      <4>2. CASE n = 0
        <5>1. InARow(0)
          <6>1. count >= 0
            BY <1>1
          <6> QED
            BY <1>1, <6>1
        <5> QED
          <6>1. InARow(n) /\ ~(n > 0)
            BY <4>2, <5>1
          <6>2. InARow(n + 1)'
            BY <1>2, <3>3, <6>1
          <6> QED
            BY <4>1, <4>2, <6>2
      <4>3. CASE n # 0
        <5>1. ~InARow(n + 1)'
          <6>1. n > 0 /\ (InARow(n) => all[Len(all)].by = p)
            BY <1>3, <3>3, <4>3
          <6> QED
            BY <1>2, <6>1
        <5> QED
          BY <4>1, <4>3, <5>1
      <4> QED
        BY <4>2, <4>3
    <3> QED
      BY <3>1, <3>2, <3>3
  <2> QED
    BY <2>1
<1>6. ASSUME NEW n \in Nat
      PROVE  count' >= n <=> InARow(n)'
  <2>1. CASE n = 0
    BY <1>2, <1>4, <2>1
  <2>2. CASE n # 0
    <3>1. n - 1 \in Nat /\ (n - 1) + 1 = n
      BY <2>2
    <3>2. count' >= (n - 1) + 1 <=> InARow((n - 1) + 1)'
      BY <1>5, <3>1
    <3> QED
      BY <3>1, <3>2
  <2> QED
    BY <2>1, <2>2
<1> QED
  BY <1>4, <1>6

\* A peer's own counter counts its passes since its last failure.
LEMMA PassesGrow ==
  ASSUME all \in Seq(Reviews), NEW p \in Reviewers, NEW pass \in BOOLEAN,
         all' = Append(all, [pass |-> pass, by |-> p]), NEW q \in Reviewers
  PROVE  /\ Cardinality(Soft!PassesOf(q)) \in Nat
         /\ Cardinality(Soft!PassesOf(q)') =
              IF q # p THEN Cardinality(Soft!PassesOf(q))
              ELSE IF pass THEN Cardinality(Soft!PassesOf(q)) + 1 ELSE 0
<1> DEFINE l == Len(all)
<1>1. /\ l \in Nat /\ Len(all') = l + 1 /\ DOMAIN all = 1..l /\ DOMAIN all' = 1..(l + 1)
      /\ all'[l + 1].by = p /\ all'[l + 1].pass = pass
      /\ \A i \in 1..l : all'[i] = all[i]
  BY DEF Reviews
<1>2. Soft!PassesOf(q) = {i \in 1..l : /\ all[i].by = q
                                       /\ \A j \in i..l : all[j].by = q => all[j].pass}
  BY <1>1 DEF Soft!PassesOf
<1>3. Soft!PassesOf(q)' = {i \in 1..(l + 1) :
                             /\ all'[i].by = q
                             /\ \A j \in i..(l + 1) : all'[j].by = q => all'[j].pass}
  BY <1>1 DEF Soft!PassesOf
<1> HIDE DEF l
<1>4. IsFiniteSet(Soft!PassesOf(q)) /\ Cardinality(Soft!PassesOf(q)) \in Nat
  <2>1. IsFiniteSet(1..l)
    BY <1>1, FS_Interval
  <2>2. Soft!PassesOf(q) \in SUBSET (1..l)
    BY <1>2
  <2>3. IsFiniteSet(Soft!PassesOf(q))
    BY <2>1, <2>2, FS_Subset
  <2> QED
    BY <2>3, FS_CardinalityType
<1>5. ASSUME NEW i \in 1..l
      PROVE  (\A j \in i..(l + 1) : all'[j].by = q => all'[j].pass)
             <=> /\ \A j \in i..l : all[j].by = q => all[j].pass
                 /\ p = q => pass
  <2>1. /\ l + 1 \in i..(l + 1) /\ \A j \in i..l : j \in 1..l /\ j \in i..(l + 1)
        /\ \A j \in i..(l + 1) : j \in i..l \/ j = l + 1
    BY <1>1, <1>5
  <2> QED
    BY <1>1, <2>1
<1>6. CASE q # p
  <2>1. Soft!PassesOf(q)' = Soft!PassesOf(q)
    <3>1. \A i \in 1..(l + 1) : i \in 1..l \/ i = l + 1
      BY <1>1
    <3>2. \A i \in 1..l : i \in 1..(l + 1) /\ all'[i].by = all[i].by
      BY <1>1
    <3>3. l + 1 \notin Soft!PassesOf(q)'
      BY <1>1, <1>3, <1>6
    <3>4. \A i \in 1..l : i \in Soft!PassesOf(q)' <=> i \in Soft!PassesOf(q)
      BY <1>2, <1>3, <1>5, <1>6, <3>2
    <3>5. Soft!PassesOf(q) \subseteq 1..l /\ Soft!PassesOf(q)' \subseteq 1..(l + 1)
      BY <1>2, <1>3
    <3> QED
      BY <3>1, <3>3, <3>4, <3>5
  <2> QED
    BY <1>4, <1>6, <2>1
<1>7. CASE q = p /\ ~pass
  <2>1. Soft!PassesOf(q)' = {}
    <3>1. \A i \in 1..(l + 1) : l + 1 \in i..(l + 1)
      BY <1>1
    <3> QED
      BY <1>1, <1>3, <1>7, <3>1
  <2> QED
    BY <1>4, <1>7, <2>1, FS_EmptySet
<1>8. CASE q = p /\ pass
  <2>1. Soft!PassesOf(q)' = Soft!PassesOf(q) \cup {l + 1}
    <3>1. \A i \in 1..(l + 1) : i \in 1..l \/ i = l + 1
      BY <1>1
    <3>2. \A i \in 1..l : i \in 1..(l + 1) /\ all'[i].by = all[i].by
      BY <1>1
    <3>3. l + 1 \in Soft!PassesOf(q)'
      <4>1. l + 1 \in 1..(l + 1) /\ \A j \in (l + 1)..(l + 1) : j = l + 1
        BY <1>1
      <4> QED
        BY <1>1, <1>3, <1>8, <4>1
    <3>4. \A i \in 1..l : i \in Soft!PassesOf(q)' <=> i \in Soft!PassesOf(q)
      BY <1>2, <1>3, <1>5, <1>8, <3>2
    <3>5. Soft!PassesOf(q) \subseteq 1..l /\ Soft!PassesOf(q)' \subseteq 1..(l + 1)
      BY <1>2, <1>3
    <3> QED
      BY <3>1, <3>3, <3>4, <3>5
  <2>2. l + 1 \notin Soft!PassesOf(q)
    BY <1>1, <1>2
  <2> QED
    BY <1>4, <1>8, <2>1, <2>2, FS_AddElement
<1> QED
  BY <1>4, <1>6, <1>7, <1>8

\* Before the first review every counter is 0.
LEMMA SoftStart == Soft!SoftAssumption /\ Soft!Init => SoftInv
<1> SUFFICES ASSUME Soft!SoftAssumption, Soft!Init
             PROVE  SoftInv
  OBVIOUS
<1> USE DEF Soft!Init
<1>1. all \in Seq(Reviews) /\ Len(all) = 0 /\ DOMAIN all = {}
  OBVIOUS
<1>2. \A n \in Nat : count >= n <=> InARow(n)
  <2>1. ASSUME NEW n \in Nat
        PROVE  count >= n <=> InARow(n)
    <3>1. InARow(n) => n = 0
      BY <1>1 DEF InARow, Soft!AllPass
    <3>2. n = 0 => InARow(n)
      BY <1>1 DEF InARow, Soft!AllPass, Soft!NoPeerTwice
    <3> QED
      BY <3>1, <3>2
  <2> QED
    BY <2>1
<1>3. \A p \in Reviewers : Soft!PassesOf(p) = {}
  BY <1>1 DEF Soft!PassesOf
<1>4. \A p \in Reviewers : perPeer[p] = Cardinality(Soft!PassesOf(p))
  BY <1>3, FS_EmptySet
<1>5. Soft!LastN(all, HistoryCap) = << >>
  BY <1>1 DEF Soft!LastN, Soft!SoftAssumption
<1> QED
  BY <1>1, <1>2, <1>4, <1>5 DEF SoftInv

\* A review that is recorded leaves every counter true (_record_soft_review_from_commit).
LEMMA RecordKeepsSoft ==
  ASSUME Soft!SoftAssumption, SoftInv, NEW p \in Reviewers, NEW pass \in BOOLEAN,
         Soft!Record(p, pass)
  PROVE  SoftInv'
<1> DEFINE r == [pass |-> pass, by |-> p]
<1>1. /\ mode' = mode /\ all' = Append(all, r) /\ r \in Reviews
      /\ count' = IF mode \in Soft!Rolling THEN Soft!NextCount(p, pass) ELSE count
      /\ last' = IF mode \in Soft!Rolling THEN r ELSE last
      /\ perPeer' = [perPeer EXCEPT ![p] = IF pass THEN @ + 1 ELSE 0]
      /\ history' = Soft!LastN(Append(history, r), HistoryCap)
  BY DEF Soft!Record, Reviews
<1>2. /\ mode \in Modes /\ all \in Seq(Reviews) /\ count \in Nat /\ HistoryCap \in Nat
      /\ perPeer \in [Reviewers -> Nat] /\ history = Soft!LastN(all, HistoryCap)
      /\ \A q \in Reviewers : perPeer[q] = Cardinality(Soft!PassesOf(q))
  BY DEF SoftInv, Soft!SoftAssumption
<1>3. all' \in Seq(Reviews) /\ all' # << >> /\ all'[Len(all')] = r
  BY <1>1, <1>2
<1>4. /\ count' \in Nat
      /\ mode' \in Soft!Rolling => /\ last' = all'[Len(all')]
                                   /\ \A n \in Nat : count' >= n <=> InARow(n)'
  <2>1. CASE mode \in Soft!Rolling
    BY <1>1, <1>3, <2>1, CountGrows
  <2>2. CASE mode \notin Soft!Rolling
    BY <1>1, <1>2, <2>2 DEF Soft!Rolling
  <2> QED
    BY <2>1, <2>2
<1>5. perPeer' \in [Reviewers -> Nat]
  BY <1>1, <1>2
<1>6. \A q \in Reviewers : perPeer'[q] = Cardinality(Soft!PassesOf(q)')
  <2>1. ASSUME NEW q \in Reviewers
        PROVE  perPeer'[q] = Cardinality(Soft!PassesOf(q)')
    <3>1. perPeer'[q] = IF q # p THEN perPeer[q] ELSE IF pass THEN perPeer[q] + 1 ELSE 0
      BY <1>1, <1>2
    <3>2. Cardinality(Soft!PassesOf(q)') =
            IF q # p THEN Cardinality(Soft!PassesOf(q))
            ELSE IF pass THEN Cardinality(Soft!PassesOf(q)) + 1 ELSE 0
      BY <1>1, <1>2, PassesGrow
    <3> QED
      BY <1>2, <3>1, <3>2
  <2> QED
    BY <2>1
<1>7. history' = Soft!LastN(all', HistoryCap)
  BY <1>1, <1>2, LastNOfAppend
<1> QED
  BY <1>1, <1>2, <1>3, <1>4, <1>5, <1>6, <1>7 DEF SoftInv

\* The module of the reviews counts with the same operator.
LEMMA SameCardinality == \A S : Soft!Cardinality(S) = Cardinality(S)
BY DEF Cardinality, Soft!Cardinality

\* What the counters say is what the reviews say.
LEMMA CountersAreTrue ==
  ASSUME Soft!SoftAssumption, SoftInv
  PROVE  Soft!ConsensusIsEarned
<1>1. mode \in {"other", "alternating", "both", "quorum"} /\ ConsensusNeeded \in Nat
      /\ QuorumDen \in Nat /\ HistoryCap \in Nat /\ QuorumDen <= HistoryCap
  BY DEF SoftInv, Soft!SoftAssumption
<1>2. CASE mode \in {"other", "alternating"}
  <2>1. Soft!SoftGoalPassed <=> count >= ConsensusNeeded
    BY <1>2 DEF Soft!SoftGoalPassed, Soft!Rolling
  <2>2. Soft!Consensus <=> InARow(ConsensusNeeded)
    BY <1>2 DEF Soft!Consensus, Soft!Rolling, InARow
  <2>3. count >= ConsensusNeeded <=> InARow(ConsensusNeeded)
    BY <1>1, <1>2 DEF SoftInv, Soft!Rolling
  <2> QED
    BY <2>1, <2>2, <2>3 DEF Soft!ConsensusIsEarned
<1>3. CASE mode = "both"
  <2>1. Soft!SoftGoalPassed <=> \A p \in Reviewers : perPeer[p] >= ConsensusNeeded
    BY <1>3 DEF Soft!SoftGoalPassed, Soft!Rolling
  <2>2. Soft!Consensus <=> \A p \in Reviewers : Cardinality(Soft!PassesOf(p)) >= ConsensusNeeded
    BY <1>3, SameCardinality DEF Soft!Consensus, Soft!Rolling
  <2> QED
    BY <2>1, <2>2 DEF Soft!ConsensusIsEarned, SoftInv
<1>4. CASE mode = "quorum"
  <2> DEFINE recent == Soft!LastN(all, QuorumDen)
  <2>1. all \in Seq(Reviews)
    BY DEF SoftInv
  <2>2. Soft!LastN(history, QuorumDen) = recent
    BY <1>1, <2>1, LastNOfLastN DEF SoftInv
  <2>3. Len(recent) \in Nat /\ Len(recent) <= QuorumDen
    BY <1>1, <2>1, LastNIs
  <2>4. Soft!SoftGoalPassed <=> /\ Len(recent) >= QuorumDen
                                /\ Cardinality(Soft!Passers(recent)) >= QuorumNum
    BY <1>4, <2>2, SameCardinality DEF Soft!SoftGoalPassed, Soft!Rolling
  <2>5. Soft!Consensus <=> /\ Len(recent) = QuorumDen
                           /\ Cardinality(Soft!Passers(recent)) >= QuorumNum
    BY <1>4, SameCardinality DEF Soft!Consensus, Soft!QuorumReached, Soft!Rolling
  <2> HIDE DEF recent
  <2> QED
    BY <1>1, <2>3, <2>4, <2>5 DEF Soft!ConsensusIsEarned
<1> QED
  BY <1>1, <1>2, <1>3, <1>4

\* The counters of a soft goal say consensus exactly when the reviews do, in every
\* reviewer mode: a peer that passes its own work twice is one vote, one failure
\* undoes the passes before it, and a history that holds as many reviews as the
\* quorum asks for loses nothing when it is trimmed (driver_soft_reviews.py:355, 191).
THEOREM SoftEarned ==
  ASSUME Soft!SoftAssumption
  PROVE  Soft!Spec => []Soft!ConsensusIsEarned
<1>1. Soft!Init => SoftInv
  BY SoftStart
<1>2. SoftInv /\ [Soft!Next]_Soft!vars => SoftInv'
  <2>1. ASSUME SoftInv, UNCHANGED Soft!vars
        PROVE  SoftInv'
    BY <2>1 DEF Soft!vars, SoftInv, InARow, Soft!AllPass, Soft!NoPeerTwice, Soft!PassesOf
  <2> QED
    BY <2>1, RecordKeepsSoft DEF Soft!Next
<1>3. SoftInv => Soft!ConsensusIsEarned
  BY CountersAreTrue
<1> QED
  BY <1>1, <1>2, <1>3, PTL DEF Soft!Spec

-----------------------------------------------------------------------------
(* The plan.  Each commit of the history passed the hook on the history before
   it, which no later commit changes; and an acknowledgement that is under way
   writes a mark only where its own entry, or an older one, is in the log.    *)

Commitments == [by : Peers, files : SUBSET PlanFiles, checked : SUBSET Steps,
                signs : SUBSET PlanFiles]
PlanMarks == [Steps -> Plan!Marks]

\* The commits of a history that change f before the n-th, and who made the last.
ChangingIn(h, f, n) == {i \in 1..(n - 1) : f \in h[i].files}
ChangerIn(h, f, n) ==
  IF ChangingIn(h, f, n) = {} THEN {} ELSE {h[Plan!LastOf(ChangingIn(h, f, n))].by}

\* The n-th commit of a history passed the hook, which nobody's signature helped.
Hooked(h, n) ==
  \A s \in h[n].checked : \A f \in Touches[s] : h[n].by \notin ChangerIn(h, f, n)

PlanInv ==
  /\ plan \in PlanMarks /\ hist \in Seq(Commitments)
  /\ Signed = {} => \A n \in 1..Len(hist) : Hooked(hist, n)
  /\ \A s \in Steps : plan[s] = "blocked-ack" => s \in blocks
  /\ \A o \in Operators :
       /\ op[o].at \in {"log", "plan"} => op[o].text \in PlanMarks
       /\ op[o].at = "log" =>
            \A s \in Steps : op[o].text[s] = "blocked-ack" => s \in blocks \cup {op[o].step}
       /\ op[o].at = "plan" =>
            \A s \in Steps : op[o].text[s] = "blocked-ack" => s \in blocks

\* The last of some commits is one of them.
LEMMA LastIsOne ==
  ASSUME NEW n \in Nat, NEW S \in SUBSET (1..n), S # {}
  PROVE  Plan!LastOf(S) \in S /\ \A k \in S : k <= Plan!LastOf(S)
<1>1. S \in SUBSET (0..n)
  OBVIOUS
<1>2. \E m \in S : \A k \in S : k <= m
  BY <1>1, GreatestNatural
<1> QED
  BY <1>2 DEF Plan!LastOf

\* Who changed a file before a commit is not changed by the commits after it.
LEMMA ChangerStays ==
  ASSUME NEW h \in Seq(Commitments), NEW c \in Commitments, NEW n \in 1..(Len(h) + 1), NEW f
  PROVE  ChangerIn(Append(h, c), f, n) = ChangerIn(h, f, n)
<1> DEFINE g == Append(h, c)
<1>1. Len(h) \in Nat /\ \A i \in 1..Len(h) : g[i] = h[i]
  OBVIOUS
<1> HIDE DEF g
<1>2. \A i \in 1..(n - 1) : i \in 1..Len(h)
  BY <1>1
<1>3. ChangingIn(g, f, n) = ChangingIn(h, f, n)
  BY <1>1, <1>2 DEF ChangingIn
<1>4. ASSUME ChangingIn(h, f, n) # {}
      PROVE  Plan!LastOf(ChangingIn(h, f, n)) \in 1..Len(h)
  <2>1. ChangingIn(h, f, n) \in SUBSET (1..Len(h))
    BY <1>2 DEF ChangingIn
  <2> QED
    BY <1>1, <1>4, <2>1, LastIsOne
<1>5. ChangerIn(g, f, n) = ChangerIn(h, f, n)
  BY <1>1, <1>3, <1>4 DEF ChangerIn
<1> QED
  BY <1>5 DEF g

\* The model's operator is that one of the history there is.
LEMMA ImplIsChanger == \A f, n : Plan!LastImplIdentity(f, n) = ChangerIn(hist, f, n)
BY DEF Plan!LastImplIdentity, Plan!Changing, ChangerIn, ChangingIn

\* A commit that passes the hook extends a history of such commits.
LEMMA CommitKeepsPlan ==
  ASSUME PlanInv, NEW p \in Peers, NEW changed \in SUBSET PlanFiles,
         NEW signs \in SUBSET PlanFiles,
         NEW staged \in BOOLEAN, Plan!Commit(p, changed, signs, staged)
  PROVE  PlanInv'
<1> DEFINE next == IF staged THEN plan ELSE head
           checked == {s \in Steps : head[s] = "open" /\ next[s] = "done"}
           c == [by |-> p, files |-> changed, checked |-> checked, signs |-> signs]
<1>1. /\ Plan!HookPasses(p, checked) /\ hist' = Append(hist, c)
      /\ UNCHANGED <<plan, blocks, op>>
  BY DEF Plan!Commit
<1>2. c \in Commitments /\ c.by = p /\ c.checked = checked
  BY DEF Commitments
<1> HIDE DEF c, checked, next
<1>3. hist \in Seq(Commitments) /\ Len(hist) \in Nat
  BY DEF PlanInv
<1>4. /\ hist' \in Seq(Commitments) /\ Len(hist') = Len(hist) + 1 /\ hist'[Len(hist) + 1] = c
      /\ \A i \in 1..Len(hist) : hist'[i] = hist[i]
  BY <1>1, <1>2, <1>3
<1>5. ASSUME Signed = {}, NEW n \in 1..Len(hist')
      PROVE  Hooked(hist', n)
  <2>1. n \in 1..(Len(hist) + 1) /\ \A f : ChangerIn(hist', f, n) = ChangerIn(hist, f, n)
    BY <1>1, <1>2, <1>3, <1>4, ChangerStays
  <2>2. CASE n \in 1..Len(hist)
    BY <1>4, <1>5, <2>1, <2>2 DEF Hooked, PlanInv
  <2>3. CASE n = Len(hist) + 1
    <3>1. \A s \in checked : \A f \in Touches[s] : p \notin ChangerIn(hist, f, n)
      BY <1>1, <1>5, <2>3, ImplIsChanger DEF Plan!HookPasses
    <3> QED
      BY <1>2, <1>4, <2>1, <2>3, <3>1 DEF Hooked
  <2> QED
    BY <1>3, <2>1, <2>2, <2>3
<1> QED
  BY <1>1, <1>4, <1>5 DEF PlanInv

\* An edit of the plan, or a step of an acknowledgement, marks nothing unaudited.
LEMMA EditKeepsPlan ==
  ASSUME PlanInv,
         \/ \E s \in Steps, m \in Plan!Marks : Plan!EditMark(s, m)
         \/ \E o \in Operators : \/ \E s \in Steps : Plan!AckRead(o, s)
                                 \/ Plan!AckLog(o) \/ Plan!AckWrite(o) \/ Plan!AckKilled(o)
  PROVE  PlanInv'
<1>0. plan \in PlanMarks
  BY DEF PlanInv
<1>1. ASSUME NEW s \in Steps, NEW m \in Plan!Marks, Plan!EditMark(s, m)
      PROVE  PlanInv'
  BY <1>0, <1>1 DEF Plan!EditMark, PlanInv, PlanMarks, Plan!Marks
<1>2. ASSUME NEW o \in Operators, NEW s \in Steps, Plan!AckRead(o, s)
      PROVE  PlanInv'
  BY <1>0, <1>2 DEF Plan!AckRead, PlanInv, PlanMarks, Plan!Marks
<1>3. ASSUME NEW o \in Operators, Plan!AckLog(o)
      PROVE  PlanInv'
  BY <1>0, <1>3 DEF Plan!AckLog, PlanInv
<1>4. ASSUME NEW o \in Operators, Plan!AckWrite(o)
      PROVE  PlanInv'
  BY <1>0, <1>4 DEF Plan!AckWrite, Plan!Quiet, PlanInv
<1>5. ASSUME NEW o \in Operators, Plan!AckKilled(o)
      PROVE  PlanInv'
  BY <1>0, <1>5 DEF Plan!AckKilled, Plan!Quiet, PlanInv
<1> QED
  BY <1>1, <1>2, <1>3, <1>4, <1>5

\* A history whose every commit passed the reviewer hook passes the reviewer gate
\* too, whatever was unchecked, redone or checked again, and no step is acknowledged
\* without its entry in blocks.log
\* (checkoff_by_other_peer.py:150, peers_ctl/cli.py:1060).
THEOREM PlanHonest ==
  Plan!Spec => []Plan!PlanIsHonest
<1>1. Plan!Init => PlanInv
  BY DEF Plan!Init, Plan!Quiet, PlanInv, PlanMarks, Plan!Marks
<1>2. PlanInv /\ [Plan!Next]_Plan!vars => PlanInv'
  <2>1. ASSUME PlanInv, UNCHANGED Plan!vars
        PROVE  PlanInv'
    BY <2>1 DEF Plan!vars, PlanInv
  <2> QED
    BY <2>1, CommitKeepsPlan, EditKeepsPlan DEF Plan!Next
<1>3. PlanInv => Plan!PlanIsHonest
  <2>1. ASSUME PlanInv, Signed = {}, NEW s \in Steps, Plan!CheckoffsOf(s) # {}
        PROVE  \A f \in Touches[s] :
                 LET n == Plan!FindCheckoffCommit(s)
                 IN  hist[n].by \notin Plan!LastImplIdentity(f, n)
    <3>1. Plan!CheckoffsOf(s) \in SUBSET (1..Len(hist)) /\ Len(hist) \in Nat
      BY <2>1 DEF Plan!CheckoffsOf, PlanInv
    <3>2. Plan!FindCheckoffCommit(s) \in Plan!CheckoffsOf(s)
      BY <2>1, <3>1, LastIsOne DEF Plan!FindCheckoffCommit
    <3> QED
      BY <2>1, <3>2, ImplIsChanger DEF Plan!CheckoffsOf, PlanInv, Hooked
  <2>2. PlanInv => Plan!HookedHistoryIsClean
    BY <2>1 DEF Plan!HookedHistoryIsClean, Plan!CheckoffByOtherPeer
  <2> QED
    BY <2>2 DEF Plan!PlanIsHonest, Plan!NoUnauditedAck, PlanInv
<1> QED
  BY <1>1, <1>2, <1>3, PTL DEF Plan!Spec

-----------------------------------------------------------------------------
(* The call of a peer.  What a buffer holds, unless its middle was dropped, is the
   beginning of what the child wrote; when nothing was classified and the readers
   are told to stop, the child is gone and, but for a reader its tee holds up,
   everything it wrote has been read.                                            *)

\* What a buffer that was not truncated holds.
Holds(b, text, n) == b \in Seq(Call!Fragments) /\ Len(b) = n /\ \A i \in 1..n : b[i] = text[i]

CallTypes ==
  /\ wrote \in [Call!Streams -> Nat] /\ taken \in [Call!Streams -> Nat]
  /\ cut \in [Call!Streams -> BOOLEAN]
  /\ DOMAIN buf = Call!Streams /\ reader \in [Call!Streams -> {"reads", "stalled", "done"}]
  /\ \A s \in Call!Streams : /\ script[s] \in Seq(Call!Fragments)
                             /\ taken[s] <= wrote[s] /\ wrote[s] <= Len(script[s])

BufferHolds ==
  \A s \in Call!Streams : ~cut[s] => Holds(buf[s], script[s], taken[s])

Closing == {"drain", "join", "verdict"}
ChildIsGone ==
  /\ sawExit => child # "running"
  /\ mon \in Closing /\ class = "none" => child # "running"
  /\ class \in {"success", "rate-limited"} => mon = "done" /\ child # "running"
  /\ mon \in Closing \cup {"done"} \/ class = "none"

ReadersAreDone ==
  \A s \in Call!Streams :
    /\ reader[s] = "stalled" => script.tee
    /\ reader[s] = "done" /\ ~stop => child # "running" /\ taken[s] = wrote[s]
    /\ mon \in {"join", "verdict"} /\ class = "none" /\ ~script.tee => taken[s] = wrote[s]

StopIsLate == stop <=> mon \in {"join", "verdict", "done"}

CallInv == /\ CallTypes /\ BufferHolds /\ ChildIsGone /\ ReadersAreDone /\ StopIsLate
           /\ Call!SuccessIsClean

\* A buffer that holds all of a text is that text.
LEMMA HoldsAll ==
  ASSUME NEW text \in Seq(Call!Fragments), NEW n \in Nat, n <= Len(text), NEW b, Holds(b, text, n)
  PROVE  b = SubSeq(text, 1, n)
<1> DEFINE whole == SubSeq(text, 1, n)
<1>1. Len(text) \in Nat /\ whole \in Seq(Call!Fragments) /\ Len(whole) = n
      /\ \A i \in 1..n : whole[i] = text[i]
  OBVIOUS
<1> HIDE DEF whole
<1>2. b = whole
  BY <1>1 DEF Holds
<1> QED
  BY <1>2 DEF whole

\* What two texts one behind the other are.
LEMMA JoinedTexts ==
  ASSUME NEW S, NEW a \in Seq(S), NEW b \in Seq(S)
  PROVE  /\ a \o b \in Seq(S) /\ Len(a \o b) = Len(a) + Len(b)
         /\ Len(a) \in Nat /\ Len(b) \in Nat
         /\ \A i \in 1..Len(a) : (a \o b)[i] = a[i]
         /\ \A i \in 1..Len(b) : (a \o b)[Len(a) + i] = b[i]
OBVIOUS

\* A chunk that is read is put behind what was read before (health_guard.py:549).
LEMMA ChunkIsKept ==
  ASSUME NEW text \in Seq(Call!Fragments), NEW t \in Nat, NEW n \in Nat \ {0},
         t + n <= Len(text), NEW b, Holds(b, text, t)
  PROVE  Holds(b \o SubSeq(text, t + 1, t + n), text, t + n)
<1> DEFINE chunk == SubSeq(text, t + 1, t + n)
           kept == b \o chunk
<1>1. /\ Len(text) \in Nat /\ chunk \in Seq(Call!Fragments) /\ Len(chunk) = n
      /\ \A i \in 1..n : chunk[i] = text[t + i]
  OBVIOUS
<1>2. b \in Seq(Call!Fragments) /\ Len(b) = t /\ \A i \in 1..t : b[i] = text[i]
  BY DEF Holds
<1> HIDE DEF chunk
<1>3. /\ kept \in Seq(Call!Fragments) /\ Len(kept) = t + n
      /\ \A i \in 1..(t + n) : kept[i] = IF i <= t THEN b[i] ELSE chunk[i - t]
  <2>1. /\ Len(b) \in Nat /\ Len(chunk) \in Nat
        /\ kept \in Seq(Call!Fragments) /\ Len(kept) = Len(b) + Len(chunk)
        /\ \A i \in 1..Len(b) : kept[i] = b[i]
        /\ \A i \in 1..Len(chunk) : kept[Len(b) + i] = chunk[i]
    <3>1. b \in Seq(Call!Fragments) /\ chunk \in Seq(Call!Fragments)
      BY <1>1, <1>2
    <3> QED
      BY <3>1, JoinedTexts
  <2> HIDE DEF kept
  <2>2. \A i \in 1..(t + n) : i > t => i - t \in 1..n /\ t + (i - t) = i
    OBVIOUS
  <2> QED
    BY <1>1, <1>2, <2>1, <2>2
<1> HIDE DEF kept
<1>4. ASSUME NEW i \in 1..(t + n)
      PROVE  kept[i] = text[i]
  <2>1. CASE i <= t
    BY <1>2, <1>3, <2>1
  <2>2. CASE i > t
    <3>1. i - t \in 1..n /\ t + (i - t) = i
      BY <2>2
    <3>2. kept[i] = chunk[i - t] /\ chunk[i - t] = text[t + (i - t)]
      BY <1>1, <1>3, <2>2, <3>1
    <3> QED
      BY <3>1, <3>2
  <2> QED
    BY <2>1, <2>2
<1>5. Holds(kept, text, t + n)
  BY <1>3, <1>4 DEF Holds
<1> QED
  BY <1>5 DEF kept, chunk

\* The child writes on, or exits.
LEMMA ChildSteps ==
  ASSUME CallInv, Call!ChildExits \/ \E s \in Call!Streams : Call!ChildWrites(s)
  PROVE  CallInv'
<1>1. CASE Call!ChildExits
  <2>1. child' = "exited" /\ UNCHANGED <<script, Call!ioVars, stop, mon, sawExit, class>>
    BY <1>1 DEF Call!ChildExits
  <2> QED
    BY <2>1 DEF CallInv, CallTypes, BufferHolds, ChildIsGone, ReadersAreDone, StopIsLate,
       Call!ioVars, Call!SuccessIsClean, Call!Written
<1>2. ASSUME NEW s \in Call!Streams, Call!ChildWrites(s)
      PROVE  CallInv'
  <2>1. /\ child = "running" /\ wrote[s] < Len(script[s])
        /\ wrote' = [wrote EXCEPT ![s] = @ + 1]
        /\ UNCHANGED <<script, child, taken, buf, cut, reader, stop, mon, sawExit, class>>
    BY <1>2 DEF Call!ChildWrites
  <2>2. CallTypes'
    BY <2>1 DEF CallInv, CallTypes
  <2>3. BufferHolds' /\ ChildIsGone' /\ StopIsLate'
    BY <2>1 DEF CallInv, BufferHolds, ChildIsGone, StopIsLate
  <2>4. ~(mon \in Closing /\ class = "none") /\ class \notin {"success", "rate-limited"}
    BY <2>1 DEF CallInv, ChildIsGone
  <2>5. ReadersAreDone'
    BY <2>1, <2>4 DEF CallInv, ReadersAreDone, Closing
  <2>6. Call!SuccessIsClean'
    BY <2>1, <2>4 DEF Call!SuccessIsClean
  <2> QED
    BY <2>2, <2>3, <2>5, <2>6 DEF CallInv
<1> QED
  BY <1>1, <1>2

\* A reader takes a chunk, comes back from its tee, or ends.
LEMMA ReaderSteps ==
  ASSUME CallInv, NEW s \in Call!Streams,
         Call!ReadChunk(s) \/ Call!TeeReturns(s) \/ Call!ReaderEnds(s)
  PROVE  CallInv'
<1>1. CASE Call!ReadChunk(s)
  <2>1. /\ reader[s] = "reads" /\ ~stop
        /\ UNCHANGED <<script, child, wrote, stop, mon, sawExit, class>>
        /\ reader' = [reader EXCEPT ![s] = IF script.tee THEN "stalled" ELSE @]
    BY <1>1 DEF Call!ReadChunk
  <2>2. PICK n \in 1..(wrote[s] - taken[s]) :
          /\ taken' = [taken EXCEPT ![s] = @ + n]
          /\ Call!AppendChunk(s, SubSeq(script[s], taken[s] + 1, taken[s] + n))
    BY <1>1 DEF Call!ReadChunk
  <2> DEFINE kept == buf[s] \o SubSeq(script[s], taken[s] + 1, taken[s] + n)
  <2>3. /\ buf' = [buf EXCEPT ![s] = Call!Truncate(kept)]
        /\ cut' = [cut EXCEPT ![s] = @ \/ Len(kept) > BufCap]
    BY <2>2 DEF Call!AppendChunk
  <2>4. /\ n \in Nat \ {0} /\ taken[s] \in Nat /\ wrote[s] \in Nat
        /\ taken[s] + n <= wrote[s] /\ wrote[s] <= Len(script[s])
        /\ script[s] \in Seq(Call!Fragments) /\ Len(script[s]) \in Nat
    BY <2>2 DEF CallInv, CallTypes
  <2>5. ~cut[s] => Holds(kept, script[s], taken[s] + n)
    BY <2>4, ChunkIsKept DEF CallInv, BufferHolds
  <2> HIDE DEF kept
  <2>6. CallTypes'
    BY <2>1, <2>2, <2>3, <2>4 DEF CallInv, CallTypes
  <2>7. BufferHolds'
    <3>1. SUFFICES ASSUME NEW r \in Call!Streams, ~cut'[r]
                   PROVE  Holds(buf'[r], script[r], taken'[r])
      BY <2>1 DEF BufferHolds, Holds
    <3>2. CASE r # s
      BY <2>2, <2>3, <3>1, <3>2 DEF CallInv, CallTypes, BufferHolds
    <3>3. CASE r = s
      <4>1. ~cut[s] /\ ~(Len(kept) > BufCap)
        BY <2>3, <3>1, <3>3 DEF CallInv, CallTypes
      <4>2. Call!Truncate(kept) = kept
        BY <4>1 DEF Call!Truncate
      <4> QED
        BY <2>2, <2>3, <2>5, <3>3, <4>1, <4>2 DEF CallInv, CallTypes
    <3> QED
      BY <3>2, <3>3
  <2>8. mon \notin {"join", "verdict", "done"}
    BY <2>1 DEF CallInv, StopIsLate
  <2>9. ReadersAreDone'
    BY <2>1, <2>2, <2>4, <2>8 DEF CallInv, CallTypes, ReadersAreDone
  <2>10. ChildIsGone' /\ StopIsLate' /\ Call!SuccessIsClean'
    BY <2>1, <2>8 DEF CallInv, ChildIsGone, StopIsLate, Call!SuccessIsClean
  <2> QED
    BY <2>6, <2>7, <2>9, <2>10 DEF CallInv
<1>2. ASSUME \/ reader[s] = "stalled" /\ reader' = [reader EXCEPT ![s] = "reads"]
             \/ /\ stop \/ (child # "running" /\ taken[s] = wrote[s])
                /\ reader' = [reader EXCEPT ![s] = "done"],
             UNCHANGED <<script, child, wrote, taken, buf, cut, stop, mon, sawExit, class>>
      PROVE  CallInv'
  <2>1. CallTypes'
    BY <1>2 DEF CallInv, CallTypes
  <2>2. ReadersAreDone'
    BY <1>2 DEF CallInv, CallTypes, ReadersAreDone
  <2>3. BufferHolds' /\ ChildIsGone' /\ StopIsLate' /\ Call!SuccessIsClean'
    BY <1>2 DEF CallInv, BufferHolds, ChildIsGone, StopIsLate, Call!SuccessIsClean,
         Call!Written
  <2> QED
    BY <2>1, <2>2, <2>3 DEF CallInv
<1>3. CASE Call!TeeReturns(s)
  BY <1>2, <1>3 DEF Call!TeeReturns
<1>4. CASE Call!ReaderEnds(s)
  BY <1>2, <1>4 DEF Call!ReaderEnds
<1> QED
  BY <1>1, <1>3, <1>4

\* While it polls, the monitor classifies nothing but a call it stops, and leaves the
\* loop otherwise only for a child whose status it has seen.
LEMMA MonitorGoesOn ==
  ASSUME CallInv, mon \in {"poll", "scanOut", "scanErr", "timers", "sleep"},
         UNCHANGED <<script, wrote, taken, buf, cut, reader, stop>>,
         child' = child \/ child' = "killed",
         mon' \in {"poll", "scanOut", "scanErr", "timers", "sleep", "drain"},
         sawExit' => child' # "running",
         \/ class' = class /\ (mon' = "drain" => child # "running")
         \/ mon' = "drain" /\ class' \in {"api-error", "process-fail", "idle-timeout", "absolute-timeout"}
  PROVE  CallInv'
<1>1. class = "none" /\ ~stop
  BY DEF CallInv, ChildIsGone, StopIsLate, Closing
<1>2. CallTypes' /\ BufferHolds'
  BY DEF CallInv, CallTypes, BufferHolds
<1>3. ChildIsGone'
  BY <1>1 DEF CallInv, ChildIsGone, Closing
<1>4. ReadersAreDone'
  BY DEF CallInv, ReadersAreDone
<1>5. StopIsLate' /\ Call!SuccessIsClean'
  BY <1>1 DEF StopIsLate, Call!SuccessIsClean
<1> QED
  BY <1>2, <1>3, <1>4, <1>5 DEF CallInv

\* The steps of the poll loop (health_guard.py).
LEMMA MonitorPolls ==
  ASSUME CallInv,
         \/ Call!Poll \/ Call!Scan \/ Call!HangKill \/ Call!IdleTimeout
         \/ Call!AbsoluteTimeout \/ Call!Rest \/ Call!Sleep
  PROVE  CallInv'
<1>1. sawExit => child # "running"
  BY DEF CallInv, ChildIsGone
<1>2. ASSUME NEW verdict, NEW halts, Call!Stops(verdict, halts)
      PROVE  /\ class' = verdict /\ mon' = "drain"
             /\ child' = child \/ child' = "killed"
             /\ child # "running" => child' # "running"
  BY <1>2 DEF Call!Stops, Call!TerminateAndReap
<1>3. CASE Call!Poll
  BY <1>3, MonitorGoesOn DEF Call!Poll, Call!ioVars
<1>4. ASSUME NEW s \in Call!Streams, NEW here \in {"scanOut", "scanErr"},
             NEW next \in {"scanErr", "timers", "drain"},
             next = "drain" => sawExit, Call!ScanNew(s, here, next)
      PROVE  CallInv'
  <2>1. /\ mon = here /\ UNCHANGED <<script, wrote, taken, buf, cut, reader, stop, sawExit>>
        /\ \/ \E halts : Call!Stops("api-error", halts)
           \/ mon' = next /\ UNCHANGED <<child, class>>
           \/ Call!Stops("process-fail", FALSE)
    BY <1>4 DEF Call!ScanNew
  <2>2. CASE mon' = next /\ UNCHANGED <<child, class>>
    BY <1>1, <1>4, <2>1, <2>2, MonitorGoesOn
  <2>3. CASE (\E halts : Call!Stops("api-error", halts)) \/ Call!Stops("process-fail", FALSE)
    <3>1. /\ class' \in {"api-error", "process-fail"} /\ mon' = "drain"
          /\ child' = child \/ child' = "killed"
          /\ child # "running" => child' # "running"
      BY <1>2, <2>3
    <3> QED
      BY <1>1, <2>1, <3>1, MonitorGoesOn
  <2> QED
    BY <2>1, <2>2, <2>3
<1>5. CASE Call!Scan
  <2>1. CASE Call!ScanNew("out", "scanOut", "scanErr")
    BY <1>4, <2>1 DEF Call!Streams
  <2>2. CASE Call!ScanNew("err", "scanErr", IF sawExit THEN "drain" ELSE "timers")
    BY <1>4, <2>2 DEF Call!Streams
  <2> QED
    BY <1>5, <2>1, <2>2 DEF Call!Scan
<1>6. ASSUME \E verdict \in {"idle-timeout", "absolute-timeout"} : Call!Stops(verdict, FALSE),
             mon = "timers", UNCHANGED <<script, Call!ioVars, stop, sawExit>>
      PROVE  CallInv'
  <2>1. /\ class' \in {"idle-timeout", "absolute-timeout"} /\ mon' = "drain"
        /\ child' = child \/ child' = "killed"
        /\ child # "running" => child' # "running"
    BY <1>2, <1>6
  <2> QED
    BY <1>1, <1>6, <2>1, MonitorGoesOn DEF Call!ioVars
<1>7. CASE Call!HangKill \/ Call!AbsoluteTimeout
  BY <1>6, <1>7 DEF Call!HangKill, Call!AbsoluteTimeout
<1>8. CASE Call!IdleTimeout
  <2>1. CASE Call!Stops("idle-timeout", FALSE)
    BY <1>6, <1>8, <2>1 DEF Call!IdleTimeout
  <2>2. CASE mon' = "poll" /\ UNCHANGED <<child, class>>
    BY <1>1, <1>8, <2>2, MonitorGoesOn DEF Call!IdleTimeout, Call!ioVars
  <2> QED
    BY <1>8, <2>1, <2>2 DEF Call!IdleTimeout
<1>9. CASE Call!Rest \/ Call!Sleep
  <2>1. /\ mon \in {"timers", "sleep"} /\ mon' \in {"sleep", "poll"}
        /\ UNCHANGED <<script, child, wrote, taken, buf, cut, reader, stop, sawExit, class>>
    BY <1>9 DEF Call!Rest, Call!Sleep, Call!ioVars
  <2> QED
    BY <1>1, <2>1, MonitorGoesOn
<1> QED
  BY <1>3, <1>5, <1>7, <1>8, <1>9

\* The readers are told to stop, and waited for.
LEMMA MonitorJoins ==
  ASSUME CallInv, Call!RequestStop \/ Call!Join
  PROVE  CallInv'
<1>1. UNCHANGED <<script, child, wrote, taken, buf, cut, reader, sawExit, class>>
  BY DEF Call!RequestStop, Call!Join, Call!ioVars
<1>2. CallTypes' /\ BufferHolds'
  BY <1>1 DEF CallInv, CallTypes, BufferHolds
<1>3. CASE Call!RequestStop
  <2>1. /\ mon = "drain" /\ mon' = "join" /\ stop' = TRUE
        /\ \A s \in Call!Streams : reader[s] = "reads" => taken[s] = wrote[s]
    BY <1>3 DEF Call!RequestStop
  <2>2. ~stop
    BY <2>1 DEF CallInv, StopIsLate
  <2>3. ChildIsGone' /\ StopIsLate' /\ Call!SuccessIsClean'
    BY <1>1, <2>1 DEF CallInv, ChildIsGone, StopIsLate, Closing, Call!SuccessIsClean
  <2>4. ReadersAreDone'
    BY <1>1, <2>1, <2>2 DEF CallInv, CallTypes, ReadersAreDone
  <2> QED
    BY <1>2, <2>3, <2>4 DEF CallInv
<1>4. CASE Call!Join
  <2>1. mon = "join" /\ mon' = "verdict" /\ stop' = stop
    BY <1>4 DEF Call!Join
  <2> QED
    BY <1>1, <1>2, <2>1 DEF CallInv, ChildIsGone, StopIsLate, ReadersAreDone, Closing,
       Call!SuccessIsClean
<1> QED
  BY <1>3, <1>4

\* A call is a success, or rate-limited, when no buffer has an actionable match, and
\* the buffers hold all the child wrote (health_guard.py:1133).
LEMMA MonitorJudges ==
  ASSUME CallInv, Call!Verdict
  PROVE  CallInv'
<1>1. /\ mon = "verdict" /\ mon' = "done"
      /\ UNCHANGED <<script, child, wrote, taken, buf, cut, reader, stop, sawExit>>
  BY DEF Call!Verdict, Call!ioVars
<1>2. PICK hit \in IF class = "none" THEN {Call!Rescan, "slow"} ELSE {"none"} :
        LET first == CASE hit \in {"halt", "error"} -> "api-error"
                       [] hit = "slow" -> "process-fail"
                       [] OTHER -> class
            halts == halted \/ hit = "halt" \/ Call!StructuredHalt
        IN class' = CASE ~halted /\ hit # "halt" /\ Call!StructuredHalt -> "api-error"
                      [] ~halts /\ first = "none" /\ Call!StructuredTransient -> "rate-limited"
                      [] ~(halts \/ Call!StructuredTransient) /\ first = "none" ->
                           IF rc = "ok" THEN "success" ELSE "process-fail"
                      [] OTHER -> first
  BY DEF Call!Verdict
<1>3. \A t : Call!FirstActionableMatch(t) \in {"halt", "error", "none"}
  BY DEF Call!FirstActionableMatch
<1>4. class \notin {"success", "rate-limited"}
  BY <1>1 DEF CallInv, ChildIsGone
<1>5. class' \in {"success", "rate-limited"} =>
        class = "none" /\ hit = Call!Rescan /\ hit \notin {"halt", "error"}
  BY <1>2, <1>4
<1>6. class' \in {"success", "rate-limited"} =>
        \A s \in Call!Streams : Call!FirstActionableMatch(buf[s]) = "none"
  <2>1. ASSUME Call!Rescan \notin {"halt", "error"}
        PROVE  /\ Call!FirstActionableMatch(buf["out"]) = "none"
               /\ Call!FirstActionableMatch(buf["err"]) = "none"
    BY <1>3, <2>1 DEF Call!Rescan
  <2> QED
    BY <1>5, <2>1 DEF Call!Streams
<1>7. CallTypes' /\ BufferHolds'
  BY <1>1 DEF CallInv, CallTypes, BufferHolds
<1>8. ChildIsGone' /\ StopIsLate'
  BY <1>1, <1>5 DEF CallInv, ChildIsGone, StopIsLate, Closing
<1>9. ReadersAreDone'
  BY <1>1 DEF CallInv, ReadersAreDone
<1>10. Call!SuccessIsClean'
  <2>1. SUFFICES ASSUME class' \in {"success", "rate-limited"}, NEW s \in Call!Streams,
                        ~cut[s], ~(script.tee /\ taken[s] < wrote[s])
                 PROVE  Call!FirstActionableMatch(Call!Written(s)) = "none"
    BY <1>1 DEF Call!SuccessIsClean, Call!Written
  <2>2. taken[s] = wrote[s]
    <3>1. /\ taken[s] \in Nat /\ wrote[s] \in Nat /\ taken[s] <= wrote[s]
          /\ ~script.tee => taken[s] = wrote[s]
      BY <1>1, <1>5, <2>1 DEF CallInv, CallTypes, ReadersAreDone
    <3> QED
      BY <2>1, <3>1
  <2>3. buf[s] = SubSeq(script[s], 1, wrote[s])
    BY <2>1, <2>2, HoldsAll DEF CallInv, CallTypes, BufferHolds
  <2> QED
    BY <1>6, <2>1, <2>3 DEF Call!Written
<1> QED
  BY <1>7, <1>8, <1>9, <1>10 DEF CallInv

\* No step of the child, a reader, the collector or the tee breaks it.
LEMMA CallStep ==
  ASSUME CallInv, [Call!Next]_(Call!vars)
  PROVE  CallInv'
<1>1. CASE UNCHANGED Call!vars
  BY <1>1 DEF Call!vars, CallInv, CallTypes, BufferHolds, ChildIsGone, ReadersAreDone,
     StopIsLate, Call!SuccessIsClean, Call!Written
<1>2. CASE Call!Next
  BY <1>2, ChildSteps, ReaderSteps, MonitorPolls, MonitorJoins, MonitorJudges
     DEF Call!Next, Call!Monitor
<1> QED
  BY <1>1, <1>2

\* Whatever the timing of the threads, a call is a success, or rate-limited, only if no
\* actionable error is in what the child wrote, but for what was truncated and what a
\* reader that its tee held up left in the pipe (health_guard.py:1133).
THEOREM CallClean ==
  ASSUME Call!InvocationAssumption
  PROVE  Call!Init /\ [][Call!Next]_(Call!vars) => []Call!SuccessIsClean
<1>1. Call!Init => CallInv
  <2>1. SUFFICES ASSUME Call!Init PROVE CallInv
    OBVIOUS
  <2>2. \A s \in Call!Streams : script[s] \in Seq(Call!Fragments) /\ Len(script[s]) \in Nat
    <3>1. script \in [out : Seq(Call!Fragments), err : Seq(Call!Fragments), tee : BOOLEAN]
      BY <2>1 DEF Call!Init, Call!InvocationAssumption
    <3>2. script["out"] \in Seq(Call!Fragments) /\ script["err"] \in Seq(Call!Fragments)
      BY <3>1
    <3> QED
      BY <3>2 DEF Call!Streams
  <2>3. CallTypes
    BY <2>1, <2>2 DEF Call!Init, Call!Empty, CallTypes
  <2>4. BufferHolds
    <3>1. <<>> \in Seq(Call!Fragments) /\ Len(<<>>) = 0
      OBVIOUS
    <3> QED
      BY <2>1, <3>1 DEF Call!Init, Call!Empty, BufferHolds, Holds
  <2>5. mon = "poll" /\ class = "none" /\ stop = FALSE /\ sawExit = FALSE
    BY <2>1 DEF Call!Init
  <2>6. \A s \in Call!Streams : reader[s] = "reads"
    BY <2>1 DEF Call!Init
  <2> QED
    BY <2>3, <2>4, <2>5, <2>6 DEF CallInv, ChildIsGone, ReadersAreDone, StopIsLate,
       Call!SuccessIsClean, Closing
<1>2. CallInv /\ [Call!Next]_(Call!vars) => CallInv'
  BY CallStep
<1>3. CallInv => Call!SuccessIsClean
  BY DEF CallInv
<1> QED
  BY <1>1, <1>2, <1>3, PTL

-----------------------------------------------------------------------------
(* The bug ledger.  What the scan knows after a commit is told of the commits  *)
(* from there on: the newest report, the highest severity, and the newest word *)
(* on the bug if no report is newer.                                           *)

ReportsFrom(i) == {j \in i..Len(log) : log[j].report # Bugs!None}
WordsFrom(i) == {j \in i..Len(log) : log[j].resolve # Bugs!None \/ log[j].defer}
WordOf(c) == IF c.resolve # Bugs!None THEN c.resolve ELSE "deferred"

Known(i, s) ==
  /\ s.report = 0 => ReportsFrom(i) = {} /\ s.sev = Bugs!None
  /\ s.report # 0 => s.report \in ReportsFrom(i) /\ \A j \in ReportsFrom(i) : j <= s.report
  /\ s.sev \in Bugs!Severities
  /\ s.sev = "high" <=> \E j \in ReportsFrom(i) : log[j].report = "high"
  /\ s.at = 0 =>
       s.status = Bugs!None /\ \A w \in WordsFrom(i) : \E r \in ReportsFrom(i) : w < r
  /\ s.at # 0 =>
       /\ s.at \in WordsFrom(i) /\ s.status = WordOf(log[s.at])
       /\ \A j \in ReportsFrom(i) \cup WordsFrom(i) : j <= s.at

\* The scan is defined: each commit is told of after the one that follows it.
LEMMA ScanIsDefined ==
  ASSUME log \in Seq(BugCommits)
  PROVE  \A i \in 1..(Len(log) + 1) :
           Bugs!Scan[i] = IF i = Len(log) + 1 THEN Bugs!Empty
                          ELSE Bugs!ScanCommit(Bugs!Scan[i + 1], i)
<1> DEFINE end == Len(log) + 1
           Body(g, i) == IF i = end THEN Bugs!Empty ELSE Bugs!ScanCommit(g[i + 1], i)
           Scans(n, g) == g = [i \in (end - n)..end |-> Body(g, i)]
           bad == {n \in 0..Len(log) : ~\E g : Scans(n, g)}
<1>1. Len(log) \in Nat
  OBVIOUS
<1>2. 0 \notin bad
  <2> DEFINE g == [i \in end..end |-> Bugs!Empty]
  <2>1. Scans(0, g)
    <3>1. end - 0 = end /\ \A i \in end..end : i = end
      BY <1>1
    <3>2. \A i \in end..end : Body(g, i) = Bugs!Empty
      BY <3>1
    <3> QED
      BY <3>1, <3>2
  <2> QED
    BY <2>1
<1>3. ASSUME NEW n \in bad, n # 0, n - 1 \notin bad
      PROVE  FALSE
  <2>1. n \in 1..Len(log) /\ n - 1 \in 0..Len(log) /\ end - (n - 1) = end - n + 1
    BY <1>1, <1>3
  <2>2. PICK g : Scans(n - 1, g)
    BY <1>3, <2>1
  <2> DEFINE first == end - n
             h == [i \in first..end |->
                     IF i = first THEN Bugs!ScanCommit(g[i + 1], i) ELSE g[i]]
  <2>3. first \in 1..Len(log) /\ first # end /\ first < end /\ end \in Nat
    BY <1>1, <2>1
  <2>4. g = [i \in (first + 1)..end |-> Body(g, i)]
    BY <2>1, <2>2
  <2>5. ASSUME NEW i \in first..end
        PROVE  h[i] = Body(h, i)
    <3>1. CASE i = end
      <4>1. i \in (first + 1)..end /\ i # first
        BY <2>3, <3>1
      <4> QED
        BY <2>4, <3>1, <4>1
    <3>2. CASE i # end
      <4>1. i + 1 \in first..end /\ i + 1 # first /\ i + 1 \in (first + 1)..end
        BY <2>3, <3>2
      <4>2. h[i + 1] = g[i + 1]
        BY <4>1
      <4>3. h[i] = Bugs!ScanCommit(g[i + 1], i)
        <5>1. CASE i = first
          BY <5>1
        <5>2. CASE i # first
          <6>1. i \in (first + 1)..end
            BY <2>3, <5>2
          <6> QED
            BY <2>4, <3>2, <5>2, <6>1
        <5> QED
          BY <5>1, <5>2
      <4> QED
        BY <3>2, <4>2, <4>3
    <3> QED
      BY <3>1, <3>2
  <2>6. Scans(n, h)
    <3> HIDE DEF Body
    <3>1. h = [i \in first..end |-> h[i]]
      OBVIOUS
    <3> HIDE DEF h
    <3> QED
      BY <2>5, <3>1
  <2> QED
    BY <1>3, <2>6
<1>4. bad = {}
  <2> HIDE DEF bad
  <2>1. SUFFICES ASSUME bad # {}
                 PROVE  FALSE
    OBVIOUS
  <2>2. bad \in SUBSET Nat
    BY DEF bad
  <2>3. PICK n \in bad : \A k \in bad : n <= k
    BY <2>1, <2>2, LeastNatural
  <2>4. n # 0 /\ n - 1 \notin bad
    BY <1>2, <2>2, <2>3
  <2> QED
    BY <1>3, <2>4
<1>5. \E g : g = [i \in 1..end |-> Body(g, i)]
  <2>1. Len(log) \in 0..Len(log) /\ end - Len(log) = 1
    BY <1>1
  <2> QED
    BY <1>4, <2>1
<1>6. Bugs!Scan = [i \in 1..end |-> Body(Bugs!Scan, i)]
  BY <1>5 DEF Bugs!Scan
<1> QED
  BY <1>6

IsScan(s) ==
  /\ s.sev \in Bugs!Severities /\ s.report \in Nat /\ s.at \in Nat
  /\ s = [sev |-> s.sev, report |-> s.report, status |-> s.status, at |-> s.at]

\* What a commit adds to what is known: a report, the first one that is met, a
\* severity that is higher, and a word on the bug that nothing newer outdates.
Told(s, c, i, t) ==
  /\ t.report = IF c.report # Bugs!None /\ s.report = 0 THEN i ELSE s.report
  /\ c.report = Bugs!None => t.sev = s.sev
  /\ c.report # Bugs!None /\ s.report = 0 => t.sev = c.report
  /\ c.report # Bugs!None /\ s.report # 0 => t.sev = Bugs!Higher(c.report, s.sev)
  /\ IF /\ s.at = 0 /\ (c.resolve # Bugs!None \/ c.defer)
        /\ t.report = 0 \/ t.report = i
     THEN t.at = i /\ t.status = WordOf(c)
     ELSE t.at = s.at /\ t.status = s.status

\* A commit tells the scan so.
LEMMA CommitTold ==
  ASSUME NEW i \in Nat \ {0}, NEW c, c = log[i], c.report \in Bugs!Severities,
         c.defer \in BOOLEAN, NEW s, IsScan(s), NEW t, t = Bugs!ScanCommit(s, i)
  PROVE  Told(s, c, i, t) /\ IsScan(t)
<1> DEFINE r == Bugs!Report(s, c, i)
           q == Bugs!Close(r, c.resolve, i)
<1>1. /\ r.report = IF c.report # Bugs!None /\ s.report = 0 THEN i ELSE s.report
      /\ c.report = Bugs!None => r.sev = s.sev
      /\ c.report # Bugs!None /\ s.report = 0 => r.sev = c.report
      /\ c.report # Bugs!None /\ s.report # 0 => r.sev = Bugs!Higher(c.report, s.sev)
      /\ r.at = s.at /\ r.status = s.status
      /\ r = [sev |-> r.sev, report |-> r.report, status |-> r.status, at |-> r.at]
  BY DEF Bugs!Report, IsScan
<1> HIDE DEF r
<1>2. /\ q.report = r.report /\ q.sev = r.sev
      /\ IF s.at = 0 /\ c.resolve # Bugs!None /\ (r.report = 0 \/ r.report = i)
         THEN q.at = i /\ q.status = c.resolve
         ELSE q.at = s.at /\ q.status = s.status
      /\ q = [sev |-> q.sev, report |-> q.report, status |-> q.status, at |-> q.at]
  BY <1>1 DEF Bugs!Close
<1>3. t = Bugs!Close(q, IF c.defer THEN "deferred" ELSE Bugs!None, i)
  BY DEF Bugs!ScanCommit, r
<1> HIDE DEF q
<1>4. "deferred" # Bugs!None
  BY DEF Bugs!None
<1>5. /\ t.report = q.report /\ t.sev = q.sev
      /\ IF q.at = 0 /\ c.defer /\ (q.report = 0 \/ q.report = i)
         THEN t.at = i /\ t.status = "deferred"
         ELSE t.at = q.at /\ t.status = q.status
      /\ t = [sev |-> t.sev, report |-> t.report, status |-> t.status, at |-> t.at]
  BY <1>2, <1>3, <1>4 DEF Bugs!Close
<1>6. Told(s, c, i, t)
  BY <1>1, <1>2, <1>5 DEF WordOf, Told
<1>7. t.sev \in Bugs!Severities /\ t.report \in Nat /\ t.at \in Nat
  BY <1>6 DEF Told, IsScan, Bugs!Higher
<1> QED
  BY <1>5, <1>6, <1>7 DEF IsScan

\* A step of the scan: from what is known after a commit to what is known with it.
LEMMA KnownGrows ==
  ASSUME Bugs!BugAssumption, log \in Seq(BugCommits), NEW i \in 1..Len(log),
         NEW s, IsScan(s), Known(i + 1, s), NEW t, t = Bugs!ScanCommit(s, i)
  PROVE  Known(i, t) /\ IsScan(t)
<1>0. PICK c : c = log[i]
  OBVIOUS
<1>1. /\ c.report \in Bugs!Severities /\ c.defer \in BOOLEAN
      /\ Len(log) \in Nat /\ i \in Nat \ {0}
  BY <1>0 DEF Bugs!BugAssumption
<1>2. Told(s, c, i, t) /\ IsScan(t)
  BY <1>0, <1>1, CommitTold
<1>3. /\ \A j : j \in ReportsFrom(i) <=>
                  j \in ReportsFrom(i + 1) \/ (j = i /\ c.report # Bugs!None)
      /\ \A j : j \in WordsFrom(i) <=>
                  j \in WordsFrom(i + 1) \/ (j = i /\ (c.resolve # Bugs!None \/ c.defer))
  <2>1. \A j : j \in i..Len(log) <=> j = i \/ j \in (i + 1)..Len(log)
    BY <1>1
  <2> QED
    BY <1>0, <2>1 DEF ReportsFrom, WordsFrom
<1>4. \A j \in ReportsFrom(i + 1) \cup WordsFrom(i + 1) : j \in Nat /\ i < j
  BY <1>1 DEF ReportsFrom, WordsFrom
<1>5. /\ s.report = 0 => ReportsFrom(i + 1) = {} /\ s.sev = Bugs!None
      /\ s.report # 0 =>
           s.report \in ReportsFrom(i + 1) /\ \A j \in ReportsFrom(i + 1) : j <= s.report
      /\ s.sev = "high" <=> \E j \in ReportsFrom(i + 1) : log[j].report = "high"
      /\ s.at = 0 =>
           /\ s.status = Bugs!None
           /\ \A w \in WordsFrom(i + 1) : \E r \in ReportsFrom(i + 1) : w < r
      /\ s.at # 0 =>
           /\ s.at \in WordsFrom(i + 1) /\ s.status = WordOf(log[s.at])
           /\ \A j \in ReportsFrom(i + 1) \cup WordsFrom(i + 1) : j <= s.at
  BY DEF Known
<1>6. t.report \in Nat /\ t.at \in Nat
  BY <1>2 DEF IsScan
<1>7. /\ t.report = 0 => ReportsFrom(i) = {}
      /\ t.report # 0 => t.report \in ReportsFrom(i) /\ \A j \in ReportsFrom(i) : j <= t.report
  BY <1>1, <1>2, <1>3, <1>4, <1>5 DEF Told
<1>8. /\ t.sev \in Bugs!Severities /\ (t.report = 0 => t.sev = Bugs!None)
      /\ t.sev = "high" <=> s.sev = "high" \/ c.report = "high"
  BY <1>1, <1>2, <1>5 DEF Told, IsScan, Bugs!Higher, Bugs!Rank, Bugs!Severities,
       Bugs!None
<1>9. t.sev = "high" <=> \E j \in ReportsFrom(i) : log[j].report = "high"
  BY <1>0, <1>3, <1>5, <1>8 DEF Bugs!None
<1>10. CASE /\ s.at = 0 /\ (c.resolve # Bugs!None \/ c.defer)
            /\ t.report = 0 \/ t.report = i
  <2>1. t.at = i /\ t.status = WordOf(c) /\ i \in WordsFrom(i) /\ i # 0
    BY <1>1, <1>2, <1>3, <1>10 DEF Told
  <2>2. ReportsFrom(i + 1) = {}
    BY <1>2, <1>4, <1>5, <1>10 DEF Told
  <2>3. WordsFrom(i + 1) = {}
    BY <1>5, <1>10, <2>2
  <2>4. \A j \in ReportsFrom(i) \cup WordsFrom(i) : j <= i
    BY <1>1, <1>3, <2>2, <2>3
  <2> QED
    BY <1>0, <1>2, <1>6, <1>7, <1>8, <1>9, <2>1, <2>4 DEF Known
<1>11. CASE ~(/\ s.at = 0 /\ (c.resolve # Bugs!None \/ c.defer)
              /\ t.report = 0 \/ t.report = i)
  <2>1. t.at = s.at /\ t.status = s.status
    BY <1>2, <1>11 DEF Told
  <2>2. CASE s.at = 0
    <3>1. ASSUME c.resolve # Bugs!None \/ c.defer
          PROVE  \E r \in ReportsFrom(i) : i < r
      <4>1. t.report # 0 /\ t.report # i
        BY <1>11, <2>2, <3>1
      <4>2. t.report \in ReportsFrom(i + 1)
        BY <1>3, <1>7, <4>1
      <4> QED
        BY <1>3, <1>4, <4>2
    <3>2. \A w \in WordsFrom(i) : \E r \in ReportsFrom(i) : w < r
      BY <1>3, <1>5, <2>2, <3>1
    <3> QED
      BY <1>2, <1>5, <1>6, <1>7, <1>8, <1>9, <2>1, <2>2, <3>2 DEF Known
  <2>3. CASE s.at # 0
    <3>1. /\ s.at \in WordsFrom(i) /\ s.status = WordOf(log[s.at])
          /\ \A j \in ReportsFrom(i) \cup WordsFrom(i) : j <= s.at
      BY <1>1, <1>3, <1>4, <1>5, <2>3
    <3> QED
      BY <1>2, <1>6, <1>7, <1>8, <1>9, <2>1, <2>3, <3>1 DEF Known
  <2> QED
    BY <2>2, <2>3
<1> QED
  BY <1>10, <1>11

\* What the whole scan knows.
LEMMA SummaryKnown ==
  ASSUME Bugs!BugAssumption, log \in Seq(BugCommits)
  PROVE  Known(1, Bugs!Summary)
<1> DEFINE end == Len(log) + 1
           Good(i) == Known(i, Bugs!Scan[i]) /\ IsScan(Bugs!Scan[i])
           bad == {n \in 0..Len(log) : ~Good(end - n)}
<1>1. Len(log) \in Nat
  OBVIOUS
<1>2. Good(end)
  <2>1. Bugs!Scan[end] = Bugs!Empty
    BY <1>1, ScanIsDefined
  <2>2. ReportsFrom(end) = {} /\ WordsFrom(end) = {}
    BY <1>1 DEF ReportsFrom, WordsFrom
  <2>3. Known(end, Bugs!Empty)
    BY <2>2 DEF Known, Bugs!Empty, Bugs!Severities, Bugs!None
  <2>4. IsScan(Bugs!Empty)
    BY DEF IsScan, Bugs!Empty, Bugs!Severities, Bugs!None
  <2> QED
    BY <2>1, <2>3, <2>4
<1>3. ASSUME NEW i \in 1..Len(log), Good(i + 1)
      PROVE  Good(i)
  <2> DEFINE t == Bugs!Scan[i + 1]
  <2>1. Bugs!Scan[i] = Bugs!ScanCommit(t, i)
    BY <1>1, ScanIsDefined
  <2>2. Known(i + 1, t) /\ IsScan(t)
    BY <1>3
  <2> HIDE DEF t
  <2>3. PICK u : u = Bugs!ScanCommit(t, i)
    OBVIOUS
  <2>4. Known(i, u) /\ IsScan(u)
    BY <2>2, <2>3, KnownGrows
  <2> QED
    BY <2>1, <2>3, <2>4
<1>4. bad = {}
  <2> HIDE DEF Good
  <2>1. SUFFICES ASSUME bad # {}
                 PROVE  FALSE
    OBVIOUS
  <2>2. PICK n \in bad : \A k \in bad : n <= k
    <3>1. bad \in SUBSET Nat
      OBVIOUS
    <3> HIDE DEF bad
    <3> QED
      BY <2>1, <3>1, LeastNatural
  <2>3. n # 0 /\ n \in 0..Len(log)
    BY <1>1, <1>2, <2>2
  <2>4. n - 1 \notin bad /\ n - 1 \in 0..Len(log)
    BY <1>1, <2>2, <2>3
  <2>5. Good(end - (n - 1)) /\ end - (n - 1) = (end - n) + 1 /\ end - n \in 1..Len(log)
    BY <1>1, <2>3, <2>4
  <2>6. Good(end - n)
    BY <1>3, <2>5
  <2> QED
    BY <2>2, <2>6
<1>5. Good(1)
  <2> HIDE DEF Good
  <2>1. Len(log) \in 0..Len(log) /\ end - Len(log) = 1
    BY <1>1
  <2> QED
    BY <1>4, <2>1
<1> QED
  BY <1>5 DEF Bugs!Summary

\* The last of some commits.
LEMMA LastIsGreatest ==
  ASSUME log \in Seq(BugCommits), NEW S, S \subseteq 1..Len(log), S # {}
  PROVE  Bugs!LastOf(S) \in S /\ \A j \in S : j <= Bugs!LastOf(S)
<1>1. Len(log) \in Nat /\ S \in SUBSET (0..Len(log))
  OBVIOUS
<1>2. \E m \in S : \A j \in S : j <= m
  BY <1>1, GreatestNatural
<1> QED
  BY <1>2 DEF Bugs!LastOf

\* A bug some peer reported as blocking keeps the gate red until the last word on
\* it, said since its last report, is that it is fixed or put off; and a fix is
\* let through only with a test that came first or an explanation that came
\* after (bug_hunt.py:414, 502, 776).
THEOREM BugsAnswered ==
  ASSUME Bugs!BugAssumption
  PROVE  Bugs!Spec => []Bugs!BugsAreAnswered
<1>1. Bugs!Init => log \in Seq(BugCommits)
  BY DEF Bugs!Init
<1>2. log \in Seq(BugCommits) /\ [Bugs!Next]_log => (log \in Seq(BugCommits))'
  BY DEF Bugs!Next
<1>3. ASSUME log \in Seq(BugCommits)
      PROVE  Bugs!BugsAreAnswered
  <2> DEFINE s == Bugs!Summary
             reported == Bugs!LastOf(Bugs!Reports)
             word == Bugs!LastOf(Bugs!Words)
  <2>1. Known(1, s)
    BY <1>3, SummaryKnown
  <2>2. ReportsFrom(1) = Bugs!Reports /\ WordsFrom(1) = Bugs!Words
    BY DEF ReportsFrom, WordsFrom, Bugs!Reports, Bugs!Words
  <2>3. /\ Len(log) \in Nat /\ Bugs!Reports \subseteq 1..Len(log)
        /\ Bugs!Words \subseteq 1..Len(log)
        /\ \A j \in Bugs!Reports \cup Bugs!Words : j \in Nat
    BY <1>3 DEF Bugs!Reports, Bugs!Words
  <2> HIDE DEF s
  <2>4. Bugs!Severe <=> s.sev = "high"
    BY <2>1, <2>2 DEF Known, Bugs!Severe, Bugs!Blocking
  <2>5. ASSUME Bugs!Severe
        PROVE  /\ s.report # 0 /\ s.status = Bugs!Answer
               /\ s.at # 0 => s.at = word /\ s.at \in Bugs!Words
    <3>1. Bugs!Reports # {}
      BY <2>5 DEF Bugs!Severe
    <3>2. s.report # 0
      BY <2>1, <2>2, <3>1 DEF Known
    <3>3. reported \in Bugs!Reports /\ \A j \in Bugs!Reports : j <= reported
      BY <1>3, <2>3, <3>1, LastIsGreatest
    <3>4. Bugs!Words # {} => word \in Bugs!Words /\ \A j \in Bugs!Words : j <= word
      BY <1>3, <2>3, LastIsGreatest
    <3> HIDE DEF reported, word
    <3>5. CASE s.at = 0
      <4>1. Bugs!Words = {} \/ word < reported
        <5>1. SUFFICES ASSUME Bugs!Words # {}
                       PROVE  word < reported
          OBVIOUS
        <5>2. PICK r \in Bugs!Reports : word < r
          BY <2>1, <2>2, <3>4, <3>5, <5>1 DEF Known
        <5>3. word \in Bugs!Words /\ r <= reported
          BY <3>3, <3>4, <5>1
        <5>4. r \in Nat /\ reported \in Nat /\ word \in Nat
          BY <2>3, <3>3, <5>3
        <5> QED
          BY <5>2, <5>3, <5>4
      <4> QED
        BY <2>1, <3>2, <3>5, <4>1 DEF Known, Bugs!Answer, reported, word
    <3>6. CASE s.at # 0
      <4>1. s.at \in Bugs!Words /\ s.status = WordOf(log[s.at])
        BY <2>1, <2>2, <3>6 DEF Known
      <4>2. s.at = word /\ ~(word < reported)
        <5>1. s.at <= word /\ word <= s.at /\ reported <= s.at
          BY <2>1, <2>2, <3>3, <3>4, <3>6, <4>1 DEF Known
        <5>2. word \in Bugs!Words
          BY <3>4, <4>1
        <5>3. s.at \in Nat /\ word \in Nat /\ reported \in Nat
          BY <2>3, <3>3, <4>1, <5>2
        <5> QED
          BY <5>1, <5>3
      <4> QED
        BY <3>2, <4>1, <4>2 DEF Bugs!Answer, WordOf, reported, word
    <3> QED
      BY <3>5, <3>6
  <2>6. Bugs!BlockingUntilAnswered
    BY <2>4, <2>5 DEF Bugs!BlockingUntilAnswered, Bugs!Clean, Bugs!IsOpen, Bugs!Blocking, s
  <2>7. ASSUME Bugs!TddClean, Bugs!Severe, Bugs!Answer = "fixed"
        PROVE  \/ \E j \in 1..(Bugs!LastOf(Bugs!Fixes) - 1) : log[j].repro = "test"
               \/ /\ \A j \in 1..Len(log) : log[j].repro = Bugs!None
                  /\ \E j \in (Bugs!LastOf(Bugs!Fixes) + 1)..Len(log) : log[j].waive
    <3>1. /\ s.sev \in Bugs!Blocking /\ s.status = "fixed" /\ s.report # 0
      BY <2>4, <2>5, <2>7 DEF Bugs!Blocking
    <3>2. s.at \in Bugs!Words /\ s.status = WordOf(log[s.at])
      BY <2>1, <2>2, <3>1 DEF Known, Bugs!None
    <3>3. s.at \in Bugs!Fixes
      BY <2>3, <3>1, <3>2 DEF WordOf, Bugs!Fixes
    <3>4. Bugs!Fixes \subseteq Bugs!Words
      BY DEF Bugs!Fixes, Bugs!Words, Bugs!None
    <3>5. \A j \in Bugs!Fixes : j <= s.at
      BY <2>1, <2>2, <3>1, <3>4 DEF Known, Bugs!None
    <3>6. Bugs!LastOf(Bugs!Fixes) = s.at
      <4>1. PICK latest : latest = Bugs!LastOf(Bugs!Fixes)
        OBVIOUS
      <4>2. Bugs!Fixes \subseteq 1..Len(log) /\ Bugs!Fixes # {}
        BY <2>3, <3>3, <3>4
      <4>3. latest \in Bugs!Fixes /\ s.at <= latest
        BY <1>3, <3>3, <4>1, <4>2, LastIsGreatest
      <4>4. latest \in Nat /\ s.at \in Nat /\ latest <= s.at
        BY <2>3, <3>2, <3>4, <3>5, <4>3
      <4> QED
        BY <4>1, <4>3, <4>4
    <3>7. s.at \in 1..Len(log)
      BY <2>3, <3>2
    <3>8. CASE Bugs!ReproducedBefore(s.at)
      BY <2>3, <3>6, <3>7, <3>8 DEF Bugs!ReproducedBefore, Bugs!Evident, Bugs!Reproductions
    <3>9. CASE Bugs!Waived(s.at)
      BY <2>3, <3>6, <3>7, <3>9 DEF Bugs!Waived, Bugs!Reproductions, Bugs!Waivers
    <3> QED
      BY <2>7, <3>1, <3>8, <3>9 DEF Bugs!TddClean, s
  <2> QED
    BY <2>6, <2>7 DEF Bugs!BugsAreAnswered, Bugs!FixIsReproduced
<1> QED
  BY <1>1, <1>2, <1>3, PTL DEF Bugs!Spec

-----------------------------------------------------------------------------
(* The sum of the components: its steps are those of the subject, which stays  *)
(* what it is, so that what holds of a component holds of the sum.             *)

\* The subject of a behaviour never changes.
LEMMA SubjectStays ==
  ASSUME [Next]_vars
  PROVE  UNCHANGED subject
  BY DEF Next, vars, InPipeline, InSoft, InMail, InLog, InTested, InPlan, InPinned,
         InBugs, InAsked, InCapped, InScaf, InLease, InCock, InHooks, InCall,
         InReap, InBring, InProxy

\* A step of the sum is one of its subject.
LEMMA StepsOfSubject ==
  ASSUME Next
  PROVE  /\ subject = "GatePipeline" => Pipeline!Next
         /\ subject = "SoftReviews" => Soft!Next
         /\ subject = "PeerMail" => Mail!Next
         /\ subject = "TickLog" => Log!Next
         /\ subject = "PlanWork" => Plan!Next
         /\ subject = "PeerInvocation" => Call!Next
         /\ subject = "BugHunt" => Bugs!Next
  BY DEF Next, InPipeline, InSoft, InMail, InLog, InTested, InPlan, InPinned,
         InBugs, InAsked, InCapped, InScaf, InLease, InCock, InHooks, InCall,
         InReap, InBring, InProxy

\* A run never ends as converged or complete on a verdict about an older tree,
\* commit or goal set (_converged_after_fresh_recheck in driver_tick.py).
THEOREM ConvergedIsFreshAlways == Spec => []ConvergedIsFresh
<1>1. Init /\ subject = "GatePipeline" => Pipeline!Init
  BY DEF Init
<1>2. [Next]_vars => (subject = "GatePipeline")' <=> (subject = "GatePipeline")
  BY SubjectStays
<1>3. subject = "GatePipeline" /\ [Next]_vars => [Pipeline!Next]_(Pipeline!vars)
  BY StepsOfSubject DEF vars, Pipeline!vars, pipelined, pc, goals, yaml, paired,
         head, tree, committed, live, last, cache, results, queue, worker, ticks
<1>4. Pipeline!PipelineAssumption
  BY ComponentsAssumption DEF ComponentsAssumption
<1>5. Pipeline!Spec => []Pipeline!ConvergedIsFresh
  BY <1>4, PipelineFresh
<1> QED
  BY <1>1, <1>2, <1>3, <1>5, PTL DEF Spec, Pipeline!Spec, ConvergedIsFresh

\* The verdicts that plan a tick and feed its counters are about the goals in force
\* and the tree or HEAD of that tick (_evaluate_gates_for_tick).
THEOREM CountedIsCurrentAlways == Spec => []CountedIsCurrent
<1>1. Init /\ subject = "GatePipeline" => Pipeline!Init
  BY DEF Init
<1>2. [Next]_vars => (subject = "GatePipeline")' <=> (subject = "GatePipeline")
  BY SubjectStays
<1>3. subject = "GatePipeline" /\ [Next]_vars => [Pipeline!Next]_(Pipeline!vars)
  BY StepsOfSubject DEF vars, Pipeline!vars, pipelined, pc, goals, yaml, paired,
         head, tree, committed, live, last, cache, results, queue, worker, ticks
<1>4. Pipeline!PipelineAssumption
  BY ComponentsAssumption DEF ComponentsAssumption
<1>5. Pipeline!Spec => []Pipeline!CountedIsCurrent
  BY <1>4, PipelineCurrent
<1> QED
  BY <1>1, <1>2, <1>3, <1>5, PTL DEF Spec, Pipeline!Spec, CountedIsCurrent

\* The counters of a soft goal say consensus exactly when its reviews do, and the
\* trimmed history is never short of one it needs (driver_soft_reviews.py).
THEOREM ConsensusIsEarnedAlways == Spec => []ConsensusIsEarned
<1>1. Init /\ subject = "SoftReviews" => Soft!Init
  BY DEF Init
<1>2. [Next]_vars => (subject = "SoftReviews")' <=> (subject = "SoftReviews")
  BY SubjectStays
<1>3. subject = "SoftReviews" /\ [Next]_vars => [Soft!Next]_(Soft!vars)
  BY StepsOfSubject DEF vars, Soft!vars, mode, count, last, perPeer, history, all
<1>4. Soft!SoftAssumption
  BY ComponentsAssumption DEF ComponentsAssumption
<1>5. Soft!Spec => []Soft!ConsensusIsEarned
  BY <1>4, SoftEarned
<1> QED
  BY <1>1, <1>2, <1>3, <1>5, PTL DEF Spec, Soft!Spec, ConsensusIsEarned

\* No mail between peers is overwritten, and no commit is behind a saved bookmark
\* that was in no prompt: of a started peer, or of one whose start failed or whose
\* driver was stopped before it (comm_layer.py, driver_tick_hooks.py).
THEOREM MailIsKeptAlways == Spec => []MailIsKept
<1>1. Init /\ subject = "PeerMail" => Mail!Init
  BY DEF Init
<1>2. [Next]_vars => (subject = "PeerMail")' <=> (subject = "PeerMail")
  BY SubjectStays
<1>3. subject = "PeerMail" /\ [Next]_vars => [Mail!Next]_(Mail!vars)
  BY StepsOfSubject DEF vars, Mail!vars, phase, turn, log, book, saved, seeds, told,
         seen, cut, inbox, archive, files
<1>4. Mail!MailAssumption
  BY ComponentsAssumption DEF ComponentsAssumption
<1>5. Mail!Spec => []Mail!MailIsKept
  BY <1>4, MailKept
<1> QED
  BY <1>1, <1>2, <1>3, <1>5, PTL DEF Spec, Mail!Spec, MailIsKept

\* No log is lost to a rotation that is cut off, and no commit's note names a peer
\* that did not write it (driver_observability.py, attest.py).
THEOREM LogsTellTheTruthAlways == Spec => []LogsTellTheTruth
<1>1. Init /\ subject = "TickLog" => Log!Init
  BY DEF Init
<1>2. [Next]_vars => (subject = "TickLog")' <=> (subject = "TickLog")
  BY SubjectStays
<1>3. subject = "TickLog" /\ [Next]_vars => [Log!Next]_(Log!vars)
  BY StepsOfSubject DEF vars, Log!vars, pc, peer, halting, iteration, saved, rows,
         commits, head, plain, zipped, started, written
<1>4. Log!Spec => []Log!LogsTellTheTruth
  BY LogTrue
<1> QED
  BY <1>1, <1>2, <1>3, <1>4, PTL DEF Spec, Log!Spec, LogsTellTheTruth

\* What the reviewer hook let through the reviewer gate lets through, and every
\* acknowledged block has its entry (checkoff_by_other_peer.py, peers_ctl/cli.py).
THEOREM PlanIsHonestAlways == Spec => []PlanIsHonest
<1>1. Init /\ subject = "PlanWork" => Plan!Init
  BY DEF Init
<1>2. [Next]_vars => (subject = "PlanWork")' <=> (subject = "PlanWork")
  BY SubjectStays
<1>3. subject = "PlanWork" /\ [Next]_vars => [Plan!Next]_(Plan!vars)
  BY StepsOfSubject DEF vars, Plan!vars, plan, head, hist, blocks, op, acks
<1>4. Plan!Spec => []Plan!PlanIsHonest
  BY PlanHonest
<1> QED
  BY <1>1, <1>2, <1>3, <1>4, PTL DEF Spec, Plan!Spec, PlanIsHonest

\* A call of a peer is not a success while an actionable error is in what it wrote
\* and was read, whatever the threads' timing (health_guard.py).
THEOREM SuccessIsCleanAlways == Spec => []SuccessIsClean
<1>1. Init /\ subject = "PeerInvocation" => Call!Init
  BY DEF Init
<1>2. [Next]_vars => (subject = "PeerInvocation")' <=> (subject = "PeerInvocation")
  BY SubjectStays
<1>3. subject = "PeerInvocation" /\ [Next]_vars => [Call!Next]_(Call!vars)
  BY StepsOfSubject DEF vars, Call!vars, script, child, rc, holder, wrote, taken,
         buf, fresh, cut, reader, stop, quiet, old, mon, sawExit, class, halted
<1>4. Call!InvocationAssumption
  BY ComponentsAssumption DEF ComponentsAssumption
<1>5. Call!Init /\ [][Call!Next]_(Call!vars) => []Call!SuccessIsClean
  BY <1>4, CallClean
<1> QED
  BY <1>1, <1>2, <1>3, <1>5, PTL DEF Spec, SuccessIsClean

\* The bug gate is red while the last word on a blocking bug is its report, and
\* green on a fix only with a test or a reason (bug_hunt.py).
THEOREM BugsAreAnsweredAlways == Spec => []BugsAreAnswered
<1>1. Init /\ subject = "BugHunt" => Bugs!Init
  BY DEF Init
<1>2. [Next]_vars => (subject = "BugHunt")' <=> (subject = "BugHunt")
  BY SubjectStays
<1>3. subject = "BugHunt" /\ [Next]_vars => [Bugs!Next]_(log)
  BY StepsOfSubject DEF vars, log
<1>4. Bugs!BugAssumption
  BY ComponentsAssumption DEF ComponentsAssumption
<1>5. Bugs!Spec => []Bugs!BugsAreAnswered
  BY <1>4, BugsAnswered
<1> QED
  BY <1>1, <1>2, <1>3, <1>5, PTL DEF Spec, Bugs!Spec, BugsAreAnswered
=============================================================================
