------------------------- MODULE Convergence_proofs -------------------------
(***************************************************************************)
(* What Convergence promises, for all gates, limits and counters.          *)
(*                                                                         *)
(* The inductive invariant says, for each place of the tick, how far each  *)
(* counter of the state dictionary is behind the history it counts: the    *)
(* same event is counted once before and once after the peer runs, and a   *)
(* process may end in between.                                             *)
(***************************************************************************)
EXTENDS Convergence, TLAPS

InTick == {"decide", "checkpoint", "peer", "finalize"}

(* A tick is only fired within the budget, by a process. *)
Running ==
  /\ pc # "down" => starts >= 1
  /\ pc \in InTick => st.iteration < MaxIterations

(* Outside a tick the file holds what memory does. *)
Saved == pc \in {"top", "count"} => disk = st

(* What the decision is taken on was read of the tree as it is. *)
Evaluated ==
  pc = "decide" => /\ tree.red \subseteq failed
                   /\ failed = {} /\ CleanGate # {} => disk.clean >= CleanN

(* What the count will be once the last run is counted. *)
Counted(clean) ==
  IF pc \notin {"finalize", "count"} \/ run.limited THEN clean
  ELSE IF run.success /\ ~run.bug THEN AtMost(clean + 1, CleanN) ELSE 0

CountIsClean ==
  "count" \in lost \/ (Counted(st.clean) <= cleanRun /\ Counted(disk.clean) <= cleanRun)

(* Iterations once the tick in flight is over, and how far the counts of red
   evaluations may be ahead of them.                                         *)
Over == IF pc \in {"peer", "finalize"} THEN st.iteration + 1 ELSE st.iteration
AuditIsCounted == pc # "down" => sinceAudit <= Over - ranAt

Kept == IF pc = "down" THEN disk ELSE st
Ahead == IF pc \in {"top", "count"} THEN 0 ELSE 1

RedSinceGreen(g) ==
  /\ greenAt[g] <= Kept.iteration
  /\ Kept.stuck[g] <= Kept.iteration - greenAt[g] + (starts - 1) + pauses + Ahead

RedIsCounted == "evaluation" \notin lost => \A g \in Watched : RedSinceGreen(g)

(* The phase recorded is the one the last tick was launched in, and tells on
   which side of the checkpoint the project is.                              *)
BeforePause(s) ==
  /\ s.iteration >= 3 => s.prelude = "architecture"
  /\ s.prelude # "implementation"
AfterPause(s) == s.iteration >= 3 /\ s.prelude = "implementation"

PauseIsRecorded ==
  /\ pauses <= 1
  /\ ~Checkpoint \/ mode # "implement" => pauses = 0
  /\ mode # "implement" => ~building /\ st.prelude # "architecture" /\ disk.prelude # "architecture"
  /\ Checkpoint /\ mode = "implement" /\ pauses = 0 =>
       ~building /\ BeforePause(st) /\ BeforePause(disk)
  /\ pauses = 1 => AfterPause(st) /\ AfterPause(disk)
  /\ pc \in {"peer", "finalize"} => st.prelude = Prelude(st.iteration)

(* The two phases keep step with k flawless ticks whose gates were evaluated. *)
InPhase(k) ==
  \/ st.phase = "A" /\ st.hardGreen >= k /\ st.hardGreen < PhaseAN
  \/ st.phase = "B" /\ st.extra >= k - AtLeastOne(PhaseAN) /\ st.extra < AtLeastOne(PhaseBN)
  \/ st.phase = "complete"

ExtraInB == \A s \in {st, disk} : s.phase = "A" => s.extra = 0

TreeIsGood == tree.red = {} /\ tree.soft

Flawless ==
  /\ pc \in {"decide", "checkpoint", "peer"} /\ goodRun >= 1 =>
       /\ TreeIsGood /\ st.clean >= AtMost(goodRun, CleanN)
       /\ CleanGate = {} \/ st.clean >= CleanN => failed = {}
       /\ mode = "implement" /\ Gates # {} => InPhase(goodRun)
  /\ pc \in {"finalize", "count"} /\ goodRun >= 1 =>
       /\ TreeIsGood /\ run.success /\ ~run.bug /\ ~run.limited
       /\ st.clean >= AtMost(goodRun - 1, CleanN)
  /\ pc = "finalize" /\ goodRun >= 2 /\ mode = "implement" => failed = {}
  /\ pc = "top" /\ goodRun >= 1 => TreeIsGood /\ st.clean >= AtMost(goodRun, CleanN)
  /\ pc \in {"finalize", "count", "top"} /\ goodRun >= 2 /\ mode = "implement" /\ Gates # {} =>
       InPhase(goodRun - 1)

(* At the limit a process has only the re-audit left to run. *)
Audited == IF pc \in {"peer", "finalize"} THEN ranAt = st.iteration + 1 ELSE ranAt = st.iteration

AtLimit(n) ==
  CASE pc = "down" -> n <= FlawlessTicks + 1
    [] pc = "checkpoint" -> n < FlawlessTicks \/ (n = FlawlessTicks /\ pending)
    [] pc = "peer" -> n < FlawlessTicks \/ (n = FlawlessTicks /\ Audited)
    [] OTHER -> n <= FlawlessTicks \/ (n = FlawlessTicks + 1 /\ Audited)

Prompt == mode # "hunt-open-ended" /\ (mode = "implement" => Gates # {}) => AtLimit(goodRun)

IInv ==
  /\ TypeOK /\ Running /\ Saved /\ Evaluated
  /\ CountIsClean /\ CompleteNeedsCleanStreakUncut /\ AuditIsCounted
  /\ RedIsCounted /\ PauseIsRecorded /\ ExtraInB /\ Flawless /\ Prompt

-----------------------------------------------------------------------------
(* What the helpers on the state dictionary do to it.                       *)

(* _record_goal_results before a tick is planned, and after it. *)
Recounted(s, ids, red) == Recorded(s, ids, red, TRUE)
Refreshed(s, ids, red) == Recorded(s, ids, red, FALSE)

SameCounts(r, s) == r.iteration = s.iteration /\ r.clean = s.clean /\ r.prelude = s.prelude
SamePhase(r, s) == r.phase = s.phase /\ r.extra = s.extra /\ r.hardGreen = s.hardGreen

\* A capped counter stays under its cap and is exact below it.
LEMMA AtMostBounds ==
  ASSUME NEW n \in Nat, NEW b \in Nat
  PROVE  AtMost(n, b) \in 0..b /\ AtMost(n, b) <= n /\ (n <= b => AtMost(n, b) = n)
BY DEF AtMost

\* _record_goal_results before a tick counts a red gate at most once more, a green
\* one not at all, and touches nothing but the two stuck maps.
LEMMA RecordedSays ==
  ASSUME NEW s \in StateDict, NEW ids, NEW red, NEW r, r = Recounted(s, ids, red)
  PROVE  /\ r \in StateDict /\ SameCounts(r, s) /\ SamePhase(r, s)
         /\ \A g \in Watched : /\ r.stuck[g] <= s.stuck[g] + 1
                               /\ g \in ids /\ g \notin red => r.stuck[g] = 0
<1> DEFINE failing == (s.failing \ ids) \cup (ids \cap red \cap Watched)
           count(g) == IF g \notin ids THEN s.stuck[g]
                       ELSE IF g \notin red THEN 0
                       ELSE IF g \notin s.failing THEN 1
                       ELSE AtMost(s.stuck[g] + 1, StuckAfter)
           stuck == [g \in Watched |-> count(g)]
<1>1. s.failing \subseteq Watched /\ s.stuck \in [Watched -> 0..StuckAfter]
  BY DEF StateDict
<1>2. ASSUME NEW g \in Watched
      PROVE  /\ count(g) \in 0..StuckAfter /\ count(g) <= s.stuck[g] + 1
             /\ g \in ids /\ g \notin red => count(g) = 0
  <2>1. s.stuck[g] \in 0..StuckAfter /\ StuckAfter \in Nat /\ StuckAfter >= 1
    BY <1>1, <1>2, GateAssumption
  <2> QED
    BY <2>1 DEF AtMost
<1>3. failing \in SUBSET Watched /\ stuck \in [Watched -> 0..StuckAfter]
  BY <1>1, <1>2
<1>4. r = [s EXCEPT !.failing = failing, !.stuck = stuck]
  BY DEF Recorded, Recounted
<1> HIDE DEF failing, count
<1>5. r.stuck = stuck /\ r \in StateDict /\ SameCounts(r, s) /\ SamePhase(r, s)
  BY <1>3, <1>4 DEF StateDict, SameCounts, SamePhase
<1> QED
  BY <1>2, <1>5

\* After the tick a gate that was red already is not counted again.
LEMMA RefreshedSays ==
  ASSUME NEW s \in StateDict, NEW ids, NEW red, NEW r, r = Refreshed(s, ids, red)
  PROVE  /\ r \in StateDict /\ SameCounts(r, s) /\ SamePhase(r, s)
         /\ \A g \in Watched : /\ (r.stuck[g] <= s.stuck[g] \/ r.stuck[g] <= 1)
                               /\ g \in ids /\ g \notin red => r.stuck[g] = 0
<1> DEFINE failing == (s.failing \ ids) \cup (ids \cap red \cap Watched)
           count(g) == IF g \notin ids THEN s.stuck[g]
                       ELSE IF g \notin red THEN 0
                       ELSE IF g \notin s.failing THEN 1
                       ELSE IF s.stuck[g] = 0 THEN 1 ELSE s.stuck[g]
           stuck == [g \in Watched |-> count(g)]
<1>1. s.failing \subseteq Watched /\ s.stuck \in [Watched -> 0..StuckAfter]
  BY DEF StateDict
<1>2. ASSUME NEW g \in Watched
      PROVE  /\ count(g) \in 0..StuckAfter /\ (count(g) <= s.stuck[g] \/ count(g) <= 1)
             /\ g \in ids /\ g \notin red => count(g) = 0
  <2>1. s.stuck[g] \in 0..StuckAfter /\ StuckAfter \in Nat /\ StuckAfter >= 1
    BY <1>1, <1>2, GateAssumption
  <2> QED
    BY <2>1 DEF AtMost
<1>3. failing \in SUBSET Watched /\ stuck \in [Watched -> 0..StuckAfter]
  BY <1>1, <1>2
<1>4. r = [s EXCEPT !.failing = failing, !.stuck = stuck]
  BY DEF Recorded, Refreshed
<1> HIDE DEF failing, count
<1>5. r.stuck = stuck /\ r \in StateDict /\ SameCounts(r, s) /\ SamePhase(r, s)
  BY <1>3, <1>4 DEF StateDict, SameCounts, SamePhase
<1> QED
  BY <1>2, <1>5

\* Progress of the PLAN only ever forgives.
LEMMA ForgivenSays ==
  ASSUME NEW s \in StateDict, tree.done \in 0..MaxSteps, NEW r, r = Forgiven(s)
  PROVE  /\ r \in StateDict /\ SameCounts(r, s) /\ SamePhase(r, s)
         /\ \A g \in Watched : r.stuck[g] <= s.stuck[g]
<1>1. CASE mode # "implement"
  <2>1. r = s
    BY <1>1 DEF Forgiven
  <2>2. \A g \in Watched : s.stuck[g] \in Nat
    BY GateAssumption DEF StateDict
  <2> QED
    BY <2>1, <2>2 DEF SameCounts, SamePhase
<1>2. CASE mode = "implement"
  <2> DEFINE none == [g \in Watched |-> 0]
             stuck == IF s.planDone >= 0 /\ tree.done > s.planDone THEN none ELSE s.stuck
  <2>1. r = [s EXCEPT !.stuck = stuck, !.planDone = tree.done]
    BY <1>2 DEF Forgiven
  <2>2. s.stuck \in [Watched -> 0..StuckAfter] /\ tree.done \in -1..MaxSteps
    BY GateAssumption DEF StateDict
  <2>3. none \in [Watched -> 0..StuckAfter] /\ \A g \in Watched : none[g] <= s.stuck[g]
    BY <2>2, GateAssumption
  <2>4. stuck \in [Watched -> 0..StuckAfter] /\ \A g \in Watched : stuck[g] <= s.stuck[g]
    BY <2>2, <2>3, GateAssumption
  <2> HIDE DEF stuck
  <2>5. r.stuck = stuck /\ r \in StateDict /\ SameCounts(r, s) /\ SamePhase(r, s)
    BY <2>1, <2>2, <2>4 DEF StateDict, SameCounts, SamePhase
  <2> QED
    BY <2>4, <2>5
<1> QED
  BY <1>1, <1>2

\* What two green evaluations in a row do to the phases: A counts, B counts, and
\* neither count is ever past the one that ends its phase.
Advances(r, s) ==
  /\ s.phase = "complete" => r.phase = "complete"
  /\ s.phase = "B" => r.phase = "complete" \/ (r.phase = "B" /\ r.extra = s.extra + 1 /\ r.extra < PhaseBN)
  /\ s.phase = "A" => \/ r.phase = "A" /\ r.hardGreen >= s.hardGreen + 1 /\ r.hardGreen < PhaseAN
                      \/ r.phase = "B" /\ r.extra = s.extra

\* update_two_phase_counters: only implement mode has phases, the extra ticks are
\* counted in phase B alone, and an all-green evaluation moves the project on.
LEMMA TwoPhaseSays ==
  ASSUME NEW s \in StateDict, NEW ids, NEW red, NEW r, r = TwoPhase(s, ids, red)
  PROVE  /\ r \in StateDict /\ SameCounts(r, s) /\ r.stuck = s.stuck
         /\ (s.phase = "A" => s.extra = 0) => (r.phase = "A" => r.extra = 0)
         /\ mode = "implement" /\ ids # {} /\ ids \cap red = {} /\ SkepticGates \subseteq ids \ red
              => Advances(r, s)
<1>1. CASE mode # "implement"
  BY <1>1 DEF TwoPhase, SameCounts
<1>2. CASE mode = "implement"
  <2> DEFINE green == ids # {} /\ ids \cap red = {}
             hard == IF green THEN AtMost(s.hardGreen + 1, PhaseAN) ELSE 0
             extra == IF s.phase # "B" THEN s.extra
                      ELSE IF SkepticGates \subseteq ids \ red
                      THEN AtMost(s.extra + 1, PhaseBN) ELSE 0
             phase == IF s.phase = "A" /\ hard >= PhaseAN THEN "B"
                      ELSE IF s.phase = "B" /\ extra >= PhaseBN THEN "complete"
                      ELSE s.phase
  <2>1. s.hardGreen \in 0..PhaseAN /\ s.extra \in 0..PhaseBN /\ s.phase \in {"A", "B", "complete"}
    BY DEF StateDict
  <2>2. PhaseAN \in Nat /\ PhaseBN \in Nat
    BY GateAssumption
  <2>3. hard \in 0..PhaseAN /\ (green /\ hard < PhaseAN => hard = s.hardGreen + 1)
    BY <2>1, <2>2 DEF AtMost
  <2>4. /\ extra \in 0..PhaseBN /\ (s.phase # "B" => extra = s.extra)
        /\ s.phase = "B" /\ SkepticGates \subseteq ids \ red /\ extra < PhaseBN => extra = s.extra + 1
    BY <2>1, <2>2 DEF AtMost
  <2>5. phase \in {"A", "B", "complete"}
    BY <2>1
  <2>6. r = [s EXCEPT !.hardGreen = hard, !.extra = extra, !.phase = phase]
    BY <1>2 DEF TwoPhase
  <2>7. /\ s.phase = "complete" => phase = "complete"
        /\ s.phase = "B" => phase = "complete" \/ (phase = "B" /\ extra < PhaseBN)
        /\ s.phase = "A" => (phase = "A" /\ hard < PhaseAN) \/ phase = "B"
        /\ phase = "A" => s.phase = "A"
    BY <2>1, <2>2, <2>3, <2>4
  <2> HIDE DEF hard, extra, phase, green
  <2>8. /\ r \in StateDict /\ SameCounts(r, s) /\ r.stuck = s.stuck
        /\ r.hardGreen = hard /\ r.extra = extra /\ r.phase = phase
    BY <2>3, <2>4, <2>5, <2>6 DEF StateDict, SameCounts
  <2>9. (s.phase = "A" => s.extra = 0) => (r.phase = "A" => r.extra = 0)
    BY <2>4, <2>7, <2>8
  <2>10. green /\ SkepticGates \subseteq ids \ red => Advances(r, s)
    BY <2>2, <2>3, <2>4, <2>7, <2>8 DEF Advances
  <2> QED
    BY <2>8, <2>9, <2>10 DEF green
<1> QED
  BY <1>1, <1>2

\* The changes of one field: the phase a tick is launched in, the clean count,
\* the iterations.
LEMMA PreludeSays ==
  ASSUME NEW s \in StateDict, NEW p \in {"prelude", "architecture", "implementation"},
         NEW r, r = [s EXCEPT !.prelude = p]
  PROVE  /\ r \in StateDict /\ r.iteration = s.iteration /\ r.clean = s.clean /\ r.prelude = p
         /\ SamePhase(r, s) /\ r.stuck = s.stuck
BY DEF StateDict, SamePhase

\* Setting the clean counter changes nothing else.
LEMMA CleanSays ==
  ASSUME NEW s \in StateDict, NEW n \in 0..CleanN, NEW r, r = [s EXCEPT !.clean = n]
  PROVE  /\ r \in StateDict /\ r.iteration = s.iteration /\ r.clean = n /\ r.prelude = s.prelude
         /\ SamePhase(r, s) /\ r.stuck = s.stuck
BY DEF StateDict, SamePhase

\* Counting an iteration changes nothing else.
LEMMA IterationSays ==
  ASSUME NEW s \in StateDict, s.iteration < MaxIterations,
         NEW r, r = [s EXCEPT !.iteration = @ + 1]
  PROVE  /\ r \in StateDict /\ r.iteration = s.iteration + 1 /\ r.clean = s.clean
         /\ r.prelude = s.prelude
         /\ SamePhase(r, s) /\ r.stuck = s.stuck
<1>1. s.iteration + 1 \in 0..MaxIterations
  BY GateAssumption DEF StateDict
<1> QED
  BY <1>1 DEF StateDict, SamePhase

-----------------------------------------------------------------------------
(* What the steps that evaluate gates do to the state dictionary.           *)

(* A watched gate is seen green, its count starting again, or is counted. *)
SeenOrCounted(g) ==
  \/ greenAt'[g] = st.iteration /\ st'.stuck[g] = 0
  \/ greenAt'[g] = greenAt[g] /\ st'.stuck[g] <= st.stuck[g] + 1

\* Watched, skeptic and red gates are all gates.
LEMMA GatesAreKnown ==
  ASSUME tree.red \subseteq Gates
  PROVE  Watched \subseteq AllGates /\ SkepticGates \subseteq AllGates /\ RedNow \subseteq AllGates
BY GateAssumption DEF AllGates, RedNow

\* An exit before the tick records the gates afresh and saves.
LEMMA ExitSays ==
  ASSUME TypeOK, NEW why, ExitWithFreshResults(why)
  PROVE  /\ st' \in StateDict /\ SameCounts(st', st) /\ SamePhase(st', st) /\ disk' = st'
         /\ \A g \in Watched : SeenOrCounted(g)
<1>1. st \in StateDict /\ tree.red \subseteq Gates
  BY DEF TypeOK
<1>2. PICK r : r = st'
  OBVIOUS
<1>3. r = Recounted(st, AllGates, RedNow) /\ greenAt' = SeenGreen /\ disk' = r
  BY <1>2 DEF ExitWithFreshResults, Save, Recounted
<1>4. /\ r \in StateDict /\ SameCounts(r, st) /\ SamePhase(r, st)
      /\ \A g \in Watched : /\ r.stuck[g] <= st.stuck[g] + 1
                            /\ g \in AllGates /\ g \notin RedNow => r.stuck[g] = 0
  BY <1>1, <1>3, RecordedSays
<1>5. \A g \in Watched : SeenOrCounted(g)
  <2>1. \A g \in Watched : greenAt'[g] = IF g \in RedNow THEN greenAt[g] ELSE st.iteration
    BY <1>3 DEF SeenGreen
  <2> QED
    BY <1>1, <1>2, <1>4, <2>1, GatesAreKnown DEF SeenOrCounted
<1> QED
  BY <1>2, <1>3, <1>4, <1>5

\* The three values of prelude_phase.
LEMMA PreludeTypes == \A i \in Nat : Prelude(i) \in {"prelude", "architecture", "implementation"}
BY DEF Prelude

\* The pause records the gates afresh and saves the phase it stopped in.
LEMMA PauseSays ==
  ASSUME TypeOK, PauseAtCheckpoint
  PROVE  /\ st' \in StateDict /\ st'.iteration = st.iteration /\ st'.clean = st.clean
         /\ SamePhase(st', st) /\ st'.prelude = Prelude(st.iteration) /\ disk' = st'
         /\ \A g \in Watched : SeenOrCounted(g)
<1>1. st \in StateDict /\ st.iteration \in Nat /\ tree.red \subseteq Gates
  BY GateAssumption DEF TypeOK, StateDict
<1>2. PICK r : r = st'
  OBVIOUS
<1>3. PICK s : s = [st EXCEPT !.prelude = Prelude(st.iteration)]
  OBVIOUS
<1>4. /\ s \in StateDict /\ s.iteration = st.iteration /\ s.clean = st.clean
      /\ s.prelude = Prelude(st.iteration) /\ SamePhase(s, st) /\ s.stuck = st.stuck
  BY <1>1, <1>3, PreludeSays, PreludeTypes
<1>5. r = Recounted(s, AllGates, RedNow) /\ greenAt' = SeenGreen /\ disk' = r
  BY <1>2, <1>3 DEF PauseAtCheckpoint, Save, Recounted
<1>6. /\ r \in StateDict /\ SameCounts(r, s) /\ SamePhase(r, s)
      /\ \A g \in Watched : /\ r.stuck[g] <= s.stuck[g] + 1
                            /\ g \in AllGates /\ g \notin RedNow => r.stuck[g] = 0
  BY <1>4, <1>5, RecordedSays
<1>7. \A g \in Watched : SeenOrCounted(g)
  BY <1>1, <1>2, <1>4, <1>5, <1>6, GatesAreKnown DEF SeenOrCounted, SeenGreen
<1> QED
  BY <1>2, <1>4, <1>5, <1>6, <1>7 DEF SameCounts, SamePhase

\* An evaluation advances the phase of a green tree and changes no other count.
LEMMA EvaluateSays ==
  ASSUME TypeOK, EvaluateGates
  PROVE  /\ st' \in StateDict /\ SameCounts(st', st)
         /\ \A g \in Watched : SeenOrCounted(g)
         /\ (st.phase = "A" => st.extra = 0) => (st'.phase = "A" => st'.extra = 0)
         /\ mode = "implement" /\ Gates # {} /\ RedNow = {} => Advances(st', st)
<1>1. st \in StateDict /\ tree.red \subseteq Gates /\ tree.done \in 0..MaxSteps
  BY DEF TypeOK
<1>2. PICK r : r = st'
  OBVIOUS
<1>3. PICK a : a = Recounted(st, AllGates, RedNow)
  OBVIOUS
<1>4. PICK b : b = Forgiven(a)
  OBVIOUS
<1>5. r = TwoPhase(b, AllGates, RedNow) /\ greenAt' = SeenGreen
  BY <1>2, <1>3, <1>4 DEF EvaluateGates, Recounted
<1>6. /\ a \in StateDict /\ SameCounts(a, st) /\ SamePhase(a, st)
      /\ \A g \in Watched : /\ a.stuck[g] <= st.stuck[g] + 1
                            /\ g \in AllGates /\ g \notin RedNow => a.stuck[g] = 0
  BY <1>1, <1>3, RecordedSays
<1>7. /\ b \in StateDict /\ SameCounts(b, a) /\ SamePhase(b, a)
      /\ \A g \in Watched : b.stuck[g] <= a.stuck[g]
  BY <1>1, <1>4, <1>6, ForgivenSays
<1>8. /\ r \in StateDict /\ SameCounts(r, b) /\ r.stuck = b.stuck
      /\ (b.phase = "A" => b.extra = 0) => (r.phase = "A" => r.extra = 0)
      /\ mode = "implement" /\ AllGates # {} /\ AllGates \cap RedNow = {}
           /\ SkepticGates \subseteq AllGates \ RedNow => Advances(r, b)
  BY <1>5, <1>7, TwoPhaseSays
<1>9. /\ \A g \in Watched : /\ r.stuck[g] \in Nat /\ st.stuck[g] \in Nat /\ a.stuck[g] \in Nat
  BY <1>1, <1>6, <1>8, GateAssumption DEF StateDict
<1>10. \A g \in Watched : /\ r.stuck[g] <= st.stuck[g] + 1
                          /\ g \notin RedNow => r.stuck[g] = 0
  BY <1>1, <1>6, <1>7, <1>8, <1>9, GatesAreKnown
<1>11. \A g \in Watched : SeenOrCounted(g)
  BY <1>1, <1>2, <1>5, <1>10 DEF SeenOrCounted, SeenGreen
<1>12. mode = "implement" /\ Gates # {} /\ RedNow = {} => Advances(r, st)
  <2>1. Gates # {} /\ RedNow = {} => /\ AllGates # {} /\ AllGates \cap RedNow = {}
                                     /\ SkepticGates \subseteq AllGates \ RedNow
    BY <1>1, GatesAreKnown DEF AllGates
  <2> QED
    BY <1>6, <1>7, <1>8, <2>1 DEF Advances, SamePhase
<1> QED
  BY <1>2, <1>6, <1>7, <1>8, <1>11, <1>12 DEF SameCounts, SamePhase

\* The evaluation after a tick counts a gate only if it was not red before, and
\* leaves the phases alone when the tick was planned on green gates.
LEMMA FinalizeSays ==
  ASSUME TypeOK, Running, FinalizeTick
  PROVE  /\ st' \in StateDict /\ st'.iteration = st.iteration + 1 /\ st'.clean = st.clean
         /\ st'.prelude = st.prelude /\ disk' = st'
         /\ \A g \in Watched :
              \/ greenAt'[g] = st.iteration + 1 /\ st'.stuck[g] = 0
              \/ greenAt'[g] = greenAt[g] /\ (st'.stuck[g] <= st.stuck[g] \/ st'.stuck[g] <= 1)
         /\ (st.phase = "A" => st.extra = 0) => (st'.phase = "A" => st'.extra = 0)
         /\ failed = {} => SamePhase(st', st)
<1>1. st \in StateDict /\ tree.red \subseteq Gates /\ tree.done \in 0..MaxSteps
  BY DEF TypeOK
<1>2. st.iteration < MaxIterations /\ disk' = st'
  BY DEF FinalizeTick, Running, InTick, Save
<1>3. PICK r : r = st'
  OBVIOUS
<1>4. PICK s : s = [st EXCEPT !.iteration = @ + 1]
  OBVIOUS
<1>5. /\ s \in StateDict /\ s.iteration = st.iteration + 1 /\ s.clean = st.clean
      /\ s.prelude = st.prelude /\ SamePhase(s, st) /\ s.stuck = st.stuck
  BY <1>1, <1>2, <1>4, IterationSays
<1>6. \A g \in Watched : greenAt'[g] = IF run.success /\ g \in failed /\ g \notin RedNow
                                       THEN st.iteration + 1 ELSE greenAt[g]
  BY DEF FinalizeTick
<1>7. CASE run.success /\ failed # {}
  <2>1. PICK a : a = Refreshed(s, failed, RedNow)
    OBVIOUS
  <2>2. PICK b : b = Forgiven(a)
    OBVIOUS
  <2>3. r = TwoPhase(b, failed, RedNow)
    BY <1>3, <1>4, <1>7, <2>1, <2>2 DEF FinalizeTick, Refreshed
  <2>4. /\ a \in StateDict /\ SameCounts(a, s) /\ SamePhase(a, s)
        /\ \A g \in Watched : /\ a.stuck[g] <= s.stuck[g] \/ a.stuck[g] <= 1
                              /\ g \in failed /\ g \notin RedNow => a.stuck[g] = 0
    BY <1>5, <2>1, RefreshedSays
  <2>5. /\ b \in StateDict /\ SameCounts(b, a) /\ SamePhase(b, a)
        /\ \A g \in Watched : b.stuck[g] <= a.stuck[g]
    BY <1>1, <2>2, <2>4, ForgivenSays
  <2>6. /\ r \in StateDict /\ SameCounts(r, b) /\ r.stuck = b.stuck
        /\ (b.phase = "A" => b.extra = 0) => (r.phase = "A" => r.extra = 0)
    BY <2>3, <2>5, TwoPhaseSays
  <2>7. \A g \in Watched : r.stuck[g] \in Nat /\ s.stuck[g] \in Nat /\ a.stuck[g] \in Nat
    BY <1>5, <2>4, <2>6, GateAssumption DEF StateDict
  <2>8. \A g \in Watched : /\ r.stuck[g] <= st.stuck[g] \/ r.stuck[g] <= 1
                           /\ g \in failed /\ g \notin RedNow => r.stuck[g] = 0
    BY <1>5, <2>4, <2>5, <2>6, <2>7
  <2> QED
    BY <1>2, <1>3, <1>5, <1>6, <1>7, <2>4, <2>5, <2>6, <2>8 DEF SameCounts, SamePhase
<1>8. CASE ~(run.success /\ failed # {})
  <2>1. r = s
    BY <1>3, <1>4, <1>8 DEF FinalizeTick
  <2>2. \A g \in Watched : st.stuck[g] \in Nat /\ greenAt'[g] = greenAt[g]
    BY <1>1, <1>6, <1>8, GateAssumption DEF StateDict
  <2> QED
    BY <1>2, <1>3, <1>5, <2>1, <2>2 DEF SamePhase
<1> QED
  BY <1>7, <1>8

\* A launch refreshes prelude_phase and no counter.
LEMMA LaunchSays ==
  ASSUME TypeOK, LaunchPeer
  PROVE  /\ st' \in StateDict /\ st'.iteration = st.iteration /\ st'.clean = st.clean
         /\ SamePhase(st', st) /\ st'.stuck = st.stuck /\ st'.prelude = Prelude(st.iteration)
<1>1. st \in StateDict /\ st.iteration \in Nat
  BY GateAssumption DEF TypeOK, StateDict
<1>2. PICK r : r = st'
  OBVIOUS
<1>3. r = [st EXCEPT !.prelude = Prelude(st.iteration)]
  BY <1>2 DEF LaunchPeer
<1> QED
  BY <1>1, <1>2, <1>3, PreludeSays, PreludeTypes

(* What the count of clean ticks becomes once the run is counted. *)
CountOf(n) == IF run.success /\ ~run.bug THEN AtMost(n + 1, CleanN) ELSE 0

\* A tick that was not rate-limited sets the clean counter and saves it.
LEMMA CountSays ==
  ASSUME TypeOK, CountClean
  PROVE  /\ st' \in StateDict /\ st'.iteration = st.iteration /\ st'.prelude = st.prelude
         /\ SamePhase(st', st) /\ st'.stuck = st.stuck
         /\ IF run.limited THEN st' = st /\ disk' = disk
            ELSE st'.clean = CountOf(st.clean) /\ disk' = st'
<1>1. st \in StateDict /\ st.clean \in 0..CleanN /\ CountOf(st.clean) \in 0..CleanN
  BY GateAssumption DEF TypeOK, StateDict, CountOf, AtMost
<1>2. CASE run.limited
  BY <1>1, <1>2 DEF CountClean, SamePhase
<1>3. CASE ~run.limited
  <2>1. PICK r : r = st'
    OBVIOUS
  <2>2. PICK n : n = CountOf(st.clean)
    OBVIOUS
  <2>3. r = [st EXCEPT !.clean = n] /\ disk' = r
    BY <1>3, <2>1, <2>2 DEF CountClean, CountOf, Save
  <2> QED
    BY <1>1, <1>3, <2>1, <2>2, <2>3, CleanSays
<1> QED
  BY <1>2, <1>3

(* The steps that change neither the state dictionary nor, but for saving it,
   the file.                                                                 *)
Quiet ==
  \/ NotConverged \/ HuntGoesOn \/ AskSkeptic \/ AwaitPhaseB \/ Complete
  \/ PeerReturns \/ Interrupt \/ Crash

\* The remaining steps leave the counters alone and at most save them.
LEMMA QuietSays ==
  ASSUME Quiet
  PROVE  st' = st /\ disk' \in {st, disk}
BY DEF Quiet, NotConverged, HuntGoesOn, AskSkeptic, AwaitPhaseB, Complete, PeerReturns,
       Interrupt, Crash, Save

-----------------------------------------------------------------------------
(* Types, and what is only so in a running process.                         *)

Exits == ExitOnMaxTicks \/ ExitOnBudget \/ ExitWhenStuck
ExitReasons == {"max_ticks", "budget", "stuck"}

\* Each exit before a tick is one with fresh results.
LEMMA ExitsSay ==
  ASSUME Exits
  PROVE  \E why \in ExitReasons : ExitWithFreshResults(why)
BY DEF Exits, ExitReasons, ExitOnMaxTicks, ExitOnBudget, ExitWhenStuck

\* A step of a running process keeps the type of the state and of its file.
LEMMA StateTypes ==
  ASSUME TypeOK, Running, Next
  PROVE  st' \in StateDict /\ disk' \in StateDict
<1>1. st \in StateDict /\ disk \in StateDict
  BY DEF TypeOK
<1>2. CASE Start
  BY <1>1, <1>2 DEF Start
<1>3. CASE Exits
  BY <1>3, ExitsSay, ExitSays
<1>4. CASE EvaluateGates
  BY <1>1, <1>4, EvaluateSays DEF EvaluateGates
<1>5. CASE PauseAtCheckpoint
  BY <1>5, PauseSays
<1>6. CASE LaunchPeer
  BY <1>1, <1>6, LaunchSays DEF LaunchPeer
<1>7. CASE FinalizeTick
  BY <1>7, FinalizeSays
<1>8. CASE CountClean
  BY <1>1, <1>8, CountSays
<1>9. CASE Quiet
  BY <1>1, <1>9, QuietSays
<1> QED
  BY <1>2, <1>3, <1>4, <1>5, <1>6, <1>7, <1>8, <1>9 DEF Next, Quiet, Exits

\* What has been seen green keeps its type.
LEMMA SeenTypes ==
  ASSUME TypeOK, greenAt' = SeenGreen
  PROVE  greenAt' \in [Watched -> Nat]
BY GateAssumption DEF TypeOK, StateDict, SeenGreen

\* Every step keeps the types.
LEMMA TypeStep ==
  ASSUME TypeOK, Running, [Next]_vars
  PROVE  TypeOK'
<1> USE GateAssumption
<1>1. CASE UNCHANGED vars
  BY <1>1 DEF vars, hist, TypeOK, AllGates, CleanGate
<1>2. ASSUME Next
      PROVE  TypeOK'
  <2>1. st' \in StateDict /\ disk' \in StateDict /\ st.iteration \in 0..MaxIterations
    BY <1>2, StateTypes DEF TypeOK, StateDict
  <2>2. mode' = mode /\ AllGates' = AllGates /\ failed \subseteq AllGates /\ RedNow \subseteq AllGates
    BY <1>2 DEF Next, TypeOK, AllGates, RedNow, CleanGate, Start, ExitOnMaxTicks, ExitOnBudget,
         ExitWhenStuck, ExitWithFreshResults, EvaluateGates, NotConverged, HuntGoesOn, AskSkeptic,
         AwaitPhaseB, Complete, PauseAtCheckpoint, LaunchPeer, PeerReturns, FinalizeTick,
         CountClean, Interrupt, Crash
  <2>3. CASE Start
    <3>1. ranAt' \in NeverRan..MaxIterations /\ starts' \in 0..MaxStarts
      BY <2>3 DEF Start, TypeOK, NeverRan
    <3>2. pending' = FALSE /\ ticks' = FALSE
      BY <2>3 DEF Start
    <3>3. pc' = "top" /\ goodRun' = 0 /\ sinceAudit' = 2
      BY <2>3 DEF Start
    <3>4. pending' \in BOOLEAN /\ ticks' \in BOOLEAN
      BY <3>2
    <3>5. goodRun' \in Nat /\ sinceAudit' \in 0..2
      BY <3>3
    <3>6. UNCHANGED <<failed, run, tree, reason, cleanRun, greenRun, greenAt, pauses, building, lost>>
      BY <2>3 DEF Start
    <3>7. /\ run' \in RunResults /\ cleanRun' \in 0..CleanN /\ greenRun' \in 0..PhaseAN
          /\ greenAt' \in [Watched -> Nat] /\ pauses' \in Nat /\ building' \in BOOLEAN
          /\ lost' \subseteq {"count", "evaluation"} /\ failed' \subseteq AllGates'
          /\ tree' \in [red : SUBSET Gates, done : 0..MaxSteps, soft : BOOLEAN]
      BY <2>2, <3>6 DEF TypeOK
    <3> QED
      BY <2>1, <2>2, <3>1, <3>3, <3>4, <3>5, <3>6, <3>7 DEF TypeOK
  <2>4. CASE Exits
    <3>1. PICK why \in ExitReasons : ExitWithFreshResults(why)
      BY <2>4, ExitsSay
    <3>2. greenAt' \in [Watched -> Nat]
      BY <3>1, SeenTypes DEF ExitWithFreshResults
    <3> QED
      BY <2>1, <2>2, <2>4, <3>1, <3>2
         DEF ExitWithFreshResults, Exit, ExitReasons, TypeOK, Exits, ExitOnMaxTicks, ExitOnBudget,
             ExitWhenStuck
  <2>5. CASE EvaluateGates
    <3>1. greenAt' \in [Watched -> Nat]
      BY <2>5, SeenTypes DEF EvaluateGates
    <3> QED
      BY <2>1, <2>2, <2>5, <3>1 DEF EvaluateGates, TypeOK
  <2>6. CASE NotConverged \/ HuntGoesOn \/ AskSkeptic \/ AwaitPhaseB \/ Complete
    BY <2>1, <2>2, <2>6 DEF NotConverged, HuntGoesOn, AskSkeptic, AwaitPhaseB, Complete, Exit, hist,
         TypeOK
  <2>7. CASE PauseAtCheckpoint
    <3>1. greenAt' \in [Watched -> Nat]
      BY <2>7, SeenTypes DEF PauseAtCheckpoint
    <3> QED
      <4>1. pc' = "down" /\ reason' = "checkpoint" /\ pauses' \in Nat
        BY <2>7 DEF PauseAtCheckpoint, Exit, TypeOK
      <4> QED
        BY <2>1, <2>2, <2>7, <3>1, <4>1 DEF PauseAtCheckpoint, TypeOK
  <2>8. CASE LaunchPeer
    <3>1. st.iteration + 1 \in NeverRan..MaxIterations
      BY <2>1, <2>8 DEF LaunchPeer, Running, InTick, NeverRan
    <3>2. AtMost(sinceAudit + 1, 2) \in 0..2
      BY DEF TypeOK, AtMost
    <3>3. building' \in BOOLEAN
      BY <2>8 DEF LaunchPeer, TypeOK
    <3> QED
      <4>1. pc' = "peer" /\ pending' \in BOOLEAN /\ ranAt' \in NeverRan..MaxIterations
        BY <2>8, <3>1 DEF LaunchPeer, TypeOK
      <4>2. sinceAudit' \in 0..2
        BY <2>8, <3>2 DEF LaunchPeer
      <4> QED
        BY <2>1, <2>2, <2>8, <3>3, <4>1, <4>2 DEF LaunchPeer, TypeOK
  <2>9. CASE PeerReturns
    <3>1. AtMost(cleanRun + 1, CleanN) \in 0..CleanN /\ AtMost(greenRun + 1, PhaseAN) \in 0..PhaseAN
      BY DEF TypeOK, AtMost
    <3>2. tree.done \in 0..MaxSteps
      BY DEF TypeOK
    <3>3. tree' \in [red : SUBSET Gates, done : 0..MaxSteps, soft : BOOLEAN]
      BY <2>9, <3>2 DEF PeerReturns
    <3>4. run' \in RunResults /\ cleanRun' \in 0..CleanN /\ greenRun' \in 0..PhaseAN /\ goodRun' \in Nat
      BY <2>9, <3>1 DEF PeerReturns, TypeOK
    <3> QED
      BY <2>1, <2>2, <2>9, <3>3, <3>4 DEF PeerReturns, TypeOK
  <2>10. CASE FinalizeTick
    <3>1. greenAt' \in [Watched -> Nat]
      BY <2>1, <2>10 DEF FinalizeTick, TypeOK
    <3> QED
      BY <2>1, <2>2, <2>10, <3>1 DEF FinalizeTick, TypeOK
  <2>11. CASE CountClean
    BY <2>1, <2>2, <2>11 DEF CountClean, hist, TypeOK
  <2>12. CASE Interrupt
    BY <2>1, <2>2, <2>12 DEF Interrupt, Exit, LostCount, TypeOK
  <2>13. CASE Crash
    BY <2>1, <2>2, <2>13 DEF Crash, Exit, LostCount, LostEvaluation, TypeOK
  <2> QED
    BY <1>2, <2>3, <2>4, <2>5, <2>6, <2>7, <2>8, <2>9, <2>10, <2>11, <2>12, <2>13 DEF Next, Exits
<1> QED
  BY <1>1, <1>2

\* The mode of the run is fixed.
LEMMA ModeKept ==
  ASSUME Next
  PROVE  mode' = mode /\ CleanGate' = CleanGate
BY DEF Next, CleanGate, Start, ExitOnMaxTicks, ExitOnBudget, ExitWhenStuck, ExitWithFreshResults,
       EvaluateGates, NotConverged, HuntGoesOn, AskSkeptic, AwaitPhaseB, Complete, PauseAtCheckpoint,
       LaunchPeer, PeerReturns, FinalizeTick, CountClean, Interrupt, Crash

(* Where a step takes the process. *)
LEMMA PlacesSay ==
  /\ Start => pc = "down" /\ pc' = "top"
  /\ Exits \/ PauseAtCheckpoint \/ Complete \/ Interrupt \/ Crash => pc' = "down"
  /\ EvaluateGates => pc = "top" /\ pc' = "decide"
  /\ NotConverged \/ HuntGoesOn \/ AskSkeptic \/ AwaitPhaseB => pc = "decide" /\ pc' = "checkpoint"
  /\ PauseAtCheckpoint => pc = "checkpoint"
  /\ LaunchPeer => pc = "checkpoint" /\ pc' = "peer"
  /\ PeerReturns => pc = "peer" /\ pc' = "finalize"
  /\ FinalizeTick => pc = "finalize" /\ pc' = "count"
  /\ CountClean => pc = "count" /\ pc' = "top"
  /\ Complete => pc = "decide"
  /\ Exits => pc = "top"
BY DEF Exits, Start, ExitOnMaxTicks, ExitOnBudget, ExitWhenStuck, ExitWithFreshResults, Exit,
       EvaluateGates, NotConverged, HuntGoesOn, AskSkeptic, AwaitPhaseB, Complete, PauseAtCheckpoint,
       LaunchPeer, PeerReturns, FinalizeTick, CountClean, Interrupt, Crash

\* Only a start counts as one.
LEMMA StartsSay ==
  ASSUME TypeOK, Next, ~Start
  PROVE  starts' = starts
BY DEF Next, Start, ExitOnMaxTicks, ExitOnBudget, ExitWhenStuck, ExitWithFreshResults,
       EvaluateGates, NotConverged, HuntGoesOn, AskSkeptic, AwaitPhaseB, Complete, PauseAtCheckpoint,
       LaunchPeer, PeerReturns, FinalizeTick, CountClean, Interrupt, Crash

\* What is so in a running process stays so.
LEMMA RunningStep ==
  ASSUME TypeOK, Running, [Next]_vars
  PROVE  Running'
<1>1. CASE UNCHANGED vars
  BY <1>1 DEF vars, Running, InTick
<1>2. CASE Start
  BY <1>2 DEF Start, Running, InTick, TypeOK
<1>3. ASSUME Next, ~Start
      PROVE  Running'
  <2>1. pc' # "down" => starts' >= 1
    BY <1>3, StartsSay, PlacesSay DEF Running, Next, Exits
  <2>2. CASE EvaluateGates
    <3>1. st'.iteration = st.iteration /\ st.iteration \in 0..MaxIterations
      BY <2>2, EvaluateSays DEF SameCounts, TypeOK, StateDict
    <3>2. ~OverBudget
      BY <2>2 DEF EvaluateGates
    <3>3. MaxIterations \in Nat
      BY GateAssumption
    <3> QED
      BY <2>1, <3>1, <3>2, <3>3 DEF Running, OverBudget
  <2>3. CASE LaunchPeer
    BY <2>1, <2>3, LaunchSays, PlacesSay DEF Running, InTick
  <2>4. CASE NotConverged \/ HuntGoesOn \/ AskSkeptic \/ AwaitPhaseB \/ PeerReturns
    BY <2>1, <2>4, QuietSays, PlacesSay DEF Running, InTick, Quiet
  <2> QED
    BY <1>3, <2>1, <2>2, <2>3, <2>4, PlacesSay DEF Next, Exits, Running, InTick
<1> QED
  BY <1>1, <1>2, <1>3

\* Outside a tick the file is what the memory is.
LEMMA SavedStep ==
  ASSUME TypeOK, Running, Saved, [Next]_vars
  PROVE  Saved'
<1>1. CASE UNCHANGED vars
  BY <1>1 DEF vars, Saved
<1>2. CASE Start
  BY <1>2 DEF Start, Saved
<1>3. CASE FinalizeTick
  BY <1>3, FinalizeSays DEF Saved
<1>4. CASE CountClean
  BY <1>4, CountSays DEF Saved, CountClean
<1> QED
  BY <1>1, <1>2, <1>3, <1>4, PlacesSay DEF Next, Exits, Saved

\* At the decision, what failed is what is red in the tree.
LEMMA EvaluatedStep ==
  ASSUME TypeOK, Evaluated, [Next]_vars
  PROVE  Evaluated'
<1>1. CASE UNCHANGED vars
  BY <1>1 DEF vars, Evaluated, CleanGate
<1>2. CASE EvaluateGates
  <2>1. failed' = RedNow /\ UNCHANGED <<tree, disk, mode>>
    BY <1>2 DEF EvaluateGates
  <2> QED
    BY <2>1 DEF Evaluated, RedNow, convergence_reached, CleanGate
<1> QED
  BY <1>1, <1>2, PlacesSay DEF Next, Exits, Evaluated

-----------------------------------------------------------------------------
(* The clean streak.                                                        *)

\* The clean counter and the streak it stands for lie within the limit.
LEMMA CountTypes ==
  ASSUME TypeOK
  PROVE  st.clean \in 0..CleanN /\ disk.clean \in 0..CleanN /\ CleanN \in Nat /\ cleanRun \in 0..CleanN
BY GateAssumption DEF TypeOK, StateDict

\* The saved clean counter never runs ahead of the clean ticks there were.
LEMMA CleanStep ==
  ASSUME TypeOK, Running, Saved, CountIsClean, [Next]_vars
  PROVE  CountIsClean'
<1> USE CountTypes
<1>1. CASE UNCHANGED vars
  BY <1>1 DEF vars, hist, CountIsClean, Counted
<1>2. CASE "count" \in lost
  BY <1>2 DEF CountIsClean, Next, vars, hist, Start, ExitOnMaxTicks, ExitOnBudget, ExitWhenStuck,
       ExitWithFreshResults, EvaluateGates, NotConverged, HuntGoesOn, AskSkeptic, AwaitPhaseB,
       Complete, PauseAtCheckpoint, LaunchPeer, PeerReturns, FinalizeTick, CountClean, Interrupt, Crash
<1>3. ASSUME Next, "count" \notin lost
      PROVE  CountIsClean'
  <2>1. Counted(st.clean) <= cleanRun /\ Counted(disk.clean) <= cleanRun
    BY <1>3 DEF CountIsClean
  <2>2. pc \notin {"finalize", "count"} => st.clean <= cleanRun /\ disk.clean <= cleanRun
    BY <2>1 DEF Counted
  <2>3. ASSUME pc \notin {"finalize", "count"}, pc' \notin {"finalize", "count"}, cleanRun' = cleanRun,
               st'.clean \in {st.clean, disk.clean}, disk'.clean \in {st.clean, disk.clean}
        PROVE  CountIsClean'
    BY <2>2, <2>3 DEF CountIsClean, Counted
  <2>4. CASE Start
    BY <2>3, <2>4 DEF Start
  <2>5. CASE Exits
    BY <2>3, <2>5, ExitsSay, ExitSays, PlacesSay DEF ExitWithFreshResults, SameCounts
  <2>6. CASE EvaluateGates
    <3>1. st'.clean = st.clean
      BY <2>6, EvaluateSays DEF SameCounts
    <3> QED
      BY <2>3, <2>6, <3>1 DEF EvaluateGates
  <2>7. CASE NotConverged \/ HuntGoesOn \/ AskSkeptic \/ AwaitPhaseB \/ Complete
    <3>1. st' = st /\ disk' \in {st, disk}
      BY <2>7, QuietSays DEF Quiet
    <3>2. cleanRun' = cleanRun
      BY <2>7 DEF hist, NotConverged, HuntGoesOn, AskSkeptic, AwaitPhaseB, Complete
    <3> QED
      BY <2>3, <2>7, <3>1, <3>2, PlacesSay
  <2>8. CASE PauseAtCheckpoint
    BY <2>3, <2>8, PauseSays, PlacesSay DEF PauseAtCheckpoint
  <2>9. CASE LaunchPeer
    <3>1. st'.clean = st.clean
      BY <2>9, LaunchSays
    <3> QED
      BY <2>3, <2>9, <3>1 DEF LaunchPeer
  <2>10. CASE PeerReturns
    <3>1. st' = st /\ disk' = disk /\ pc' = "finalize" /\ pc = "peer"
      BY <2>10 DEF PeerReturns
    <3>2. cleanRun' = IF run'.limited THEN cleanRun
                      ELSE IF run'.success /\ ~run'.bug THEN AtMost(cleanRun + 1, CleanN) ELSE 0
      BY <2>10 DEF PeerReturns
    <3>3. st.clean <= cleanRun /\ disk.clean <= cleanRun
      BY <2>2, <3>1
    <3> QED
      BY <3>1, <3>2, <3>3 DEF CountIsClean, Counted, AtMost
  <2>11. CASE FinalizeTick
    <3>1. st'.clean = st.clean /\ disk' = st'
      BY <2>11, FinalizeSays
    <3>2. pc' = "count" /\ pc = "finalize" /\ UNCHANGED <<run, cleanRun>>
      BY <2>11 DEF FinalizeTick
    <3> QED
      BY <2>1, <3>1, <3>2 DEF CountIsClean, Counted
  <2>12. CASE CountClean
    <3>1. pc' = "top" /\ pc = "count" /\ cleanRun' = cleanRun /\ disk = st
      BY <2>12 DEF CountClean, hist, Saved
    <3>2. st'.clean <= cleanRun /\ disk' = st'
      BY <2>1, <2>12, <3>1, CountSays DEF Counted, CountOf
    <3> QED
      BY <3>1, <3>2 DEF CountIsClean, Counted
  <2>13. CASE Interrupt \/ Crash
    <3>1. CASE pc \in {"finalize", "count"}
      BY <2>13, <3>1 DEF Interrupt, Crash, LostCount, CountIsClean
    <3>2. CASE pc \notin {"finalize", "count"}
      <4>1. st' = st /\ disk' \in {st, disk} /\ pc' = "down" /\ cleanRun' = cleanRun
        BY <2>13, QuietSays, PlacesSay DEF Quiet, Interrupt, Crash
      <4> QED
        BY <2>3, <3>2, <4>1
    <3> QED
      BY <3>1, <3>2
  <2> QED
    BY <1>3, <2>4, <2>5, <2>6, <2>7, <2>8, <2>9, <2>10, <2>11, <2>12, <2>13 DEF Next, Exits
<1> QED
  BY <1>1, <1>2, <1>3

\* Only the decision itself says "complete".
LEMMA ReasonsSay ==
  ASSUME Next, pc' = "down", reason' = "complete"
  PROVE  Complete
BY DEF Next, Start, ExitOnMaxTicks, ExitOnBudget, ExitWhenStuck, ExitWithFreshResults, Exit,
       EvaluateGates, NotConverged, HuntGoesOn, AskSkeptic, AwaitPhaseB, PauseAtCheckpoint, LaunchPeer,
       PeerReturns, FinalizeTick, CountClean, Interrupt, Crash

\* Only Complete says "complete", and it says it of a full streak.
LEMMA EndStep ==
  ASSUME TypeOK, Evaluated, CountIsClean, CompleteNeedsCleanStreakUncut, [Next]_vars
  PROVE  CompleteNeedsCleanStreakUncut'
<1>1. CASE UNCHANGED vars
  BY <1>1 DEF vars, hist, CompleteNeedsCleanStreakUncut, CompleteNeedsCleanStreak, CleanGate
<1>2. CASE Complete
  <2>1. pc = "decide" /\ failed = {} /\ UNCHANGED <<cleanRun, lost>>
    BY <1>2 DEF Complete, Converged, hist
  <2>2. CleanGate' = CleanGate
    BY <1>2 DEF Complete, CleanGate
  <2>3. CleanGate # {} => disk.clean >= CleanN
    BY <2>1 DEF Evaluated
  <2>4. "count" \notin lost => disk.clean <= cleanRun
    BY <2>1 DEF CountIsClean, Counted
  <2> QED
    BY <2>1, <2>2, <2>3, <2>4, CountTypes
       DEF CompleteNeedsCleanStreakUncut, CompleteNeedsCleanStreak
<1> QED
  BY <1>1, <1>2, ReasonsSay DEF CompleteNeedsCleanStreakUncut, CompleteNeedsCleanStreak

-----------------------------------------------------------------------------
(* The re-audit, and the gates that stay red.                               *)

\* The counters and the history are numbers.
LEMMA IterationTypes ==
  ASSUME TypeOK
  PROVE  /\ st.iteration \in Nat /\ disk.iteration \in Nat /\ ranAt \in Int /\ sinceAudit \in 0..2
         /\ starts \in Nat /\ pauses \in Nat /\ greenAt \in [Watched -> Nat]
         /\ \A g \in Watched : greenAt[g] \in Nat /\ st.stuck[g] \in Nat /\ disk.stuck[g] \in Nat
<1>1. st.stuck \in [Watched -> 0..StuckAfter] /\ disk.stuck \in [Watched -> 0..StuckAfter]
  BY DEF TypeOK, StateDict
<1>2. \A g \in Watched : st.stuck[g] \in Nat /\ disk.stuck[g] \in Nat
  BY <1>1, GateAssumption
<1>3. ranAt \in Int /\ starts \in Nat
  BY GateAssumption DEF TypeOK, NeverRan
<1> QED
  BY <1>2, <1>3, GateAssumption DEF TypeOK, StateDict

\* There were no more ticks since the last re-audit than iterations.
LEMMA AuditStep ==
  ASSUME TypeOK, Running, AuditIsCounted, [Next]_vars
  PROVE  AuditIsCounted'
<1> USE IterationTypes
<1>1. CASE UNCHANGED vars
  BY <1>1 DEF vars, hist, AuditIsCounted, Over
<1>2. CASE Start
  <2>1. pc' = "top" /\ st' = disk /\ ranAt' = -2 /\ sinceAudit' = 2
    BY <1>2 DEF Start, NeverRan
  <2> QED
    BY <2>1 DEF AuditIsCounted, Over
<1>3. CASE EvaluateGates
  <2>1. st'.iteration = st.iteration
    BY <1>3, EvaluateSays DEF SameCounts
  <2> QED
    BY <1>3, <2>1 DEF EvaluateGates, AuditIsCounted, Over
<1>4. CASE NotConverged \/ HuntGoesOn \/ AskSkeptic \/ AwaitPhaseB
  BY <1>4 DEF NotConverged, HuntGoesOn, AskSkeptic, AwaitPhaseB, hist, AuditIsCounted, Over
<1>5. CASE LaunchPeer
  <2>1. pc = "checkpoint" /\ pc' = "peer" /\ st'.iteration = st.iteration
    BY <1>5, LaunchSays, PlacesSay
  <2>2. \/ ranAt' = st.iteration + 1 /\ sinceAudit' = 0
        \/ ranAt' = ranAt /\ sinceAudit' = AtMost(sinceAudit + 1, 2)
    BY <1>5 DEF LaunchPeer
  <2> QED
    BY <2>1, <2>2 DEF AuditIsCounted, Over, AtMost
<1>6. CASE PeerReturns
  BY <1>6 DEF PeerReturns, AuditIsCounted, Over
<1>7. CASE FinalizeTick
  <2>1. st'.iteration = st.iteration + 1
    BY <1>7, FinalizeSays
  <2> QED
    BY <1>7, <2>1 DEF FinalizeTick, AuditIsCounted, Over
<1>8. CASE CountClean
  <2>1. st'.iteration = st.iteration
    BY <1>8, CountSays
  <2> QED
    BY <1>8, <2>1 DEF CountClean, hist, AuditIsCounted, Over
<1> QED
  BY <1>1, <1>2, <1>3, <1>4, <1>5, <1>6, <1>7, <1>8, PlacesSay DEF Next, Exits, AuditIsCounted

\* A lost evaluation stays lost.
LEMMA LostStays ==
  ASSUME [Next]_vars, "evaluation" \in lost
  PROVE  "evaluation" \in lost'
BY DEF Next, vars, hist, Start, ExitOnMaxTicks, ExitOnBudget, ExitWhenStuck, ExitWithFreshResults,
       EvaluateGates, NotConverged, HuntGoesOn, AskSkeptic, AwaitPhaseB, Complete, PauseAtCheckpoint,
       LaunchPeer, PeerReturns, FinalizeTick, CountClean, Interrupt, Crash

\* The stuck counter of a gate counts no more than the ticks since it was seen green.
LEMMA RedStep ==
  ASSUME TypeOK, Running, Saved, RedIsCounted, [Next]_vars
  PROVE  RedIsCounted'
<1> USE IterationTypes
<1>1. SUFFICES ASSUME "evaluation" \notin lost, "evaluation" \notin lost', NEW g \in Watched
               PROVE  RedSinceGreen(g)'
  BY LostStays DEF RedIsCounted
<1>2. RedSinceGreen(g)
  BY <1>1 DEF RedIsCounted
<1>types. Next => st'.iteration \in Nat /\ st'.stuck[g] \in Nat
  BY StateTypes, GateAssumption DEF StateDict
<1>3. CASE UNCHANGED vars
  BY <1>2, <1>3 DEF vars, hist, RedSinceGreen, Kept, Ahead
<1>4. CASE Start
  <2>1. pc = "down" /\ pc' = "top" /\ st' = disk /\ starts' = starts + 1 /\ UNCHANGED <<greenAt, pauses>>
    BY <1>4 DEF Start
  <2> QED
    BY <1>2, <2>1 DEF RedSinceGreen, Kept, Ahead
<1>5. CASE Exits
  <2>1. PICK why \in ExitReasons : ExitWithFreshResults(why)
    BY <1>5, ExitsSay
  <2>2. SeenOrCounted(g) /\ st'.iteration = st.iteration /\ disk' = st' /\ starts' = starts
    BY <2>1, ExitSays DEF SameCounts, ExitWithFreshResults
  <2>3. pc = "top" /\ pc' = "down" /\ pauses' = pauses
    BY <1>5 DEF Exits, ExitOnMaxTicks, ExitOnBudget, ExitWhenStuck, ExitWithFreshResults, Exit
  <2>4. starts >= 1
    BY <2>3 DEF Running
  <2>7. st'.iteration \in Nat /\ st'.stuck[g] \in Nat
    BY <1>types, <1>5 DEF Next, Exits
  <2>8. Kept' = disk' /\ Ahead' = 1 /\ Kept = st /\ Ahead = 0
    BY <2>2, <2>3 DEF Kept, Ahead
  <2>9. greenAt'[g] <= Kept'.iteration
    BY <1>2, <2>1, <2>2, <2>3, <2>4, <2>7, <2>8 DEF RedSinceGreen, SeenOrCounted
  <2> QED
    BY <1>2, <2>1, <2>2, <2>3, <2>4, <2>7, <2>8, <2>9 DEF RedSinceGreen, SeenOrCounted
<1>6. CASE EvaluateGates
  <2>1. SeenOrCounted(g) /\ st'.iteration = st.iteration
    BY <1>6, EvaluateSays DEF SameCounts
  <2>2. pc = "top" /\ pc' = "decide" /\ UNCHANGED <<starts, pauses>>
    BY <1>6 DEF EvaluateGates
  <2>3. starts >= 1
    BY <2>2 DEF Running
  <2>7. st'.iteration \in Nat /\ st'.stuck[g] \in Nat
    BY <1>types, <1>6 DEF Next, Exits
  <2>8. Kept' = st' /\ Ahead' = 1 /\ Kept = st /\ Ahead = 0
    BY <2>2 DEF Kept, Ahead
  <2>9. greenAt'[g] <= Kept'.iteration
    BY <1>2, <2>1, <2>2, <2>3, <2>7, <2>8 DEF RedSinceGreen, SeenOrCounted
  <2> QED
    BY <1>2, <2>1, <2>2, <2>3, <2>7, <2>8, <2>9 DEF RedSinceGreen, SeenOrCounted
<1>7. CASE NotConverged \/ HuntGoesOn \/ AskSkeptic \/ AwaitPhaseB \/ Complete
  <2>1. pc = "decide" /\ pc' \in {"checkpoint", "down"} /\ UNCHANGED <<st, starts, pauses, greenAt>>
    BY <1>7, PlacesSay DEF NotConverged, HuntGoesOn, AskSkeptic, AwaitPhaseB, Complete, hist
  <2>2. pc' = "down" => disk' = st
    BY <1>7, <2>1, PlacesSay DEF Complete, Save
  <2> QED
    BY <1>2, <2>1, <2>2 DEF RedSinceGreen, Kept, Ahead
<1>8. CASE PauseAtCheckpoint
  <2>1. SeenOrCounted(g) /\ st'.iteration = st.iteration /\ disk' = st'
    BY <1>8, PauseSays
  <2>2. pc = "checkpoint" /\ pc' = "down" /\ starts' = starts /\ pauses' = pauses + 1
    BY <1>8 DEF PauseAtCheckpoint, Exit
  <2>3. starts >= 1
    BY <2>2 DEF Running
  <2>7. st'.iteration \in Nat /\ st'.stuck[g] \in Nat
    BY <1>types, <1>8 DEF Next, Exits
  <2>8. Kept' = disk' /\ Ahead' = 1 /\ Kept = st /\ Ahead = 1
    BY <2>1, <2>2 DEF Kept, Ahead
  <2>9. greenAt'[g] <= Kept'.iteration
    BY <1>2, <2>1, <2>2, <2>7, <2>8 DEF RedSinceGreen, SeenOrCounted
  <2> QED
    BY <1>2, <2>1, <2>2, <2>3, <2>7, <2>8, <2>9 DEF RedSinceGreen, SeenOrCounted
<1>9. CASE LaunchPeer
  <2>1. st'.iteration = st.iteration /\ st'.stuck = st.stuck
    BY <1>9, LaunchSays
  <2>2. pc = "checkpoint" /\ pc' = "peer" /\ UNCHANGED <<starts, pauses, greenAt>>
    BY <1>9 DEF LaunchPeer
  <2>8. Kept' = st' /\ Ahead' = 1 /\ Kept = st /\ Ahead = 1
    BY <2>1, <2>2 DEF Kept, Ahead
  <2>9. greenAt'[g] <= Kept'.iteration
    BY <1>2, <2>1, <2>2, <2>8 DEF RedSinceGreen, SeenOrCounted
  <2> QED
    BY <1>2, <2>1, <2>2, <2>8, <2>9 DEF RedSinceGreen, SeenOrCounted
<1>10. CASE PeerReturns
  <2>1. pc = "peer" /\ pc' = "finalize" /\ UNCHANGED <<st, starts, pauses, greenAt>>
    BY <1>10 DEF PeerReturns
  <2> QED
    BY <1>2, <2>1 DEF RedSinceGreen, Kept, Ahead
<1>11. CASE FinalizeTick
  <2>1. /\ st'.iteration = st.iteration + 1
        /\ \/ greenAt'[g] = st.iteration + 1 /\ st'.stuck[g] = 0
           \/ greenAt'[g] = greenAt[g] /\ (st'.stuck[g] <= st.stuck[g] \/ st'.stuck[g] <= 1)
    BY <1>11, FinalizeSays
  <2>2. pc = "finalize" /\ pc' = "count" /\ UNCHANGED <<starts, pauses>>
    BY <1>11 DEF FinalizeTick
  <2>3. starts >= 1
    BY <2>2 DEF Running
  <2>7. st'.iteration \in Nat /\ st'.stuck[g] \in Nat
    BY <1>types, <1>11 DEF Next, Exits
  <2>8. Kept' = st' /\ Ahead' = 0 /\ Kept = st /\ Ahead = 1
    BY <2>1, <2>2 DEF Kept, Ahead
  <2>9. greenAt'[g] <= Kept'.iteration
    BY <1>2, <2>1, <2>2, <2>7, <2>8 DEF RedSinceGreen, SeenOrCounted
  <2> QED
    BY <1>2, <2>1, <2>2, <2>3, <2>7, <2>8, <2>9 DEF RedSinceGreen, SeenOrCounted
<1>12. CASE CountClean
  <2>1. st'.iteration = st.iteration /\ st'.stuck = st.stuck
    BY <1>12, CountSays
  <2>2. pc = "count" /\ pc' = "top" /\ UNCHANGED <<starts, pauses, greenAt>>
    BY <1>12 DEF CountClean, hist
  <2> QED
    BY <1>2, <2>1, <2>2 DEF RedSinceGreen, Kept, Ahead
<1>13. CASE Interrupt
  <2>1. pc # "down" /\ pc' = "down" /\ disk' = st /\ UNCHANGED <<st, starts, pauses, greenAt>>
    BY <1>13 DEF Interrupt, Exit, Save
  <2> QED
    BY <1>2, <2>1 DEF RedSinceGreen, Kept, Ahead
<1>14. CASE Crash
  <2>1. pc # "down" /\ pc' = "down" /\ UNCHANGED <<st, disk, starts, pauses, greenAt>>
    BY <1>14 DEF Crash, Exit
  <2>2. pc \in {"top", "count"}
    BY <1>1, <1>14, <2>1 DEF Crash, LostEvaluation, TypeOK
  <2> QED
    BY <1>2, <2>1, <2>2 DEF RedSinceGreen, Kept, Ahead, Saved
<1> QED
  BY <1>3, <1>4, <1>5, <1>6, <1>7, <1>8, <1>9, <1>10, <1>11, <1>12, <1>13, <1>14 DEF Next, Exits

-----------------------------------------------------------------------------
(* The checkpoint.                                                          *)

\* A step that takes phase and iteration from one saved state keeps the record of the
\* pause.
LEMMA PauseKept ==
  ASSUME TypeOK, PauseIsRecorded, NEW a \in {st, disk}, NEW b \in {st, disk},
         st'.prelude = a.prelude, st'.iteration = a.iteration,
         disk'.prelude = b.prelude, disk'.iteration = b.iteration,
         UNCHANGED <<mode, pauses, building>>,
         pc' \in {"peer", "finalize"} => pc = "peer" /\ st' = st
  PROVE  PauseIsRecorded'
BY DEF PauseIsRecorded, BeforePause, AfterPause, Prelude

\* The pause is recorded once, before anything is built.
LEMMA PauseStep ==
  ASSUME TypeOK, Running, PauseIsRecorded, [Next]_vars
  PROVE  PauseIsRecorded'
<1>0. st.iteration \in Nat /\ pauses \in Nat
  BY IterationTypes
<1>1. CASE UNCHANGED vars
  BY <1>1 DEF vars, hist, PauseIsRecorded, BeforePause, AfterPause, Prelude
<1>2. CASE Start
  BY <1>2, PauseKept DEF Start
<1>3. CASE Exits
  <2>1. PICK why \in ExitReasons : ExitWithFreshResults(why)
    BY <1>3, ExitsSay
  <2>2. SameCounts(st', st) /\ disk' = st'
    BY <2>1, ExitSays
  <2>3. pc' = "down" /\ UNCHANGED <<mode, pauses, building>>
    BY <1>3, PlacesSay DEF Exits, ExitOnMaxTicks, ExitOnBudget, ExitWhenStuck, ExitWithFreshResults
  <2> QED
    BY <2>2, <2>3, PauseKept DEF SameCounts
<1>4. CASE EvaluateGates
  <2>1. SameCounts(st', st)
    BY <1>4, EvaluateSays
  <2> QED
    BY <1>4, <2>1, PauseKept DEF SameCounts, EvaluateGates
<1>5. CASE Quiet
  <2>1. st' = st /\ disk' \in {st, disk}
    BY <1>5, QuietSays
  <2>2. pc' \in {"peer", "finalize"} => pc = "peer"
    BY <1>5, PlacesSay DEF Quiet
  <2>3. UNCHANGED <<mode, pauses, building>>
    BY <1>5 DEF Quiet, NotConverged, HuntGoesOn, AskSkeptic, AwaitPhaseB, Complete, PeerReturns,
         Interrupt, Crash, hist
  <2> QED
    BY <2>1, <2>2, <2>3, PauseKept
<1>6. CASE CountClean
  <2>1. /\ st'.iteration = st.iteration /\ st'.prelude = st.prelude
        /\ disk' \in {st', disk}
    BY <1>6, CountSays
  <2>2. pc' = "top" /\ UNCHANGED <<mode, pauses, building>>
    BY <1>6 DEF CountClean, hist
  <2> QED
    BY <2>1, <2>2, PauseKept
<1>7. CASE PauseAtCheckpoint
  <2>1. st'.iteration = st.iteration /\ st'.prelude = Prelude(st.iteration) /\ disk' = st'
    BY <1>7, PauseSays
  <2>2. /\ pc' = "down" /\ pauses' = pauses + 1 /\ UNCHANGED <<mode, building>>
        /\ Checkpoint /\ st.prelude = "architecture" /\ Prelude(st.iteration) = "implementation"
    BY <1>7 DEF PauseAtCheckpoint, CheckpointDue, Exit
  <2>3. mode = "implement" /\ pauses = 0 /\ st.iteration >= 3
    BY <1>0, <2>2 DEF PauseIsRecorded, AfterPause, Prelude
  <2>4. AfterPause(st') /\ AfterPause(disk')
    BY <1>0, <2>1, <2>2, <2>3 DEF AfterPause
  <2>5. pauses' = 1
    BY <2>2, <2>3
  <2> QED
    BY <2>2, <2>3, <2>4, <2>5 DEF PauseIsRecorded, AfterPause
<1>8. CASE LaunchPeer
  <2>1. st'.iteration = st.iteration /\ st'.prelude = Prelude(st.iteration)
    BY <1>8, LaunchSays
  <2>2. pc' = "peer" /\ UNCHANGED <<mode, pauses, disk>> /\ ~CheckpointDue
    BY <1>8 DEF LaunchPeer
  <2>3. building' = (building \/ (mode = "implement" /\ st'.prelude = "implementation"))
    BY <1>8 DEF LaunchPeer
  <2>4. mode # "implement" => /\ ~building' /\ st'.prelude # "architecture"
                              /\ disk'.prelude # "architecture"
    BY <2>1, <2>2, <2>3 DEF PauseIsRecorded, Prelude
  <2>5. ASSUME Checkpoint, mode = "implement", pauses = 0
        PROVE  ~building' /\ BeforePause(st') /\ BeforePause(disk')
    <3>1. ~building /\ BeforePause(st) /\ BeforePause(disk)
      BY <2>5 DEF PauseIsRecorded
    <3>2. st.iteration <= 2
      BY <1>0, <2>2, <2>5, <3>1 DEF CheckpointDue, BeforePause, Prelude
    <3>3. st'.prelude # "implementation" /\ st'.iteration <= 2
      BY <1>0, <2>1, <2>5, <3>2 DEF Prelude
    <3>4. ~building'
      BY <2>3, <3>1, <3>3
    <3>5. BeforePause(st')
      BY <1>0, <2>1, <3>3 DEF BeforePause
    <3> QED
      BY <2>2, <3>1, <3>4, <3>5
  <2>6. pauses = 1 => AfterPause(st') /\ AfterPause(disk')
    BY <1>0, <2>1, <2>2 DEF PauseIsRecorded, AfterPause, Prelude
  <2>8. st'.prelude = (IF mode' # "implement" \/ st'.iteration > 2 THEN "implementation"
                       ELSE IF st'.iteration = 2 THEN "architecture" ELSE "prelude")
    BY <2>1, <2>2 DEF Prelude
  <2> QED
    BY <2>2, <2>4, <2>5, <2>6, <2>8 DEF PauseIsRecorded, BeforePause, AfterPause, Prelude
<1>9. CASE FinalizeTick
  <2>1. st'.iteration = st.iteration + 1 /\ st'.prelude = st.prelude /\ disk' = st'
    BY <1>9, FinalizeSays
  <2>2. pc = "finalize" /\ pc' = "count" /\ UNCHANGED <<mode, pauses, building>>
    BY <1>9 DEF FinalizeTick
  <2>3. st.prelude = Prelude(st.iteration)
    BY <2>2 DEF PauseIsRecorded
  <2>4. BeforePause(st) /\ mode = "implement" => BeforePause(st')
    BY <1>0, <2>1, <2>3 DEF BeforePause, Prelude
  <2>5. AfterPause(st) => AfterPause(st')
    BY <1>0, <2>1 DEF AfterPause
  <2> QED
    BY <2>1, <2>2, <2>4, <2>5 DEF PauseIsRecorded, BeforePause, AfterPause
<1> QED
  BY <1>1, <1>2, <1>3, <1>4, <1>5, <1>6, <1>7, <1>8, <1>9 DEF Next, Exits, Quiet

-----------------------------------------------------------------------------
(* Flawless ticks.                                                          *)

\* The extra evaluations are counted in phase B only.
LEMMA ExtraStep ==
  ASSUME TypeOK, Running, ExtraInB, [Next]_vars
  PROVE  ExtraInB'
<1>1. CASE UNCHANGED vars
  BY <1>1 DEF vars, ExtraInB
<1>2. CASE Start
  BY <1>2 DEF Start, ExtraInB
<1>3. CASE Exits
  BY <1>3, ExitsSay, ExitSays DEF ExtraInB, SamePhase
<1>4. CASE EvaluateGates
  BY <1>4, EvaluateSays DEF ExtraInB, EvaluateGates
<1>5. CASE PauseAtCheckpoint
  BY <1>5, PauseSays DEF ExtraInB, SamePhase
<1>6. CASE LaunchPeer
  BY <1>6, LaunchSays DEF ExtraInB, SamePhase, LaunchPeer
<1>7. CASE FinalizeTick
  BY <1>7, FinalizeSays DEF ExtraInB
<1>8. CASE CountClean
  BY <1>8, CountSays DEF ExtraInB, SamePhase
<1>9. CASE Quiet
  BY <1>9, QuietSays DEF ExtraInB
<1> QED
  BY <1>1, <1>2, <1>3, <1>4, <1>5, <1>6, <1>7, <1>8, <1>9 DEF Next, Exits, Quiet

\* The limits of the two phases are at least one.
LEMMA PhaseTypes ==
  ASSUME TypeOK
  PROVE  /\ st.hardGreen \in Nat /\ st.extra \in Nat /\ st.phase \in {"A", "B", "complete"}
         /\ PhaseAN \in Nat /\ PhaseBN \in Nat /\ goodRun \in Nat
         /\ AtLeastOne(PhaseAN) \in Nat /\ AtLeastOne(PhaseAN) >= 1 /\ PhaseAN <= AtLeastOne(PhaseAN)
         /\ AtLeastOne(PhaseBN) \in Nat /\ AtLeastOne(PhaseBN) >= 1 /\ PhaseBN <= AtLeastOne(PhaseBN)
BY GateAssumption DEF TypeOK, StateDict, AtLeastOne

\* One more flawless tick whose gates were evaluated takes the phases one further.
LEMMA PhaseAdvances ==
  ASSUME TypeOK, ExtraInB, Advances(st', st), st'.extra \in Nat, st'.hardGreen \in Nat,
         goodRun' = goodRun, goodRun >= 1, goodRun >= 2 => InPhase(goodRun - 1)
  PROVE  InPhase(goodRun)'
<1> USE PhaseTypes
<1>1. CASE st.phase = "complete"
  BY <1>1 DEF Advances, InPhase
<1>2. CASE st.phase = "B"
  <2>1. st'.phase = "complete" \/ (st'.phase = "B" /\ st'.extra = st.extra + 1 /\ st'.extra < PhaseBN)
    BY <1>2 DEF Advances
  <2>2. goodRun >= 2 => st.extra >= goodRun - 1 - AtLeastOne(PhaseAN)
    BY <1>2 DEF InPhase
  <2>3. st.extra + 1 >= goodRun - AtLeastOne(PhaseAN)
    BY <2>2
  <2> QED
    BY <2>1, <2>3 DEF InPhase
<1>3. CASE st.phase = "A"
  <2>1. \/ st'.phase = "A" /\ st'.hardGreen >= st.hardGreen + 1 /\ st'.hardGreen < PhaseAN
        \/ st'.phase = "B" /\ st'.extra = 0
    BY <1>3 DEF Advances, ExtraInB
  <2>2. goodRun >= 2 => st.hardGreen >= goodRun - 1 /\ st.hardGreen < PhaseAN
    BY <1>3 DEF InPhase
  <2>3. st.hardGreen + 1 >= goodRun /\ goodRun <= AtLeastOne(PhaseAN)
    BY <2>2
  <2> QED
    BY <2>1, <2>3 DEF InPhase
<1> QED
  BY <1>1, <1>2, <1>3

\* In a run of flawless ticks every counter grows with the run.
LEMMA FlawlessStep ==
  ASSUME TypeOK, Running, Saved, ExtraInB, Flawless, [Next]_vars
  PROVE  Flawless'
<1> USE CountTypes, PhaseTypes
<1>1. CASE UNCHANGED vars
  BY <1>1 DEF vars, hist, Flawless, TreeIsGood, InPhase, CleanGate
<1>2. CASE Start
  <2>1. pc' = "top" /\ goodRun' = 0
    BY <1>2 DEF Start
  <2> QED
    BY <2>1 DEF Flawless
<1>3. CASE pc' = "down"
  BY <1>3 DEF Flawless
<1>4. CASE EvaluateGates
  <2>1. /\ pc = "top" /\ pc' = "decide" /\ failed' = RedNow /\ UNCHANGED <<tree, goodRun, mode>>
    BY <1>4 DEF EvaluateGates
  <2>2. st'.clean = st.clean /\ (mode = "implement" /\ Gates # {} /\ RedNow = {} => Advances(st', st))
    BY <1>4, EvaluateSays DEF SameCounts
  <2>3. disk = st /\ CleanGate' = CleanGate /\ st'.extra \in Nat /\ st'.hardGreen \in Nat
    BY <1>4, <2>1, StateTypes, ModeKept, GateAssumption DEF Saved, Next, StateDict
  <2>4. ASSUME goodRun >= 1
        PROVE  /\ TreeIsGood /\ st.clean >= AtMost(goodRun, CleanN)
               /\ CleanGate = {} \/ st.clean >= CleanN => RedNow = {}
    BY <2>1, <2>3, <2>4 DEF Flawless, TreeIsGood, RedNow, convergence_reached
  <2>5. ASSUME goodRun >= 1, mode = "implement", Gates # {}
        PROVE  InPhase(goodRun)'
    <3>1. CleanGate = {}
      BY <2>5 DEF CleanGate
    <3>2. goodRun >= 2 => InPhase(goodRun - 1)
      BY <2>1, <2>5 DEF Flawless
    <3> QED
      BY <2>1, <2>2, <2>3, <2>4, <2>5, <3>1, <3>2, PhaseAdvances
  <2> QED
    BY <2>1, <2>2, <2>3, <2>4, <2>5 DEF Flawless, TreeIsGood
<1>5. CASE NotConverged \/ HuntGoesOn \/ AskSkeptic \/ AwaitPhaseB
  <2>1. pc = "decide" /\ pc' = "checkpoint" /\ UNCHANGED <<st, failed, tree, goodRun, mode>>
    BY <1>5 DEF NotConverged, HuntGoesOn, AskSkeptic, AwaitPhaseB, hist
  <2> QED
    BY <2>1 DEF Flawless, TreeIsGood, InPhase, CleanGate
<1>6. CASE LaunchPeer
  <2>1. pc = "checkpoint" /\ pc' = "peer" /\ UNCHANGED <<failed, tree, goodRun, mode>>
    BY <1>6 DEF LaunchPeer
  <2>2. st'.clean = st.clean /\ SamePhase(st', st)
    BY <1>6, LaunchSays
  <2> QED
    BY <2>1, <2>2 DEF Flawless, TreeIsGood, InPhase, CleanGate, SamePhase
<1>7. CASE PeerReturns
  <2>1. pc = "peer" /\ pc' = "finalize" /\ UNCHANGED <<st, failed, mode>> /\ run' \in RunResults
    BY <1>7 DEF PeerReturns
  <2>2. goodRun' = IF run'.success /\ ~run'.bug /\ tree'.red = {} /\ tree'.soft THEN goodRun + 1 ELSE 0
    BY <1>7 DEF PeerReturns
  <2>3. ASSUME goodRun' >= 1
        PROVE  /\ TreeIsGood' /\ run'.success /\ ~run'.bug /\ ~run'.limited /\ goodRun' = goodRun + 1
    BY <2>1, <2>2, <2>3 DEF TreeIsGood, RunResults
  <2>4. goodRun' >= 1 => st'.clean >= AtMost(goodRun' - 1, CleanN)
    <3>1. goodRun = 0 => AtMost(goodRun, CleanN) = 0
      BY DEF AtMost
    <3>2. goodRun >= 1 => st.clean >= AtMost(goodRun, CleanN)
      BY <2>1 DEF Flawless
    <3> QED
      BY <2>1, <2>3, <3>1, <3>2
  <2>5. goodRun' >= 2 => goodRun >= 1 /\ goodRun' - 1 = goodRun
    BY <2>2
  <2>6. goodRun >= 1 /\ mode = "implement" =>
          TreeIsGood /\ failed = {} /\ (Gates # {} => InPhase(goodRun))
    BY <2>1 DEF Flawless, CleanGate
  <2>7. goodRun' >= 2 /\ mode = "implement" => failed' = {}
    BY <2>1, <2>5, <2>6
  <2>8. goodRun' >= 2 /\ mode = "implement" /\ Gates # {} => InPhase(goodRun - 1)'
    BY <2>1, <2>5, <2>6 DEF InPhase
  <2> QED
    BY <2>1, <2>3, <2>4, <2>7, <2>8 DEF Flawless
<1>8. CASE FinalizeTick
  <2>1. pc = "finalize" /\ pc' = "count" /\ UNCHANGED <<run, failed, tree, goodRun, mode>>
    BY <1>8 DEF FinalizeTick
  <2>2. st'.clean = st.clean /\ (failed = {} => SamePhase(st', st))
    BY <1>8, FinalizeSays
  <2> QED
    BY <2>1, <2>2 DEF Flawless, TreeIsGood, InPhase, SamePhase
<1>9. CASE CountClean
  <2>1. pc = "count" /\ pc' = "top" /\ UNCHANGED <<tree, goodRun, mode>>
    BY <1>9 DEF CountClean, hist
  <2>2. SamePhase(st', st) /\ (~run.limited => st'.clean = CountOf(st.clean))
    BY <1>9, CountSays
  <2>3. ASSUME goodRun >= 1
        PROVE  TreeIsGood /\ st'.clean >= AtMost(goodRun, CleanN)
    <3>1. TreeIsGood /\ st.clean >= AtMost(goodRun - 1, CleanN) /\ st'.clean = AtMost(st.clean + 1, CleanN)
      BY <2>1, <2>2, <2>3 DEF Flawless, CountOf
    <3> QED
      BY <2>3, <3>1 DEF AtMost
  <2> QED
    BY <2>1, <2>2, <2>3 DEF Flawless, TreeIsGood, InPhase, SamePhase
<1> QED
  BY <1>1, <1>2, <1>3, <1>4, <1>5, <1>6, <1>7, <1>8, <1>9, PlacesSay DEF Next, Exits

-----------------------------------------------------------------------------
(* At the limit only the re-audit is left.                                  *)

\* The limit of a run of flawless ticks is at least one.
LEMMA LimitTypes == FlawlessTicks \in Nat /\ FlawlessTicks >= 1
BY GateAssumption DEF FlawlessTicks, AtLeastOne

\* At the limit the loop is converged, and implement mode has its phases behind it.
LEMMA ReadyAtLimit ==
  ASSUME TypeOK, Flawless, pc = "decide", goodRun >= FlawlessTicks,
         mode # "hunt-open-ended", mode = "implement" => Gates # {}
  PROVE  Converged /\ (mode = "implement" => st.phase = "complete")
<1> USE CountTypes, PhaseTypes, LimitTypes
<1>1. /\ goodRun >= 1 /\ TreeIsGood /\ st.clean >= AtMost(goodRun, CleanN)
      /\ CleanGate = {} \/ st.clean >= CleanN => failed = {}
  BY DEF Flawless
<1>2. CASE mode = "implement"
  <2>1. failed = {} /\ InPhase(goodRun)
    BY <1>1, <1>2 DEF Flawless, CleanGate
  <2>2. goodRun >= AtLeastOne(PhaseAN) + AtLeastOne(PhaseBN)
    BY <1>2 DEF FlawlessTicks
  <2>3. st.phase = "complete"
    BY <2>1, <2>2 DEF InPhase
  <2> QED
    BY <1>1, <2>1, <2>3 DEF Converged, TreeIsGood
<1>3. CASE mode # "implement"
  <2>1. CleanN > 0 => goodRun >= CleanN
    BY <1>3 DEF FlawlessTicks, AtLeastOne
  <2>2. CleanGate = {} \/ st.clean >= CleanN
    BY <1>1, <2>1 DEF CleanGate, AtMost
  <2> QED
    BY <1>1, <1>3, <2>2 DEF Converged, TreeIsGood
<1> QED
  BY <1>2, <1>3

\* At the limit a run is at most one re-audit from its end.
LEMMA PromptStep ==
  ASSUME TypeOK, Running, Flawless, Prompt, [Next]_vars
  PROVE  Prompt'
<1> USE IterationTypes, PhaseTypes, LimitTypes
<1>1. CASE UNCHANGED vars
  BY <1>1 DEF vars, hist, Prompt, AtLimit, Audited, FlawlessTicks
<1>2. ASSUME Next, mode # "hunt-open-ended", mode = "implement" => Gates # {}
      PROVE  AtLimit(goodRun)'
  <2>1. AtLimit(goodRun)
    BY <1>2 DEF Prompt
  <2>2. FlawlessTicks' = FlawlessTicks
    BY <1>2, ModeKept DEF FlawlessTicks
  <2>3. goodRun <= FlawlessTicks + 1 /\ (pc \in {"checkpoint", "peer"} => goodRun <= FlawlessTicks)
    BY <2>1 DEF AtLimit
  <2>4. CASE Start
    <3>1. pc' = "top" /\ goodRun' = 0
      BY <2>4 DEF Start
    <3> QED
      BY <2>2, <3>1 DEF AtLimit
  <2>5. CASE pc' = "down"
    <3>1. goodRun' = goodRun
      BY <1>2, <2>5 DEF Next, Start, ExitOnMaxTicks, ExitOnBudget, ExitWhenStuck,
           ExitWithFreshResults, EvaluateGates, NotConverged, HuntGoesOn, AskSkeptic, AwaitPhaseB,
           Complete, PauseAtCheckpoint, LaunchPeer, PeerReturns, FinalizeTick, CountClean, Interrupt,
           Crash, hist
    <3> QED
      BY <2>2, <2>3, <2>5, <3>1 DEF AtLimit
  <2>6. CASE EvaluateGates
    <3>1. pc = "top" /\ pc' = "decide" /\ UNCHANGED <<goodRun, ranAt>>
      BY <2>6 DEF EvaluateGates
    <3>2. st'.iteration = st.iteration
      BY <2>6, EvaluateSays DEF SameCounts
    <3> QED
      BY <2>1, <2>2, <3>1, <3>2 DEF AtLimit, Audited
  <2>7. CASE NotConverged \/ HuntGoesOn \/ AwaitPhaseB
    <3>1. pc = "decide" /\ pc' = "checkpoint" /\ goodRun' = goodRun
      BY <2>7 DEF NotConverged, HuntGoesOn, AwaitPhaseB, hist
    <3>2. ~Converged \/ (mode = "implement" /\ st.phase # "complete")
      BY <1>2, <2>7 DEF NotConverged, HuntGoesOn, AwaitPhaseB
    <3>3. goodRun < FlawlessTicks
      BY <1>2, <3>1, <3>2, ReadyAtLimit
    <3> QED
      BY <2>2, <3>1, <3>3 DEF AtLimit
  <2>8. CASE AskSkeptic
    <3>1. pc = "decide" /\ pc' = "checkpoint" /\ goodRun' = goodRun /\ pending' /\ st.iteration - ranAt > 1
      BY <2>8 DEF AskSkeptic, SkepticDue, hist
    <3>2. goodRun <= FlawlessTicks
      BY <2>1, <3>1 DEF AtLimit, Audited
    <3> QED
      BY <2>2, <3>1, <3>2 DEF AtLimit
  <2>9. CASE LaunchPeer
    <3>1. pc = "checkpoint" /\ pc' = "peer" /\ goodRun' = goodRun /\ (pending => ranAt' = st.iteration + 1)
      BY <2>9 DEF LaunchPeer
    <3>2. st'.iteration = st.iteration
      BY <2>9, LaunchSays
    <3>3. goodRun < FlawlessTicks \/ (goodRun = FlawlessTicks /\ pending)
      BY <2>1, <3>1 DEF AtLimit
    <3> QED
      BY <2>2, <3>1, <3>2, <3>3 DEF AtLimit, Audited
  <2>10. CASE PeerReturns
    <3>1. pc = "peer" /\ pc' = "finalize" /\ UNCHANGED <<st, ranAt>> /\ goodRun' \in {goodRun + 1, 0}
      BY <2>10 DEF PeerReturns
    <3>2. goodRun < FlawlessTicks \/ (goodRun = FlawlessTicks /\ ranAt = st.iteration + 1)
      BY <2>1, <3>1 DEF AtLimit, Audited
    <3> QED
      BY <2>2, <3>1, <3>2 DEF AtLimit, Audited
  <2>11. CASE FinalizeTick
    <3>1. pc = "finalize" /\ pc' = "count" /\ UNCHANGED <<goodRun, ranAt>>
      BY <2>11 DEF FinalizeTick
    <3>2. st'.iteration = st.iteration + 1
      BY <2>11, FinalizeSays
    <3> QED
      BY <2>1, <2>2, <3>1, <3>2 DEF AtLimit, Audited
  <2>12. CASE CountClean
    <3>1. pc = "count" /\ pc' = "top" /\ UNCHANGED <<goodRun, ranAt>>
      BY <2>12 DEF CountClean, hist
    <3>2. st'.iteration = st.iteration
      BY <2>12, CountSays
    <3> QED
      BY <2>1, <2>2, <3>1, <3>2 DEF AtLimit, Audited
  <2> QED
    BY <1>2, <2>4, <2>5, <2>6, <2>7, <2>8, <2>9, <2>10, <2>11, <2>12, PlacesSay DEF Next, Exits
<1> QED
  BY <1>1, <1>2, ModeKept DEF Prompt

-----------------------------------------------------------------------------
(* The results.                                                             *)

\* The invariant holds before the first start.
LEMMA Initially ==
  ASSUME Init
  PROVE  IInv
<1>1. FreshState \in StateDict
  BY GateAssumption DEF FreshState, StateDict
<1>2. TypeOK
  <2>1. /\ mode \in Modes /\ pc = "down" /\ st = FreshState /\ disk = FreshState
        /\ ticks = FALSE /\ pending = FALSE /\ failed = {} /\ reason = "none" /\ building = FALSE
        /\ lost = {}
    BY DEF Init
  <2>2. run \in RunResults
    BY DEF Init, RunResults
  <2>3. tree \in [red : SUBSET Gates, done : 0..MaxSteps, soft : BOOLEAN]
    <3>1. tree \in [red : SUBSET Gates, done : {0}, soft : {FALSE}]
      BY DEF Init
    <3>2. {0} \subseteq 0..MaxSteps
      BY GateAssumption
    <3>3. \A d : d \in {0} => d \in 0..MaxSteps
      BY <3>2
    <3>4. \A b : b \in {FALSE} => b \in BOOLEAN
      OBVIOUS
    <3> QED
      BY <3>1, <3>3, <3>4
  <2>4. /\ starts \in 0..MaxStarts /\ ranAt \in NeverRan..MaxIterations
        /\ cleanRun \in 0..CleanN /\ greenRun \in 0..PhaseAN /\ sinceAudit \in 0..2
        /\ goodRun \in Nat /\ pauses \in Nat /\ greenAt \in [Watched -> Nat]
    BY GateAssumption DEF Init, NeverRan
  <2>5. failed \subseteq AllGates /\ lost \subseteq {"count", "evaluation"}
    BY <2>1
  <2>6. pending \in BOOLEAN /\ ticks \in BOOLEAN /\ building \in BOOLEAN
    BY <2>1
  <2> QED
    BY <1>1, <2>1, <2>2, <2>3, <2>4, <2>5, <2>6 DEF TypeOK
<1>3. Running /\ Saved /\ Evaluated /\ AuditIsCounted /\ Flawless
  BY DEF Init, Running, InTick, Saved, Evaluated, AuditIsCounted, Flawless
<1>4. /\ st.iteration = 0 /\ disk.iteration = 0 /\ st.clean = 0 /\ disk.clean = 0 /\ pc = "down"
      /\ st.prelude = "none" /\ disk.prelude = "none" /\ st.extra = 0 /\ disk.extra = 0
      /\ \A g \in Watched : disk.stuck[g] = 0 /\ greenAt[g] = 0
      /\ cleanRun = 0 /\ goodRun = 0 /\ starts = 0 /\ pauses = 0 /\ ~building /\ reason = "none"
  BY DEF Init, FreshState
<1>5. CountIsClean /\ CompleteNeedsCleanStreakUncut
  BY <1>4 DEF CountIsClean, Counted, CompleteNeedsCleanStreakUncut, CompleteNeedsCleanStreak
<1>6. RedIsCounted
  BY <1>4 DEF RedIsCounted, RedSinceGreen, Kept, Ahead
<1>7. PauseIsRecorded /\ ExtraInB
  BY <1>4 DEF PauseIsRecorded, BeforePause, AfterPause, ExtraInB
<1>8. Prompt
  BY <1>4, LimitTypes DEF Prompt, AtLimit
<1> QED
  BY <1>2, <1>3, <1>5, <1>6, <1>7, <1>8 DEF IInv

\* The inductive invariant of the convergence loop.
LEMMA Invariant == Spec => []IInv
<1>1. Init => IInv
  BY Initially
<1>2. IInv /\ [Next]_vars => IInv'
  <2>1. SUFFICES ASSUME IInv, [Next]_vars
                 PROVE  IInv'
    OBVIOUS
  <2> QED
    BY <2>1, TypeStep, RunningStep, SavedStep, EvaluatedStep, CleanStep, EndStep, AuditStep, RedStep,
       PauseStep, ExtraStep, FlawlessStep, PromptStep DEF IInv
<1> QED
  BY <1>1, <1>2, PTL DEF Spec

\* The state dictionary, its file and the histories keep to their types: the
\* counters never pass the limits they are compared with (_record_goal_results,
\* update_two_phase_counters, _update_convergence_counter).
THEOREM TypeCorrect == Spec => []TypeOK
BY Invariant, PTL DEF IInv

\* A loop of flawless ticks completes as soon as its counters are full, one tick
\* later when the re-audit was still due (_pre_tick_exit), for any limits.
THEOREM ConvergesPromptlyAlways == Spec => []ConvergesPromptly
<1>1. IInv => ConvergesPromptly
  BY LimitTypes, PhaseTypes DEF IInv, Prompt, AtLimit, Audited, ConvergesPromptly
<1> QED
  BY <1>1, Invariant, PTL

\* The operator's pause falls between architecture and implementation, once,
\* whatever restarts happen around it (_should_checkpoint, driver_helpers.py:224).
THEOREM PausesAsPlannedAlways == Spec => []PausesAsPlanned
<1>1. IInv => PausesAsPlanned
  BY IterationTypes DEF IInv, PauseIsRecorded, PausesAsPlanned, NoBuildBeforePause, PausesOnce
<1> QED
  BY <1>1, Invariant, PTL

\* "complete" is said of a green tree, after the re-audit and the clean streak.
THEOREM CompleteIsEarnedAlways == Spec => CompleteIsEarned
<1>1. ASSUME IInv, Complete
      PROVE  tree.red = {} /\ tree.soft /\ pc = "decide" /\ (SkepticEnabled => sinceAudit < 2)
  <2>1. pc = "decide" /\ failed = {} /\ tree.soft /\ ~SkepticDue
    BY <1>1 DEF Complete, Converged
  <2>2. tree.red = {}
    BY <1>1, <2>1 DEF IInv, Evaluated
  <2>3. SkepticEnabled => sinceAudit < 2
    BY <1>1, <2>1, IterationTypes DEF IInv, AuditIsCounted, Over, SkepticDue
  <2> QED
    BY <2>1, <2>2, <2>3
<1>2. IInv /\ [Next]_vars =>
        [pc' = "down" /\ reason' = "complete" /\ pc # "down" => tree.red = {} /\ tree.soft]_vars
  BY <1>1, ReasonsSay
<1>3. IInv /\ [Next]_vars =>
        [pc = "decide" /\ pc' = "down" /\ reason' = "complete" /\ SkepticEnabled
           => sinceAudit < 2]_vars
  BY <1>1, ReasonsSay
<1>4. IInv => CompleteNeedsCleanStreakUncut
  BY DEF IInv
<1>5. Spec => [][Next]_vars
  BY DEF Spec
<1>6. Spec => CompleteIsGreen
  BY <1>2, <1>5, Invariant, PTL DEF CompleteIsGreen
<1>7. Spec => CompleteNeedsAudit
  BY <1>3, <1>5, Invariant, PTL DEF CompleteNeedsAudit
<1>8. Spec => []CompleteNeedsCleanStreakUncut
  BY <1>4, Invariant, PTL
<1> QED
  BY <1>6, <1>7, <1>8 DEF CompleteIsEarned

\* A process that gives up on a gate saw it red often enough: every evaluation
\* beyond the ticks themselves is paid for by a start or a pause
\* (compute_stuck_gate_halt_reason, _exit_with_fresh_results).
THEOREM StuckMeansRedTicksAlways == Spec => StuckMeansRedTicks
<1>1. ASSUME IInv, Next, pc = "top", pc' = "down", reason' = "stuck", "evaluation" \notin lost
      PROVE  \E g \in Watched :
               st.iteration - greenAt[g] + (starts - 1) + pauses >= StuckAfter
  <2>1. StuckGates # {}
    BY <1>1 DEF Next, Start, ExitOnMaxTicks, ExitOnBudget, ExitWhenStuck, ExitWithFreshResults, Exit,
         EvaluateGates, NotConverged, HuntGoesOn, AskSkeptic, AwaitPhaseB, Complete,
         PauseAtCheckpoint, LaunchPeer, PeerReturns, FinalizeTick, CountClean, Interrupt, Crash
  <2>2. PICK g \in Watched : st.stuck[g] >= StuckAfter
    BY <2>1 DEF StuckGates
  <2>3. RedSinceGreen(g) /\ TypeOK
    BY <1>1 DEF IInv, RedIsCounted
  <2>4. st.stuck[g] <= st.iteration - greenAt[g] + (starts - 1) + pauses
    BY <1>1, <2>3, IterationTypes DEF RedSinceGreen, Kept, Ahead
  <2> QED
    BY <2>2, <2>3, <2>4, IterationTypes, GateAssumption
<1>2. IInv /\ [Next]_vars =>
        [pc = "top" /\ pc' = "down" /\ reason' = "stuck" /\ "evaluation" \notin lost
           => \E g \in Watched :
                st.iteration - greenAt[g] + (starts - 1) + pauses >= StuckAfter]_vars
  BY <1>1
<1>3. Spec => [][Next]_vars
  BY DEF Spec
<1> QED
  BY <1>2, <1>3, Invariant, PTL DEF StuckMeansRedTicks
===============================================================================
