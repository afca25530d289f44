------------------------ MODULE PeerRotation_proofs -------------------------
(***************************************************************************)
(* Proofs about PeerRotation for every number of peers, every budget and   *)
(* every number of restarts.  MaxStarts only bounds the model: no proof    *)
(* below uses it.                                                          *)
(***************************************************************************)
EXTENDS PeerRotation, TLAPS, WellFoundedInduction, SequenceTheorems

\* A nonempty set of peers has a nearest one in rotation order, so the CHOOSE
\* of current() picks a member (turn_manager.current walks at most n steps).
LEMMA NearestExists ==
  ASSUME NEW i \in Peers, NEW S \in SUBSET Peers, S # {}
  PROVE  \E p \in S : \A q \in S : Distance(i, p) <= Distance(i, q)
<1> DEFINE T == {Distance(i, p) : p \in S}
<1>1. \A p \in S : Distance(i, p) \in Nat
  BY ConfigAssumption DEF Peers, Distance
<1>2. T \subseteq Nat /\ T # {}
  BY <1>1
<1>3. PICK x \in T : \A y \in T : ~ (<<y, x>> \in OpToRel(<, Nat))
  BY <1>2, NatLessThanWellFounded, WFMin, Zenon
<1>4. \A y \in T : x <= y
  <2> SUFFICES ASSUME NEW y \in T PROVE ~ (y < x)
    BY <1>2
  <2>1. y < x => <<y, x>> \in OpToRel(<, Nat)
    BY <1>2 DEF OpToRel
  <2>. QED
    BY <1>3, <2>1
<1>. QED
  BY <1>1, <1>4

\* current() returns a configured peer, and an eligible one if there is any.
LEMMA CurrentIsPeer ==
  ASSUME turn_index \in Peers
  PROVE  /\ Current \in Peers
         /\ Candidates # {} => Current \in Candidates
<1>1. Candidates \in SUBSET Peers
  BY DEF Candidates
<1>2. CASE Candidates = {}
  BY <1>2 DEF Current
<1>3. CASE Candidates # {}
  <2>1. \E p \in Candidates : \A q \in Candidates :
          Distance(turn_index, p) <= Distance(turn_index, q)
    BY <1>1, <1>3, NearestExists
  <2>. QED
    BY <1>1, <1>3, <2>1, Zenon DEF Current
<1>. QED
  BY <1>2, <1>3

\* current() and its candidates depend on the rotation and the health of the peers only.
LEMMA CurrentStable ==
  ASSUME UNCHANGED <<turn_index, iteration, health, degraded_at, cooldown>>
  PROVE  Current' = Current /\ Candidates' = Candidates
BY DEF Current, Candidates, Eligible, RecoveryDue

\* recent_runs keeps its type when an entry is pushed.
LEMMA PushType ==
  ASSUME NEW w \in Seq(Credits), NEW e \in Credits
  PROVE  Push(w, e) \in Seq(Credits)
<1>1. CASE Len(w) < Window
  BY <1>1 DEF Push
<1>2. CASE ~(Len(w) < Window)
  <2>1. Len(w) > 0
    BY <1>2, ConfigAssumption
  <2>2. w # << >>
    BY <2>1, EmptySeq
  <2>3. Tail(w) \in Seq(Credits)
    BY <2>2
  <2>. QED
    BY <1>2, <2>3 DEF Push
<1>. QED
  BY <1>1, <1>2
------------------------------------------------------------------------------
\* Every variable keeps its type: in particular turn_index is always a valid
\* position of peer_order and the file on disk always validates.
THEOREM TypeCorrect == Spec => []TypeOK
<1> USE DEF TypeOK
<1>1. Init => TypeOK
  <2>1. 0 \in Peers /\ << >> \in Seq(Credits)
    BY ConfigAssumption DEF Peers
  <2>2. FreshState \in StateType
    BY <2>1 DEF FreshState, StateType, PeerStates
  <2>. QED
    BY <2>1, <2>2 DEF Init, FreshState, Outcomes, PeerStates
<1>2. TypeOK /\ [Next]_vars => TypeOK'
  <2> SUFFICES ASSUME TypeOK, [Next]_vars PROVE TypeOK'
    OBVIOUS
  <2>0. 0 \in Peers /\ \A i \in Peers : Successor(i) \in Peers
    BY ConfigAssumption DEF Peers, Successor
  <2>1. CASE Start
    <3>1. /\ disk.turn \in Peers /\ disk.iteration \in Nat
          /\ disk.failures \in Nat /\ disk.health \in [Peers -> PeerStates]
          /\ disk.fails \in [Peers -> Nat]
          /\ disk.runs \in [Peers -> Seq(Credits)]
          /\ disk.degraded_at \in [Peers -> Nat \cup {Unset}]
          /\ disk.cooldown \in [Peers -> Nat \cup {Unset}]
          /\ disk.cheats \in [Peers -> Nat]
          /\ disk.prewarned \in [Peers -> BOOLEAN]
      BY DEF StateType
    <3>2. /\ turn_index' \in Peers /\ iteration' \in Nat
          /\ consecutive_failures' \in Nat /\ health' \in [Peers -> PeerStates]
          /\ fails' \in [Peers -> Nat] /\ runs' \in [Peers -> Seq(Credits)]
      BY <2>1, <3>1 DEF Start, Load
    <3>3. /\ degraded_at' \in [Peers -> Nat \cup {Unset}]
          /\ cooldown' \in [Peers -> Nat \cup {Unset}]
          /\ cheats' \in [Peers -> Nat] /\ prewarned' \in [Peers -> BOOLEAN]
      BY <2>1, <3>1 DEF Start, Load
    <3>4. /\ starts' \in Nat /\ ran' \in Nat /\ stops' \in Nat
          /\ lastTurn' \in [Peers -> Nat]
      BY <2>1 DEF Start
    <3>5. /\ pc' = "top" /\ fresh' = TRUE
          /\ UNCHANGED <<active, outcome, success, disk>>
      BY <2>1 DEF Start
    <3>. QED
      BY <3>2, <3>3, <3>4, <3>5
  <2>2. CASE StopOnBudget
    BY <2>2, ZenonT(40) DEF StopOnBudget, Exit, Save, mem, hist, StateType
  <2>3. CASE StopBeforeTick
    BY <2>3, ZenonT(40) DEF StopBeforeTick, Exit, Save, mem, hist, StateType
  <2>4. CASE LaunchPeer
    BY <2>4, CurrentIsPeer, SMTT(30) DEF LaunchPeer, InFlight
  <2>5. CASE HaltPattern
    <3>1. health' \in [Peers -> PeerStates]
      BY <2>5 DEF HaltPattern, PeerStates
    <3>2. disk' \in StateType
      BY <2>5, <3>1 DEF HaltPattern, Save, StateType
    <3>3. /\ UNCHANGED <<active, outcome, success, fresh, turn_index, iteration,
                         consecutive_failures, fails, runs, degraded_at,
                         cooldown, cheats, prewarned, ran, starts, lastTurn>>
          /\ pc' = "down" /\ stops' = stops + 1
      BY <2>5, Zenon DEF HaltPattern, Exit
    <3>. QED
      BY <3>1, <3>2, <3>3
  <2>6. CASE PeerReturns
    BY <2>6 DEF PeerReturns, mem, hist, InFlight
  <2>7. CASE PostRun
    <3>1. success' \in BOOLEAN
      BY <2>7, Zenon DEF PostRun
    <3>2. cheats' \in [Peers -> Nat]
      <4>1. \/ UNCHANGED cheats
            \/ cheats' = [cheats EXCEPT ![active] = 0]
            \/ cheats' = [cheats EXCEPT ![active] = @ + 1]
        BY <2>7, ZenonT(40) DEF PostRun
      <4>. QED
        BY <4>1, SMTT(30)
    <3>4. prewarned' \in [Peers -> BOOLEAN]
      <4>1. \/ UNCHANGED prewarned
            \/ prewarned' = [prewarned EXCEPT ![active] = FALSE]
            \/ prewarned' = [prewarned EXCEPT ![active] = TRUE]
        BY <2>7, Zenon DEF PostRun
      <4>. QED
        BY <4>1
    <3>3. /\ pc' \in InFlight
          /\ UNCHANGED <<active, outcome, fresh, turn_index, iteration,
                         consecutive_failures, health, fails, runs,
                         degraded_at, cooldown, disk, hist>>
      BY <2>7 DEF PostRun, InFlight
    <3>. QED
      BY <3>1, <3>2, <3>3, <3>4 DEF hist
  <2>8. CASE Advance
    <3> DEFINE rotate == \/ outcome = "limited" \/ success
                         \/ fails[Current] + 1 > MaxRetries
    <3>1. Current \in Peers
      BY CurrentIsPeer
    <3>2. fails' = [fails EXCEPT ![Current] = IF rotate THEN 0 ELSE @ + 1]
      BY <2>8 DEF Advance
    <3>3. fails' \in [Peers -> Nat]
      BY <3>1, <3>2
    <3>4. turn_index' \in Peers
      BY <2>0, <2>8, <3>1 DEF Advance
    <3>. QED
      BY <2>8, <3>3, <3>4 DEF Advance, hist, InFlight
  <2>9. CASE Account
    BY <2>9 DEF Account, hist, InFlight
  <2>10. CASE UpdateHealth
    <3>1. PICK e \in Credits : runs' = [runs EXCEPT ![active] = Push(runs[active], e)]
      BY <2>10 DEF UpdateHealth, Credits
    <3>2. Push(runs[active], e) \in Seq(Credits)
      BY PushType
    <3>3. runs' \in [Peers -> Seq(Credits)]
      BY <3>1, <3>2
    <3>4. /\ \/ UNCHANGED health
             \/ \E s \in PeerStates : health' = [health EXCEPT ![active] = s]
          /\ \/ UNCHANGED degraded_at
             \/ \E d \in Nat \cup {Unset} :
                  degraded_at' = [degraded_at EXCEPT ![active] = d]
          /\ \/ UNCHANGED cooldown
             \/ \E d \in Nat \cup {Unset} :
                  cooldown' = [cooldown EXCEPT ![active] = d]
      BY <2>10 DEF UpdateHealth, PeerStates
    <3>5. /\ health' \in [Peers -> PeerStates]
          /\ degraded_at' \in [Peers -> Nat \cup {Unset}]
          /\ cooldown' \in [Peers -> Nat \cup {Unset}]
      BY <3>4, ZenonT(40)
    <3>. QED
      BY <2>10, <3>3, <3>5 DEF UpdateHealth, hist, InFlight
  <2>11. CASE MaybeHalt
    BY <2>11 DEF MaybeHalt, hist, InFlight, PeerStates
  <2>12. CASE SaveTick
    BY <2>12 DEF SaveTick, Save, Exit, mem, hist, StateType
  <2>13. CASE Interrupt
    <3>1. disk' \in StateType
      BY <2>13 DEF Interrupt, Save, mem, StateType
    <3>2. stops' \in Nat
      BY <2>13 DEF Interrupt
    <3>. QED
      BY <2>13, <3>1, <3>2 DEF Interrupt, Exit, mem
  <2>14. CASE Crash
    BY <2>14 DEF Crash, mem
  <2>15. CASE UNCHANGED vars
    BY <2>15 DEF vars, mem, hist
  <2>. QED
    BY <2>1, <2>2, <2>3, <2>4, <2>5, <2>6, <2>7, <2>8, <2>9, <2>10, <2>11,
       <2>12, <2>13, <2>14, <2>15 DEF Next, Tick
<1>. QED
  BY <1>1, <1>2, PTL DEF Spec
------------------------------------------------------------------------------
\* Pinning turn_index at current() does not change current(): the pinned peer
\* is at distance 0 and every other one further (driver_tick_hooks
\* ._prepare_tick_prompt writes the answer back before the peer runs).
LEMMA PinnedCurrent ==
  ASSUME turn_index \in Peers, turn_index' = Current,
         UNCHANGED <<iteration, health, degraded_at, cooldown>>
  PROVE  Current' = Current
<1>1. Candidates' = Candidates
  BY DEF Candidates, Eligible, RecoveryDue
<1>2. CASE Candidates = {}
  BY <1>1, <1>2 DEF Current
<1>3. CASE Candidates # {}
  <2>0. PICK c : c = Current
    OBVIOUS
  <2>1. c \in Candidates /\ Candidates \subseteq Peers
    BY <1>3, <2>0, CurrentIsPeer DEF Candidates
  <2>2. \A q \in Peers : /\ Distance(c, q) \in Int
                         /\ q # c => Distance(c, c) < Distance(c, q)
    BY <2>1, ConfigAssumption DEF Distance, Peers
  <2> DEFINE nearest(p) == \A q \in Candidates : Distance(c, p) <= Distance(c, q)
  <2>3. nearest(c)
    BY <2>1, <2>2
  <2>4. ASSUME NEW p \in Candidates, nearest(p)
        PROVE  p = c
    <3>1. Distance(c, p) <= Distance(c, c)
      BY <2>1, <2>4
    <3>. QED
      BY <2>1, <2>2, <3>1
  <2>5. turn_index' = c
    BY <2>0
  <2>6. Current' = CHOOSE p \in Candidates : nearest(p)
    BY <1>1, <1>3, <2>5, Zenon DEF Current
  <2> HIDE DEF nearest
  <2>7. (CHOOSE p \in Candidates : nearest(p)) \in Candidates
        /\ nearest(CHOOSE p \in Candidates : nearest(p))
    BY <2>1, <2>3
  <2>. QED
    BY <2>0, <2>4, <2>6, <2>7
<1>. QED
  BY <1>2, <1>3

\* The peer that ran is the peer advance() charges, in every reachable state.
THEOREM RanPeerIsChargedHolds == Spec => []RanPeerIsCharged
<1>1. Init => RanPeerIsCharged
  BY DEF Init, RanPeerIsCharged
<1>2. TypeOK /\ RanPeerIsCharged /\ [Next]_vars => RanPeerIsCharged'
  <2> SUFFICES ASSUME TypeOK, RanPeerIsCharged, [Next]_vars
               PROVE  RanPeerIsCharged'
    OBVIOUS
  <2> USE DEF RanPeerIsCharged
  <2>1. CASE LaunchPeer
    <3>1. Current' = Current
      BY <2>1, PinnedCurrent DEF LaunchPeer, TypeOK
    <3>. QED
      BY <2>1, <3>1 DEF LaunchPeer
  <2>2. CASE PeerReturns \/ PostRun \/ UNCHANGED vars
    <3>1. UNCHANGED <<active, turn_index, iteration, health, degraded_at, cooldown>>
      BY <2>2 DEF PeerReturns, PostRun, vars, mem
    <3>2. Current' = Current
      BY <3>1, CurrentStable
    <3>3. pc' \in {"peer", "post", "advance"} => pc \in {"peer", "post", "advance"}
      BY <2>2 DEF PeerReturns, PostRun, vars
    <3>. QED
      BY <3>1, <3>2, <3>3
  <2>3. CASE Start \/ StopOnBudget \/ StopBeforeTick \/ HaltPattern \/ Advance
             \/ Account \/ UpdateHealth \/ MaybeHalt \/ SaveTick \/ Interrupt
             \/ Crash
    <3>1. pc' \notin {"peer", "post", "advance"}
      BY <2>3 DEF Start, StopOnBudget, StopBeforeTick, HaltPattern, Advance,
         Account, UpdateHealth, MaybeHalt, SaveTick, Interrupt, Crash, Exit
    <3>. QED
      BY <3>1
  <2>. QED
    BY <2>1, <2>2, <2>3 DEF Next, Tick
<1>. QED
  BY <1>1, <1>2, TypeCorrect, PTL DEF Spec
------------------------------------------------------------------------------
\* Memory against disk: between two saves the process is at most one iteration
\* ahead, and every launched run is an iteration on disk, a process end that
\* lost it, or the tick in flight.
Uncharged == {"peer", "post", "advance", "account"}
Ahead == {"health", "halt", "save"}

Ledger ==
  /\ disk.iteration <= MaxIterations
  /\ pc = "top" => iteration = disk.iteration
  /\ pc \in Uncharged => iteration = disk.iteration /\ iteration < MaxIterations
  /\ pc \in Ahead => iteration = disk.iteration + 1 /\ iteration <= MaxIterations
  /\ ran <= disk.iteration + stops + (IF pc \in InFlight THEN 1 ELSE 0)

\* A driver that was never started has nothing uncharged.
LEMMA LedgerInit == Init => Ledger
BY ConfigAssumption DEF Init, Ledger, FreshState, Uncharged, Ahead, InFlight

\* The numbers the ledger compares are naturals.
LEMMA LedgerTypes ==
  TypeOK => /\ disk.iteration \in Nat /\ iteration \in Nat
            /\ ran \in Nat /\ stops \in Nat
            /\ pc \in {"down", "top"} \cup InFlight
BY DEF TypeOK, StateType

\* Every launch is charged, saved or lost with its crash.
LEMMA LedgerStep == TypeOK /\ Ledger /\ [Next]_vars => Ledger'
<1> SUFFICES ASSUME TypeOK, Ledger, [Next]_vars PROVE Ledger'
  OBVIOUS
<1> USE ConfigAssumption DEF Ledger, Uncharged, Ahead, InFlight
<1>0. /\ disk.iteration \in Nat /\ iteration \in Nat /\ ran \in Nat /\ stops \in Nat
      /\ pc \in {"down", "top"} \cup InFlight
  BY LedgerTypes
<1>1. CASE Start
  BY <1>0, <1>1 DEF Start, Load
<1>2. CASE StopOnBudget \/ StopBeforeTick
  BY <1>0, <1>2 DEF StopOnBudget, StopBeforeTick, Exit, Save, mem, hist
<1>3. CASE LaunchPeer
  BY <1>0, <1>3 DEF LaunchPeer, OverBudget
<1>4. CASE HaltPattern
  BY <1>0, <1>4 DEF HaltPattern, Exit, Save
<1>5. CASE PeerReturns
  BY <1>0, <1>5 DEF PeerReturns, mem, hist
<1>6. CASE PostRun
  BY <1>0, <1>6 DEF PostRun, hist
<1>7. CASE Advance
  BY <1>0, <1>7 DEF Advance, hist
<1>8. CASE Account
  BY <1>0, <1>8 DEF Account, hist
<1>9. CASE UpdateHealth
  BY <1>0, <1>9 DEF UpdateHealth, hist
<1>10. CASE MaybeHalt
  BY <1>0, <1>10 DEF MaybeHalt, hist
<1>11. CASE SaveTick
  BY <1>0, <1>11 DEF SaveTick, Save, Exit, mem, hist
<1>12. CASE Interrupt
  BY <1>0, <1>12 DEF Interrupt, Charged, Save, Exit, mem
<1>13. CASE Crash
  BY <1>0, <1>13 DEF Crash, mem
<1>14. CASE UNCHANGED vars
  BY <1>0, <1>14 DEF vars, mem, hist
<1>. QED
  BY <1>1, <1>2, <1>3, <1>4, <1>5, <1>6, <1>7, <1>8, <1>9, <1>10, <1>11, <1>12,
     <1>13, <1>14 DEF Next, Tick

\* Peers are launched at most max_iterations times, plus one launch for each
\* process end that left its run uncharged: restarting buys no free run beyond
\* the one that was lost.
THEOREM LaunchesWithinBudgetHolds == Spec => []LaunchesWithinBudget
<1>1. TypeOK /\ Ledger => LaunchesWithinBudget
  BY LedgerTypes, ConfigAssumption DEF Ledger, LaunchesWithinBudget, InFlight,
     Uncharged, Ahead
<1>. QED
  BY <1>1, LedgerInit, LedgerStep, TypeCorrect, PTL DEF Spec

\* A crash loses at most the tick in flight.
THEOREM CrashLosesOneTickHolds == Spec => []CrashLosesOneTick
<1>1. TypeOK /\ Ledger => CrashLosesOneTick
  BY LedgerTypes DEF Ledger, CrashLosesOneTick, InFlight, Uncharged, Ahead
<1>. QED
  BY <1>1, LedgerInit, LedgerStep, TypeCorrect, PTL DEF Spec
------------------------------------------------------------------------------
\* After _maybe_halt either somebody is off the bench or everybody is halted
\* and the tick will end the loop.
HaltDecided ==
  /\ pc = "save" => \/ \E p \in Peers : health[p] \notin Benched
                    \/ \A p \in Peers : health[p] = "halted"
  /\ NoTickWhenAllBenched

\* No tick but the first after a start is begun with every peer benched; a single
\* benched peer has its recovery turns in any tick.
THEOREM NoTickWhenAllBenchedHolds == Spec => []NoTickWhenAllBenched
<1> USE DEF HaltDecided, NoTickWhenAllBenched, Benched
<1>1. Init => HaltDecided
  BY DEF Init
<1>2. TypeOK /\ HaltDecided /\ [Next]_vars => HaltDecided'
  <2> SUFFICES ASSUME TypeOK, HaltDecided, [Next]_vars PROVE HaltDecided'
    OBVIOUS
  <2>1. CASE Start
    BY <2>1 DEF Start
  <2>2. CASE StopOnBudget \/ StopBeforeTick \/ HaltPattern \/ Interrupt \/ Crash
    <3>1. pc' = "down"
      BY <2>2 DEF StopOnBudget, StopBeforeTick, HaltPattern, Interrupt, Crash, Exit
    <3>. QED
      BY <3>1
  <2>3. CASE LaunchPeer \/ PeerReturns \/ PostRun \/ Advance \/ Account \/ UpdateHealth
    <3>1. pc' \in {"peer", "post", "advance", "account", "health", "halt"}
      BY <2>3 DEF LaunchPeer, PeerReturns, PostRun, Advance, Account, UpdateHealth
    <3>. QED
      BY <3>1
  <2>4. CASE MaybeHalt
    <3>1. pc' = "save"
      BY <2>4 DEF MaybeHalt
    <3>2. CASE \A p \in Peers : health[p] \in Benched
      BY <2>4, <3>1, <3>2 DEF MaybeHalt
    <3>3. CASE ~ \A p \in Peers : health[p] \in Benched
      BY <2>4, <3>1, <3>3 DEF MaybeHalt
    <3>. QED
      BY <3>2, <3>3
  <2>5. CASE SaveTick
    <3>1. UNCHANGED health
      BY <2>5 DEF SaveTick, mem
    <3>2. pc' = "top" => \E p \in Peers : health[p] \notin Benched
      BY <2>5 DEF SaveTick, Exit
    <3>3. pc' # "save"
      BY <2>5 DEF SaveTick, Exit
    <3>. QED
      BY <3>1, <3>2, <3>3
  <2>6. CASE UNCHANGED vars
    BY <2>6 DEF vars, mem
  <2>. QED
    BY <2>1, <2>2, <2>3, <2>4, <2>5, <2>6 DEF Next, Tick
<1>. QED
  BY <1>1, <1>2, TypeCorrect, PTL DEF Spec
------------------------------------------------------------------------------
(* NoStarvation.  A peer that may run is at most Rank ticks from its turn:  *)
(* each of them moves the position on or uses up a retry of the peer at it. *)
(* A degraded peer may run again RecoveryInterval ticks after its marks, and *)
(* no mark is newer than its last turn.  Both are said of the memory and of *)
(* the file, because any process may go on from the file.                   *)

Tries == MaxRetries + 1
Patience == 1 + RecoveryInterval + (N - 1) * Tries

\* The ticks that can be given to the peers from position t on before p's turn,
\* when the peer at t has failed fl[t] times in a row.
Rank(t, fl, p) == IF p = t THEN 0 ELSE Distance(t, p) * Tries - fl[t]

Memory == [turn |-> turn_index, iteration |-> iteration, health |-> health, fails |-> fails,
           degraded_at |-> degraded_at, cooldown |-> cooldown]

Since(s, p) == IF s.cooldown[p] # Unset THEN s.cooldown[p] ELSE s.degraded_at[p]
InTurn(s, p) ==
  s.health[p] = "degraded" => s.iteration - Since(s, p) >= RecoveryInterval

\* Retries are bounded, and the marks of the bench are of the peer's own turns.
Marked(s) ==
  \A p \in Peers : /\ s.fails[p] <= MaxRetries
                   /\ s.cooldown[p] <= lastTurn[p] + 1
                   /\ s.degraded_at[p] <= lastTurn[p] + 1

\* What p is still owed, with `due` ticks that have moved the position and are not
\* counted yet.
Owed(s, p, due) ==
  s.health[p] # "halted" =>
    /\ s.health[p] = "degraded" => Since(s, p) # Unset
    /\ InTurn(s, p) =>
         s.iteration + due - lastTurn[p] + Rank(s.turn, s.fails, p) <= Patience

Due == IF pc = "account" THEN 1 ELSE 0

OnTurn ==
  /\ \A p \in Peers : lastTurn[p] <= disk.iteration
  /\ pc \in Uncharged => lastTurn[active] = iteration
  /\ pc = "health" => lastTurn[active] + 1 = iteration
  /\ pc \in {"peer", "post", "advance"} => turn_index = active

Served == RecoveryInterval > 0 =>
            \A p \in Peers \ Recovery : Owed(Memory, p, Due) /\ Owed(disk, p, 0)

Patient == Marked(Memory) /\ Marked(disk) /\ OnTurn /\ Served

\* A product grows with its factor.
LEMMA Scale ==
  ASSUME NEW a \in Nat, NEW b \in Nat, NEW k \in Nat, a <= b
  PROVE  a * k \in Nat /\ b * k \in Nat /\ a * k <= b * k
<1>1. PICK c \in Nat : b = a + c
  <2>1. b - a \in Nat /\ b = a + (b - a)
    OBVIOUS
  <2> QED
    BY <2>1
<1>2. a * k \in Nat /\ c * k \in Nat
  OBVIOUS
<1>3. b * k = a * k + c * k
  BY <1>1
<1> QED
  BY <1>2, <1>3

\* The constants of the bound are naturals.
LEMMA TriesTypes == Tries \in Nat /\ Tries > 0 /\ (N - 1) * Tries \in Nat /\ Patience \in Nat
<1>1. Tries \in Nat /\ Tries > 0 /\ N - 1 \in Nat
  BY ConfigAssumption DEF Tries
<1>2. (N - 1) * Tries \in Nat
  BY <1>1, Scale
<1> QED
  BY <1>1, <1>2, ConfigAssumption DEF Patience

\* The rotation comes nearer to a peer by one with each turn, and is never further than
\* once around.
LEMMA DistanceFacts ==
  ASSUME NEW t \in Peers, NEW p \in Peers
  PROVE  /\ Distance(t, p) \in Nat /\ Distance(t, p) <= N - 1
         /\ p # t => Distance(t, p) >= 1
         /\ p = t => Distance(t, p) = 0
         /\ Successor(t) \in Peers /\ Successor(t) # t
         /\ p # t => Distance(Successor(t), p) = Distance(t, p) - 1
         /\ \A c \in Peers : Distance(t, c) <= Distance(t, p)
              => Distance(c, p) = Distance(t, p) - Distance(t, c)
BY ConfigAssumption DEF Peers, Distance, Successor

\* The turns in front of a peer are at most those of all the others.
LEMMA RankBounds ==
  ASSUME NEW t \in Peers, NEW p \in Peers, NEW fl \in [Peers -> Nat], fl[t] <= MaxRetries
  PROVE  /\ Rank(t, fl, p) \in Nat
         /\ Rank(t, fl, p) <= (N - 1) * Tries
         /\ p # t => Rank(t, fl, p) > 0
<1> DEFINE d == Distance(t, p)
<1>1. CASE p = t
  BY <1>1, TriesTypes DEF Rank
<1>2. CASE p # t
  <2>1. d \in Nat /\ 1 <= d /\ d <= N - 1 /\ N - 1 \in Nat
    <3>1. d \in Nat /\ d >= 1 /\ d <= N - 1
      BY <1>2, DistanceFacts
    <3>2. N - 1 \in Nat
      BY ConfigAssumption
    <3> HIDE DEF d
    <3> QED
      BY <3>1, <3>2
  <2>2. d * Tries <= (N - 1) * Tries /\ d * Tries \in Nat
    BY <2>1, TriesTypes, Scale
  <2>3. 1 * Tries <= d * Tries
    BY <2>1, TriesTypes, Scale
  <2>4. 1 * Tries = MaxRetries + 1
    BY ConfigAssumption DEF Tries
  <2>5. Rank(t, fl, p) = d * Tries - fl[t]
    BY <1>2 DEF Rank
  <2> HIDE DEF d
  <2> QED
    BY <2>2, <2>3, <2>4, <2>5, TriesTypes, ConfigAssumption
<1> QED
  BY <1>1, <1>2

\* The position moves on over peers that are passed by.
LEMMA RankPinned ==
  ASSUME NEW t \in Peers, NEW c \in Peers, NEW p \in Peers, NEW fl \in [Peers -> Nat],
         \A q \in Peers : fl[q] <= MaxRetries, Distance(t, c) <= Distance(t, p)
  PROVE  Rank(c, fl, p) <= Rank(t, fl, p)
<1> DEFINE d == Distance(t, p)  e == Distance(c, p)
<1>1. CASE c = t
  BY <1>1, RankBounds
<1>2. CASE p = c
  BY <1>2, RankBounds DEF Rank
<1>3. CASE c # t /\ p # c
  <2>1. /\ e = d - Distance(t, c) /\ Distance(t, c) >= 1 /\ Distance(t, c) \in Nat
        /\ d \in Nat /\ e \in Nat
    BY <1>3, DistanceFacts, ZenonT(40)
  <2>2. p # t
    BY <1>3, <2>1, DistanceFacts
  <2>3. e + 1 <= d
    <3> HIDE DEF d, e
    <3> QED
      BY <2>1
  <2>4. (e + 1) * Tries <= d * Tries /\ d * Tries \in Nat /\ e * Tries \in Nat
    BY <2>1, <2>3, TriesTypes, Scale
  <2>5. (e + 1) * Tries = e * Tries + Tries
    BY <2>1, TriesTypes
  <2>6. Rank(c, fl, p) = e * Tries - fl[c] /\ Rank(t, fl, p) = d * Tries - fl[t]
    BY <1>3, <2>2 DEF Rank
  <2>7. fl[t] < Tries /\ fl[t] \in Nat /\ fl[c] \in Nat
    BY ConfigAssumption DEF Tries
  <2> HIDE DEF d, e
  <2> QED
    BY <2>4, <2>5, <2>6, <2>7, TriesTypes
<1> QED
  BY <1>1, <1>2, <1>3

\* advance() to the next peer brings every other one a tick nearer.
LEMMA RankRotated ==
  ASSUME NEW c \in Peers, NEW p \in Peers, p # c, NEW fl \in [Peers -> Nat],
         NEW gl \in [Peers -> Nat], \A q \in Peers : fl[q] <= MaxRetries
  PROVE  Rank(Successor(c), gl, p) + 1 <= Rank(c, fl, p)
<1> DEFINE d == Distance(c, p)  e == Distance(Successor(c), p)
<1>1. CASE p = Successor(c)
  <2>1. Rank(Successor(c), gl, p) = 0
    BY <1>1 DEF Rank
  <2> QED
    BY <2>1, RankBounds
<1>2. CASE p # Successor(c)
  <2>1. d \in Nat /\ e = d - 1 /\ e \in Nat /\ Successor(c) \in Peers
    BY DistanceFacts
  <2>2. d * Tries = e * Tries + Tries /\ d * Tries \in Nat /\ e * Tries \in Nat
    <3>1. d = e + 1
      BY <2>1
    <3>2. (e + 1) * Tries = e * Tries + Tries
      BY <2>1, TriesTypes
    <3> QED
      BY <2>1, <3>1, <3>2, TriesTypes, Scale
  <2>3. /\ Rank(Successor(c), gl, p) = e * Tries - gl[Successor(c)]
        /\ Rank(c, fl, p) = d * Tries - fl[c]
    BY <1>2 DEF Rank
  <2>4. fl[c] < Tries /\ fl[c] \in Nat /\ gl[Successor(c)] \in Nat
    BY <2>1, ConfigAssumption DEF Tries
  <2> HIDE DEF d, e
  <2> QED
    BY <2>2, <2>3, <2>4, TriesTypes
<1> QED
  BY <1>1, <1>2

\* The fields of the state, from its type.
LEMMA StateTypes ==
  ASSUME TypeOK
  PROVE  /\ turn_index \in Peers /\ iteration \in Nat /\ active \in Peers
         /\ health \in [Peers -> PeerStates] /\ fails \in [Peers -> Nat]
         /\ degraded_at \in [Peers -> Nat \cup {Unset}]
         /\ cooldown \in [Peers -> Nat \cup {Unset}]
         /\ disk.turn \in Peers /\ disk.iteration \in Nat
         /\ disk.health \in [Peers -> PeerStates] /\ disk.fails \in [Peers -> Nat]
         /\ disk.degraded_at \in [Peers -> Nat \cup {Unset}]
         /\ disk.cooldown \in [Peers -> Nat \cup {Unset}]
         /\ lastTurn \in [Peers -> Nat]
         /\ pc \in {"down", "top"} \cup InFlight
BY DEF TypeOK, StateType

\* The fields of what would be saved.
LEMMA MemoryFields ==
  /\ Memory.turn = turn_index /\ Memory.iteration = iteration /\ Memory.health = health
  /\ Memory.fails = fails /\ Memory.degraded_at = degraded_at /\ Memory.cooldown = cooldown
BY DEF Memory

\* A process that goes on from the file owes what the file owes.
LEMMA LoadKeeps ==
  ASSUME Load, UNCHANGED <<disk, lastTurn>>, Marked(disk)
  PROVE  /\ Marked(Memory)' /\ Marked(disk)'
         /\ \A p \in Peers : Owed(disk, p, 0) => Owed(Memory, p, 0)' /\ Owed(disk, p, 0)'
BY DEF Load, Marked, Owed, InTurn, Since, Memory

\* A saved file owes what the memory owes.
LEMMA SaveKeeps ==
  ASSUME Save, TypeOK', Marked(Memory)', NEW due \in {0, 1}
  PROVE  /\ Marked(disk)'
         /\ \A p \in Peers : Owed(Memory, p, due)' => Owed(disk, p, 0)'
<1>1. /\ disk'.turn = turn_index' /\ disk'.iteration = iteration' /\ disk'.health = health'
      /\ disk'.fails = fails' /\ disk'.degraded_at = degraded_at' /\ disk'.cooldown = cooldown'
  BY DEF Save
<1>2. Marked(disk)'
  BY <1>1, MemoryFields DEF Marked, Memory
<1>3. ASSUME NEW p \in Peers, Owed(Memory, p, due)'
      PROVE  Owed(disk, p, 0)'
  <2>1. iteration' \in Nat /\ lastTurn'[p] \in Nat /\ Rank(turn_index', fails', p) \in Nat
    <3>1. turn_index' \in Peers /\ fails' \in [Peers -> Nat] /\ iteration' \in Nat
          /\ lastTurn' \in [Peers -> Nat]
      BY DEF TypeOK
    <3>2. fails'[turn_index'] <= MaxRetries
      BY <3>1 DEF Marked, Memory
    <3> QED
      BY <3>1, <3>2, RankBounds
  <2>2. Since(disk, p)' = Since(Memory, p)' /\ InTurn(disk, p)' = InTurn(Memory, p)'
    BY <1>1 DEF Since, InTurn, Memory
  <2> QED
    BY <1>1, <1>3, <2>1, <2>2, TriesTypes DEF Owed, Memory
<1> QED
  BY <1>2, <1>3

\* What does not touch the rotation, the bench or the turns changes nothing.
LEMMA StillOwed ==
  ASSUME UNCHANGED <<turn_index, iteration, health, fails, degraded_at, cooldown, lastTurn>>
  PROVE  /\ Marked(Memory)' = Marked(Memory)
         /\ \A p \in Peers, due \in {0, 1} : Owed(Memory, p, due)' = Owed(Memory, p, due)
BY DEF Marked, Owed, InTurn, Since, Memory

\* Whoever is to run can be launched: current() is no further from the position
\* than any default peer whose turn it is.
LEMMA CurrentIsNearest ==
  ASSUME TypeOK, NEW p \in Peers \ Recovery, health[p] # "halted", InTurn(Memory, p),
         RecoveryInterval > 0, health[p] = "degraded" => Since(Memory, p) # Unset
  PROVE  Distance(turn_index, Current) <= Distance(turn_index, p)
<1>1. Eligible(p)
  BY DEF Eligible, RecoveryDue, InTurn, Since, Memory
<1>2. p \in Candidates
  BY <1>1 DEF Candidates
<1>3. Candidates \in SUBSET Peers /\ Candidates # {}
  BY <1>2 DEF Candidates
<1>4. \E c \in Candidates : \A q \in Candidates : Distance(turn_index, c) <= Distance(turn_index, q)
  BY <1>3, NearestExists, StateTypes
<1>5. \A q \in Candidates : Distance(turn_index, Current) <= Distance(turn_index, q)
  BY <1>3, <1>4, Zenon DEF Current
<1> QED
  BY <1>2, <1>5

\* A launch pays what was owed to the peer that runs.
LEMMA LaunchKeeps ==
  ASSUME TypeOK, Ledger, Patient, LaunchPeer
  PROVE  Patient'
<1> USE StateTypes
<1>1. Current \in Peers
  BY CurrentIsPeer
<1>2. /\ pc = "top" /\ pc' = "peer" /\ turn_index' = Current /\ active' = Current
      /\ lastTurn' = [lastTurn EXCEPT ![Current] = iteration]
      /\ UNCHANGED <<iteration, health, fails, degraded_at, cooldown, disk>>
  BY DEF LaunchPeer
<1>3. iteration = disk.iteration
  BY <1>2 DEF Ledger
<1>4. \A p \in Peers : lastTurn[p] <= lastTurn'[p] /\ lastTurn'[p] <= disk.iteration
                       /\ lastTurn'[p] \in Nat
  BY <1>1, <1>2, <1>3 DEF Patient, OnTurn
<1>5. Marked(Memory)' /\ Marked(disk)'
  <2>1. ASSUME NEW p \in Peers
        PROVE  /\ fails'[p] <= MaxRetries /\ disk'.fails[p] <= MaxRetries
               /\ cooldown'[p] <= lastTurn'[p] + 1 /\ degraded_at'[p] <= lastTurn'[p] + 1
               /\ disk'.cooldown[p] <= lastTurn'[p] + 1 /\ disk'.degraded_at[p] <= lastTurn'[p] + 1
    <3>1. /\ fails[p] <= MaxRetries /\ disk.fails[p] <= MaxRetries
          /\ cooldown[p] <= lastTurn[p] + 1 /\ degraded_at[p] <= lastTurn[p] + 1
          /\ disk.cooldown[p] <= lastTurn[p] + 1 /\ disk.degraded_at[p] <= lastTurn[p] + 1
      BY MemoryFields DEF Patient, Marked
    <3>2. /\ cooldown[p] \in Int /\ degraded_at[p] \in Int
          /\ disk.cooldown[p] \in Int /\ disk.degraded_at[p] \in Int
      BY DEF Unset
    <3> QED
      BY <1>2, <1>4, <3>1, <3>2
  <2> QED
    BY <2>1 DEF Marked, Memory
<1>6. OnTurn'
  BY <1>1, <1>2, <1>3, <1>4 DEF OnTurn, Uncharged
<1>7. ASSUME RecoveryInterval > 0, NEW p \in Peers \ Recovery
      PROVE  Owed(Memory, p, 0)' /\ Owed(disk, p, 0)'
  <2>1. Owed(Memory, p, 0) /\ Owed(disk, p, 0)
    BY <1>2, <1>7 DEF Patient, Served, Due
  <2>2. Since(Memory, p)' = Since(Memory, p) /\ (InTurn(Memory, p)' <=> InTurn(Memory, p))
    BY <1>2 DEF Since, InTurn, Memory
  <2>3. Since(disk, p)' = Since(disk, p) /\ (InTurn(disk, p)' <=> InTurn(disk, p))
    BY <1>2 DEF Since, InTurn
  <2>4. fails[turn_index] <= MaxRetries /\ disk.fails[disk.turn] <= MaxRetries
        /\ \A q \in Peers : fails[q] <= MaxRetries
    BY MemoryFields DEF Patient, Marked
  <2>5. /\ Rank(turn_index, fails, p) \in Nat /\ Rank(disk.turn, disk.fails, p) \in Nat
        /\ Rank(Current, fails, p) \in Nat /\ Rank(Current, fails, p) <= (N - 1) * Tries
    BY <1>1, <2>4, RankBounds
  <2>6. Owed(disk, p, 0)'
    BY <1>2, <1>4, <2>1, <2>3, <2>5, TriesTypes DEF Owed
  <2>7. Owed(Memory, p, 0)'
    <3> SUFFICES ASSUME health[p] # "halted"
                 PROVE  /\ health[p] = "degraded" => Since(Memory, p) # Unset
                        /\ InTurn(Memory, p) =>
                             iteration - lastTurn'[p] + Rank(Current, fails, p) <= Patience
      BY <1>2, <2>2 DEF Owed, Memory
    <3>1. /\ health[p] = "degraded" => Since(Memory, p) # Unset
          /\ InTurn(Memory, p) =>
               iteration - lastTurn[p] + Rank(turn_index, fails, p) <= Patience
      BY <2>1, MemoryFields DEF Owed
    <3>2. ASSUME InTurn(Memory, p)
          PROVE  Rank(Current, fails, p) <= Rank(turn_index, fails, p)
      BY <1>1, <1>7, <2>4, <3>1, <3>2, CurrentIsNearest, RankPinned
    <3> QED
      BY <1>4, <2>5, <3>1, <3>2, TriesTypes
  <2> QED
    BY <2>6, <2>7
<1> QED
  BY <1>2, <1>5, <1>6, <1>7 DEF Patient, Served, Due

\* A rotated turn, or one more failure of the same peer, brings every other peer nearer
\* by one.
LEMMA AdvanceKeeps ==
  ASSUME TypeOK, TypeOK', RanPeerIsCharged, Patient, Advance
  PROVE  Patient'
<1> USE StateTypes
<1>1. Current = active /\ turn_index = active /\ lastTurn[active] = iteration
  BY DEF RanPeerIsCharged, Patient, OnTurn, Uncharged, Advance
<1>2. /\ pc = "advance" /\ pc' = "account"
      /\ UNCHANGED <<active, iteration, health, degraded_at, cooldown, disk, lastTurn>>
  BY DEF Advance, hist
<1>3. \/ /\ fails' = [fails EXCEPT ![active] = 0]
         /\ turn_index' = Successor(active)
      \/ /\ fails' = [fails EXCEPT ![active] = @ + 1]
         /\ turn_index' = active
         /\ fails[active] + 1 <= MaxRetries
  <2> DEFINE rotate == \/ outcome = "limited" \/ success
                       \/ fails[active] + 1 > MaxRetries
  <2>1. /\ fails' = [fails EXCEPT ![active] = IF rotate THEN 0 ELSE @ + 1]
        /\ turn_index' = IF rotate THEN Successor(active) ELSE active
    BY <1>1 DEF Advance
  <2>2. ~rotate => fails[active] + 1 <= MaxRetries
    <3>1. fails[active] \in Nat
      OBVIOUS
    <3> QED
      BY <3>1, ConfigAssumption
  <2> QED
    BY <2>1, <2>2
<1>4. \A q \in Peers : fails[q] <= MaxRetries /\ fails'[q] <= MaxRetries
  BY <1>3, ConfigAssumption, MemoryFields DEF Patient, Marked
<1>5. Marked(Memory)' /\ Marked(disk)'
  BY <1>2, <1>4 DEF Patient, Marked, Memory
<1>6. OnTurn'
  BY <1>2 DEF Patient, OnTurn, Uncharged
<1>7. ASSUME RecoveryInterval > 0, NEW p \in Peers \ Recovery
      PROVE  Owed(Memory, p, 1)' /\ Owed(disk, p, 0)'
  <2>1. Owed(Memory, p, 0) /\ Owed(disk, p, 0)
    BY <1>2, <1>7 DEF Patient, Served, Due
  <2>2. Since(Memory, p)' = Since(Memory, p) /\ (InTurn(Memory, p)' <=> InTurn(Memory, p))
    BY <1>2 DEF Since, InTurn, Memory
  <2>3. Owed(disk, p, 0)'
    BY <1>2, <2>1 DEF Owed, Since, InTurn
  <2>4. turn_index' \in Peers /\ fails' \in [Peers -> Nat]
    BY DEF TypeOK
  <2>5. /\ Rank(turn_index, fails, p) \in Nat /\ Rank(turn_index', fails', p) \in Nat
        /\ Rank(turn_index', fails', p) <= (N - 1) * Tries
    BY <1>4, <2>4, RankBounds
  <2>6. \/ iteration + 1 - lastTurn[p] + Rank(turn_index', fails', p) <= Patience
        \/ /\ p # active
           /\ Rank(turn_index', fails', p) + 1 <= Rank(turn_index, fails, p)
    <3>1. CASE p = active
      BY <1>1, <2>5, <3>1, TriesTypes, ConfigAssumption DEF Patience
    <3>2. CASE p # active /\ turn_index' = Successor(active)
      BY <1>1, <1>4, <2>4, <3>2, RankRotated
    <3>3. CASE p # active /\ turn_index' = active /\ fails' = [fails EXCEPT ![active] = @ + 1]
      <4>1. fails'[active] = fails[active] + 1
        BY <3>3
      <4>2. Distance(active, p) * Tries \in Nat
        <5>0. active \in Peers /\ p \in Peers
          OBVIOUS
        <5>1. Distance(active, p) \in Nat
          BY <5>0, DistanceFacts
        <5> QED
          BY <5>1, TriesTypes, Scale
      <4> QED
        BY <1>1, <3>3, <4>1, <4>2 DEF Rank
    <3> QED
      BY <1>3, <3>1, <3>2, <3>3
  <2>7. Owed(Memory, p, 1)'
    <3> SUFFICES ASSUME health[p] # "halted"
                 PROVE  /\ health[p] = "degraded" => Since(Memory, p) # Unset
                        /\ InTurn(Memory, p) =>
                             iteration + 1 - lastTurn[p] + Rank(turn_index', fails', p) <= Patience
      BY <1>2, <2>2 DEF Owed, Memory
    <3>1. /\ health[p] = "degraded" => Since(Memory, p) # Unset
          /\ InTurn(Memory, p) =>
               iteration - lastTurn[p] + Rank(turn_index, fails, p) <= Patience
      BY <2>1, MemoryFields DEF Owed
    <3> QED
      BY <2>5, <2>6, <3>1, TriesTypes
  <2> QED
    BY <2>3, <2>7
<1> QED
  BY <1>2, <1>5, <1>6, <1>7 DEF Patient, Served, Due

\* The counted iteration is the turn that has just been taken.
LEMMA AccountKeeps ==
  ASSUME TypeOK, Ledger, Patient, Account
  PROVE  Patient'
<1> USE StateTypes
<1>1. /\ pc = "account" /\ pc' = "health" /\ iteration' = iteration + 1
      /\ UNCHANGED <<active, turn_index, health, fails, degraded_at, cooldown, disk, lastTurn>>
  BY DEF Account, hist
<1>2. Marked(Memory)' /\ Marked(disk)'
  BY <1>1 DEF Patient, Marked, Memory
<1>3. OnTurn'
  BY <1>1 DEF Patient, OnTurn, Uncharged
<1>4. ASSUME RecoveryInterval > 0, NEW p \in Peers \ Recovery
      PROVE  Owed(Memory, p, 0)' /\ Owed(disk, p, 0)'
  <2>1. Owed(Memory, p, 1) /\ Owed(disk, p, 0)
    BY <1>1, <1>4 DEF Patient, Served, Due
  <2>2. Owed(disk, p, 0)'
    BY <1>1, <2>1 DEF Owed, Since, InTurn
  <2>3. fails[turn_index] <= MaxRetries /\ cooldown[p] <= lastTurn[p] + 1
        /\ degraded_at[p] <= lastTurn[p] + 1
    BY MemoryFields DEF Patient, Marked
  <2>4. Rank(turn_index, fails, p) \in Nat /\ Rank(turn_index, fails, p) <= (N - 1) * Tries
    BY <2>3, RankBounds
  <2>5. Owed(Memory, p, 0)'
    <3> DEFINE since == Since(Memory, p)
    <3>0. since \in Int /\ since <= lastTurn[p] + 1 /\ Since(Memory, p)' = since
      BY <1>1, <2>3 DEF Since, Memory, Unset
    <3>1. (InTurn(Memory, p) <=> (health[p] = "degraded" => iteration - since >= RecoveryInterval))
          /\ (InTurn(Memory, p)' <=> (health[p] = "degraded" => iteration + 1 - since >= RecoveryInterval))
      BY <1>1, <3>0 DEF InTurn, Memory
    <3> SUFFICES ASSUME health[p] # "halted"
                 PROVE  /\ health[p] = "degraded" => since # Unset
                        /\ InTurn(Memory, p)' =>
                             iteration + 1 - lastTurn[p] + Rank(turn_index, fails, p) <= Patience
      BY <1>1, <3>0 DEF Owed, Memory
    <3>2. /\ health[p] = "degraded" => since # Unset
          /\ InTurn(Memory, p) =>
               iteration + 1 - lastTurn[p] + Rank(turn_index, fails, p) <= Patience
      BY <2>1, MemoryFields DEF Owed
    <3> HIDE DEF since
    <3>3. CASE ~InTurn(Memory, p)
      <4>1. iteration - since < RecoveryInterval
        BY <3>0, <3>1, <3>3, ConfigAssumption
      <4> QED
        BY <2>4, <3>0, <3>2, <4>1, TriesTypes, ConfigAssumption DEF Patience
    <3> QED
      BY <3>2, <3>3
  <2> QED
    BY <2>2, <2>5
<1> QED
  BY <1>1, <1>2, <1>3, <1>4 DEF Patient, Served, Due

\* A peer is degraded, recovered or benched with its turn still owed.
LEMMA HealthKeeps ==
  ASSUME TypeOK, TypeOK', Ledger, Patient, UpdateHealth
  PROVE  Patient'
<1> USE StateTypes
<1>1. /\ pc = "health" /\ pc' = "halt"
      /\ UNCHANGED <<active, turn_index, iteration, fails, disk, lastTurn>>
  BY DEF UpdateHealth, hist
<1>2. lastTurn[active] + 1 = iteration
  BY <1>1 DEF Patient, OnTurn
<1>3. \A p \in Peers \ {active} : health'[p] = health[p] /\ degraded_at'[p] = degraded_at[p]
                                  /\ cooldown'[p] = cooldown[p]
  BY DEF UpdateHealth
<1>4. /\ degraded_at'[active] \in {degraded_at[active], Unset, iteration}
      /\ cooldown'[active] \in {cooldown[active], Unset, iteration}
  BY DEF UpdateHealth
<1>5. ASSUME health'[active] = "degraded"
      PROVE  \/ degraded_at'[active] = iteration
             \/ /\ health[active] = "degraded"
                /\ degraded_at'[active] = degraded_at[active]
                /\ cooldown'[active] \in {cooldown[active], iteration}
  BY <1>5 DEF UpdateHealth
<1>6. Marked(Memory)' /\ Marked(disk)'
  <2>1. ASSUME NEW p \in Peers
        PROVE  cooldown'[p] <= lastTurn[p] + 1 /\ degraded_at'[p] <= lastTurn[p] + 1
    <3>1. cooldown[p] <= lastTurn[p] + 1 /\ degraded_at[p] <= lastTurn[p] + 1
      BY MemoryFields DEF Patient, Marked
    <3>2. CASE p # active
      BY <1>3, <3>1, <3>2
    <3>3. CASE p = active
      BY <1>2, <1>4, <3>1, <3>3 DEF Unset
    <3> QED
      BY <3>2, <3>3
  <2> QED
    BY <1>1, <2>1 DEF Patient, Marked, Memory
<1>7. OnTurn'
  BY <1>1 DEF Patient, OnTurn, Uncharged
<1>8. ASSUME RecoveryInterval > 0, NEW p \in Peers \ Recovery
      PROVE  Owed(Memory, p, 0)' /\ Owed(disk, p, 0)'
  <2>1. Owed(Memory, p, 0) /\ Owed(disk, p, 0)
    BY <1>1, <1>8 DEF Patient, Served, Due
  <2>2. Owed(disk, p, 0)'
    BY <1>1, <2>1 DEF Owed, Since, InTurn
  <2>3. CASE p # active
    <3>1. health'[p] = health[p] /\ degraded_at'[p] = degraded_at[p] /\ cooldown'[p] = cooldown[p]
      BY <1>3, <2>3
    <3> QED
      BY <1>1, <2>1, <2>2, <3>1 DEF Owed, Since, InTurn, Memory
  <2>4. CASE p = active
    <3>1. fails[turn_index] <= MaxRetries
      BY MemoryFields DEF Patient, Marked
    <3>2. Rank(turn_index, fails, p) \in Nat /\ Rank(turn_index, fails, p) <= (N - 1) * Tries
      BY <3>1, RankBounds
    <3>3. iteration - lastTurn[p] + Rank(turn_index, fails, p) <= Patience
      BY <1>2, <2>4, <3>2, TriesTypes, ConfigAssumption DEF Patience
    <3>4. ASSUME health'[p] = "degraded"
          PROVE  Since(Memory, p)' # Unset
      <4>1. health[p] = "degraded" => Since(Memory, p) # Unset
        BY <2>1, MemoryFields DEF Owed
      <4>2. iteration # Unset
        BY DEF Unset
      <4>3. CASE degraded_at'[p] = iteration
        BY <4>2, <4>3 DEF Since, Memory
      <4>4. CASE /\ health[p] = "degraded" /\ degraded_at'[p] = degraded_at[p]
                 /\ cooldown'[p] \in {cooldown[p], iteration}
        BY <4>1, <4>2, <4>4 DEF Since, Memory
      <4> QED
        BY <1>5, <2>4, <3>4, <4>3, <4>4
    <3> QED
      BY <1>1, <2>2, <3>3, <3>4 DEF Owed, Memory
  <2> QED
    BY <2>3, <2>4
<1> QED
  BY <1>1, <1>6, <1>7, <1>8 DEF Patient, Served, Due

\* A halt-class pattern ends the process on the peer's own turn: "unavailable" is
\* no bench, and the file says so too.
LEMMA PatternKeeps ==
  ASSUME TypeOK, TypeOK', Ledger, Patient, HaltPattern
  PROVE  Patient'
<1> USE StateTypes
<1>1. /\ pc = "peer" /\ pc' = "down" /\ Save
      /\ health' = [health EXCEPT ![active] = "unavailable"]
      /\ UNCHANGED <<active, turn_index, iteration, fails, degraded_at, cooldown, lastTurn>>
  BY DEF HaltPattern, Exit
<1>2. iteration = disk.iteration /\ lastTurn[active] = iteration /\ disk'.iteration = iteration
  BY <1>1 DEF Ledger, Patient, OnTurn, Uncharged, Save
<1>3. Marked(Memory)'
  BY <1>1 DEF Patient, Marked, Memory
<1>4. OnTurn'
  BY <1>1, <1>2 DEF Patient, OnTurn, Uncharged
<1>5. ASSUME RecoveryInterval > 0, NEW p \in Peers \ Recovery
      PROVE  Owed(Memory, p, 0)'
  <2>1. Owed(Memory, p, 0)
    BY <1>1, <1>5 DEF Patient, Served, Due
  <2>2. CASE p # active
    <3>1. health'[p] = health[p]
      BY <1>1, <2>2
    <3> QED
      BY <1>1, <2>1, <3>1 DEF Owed, Since, InTurn, Memory
  <2>3. CASE p = active
    <3>1. fails[turn_index] <= MaxRetries
      BY MemoryFields DEF Patient, Marked
    <3>2. Rank(turn_index, fails, p) \in Nat /\ Rank(turn_index, fails, p) <= (N - 1) * Tries
      BY <3>1, RankBounds
    <3>3. iteration - lastTurn[p] + Rank(turn_index, fails, p) <= Patience
      BY <1>2, <2>3, <3>2, TriesTypes, ConfigAssumption DEF Patience
    <3>4. health'[p] = "unavailable"
      BY <1>1, <2>3
    <3> QED
      BY <1>1, <3>3, <3>4 DEF Owed, Memory
  <2> QED
    BY <2>2, <2>3
<1> QED
  BY <1>1, <1>3, <1>4, <1>5, SaveKeeps DEF Patient, Served, Due

\* Every step keeps what is owed, in memory and on disk.
LEMMA PatientStep ==
  ASSUME TypeOK, TypeOK', Ledger, RanPeerIsCharged, Patient, [Next]_vars
  PROVE  Patient'
<1> DEFINE same == UNCHANGED <<turn_index, iteration, health, fails, degraded_at, cooldown, lastTurn>>
<1>1. CASE Start
  <2>1. Load /\ pc' = "top" /\ UNCHANGED <<active, disk, lastTurn>>
    BY <1>1 DEF Start
  <2>2. OnTurn'
    BY <2>1 DEF Patient, OnTurn, Uncharged
  <2> QED
    BY <2>1, <2>2, LoadKeeps DEF Patient, Served, Due
<1>2. CASE StopOnBudget \/ StopBeforeTick \/ SaveTick \/ Interrupt
  <2>1. same /\ Save /\ pc # "down" /\ pc' \in {"down", "top"}
    BY <1>2 DEF StopOnBudget, StopBeforeTick, SaveTick, Interrupt, Exit, mem, hist
  <2>2. Marked(Memory)' /\ \A p \in Peers, due \in {0, 1} : Owed(Memory, p, due)' = Owed(Memory, p, due)
    BY <2>1, StillOwed DEF Patient
  <2>3. disk.iteration <= iteration /\ disk'.iteration = iteration'
    <3>1. pc \in {"top"} \cup Uncharged \cup Ahead
      BY <2>1, StateTypes DEF InFlight, Uncharged, Ahead
    <3> QED
      BY <2>1, <3>1, StateTypes DEF Ledger, Save
  <2>4. OnTurn'
    BY <2>1, <2>3, StateTypes DEF Patient, OnTurn, Uncharged
  <2>5. ASSUME RecoveryInterval > 0, NEW p \in Peers \ Recovery
        PROVE  Owed(Memory, p, 0)' /\ Owed(disk, p, 0)'
    <3>1. Due \in {0, 1} /\ Owed(Memory, p, Due)
      BY <2>5 DEF Patient, Served, Due
    <3>2. PICK due \in {0, 1} : Owed(Memory, p, due)
      BY <3>1
    <3>3. Owed(Memory, p, due)'
      BY <2>2, <3>2
    <3>4. Owed(disk, p, 0)'
      BY <2>1, <2>2, <3>3, SaveKeeps
    <3>5. Owed(Memory, p, 0)'
      <4>1. /\ disk'.turn = turn_index' /\ disk'.iteration = iteration' /\ disk'.health = health'
            /\ disk'.fails = fails' /\ disk'.degraded_at = degraded_at' /\ disk'.cooldown = cooldown'
        BY <2>1 DEF Save
      <4> QED
        BY <3>4, <4>1 DEF Owed, Since, InTurn, Memory
    <3> QED
      BY <3>4, <3>5
  <2> QED
    BY <2>1, <2>2, <2>4, <2>5, SaveKeeps DEF Patient, Served, Due
<1>3. CASE LaunchPeer
  BY <1>3, LaunchKeeps
<1>4. CASE HaltPattern
  BY <1>4, PatternKeeps
<1>5. CASE PeerReturns \/ PostRun \/ UNCHANGED vars
  <2>1. same /\ UNCHANGED <<active, disk>>
    BY <1>5 DEF PeerReturns, PostRun, vars, mem, hist
  <2>2. /\ Due' = Due
        /\ pc' = "health" => pc = "health"
        /\ pc' \in Uncharged => pc \in Uncharged
        /\ pc' \in {"peer", "post", "advance"} => pc \in {"peer", "post", "advance"}
    BY <1>5 DEF PeerReturns, PostRun, vars, Due, Uncharged
  <2>3. OnTurn'
    BY <2>1, <2>2 DEF Patient, OnTurn
  <2> QED
    BY <2>1, <2>2, <2>3 DEF Patient, Served, Marked, Owed, InTurn, Since, Memory
<1>6. CASE Advance
  BY <1>6, AdvanceKeeps
<1>7. CASE Account
  BY <1>7, AccountKeeps
<1>8. CASE UpdateHealth
  BY <1>8, HealthKeeps
<1>9. CASE MaybeHalt
  <2>1. /\ pc = "halt" /\ pc' = "save" /\ health' \in {health, [p \in Peers |-> "halted"]}
        /\ UNCHANGED <<active, disk, turn_index, iteration, fails, degraded_at, cooldown, lastTurn>>
    BY <1>9 DEF MaybeHalt, hist
  <2>2. OnTurn' /\ Marked(Memory)' /\ Marked(disk)'
    BY <2>1 DEF Patient, OnTurn, Uncharged, Marked, Memory
  <2>3. CASE health' = health
    BY <2>1, <2>2, <2>3 DEF Patient, Served, Due, Owed, InTurn, Since, Memory
  <2>4. CASE health' = [p \in Peers |-> "halted"]
    <3>1. \A p \in Peers : health'[p] = "halted"
      BY <2>4
    <3>2. \A p \in Peers : Owed(Memory, p, 0)'
      BY <3>1 DEF Owed, Memory
    <3>3. \A p \in Peers : Owed(disk, p, 0) => Owed(disk, p, 0)'
      BY <2>1 DEF Owed, InTurn, Since
    <3> QED
      BY <2>1, <2>2, <3>2, <3>3 DEF Patient, Served, Due
  <2> QED
    BY <2>1, <2>3, <2>4
<1>10. CASE Crash
  <2>1. same /\ pc' = "down" /\ UNCHANGED <<active, disk>>
    BY <1>10 DEF Crash, mem
  <2>2. OnTurn'
    BY <2>1 DEF Patient, OnTurn, Uncharged
  <2>3. ASSUME RecoveryInterval > 0, NEW p \in Peers \ Recovery
        PROVE  Owed(Memory, p, 0)' /\ Owed(disk, p, 0)'
    <3>1. Owed(Memory, p, Due) /\ Owed(disk, p, 0)
      BY <2>3 DEF Patient, Served
    <3>2. fails[turn_index] <= MaxRetries
      BY MemoryFields, StateTypes DEF Patient, Marked
    <3>3. Rank(turn_index, fails, p) \in Nat
      BY <3>2, RankBounds, StateTypes
    <3>4. Owed(Memory, p, 0)
      BY <3>1, <3>3, TriesTypes, StateTypes, MemoryFields DEF Owed, Due
    <3> QED
      BY <2>1, <3>1, <3>4 DEF Owed, InTurn, Since, Memory
  <2> QED
    BY <2>1, <2>2, <2>3, StillOwed DEF Patient, Served, Due, Marked
<1> QED
  BY <1>1, <1>2, <1>3, <1>4, <1>5, <1>6, <1>7, <1>8, <1>9, <1>10 DEF Next, Tick

\* At first nothing is overdue.
LEMMA PatientInit == Init => Patient
<1> SUFFICES ASSUME Init PROVE Patient
  OBVIOUS
<1>1. 0 \in Peers
  BY ConfigAssumption DEF Peers
<1>2. /\ turn_index = 0 /\ iteration = 0 /\ health = [p \in Peers |-> "healthy"]
      /\ fails = [p \in Peers |-> 0] /\ degraded_at = [p \in Peers |-> Unset]
      /\ cooldown = [p \in Peers |-> Unset] /\ lastTurn = [p \in Peers |-> 0] /\ pc = "down"
  BY DEF Init, FreshState
<1>3. /\ disk.turn = 0 /\ disk.iteration = 0 /\ disk.health = [p \in Peers |-> "healthy"]
      /\ disk.fails = [p \in Peers |-> 0] /\ disk.degraded_at = [p \in Peers |-> Unset]
      /\ disk.cooldown = [p \in Peers |-> Unset]
  BY DEF Init, FreshState
<1>4. Marked(Memory) /\ Marked(disk)
  BY <1>2, <1>3, ConfigAssumption, MemoryFields DEF Marked, Unset
<1>5. OnTurn
  BY <1>2, <1>3 DEF OnTurn, Uncharged
<1>6. ASSUME NEW p \in Peers, NEW s, s.turn = 0, s.iteration = 0,
             s.health = [q \in Peers |-> "healthy"], s.fails = [q \in Peers |-> 0]
      PROVE  Owed(s, p, 0)
  <2>1. Rank(0, s.fails, p) \in Nat /\ Rank(0, s.fails, p) <= (N - 1) * Tries
    BY <1>1, <1>6, RankBounds, ConfigAssumption
  <2>2. 0 + 0 - lastTurn[p] + Rank(0, s.fails, p) <= Patience
    BY <1>2, <2>1, TriesTypes, ConfigAssumption DEF Patience
  <2> QED
    BY <1>6, <2>2 DEF Owed
<1> QED
  BY <1>2, <1>3, <1>4, <1>5, <1>6, MemoryFields DEF Patient, Served, Due

\* No default-role peer waits longer than its bench and everybody else's retries,
\* whatever the others do and whatever ends and restarts the process
\* (turn_manager.current, turn_manager.advance).
THEOREM NoStarvationHolds == Spec => []NoStarvation
<1>1. TypeOK /\ Patient => NoStarvation
  <2> SUFFICES ASSUME TypeOK, Patient, RecoveryInterval > 0, NEW p \in Peers \ Recovery,
                      health[p] # "halted"
               PROVE  iteration - lastTurn[p] <= Patience
    BY DEF NoStarvation, Patience, Tries
  <2> USE StateTypes
  <2>1. fails[turn_index] <= MaxRetries /\ cooldown[p] <= lastTurn[p] + 1
        /\ degraded_at[p] <= lastTurn[p] + 1
    BY MemoryFields DEF Patient, Marked
  <2>2. Rank(turn_index, fails, p) \in Nat
    BY <2>1, RankBounds
  <2>3. Owed(Memory, p, Due) /\ Due \in {0, 1}
    BY DEF Patient, Served, Due
  <2>4. CASE InTurn(Memory, p)
    BY <2>2, <2>3, <2>4, TriesTypes, MemoryFields DEF Owed
  <2>5. CASE ~InTurn(Memory, p)
    <3>1. Since(Memory, p) \in Int /\ Since(Memory, p) <= lastTurn[p] + 1
      BY <2>1 DEF Since, Memory, Unset
    <3>2. iteration - Since(Memory, p) < RecoveryInterval
      BY <2>5, <3>1, ConfigAssumption DEF InTurn, Memory
    <3> QED
      BY <3>1, <3>2, TriesTypes, ConfigAssumption DEF Patience
  <2> QED
    BY <2>4, <2>5
<1>2. TypeOK /\ TypeOK' /\ Ledger /\ RanPeerIsCharged /\ Patient /\ [Next]_vars => Patient'
  BY PatientStep
<1> QED
  BY <1>1, <1>2, PatientInit, LedgerInit, LedgerStep, TypeCorrect, RanPeerIsChargedHolds, PTL DEF Spec
===============================================================================
