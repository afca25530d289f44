----------------------------- MODULE Host_proofs -----------------------------
(***************************************************************************)
(* What surrounds the ticks of a run, proved for all parameters: its       *)
(* budget, the reaping of processes, the frozen contracts, the auth proxy, *)
(* the test gates, the scaffold and the hooks of the host, the research    *)
(* and bring-up front ends, the cockpit and the leases of worktrees.       *)
(*                                                                         *)
(* A theorem about each component as Components instantiates it, from an   *)
(* inductive invariant of that component alone; then the property of the   *)
(* sum, for whichever component is the subject.                            *)
(***************************************************************************)
EXTENDS Components, FiniteSets, FiniteSetTheorems, WellFoundedInduction, TLAPS

-----------------------------------------------------------------------------
(* The budget of a run.  What the starts asked for is what the sidecar says;
   a cap is never 0, so a run that begins with nothing spent has a tick ahead
   of it; and a start that resets keeps the driver out until it launches one. *)

States == [cap : Nat \ {0}, spent : Nat]
MaybeCap == Caps \cup {NoCap}
Starts == [at : {"none", "clear", "persist", "mirror", "check"}, max : MaybeCap,
           reset : BOOLEAN, force : BOOLEAN]
Resumes == [at : {"none", "write"}, max : MaybeCap, reset : BOOLEAN,
            read : States \cup {NoCap}]

BudgetTypes ==
  /\ config \in MaybeCap /\ sidecar \in MaybeCap /\ asked \in MaybeCap
  /\ disk \in States \cup {NoCap} /\ mem \in States
  /\ start \in Starts /\ resume \in Resumes
  /\ resume.at = "write" => resume.read \in States
  /\ driver \in {"off", "runs"} /\ ticks \in Nat

BudgetInv ==
  /\ BudgetTypes
  /\ asked = sidecar
  /\ driver = "runs" /\ target # NoCap => mem.cap = target
  /\ start.at # "none" => driver = "off"
  /\ start.at = "check" /\ start.reset /\ disk # NoCap => disk.spent = 0
  /\ driver = "runs" => reason = "none"
  /\ driver = "runs" /\ fresh /\ ticks = 0 => mem.spent = 0
  /\ fresh /\ reason = "budget:max_runtime" => ticks > 0

\* A state with a cap and the time spent put into it is a state.
LEMMA AdjustedIsState ==
  ASSUME Capped!BudgetAssumption, NEW s \in States, NEW max \in MaybeCap, NEW reset \in BOOLEAN
  PROVE  /\ Capped!Adjusted(s, max, reset) \in States
         /\ reset => Capped!Adjusted(s, max, reset).spent = 0
BY DEF Capped!BudgetAssumption, Capped!Adjusted, States, MaybeCap

\* The caps an operator writes are caps, those he adds to the one on disk too.
LEMMA WantedAreCaps ==
  ASSUME NEW m \in Capped!WantedCaps \cup {NoCap}
  PROVE  m \in MaybeCap
BY DEF Capped!WantedCaps, MaybeCap

\* A run is launched with the cap that was asked for (_driver_orchestrator_impl.py).
LEMMA LaunchIsAsked ==
  ASSUME Capped!BudgetAssumption, BudgetInv, start.at = "check", Capped!Launch(start.reset)
  PROVE  /\ mem' \in States /\ driver' = "runs" /\ ticks' = 0 /\ reason' = "none"
         /\ target' # NoCap => mem'.cap = target'
         /\ fresh' => mem'.spent = 0
<1> DEFINE state == IF disk = NoCap THEN Capped!FreshState ELSE disk
<1>1. state \in States
  BY DEF Capped!BudgetAssumption, Capped!FreshState, BudgetInv, BudgetTypes, States
<1>2. start.reset => state.spent = 0
  BY DEF Capped!FreshState, BudgetInv
<1>3. Capped!EffectiveCap(state) =
        IF sidecar # NoCap THEN sidecar ELSE IF config # NoCap THEN config ELSE state.cap
  BY DEF Capped!EffectiveCap
<1>4. Capped!EffectiveCap(state) \in Nat \ {0}
  BY <1>1, <1>3 DEF Capped!BudgetAssumption, BudgetInv, BudgetTypes, MaybeCap, States
<1>5. /\ mem' = [state EXCEPT !.cap = Capped!EffectiveCap(state)]
      /\ driver' = "runs" /\ ticks' = 0 /\ fresh' = start.reset /\ reason' = "none"
      /\ target' = IF asked # NoCap THEN asked ELSE config
  BY DEF Capped!Launch
<1> HIDE DEF state
<1>6. mem' \in States /\ mem'.cap = Capped!EffectiveCap(state) /\ mem'.spent = state.spent
  BY <1>1, <1>4, <1>5 DEF States
<1>7. asked = sidecar
  BY DEF BudgetInv
<1> QED
  BY <1>2, <1>3, <1>5, <1>6, <1>7

\* A command of the operator, or what is left of one, keeps the budget.
LEMMA OperatorKeepsBudget ==
  ASSUME Capped!BudgetAssumption, BudgetInv,
         \/ Capped!EditConfig \/ Capped!CmdStart \/ Capped!ClearOverride
         \/ Capped!PersistOverride \/ Capped!MirrorState \/ Capped!CheckBudget
         \/ Capped!CtlKilled \/ Capped!CmdResume \/ Capped!ApplyResumeBudget
  PROVE  BudgetInv'
<1> USE DEF Capped!run
<1>0. start \in Starts /\ resume \in Resumes /\ disk \in States \cup {NoCap}
      /\ NoCap \notin Nat /\ Caps \subseteq Nat \ {0}
  BY DEF BudgetInv, BudgetTypes, Capped!BudgetAssumption
<1>1. CASE Capped!EditConfig
  BY <1>1 DEF Capped!EditConfig, BudgetInv, BudgetTypes, MaybeCap
<1>2. CASE Capped!CmdStart
  <2>1. PICK m \in Capped!WantedCaps \cup {NoCap}, reset \in BOOLEAN, force \in BOOLEAN :
          start' = [at |-> "clear", max |-> m, reset |-> reset, force |-> force]
    BY <1>2 DEF Capped!CmdStart
  <2>2. start' \in Starts /\ start'.at = "clear"
    BY <2>1, WantedAreCaps DEF Starts
  <2> QED
    BY <1>2, <2>2 DEF Capped!CmdStart, BudgetInv, BudgetTypes
<1>3. CASE Capped!ClearOverride
  <2>1. start' \in Starts /\ start'.at = "persist"
    BY <1>0, <1>3 DEF Capped!ClearOverride, Starts
  <2> QED
    BY <1>3, <2>1 DEF Capped!ClearOverride, BudgetInv, BudgetTypes, MaybeCap
<1>4. CASE Capped!PersistOverride
  <2>1. start' \in Starts /\ start'.at = "mirror" /\ start.max \in MaybeCap
    BY <1>0, <1>4 DEF Capped!PersistOverride, Starts
  <2> QED
    BY <1>4, <2>1 DEF Capped!PersistOverride, BudgetInv, BudgetTypes
<1>5. CASE Capped!MirrorState
  <2>1. /\ start' \in Starts /\ start'.at = "check" /\ start'.reset = start.reset
        /\ start.max \in MaybeCap /\ start.reset \in BOOLEAN
    BY <1>0, <1>5 DEF Capped!MirrorState, Starts
  <2>2. disk' \in States \cup {NoCap} /\ (start.reset /\ disk' # NoCap => disk'.spent = 0)
    BY <1>0, <1>5, <2>1, AdjustedIsState DEF Capped!MirrorState
  <2> QED
    BY <1>5, <2>1, <2>2 DEF Capped!MirrorState, BudgetInv, BudgetTypes
<1>6. CASE Capped!CheckBudget
  <2>1. start' = Capped!NoStart /\ start' \in Starts /\ start'.at = "none"
    BY <1>6 DEF Capped!CheckBudget, Capped!NoStart, Starts, MaybeCap
  <2>2. CASE Capped!Launch(start.reset)
    BY <1>6, <2>1, <2>2, LaunchIsAsked DEF Capped!CheckBudget, BudgetInv, BudgetTypes
  <2>3. CASE reason' = "refused" /\ UNCHANGED Capped!run
    BY <1>6, <2>1, <2>3 DEF Capped!CheckBudget, BudgetInv, BudgetTypes
  <2> QED
    BY <1>6, <2>2, <2>3 DEF Capped!CheckBudget
<1>7. CASE Capped!CtlKilled
  <2>1. start' \in Starts /\ start'.at = "none"
    BY <1>7 DEF Capped!CtlKilled, Capped!NoStart, Starts, MaybeCap
  <2> QED
    BY <1>7, <2>1 DEF Capped!CtlKilled, BudgetInv, BudgetTypes
<1>8. CASE Capped!CmdResume
  <2>1. PICK m \in Capped!WantedCaps \cup {NoCap}, reset \in BOOLEAN :
          resume' = [at |-> "write", max |-> m, reset |-> reset, read |-> disk]
    BY <1>8 DEF Capped!CmdResume
  <2>2. disk \in States
    BY <1>0, <1>8 DEF Capped!CmdResume
  <2>3. resume' \in Resumes /\ resume'.read \in States
    BY <2>1, <2>2, WantedAreCaps DEF Resumes
  <2> QED
    BY <1>8, <2>3 DEF Capped!CmdResume, BudgetInv, BudgetTypes
<1>9. CASE Capped!ApplyResumeBudget
  <2>1. resume.max \in MaybeCap /\ resume.reset \in BOOLEAN /\ resume.read \in States
    BY <1>0, <1>9 DEF Capped!ApplyResumeBudget, Resumes, BudgetInv, BudgetTypes
  <2>2. disk' \in States
    BY <1>9, <2>1, AdjustedIsState DEF Capped!ApplyResumeBudget
  <2>3. resume' \in Resumes /\ resume'.at = "none" /\ start.at = "none" /\ start' = start
    BY <1>9 DEF Capped!ApplyResumeBudget, Capped!NoResume, Resumes, MaybeCap
  <2> QED
    BY <1>9, <2>2, <2>3 DEF Capped!ApplyResumeBudget, BudgetInv, BudgetTypes
<1> QED
  BY <1>1, <1>2, <1>3, <1>4, <1>5, <1>6, <1>7, <1>8, <1>9

\* A step of the driver keeps the budget.
LEMMA DriverKeepsBudget ==
  ASSUME Capped!BudgetAssumption, BudgetInv,
         Capped!StopOnBudget \/ Capped!Tick \/ Capped!Interrupt \/ Capped!Kill
  PROVE  BudgetInv'
<1>0. mem.cap \in Nat \ {0} /\ mem.spent \in Nat /\ ticks \in Nat /\ mem \in States
  BY DEF BudgetInv, BudgetTypes, States
<1>1. CASE Capped!StopOnBudget
  <2>1. mem.spent # 0
    BY <1>0, <1>1 DEF Capped!StopOnBudget, Capped!Exhausted
  <2>2. fresh => ticks > 0
    BY <1>0, <1>1, <2>1 DEF Capped!StopOnBudget, BudgetInv
  <2> QED
    BY <1>1, <2>2 DEF Capped!StopOnBudget, BudgetInv, BudgetTypes
<1>2. CASE Capped!Tick
  <2>1. mem' \in States /\ mem'.cap = mem.cap
    BY <1>0, <1>2 DEF Capped!Tick, States
  <2>2. start.at = "none" /\ ticks' \in Nat /\ ticks' # 0 /\ start' = start
    BY <1>0, <1>2 DEF Capped!Tick, BudgetInv
  <2> QED
    BY <1>2, <2>1, <2>2 DEF Capped!Tick, BudgetInv, BudgetTypes
<1>3. CASE Capped!Interrupt
  <2>1. start.at = "none" /\ start' = start
    BY <1>3 DEF Capped!Interrupt, BudgetInv
  <2> QED
    BY <1>0, <1>3, <2>1 DEF Capped!Interrupt, BudgetInv, BudgetTypes
<1>4. CASE Capped!Kill
  BY <1>4 DEF Capped!Kill, BudgetInv, BudgetTypes
<1> QED
  BY <1>1, <1>2, <1>3, <1>4

\* The cap a start asked for wins over config.yaml in every later run, until
\* another start changes it or --reset-budget takes it back, and a run that starts
\* with a fresh budget is never stopped for what earlier runs spent
\* (docs/SECURITY.md:228, runner.py:1566).
THEOREM CappedAsAsked ==
  ASSUME Capped!BudgetAssumption
  PROVE  Capped!Spec => []Capped!BudgetIsAsked
<1>1. Capped!Init => BudgetInv
  BY DEF Capped!BudgetAssumption, Capped!Init, Capped!NoStart, Capped!NoResume,
         Capped!FreshState, BudgetInv, BudgetTypes, MaybeCap, States, Starts, Resumes
<1>2. BudgetInv /\ [Capped!Next]_(Capped!vars) => BudgetInv'
  <2>1. ASSUME BudgetInv, UNCHANGED Capped!vars
        PROVE  BudgetInv'
    BY <2>1 DEF Capped!vars, Capped!run, BudgetInv, BudgetTypes
  <2> QED
    BY <2>1, OperatorKeepsBudget, DriverKeepsBudget DEF Capped!Next
<1>3. BudgetInv => Capped!BudgetIsAsked
  BY DEF BudgetInv, Capped!BudgetIsAsked, Capped!CapIsAsked, Capped!ResetFrees
<1> QED
  BY <1>1, <1>2, <1>3, PTL DEF Capped!Spec

-----------------------------------------------------------------------------
(* The reaping of processes.  Only the driver's own waits take the peer: while
   it polls, the peer runs or is a zombie nobody has asked about; out of the
   loop, the peer is reaped and its status has been reported.                 *)

ReaperInv ==
  /\ life \in [Reap!Processes -> {"none", "runs", "zombie", "reaped"}]
  /\ ended \in [Reap!Processes -> Reap!Statuses]
  /\ seen \in [Reap!Ours -> Reap!Statuses \cup {"none"}]
  /\ \/ loop = "idle" /\ life["peer"] = "none" /\ seen["peer"] = "none"
     \/ loop = "polls" /\ life["peer"] \in {"runs", "zombie"} /\ seen["peer"] = "none"
     \/ loop \in {"idle", "ended"} /\ life["peer"] = "reaped" /\ seen["peer"] = ended["peer"]

\* A step of the driver, of the gate runner or of a process keeps the statuses.
LEMMA NextKeepsReaper ==
  ASSUME Reap!ReaperAssumption, ReaperInv, Reap!Next
  PROVE  ReaperInv'
<1> USE DEF Reap!Processes, Reap!Ours, Reap!Statuses, Reap!Reap
<1>0. "peer" \in Reap!Processes /\ "goal" \in Reap!Processes /\ "peer" \notin Orphans
  BY DEF Reap!ReaperAssumption
<1>1. CASE Reap!StartPeer
  BY <1>0, <1>1 DEF Reap!StartPeer, ReaperInv
<1>2. CASE Reap!PollPeer
  <2>1. loop = "polls" /\ life["peer"] = "zombie"
    BY <1>2 DEF Reap!PollPeer, Reap!WaitFor, ReaperInv
  <2>2. /\ life' = [q \in Reap!Processes |-> IF q \in {"peer"} THEN "reaped" ELSE life[q]]
        /\ seen' = [seen EXCEPT !["peer"] = ended["peer"]]
        /\ loop' = "ended" /\ ended' = ended
    BY <1>2, <2>1 DEF Reap!PollPeer, Reap!WaitFor
  <2> QED
    BY <1>0, <2>2 DEF ReaperInv
<1>3. CASE Reap!SweepZombies
  BY <1>0, <1>3 DEF Reap!SweepZombies, Reap!Reapable, ReaperInv
<1>4. CASE Reap!TerminatePeer
  BY <1>0, <1>4 DEF Reap!TerminatePeer, ReaperInv
<1>5. CASE Reap!ReapOrphans
  BY <1>0, <1>5 DEF Reap!ReapOrphans, Reap!Reapable, ReaperInv
<1>6. CASE Reap!StartGoal
  BY <1>0, <1>6 DEF Reap!StartGoal, ReaperInv
<1>7. CASE Reap!PollGoal
  <2>1. \E s \in Reap!Statuses : seen' = [seen EXCEPT !["goal"] = s]
    BY <1>0, <1>7 DEF Reap!PollGoal, Reap!WaitFor, ReaperInv
  <2>2. seen' \in [Reap!Ours -> Reap!Statuses \cup {"none"}] /\ seen'["peer"] = seen["peer"]
    BY <2>1 DEF ReaperInv
  <2>3. /\ life' \in [Reap!Processes -> {"none", "runs", "zombie", "reaped"}]
        /\ life'["peer"] = life["peer"]
    <3>1. life' = life \/ Reap!Reap({"goal"})
      BY <1>7 DEF Reap!PollGoal, Reap!WaitFor
    <3> QED
      BY <1>0, <3>1 DEF ReaperInv
  <2> QED
    BY <1>7, <2>2, <2>3 DEF Reap!PollGoal, ReaperInv
<1>8. ASSUME NEW proc \in Reap!Processes, Reap!Exit(proc)
      PROVE  ReaperInv'
  <2>1. CASE proc = "peer"
    BY <1>0, <1>8, <2>1 DEF Reap!Exit, ReaperInv
  <2>2. CASE proc # "peer"
    BY <1>0, <1>8, <2>2 DEF Reap!Exit, ReaperInv
  <2> QED
    BY <2>1, <2>2
<1>9. ASSUME NEW proc \in Reap!Processes, Reap!Reparented(proc)
      PROVE  ReaperInv'
  BY <1>0, <1>9 DEF Reap!Reparented, ReaperInv
<1> QED
  BY <1>1, <1>2, <1>3, <1>4, <1>5, <1>6, <1>7, <1>8, <1>9 DEF Reap!Next

\* The sweep inside the poll loop never takes the status of the peer, whose Popen
\* would then report 0 and mask a failure (health_guard.py:716).
THEOREM ReapReal ==
  ASSUME Reap!ReaperAssumption
  PROVE  Reap!Init /\ [][Reap!Next]_(Reap!vars) => []Reap!PeerStatusIsReal
<1>1. Reap!Init => ReaperInv
  BY DEF Reap!Init, Reap!Processes, Reap!Ours, Reap!Statuses, ReaperInv
<1>2. ReaperInv /\ [Reap!Next]_Reap!vars => ReaperInv'
  <2>1. ASSUME ReaperInv, UNCHANGED Reap!vars
        PROVE  ReaperInv'
    BY <2>1 DEF Reap!vars, ReaperInv
  <2> QED
    BY <2>1, NextKeepsReaper
<1>3. ReaperInv => Reap!PeerStatusIsReal
  BY DEF ReaperInv, Reap!PeerStatusIsReal
<1> QED
  BY <1>1, <1>2, <1>3, PTL

-----------------------------------------------------------------------------
(* The frozen contract.  What a gate has verified was bound by the last entry of
   the log then, and the log only grows.                                      *)

Texts == Commands \cup {"absent", "empty", "none"}
Writes == {"truncate_acc", "fill_acc", "truncate_sha", "fill_sha", "append_log", "verify"}
Writer == [at : Writes \cup {"idle"}, cmd : Texts]
Gate == [at : {"idle", "verified", "refused", "executed"}, saw : Texts, ran : Texts]

IsLogged(text) == \E i \in 1..Len(log) : log[i] = text

ContractsInv ==
  /\ log \in Seq(Texts) /\ acc \in Texts /\ sha \in Texts
  /\ writer \in Writer /\ gate \in Gate
  /\ gate.at \in {"verified", "executed"} => IsLogged(gate.saw)

\* A step of an amend writes one file and leaves the gate as it is.
LEMMA AmendKeepsContracts ==
  ASSUME ContractsInv,
         \/ \E c \in Commands : Pinned!Start(c)
         \/ Pinned!Write \/ Pinned!Finish \/ Pinned!Kill
  PROVE  ContractsInv'
<1>0. /\ log \in Seq(Texts) /\ writer \in Writer /\ writer.cmd \in Texts
      /\ Len(log) \in Nat
  BY DEF ContractsInv, Writer
<1>1. writer' \in Writer
  <2>1. ASSUME NEW c \in Commands, Pinned!Start(c)
        PROVE  writer' \in Writer
    BY <2>1 DEF Pinned!Start, Writer, Writes, Texts
  <2>2. CASE Pinned!Write
    BY <1>0, <2>2 DEF Pinned!Write, Writer, Writes
  <2>3. CASE Pinned!Finish \/ Pinned!Kill
    BY <2>3 DEF Pinned!Finish, Pinned!Kill, Pinned!Idle, Writer, Texts
  <2> QED
    BY <2>1, <2>2, <2>3
<1>2. acc' \in Texts /\ sha' \in Texts
  BY <1>0 DEF ContractsInv, Pinned!Start, Pinned!Write, Pinned!Finish, Pinned!Kill, Texts
<1>3. log' = log \/ log' = Append(log, writer.cmd)
  BY DEF Pinned!Start, Pinned!Write, Pinned!Finish, Pinned!Kill
<1>4. log' \in Seq(Texts) /\ \A i \in 1..Len(log) : i \in 1..Len(log') /\ log'[i] = log[i]
  BY <1>0, <1>3
<1>5. gate' = gate
  BY DEF Pinned!Start, Pinned!Write, Pinned!Finish, Pinned!Kill
<1> QED
  BY <1>1, <1>2, <1>4, <1>5 DEF ContractsInv, IsLogged

\* A gate that verified the contract has found its entry.
LEMMA GateKeepsContracts ==
  ASSUME ContractsInv, Pinned!GateVerify \/ Pinned!GateRun \/ Pinned!GateAgain
  PROVE  ContractsInv'
<1>0. log \in Seq(Texts) /\ acc \in Texts /\ gate \in Gate /\ Len(log) \in Nat
  BY DEF ContractsInv
<1>1. CASE Pinned!GateVerify
  <2>1. gate' \in Gate /\ gate'.saw = acc
    BY <1>0, <1>1 DEF Pinned!GateVerify, Gate
  <2>2. gate'.at = "verified" => Pinned!VerifyContracts
    BY <1>0, <1>1 DEF Pinned!GateVerify, Gate
  <2>3. gate'.at # "executed"
    BY <1>0, <1>1 DEF Pinned!GateVerify, Gate
  <2>4. Pinned!VerifyContracts => IsLogged(acc)
    <3>1. log # << >> => Len(log) \in 1..Len(log)
      BY <1>0
    <3> QED
      BY <3>1 DEF Pinned!VerifyContracts, Pinned!PinsMatchLog, IsLogged
  <2> QED
    BY <1>1, <2>1, <2>2, <2>3, <2>4 DEF Pinned!GateVerify, ContractsInv, IsLogged
<1>2. CASE Pinned!GateRun
  <2>1. gate' \in Gate /\ gate'.saw = gate.saw /\ gate.at = "verified"
    BY <1>0, <1>2 DEF Pinned!GateRun, Gate
  <2> QED
    BY <1>2, <2>1 DEF Pinned!GateRun, ContractsInv, IsLogged
<1>3. CASE Pinned!GateAgain
  BY <1>3 DEF Pinned!GateAgain, Pinned!GateIdle, ContractsInv, Gate, Texts, IsLogged
<1> QED
  BY <1>1, <1>2, <1>3

\* What a gate verified and then executed has its entry in the audit log, however
\* the amends before were cut: a script and a pin that were both replaced by an
\* amend killed before its third file are refused (contracts.py:302).
THEOREM PinnedAudited ==
  Pinned!Spec => []Pinned!ExecutedIsAudited
<1>1. Pinned!Init => ContractsInv
  BY DEF Pinned!Init, Pinned!Idle, Pinned!GateIdle, ContractsInv, Writer, Gate, Texts
<1>2. ContractsInv /\ [Pinned!Next]_Pinned!vars => ContractsInv'
  <2>1. ASSUME ContractsInv, UNCHANGED Pinned!vars
        PROVE  ContractsInv'
    BY <2>1 DEF Pinned!vars, ContractsInv, IsLogged
  <2> QED
    BY <2>1, AmendKeepsContracts, GateKeepsContracts DEF Pinned!Next
<1>3. ContractsInv => Pinned!ExecutedIsAudited
  BY DEF ContractsInv, IsLogged, Pinned!ExecutedIsAudited
<1> QED
  BY <1>1, <1>2, <1>3, PTL DEF Pinned!Spec

-----------------------------------------------------------------------------
(* The auth proxy.  A permit is taken with every connection that is opened and
   given back with every one that is closed; and while no answer is lost, the
   holder of the refresh lock is the only one whose pair may differ from the
   file, which it brings up to date before it lets go.                        *)

ConnStates ==
  [at : Proxy!Closed \cup {"handle", "read", "send", "refresh", "ask", "store",
                           "rewrite", "leave", "end"},
   pair : 0..(MaxPairs + 1), again : BOOLEAN]
Refreshing == {"ask", "store", "rewrite"}
Storing == {"store", "rewrite"}
Open == {c \in Conns : conn[c].at \notin Proxy!Closed}

ProxyTypes ==
  /\ conn \in [Conns -> ConnStates]
  /\ slots \in Nat /\ newest \in 0..MaxPairs /\ file \in 0..(MaxPairs + 1)
  /\ lost \in BOOLEAN

PermitsCounted == slots + Cardinality(Open) = MaxConcurrent

OneRefreshes ==
  /\ \A c \in Conns : conn[c].at \in Refreshing => mutex = c
  /\ \A c \in Conns : conn[c].at \in Refreshing /\ ~lost => conn[c].pair = newest
  /\ (\A c \in Conns : conn[c].at \notin Storing) /\ ~lost => file = newest

ProxyInv == ProxyTypes /\ PermitsCounted /\ OneRefreshes

\* The module of the proxy counts with the same operator.
LEMMA SameCount ==
  \A S : /\ Proxy!Cardinality(S) = Cardinality(S)
         /\ Proxy!IsFiniteSet(S) <=> IsFiniteSet(S)
<1>1. \A S : Proxy!Cardinality(S) = Cardinality(S)
  BY DEF Cardinality, Proxy!Cardinality
<1>2. \A S : Proxy!IsFiniteSet(S) <=> IsFiniteSet(S)
  BY DEF IsFiniteSet, Proxy!IsFiniteSet
<1> QED
  BY <1>1, <1>2

\* A connection before its request and after it.
LEMMA NewAndClosed ==
  ASSUME MaxPairs \in Nat
  PROVE  /\ Proxy!New \in ConnStates /\ Proxy!New.at = "new"
         /\ [Proxy!New EXCEPT !.at = "closed"] \in ConnStates
         /\ [Proxy!New EXCEPT !.at = "closed"].at = "closed"
<1>1. 0 \in 0..(MaxPairs + 1)
  OBVIOUS
<1> QED
  BY <1>1 DEF Proxy!New, ConnStates, Proxy!Closed

\* What one connection does opens, keeps or closes it, and no other.
LEMMA OpenAfter ==
  ASSUME IsFiniteSet(Conns), conn \in [Conns -> ConnStates], NEW c \in Conns,
         NEW r \in ConnStates, conn' = [conn EXCEPT ![c] = r]
  PROVE  /\ Cardinality(Open) \in Nat
         /\ Cardinality(Open') =
              IF r.at \in Proxy!Closed
              THEN IF conn[c].at \in Proxy!Closed THEN Cardinality(Open)
                   ELSE Cardinality(Open) - 1
              ELSE IF conn[c].at \in Proxy!Closed THEN Cardinality(Open) + 1
                   ELSE Cardinality(Open)
<1>1. IsFiniteSet(Open) /\ Cardinality(Open) \in Nat
  BY FS_Subset, FS_CardinalityType DEF Open
<1>2. Open' = IF r.at \in Proxy!Closed THEN Open \ {c} ELSE Open \cup {c}
  BY DEF Open
<1>3. c \in Open <=> conn[c].at \notin Proxy!Closed
  BY DEF Open
<1>4. /\ Cardinality(Open \ {c}) = IF c \in Open THEN Cardinality(Open) - 1
                                   ELSE Cardinality(Open)
      /\ Cardinality(Open \cup {c}) = IF c \in Open THEN Cardinality(Open)
                                      ELSE Cardinality(Open) + 1
  BY <1>1, FS_AddElement, FS_RemoveElement
<1> QED
  BY <1>1, <1>2, <1>3, <1>4

\* A step that is about no refresh: the permits.
LEMMA PermitStep ==
  ASSUME Proxy!ProxyAssumption, ProxyInv, NEW c \in Conns,
         \/ Proxy!Refuse(c) \/ Proxy!SpawnFails(c) \/ Proxy!Accept(c) \/ Proxy!Handle(c)
         \/ Proxy!ReadToken(c) \/ Proxy!Send(c) \/ Proxy!Leave(c) \/ Proxy!End(c)
  PROVE  ProxyInv'
<1> USE DEF Proxy!At, Proxy!Go, Proxy!Closed
<1>0. /\ conn \in [Conns -> ConnStates] /\ conn[c] \in ConnStates /\ slots \in Nat
      /\ file \in 0..(MaxPairs + 1) /\ MaxPairs \in Nat /\ IsFiniteSet(Conns)
  BY SameCount DEF ProxyInv, ProxyTypes, Proxy!ProxyAssumption
<1>1. conn[c].at \notin Refreshing
  BY DEF Proxy!Refuse, Proxy!SpawnFails, Proxy!Accept, Proxy!Handle, Proxy!ReadToken,
         Proxy!Send, Proxy!Leave, Proxy!End, Refreshing
<1>2. UNCHANGED <<mutex, file, newest, lost>>
  BY DEF Proxy!Refuse, Proxy!SpawnFails, Proxy!Accept, Proxy!Handle, Proxy!ReadToken,
         Proxy!Send, Proxy!Leave, Proxy!End
<1> DEFINE r == conn'[c]
<1>3. /\ r \in ConnStates
      /\ conn' = [conn EXCEPT ![c] = r] /\ r.at \notin Refreshing
      /\ slots' = IF r.at \in Proxy!Closed
                  THEN IF conn[c].at \in Proxy!Closed THEN slots ELSE slots + 1
                  ELSE IF conn[c].at \in Proxy!Closed THEN slots - 1 ELSE slots
      /\ slots' \in Nat
  <2>1. CASE Proxy!Refuse(c) \/ Proxy!SpawnFails(c) \/ Proxy!Accept(c)
    BY <1>0, <2>1 DEF Proxy!Refuse, Proxy!SpawnFails, Proxy!Accept, ConnStates, Refreshing
  <2>2. CASE Proxy!Handle(c) \/ Proxy!Send(c) \/ Proxy!Leave(c)
    BY <1>0, <2>2 DEF Proxy!Handle, Proxy!Send, Proxy!Leave, ConnStates, Refreshing
  <2>3. CASE Proxy!ReadToken(c)
    BY <1>0, <2>3 DEF Proxy!ReadToken, ConnStates, Refreshing
  <2>4. CASE Proxy!End(c)
    BY <1>0, <2>4, NewAndClosed DEF Proxy!End, Refreshing
  <2> QED
    BY <2>1, <2>2, <2>3, <2>4
<1>4. conn' \in [Conns -> ConnStates]
      /\ \A d \in Conns \ {c} : conn'[d] = conn[d]
  BY <1>0, <1>3
<1>5. PermitsCounted'
  <2>1. Cardinality(Open) \in Nat /\ slots + Cardinality(Open) = MaxConcurrent
    BY <1>0, <1>3, OpenAfter DEF ProxyInv, PermitsCounted
  <2>2. Cardinality(Open') =
          IF r.at \in Proxy!Closed
          THEN IF conn[c].at \in Proxy!Closed THEN Cardinality(Open)
               ELSE Cardinality(Open) - 1
          ELSE IF conn[c].at \in Proxy!Closed THEN Cardinality(Open) + 1
               ELSE Cardinality(Open)
    BY <1>0, <1>3, OpenAfter
  <2> HIDE DEF r
  <2>3. slots' + Cardinality(Open') = slots + Cardinality(Open)
    BY <1>0, <1>3, <2>1, <2>2
  <2> QED
    BY <2>1, <2>3 DEF PermitsCounted
<1>6. OneRefreshes'
  <2>1. \A d \in Conns : conn'[d].at \in Refreshing => conn'[d] = conn[d] /\ d # c
    BY <1>3, <1>4
  <2>2. r.at \notin Storing /\ conn[c].at \notin Storing
    BY <1>1, <1>3 DEF Refreshing, Storing
  <2>3. (\A d \in Conns : conn'[d].at \notin Storing) => (\A d \in Conns : conn[d].at \notin Storing)
    BY <1>4, <2>2
  <2> QED
    BY <1>2, <2>1, <2>3 DEF ProxyInv, OneRefreshes
<1> QED
  BY <1>0, <1>2, <1>3, <1>4, <1>5, <1>6 DEF ProxyInv, ProxyTypes

\* A step of a refresh, which only the holder of the lock takes.
LEMMA RefreshStep ==
  ASSUME Proxy!ProxyAssumption, ProxyInv, NEW c \in Conns,
         Proxy!Refresh(c) \/ Proxy!Ask(c) \/ Proxy!Store(c) \/ Proxy!Rewrite(c)
  PROVE  ProxyInv'
<1> USE DEF Proxy!At, Proxy!Go, Proxy!Closed
<1>0. /\ conn \in [Conns -> ConnStates] /\ conn[c] \in ConnStates /\ slots \in Nat
      /\ file \in 0..(MaxPairs + 1) /\ newest \in 0..MaxPairs /\ lost \in BOOLEAN
      /\ MaxPairs \in Nat /\ IsFiniteSet(Conns)
  BY SameCount DEF ProxyInv, ProxyTypes, Proxy!ProxyAssumption
<1>1. \A d \in Conns \ {c} : conn[d].at \notin Refreshing
  <2>1. CASE Proxy!Refresh(c)
    <3>1. mutex = Proxy!None /\ Proxy!None \notin Conns
      BY <2>1 DEF Proxy!Refresh, Proxy!ProxyAssumption
    <3> QED
      BY <3>1 DEF ProxyInv, OneRefreshes
  <2>2. CASE Proxy!Ask(c) \/ Proxy!Store(c) \/ Proxy!Rewrite(c)
    <3>1. conn[c].at \in Refreshing
      BY <2>2 DEF Proxy!Ask, Proxy!Store, Proxy!Rewrite, Refreshing
    <3> QED
      BY <3>1 DEF ProxyInv, OneRefreshes
  <2> QED
    BY <2>1, <2>2
<1> DEFINE r == conn'[c]
<1>2. /\ r \in ConnStates /\ conn' = [conn EXCEPT ![c] = r] /\ r.at \notin Proxy!Closed
      /\ conn[c].at \notin Proxy!Closed /\ slots' = slots
      /\ newest' \in 0..MaxPairs /\ file' \in 0..(MaxPairs + 1) /\ lost' \in BOOLEAN
      /\ r.at \in Refreshing => mutex' = c
      /\ r.at \in Refreshing /\ ~lost' => r.pair = newest'
      /\ r.at \notin Storing /\ ~lost' => file' = newest'
  <2>1. ~lost /\ conn[c].at \notin Storing => file = newest
    BY <1>1 DEF ProxyInv, OneRefreshes, Refreshing, Storing
  <2>2. conn[c].at \in Refreshing => mutex = c /\ (~lost => conn[c].pair = newest)
    BY DEF ProxyInv, OneRefreshes
  <2>3. CASE Proxy!Refresh(c)
    BY <1>0, <2>1, <2>3 DEF Proxy!Refresh, Proxy!Empty, ConnStates, Refreshing, Storing
  <2>4. CASE Proxy!Ask(c)
    <3>1. conn[c].at = "ask" /\ UNCHANGED <<slots, busy, file, flock>>
      BY <2>4 DEF Proxy!Ask
    <3>2. CASE /\ conn' = [conn EXCEPT ![c].at = "store", ![c].pair = newest + 1]
               /\ newest < MaxPairs /\ newest' = newest + 1 /\ UNCHANGED <<mutex, lost>>
      <4>1. newest + 1 \in 0..MaxPairs /\ newest + 1 \in 0..(MaxPairs + 1)
        BY <1>0, <3>2
      <4>2. r \in ConnStates /\ r.at = "store" /\ r.pair = newest + 1
            /\ conn' = [conn EXCEPT ![c] = r]
        BY <1>0, <3>2, <4>1 DEF ConnStates
      <4> HIDE DEF r
      <4> QED
        BY <1>0, <2>2, <3>1, <3>2, <4>1, <4>2 DEF Refreshing, Storing
    <3>3. CASE /\ conn' = [conn EXCEPT ![c].at = "leave"] /\ newest < MaxPairs
               /\ newest' = newest + 1 /\ lost' = TRUE
      BY <1>0, <3>1, <3>3 DEF ConnStates, Refreshing, Storing
    <3>4. CASE conn' = [conn EXCEPT ![c].at = "leave"] /\ UNCHANGED <<newest, lost>>
      BY <1>0, <2>1, <3>1, <3>4 DEF ConnStates, Refreshing, Storing
    <3> QED
      BY <2>4, <3>2, <3>3, <3>4 DEF Proxy!Ask
  <2>5. CASE Proxy!Store(c)
    <3>1. conn[c].at = "store" /\ UNCHANGED <<slots, busy, newest>>
      BY <2>5 DEF Proxy!Store
    <3>2. CASE /\ conn' = [conn EXCEPT ![c].at = "read", ![c].again = TRUE]
               /\ file' = conn[c].pair /\ UNCHANGED lost
      BY <1>0, <2>2, <3>1, <3>2 DEF ConnStates, Refreshing, Storing
    <3>3. CASE /\ conn' = [conn EXCEPT ![c].at = "rewrite"] /\ file' = Proxy!Empty
               /\ UNCHANGED <<mutex, lost>>
      BY <1>0, <2>2, <3>1, <3>3 DEF Proxy!Empty, ConnStates, Refreshing, Storing
    <3>4. CASE conn' = [conn EXCEPT ![c].at = "leave"] /\ lost' = TRUE /\ UNCHANGED file
      BY <1>0, <3>1, <3>4 DEF ConnStates, Refreshing, Storing
    <3> QED
      BY <2>5, <3>2, <3>3, <3>4 DEF Proxy!Store
  <2>6. CASE Proxy!Rewrite(c)
    BY <1>0, <2>1, <2>2, <2>6 DEF Proxy!Rewrite, Proxy!Unlocked, ConnStates, Refreshing,
         Storing
  <2> QED
    BY <2>3, <2>4, <2>5, <2>6
<1>3. conn' \in [Conns -> ConnStates]
      /\ \A d \in Conns \ {c} : conn'[d] = conn[d]
  BY <1>0, <1>2
<1>4. PermitsCounted'
  BY <1>0, <1>2, OpenAfter DEF ProxyInv, PermitsCounted
<1>5. OneRefreshes'
  <2>1. \A d \in Conns : conn'[d].at \in Refreshing => d = c
    BY <1>1, <1>3
  <2> QED
    BY <1>2, <1>3, <2>1 DEF OneRefreshes
<1> QED
  BY <1>0, <1>2, <1>3, <1>4, <1>5 DEF ProxyInv, ProxyTypes

\* A restart closes whatever was open, and remembers an answer that is lost.
LEMMA RestartStep ==
  ASSUME Proxy!ProxyAssumption, ProxyInv, Proxy!Restart
  PROVE  ProxyInv'
<1> USE DEF Proxy!At, Proxy!Closed
<1>0. /\ conn \in [Conns -> ConnStates] /\ lost \in BOOLEAN
      /\ newest \in 0..MaxPairs /\ file \in 0..(MaxPairs + 1)
      /\ MaxPairs \in Nat /\ MaxConcurrent \in Nat
  BY SameCount DEF ProxyInv, ProxyTypes, Proxy!ProxyAssumption
<1>1. /\ conn' \in [Conns -> ConnStates]
      /\ \A c \in Conns : conn'[c].at \in {"new", "closed"}
  BY <1>0, NewAndClosed DEF Proxy!Restart
<1>2. Open' = {}
  BY <1>1 DEF Open
<1>3. PermitsCounted'
  BY <1>0, <1>2, FS_EmptySet DEF Proxy!Restart, PermitsCounted
<1>4. ~lost' => file' = newest'
  BY DEF Proxy!Restart, ProxyInv, OneRefreshes, Storing
<1> QED
  BY <1>0, <1>1, <1>3, <1>4 DEF Proxy!Restart, ProxyInv, ProxyTypes, OneRefreshes, Refreshing

\* Every permit of the accept loop is held by a connection that is being served,
\* or the loop wedges after MaxConcurrent threads that did not start; and
\* concurrent 401s never show the provider a pair it has rotated away, unless an
\* earlier answer of it was lost (auth_proxy/server.py:439,
\* ClaudeTokenStore.refresh).
THEOREM ProxySound ==
  ASSUME Proxy!ProxyAssumption
  PROVE  Proxy!Init /\ [][Proxy!Next]_(Proxy!vars) => []Proxy!ProxyIsSound
<1>1. Proxy!Init => ProxyInv
  <2> SUFFICES ASSUME Proxy!Init PROVE ProxyInv
    OBVIOUS
  <2>1. ProxyTypes /\ OneRefreshes
    <3>1. /\ conn = [c \in Conns |-> Proxy!New] /\ Proxy!New \in ConnStates
          /\ Proxy!New.at \notin Refreshing
      BY NewAndClosed DEF Proxy!ProxyAssumption, Proxy!Init, Refreshing
    <3>2. conn \in [Conns -> ConnStates] /\ \A c \in Conns : conn[c].at \notin Refreshing
      BY <3>1
    <3>3. slots \in Nat /\ file = 0 /\ newest = 0 /\ MaxPairs \in Nat /\ lost = FALSE
      BY DEF Proxy!ProxyAssumption, Proxy!Init
    <3>4. 0 \in 0..MaxPairs /\ 0 \in 0..(MaxPairs + 1)
      BY <3>3
    <3> QED
      BY <3>2, <3>3, <3>4 DEF ProxyTypes, OneRefreshes
  <2>2. Open = {}
    BY DEF Proxy!Init, Proxy!New, Proxy!Closed, Open
  <2> QED
    BY <2>1, <2>2, FS_EmptySet DEF Proxy!ProxyAssumption, Proxy!Init, PermitsCounted, ProxyInv
<1>2. ProxyInv /\ [Proxy!Next]_Proxy!vars => ProxyInv'
  <2>1. ASSUME ProxyInv, UNCHANGED Proxy!vars
        PROVE  ProxyInv'
    BY <2>1 DEF Proxy!vars, ProxyInv, ProxyTypes, PermitsCounted, Open, OneRefreshes
  <2> QED
    BY <2>1, PermitStep, RefreshStep, RestartStep DEF Proxy!Next, Proxy!Step
<1>3. ProxyInv => Proxy!ProxyIsSound
  BY SameCount DEF ProxyInv, PermitsCounted, Open, OneRefreshes, Refreshing,
       Proxy!ProxyIsSound,
         Proxy!PermitsAreHeld, Proxy!RefreshIsCurrent, Proxy!At
<1> QED
  BY <1>1, <1>2, <1>3, PTL

-----------------------------------------------------------------------------
(* The gates about tests.  A run converges on files that match the digests it
   holds, and is over then: nobody edits after it.                            *)

TestsInv ==
  /\ run \in {"idle", "peer", "gates", "converged"}
  /\ Tested!ConvergedIsUnforged

\* A review that counts is by another peer than the author of the line.
LEMMA ReviewIsByAnother ==
  ASSUME NEW reviewed, NEW lines, NEW author \in lines, Tested!Reviewed(reviewed, lines)
  PROVE  \E p \in Peers \ {author} : <<reviewed, p>> \in reviews
BY DEF Tested!Reviewed, Tested!LineAuthors, Tested!FileAuthors

\* What the gates let through lost no test and has its escapes signed, if the
\* baselines match the digests of the run, those it has.
LEMMA GatesAreUnforged ==
  ASSUME NEW first \in SUBSET Tests \cup {Tested!NoReport},
         NEW second \in SUBSET Tests \cup {Tested!NoReport},
         Tested!RegressionGate(first, second), Tested!SkipGate, Tested!MarkerGate,
         Tested!Unforged
  PROVE  /\ \A t \in UNION anchor.passing :
              Tested!SkipOf(t) = Tested!NoSkip /\ tests[t].outcome \in {"green", "flaky"}
         /\ \A t \in Tested!Skipped :
              \/ Tested!Signature(t) \in UNION anchor.skips
              \/ \E p \in Peers \ {Tested!SkipOf(t).by} : <<"tests", p>> \in reviews
              \/ anchor.skips = Tested!NoFile /\ Tested!Signature(t) \in UNION skips
         /\ marker # Tested!NoMarker =>
              \E p \in Peers \ {marker.by} : <<"src", p>> \in reviews
<1>1. ASSUME NEW t \in UNION anchor.passing
      PROVE  Tested!SkipOf(t) = Tested!NoSkip /\ tests[t].outcome \in {"green", "flaky"}
  <2>1. PICK ids \in passing : t \in ids
    BY <1>1 DEF Tested!Unforged, Tested!NoFile
  <2>2. t \in Tested!Collected(first) \/ t \in Tested!Collected(second)
    BY <2>1 DEF Tested!RegressionGate
  <2> QED
    BY <2>2 DEF Tested!Collected, Tested!Passes, Tested!SkipOf
<1>2. ASSUME NEW t \in Tested!Skipped
      PROVE  \/ Tested!Signature(t) \in UNION anchor.skips
             \/ \E p \in Peers \ {Tested!SkipOf(t).by} : <<"tests", p>> \in reviews
             \/ anchor.skips = Tested!NoFile /\ Tested!Signature(t) \in UNION skips
  <2>1. CASE Tested!Baselined(t)
    BY <2>1 DEF Tested!Baselined, Tested!Unforged
  <2>2. CASE Tested!Reviewed("tests", {Tested!SkipOf(t).by, Tested!SkipOf(t).reason})
    BY <2>2, ReviewIsByAnother
  <2> QED
    BY <1>2, <2>1, <2>2 DEF Tested!SkipGate
<1>3. ASSUME marker # Tested!NoMarker
      PROVE  \E p \in Peers \ {marker.by} : <<"src", p>> \in reviews
  <2>1. Tested!Reviewed("src", {marker.by})
    BY <1>3 DEF Tested!MarkerGate
  <2> QED
    BY <2>1, ReviewIsByAnother
<1> QED
  BY <1>1, <1>2, <1>3

\* A step of the driver: only an evaluation of the gates makes a run converge.
LEMMA DriverKeepsTests ==
  ASSUME TestsInv, Tested!Start \/ Tested!EndTurn \/ Tested!Evaluate \/ Tested!Die
  PROVE  TestsInv'
<1> USE DEF Tested!ConvergedIsUnforged, Tested!ConvergedKeepsGreen,
            Tested!ConvergedEscapesAreSigned
<1>1. CASE Tested!Start
  BY <1>1 DEF Tested!Start, TestsInv
<1>2. CASE Tested!EndTurn
  BY <1>2 DEF Tested!EndTurn, TestsInv
<1>3. CASE Tested!Evaluate
  <2>1. PICK first \in SUBSET Tests \cup {Tested!NoReport},
             second \in SUBSET Tests \cup {Tested!NoReport} :
          run' = IF /\ Tested!RegressionGate(first, second) /\ Tested!SkipGate
                    /\ Tested!MarkerGate /\ Tested!Unforged
                 THEN "converged" ELSE "peer"
    BY <1>3 DEF Tested!Evaluate
  <2>2. UNCHANGED <<tests, marker, reviews, skips, anchor>>
    BY <1>3 DEF Tested!Evaluate
  <2>3. Tested!Skipped' = Tested!Skipped
        /\ \A t : /\ Tested!SkipOf(t)' = Tested!SkipOf(t)
                  /\ Tested!Signature(t)' = Tested!Signature(t)
    BY <2>2 DEF Tested!Skipped, Tested!SkipOf, Tested!Signature
  <2>4. CASE /\ Tested!RegressionGate(first, second) /\ Tested!SkipGate
             /\ Tested!MarkerGate /\ Tested!Unforged
    BY <2>1, <2>2, <2>3, <2>4, GatesAreUnforged DEF TestsInv
  <2>5. CASE run' = "peer"
    BY <2>2, <2>5 DEF TestsInv
  <2> QED
    BY <2>1, <2>4, <2>5
<1>4. CASE Tested!Die
  BY <1>4 DEF Tested!Die, TestsInv
<1> QED
  BY <1>1, <1>2, <1>3, <1>4

\* What anybody edits, he edits while a run works or between two runs.
LEMMA EditKeepsTests ==
  ASSUME TestsInv, NEW w \in Tested!Writers, Tested!Edit(w)
  PROVE  TestsInv'
BY DEF Tested!Edit, Tested!ConvergedIsUnforged, Tested!ConvergedKeepsGreen,
       Tested!ConvergedEscapesAreSigned, TestsInv

\* A run that the test gates let converge lost no test of the baseline it anchored,
\* and every skip or marker in it is older than the run or was signed by another
\* peer, or no skip baseline was anchored and a peer has written one since, however
\* the peers have written the baselines and the gates' scripts
\* (no_regression.py:2, no_skipped_tests.py:271, regression_baseline.py:84).
THEOREM TestedUnforged ==
  Tested!Spec => []Tested!ConvergedIsUnforged
<1> USE DEF Tested!ConvergedIsUnforged, Tested!ConvergedKeepsGreen,
            Tested!ConvergedEscapesAreSigned
<1>1. Tested!Init => TestsInv
  BY DEF Tested!Init, TestsInv
<1>2. TestsInv /\ [Tested!Next]_Tested!vars => TestsInv'
  <2>1. ASSUME TestsInv, UNCHANGED Tested!vars
        PROVE  TestsInv'
    BY <2>1 DEF Tested!vars, Tested!Skipped, Tested!SkipOf, Tested!Signature, TestsInv
  <2>2. ASSUME TestsInv, Tested!Next
        PROVE  TestsInv'
    <3>1. CASE Tested!Start \/ Tested!EndTurn \/ Tested!Evaluate \/ Tested!Die
      BY <2>2, <3>1, DriverKeepsTests
    <3>2. CASE \E w \in Tested!Writers : Tested!Edit(w)
      BY <2>2, <3>2, EditKeepsTests
    <3> QED
      BY <2>2, <3>1, <3>2 DEF Tested!Next, Tested!EditTest, Tested!EditSkip,
         Tested!EditSource, Tested!Resnapshot, Tested!EditScripts, Tested!Review
  <2> QED
    BY <2>1, <2>2
<1>3. TestsInv => Tested!ConvergedIsUnforged
  BY DEF TestsInv
<1> QED
  BY <1>1, <1>2, <1>3, PTL DEF Tested!Spec

-----------------------------------------------------------------------------
(* The scaffold of a project.  What a stage of the command has written is there
   in every stage after it: nobody but the command itself writes .peers.      *)

FromDone == {"done"}
FromRegister == {"register", "add", "done"}
FromContracts == {"contracts"} \cup FromRegister
FromIgnore == {"ignore"} \cup FromContracts
FromTag == {"tag", "pin"} \cup FromIgnore
FromCopy == {"copy"} \cup FromTag
Stages == {"idle", "clone", "docs", "wipe"} \cup FromCopy

PlanNames == Plans \cup {Scaf!None}
DotParts == PlanNames \cup {"default"}
Dots == [born : Nat, goals : DotParts, pin : DotParts, contracts : DotParts]
Cmds == [at : Stages, force : BOOLEAN, plan : PlanNames, init : BOOLEAN]

ScaffoldInv ==
  /\ cmd \in Cmds /\ commands \in Nat /\ dot \in Dots
  /\ cmd.at \in FromCopy => dot.born = commands
  /\ cmd.at \in FromCopy \ FromRegister => dot.contracts = Scaf!None
  /\ cmd.at \in FromTag => dot.goals = Scaf!GoalsOf(cmd.plan)
  /\ cmd.at \in FromIgnore => dot.pin = dot.goals
  /\ cmd.at \in FromContracts => ignored
  /\ cmd.at \in FromRegister => dot.contracts = cmd.plan
  /\ cmd.at \in FromDone => record # "none"

\* A step that writes nothing of .peers takes the command from stage to stage.
LEMMA EarlyStage ==
  ASSUME ScaffoldInv,
         \/ \E force \in BOOLEAN : Scaf!InitAlone(force)
         \/ \E force, template \in BOOLEAN, p \in Plans : Scaf!New(force, p, template)
         \/ Scaf!Clone \/ Scaf!Docs \/ Scaf!Leave
  PROVE  ScaffoldInv'
<1> USE DEF FromCopy, FromTag, FromIgnore, FromContracts, FromRegister, FromDone, Stages
<1>0. cmd \in Cmds /\ commands \in Nat /\ dot \in Dots
  BY DEF ScaffoldInv
<1>1. cmd' \in Cmds /\ cmd'.at \in {"idle", "clone", "docs", "wipe"}
  <2>1. CASE Scaf!Clone \/ Scaf!Docs \/ Scaf!Leave
    <3>1. \/ cmd' = Scaf!Idle \/ cmd' = [cmd EXCEPT !.at = "docs"]
          \/ cmd' = [cmd EXCEPT !.at = "wipe"]
      BY <2>1 DEF Scaf!Clone, Scaf!Docs, Scaf!Leave, Scaf!Go
    <3>2. Scaf!Idle \in Cmds /\ Scaf!Idle.at = "idle"
      BY DEF Scaf!Idle, Cmds, PlanNames
    <3> QED
      BY <1>0, <3>1, <3>2 DEF Cmds
  <2>2. ASSUME NEW force \in BOOLEAN, Scaf!InitAlone(force)
        PROVE  cmd' \in Cmds /\ cmd'.at = "wipe"
    BY <2>2 DEF Scaf!InitAlone, Cmds, PlanNames
  <2>3. ASSUME NEW force \in BOOLEAN, NEW template \in BOOLEAN, NEW p \in Plans,
               Scaf!New(force, p, template)
        PROVE  cmd' \in Cmds /\ cmd'.at \in {"clone", "docs"}
    <3>1. cmd' = [at |-> IF template THEN "clone" ELSE "docs", plan |-> p,
                  force |-> force \/ template, init |-> FALSE]
      BY <2>3 DEF Scaf!New
    <3>2. (force \/ template) \in BOOLEAN
      OBVIOUS
    <3> QED
      BY <3>1, <3>2 DEF Cmds, PlanNames
  <2> QED
    BY <2>1, <2>2, <2>3
<1>2. commands' \in Nat
  BY <1>0 DEF Scaf!InitAlone, Scaf!New, Scaf!Clone, Scaf!Docs, Scaf!Leave
<1>3. dot' \in Dots
  BY <1>0 DEF Scaf!InitAlone, Scaf!New, Scaf!Clone, Scaf!Docs, Scaf!Leave, Scaf!NoDot, Dots,
     DotParts, PlanNames
<1> QED
  BY <1>1, <1>2, <1>3 DEF ScaffoldInv

\* A step that writes a part of .peers, or the record, leaves the other parts.
LEMMA LateStage ==
  ASSUME ScaffoldInv,
         \/ Scaf!Wipe \/ Scaf!Copy \/ Scaf!TagBaseline \/ Scaf!Pin \/ Scaf!Ignore
         \/ Scaf!Contracts \/ Scaf!Forget \/ Scaf!Add
  PROVE  ScaffoldInv'
<1> USE DEF FromCopy, FromTag, FromIgnore, FromContracts, FromRegister, FromDone, Stages,
            Scaf!At, Scaf!Go
<1>0. cmd \in Cmds /\ commands \in Nat /\ dot \in Dots /\ cmd.plan \in PlanNames
  BY DEF ScaffoldInv, Cmds
<1>1. CASE Scaf!Wipe
  <2>1. cmd' \in Cmds /\ cmd'.at = "copy"
    BY <1>0, <1>1 DEF Scaf!Wipe, Cmds
  <2>2. dot' \in Dots /\ dot'.born = commands /\ dot'.contracts = Scaf!None
    BY <1>0, <1>1 DEF Scaf!Wipe, Scaf!NoDot, Dots, DotParts, PlanNames
  <2> QED
    BY <1>0, <1>1, <2>1, <2>2 DEF Scaf!Wipe, ScaffoldInv
<1>2. CASE Scaf!Copy
  <2>1. cmd' \in Cmds /\ cmd'.at = "tag" /\ cmd'.plan = cmd.plan
    BY <1>0, <1>2 DEF Scaf!Copy, Cmds
  <2>2. Scaf!GoalsOf(cmd.plan) \in DotParts
    BY <1>0 DEF Scaf!GoalsOf, DotParts
  <2>3. /\ dot' \in Dots /\ dot'.goals = Scaf!GoalsOf(cmd.plan)
        /\ dot'.born = dot.born /\ dot'.contracts = dot.contracts
    BY <1>0, <1>2, <2>2 DEF Scaf!Copy, Dots
  <2> QED
    BY <1>0, <1>2, <2>1, <2>3 DEF Scaf!Copy, ScaffoldInv
<1>3. CASE Scaf!TagBaseline
  <2>1. cmd' \in Cmds /\ cmd'.at = "pin" /\ cmd'.plan = cmd.plan
    BY <1>0, <1>3 DEF Scaf!TagBaseline, Cmds
  <2> QED
    BY <1>0, <1>3, <2>1 DEF Scaf!TagBaseline, ScaffoldInv
<1>4. CASE Scaf!Pin
  <2>1. cmd' \in Cmds /\ cmd'.at = "ignore" /\ cmd'.plan = cmd.plan
    BY <1>0, <1>4 DEF Scaf!Pin, Cmds
  <2>2. /\ dot' \in Dots /\ dot'.pin = dot'.goals /\ dot'.goals = dot.goals
        /\ dot'.born = dot.born /\ dot'.contracts = dot.contracts
    BY <1>0, <1>4 DEF Scaf!Pin, Dots
  <2> QED
    BY <1>0, <1>4, <2>1, <2>2 DEF Scaf!Pin, ScaffoldInv
<1>5. CASE Scaf!Ignore
  <2>1. cmd' \in Cmds /\ cmd'.at = "contracts" /\ cmd'.plan = cmd.plan
    BY <1>0, <1>5 DEF Scaf!Ignore, Cmds
  <2> QED
    BY <1>0, <1>5, <2>1 DEF Scaf!Ignore, ScaffoldInv
<1>6. CASE Scaf!Contracts
  <2>1. cmd' \in Cmds /\ cmd'.at = "register" /\ cmd'.plan = cmd.plan
    BY <1>0, <1>6 DEF Scaf!Contracts, Cmds
  <2>2. /\ dot' \in Dots /\ dot'.pin = dot.pin /\ dot'.goals = dot.goals
        /\ dot'.born = dot.born /\ dot'.contracts = cmd.plan
    BY <1>0, <1>6 DEF Scaf!Contracts, Dots, DotParts, ScaffoldInv
  <2> QED
    BY <1>0, <1>6, <2>1, <2>2 DEF Scaf!Contracts, ScaffoldInv
<1>7. CASE Scaf!Forget
  <2>1. cmd' \in Cmds /\ cmd'.at = "add" /\ cmd'.plan = cmd.plan
    BY <1>0, <1>7 DEF Scaf!Forget, Cmds
  <2> QED
    BY <1>0, <1>7, <2>1 DEF Scaf!Forget, ScaffoldInv
<1>8. CASE Scaf!Add
  <2>1. cmd' \in Cmds /\ cmd'.at = "done" /\ cmd'.plan = cmd.plan
    BY <1>0, <1>8 DEF Scaf!Add, Cmds
  <2> QED
    BY <1>0, <1>8, <2>1 DEF Scaf!Add, ScaffoldInv
<1> QED
  BY <1>1, <1>2, <1>3, <1>4, <1>5, <1>6, <1>7, <1>8

\* A run of the project that goes on meanwhile writes none of it.
LEMMA RunKeepsScaffold ==
  ASSUME ScaffoldInv, Scaf!Start \/ Scaf!PeerCommits \/ \E d \in drivers : Scaf!Finish(d)
  PROVE  ScaffoldInv'
BY DEF Scaf!Start, Scaf!PeerCommits, Scaf!Finish, ScaffoldInv, FromDone

\* A command that says it is done left a project of one piece, whatever was left of
\* the commands before it: goals and their pinned hash, the contracts of this plan
\* and of no earlier one, a record (peers/cli.py:486, peers_ctl/cli.py:822).
THEOREM ScafWhole ==
  Scaf!Spec => []Scaf!ScaffoldIsWhole
<1> USE DEF FromCopy, FromTag, FromIgnore, FromContracts, FromRegister, FromDone, Stages
<1>1. Scaf!Init => ScaffoldInv
  BY DEF Scaf!Init, Scaf!Idle, Scaf!NoDot, ScaffoldInv, Cmds, Dots, DotParts, PlanNames
<1>2. ScaffoldInv /\ [Scaf!Next]_Scaf!vars => ScaffoldInv'
  <2>1. ASSUME ScaffoldInv, UNCHANGED Scaf!vars
        PROVE  ScaffoldInv'
    BY <2>1 DEF Scaf!vars, ScaffoldInv
  <2> QED
    BY <2>1, EarlyStage, LateStage, RunKeepsScaffold DEF Scaf!Next
<1>3. ScaffoldInv => Scaf!ScaffoldIsWhole
  BY DEF ScaffoldInv, Scaf!ScaffoldIsWhole, Scaf!At
<1> QED
  BY <1>1, <1>2, <1>3, PTL DEF Scaf!Spec

-----------------------------------------------------------------------------
(* The hooks of the hosts.  A file that goes from hand to hand is one of which
   every entry's marker is found in no entry before it; the update of the first
   entry with the marker, and the addition where there is none, keep it so.  A
   command that nothing overlaps replaces the file by what it wrote itself.    *)

HookEntries == [of : Projects \cup {"operator"}, current : BOOLEAN]

\* No project's marker is in an entry before its own.
Apart(entries) ==
  \A i, j \in 1..Len(entries) :
    i < j /\ entries[i].of \in Projects /\ entries[j].of \in Projects
      => <<entries[j].of, entries[i].of>> \notin Within

\* A settings file as it is there, to be there or on its way, of which the
\* operator's entries are those of f.
KeptFor(g, f) == /\ g = Hooks!There(g.stop) /\ g.stop \in Seq(HookEntries)
                 /\ Apart(g.stop)
                 /\ f # Hooks!Unsafe
                 /\ Hooks!Of(g, "operator") = Hooks!Of(f, "operator")

\* The project's own entry is in it.
Puts(g, p) == \E i \in 1..Len(g.stop) : g.stop[i] = Hooks!Entry(p, TRUE)

\* A set of naturals that is not empty has a least number.
LEMMA LeastNatural ==
  ASSUME NEW T \in SUBSET Nat, T # {}
  PROVE  \E m \in T : \A k \in T : m <= k
<1> DEFINE R == StrictSubsetOrdering(Nat)
           U == {0..n : n \in T}
<1>1. U \subseteq FiniteSubsetsOf(Nat) /\ U # {}
  <2>1. ASSUME NEW n \in T
        PROVE  0..n \in FiniteSubsetsOf(Nat)
    BY <2>1, FS_Interval DEF FiniteSubsetsOf
  <2> QED
    BY <2>1
<1>2. PICK u \in U : \A v \in U : <<v, u>> \notin R
  <2> HIDE DEF R, U
  <2> QED
    BY <1>1, FS_StrictSubsetOrderingWellFounded, WFMin DEF R
<1>3. PICK m \in T : u = 0..m
  OBVIOUS
<1>4. ASSUME NEW k \in T, k < m
      PROVE  FALSE
  <2>1. 0..k \in U /\ <<0..k, 0..m>> \notin R
    BY <1>2, <1>3
  <2>2. 0..k \subseteq Nat /\ 0..m \subseteq Nat /\ 0..k \subseteq 0..m
    BY <1>4
  <2>3. m \in 0..m /\ m \notin 0..k
    BY <1>4
  <2>4. 0..k # 0..m
    BY <2>3
  <2> QED
    BY <2>1, <2>2, <2>4 DEF StrictSubsetOrdering
<1> QED
  BY <1>4

\* The first of some places is one of them and none is before it.
LEMMA FirstIsLeast ==
  ASSUME NEW S \in SUBSET Nat, S # {}
  PROVE  Hooks!First(S) \in S /\ \A j \in S : Hooks!First(S) <= j
BY LeastNatural DEF Hooks!First

\* The operator's entries among some entries, with their places.
OperatorsIn(s) == {<<i, s[i]>> : i \in {j \in 1..Len(s) : s[j].of = "operator"}}

\* The entry that takes the place of the first with the project's marker keeps the
\* others and leaves the markers apart.
LEMMA UpdatedIsKept ==
  ASSUME Hooks!HooksAssumption, NEW p \in Projects, NEW s \in Seq(HookEntries), Apart(s),
         NEW new \in HookEntries, new.of = p, NEW first \in Hooks!Marked(p, s),
         \A j \in Hooks!Marked(p, s) : first <= j,
         NEW entries \in Seq(HookEntries), Len(entries) = Len(s), entries[first] = new,
         \A i \in 1..Len(s) : i # first => entries[i] = s[i]
  PROVE  Apart(entries) /\ OperatorsIn(entries) = OperatorsIn(s)
<1>1. first \in 1..Len(s) /\ s[first].of # "operator" /\ <<p, s[first].of>> \in Within
  BY DEF Hooks!Marked, Hooks!Operator
<1>2. s[first] \in HookEntries /\ s[first].of \in Projects
  <2>1. s[first] \in HookEntries
    BY <1>1
  <2> QED
    BY <1>1, <2>1 DEF HookEntries
<1>3. /\ Len(entries) = Len(s) /\ entries[first] = new
      /\ \A i \in 1..Len(s) : i # first => entries[i] = s[i]
  OBVIOUS
<1>4. Apart(entries)
  <2>1. SUFFICES ASSUME NEW i \in 1..Len(s), NEW j \in 1..Len(s), i < j,
                        entries[i].of \in Projects, entries[j].of \in Projects
                 PROVE  <<entries[j].of, entries[i].of>> \notin Within
    BY <1>3 DEF Apart
  <2>2. CASE i # first /\ j # first
    BY <1>3, <2>1, <2>2 DEF Apart
  <2>3. CASE j = first
    <3>1. i \notin Hooks!Marked(p, s)
      BY <1>1, <2>1, <2>3
    <3>2. entries[i] = s[i] /\ entries[j].of = p /\ s[i].of # "operator"
      BY <1>3, <2>1, <2>3 DEF Hooks!HooksAssumption
    <3> QED
      BY <2>1, <3>1, <3>2 DEF Hooks!Marked, Hooks!Operator
  <2>4. CASE i = first
    <3>1. entries[j] = s[j] /\ entries[i].of = p
      BY <1>3, <2>1, <2>4
    <3>2. <<s[j].of, s[first].of>> \notin Within
      BY <1>1, <1>2, <2>1, <2>4, <3>1 DEF Apart
    <3> QED
      BY <1>1, <1>2, <2>1, <3>1, <3>2 DEF Hooks!HooksAssumption
  <2> QED
    BY <2>2, <2>3, <2>4
<1>5. OperatorsIn(entries) = OperatorsIn(s)
  <2>1. \A i \in 1..Len(s) : /\ entries[i].of = "operator" <=> s[i].of = "operator"
                             /\ entries[i].of = "operator" => entries[i] = s[i]
    BY <1>1, <1>3 DEF Hooks!HooksAssumption
  <2> QED
    BY <1>3, <2>1 DEF OperatorsIn
<1> QED
  BY <1>1, <1>3, <1>4, <1>5

\* So does the entry that is added where there is none with the marker.
LEMMA AddedIsKept ==
  ASSUME Hooks!HooksAssumption, NEW p \in Projects, NEW s \in Seq(HookEntries), Apart(s),
         NEW new \in HookEntries, new.of = p, Hooks!Marked(p, s) = {}
  PROVE  LET entries == Append(s, new) IN
         /\ entries \in Seq(HookEntries) /\ Apart(entries)
         /\ OperatorsIn(entries) = OperatorsIn(s)
         /\ Len(entries) \in 1..Len(entries) /\ entries[Len(entries)] = new
<1> DEFINE entries == Append(s, new)
<1>1. /\ entries \in Seq(HookEntries) /\ Len(entries) = Len(s) + 1
      /\ entries[Len(s) + 1] = new /\ Len(s) \in Nat
      /\ \A i \in 1..Len(s) : entries[i] = s[i]
  OBVIOUS
<1> HIDE DEF entries
<1>2. Apart(entries)
  <2>1. SUFFICES ASSUME NEW i \in 1..Len(s), NEW j \in 1..Len(entries), i < j,
                        entries[i].of \in Projects, entries[j].of \in Projects
                 PROVE  <<entries[j].of, entries[i].of>> \notin Within
    BY <1>1 DEF Apart
  <2>2. CASE j \in 1..Len(s)
    BY <1>1, <2>1, <2>2 DEF Apart
  <2>3. CASE j = Len(s) + 1
    <3>1. s[i].of # "operator" /\ entries[i] = s[i] /\ entries[j].of = p
      BY <1>1, <2>1, <2>3 DEF Hooks!HooksAssumption
    <3> QED
      BY <2>1, <3>1 DEF Hooks!Marked, Hooks!Operator
  <2>4. j \in 1..Len(s) \/ j = Len(s) + 1
    <3>1. j \in Nat /\ 1 <= j /\ j <= Len(s) + 1
      BY <1>1, <2>1
    <3> QED
      BY <1>1, <3>1
  <2> QED
    BY <2>2, <2>3, <2>4
<1>3. OperatorsIn(entries) = OperatorsIn(s)
  <2>1. entries[Len(s) + 1].of # "operator"
    BY <1>1 DEF Hooks!HooksAssumption
  <2> QED
    BY <1>1, <2>1 DEF OperatorsIn
<1> QED
  BY <1>1, <1>2, <1>3 DEF entries

\* What a command makes of a file keeps what is the operator's, keeps the markers
\* apart, and has the project's entry in it if it says so (peers/cli.py:65).
LEMMA MergedIsKept ==
  ASSUME Hooks!HooksAssumption, NEW h, NEW p \in Projects, NEW f, NEW o,
         f.stop \in Seq(HookEntries), Apart(f.stop), f.is # "unsafe", o # Hooks!Unsafe,
         Hooks!Of(f, "operator") = Hooks!Of(o, "operator")
  PROVE  LET merged == Hooks!Merged(h, p, f) IN
         /\ merged.status \notin {"skipped", "noop"} =>
              KeptFor(merged.to, o) /\ Puts(merged.to, p)
         /\ merged.status = "noop" => Puts(f, p)
<1> DEFINE s == f.stop
           mine == Hooks!Marked(p, s)
           first == Hooks!First(mine)
           new == Hooks!Entry(p, TRUE)
<1>1. new \in HookEntries /\ new.of = p
  BY DEF HookEntries, Hooks!Entry
<1>2. ASSUME NEW entries \in Seq(HookEntries), Apart(entries),
             OperatorsIn(entries) = OperatorsIn(s),
             NEW i \in 1..Len(entries), entries[i] = new
      PROVE  KeptFor(Hooks!There(entries), o) /\ Puts(Hooks!There(entries), p)
  <2>1. Hooks!There(entries).stop = entries
    BY DEF Hooks!There
  <2>2. Hooks!Of(Hooks!There(entries), "operator") = Hooks!Of(f, "operator")
    BY <1>2, <2>1 DEF Hooks!Of, OperatorsIn
  <2> QED
    BY <1>2, <2>1, <2>2 DEF KeptFor, Puts
<1>3. CASE mine # {}
  <2>1. mine \in SUBSET Nat
    BY DEF Hooks!Marked
  <2>2. first \in mine /\ \A j \in mine : first <= j
    <3> HIDE DEF mine
    <3> QED
      BY <1>3, <2>1, FirstIsLeast
  <2>3. CASE s[first] = new
    <3>1. Hooks!Merged(h, p, f).status = "noop"
      BY <1>3, <2>3 DEF Hooks!Merged
    <3>2. first \in 1..Len(s)
      BY <2>2 DEF Hooks!Marked
    <3> QED
      BY <2>3, <3>1, <3>2 DEF Puts
  <2>4. CASE s[first] # new
    <3>1. /\ Hooks!Merged(h, p, f).status = "updated"
          /\ Hooks!Merged(h, p, f).to = Hooks!There([s EXCEPT ![first] = new])
      BY <1>3, <2>4 DEF Hooks!Merged
    <3>2. s \in Seq(HookEntries) /\ Apart(s)
      OBVIOUS
    <3> HIDE DEF s, first, new
    <3>3. first \in Hooks!Marked(p, s) /\ \A j \in Hooks!Marked(p, s) : first <= j
      BY <2>2
    <3> DEFINE entries == [s EXCEPT ![first] = new]
    <3> HIDE DEF mine
    <3>4. first \in 1..Len(s)
      BY <3>3 DEF Hooks!Marked
    <3>5. /\ entries \in Seq(HookEntries) /\ Len(entries) = Len(s) /\ entries[first] = new
          /\ \A i \in 1..Len(s) : i # first => entries[i] = s[i]
      BY <1>1, <3>2, <3>4
    <3> HIDE DEF entries
    <3>6. Apart(entries) /\ OperatorsIn(entries) = OperatorsIn(s)
      BY <1>1, <3>2, <3>3, <3>5, UpdatedIsKept
    <3>7. KeptFor(Hooks!There(entries), o) /\ Puts(Hooks!There(entries), p)
      BY <1>2, <3>5, <3>6, <3>4
    <3> QED
      BY <3>1, <3>7 DEF entries
  <2> QED
    BY <2>3, <2>4
<1>4. CASE mine = {}
  <2>1. CASE h = "codex" /\ f.stop # <<>>
    BY <1>4, <2>1 DEF Hooks!Merged
  <2>2. CASE ~(h = "codex" /\ f.stop # <<>>)
    <3>1. /\ Hooks!Merged(h, p, f).status = "installed"
          /\ Hooks!Merged(h, p, f).to = Hooks!There(Append(s, new))
      BY <1>4, <2>2 DEF Hooks!Merged
    <3> HIDE DEF s, new
    <3> DEFINE entries == Append(s, new)
    <3>2. /\ entries \in Seq(HookEntries) /\ Apart(entries)
          /\ OperatorsIn(entries) = OperatorsIn(s)
          /\ Len(entries) \in 1..Len(entries) /\ entries[Len(entries)] = new
      BY <1>1, <1>4, AddedIsKept DEF s
    <3> HIDE DEF entries
    <3>3. KeptFor(Hooks!There(entries), o) /\ Puts(Hooks!There(entries), p)
      BY <1>2, <3>2
    <3> QED
      BY <3>1, <3>3 DEF entries
  <2> QED
    BY <2>1, <2>2
<1> QED
  BY <1>3, <1>4

Settings == [is : {"absent", "unsafe", "there", "no tmp"}, stop : Seq(HookEntries)]
Statuses == {"none", "nothing", "skipped", "noop", "installed", "updated", "failed"}
DriverNames == {"none", "orchestrator", "hooks"}
HookCommands == [at : {"idle", "switch", "read", "tmp", "replace"}, host : Hooks!Hosts,
                 to : Settings, status : Statuses, install : BOOLEAN]

\* A file as it stands, against the one the operator had.
Stands(f, o) == /\ Apart(f.stop)
                /\ f.is = "unsafe" => f = Hooks!Unsafe
                /\ f = Hooks!Unsafe <=> o = Hooks!Unsafe
                /\ Hooks!Of(f, "operator") = Hooks!Of(o, "operator")

HooksTypes ==
  /\ file \in [Hooks!Hosts -> Settings] /\ tmp \in [Hooks!Hosts -> Settings]
  /\ cmd \in [Projects -> HookCommands]
  /\ said \in [Projects -> [Hooks!Hosts -> Statuses]]
  /\ driver \in [Projects -> DriverNames]

FilesStand ==
  \A h \in Hooks!Hosts : /\ Stands(file[h], had[h])
                         /\ tmp[h] # Hooks!NoTmp => KeptFor(tmp[h], had[h])

CommandsKeep ==
  \A p \in Projects :
    /\ cmd[p].at \in {"tmp", "replace"} => /\ KeptFor(cmd[p].to, had[cmd[p].host])
                                           /\ Puts(cmd[p].to, p)
    /\ cmd[p].at \in {"read", "tmp", "replace"} => driver[p] = "hooks"

AloneIsAlone ==
  \A p \in Projects :
    alone = p => /\ \A q \in Projects \ {p} : cmd[q].at = "idle"
                 /\ cmd[p].at = "replace" => tmp[cmd[p].host] = cmd[p].to

SaidIsSo ==
  \A p \in Projects, h \in Hooks!Hosts :
    said[p][h] \in Hooks!Worked => /\ driver[p] = "hooks"
                                   /\ alone = p => Puts(file[h], p)

HooksInv == HooksTypes /\ FilesStand /\ CommandsKeep /\ AloneIsAlone /\ SaidIsSo

\* The stage of a command is all that moves with it.
LEMMA GoesOn ==
  ASSUME HooksTypes, NEW p \in Projects, NEW stage \in {"idle", "switch", "read", "tmp", "replace"},
         Hooks!Go(p, stage)
  PROVE  /\ cmd' \in [Projects -> HookCommands]
         /\ cmd'[p].at = stage /\ cmd'[p].host = cmd[p].host /\ cmd'[p].to = cmd[p].to
         /\ \A q \in Projects \ {p} : cmd'[q] = cmd[q]
<1>1. cmd[p] \in HookCommands /\ cmd' = [cmd EXCEPT ![p] = [cmd[p] EXCEPT !.at = stage]]
  BY DEF HooksTypes, Hooks!Go
<1>2. [cmd[p] EXCEPT !.at = stage] \in HookCommands
  BY <1>1 DEF HookCommands
<1> QED
  BY <1>1, <1>2 DEF HooksTypes, HookCommands

\* A command that is through with a host goes to the other or ends, and says of this
\* one what it did (peers/cli.py:65).
LEMMA SaysOn ==
  ASSUME HooksTypes, NEW p \in Projects, NEW h \in Hooks!Hosts, NEW status \in Statuses,
         Hooks!Say(p, h, status)
  PROVE  /\ said' \in [Projects -> [Hooks!Hosts -> Statuses]]
         /\ said'[p][h] = status
         /\ \A q \in Projects, k \in Hooks!Hosts :
              ~(q = p /\ k = h) => said'[q][k] = said[q][k]
         /\ cmd' \in [Projects -> HookCommands]
         /\ cmd'[p].at \in {"read", "idle"}
         /\ \A q \in Projects \ {p} : cmd'[q] = cmd[q]
<1>1. said' = [said EXCEPT ![p] = [said[p] EXCEPT ![h] = status]]
  BY DEF Hooks!Say
<1>2. /\ said' \in [Projects -> [Hooks!Hosts -> Statuses]] /\ said'[p][h] = status
      /\ \A q \in Projects, k \in Hooks!Hosts :
           ~(q = p /\ k = h) => said'[q][k] = said[q][k]
  BY <1>1 DEF HooksTypes
<1>3. CASE h = "claude"
  <2>1. /\ cmd[p] \in HookCommands
        /\ cmd' = [cmd EXCEPT ![p] = [cmd[p] EXCEPT !.at = "read", !.host = "codex"]]
    BY <1>3 DEF HooksTypes, Hooks!Say
  <2>2. [cmd[p] EXCEPT !.at = "read", !.host = "codex"] \in HookCommands
    BY <2>1 DEF HookCommands, Hooks!Hosts
  <2> QED
    BY <1>2, <2>1, <2>2 DEF HooksTypes, HookCommands
<1>4. CASE h # "claude"
  <2>1. Hooks!Go(p, "idle")
    BY <1>4 DEF Hooks!Say
  <2> QED
    BY <1>2, <2>1, GoesOn
<1> QED
  BY <1>3, <1>4

\* The files a command can find, or be about to write.
LEMMA FilesAreSettings ==
  /\ <<>> \in Seq(HookEntries) /\ Apart(<<>>)
  /\ Hooks!Absent.is = "absent" /\ Hooks!Absent.stop = <<>> /\ Hooks!Absent \in Settings
  /\ Hooks!Unsafe.is = "unsafe" /\ Hooks!Unsafe.stop = <<>> /\ Hooks!Unsafe \in Settings
  /\ Hooks!NoTmp.is = "no tmp" /\ Hooks!NoTmp \in Settings
  /\ \A s \in Seq(HookEntries) : /\ Hooks!There(s).is = "there" /\ Hooks!There(s).stop = s
                                 /\ Hooks!There(s) \in Settings
<1>1. <<>> \in Seq(HookEntries) /\ Len(<<>>) = 0
  OBVIOUS
<1>2. Apart(<<>>)
  BY <1>1 DEF Apart
<1> QED
  BY <1>1, <1>2 DEF Hooks!Absent, Hooks!Unsafe, Hooks!NoTmp, Hooks!There, Settings

\* A file that is put there stands, and is none that is unsafe.
LEMMA KeptStands ==
  ASSUME NEW g, NEW o, KeptFor(g, o)
  PROVE  Stands(g, o) /\ g \in Settings /\ g # Hooks!NoTmp /\ g # Hooks!Absent
<1>1. g \in Settings /\ g.is = "there"
  BY FilesAreSettings DEF KeptFor
<1> QED
  BY <1>1, FilesAreSettings DEF KeptFor, Stands

\* Before the first command the files are the operator's.
LEMMA HooksInit ==
  ASSUME Hooks!HooksAssumption, Hooks!Init
  PROVE  HooksInv
<1>1. ASSUME NEW h \in Hooks!Hosts
      PROVE  file[h] \in Settings /\ Stands(file[h], had[h])
  <2>1. had[h] = file[h]
    BY DEF Hooks!Init
  <2>2. CASE file[h] = Hooks!Absent
    BY <2>1, <2>2, FilesAreSettings DEF Stands
  <2>3. CASE file[h] = Hooks!Unsafe
    BY <2>1, <2>3, FilesAreSettings DEF Stands
  <2>4. CASE file[h] = Hooks!There(<<>>)
    BY <2>1, <2>4, FilesAreSettings DEF Stands
  <2>5. ASSUME NEW e \in HookEntries, file[h] = Hooks!There(<<e>>)
        PROVE  file[h] \in Settings /\ Stands(file[h], had[h])
    <3>1. <<e>> \in Seq(HookEntries) /\ Len(<<e>>) = 1
      OBVIOUS
    <3>2. Apart(<<e>>)
      BY <3>1 DEF Apart
    <3> QED
      BY <2>1, <2>5, <3>1, <3>2, FilesAreSettings DEF Stands
  <2>6. Hooks!Entry(Hooks!Operator, TRUE) \in HookEntries
        /\ \A p \in Projects : Hooks!Entry(p, FALSE) \in HookEntries
    BY DEF Hooks!Entry, Hooks!Operator, HookEntries
  <2>7. file[h] \in {Hooks!Absent, Hooks!Unsafe, Hooks!There(<<>>),
                     Hooks!There(<<Hooks!Entry(Hooks!Operator, TRUE)>>)}
                    \cup {Hooks!There(<<Hooks!Entry(p, FALSE)>>) : p \in Projects}
    BY DEF Hooks!Init
  <2> QED
    BY <2>2, <2>3, <2>4, <2>5, <2>6, <2>7
<1>2. Hooks!NoTmp \in Settings /\ Hooks!Idle \in HookCommands
  BY FilesAreSettings DEF Hooks!Idle, HookCommands, Hooks!Hosts, Statuses
<1>3. file \in [Hooks!Hosts -> Settings]
  <2>1. DOMAIN file = Hooks!Hosts /\ file = [h \in Hooks!Hosts |-> file[h]]
    BY DEF Hooks!Init
  <2> QED
    BY <1>1, <2>1
<1>4. HooksTypes
  BY <1>2, <1>3 DEF Hooks!Init, HooksTypes, Statuses, DriverNames
<1>5. /\ \A p \in Projects : cmd[p].at = "idle"
      /\ \A p \in Projects, h \in Hooks!Hosts : said[p][h] \notin Hooks!Worked
  BY DEF Hooks!Init, Hooks!Idle, Hooks!Worked
<1>6. FilesStand
  BY <1>1 DEF Hooks!Init, FilesStand
<1> QED
  BY <1>4, <1>5, <1>6 DEF HooksInv, CommandsKeep, AloneIsAlone, SaidIsSo, Hooks!Init,
     Hooks!HooksAssumption, Hooks!Nobody

\* A new command takes back what the last said, and is alone if no other is under way.
LEMMA HooksBegin ==
  ASSUME Hooks!HooksAssumption, HooksInv, NEW p \in Projects, NEW hooks \in BOOLEAN,
         NEW install \in BOOLEAN, Hooks!Begin(p, hooks, install)
  PROVE  HooksInv'
<1> DEFINE new == [Hooks!Idle EXCEPT !.at = IF hooks THEN "switch" ELSE "idle",
                                     !.install = install]
<1>1. new \in HookCommands /\ new.at \in {"switch", "idle"}
  BY FilesAreSettings DEF Hooks!Idle, HookCommands, Hooks!Hosts, Statuses
<1>2. cmd' = [cmd EXCEPT ![p] = new]
  BY DEF Hooks!Begin
<1> HIDE DEF new
<1>3. /\ cmd' \in [Projects -> HookCommands] /\ cmd'[p].at \in {"switch", "idle"}
      /\ \A q \in Projects \ {p} : cmd'[q] = cmd[q]
  BY <1>1, <1>2 DEF HooksInv, HooksTypes
<1>4. /\ said' \in [Projects -> [Hooks!Hosts -> Statuses]]
      /\ \A h \in Hooks!Hosts : said'[p][h] \notin Hooks!Worked
      /\ \A q \in Projects \ {p} : said'[q] = said[q]
  BY DEF Hooks!Begin, HooksInv, HooksTypes, Hooks!Worked, Statuses
<1>5. /\ driver' \in [Projects -> DriverNames]
      /\ \A q \in Projects \ {p} : driver'[q] = driver[q]
      /\ file' = file /\ tmp' = tmp /\ had' = had
  BY DEF Hooks!Begin, HooksInv, HooksTypes, DriverNames
<1>6. /\ alone' \in {p, "nobody"} /\ "nobody" \notin Projects
      /\ alone' = p => \A q \in Projects \ {p} : cmd[q].at = "idle"
  BY DEF Hooks!Begin, Hooks!Nobody, Hooks!HooksAssumption
<1>7. HooksTypes' /\ FilesStand'
  BY <1>3, <1>4, <1>5 DEF HooksInv, HooksTypes, FilesStand
<1>8. CommandsKeep'
  BY <1>3, <1>5 DEF HooksInv, CommandsKeep
<1>9. AloneIsAlone' /\ SaidIsSo'
  BY <1>3, <1>4, <1>5, <1>6 DEF HooksInv, AloneIsAlone, SaidIsSo
<1> QED
  BY <1>7, <1>8, <1>9 DEF HooksInv

\* A stage that writes no file: the switch of the driver, the end of a command.
LEMMA HooksGo ==
  ASSUME HooksInv, NEW p \in Projects, Hooks!Switch(p) \/ Hooks!Kill(p)
  PROVE  HooksInv'
<1>1. PICK stage \in {"idle", "read"} :
        /\ Hooks!Go(p, stage) /\ cmd[p].at # "idle"
        /\ stage = "read" => driver'[p] = "hooks"
        /\ driver' \in [Projects -> DriverNames]
        /\ \A q \in Projects : driver'[q] = driver[q] \/ driver'[q] = "hooks"
        /\ UNCHANGED <<file, tmp, said, alone, had>>
  BY DEF Hooks!Switch, Hooks!Kill, HooksInv, HooksTypes, DriverNames
<1>2. /\ cmd' \in [Projects -> HookCommands] /\ cmd'[p].at = stage
      /\ \A q \in Projects \ {p} : cmd'[q] = cmd[q]
  BY <1>1, GoesOn DEF HooksInv
<1>3. HooksTypes' /\ FilesStand'
  BY <1>1, <1>2 DEF HooksInv, HooksTypes, FilesStand
<1>4. CommandsKeep'
  BY <1>1, <1>2 DEF HooksInv, CommandsKeep
<1>5. AloneIsAlone' /\ SaidIsSo'
  BY <1>1, <1>2 DEF HooksInv, AloneIsAlone, SaidIsSo
<1> QED
  BY <1>3, <1>4, <1>5 DEF HooksInv

\* A command that is through with a host, which has the project's entry if it says so.
LEMMA HooksSay ==
  ASSUME HooksInv, NEW p \in Projects, NEW h \in Hooks!Hosts, NEW status \in Statuses,
         Hooks!Say(p, h, status), cmd[p].at \in {"read", "tmp", "replace"},
         file' \in [Hooks!Hosts -> Settings], tmp' \in [Hooks!Hosts -> Settings], FilesStand',
         \A k \in Hooks!Hosts \ {h} : file'[k] = file[k] /\ tmp'[k] = tmp[k],
         file'[h] = file[h] \/ Puts(file'[h], p) \/ alone # p,
         status \in Hooks!Worked /\ alone = p => Puts(file'[h], p),
         UNCHANGED <<driver, alone, had>>
  PROVE  HooksInv'
<1>1. /\ said' \in [Projects -> [Hooks!Hosts -> Statuses]]
      /\ said'[p][h] = status
      /\ \A q \in Projects, k \in Hooks!Hosts :
           ~(q = p /\ k = h) => said'[q][k] = said[q][k]
      /\ cmd' \in [Projects -> HookCommands]
      /\ cmd'[p].at \in {"read", "idle"}
      /\ \A q \in Projects \ {p} : cmd'[q] = cmd[q]
  BY SaysOn DEF HooksInv
<1>2. driver[p] = "hooks"
  BY DEF HooksInv, CommandsKeep
<1>3. HooksTypes'
  BY <1>1 DEF HooksInv, HooksTypes
<1>4. CommandsKeep'
  BY <1>1, <1>2 DEF HooksInv, CommandsKeep
<1>5. \A q \in Projects \ {p} : alone # q
  BY DEF HooksInv, AloneIsAlone
<1>6. AloneIsAlone'
  BY <1>1, <1>5 DEF HooksInv, AloneIsAlone
<1>7. SaidIsSo'
  <2>1. SUFFICES ASSUME NEW q \in Projects, NEW k \in Hooks!Hosts,
                        said'[q][k] \in Hooks!Worked
                 PROVE  driver'[q] = "hooks" /\ (alone' = q => Puts(file'[k], q))
    BY DEF SaidIsSo, Puts
  <2>2. CASE q = p /\ k = h
    BY <1>1, <1>2, <2>1, <2>2
  <2>3. CASE ~(q = p /\ k = h)
    <3>1. driver[q] = "hooks" /\ (alone = q => Puts(file[k], q))
      BY <1>1, <2>1, <2>3 DEF HooksInv, SaidIsSo
    <3>2. alone = q => q = p
      BY <1>5
    <3> QED
      BY <2>3, <3>1, <3>2
  <2> QED
    BY <2>2, <2>3
<1> QED
  BY <1>3, <1>4, <1>6, <1>7 DEF HooksInv

\* What a command says of a file is one of the statuses, and what it will write is one
\* of the files.
LEMMA MergedStatus ==
  ASSUME NEW h, NEW p, NEW f
  PROVE  /\ Hooks!Merged(h, p, f).status \in {"skipped", "noop", "installed", "updated"}
         /\ f.is = "unsafe" => Hooks!Merged(h, p, f).status = "skipped"
BY DEF Hooks!Merged

\* A file that is read is left, written in place, or to be written by way of the tmp.
LEMMA HooksRead ==
  ASSUME Hooks!HooksAssumption, HooksInv, NEW p \in Projects, NEW h \in Hooks!Hosts,
         Hooks!Read(p, h)
  PROVE  HooksInv'
<1> DEFINE f == file[h]
           merged == Hooks!Merged(h, p, f)
<1>1. /\ cmd[p].at = "read" /\ cmd[p].host = h
      /\ UNCHANGED <<tmp, driver, alone, had, commands>>
  BY DEF Hooks!Read, Hooks!At
<1>2. f \in Settings /\ Stands(f, had[h]) /\ f.stop \in Seq(HookEntries)
  BY DEF HooksInv, HooksTypes, FilesStand, Settings
<1>3. /\ merged.status \in {"skipped", "noop", "installed", "updated"}
      /\ merged.status \notin {"skipped", "noop"} =>
           KeptFor(merged.to, had[h]) /\ Puts(merged.to, p)
      /\ merged.status = "noop" => Puts(f, p)
  <2>1. CASE f.is = "unsafe"
    BY <2>1, MergedStatus
  <2>2. CASE f.is # "unsafe"
    <3>1. had[h] # Hooks!Unsafe
      BY <1>2, <2>2, FilesAreSettings DEF Stands
    <3> QED
      BY <1>2, <2>2, <3>1, MergedIsKept, MergedStatus DEF Stands
  <2> QED
    BY <2>1, <2>2
<1>4. merged.status \in Statuses
  BY <1>3 DEF Statuses
<1>5. CASE merged.status \in {"skipped", "noop"} /\ Hooks!Say(p, h, merged.status) /\ file' = file
  <2>1. FilesStand' /\ file' \in [Hooks!Hosts -> Settings] /\ tmp' \in [Hooks!Hosts -> Settings]
    BY <1>1, <1>5 DEF HooksInv, HooksTypes, FilesStand
  <2>2. merged.status \in Hooks!Worked => Puts(file'[h], p)
    BY <1>3, <1>5 DEF Hooks!Worked
  <2> HIDE DEF merged
  <2> QED
    BY <1>1, <1>4, <1>5, <2>1, <2>2, HooksSay
<1>6. CASE /\ merged.status \notin {"skipped", "noop"}
           /\ file' = [file EXCEPT ![h] = merged.to] /\ Hooks!Say(p, h, merged.status)
  <2> HIDE DEF f, merged
  <2>1. /\ merged.to \in Settings /\ Stands(merged.to, had[h]) /\ Puts(merged.to, p)
    BY <1>3, <1>6, KeptStands
  <2>2. /\ file' \in [Hooks!Hosts -> Settings] /\ tmp' \in [Hooks!Hosts -> Settings]
        /\ file'[h] = merged.to /\ \A k \in Hooks!Hosts \ {h} : file'[k] = file[k]
    BY <1>1, <1>6, <2>1 DEF HooksInv, HooksTypes
  <2>3. FilesStand'
    BY <1>1, <2>1, <2>2 DEF HooksInv, FilesStand
  <2>4. Puts(file'[h], p)
    BY <2>1, <2>2
  <2> QED
    BY <1>1, <1>4, <1>6, <2>2, <2>3, <2>4, HooksSay
<1>7. CASE /\ merged.status \notin {"skipped", "noop"}
           /\ cmd' = [cmd EXCEPT ![p].at = "tmp", ![p].to = merged.to, ![p].status = merged.status]
           /\ UNCHANGED <<file, said>>
  <2> HIDE DEF f, merged
  <2>1. merged.to \in Settings /\ KeptFor(merged.to, had[h]) /\ Puts(merged.to, p)
    BY <1>3, <1>7, KeptStands
  <2> DEFINE new == [cmd[p] EXCEPT !.at = "tmp", !.to = merged.to, !.status = merged.status]
  <2>2. /\ cmd[p] \in HookCommands /\ cmd' = [cmd EXCEPT ![p] = new]
    BY <1>7 DEF HooksInv, HooksTypes
  <2>3. new \in HookCommands /\ new.at = "tmp" /\ new.to = merged.to /\ new.host = h
    BY <1>1, <1>4, <2>1, <2>2 DEF HookCommands
  <2> HIDE DEF new
  <2>4. /\ cmd' \in [Projects -> HookCommands] /\ cmd'[p] = new
        /\ \A q \in Projects \ {p} : cmd'[q] = cmd[q]
    BY <2>2, <2>3 DEF HooksInv, HooksTypes
  <2>5. HooksTypes' /\ FilesStand' /\ SaidIsSo'
    BY <1>1, <1>7, <2>4 DEF HooksInv, HooksTypes, FilesStand, SaidIsSo
  <2>6. CommandsKeep'
    BY <1>1, <1>7, <2>1, <2>3, <2>4 DEF HooksInv, CommandsKeep
  <2>7. AloneIsAlone'
    BY <1>1, <1>7, <2>3, <2>4 DEF HooksInv, AloneIsAlone
  <2> QED
    BY <2>5, <2>6, <2>7 DEF HooksInv
<1> QED
  BY <1>5, <1>6, <1>7 DEF Hooks!Read

\* The tmp of the host is the one the command wrote last.
LEMMA HooksWriteTmp ==
  ASSUME HooksInv, NEW p \in Projects, NEW h \in Hooks!Hosts, Hooks!WriteTmp(p, h)
  PROVE  HooksInv'
<1>1. /\ cmd[p].at = "tmp" /\ cmd[p].host = h /\ cmd[p] \in HookCommands
      /\ UNCHANGED <<file, said, driver, alone, had, commands>>
  BY DEF Hooks!WriteTmp, Hooks!At, HooksInv, HooksTypes
<1>2. /\ cmd' \in [Projects -> HookCommands] /\ cmd'[p].at = "replace"
      /\ cmd'[p].host = h /\ cmd'[p].to = cmd[p].to
      /\ \A q \in Projects \ {p} : cmd'[q] = cmd[q]
  BY <1>1, GoesOn DEF HooksInv, Hooks!WriteTmp
<1>3. /\ tmp' \in [Hooks!Hosts -> Settings] /\ tmp'[h] = cmd[p].to
      /\ \A k \in Hooks!Hosts \ {h} : tmp'[k] = tmp[k]
  BY <1>1 DEF Hooks!WriteTmp, HooksInv, HooksTypes, HookCommands
<1>4. KeptFor(cmd[p].to, had[h]) /\ Puts(cmd[p].to, p) /\ driver[p] = "hooks"
  BY <1>1 DEF HooksInv, CommandsKeep
<1>5. HooksTypes' /\ SaidIsSo'
  BY <1>1, <1>2, <1>3 DEF HooksInv, HooksTypes, SaidIsSo
<1>6. FilesStand'
  BY <1>1, <1>3, <1>4 DEF HooksInv, FilesStand
<1>7. CommandsKeep'
  BY <1>1, <1>2, <1>4 DEF HooksInv, CommandsKeep
<1>8. AloneIsAlone'
  <2>1. SUFFICES ASSUME NEW q \in Projects, alone = q
                 PROVE  /\ \A r \in Projects \ {q} : cmd'[r].at = "idle"
                        /\ cmd'[q].at = "replace" => tmp'[cmd'[q].host] = cmd'[q].to
    BY <1>1 DEF AloneIsAlone
  <2>2. q = p
    BY <1>1, <2>1 DEF HooksInv, AloneIsAlone
  <2> QED
    BY <1>1, <1>2, <1>3, <2>1, <2>2 DEF HooksInv, AloneIsAlone
<1> QED
  BY <1>5, <1>6, <1>7, <1>8 DEF HooksInv

\* Whoever wrote the tmp, it keeps what is the operator's; the command that is alone
\* wrote it itself.
LEMMA HooksReplace ==
  ASSUME HooksInv, NEW p \in Projects, NEW h \in Hooks!Hosts, Hooks!Replace(p, h)
  PROVE  HooksInv'
<1>1. /\ cmd[p].at = "replace" /\ cmd[p].host = h /\ cmd[p] \in HookCommands
      /\ UNCHANGED <<driver, alone, had, commands>>
  BY DEF Hooks!Replace, Hooks!At, HooksInv, HooksTypes
<1>2. KeptFor(cmd[p].to, had[h]) /\ Puts(cmd[p].to, p)
  BY <1>1 DEF HooksInv, CommandsKeep
<1>3. alone = p => tmp[h] = cmd[p].to
  BY <1>1 DEF HooksInv, AloneIsAlone
<1>4. CASE tmp[h] = Hooks!NoTmp
  <2>1. Hooks!Say(p, h, "failed") /\ file' = file /\ tmp' = tmp
    BY <1>4 DEF Hooks!Replace
  <2>2. FilesStand' /\ file' \in [Hooks!Hosts -> Settings] /\ tmp' \in [Hooks!Hosts -> Settings]
    BY <1>1, <2>1 DEF HooksInv, HooksTypes, FilesStand
  <2>3. "failed" \in Statuses /\ "failed" \notin Hooks!Worked
    BY DEF Statuses, Hooks!Worked
  <2> QED
    BY <1>1, <2>1, <2>2, <2>3, HooksSay
<1>5. CASE tmp[h] # Hooks!NoTmp
  <2>1. /\ Hooks!Say(p, h, cmd[p].status) /\ file' = [file EXCEPT ![h] = tmp[h]]
        /\ tmp' = [tmp EXCEPT ![h] = Hooks!NoTmp]
    BY <1>5 DEF Hooks!Replace
  <2>2. KeptFor(tmp[h], had[h])
    BY <1>5 DEF HooksInv, FilesStand
  <2>3. Stands(tmp[h], had[h]) /\ tmp[h] \in Settings
    BY <2>2, KeptStands
  <2>4. /\ file' \in [Hooks!Hosts -> Settings] /\ tmp' \in [Hooks!Hosts -> Settings]
        /\ file'[h] = tmp[h] /\ tmp'[h] = Hooks!NoTmp
        /\ \A k \in Hooks!Hosts \ {h} : file'[k] = file[k] /\ tmp'[k] = tmp[k]
    BY <2>1, <2>3, FilesAreSettings DEF HooksInv, HooksTypes
  <2>5. FilesStand'
    BY <1>1, <2>3, <2>4 DEF HooksInv, FilesStand
  <2>6. alone = p => Puts(file'[h], p)
    BY <1>2, <1>3, <2>4
  <2>7. cmd[p].status \in Statuses
    BY <1>1 DEF HookCommands
  <2> QED
    BY <1>1, <2>1, <2>4, <2>5, <2>6, <2>7, HooksSay
<1> QED
  BY <1>4, <1>5

\* A write that fails is said to have.
LEMMA HooksFail ==
  ASSUME HooksInv, NEW p \in Projects, NEW h \in Hooks!Hosts, Hooks!Fail(p, h)
  PROVE  HooksInv'
<1>1. /\ cmd[p].at = "tmp" /\ Hooks!Say(p, h, "failed")
      /\ UNCHANGED <<file, tmp, driver, alone, had, commands>>
  BY DEF Hooks!Fail, Hooks!At
<1>2. FilesStand' /\ file' \in [Hooks!Hosts -> Settings] /\ tmp' \in [Hooks!Hosts -> Settings]
  BY <1>1 DEF HooksInv, HooksTypes, FilesStand
<1>3. "failed" \in Statuses /\ "failed" \notin Hooks!Worked
  BY DEF Statuses, Hooks!Worked
<1> QED
  BY <1>1, <1>2, <1>3, HooksSay

\* No command, driver or edit of the operator breaks what the installations hold.
LEMMA HooksStep ==
  ASSUME Hooks!HooksAssumption, HooksInv, [Hooks!Next]_(Hooks!vars)
  PROVE  HooksInv'
<1>1. CASE UNCHANGED Hooks!vars
  BY <1>1 DEF Hooks!vars, HooksInv, HooksTypes, FilesStand, CommandsKeep, AloneIsAlone,
       SaidIsSo
<1>2. ASSUME NEW p \in Projects, NEW hooks \in BOOLEAN, NEW install \in BOOLEAN,
             Hooks!Begin(p, hooks, install)
      PROVE  HooksInv'
  BY <1>2, HooksBegin
<1>3. ASSUME NEW p \in Projects, Hooks!Switch(p) \/ Hooks!Kill(p)
      PROVE  HooksInv'
  BY <1>3, HooksGo
<1>4. ASSUME NEW p \in Projects, NEW h \in Hooks!Hosts,
             \/ Hooks!Read(p, h) \/ Hooks!WriteTmp(p, h) \/ Hooks!Replace(p, h) \/ Hooks!Fail(p, h)
      PROVE  HooksInv'
  BY <1>4, HooksRead, HooksWriteTmp, HooksReplace, HooksFail
<1> QED
  BY <1>1, <1>2, <1>3, <1>4 DEF Hooks!Next

\* What the operator has in the files of his hosts stays in its place, a file that
\* looked unsafe is not written, a command that was alone and says that its hook is in
\* has put it in, and nobody's hook is there twice (peers/cli.py:65, 75, 164).
THEOREM HooksInstalled ==
  ASSUME Hooks!HooksAssumption
  PROVE  Hooks!Spec => []Hooks!HooksAreInstalled
<1>1. Hooks!Init => HooksInv
  BY HooksInit
<1>2. HooksInv /\ [Hooks!Next]_(Hooks!vars) => HooksInv'
  BY HooksStep
<1>3. HooksInv => Hooks!OperatorsStay
  BY DEF HooksInv, FilesStand, Stands, Hooks!OperatorsStay, Hooks!Operator
<1>4. ASSUME HooksInv, NEW h \in Hooks!Hosts, NEW p \in Projects
      PROVE  /\ alone = p /\ said[p][h] \in Hooks!Worked =>
                  /\ driver[p] = "hooks"
                  /\ \E e \in Hooks!Of(file[h], p) : e[2] = Hooks!Entry(p, TRUE)
             /\ \A d, e \in Hooks!Of(file[h], p) : d = e
  <2>1. ASSUME Puts(file[h], p)
        PROVE  \E e \in Hooks!Of(file[h], p) : e[2] = Hooks!Entry(p, TRUE)
    <3>1. PICK i \in 1..Len(file[h].stop) : file[h].stop[i] = Hooks!Entry(p, TRUE)
      BY <2>1 DEF Puts
    <3>2. file[h].stop[i].of = p
      BY <3>1 DEF Hooks!Entry
    <3>3. <<i, file[h].stop[i]>> \in Hooks!Of(file[h], p)
      BY <3>1, <3>2 DEF Hooks!Of
    <3> QED
      BY <3>1, <3>3
  <2>2. ASSUME NEW d \in Hooks!Of(file[h], p), NEW e \in Hooks!Of(file[h], p)
        PROVE  d = e
    <3>1. PICK i \in 1..Len(file[h].stop) : d = <<i, file[h].stop[i]>> /\ file[h].stop[i].of = p
      BY DEF Hooks!Of
    <3>2. PICK j \in 1..Len(file[h].stop) : e = <<j, file[h].stop[j]>> /\ file[h].stop[j].of = p
      BY DEF Hooks!Of
    <3>3. Apart(file[h].stop) /\ <<p, p>> \in Within
      BY <1>4 DEF HooksInv, FilesStand, Stands, Hooks!HooksAssumption
    <3>4. ~(i < j) /\ ~(j < i)
      BY <3>1, <3>2, <3>3 DEF Apart
    <3>5. i = j
      BY <3>4
    <3> QED
      BY <3>1, <3>2, <3>5
  <2>3. alone = p /\ said[p][h] \in Hooks!Worked => driver[p] = "hooks" /\ Puts(file[h], p)
    BY <1>4 DEF HooksInv, SaidIsSo
  <2> QED
    BY <2>1, <2>2, <2>3
<1>5. HooksInv => Hooks!SaidIsInstalled
  BY <1>4 DEF Hooks!SaidIsInstalled
<1>6. HooksInv => Hooks!HooksAreInstalled
  BY <1>3, <1>5 DEF Hooks!HooksAreInstalled
<1> QED
  BY <1>1, <1>2, <1>6, PTL DEF Hooks!Spec

-----------------------------------------------------------------------------
(* A run of research.  From the top of a round to its end, what is claimed and
   what is confirmed is of the run and the round that are under way.           *)

\* The claim was swept in this round of this run, from evidence that was read.
OfThisRound(c) == c.run = starts /\ c.round = rounds /\ c.unread = {}
Corroborated(c) == Asked!Cardinality(Asked!Origins(c)) >= 2

\* What a row of the ledger says was confirmed is corroborated, in one round.
RowIsSound(row) ==
  row.event = "confirmed-work" =>
    /\ row.of # {}
    /\ \A c, d \in row.of : c.run = d.run /\ c.round = d.round
    /\ \A c \in row.of : c.unread = {} /\ Corroborated(c)

ResearchInv ==
  /\ pc \in {"sweep", "synthesize", "commit", "confirm"} =>
       \A c \in confirmed : OfThisRound(c) /\ Corroborated(c)
  /\ pc = "sweep" => \A c \in claims : OfThisRound(c)
  /\ pc \in {"synthesize", "commit", "confirm"} => confirmed # {}
  /\ \E S : ledger \in Seq(S)
  /\ \A i \in 1..Len(ledger) : RowIsSound(ledger[i])

\* A ledger stays sound by the row that is added, if that one is.
LEMMA LedgerGrows ==
  ASSUME \E S : ledger \in Seq(S), \A i \in 1..Len(ledger) : RowIsSound(ledger[i]),
         NEW row, RowIsSound(row), ledger' = Append(ledger, row)
  PROVE  /\ \E S : ledger' \in Seq(S)
         /\ \A i \in 1..Len(ledger') : RowIsSound(ledger'[i])
<1>1. PICK S : ledger \in Seq(S)
  OBVIOUS
<1>2. ledger \in Seq(S \cup {row})
  BY <1>1
<1>3. /\ ledger' \in Seq(S \cup {row}) /\ Len(ledger') = Len(ledger) + 1 /\ Len(ledger) \in Nat
      /\ ledger'[Len(ledger) + 1] = row /\ \A i \in 1..Len(ledger) : ledger'[i] = ledger[i]
  BY <1>2
<1>4. ASSUME NEW i \in 1..Len(ledger')
      PROVE  RowIsSound(ledger'[i])
  <2>1. i \in 1..Len(ledger) \/ i = Len(ledger) + 1
    BY <1>3
  <2> QED
    BY <1>3, <2>1
<1> QED
  BY <1>3, <1>4

\* A row that confirms no work is sound.
LEMMA PlainLeavesLedger ==
  ASSUME \E S : ledger \in Seq(S), \A i \in 1..Len(ledger) : RowIsSound(ledger[i]),
         NEW event, event # "confirmed-work", Asked!Log(event)
  PROVE  /\ \E S : ledger' \in Seq(S)
         /\ \A i \in 1..Len(ledger') : RowIsSound(ledger'[i])
<1>1. RowIsSound(Asked!Plain(event)) /\ ledger' = Append(ledger, Asked!Plain(event))
  BY DEF RowIsSound, Asked!Plain, Asked!Row, Asked!Log
<1> QED
  BY <1>1, LedgerGrows

\* What is put into a ledger between rounds, and what begins or ends one.
LEMMA ResearchRounds ==
  ASSUME ResearchInv,
         \/ Asked!EditTopic \/ Asked!Start \/ Asked!Prepare \/ Asked!Begin
         \/ Asked!BlockedRound \/ Asked!Land \/ Asked!Check \/ Asked!Kill
  PROVE  ResearchInv'
<1>1. CASE Asked!EditTopic
  BY <1>1 DEF ResearchInv, Asked!EditTopic, Asked!procVars, OfThisRound
<1>2. CASE Asked!Begin
  BY <1>2 DEF ResearchInv, Asked!Begin
<1>3. CASE Asked!Kill
  BY <1>3 DEF ResearchInv, Asked!Kill
<1>4. ASSUME pc' \notin {"sweep", "synthesize", "commit", "confirm"},
             \E event \in {"run-start", "bar-inferred", "dry-round", "landing", "stop"} :
               Asked!Log(event)
      PROVE  ResearchInv'
  BY <1>4, PlainLeavesLedger DEF ResearchInv
<1>5. CASE Asked!Check /\ UNCHANGED ledger
  BY <1>5 DEF ResearchInv, Asked!Check
<1>6. CASE Asked!Start \/ Asked!Prepare \/ Asked!BlockedRound \/ Asked!Land
  BY <1>4, <1>6 DEF Asked!Start, Asked!Prepare, Asked!BlockedRound, Asked!Land, Asked!DryRound
<1>7. CASE Asked!Check /\ Asked!Log("stop") /\ pc' = "idle"
  BY <1>4, <1>7
<1> QED
  BY <1>1, <1>2, <1>3, <1>5, <1>6, <1>7 DEF Asked!Check

\* A claim of the round is added, of what its fetches brought back.
LEMMA ResearchSweeps ==
  ASSUME ResearchInv, Asked!SweepQuestion
  PROVE  ResearchInv'
<1>1. /\ pc = "sweep" /\ pc' = "sweep"
      /\ UNCHANGED <<starts, rounds, confirmed, ledger>>
  BY DEF Asked!SweepQuestion
<1>2. PICK f \in Asked!Sweep :
        claims' = claims \cup {[run |-> starts, round |-> rounds, q |-> todo,
                                urls |-> Asked!Witnesses(f), code |-> f.code,
                                unread |-> {u \in Asked!Witnesses(f) : f.url[u] # "fetched"}]}
  BY DEF Asked!SweepQuestion
<1>3. {u \in Asked!Witnesses(f) : f.url[u] # "fetched"} = {}
  BY DEF Asked!Witnesses
<1> QED
  BY <1>1, <1>2, <1>3 DEF ResearchInv, OfThisRound

\* What the votes leave and two origins hold up is confirmed (frontend.py:184).
LEMMA ResearchVerifies ==
  ASSUME ResearchInv, Asked!Verify
  PROVE  ResearchInv'
<1>1. /\ pc = "sweep" /\ UNCHANGED <<starts, rounds>>
      /\ \/ confirmed' # {} /\ pc' = "synthesize" /\ UNCHANGED ledger
         \/ Asked!Log("dry-round") /\ pc' = "check"
  BY DEF Asked!Verify, Asked!DryRound
<1>2. PICK refuted \in [claims -> 0..K] :
        confirmed' = confirmed \cup {c \in {d \in claims : Asked!Survives(refuted[d])} :
                                       Asked!Classify(c) = "confirmed"}
  BY DEF Asked!Verify
<1>3. ASSUME NEW c, Asked!Classify(c) = "confirmed"
      PROVE  Corroborated(c)
  BY <1>3 DEF Asked!Classify, Corroborated
<1>4. \A c \in confirmed' : OfThisRound(c) /\ Corroborated(c)
  BY <1>1, <1>2, <1>3 DEF ResearchInv
<1>5. \A c : OfThisRound(c) => OfThisRound(c)'
  BY <1>1 DEF OfThisRound
<1>6. CASE confirmed' # {} /\ pc' = "synthesize" /\ UNCHANGED ledger
  BY <1>4, <1>5, <1>6 DEF ResearchInv
<1>7. CASE Asked!Log("dry-round") /\ pc' = "check"
  BY <1>7, PlainLeavesLedger DEF ResearchInv
<1> QED
  BY <1>1, <1>6, <1>7

\* What is confirmed stays as it is until it is written into the ledger, or dropped.
LEMMA ResearchLands ==
  ASSUME ResearchInv, Asked!Synthesize \/ Asked!Commit \/ Asked!Confirm
  PROVE  ResearchInv'
<1>1. /\ pc \in {"synthesize", "commit", "confirm"} /\ UNCHANGED <<starts, rounds, confirmed>>
      /\ \/ pc' \in {"commit", "confirm"} /\ UNCHANGED ledger
         \/ Asked!Log("dry-round") /\ pc' = "check"
         \/ ledger' = Append(ledger, Asked!Row("confirmed-work", disk, confirmed)) /\ pc' = "landing"
  BY DEF Asked!Synthesize, Asked!Commit, Asked!Confirm, Asked!DryRound, Asked!procVars
<1>2. confirmed # {} /\ \A c \in confirmed : OfThisRound(c) /\ Corroborated(c)
  BY <1>1 DEF ResearchInv
<1>3. CASE pc' \in {"commit", "confirm"} /\ UNCHANGED ledger
  BY <1>1, <1>2, <1>3 DEF ResearchInv, OfThisRound
<1>4. CASE Asked!Log("dry-round") /\ pc' = "check"
  BY <1>4, PlainLeavesLedger DEF ResearchInv
<1>5. CASE /\ ledger' = Append(ledger, Asked!Row("confirmed-work", disk, confirmed))
           /\ pc' = "landing"
  <2>1. RowIsSound(Asked!Row("confirmed-work", disk, confirmed))
    BY <1>2 DEF RowIsSound, Asked!Row, OfThisRound
  <2> QED
    BY <1>5, <2>1, LedgerGrows DEF ResearchInv
<1> QED
  BY <1>1, <1>3, <1>4, <1>5

\* Each claim of confirmed work was swept in the round that confirmed it, and found
\* in two independent origins (research/frontend.py:184, 219).
THEOREM AskedCorroborated == Asked!Spec => []Asked!ConfirmedIsCorroborated
<1>1. Asked!Init => ResearchInv
  <2>1. SUFFICES ASSUME Asked!Init PROVE ResearchInv
    OBVIOUS
  <2>2. pc = "idle" /\ ledger = <<>>
    BY <2>1 DEF Asked!Init
  <2>3. ledger \in Seq({}) /\ Len(ledger) = 0
    BY <2>2
  <2> QED
    BY <2>2, <2>3 DEF ResearchInv
<1>2. ResearchInv /\ [Asked!Next]_(Asked!vars) => ResearchInv'
  <2>1. ASSUME ResearchInv, UNCHANGED Asked!vars
        PROVE  ResearchInv'
    BY <2>1 DEF Asked!vars, Asked!procVars, ResearchInv, OfThisRound
  <2> QED
    BY <2>1, ResearchRounds, ResearchSweeps, ResearchVerifies, ResearchLands DEF Asked!Next
<1>3. ResearchInv => Asked!ConfirmedIsCorroborated
  BY DEF ResearchInv, RowIsSound, Corroborated, Asked!ConfirmedIsCorroborated, Asked!Confirmed
<1> QED
  BY <1>1, <1>2, <1>3, PTL DEF Asked!Spec

-----------------------------------------------------------------------------
(* A bring-up.  A commit is made of a checkout on which the case passes; the
   verdicts of a round are of the checkout it sweeps, which nobody edits before
   the loop is asked again.                                                    *)

\* A case that is judged to pass passes, and has ground truth; one that is left out
\* has none (modes/bring_up, the oracles).
LEMMA JudgeIsSound ==
  ASSUME Bring!BringUpAssumption, NEW c, NEW broken
  PROVE  /\ "none" \in Bring!Judge(c, broken) => c \notin broken /\ Truth[c] # "missing"
         /\ c \in Bring!Cases /\ "corpus-error" \in Bring!Judge(c, broken) =>
              Truth[c] = "missing"
<1>1. ASSUME NEW verdicts, Bring!Adjudicate(verdicts) = "none"
      PROVE  verdicts = {"pass"}
  BY <1>1 DEF Bring!Adjudicate
<1>2. ASSUME NEW verdicts, Bring!Adjudicate(verdicts) = "corpus-error"
      PROVE  "corpus-error" \in verdicts
  BY <1>2 DEF Bring!Adjudicate
<1>3. ASSUME NEW expected, NEW actual, Bring!DifferentialOracle(expected, actual) = "pass"
      PROVE  expected = "value" /\ actual = "same"
  BY <1>3 DEF Bring!DifferentialOracle
<1>4. ASSUME NEW expected, NEW actual, Bring!DifferentialOracle(expected, actual) = "corpus-error"
      PROVE  expected = "missing"
  BY <1>4 DEF Bring!DifferentialOracle
<1>5. \A o : Bring!RuntimeOracle(o) \in {"pass", "tool-bug"}
  BY DEF Bring!RuntimeOracle
<1>6. ASSUME "none" \in Bring!Judge(c, broken)
      PROVE  c \notin broken /\ Truth[c] # "missing"
  <2>1. PICK o \in Bring!Observations(c, broken), e \in Bring!GroundTruth(c) :
          Bring!Adjudicate({Bring!RuntimeOracle(o[1]), Bring!DifferentialOracle(e, o[2])}) = "none"
    BY <1>6 DEF Bring!Judge
  <2>2. Bring!DifferentialOracle(e, o[2]) = "pass"
    BY <1>1, <2>1
  <2>3. e = "value" /\ o[2] = "same"
    BY <1>3, <2>2
  <2> QED
    BY <2>3 DEF Bring!Observations, Bring!GroundTruth
<1>7. ASSUME c \in Bring!Cases, "corpus-error" \in Bring!Judge(c, broken)
      PROVE  Truth[c] = "missing"
  <2>1. PICK o \in Bring!Observations(c, broken), e \in Bring!GroundTruth(c) :
          Bring!Adjudicate({Bring!RuntimeOracle(o[1]), Bring!DifferentialOracle(e, o[2])})
            = "corpus-error"
    BY <1>7 DEF Bring!Judge
  <2>2. Bring!DifferentialOracle(e, o[2]) = "corpus-error"
    BY <1>2, <1>5, <2>1
  <2>3. e = "missing"
    BY <1>4, <2>2
  <2>4. Truth[c] \in {"present", "missing", "flaky"}
    BY <1>7 DEF Bring!BringUpAssumption, Bring!Cases
  <2> QED
    BY <2>3, <2>4 DEF Bring!GroundTruth
<1> QED
  BY <1>6, <1>7

\* The confirmed rows of a ledger, against the commits.
FixedIn(row, cs) ==
  row.event = "confirmed-work" =>
    row.sha \in 2..Len(cs) /\ row.case \notin cs[row.sha] /\ Truth[row.case] # "missing"
RowsFixed(r, cs) ==
  /\ \E S : r \in Seq(S)
  /\ \A i \in 1..Len(r) : FixedIn(r[i], cs)
  /\ \A i, k \in 1..Len(r) :
       r[i].event = "confirmed-work" /\ r[k].event = "confirmed-work" /\ r[i].sha = r[k].sha
         => k = i

\* Rows that confirm nothing leave them as they are.
LEMMA PlainRows ==
  ASSUME NEW r, NEW cs, RowsFixed(r, cs), NEW T, NEW more \in Seq(T),
         \A i \in 1..Len(more) : more[i].event # "confirmed-work"
  PROVE  RowsFixed(r \o more, cs)
<1>1. PICK S : r \in Seq(S)
  BY DEF RowsFixed
<1> DEFINE both == r \o more
<1>2. r \in Seq(S \cup T) /\ more \in Seq(S \cup T) /\ Len(r) \in Nat /\ Len(more) \in Nat
  BY <1>1
<1>3. /\ both \in Seq(S \cup T) /\ Len(both) = Len(r) + Len(more)
      /\ \A i \in 1..Len(r) : both[i] = r[i]
      /\ \A i \in 1..Len(more) : both[Len(r) + i] = more[i]
  BY <1>2
<1> HIDE DEF both
<1>4. ASSUME NEW i \in 1..Len(both), both[i].event = "confirmed-work"
      PROVE  i \in 1..Len(r)
  <2>1. CASE i > Len(r)
    <3>1. i - Len(r) \in 1..Len(more) /\ Len(r) + (i - Len(r)) = i
      BY <1>2, <1>3, <2>1
    <3> QED
      BY <1>3, <1>4, <3>1
  <2> QED
    BY <1>2, <2>1
<1>5. \A i \in 1..Len(both) : FixedIn(both[i], cs)
  BY SMTT(30), <1>3, <1>4 DEF RowsFixed, FixedIn
<1>6. \A i, k \in 1..Len(both) :
        both[i].event = "confirmed-work" /\ both[k].event = "confirmed-work"
          /\ both[i].sha = both[k].sha => k = i
  BY <1>3, <1>4 DEF RowsFixed
<1>7. RowsFixed(both, cs)
  BY <1>3, <1>5, <1>6 DEF RowsFixed
<1> QED
  BY <1>7 DEF both

\* So does one.
LEMMA PlainRow ==
  ASSUME NEW r, NEW cs, RowsFixed(r, cs), NEW row, row.event # "confirmed-work"
  PROVE  RowsFixed(Append(r, row), cs)
<1>1. PICK S : r \in Seq(S)
  BY DEF RowsFixed
<1> DEFINE one == <<row>>
<1>2. one \in Seq({row}) /\ \A i \in 1..Len(one) : one[i] = row
  OBVIOUS
<1>3. Append(r, row) = r \o one
  BY <1>1
<1> HIDE DEF one
<1>4. \A i \in 1..Len(one) : one[i].event # "confirmed-work"
  BY <1>2
<1>5. RowsFixed(r \o one, cs)
  BY <1>2, <1>4, PlainRows
<1> QED
  BY <1>3, <1>5

\* A commit that follows leaves the confirmed rows as they are.
LEMMA CommitsGrow ==
  ASSUME NEW r, NEW T, NEW cs \in Seq(T), RowsFixed(r, cs), NEW edit \in T
  PROVE  RowsFixed(r, Append(cs, edit))
<1> DEFINE grown == Append(cs, edit)
<1>1. /\ Len(grown) = Len(cs) + 1 /\ Len(cs) \in Nat
      /\ \A i \in 1..Len(cs) : grown[i] = cs[i]
  OBVIOUS
<1> HIDE DEF grown
<1>2. ASSUME NEW row, FixedIn(row, cs)
      PROVE  FixedIn(row, grown)
  BY <1>1, <1>2 DEF FixedIn
<1>3. RowsFixed(r, grown)
  BY <1>2 DEF RowsFixed
<1> QED
  BY <1>3 DEF grown

\* The row of a fix names the commit that was made for it.
LEMMA FixedRow ==
  ASSUME NEW r, NEW T, NEW cs \in Seq(T), Len(cs) > 0, RowsFixed(r, cs), NEW edit \in T,
         NEW c, c \notin edit, Truth[c] # "missing"
  PROVE  RowsFixed(Append(r, Bring!Row("confirmed-work", c, Len(cs) + 1)), Append(cs, edit))
<1> DEFINE grown == Append(cs, edit)
           row == Bring!Row("confirmed-work", c, Len(cs) + 1)
           both == Append(r, row)
<1>1. /\ Len(grown) = Len(cs) + 1 /\ Len(cs) \in Nat /\ grown[Len(cs) + 1] = edit
  OBVIOUS
<1>2. RowsFixed(r, grown)
  BY CommitsGrow
<1>3. row.event = "confirmed-work" /\ row.case = c /\ row.sha = Len(cs) + 1
  BY DEF Bring!Row
<1>4. PICK S : r \in Seq(S)
  BY DEF RowsFixed
<1> HIDE DEF grown, row
<1>5. r \in Seq(S \cup {row}) /\ row \in S \cup {row}
  BY <1>4
<1>6. /\ both \in Seq(S \cup {row}) /\ Len(both) = Len(r) + 1 /\ Len(r) \in Nat
      /\ both[Len(r) + 1] = row /\ \A i \in 1..Len(r) : both[i] = r[i]
  BY <1>5
<1> HIDE DEF both
<1>7. FixedIn(row, grown)
  BY <1>1, <1>3 DEF FixedIn
<1>8. \A i \in 1..Len(both) : FixedIn(both[i], grown)
  BY <1>2, <1>6, <1>7 DEF RowsFixed
<1>9. \A i \in 1..Len(r) : both[i].event = "confirmed-work" => both[i].sha < Len(cs) + 1
  BY <1>1, <1>6 DEF RowsFixed, FixedIn
<1>10. \A i, k \in 1..Len(both) :
        both[i].event = "confirmed-work" /\ both[k].event = "confirmed-work"
          /\ both[i].sha = both[k].sha => k = i
  <2>1. \A i, k \in 1..Len(r) :
          both[i].event = "confirmed-work" /\ both[k].event = "confirmed-work"
            /\ both[i].sha = both[k].sha => k = i
    BY <1>6 DEF RowsFixed
  <2>2. \A i \in 1..Len(both) : i \in 1..Len(r) \/ (i = Len(r) + 1 /\ both[i].sha = Len(cs) + 1)
    BY <1>3, <1>6
  <2> QED
    BY <1>1, <1>9, <2>1, <2>2
<1>11. RowsFixed(both, grown)
  BY <1>6, <1>8, <1>10 DEF RowsFixed
<1> QED
  BY <1>11 DEF both, grown, row

BringPhases == {"idle", "start", "round", "diagnose", "implement", "report", "done"}

BringInv ==
  /\ commits \in Seq(SUBSET Bring!Cases) /\ Len(commits) > 0
  /\ work \subseteq Bring!Cases
  /\ RowsFixed(rows, commits)
  /\ \A c \in excluded : Truth[c] = "missing"
  /\ converged => work \ Bring!Terminal = {} /\ phase \in {"round", "done"}

\* A row that confirms nothing is added, and nothing else happens that counts.
LEMMA BringLogs ==
  ASSUME BringInv, NEW event, event # "confirmed-work", Bring!Append1(event)
  PROVE  RowsFixed(rows', commits)
<1>1. Bring!Row(event, Order[1], 0).event = event
  BY DEF Bring!Row
<1> QED
  BY <1>1, PlainRow DEF BringInv, Bring!Append1

\* The steps that only log.
LEMMA BringPlain ==
  ASSUME BringInv,
         \/ \E fixer \in {"landing", "escalate-only"} : Bring!Launch(fixer)
         \/ Bring!ValidationFails \/ Bring!LaunchAgain \/ Bring!IdleRound \/ Bring!RunsDry
         \/ Bring!RoundsSpent \/ Bring!TurnsSpent \/ Bring!Crash
  PROVE  BringInv'
<1>1. ASSUME \E event \in {"run-start", "aborted", "dry-round", "stop"} : Bring!Append1(event),
             UNCHANGED <<work, commits, excluded, stuck, converged>>,
             phase' \in {"round", "done"} \/ phase' = phase \/ phase = "idle"
      PROVE  BringInv'
  <2>1. RowsFixed(rows', commits)
    BY <1>1, BringLogs
  <2>2. converged => phase' \in {"round", "done"}
    BY <1>1 DEF BringInv
  <2> QED
    BY <1>1, <2>1, <2>2 DEF BringInv, Bring!Terminal
<1>2. ASSUME \E fixer \in {"landing", "escalate-only"} : Bring!Launch(fixer)
      PROVE  BringInv'
  BY <1>1, <1>2 DEF Bring!Launch, Bring!tree, Bring!loop
<1>3. CASE Bring!ValidationFails \/ Bring!LaunchAgain \/ Bring!Crash
  BY <1>1, <1>3 DEF Bring!ValidationFails, Bring!LaunchAgain, Bring!Crash, Bring!tree,
       Bring!loop
<1>4. CASE Bring!IdleRound \/ Bring!RunsDry \/ Bring!RoundsSpent
  BY <1>1, <1>4 DEF Bring!IdleRound, Bring!RunsDry, Bring!RoundsSpent, Bring!tree, Bring!loop
<1>5. CASE Bring!TurnsSpent
  BY <1>1, <1>5 DEF Bring!TurnsSpent, Bring!NoFix, Bring!tree, Bring!loop
<1> QED
  BY <1>2, <1>3, <1>4, <1>5

\* A sweep leaves out what has no ground truth, and the loop has converged when what
\* is left passes on the checkout it swept (loop.py:89).
LEMMA BringRound ==
  ASSUME Bring!BringUpAssumption, BringInv, Bring!Round
  PROVE  BringInv'
<1>1. PICK j \in [Bring!Cases \ Bring!Terminal -> Bring!Kinds] :
        LET failures == Bring!Failures(j)
            c == Bring!Worst(failures, j)
        IN
        /\ \A d \in DOMAIN j : j[d] \in Bring!Judge(d, work)
        /\ Bring!Sweep(j)
        /\ CASE failures = {} ->
                  /\ converged' = TRUE /\ Bring!Append1("dry-round")
                  /\ UNCHANGED <<phase, stuck, attempts, target>>
             [] failures # {} /\ attempts[c] >= Budget ->
                  /\ stuck' = stuck \cup {c}
                  /\ converged' = (Bring!Pending(green', excluded', stuck') = {})
                  /\ Bring!Append1("dry-round")
                  /\ UNCHANGED <<phase, attempts, target>>
             [] OTHER ->
                  /\ attempts' = [attempts EXCEPT ![c] = @ + 1]
                  /\ target' = [case |-> c, kind |-> j[c], turns |-> Budget]
                  /\ phase' = "diagnose"
                  /\ UNCHANGED <<stuck, converged, rows>>
  BY DEF Bring!Round
<1> DEFINE swept == Bring!Cases \ Bring!Terminal
           c == Bring!Worst(Bring!Failures(j), j)
<1>2. /\ phase = "round" /\ ~converged /\ UNCHANGED <<work, dirty, commits>>
  BY DEF Bring!Round, Bring!tree
<1>3. /\ \A d \in swept : j[d] \in Bring!Judge(d, work)
      /\ green' = {d \in swept : j[d] = "none"}
      /\ excluded' = excluded \cup {d \in swept : j[d] = "corpus-error"}
  BY <1>1 DEF Bring!Sweep
<1>4. /\ \A d \in green' : d \notin work
      /\ \A d \in excluded' : Truth[d] = "missing"
  BY <1>3, JudgeIsSound DEF BringInv
<1>5. CASE /\ Bring!Failures(j) = {} /\ converged' = TRUE /\ Bring!Append1("dry-round")
           /\ UNCHANGED <<phase, stuck, attempts, target>>
  <2>1. \A d \in swept : d \in green' \/ d \in excluded'
    BY <1>3, <1>5 DEF Bring!Failures
  <2>2. work \ (excluded' \cup stuck') = {}
    BY <1>3, <1>4, <1>5, <2>1 DEF BringInv, Bring!Terminal
  <2>3. RowsFixed(rows', commits)
    BY <1>5, BringLogs
  <2> QED
    BY <1>2, <1>4, <1>5, <2>2, <2>3 DEF BringInv, Bring!Terminal
<1>6. CASE /\ stuck' = stuck \cup {c}
           /\ converged' = (Bring!Pending(green', excluded', stuck') = {})
           /\ Bring!Append1("dry-round") /\ UNCHANGED <<phase, attempts, target>>
  <2>1. converged' => work \ (excluded' \cup stuck') = {}
    BY <1>4, <1>6 DEF BringInv, Bring!Pending
  <2>2. RowsFixed(rows', commits)
    BY <1>6, BringLogs
  <2> QED
    BY <1>2, <1>4, <1>6, <2>1, <2>2 DEF BringInv, Bring!Terminal
<1>7. CASE UNCHANGED <<stuck, converged, rows>>
  BY <1>2, <1>4, <1>7 DEF BringInv
<1> HIDE DEF c, swept
<1>8. \/ /\ Bring!Failures(j) = {} /\ converged' = TRUE /\ Bring!Append1("dry-round")
         /\ UNCHANGED <<phase, stuck, attempts, target>>
      \/ /\ stuck' = stuck \cup {c}
         /\ converged' = (Bring!Pending(green', excluded', stuck') = {})
         /\ Bring!Append1("dry-round") /\ UNCHANGED <<phase, attempts, target>>
      \/ UNCHANGED <<stuck, converged, rows>>
  BY <1>1 DEF c
<1> QED
  BY <1>5, <1>6, <1>7, <1>8

\* The diagnosis adds rows of its gates.
LEMMA BringDiagnose ==
  ASSUME BringInv, Bring!Diagnose
  PROVE  BringInv'
<1>1. /\ ~converged /\ UNCHANGED <<work, commits, excluded, stuck, converged>>
  BY DEF Bring!Diagnose, Bring!tree, Bring!loop, BringInv
<1>2. ASSUME RowsFixed(rows', commits)
      PROVE  BringInv'
  BY <1>1, <1>2 DEF BringInv
<1>3. CASE Bring!NoFix
  BY <1>2, <1>3, BringLogs DEF Bring!NoFix
<1> DEFINE verdict == Bring!Row("gate", target.case, 0)
           round == Bring!Row("dry-round", Order[1], 0)
<1>4. verdict.event # "confirmed-work" /\ round.event # "confirmed-work"
  BY DEF Bring!Row
<1>5. CASE rows' = Append(rows, verdict)
  <2> HIDE DEF verdict
  <2> QED
    BY <1>2, <1>4, <1>5, PlainRow DEF BringInv
<1>6. CASE rows' = rows \o <<verdict, round>>
  <2> HIDE DEF verdict, round
  <2> DEFINE more == <<verdict, round>>
  <2>1. more \in Seq({verdict, round}) /\ \A i \in 1..Len(more) : more[i].event # "confirmed-work"
    BY <1>4
  <2>2. rows' = rows \o more
    BY <1>6
  <2> HIDE DEF more
  <2> QED
    BY <1>2, <2>1, <2>2, PlainRows DEF BringInv
<1> QED
  BY <1>3, <1>5, <1>6 DEF Bring!Diagnose

\* A turn that is accepted is committed with its edits, on which its case passes
\* (fixer.py:11).
LEMMA BringTurn ==
  ASSUME Bring!BringUpAssumption, BringInv, Bring!Turn
  PROVE  BringInv'
<1>1. /\ ~converged /\ UNCHANGED <<excluded, stuck, converged>>
  BY DEF Bring!Turn, Bring!loop, BringInv
<1>2. PICK edit \in SUBSET Bring!Cases, touched \in BOOLEAN :
        /\ work' = edit
        /\ \/ UNCHANGED <<phase, commits, rows>>
           \/ /\ TRUE \in Bring!Accepted(target.case, edit)
              /\ IF dirty \/ touched
                 THEN /\ commits' = Append(commits, edit)
                      /\ rows' = Append(rows, Bring!Row("confirmed-work", target.case,
                                                        Bring!HeadSha + 1))
                 ELSE Bring!NoFix /\ UNCHANGED commits
           \/ commits' = Append(commits, edit) /\ Bring!NoFix
  BY DEF Bring!Turn
<1>3. /\ Append(commits, edit) \in Seq(SUBSET Bring!Cases)
      /\ Len(Append(commits, edit)) > 0
  BY DEF BringInv
<1>4. ASSUME commits' \in Seq(SUBSET Bring!Cases), Len(commits') > 0, RowsFixed(rows', commits')
      PROVE  BringInv'
  BY <1>1, <1>2, <1>4 DEF BringInv
<1>5. CASE UNCHANGED <<phase, commits, rows>>
  BY <1>4, <1>5 DEF BringInv
<1>6. CASE Bring!NoFix /\ UNCHANGED commits
  BY <1>4, <1>6, BringLogs DEF Bring!NoFix, BringInv
<1>7. CASE commits' = Append(commits, edit) /\ Bring!NoFix
  <2>1. RowsFixed(rows', commits)
    BY <1>7, BringLogs DEF Bring!NoFix
  <2>2. RowsFixed(rows', Append(commits, edit))
    BY <2>1, CommitsGrow DEF BringInv
  <2> QED
    BY <1>3, <1>4, <1>7, <2>2
<1>8. CASE /\ TRUE \in Bring!Accepted(target.case, edit)
           /\ commits' = Append(commits, edit)
           /\ rows' = Append(rows, Bring!Row("confirmed-work", target.case, Bring!HeadSha + 1))
  <2>1. "none" \in Bring!Judge(target.case, edit)
    BY <1>8 DEF Bring!Accepted
  <2>2. target.case \notin edit /\ Truth[target.case] # "missing"
    BY <2>1, JudgeIsSound
  <2>3. RowsFixed(Append(rows, Bring!Row("confirmed-work", target.case, Len(commits) + 1)),
                  Append(commits, edit))
    BY <2>2, FixedRow DEF BringInv
  <2> QED
    BY <1>3, <1>4, <1>8, <2>3 DEF Bring!HeadSha
<1> QED
  BY <1>2, <1>5, <1>6, <1>7, <1>8

\* The pass that only reports: verdicts, and a stop.
LEMMA BringReport ==
  ASSUME Bring!BringUpAssumption, BringInv, Bring!Report
  PROVE  BringInv'
<1>1. /\ ~converged /\ UNCHANGED <<work, commits, excluded, stuck, converged>>
  BY DEF Bring!Report, Bring!tree, Bring!loop, BringInv
<1>2. ASSUME RowsFixed(rows', commits)
      PROVE  BringInv'
  BY <1>1, <1>2 DEF BringInv
<1>3. CASE Bring!Append1("aborted")
  BY <1>2, <1>3, BringLogs
<1> DEFINE verdicts == [i \in 1..Len(Order) |-> Bring!Row("bringup-verdict", Order[i], 0)]
           end == Bring!Row("stop", Order[1], 0)
<1>4. CASE rows' = Append(rows \o verdicts, end)
  <2>1. Len(Order) \in Nat
    BY DEF Bring!BringUpAssumption
  <2>2. /\ verdicts \in Seq({verdicts[i] : i \in 1..Len(Order)}) /\ Len(verdicts) = Len(Order)
        /\ \A i \in 1..Len(verdicts) : verdicts[i].event # "confirmed-work"
    BY <2>1 DEF Bring!Row
  <2>3. end.event # "confirmed-work"
    BY DEF Bring!Row
  <2> HIDE DEF verdicts, end
  <2>4. RowsFixed(rows \o verdicts, commits)
    BY <2>2, PlainRows DEF BringInv
  <2>5. RowsFixed(Append(rows \o verdicts, end), commits)
    BY <2>3, <2>4, PlainRow
  <2> QED
    BY <1>2, <1>4, <2>5
<1> QED
  BY <1>3, <1>4 DEF Bring!Report

\* No step of bring-up breaks what its rows and its checkout hold.
LEMMA BringStep ==
  ASSUME Bring!BringUpAssumption, BringInv, [Bring!Next]_(Bring!vars)
  PROVE  BringInv'
<1>1. CASE UNCHANGED Bring!vars
  BY <1>1 DEF Bring!vars, BringInv, Bring!Terminal
<1>2. CASE Bring!Next
  BY <1>2, BringPlain, BringRound, BringDiagnose, BringTurn, BringReport DEF Bring!Next
<1> QED
  BY <1>1, <1>2

\* Every confirmed fix is a commit of its own on which its case passes, and a loop
\* that converged left no failing case in the checkout but for those it took out
\* (frontend.py:151, fixer.py:11, loop.py:89).
THEOREM BringGreen ==
  ASSUME Bring!BringUpAssumption
  PROVE  Bring!Init /\ [][Bring!Next]_(Bring!vars) => []Bring!BroughtUpIsGreen
<1>1. Bring!Init => BringInv
  <2>1. SUFFICES ASSUME Bring!Init PROVE BringInv
    OBVIOUS
  <2>2. PICK broken \in SUBSET Bring!Cases : work = broken /\ commits = <<broken>>
    BY <2>1 DEF Bring!Init
  <2>3. commits \in Seq(SUBSET Bring!Cases) /\ Len(commits) > 0
    BY <2>2
  <2>4. rows = <<>> /\ excluded = {} /\ ~converged
    BY <2>1 DEF Bring!Init
  <2>5. rows \in Seq({}) /\ Len(rows) = 0
    BY <2>4
  <2>6. RowsFixed(rows, commits)
    BY <2>5 DEF RowsFixed
  <2> QED
    BY <2>2, <2>3, <2>4, <2>6 DEF BringInv
<1>2. BringInv /\ [Bring!Next]_(Bring!vars) => BringInv'
  BY BringStep
<1>3. BringInv => Bring!BroughtUpIsGreen
  <2>1. BringInv => Bring!ConfirmedIsFixed
    BY DEF BringInv, RowsFixed, FixedIn, Bring!ConfirmedIsFixed, Bring!HeadSha
  <2>2. BringInv => Bring!ConvergedIsGreen
    BY DEF BringInv, Bring!ConvergedIsGreen
  <2> QED
    BY <2>1, <2>2 DEF Bring!BroughtUpIsGreen
<1> QED
  BY <1>1, <1>2, <1>3, PTL

-----------------------------------------------------------------------------
(* The cockpit.  Whatever is done to the panel, the child of the moment is the *)
(* only one alive.                                                             *)

\* Where the stream is looked after, an old child is killed before a new one.
LEMMA EvaluateKeepsOne ==
  ASSUME NEW r, NEW p, NEW visible, Cock!NoStreamLeaks, Cock!Evaluate(r, p, visible)
  PROVE  Cock!NoStreamLeaks'
<1>1. CASE Cock!StopStream
  BY <1>1 DEF Cock!StopStream, Cock!NoStreamLeaks
<1>2. CASE UNCHANGED Cock!streamVars
  BY <1>2 DEF Cock!streamVars, Cock!NoStreamLeaks
<1>3. CASE Cock!StartStream(r, p)
  BY <1>3 DEF Cock!StartStream, Cock!NoStreamLeaks
<1> QED
  BY <1>1, <1>2, <1>3 DEF Cock!Evaluate

\* At most one child streams and the cockpit holds it; and what is painted was
\* read from the run that is selected, though the selection may have moved while
\* the worker read or its message waited (tui/app.py:466, 803).
THEOREM CockCurrent ==
  Cock!Init /\ [][Cock!Next]_(Cock!vars) => [][Cock!CockpitIsCurrent]_(Cock!vars)
<1>1. Cock!Init => Cock!NoStreamLeaks
  BY DEF Cock!Init, Cock!NoStreamLeaks
<1>2. ASSUME Cock!NoStreamLeaks, Cock!Next
      PROVE  Cock!CockpitIsCurrent
  <2>1. CASE \/ \E r \in Runs : Cock!TickStart(r)
             \/ \E r \in Runs, next \in Peers : Cock!TickEnd(r, next)
             \/ Cock!Refresh \/ Cock!ReadDone \/ Cock!PeekEnds \/ Cock!BackoffOver
    BY <1>2, <2>1 DEF Cock!TickStart, Cock!TickEnd, Cock!Refresh, Cock!ReadDone,
         Cock!PeekEnds, Cock!BackoffOver, Cock!appVars, Cock!streamVars,
         Cock!CockpitIsCurrent, Cock!NoStreamLeaks, Cock!PaintsActive
  <2>2. ASSUME NEW r \in Runs, Cock!Select(r)
        PROVE  Cock!CockpitIsCurrent
    BY <1>2, <2>2 DEF Cock!Select, Cock!StopStream, Cock!CockpitIsCurrent,
         Cock!NoStreamLeaks, Cock!PaintsActive
  <2>3. CASE Cock!Paint
    <3> DEFINE m == Head(posted)
    <3>1. /\ IF m.run # active THEN UNCHANGED data /\ UNCHANGED Cock!streamVars
               ELSE data' = m /\ Cock!Evaluate(active, m.peer, shown)
          /\ UNCHANGED active
      BY <2>3 DEF Cock!Paint
    <3>2. Cock!NoStreamLeaks'
      BY <1>2, <3>1, EvaluateKeepsOne DEF Cock!streamVars, Cock!NoStreamLeaks
    <3> QED
      BY <3>1, <3>2 DEF Cock!CockpitIsCurrent, Cock!PaintsActive
  <2>4. CASE Cock!Toggle
    BY <1>2, <2>4, EvaluateKeepsOne DEF Cock!Toggle, Cock!CockpitIsCurrent,
         Cock!PaintsActive
  <2> QED
    BY <1>2, <2>1, <2>2, <2>3, <2>4 DEF Cock!Next
<1>3. Cock!NoStreamLeaks /\ [Cock!Next]_(Cock!vars) => Cock!NoStreamLeaks'
  BY <1>2 DEF Cock!CockpitIsCurrent, Cock!NoStreamLeaks, Cock!vars, Cock!streamVars
<1> QED
  BY <1>1, <1>2, <1>3, PTL

-----------------------------------------------------------------------------
(* The leases of worktrees.  Who holds the prune lock does so from its sweep   *)
(* until its worktree is guarded, so a sweep finds every worktree in use       *)
(* guarded.  A listed worktree has its branch, and a branch is made only once: *)
(* it is the branch that keeps two leases of one mode_run apart.  As long as   *)
(* no acquire lock was removed under a process that had it open, who holds the *)
(* lock of a mode_run is alone with it: its worktree is the only one listed    *)
(* for it, but for a leftover that its own sweep came too early for.           *)

Pruning == {"sweeping", "removed", "opening", "acquiring", "adding", "added", "guarded"}
Leaving == {"ending", "unguarding", "removing"}
Left == {"unbranching", "unlocking"}
Holding == {"adding"} \cup Lease!InUse \cup Leaving \cup Left
Places == {"idle", "waiting", "unlinking"} \cup Pruning \cup Holding

LeaseTypes ==
  /\ pc \in [Proc -> Places] /\ run \in [Proc -> Run]
  /\ leases \in 0..MaxLeases /\ tree \in [Proc -> 0..MaxLeases]
  /\ prune \in Proc \cup {NoProcess}
  /\ listed \subseteq 1..leases /\ branches \subseteq Run
  /\ runOf \in [1..MaxLeases -> Run] /\ guard \in [1..MaxLeases -> Proc \cup {NoProcess}]
  /\ files \in 0..MaxLockFiles /\ file \in [Run -> 0..MaxLockFiles]
  /\ fd \in [Proc -> 0..MaxLockFiles]
  /\ owner \in [1..MaxLockFiles -> Proc \cup {NoProcess}]
  /\ records \subseteq Run /\ orphaned \in BOOLEAN

\* What a process relies on of what is its own.
Owned(p) ==
  /\ pc[p] \in Pruning => prune = p
  /\ pc[p] # "idle" => tree[p] \in 1..leases /\ runOf[tree[p]] = run[p]
  /\ pc[p] \in {"guarded", "publishing", "working"} => guard[tree[p]] = p
  /\ pc[p] \in Holding => fd[p] # 0 /\ owner[fd[p]] = p
  /\ pc[p] = "acquiring" => fd[p] # 0
  /\ fd[p] <= files

TreesApart ==
  \A p, q \in Proc :
    pc[p] # "idle" /\ pc[q] # "idle" /\ tree[p] = tree[q] => p = q
FilesMade == \A r \in Run : file[r] <= files
SameFile ==
  \A p \in Proc :
    ~orphaned /\ pc[p] \in Holding \cup {"acquiring"} => fd[p] = file[run[p]]
Branched == \A t \in listed : runOf[t] \in branches
OwnTree ==
  \A p \in Proc, t \in listed :
    ~orphaned /\ runOf[t] = run[p] =>
      /\ pc[p] \in Lease!InUse => t = tree[p]
      /\ pc[p] \in Leaving => t = tree[p] \/ prune = p
      /\ pc[p] \in Left => prune = p
BranchGone ==
  \A p \in Proc :
    ~orphaned /\ pc[p] = "unlocking" /\ run[p] \in branches =>
      \E t \in listed : runOf[t] = run[p]

LeaseInv ==
  /\ LeaseTypes /\ (\A p \in Proc : Owned(p)) /\ TreesApart
  /\ FilesMade /\ SameFile /\ Branched
  /\ Lease!NoLiveReap /\ Lease!OneLeasePerRun
  /\ OwnTree /\ BranchGone

\* The steps of a lease keep to their types.
LEMMA LeaseKeepsTypes ==
  ASSUME Lease!LeaseAssumption, LeaseTypes, NEW p \in Proc, Owned(p), Lease!Step(p)
  PROVE  LeaseTypes'
<1> USE DEF Lease!LeaseAssumption, Lease!NoFile, Lease!Tree, LeaseTypes, Lease!Go, Places,
           Pruning, Leaving, Left, Holding, Lease!InUse
<1>1. ASSUME NEW r \in Run, Lease!BeginLease(p, r)
      PROVE  LeaseTypes'
  <2>1. /\ pc' = [pc EXCEPT ![p] = "waiting"] /\ run' = [run EXCEPT ![p] = r]
        /\ leases < MaxLeases /\ leases' = leases + 1
        /\ tree' = [tree EXCEPT ![p] = leases'] /\ runOf' = [runOf EXCEPT ![leases'] = r]
        /\ UNCHANGED <<prune, listed, branches, guard, file, files, fd, owner, records,
                       orphaned>>
    BY <1>1 DEF Lease!BeginLease, Lease!git, Lease!acquire
  <2>2. leases' \in 0..MaxLeases /\ listed' \subseteq 1..leases'
    BY <2>1
  <2> QED
    BY <2>1, <2>2
<1>2. ASSUME NEW t \in todo, Lease!SkipLive(p, t) \/ Lease!RemoveLeftover(p, t)
      PROVE  LeaseTypes'
  BY <1>2 DEF Lease!SkipLive, Lease!RemoveLeftover, Lease!git, Lease!acquire
<1>3. CASE Lease!OpenAcquireLock(p)
  <2>1. /\ files' \in 0..MaxLockFiles /\ file' \in [Run -> 0..MaxLockFiles]
        /\ fd' \in [Proc -> 0..MaxLockFiles]
    <3>1. run[p] \in Run /\ file[run[p]] \in 0..MaxLockFiles
      OBVIOUS
    <3>2. CASE UNCHANGED <<file, files>>
      BY <1>3, <3>1, <3>2 DEF Lease!OpenAcquireLock
    <3>3. CASE /\ files < MaxLockFiles /\ files' = files + 1
               /\ file' = [file EXCEPT ![run[p]] = files']
      BY <1>3, <3>1, <3>3 DEF Lease!OpenAcquireLock
    <3> QED
      BY <1>3, <3>2, <3>3 DEF Lease!OpenAcquireLock
  <2> QED
    BY <1>3, <2>1 DEF Lease!OpenAcquireLock, Lease!git
<1>4. CASE Lease!AddWorktree(p)
  <2>1. tree[p] \in 1..leases
    BY <1>4 DEF Lease!AddWorktree, Owned
  <2> QED
    BY <1>4, <2>1 DEF Lease!AddWorktree, Lease!acquire
<1>5. CASE Lease!TakePruneLock(p)
  BY <1>5 DEF Lease!TakePruneLock, Lease!git, Lease!acquire
<1>6. CASE Lease!GiveUpWaiting(p)
  BY <1>6 DEF Lease!GiveUpWaiting, Lease!git, Lease!acquire
<1>7. CASE Lease!DeleteLeftoverBranch(p)
  BY <1>7 DEF Lease!DeleteLeftoverBranch, Lease!Without, Lease!acquire
<1>8. CASE Lease!FinishSweep(p)
  BY <1>8 DEF Lease!FinishSweep, Lease!git, Lease!acquire
<1>9. CASE Lease!TakeAcquireLock(p)
  BY <1>9 DEF Lease!TakeAcquireLock, Lease!git
<1>10. CASE Lease!RefuseHeldRun(p)
  BY <1>10 DEF Lease!RefuseHeldRun, Lease!git
<1>11. CASE Lease!AddFails(p)
  BY <1>11 DEF Lease!AddFails, Lease!git, Lease!acquire
<1>12. CASE Lease!GuardWorktree(p)
  BY <1>12 DEF Lease!GuardWorktree, Lease!git, Lease!acquire
<1>13. CASE Lease!ReleasePruneLock(p)
  BY <1>13 DEF Lease!ReleasePruneLock, Lease!git, Lease!acquire
<1>14. CASE Lease!PublishRecord(p)
  BY <1>14 DEF Lease!PublishRecord, Lease!git, Lease!acquire
<1>15. CASE Lease!EndRun(p)
  BY <1>15 DEF Lease!EndRun, Lease!git, Lease!acquire
<1>16. CASE Lease!RemoveRecord(p)
  BY <1>16 DEF Lease!RemoveRecord, Lease!git, Lease!acquire
<1>17. CASE Lease!UnguardWorktree(p)
  BY <1>17 DEF Lease!UnguardWorktree, Lease!git, Lease!acquire
<1>18. CASE Lease!RemoveWorktree(p)
  BY <1>18 DEF Lease!RemoveWorktree, Lease!acquire
<1>19. CASE Lease!DeleteBranch(p)
  BY <1>19 DEF Lease!DeleteBranch, Lease!Without, Lease!acquire
<1>20. CASE Lease!UnlockAcquire(p)
  <2>1. owner' \in [1..MaxLockFiles -> Proc \cup {NoProcess}]
    BY <1>20 DEF Lease!UnlockAcquire
  <2>2. fd' \in [Proc -> 0..MaxLockFiles]
    BY <1>20 DEF Lease!UnlockAcquire
  <2> QED
    BY <1>20, <2>1, <2>2 DEF Lease!UnlockAcquire, Lease!git
<1>21. CASE Lease!EndLease(p)
  BY <1>21 DEF Lease!EndLease, Lease!git
<1>22. CASE Lease!Crash(p)
  <2>1. guard' \in [1..MaxLeases -> Proc \cup {NoProcess}]
    BY <1>22 DEF Lease!Crash
  <2>2. owner' \in [1..MaxLockFiles -> Proc \cup {NoProcess}]
    BY <1>22 DEF Lease!Crash
  <2>3. fd' \in [Proc -> 0..MaxLockFiles] /\ pc' \in [Proc -> Places]
    BY <1>22 DEF Lease!Crash
  <2>4. prune' \in Proc \cup {NoProcess}
    BY <1>22 DEF Lease!Crash
  <2> QED
    BY <1>22, <2>1, <2>2, <2>3, <2>4 DEF Lease!Crash, Lease!git
<1> QED
  BY <1>1, <1>2, <1>3, <1>4, <1>5, <1>6, <1>7, <1>8, <1>9, <1>10, <1>11, <1>12, <1>13,
       <1>14, <1>15, <1>16, <1>17, <1>18, <1>19, <1>20, <1>21, <1>22 DEF Lease!Step

\* What a step of one leaves to another.
LEMMA OthersLeft ==
  ASSUME Lease!LeaseAssumption, LeaseTypes, NEW p \in Proc, NEW q \in Proc, p # q,
         Owned(p), Owned(q), TreesApart, Lease!Step(p)
  PROVE  /\ pc'[q] = pc[q] /\ run'[q] = run[q] /\ tree'[q] = tree[q] /\ fd'[q] = fd[q]
         /\ Owned(q)'
<1> USE DEF LeaseTypes, Owned, Places, Pruning, Leaving, Left, Holding, Lease!InUse,
            Lease!LeaseAssumption, Lease!Tree, Lease!NoFile, Lease!Go
<1> DEFINE Goal == /\ pc'[q] = pc[q] /\ run'[q] = run[q] /\ tree'[q] = tree[q]
                   /\ fd'[q] = fd[q] /\ Owned(q)'
<1>1. ASSUME NEW r \in Run, Lease!BeginLease(p, r)
      PROVE  Goal
  BY SMTT(30), <1>1 DEF Lease!BeginLease, Lease!git, Lease!acquire
<1>2. ASSUME NEW t \in todo, Lease!SkipLive(p, t) \/ Lease!RemoveLeftover(p, t)
      PROVE  Goal
  BY <1>2 DEF Lease!SkipLive, Lease!RemoveLeftover, Lease!git, Lease!acquire
<1>3. CASE Lease!TakePruneLock(p)
  BY <1>3 DEF Lease!TakePruneLock, Lease!git, Lease!acquire
<1>4. CASE Lease!GiveUpWaiting(p)
  BY <1>4 DEF Lease!GiveUpWaiting, Lease!git, Lease!acquire
<1>5. CASE Lease!DeleteLeftoverBranch(p)
  BY <1>5 DEF Lease!DeleteLeftoverBranch, Lease!acquire
<1>6. CASE Lease!FinishSweep(p)
  BY <1>6 DEF Lease!FinishSweep, Lease!git, Lease!acquire
<1>7. CASE Lease!OpenAcquireLock(p)
  BY <1>7 DEF Lease!OpenAcquireLock, Lease!git
<1>8. CASE Lease!TakeAcquireLock(p)
  BY <1>8 DEF Lease!TakeAcquireLock, Lease!git
<1>9. CASE Lease!RefuseHeldRun(p)
  BY <1>9 DEF Lease!RefuseHeldRun, Lease!git
<1>10. CASE Lease!AddWorktree(p)
  BY <1>10 DEF Lease!AddWorktree, Lease!acquire
<1>11. CASE Lease!AddFails(p)
  BY <1>11 DEF Lease!AddFails, Lease!git, Lease!acquire
<1>12. CASE Lease!GuardWorktree(p)
  <2>1. pc[q] # "idle" => tree[q] # tree[p]
    BY <1>12 DEF Lease!GuardWorktree, TreesApart
  <2> QED
    BY <1>12, <2>1 DEF Lease!GuardWorktree, Lease!git, Lease!acquire
<1>13. CASE Lease!ReleasePruneLock(p)
  BY <1>13 DEF Lease!ReleasePruneLock, Lease!git, Lease!acquire
<1>14. CASE Lease!PublishRecord(p)
  BY <1>14 DEF Lease!PublishRecord, Lease!git, Lease!acquire
<1>15. CASE Lease!EndRun(p)
  BY <1>15 DEF Lease!EndRun, Lease!git, Lease!acquire
<1>16. CASE Lease!RemoveRecord(p)
  BY <1>16 DEF Lease!RemoveRecord, Lease!git, Lease!acquire
<1>17. CASE Lease!UnguardWorktree(p)
  <2>1. pc[q] # "idle" => tree[q] # tree[p]
    BY <1>17 DEF Lease!UnguardWorktree, TreesApart
  <2> QED
    BY <1>17, <2>1 DEF Lease!UnguardWorktree, Lease!git, Lease!acquire
<1>18. CASE Lease!RemoveWorktree(p)
  BY <1>18 DEF Lease!RemoveWorktree, Lease!acquire
<1>19. CASE Lease!DeleteBranch(p)
  BY <1>19 DEF Lease!DeleteBranch, Lease!acquire
<1>20. CASE Lease!UnlockAcquire(p)
  BY <1>20 DEF Lease!UnlockAcquire, Lease!git
<1>21. CASE Lease!EndLease(p)
  BY <1>21 DEF Lease!EndLease, Lease!git
<1>22. CASE Lease!Crash(p)
  <2>1. /\ pc'[q] = pc[q] /\ fd'[q] = fd[q] /\ run' = run /\ tree' = tree
        /\ UNCHANGED <<listed, branches, runOf, file, files, records>>
    BY <1>22 DEF Lease!Crash, Lease!git
  <2>2. \A t \in 1..MaxLeases : guard[t] = q => guard'[t] = q
    BY <1>22 DEF Lease!Crash
  <2>3. \A f \in 1..MaxLockFiles : owner[f] = q => owner'[f] = q
    BY <1>22 DEF Lease!Crash
  <2>4. prune = q => prune' = q
    BY <1>22 DEF Lease!Crash
  <2>5. UNCHANGED <<leases, todo, victim, live>>
    BY <1>22 DEF Lease!Crash, Lease!sweep
  <2>6. Owned(q)'
    <3>1. tree[q] \in 0..MaxLeases /\ fd[q] \in 0..MaxLockFiles /\ leases <= MaxLeases
      OBVIOUS
    <3>2. pc[q] # "idle" => tree[q] \in 1..MaxLeases
      BY <3>1
    <3>3. fd[q] # 0 => fd[q] \in 1..MaxLockFiles
      BY <3>1
    <3> HIDE DEF LeaseTypes
    <3> QED
      BY <2>1, <2>2, <2>3, <2>4, <2>5, <3>2, <3>3
  <2> QED
    BY <2>1, <2>6
<1> HIDE DEF LeaseTypes, Owned, Places, Pruning, Leaving, Left, Holding, Lease!InUse,
             Lease!LeaseAssumption, Lease!Tree, Lease!NoFile, Lease!Go
<1> QED
  BY <1>1, <1>2, <1>3, <1>4, <1>5, <1>6, <1>7, <1>8, <1>9, <1>10, <1>11, <1>12, <1>13,
       <1>14, <1>15, <1>16, <1>17, <1>18, <1>19, <1>20, <1>21, <1>22 DEF Lease!Step

\* What a step of a process leaves to itself.
LEMMA OwnKept ==
  ASSUME Lease!LeaseAssumption, LeaseTypes, NEW p \in Proc, Owned(p), FilesMade, Lease!Step(p)
  PROVE  Owned(p)'
<1> USE DEF LeaseTypes, Owned, Places, Pruning, Leaving, Left, Holding, Lease!InUse,
            Lease!LeaseAssumption, Lease!Tree, Lease!NoFile, Lease!Go
<1>1. ASSUME NEW r \in Run, Lease!BeginLease(p, r)
      PROVE  Owned(p)'
  BY <1>1 DEF Lease!BeginLease, Lease!git, Lease!acquire
<1>2. ASSUME NEW t \in todo, Lease!SkipLive(p, t) \/ Lease!RemoveLeftover(p, t)
      PROVE  Owned(p)'
  BY <1>2 DEF Lease!SkipLive, Lease!RemoveLeftover, Lease!git, Lease!acquire
<1>3. CASE Lease!TakePruneLock(p)
  BY <1>3 DEF Lease!TakePruneLock, Lease!git, Lease!acquire
<1>4. CASE Lease!GiveUpWaiting(p)
  BY <1>4 DEF Lease!GiveUpWaiting, Lease!git, Lease!acquire
<1>5. CASE Lease!DeleteLeftoverBranch(p)
  BY <1>5 DEF Lease!DeleteLeftoverBranch, Lease!acquire
<1>6. CASE Lease!FinishSweep(p)
  BY <1>6 DEF Lease!FinishSweep, Lease!git, Lease!acquire
<1>7. CASE Lease!OpenAcquireLock(p)
  <2>1. fd'[p] # 0 /\ fd'[p] <= files'
    <3>1. run[p] \in Run /\ file[run[p]] <= files
      BY DEF FilesMade
    <3>2. CASE file[run[p]] # 0 /\ UNCHANGED <<file, files>>
      BY <1>7, <3>1, <3>2 DEF Lease!OpenAcquireLock
    <3>3. CASE /\ files' = files + 1
               /\ file' = [file EXCEPT ![run[p]] = files']
      BY <1>7, <3>1, <3>3 DEF Lease!OpenAcquireLock
    <3> QED
      BY <1>7, <3>2, <3>3 DEF Lease!OpenAcquireLock
  <2> QED
    BY <1>7, <2>1 DEF Lease!OpenAcquireLock, Lease!git
<1>8. CASE Lease!TakeAcquireLock(p)
  BY <1>8 DEF Lease!TakeAcquireLock, Lease!git
<1>9. CASE Lease!RefuseHeldRun(p)
  BY <1>9 DEF Lease!RefuseHeldRun, Lease!git
<1>10. CASE Lease!AddWorktree(p)
  BY <1>10 DEF Lease!AddWorktree, Lease!acquire
<1>11. CASE Lease!AddFails(p)
  BY <1>11 DEF Lease!AddFails, Lease!git, Lease!acquire
<1>12. CASE Lease!GuardWorktree(p)
  BY <1>12 DEF Lease!GuardWorktree, Lease!git, Lease!acquire
<1>13. CASE Lease!ReleasePruneLock(p)
  BY <1>13 DEF Lease!ReleasePruneLock, Lease!git, Lease!acquire
<1>14. CASE Lease!PublishRecord(p)
  BY <1>14 DEF Lease!PublishRecord, Lease!git, Lease!acquire
<1>15. CASE Lease!EndRun(p)
  BY <1>15 DEF Lease!EndRun, Lease!git, Lease!acquire
<1>16. CASE Lease!RemoveRecord(p)
  BY <1>16 DEF Lease!RemoveRecord, Lease!git, Lease!acquire
<1>17. CASE Lease!UnguardWorktree(p)
  BY <1>17 DEF Lease!UnguardWorktree, Lease!git, Lease!acquire
<1>18. CASE Lease!RemoveWorktree(p)
  BY <1>18 DEF Lease!RemoveWorktree, Lease!acquire
<1>19. CASE Lease!DeleteBranch(p)
  BY <1>19 DEF Lease!DeleteBranch, Lease!acquire
<1>20. CASE Lease!UnlockAcquire(p)
  BY <1>20 DEF Lease!UnlockAcquire, Lease!git
<1>21. CASE Lease!EndLease(p)
  BY <1>21 DEF Lease!EndLease, Lease!git
<1>22. CASE Lease!Crash(p)
  BY <1>22 DEF Lease!Crash, Lease!git
<1> QED
  BY <1>1, <1>2, <1>3, <1>4, <1>5, <1>6, <1>7, <1>8, <1>9, <1>10, <1>11, <1>12, <1>13,
       <1>14, <1>15, <1>16, <1>17, <1>18, <1>19, <1>20, <1>21, <1>22 DEF Lease!Step

\* Which steps change what.
LEMMA LeaseFrame ==
  ASSUME NEW p \in Proc, Lease!Step(p)
  PROVE  /\ \/ \E r \in Run : Lease!BeginLease(p, r)
            \/ pc[p] # "idle" /\ UNCHANGED <<run, tree, leases, runOf>>
         /\ \/ Lease!OpenAcquireLock(p) \/ Lease!EndLease(p)
            \/ UNCHANGED <<file, files>>
         /\ \/ Lease!OpenAcquireLock(p) \/ Lease!RefuseHeldRun(p)
            \/ Lease!UnlockAcquire(p) \/ Lease!Crash(p) \/ UNCHANGED fd
         /\ Lease!EndLease(p) \/ UNCHANGED orphaned
         /\ \/ Lease!TakePruneLock(p) \/ Lease!RefuseHeldRun(p) \/ Lease!Crash(p)
            \/ Lease!ReleasePruneLock(p) \/ Lease!EndLease(p) \/ UNCHANGED prune
         /\ \/ \E t \in todo : Lease!RemoveLeftover(p, t)
            \/ Lease!AddWorktree(p) \/ Lease!RemoveWorktree(p)
            \/ UNCHANGED listed
         /\ \/ Lease!DeleteLeftoverBranch(p) \/ Lease!AddWorktree(p) \/ Lease!DeleteBranch(p)
            \/ UNCHANGED branches
         /\ \/ Lease!FinishSweep(p) \/ Lease!PublishRecord(p) \/ Lease!RemoveRecord(p)
            \/ UNCHANGED records
<1> USE DEF Lease!git, Lease!acquire
<1>1. CASE \/ \E r \in Run : Lease!BeginLease(p, r)
           \/ \E t \in todo : Lease!SkipLive(p, t) \/ Lease!RemoveLeftover(p, t)
  BY <1>1 DEF Lease!SkipLive, Lease!RemoveLeftover, Lease!BeginLease
<1>2. CASE Lease!TakePruneLock(p) \/ Lease!GiveUpWaiting(p)
           \/ Lease!DeleteLeftoverBranch(p) \/ Lease!FinishSweep(p)
  BY <1>2 DEF Lease!TakePruneLock, Lease!GiveUpWaiting, Lease!DeleteLeftoverBranch,
       Lease!FinishSweep
<1>3. CASE Lease!OpenAcquireLock(p) \/ Lease!TakeAcquireLock(p)
           \/ Lease!RefuseHeldRun(p)
  BY <1>3 DEF Lease!OpenAcquireLock, Lease!TakeAcquireLock, Lease!RefuseHeldRun
<1>4. CASE Lease!GuardWorktree(p) \/ Lease!ReleasePruneLock(p)
           \/ Lease!PublishRecord(p) \/ Lease!EndRun(p)
  BY <1>4 DEF Lease!GuardWorktree, Lease!ReleasePruneLock, Lease!PublishRecord,
       Lease!EndRun, Lease!InUse
<1>5. CASE Lease!RemoveRecord(p) \/ Lease!UnguardWorktree(p)
           \/ Lease!RemoveWorktree(p) \/ Lease!DeleteBranch(p)
  BY <1>5 DEF Lease!RemoveRecord, Lease!UnguardWorktree, Lease!RemoveWorktree,
       Lease!DeleteBranch
<1>6. CASE Lease!UnlockAcquire(p) \/ Lease!EndLease(p) \/ Lease!Crash(p)
  BY <1>6 DEF Lease!UnlockAcquire, Lease!EndLease, Lease!Crash
<1>7. CASE Lease!AddWorktree(p) \/ Lease!AddFails(p)
  BY <1>7 DEF Lease!AddWorktree, Lease!AddFails
<1> QED
  BY <1>1, <1>2, <1>3, <1>4, <1>5, <1>6, <1>7 DEF Lease!Step

\* Which steps lead where.
LEMMA LeaseMoves ==
  ASSUME LeaseTypes, NEW p \in Proc, Lease!Step(p)
  PROVE  /\ pc'[p] \in Holding => pc[p] \in Holding \/ Lease!TakeAcquireLock(p)
         /\ pc'[p] \in Lease!InUse => pc[p] \in Lease!InUse \/ Lease!AddWorktree(p)
         /\ pc'[p] \in Leaving =>
              pc[p] \in Leaving \/ Lease!AddFails(p) \/ Lease!EndRun(p)
         /\ pc'[p] \in Left => Lease!RemoveWorktree(p) \/ Lease!DeleteBranch(p)
         /\ pc'[p] = "acquiring" => Lease!OpenAcquireLock(p)
<1> USE DEF LeaseTypes, Places, Pruning, Leaving, Left, Holding, Lease!InUse, Lease!Go
<1>1. CASE \/ \E r \in Run : Lease!BeginLease(p, r)
           \/ \E t \in todo : Lease!SkipLive(p, t) \/ Lease!RemoveLeftover(p, t)
  BY <1>1 DEF Lease!SkipLive, Lease!RemoveLeftover, Lease!BeginLease
<1>2. CASE Lease!TakePruneLock(p) \/ Lease!GiveUpWaiting(p)
           \/ Lease!DeleteLeftoverBranch(p) \/ Lease!FinishSweep(p)
  BY <1>2 DEF Lease!TakePruneLock, Lease!GiveUpWaiting, Lease!DeleteLeftoverBranch,
       Lease!FinishSweep
<1>3. CASE Lease!OpenAcquireLock(p) \/ Lease!TakeAcquireLock(p)
           \/ Lease!RefuseHeldRun(p) \/ Lease!AddWorktree(p) \/ Lease!AddFails(p)
  BY <1>3 DEF Lease!OpenAcquireLock, Lease!TakeAcquireLock, Lease!RefuseHeldRun,
       Lease!AddWorktree, Lease!AddFails
<1>4. CASE Lease!GuardWorktree(p) \/ Lease!ReleasePruneLock(p)
           \/ Lease!PublishRecord(p) \/ Lease!EndRun(p)
  BY <1>4 DEF Lease!GuardWorktree, Lease!ReleasePruneLock, Lease!PublishRecord,
       Lease!EndRun
<1>5. CASE Lease!RemoveRecord(p) \/ Lease!UnguardWorktree(p)
           \/ Lease!RemoveWorktree(p) \/ Lease!DeleteBranch(p)
  BY <1>5 DEF Lease!RemoveRecord, Lease!UnguardWorktree, Lease!RemoveWorktree,
       Lease!DeleteBranch
<1>6. CASE Lease!UnlockAcquire(p) \/ Lease!EndLease(p) \/ Lease!Crash(p)
  BY <1>6 DEF Lease!UnlockAcquire, Lease!EndLease, Lease!Crash
<1> QED
  BY <1>1, <1>2, <1>3, <1>4, <1>5, <1>6 DEF Lease!Step

\* A worktree that is listed stays its mode_run's: numbers are not used again.
LEMMA RunsKept ==
  ASSUME Lease!LeaseAssumption, LeaseTypes, NEW p \in Proc, Lease!Step(p)
  PROVE  \A t \in listed : runOf'[t] = runOf[t]
BY LeaseFrame DEF Lease!BeginLease, Lease!LeaseAssumption, LeaseTypes

\* Each lease has a worktree of its own.
LEMMA TreesStayApart ==
  ASSUME Lease!LeaseAssumption, LeaseInv, NEW p \in Proc, Lease!Step(p)
  PROVE  TreesApart'
<1>1. ASSUME NEW q \in Proc, p # q, pc'[p] # "idle", pc'[q] # "idle"
      PROVE  tree'[p] # tree'[q]
  <2>1. pc[q] # "idle" /\ tree'[q] = tree[q] /\ tree[q] \in 1..leases
    BY <1>1, OthersLeft DEF LeaseInv, Owned
  <2>2. CASE \E r \in Run : Lease!BeginLease(p, r)
    BY <2>1, <2>2 DEF Lease!BeginLease, LeaseInv, LeaseTypes
  <2>3. CASE pc[p] # "idle" /\ UNCHANGED tree
    BY <1>1, <2>1, <2>3 DEF LeaseInv, TreesApart
  <2> QED
    BY <2>2, <2>3, LeaseFrame
<1>2. ASSUME NEW q \in Proc, NEW o \in Proc, p # q, p # o,
             pc'[q] # "idle", pc'[o] # "idle", tree'[q] = tree'[o]
      PROVE  q = o
  BY <1>2, OthersLeft DEF LeaseInv, TreesApart
<1> QED
  BY <1>1, <1>2 DEF TreesApart

\* Acquire-lock files are numbered as they are made.
LEMMA FilesStayMade ==
  ASSUME Lease!LeaseAssumption, LeaseInv, NEW p \in Proc, Lease!Step(p)
  PROVE  FilesMade'
<1> USE DEF LeaseInv, LeaseTypes, FilesMade
<1>1. CASE Lease!OpenAcquireLock(p)
  <2>1. CASE UNCHANGED <<file, files>>
    BY <2>1
  <2>2. CASE files' = files + 1 /\ file' = [file EXCEPT ![run[p]] = files']
    BY <2>2
  <2> QED
    BY <1>1, <2>1, <2>2 DEF Lease!OpenAcquireLock
<1>2. CASE Lease!EndLease(p)
  BY <1>2 DEF Lease!EndLease, Lease!NoFile
<1>3. CASE UNCHANGED <<file, files>>
  BY <1>3
<1> QED
  BY <1>1, <1>2, <1>3, LeaseFrame

\* Who holds the acquire lock of a mode_run is alone with it, as long as none was
\* removed under a process that had it open.
LEMMA HolderIsAlone ==
  ASSUME LeaseInv, NEW p \in Proc, NEW q \in Proc, ~orphaned,
         pc[p] \in Holding, pc[q] \in Holding, run[p] = run[q]
  PROVE  p = q
BY DEF LeaseInv, SameFile, Owned

\* The lock a process has open stays the one its mode_run refers to.
LEMMA SameFileKept ==
  ASSUME Lease!LeaseAssumption, LeaseInv, NEW p \in Proc, Lease!Step(p)
  PROVE  SameFile'
<1> DEFINE Has(q) == pc[q] \in Holding \cup {"acquiring"}
<1>1. orphaned => orphaned'
  BY LeaseFrame DEF Lease!EndLease, LeaseInv, LeaseTypes
<1>2. ASSUME NEW q \in Proc, p # q, ~orphaned', Has(q)'
      PROVE  fd'[q] = file'[run'[q]]
  <2>1. /\ Has(q) /\ fd'[q] = fd[q] /\ run'[q] = run[q]
        /\ fd[q] = file[run[q]] /\ fd[q] # 0
    BY <1>1, <1>2, OthersLeft DEF LeaseInv, SameFile, Owned
  <2>2. CASE Lease!OpenAcquireLock(p)
    BY <2>1, <2>2 DEF Lease!OpenAcquireLock, Lease!NoFile, LeaseInv, LeaseTypes
  <2>3. CASE Lease!EndLease(p)
    <3>1. CASE run[q] = run[p] /\ Lease!AcquireFree(run[p])
      BY <1>2, <2>1, <2>3, <3>1 DEF Lease!EndLease, Lease!NoFile
    <3>2. CASE run[q] # run[p] \/ ~Lease!AcquireFree(run[p])
      BY <2>1, <2>3, <3>2 DEF Lease!EndLease, LeaseInv, LeaseTypes
    <3> QED
      BY <3>1, <3>2
  <2>4. CASE UNCHANGED <<file, files>>
    BY <2>1, <2>4
  <2> QED
    BY <2>2, <2>3, <2>4, LeaseFrame
<1>3. ASSUME ~orphaned', Has(p)'
      PROVE  fd'[p] = file'[run'[p]]
  <2>1. CASE Lease!OpenAcquireLock(p)
    BY <2>1 DEF Lease!OpenAcquireLock, LeaseInv, LeaseTypes
  <2>2. CASE ~Lease!OpenAcquireLock(p)
    <3>1. Has(p)
      BY <1>3, <2>2, LeaseMoves DEF Lease!TakeAcquireLock, LeaseInv
    <3>2. /\ UNCHANGED <<run, file, fd>>
      BY <1>3, <2>2, LeaseFrame DEF Lease!BeginLease, Lease!EndLease, Lease!RefuseHeldRun,
           Lease!UnlockAcquire, Lease!Crash, Lease!Go, Holding, Lease!InUse, Leaving, Left,
           LeaseInv, LeaseTypes
    <3> QED
      BY <1>1, <1>3, <3>1, <3>2 DEF LeaseInv, SameFile
  <2> QED
    BY <2>1, <2>2
<1> QED
  BY <1>2, <1>3 DEF SameFile

\* A worktree that is listed has its branch: git creates them together, and does
\* not delete the branch of a worktree.
LEMMA StaysBranched ==
  ASSUME Lease!LeaseAssumption, LeaseInv, NEW p \in Proc, Lease!Step(p)
  PROVE  Branched'
<1> USE DEF LeaseInv, LeaseTypes, Branched
<1>1. \A t \in listed : runOf'[t] = runOf[t]
  BY RunsKept
<1>2. CASE Lease!AddWorktree(p)
  BY <1>1, <1>2 DEF Lease!AddWorktree, Owned
<1>3. ASSUME listed' \subseteq listed, NEW r,
             branches' = Lease!Without(r) \/ UNCHANGED branches
      PROVE  Branched'
  BY <1>1, <1>3 DEF Lease!Without
<1>4. listed' \subseteq listed \/ Lease!AddWorktree(p)
  BY LeaseFrame DEF Lease!RemoveLeftover, Lease!RemoveWorktree
<1>5. \/ \E r : branches' = Lease!Without(r)
      \/ Lease!AddWorktree(p) \/ UNCHANGED branches
  BY LeaseFrame DEF Lease!DeleteLeftoverBranch, Lease!DeleteBranch
<1> QED
  BY <1>2, <1>3, <1>4, <1>5

\* A sweep takes no worktree that is in use: one that is guarded it skips, and one
\* that is not guarded yet is its own, for it has the prune lock.
LEMMA NoLiveReapKept ==
  ASSUME Lease!LeaseAssumption, LeaseInv, NEW p \in Proc, Lease!Step(p)
  PROVE  Lease!NoLiveReap'
<1> SUFFICES ASSUME NEW q \in Proc, pc'[q] \in Lease!InUse
             PROVE  tree'[q] \in listed' /\ run'[q] \in branches'
  BY DEF Lease!NoLiveReap, Lease!InUse
<1>1. Owned(q)'
  BY OthersLeft, OwnKept DEF LeaseInv
<1>2. tree'[q] \in listed'
  <2>1. CASE p = q /\ Lease!AddWorktree(p)
    BY <2>1 DEF Lease!AddWorktree, LeaseInv, LeaseTypes
  <2>2. CASE ~(p = q /\ Lease!AddWorktree(p))
    <3>1. pc[q] \in Lease!InUse /\ tree'[q] = tree[q]
      BY <2>2, OthersLeft, LeaseMoves, LeaseFrame DEF Lease!BeginLease, Lease!Go,
         Lease!InUse, LeaseInv, LeaseTypes
    <3>2. tree[q] \in listed
      BY <3>1 DEF LeaseInv, Lease!NoLiveReap
    <3>3. ASSUME NEW t \in todo, Lease!RemoveLeftover(p, t)
          PROVE  t # tree[q]
      <4>1. p # q /\ prune = p
        BY <3>1, <3>3 DEF Lease!RemoveLeftover, Lease!InUse, LeaseInv, Owned, Pruning
      <4>2. pc[q] # "added"
        BY <4>1 DEF LeaseInv, Owned, Pruning
      <4>3. guard[tree[q]] = q
        BY <3>1, <4>2 DEF LeaseInv, Owned, Lease!InUse
      <4> QED
        BY <3>3, <4>3 DEF Lease!RemoveLeftover, Lease!LeaseAssumption
    <3>4. CASE Lease!RemoveWorktree(p)
      <4>1. tree[p] # tree[q]
        BY <3>1, <3>4 DEF Lease!RemoveWorktree, Lease!InUse, LeaseInv, TreesApart
      <4> QED
        BY <3>1, <3>2, <3>4, <4>1 DEF Lease!RemoveWorktree
    <3>5. CASE Lease!AddWorktree(p)
      BY <3>1, <3>2, <3>5 DEF Lease!AddWorktree
    <3> QED
      BY <3>1, <3>2, <3>3, <3>4, <3>5, LeaseFrame DEF Lease!RemoveLeftover
  <2> QED
    BY <2>1, <2>2
<1>3. run'[q] \in branches'
  BY <1>1, <1>2, StaysBranched DEF Branched, Owned, Lease!InUse
<1> QED
  BY <1>2, <1>3

\* The branch of a lease in use is there, and `worktree add` makes a new one.
LEMMA OneLeasePerRunKept ==
  ASSUME Lease!LeaseAssumption, LeaseInv, NEW p \in Proc, Lease!Step(p)
  PROVE  Lease!OneLeasePerRun'
<1> SUFFICES ASSUME NEW q \in Proc, NEW o \in Proc, pc'[q] \in Lease!InUse,
                    pc'[o] \in Lease!InUse, run'[q] = run'[o]
             PROVE  q = o
  BY DEF Lease!OneLeasePerRun, Lease!InUse
<1> DEFINE Was(x) == pc[x] \in Lease!InUse /\ run'[x] = run[x]
<1>1. ASSUME NEW x \in Proc, pc'[x] \in Lease!InUse
      PROVE  Was(x) \/ (x = p /\ Lease!AddWorktree(p))
  <2>1. CASE x = p
    BY <1>1, <2>1, LeaseMoves, LeaseFrame DEF Lease!BeginLease, Lease!Go, Lease!InUse,
       LeaseInv, LeaseTypes
  <2>2. CASE x # p
    BY <1>1, <2>2, OthersLeft DEF LeaseInv
  <2> QED
    BY <2>1, <2>2
<1>2. CASE Was(q) /\ Was(o)
  BY <1>2 DEF LeaseInv, Lease!OneLeasePerRun
<1>3. ASSUME NEW x \in Proc, Was(x), Lease!AddWorktree(p), run'[x] = run'[p]
      PROVE  FALSE
  BY <1>3 DEF LeaseInv, Lease!NoLiveReap, Lease!AddWorktree
<1> QED
  BY <1>1, <1>2, <1>3

\* The worktrees listed for the mode_run whose acquire lock one holds.
LEMMA OwnTreeKept ==
  ASSUME Lease!LeaseAssumption, LeaseInv, NEW p \in Proc, Lease!Step(p)
  PROVE  OwnTree'
<1> SUFFICES ASSUME NEW q \in Proc, NEW t \in listed', ~orphaned',
                    runOf'[t] = run'[q],
                    pc'[q] \in Lease!InUse \cup Leaving \cup Left
             PROVE  /\ pc'[q] \in Lease!InUse => t = tree'[q]
                    /\ pc'[q] \in Leaving => t = tree'[q] \/ prune' = q
                    /\ pc'[q] \in Left => prune' = q
  BY DEF OwnTree, Lease!InUse
<1> USE DEF LeaseInv
<1>1. ~orphaned
  BY LeaseFrame DEF Lease!EndLease, LeaseTypes
<1>2. \A x \in listed : runOf'[x] = runOf[x]
  BY RunsKept
<1>3. Owned(q)'
  BY OthersLeft, OwnKept
<1>4. CASE p # q
  <2>1. /\ pc'[q] = pc[q] /\ run'[q] = run[q] /\ tree'[q] = tree[q]
        /\ prune = q => prune' = q
    <3>1. prune = q => prune' = q
      BY <1>4, LeaseFrame DEF Lease!TakePruneLock, Lease!RefuseHeldRun, Lease!Crash,
         Lease!ReleasePruneLock, Lease!EndLease, Owned, Pruning, Lease!LeaseAssumption
    <3> QED
      BY <1>4, <3>1, OthersLeft
  <2>2. pc[q] \in Holding /\ (Lease!AddWorktree(p) => pc[p] \in Holding)
    BY <2>1 DEF Holding, Lease!AddWorktree
  <2>3. t \in listed
    <3>1. CASE Lease!AddWorktree(p) /\ t = tree[p]
      BY <1>1, <1>4, <2>1, <2>2, <3>1, HolderIsAlone DEF Lease!AddWorktree, Owned
    <3> QED
      BY <3>1, LeaseFrame DEF Lease!RemoveLeftover, Lease!AddWorktree, Lease!RemoveWorktree
  <2> QED
    BY <1>1, <1>2, <2>1, <2>3 DEF OwnTree
<1>5. CASE p = q /\ Lease!AddWorktree(p)
  <2>1. t \in listed => runOf[t] # run[p]
    BY <1>5 DEF Lease!AddWorktree, Branched
  <2> QED
    BY <1>2, <1>5, <2>1 DEF Lease!AddWorktree, Lease!Go, Lease!InUse, Leaving, Left, LeaseTypes
<1>6. CASE p = q /\ ~Lease!AddWorktree(p)
  <2>1. t \in listed /\ UNCHANGED <<tree, run>>
    BY <1>6, LeaseFrame DEF Lease!RemoveLeftover, Lease!RemoveWorktree, Lease!BeginLease,
       Lease!Go, Lease!InUse, Leaving, Left, LeaseTypes
  <2>2. CASE pc'[p] \in Lease!InUse
    <3>1. pc[p] \in Lease!InUse
      BY <1>6, <2>2, LeaseMoves
    <3> QED
      BY <1>1, <1>2, <1>6, <2>1, <2>2, <3>1 DEF OwnTree, Lease!InUse, Leaving, Left
  <2>3. CASE pc'[p] \in Leaving
    <3>1. CASE Lease!AddFails(p)
      BY <1>6, <2>3, <3>1 DEF Lease!AddFails, Owned, Pruning, Leaving, Left, Lease!InUse
    <3>2. CASE pc[p] \in Leaving /\ prune' = prune
      BY <1>1, <1>2, <1>6, <2>1, <2>3, <3>2 DEF OwnTree, Leaving, Left, Lease!InUse
    <3>3. CASE Lease!EndRun(p)
      BY <1>1, <1>2, <1>6, <2>1, <2>3, <3>3 DEF OwnTree, Lease!EndRun, Leaving, Left,
         Lease!InUse
    <3>4. pc[p] \in Leaving => prune' = prune
      BY <2>3, LeaseFrame DEF Lease!TakePruneLock, Lease!RefuseHeldRun, Lease!Crash,
         Lease!ReleasePruneLock, Lease!EndLease, Leaving, Lease!Go, LeaseTypes
    <3> QED
      BY <2>3, <3>1, <3>2, <3>3, <3>4, LeaseMoves
  <2>4. CASE pc'[p] \in Left
    <3>1. CASE Lease!RemoveWorktree(p)
      <4>1. t # tree[p] /\ pc[p] \in Leaving /\ prune' = prune
        BY <3>1 DEF Lease!RemoveWorktree, Leaving
      <4> QED
        BY <1>1, <1>2, <1>6, <2>1, <2>4, <4>1 DEF OwnTree, Leaving, Left, Lease!InUse
    <3>2. CASE Lease!DeleteBranch(p)
      <4>1. pc[p] \in Left /\ prune' = prune
        BY <3>2 DEF Lease!DeleteBranch, Left
      <4> QED
        BY <1>1, <1>2, <1>6, <2>1, <2>4, <4>1 DEF OwnTree, Leaving, Left, Lease!InUse
    <3> QED
      BY <2>4, <3>1, <3>2, LeaseMoves
  <2> QED
    BY <1>6, <2>2, <2>3, <2>4
<1> QED
  BY <1>4, <1>5, <1>6

\* A branch that is still there when its lease is over belongs to a leftover.
LEMMA BranchGoneKept ==
  ASSUME Lease!LeaseAssumption, LeaseInv, NEW p \in Proc, Lease!Step(p)
  PROVE  BranchGone'
<1> SUFFICES ASSUME NEW q \in Proc, ~orphaned', pc'[q] = "unlocking", run'[q] \in branches'
             PROVE  \E t \in listed' : runOf'[t] = run'[q]
  BY DEF BranchGone
<1> USE DEF LeaseInv
<1>1. ~orphaned
  BY LeaseFrame DEF Lease!EndLease, LeaseTypes
<1>2. \A x \in listed : runOf'[x] = runOf[x]
  BY RunsKept
<1>3. CASE p = q
  <2>1. Lease!DeleteBranch(p)
    BY <1>3, LeaseMoves DEF Left, Lease!RemoveWorktree, Lease!Go, LeaseTypes
  <2> QED
    BY <1>2, <1>3, <2>1 DEF Lease!DeleteBranch, Lease!Without
<1>4. CASE p # q
  <2>1. pc[q] = "unlocking" /\ run'[q] = run[q] /\ pc[q] \in Holding /\ pc[q] \in Left
    BY <1>4, OthersLeft DEF Holding, Left
  <2>2. ASSUME pc[p] \in Holding
        PROVE  run[p] # run[q]
    BY <1>1, <1>4, <2>1, <2>2, HolderIsAlone
  <2>3. run[q] \in branches
    <3>1. CASE Lease!AddWorktree(p)
      BY <2>1, <2>2, <3>1 DEF Lease!AddWorktree, Holding
    <3> QED
      BY <2>1, <3>1, LeaseFrame DEF Lease!DeleteLeftoverBranch, Lease!DeleteBranch,
           Lease!Without
  <2>4. PICK t \in listed : runOf[t] = run[q]
    BY <1>1, <2>1, <2>3 DEF BranchGone
  <2>5. t \in listed'
    <3>1. ASSUME NEW x \in todo, Lease!RemoveLeftover(p, x)
          PROVE  t # x
      <4>1. prune = p /\ prune = q
        BY <1>1, <2>1, <2>4, <3>1 DEF Lease!RemoveLeftover, Owned, Pruning, OwnTree
      <4> QED
        BY <1>4, <4>1
    <3>2. CASE Lease!RemoveWorktree(p)
      <4>1. runOf[tree[p]] = run[p] /\ run[p] # run[q]
        BY <2>2, <3>2 DEF Lease!RemoveWorktree, Owned, Holding, Leaving
      <4> QED
        BY <2>4, <3>2, <4>1 DEF Lease!RemoveWorktree
    <3> QED
      BY <2>4, <3>1, <3>2, LeaseFrame DEF Lease!RemoveLeftover, Lease!AddWorktree
  <2> QED
    BY <1>2, <2>1, <2>4, <2>5
<1> QED
  BY <1>3, <1>4

\* The record of a lease that goes on stays: a sweep leaves the records of a
\* mode_run whose acquire lock is held, and a teardown holds that lock itself.
LEMMA RecordStays ==
  ASSUME Lease!LeaseAssumption, LeaseInv, NEW p \in Proc, Lease!Step(p)
  PROVE  Lease!RecordKept
<1> SUFFICES ASSUME NEW q \in Proc, pc[q] = "working", pc'[q] = "working",
                    run[q] \in records, ~orphaned
             PROVE  run[q] \in records'
  BY DEF Lease!RecordKept
<1> USE DEF LeaseInv
<1>1. pc[q] \in Holding
  BY DEF Holding, Lease!InUse
<1>2. CASE Lease!FinishSweep(p)
  <2>1. fd[q] # 0 /\ owner[fd[q]] = q /\ fd[q] = file[run[q]]
    BY <1>1 DEF Owned, SameFile
  <2>2. ~Lease!AcquireFree(run[q])
    BY <2>1 DEF Lease!AcquireFree, Lease!NoFile, Lease!LeaseAssumption
  <2> QED
    BY <1>2, <2>2 DEF Lease!FinishSweep
<1>3. CASE Lease!PublishRecord(p)
  BY <1>3 DEF Lease!PublishRecord
<1>4. CASE Lease!RemoveRecord(p)
  <2>1. p # q /\ pc[p] \in Holding
    BY <1>4 DEF Lease!RemoveRecord, Holding, Leaving
  <2>2. run[p] # run[q]
    BY <1>1, <2>1, HolderIsAlone
  <2> QED
    BY <1>4, <2>2 DEF Lease!RemoveRecord
<1> QED
  BY <1>2, <1>3, <1>4, LeaseFrame

\* At the start nothing is leased, listed or locked.
LEMMA LeaseInit == Lease!LeaseAssumption /\ Lease!Init => LeaseInv
<1> SUFFICES ASSUME Lease!LeaseAssumption, Lease!Init PROVE LeaseInv
  OBVIOUS
<1>1. LeaseTypes
  <2>1. runOf \in [1..MaxLeases -> Run]
    BY DEF Lease!Init, Lease!Tree
  <2>2. /\ tree \in [Proc -> 0..MaxLeases] /\ fd \in [Proc -> 0..MaxLockFiles]
        /\ leases \in 0..MaxLeases /\ files \in 0..MaxLockFiles
        /\ file \in [Run -> 0..MaxLockFiles]
    BY DEF Lease!Init, Lease!LeaseAssumption, Lease!NoFile
  <2>3. /\ guard \in [1..MaxLeases -> Proc \cup {NoProcess}]
        /\ owner \in [1..MaxLockFiles -> Proc \cup {NoProcess}]
    BY DEF Lease!Init, Lease!Tree
  <2> QED
    BY <2>1, <2>2, <2>3 DEF Lease!Init, LeaseTypes, Places
<1>2. \A p \in Proc : Owned(p)
  BY DEF Lease!Init, Lease!NoFile, Owned, Pruning, Holding, Lease!InUse, Leaving, Left
<1> QED
  BY <1>1, <1>2 DEF Lease!Init, Lease!NoFile, LeaseInv, TreesApart, FilesMade, SameFile,
     Branched, Lease!NoLiveReap, Lease!OneLeasePerRun, OwnTree, BranchGone, Holding,
     Lease!InUse, Leaving, Left

\* A step of a lease, a sweep, a teardown or a kill keeps all of it.
LEMMA LeaseStep ==
  ASSUME Lease!LeaseAssumption, LeaseInv, NEW p \in Proc, Lease!Step(p)
  PROVE  LeaseInv' /\ Lease!LeasesAreSafe
<1>1. LeaseTypes'
  BY LeaseKeepsTypes DEF LeaseInv
<1>2. \A q \in Proc : Owned(q)'
  BY OthersLeft, OwnKept DEF LeaseInv
<1>3. LeaseInv'
  BY <1>1, <1>2, TreesStayApart, FilesStayMade, SameFileKept, StaysBranched,
     NoLiveReapKept, OneLeasePerRunKept, OwnTreeKept, BranchGoneKept DEF LeaseInv
<1>4. Lease!NoBranchLeft
  BY DEF LeaseInv, BranchGone, Lease!NoBranchLeft
<1> QED
  BY <1>3, <1>4, RecordStays DEF LeaseInv, Lease!LeasesAreSafe

\* "no prune runs while another lease is mid-setup": from `worktree add` to the
\* teardown a lease's worktree and branch are there, whatever sweeps run and
\* whichever leases are killed; two leases of one mode_run are never in use
\* together; a live one keeps its record; and one that ends by itself leaves no
\* branch that refuses the next (spine/worktree.py:406, 467, 481, 575).
THEOREM LeaseSafe ==
  ASSUME Lease!LeaseAssumption
  PROVE  Lease!Spec => [][Lease!LeasesAreSafe]_(Lease!vars)
<1>1. Lease!Init => LeaseInv
  BY LeaseInit
<1>2. LeaseInv /\ Lease!Next => Lease!LeasesAreSafe
  BY LeaseStep DEF Lease!Next
<1>3. LeaseInv /\ [Lease!Next]_(Lease!vars) => LeaseInv'
  <2>1. CASE UNCHANGED Lease!vars
    BY <2>1 DEF Lease!vars, Lease!git, Lease!sweep, Lease!acquire, LeaseInv, LeaseTypes,
       Owned, TreesApart, FilesMade, SameFile, Branched, Lease!NoLiveReap,
       Lease!OneLeasePerRun, OwnTree, BranchGone
  <2>2. CASE Lease!Next
    BY <2>2, LeaseStep DEF Lease!Next
  <2> QED
    BY <2>1, <2>2
<1> QED
  BY <1>1, <1>2, <1>3, PTL DEF Lease!Spec

-----------------------------------------------------------------------------
(* The sum of the components: its steps are those of the subject, which stays  *)
(* what it is, so that what holds of a component holds of the sum.             *)

\* The subject of a behaviour never changes.
LEMMA SubjectStays ==
  ASSUME [Next]_vars
  PROVE  UNCHANGED subject
  BY DEF Next, vars, InPipeline, InSoft, InMail, InLog, InTested, InPlan, InPinned,
         InBugs, InAsked, InCapped, InScaf, InLease, InCock, InHooks, InCall,
         InReap, InBring, InProxy

\* A step of the sum is one of its subject.
LEMMA StepsOfSubject ==
  ASSUME Next
  PROVE  /\ subject = "RunBudget" => Capped!Next
         /\ subject = "Reaper" => Reap!Next
         /\ subject = "FrozenContracts" => Pinned!Next
         /\ subject = "AuthProxy" => Proxy!Next
         /\ subject = "TestGates" => Tested!Next
         /\ subject = "Scaffold" => Scaf!Next
         /\ subject = "HostHooks" => Hooks!Next
         /\ subject = "ResearchRun" => Asked!Next
         /\ subject = "BringUp" => Bring!Next
         /\ subject = "Cockpit" => Cock!Next
         /\ subject = "WorktreeLease" => Lease!Next
  BY DEF Next, InPipeline, InSoft, InMail, InLog, InTested, InPlan, InPinned,
         InBugs, InAsked, InCapped, InScaf, InLease, InCock, InHooks, InCall,
         InReap, InBring, InProxy

\* Every later run has the cap the operator last asked for, and is not stopped for
\* what runs before a reset have spent (runner.py).
THEOREM BudgetIsAskedAlways == Spec => []BudgetIsAsked
<1>1. Init /\ subject = "RunBudget" => Capped!Init
  BY DEF Init
<1>2. [Next]_vars => (subject = "RunBudget")' <=> (subject = "RunBudget")
  BY SubjectStays
<1>3. subject = "RunBudget" /\ [Next]_vars => [Capped!Next]_(Capped!vars)
  BY StepsOfSubject DEF vars, Capped!vars, Capped!run, config, sidecar, disk, mem,
         driver, start, resume, asked, extended, target, fresh, ticks, reason,
         commands
<1>4. Capped!BudgetAssumption
  BY ComponentsAssumption DEF ComponentsAssumption
<1>5. Capped!Spec => []Capped!BudgetIsAsked
  BY <1>4, CappedAsAsked
<1> QED
  BY <1>1, <1>2, <1>3, <1>5, PTL DEF Spec, Capped!Spec, BudgetIsAsked

\* The status of the peer that the driver sees is the one the peer ended with: the
\* sweep of orphans never takes it (health_guard.py).
THEOREM PeerStatusIsRealAlways == Spec => []PeerStatusIsReal
<1>1. Init /\ subject = "Reaper" => Reap!Init
  BY DEF Init
<1>2. [Next]_vars => (subject = "Reaper")' <=> (subject = "Reaper")
  BY SubjectStays
<1>3. subject = "Reaper" /\ [Next]_vars => [Reap!Next]_(Reap!vars)
  BY StepsOfSubject DEF vars, Reap!vars, life, ended, seen, loop
<1>4. Reap!ReaperAssumption
  BY ComponentsAssumption DEF ComponentsAssumption
<1>5. Reap!Init /\ [][Reap!Next]_(Reap!vars) => []Reap!PeerStatusIsReal
  BY <1>4, ReapReal
<1> QED
  BY <1>1, <1>2, <1>3, <1>5, PTL DEF Spec, PeerStatusIsReal

\* A contract that a gate verified and ran has its entry in the audit log, however
\* the amends were cut off (contracts.py).
THEOREM ExecutedIsAuditedAlways == Spec => []ExecutedIsAudited
<1>1. Init /\ subject = "FrozenContracts" => Pinned!Init
  BY DEF Init
<1>2. [Next]_vars => (subject = "FrozenContracts")' <=> (subject = "FrozenContracts")
  BY SubjectStays
<1>3. subject = "FrozenContracts" /\ [Next]_vars => [Pinned!Next]_(Pinned!vars)
  BY StepsOfSubject DEF vars, Pinned!vars, acc, sha, log, writer, gate, started
<1>4. Pinned!Spec => []Pinned!ExecutedIsAudited
  BY PinnedAudited
<1> QED
  BY <1>1, <1>2, <1>3, <1>4, PTL DEF Spec, Pinned!Spec, ExecutedIsAudited

\* No permit of the proxy is lost, and no pair of tokens that was rotated away is
\* shown to the provider unless an answer was lost (auth_proxy/server.py).
THEOREM ProxyIsSoundAlways == Spec => []ProxyIsSound
<1>1. Init /\ subject = "AuthProxy" => Proxy!Init
  BY DEF Init
<1>2. [Next]_vars => (subject = "AuthProxy")' <=> (subject = "AuthProxy")
  BY SubjectStays
<1>3. subject = "AuthProxy" /\ [Next]_vars => [Proxy!Next]_(Proxy!vars)
  BY StepsOfSubject DEF vars, Proxy!vars, conn, slots, busy, mutex, file, flock,
         newest, lost
<1>4. Proxy!ProxyAssumption
  BY ComponentsAssumption DEF ComponentsAssumption
<1>5. Proxy!Init /\ [][Proxy!Next]_(Proxy!vars) => []Proxy!ProxyIsSound
  BY <1>4, ProxySound
<1> QED
  BY <1>1, <1>2, <1>3, <1>5, PTL DEF Spec, ProxyIsSound

\* A run that converged lost no test of an anchored baseline and has no unsigned skip,
\* but in a skip baseline that was captured after a start without one, though peers
\* write baselines and gates (no_regression.py, no_skipped_tests.py).
THEOREM ConvergedIsUnforgedAlways == Spec => []ConvergedIsUnforged
<1>1. Init /\ subject = "TestGates" => Tested!Init
  BY DEF Init
<1>2. [Next]_vars => (subject = "TestGates")' <=> (subject = "TestGates")
  BY SubjectStays
<1>3. subject = "TestGates" /\ [Next]_vars => [Tested!Next]_(Tested!vars)
  BY StepsOfSubject DEF vars, Tested!vars, tests, marker, authors, reviews, passing,
         skips, scripts, anchor, run, edits
<1>4. Tested!Spec => []Tested!ConvergedIsUnforged
  BY TestedUnforged
<1> QED
  BY <1>1, <1>2, <1>3, <1>4, PTL DEF Spec, Tested!Spec, ConvergedIsUnforged

\* A command that reports success left a project of one piece, and its hooks beside
\* all the operator has in the files that projects share (peers/cli.py).
THEOREM ScaffoldIsWholeAlways == Spec => []ScaffoldIsWhole
<1>1. Init /\ subject = "Scaffold" => Scaf!Init
  BY DEF Init
<1>2. [Next]_vars => (subject = "Scaffold")' <=> (subject = "Scaffold")
  BY SubjectStays
<1>3. subject = "Scaffold" /\ [Next]_vars => [Scaf!Next]_(Scaf!vars)
  BY StepsOfSubject DEF vars, Scaf!vars, cmd, commands, files, head, tag, dot, plan,
         ignored, record, drivers
<1>4. Scaf!Spec => []Scaf!ScaffoldIsWhole
  BY ScafWhole
<1>5. Init /\ subject = "HostHooks" => Hooks!Init
  BY DEF Init
<1>6. [Next]_vars => (subject = "HostHooks")' <=> (subject = "HostHooks")
  BY SubjectStays
<1>7. subject = "HostHooks" /\ [Next]_vars => [Hooks!Next]_(Hooks!vars)
  BY StepsOfSubject DEF vars, Hooks!vars, file, tmp, cmd, said, driver, alone, had,
         commands
<1>8. Hooks!HooksAssumption
  BY ComponentsAssumption DEF ComponentsAssumption
<1>9. Hooks!Spec => []Hooks!HooksAreInstalled
  BY <1>8, HooksInstalled
<1> QED
  BY <1>1, <1>2, <1>3, <1>4, <1>5, <1>6, <1>7, <1>9, PTL DEF Spec, Scaf!Spec,
     Hooks!Spec, ScaffoldIsWhole

\* What a research run confirms rests on two independent origins that were fetched
\* in the round it was claimed in (research/frontend.py).
THEOREM ConfirmedIsCorroboratedAlways == Spec => []ConfirmedIsCorroborated
<1>1. Init /\ subject = "ResearchRun" => Asked!Init
  BY DEF Init
<1>2. [Next]_vars => (subject = "ResearchRun")' <=> (subject = "ResearchRun")
  BY SubjectStays
<1>3. subject = "ResearchRun" /\ [Next]_vars => [Asked!Next]_(Asked!vars)
  BY StepsOfSubject DEF vars, Asked!vars, Asked!procVars, topic, pc, starts, kills,
         enabled, web, blocked, rounds, todo, ran, claims, confirmed, report, disk,
         head, ledger
<1>4. Asked!Spec => []Asked!ConfirmedIsCorroborated
  BY AskedCorroborated
<1> QED
  BY <1>1, <1>2, <1>3, <1>4, PTL DEF Spec, Asked!Spec, ConfirmedIsCorroborated

\* A confirmed fix is a commit of its own that its case passes on, and a loop that
\* converged left no failing case behind (modes/bring_up).
THEOREM BroughtUpIsGreenAlways == Spec => []BroughtUpIsGreen
<1>1. Init /\ subject = "BringUp" => Bring!Init
  BY DEF Init
<1>2. [Next]_vars => (subject = "BringUp")' <=> (subject = "BringUp")
  BY SubjectStays
<1>3. subject = "BringUp" /\ [Next]_vars => [Bring!Next]_(Bring!vars)
  BY StepsOfSubject DEF vars, Bring!vars, phase, work, dirty, commits, green,
         excluded, stuck, attempts, converged, target, rows, facts
<1>4. Bring!BringUpAssumption
  BY ComponentsAssumption DEF ComponentsAssumption
<1>5. Bring!Init /\ [][Bring!Next]_(Bring!vars) => []Bring!BroughtUpIsGreen
  BY <1>4, BringGreen
<1> QED
  BY <1>1, <1>2, <1>3, <1>5, PTL DEF Spec, BroughtUpIsGreen

\* No step of the cockpit paints what was read of a run that is no longer selected,
\* or leaves a child streaming that it does not hold (tui/app.py).
THEOREM CockpitIsCurrentAlways == Spec => CockpitIsCurrent
<1>1. Init /\ subject = "Cockpit" => Cock!Init
  BY DEF Init
<1>2. [Next]_vars => (subject = "Cockpit")' <=> (subject = "Cockpit")
  BY SubjectStays
<1>3. subject = "Cockpit" /\ [Next]_vars => [Cock!Next]_(Cock!vars)
  BY StepsOfSubject DEF vars, Cock!vars, Cock!runVars, Cock!appVars,
         Cock!streamVars, turn, tees, running, active, reading, posted, data, shown,
         stream, eof, kids, started
<1>4. subject = "Cockpit" /\ [Next]_vars /\ UNCHANGED Cock!vars => UNCHANGED vars
  BY SubjectStays DEF vars, Next, InPipeline, InSoft, InMail, InLog, InTested,
         InPlan, InPinned, InBugs, InAsked, InCapped, InScaf, InLease, InCock,
         InHooks, InCall, InReap, InBring, InProxy, Cock!vars, Cock!runVars,
         Cock!appVars, Cock!streamVars, turn, tees, running, active, reading,
         posted, data, shown, stream, eof, kids, started, Rest13
<1>5. Cock!Init /\ [][Cock!Next]_(Cock!vars) => [][Cock!CockpitIsCurrent]_(Cock!vars)
  BY CockCurrent
<1> QED
  BY <1>1, <1>2, <1>3, <1>4, <1>5, PTL DEF Spec, CockpitIsCurrent

\* No step takes the worktree or the branch of a live lease away, or has two leases
\* of one mode_run in use; unless an acquire lock was removed under a process that
\* had it open, a live one keeps its record and one that ends leaves no branch
\* (spine/worktree.py).
THEOREM LeasesAreSafeAlways == Spec => LeasesAreSafe
<1>1. Init /\ subject = "WorktreeLease" => Lease!Init
  BY DEF Init
<1>2. [Next]_vars => (subject = "WorktreeLease")' <=> (subject = "WorktreeLease")
  BY SubjectStays
<1>3. subject = "WorktreeLease" /\ [Next]_vars => [Lease!Next]_(Lease!vars)
  BY StepsOfSubject DEF vars, Lease!vars, Lease!git, Lease!sweep, Lease!acquire, pc,
         run, tree, leases, prune, listed, runOf, guard, branches, todo, victim,
         live, file, files, fd, owner, records, crashes, orphaned
<1>4. subject = "WorktreeLease" /\ [Next]_vars /\ UNCHANGED Lease!vars => UNCHANGED vars
  BY SubjectStays DEF vars, Next, InPipeline, InSoft, InMail, InLog, InTested,
         InPlan, InPinned, InBugs, InAsked, InCapped, InScaf, InLease, InCock,
         InHooks, InCall, InReap, InBring, InProxy, Lease!vars, Lease!git,
         Lease!sweep, Lease!acquire, pc, run, tree, leases, prune, listed, runOf,
         guard, branches, todo, victim, live, file, files, fd, owner, records,
         crashes, orphaned
<1>5. Lease!LeaseAssumption
  BY ComponentsAssumption DEF ComponentsAssumption
<1>6. Lease!Spec => [][Lease!LeasesAreSafe]_(Lease!vars)
  BY <1>5, LeaseSafe
<1> QED
  BY <1>1, <1>2, <1>3, <1>4, <1>6, PTL DEF Spec, Lease!Spec, LeasesAreSafe
=============================================================================
