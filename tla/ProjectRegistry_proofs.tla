------------------------ MODULE ProjectRegistry_proofs ------------------------
(***************************************************************************)
(* ProjectRegistry proved for any number of controllers, pids and starts:  *)
(* a second live loop means that one was lost to the registry before, and  *)
(* no SIGTERM reaches a process that only inherited a pid.                 *)
(***************************************************************************)
EXTENDS ProjectRegistry, FiniteSetTheorems, TLAPS

InStart == {"get", "preflight", "sidecars", "run", "record"}
WithSnap == {"preflight", "stop", "podman", "reap", "grace", "kill", "write"}

\* A start is inside its locked part exactly while it holds the lock.
Held == \A c \in Ctls : ctl[c].pc \in InStart <=> startLock = c

\* The steps that read a remembered record, a pid or a token have one.
Remembered ==
  \A c \in Ctls :
    /\ ctl[c].pc \in WithSnap => ctl[c].snap # None
    /\ ctl[c].pc = "record" => ctl[c].pid # None /\ ctl[c].tok # None

\* Until a loop is lost, a live one is named: by the record of a host project, or by
\* the controller that has just spawned it; and a start past its preflight sees none.
Names(p) ==
  \/ reg # None /\ ~reg.cont /\ reg.pid = p
  \/ \E c \in Ctls : ctl[c].pc = "record" /\ ctl[c].mode = "host" /\ ctl[c].pid = p
Clear(c) ==
  /\ ctl[c].pc = "preflight" => LiveLoops \subseteq {ctl[c].snap.pid}
  /\ ctl[c].pc \in {"sidecars", "run"} => LiveLoops = {}
  /\ ctl[c].pc = "record" =>
       LiveLoops \subseteq {ctl[c].pid} /\ (ctl[c].mode = "container" => LiveLoops = {})
Named == ~lost => (\A p \in LiveLoops : Names(p)) /\ \A c \in Ctls : Clear(c)

\* A pid with a real start time can only name the process that was started.
Genuine(p, tok, procs, now) ==
  p # None =>
    /\ tok # None
    /\ tok \in Times =>
         tok < now /\ (procs[p] # None /\ procs[p].start = tok => procs[p].kind # "alien")
Told ==
  /\ reg # None => Genuine(reg.pid, reg.start, proc, clock)
  /\ \A c \in Ctls : /\ ctl[c].snap # None => Genuine(ctl[c].snap.pid, ctl[c].snap.start, proc, clock)
                     /\ ctl[c].pc = "record" => Genuine(ctl[c].pid, ctl[c].tok, proc, clock)

IInv == TypeOK /\ Held /\ Remembered /\ Named /\ Told /\ TermSparesStrangers

-----------------------------------------------------------------------------
(* Parts of steps.                                                          *)

\* What a reconcile does to the record: nothing, or a state, or no pid if it is dead.
LEMMA ReconcileKeeps ==
  ASSUME TypeOK, ReconcileReg
  PROVE  /\ reg = None => reg' = None
         /\ reg # None =>
              /\ reg' \in Project /\ reg'.start = reg.start /\ reg'.cont = reg.cont
              /\ \/ reg'.pid = reg.pid
                 \/ reg'.pid = None /\ (~reg.cont => ~IsPidAlive(reg.pid))
<1>1. CASE reg # None
  <2>1. PICK alive \in ProbeProject(reg) : reg' = Reconciled(reg, alive)
    BY <1>1 DEF ReconcileReg
  <2>2. reg \in Project
    BY <1>1 DEF TypeOK
  <2>3. CASE reg' = reg
    BY <1>1, <2>2, <2>3
  <2>4. CASE \E x \in {"running", "unknown"} : reg' = [reg EXCEPT !.state = x]
    BY <1>1, <2>2, <2>4 DEF Project, States
  <2>5. CASE alive = FALSE /\ reg' = Settled(reg)
    <3>1. ~reg.cont => ~IsPidAlive(reg.pid)
      BY <2>1, <2>5 DEF ProbeProject
    <3>2. reg' \in Project /\ reg'.start = reg.start /\ reg'.cont = reg.cont /\ reg'.pid = None
      BY <2>2, <2>5 DEF Settled, Project, States
    <3> QED
      BY <1>1, <3>1, <3>2
  <2>6. \/ Reconciled(reg, alive) = reg
        \/ Reconciled(reg, alive) = [reg EXCEPT !.state = "running"]
        \/ Reconciled(reg, alive) = [reg EXCEPT !.state = "unknown"]
        \/ alive = FALSE /\ Reconciled(reg, alive) = Settled(reg)
    <3> HIDE DEF Settled
    <3>1. CASE reg.state = "fresh"
      BY <3>1 DEF Reconciled
    <3>2. CASE reg.state # "fresh" /\ alive = TRUE
      BY <3>2 DEF Reconciled
    <3>3. CASE reg.state = "running" /\ alive = None
      BY <3>3, RegistryAssumption DEF Reconciled
    <3>4. CASE reg.state \in {"running", "unknown"} /\ alive = FALSE
      BY <3>4 DEF Reconciled
    <3>5. CASE /\ ~(reg.state # "fresh" /\ alive = TRUE) /\ ~(reg.state = "running" /\ alive = None)
               /\ ~(reg.state \in {"running", "unknown"} /\ alive = FALSE) /\ reg.state # "fresh"
      BY <3>5 DEF Reconciled
    <3> QED
      BY <3>1, <3>2, <3>3, <3>4, <3>5
  <2> QED
    BY <2>1, <2>3, <2>4, <2>5, <2>6
<1>2. CASE reg = None
  BY <1>2 DEF ReconcileReg
<1> QED
  BY <1>1, <1>2, RegistryAssumption DEF TypeOK

\* Only c's part of ctl changes.
Others(c) == \A d \in Ctls \ {c} : ctl'[d] = ctl[d]

\* A change of place keeps the other fields of what a controller does.
LEMMA DoingTypes ==
  ASSUME NEW d \in Doing, NEW x \in Steps
  PROVE  [d EXCEPT !.pc = x] \in Doing /\ [d EXCEPT !.pc = x].pc = x
BY DEF Doing

\* An idle controller may go anywhere.
LEMMA IdleTypes ==
  /\ Idle \in Doing /\ Idle.pc = "idle" /\ Idle.snap = None
  /\ \A x \in Steps : [Idle EXCEPT !.pc = x] \in Doing
  /\ \A x \in Steps : \A m \in {"host", "container"} : [Idle EXCEPT !.pc = x, !.mode = m] \in Doing
  /\ \A x \in Steps : \A y \in Snapshot : [Idle EXCEPT !.pc = x, !.snap = y] \in Doing
<1>1. Idle \in Doing
  BY DEF Idle, Doing, Steps
<1> QED
  BY <1>1, DoingTypes DEF Idle, Doing

\* Goto moves one controller and keeps what it remembers.
LEMMA GotoSays ==
  ASSUME TypeOK, NEW c \in Ctls, NEW x \in Steps, Goto(c, x)
  PROVE  /\ ctl' \in [Ctls -> Doing] /\ Others(c) /\ ctl'[c].pc = x
         /\ ctl'[c].snap = ctl[c].snap /\ ctl'[c].mode = ctl[c].mode
         /\ ctl'[c].pid = ctl[c].pid /\ ctl'[c].tok = ctl[c].tok
<1>1. ctl \in [Ctls -> Doing] /\ ctl[c] \in Doing /\ ctl' = [ctl EXCEPT ![c] = [ctl[c] EXCEPT !.pc = x]]
  BY DEF TypeOK, Goto
<1>2. [ctl[c] EXCEPT !.pc = x] \in Doing
  BY <1>1, DoingTypes
<1>3. ctl'[c] = [ctl[c] EXCEPT !.pc = x] /\ ctl' \in [Ctls -> Doing] /\ Others(c)
  BY <1>1, <1>2 DEF Others
<1> QED
  BY <1>1, <1>3 DEF Doing

\* Done forgets what one controller remembers.
LEMMA DoneSays ==
  ASSUME TypeOK, NEW c \in Ctls, Done(c)
  PROVE  ctl' \in [Ctls -> Doing] /\ Others(c) /\ ctl'[c] = Idle /\ ctl'[c].pc = "idle" /\ ctl'[c].snap = None
BY IdleTypes DEF TypeOK, Done, Others

\* The snapshots a look-up takes.
LEMMA HandleTypes ==
  ASSUME NEW r \in Project
  PROVE  /\ Handle(r) \in Snapshot /\ Handle(r) # None
         /\ Handle(r).pid = r.pid /\ Handle(r).start = r.start /\ Handle(r).cont = r.cont
<1>1. Handle(r) \in Snapshot /\ Handle(r).pid = r.pid /\ Handle(r).start = r.start /\ Handle(r).cont = r.cont
  BY DEF Handle, Project, Snapshot
<1> QED
  BY <1>1, RegistryAssumption

-----------------------------------------------------------------------------
(* What each step does to the controllers and to the lock.                  *)

\* c's next step, the others', and the lock: taken, kept or let go.
Moves(c) ==
  /\ ctl' \in [Ctls -> Doing] /\ Others(c)
  /\ startLock' \in Ctls \cup {None}
  /\ \/ startLock' = startLock /\ (ctl'[c].pc \in InStart <=> ctl[c].pc \in InStart)
     \/ startLock = None /\ startLock' = c /\ ctl'[c].pc \in InStart
     \/ /\ ctl'[c].pc \notin InStart
        /\ startLock' = IF startLock = c THEN None ELSE startLock
  /\ ctl'[c].pc \in WithSnap => ctl'[c].snap # None
  /\ ctl'[c].pc = "record" => ctl'[c].pid # None /\ ctl'[c].tok # None

\* Where a step takes a controller, and what it does to the start lock.
LEMMA ControllerMoves ==
  ASSUME TypeOK, Held, Remembered, NEW c \in Ctls, Controller(c)
  PROVE  Moves(c)
<1>1. /\ ctl \in [Ctls -> Doing] /\ ctl[c] \in Doing /\ reg \in Project \cup {None}
      /\ startLock \in Ctls \cup {None} /\ None \notin Ctls
  BY RegistryAssumption DEF TypeOK
<1>2. CASE UNCHANGED <<ctl, startLock>>
  BY <1>1, <1>2 DEF Moves, Others, Remembered
<1>3. ASSUME NEW x \in Steps, Goto(c, x), UNCHANGED startLock, x \in InStart <=> ctl[c].pc \in InStart,
             x \in WithSnap => ctl[c].pc \in WithSnap, x # "record"
      PROVE  Moves(c)
  BY <1>1, <1>3, GotoSays DEF Moves, Remembered
<1>4. ASSUME Done(c), \/ Release(c)
                      \/ UNCHANGED startLock /\ ctl[c].pc \notin InStart
      PROVE  Moves(c)
  BY <1>1, <1>4, DoneSays DEF Moves, Release, InStart, WithSnap
<1>5. CASE Reconcile(c) \/ CmdRemove(c) \/ CmdAdd(c)
  BY <1>2, <1>5 DEF Reconcile, CmdRemove, CmdAdd
<1>6. ASSUME NEW mode \in Modes, CmdStart(c, mode)
      PROVE  Moves(c)
  <2>1. CASE reg = None
    BY <1>2, <1>6, <2>1 DEF CmdStart
  <2>2. CASE reg # None
    <3> DEFINE d == [Idle EXCEPT !.pc = "lock", !.mode = mode]
    <3>1. d \in Doing /\ d.pc = "lock"
      BY IdleTypes, RegistryAssumption DEF Steps, Idle
    <3>2. ctl' = [ctl EXCEPT ![c] = d] /\ UNCHANGED startLock /\ ctl[c].pc = "idle"
      BY <1>6, <2>2 DEF CmdStart, At
    <3> HIDE DEF d
    <3> QED
      BY <1>1, <3>1, <3>2 DEF Moves, Others, InStart, WithSnap
  <2> QED
    BY <2>1, <2>2
<1>7. CASE AcquireStartLock(c)
  BY <1>1, <1>7, GotoSays DEF AcquireStartLock, Moves, InStart, WithSnap, Steps
<1>8. CASE StartLockTimeout(c)
  BY <1>4, <1>8 DEF StartLockTimeout, At, InStart
<1>9. CASE GetFresh(c)
  <2>1. CASE reg = None
    BY <1>4, <1>9, <2>1 DEF GetFresh
  <2>2. CASE reg # None
    <3> DEFINE d == [ctl[c] EXCEPT !.pc = "preflight", !.snap = Handle(reg)]
    <3>1. PICK b \in Doing, y \in Snapshot : b = ctl[c] /\ y = Handle(reg) /\ y # None
      BY <1>1, <2>2, HandleTypes
    <3>2. [b EXCEPT !.pc = "preflight", !.snap = y] \in Doing
      BY DEF Doing, Steps
    <3>3. d \in Doing /\ d.pc = "preflight" /\ d.snap = y
      BY <3>1, <3>2 DEF Doing
    <3>4. ctl' = [ctl EXCEPT ![c] = d] /\ UNCHANGED startLock /\ ctl[c].pc = "get"
      BY <1>9, <2>2 DEF GetFresh, At
    <3> HIDE DEF d
    <3> QED
      BY <1>1, <3>1, <3>3, <3>4 DEF Moves, Others, InStart, WithSnap
  <2> QED
    BY <2>1, <2>2
<1>10. CASE Preflight(c)
  <2>1. CASE Done(c) /\ Release(c)
    BY <1>4, <2>1
  <2>2. CASE UNCHANGED startLock /\ ctl' = [ctl EXCEPT ![c].pc = "sidecars", ![c].snap = None]
    <3> DEFINE d == [ctl[c] EXCEPT !.pc = "sidecars", !.snap = None]
    <3>1. PICK b \in Doing : b = ctl[c]
      BY <1>1
    <3>2. [b EXCEPT !.pc = "sidecars", !.snap = None] \in Doing
      BY DEF Doing, Steps
    <3>3. d \in Doing /\ d.pc = "sidecars"
      BY <3>1, <3>2 DEF Doing
    <3>4. ctl' = [ctl EXCEPT ![c] = d] /\ ctl[c].pc = "preflight"
      BY <1>10, <2>2 DEF Preflight, At
    <3> HIDE DEF d
    <3> QED
      BY <1>1, <2>2, <3>3, <3>4 DEF Moves, Others, InStart, WithSnap
  <2> QED
    BY <1>10, <2>1, <2>2 DEF Preflight
<1>11. CASE EnsureSidecars(c)
  <2>1. CASE Done(c) /\ Release(c)
    BY <1>4, <2>1
  <2>2. CASE Goto(c, "run") /\ UNCHANGED startLock
    BY <1>3, <1>11, <2>2 DEF EnsureSidecars, At, InStart, WithSnap, Steps
  <2> QED
    BY <1>11, <2>1, <2>2 DEF EnsureSidecars
<1>12. ASSUME NEW p \in Pids, ToRecord(c, p), UNCHANGED startLock, At(c, "run"),
              clock \in Times
       PROVE  Moves(c)
  <2>1. PICK tok \in {clock, Missing} :
          ctl' = [ctl EXCEPT ![c] = [ctl[c] EXCEPT !.pc = "record", !.pid = p, !.tok = tok]]
    BY <1>12 DEF ToRecord
  <2> DEFINE d == [ctl[c] EXCEPT !.pc = "record", !.pid = p, !.tok = tok]
  <2>2. tok \in Times \cup {None, Missing} /\ tok # None /\ p # None
    BY <1>12, RegistryAssumption DEF Times
  <2>3. PICK b \in Doing : b = ctl[c]
    BY <1>1
  <2>4. [b EXCEPT !.pc = "record", !.pid = p, !.tok = tok] \in Doing
    BY <2>2 DEF Doing, Steps
  <2>5. d \in Doing /\ d.pc = "record" /\ d.pid = p /\ d.tok = tok
    BY <2>3, <2>4 DEF Doing
  <2>6. ctl' = [ctl EXCEPT ![c] = d]
    BY <2>1
  <2> HIDE DEF d
  <2> QED
    BY <1>1, <1>12, <2>2, <2>5, <2>6 DEF Moves, Others, InStart, WithSnap, At
<1>13. ASSUME NEW p \in Pids, NEW kind, Born(p, kind)
       PROVE  clock \in Times
  BY <1>13, RegistryAssumption DEF Born, TypeOK, Times
<1>14. CASE RunHost(c)
  BY <1>4, <1>12, <1>13, <1>14 DEF RunHost
<1>15. CASE RunContainer(c)
  BY <1>4, <1>12, <1>13, <1>15 DEF RunContainer
<1>16. CASE RecordStart(c)
  BY <1>4, <1>16 DEF RecordStart
<1>17. CASE CmdStop(c)
  <2>1. CASE reg = None
    BY <1>2, <1>17, <2>1 DEF CmdStop
  <2>2. CASE reg # None
    <3> DEFINE d == [Idle EXCEPT !.pc = "stop", !.snap = Handle(reg')]
    <3>1. reg' \in Project
      BY <1>17, <2>2, ReconcileKeeps DEF CmdStop
    <3>2. Handle(reg') \in Snapshot /\ Handle(reg') # None
      BY <3>1, HandleTypes
    <3>3. d \in Doing /\ d.pc = "stop" /\ d.snap = Handle(reg')
      BY <3>2, IdleTypes DEF Steps, Idle
    <3>4. ctl' = [ctl EXCEPT ![c] = d] /\ UNCHANGED startLock /\ ctl[c].pc = "idle"
      BY <1>17, <2>2 DEF CmdStop, At
    <3> HIDE DEF d
    <3> QED
      BY <1>1, <3>2, <3>3, <3>4 DEF Moves, Others, InStart, WithSnap
  <2> QED
    BY <2>1, <2>2
<1>18. CASE StopContainer(c)
  <2>1. PICK running \in ContainerRunning : Goto(c, IF running THEN "podman" ELSE "reap")
    BY <1>18 DEF StopContainer
  <2>2. Goto(c, "podman") \/ Goto(c, "reap")
    BY <2>1
  <2> QED
    BY <1>3, <1>18, <2>2 DEF StopContainer, At, InStart, WithSnap, Steps
<1>19. CASE PodmanStop(c)
  BY <1>3, <1>4, <1>19 DEF PodmanStop, At, InStart, WithSnap, Steps
<1>20. CASE ReapSidecars(c)
  BY <1>3, <1>20 DEF ReapSidecars, At, InStart, WithSnap, Steps
<1>21. CASE StopHost(c)
  <2>1. Goto(c, "write") \/ Goto(c, "grace") \/ Done(c)
    BY <1>21 DEF StopHost
  <2> QED
    BY <1>3, <1>4, <1>21, <2>1 DEF StopHost, At, InStart, WithSnap, Steps
<1>22. CASE GraceOver(c)
  <2>1. Goto(c, "kill") \/ Goto(c, "write")
    BY <1>22 DEF GraceOver
  <2> QED
    BY <1>3, <1>22, <2>1 DEF GraceOver, At, InStart, WithSnap, Steps
<1>23. CASE SigKill(c)
  BY <1>3, <1>23 DEF SigKill, At, InStart, WithSnap, Steps
<1>24. CASE WriteStopped(c)
  BY <1>4, <1>24 DEF WriteStopped, At, InStart
<1>25. CASE CtlKilled(c)
  <2>1. [Idle EXCEPT !.pc = "dead"] \in Doing /\ [Idle EXCEPT !.pc = "dead"].pc = "dead"
    BY IdleTypes DEF Steps, Idle
  <2> QED
    BY <1>1, <1>25, <2>1 DEF CtlKilled, Moves, Others, Release, InStart, WithSnap
<1> QED
  BY <1>5, <1>6, <1>7, <1>8, <1>9, <1>10, <1>11, <1>14, <1>15, <1>16, <1>17, <1>18, <1>19,
     <1>20, <1>21, <1>22, <1>23, <1>24, <1>25 DEF Controller

World == (\E p \in Pids : LoopEnds(p) \/ ProcessEnds(p) \/ PidReused(p)) \/ ContainerEnds

\* Whoever is between the lock and the record of a start holds the start lock.
LEMMA HeldStep ==
  ASSUME TypeOK, Held, Remembered, [Next]_vars
  PROVE  Held' /\ Remembered' /\ ctl' \in [Ctls -> Doing] /\ startLock' \in Ctls \cup {None}
<1>1. CASE UNCHANGED <<ctl, startLock>>
  BY <1>1 DEF Held, Remembered, TypeOK
<1>2. ASSUME NEW c \in Ctls, Controller(c)
      PROVE  Held' /\ Remembered' /\ ctl' \in [Ctls -> Doing] /\ startLock' \in Ctls \cup {None}
  <2>1. Moves(c)
    BY <1>2, ControllerMoves
  <2>2. Held'
    BY <2>1, RegistryAssumption DEF Held, Moves, Others
  <2>3. Remembered'
    BY <2>1 DEF Remembered, Moves, Others
  <2> QED
    BY <2>1, <2>2, <2>3 DEF Moves
<1>3. CASE World
  BY <1>1, <1>3 DEF World, LoopEnds, ProcessEnds, PidReused, ContainerEnds
<1> QED
  BY <1>1, <1>2, <1>3 DEF Next, World, vars

-----------------------------------------------------------------------------
(* What each step does to the processes.                                    *)

\* A pid keeps its process, loses it, or is given one that starts now.
Ages(p) ==
  \/ proc'[p] = None
  \/ /\ proc[p] # None /\ proc'[p] \in Process
     /\ proc'[p].kind = proc[p].kind /\ proc'[p].start = proc[p].start
     /\ proc'[p].leader => proc[p].leader
  \/ /\ proc[p] = None /\ proc'[p] \in Process /\ proc'[p].start = clock /\ clock' = clock + 1
     /\ proc'[p].kind = "loop" => \E c \in Ctls : RunHost(c)

\* A process keeps its start time and kind until it exits; time never runs back.
LEMMA EveryPidAges ==
  ASSUME TypeOK, [Next]_vars
  PROVE  /\ \A p \in Pids : Ages(p)
         /\ proc' \in [Pids -> Process \cup {None}]
         /\ clock' \in 1..(MaxStarts + 1) /\ clock <= clock'
<1>1. proc \in [Pids -> Process \cup {None}] /\ clock \in 1..(MaxStarts + 1) /\ MaxStarts \in Nat
  BY RegistryAssumption DEF TypeOK
<1>2. CASE UNCHANGED <<proc, clock>>
  BY <1>1, <1>2 DEF Ages, Process
<1>3. ASSUME NEW p \in Pids, proc' = Without(p), UNCHANGED clock
      PROVE  /\ \A q \in Pids : Ages(q)
             /\ proc' \in [Pids -> Process \cup {None}]
             /\ clock' \in 1..(MaxStarts + 1) /\ clock <= clock'
  BY <1>1, <1>3 DEF Without, Ages, Process
<1>4. ASSUME NEW p \in Pids, NEW new \in Process, new.start = clock,
             proc[p] = None, clock <= MaxStarts, clock' = clock + 1, proc' = [proc EXCEPT ![p] = new],
             new.kind = "loop" => \E c \in Ctls : RunHost(c)
      PROVE  /\ \A q \in Pids : Ages(q)
             /\ proc' \in [Pids -> Process \cup {None}]
             /\ clock' \in 1..(MaxStarts + 1) /\ clock <= clock'
  <2>4. proc'[p] = new /\ \A q \in Pids \ {p} : proc'[q] = proc[q]
    BY <1>1, <1>4
  <2>5. \A q \in Pids : Ages(q)
    BY <1>1, <1>4, <2>4 DEF Ages
  <2>6. proc' \in [Pids -> Process \cup {None}]
    BY <1>1, <1>4
  <2>7. clock' \in 1..(MaxStarts + 1) /\ clock <= clock'
    BY <1>1, <1>4
  <2> QED
    BY <2>5, <2>6, <2>7
<1>5. ASSUME clock <= MaxStarts, NEW kind \in {"loop", "streamer", "alien"}, NEW leads \in BOOLEAN
      PROVE  /\ NewProcess(kind) \in Process /\ NewProcess(kind).start = clock
             /\ NewProcess(kind).kind = kind
             /\ LET e == [NewProcess(kind) EXCEPT !.leads = leads]
                IN  e \in Process /\ e.start = clock /\ e.kind = kind
  <2>1. clock \in Times
    BY <1>1, <1>5 DEF Times
  <2>2. /\ NewProcess(kind) \in Process /\ NewProcess(kind).start = clock
        /\ NewProcess(kind).kind = kind
    BY <2>1 DEF Process, NewProcess
  <2>3. PICK b \in Process : b = NewProcess(kind)
    BY <2>2
  <2>4. [b EXCEPT !.leads = leads] \in Process
    BY DEF Process
  <2> QED
    BY <2>2, <2>3, <2>4 DEF Process
<1>6. ASSUME NEW c \in Ctls, Controller(c)
      PROVE  /\ \A q \in Pids : Ages(q)
             /\ proc' \in [Pids -> Process \cup {None}]
             /\ clock' \in 1..(MaxStarts + 1) /\ clock <= clock'
  <2>1. CASE RunHost(c)
    <3>1. ASSUME NEW p \in Pids, Born(p, "loop")
          PROVE  /\ \A q \in Pids : Ages(q)
                 /\ proc' \in [Pids -> Process \cup {None}]
                 /\ clock' \in 1..(MaxStarts + 1) /\ clock <= clock'
      BY <1>4, <1>5, <2>1, <3>1 DEF Born
    <3> QED
      BY <1>2, <2>1, <3>1 DEF RunHost
  <2>2. CASE RunContainer(c)
    <3>1. ASSUME NEW p \in Pids, Born(p, "streamer")
          PROVE  /\ \A q \in Pids : Ages(q)
                 /\ proc' \in [Pids -> Process \cup {None}]
                 /\ clock' \in 1..(MaxStarts + 1) /\ clock <= clock'
      BY <1>4, <1>5, <3>1 DEF Born
    <3> QED
      BY <1>2, <2>2, <3>1 DEF RunContainer
  <2>3. CASE RecordStart(c)
    <3>1. ctl[c].pid \in Pids \/ ~Ours(c) \/ ctl[c].pid = None
      BY DEF TypeOK, Doing
    <3>2. CASE proc' = Without(ctl[c].pid) /\ ctl[c].pid \in Pids
      BY <1>3, <2>3, <3>2 DEF RecordStart
    <3>3. CASE proc' = Without(ctl[c].pid) /\ ctl[c].pid = None
      <4>1. None \notin Pids
        BY RegistryAssumption
      <4>2. proc' = proc
        BY <1>1, <3>3, <4>1 DEF Without
      <4> QED
        BY <1>2, <2>3, <4>2 DEF RecordStart
    <3>4. CASE UNCHANGED proc
      BY <1>2, <2>3, <3>4 DEF RecordStart
    <3>5. ctl[c].pid \in Pids \cup {None}
      BY DEF TypeOK, Doing
    <3> QED
      BY <2>3, <3>2, <3>3, <3>4, <3>5 DEF RecordStart
  <2>4. CASE ReapSidecars(c) \/ SigKill(c)
    <3>1. CASE UNCHANGED proc
      BY <1>2, <2>4, <3>1 DEF ReapSidecars, SigKill
    <3>2. CASE proc' = Without(ctl[c].snap.pid) /\ ctl[c].snap.pid \in Pids
      BY <1>3, <2>4, <3>2 DEF ReapSidecars, SigKill
    <3>3. CASE ctl[c].snap.pid \notin Pids /\ proc' = Without(ctl[c].snap.pid)
      <4>1. proc' = proc
        BY <1>1, <3>3 DEF Without
      <4> QED
        BY <1>2, <2>4, <4>1 DEF ReapSidecars, SigKill
    <3> QED
      BY <2>4, <3>1, <3>2, <3>3 DEF ReapSidecars, SigKill
  <2>5. CASE ~RunHost(c) /\ ~RunContainer(c) /\ ~RecordStart(c) /\ ~ReapSidecars(c) /\ ~SigKill(c)
    <3>1. UNCHANGED <<proc, clock>>
      BY <1>6, <2>5 DEF Controller, Reconcile, CmdStart, AcquireStartLock, StartLockTimeout, GetFresh,
        Preflight, EnsureSidecars, CmdStop, StopContainer, PodmanStop, StopHost, GraceOver,
        WriteStopped, CmdRemove, CmdAdd, CtlKilled, world
    <3> QED
      BY <1>2, <3>1
  <2> QED
    BY <2>1, <2>2, <2>3, <2>4, <2>5
<1>7. CASE World
  <2>1. ASSUME NEW p \in Pids, LoopEnds(p), proc' = [proc EXCEPT ![p].leader = FALSE]
        PROVE  /\ \A q \in Pids : Ages(q)
               /\ proc' \in [Pids -> Process \cup {None}]
               /\ clock' \in 1..(MaxStarts + 1) /\ clock <= clock'
    <3>1. proc[p] \in Process /\ proc[p] # None /\ UNCHANGED clock
      BY <1>1, <2>1 DEF LoopEnds, LiveLoops
    <3>2. PICK b \in Process : b = proc[p]
      BY <3>1
    <3>3. [b EXCEPT !.leader = FALSE] \in Process /\ [b EXCEPT !.leader = FALSE].kind = b.kind
          /\ [b EXCEPT !.leader = FALSE].start = b.start /\ ~[b EXCEPT !.leader = FALSE].leader
      BY DEF Process
    <3>4. proc' = [proc EXCEPT ![p] = [b EXCEPT !.leader = FALSE]]
      BY <2>1, <3>2
    <3> DEFINE e == [b EXCEPT !.leader = FALSE]
    <3> HIDE DEF e
    <3>5. e \in Process /\ e.kind = b.kind /\ e.start = b.start /\ ~e.leader /\ proc' = [proc EXCEPT ![p] = e]
      BY <3>3, <3>4 DEF e
    <3>6. proc'[p] = e /\ proc' \in [Pids -> Process \cup {None}] /\ \A q \in Pids \ {p} : proc'[q] = proc[q]
      BY <1>1, <3>5
    <3> QED
      BY <1>1, <3>1, <3>2, <3>5, <3>6 DEF Ages
  <2>2. ASSUME NEW p \in Pids, PidReused(p)
        PROVE  /\ \A q \in Pids : Ages(q)
               /\ proc' \in [Pids -> Process \cup {None}]
               /\ clock' \in 1..(MaxStarts + 1) /\ clock <= clock'
    <3>1. PICK leads \in BOOLEAN :
            proc' = [proc EXCEPT ![p] = [NewProcess("alien") EXCEPT !.leads = leads]]
      BY <2>2 DEF PidReused
    <3> DEFINE new == [NewProcess("alien") EXCEPT !.leads = leads]
    <3>2. new \in Process /\ new.start = clock /\ new.kind = "alien"
      BY <1>5, <2>2 DEF PidReused
    <3> HIDE DEF new
    <3>3. proc' = [proc EXCEPT ![p] = new]
      BY <3>1 DEF new
    <3> QED
      BY <1>4, <2>2, <3>2, <3>3 DEF PidReused
  <2> QED
    BY <1>2, <1>3, <1>7, <2>1, <2>2 DEF World, LoopEnds, ProcessEnds, ContainerEnds
<1> QED
  BY <1>2, <1>6, <1>7 DEF Next, World, vars, world

\* No live loop appears but by a RunHost.
LEMMA LoopsOnlyByRunHost ==
  ASSUME TypeOK, [Next]_vars, \A c \in Ctls : ~RunHost(c)
  PROVE  LiveLoops' \subseteq LiveLoops
<1> SUFFICES ASSUME NEW p \in Pids, proc'[p] # None, proc'[p].kind = "loop", proc'[p].leader
             PROVE  p \in LiveLoops
  BY DEF LiveLoops
<1>1. Ages(p)
  BY EveryPidAges
<1> QED
  BY <1>1 DEF Ages, LiveLoops

-----------------------------------------------------------------------------
(* Types, tokens and signals.                                               *)

\* Every step keeps the types.
LEMMA TypeStep ==
  ASSUME IInv, [Next]_vars
  PROVE  TypeOK'
<1>1. /\ TypeOK /\ Held /\ Remembered
      /\ Held' /\ ctl' \in [Ctls -> Doing] /\ startLock' \in Ctls \cup {None}
      /\ proc' \in [Pids -> Process \cup {None}] /\ clock' \in 1..(MaxStarts + 1)
  BY HeldStep, EveryPidAges DEF IInv
<1>2. startLock' # None =>
        ctl'[startLock'].pc \in {"get", "preflight", "sidecars", "run", "record"}
  BY <1>1 DEF Held, InStart
<1>3. reg' \in Project \cup {None}
  <2>1. CASE UNCHANGED reg
    BY <1>1, <2>1 DEF TypeOK
  <2>2. CASE ReconcileReg
    BY <1>1, <2>2, ReconcileKeeps DEF TypeOK
  <2>3. ASSUME NEW c \in Ctls, RecordStart(c)
        PROVE  reg' \in Project \cup {None}
    <3>1. ctl[c] \in Doing
      BY <1>1 DEF TypeOK
    <3>2. [state |-> "running", pid |-> ctl[c].pid, start |-> ctl[c].tok,
           cont |-> ctl[c].mode = "container"] \in Project
      BY <3>1 DEF Doing, Project, States
    <3> QED
      BY <1>1, <2>3, <3>2 DEF RecordStart, TypeOK
  <2>4. ASSUME NEW c \in Ctls, WriteStopped(c) \/ CmdRemove(c) \/ CmdAdd(c)
        PROVE  reg' \in Project \cup {None}
    <3>1. reg # None => [reg EXCEPT !.state = "stopped", !.pid = None] \in Project
      BY <1>1 DEF TypeOK, Project, States
    <3>2. [state |-> "fresh", pid |-> None, start |-> None, cont |-> FALSE] \in Project
      BY DEF Project, States
    <3> QED
      BY <2>4, <3>1, <3>2 DEF WriteStopped, CmdRemove, CmdAdd
  <2>5. ASSUME NEW c \in Ctls, Controller(c)
        PROVE  reg' \in Project \cup {None}
    BY <2>1, <2>2, <2>3, <2>4, <2>5 DEF Controller, Reconcile, CmdStart, AcquireStartLock,
       StartLockTimeout, GetFresh, Preflight, EnsureSidecars, RunHost, RunContainer, CmdStop,
       StopContainer, PodmanStop, ReapSidecars, StopHost, GraceOver, SigKill, CtlKilled
  <2> QED
    BY <2>1, <2>5 DEF Next, LoopEnds, ProcessEnds, PidReused, ContainerEnds, vars
<1>4. container' \in 0..MaxStarts
  <2>1. 0 \in 0..MaxStarts /\ container \in 0..MaxStarts
    BY <1>1, RegistryAssumption DEF TypeOK
  <2>2. ASSUME NEW c \in Ctls, RunContainer(c)
        PROVE  container' \in 0..MaxStarts
    <3>1. clock <= MaxStarts => clock \in 0..MaxStarts
      BY <1>1, RegistryAssumption DEF TypeOK
    <3> QED
      BY <2>1, <2>2, <3>1 DEF RunContainer, Born
  <2>3. ASSUME NEW c \in Ctls, Controller(c), ~RunContainer(c)
        PROVE  container' \in {container, 0}
    BY <2>3 DEF Controller, Reconcile, CmdStart, AcquireStartLock,
       StartLockTimeout, GetFresh, Preflight, EnsureSidecars, RunHost, RecordStart, CmdStop,
       StopContainer, PodmanStop, ReapSidecars, StopHost, GraceOver, SigKill, WriteStopped,
       CmdRemove, CmdAdd, CtlKilled, world
  <2>4. CASE World \/ UNCHANGED vars
    BY <2>1, <2>4 DEF World, LoopEnds, ProcessEnds, PidReused, ContainerEnds, vars
  <2> QED
    BY <2>1, <2>2, <2>3, <2>4 DEF Next, World
<1>5. /\ sidecars' \subseteq {"proxies", "graphify"}
      /\ sentinel' \in [reason : {"none", "clean", "other"}, of : 0..MaxStarts]
  <2>1. CASE UNCHANGED <<sidecars, sentinel>>
    BY <1>1, <2>1 DEF TypeOK
  <2>2. ASSUME NEW c \in Ctls, Controller(c)
        PROVE  UNCHANGED sentinel /\ sidecars' \subseteq {"proxies", "graphify"}
    BY <1>1, <2>2 DEF TypeOK, EnsureProxies, EnsureGraphify, Proxies, Controller, Reconcile, CmdStart,
       AcquireStartLock, StartLockTimeout, GetFresh, Preflight, EnsureSidecars, RunHost, RunContainer,
       RecordStart, CmdStop, StopContainer, PodmanStop, ReapSidecars, StopHost, GraceOver, SigKill,
       WriteStopped, CmdRemove, CmdAdd, CtlKilled, world
  <2>3. ASSUME NEW p \in Pids, LoopEnds(p)
        PROVE  /\ UNCHANGED sidecars
               /\ sentinel' \in [reason : {"none", "clean", "other"}, of : 0..MaxStarts]
    <3>1. proc[p].start \in 0..MaxStarts
      BY <1>1, <2>3, RegistryAssumption DEF LoopEnds, LiveLoops, TypeOK, Process, Times
    <3> QED
      BY <1>1, <2>3, <3>1 DEF LoopEnds, TypeOK
  <2>4. CASE ContainerEnds
    BY <1>1, <2>4 DEF ContainerEnds, TypeOK
  <2> QED
    BY <1>1, <2>1, <2>2, <2>3, <2>4 DEF Next, TypeOK, ProcessEnds, PidReused, vars
<1>6. kills' \in 0..MaxKills /\ lost' \in BOOLEAN /\ struck' \subseteq {"term", "kill"} /\ shut' \in BOOLEAN
  <2>1. CASE UNCHANGED <<kills, history>>
    BY <1>1, <2>1 DEF TypeOK, history
  <2>2. ASSUME NEW c \in Ctls, CtlKilled(c)
        PROVE  kills' \in 0..MaxKills /\ lost' \in BOOLEAN /\ UNCHANGED <<struck, shut>>
    BY <1>1, <2>2, RegistryAssumption DEF CtlKilled, TypeOK
  <2>3. ASSUME NEW c \in Ctls, WriteStopped(c) \/ CmdRemove(c)
        PROVE  UNCHANGED <<kills, struck>> /\ lost' \in BOOLEAN /\ shut' \in BOOLEAN
    BY <1>1, <2>3 DEF WriteStopped, CmdRemove, TypeOK
  <2>4. ASSUME NEW c \in Ctls, ReapSidecars(c) \/ StopHost(c) \/ SigKill(c)
        PROVE  UNCHANGED <<kills, lost, shut>> /\ struck' \subseteq {"term", "kill"}
    BY <1>1, <2>4 DEF ReapSidecars, StopHost, SigKill, Strike, TypeOK
  <2>5. ASSUME NEW c \in Ctls, Controller(c)
        PROVE  kills' \in 0..MaxKills /\ lost' \in BOOLEAN /\ struck' \subseteq {"term", "kill"} /\ shut' \in BOOLEAN
    BY <1>1, <2>1, <2>2, <2>3, <2>4, <2>5 DEF Controller, Reconcile, CmdStart, AcquireStartLock,
       StartLockTimeout, GetFresh, Preflight, EnsureSidecars, RunHost, RunContainer, RecordStart,
       CmdStop, StopContainer, PodmanStop, GraceOver, CmdAdd, TypeOK
  <2>6. CASE World \/ UNCHANGED vars
    BY <2>1, <2>6 DEF World, LoopEnds, ProcessEnds, PidReused, ContainerEnds, vars, history
  <2> QED
    BY <2>5, <2>6 DEF Next, World
<1> QED
  BY <1>1, <1>2, <1>3, <1>4, <1>5, <1>6 DEF TypeOK

\* What was genuine stays so: a pid is used again only by a later process.
LEMMA GenuineStays ==
  ASSUME TypeOK, [Next]_vars, NEW p \in Pids \cup {None}, NEW tok, Genuine(p, tok, proc, clock)
  PROVE  Genuine(p, tok, proc', clock')
<1> SUFFICES ASSUME p # None
             PROVE  /\ tok # None
                    /\ tok \in Times =>
                         /\ tok < clock'
                         /\ proc'[p] # None /\ proc'[p].start = tok => proc'[p].kind # "alien"
  BY DEF Genuine
<1>1. /\ Ages(p) /\ clock <= clock' /\ clock \in Nat /\ clock' \in Nat
      /\ tok # None /\ tok \in Times => tok < clock
  BY EveryPidAges, RegistryAssumption DEF TypeOK, Genuine
<1>2. ASSUME tok \in Times
      PROVE  /\ tok < clock'
             /\ proc'[p] # None /\ proc'[p].start = tok => proc'[p].kind # "alien"
  <2>1. tok \in Nat /\ tok < clock
    BY <1>1, <1>2, RegistryAssumption DEF Times
  <2> QED
    BY <1>1, <1>2, <2>1 DEF Ages, Genuine
<1>3. tok # None
  BY DEF Genuine
<1> QED
  BY <1>2, <1>3

\* What a controller remembers or has spawned: what it had, the record's, or the new child's.
Learns(c) ==
  /\ \/ ctl'[c].snap \in {None, ctl[c].snap}
     \/ reg # None /\ ctl'[c].snap = Handle(reg)
     \/ reg # None /\ ReconcileReg /\ ctl'[c].snap = Handle(reg')
  /\ ctl'[c].pc = "record" =>
       \/ ctl[c].pc = "record" /\ ctl'[c].pid = ctl[c].pid /\ ctl'[c].tok = ctl[c].tok
       \/ /\ ctl'[c].pid \in Pids /\ ctl'[c].tok \in {clock, Missing} /\ clock' = clock + 1
          /\ proc'[ctl'[c].pid] # None /\ proc'[ctl'[c].pid].kind # "alien"

\* What a controller learns of a process: from the look-up, or from its own spawn.
LEMMA ControllerLearns ==
  ASSUME TypeOK, NEW c \in Ctls, Controller(c)
  PROVE  Learns(c)
<1>1. ctl \in [Ctls -> Doing] /\ ctl[c] \in Doing /\ reg \in Project \cup {None}
      /\ proc \in [Pids -> Process \cup {None}]
  BY DEF TypeOK
<1>2. CASE UNCHANGED ctl
  BY <1>1, <1>2 DEF Learns
<1>3. ASSUME NEW x \in Steps \ {"record"}, Goto(c, x)
      PROVE  Learns(c)
  BY <1>3, GotoSays DEF Learns
<1>4. ASSUME Done(c)
      PROVE  Learns(c)
  BY <1>4, DoneSays DEF Learns
<1>5. ASSUME NEW p \in Pids, NEW kind \in {"loop", "streamer"}, Born(p, kind), ToRecord(c, p)
      PROVE  Learns(c)
  <2>1. PICK tok \in {clock, Missing} :
          ctl' = [ctl EXCEPT ![c] = [ctl[c] EXCEPT !.pc = "record", !.pid = p, !.tok = tok]]
    BY <1>5 DEF ToRecord
  <2>2. clock \in Times /\ clock' = clock + 1
    BY <1>5, RegistryAssumption DEF Born, TypeOK, Times
  <2> DEFINE new == NewProcess(kind)
  <2>3. new \in Process /\ new.kind = kind
    BY <2>2 DEF NewProcess, Process
  <2>4. proc' = [proc EXCEPT ![p] = new]
    BY <1>5 DEF Born
  <2> HIDE DEF new
  <2>5. proc'[p] = new /\ new # None /\ new.kind # "alien"
    BY <1>1, <2>3, <2>4, RegistryAssumption
  <2>6. PICK b \in Doing : b = ctl[c]
    BY <1>1
  <2> DEFINE d == [b EXCEPT !.pc = "record", !.pid = p, !.tok = tok]
  <2>7. d.pid = p /\ d.tok = tok /\ d.snap = b.snap
    BY DEF Doing
  <2>8. ctl' = [ctl EXCEPT ![c] = d]
    BY <2>1, <2>6
  <2> HIDE DEF d
  <2>9. ctl'[c] = d
    BY <1>1, <2>8
  <2> QED
    BY <2>1, <2>2, <2>5, <2>6, <2>7, <2>9 DEF Learns
<1>6. CASE RunHost(c)
  BY <1>4, <1>5, <1>6 DEF RunHost
<1>7. CASE RunContainer(c)
  BY <1>4, <1>5, <1>7 DEF RunContainer
<1>8. ASSUME NEW mode \in Modes, CmdStart(c, mode)
      PROVE  Learns(c)
  <2>1. [Idle EXCEPT !.pc = "lock", !.mode = mode].snap = None
        /\ [Idle EXCEPT !.pc = "lock", !.mode = mode].pc = "lock"
    BY DEF Idle
  <2> QED
    BY <1>1, <1>2, <1>8, <2>1 DEF CmdStart, Learns
<1>9. CASE GetFresh(c)
  <2>1. ASSUME reg # None, ctl' = [ctl EXCEPT ![c].pc = "preflight", ![c].snap = Handle(reg)]
        PROVE  Learns(c)
    <3>1. PICK b \in Doing : b = ctl[c]
      BY <1>1
    <3> DEFINE y == Handle(reg)
    <3> HIDE DEF y
    <3> DEFINE d == [b EXCEPT !.pc = "preflight", !.snap = y]
    <3>2. d.snap = y /\ d.pc = "preflight"
      BY DEF Doing
    <3>3. ctl' = [ctl EXCEPT ![c] = d]
      BY <2>1, <3>1 DEF y
    <3> HIDE DEF d
    <3>4. ctl'[c] = d
      BY <1>1, <3>3
    <3> QED
      BY <2>1, <3>2, <3>4 DEF Learns, y
  <2> QED
    BY <1>4, <1>9, <2>1 DEF GetFresh
<1>10. CASE Preflight(c)
  <2>1. ASSUME ctl' = [ctl EXCEPT ![c].pc = "sidecars", ![c].snap = None]
        PROVE  Learns(c)
    BY <1>1, <2>1 DEF Learns, Doing
  <2> QED
    BY <1>4, <1>10, <2>1 DEF Preflight
<1>11. CASE CmdStop(c)
  <2>1. ASSUME reg # None, ctl' = [ctl EXCEPT ![c] = [Idle EXCEPT !.pc = "stop", !.snap = Handle(reg')]]
        PROVE  Learns(c)
    <3> DEFINE y == Handle(reg')
    <3> HIDE DEF y
    <3>1. [Idle EXCEPT !.pc = "stop", !.snap = y].snap = y
          /\ [Idle EXCEPT !.pc = "stop", !.snap = y].pc = "stop"
      BY DEF Idle
    <3>2. ctl'[c] = [Idle EXCEPT !.pc = "stop", !.snap = y]
      BY <1>1, <2>1 DEF y
    <3> QED
      BY <1>11, <2>1, <3>1, <3>2 DEF Learns, CmdStop, y
  <2> QED
    BY <1>2, <1>11, <2>1 DEF CmdStop
<1>12. CASE CtlKilled(c)
  <2>1. [Idle EXCEPT !.pc = "dead"].snap = None /\ [Idle EXCEPT !.pc = "dead"].pc = "dead"
    BY DEF Idle
  <2> QED
    BY <1>1, <1>12, <2>1 DEF CtlKilled, Learns
<1>13. CASE StopContainer(c)
  <2>1. PICK running \in ContainerRunning : Goto(c, IF running THEN "podman" ELSE "reap")
    BY <1>13 DEF StopContainer
  <2>2. Goto(c, "podman") \/ Goto(c, "reap")
    BY <2>1
  <2> QED
    BY <1>3, <2>2 DEF Steps
<1>14. CASE GraceOver(c)
  <2>1. Goto(c, "kill") \/ Goto(c, "write")
    BY <1>14 DEF GraceOver
  <2> QED
    BY <1>3, <2>1 DEF Steps
<1>15. CASE StopHost(c)
  <2>1. Goto(c, "write") \/ Goto(c, "grace") \/ Done(c)
    BY <1>15 DEF StopHost
  <2> QED
    BY <1>3, <1>4, <2>1 DEF Steps
<1>16. CASE AcquireStartLock(c) \/ StartLockTimeout(c) \/ EnsureSidecars(c) \/ RecordStart(c)
            \/ PodmanStop(c) \/ ReapSidecars(c) \/ SigKill(c) \/ WriteStopped(c)
  BY <1>3, <1>4, <1>16 DEF AcquireStartLock, StartLockTimeout, EnsureSidecars, RecordStart,
     PodmanStop, ReapSidecars, SigKill, WriteStopped, Steps
<1>17. CASE Reconcile(c) \/ CmdRemove(c) \/ CmdAdd(c)
  BY <1>2, <1>17 DEF Reconcile, CmdRemove, CmdAdd
<1> QED
  BY <1>6, <1>7, <1>8, <1>9, <1>10, <1>11, <1>12, <1>13, <1>14, <1>15, <1>16, <1>17 DEF Controller

\* What a step writes into the record.
LEMMA RecordLearns ==
  ASSUME TypeOK, [Next]_vars
  PROVE  \/ reg' = reg \/ reg' = None \/ ReconcileReg
         \/ reg' # None /\ reg'.pid = None
         \/ \E c \in Ctls : RecordStart(c) /\ reg'.pid = ctl[c].pid /\ reg'.start = ctl[c].tok
<1>1. ASSUME NEW c \in Ctls, RecordStart(c)
      PROVE  reg' = reg \/ (reg'.pid = ctl[c].pid /\ reg'.start = ctl[c].tok)
  BY <1>1 DEF RecordStart
<1>2. ASSUME NEW c \in Ctls, WriteStopped(c)
      PROVE  reg' = None \/ (reg' # None /\ reg'.pid = None)
  <2>1. reg # None => /\ [reg EXCEPT !.state = "stopped", !.pid = None] \in Project
                      /\ [reg EXCEPT !.state = "stopped", !.pid = None].pid = None
    BY DEF TypeOK, Project, States
  <2> QED
    BY <1>2, <2>1, RegistryAssumption DEF WriteStopped
<1>3. ASSUME NEW c \in Ctls, CmdAdd(c)
      PROVE  reg' # None /\ reg'.pid = None
  <2>1. [state |-> "fresh", pid |-> None, start |-> None, cont |-> FALSE] \in Project
    BY DEF Project, States
  <2> QED
    BY <1>3, <2>1, RegistryAssumption DEF CmdAdd
<1>4. ASSUME NEW c \in Ctls, Controller(c), ~RecordStart(c), ~WriteStopped(c), ~CmdAdd(c)
      PROVE  reg' = reg \/ reg' = None \/ ReconcileReg
  BY <1>4 DEF Controller, Reconcile, CmdStart, AcquireStartLock, StartLockTimeout, GetFresh,
     Preflight, EnsureSidecars, RunHost, RunContainer, CmdStop, StopContainer, PodmanStop,
     ReapSidecars, StopHost, GraceOver, SigKill, CmdRemove, CtlKilled
<1>5. CASE World \/ UNCHANGED vars
  BY <1>5 DEF World, LoopEnds, ProcessEnds, PidReused, ContainerEnds, vars
<1> QED
  BY <1>1, <1>2, <1>3, <1>4, <1>5 DEF Next, World

\* The identity a record or a snapshot holds is never that of a stranger, whatever pids
\* reused.
LEMMA ToldStep ==
  ASSUME IInv, [Next]_vars
  PROVE  Told'
<1>1. /\ TypeOK /\ Told /\ TypeOK' /\ ctl \in [Ctls -> Doing] /\ ctl' \in [Ctls -> Doing]
      /\ reg \in Project \cup {None} /\ reg' \in Project \cup {None}
  BY TypeStep DEF IInv, TypeOK
<1>2. \A p \in Pids \cup {None} : \A tok : Genuine(p, tok, proc, clock) => Genuine(p, tok, proc', clock')
  BY <1>1, GenuineStays
<1>3. ASSUME NEW tok
      PROVE  Genuine(None, tok, proc', clock')
  BY DEF Genuine
<1>4. ASSUME reg' # None
      PROVE  Genuine(reg'.pid, reg'.start, proc', clock')
  <2>1. CASE reg' = reg
    BY <1>1, <1>2, <1>4, <2>1 DEF Told, Project
  <2>2. CASE ReconcileReg
    <3>1. /\ reg # None /\ reg'.start = reg.start
          /\ reg'.pid = reg.pid \/ reg'.pid = None
      BY <1>1, <1>4, <2>2, ReconcileKeeps
    <3> QED
      BY <1>1, <1>2, <1>3, <3>1 DEF Told, Project
  <2>3. ASSUME NEW c \in Ctls, RecordStart(c), reg'.pid = ctl[c].pid, reg'.start = ctl[c].tok
        PROVE  Genuine(reg'.pid, reg'.start, proc', clock')
    BY <1>1, <1>2, <2>3 DEF Told, RecordStart, At, Doing
  <2> QED
    BY <1>1, <1>3, <1>4, <2>1, <2>2, <2>3, RecordLearns
<1>5. ASSUME NEW c \in Ctls
      PROVE  /\ ctl'[c].snap # None => Genuine(ctl'[c].snap.pid, ctl'[c].snap.start, proc', clock')
             /\ ctl'[c].pc = "record" => Genuine(ctl'[c].pid, ctl'[c].tok, proc', clock')
  <2>1. ctl[c] \in Doing /\ (ctl[c].snap # None => ctl[c].snap.pid \in Pids \cup {None})
    BY <1>1 DEF Doing, Snapshot
  <2>2. CASE ctl'[c] = ctl[c]
    BY <1>1, <1>2, <2>1, <2>2 DEF Told, Doing
  <2>3. CASE Learns(c)
    <3>1. ASSUME ctl'[c].snap # None
          PROVE  Genuine(ctl'[c].snap.pid, ctl'[c].snap.start, proc', clock')
      <4>1. CASE ctl'[c].snap = ctl[c].snap
        BY <1>1, <1>2, <2>1, <3>1, <4>1 DEF Told
      <4>2. CASE reg # None /\ ctl'[c].snap = Handle(reg)
        BY <1>1, <1>2, <4>2, HandleTypes DEF Told, Project
      <4>3. CASE reg # None /\ ReconcileReg /\ ctl'[c].snap = Handle(reg')
        <5>1. reg' \in Project /\ reg' # None
          BY <1>1, <4>3, ReconcileKeeps, RegistryAssumption
        <5> QED
          BY <1>4, <4>3, <5>1, HandleTypes
      <4> QED
        BY <2>3, <3>1, <4>1, <4>2, <4>3 DEF Learns
    <3>2. ASSUME ctl'[c].pc = "record"
          PROVE  Genuine(ctl'[c].pid, ctl'[c].tok, proc', clock')
      <4>1. CASE ctl[c].pc = "record" /\ ctl'[c].pid = ctl[c].pid /\ ctl'[c].tok = ctl[c].tok
        BY <1>1, <1>2, <2>1, <4>1 DEF Told, Doing
      <4>2. CASE /\ ctl'[c].pid \in Pids /\ ctl'[c].tok \in {clock, Missing} /\ clock' = clock + 1
                 /\ proc'[ctl'[c].pid] # None /\ proc'[ctl'[c].pid].kind # "alien"
        <5>1. clock \in Nat /\ Missing \notin Times /\ None \notin Nat
          BY <1>1, RegistryAssumption DEF TypeOK, Times
        <5> QED
          BY <4>2, <5>1, RegistryAssumption DEF Genuine
      <4> QED
        BY <2>3, <3>2, <4>1, <4>2 DEF Learns
    <3> QED
      BY <3>1, <3>2
  <2>4. ctl'[c] = ctl[c] \/ Learns(c)
    <3>1. ASSUME NEW d \in Ctls, Controller(d)
          PROVE  ctl'[c] = ctl[c] \/ Learns(c)
      BY <1>1, <3>1, ControllerLearns, ControllerMoves DEF Moves, Others, IInv
    <3>2. CASE World \/ UNCHANGED vars
      BY <3>2 DEF World, LoopEnds, ProcessEnds, PidReused, ContainerEnds, vars
    <3> QED
      BY <3>1, <3>2 DEF Next, World
  <2> QED
    BY <2>2, <2>3, <2>4
<1> QED
  BY <1>4, <1>5 DEF Told, Genuine

\* SIGTERM is sent only where the recorded start time is the process's own.
LEMMA SparedStep ==
  ASSUME IInv, [Next]_vars
  PROVE  TermSparesStrangers'
<1>1. TypeOK /\ Told /\ Remembered /\ "term" \notin struck
  BY DEF IInv, TermSparesStrangers
<1>2. CASE UNCHANGED struck
  BY <1>1, <1>2 DEF TermSparesStrangers
<1>3. ASSUME NEW c \in Ctls, ctl[c].snap # None, IsPidAlive(ctl[c].snap.pid),
             MatchesStartup(ctl[c].snap), Strike(ctl[c].snap.pid, "term")
      PROVE  TermSparesStrangers'
  <2> DEFINE r == ctl[c].snap
  <2>1. r \in Snapshot /\ Genuine(r.pid, r.start, proc, clock)
    BY <1>1, <1>3 DEF TypeOK, Doing, Told
  <2>2. r.pid # None /\ proc[r.pid] # None /\ r.start # None
    BY <1>3, <2>1 DEF IsPidAlive, Genuine
  <2>3. r.start # Missing /\ proc[r.pid].start = r.start
    BY <1>3, <2>2 DEF MatchesStartup
  <2>4. r.start \in Times
    BY <2>1, <2>2, <2>3 DEF Snapshot
  <2>5. proc[r.pid].kind # "alien"
    BY <2>1, <2>2, <2>3, <2>4 DEF Genuine
  <2> QED
    BY <1>1, <1>3, <2>5 DEF Strike, TermSparesStrangers
<1>4. ASSUME NEW c \in Ctls, ReapSidecars(c)
      PROVE  TermSparesStrangers'
  BY <1>1, <1>2, <1>3, <1>4 DEF ReapSidecars, Remembered, WithSnap, At
<1>5. ASSUME NEW c \in Ctls, StopHost(c)
      PROVE  TermSparesStrangers'
  <2> DEFINE r == ctl[c].snap
  <2>1. ctl[c].snap # None
    BY <1>1, <1>5 DEF StopHost, Remembered, WithSnap, At
  <2>2. CASE ~IsPidAlive(r.pid)
    BY <1>2, <1>5, <2>2 DEF StopHost
  <2>3. CASE IsPidAlive(r.pid) /\ ~MatchesStartup(r)
    BY <1>2, <1>5, <2>3 DEF StopHost
  <2>4. CASE IsPidAlive(r.pid) /\ MatchesStartup(r)
    <3>1. Strike(r.pid, "term")
      BY <1>5, <2>4 DEF StopHost
    <3> QED
      BY <1>3, <2>1, <2>4, <3>1
  <2> QED
    BY <2>2, <2>3, <2>4
<1>6. ASSUME NEW c \in Ctls, SigKill(c)
      PROVE  TermSparesStrangers'
  BY <1>1, <1>6 DEF SigKill, Strike, TermSparesStrangers
<1>7. ASSUME NEW c \in Ctls, Controller(c), ~ReapSidecars(c), ~StopHost(c), ~SigKill(c)
      PROVE  UNCHANGED struck
  BY <1>7 DEF Controller, Reconcile, CmdStart, AcquireStartLock, StartLockTimeout, GetFresh,
     Preflight, EnsureSidecars, RunHost, RunContainer, RecordStart, CmdStop, StopContainer,
     PodmanStop, GraceOver, WriteStopped, CmdRemove, CmdAdd, CtlKilled, history
<1>8. CASE World \/ UNCHANGED vars
  BY <1>2, <1>8 DEF World, LoopEnds, ProcessEnds, PidReused, ContainerEnds, vars, history
<1> QED
  BY <1>2, <1>4, <1>5, <1>6, <1>7, <1>8 DEF Next, World

-----------------------------------------------------------------------------
(* No live loop goes unnamed.                                               *)

\* A step of c that spawns no loop, unnames none and keeps to what c has checked.
LEMMA NamedKept ==
  ASSUME TypeOK, Named, ~lost, NEW c \in Ctls, Others(c), LiveLoops' \subseteq LiveLoops,
         reg' = reg, ctl[c].pc # "record",
         ctl'[c].pc = "preflight" => LiveLoops' \subseteq {ctl'[c].snap.pid},
         ctl'[c].pc \in {"sidecars", "run"} => LiveLoops' = {},
         ctl'[c].pc # "record"
  PROVE  Named'
<1>1. ASSUME NEW p \in LiveLoops'
      PROVE  Names(p)'
  <2>1. Names(p)
    BY <1>1 DEF Named
  <2> QED
    BY <2>1 DEF Names, Others
<1>2. ASSUME NEW d \in Ctls
      PROVE  Clear(d)'
  <2>1. CASE d = c
    BY <2>1 DEF Clear, LiveLoops
  <2>2. CASE d # c
    <3>1. ctl'[d] = ctl[d] /\ Clear(d)
      BY <2>2 DEF Others, Named
    <3> QED
      BY <3>1 DEF Clear, LiveLoops
  <2> QED
    BY <2>1, <2>2
<1> QED
  BY <1>1, <1>2 DEF Named, LiveLoops

\* A step that changes no controller: the record keeps naming what is live.
LEMMA NamedByRecord ==
  ASSUME TypeOK, Named, ~lost, UNCHANGED ctl, LiveLoops' \subseteq LiveLoops,
         \A p \in LiveLoops' : reg # None /\ ~reg.cont /\ reg.pid = p
                                 => reg' # None /\ ~reg'.cont /\ reg'.pid = p
  PROVE  Named'
<1>1. ASSUME NEW p \in LiveLoops'
      PROVE  Names(p)'
  BY <1>1 DEF Named, Names
<1>2. ASSUME NEW d \in Ctls
      PROVE  Clear(d)'
  <2>1. Clear(d)
    BY DEF Named
  <2> QED
    BY <2>1 DEF Clear, LiveLoops
<1> QED
  BY <1>1, <1>2 DEF Named, LiveLoops

\* A reconcile takes the pid away from no live loop.
LEMMA ReconcileKeepsNames ==
  ASSUME TypeOK, ReconcileReg, LiveLoops' = LiveLoops, NEW p \in LiveLoops,
         reg # None, ~reg.cont, reg.pid = p
  PROVE  reg' # None /\ ~reg'.cont /\ reg'.pid = p
<1>1. IsPidAlive(reg.pid)
  BY RegistryAssumption DEF IsPidAlive, LiveLoops
<1>2. reg' \in Project /\ reg'.pid = reg.pid /\ reg'.cont = reg.cont
  BY <1>1, ReconcileKeeps
<1> QED
  BY <1>2, RegistryAssumption

\* A live loop is named by the record, or by the controller that has just started it.
LEMMA NamedStep ==
  ASSUME IInv, [Next]_vars
  PROVE  Named'
<1> SUFFICES ASSUME ~lost'
             PROVE  Named'
  BY DEF Named
<1>1. /\ TypeOK /\ Held /\ Remembered /\ Named /\ reg \in Project \cup {None} /\ None \notin Pids
      /\ ctl \in [Ctls -> Doing] /\ proc \in [Pids -> Process \cup {None}] /\ LiveLoops \subseteq Pids
  BY RegistryAssumption DEF IInv, TypeOK, LiveLoops
<1>2. ~lost
  <2>1. ASSUME NEW c \in Ctls, Controller(c)
        PROVE  ~lost
    BY <2>1 DEF Controller, Reconcile, CmdStart, AcquireStartLock, StartLockTimeout, GetFresh,
       Preflight, EnsureSidecars, RunHost, RunContainer, RecordStart, CmdStop, StopContainer,
       PodmanStop, ReapSidecars, StopHost, GraceOver, SigKill, WriteStopped, CmdRemove, CmdAdd,
       CtlKilled, history
  <2>2. CASE World \/ UNCHANGED vars
    BY <2>2 DEF World, LoopEnds, ProcessEnds, PidReused, ContainerEnds, vars, history
  <2> QED
    BY <2>1, <2>2 DEF Next, World
<1>3. ASSUME \A c \in Ctls : ~RunHost(c)
      PROVE  LiveLoops' \subseteq LiveLoops
  BY <1>1, <1>3, LoopsOnlyByRunHost
<1>4. CASE World \/ UNCHANGED vars
  <2>1. UNCHANGED <<reg, ctl>>
    BY <1>4 DEF World, LoopEnds, ProcessEnds, PidReused, ContainerEnds, vars
  <2>2. \A c \in Ctls : RunHost(c) => ctl' # ctl
    <3>1. ASSUME NEW c \in Ctls, RunHost(c)
          PROVE  ctl'[c].pc # "run"
      <4>1. CASE Done(c)
        BY <1>1, <4>1, DoneSays
      <4>2. ASSUME NEW p \in Pids, ToRecord(c, p)
            PROVE  ctl'[c].pc # "run"
        BY <1>1, <4>2 DEF ToRecord, Doing
      <4> QED
        BY <3>1, <4>1, <4>2 DEF RunHost
    <3> QED
      BY <3>1 DEF RunHost, At
  <2> QED
    BY <1>1, <1>2, <1>3, <2>1, <2>2, NamedByRecord
<1>5. ASSUME NEW c \in Ctls, RunHost(c)
      PROVE  Named'
  <2>1. LiveLoops = {} /\ ctl[c].pc = "run" /\ ctl[c].mode = "host" /\ UNCHANGED <<reg, lost>>
    BY <1>1, <1>2, <1>5 DEF Named, Clear, RunHost, At, history
  <2>2. CASE Done(c)
    <3>1. Others(c) /\ ctl'[c].pc = "idle"
      BY <1>1, <2>2, DoneSays
    <3>2. \A p \in Pids : ~ToRecord(c, p)
      BY <1>1, <3>1 DEF ToRecord, Doing
    <3>3. LiveLoops' \subseteq LiveLoops
      BY <1>5, <3>2 DEF RunHost, LiveLoops
    <3> QED
      BY <1>1, <1>2, <2>1, <3>1, <3>3, NamedKept
  <2>3. ASSUME NEW p \in Pids, Born(p, "loop"), ToRecord(c, p)
        PROVE  Named'
    <3>1. /\ Others(c) /\ ctl'[c].pc = "record" /\ ctl'[c].pid = p /\ ctl'[c].mode = "host"
      BY <1>1, <2>1, <2>3 DEF ToRecord, Others, Doing
    <3>2. LiveLoops' \subseteq {p}
      BY <1>1, <2>1, <2>3 DEF Born, LiveLoops
    <3>3. \A d \in Ctls \ {c} : ctl'[d] = ctl[d] /\ ctl'[d].pc \notin InStart
      BY <1>1, <2>1, <3>1 DEF Held, InStart, Others
    <3>4. \A q \in LiveLoops' : Names(q)'
      BY <3>1, <3>2 DEF Names
    <3>5. \A d \in Ctls : Clear(d)'
      BY <3>1, <3>2, <3>3 DEF Clear, InStart, LiveLoops
    <3> QED
      BY <3>4, <3>5 DEF Named, LiveLoops
  <2> QED
    BY <1>5, <2>2, <2>3 DEF RunHost
<1>6. ASSUME NEW c \in Ctls, RecordStart(c), \A d \in Ctls : ~RunHost(d)
      PROVE  Named'
  <2>1. /\ Others(c) /\ ctl'[c].pc = "idle" /\ LiveLoops' \subseteq LiveLoops
        /\ LiveLoops \subseteq {ctl[c].pid} /\ (ctl[c].mode = "container" => LiveLoops = {})
        /\ ctl[c].pid \in Pids /\ ctl[c].mode \in {"host", "container"}
    BY <1>1, <1>2, <1>3, <1>6, DoneSays DEF RecordStart, At, Named, Clear, Remembered, Doing
  <2>2. \A d \in Ctls \ {c} : ctl'[d] = ctl[d] /\ ctl'[d].pc \notin InStart
    BY <1>1, <1>6, <2>1 DEF RecordStart, At, Held, InStart, Others
  <2>3. \A d \in Ctls : Clear(d)'
    BY <2>1, <2>2 DEF Clear, InStart
  <2>4. ASSUME NEW p \in LiveLoops'
        PROVE  Names(p)'
    <3>1. p = ctl[c].pid /\ p \in LiveLoops /\ ctl[c].mode = "host"
      BY <2>1, <2>4
    <3>2. CASE reg = None
      <4>1. Ours(c) /\ proc' = Without(p)
        BY <1>6, <3>1, <3>2 DEF RecordStart, Ours, LiveLoops
      <4>2. proc'[p] = None
        BY <1>1, <3>1, <4>1 DEF Without
      <4> QED
        BY <2>4, <4>2 DEF LiveLoops
    <3>3. CASE reg # None
      <4>1. reg' = [state |-> "running", pid |-> p, start |-> ctl[c].tok, cont |-> FALSE]
        BY <1>6, <3>1, <3>3 DEF RecordStart
      <4>2. reg' \in Project \cup {None} /\ ctl[c].tok \in Times \cup {None, Missing}
        BY <1>1, TypeStep DEF TypeOK, Doing
      <4>3. [state |-> "running", pid |-> p, start |-> ctl[c].tok, cont |-> FALSE] \in Project
        BY <2>1, <3>1, <4>2 DEF Project, States
      <4>4. reg' # None
        BY <4>1, <4>3, RegistryAssumption
      <4> QED
        BY <4>1, <4>4 DEF Names
    <3> QED
      BY <3>2, <3>3
  <2> QED
    BY <2>3, <2>4 DEF Named
<1>7. ASSUME NEW c \in Ctls, Controller(c), ~RecordStart(c), \A d \in Ctls : ~RunHost(d)
      PROVE  Named'
  <2>1. Moves(c) /\ LiveLoops' \subseteq LiveLoops
    BY <1>1, <1>3, <1>7, ControllerMoves
  <2>2. ASSUME ReconcileReg, UNCHANGED proc
        PROVE  \A p \in LiveLoops' : reg # None /\ ~reg.cont /\ reg.pid = p
                                       => reg' # None /\ ~reg'.cont /\ reg'.pid = p
    <3>1. LiveLoops' = LiveLoops
      BY <2>2 DEF LiveLoops
    <3> QED
      BY <1>1, <2>2, <3>1, ReconcileKeepsNames
  <2>3. CASE Reconcile(c)
    BY <1>1, <1>2, <2>1, <2>2, <2>3, NamedByRecord DEF Reconcile, world
  <2>4. ASSUME ReconcileReg, UNCHANGED proc, ctl[c].pc = "idle", ctl'[c].pc \in {"idle", "lock", "stop"}
        PROVE  Named'
    <3>1. ASSUME NEW p \in LiveLoops'
          PROVE  Names(p)'
      <4>1. Names(p)
        BY <1>1, <1>2, <2>1, <3>1 DEF Named
      <4> QED
        BY <2>1, <2>2, <2>4, <3>1, <4>1 DEF Names, Moves, Others
    <3>2. ASSUME NEW d \in Ctls
          PROVE  Clear(d)'
      <4>1. CASE d = c
        BY <2>4, <4>1 DEF Clear
      <4>2. CASE d # c
        <5>1. ctl'[d] = ctl[d] /\ Clear(d)
          BY <1>1, <1>2, <2>1, <4>2 DEF Moves, Others, Named
        <5> QED
          BY <2>1, <5>1 DEF Clear, LiveLoops
      <4> QED
        BY <4>1, <4>2
    <3> QED
      BY <3>1, <3>2 DEF Named
  <2>5. ASSUME NEW mode \in Modes, CmdStart(c, mode)
        PROVE  Named'
    <3>1. ctl'[c].pc \in {"idle", "lock"} /\ ctl[c].pc = "idle"
      BY <1>1, <2>5 DEF CmdStart, At, Idle
    <3> QED
      BY <2>4, <2>5, <3>1 DEF CmdStart, world
  <2>6. CASE CmdStop(c)
    <3> DEFINE y == Handle(reg')
    <3> HIDE DEF y
    <3>1. ctl' = ctl \/ ctl' = [ctl EXCEPT ![c] = [Idle EXCEPT !.pc = "stop", !.snap = y]]
      BY <2>6 DEF CmdStop, y
    <3>2. ctl'[c].pc \in {"idle", "stop"} /\ ctl[c].pc = "idle"
      BY <1>1, <2>6, <3>1 DEF CmdStop, At, Idle
    <3> QED
      BY <2>4, <2>6, <3>2 DEF CmdStop
  <2>7. ASSUME UNCHANGED reg, ctl[c].pc # "record", ctl'[c].pc \notin InStart
        PROVE  Named'
    BY <1>1, <1>2, <2>1, <2>7, NamedKept DEF Moves, InStart
  <2>8. CASE AcquireStartLock(c)
    <3>1. ctl'[c].pc = "get" /\ ctl[c].pc = "lock"
      BY <1>1, <2>8, GotoSays DEF AcquireStartLock, At, Steps
    <3> QED
      BY <1>1, <1>2, <2>1, <2>8, <3>1, NamedKept DEF Moves, AcquireStartLock
  <2>9. CASE GetFresh(c)
    <3>1. CASE Done(c)
      BY <1>1, <2>7, <2>9, <3>1, DoneSays DEF GetFresh, At, InStart
    <3>2. CASE reg # None /\ ctl' = [ctl EXCEPT ![c].pc = "preflight", ![c].snap = Handle(reg)]
      <4> DEFINE y == Handle(reg)
      <4>1. y.pid = reg.pid
        BY <1>1, <3>2, HandleTypes
      <4> HIDE DEF y
      <4>2. ctl' = [ctl EXCEPT ![c].pc = "preflight", ![c].snap = y]
        BY <3>2 DEF y
      <4>3. ctl'[c].pc = "preflight" /\ ctl'[c].snap = y
        BY <1>1, <4>2 DEF Doing
      <4>4. \A d \in Ctls : ctl[d].pc # "record"
        BY <1>1, <2>9 DEF GetFresh, At, Held, InStart
      <4>5. LiveLoops \subseteq {reg.pid}
        BY <1>1, <1>2, <4>4 DEF Named, Names
      <4> QED
        BY <1>1, <1>2, <2>1, <2>9, <4>1, <4>3, <4>4, <4>5, NamedKept DEF Moves, GetFresh
    <3> QED
      BY <2>9, <3>1, <3>2 DEF GetFresh
  <2>10. CASE Preflight(c)
    <3>1. CASE Done(c)
      BY <1>1, <2>7, <2>10, <3>1, DoneSays DEF Preflight, At, InStart
    <3>2. CASE ~PreflightRefuses(c) /\ ctl' = [ctl EXCEPT ![c].pc = "sidecars", ![c].snap = None]
      <4>1. ctl'[c].pc = "sidecars" /\ ctl[c].pc = "preflight"
        BY <1>1, <2>10, <3>2 DEF Preflight, At, Doing
      <4>2. LiveLoops \subseteq {ctl[c].snap.pid} /\ ~IsPidAlive(ctl[c].snap.pid)
        BY <1>1, <1>2, <3>2, <4>1 DEF Named, Clear, PreflightRefuses
      <4>3. LiveLoops = {}
        BY <1>1, <4>2 DEF IsPidAlive, LiveLoops
      <4> QED
        BY <1>1, <1>2, <2>1, <2>10, <4>1, <4>3, NamedKept DEF Moves, Preflight
    <3> QED
      BY <2>10, <3>1, <3>2 DEF Preflight
  <2>11. CASE EnsureSidecars(c)
    <3>1. CASE Done(c)
      BY <1>1, <2>7, <2>11, <3>1, DoneSays DEF EnsureSidecars, At, InStart
    <3>2. CASE Goto(c, "run")
      <4>1. ctl'[c].pc = "run" /\ ctl[c].pc = "sidecars"
        BY <1>1, <2>11, <3>2, GotoSays DEF EnsureSidecars, At, Steps
      <4>2. LiveLoops = {}
        BY <1>1, <1>2, <4>1 DEF Named, Clear
      <4> QED
        BY <1>1, <1>2, <2>1, <2>11, <4>1, <4>2, NamedKept DEF Moves, EnsureSidecars
    <3> QED
      BY <2>11, <3>1, <3>2 DEF EnsureSidecars
  <2>12. CASE RunContainer(c)
    <3>1. CASE Done(c)
      BY <1>1, <2>7, <2>12, <3>1, DoneSays DEF RunContainer, At, InStart
    <3>2. ASSUME NEW p \in Pids, ToRecord(c, p)
          PROVE  Named'
      <4>1. LiveLoops = {}
        BY <1>1, <1>2, <2>12 DEF RunContainer, At, Named, Clear
      <4>2. LiveLoops' = {}
        BY <2>1, <4>1
      <4> QED
        BY <4>2 DEF Named, Clear, LiveLoops
    <3> QED
      BY <2>12, <3>1, <3>2 DEF RunContainer
  <2>13. CASE StartLockTimeout(c)
    BY <1>1, <2>7, <2>13, DoneSays DEF StartLockTimeout, At, InStart
  <2>14. CASE StopContainer(c)
    <3>1. PICK running \in ContainerRunning : Goto(c, IF running THEN "podman" ELSE "reap")
      BY <2>14 DEF StopContainer
    <3>2. Goto(c, "podman") \/ Goto(c, "reap")
      BY <3>1
    <3> QED
      BY <1>1, <2>7, <2>14, <3>2, GotoSays DEF StopContainer, At, InStart, Steps
  <2>15. CASE PodmanStop(c) \/ ReapSidecars(c) \/ SigKill(c)
    BY <1>1, <2>7, <2>15, DoneSays, GotoSays DEF PodmanStop, ReapSidecars, SigKill, At, InStart, Steps
  <2>16. CASE StopHost(c)
    <3>1. Goto(c, "write") \/ Goto(c, "grace") \/ Done(c)
      BY <2>16 DEF StopHost
    <3> QED
      BY <1>1, <2>7, <2>16, <3>1, DoneSays, GotoSays DEF StopHost, At, InStart, Steps
  <2>17. CASE GraceOver(c)
    <3>1. Goto(c, "kill") \/ Goto(c, "write")
      BY <2>17 DEF GraceOver
    <3> QED
      BY <1>1, <2>7, <2>17, <3>1, GotoSays DEF GraceOver, At, InStart, Steps
  <2>18. CASE WriteStopped(c)
    <3>1. reg = None \/ reg.cont \/ LiveLoops = {}
      BY <2>18 DEF WriteStopped
    <3>2. ctl'[c].pc = "idle" /\ Others(c) /\ ctl[c].pc = "write"
      BY <1>1, <2>18, DoneSays DEF WriteStopped, At
    <3>3. ASSUME NEW p \in LiveLoops'
          PROVE  Names(p)'
      <4>1. Names(p) /\ ~(reg # None /\ ~reg.cont /\ reg.pid = p)
        BY <1>1, <1>2, <2>1, <3>1, <3>3 DEF Named
      <4> QED
        BY <3>2, <4>1 DEF Names, Others
    <3>4. ASSUME NEW d \in Ctls
          PROVE  Clear(d)'
      <4>1. CASE d = c
        BY <3>2, <4>1 DEF Clear
      <4>2. CASE d # c
        <5>1. ctl'[d] = ctl[d] /\ Clear(d)
          BY <1>1, <1>2, <3>2, <4>2 DEF Others, Named
        <5> QED
          BY <2>1, <5>1 DEF Clear, LiveLoops
      <4> QED
        BY <4>1, <4>2
    <3> QED
      BY <3>3, <3>4 DEF Named
  <2>19. CASE CmdRemove(c)
    <3>1. LiveLoops = {}
      BY <2>19 DEF CmdRemove, RunIsLive
    <3> QED
      BY <1>1, <1>2, <2>1, <2>19, <3>1, NamedByRecord DEF CmdRemove
  <2>20. CASE CmdAdd(c)
    BY <1>1, <1>2, <2>1, <2>20, NamedByRecord DEF CmdAdd
  <2>21. CASE CtlKilled(c)
    <3>1. ctl'[c].pc = "dead" /\ ctl[c].pc # "record"
      BY <1>1, <2>21 DEF CtlKilled, At, Idle
    <3> QED
      BY <2>7, <2>21, <3>1 DEF CtlKilled, InStart
  <2> QED
    BY <1>7, <2>3, <2>5, <2>6, <2>8, <2>9, <2>10, <2>11, <2>12, <2>13, <2>14, <2>15, <2>16,
       <2>17, <2>18, <2>19, <2>20, <2>21 DEF Controller
<1> QED
  BY <1>4, <1>5, <1>6, <1>7 DEF Next, World

-----------------------------------------------------------------------------
(* The results.                                                             *)

\* The invariant holds of an empty registry.
LEMMA Initially ==
  ASSUME Init
  PROVE  IInv
<1>1. reg = [state |-> "fresh", pid |-> None, start |-> None, cont |-> FALSE] /\ reg \in Project
  BY DEF Init, Project, States
<1>2. ctl = [c \in Ctls |-> Idle] /\ \A c \in Ctls : ctl[c] = Idle /\ Idle \in Doing
  BY IdleTypes DEF Init
<1>3. TypeOK
  <2>1. reg \in Project \cup {None} /\ startLock \in Ctls \cup {None} /\ startLock = None
    BY <1>1 DEF Init
  <2>2. ctl \in [Ctls -> Doing]
    BY <1>2
  <2>3. proc \in [Pids -> Process \cup {None}]
    BY DEF Init
  <2>4. /\ container \in 0..MaxStarts /\ clock \in 1..(MaxStarts + 1) /\ kills \in 0..MaxKills
    BY RegistryAssumption DEF Init
  <2>5. sentinel \in [reason : {"none", "clean", "other"}, of : 0..MaxStarts]
    <3>1. 0 \in 0..MaxStarts
      BY RegistryAssumption
    <3> QED
      BY <3>1 DEF Init
  <2>6. /\ sidecars \subseteq {"proxies", "graphify"} /\ lost \in BOOLEAN
        /\ struck \subseteq {"term", "kill"} /\ shut \in BOOLEAN
    BY DEF Init
  <2> QED
    BY <2>1, <2>2, <2>3, <2>4, <2>5, <2>6 DEF TypeOK
<1>4. LiveLoops = {}
  BY DEF Init, LiveLoops
<1>5. Held /\ Remembered /\ Named
  BY <1>2, <1>4, RegistryAssumption DEF Init, Held, Remembered, Named, Names, Clear, Idle, InStart, WithSnap
<1>6. Told /\ TermSparesStrangers
  BY <1>1, <1>2 DEF Init, Told, Genuine, Idle, TermSparesStrangers
<1> QED
  BY <1>3, <1>5, <1>6 DEF IInv

\* The inductive invariant of the registry.
LEMMA Invariant == Spec => []IInv
<1>1. Init => IInv
  BY Initially
<1>2. IInv /\ [Next]_vars => IInv'
  BY TypeStep, HeldStep, NamedStep, ToldStep, SparedStep DEF IInv
<1> QED
  BY <1>1, <1>2, PTL DEF Spec

\* Every variable of the registry keeps to its type; only a start holds the start lock.
THEOREM TypeCorrect == Spec => []TypeOK
BY Invariant, PTL DEF IInv

\* Two live loops of one project mean that one was lost to the registry before, whatever
\* starts, stops, reconciles, removals, kills and failed probes there were (start_project).
THEOREM OneLoopAlways == Spec => []OneLoop
<1>1. IInv => OneLoop
  <2> SUFFICES ASSUME IInv, ~lost
               PROVE  ~(Cardinality(LiveLoops) > 1)
    BY DEF OneLoop
  <2>1. PICK x : LiveLoops \subseteq {x}
    <3>1. CASE \E c \in Ctls : ctl[c].pc = "record"
      BY <3>1 DEF IInv, Named, Clear
    <3>2. CASE \A c \in Ctls : ctl[c].pc # "record"
      BY <3>2 DEF IInv, Named, Names
    <3> QED
      BY <3>1, <3>2
  <2>2. IsFiniteSet({x}) /\ Cardinality({x}) = 1
    BY FS_Singleton
  <2>3. Cardinality(LiveLoops) <= 1 /\ IsFiniteSet(LiveLoops)
    BY <2>1, <2>2, FS_Subset
  <2>4. Cardinality(LiveLoops) \in Nat
    BY <2>3, FS_CardinalityType
  <2> QED
    BY <2>3, <2>4
<1> QED
  BY <1>1, Invariant, PTL

\* A SIGTERM of a stop only ever reaches a process that a start of this project spawned:
\* the recorded start time is the process's own (stop_project, _matches_startup).
THEOREM TermSparesStrangersAlways == Spec => []TermSparesStrangers
BY Invariant, PTL DEF IInv
===============================================================================
