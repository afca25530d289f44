-------------------------- MODULE ProjectRegistry --------------------------
(***************************************************************************)
(* peers-ctl: one project of the registry (peers_ctl/store.py) and the     *)
(* controllers (peers_ctl/runner.py, cli.py) that start, stop, reconcile,  *)
(* add and remove it.  There is no daemon: every controller is a process   *)
(* of its own, reads the record, acts on processes and containers, and     *)
(* writes the record back.  The registry file is locked for each           *)
(* read-modify-write, a start holds the project's start lock, a stop holds *)
(* nothing.  The kernel reuses pids; a loop ends when it likes; podman may *)
(* fail to answer; a controller may be killed between any two steps.       *)
(***************************************************************************)
EXTENDS Naturals, FiniteSets

CONSTANTS
  Ctls,         \* peers-ctl processes
  Pids,         \* process ids of the host
  None,         \* no pid, no record, no holder
  Missing,      \* the "starttime=MISSING" token
  Modes,        \* where starts put the run: on the "host", in a "container"
  MaxStarts,    \* bound: processes ever born, kernel start times 1..MaxStarts
  MaxKills      \* bound: controllers killed in the middle of a command

VARIABLES
  reg,          \* the project's record in projects.yaml, or None
  startLock,    \* holder of locks/<name>.start.lock, or None
  ctl,          \* what each controller is doing: pc and its snapshot
  proc,         \* the process of each pid, or None
  container,    \* start time of the container with the project's name, or 0
  sidecars,     \* sidecar containers that are up
  sentinel,     \* .peers/last-stop-reason.txt: reason, and the run it is of
  clock,        \* kernel start time of the next process
  kills,
  lost,         \* history: a live loop that no record names was left behind
  struck,       \* history: signals that reached a process not of this project
  shut          \* history: a stop command wrote "stopped" beside a live run

world == <<proc, container, sidecars, sentinel, clock>>
history == <<lost, struck, shut>>
vars == <<reg, startLock, ctl, proc, container, sidecars, sentinel, clock, kills,
          lost, struck, shut>>

States == {"fresh", "stopped", "running", "crashed", "unknown"}
Times == 1..MaxStarts
Project == [state : States, pid : Pids \cup {None},
            start : Times \cup {None, Missing}, cont : BOOLEAN]
Process == [kind : {"loop", "streamer", "alien"}, start : Times,
            leads : BOOLEAN, leader : BOOLEAN]
Steps == {"idle", "lock", "get", "preflight", "sidecars", "run", "record",
          "stop", "podman", "reap", "grace", "kill", "write", "dead"}
(* What a command remembers of the record, and what a controller is doing. *)
Snapshot == [pid : Pids \cup {None}, start : Times \cup {None, Missing}, cont : BOOLEAN]
Doing == [pc : Steps, snap : Snapshot \cup {None}, mode : {"host", "container"},
          pid : Pids \cup {None}, tok : Times \cup {None, Missing}]

ASSUME RegistryAssumption ==
  /\ None \notin Ctls \cup Pids \cup Nat \cup Project \cup Snapshot \cup Process
  /\ Missing \notin Nat \cup {None}
  /\ Modes \subseteq {"host", "container"} /\ MaxStarts \in Nat /\ MaxKills \in Nat

Idle == [pc |-> "idle", snap |-> None, mode |-> "host", pid |-> None,
         tok |-> None]

Init ==
  /\ reg = [state |-> "fresh", pid |-> None, start |-> None, cont |-> FALSE]
  /\ startLock = None
  /\ ctl = [c \in Ctls |-> Idle]
  /\ proc = [p \in Pids |-> None]
  /\ container = 0 /\ sidecars = {}
  /\ sentinel = [reason |-> "none", of |-> 0]
  /\ clock = 1 /\ kills = 0
  /\ lost = FALSE /\ struck = {} /\ shut = FALSE

(* Liveness probes.  A process is alive while its leader is; a group while
   any member is, and the kernel keeps the number of a group in use.        *)
IsPidAlive(p) == p # None /\ proc[p] # None /\ proc[p].leader
GroupAlive(p) == proc[p] # None /\ proc[p].leads
AliveViaPgidOrPid(p) == GroupAlive(p) \/ IsPidAlive(p)

(* podman ps: what it may answer; the runner reads a failed probe as FALSE. *)
ProbeContainer == {container # 0, None}
ContainerRunning == {container # 0, FALSE}

\* Mutant of MatchesStartup: a pid that is recorded is believed.
MatchesIfRecorded(r) == r.pid # None

MatchesStartup(r) ==
  CASE r.pid = None -> FALSE
    [] r.start = Missing -> FALSE
    [] r.start = None -> TRUE
    [] OTHER -> proc[r.pid] = None \/ proc[r.pid].start = r.start

(* What a command keeps of the record it looked up. *)
Handle(r) == [pid |-> r.pid, start |-> r.start, cont |-> r.cont]

LiveLoops == {p \in Pids : proc[p] # None /\ proc[p].kind = "loop" /\ proc[p].leader}

(* The project's run is live, on the host or in its container. *)
RunIsLive == LiveLoops # {} \/ container # 0

-----------------------------------------------------------------------------
(* store.py: reconcile(), under the registry lock. *)

CleanReason == sentinel.reason = "clean"

Settled(r) ==
  [r EXCEPT !.state = IF CleanReason THEN "stopped" ELSE "crashed", !.pid = None]

Reconciled(r, alive) ==
  CASE r.state = "fresh" -> r
    [] r.state # "fresh" /\ alive = TRUE -> [r EXCEPT !.state = "running"]
    [] r.state = "running" /\ alive = None -> [r EXCEPT !.state = "unknown"]
    [] r.state \in {"running", "unknown"} /\ alive = FALSE -> Settled(r)
    [] OTHER -> r

ProbeProject(r) == IF r.cont THEN ProbeContainer ELSE {IsPidAlive(r.pid)}

ReconcileReg ==
  IF reg = None THEN reg' = None
  ELSE \E alive \in ProbeProject(reg) : reg' = Reconciled(reg, alive)

(* status, list, dashboard, prune. *)
Reconcile(c) ==
  /\ ctl[c].pc = "idle"
  /\ ReconcileReg
  /\ UNCHANGED <<startLock, ctl, world, kills, history>>

-----------------------------------------------------------------------------
(* Starting. *)

At(c, step) == ctl[c].pc = step
Goto(c, step) == ctl' = [ctl EXCEPT ![c].pc = step]
Done(c) == ctl' = [ctl EXCEPT ![c] = Idle]

\* Mutant of Release: an early return leaves the lock held.
KeepLock(c) == UNCHANGED startLock

Release(c) == startLock' = IF startLock = c THEN None ELSE startLock

(* cmd_start, cmd_research and `resume --start`: reconcile, look the name up. *)
CmdStart(c, mode) ==
  /\ At(c, "idle") /\ ReconcileReg
  /\ ctl' = IF reg = None THEN ctl
            ELSE [ctl EXCEPT ![c] = [Idle EXCEPT !.pc = "lock", !.mode = mode]]
  /\ UNCHANGED <<startLock, world, kills, history>>

\* Mutant of AcquireStartLock: the flock is not waited for.
AcquireAnyway(c) ==
  /\ At(c, "lock") /\ startLock' = c /\ Goto(c, "get")
  /\ UNCHANGED <<reg, world, kills, history>>

AcquireStartLock(c) ==
  /\ At(c, "lock") /\ startLock = None
  /\ startLock' = c /\ Goto(c, "get")
  /\ UNCHANGED <<reg, world, kills, history>>

StartLockTimeout(c) ==
  /\ At(c, "lock") /\ startLock # None
  /\ Done(c)
  /\ UNCHANGED <<reg, startLock, world, kills, history>>

(* The record is read again under the lock. *)
GetFresh(c) ==
  /\ At(c, "get")
  /\ IF reg = None THEN Done(c) /\ Release(c)
     ELSE ctl' = [ctl EXCEPT ![c].pc = "preflight", ![c].snap = Handle(reg)]
          /\ UNCHANGED startLock
  /\ UNCHANGED <<reg, world, kills, history>>

PreflightRefuses(c) == IsPidAlive(ctl[c].snap.pid)

(* Path, config, flags, budget, drift, provider keys, egress trust and the
   claude smoke may refuse too: none changes what is modelled here.         *)
Preflight(c) ==
  /\ At(c, "preflight")
  /\ \/ Done(c) /\ Release(c)
     \/ /\ ~PreflightRefuses(c)
        /\ \/ ctl[c].mode = "host"
           \/ FALSE \in ContainerRunning
        /\ ctl' = [ctl EXCEPT ![c].pc = "sidecars", ![c].snap = None]
        /\ UNCHANGED startLock
  /\ UNCHANGED <<reg, world, kills, history>>

Proxies == {"proxies"}           \* egress and auth: up and down together

(* The proxies come up, reused when they run already; the fail-open graphify
   may follow.                                                              *)
EnsureProxies(up) == up \cup Proxies
EnsureGraphify(up) == {up, up \cup {"graphify"}}

(* A proxy that does not come up tears all sidecars down; on the host there
   is graphify alone, and it never refuses.                                 *)
EnsureSidecars(c) ==
  /\ At(c, "sidecars")
  /\ \/ /\ sidecars' \in EnsureGraphify(IF ctl[c].mode = "host" THEN sidecars
                                        ELSE EnsureProxies(sidecars))
        /\ Goto(c, "run") /\ UNCHANGED startLock
     \/ /\ ctl[c].mode = "container"
        /\ sidecars' = {} /\ Done(c) /\ Release(c)
  /\ UNCHANGED <<reg, proc, container, sentinel, clock, kills, history>>

NewProcess(kind) ==
  [kind |-> kind, start |-> clock, leads |-> TRUE, leader |-> TRUE]

Born(p, kind) ==
  /\ proc[p] = None /\ clock <= MaxStarts
  /\ proc' = [proc EXCEPT ![p] = NewProcess(kind)]
  /\ clock' = clock + 1

ToRecord(c, p) ==
  \E tok \in {clock, Missing} :
     ctl' = [ctl EXCEPT ![c].pc = "record", ![c].pid = p, ![c].tok = tok]

RunHost(c) ==
  /\ At(c, "run") /\ ctl[c].mode = "host"
  /\ \/ \E p \in Pids : Born(p, "loop") /\ ToRecord(c, p)
        /\ UNCHANGED <<startLock, sidecars>>
     \/ /\ sidecars' = sidecars \ {"graphify"}
        /\ Done(c) /\ Release(c) /\ UNCHANGED <<proc, clock>>
  /\ UNCHANGED <<reg, container, sentinel, kills, history>>

(* podman run -d --name: fails when the name is taken; any failure tears the
   sidecars of that name down.  Then `podman logs -f` is spawned.           *)
RunContainer(c) ==
  /\ At(c, "run") /\ ctl[c].mode = "container"
  /\ \/ /\ container = 0
        /\ \E p \in Pids : Born(p, "streamer") /\ ToRecord(c, p)
        /\ container' = clock
        /\ UNCHANGED <<startLock, sidecars>>
     \/ /\ sidecars' = {} /\ Done(c) /\ Release(c)
        /\ UNCHANGED <<proc, clock, container>>
  /\ UNCHANGED <<reg, sentinel, kills, history>>

Without(p) == [proc EXCEPT ![p] = None]
Ours(c) == LET p == ctl[c].pid IN proc[p] # None /\ proc[p].kind # "alien"

(* store.update: raises when the project was removed meanwhile, and what was
   started is taken down again.                                             *)
RecordStart(c) ==
  /\ At(c, "record")
  /\ IF reg = None
     THEN /\ proc' = IF Ours(c) THEN Without(ctl[c].pid) ELSE proc
          /\ IF ctl[c].mode = "host"
             THEN sidecars' = sidecars \ {"graphify"} /\ UNCHANGED container
             ELSE sidecars' = sidecars \ Proxies /\ container' = 0
          /\ UNCHANGED reg
     ELSE /\ reg' = [state |-> "running", pid |-> ctl[c].pid,
                     start |-> ctl[c].tok, cont |-> ctl[c].mode = "container"]
          /\ UNCHANGED <<proc, sidecars, container>>
  /\ Done(c) /\ Release(c)
  /\ UNCHANGED <<sentinel, clock, kills, history>>

-----------------------------------------------------------------------------
(* Stopping: no lock is held from the look-up to the write. *)

CmdStop(c) ==
  /\ At(c, "idle") /\ ReconcileReg
  /\ sidecars' = IF reg = None THEN sidecars ELSE sidecars \ {"graphify"}
  /\ ctl' = IF reg = None THEN ctl
            ELSE [ctl EXCEPT ![c] = [Idle EXCEPT !.pc = "stop", !.snap = Handle(reg')]]
  /\ UNCHANGED <<startLock, proc, container, sentinel, clock, kills, history>>

StopContainer(c) ==
  /\ At(c, "stop") /\ ctl[c].snap.cont
  /\ \E running \in ContainerRunning : Goto(c, IF running THEN "podman" ELSE "reap")
  /\ UNCHANGED <<reg, startLock, world, kills, history>>

(* podman missing, timed out, non-zero or still running: the stop raises. *)
PodmanStop(c) ==
  /\ At(c, "podman")
  /\ \/ container' = 0 /\ Goto(c, "reap")
     \/ container' \in {container, 0} /\ Done(c)
  /\ UNCHANGED <<reg, startLock, proc, sidecars, sentinel, clock, kills, history>>

Strike(p, sig) ==
  struck' = IF proc[p] # None /\ proc[p].kind = "alien" THEN struck \cup {sig} ELSE struck

(* The proxies go after the container, then the log streamer if it is still
   the process that was started.                                            *)
ReapSidecars(c) ==
  LET r == ctl[c].snap
      signals == IsPidAlive(r.pid) /\ MatchesStartup(r)
  IN
  /\ At(c, "reap")
  /\ sidecars' = sidecars \ Proxies
  /\ IF signals THEN Strike(r.pid, "term") /\ proc' = Without(r.pid)
     ELSE UNCHANGED <<proc, struck>>
  /\ Goto(c, "write")
  /\ UNCHANGED <<reg, startLock, container, sentinel, clock, kills, lost, shut>>

(* A host project: nothing to signal, a recycled pid, a pid that cannot be
   verified (the stop raises), or the loop itself.                          *)
StopHost(c) ==
  LET r == ctl[c].snap IN
  /\ At(c, "stop") /\ ~r.cont
  /\ CASE ~IsPidAlive(r.pid) -> Goto(c, "write") /\ UNCHANGED struck
       [] IsPidAlive(r.pid) /\ ~MatchesStartup(r) /\ r.start = Missing ->
            Done(c) /\ UNCHANGED struck
       [] IsPidAlive(r.pid) /\ ~MatchesStartup(r) /\ r.start # Missing ->
            Goto(c, "write") /\ UNCHANGED struck
       [] OTHER -> Goto(c, "grace") /\ Strike(r.pid, "term")
  /\ UNCHANGED <<reg, startLock, world, kills, lost, shut>>

(* The grace loop ends when nothing of the group is left, or at its deadline. *)
GraceOver(c) ==
  /\ At(c, "grace")
  /\ Goto(c, IF AliveViaPgidOrPid(ctl[c].snap.pid) THEN "kill" ELSE "write")
  /\ UNCHANGED <<reg, startLock, world, kills, history>>

KillsGroup(c) ==
  LET r == ctl[c].snap IN GroupAlive(r.pid) \/ (IsPidAlive(r.pid) /\ MatchesStartup(r))

(* A live group is killed without another look at the start time. *)
SigKill(c) ==
  LET r == ctl[c].snap IN
  /\ At(c, "kill")
  /\ IF KillsGroup(c) THEN Strike(r.pid, "kill") /\ proc' = Without(r.pid)
     ELSE UNCHANGED <<proc, struck>>
  /\ Goto(c, "write")
  /\ UNCHANGED <<reg, startLock, container, sidecars, sentinel, clock, kills, lost, shut>>

(* store.update(state="stopped", pid=None), whatever the record says by now.
   Setting the pid of a live run to None leaves a loop that nothing names.  *)
WriteStopped(c) ==
  /\ At(c, "write")
  /\ reg' = IF reg = None THEN None ELSE [reg EXCEPT !.state = "stopped", !.pid = None]
  /\ lost' = (lost \/ (reg # None /\ ~reg.cont /\ LiveLoops # {}))
  /\ shut' = (shut \/ (ctl[c].snap.cont /\ reg # None /\ Handle(reg) = ctl[c].snap
                    /\ container # 0))
  /\ Done(c)
  /\ UNCHANGED <<startLock, world, kills, struck>>

-----------------------------------------------------------------------------
(* Removing and adding. *)

(* Only "running" is refused; a project whose probe failed is "unknown". *)
CmdRemove(c) ==
  /\ At(c, "idle") /\ reg # None /\ reg.state # "running"
  /\ reg' = None
  /\ lost' = (lost \/ RunIsLive)
  /\ UNCHANGED <<startLock, ctl, world, kills, struck, shut>>

CmdAdd(c) ==
  /\ At(c, "idle") /\ reg = None
  /\ reg' = [state |-> "fresh", pid |-> None, start |-> None, cont |-> FALSE]
  /\ UNCHANGED <<startLock, ctl, world, kills, history>>

-----------------------------------------------------------------------------
(* The world. *)

(* A loop ends by itself (it writes its reason) or by a signal (it may not);
   children of its group may outlive it.                                    *)
LoopEnds(p) ==
  /\ p \in LiveLoops
  /\ \E reason \in {"clean", "other", "none"} :
       sentinel' = IF reason = "none" THEN sentinel
                   ELSE [reason |-> reason, of |-> proc[p].start]
  /\ proc' \in {Without(p), [proc EXCEPT ![p].leader = FALSE]}
  /\ UNCHANGED <<reg, startLock, ctl, container, sidecars, clock, kills, history>>

ContainerEnds ==
  /\ container # 0
  /\ \E reason \in {"clean", "other", "none"} :
       sentinel' = IF reason = "none" THEN sentinel
                   ELSE [reason |-> reason, of |-> container]
  /\ container' = 0
  /\ UNCHANGED <<reg, startLock, ctl, proc, sidecars, clock, kills, history>>

ProcessEnds(p) ==
  /\ proc[p] # None /\ (proc[p].kind # "loop" \/ ~proc[p].leader)
  /\ proc' = Without(p)
  /\ UNCHANGED <<reg, startLock, ctl, container, sidecars, sentinel, clock, kills, history>>

(* A pid is used again, by a process that leads its group or does not. *)
PidReused(p) ==
  /\ proc[p] = None /\ clock <= MaxStarts
  /\ \E leads \in BOOLEAN :
       proc' = [proc EXCEPT ![p] = [NewProcess("alien") EXCEPT !.leads = leads]]
  /\ clock' = clock + 1
  /\ UNCHANGED <<reg, startLock, ctl, container, sidecars, sentinel, kills, history>>

(* A killed controller drops its lock and gives no command any more; between
   the spawn and the record it leaves a loop that nothing names.            *)
CtlKilled(c) ==
  /\ ctl[c].pc \notin {"idle", "dead"} /\ kills < MaxKills
  /\ kills' = kills + 1
  /\ lost' = (lost \/ At(c, "record"))
  /\ ctl' = [ctl EXCEPT ![c] = [Idle EXCEPT !.pc = "dead"]] /\ Release(c)
  /\ UNCHANGED <<reg, world, struck, shut>>

Controller(c) ==
  \/ Reconcile(c) \/ \E mode \in Modes : CmdStart(c, mode)
  \/ AcquireStartLock(c) \/ StartLockTimeout(c) \/ GetFresh(c) \/ Preflight(c)
  \/ EnsureSidecars(c) \/ RunHost(c) \/ RunContainer(c) \/ RecordStart(c)
  \/ CmdStop(c) \/ StopContainer(c) \/ PodmanStop(c) \/ ReapSidecars(c)
  \/ StopHost(c) \/ GraceOver(c) \/ SigKill(c) \/ WriteStopped(c)
  \/ CmdRemove(c) \/ CmdAdd(c) \/ CtlKilled(c)

Next ==
  \/ \E c \in Ctls : Controller(c)
  \/ \E p \in Pids : LoopEnds(p) \/ ProcessEnds(p) \/ PidReused(p)
  \/ ContainerEnds

Spec == Init /\ [][Next]_vars

-----------------------------------------------------------------------------
(* The variables have their types, and the start lock is held by a start. *)
TypeOK ==
  /\ reg \in Project \cup {None} /\ startLock \in Ctls \cup {None}
  /\ ctl \in [Ctls -> Doing] /\ proc \in [Pids -> Process \cup {None}]
  /\ startLock # None =>
       ctl[startLock].pc \in {"get", "preflight", "sidecars", "run", "record"}
  /\ container \in 0..MaxStarts /\ clock \in 1..(MaxStarts + 1)
  /\ sidecars \subseteq {"proxies", "graphify"} /\ kills \in 0..MaxKills
  /\ sentinel \in [reason : {"none", "clean", "other"}, of : 0..MaxStarts]
  /\ lost \in BOOLEAN /\ struck \subseteq {"term", "kill"} /\ shut \in BOOLEAN

(* start_project() (runner.py:1919): concurrent starts never leave two live
   host loops of one project, unless one was first lost to the registry: by a
   controller killed before it recorded its child, by a stop that wrote its
   verdict over a newer start, or by the removal of an "unknown" project.    *)
OneLoop == Cardinality(LiveLoops) > 1 => lost

(* stop_project() (runner.py:2041): SIGTERM never reaches a process that only
   inherited the pid of the project's loop or streamer.                      *)
TermSparesStrangers == "term" \notin struck

(* stop_project() (runner.py:2071, a comment): "killpg targets ONLY the
   original group".                                                          *)
KillSparesStrangers == "kill" \notin struck

(* stop_project() (runner.py:1965, a comment): "we must fail closed instead of
   marking the project stopped ... while the container keeps running".       *)
StopFailsClosed == ~shut

(* store.py:86: "stopped" is a clean exit; a run that died without a word of
   its own is not settled as "stopped" by what an earlier run left behind.   *)
StoppedIsClean ==
  [][\A c \in Ctls : Reconcile(c) /\ reg # None /\ reg' # None
        /\ reg.state = "running" /\ reg'.state = "stopped"
        /\ reg.start \in Times => sentinel.of = reg.start]_vars
=============================================================================
