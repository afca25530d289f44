----------------------------- MODULE RunBudget -----------------------------
(***************************************************************************)
(* The runtime budget of a project.  Four places hold it: config.yaml, the *)
(* sidecar .peers/budget-overrides.json, .peers/state.json and the memory  *)
(* of the driver.  `peers-ctl start` (runner.py) and `peers-ctl resume`    *)
(* (peers_ctl/cli.py) write the sidecar and state.json from outside, the   *)
(* driver reads all of them when it starts and saves its memory after each *)
(* tick (_driver_orchestrator_impl.py, budget_accountant.py).  A cap is a  *)
(* number of ticks.                                                        *)
(***************************************************************************)
EXTENDS Naturals

CONSTANTS
  Caps,            \* the caps people write
  DefaultCap,      \* max_runtime_s of a fresh state.json
  MaxCommands,     \* bound on starts, resumes and edits in a history
  None

BudgetAssumption ==
  Caps \subseteq Nat \ {0} /\ DefaultCap \in Nat \ {0} /\ None \notin Nat

VARIABLES
  config,          \* budget.max_runtime_s of config.yaml, or None
  sidecar,         \* max_runtime_s of budget-overrides.json, or None
  disk,            \* state.json: [cap, spent], or None before the first save
  mem,             \* the driver's copy
  driver,          \* "off" or "runs"
  start,           \* a `peers-ctl start`: [at, max, reset, force]
  resume,          \* a `peers-ctl resume`: [at, max, reset, read]
  asked,           \* the cap the operator's starts asked for and did not take back
  extended,        \* the cap a resume wrote since the last start or edit
  target,          \* the cap this run of the driver is meant to have, or None
  fresh,           \* this run was launched by a start that reset the budget
  ticks,           \* of this run
  reason,          \* why the last run ended, or the start refused
  commands

run == <<mem, driver, target, fresh, ticks>>
vars == <<config, sidecar, disk, run, start, resume, asked, extended, reason, commands>>

NoStart == [at |-> "none", max |-> None, reset |-> FALSE, force |-> FALSE]
NoResume == [at |-> "none", max |-> None, reset |-> FALSE, read |-> None]
FreshState == [cap |-> DefaultCap, spent |-> 0]

Init ==
  /\ config \in Caps \cup {None} /\ sidecar = None /\ disk = None /\ mem = FreshState
  /\ driver = "off" /\ start = NoStart /\ resume = NoResume
  /\ asked = None /\ extended = None /\ target = None /\ fresh = FALSE /\ ticks = 0 /\ reason = "none"
  /\ commands = 0

Counted == commands < MaxCommands /\ commands' = commands + 1

-----------------------------------------------------------------------------
(* The operator. *)

EditConfig ==
  /\ Counted
  /\ \E c \in Caps : config' = c
  /\ extended' = None
  /\ UNCHANGED <<sidecar, disk, run, start, resume, asked, reason>>

(* "+n" adds to the cap of state.json, 0 when there is none. *)
CapOnDisk == IF disk = None THEN 0 ELSE disk.cap
WantedCaps == Caps \cup {c + CapOnDisk : c \in {x \in Caps : x + CapOnDisk \in Caps}}

(* peers-ctl start: refused while the registered driver is alive. *)
CmdStart ==
  /\ start.at = "none" /\ driver = "off" /\ Counted
  /\ \E m \in WantedCaps \cup {None}, reset, force \in BOOLEAN :
       start' = [at |-> "clear", max |-> m, reset |-> reset, force |-> force]
  /\ extended' = IF start'.max # None \/ start'.reset THEN None ELSE extended
  /\ UNCHANGED <<config, sidecar, disk, run, resume, asked, reason>>

\* Mutant of ClearOverride: --reset-budget zeroes the counters only.
KeepOverride ==
  /\ start.at = "clear" /\ start' = [start EXCEPT !.at = "persist"]
  /\ asked' = IF start.reset THEN None ELSE asked
  /\ UNCHANGED <<config, sidecar, disk, run, resume, extended, reason, commands>>

ClearOverride ==
  /\ start.at = "clear" /\ start' = [start EXCEPT !.at = "persist"]
  /\ sidecar' = IF start.reset THEN None ELSE sidecar
  /\ asked' = IF start.reset THEN None ELSE asked
  /\ UNCHANGED <<config, disk, run, resume, extended, reason, commands>>

PersistOverride ==
  /\ start.at = "persist" /\ start' = [start EXCEPT !.at = "mirror"]
  /\ sidecar' = IF start.max # None THEN start.max ELSE sidecar
  /\ asked' = IF start.max # None THEN start.max ELSE asked
  /\ UNCHANGED <<config, disk, run, resume, extended, reason, commands>>

Adjusted(state, max, reset) ==
  [cap |-> IF max # None THEN max ELSE state.cap,
   spent |-> IF reset THEN 0 ELSE state.spent]

\* Mutant of MirrorState: the counters keep what was spent.
MirrorCap ==
  /\ start.at = "mirror" /\ start' = [start EXCEPT !.at = "check"]
  /\ disk' = IF disk = None THEN None ELSE Adjusted(disk, start.max, FALSE)
  /\ UNCHANGED <<config, sidecar, run, resume, asked, extended, reason, commands>>

MirrorState ==
  /\ start.at = "mirror" /\ start' = [start EXCEPT !.at = "check"]
  /\ disk' = IF disk = None THEN None ELSE Adjusted(disk, start.max, start.reset)
  /\ UNCHANGED <<config, sidecar, run, resume, asked, extended, reason, commands>>

(* The driver's start: state.json, the caps of config.yaml over it, the
   sidecar over both.                                                        *)
EffectiveCap(state) ==
  CASE sidecar # None -> sidecar
    [] sidecar = None /\ config # None -> config
    [] OTHER -> state.cap

Launch(reset) ==
  LET state == IF disk = None THEN FreshState ELSE disk
  IN
  /\ mem' = [state EXCEPT !.cap = EffectiveCap(state)]
  /\ driver' = "runs" /\ ticks' = 0 /\ fresh' = reset
  /\ target' = IF asked # None THEN asked ELSE config
  /\ reason' = "none"

Exhausted(state) == state # None /\ state.spent >= state.cap

CheckBudget ==
  /\ start.at = "check" /\ start' = NoStart
  /\ IF Exhausted(disk) /\ ~start.force
     THEN reason' = "refused" /\ UNCHANGED run
     ELSE Launch(start.reset)
  /\ UNCHANGED <<config, sidecar, disk, resume, asked, extended, commands>>

CtlKilled ==
  /\ start.at # "none" /\ start' = NoStart
  /\ UNCHANGED <<config, sidecar, disk, run, resume, asked, extended, reason, commands>>

(* peers-ctl resume, without --start: at any time, also next to a driver. *)
CmdResume ==
  /\ resume.at = "none" /\ start.at = "none" /\ disk # None /\ Counted
  /\ \E m \in WantedCaps \cup {None}, reset \in BOOLEAN :
       /\ m # None \/ reset
       /\ resume' = [at |-> "write", max |-> m, reset |-> reset, read |-> disk]
  /\ UNCHANGED <<config, sidecar, disk, run, start, asked, extended, reason>>

ApplyResumeBudget ==
  /\ resume.at = "write" /\ start.at = "none" /\ resume' = NoResume
  /\ disk' = Adjusted(resume.read, resume.max, resume.reset)
  /\ extended' = IF resume.max # None /\ driver = "off" THEN resume.max ELSE extended
  /\ UNCHANGED <<config, sidecar, run, start, asked, reason, commands>>

-----------------------------------------------------------------------------
(* The driver. *)

StopOnBudget ==
  /\ driver = "runs" /\ Exhausted(mem)
  /\ driver' = "off" /\ reason' = "budget:max_runtime"
  /\ UNCHANGED <<config, sidecar, disk, mem, target, fresh, ticks, start, resume, asked, extended,
                 commands>>

Tick ==
  /\ driver = "runs" /\ ~Exhausted(mem)
  /\ mem' = [mem EXCEPT !.spent = @ + 1]
  /\ disk' = mem' /\ ticks' = ticks + 1
  /\ UNCHANGED <<config, sidecar, driver, target, fresh, start, resume, asked, extended,
                 reason, commands>>

Interrupt ==
  /\ driver = "runs" /\ driver' = "off"
  /\ disk' = mem /\ reason' = "interrupted"
  /\ UNCHANGED <<config, sidecar, mem, target, fresh, ticks, start, resume, asked, extended,
                 commands>>

Kill ==
  /\ driver = "runs" /\ driver' = "off" /\ reason' = "killed"
  /\ UNCHANGED <<config, sidecar, disk, mem, target, fresh, ticks, start, resume, asked, extended,
                 commands>>

Next ==
  \/ EditConfig \/ CmdStart \/ ClearOverride \/ PersistOverride \/ MirrorState
  \/ CheckBudget \/ CtlKilled \/ CmdResume \/ ApplyResumeBudget
  \/ StopOnBudget \/ Tick \/ Interrupt \/ Kill

Spec == Init /\ [][Next]_vars

-----------------------------------------------------------------------------
TypeOK ==
  /\ config \in Caps \cup {None} /\ sidecar \in Caps \cup {None}
  /\ start.at \in {"none", "clear", "persist", "mirror", "check"}
  /\ resume.at \in {"none", "write"} /\ driver \in {"off", "runs"}
  /\ mem.cap \in Caps \cup {DefaultCap} /\ mem.spent \in Nat

(* docs/SECURITY.md:228: the cap a start asked for wins over config.yaml in
   every later run, whatever was killed, edited or resumed in between, until
   another start changes it or --reset-budget takes it back.                 *)
CapIsAsked == driver = "runs" /\ target # None => mem.cap = target

(* runner.py:1566: a run that a start with --reset-budget launched is never
   stopped for what earlier runs spent.                                      *)
ResetFrees == fresh /\ reason = "budget:max_runtime" => ticks > 0

(* The cap the operator asked for is the one that is in force, and what was
   reset is not counted (docs/SECURITY.md:228, runner.py:1566).              *)
BudgetIsAsked == CapIsAsked /\ ResetFrees

(* peers_ctl/cli.py:1268 (a docstring): "optional budget flags can extend/reset
   the run before the next start".                                           *)
ResumeExtends ==
  [][driver = "off" /\ driver' = "runs" /\ extended # None => mem'.cap = extended]_vars
=============================================================================
