------------------------------- MODULE Reaper -------------------------------
(***************************************************************************)
(* The driver as process 1 of a container (health_guard.py).  It waits for *)
(* the peer it started, sweeps the orphans that the peers' helpers leave   *)
(* behind, and at the same time the worker thread of the asynchronous gate *)
(* runner waits for the shell of a goal (goal_engine.py).  A zombie can be *)
(* reaped once; whoever asks for it later is told by subprocess that it    *)
(* ended with 0.                                                           *)
(***************************************************************************)
EXTENDS Naturals

CONSTANT Orphans        \* helpers that outlive their parent

VARIABLES
  life,                 \* per process: "none", "runs", "zombie", "reaped"
  ended,                \* per process: the status it ended with
  seen,                 \* the status Popen.wait() reported: of the peer, of the goal
  loop                  \* the driver: "idle", "polls", "ended" (out of the poll loop)

vars == <<life, ended, seen, loop>>

Ours == {"peer", "goal"}
Processes == Ours \cup Orphans
Statuses == {"ok", "bad"}

(* A helper is neither of the two that somebody waits for. *)
ReaperAssumption == Orphans \cap Ours = {}

Init ==
  /\ life = [p \in Processes |-> "none"] /\ ended = [p \in Processes |-> "ok"]
  /\ seen = [p \in Ours |-> "none"] /\ loop = "idle"

Reapable == {p \in Processes : life[p] = "zombie"}
Reap(ps) == life' = [p \in Processes |-> IF p \in ps THEN "reaped" ELSE life[p]]

(* Popen.poll() and wait(): the status of the zombie; 0 if someone took it. *)
WaitFor(p) ==
  \/ /\ life[p] = "zombie" /\ Reap({p})
     /\ seen' = [seen EXCEPT ![p] = ended[p]]
  \/ /\ life[p] = "reaped" /\ seen[p] = "none" /\ UNCHANGED life
     /\ seen' = [seen EXCEPT ![p] = "ok"]

-----------------------------------------------------------------------------
(* The world. *)

Exit(p) ==
  /\ life[p] = "runs"
  /\ life' = [life EXCEPT ![p] = "zombie"]
  /\ \E s \in Statuses : ended' = [ended EXCEPT ![p] = s]
  /\ UNCHANGED <<seen, loop>>

(* A helper called setsid() and lost its parent: it is ours now. *)
Reparented(p) ==
  /\ p \in Orphans /\ loop # "idle" /\ life[p] \in {"none", "reaped"}
  /\ life' = [life EXCEPT ![p] = "runs"]
  /\ UNCHANGED <<ended, seen, loop>>

-----------------------------------------------------------------------------
(* invoke(). *)

StartPeer ==
  /\ loop = "idle" /\ loop' = "polls"
  /\ life' = [life EXCEPT !["peer"] = "runs"]
  /\ seen' = [seen EXCEPT !["peer"] = "none"]
  /\ UNCHANGED ended

PollPeer ==
  /\ loop = "polls" /\ WaitFor("peer")
  /\ loop' = "ended"
  /\ UNCHANGED ended

\* Mutant of SweepZombies: waitpid(-1), as at the end of invoke().
SweepAll ==
  /\ loop = "polls" /\ Reapable # {} /\ Reap(Reapable)
  /\ UNCHANGED <<ended, seen, loop>>

(* Every child that is a zombie, but for the peer that invoke() tracks. *)
SweepZombies ==
  /\ loop = "polls" /\ Reapable \ {"peer"} # {}
  /\ Reap(Reapable \ {"peer"})
  /\ UNCHANGED <<ended, seen, loop>>

(* SIGTERM or SIGKILL to the group, and wait. *)
TerminatePeer ==
  /\ loop = "polls" /\ life["peer"] = "runs"
  /\ Reap({"peer"})
  /\ ended' = [ended EXCEPT !["peer"] = "bad"]
  /\ seen' = [seen EXCEPT !["peer"] = "bad"]
  /\ loop' = "ended"

\* Mutant of ReapOrphans: nothing is reaped when invoke() ends, as on a host.
ReapNothing == loop = "ended" /\ loop' = "idle" /\ UNCHANGED <<life, ended, seen>>

(* waitpid(-1) until nothing is left. *)
ReapOrphans ==
  /\ loop = "ended" /\ loop' = "idle"
  /\ Reap(Reapable)
  /\ UNCHANGED <<ended, seen>>

-----------------------------------------------------------------------------
(* The gate runner's worker thread, one goal at a time. *)

StartGoal ==
  /\ life["goal"] = "none" \/ seen["goal"] # "none"
  /\ life' = [life EXCEPT !["goal"] = "runs"]
  /\ seen' = [seen EXCEPT !["goal"] = "none"]
  /\ UNCHANGED <<ended, loop>>

PollGoal == WaitFor("goal") /\ UNCHANGED <<ended, loop>>

Next ==
  \/ StartPeer \/ PollPeer \/ SweepZombies \/ TerminatePeer \/ ReapOrphans
  \/ StartGoal \/ PollGoal
  \/ \E p \in Processes : Exit(p) \/ Reparented(p)

(* The driver goes on from tick to tick and ends every call of a peer. *)
ReaperFairness ==
  /\ WF_vars(StartPeer) /\ WF_vars(PollPeer \/ TerminatePeer)
  /\ WF_vars(ReapOrphans)

Spec == Init /\ [][Next]_vars /\ ReaperFairness

-----------------------------------------------------------------------------
(* health_guard.py:716: the sweep inside the poll loop never takes the status
   of the peer, whose Popen would then report 0 and mask a failure.          *)
PeerStatusIsReal == seen["peer"] # "none" => seen["peer"] = ended["peer"]

(* health_guard.py:680: no orphan stays a zombie, which would count against
   the container's limit of processes for good.                              *)
Zombie(p) == life[p] = "zombie"
OrphansAreReaped == \A p \in Orphans : Zombie(p) ~> ~Zombie(p)

(* health_guard.py:691 (a docstring): "any remaining reapable PIDs are
   guaranteed orphans, not racing with subprocess's own bookkeeping".        *)
GoalStatusIsReal == seen["goal"] # "none" => seen["goal"] = ended["goal"]
=============================================================================
