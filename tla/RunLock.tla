------------------------------- MODULE RunLock -------------------------------
(***************************************************************************)
(* .peers/run.lock: how a driver keeps a second one out of the same        *)
(* project (OrchestratorDriver.run), how the file is removed afterwards    *)
(* (peers.state_store.release_run_lock, by the driver itself and by        *)
(* peers-ctl's reconcile), and the probe of `peers status`.                *)
(*                                                                         *)
(* The lock is a kernel flock: it belongs to the file that was opened, not *)
(* to its name, and ends with the process.  Opening for append creates a   *)
(* missing file.  A file is a number; the name run.lock refers to one of   *)
(* them or to none.  A process plays one part at a time.                   *)
(***************************************************************************)
EXTENDS Naturals

CONSTANTS
  Proc,      \* processes: drivers, peers-ctl, peers status
  Nobody,    \* owner of a file without a lock
  MaxFiles   \* bound on the files ever created under the name

ASSUME LockAssumption == Nobody \notin Proc /\ MaxFiles \in Nat

VARIABLES
  path,      \* the file the name run.lock refers to
  files,     \* files created so far
  fd,        \* the file a process has open
  owner,     \* the process that holds a file's flock
  pc,        \* what a process is doing
  orphaned   \* history: a file was unlinked while another process had it open

vars == <<path, files, fd, owner, pc, orphaned>>

NoFile == 0
File == 1..MaxFiles

Init ==
  /\ path = NoFile /\ files = 0
  /\ fd = [p \in Proc |-> NoFile]
  /\ owner = [f \in File |-> Nobody]
  /\ pc = [p \in Proc |-> "idle"]
  /\ orphaned = FALSE
------------------------------------------------------------------------------
(* open(2), flock(2), close(2) *)

Go(p, place) == pc' = [pc EXCEPT ![p] = place]

\* Mutant: every opener brings a file of its own, as a write-and-rename would.
OpenReplacing(p) ==
  /\ files < MaxFiles
  /\ files' = files + 1 /\ path' = files'
  /\ fd' = [fd EXCEPT ![p] = path']

\* open_text_no_symlink(run.lock, "a").
Open(p) ==
  /\ IF path # NoFile THEN UNCHANGED <<path, files>>
     ELSE files < MaxFiles /\ files' = files + 1 /\ path' = files'
  /\ fd' = [fd EXCEPT ![p] = path']

Close(p) == fd' = [fd EXCEPT ![p] = NoFile]

\* flock(LOCK_EX | LOCK_NB): either it is taken, or the file is closed again.
Flock(p, taken) ==
  \/ /\ owner[fd[p]] = Nobody
     /\ owner' = [owner EXCEPT ![fd[p]] = p]
     /\ Go(p, taken) /\ UNCHANGED fd
  \/ /\ owner[fd[p]] # Nobody
     /\ Close(p) /\ Go(p, "idle") /\ UNCHANGED owner

\* flock(LOCK_UN) and close.
UnlockAndClose(p) ==
  /\ owner' = [owner EXCEPT ![fd[p]] = Nobody]
  /\ Close(p)
------------------------------------------------------------------------------
(* The driver *)

StartDriver(p) ==
  /\ pc[p] = "idle"
  /\ Open(p) /\ Go(p, "starting")
  /\ UNCHANGED <<owner, orphaned>>

\* A driver that does not get the lock answers "lock-held".
TakeLock(p) ==
  /\ pc[p] = "starting"
  /\ Flock(p, "running")
  /\ UNCHANGED <<path, files, orphaned>>

\* The loop ended in whatever way; release_run_lock follows.
EndRun(p) ==
  /\ pc[p] = "running"
  /\ UnlockAndClose(p) /\ Go(p, "ended")
  /\ UNCHANGED <<path, files, orphaned>>
------------------------------------------------------------------------------
(* release_run_lock *)

\* By the driver after its run, or by reconcile, which calls it for every
\* project whose recorded process is gone, whoever may be starting now.
OpenToRelease(p) ==
  /\ pc[p] \in {"ended", "idle"}
  /\ Open(p) /\ Go(p, "releasing")
  /\ UNCHANGED <<owner, orphaned>>

FlockToRelease(p) ==
  /\ pc[p] = "releasing"
  /\ Flock(p, "unlinking")
  /\ UNCHANGED <<path, files, orphaned>>

\* unlink(2) removes the name, whatever file it refers to by now.
Unlink(p) ==
  /\ pc[p] = "unlinking"
  /\ path' = NoFile
  /\ orphaned' = (orphaned \/ \E q \in Proc \ {p} : fd[q] # NoFile /\ fd[q] = path)
  /\ Go(p, "unlinked")
  /\ UNCHANGED <<files, fd, owner>>

EndRelease(p) ==
  /\ pc[p] = "unlinked"
  /\ UnlockAndClose(p) /\ Go(p, "idle")
  /\ UNCHANGED <<path, files, orphaned>>
------------------------------------------------------------------------------
(* peers status: _lock_file_held on a file that was seen to exist *)

OpenToProbe(p) ==
  /\ pc[p] = "idle" /\ path # NoFile
  /\ Open(p) /\ Go(p, "probing")
  /\ UNCHANGED <<owner, orphaned>>

FlockToProbe(p) ==
  /\ pc[p] = "probing"
  /\ Flock(p, "probed")
  /\ UNCHANGED <<path, files, orphaned>>

EndProbe(p) ==
  /\ pc[p] = "probed"
  /\ UnlockAndClose(p) /\ Go(p, "idle")
  /\ UNCHANGED <<path, files, orphaned>>
------------------------------------------------------------------------------

\* A process is killed: the kernel closes its file and drops its lock.
Crash(p) ==
  /\ pc[p] # "idle"
  /\ owner' = [f \in File |-> IF owner[f] = p THEN Nobody ELSE owner[f]]
  /\ Close(p) /\ Go(p, "idle")
  /\ UNCHANGED <<path, files, orphaned>>

Step(p) ==
  \/ StartDriver(p) \/ TakeLock(p) \/ EndRun(p)
  \/ OpenToRelease(p) \/ FlockToRelease(p) \/ Unlink(p) \/ EndRelease(p)
  \/ OpenToProbe(p) \/ FlockToProbe(p) \/ EndProbe(p)
  \/ Crash(p)

Next == \E p \in Proc : Step(p)

Spec == Init /\ [][Next]_vars
------------------------------------------------------------------------------
(* Properties *)

Holding == {"running", "unlinking", "unlinked", "probed"}
Opened == {"starting", "releasing", "probing"}

\* Types, and that a lock is held exactly by the living process that took it.
TypeOK ==
  /\ files \in 0..MaxFiles
  /\ path \in 0..files
  /\ fd \in [Proc -> 0..MaxFiles]
  /\ pc \in [Proc -> {"idle", "ended"} \cup Opened \cup Holding]
  /\ owner \in [File -> Proc \cup {Nobody}]
  /\ orphaned \in BOOLEAN
  /\ \A p \in Proc : fd[p] \in 0..files
  /\ \A p \in Proc : fd[p] = NoFile <=> pc[p] \in {"idle", "ended"}
  /\ \A p \in Proc, f \in File :
       owner[f] = p <=> fd[p] = f /\ pc[p] \in Holding

\* "refuse to run if another peers process is already active against the same
\* .peers/ dir" (OrchestratorDriver.run): never two drivers in one project.
MutualExclusion ==
  \A p, q \in Proc : pc[p] = "running" /\ pc[q] = "running" => p = q

\* The lock keeps drivers apart whatever processes start, end, probe, release
\* and crash, as long as no release removed the file under somebody who had
\* opened it: opening without truncating and a flock on the one shared file are
\* enough, and the unlink is the only step that can break it.
ExclusiveUnlessOrphaned == ~orphaned => MutualExclusion
=============================================================================
