---------------------------- MODULE WorktreeLease ----------------------------
(***************************************************************************)
(* GitWorktreeProvider.lease (peers.spine.worktree): a mode-run works in a *)
(* git worktree of its own on the branch peers/run/<mode_run>.             *)
(*                                                                         *)
(* Three locks work together: the repository's prune lock, held from the   *)
(* sweep of crash leftovers until the new worktree's own run.lock guards   *)
(* it; that run.lock, which tells a sweep that the worktree is in use; and *)
(* the acquire lock of the mode_run, held for the whole lease and removed  *)
(* after it.  All are flocks, so a killed process holds none.              *)
(*                                                                         *)
(* Worktrees are numbered by the lease that made them.  git is modelled by *)
(* its effects: a branch can be created once, and deleted only while no    *)
(* listed worktree has it checked out.  A git command that times out is    *)
(* not modelled.                                                           *)
(***************************************************************************)
EXTENDS Naturals, FiniteSets

CONSTANTS
  Proc,       \* processes that lease
  Run,        \* mode_runs
  Nobody,     \* owner of a lock that is free
  MaxLeases,  \* bound on leases ever begun, for finiteness
  MaxFiles,   \* bound on acquire-lock files ever created, for finiteness
  MaxCrashes  \* bound on killed processes, for finiteness

LeaseAssumption ==
  /\ Nobody \notin Proc
  /\ MaxLeases \in Nat /\ MaxFiles \in Nat /\ MaxCrashes \in Nat

VARIABLES
  pc,       \* what a process is doing
  run,      \* the mode_run it leases
  tree,     \* the worktree its lease makes: the lease's number
  leases,   \* leases begun
  prune,    \* owner of .peers/run-locks/.prune.lock
  listed,   \* worktrees that git lists
  runOf,    \* the mode_run of a worktree
  guard,    \* owner of a worktree's .peers/run.lock
  branches, \* mode_runs whose branch exists
  todo,     \* worktrees the sweep still has to look at; the sweep is that of
            \* the prune lock's owner
  victim,   \* the leftover it has just removed
  live,     \* mode_runs it found in use
  file,     \* the file the acquire lock of a mode_run refers to
  files,    \* acquire-lock files created
  fd,       \* the acquire-lock file a process has open
  owner,    \* owner of an acquire-lock file
  records,  \* mode_runs with a record in .peers/spine-runs
  crashes,
  orphaned  \* history: an acquire lock was unlinked while another had it open

git == <<listed, branches>>
sweep == <<todo, victim, live>>
acquire == <<file, files, fd, owner>>
vars == <<pc, run, tree, leases, prune, git, runOf, guard, sweep, acquire,
          records, crashes, orphaned>>

Tree == 1..MaxLeases
NoFile == 0
InUse == {"added", "guarded", "publishing", "working"}
Go(p, place) == pc' = [pc EXCEPT ![p] = place]

Init ==
  /\ pc = [p \in Proc |-> "idle"] /\ run \in [Proc -> Run]
  /\ tree = [p \in Proc |-> 0] /\ leases = 0
  /\ prune = Nobody
  /\ listed = {} /\ runOf \in {[t \in Tree |-> r] : r \in Run}
  /\ guard = [t \in Tree |-> Nobody]
  /\ branches = {}
  /\ todo = {} /\ victim = 0 /\ live = {}
  /\ file = [r \in Run |-> NoFile] /\ files = 0
  /\ fd = [p \in Proc |-> NoFile]
  /\ owner = [f \in 1..MaxFiles |-> Nobody]
  /\ records = {} /\ crashes = 0 /\ orphaned = FALSE
------------------------------------------------------------------------------
(* The prune lock and the sweep of crash leftovers *)

BeginLease(p, r) ==
  /\ pc[p] = "idle" /\ leases < MaxLeases
  /\ leases' = leases + 1
  /\ run' = [run EXCEPT ![p] = r]
  /\ tree' = [tree EXCEPT ![p] = leases']
  /\ runOf' = [runOf EXCEPT ![leases'] = r]
  /\ Go(p, "waiting")
  /\ UNCHANGED <<prune, git, guard, sweep, acquire, records, crashes, orphaned>>

\* _flock_exclusive_blocking, then `git worktree list`: only peers/run/*
\* worktrees are looked at.
TakePruneLock(p) ==
  /\ pc[p] = "waiting" /\ prune = Nobody
  /\ prune' = p
  /\ todo' = listed /\ live' = {} /\ victim' = 0
  /\ Go(p, "sweeping")
  /\ UNCHANGED <<run, tree, leases, git, runOf, guard, acquire, records, crashes,
                 orphaned>>

\* "prune-lock acquisition timed out"
GiveUpWaiting(p) ==
  /\ pc[p] = "waiting" /\ prune # Nobody
  /\ Go(p, "idle")
  /\ UNCHANGED <<run, tree, leases, prune, git, runOf, guard, sweep, acquire,
                 records, crashes, orphaned>>

\* A worktree whose run.lock is held is in use.
SkipLive(p, t) ==
  /\ pc[p] = "sweeping" /\ t \in todo /\ guard[t] # Nobody
  /\ todo' = todo \ {t}
  /\ live' = live \cup {runOf[t]}
  /\ UNCHANGED <<victim, pc, run, tree, leases, prune, git, runOf, guard, acquire,
                 records, crashes, orphaned>>

\* Any other is a leftover: `git worktree remove --force`.
RemoveLeftover(p, t) ==
  /\ pc[p] = "sweeping" /\ t \in todo /\ guard[t] = Nobody
  /\ listed' = listed \ {t}
  /\ todo' = todo \ {t} /\ victim' = t
  /\ Go(p, "removed")
  /\ UNCHANGED <<run, tree, leases, prune, branches, runOf, guard, live, acquire,
                 records, crashes, orphaned>>

\* `git branch -D`, refused while a worktree has the branch checked out.
Without(r) ==
  IF \E t \in listed : runOf[t] = r THEN branches ELSE branches \ {r}

DeleteLeftoverBranch(p) ==
  /\ pc[p] = "removed"
  /\ branches' = Without(runOf[victim])
  /\ Go(p, "sweeping")
  /\ UNCHANGED <<run, tree, leases, prune, listed, runOf, guard, sweep, acquire,
                 records, crashes, orphaned>>

AcquireFree(r) == file[r] = NoFile \/ owner[file[r]] = Nobody

\* Mutant: records are reaped by age alone.
FinishSweepByAge(p) ==
  /\ pc[p] = "sweeping" /\ todo = {}
  /\ \E old \in SUBSET records : records' = records \ old
  /\ Go(p, "opening")
  /\ UNCHANGED <<run, tree, leases, prune, git, runOf, guard, sweep, acquire,
                 crashes, orphaned>>

\* _prune_stale_spine_run_records: any record old enough, of a run that the
\* sweep did not find in use and whose acquire lock is free.
FinishSweep(p) ==
  /\ pc[p] = "sweeping" /\ todo = {}
  /\ \E old \in SUBSET records :
       records' = records \ {r \in old : r \notin live /\ AcquireFree(r)}
  /\ Go(p, "opening")
  /\ UNCHANGED <<run, tree, leases, prune, git, runOf, guard, sweep, acquire,
                 crashes, orphaned>>
------------------------------------------------------------------------------
(* Setting the lease up *)

OpenAcquireLock(p) ==
  LET r == run[p]
  IN
  /\ pc[p] = "opening"
  /\ IF file[r] # NoFile THEN UNCHANGED <<file, files>>
     ELSE /\ files < MaxFiles /\ files' = files + 1
          /\ file' = [file EXCEPT ![r] = files']
  /\ fd' = [fd EXCEPT ![p] = file'[r]]
  /\ Go(p, "acquiring")
  /\ UNCHANGED <<run, tree, leases, prune, git, runOf, guard, sweep, owner,
                 records, crashes, orphaned>>

TakeAcquireLock(p) ==
  /\ pc[p] = "acquiring" /\ owner[fd[p]] = Nobody
  /\ owner' = [owner EXCEPT ![fd[p]] = p]
  /\ Go(p, "adding")
  /\ UNCHANGED <<run, tree, leases, prune, git, runOf, guard, sweep, file, files,
                 fd, records, crashes, orphaned>>

\* "run lock held": nothing is left behind, the prune lock included.
RefuseHeldRun(p) ==
  /\ pc[p] = "acquiring" /\ owner[fd[p]] # Nobody
  /\ fd' = [fd EXCEPT ![p] = NoFile]
  /\ prune' = Nobody
  /\ Go(p, "idle")
  /\ UNCHANGED <<run, tree, leases, git, runOf, guard, sweep, file, files, owner,
                 records, crashes, orphaned>>

\* Mutant: the prune lock is not needed any more once the worktree is there.
AddAndReleasePrune(p) ==
  /\ pc[p] = "adding" /\ run[p] \notin branches
  /\ branches' = branches \cup {run[p]} /\ listed' = listed \cup {tree[p]}
  /\ prune' = Nobody
  /\ Go(p, "added")
  /\ UNCHANGED <<run, tree, leases, runOf, guard, sweep, acquire, records,
                 crashes, orphaned>>

\* `git worktree add -b peers/run/<mode_run>`.
AddWorktree(p) ==
  /\ pc[p] = "adding" /\ run[p] \notin branches
  /\ branches' = branches \cup {run[p]} /\ listed' = listed \cup {tree[p]}
  /\ Go(p, "added")
  /\ UNCHANGED <<run, tree, leases, prune, runOf, guard, sweep, acquire, records,
                 crashes, orphaned>>

\* "worktree add failed": the teardown runs, without a worktree.
AddFails(p) ==
  /\ pc[p] = "adding" /\ run[p] \in branches
  /\ Go(p, "ending")
  /\ UNCHANGED <<run, tree, leases, prune, git, runOf, guard, sweep, acquire,
                 records, crashes, orphaned>>

\* The worktree's own run.lock is flocked: it is new, and nobody else's.
GuardWorktree(p) ==
  /\ pc[p] = "added"
  /\ guard' = [guard EXCEPT ![tree[p]] = p]
  /\ Go(p, "guarded")
  /\ UNCHANGED <<run, tree, leases, prune, git, runOf, sweep, acquire, records,
                 crashes, orphaned>>

ReleasePruneLock(p) ==
  /\ pc[p] = "guarded"
  /\ prune' = IF prune = p THEN Nobody ELSE prune
  /\ Go(p, "publishing")
  /\ UNCHANGED <<run, tree, leases, git, runOf, guard, sweep, acquire, records,
                 crashes, orphaned>>

\* The gate inputs are mirrored and the record written: copying may fail, a
\* record that cannot be written is done without.
PublishRecord(p) ==
  /\ pc[p] = "publishing"
  /\ records' \in {records, records \cup {run[p]}}
  /\ Go(p, "working")
  /\ UNCHANGED <<run, tree, leases, prune, git, runOf, guard, sweep, acquire,
                 crashes, orphaned>>
------------------------------------------------------------------------------
(* The run ends, and the teardown *)

\* The run ended, or a step of the setup raised: the teardown runs either way,
\* under the prune lock if it still is held.
EndRun(p) ==
  /\ pc[p] \in InUse
  /\ Go(p, "ending")
  /\ UNCHANGED <<run, tree, leases, prune, git, runOf, guard, sweep, acquire,
                 records, crashes, orphaned>>

\* The record of the mode_run goes first, whoever wrote it.
RemoveRecord(p) ==
  /\ pc[p] = "ending"
  /\ records' = records \ {run[p]}
  /\ Go(p, "unguarding")
  /\ UNCHANGED <<run, tree, leases, prune, git, runOf, guard, sweep, acquire,
                 crashes, orphaned>>

\* run.lock is unlocked and removed: from here a sweep may take the worktree.
UnguardWorktree(p) ==
  /\ pc[p] = "unguarding"
  /\ guard' = [guard EXCEPT ![tree[p]] = Nobody]
  /\ Go(p, "removing")
  /\ UNCHANGED <<run, tree, leases, prune, git, runOf, sweep, acquire, records,
                 crashes, orphaned>>

RemoveWorktree(p) ==
  /\ pc[p] = "removing"
  /\ listed' = listed \ {tree[p]}
  /\ Go(p, "unbranching")
  /\ UNCHANGED <<run, tree, leases, prune, branches, runOf, guard, sweep, acquire,
                 records, crashes, orphaned>>

\* Mutant: a clean `worktree remove` is taken to be enough.
KeepBranch(p) ==
  /\ pc[p] = "unbranching"
  /\ Go(p, "unlocking")
  /\ UNCHANGED <<run, tree, leases, prune, git, runOf, guard, sweep, acquire,
                 records, crashes, orphaned>>

DeleteBranch(p) ==
  /\ pc[p] = "unbranching"
  /\ branches' = Without(run[p])
  /\ Go(p, "unlocking")
  /\ UNCHANGED <<run, tree, leases, prune, listed, runOf, guard, sweep, acquire,
                 records, crashes, orphaned>>

UnlockAcquire(p) ==
  /\ pc[p] = "unlocking"
  /\ owner' = [owner EXCEPT ![fd[p]] = Nobody]
  /\ fd' = [fd EXCEPT ![p] = NoFile]
  /\ Go(p, "unlinking")
  /\ UNCHANGED <<run, tree, leases, prune, git, runOf, guard, sweep, file, files,
                 records, crashes, orphaned>>

\* _release_lock_file unlinks the acquire lock if it is free (RunLock takes its
\* steps one by one), and the prune lock is released if it still is held.
EndLease(p) ==
  LET r == run[p]
  IN
  /\ pc[p] = "unlinking"
  /\ file' = IF AcquireFree(r) THEN [file EXCEPT ![r] = NoFile] ELSE file
  /\ orphaned' = (orphaned \/ \E q \in Proc : fd[q] # NoFile /\ fd[q] = file[r]
                                               /\ AcquireFree(r))
  /\ prune' = IF prune = p THEN Nobody ELSE prune
  /\ Go(p, "idle")
  /\ UNCHANGED <<run, tree, leases, git, runOf, guard, sweep, files, fd, owner,
                 records, crashes>>
------------------------------------------------------------------------------
\* A process is killed: its locks are free, what it made stays.
Crash(p) ==
  /\ pc[p] # "idle" /\ crashes < MaxCrashes
  /\ crashes' = crashes + 1
  /\ prune' = IF prune = p THEN Nobody ELSE prune
  /\ guard' = [t \in Tree |-> IF guard[t] = p THEN Nobody ELSE guard[t]]
  /\ owner' = [f \in 1..MaxFiles |-> IF owner[f] = p THEN Nobody ELSE owner[f]]
  /\ fd' = [fd EXCEPT ![p] = NoFile]
  /\ Go(p, "idle")
  /\ UNCHANGED <<run, tree, leases, git, runOf, sweep, file, files, records,
                 orphaned>>

Step(p) ==
  \/ \E r \in Run : BeginLease(p, r)
  \/ TakePruneLock(p) \/ GiveUpWaiting(p)
  \/ \E t \in todo : SkipLive(p, t) \/ RemoveLeftover(p, t)
  \/ DeleteLeftoverBranch(p) \/ FinishSweep(p)
  \/ OpenAcquireLock(p) \/ TakeAcquireLock(p) \/ RefuseHeldRun(p)
  \/ AddWorktree(p) \/ AddFails(p) \/ GuardWorktree(p) \/ ReleasePruneLock(p)
  \/ PublishRecord(p) \/ EndRun(p)
  \/ RemoveRecord(p) \/ UnguardWorktree(p) \/ RemoveWorktree(p)
  \/ DeleteBranch(p) \/ UnlockAcquire(p) \/ EndLease(p)
  \/ Crash(p)

Next == \E p \in Proc : Step(p)

Spec == Init /\ [][Next]_vars
------------------------------------------------------------------------------
(* Properties *)

TypeOK ==
  /\ run \in [Proc -> Run] /\ tree \in [Proc -> 0..MaxLeases]
  /\ prune \in Proc \cup {Nobody}
  /\ listed \subseteq Tree /\ todo \subseteq Tree /\ victim \in 0..MaxLeases
  /\ runOf \in [Tree -> Run] /\ guard \in [Tree -> Proc \cup {Nobody}]
  /\ branches \subseteq Run /\ live \subseteq Run /\ records \subseteq Run
  /\ file \in [Run -> 0..MaxFiles] /\ fd \in [Proc -> 0..MaxFiles]
  /\ owner \in [1..MaxFiles -> Proc \cup {Nobody}]
  /\ \A p, q \in Proc :
       pc[p] \in {"sweeping", "removed", "opening", "acquiring", "adding",
                 "added", "guarded"} => prune = p

\* "no prune runs while another lease is mid-setup": from `worktree add` to the
\* teardown a lease's worktree and branch are there, whatever sweeps run.
NoLiveReap ==
  \A p \in Proc : pc[p] \in InUse => tree[p] \in listed /\ run[p] \in branches

\* Two leases of one mode_run are never in use together, even when the acquire
\* lock was removed under a process that had opened it and a third one made a
\* new file: the branch, created only once, is what excludes it.
OneLeasePerRun ==
  \A p, q \in Proc : {pc[p], pc[q]} \subseteq InUse /\ run[p] = run[q] => p = q

\* "A live run's record is kept" (_prune_stale_spine_run_records): once written
\* it stays until the run ends, unless the acquire lock was removed under a
\* process that had opened it.
RecordKept ==
  \A p \in Proc :
    pc[p] = "working" /\ pc'[p] = "working" /\ run[p] \in records /\ ~orphaned
      => run[p] \in records'

\* "else the next `worktree add -b` fails": a lease that ends by itself leaves no
\* branch without a worktree behind, unless the acquire lock was removed under a
\* process that had opened it.  A branch that a killed teardown or sweep left is
\* therefore in the way of one lease only: the next sweep does not see it, but
\* the refused lease deletes it.
NoBranchLeft ==
  \A p \in Proc :
    pc[p] = "unlocking" /\ pc'[p] = "unlinking" /\ run[p] \in branches /\ ~orphaned
      => \E t \in listed : runOf[t] = run[p]

\* All four, of every step.
LeasesAreSafe ==
  NoLiveReap' /\ OneLeasePerRun' /\ RecordKept /\ NoBranchLeft
=============================================================================
