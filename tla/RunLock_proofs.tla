--------------------------- MODULE RunLock_proofs ---------------------------
(***************************************************************************)
(* Exclusion of two drivers, proved for any number of processes and files. *)
(*                                                                         *)
(* A flock is held on a file, and two drivers exclude each other because   *)
(* they lock the same one.  That is the strengthening: as long as no file  *)
(* was unlinked under somebody, whoever has a file open has the file that  *)
(* the name refers to, but for the one process that has just unlinked it.  *)
(***************************************************************************)
EXTENDS RunLock, TLAPS

SameFile ==
  ~orphaned => \A p \in Proc : fd[p] # NoFile /\ pc[p] # "unlinked" => fd[p] = path

IInv == TypeOK /\ SameFile

\* Initially nothing is open and nothing is locked (Init).
LEMMA InitIInv == Init => IInv
<1> SUFFICES ASSUME Init PROVE IInv
  OBVIOUS
<1> USE LockAssumption DEF Init, NoFile, File, Holding, Opened
<1>1. \A p \in Proc : fd[p] = NoFile /\ pc[p] = "idle"
  OBVIOUS
<1>2. \A p \in Proc, f \in File : owner[f] # p
  OBVIOUS
<1>3. files \in 0..MaxFiles /\ path \in 0..files /\ NoFile \in 0..MaxFiles
  OBVIOUS
<1>4. fd \in [Proc -> 0..MaxFiles] /\ \A p \in Proc : fd[p] \in 0..files
  BY <1>3
<1>5. orphaned \in BOOLEAN /\ owner \in [File -> Proc \cup {Nobody}]
  OBVIOUS
<1>6. pc \in [Proc -> {"idle", "ended"} \cup Opened \cup Holding]
  OBVIOUS
<1>7. \A p \in Proc, f \in File : ~(fd[p] = f)
  BY <1>1
<1>8. TypeOK
  BY <1>1, <1>2, <1>3, <1>4, <1>5, <1>6, <1>7, Zenon DEF TypeOK
<1>9. SameFile
  BY <1>1 DEF SameFile
<1> QED
  BY <1>8, <1>9 DEF IInv

-----------------------------------------------------------------------------
\* Whoever has a file open has one that exists (Open).
LEMMA OpenedFile ==
  ASSUME TypeOK, NEW p \in Proc, pc[p] \in Opened
  PROVE  fd[p] \in File /\ owner[fd[p]] # p
<1>1. fd[p] # NoFile
  BY DEF TypeOK, Opened
<1>2. fd[p] \in File
  BY <1>1, LockAssumption DEF TypeOK, NoFile, File
<1> QED
  BY <1>2 DEF TypeOK, Opened, Holding

\* A flock attempt keeps types and ownership, taken or refused (Flock).
LEMMA FlockKeepsType ==
  ASSUME TypeOK, NEW p \in Proc, pc[p] \in Opened, NEW taken \in Holding,
         Flock(p, taken), UNCHANGED <<path, files, orphaned>>
  PROVE  TypeOK'
<1> DEFINE f == fd[p]
<1>1. f \in File /\ owner[f] # p
  BY OpenedFile
<1>2. CASE /\ owner[f] = Nobody
           /\ owner' = [owner EXCEPT ![f] = p]
           /\ pc' = [pc EXCEPT ![p] = taken] /\ UNCHANGED fd
  <2>1. \A q \in Proc, g \in File :
          owner'[g] = q <=> fd'[q] = g /\ pc'[q] \in Holding
    BY <1>1, <1>2, LockAssumption DEF TypeOK, File, Holding, Opened
  <2>2. owner' \in [File -> Proc \cup {Nobody}]
    BY <1>1, <1>2 DEF TypeOK
  <2>3. \A q \in Proc : fd'[q] = NoFile <=> pc'[q] \in {"idle", "ended"}
    BY <1>1, <1>2, LockAssumption DEF TypeOK, File, Holding, NoFile
  <2> QED
    BY <1>2, <2>1, <2>2, <2>3 DEF TypeOK, Holding, Opened
<1>3. CASE /\ UNCHANGED owner
           /\ fd' = [fd EXCEPT ![p] = NoFile]
           /\ pc' = [pc EXCEPT ![p] = "idle"]
  BY <1>1, <1>3, LockAssumption DEF TypeOK, File, NoFile, Holding, Opened
<1> QED
  BY <1>2, <1>3 DEF Flock, Close, Go

\* Types and lock ownership are kept by every step (Step, Crash).
LEMMA TypeInductive == TypeOK /\ [Next]_vars => TypeOK'
<1> SUFFICES ASSUME TypeOK, [Next]_vars PROVE TypeOK'
  OBVIOUS
<1> USE LockAssumption DEF TypeOK, NoFile, File, Holding, Opened
<1>1. ASSUME NEW p \in Proc, StartDriver(p) PROVE TypeOK'
  BY <1>1 DEF StartDriver, Open, Go
<1>2. ASSUME NEW p \in Proc, TakeLock(p) PROVE TypeOK'
  BY <1>2, FlockKeepsType DEF TakeLock
<1>3. ASSUME NEW p \in Proc, EndRun(p) PROVE TypeOK'
  BY <1>3 DEF EndRun, UnlockAndClose, Close, Go
<1>4. ASSUME NEW p \in Proc, OpenToRelease(p) PROVE TypeOK'
  BY <1>4 DEF OpenToRelease, Open, Go
<1>5. ASSUME NEW p \in Proc, FlockToRelease(p) PROVE TypeOK'
  BY <1>5, FlockKeepsType DEF FlockToRelease
<1>6. ASSUME NEW p \in Proc, Unlink(p) PROVE TypeOK'
  BY <1>6 DEF Unlink, Go
<1>7. ASSUME NEW p \in Proc, EndRelease(p) PROVE TypeOK'
  BY <1>7 DEF EndRelease, UnlockAndClose, Close, Go
<1>8. ASSUME NEW p \in Proc, OpenToProbe(p) PROVE TypeOK'
  BY <1>8 DEF OpenToProbe, Open, Go
<1>9. ASSUME NEW p \in Proc, FlockToProbe(p) PROVE TypeOK'
  BY <1>9, FlockKeepsType DEF FlockToProbe
<1>10. ASSUME NEW p \in Proc, EndProbe(p) PROVE TypeOK'
  BY <1>10 DEF EndProbe, UnlockAndClose, Close, Go
<1>11. ASSUME NEW p \in Proc, Crash(p) PROVE TypeOK'
  BY <1>11 DEF Crash, Close, Go
<1>12. CASE UNCHANGED vars
  BY <1>12 DEF vars
<1> QED
  BY <1>1, <1>2, <1>3, <1>4, <1>5, <1>6, <1>7, <1>8, <1>9, <1>10, <1>11, <1>12
     DEF Next, Step

-----------------------------------------------------------------------------
\* While nothing is orphaned, everybody's file stays the named one (Open, Unlink).
LEMMA SameFileInductive == TypeOK /\ SameFile /\ [Next]_vars => SameFile'
<1> SUFFICES ASSUME TypeOK, SameFile, [Next]_vars, ~orphaned',
                    NEW q \in Proc, fd'[q] # NoFile, pc'[q] # "unlinked"
             PROVE  fd'[q] = path'
  BY DEF SameFile
<1> USE LockAssumption DEF SameFile, TypeOK, NoFile, Holding, Opened
<1>1. ASSUME NEW p \in Proc, StartDriver(p) PROVE fd'[q] = path'
  BY <1>1 DEF StartDriver, Open, Go
<1>2. ASSUME NEW p \in Proc, TakeLock(p) PROVE fd'[q] = path'
  BY <1>2 DEF TakeLock, Flock, Close, Go
<1>3. ASSUME NEW p \in Proc, EndRun(p) PROVE fd'[q] = path'
  BY <1>3 DEF EndRun, UnlockAndClose, Close, Go
<1>4. ASSUME NEW p \in Proc, OpenToRelease(p) PROVE fd'[q] = path'
  BY <1>4 DEF OpenToRelease, Open, Go
<1>5. ASSUME NEW p \in Proc, FlockToRelease(p) PROVE fd'[q] = path'
  BY <1>5 DEF FlockToRelease, Flock, Close, Go
<1>6. ASSUME NEW p \in Proc, Unlink(p) PROVE fd'[q] = path'
  <2>1. ~orphaned /\ (q # p => fd[q] = NoFile \/ fd[q] # path)
    BY <1>6 DEF Unlink
  <2>2. q # p
    BY <1>6 DEF Unlink, Go
  <2>3. fd[q] # NoFile /\ pc[q] # "unlinked"
    BY <1>6, <2>2 DEF Unlink, Go
  <2> QED
    BY <2>1, <2>2, <2>3
<1>7. ASSUME NEW p \in Proc, EndRelease(p) PROVE fd'[q] = path'
  BY <1>7 DEF EndRelease, UnlockAndClose, Close, Go
<1>8. ASSUME NEW p \in Proc, OpenToProbe(p) PROVE fd'[q] = path'
  BY <1>8 DEF OpenToProbe, Open, Go
<1>9. ASSUME NEW p \in Proc, FlockToProbe(p) PROVE fd'[q] = path'
  BY <1>9 DEF FlockToProbe, Flock, Close, Go
<1>10. ASSUME NEW p \in Proc, EndProbe(p) PROVE fd'[q] = path'
  BY <1>10 DEF EndProbe, UnlockAndClose, Close, Go
<1>11. ASSUME NEW p \in Proc, Crash(p) PROVE fd'[q] = path'
  BY <1>11 DEF Crash, Close, Go
<1>12. CASE UNCHANGED vars
  BY <1>12 DEF vars
<1> QED
  BY <1>1, <1>2, <1>3, <1>4, <1>5, <1>6, <1>7, <1>8, <1>9, <1>10, <1>11, <1>12
     DEF Next, Step

\* Two drivers that run have the one named file open, and both own it.
LEMMA IInvExcludes == IInv => ExclusiveUnlessOrphaned
<1> SUFFICES ASSUME TypeOK, SameFile, ~orphaned, NEW p \in Proc, NEW q \in Proc,
                    pc[p] = "running", pc[q] = "running"
             PROVE  p = q
  BY DEF IInv, ExclusiveUnlessOrphaned, MutualExclusion
<1>1. fd[p] \in File /\ fd[q] \in File
  BY LockAssumption DEF TypeOK, NoFile, File
<1>2. fd[p] = fd[q]
  BY <1>1, LockAssumption DEF SameFile, File, NoFile
<1>3. owner[fd[p]] = p /\ owner[fd[q]] = q
  BY <1>1 DEF TypeOK, Holding
<1> QED
  BY <1>2, <1>3

\* Every state's files, descriptors and owners are well formed, and a lock is
\* held exactly by the living process that took it.
THEOREM LockTypeCorrect == Spec => []TypeOK
<1>1. Init => TypeOK
  BY InitIInv DEF IInv
<1> QED
  BY <1>1, TypeInductive, PTL DEF Spec

\* The lock keeps two drivers apart unless a release has removed the file under
\* somebody who had opened it (OrchestratorDriver.run, release_run_lock).
THEOREM ExclusiveUnlessOrphanedHolds == Spec => []ExclusiveUnlessOrphaned
<1>1. IInv /\ [Next]_vars => IInv'
  BY TypeInductive, SameFileInductive DEF IInv
<1> QED
  BY InitIInv, <1>1, IInvExcludes, PTL DEF Spec
=============================================================================
