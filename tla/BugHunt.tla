-------------------------------- MODULE BugHunt -------------------------------
(***************************************************************************)
(* The bug ledger: findings, resolutions, deferrals, reproducing tests and *)
(* waivers are trailers of commits, and two gates read the whole history   *)
(* newest commit first (bug_hunt.py).  One bug: ids do not interact.       *)
(*                                                                         *)
(* A commit says what its trailers and its JSON block say of the bug.      *)
(***************************************************************************)
EXTENDS Naturals, Sequences

CONSTANTS Commits,      \* the commits a peer may write
          MaxCommits

VARIABLE log            \* the history, oldest first

None == "none"
Severities == {None, "low", "high"}
BugAssumption ==
  \A c \in Commits : c.report \in Severities /\ c.defer \in BOOLEAN

Rank == [none |-> 0, low |-> 1, high |-> 2]
Blocking == {"high"}
Closing == {"fixed", "deferred"}

Init == log = <<>>
Next == \E c \in Commits : Len(log) < MaxCommits /\ log' = Append(log, c)
Spec == Init /\ [][Next]_log

Higher(a, b) == IF Rank[a] > Rank[b] THEN a ELSE b

\* what the scan has gathered: a severity (none before a report), the newest
\* report, the newest resolution (its status and commit), as positions in log
Empty == [sev |-> None, report |-> 0, status |-> None, at |-> 0]

Report(s, c, i) ==
  IF c.report = None THEN s
  ELSE IF s.report = 0 THEN [s EXCEPT !.sev = c.report, !.report = i]
  ELSE [s EXCEPT !.sev = Higher(c.report, s.sev)]

CloseAnyway(s, status, i) ==
  IF status = None \/ s.at # 0 THEN s ELSE [s EXCEPT !.status = status, !.at = i]

\* the newest resolution stands, unless the bug was reported again after it
Close(s, status, i) ==
  IF \/ status = None \/ s.at # 0
     \/ s.report # 0 /\ s.report # i
  THEN s ELSE [s EXCEPT !.status = status, !.at = i]

ScanCommit(s, i) ==
  LET c == log[i]
      reported == Report(s, c, i)
      resolved == Close(reported, c.resolve, i)
  IN Close(resolved, IF c.defer THEN "deferred" ELSE None, i)

\* summarize: the newest commit first; Scan[i] is what is known after commit i
Scan[i \in 1..(Len(log) + 1)] ==
  IF i = Len(log) + 1 THEN Empty ELSE ScanCommit(Scan[i + 1], i)
Summary == Scan[1]

IsOpen(s) == s.report # 0 /\ s.status \notin Closing
\* gate_pass of bug-hunt-clean
Clean == ~(IsOpen(Summary) /\ Summary.sev \in Blocking)

Reproductions == {i \in 1..Len(log) : log[i].repro # None}
Evident == {i \in Reproductions : log[i].repro = "test"}
Waivers == {i \in 1..Len(log) : log[i].waive}

ReproducedAnyTime(at) == Evident # {}
\* the oldest reproducing test must be older than the resolution
ReproducedBefore(at) == \E i \in Evident : i < at
\* the newest waiver counts, when it is newer and nothing claims to reproduce
Waived(at) == /\ Reproductions = {}
              /\ Waivers # {}
              /\ \E i \in Waivers : i > at

\* gate_tdd_pass
TddClean ==
  LET s == Summary
  IN s.sev \in Blocking /\ s.status = "fixed" /\ s.report # 0 =>
        ReproducedBefore(s.at) \/ Waived(s.at)

-----------------------------------------------------------------------------
\* The same, told forwards
Reports == {i \in 1..Len(log) : log[i].report # None}
Severe == \E i \in Reports : log[i].report \in Blocking
Fixes == {i \in 1..Len(log) : log[i].resolve = "fixed"}
Words == {i \in 1..Len(log) : log[i].resolve # None \/ log[i].defer}
LastOf(S) == CHOOSE i \in S : \A j \in S : j <= i
\* what was last said of the bug, since it was last reported
Answer == IF Words = {} \/ LastOf(Words) < LastOf(Reports) THEN None
          ELSE LET c == log[LastOf(Words)]
               IN IF c.resolve # None THEN c.resolve ELSE "deferred"

\* A bug some peer reported as blocking keeps the gate red until the last word
\* on it, said since its last report, is that it is fixed or put off: a second
\* report opens it again, no later report makes it less severe, and an older
\* resolution never speaks for a newer one (bug_hunt.py:414, 502, 533).
BlockingUntilAnswered == Clean <=> (Severe => Answer \in Closing)

\* A blocking bug whose last word is "fixed" is let through only with a test
\* that came first, or with an explanation that came after and no commit that
\* pretends to reproduce it (bug_hunt.py:757, 776).
FixIsReproduced ==
  TddClean /\ Severe /\ Answer = "fixed" =>
    \/ \E j \in 1..(LastOf(Fixes) - 1) : log[j].repro = "test"
    \/ /\ \A j \in 1..Len(log) : log[j].repro = None
       /\ \E j \in (LastOf(Fixes) + 1)..Len(log) : log[j].waive

\* Both.
BugsAreAnswered == BlockingUntilAnswered /\ FixIsReproduced

\* bug_hunt.py:706: "Pass iff every Bug-Resolves with status=fixed at a blocking
\* severity has at least one Bug-Reproduce commit that (a) landed BEFORE the
\* resolve".
EveryFixIsReproduced ==
  /\ TddClean /\ Severe /\ Answer = "fixed" /\ Waivers = {}
  /\ \A i \in Fixes : \E r \in Reports : r < i
  => \A i \in Fixes : \E j \in 1..(i - 1) : log[j].repro = "test"
=============================================================================
