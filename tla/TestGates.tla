------------------------------- MODULE TestGates -------------------------------
(***************************************************************************)
(* The gates about tests and shortcuts, and the baselines two of them      *)
(* compare with: the driver seeds the baselines when a run starts, as far  *)
(* as it can, and keeps the digests of those there are in memory, the      *)
(* peers work on the tree, and a run converges when the three gates pass   *)
(* on baselines that match their digests                                   *)
(* (regression_baseline.py, no_regression.py, no_skipped_tests.py,         *)
(* no_shortcut_markers.py, attest.py).                                     *)
(*                                                                         *)
(* One test file and one source file with one marker line.  A digest is    *)
(* the content it was taken of.                                            *)
(***************************************************************************)
EXTENDS Naturals, FiniteSets

CONSTANTS Peers,      \* the peers, whose commits are attested
          Tests,
          MaxEdits    \* bound: edits of the tree and of the files beside it

VARIABLES
  tests,      \* per test: its outcome, its skip marker, a version of its body
  marker,     \* the marker line: its author, its tag
  authors,    \* per file, the attested peers that ever committed to it
  reviews,    \* <<file, peer>>: attested commits that say peers-review: file
  passing,    \* passing-baseline.txt: the tests it lists
  skips,      \* skip-baseline.txt: the signatures it lists
  scripts,    \* the deployed gate scripts
  anchor,     \* the driver's digests of the two baselines
  run,        \* "idle", "peer" (a peer works), "gates", "converged"
  edits

vars == <<tests, marker, authors, reviews, passing, skips, scripts, anchor, run,
          edits>>

NoFile == {}
File(lines) == {lines}    \* a file is the set of its contents: none or one
Nobody == "none"
Operator == "operator"      \* commits without an attestation
Writers == Peers \cup {Operator}
Files == {"tests", "src"}
NoSkip == [by |-> Nobody, reason |-> Nobody, kind |-> "test"]
NoTest == [outcome |-> "gone", body |-> 0, skip |-> NoSkip]
NoMarker == [by |-> Nobody, tagged |-> FALSE]
NoAnchor == [passing |-> NoFile, skips |-> NoFile]

\* a project with its tests, or one that has no tests/ yet
Init ==
  /\ \/ tests \in [Tests -> [outcome : {"green", "flaky"}, body : {0},
                             skip : {NoSkip, [by |-> Operator, reason |-> Nobody,
                                              kind |-> "test"]}]]
     \/ tests = [t \in Tests |-> NoTest]
  /\ marker = NoMarker
  /\ authors = [f \in Files |-> {}]
  /\ reviews = {}
  /\ passing = NoFile
  /\ skips = NoFile
  /\ scripts = "current"
  /\ anchor = NoAnchor
  /\ run = "idle"
  /\ edits = 0

----------------------------------------------------------------------------
\* The gate scripts

\* collect_passing: the tests one run of pytest reports as passed
PassesSkippedToo(t, lucky) ==
  tests[t].outcome = "green" \/ (tests[t].outcome = "flaky" /\ t \in lucky)
Passes(t, lucky) ==
  /\ tests[t].skip = NoSkip
  /\ tests[t].outcome = "green" \/ (tests[t].outcome = "flaky" /\ t \in lucky)
Collected(lucky) == {t \in Tests : Passes(t, lucky)}

\* no_regression: a second run has to confirm what the first one misses; a run
\* without a report fails the gate
NoReport == {Nobody}
RegressionGate(first, second) ==
  /\ passing # NoFile
  /\ \A listed \in passing :
       \/ listed = {}
       \/ first # NoReport /\ listed \subseteq Collected(first)
       \/ /\ first # NoReport /\ second # NoReport
          /\ (listed \ Collected(first)) \cap (listed \ Collected(second)) = {}

SkipOf(t) == tests[t].skip
\* _skip_signature: the marker and the body of the test it stands on; a mark of
\* the whole module has no body
Signature(t) ==
  IF SkipOf(t).kind = "module" THEN <<t, "module">>
  ELSE <<t, SkipOf(t).kind, tests[t].body>>

Skipped == {t \in Tests : SkipOf(t) # NoSkip}
Signatures == {Signature(t) : t \in Skipped}

LineAuthors(lines) == lines \cap Peers
FileAuthors(file) == authors[file]
ReviewedByAnyone(file, lines) == \E p \in Peers : <<file, p>> \in reviews
\* a review by a peer that wrote none of the lines; of the file, when nobody
\* attested wrote them
Reviewed(file, lines) ==
  LET excluded ==
        IF LineAuthors(lines) = {} THEN FileAuthors(file) ELSE LineAuthors(lines)
  IN \E p \in Peers \ excluded : <<file, p>> \in reviews

Baselined(t) == Signature(t) \in UNION skips

SkipGate ==
  \A t \in Skipped :
    \/ Baselined(t)
    \/ /\ SkipOf(t).reason # Nobody
       /\ Reviewed("tests", {SkipOf(t).by, SkipOf(t).reason})

\* a marker that an abstract class is allowed to carry counts as none
MarkerGate ==
  marker # NoMarker => marker.tagged /\ Reviewed("src", {marker.by})

----------------------------------------------------------------------------
\* The driver

ManifestMatches == scripts # "edited"
TemplatesMatch == scripts # "old"
ScriptsVerified == ManifestMatches /\ TemplatesMatch
Digests == [passing |-> passing, skips |-> skips]

\* run(): seed what is missing, keep the digests of what is there.  A snapshot
\* that fails is only reported, and one of the skips writes nothing when there is
\* no tests/: the run goes on without the file, and without a digest of it
Start ==
  /\ run = "idle" /\ ScriptsVerified
  /\ \/ UNCHANGED passing
     \/ /\ passing = NoFile
        /\ \E lucky \in SUBSET Tests : passing' = File(Collected(lucky))
  /\ \/ UNCHANGED skips
     \/ skips = NoFile /\ skips' = File(Signatures)
  /\ anchor' = Digests'
  /\ run' = "peer"
  /\ UNCHANGED <<tests, marker, authors, reviews, scripts, edits>>

TrustTheFiles == TRUE
\* verify_baseline_digests: a gate without a digest is not checked
Unforged ==
  /\ anchor.passing # NoFile => passing = anchor.passing
  /\ anchor.skips # NoFile => skips = anchor.skips

\* the scripts are verified after the peer has answered, and again only then
EndTurn ==
  /\ run = "peer"
  /\ run' = IF ScriptsVerified THEN "gates" ELSE "idle"
  /\ anchor' = IF ScriptsVerified THEN anchor ELSE NoAnchor
  /\ UNCHANGED <<tests, marker, authors, reviews, passing, skips, scripts, edits>>

\* the gates are evaluated and the convergence of the run decided on them
Evaluate ==
  /\ run = "gates"
  /\ \E first, second \in SUBSET Tests \cup {NoReport} :
       run' = IF RegressionGate(first, second) /\ SkipGate /\ MarkerGate /\ Unforged
              THEN "converged" ELSE "peer"
  /\ UNCHANGED <<tests, marker, authors, reviews, passing, skips, scripts, anchor,
                 edits>>

\* a stop or a kill: what the process held in memory is gone
Die ==
  /\ run \in {"peer", "gates"}
  /\ run' = "idle" /\ anchor' = NoAnchor
  /\ UNCHANGED <<tests, marker, authors, reviews, passing, skips, scripts, edits>>

----------------------------------------------------------------------------
\* The peers in their turns, and the operator between two runs

Edit(w) ==
  /\ edits < MaxEdits /\ edits' = edits + 1
  /\ run = IF w \in Peers THEN "peer" ELSE "idle"
  /\ UNCHANGED <<anchor, run>>

Wrote(w, file) ==
  authors' = [authors EXCEPT ![file] = @ \cup ({w} \cap Peers)]

EditTest(w, t) ==
  /\ Edit(w) /\ Wrote(w, "tests")
  /\ tests' \in {[tests EXCEPT ![t].outcome = o, ![t].body = 1 - @] :
                 o \in {"green", "red", "gone"}}
  /\ UNCHANGED <<marker, reviews, passing, skips, scripts>>

EditSkip(w, t) ==
  /\ Edit(w) /\ Wrote(w, "tests")
  /\ tests' \in {[tests EXCEPT ![t].skip = s] :
                 s \in {NoSkip, [by |-> w, reason |-> Nobody, kind |-> "test"],
                        [by |-> w, reason |-> w, kind |-> "test"],
                        [by |-> w, reason |-> w, kind |-> "module"]}}
  /\ UNCHANGED <<marker, reviews, passing, skips, scripts>>

EditSource(w) ==
  /\ Edit(w) /\ Wrote(w, "src")
  /\ marker' \in {marker, NoMarker} \cup [by : {w}, tagged : BOOLEAN]
  /\ \E o \in {"green", "red", "flaky"}, t \in Tests :
       tests' = [tests EXCEPT ![t].outcome = IF @ = "gone" THEN @ ELSE o]
  /\ UNCHANGED <<reviews, passing, skips, scripts>>

Review(w, file) ==
  /\ Edit(w)
  /\ reviews' = reviews \cup ({<<file, w>>} \cap (Files \X Peers))
  /\ UNCHANGED <<tests, marker, authors, passing, skips, scripts>>

\* peers run-check <gate> --snapshot, or the removal of what it wrote
Resnapshot(w) ==
  /\ Edit(w)
  /\ \/ /\ passing' \in {File(Collected(lucky)) : lucky \in SUBSET Tests} \cup {NoFile}
        /\ UNCHANGED skips
     \/ skips' \in {File(Signatures), NoFile} /\ UNCHANGED passing
  /\ UNCHANGED <<tests, marker, authors, reviews, scripts>>

\* a script is changed in place, or the templates it came from are newer;
\* peers init deploys the current ones
EditScripts(w) ==
  /\ Edit(w)
  /\ scripts' \in {"current", "edited", "old"}
  /\ UNCHANGED <<tests, marker, authors, reviews, passing, skips>>

Next ==
  \/ Start
  \/ EndTurn
  \/ Evaluate
  \/ Die
  \/ \E w \in Writers :
       \/ \E t \in Tests : EditTest(w, t) \/ EditSkip(w, t)
       \/ EditSource(w) \/ Resnapshot(w) \/ EditScripts(w)
       \/ \E f \in Files : Review(w, f)

Spec == Init /\ [][Next]_vars

----------------------------------------------------------------------------
\* Correctness

\* A converged run has lost nothing its baseline held: every test that the file
\* the run was started with lists is there, not skipped, and can still pass
\* ("Fail if a test that was green at audit start is now red",
\* no_regression.py:2), however the peers have written that file since.
ConvergedKeepsGreen ==
  run = "converged" =>
    \A t \in UNION anchor.passing :
      SkipOf(t) = NoSkip /\ tests[t].outcome \in {"green", "flaky"}

\* In a converged run a skipped test was skipped when the run started, with this
\* body, or another peer than the one that skipped it has signed the file; only
\* when the run was started without a skip baseline, one that a peer has written
\* since excuses it as well.  A marker line of the source has been signed by
\* another peer than its author (no_skipped_tests.py:271,
\* no_shortcut_markers.py:149, regression_baseline.py:84).
ConvergedEscapesAreSigned ==
  run = "converged" =>
    /\ \A t \in Skipped :
         \/ Signature(t) \in UNION anchor.skips
         \/ \E p \in Peers \ {SkipOf(t).by} : <<"tests", p>> \in reviews
         \/ anchor.skips = NoFile /\ Signature(t) \in UNION skips
    /\ marker # NoMarker =>
         \E p \in Peers \ {marker.by} : <<"src", p>> \in reviews

\* What the gates and the digests of the baselines are for: no test of an anchored
\* baseline is lost, and no escape is one's own unless no skip baseline was
\* anchored (no_regression.py:2, no_skipped_tests.py:271).
ConvergedIsUnforged == ConvergedKeepsGreen /\ ConvergedEscapesAreSigned

\* What a comment says: a run whose baseline was never captured at its start does
\* not converge, "the gate's own missing-baseline fail-closed path covers the
\* never-snapshotted case" (regression_baseline.py:84-86).
NeverSnapshottedFailsClosed == run = "converged" => anchor.passing # NoFile

\* A claim the code does not keep: a skip needs a reason and another peer's
\* signature, only "skips present at run-start are grandfathered"
\* (no_skipped_tests.py:365).  When no skip baseline could be written at the start
\* none is anchored, and a peer grandfathers its own skip with --snapshot.
OwnSkipsAreSigned ==
  run = "converged" =>
    \A t \in Skipped :
      SkipOf(t).by \in Peers =>
        \/ Signature(t) \in UNION anchor.skips
        \/ \E p \in Peers \ {SkipOf(t).by} : <<"tests", p>> \in reviews
================================================================================
