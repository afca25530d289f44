-------------------------------- MODULE TickLog --------------------------------
(***************************************************************************)
(* What a tick leaves behind, in the order the driver writes it: the       *)
(* peer's output logs and their rotation, the attestation of the commits   *)
(* of the tick, its row in runs.jsonl, the saved state; with the driver    *)
(* interrupted or killed between any two of them (tick_loop.py,            *)
(* driver_observability.py, attest.py, the driver's run()).                *)
(*                                                                         *)
(* One of the two rotation groups (.log and .stream.jsonl are alike).      *)
(* Whose turn it is and what a tick decides are left to other modules.  A  *)
(* peer does not outlive its driver, and only it commits during its tick.  *)
(***************************************************************************)
EXTENDS Naturals, Sequences, FiniteSets, Functions

CONSTANTS Peers,
          Streams,      \* the output streams that have a log
          Threshold,    \* logs a group may hold before one is compressed
          MaxTicks,     \* bound: ticks that are started
          MaxCommits    \* bound: commits

VARIABLES
  pc,         \* where the driver is, "off" when there is none
  peer,       \* the peer of the tick
  halting,    \* its answer asks for the end of the run
  iteration,  \* the driver's state, of which the iteration is followed
  saved,      \* state.json
  rows,       \* the iterations that have a row in runs.jsonl
  commits,    \* the history: who wrote a commit, whom its note names
  head,       \* the head before the peer was started
  plain,      \* the logs: <<tick, peer, stream>> |-> the attempt it is of
  zipped,     \* the .gz files beside them: [name, attempt, whole]
  started,    \* how many ticks were started
  written     \* per name, the attempt that wrote the log last

vars == <<pc, peer, halting, iteration, saved, rows, commits, head, plain, zipped,
          started, written>>
files == <<plain, zipped, written>>
tick == <<peer, halting, head, started>>

Nobody == "nobody"

Init ==
  /\ pc = "off" /\ peer = Nobody /\ halting = FALSE
  /\ iteration = 0 /\ saved = 0 /\ rows = {}
  /\ commits = <<>> /\ head = 0
  /\ plain = <<>> /\ zipped = {} /\ written = <<>>
  /\ started = 0

\* run(): load the state
Boot ==
  /\ pc = "off"
  /\ pc' = "ready" /\ iteration' = saved
  /\ UNCHANGED <<saved, rows, commits, files, tick>>

StartTick(p, at) ==
  /\ pc = "ready" /\ started < MaxTicks
  /\ pc' = "peer" /\ peer' = p /\ head' = at
  /\ started' = started + 1 /\ halting' = FALSE
  /\ UNCHANGED <<iteration, saved, rows, commits, files>>

InvokeAfterBoot(p) == StartTick(p, IF head = 0 THEN Len(commits) ELSE head)
\* _invoke_peer: the head is read just before the peer starts
Invoke(p) == StartTick(p, Len(commits))

Commit(who) ==
  /\ pc = (IF who = peer THEN "peer" ELSE "off")
  /\ Len(commits) < MaxCommits
  /\ commits' = Append(commits, [by |-> who, note |-> Nobody])
  /\ UNCHANGED <<pc, iteration, saved, rows, files, tick>>

\* A table of logs, with those this tick writes.
Written(table, names) ==
  [n \in names \cup DOMAIN table |-> IF n \in names THEN started ELSE table[n]]

\* _write_peer_output_logs: an empty stream has no log
Answer ==
  /\ pc = "peer"
  /\ halting' \in BOOLEAN
  /\ \E S \in SUBSET Streams :
       LET names == {<<iteration + 1, peer, s>> : s \in S}
       IN  plain' = Written(plain, names) /\ written' = Written(written, names)
  /\ pc' = "rotate"
  /\ UNCHANGED <<iteration, saved, rows, commits, zipped, peer, head, started>>

Oldest == CHOOSE n \in DOMAIN plain : \A m \in DOMAIN plain : n[1] <= m[1]
Logs == Cardinality(DOMAIN plain)

\* _maybe_rotate_peer_logs: one log of a group that is too large; the .gz has to
\* be a new file
BeginCopy ==
  /\ pc = "rotate" /\ Logs > Threshold
  /\ \A z \in zipped : z.name # Oldest
  /\ zipped' = zipped \cup
       {[name |-> Oldest, attempt |-> plain[Oldest], whole |-> FALSE]}
  /\ pc' = "copy"
  /\ UNCHANGED <<iteration, saved, rows, commits, plain, written, tick>>

NoRotation ==
  /\ pc = "rotate"
  /\ Logs > Threshold => \E z \in zipped : z.name = Oldest
  /\ pc' = "account"
  /\ UNCHANGED <<iteration, saved, rows, commits, files, tick>>

EndCopy ==
  /\ pc = "copy"
  /\ zipped' = {IF z.name = Oldest THEN [z EXCEPT !.whole = TRUE] ELSE z : z \in zipped}
  /\ pc' = "unlink"
  /\ UNCHANGED <<iteration, saved, rows, commits, plain, written, tick>>

CopyFailsUnlinked ==
  /\ pc = "copy" /\ pc' = "unlink"
  /\ UNCHANGED <<iteration, saved, rows, commits, files, tick>>

\* any error of a rotation is swallowed
CopyFails ==
  /\ pc = "copy" /\ pc' = "account"
  /\ UNCHANGED <<iteration, saved, rows, commits, files, tick>>

Unlink ==
  /\ pc = "unlink"
  /\ plain' = Restrict(plain, DOMAIN plain \ {Oldest})
  /\ pc' = "account"
  /\ UNCHANGED <<iteration, saved, rows, commits, zipped, written, tick>>

\* _handle_pattern_match_and_halt: the run ends in this tick, without its row
Halt ==
  /\ pc = "account" /\ halting
  /\ saved' = iteration /\ pc' = "off"
  /\ UNCHANGED <<iteration, rows, commits, files, tick>>

\* _record_tick_accounting
Account ==
  /\ pc = "account" /\ ~halting
  /\ iteration' = iteration + 1 /\ pc' = "attest"
  /\ UNCHANGED <<saved, rows, commits, files, tick>>

\* _attest_tick_commits: a git error is logged and forgotten
Attest ==
  /\ pc = "attest"
  /\ commits' \in {commits, [i \in DOMAIN commits |->
       IF i > head THEN [commits[i] EXCEPT !.note = peer] ELSE commits[i]]}
  /\ pc' = "row"
  /\ UNCHANGED <<iteration, saved, rows, files, tick>>

\* _append_run_log
AppendRow ==
  /\ pc = "row"
  /\ rows' = rows \cup {iteration} /\ pc' = "save"
  /\ UNCHANGED <<iteration, saved, commits, files, tick>>

Save ==
  /\ pc = "save"
  /\ saved' = iteration /\ pc' = "ready"
  /\ UNCHANGED <<iteration, rows, commits, files, tick>>

\* run(): SIGTERM and errors leave through a save of the state as it is
Interrupt ==
  /\ pc # "off"
  /\ saved' = iteration /\ pc' = "off"
  /\ UNCHANGED <<iteration, rows, commits, files, tick>>

Kill ==
  /\ pc # "off" /\ pc' = "off"
  /\ UNCHANGED <<iteration, saved, rows, commits, files, tick>>

Next ==
  \/ Boot
  \/ \E p \in Peers : Invoke(p)
  \/ \E who \in Peers \cup {"operator"} : Commit(who)
  \/ Answer
  \/ BeginCopy \/ NoRotation \/ EndCopy \/ CopyFails \/ Unlink
  \/ Halt \/ Account \/ Attest \/ AppendRow \/ Save
  \/ Interrupt
  \/ Kill

Spec == Init /\ [][Next]_vars

----------------------------------------------------------------------------
\* Correctness

\* A rotation that fails, is interrupted or killed loses no log: what was written
\* last under a name is there, as it was or compressed to its end
\* (driver_observability.py:250).
LogsAreKept ==
  \A n \in DOMAIN written :
    \/ n \in DOMAIN plain /\ plain[n] = written[n]
    \/ [name |-> n, attempt |-> written[n], whole |-> TRUE] \in zipped

\* A commit's note names the peer that wrote it or nobody, although ticks are cut
\* off between a commit and its attestation and the operator commits between two
\* runs (attest.py:72, driver_tick_hooks.py:58).
AttestedByWriter ==
  \A i \in DOMAIN commits : commits[i].note \in {Nobody, commits[i].by}

\* The record of a tick is true.
LogsTellTheTruth == LogsAreKept /\ AttestedByWriter

\* What the docstring says: runs.jsonl has "One JSON line per tick"
\* (driver_observability.py:373): every iteration the saved state counts has its
\* row.
TicksHaveRows == \A i \in 1..saved : i \in rows

\* What a comment says of the rotation, without which "a long run with the tee
\* enabled grows the directory without bound" (driver_observability.py:209): a
\* group never holds more than its threshold and the logs of one tick.
GroupIsBounded == Logs <= Threshold + Cardinality(Streams)
================================================================================
