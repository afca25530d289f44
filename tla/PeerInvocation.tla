--------------------------- MODULE PeerInvocation ---------------------------
(***************************************************************************)
(* HealthGuard.invoke() (health_guard.py): one call of a peer's CLI.  Two  *)
(* reader threads move the child's output into buffers; the monitor polls  *)
(* the child, scans what is new for error and halt patterns, and kills a   *)
(* child that is silent for too long or runs for too long; after that the  *)
(* readers drain the pipes and the call is classified.                     *)
(*                                                                         *)
(* Output is a sequence of fragments: "er" "ror" are the halves of a text  *)
(* an error pattern matches, "halt" is one of a halt pattern, "echo" is    *)
(* what a line starts with that only quotes the repository, "envHalt" and  *)
(* "envRate" are lines of the tool's own structured channel.               *)
(***************************************************************************)
EXTENDS Naturals, Sequences, FiniteSets, SequencesExt

CONSTANTS
  Scripts,      \* what the child would write: records [out, err] of sequences;
                \* tee: the live tee is on, and its file system may be slow
  BufCap        \* buf_cap_bytes, in fragments

Streams == {"out", "err"}
Fragments == {"text", "eol", "er", "ror", "halt", "echo", "envHalt", "envRate", "cut"}

InvocationAssumption ==
  /\ BufCap \in Nat /\ BufCap > 2
  /\ Scripts \subseteq [out : Seq(Fragments), err : Seq(Fragments), tee : BOOLEAN]

VARIABLES
  script,       \* what this child would write
  child,        \* "running", "exited" or "killed"
  rc,           \* its exit status: "none", "ok", "bad"
  holder,       \* a process that left the group still holds the pipes open
  wrote, taken, \* per stream: fragments written, fragments read
  buf, fresh,   \* per stream: what is kept, and what was not scanned yet
  cut,          \* per stream: the middle was truncated
  reader,       \* per stream: the thread "reads", is "stalled" in the tee, or "done"
  stop,         \* request_stop() was called
  quiet,        \* silence: 0 short, 1 past hang_kill_s, 2 past idle_timeout_s
  old,          \* past absolute_max_runtime_s
  mon,          \* where the monitor is
  sawExit,      \* proc.poll() gave a status
  class, halted \* classification, halt_required

ioVars == <<wrote, taken, buf, fresh, cut, reader>>
vars == <<script, child, rc, holder, wrote, taken, buf, fresh, cut, reader, stop,
          quiet, old, mon, sawExit, class, halted>>

Empty == [s \in Streams |-> <<>>]

Init ==
  /\ script \in Scripts
  /\ child = "running" /\ rc = "none" /\ holder = FALSE
  /\ wrote = [s \in Streams |-> 0] /\ taken = [s \in Streams |-> 0]
  /\ buf = Empty /\ fresh = Empty /\ cut = [s \in Streams |-> FALSE]
  /\ reader = [s \in Streams |-> "reads"] /\ stop = FALSE
  /\ quiet = 0 /\ old = FALSE /\ mon = "poll" /\ sawExit = FALSE
  /\ class = "none" /\ halted = FALSE

-----------------------------------------------------------------------------
(* Patterns over a piece of text. *)

LineStart(t, i) ==
  CHOOSE j \in 1..i : /\ j = 1 \/ t[j - 1] = "eol"
                      /\ \A k \in j..(i - 1) : t[k] # "eol"

IsEchoed(t, i) == t[LineStart(t, i)] = "echo"

HaltHit(t) == \E i \in DOMAIN t : t[i] = "halt" /\ ~IsEchoed(t, i)
ErrorHit(t) == \E i \in 1..(Len(t) - 1) : t[i] = "er" /\ t[i + 1] = "ror"

(* Halt patterns come first, and an echoed line is skipped as a whole. *)
FirstActionableMatch(t) ==
  CASE HaltHit(t) -> "halt"
    [] ~HaltHit(t) /\ ErrorHit(t) -> "error"
    [] OTHER -> "none"

Truncate(t) == IF Len(t) > BufCap THEN <<t[1], "cut">> \o <<Last(t)>> ELSE t
Suffix(t) == SubSeq(t, Len(t) - BufCap + 1, Len(t))

-----------------------------------------------------------------------------
(* The child. *)

ChildWrites(s) ==
  /\ child = "running" /\ wrote[s] < Len(script[s])
  /\ wrote' = [wrote EXCEPT ![s] = @ + 1]
  /\ UNCHANGED <<script, child, rc, holder, taken, buf, fresh, cut, reader, stop, quiet,
                 old, mon, sawExit, class, halted>>

ChildExits ==
  /\ child = "running"
  /\ child' = "exited" /\ rc' \in {"ok", "bad"} /\ holder' \in BOOLEAN
  /\ UNCHANGED <<script, ioVars, stop, quiet, old, mon, sawExit, class, halted>>

(* SIGTERM, five seconds, SIGKILL, to the whole group. *)
TerminateAndReap ==
  IF child = "running"
  THEN child' = "killed" /\ rc' = "bad" /\ holder' \in BOOLEAN
  ELSE UNCHANGED <<child, rc, holder>>

-----------------------------------------------------------------------------
(* The reader threads.  The time of the last output is published before the
   chunk is appended; the tee is written under the collector's lock.         *)

AppendChunk(s, chunk) ==
  LET kept == buf[s] \o chunk
      unscanned == fresh[s] \o chunk
  IN
  /\ buf' = [buf EXCEPT ![s] = Truncate(kept)]
  /\ cut' = [cut EXCEPT ![s] = @ \/ Len(kept) > BufCap]
  /\ fresh' = [fresh EXCEPT ![s] = IF Len(unscanned) > BufCap THEN Suffix(unscanned)
                                   ELSE unscanned]

ReadChunk(s) ==
  /\ reader[s] = "reads" /\ ~stop /\ taken[s] < wrote[s]
  /\ \E n \in 1..(wrote[s] - taken[s]) :
       /\ taken' = [taken EXCEPT ![s] = @ + n]
       /\ AppendChunk(s, SubSeq(script[s], taken[s] + 1, taken[s] + n))
  /\ quiet' = 0
  /\ reader' = [reader EXCEPT ![s] = IF script.tee THEN "stalled" ELSE @]
  /\ UNCHANGED <<script, child, rc, holder, wrote, stop, old, mon, sawExit, class, halted>>

(* The tee's write returns. *)
TeeReturns(s) ==
  /\ reader[s] = "stalled"
  /\ reader' = [reader EXCEPT ![s] = "reads"]
  /\ UNCHANGED <<script, child, rc, holder, wrote, taken, buf, fresh, cut, stop, quiet,
                 old, mon, sawExit, class, halted>>

(* End of file, or the stop flag between two reads. *)
ReaderEnds(s) ==
  /\ reader[s] = "reads"
  /\ stop \/ (child # "running" /\ ~holder /\ taken[s] = wrote[s])
  /\ reader' = [reader EXCEPT ![s] = "done"]
  /\ UNCHANGED <<script, child, rc, holder, wrote, taken, buf, fresh, cut, stop, quiet,
                 old, mon, sawExit, class, halted>>

LockFree(s) == reader[s] # "stalled"

-----------------------------------------------------------------------------
(* The monitor. *)

Poll ==
  /\ mon = "poll"
  /\ sawExit' = (child # "running") /\ mon' = "scanOut"
  /\ UNCHANGED <<script, child, rc, holder, ioVars, stop, quiet, old, class, halted>>

Stops(verdict, halts) ==
  /\ class' = verdict /\ halted' = halts /\ mon' = "drain"
  /\ TerminateAndReap

(* scan_new() of one stream: what arrived since the last scan, no more.  A
   pattern that takes too long fails the call.                               *)
ScanNew(s, here, next) ==
  /\ mon = here /\ LockFree(s)
  /\ fresh' = [fresh EXCEPT ![s] = <<>>]
  /\ LET hit == FirstActionableMatch(fresh[s])
     IN \/ hit # "none" /\ Stops("api-error", hit = "halt")
        \/ hit = "none" /\ mon' = next /\ UNCHANGED <<child, rc, holder, class, halted>>
        \/ fresh[s] # <<>> /\ Stops("process-fail", FALSE)
  /\ UNCHANGED <<script, wrote, taken, buf, cut, reader, stop, quiet, old, sawExit>>

Scan == \/ ScanNew("out", "scanOut", "scanErr")
        \/ ScanNew("err", "scanErr", IF sawExit THEN "drain" ELSE "timers")

(* socket_active, proc_state_alive, the session jsonl: each may say "alive". *)
HangKill ==
  /\ mon = "timers" /\ quiet > 0
  /\ Stops("idle-timeout", FALSE)
  /\ UNCHANGED <<script, ioVars, stop, quiet, old, sawExit>>

\* Mutant of IdleTimeout: the session jsonl restarts the whole clock.
IdleRestartsClock ==
  /\ mon = "timers" /\ quiet = 2
  /\ \/ Stops("idle-timeout", FALSE) /\ UNCHANGED <<quiet, old>>
     \/ /\ quiet' = 0 /\ old' = FALSE /\ mon' = "poll"
        /\ UNCHANGED <<child, rc, holder, class, halted>>
  /\ UNCHANGED <<script, ioVars, stop, sawExit>>

IdleTimeout ==
  /\ mon = "timers" /\ quiet = 2
  /\ \/ Stops("idle-timeout", FALSE) /\ UNCHANGED quiet
     \/ /\ quiet' = 0 /\ mon' = "poll"      \* the session jsonl was written
        /\ UNCHANGED <<child, rc, holder, class, halted>>
  /\ UNCHANGED <<script, ioVars, stop, old, sawExit>>

AbsoluteTimeout ==
  /\ mon = "timers" /\ quiet < 2 /\ old
  /\ Stops("absolute-timeout", FALSE)
  /\ UNCHANGED <<script, ioVars, stop, quiet, old, sawExit>>

Rest ==
  /\ mon = "timers" /\ quiet < 2 /\ ~old
  /\ mon' = "sleep"
  /\ UNCHANGED <<script, child, rc, holder, ioVars, stop, quiet, old, sawExit, class, halted>>

Sleep ==
  /\ mon = "sleep" /\ mon' = "poll"
  /\ quiet' \in {quiet, IF quiet = 2 THEN 2 ELSE quiet + 1}
  /\ old' \in {old, TRUE}
  /\ UNCHANGED <<script, child, rc, holder, ioVars, stop, sawExit, class, halted>>

(* Two seconds drain what a pipe holds; then the readers are told to stop. *)
RequestStop ==
  /\ mon = "drain"
  /\ \A s \in Streams : reader[s] = "reads" => taken[s] = wrote[s]
  /\ stop' = TRUE /\ mon' = "join"
  /\ UNCHANGED <<script, child, rc, holder, ioVars, quiet, old, sawExit, class, halted>>

(* join() gives a stalled reader up after thirty seconds. *)
Join ==
  /\ mon = "join" /\ \A s \in Streams : reader[s] # "reads"
  /\ mon' = "verdict"
  /\ UNCHANGED <<script, child, rc, holder, ioVars, stop, quiet, old, sawExit, class, halted>>

\* Mutant of Rescan: the scans of the loop have seen everything.
NoRescan == "none"

(* The whole of each buffer once more, when nothing was classified. *)
Rescan ==
  CASE FirstActionableMatch(buf["out"]) # "none" -> FirstActionableMatch(buf["out"])
    [] OTHER -> FirstActionableMatch(buf["err"])

(* The tool's own error events, which no quoted line can forge. *)
Structured(kind) == \E i \in DOMAIN buf["out"] : buf["out"][i] = kind
StructuredHalt == Structured("envHalt")
StructuredTransient == Structured("envRate")

Verdict ==
  /\ mon = "verdict" /\ \A s \in Streams : LockFree(s)
  /\ \E hit \in IF class = "none" THEN {Rescan, "slow"} ELSE {"none"} :
     LET first == CASE hit \in {"halt", "error"} -> "api-error"
                    [] hit = "slow" -> "process-fail"
                    [] OTHER -> class
         halts == halted \/ hit = "halt" \/ StructuredHalt
     IN
     /\ halted' = halts
     /\ class' = CASE ~halted /\ hit # "halt" /\ StructuredHalt -> "api-error"
                   [] ~halts /\ first = "none" /\ StructuredTransient -> "rate-limited"
                   [] ~(halts \/ StructuredTransient) /\ first = "none" ->
                        IF rc = "ok" THEN "success" ELSE "process-fail"
                   [] OTHER -> first
  /\ mon' = "done"
  /\ UNCHANGED <<script, child, rc, holder, ioVars, stop, quiet, old, sawExit>>

Monitor ==
  \/ Poll \/ Scan \/ HangKill \/ IdleTimeout \/ AbsoluteTimeout \/ Rest \/ Sleep
  \/ RequestStop \/ Join \/ Verdict

Next ==
  \/ Monitor \/ ChildExits
  \/ \E s \in Streams : ChildWrites(s) \/ ReadChunk(s) \/ TeeReturns(s) \/ ReaderEnds(s)

(* The threads run, the clock passes the absolute limit, a write to the tee
   returns; a child need not ever write or exit.                             *)
RunsOver == Sleep /\ old'
Reading(s) == ReadChunk(s) \/ TeeReturns(s) \/ ReaderEnds(s)
InvFairness ==
  WF_vars(Monitor) /\ SF_vars(RunsOver) /\ \A s \in Streams : WF_vars(Reading(s))

Spec == Init /\ [][Next]_vars /\ InvFairness

-----------------------------------------------------------------------------
TypeOK ==
  /\ child \in {"running", "exited", "killed"} /\ rc \in {"none", "ok", "bad"}
  /\ \A s \in Streams : /\ taken[s] <= wrote[s] /\ wrote[s] <= Len(script[s])
                        /\ Len(buf[s]) <= BufCap /\ ToSet(buf[s]) \subseteq Fragments
  /\ class \in {"none", "success", "process-fail", "api-error", "idle-timeout",
                "absolute-timeout", "rate-limited"}
  /\ halted => class = "api-error"

Written(s) == SubSeq(script[s], 1, wrote[s])

(* health_guard.py:1133 (BUG-007): whatever the threads' timing and the chunks,
   a call is a success, or rate-limited, only if no actionable error is in what
   the child wrote, but for what truncation dropped, and what was left in the
   pipe by a reader that its tee held up.                                    *)
SuccessIsClean ==
  mon = "done" /\ class \in {"success", "rate-limited"} =>
    \A s \in Streams : \/ cut[s]
                       \/ script.tee /\ taken[s] < wrote[s]
                       \/ FirstActionableMatch(Written(s)) = "none"

(* health_guard.py:1137 (a comment): "The reader-join below then drains the
   pipe", and the "final rescan against the post-drain text closes the race".
   A reader that is stalled in its tee when it is told to stop reads no more. *)
RescanSeesAll ==
  mon = "done" /\ class \in {"success", "rate-limited"} =>
    \A s \in Streams : cut[s] \/ FirstActionableMatch(Written(s)) = "none"

(* health_guard.py:378 (a comment): the scan "always sits at a line boundary,
   keeping `^` and `_matched_line` line-aligned", so that an echoed line forges
   no halt.                                                                  *)
HaltIsGenuine ==
  halted => \/ \E s \in Streams : HaltHit(Written(s))
            \/ \E i \in 1..wrote["out"] : script["out"][i] = "envHalt"

(* health_guard.py:1018 (a comment): "absolute_max stays the hard backstop":
   every call ends, although a helper process holds the pipes open.          *)
Ended == mon = "done"
InvocationEnds == <>Ended
=============================================================================
