--------------------------- MODULE FrozenContracts ---------------------------
(***************************************************************************)
(* The frozen contract of an implement-mode project: the acceptance script,*)
(* the pin file contracts.sha and the hash-chained audit log contracts.log *)
(* (peers_ctl/contracts.py), written when the project is created, changed  *)
(* by `peers-ctl amend`, and read by every gate that runs the script.      *)
(*                                                                         *)
(* Each file is rewritten in place: it is truncated, then filled, so a     *)
(* kill, or a reader, may find it empty.  A line appended to the log is    *)
(* one small write and is there or not.  A sha256 is the text it is of;    *)
(* the e2e script and the plan snapshot are never amended and are left out.*)
(***************************************************************************)
EXTENDS Naturals, Sequences

CONSTANTS Commands,    \* the acceptance commands the operator may pin
          MaxAmends    \* bound: the writers started, the creation included

ContractsAssumption == MaxAmends \in Nat /\ Commands # {}

VARIABLES acc,     \* acceptance.sh: "absent", "empty" or a command
          sha,     \* contracts.sha: "absent", "empty" or the pinned command
          log,     \* contracts.log: the pinned command each entry binds
          writer,  \* the creation or the amend under way: [at, cmd]
          gate,    \* acceptance_pass: [at, saw, ran]: the text its check
                   \* hashed, the text the shell then executed
          started  \* writers started so far

vars == <<acc, sha, log, writer, gate, started>>

Idle == [at |-> "idle", cmd |-> "none"]
GateIdle == [at |-> "idle", saw |-> "none", ran |-> "none"]

Init == /\ acc = "absent"
        /\ sha = "absent"
        /\ log = <<>>
        /\ writer = Idle
        /\ gate = GateIdle
        /\ started = 0

PinsMatchLog == log # <<>> /\ log[Len(log)] = sha

VerifyPinsOnly == sha \in Commands /\ acc = sha

\* verify_contracts: the pins load, every pinned file has its pinned hash, and
\* the last entry of the log binds these pins
VerifyContracts == sha \in Commands /\ acc = sha /\ PinsMatchLog

\* write_frozen_contracts when the project has none; amend_acceptance loads the
\* pins before it writes anything, and raises when they do not load
Start(c) == /\ writer = Idle
            /\ started < MaxAmends
            /\ sha = "absent" \/ sha \in Commands
            /\ writer' = [at |-> "truncate_acc", cmd |-> c]
            /\ started' = started + 1
            /\ UNCHANGED <<acc, sha, log, gate>>

\* one write of the creation or of the amend, in the order of the code
Write ==
  /\ \/ /\ writer.at = "truncate_acc"
        /\ acc' = "empty"
        /\ writer' = [writer EXCEPT !.at = "fill_acc"]
        /\ UNCHANGED <<sha, log>>
     \/ /\ writer.at = "fill_acc"
        /\ acc' = writer.cmd
        /\ writer' = [writer EXCEPT !.at = "truncate_sha"]
        /\ UNCHANGED <<sha, log>>
     \/ /\ writer.at = "truncate_sha"
        /\ sha' = "empty"
        /\ writer' = [writer EXCEPT !.at = "fill_sha"]
        /\ UNCHANGED <<acc, log>>
     \/ /\ writer.at = "fill_sha"
        /\ sha' = writer.cmd
        /\ writer' = [writer EXCEPT !.at = "append_log"]
        /\ UNCHANGED <<acc, log>>
     \/ /\ writer.at = "append_log"
        /\ log' = Append(log, writer.cmd)
        /\ writer' = [writer EXCEPT !.at = "verify"]
        /\ UNCHANGED <<acc, sha>>
  /\ UNCHANGED <<gate, started>>

\* cmd_amend checks its own result
Finish == /\ writer.at = "verify"
          /\ VerifyContracts
          /\ writer' = Idle
          /\ UNCHANGED <<acc, sha, log, gate, started>>

\* the operator's terminal or the host goes away between two writes
Kill == /\ writer # Idle
        /\ writer' = Idle
        /\ UNCHANGED <<acc, sha, log, gate, started>>

\* acceptance_pass: verify, and only then execute the file
GateVerify == /\ gate.at = "idle"
              /\ acc # "absent"
              /\ gate' = [gate EXCEPT
                   !.at = IF VerifyContracts THEN "verified" ELSE "refused",
                   !.saw = acc]
              /\ UNCHANGED <<acc, sha, log, writer, started>>

GateRun == /\ gate.at = "verified"
           /\ gate' = [gate EXCEPT !.at = "executed", !.ran = acc]
           /\ UNCHANGED <<acc, sha, log, writer, started>>

GateAgain == /\ gate.at \in {"refused", "executed"}
             /\ gate' = GateIdle
             /\ UNCHANGED <<acc, sha, log, writer, started>>

Next == \/ \E c \in Commands : Start(c)
        \/ Write \/ Finish \/ Kill
        \/ GateVerify \/ GateRun \/ GateAgain

Spec == Init /\ [][Next]_vars

-----------------------------------------------------------------------------
\* What a gate verified and then executed has its entry in the audit log,
\* however the amends before were cut: a script and a pin that were both
\* replaced by an amend killed before its third file are refused
\* (contracts.py:302).
ExecutedIsAudited ==
  gate.at = "executed" /\ gate.ran = gate.saw
     => \E i \in 1..Len(log) : log[i] = gate.ran

\* A gate that verified the contract executes a pinned command: "the frozen
\* contract is the user's definition of done" (acceptance_pass.py:4).  It does
\* not when an amend empties the file in between: the shell runs an empty
\* script, which exits 0.
ExecutedIsPinned == gate.at = "executed" => gate.ran \in Commands
=============================================================================
