------------------------------- MODULE HostHooks -------------------------------
(***************************************************************************)
(* `peers init --driver=hooks --install`: the Stop hooks through which the *)
(* hosts of the operator's peers start the next tick.  Each command reads  *)
(* ~/.claude/settings.json and ~/.codex/config.toml, of which there is one *)
(* for all projects, puts its own entry in, and replaces them by way of a  *)
(* file of one fixed name; nothing is locked, so commands of two projects  *)
(* overlap (peers/cli.py).                                                 *)
(***************************************************************************)
EXTENDS Naturals, Sequences

CONSTANTS Projects,
          Within,         \* the <<p, q>> of which p's marker, "peers:<path>", is a
                          \* part of q's
          MaxCommands

VARIABLES file,     \* of each host: absent, unsafe, or there with its Stop entries
          tmp,      \* the file that is to replace it
          cmd,      \* of each project: where its command is, what it will write
                    \* of which host
          said,     \* what the last command of the project said of each host
          driver,   \* of each project: the driver of its config.yaml
          alone,    \* the last command's project, if no other was under way
          had,      \* the files as the operator had them
          commands

vars == <<file, tmp, cmd, said, driver, alone, had, commands>>

\* a marker is a part of another as its path is
HooksAssumption ==
  /\ "operator" \notin Projects /\ "nobody" \notin Projects
  /\ \A p \in Projects : <<p, p>> \in Within
  /\ \A p, q, r \in Projects : <<p, q>> \in Within /\ <<q, r>> \in Within => <<p, r>> \in Within

Hosts == {"claude", "codex"}
Operator == "operator"
Nobody == "nobody"
\* an entry is of an older peers when its command is not the one of today
Entry(p, current) == [of |-> p, current |-> current]
There(stop) == [is |-> "there", stop |-> stop]
Absent == [is |-> "absent", stop |-> <<>>]
Unsafe == [is |-> "unsafe", stop |-> <<>>]    \* a symlink, not JSON, no list
NoTmp == [is |-> "no tmp", stop |-> <<>>]
Idle == [at |-> "idle", host |-> "claude", to |-> Absent, status |-> "none",
         install |-> FALSE]

\* the entries in which the project finds its marker
Marked(p, stop) == {i \in 1..Len(stop) : stop[i].of # Operator /\ <<p, stop[i].of>> \in Within}
First(S) == CHOOSE i \in S : \A j \in S : i <= j

\* what a command makes of a file it has read, and what it says of it
Merged(h, p, f) ==
  LET mine == Marked(p, f.stop)
      is(status, stop) == [status |-> status, to |-> There(stop)]
  IN  IF f.is = "unsafe" THEN is("skipped", <<>>)
      ELSE IF mine # {}
        THEN IF f.stop[First(mine)] = Entry(p, TRUE) THEN is("noop", f.stop)
             ELSE is("updated", [f.stop EXCEPT ![First(mine)] = Entry(p, TRUE)])
      \* TOML is not merged into a [hooks] somebody else wrote
      ELSE IF h = "codex" /\ f.stop # <<>> THEN is("skipped", f.stop)
      ELSE is("installed", Append(f.stop, Entry(p, TRUE)))

Worked == {"installed", "updated", "noop"}

Init == /\ file \in [Hosts -> {Absent, Unsafe, There(<<>>), There(<<Entry(Operator, TRUE)>>)}
                              \cup {There(<<Entry(p, FALSE)>>) : p \in Projects}]
        /\ tmp = [h \in Hosts |-> NoTmp]
        /\ cmd = [p \in Projects |-> Idle]
        /\ said = [p \in Projects |-> [h \in Hosts |-> "nothing"]]
        /\ driver = [p \in Projects |-> "none"]
        /\ alone = Nobody /\ had = file /\ commands = 0

At(p, stage, h) == cmd[p].at = stage /\ cmd[p].host = h
Go(p, stage) == cmd' = [cmd EXCEPT ![p].at = stage]
\* one host is through; an error of one leaves the other to be tried
Say(p, h, status) == /\ said' = [said EXCEPT ![p][h] = status]
                     /\ IF h = "claude"
                        THEN cmd' = [cmd EXCEPT ![p].at = "read", ![p].host = "codex"]
                        ELSE Go(p, "idle")

\* `peers init` has copied its templates, and drops the snippets
Begin(p, hooks, install) ==
  /\ cmd[p].at = "idle" /\ commands < MaxCommands
  /\ commands' = commands + 1
  /\ cmd' = [cmd EXCEPT ![p] = [Idle EXCEPT !.at = IF hooks THEN "switch" ELSE "idle",
                                            !.install = install]]
  /\ said' = [said EXCEPT ![p] = [h \in Hosts |-> "nothing"]]
  /\ driver' = [driver EXCEPT ![p] = "orchestrator"]
  /\ alone' = IF \A q \in Projects \ {p} : cmd[q].at = "idle" THEN p ELSE Nobody
  /\ UNCHANGED <<file, tmp, had>>

Switch(p) ==
  /\ cmd[p].at = "switch"
  /\ driver' = [driver EXCEPT ![p] = "hooks"]
  /\ Go(p, IF cmd[p].install THEN "read" ELSE "idle")
  /\ UNCHANGED <<file, tmp, said, alone, had, commands>>

\* a config.toml that is not there is written in place
Read(p, h) ==
  LET merged == Merged(h, p, file[h]) IN
  /\ At(p, "read", h)
  /\ \/ /\ merged.status \in {"skipped", "noop"}
        /\ Say(p, h, merged.status) /\ UNCHANGED file
     \/ /\ merged.status \notin {"skipped", "noop"}
        /\ h = "codex" /\ file[h] = Absent
        /\ file' = [file EXCEPT ![h] = merged.to] /\ Say(p, h, merged.status)
     \/ /\ merged.status \notin {"skipped", "noop"}
        /\ ~(h = "codex" /\ file[h] = Absent)
        /\ cmd' = [cmd EXCEPT ![p].at = "tmp", ![p].to = merged.to,
                              ![p].status = merged.status]
        /\ UNCHANGED <<file, said>>
  /\ UNCHANGED <<tmp, driver, alone, had, commands>>

\* what was read goes into a copy first, then what is to come into the tmp
WriteTmp(p, h) ==
  /\ At(p, "tmp", h)
  /\ tmp' = [tmp EXCEPT ![h] = cmd[p].to]
  /\ Go(p, "replace")
  /\ UNCHANGED <<file, said, driver, alone, had, commands>>

\* os.replace takes the tmp that is there, whoever wrote it
Replace(p, h) ==
  /\ At(p, "replace", h)
  /\ IF tmp[h] = NoTmp THEN Say(p, h, "failed") /\ UNCHANGED <<file, tmp>>
     ELSE /\ file' = [file EXCEPT ![h] = tmp[h]]
          /\ tmp' = [tmp EXCEPT ![h] = NoTmp]
          /\ Say(p, h, cmd[p].status)
  /\ UNCHANGED <<driver, alone, had, commands>>

Fail(p, h) ==
  /\ At(p, "tmp", h)
  /\ Say(p, h, "failed")
  /\ UNCHANGED <<file, tmp, driver, alone, had, commands>>

Kill(p) ==
  /\ cmd[p].at # "idle"
  /\ Go(p, "idle")
  /\ UNCHANGED <<file, tmp, said, driver, alone, had, commands>>

Next == \E p \in Projects :
          \/ \E hooks, install \in BOOLEAN : Begin(p, hooks, install)
          \/ Switch(p) \/ Kill(p)
          \/ \E h \in Hosts : Read(p, h) \/ WriteTmp(p, h) \/ Replace(p, h) \/ Fail(p, h)

Spec == Init /\ [][Next]_vars

------------------------------------------------------------------------------
\* the entries of somebody, with their places
Of(f, who) == {<<i, f.stop[i]>> : i \in {j \in 1..Len(f.stop) : f.stop[j].of = who}}

\* However the commands overlap or are cut, a file that looked unsafe is not
\* written, and what the operator has in it by himself stays in it, in its place
\* (peers/cli.py:75, "Other entries are preserved"; peers/cli.py:164).
OperatorsStay ==
  \A h \in Hosts : /\ file[h] = Unsafe <=> had[h] = Unsafe
                   /\ Of(file[h], Operator) = Of(had[h], Operator)

\* A command that nothing overlapped and that says its hook is in has put it in,
\* for a project whose config.yaml says that hooks drive it; and nobody's hook is
\* there twice (peers/cli.py:65, "idempotently").
SaidIsInstalled ==
  \A h \in Hosts, p \in Projects :
    /\ alone = p /\ said[p][h] \in Worked =>
         /\ driver[p] = "hooks"
         /\ \E e \in Of(file[h], p) : e[2] = Entry(p, TRUE)
    /\ \A d, e \in Of(file[h], p) : d = e

\* Both hold of the files all projects share (peers/cli.py:65, 75, 164).
HooksAreInstalled == OperatorsStay /\ SaidIsInstalled
=============================================================================
