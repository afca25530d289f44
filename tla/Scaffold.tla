------------------------------- MODULE Scaffold -------------------------------
(***************************************************************************)
(* `peers-ctl new` and `peers init`: a project directory, its repository,  *)
(* the control directory .peers with its goals and their pinned hash, the  *)
(* frozen contracts of a plan, the rollback tag and the record in the      *)
(* registry, written one after the other by a command that may fail or be  *)
(* killed at every step and be run again, with --force or without, while a *)
(* run of the project goes on (peers/cli.py, peers_ctl/cli.py).            *)
(***************************************************************************)
EXTENDS Naturals, Sequences

CONSTANTS Plans,        \* plans a command may be given, with their modes
          MaxCommands, MaxCommits

VARIABLES cmd,      \* the command: where it is, --force, its plan, only `init`
          commands, \* commands started
          files,    \* the directory holds the operator's files
          head,     \* who made each commit; no repository: NoRepo
          tag,      \* the tag peers-baseline, as a length of head, 0 without
          dot,      \* .peers: its incarnation (0: absent), goals, pin, contracts
          plan,     \* PLAN.md
          ignored,  \* .gitignore names .peers
          record,   \* the registry: "none", "idle", "running"
          drivers   \* incarnations of .peers in which a driver holds run.lock

vars == <<cmd, commands, files, head, tag, dot, plan, ignored, record, drivers>>

None == "none"
NoRepo == <<"no repository">>
NoDot == [born |-> 0, goals |-> None, pin |-> None, contracts |-> None]
Idle == [at |-> "idle", force |-> FALSE, plan |-> None, init |-> FALSE]
GoalsOf(p) == IF p = None THEN "default" ELSE p
At(stage) == cmd.at = stage
Go(stage) == cmd' = [cmd EXCEPT !.at = stage]
\* a commit may be refused by git, and nobody looks
Commit(by) == {head} \cup IF Len(head) < MaxCommits THEN {Append(head, by)} ELSE {}

Init == /\ cmd = Idle /\ commands = 0
        /\ files \in BOOLEAN
        /\ head \in {NoRepo, <<"operator">>}
        /\ head # NoRepo => files
        /\ tag = 0 /\ dot = NoDot /\ plan = None
        /\ ignored = FALSE
        /\ record = "none" /\ drivers = {}

\* a directory with something in it is refused without --force; so is a plan
\* whose acceptance command passes already
New(force, p, template) ==
  /\ At("idle") /\ commands < MaxCommands
  /\ files => force
  /\ commands' = commands + 1
  /\ cmd' = [at |-> IF template THEN "clone" ELSE "docs", plan |-> p,
             force |-> force \/ template, init |-> FALSE]
  /\ UNCHANGED <<files, head, tag, dot, plan, ignored, record, drivers>>

\* `peers init` alone scaffolds .peers and registers nothing
InitAlone(force) ==
  /\ At("idle") /\ commands < MaxCommands
  /\ commands' = commands + 1
  /\ cmd' = [at |-> "wipe", plan |-> None, force |-> force, init |-> TRUE]
  /\ UNCHANGED <<files, head, tag, dot, plan, ignored, record, drivers>>

\* the template clears the directory, .peers with it, and clones into it; the
\* command ends when the clone fails
Clone == /\ At("clone")
         /\ \/ Go("docs") /\ head' = <<"operator">> /\ files' = TRUE
            \/ cmd' = Idle /\ head' = NoRepo /\ files' = FALSE
         /\ dot' = NoDot /\ plan' = None /\ ignored' \in BOOLEAN /\ tag' = 0
         /\ UNCHANGED <<commands, record, drivers>>

\* README.md, git init and the first commit
Docs == /\ At("docs") /\ Go("wipe")
        /\ files' = TRUE
        /\ IF head = NoRepo THEN head' \in {<<>>, <<"scaffold">>}
                           ELSE UNCHANGED head
        /\ UNCHANGED <<commands, tag, dot, plan, ignored, record, drivers>>

KeepDot ==
  /\ At("wipe") /\ (dot.born = 0 \/ cmd.force) /\ Go("copy")
  /\ dot' = [dot EXCEPT !.born = commands]
  /\ UNCHANGED <<commands, files, head, tag, plan, ignored, record, drivers>>

\* an old .peers is removed with everything in it, whoever runs there
Wipe ==
  /\ At("wipe") /\ (dot.born = 0 \/ cmd.force) /\ Go("copy")
  /\ dot' = [NoDot EXCEPT !.born = commands]
  /\ UNCHANGED <<commands, files, head, tag, plan, ignored, record, drivers>>

\* the templates, then the goals the modes merge to, with their gate scripts
Copy == /\ At("copy") /\ Go("tag")
        /\ dot' = [dot EXCEPT !.goals = GoalsOf(cmd.plan)]
        /\ UNCHANGED <<commands, files, head, tag, plan, ignored, record, drivers>>

\* git tag -f: an existing tag moves
TagBaseline ==
  /\ At("tag") /\ Go("pin")
  /\ tag' = IF head \in {NoRepo, <<>>} THEN tag ELSE Len(head)
  /\ UNCHANGED <<commands, files, head, dot, plan, ignored, record, drivers>>

\* goals.sha256
Pin == /\ At("pin") /\ Go("ignore")
       /\ dot' = [dot EXCEPT !.pin = dot.goals]
       /\ UNCHANGED <<commands, files, head, tag, plan, ignored, record, drivers>>

Ignore == /\ At("ignore") /\ Go("contracts")
          /\ ignored' = TRUE
          /\ IF ignored \/ head = NoRepo THEN UNCHANGED head
                                       ELSE head' \in Commit("peers-init")
          /\ UNCHANGED <<commands, files, tag, dot, plan, record, drivers>>

Contracts ==
  /\ At("contracts") /\ ~cmd.init /\ Go("register")
  /\ IF cmd.plan = None THEN UNCHANGED <<plan, dot>>
     ELSE plan' = cmd.plan /\ dot' = [dot EXCEPT !.contracts = cmd.plan]
  /\ UNCHANGED <<commands, files, head, tag, ignored, record, drivers>>

\* a name already in the registry is refused now, with everything written; with
\* --force its record is removed before the new one is added
Forget == /\ At("register") /\ (record = "none" \/ cmd.force) /\ Go("add")
          /\ record' = "none"
          /\ UNCHANGED <<commands, files, head, tag, dot, plan, ignored, drivers>>
Add == /\ At("add") /\ Go("done")
       /\ record' = "idle"
       /\ UNCHANGED <<commands, files, head, tag, dot, plan, ignored, drivers>>

\* a return, a refusal half way, an error or a kill
Leave == /\ ~At("idle")
         /\ cmd' = Idle
         /\ UNCHANGED <<commands, files, head, tag, dot, plan, ignored, record,
                        drivers>>

\* a run of the project: its lock file is inside .peers
Start == /\ record = "idle" /\ dot.goals # None /\ dot.born \notin drivers
         /\ record' = "running"
         /\ drivers' = drivers \cup {dot.born}
         /\ UNCHANGED <<cmd, commands, files, head, tag, dot, plan, ignored>>
PeerCommits ==
  /\ drivers # {} /\ head # NoRepo /\ Len(head) < MaxCommits
  /\ head' = Append(head, "peer")
  /\ UNCHANGED <<cmd, commands, files, tag, dot, plan, ignored, record, drivers>>
Finish(d) == /\ drivers' = drivers \ {d}
             /\ record' = IF record = "running" THEN "idle" ELSE record
             /\ UNCHANGED <<cmd, commands, files, head, tag, dot, plan, ignored>>

Next == \/ \E force \in BOOLEAN : InitAlone(force)
        \/ \E force, template \in BOOLEAN, p \in Plans : New(force, p, template)
        \/ Clone \/ Docs \/ Wipe \/ Copy \/ TagBaseline \/ Pin \/ Ignore
        \/ Contracts \/ Forget \/ Add \/ Leave
        \/ Start \/ PeerCommits \/ \E d \in drivers : Finish(d)

Spec == Init /\ [][Next]_vars

-----------------------------------------------------------------------------
\* A command that says it is done left a project of one piece, whatever was left
\* of the commands before it: goals and their pinned hash, the contracts of this
\* plan and of no earlier one, a record
\* (peers/cli.py:486, peers_ctl/cli.py:822).
ScaffoldIsWhole ==
  At("done") => /\ dot.born = commands
                /\ dot.goals = GoalsOf(cmd.plan) /\ dot.pin = dot.goals
                /\ dot.contracts = cmd.plan
                /\ ignored /\ record # "none"

\* peers/cli.py:651: "tag the target's current HEAD so a human can always roll
\* back to "before peers touched this"".
BaselineIsBeforePeers ==
  \A i \in 1..tag : head = NoRepo \/ head[i] # "peer"
=============================================================================
