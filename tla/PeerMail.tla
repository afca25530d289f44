------------------------------- MODULE PeerMail -------------------------------
(***************************************************************************)
(* What peers tell each other: commits with a Peer trailer, and, with      *)
(* `comm: hybrid`, numbered files in one inbox per sender and receiver.    *)
(* The driver reads both while it builds the prompt of the next turn       *)
(* (_read_inbox), then starts the peer, and saves its bookmarks when the   *)
(* turn is over, whether the peer could be started or not, and when it is  *)
(* stopped (comm_layer.py, driver_tick_hooks.py, health_guard.py).         *)
(*                                                                         *)
(* A commit is its position in `log`, a file the identity it was written   *)
(* with.  A message is `seen` when a peer was started with it, and `cut`   *)
(* when a turn ended, or was stopped, before one was.                      *)
(***************************************************************************)
EXTENDS Naturals, Sequences, FiniteSets, FiniteSetsExt

CONSTANTS Peers, Topics,
          MaxCommits, MaxFiles   \* bounds: commits and files of a behaviour

MailAssumption == MaxCommits \in Nat /\ MaxFiles \in Nat

VARIABLES phase,    \* "idle", "reading" (the prompt is built), "running",
                    \* "failed" (the peer could not be started)
          turn,     \* the peer whose turn it is
          log,      \* the authors of the commits, oldest first
          book,     \* state["last_inbox_sha"]; NoMark before the first read
          saved,    \* the same in state.json
          seeds,    \* where a bookmark was first set
          told,     \* commits and files in the prompt being built or running
          seen,     \* those a peer was started with
          cut,      \* those whose turn was over before a peer was started
          inbox,    \* per sender and receiver, the files waiting
          archive,  \* per sender and receiver, the files put away
          files     \* identities handed out

vars == <<phase, turn, log, book, saved, seeds, told, seen, cut, inbox, archive,
          files>>
gitVars == <<log, book, saved, seeds>>
fileVars == <<inbox, archive, files>>

NoMark == 0 - 1
Authors == Peers \cup {"operator"}
Pairs == {pq \in Peers \X Peers : pq[1] # pq[2]}
Others == Peers \ {turn}
Commit(i) == <<"commit", i>>
File(id) == <<"file", id>>

Init == /\ phase = "idle"
        /\ turn \in Peers
        /\ log = <<>>
        /\ book = [p \in Peers |-> NoMark]
        /\ saved = book
        /\ seeds = [p \in Peers |-> 0]
        /\ told = {} /\ seen = {} /\ cut = {}
        /\ inbox = [pq \in Pairs |-> {}]
        /\ archive = [pq \in Pairs |-> {}]
        /\ files = 0

By(p, since) == IF since = NoMark THEN {}
                ELSE {i \in (since + 1)..Len(log) : log[i] = p}

\* new_commits_by for every other peer: one bookmark per sender, whoever reads;
\* the first read only seeds it, so what the sender did before is never told
Marks == [p \in Peers |-> IF p = turn THEN book[p]
                         ELSE IF book[p] = NoMark THEN Len(log)
                         ELSE Max({book[p]} \cup By(p, book[p]))]
ReadPrompt ==
  /\ phase = "idle" /\ phase' = "reading"
  /\ book' = Marks
  /\ seeds' = [p \in Peers |->
                 IF p # turn /\ book[p] = NoMark THEN Len(log) ELSE seeds[p]]
  /\ told' = {Commit(i) : i \in UNION {By(p, book[p]) : p \in Others}}
  /\ UNCHANGED <<turn, log, seen, cut>> /\ UNCHANGED fileVars

ReadAndSave == ReadPrompt /\ saved' = Marks
ReadCommits == ReadPrompt /\ UNCHANGED saved

Suffixes == 0..MaxFiles
TakenAs(dir, f) == {g.suffix : g \in {h \in dir : h.n = f.n /\ h.topic = f.topic}}
Overwrite(dir, f) == {g \in dir : g.n # f.n \/ g.topic # f.topic} \cup {f}

\* archive(): a taken name gets the first free suffix
PutAway(dir, f) ==
  dir \cup {[f EXCEPT !.suffix = Min(Suffixes \ TakenAs(dir, f))]}

\* a file of an inbox is read into the prompt and then renamed into the archive;
\* a failed rename is only warned of, and the file is told again
ReadFile ==
  /\ phase = "reading"
  /\ \E s \in Others : \E f \in inbox[<<s, turn>>] :
       /\ File(f.id) \notin told
       /\ told' = told \cup {File(f.id)}
       /\ \/ /\ inbox' = [inbox EXCEPT ![<<s, turn>>] = @ \ {f}]
             /\ archive' = [archive EXCEPT ![<<s, turn>>] = PutAway(@, f)]
          \/ UNCHANGED <<inbox, archive>>
  /\ UNCHANGED <<phase, turn, seen, cut, files>> /\ UNCHANGED gitVars

\* the peer is started once every file was read, or could not be
Launch == /\ phase = "reading"
          /\ phase' = "running"
          /\ seen' = seen \cup told
          /\ UNCHANGED <<turn, told, cut>> /\ UNCHANGED gitVars
          /\ UNCHANGED fileVars

\* Popen raises (no such program, no permission): "process-fail", and the turn
\* goes on to its end like any other
LaunchFails == /\ phase = "reading"
               /\ phase' = "failed"
               /\ UNCHANGED <<turn, told, seen, cut>> /\ UNCHANGED gitVars
               /\ UNCHANGED fileVars

\* anybody may commit at any time, the running peer among them
Commits(a) ==
  /\ Len(log) < MaxCommits
  /\ a \in Peers => phase = "running" /\ a = turn
  /\ log' = Append(log, a)
  /\ UNCHANGED <<phase, turn, book, saved, seeds, told, seen, cut>>
  /\ UNCHANGED fileVars

\* send(), and what the prompt tells a peer to do: the next number in the inbox,
\* which starts over once the driver has put everything away
Send(q, topic) ==
  LET pq == <<turn, q>>
      n == 1 + Max({0} \cup {f.n : f \in inbox[pq]})
  IN /\ phase = "running" /\ files < MaxFiles
     /\ q # turn
     /\ files' = files + 1
     /\ inbox' = [inbox EXCEPT ![pq] =
                    @ \cup {[n |-> n, topic |-> topic, suffix |-> 0,
                             id |-> files + 1]}]
     /\ UNCHANGED <<phase, turn, told, seen, cut, archive>> /\ UNCHANGED gitVars

\* the end of a turn saves the state and hands over, also when nobody was started
EndTurn(next) == /\ phase \in {"running", "failed"}
                 /\ phase' = "idle" /\ told' = {}
                 /\ turn' = next
                 /\ cut' = cut \cup (told \ seen)
                 /\ saved' = book
                 /\ UNCHANGED <<log, book, seeds, seen>>
                 /\ UNCHANGED fileVars

\* SIGTERM and exceptions save the state, wherever the turn was
Stop == /\ phase # "idle"
        /\ phase' = "idle" /\ told' = {}
        /\ cut' = cut \cup (told \ seen)
        /\ saved' = book
        /\ UNCHANGED <<turn, log, book, seeds, seen>> /\ UNCHANGED fileVars

\* a kill saves nothing: the next driver starts from state.json
Kill == /\ phase # "idle"
        /\ phase' = "idle" /\ told' = {}
        /\ book' = saved
        /\ UNCHANGED <<turn, log, saved, seeds, seen, cut>>
        /\ UNCHANGED fileVars

Next == \/ ReadCommits \/ ReadFile \/ Launch \/ LaunchFails \/ Stop \/ Kill
        \/ \E a \in Authors : Commits(a)
        \/ \E q \in Peers, topic \in Topics : Send(q, topic)
        \/ \E next \in Peers : EndTurn(next)

Spec == Init /\ [][Next]_vars

-----------------------------------------------------------------------------
\* No file a peer wrote is ever overwritten: numbers start over in an emptied
\* inbox, so the archive sees the same name again, and every file written is
\* still in its inbox or in the archive, the only one of its name there
\* (comm_layer.py:376).
Kept(id) == \E pq \in Pairs : \E f \in inbox[pq] \cup archive[pq] : f.id = id
SameName(f, g) == f.n = g.n /\ f.topic = g.topic /\ f.suffix = g.suffix
OneFilePerName(dir) == \A f, g \in dir : SameName(f, g) => f = g
NothingIsClobbered ==
  /\ \A id \in 1..files : Kept(id)
  /\ \A pq \in Pairs : OneFilePerName(inbox[pq]) /\ OneFilePerName(archive[pq])

\* A commit behind a bookmark that was saved has been in a prompt, unless the
\* sender made it before its bookmark was seeded: in one that a peer was started
\* with, or in one whose peer could not be started or whose driver was stopped
\* before.  A killed driver tells it again (driver_tick_hooks.py:504,
\* tick_loop.py:514, health_guard.py:857).
BookmarkSkipsNothing ==
  \A p \in Peers : \A i \in (seeds[p] + 1)..saved[p] :
    log[i] = p => Commit(i) \in seen \cup cut

\* What a peer wrote to another is never overwritten, and what the bookmark says
\* was told has been in a prompt.
MailIsKept == NothingIsClobbered /\ BookmarkSkipsNothing

\* A claim the code does not keep: the inbox files are archived "once consumed"
\* (driver_tick_hooks.py:507), and a bookmark is moved for what was told.  Both
\* happen while the prompt is built: when the peer cannot be started, or the
\* driver is stopped first, nobody was given what they stand for; after a kill,
\* the files.
ToldIsStarted ==
  phase = "idle" =>
    /\ \A p \in Peers : \A i \in (seeds[p] + 1)..saved[p] :
         log[i] = p => Commit(i) \in seen
    /\ \A pq \in Pairs : \A f \in archive[pq] : File(f.id) \in seen
=============================================================================
