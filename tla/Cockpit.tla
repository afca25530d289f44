-------------------------------- MODULE Cockpit -------------------------------
(***************************************************************************)
(* The terminal interface: it polls the files of the selected run off the  *)
(* UI thread, paints what it read, and keeps one child process that follows*)
(* the output of the peer whose turn it is (tui/app.py, actions.py,        *)
(* reader.py).  The runs go on meanwhile, each tick writing a stream file  *)
(* of its own.                                                             *)
(*                                                                         *)
(* Every peer is a claude, the tool with a fallback: without a stream file *)
(* the child is `peers-ctl peek`, which may end by itself.                 *)
(***************************************************************************)
EXTENDS Naturals, Sequences, FiniteSets

CONSTANTS Runs, Peers,
          MaxTicks, MaxChildren,  \* bounds: ticks of a run, children started
          MaxMessages             \* bound: messages that wait to be handled

VARIABLES turn,      \* per run, the current peer in state.json
          tees,      \* per run, the peer of each stream file, in tick order
          running,   \* per run, whether a tick is being worked on
          active,    \* _active_name
          reading,   \* the run the snapshot worker reads
          posted,    \* SnapshotReady messages not handled yet, oldest first
          data,      \* _last_data: [run, peer]
          shown,     \* the live panel is visible
          stream,    \* _stream and its key: [id, run, peer, file]
          eof,       \* _stream_eof_at: "none", "recent", "past"
          kids,      \* children alive
          started    \* children started

runVars == <<turn, tees, running>>
appVars == <<active, reading, posted, data, shown>>
streamVars == <<stream, eof, kids, started>>
vars == <<runVars, appVars, streamVars>>

None == "none"
NoData == [run |-> None, peer |-> None]
NoStream == [id |-> 0, run |-> None, peer |-> None, file |-> 0]

Init == /\ turn \in [Runs -> Peers]
        /\ tees = [r \in Runs |-> <<>>]
        /\ running = [r \in Runs |-> FALSE]
        /\ active = None /\ reading = None
        /\ posted = <<>> /\ data = NoData
        /\ shown = TRUE
        /\ stream = NoStream /\ eof = "none"
        /\ kids = {} /\ started = 0

-----------------------------------------------------------------------------
\* The run: health_guard opens tick-N-<peer>.stream.jsonl when the peer starts,
\* the state with the next turn is saved when the tick is over.
TickStart(r) ==
  /\ ~running[r] /\ Len(tees[r]) < MaxTicks
  /\ running' = [running EXCEPT ![r] = TRUE]
  /\ tees' = [tees EXCEPT ![r] = Append(@, turn[r])]
  /\ UNCHANGED turn /\ UNCHANGED appVars /\ UNCHANGED streamVars
TickEnd(r, next) ==
  /\ running[r]
  /\ running' = [running EXCEPT ![r] = FALSE]
  /\ turn' = [turn EXCEPT ![r] = next]
  /\ UNCHANGED tees /\ UNCHANGED appVars /\ UNCHANGED streamVars

-----------------------------------------------------------------------------
\* newest_tee_stream; 0 stands for `peek`
NewestTee(r, p) ==
  LET S == {t \in 1..Len(tees[r]) : tees[r][t] = p}
  IN IF S = {} THEN 0 ELSE CHOOSE t \in S : \A u \in S : u <= t

StopStream == /\ stream' = NoStream
              /\ kids' = kids \ {stream.id}
              /\ UNCHANGED started

ForgetStream(r, p) ==
  /\ started < MaxChildren
  /\ stream' = [id |-> started + 1, run |-> r, peer |-> p, file |-> NewestTee(r, p)]
  /\ kids' = kids \cup {started + 1}
  /\ started' = started + 1
\* the old child is killed first
StartStream(r, p) ==
  /\ started < MaxChildren
  /\ stream' = [id |-> started + 1, run |-> r, peer |-> p, file |-> NewestTee(r, p)]
  /\ kids' = (kids \ {stream.id}) \cup {started + 1}
  /\ started' = started + 1

\* _evaluate_live_stream: a child is kept as long as run and peer stay and it
\* lives; one that ended by itself is started again, the first time with a mark
\* that holds the next restarts back for a while, and never again
Evaluate(run, peer, visible) ==
  LET sameKey == stream.run = run /\ stream.peer = peer
      peek == NewestTee(run, peer) = 0
  IN \/ /\ ~visible \/ run = None \/ peer = None
        /\ StopStream /\ eof' = "none"
     \/ /\ visible /\ run # None /\ peer # None
        /\ sameKey /\ stream.id \in kids
        /\ UNCHANGED streamVars
     \/ /\ visible /\ run # None /\ peer # None
        /\ sameKey /\ stream.id \notin kids /\ peek /\ eof = "recent"
        /\ UNCHANGED streamVars
     \/ /\ visible /\ run # None /\ peer # None
        /\ sameKey /\ stream.id \notin kids /\ ~(peek /\ eof = "recent")
        /\ StartStream(run, peer)
        /\ eof' = IF peek /\ eof = "none" THEN "recent" ELSE eof
     \/ /\ visible /\ run # None /\ peer # None
        /\ ~sameKey
        /\ StartStream(run, peer) /\ eof' = "none"

\* _set_active and the read it starts; what was read before stays in _last_data
Select(r) == /\ r # active
             /\ active' = r /\ reading' = r
             /\ StopStream /\ eof' = "none"
             /\ UNCHANGED <<posted, data, shown>> /\ UNCHANGED runVars

\* _refresh_run: an exclusive worker, the one before it is cancelled
Refresh == /\ active # None
           /\ reading' = active
           /\ UNCHANGED <<active, posted, data, shown>> /\ UNCHANGED runVars
           /\ UNCHANGED streamVars
\* a worker that ended posts what it read, behind the messages that wait
ReadDone == /\ reading # None /\ Len(posted) < MaxMessages
            /\ posted' = Append(posted, [run |-> reading, peer |-> turn[reading]])
            /\ reading' = None
            /\ UNCHANGED <<active, data, shown>> /\ UNCHANGED runVars
            /\ UNCHANGED streamVars

PaintAnything ==
  LET m == Head(posted)
  IN /\ posted # <<>> /\ posted' = Tail(posted)
     /\ data' = m
     /\ Evaluate(active, m.peer, shown)
     /\ UNCHANGED <<active, reading, shown>> /\ UNCHANGED runVars
\* on_snapshot_ready, of the oldest message
Paint ==
  LET m == Head(posted)
  IN /\ posted # <<>> /\ posted' = Tail(posted)
     /\ IF m.run # active THEN UNCHANGED data /\ UNCHANGED streamVars
        ELSE data' = m /\ Evaluate(active, m.peer, shown)
     /\ UNCHANGED <<active, reading, shown>> /\ UNCHANGED runVars

\* the live panel is shown or hidden: evaluated with whatever was read last
Toggle == /\ shown' = ~shown
          /\ Evaluate(active, data.peer, ~shown)
          /\ UNCHANGED <<active, reading, posted, data>> /\ UNCHANGED runVars

PeekEnds == /\ stream.id \in kids /\ stream.file = 0
            /\ kids' = kids \ {stream.id}
            /\ UNCHANGED <<stream, eof, started>> /\ UNCHANGED appVars
            /\ UNCHANGED runVars
BackoffOver == /\ eof = "recent" /\ eof' = "past"
               /\ UNCHANGED <<stream, kids, started>> /\ UNCHANGED appVars
               /\ UNCHANGED runVars

Next == \/ \E r \in Runs : TickStart(r) \/ Select(r)
        \/ \E r \in Runs, next \in Peers : TickEnd(r, next)
        \/ Refresh \/ ReadDone \/ Paint \/ Toggle \/ PeekEnds \/ BackoffOver

\* timers and the event loop go on; runs, operators and children need not
Spec == Init /\ [][Next]_vars
        /\ SF_vars(Refresh) /\ WF_vars(ReadDone) /\ WF_vars(Paint)

-----------------------------------------------------------------------------
\* At most one child is alive and the cockpit holds it: however selection,
\* polling, hiding and the end of a child interleave, none is left behind
\* (app.py:803).
NoStreamLeaks == kids \subseteq {stream.id}

\* What is painted was read from the run that is selected, though the selection
\* may have moved while the worker read or its message waited (app.py:466).
PaintsActive == data' # data => data'.run = active'

\* Both, of every step.
CockpitIsCurrent == NoStreamLeaks' /\ PaintsActive

\* app.py:644: "`tail -F` follows the file across tick rotation": once a tick
\* goes on and the cockpit has looked, the live panel follows this tick.
Watching(r) == active = r /\ shown /\ running[r]
LiveFollowsTick ==
  \A r \in Runs :
    <>[]Watching(r) => <>[](stream.file = Len(tees[r]) \/ started = MaxChildren)
=============================================================================
