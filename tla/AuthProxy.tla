------------------------------ MODULE AuthProxy ------------------------------
(***************************************************************************)
(* The auth proxy (src/auth_proxy): a threading HTTP server that forwards  *)
(* each request upstream with the access token of a token file it shares   *)
(* with the agent, and refreshes the token once when upstream answers 401. *)
(*                                                                         *)
(* A token pair is a number: the provider rotates it, so it takes the      *)
(* refresh token of the newest pair only.  The file holds a pair or is     *)
(* empty for the time between the truncation and the write of an in-place  *)
(* rewrite (a bind mount cannot be renamed over).  A connection carries one*)
(* request; malformed and oversized ones end like any other.               *)
(***************************************************************************)
EXTENDS Naturals, FiniteSets

CONSTANTS Conns,       \* the connections of the run
          MaxConcurrent,
          MaxPairs     \* bound: pairs the provider hands out

VARIABLES conn,     \* each connection: [at, pair, again]
          slots,    \* free permits of the accept semaphore
          busy,     \* free permits of the handler semaphore
          mutex,    \* who holds the store's refresh lock
          file,     \* the token file: a pair, or Empty
          flock,    \* who holds the exclusive lock of the file
          newest,   \* the provider's newest pair
          lost      \* an answer of the provider did not reach the file

vars == <<conn, slots, busy, mutex, file, flock, newest, lost>>

New == [at |-> "new", pair |-> 0, again |-> FALSE]
None == "none"
Empty == MaxPairs + 1   \* no pair: the file was truncated
Closed == {"new", "refused", "closed"}

ProxyAssumption ==
  /\ IsFiniteSet(Conns) /\ None \notin Conns
  /\ MaxConcurrent \in Nat \ {0} /\ MaxPairs \in Nat

Init == /\ conn = [c \in Conns |-> New]
        /\ slots = MaxConcurrent
        /\ busy = MaxConcurrent
        /\ mutex = None
        /\ file = 0
        /\ flock = None
        /\ newest = 0
        /\ lost = FALSE

At(c, at) == conn[c].at = at
Go(c, at) == conn' = [conn EXCEPT ![c].at = at]

-----------------------------------------------------------------------------
\* process_request on the accept thread: a permit, or 503 at once
Refuse(c) == /\ At(c, "new") /\ slots = 0
             /\ Go(c, "refused")
             /\ UNCHANGED <<slots, busy, mutex, file, flock, newest, lost>>

\* the thread does not start: the connection is refused, its permit kept
LeakPermit(c) == /\ At(c, "new") /\ slots > 0
                 /\ Go(c, "refused")
                 /\ slots' = slots - 1
                 /\ UNCHANGED <<busy, mutex, file, flock, newest, lost>>

\* the thread does not start: the permit is given back
SpawnFails(c) == /\ At(c, "new") /\ slots > 0
                 /\ Go(c, "refused")
                 /\ UNCHANGED <<slots, busy, mutex, file, flock, newest, lost>>

Accept(c) == /\ At(c, "new") /\ slots > 0
             /\ slots' = slots - 1
             /\ Go(c, "handle")
             /\ UNCHANGED <<busy, mutex, file, flock, newest, lost>>

\* _handle_proxy: the handler's own permit, or an error for a request it cannot
\* take; the permit goes back when the handler leaves
Handle(c) == /\ At(c, "handle")
             /\ \/ /\ busy > 0
                   /\ busy' = busy - 1
                   /\ Go(c, "read")
                \/ Go(c, "end") /\ UNCHANGED busy
             /\ UNCHANGED <<slots, mutex, file, flock, newest, lost>>

\* access_token: a shared lock waits for the writer; an empty file is an error,
\* which the handler answers with 502
ReadToken(c) == /\ At(c, "read")
                /\ flock = None
                /\ conn' = [conn EXCEPT ![c] = [at |-> IF file = Empty THEN "leave"
                                                       ELSE "send",
                                                pair |-> file,
                                                again |-> conn[c].again]]
                /\ UNCHANGED <<slots, busy, mutex, file, flock, newest, lost>>

\* _send_once: upstream answers, or it does not; a first 401 asks for a refresh
Send(c) == /\ At(c, "send")
           /\ \/ Go(c, "leave")
              \/ ~conn[c].again /\ Go(c, "refresh")
           /\ UNCHANGED <<slots, busy, mutex, file, flock, newest, lost>>

RefreshUnlocked(c) == /\ At(c, "refresh") /\ flock = None
                      /\ conn' = [conn EXCEPT
                           ![c].at = IF file = Empty THEN "leave" ELSE "ask",
                           ![c].pair = file]
                      /\ UNCHANGED <<slots, busy, mutex, file, flock, newest, lost>>

\* refresh: under the lock of the store, with the file read inside it
Refresh(c) == /\ At(c, "refresh") /\ mutex = None /\ flock = None
              /\ IF file = Empty
                 THEN /\ Go(c, "leave")
                      /\ UNCHANGED mutex
                 ELSE /\ conn' = [conn EXCEPT ![c].at = "ask", ![c].pair = file]
                      /\ mutex' = c
              /\ UNCHANGED <<slots, busy, file, flock, newest, lost>>

KeepLock(c) == mutex
Unlocked(c) == IF mutex = c THEN None ELSE mutex

\* refresh_access_token: the provider rotates the pair and answers; it refuses
\* a pair it rotated away; or the answer is lost, before or after it rotated
Ask(c) ==
  /\ At(c, "ask")
  /\ \/ /\ conn[c].pair = newest /\ newest < MaxPairs
        /\ newest' = newest + 1
        /\ \/ /\ conn' = [conn EXCEPT ![c].at = "store", ![c].pair = newest + 1]
              /\ UNCHANGED <<mutex, lost>>
           \/ /\ Go(c, "leave")
              /\ mutex' = Unlocked(c)
              /\ lost' = TRUE
     \/ /\ Go(c, "leave")
        /\ mutex' = Unlocked(c)
        /\ UNCHANGED <<newest, lost>>
  /\ UNCHANGED <<slots, busy, file, flock>>

\* _replace_or_rewrite_token_file: rename the new file over the old one, or, on
\* a bind mount, truncate it in place under the exclusive lock
Store(c) ==
  /\ At(c, "store")
  /\ \/ /\ file' = conn[c].pair
        /\ mutex' = Unlocked(c)
        /\ conn' = [conn EXCEPT ![c].at = "read", ![c].again = TRUE]
        /\ UNCHANGED <<flock, lost>>
     \/ /\ flock = None
        /\ flock' = c
        /\ file' = Empty
        /\ Go(c, "rewrite")
        /\ UNCHANGED <<mutex, lost>>
     \/ /\ Go(c, "leave")
        /\ mutex' = Unlocked(c)
        /\ lost' = TRUE
        /\ UNCHANGED <<file, flock>>
  /\ UNCHANGED <<slots, busy, newest>>

Rewrite(c) == /\ At(c, "rewrite")
              /\ file' = conn[c].pair
              /\ flock' = None
              /\ mutex' = Unlocked(c)
              /\ conn' = [conn EXCEPT ![c].at = "read", ![c].again = TRUE]
              /\ UNCHANGED <<slots, busy, newest, lost>>

\* the handler leaves, then its thread ends
Leave(c) == /\ At(c, "leave")
            /\ busy' = busy + 1
            /\ Go(c, "end")
            /\ UNCHANGED <<slots, mutex, file, flock, newest, lost>>

End(c) == /\ At(c, "end")
          /\ slots' = slots + 1
          /\ conn' = [conn EXCEPT ![c] = [New EXCEPT !.at = "closed"]]
          /\ UNCHANGED <<busy, mutex, file, flock, newest, lost>>

\* the sidecar is killed and comes up again on the file it finds
Restart == /\ lost' = (lost \/ \E c \in Conns : conn[c].at \in {"store", "rewrite"})
           /\ conn' = [c \in Conns |-> IF At(c, "new") THEN New
                                       ELSE [New EXCEPT !.at = "closed"]]
           /\ \E c \in Conns : conn[c].at \notin Closed
           /\ slots' = MaxConcurrent
           /\ busy' = MaxConcurrent
           /\ mutex' = None
           /\ flock' = None
           /\ UNCHANGED <<file, newest>>

Step(c) == \/ Refuse(c) \/ SpawnFails(c) \/ Accept(c) \/ Handle(c)
           \/ ReadToken(c) \/ Send(c) \/ Refresh(c) \/ Ask(c) \/ Store(c)
           \/ Rewrite(c) \/ Leave(c) \/ End(c)

Next == (\E c \in Conns : Step(c)) \/ Restart

Spec == Init /\ [][Next]_vars /\ \A c \in Conns : WF_vars(Step(c))

-----------------------------------------------------------------------------
\* Every permit of the accept loop is held by a connection that is being
\* served: a thread that does not start leaks none, or the loop wedges after
\* MaxConcurrent such failures (server.py:439).
PermitsAreHeld ==
  slots + Cardinality({c \in Conns : conn[c].at \notin Closed}) = MaxConcurrent

\* Concurrent 401s never show the provider a pair it has rotated away, unless
\* an earlier answer of it was lost.
RefreshIsCurrent ==
  \A c \in Conns : At(c, "ask") /\ ~lost => conn[c].pair = newest

\* Both hold of the proxy (server.py:439, ClaudeTokenStore.refresh).
ProxyIsSound == PermitsAreHeld /\ RefreshIsCurrent

\* A request that is let in is answered, whoever holds the two locks.
LetIn(c) == ~At(c, "new")
Answered(c) == conn[c].at \in Closed
RequestsEnd == \A c \in Conns : LetIn(c) ~> Answered(c)
=============================================================================
