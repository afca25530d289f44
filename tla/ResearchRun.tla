------------------------------ MODULE ResearchRun ------------------------------
(***************************************************************************)
(* Runs of `peers research`: rounds of sub-questions, swept for evidence,  *)
(* their claims put to adversarial votes and classified by independent     *)
(* origins, and a report written, gated, committed and ledgered            *)
(* (research/frontend.py, adapters.py, assembly.py; drive() of the spine). *)
(* Runs follow one another in one repository, and may be killed.           *)
(*                                                                         *)
(* One run at a time is assumed: nothing in the code enforces it.          *)
(***************************************************************************)
EXTENDS Integers, Sequences, FiniteSets, SequencesExt

CONSTANTS
  Urls,                \* the seed urls a search returns
  Narratives, Honest,  \* what the agent may write, and what of it claims no
                       \* completeness and leaves a gaps section worth the name
  MaxQuestions, K,     \* LLMDecomposer.max_questions, refuters of a claim
  MaxRounds, DryN,     \* the OpConfig
  MaxStarts, MaxKills  \* bounds: runs of the command, kills

VARIABLES
  topic,               \* TOPIC.md is present and not vacuous
  pc, starts, kills,   \* where the process is; runs and kills so far
  enabled, web,        \* --modalities, research.web of the config
  blocked,             \* _blocked
  rounds, todo,        \* rounds of this drive(), sub-questions left to sweep
  ran, claims,         \* _modalities_run, _round_claims
  confirmed,           \* _confirmed; the gaps are only written about
  report,              \* the ReportArtifact of the round
  disk, head,          \* RESEARCH.md in the working tree and in HEAD
  ledger               \* .peers/run.jsonl, which all runs append to

procVars == <<enabled, web, blocked, rounds, todo, ran, claims, confirmed, report>>
vars == <<topic, pc, starts, kills, procVars, disk, head, ledger>>

NoText == [says |-> "none", cites |-> {}]
Row(event, text, of) == [event |-> event, text |-> text, of |-> of]
Plain(event) == Row(event, NoText, {})
Log(event) == ledger' = Append(ledger, Plain(event))

IsRound(row) == row.event \in {"dry-round", "confirmed-work"}
DryStreak(rows) ==
  LET since == {i \in DOMAIN rows :
                  \A j \in i..Len(rows) : rows[j].event # "confirmed-work"}
  IN Cardinality({i \in since : IsRound(rows[i])})

-----------------------------------------------------------------------------
(* Evidence, claims, the report                                             *)

\* independent_origins: the whole repository is one origin, and every url another,
\* as the transport follows no redirect and the url it landed on is the origin
Origins(c) == c.urls \cup (IF c.code THEN {"codebase"} ELSE {})
Classify(c) == CASE Cardinality(Origins(c)) >= 2 -> "confirmed"
                 [] Cardinality(Origins(c)) = 1 -> "single-source"
                 [] OTHER -> "unverified-gap"
Survives(refuted) == refuted < (K + 1) \div 2

\* what each modality brought back, per url and for the code
Fetch == {"failed", "off-topic", "fetched"}
Finds == [url : [Urls -> Fetch \cup {"none"}], code : BOOLEAN]
Sweep == {f \in Finds :
            /\ ~("web" \in enabled /\ web) => f.url = [u \in Urls |-> "none"]
            /\ f.code => "codebase" \in enabled}
WitnessesAll(f) == {u \in Urls : f.url[u] # "none"}         \* mutant
Witnesses(f) == {u \in Urls : f.url[u] = "fetched"}
Yielded(f) == {m \in enabled : \/ m = "web" /\ Witnesses(f) # {}
                               \/ m = "codebase" /\ f.code}

\* the narrative is the agent's, the sources are the confirmed claims'
Written(says) == [says |-> says, cites |-> UNION {c.urls : c \in confirmed}]
\* check_report: two urls cited, honest gaps, no claim of completeness
ReportCited(text) == Cardinality(text.cites) >= 2 /\ text.says \in Honest

-----------------------------------------------------------------------------
Idle == /\ enabled = {} /\ web = FALSE /\ blocked = FALSE
        /\ rounds = 0 /\ todo = 0 /\ ran = {} /\ claims = {}
        /\ confirmed = {} /\ report = NoText
Init == /\ topic \in BOOLEAN
        /\ pc = "idle" /\ starts = 0 /\ kills = 0 /\ Idle
        /\ disk = NoText /\ head = NoText /\ ledger = <<>>

\* the process is gone, and what it held with it
Forget == /\ enabled' = {} /\ web' = FALSE /\ blocked' = FALSE
          /\ rounds' = 0 /\ todo' = 0 /\ ran' = {} /\ claims' = {}
          /\ confirmed' = {} /\ report' = NoText

EditTopic == /\ topic' = ~topic
             /\ UNCHANGED <<pc, starts, kills, procVars, disk, head, ledger>>

\* cmd_research refuses without a topic; drive() logs the run-start
Start == /\ pc = "idle" /\ starts < MaxStarts /\ topic
         /\ starts' = starts + 1
         /\ enabled' \in SUBSET {"web", "codebase"} \ {{}}
         /\ web' \in BOOLEAN
         /\ Log("run-start")
         /\ pc' = "prepare"
         /\ UNCHANGED <<topic, kills, blocked, rounds, todo, ran, claims, confirmed>>
         /\ UNCHANGED <<report, disk, head>>
\* prepare() looks at the topic once more
Prepare == /\ pc = "prepare"
           /\ blocked' = ~topic
           /\ pc' = "round"
           /\ Log("bar-inferred")
           /\ UNCHANGED <<topic, starts, kills, enabled, web, rounds, todo, ran, claims>>
           /\ UNCHANGED <<confirmed, report, disk, head>>

DryRound == Log("dry-round") /\ pc' = "check"

BeginKeepingClaims ==                                       \* mutant: no reset
  /\ pc = "round" /\ ~blocked
  /\ ran' = {} /\ claims' = {} /\ UNCHANGED confirmed
  /\ todo' \in 0..MaxQuestions
  /\ pc' = "sweep"
  /\ UNCHANGED <<topic, starts, kills, enabled, web, blocked, rounds, report, disk, head, ledger>>
\* the accumulators are reset at the top of every round, the topic is decomposed
Begin == /\ pc = "round" /\ ~blocked
         /\ ran' = {} /\ claims' = {} /\ confirmed' = {}
         /\ todo' \in 0..MaxQuestions
         /\ pc' = "sweep"
         /\ UNCHANGED <<topic, starts, kills, enabled, web, blocked, rounds>>
         /\ UNCHANGED <<report, disk, head, ledger>>
BlockedRound == /\ pc = "round" /\ blocked
                /\ DryRound
                /\ UNCHANGED <<topic, starts, kills, procVars, disk, head>>

\* one candidate claim per sub-question, from the evidence of that question
SweepQuestion ==
  /\ pc = "sweep" /\ todo > 0
  /\ \E f \in Sweep :
       /\ claims' = claims \cup {[run |-> starts, round |-> rounds, q |-> todo,
                                  urls |-> Witnesses(f), code |-> f.code,
                                  unread |-> {u \in Witnesses(f) : f.url[u] # "fetched"}]}
       /\ ran' = ran \cup Yielded(f)
  /\ todo' = todo - 1
  /\ UNCHANGED <<topic, pc, starts, kills, enabled, web, blocked, rounds, confirmed>>
  /\ UNCHANGED <<report, disk, head, ledger>>

\* verify_claim and classify_claim; a claim that is refuted is dropped.  The
\* critic asks whether every enabled modality was run.
Verify ==
  /\ pc = "sweep" /\ todo = 0
  /\ \E refuted \in [claims -> 0..K] :
       LET kept == {c \in claims : Survives(refuted[c])}
       IN confirmed' = confirmed \cup {c \in kept : Classify(c) = "confirmed"}
  /\ claims' = {}
  /\ IF confirmed' # {} /\ enabled \subseteq ran
     THEN pc' = "synthesize" /\ UNCHANGED ledger
     ELSE DryRound
  /\ UNCHANGED <<topic, starts, kills, enabled, web, blocked, rounds, todo, ran, report, disk, head>>

\* ReportSynthesizer: the file is written first and gated then
Synthesize ==
  /\ pc = "synthesize"
  /\ \E says \in Narratives : disk' = Written(says)
  /\ IF ReportCited(disk')
     THEN report' = disk' /\ pc' = "commit" /\ UNCHANGED ledger
     ELSE DryRound /\ UNCHANGED report
  /\ UNCHANGED <<topic, starts, kills, enabled, web, blocked, rounds, todo, ran, claims>>
  /\ UNCHANGED <<confirmed, head>>

\* ReportCommitter: nothing to commit when the text is the one of HEAD
Commit ==
  /\ pc = "commit"
  /\ IF disk # report \/ disk = head
     THEN DryRound /\ UNCHANGED head
     ELSE head' = disk /\ pc' = "confirm" /\ UNCHANGED ledger
  /\ UNCHANGED <<topic, starts, kills, procVars, disk>>

\* the file is hashed once more; confirmed-work and landing, row after row
Confirm == /\ pc = "confirm"
           /\ IF disk # report THEN DryRound
              ELSE /\ ledger' = Append(ledger, Row("confirmed-work", disk, confirmed))
                   /\ pc' = "landing"
           /\ UNCHANGED <<topic, starts, kills, procVars, disk, head>>
Land == /\ pc = "landing"
        /\ Log("landing") /\ pc' = "check"
        /\ UNCHANGED <<topic, starts, kills, procVars, disk, head>>

\* drive(): the streak is counted over the whole ledger
Check == /\ pc = "check"
         /\ report' = NoText
         /\ IF DryStreak(ledger) >= DryN \/ rounds + 1 >= MaxRounds
            THEN /\ Log("stop") /\ pc' = "idle"
                 /\ rounds' = 0 /\ blocked' = FALSE /\ enabled' = {} /\ web' = FALSE
                 /\ confirmed' = {} /\ ran' = {} /\ todo' = 0
            ELSE /\ rounds' = rounds + 1 /\ pc' = "round"
                 /\ UNCHANGED <<ledger, blocked, enabled, web, confirmed, ran, todo>>
         /\ UNCHANGED <<topic, starts, kills, claims, disk, head>>

\* a kill, or an append that raises: the run ends where it is
Kill == /\ pc # "idle" /\ kills < MaxKills /\ kills' = kills + 1
        /\ pc' = "idle" /\ Forget
        /\ UNCHANGED <<topic, starts, disk, head, ledger>>

Next == \/ EditTopic \/ Start \/ Prepare \/ Begin \/ BlockedRound \/ SweepQuestion
        \/ Verify \/ Synthesize \/ Commit \/ Confirm \/ Land \/ Check \/ Kill
Spec == Init /\ [][Next]_vars

-----------------------------------------------------------------------------
\* Confirmed work rests on evidence of its own round only: each claim of a
\* confirmed-work row was swept in the round that wrote it and found in two
\* independent origins, whatever earlier rounds, failed fetches and killed runs
\* left behind (frontend.py:184, 219).
Confirmed == {i \in DOMAIN ledger : ledger[i].event = "confirmed-work"}
ConfirmedIsCorroborated ==
  \A i \in Confirmed :
    /\ ledger[i].of # {}
    /\ \A c, d \in ledger[i].of : c.run = d.run /\ c.round = d.round
    /\ \A c \in ledger[i].of : c.unread = {} /\ Cardinality(Origins(c)) >= 2

\* adapters.py:8, frontend.py:320: "a `file` witness the spine `witness-ledgered`
\* gate re-hashes from disk": when a run is over, that gate, which wants every
\* confirmed-work row to re-derive, passes for the work it confirmed.
ConfirmedStaysWitnessed ==
  pc = "idle" => \A i \in Confirmed : ledger[i].text = disk
================================================================================
