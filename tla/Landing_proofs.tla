---------------------------- MODULE Landing_proofs ----------------------------
(***************************************************************************)
(* Landing proved for any number of runs, commits, rounds and faults: the  *)
(* ledgers tell the truth about the target, dry runs stop, governance      *)
(* changes do not land by themselves, and Landing implements               *)
(* VerifiedTarget.                                                         *)
(***************************************************************************)
EXTENDS Landing, FiniteSetTheorems, NaturalsInduction, TLAPS

-----------------------------------------------------------------------------
(* Histories: trees of commits in which a parent is older than its child.   *)

Ancestors(p, c) ==
  {x \in DOMAIN p : \A S \in SUBSET DOMAIN p :
     c \in S /\ (\A y \in S : p[y] \in S) => x \in S}

Tree(p) ==
  /\ p \in [DOMAIN p -> DOMAIN p] /\ DOMAIN p \subseteq Nat
  /\ 0 \in DOMAIN p /\ p[0] = 0
  /\ \A x \in DOMAIN p \ {0} : p[x] < x

\* History (SpineRun) and Reach (VerifiedTarget) are the ancestors of a commit.
LEMMA HistoryIsAncestors ==
  ASSUME NEW c
  PROVE  /\ History(c) = Ancestors(parent, c) /\ History(c)' = Ancestors(parent', c)
         /\ VT!Reach(c) = Ancestors(parent, c)
  BY DEF History, Born, Ancestors, VT!Reach, VT!Born

\* A commit is its own ancestor, and an ancestor's parent is one.
LEMMA AncestorsClosed ==
  ASSUME NEW p, Tree(p), NEW c
  PROVE  /\ c \in DOMAIN p => c \in Ancestors(p, c)
         /\ \A x \in Ancestors(p, c) : p[x] \in Ancestors(p, c)
         /\ Ancestors(p, c) \subseteq DOMAIN p
<1>1. c \in DOMAIN p => c \in Ancestors(p, c)
  BY DEF Ancestors
<1>2. ASSUME NEW x \in Ancestors(p, c)
      PROVE  p[x] \in Ancestors(p, c)
  <2>1. x \in DOMAIN p /\ p[x] \in DOMAIN p
    BY <1>2 DEF Ancestors, Tree
  <2>2. ASSUME NEW S \in SUBSET DOMAIN p, c \in S, \A y \in S : p[y] \in S
        PROVE  p[x] \in S
    <3>1. x \in S
      BY <1>2, <2>2 DEF Ancestors
    <3> QED
      BY <2>2, <3>1
  <2> QED
    BY <2>1, <2>2 DEF Ancestors
<1> QED
  BY <1>1, <1>2 DEF Ancestors

\* The ancestors are within every closed set that has the commit.
LEMMA AncestorsLeast ==
  ASSUME NEW p, NEW c, NEW S \in SUBSET DOMAIN p, c \in S, \A y \in S : p[y] \in S
  PROVE  Ancestors(p, c) \subseteq S
  BY DEF Ancestors

\* Ancestry is transitive, and older commits have smaller numbers.
LEMMA AncestorsOrdered ==
  ASSUME NEW p, Tree(p), NEW b, NEW a \in Ancestors(p, b)
  PROVE  /\ Ancestors(p, a) \subseteq Ancestors(p, b)
         /\ b \in DOMAIN p => a <= b
<1>1. Ancestors(p, a) \subseteq Ancestors(p, b)
  BY AncestorsClosed, AncestorsLeast
<1>2. ASSUME b \in DOMAIN p
      PROVE  a <= b
  <2> DEFINE S == {x \in DOMAIN p : x <= b}
  <2>1. b \in S
    BY <1>2 DEF Tree
  <2>2. ASSUME NEW y \in S
        PROVE  p[y] \in S
    <3>1. p[y] \in DOMAIN p /\ p[y] <= y
      BY <2>2 DEF Tree
    <3> QED
      BY <1>2, <3>1 DEF Tree
  <2>3. Ancestors(p, b) \subseteq S
    <3> HIDE DEF S
    <3>1. S \in SUBSET DOMAIN p
      BY DEF S
    <3> QED
      BY <2>1, <2>2, <3>1, AncestorsLeast
  <2> QED
    BY <2>3
<1> QED
  BY <1>1, <1>2

\* A new commit changes no other history, and its own is its parent's and itself.
LEMMA AncestorsGrow ==
  ASSUME NEW p, Tree(p), NEW n \in Nat, \A x \in DOMAIN p : x < n,
         NEW a \in DOMAIN p, NEW q,
         q = [x \in DOMAIN p \cup {n} |-> IF x = n THEN a ELSE p[x]]
  PROVE  /\ Tree(q) /\ DOMAIN q = DOMAIN p \cup {n} /\ n \notin DOMAIN p
         /\ \A c \in DOMAIN p : Ancestors(q, c) = Ancestors(p, c)
         /\ Ancestors(q, n) = {n} \cup Ancestors(p, a)
<1>1. DOMAIN q = DOMAIN p \cup {n} /\ n \notin DOMAIN p
  BY DEF Tree
<1>2. q[n] = a /\ \A x \in DOMAIN p : q[x] = p[x]
  BY <1>1
<1>3. Tree(q)
  <2>1. \A x \in DOMAIN q : q[x] \in DOMAIN q
    BY <1>1, <1>2 DEF Tree
  <2>2. q \in [DOMAIN q -> DOMAIN q]
    BY <2>1, <1>1
  <2>3. \A x \in DOMAIN q \ {0} : q[x] < x
    BY <1>1, <1>2 DEF Tree
  <2> QED
    BY <1>1, <1>2, <2>2, <2>3 DEF Tree
<1>4. ASSUME NEW c \in DOMAIN p
      PROVE  Ancestors(q, c) = Ancestors(p, c)
  <2>1. Ancestors(q, c) \subseteq Ancestors(p, c)
    <3>1. /\ Ancestors(p, c) \in SUBSET DOMAIN p /\ c \in Ancestors(p, c)
          /\ \A y \in Ancestors(p, c) : p[y] \in Ancestors(p, c)
      BY <1>4, AncestorsClosed
    <3>2. \A y \in Ancestors(p, c) : q[y] \in Ancestors(p, c)
      BY <3>1, <1>2
    <3>3. Ancestors(p, c) \in SUBSET DOMAIN q
      BY <3>1, <1>1
    <3> QED
      BY <3>1, <3>2, <3>3, AncestorsLeast
  <2>2. Ancestors(p, c) \subseteq Ancestors(q, c)
    <3> DEFINE S == Ancestors(q, c) \cap DOMAIN p
    <3>1. c \in S
      BY <1>1, <1>3, AncestorsClosed
    <3>2. ASSUME NEW y \in S
          PROVE  p[y] \in S
      BY <1>2, <1>3, AncestorsClosed DEF Tree
    <3>3. Ancestors(p, c) \subseteq S
      BY <3>1, <3>2, AncestorsLeast
    <3> QED
      BY <3>3
  <2> QED
    BY <2>1, <2>2
<1>5. Ancestors(q, n) = {n} \cup Ancestors(p, a)
  <2>1. Ancestors(q, n) \subseteq {n} \cup Ancestors(p, a)
    <3> DEFINE S == {n} \cup Ancestors(p, a)
    <3>1. S \in SUBSET DOMAIN q
      BY <1>1, AncestorsClosed
    <3>2. ASSUME NEW y \in S
          PROVE  q[y] \in S
      BY <1>2, AncestorsClosed
    <3> HIDE DEF S
    <3>3. n \in S
      BY DEF S
    <3>4. Ancestors(q, n) \subseteq S
      BY <3>1, <3>2, <3>3, AncestorsLeast
    <3> QED
      BY <3>4 DEF S
  <2>2. n \in Ancestors(q, n) /\ a \in Ancestors(q, n)
    BY <1>1, <1>2, <1>3, AncestorsClosed
  <2>3. Ancestors(p, a) \subseteq Ancestors(q, n)
    BY <1>3, <1>4, <2>2, AncestorsOrdered
  <2> QED
    BY <2>1, <2>2, <2>3
<1> QED
  BY <1>1, <1>3, <1>4, <1>5

-----------------------------------------------------------------------------
(* Rows: the newest confirmed one, and the dry streak.                      *)

\* A set of naturals that is not empty has a least number.
LEMMA LeastNatural ==
  ASSUME NEW T \in SUBSET Nat, T # {}
  PROVE  \E m \in T : \A k \in T : m <= k
<1> DEFINE R == StrictSubsetOrdering(Nat)
           U == {0..n : n \in T}
<1>1. U \subseteq FiniteSubsetsOf(Nat) /\ U # {}
  <2>1. ASSUME NEW n \in T
        PROVE  0..n \in FiniteSubsetsOf(Nat)
    BY <2>1, FS_Interval DEF FiniteSubsetsOf
  <2> QED
    BY <2>1
<1>2. PICK u \in U : \A v \in U : <<v, u>> \notin R
  <2> HIDE DEF R, U
  <2> QED
    BY <1>1, FS_StrictSubsetOrderingWellFounded, WFMin DEF R
<1>3. PICK m \in T : u = 0..m
  OBVIOUS
<1>4. ASSUME NEW k \in T, k < m
      PROVE  FALSE
  <2>1. 0..k \in U /\ <<0..k, 0..m>> \notin R
    BY <1>2, <1>3
  <2>2. 0..k \subseteq Nat /\ 0..m \subseteq Nat /\ 0..k \subseteq 0..m
    BY <1>4
  <2>3. m \in 0..m /\ m \notin 0..k
    BY <1>4
  <2>4. 0..k # 0..m
    BY <2>3
  <2> QED
    BY <2>1, <2>2, <2>4 DEF StrictSubsetOrdering
<1> QED
  BY <1>4

\* A set of positions that is not empty has a last one.
LEMMA LastPosition ==
  ASSUME NEW n \in Nat, NEW S \in SUBSET (1..n), S # {}
  PROVE  \E m \in S : \A k \in S : k <= m
<1> DEFINE T == {i \in 0..n : n - i \in S}
<1>1. T \in SUBSET Nat /\ T # {}
  <2>1. PICK k \in S : TRUE
    OBVIOUS
  <2>2. k \in Nat /\ k <= n
    BY <2>1
  <2>3. n - k \in 0..n /\ n - (n - k) = k
    BY <2>2
  <2>4. n - k \in T
    BY <2>1, <2>3
  <2>5. T \in SUBSET Nat
    OBVIOUS
  <2> QED
    BY <2>4, <2>5
<1>2. PICK t \in T : \A u \in T : t <= u
  <2> HIDE DEF T
  <2> QED
    BY <1>1, LeastNatural
<1>3. ASSUME NEW k \in S
      PROVE  k <= n - t
  <2>1. n - k \in 0..n /\ n - (n - k) = k
    BY <1>3
  <2>2. t <= n - k
    BY <1>2, <1>3, <2>1
  <2> QED
    BY <1>3, <2>2
<1> QED
  BY <1>2, <1>3

\* ConvergedCommit is the commit of a confirmed row, if there is one.
LEMMA ConvergedCommitIsConfirmed ==
  ASSUME NEW R, NEW rows \in Seq(R), Confirmed(rows) # {}
  PROVE  \E i \in Confirmed(rows) : ConvergedCommit(rows) = rows[i].sha
<1> DEFINE last(i) == \A j \in Confirmed(rows) : j <= i
<1>1. Confirmed(rows) \in SUBSET (1..Len(rows)) /\ Len(rows) \in Nat
  BY DEF Confirmed
<1>2. \E i \in Confirmed(rows) : last(i)
  BY <1>1, LastPosition
<1>3. (CHOOSE i \in Confirmed(rows) : last(i)) \in Confirmed(rows)
  <2> HIDE DEF last
  <2> QED
    BY <1>2
<1> QED
  BY <1>3 DEF ConvergedCommit

\* The rounds that DryStreak counts.
DryRows(rows) ==
  {i \in DOMAIN rows : IsRound(rows[i]) /\ \A j \in i..Len(rows) : ~IsReal(rows[j])}

\* The dry rows at the end of a ledger are finitely many, so the streak is a number.
LEMMA DryRowsFinite ==
  ASSUME NEW R, NEW rows \in Seq(R)
  PROVE  /\ DryStreak(rows) = Cardinality(DryRows(rows))
         /\ IsFiniteSet(DryRows(rows)) /\ DryStreak(rows) \in Nat
<1>1. DryStreak(rows) = Cardinality(DryRows(rows))
  <2> DEFINE since == {i \in DOMAIN rows : \A j \in i..Len(rows) : ~IsReal(rows[j])}
  <2>1. {i \in since : IsRound(rows[i])} = DryRows(rows)
    BY DEF DryRows
  <2> QED
    BY <2>1 DEF DryStreak
<1>2. DryRows(rows) \subseteq 1..Len(rows) /\ Len(rows) \in Nat
  BY DEF DryRows
<1>3. IsFiniteSet(DryRows(rows))
  <2>1. IsFiniteSet(1..Len(rows))
    BY <1>2, FS_Interval
  <2> QED
    BY <1>2, <2>1, FS_Subset
<1> QED
  BY <1>1, <1>3, FS_CardinalityType

\* Appending a row ends the streak, adds one to it, or leaves it alone.
LEMMA AppendAndStreak ==
  ASSUME NEW R, NEW rows \in Seq(R), NEW row \in R
  PROVE  LET new == Append(rows, row)
         IN  /\ DryStreak(new) \in Nat
             /\ IsReal(row) => DryStreak(new) = 0
             /\ IsRound(row) => DryStreak(new) <= DryStreak(rows) + 1
             /\ ~IsRound(row) => DryStreak(new) <= DryStreak(rows)
<1> DEFINE new == Append(rows, row)
           n == Len(rows)
<1>1. new \in Seq(R) /\ Len(new) = n + 1 /\ n \in Nat /\ DOMAIN new = 1..(n + 1) /\ DOMAIN rows = 1..n
  OBVIOUS
<1>2. new[n + 1] = row /\ \A i \in 1..n : new[i] = rows[i]
  OBVIOUS
<1>3. /\ DryStreak(new) = Cardinality(DryRows(new)) /\ IsFiniteSet(DryRows(new)) /\ DryStreak(new) \in Nat
      /\ DryStreak(rows) = Cardinality(DryRows(rows)) /\ IsFiniteSet(DryRows(rows)) /\ DryStreak(rows) \in Nat
  BY <1>1, DryRowsFinite
<1> HIDE DEF new, n
<1>4. ASSUME NEW i \in DryRows(new), i # n + 1
      PROVE  i \in DryRows(rows)
  <2>1. i \in 1..n
    BY <1>1, <1>4 DEF DryRows
  <2>2. IsRound(rows[i])
    BY <1>2, <1>4, <2>1 DEF DryRows
  <2>3. ASSUME NEW j \in i..n
        PROVE  ~IsReal(rows[j])
    <3>1. j \in i..(n + 1) /\ j \in 1..n
      BY <1>1, <2>1
    <3>2. new[j] = rows[j] /\ ~IsReal(new[j])
      BY <1>1, <1>2, <1>4, <3>1 DEF DryRows
    <3> QED
      BY <3>2
  <2> QED
    BY <1>1, <2>1, <2>2, <2>3 DEF DryRows, n
<1>5. ASSUME IsReal(row)
      PROVE  DryStreak(new) = 0
  <2>1. \A i \in DOMAIN new : n + 1 \in i..Len(new)
    BY <1>1
  <2>2. DryRows(new) = {}
    BY <1>2, <1>5, <2>1 DEF DryRows
  <2> QED
    BY <1>3, <2>2, FS_EmptySet
<1>6. ASSUME IsRound(row)
      PROVE  DryStreak(new) <= DryStreak(rows) + 1
  <2> DEFINE more == DryRows(rows) \cup {n + 1}
  <2>1. DryRows(new) \subseteq more
    BY <1>4
  <2>2. n + 1 \notin DryRows(rows)
    BY <1>1 DEF DryRows
  <2>3. IsFiniteSet(more) /\ Cardinality(more) = Cardinality(DryRows(rows)) + 1
    BY <1>3, <2>2, FS_AddElement
  <2>4. Cardinality(DryRows(new)) <= Cardinality(more)
    <3> HIDE DEF more
    <3> QED
      BY <2>1, <2>3, FS_Subset
  <2> QED
    BY <1>3, <2>3, <2>4
<1>7. ASSUME ~IsRound(row)
      PROVE  DryStreak(new) <= DryStreak(rows)
  <2>1. n + 1 \notin DryRows(new)
    BY <1>2, <1>7 DEF DryRows
  <2>2. DryRows(new) \subseteq DryRows(rows)
    BY <1>4, <2>1
  <2> QED
    BY <1>3, <2>2, FS_Subset
<1> QED
  BY <1>3, <1>5, <1>6, <1>7 DEF new

\* What DryRunsStop says of one ledger.
Windows(rows, dry) ==
  \A a, b \in DOMAIN rows :
    LET done == {i \in a..b : IsRound(rows[i])}
    IN  Cardinality(done) > dry => \E i \in done : rows[i].by

\* A row keeps it as long as the streak it leaves is short enough.
LEMMA AppendKeepsWindows ==
  ASSUME NEW R, NEW rows \in Seq(R), NEW row \in R, NEW dry \in Nat,
         Windows(rows, dry), DryStreak(Append(rows, row)) <= dry
  PROVE  Windows(Append(rows, row), dry)
<1> DEFINE new == Append(rows, row)
           n == Len(rows)
<1>1. new \in Seq(R) /\ Len(new) = n + 1 /\ n \in Nat /\ DOMAIN new = 1..(n + 1) /\ DOMAIN rows = 1..n
  OBVIOUS
<1>2. new[n + 1] = row /\ \A i \in 1..n : new[i] = rows[i]
  OBVIOUS
<1>3. DryStreak(new) = Cardinality(DryRows(new)) /\ IsFiniteSet(DryRows(new)) /\ DryStreak(new) <= dry
  BY <1>1, DryRowsFinite
<1> HIDE DEF new, n
<1> SUFFICES ASSUME NEW a \in DOMAIN new, NEW b \in DOMAIN new
             PROVE  LET done == {i \in a..b : IsRound(new[i])}
                    IN  Cardinality(done) > dry => \E i \in done : new[i].by
  BY DEF Windows, new
<1> DEFINE done == {i \in a..b : IsRound(new[i])}
<1>4. CASE a \in 1..n /\ b \in 1..n
  <2>1. \A i \in a..b : new[i] = rows[i]
    BY <1>1, <1>2, <1>4
  <2>2. done = {i \in a..b : IsRound(rows[i])}
    BY <2>1
  <2>3. Cardinality(done) > dry => \E i \in done : rows[i].by
    BY <1>1, <1>4, <2>2 DEF Windows
  <2> QED
    BY <2>1, <2>3
<1>5. CASE a = n + 1 /\ b \in 1..n
  <2>1. done = {} /\ {i \in 1..0 : TRUE} = {}
    BY <1>1, <1>5
  <2>2. Cardinality(done) = 0
    BY <2>1, FS_EmptySet
  <2> QED
    BY <2>2
<1>6. CASE b = n + 1
  <2> SUFFICES ASSUME \A i \in done : ~new[i].by
               PROVE  ~(Cardinality(done) > dry)
    OBVIOUS
  <2>1. \A j \in a..b : ~IsReal(new[j])
    BY DEF IsReal, IsRound
  <2>2. ASSUME NEW i \in done
        PROVE  i \in DryRows(new)
    <3>1. i \in DOMAIN new /\ \A j \in i..Len(new) : j \in a..b
      BY <1>1, <1>6, <2>2
    <3> QED
      BY <2>1, <2>2, <3>1 DEF DryRows
  <2>3. Cardinality(done) <= Cardinality(DryRows(new)) /\ Cardinality(done) \in Nat
    <3> HIDE DEF done
    <3>1. done \subseteq DryRows(new)
      BY <2>2
    <3> QED
      BY <1>3, <3>1, FS_Subset, FS_CardinalityType
  <2> HIDE DEF done
  <2>4. Cardinality(DryRows(new)) \in Nat
    BY <1>3, FS_CardinalityType
  <2> QED
    BY <1>3, <2>3, <2>4
<1> QED
  BY <1>1, <1>4, <1>5, <1>6

-----------------------------------------------------------------------------
(* The inductive invariant.                                                 *)

\* What only this run's branch has: never people's work, nor another run's.
Own(r) == Ancestors(parent, branch[r]) \ Ancestors(parent, base[r])
OwnApart ==
  \A r \in Runs :
    /\ Ancestors(parent, base[r]) \subseteq theirs /\ Own(r) \cap theirs = {}
    /\ \A s \in Runs \ {r} : Own(r) \cap Own(s) = {}

\* A round, a confirmed row and a landing call are about a commit of the run's own.
OwnNamed ==
  \A r \in Runs :
    /\ pc[r] \in {"read-notes", "write-notes", "confirm", "landing"} => work[r].sha \in Own(r)
    /\ \A i \in Confirmed(ledger[r]) : ledger[r][i].sha \in Own(r)
    /\ call[r].at # "none" => call[r].sha \in Own(r)

\* What a landing call has established when it gets to a step.
Called ==
  \A r \in Runs :
    /\ call[r].at \in {"hosting", "resolve", "swap", "row"} => call[r].sha \in vetted
    /\ call[r].at \in {"resolve", "swap"} => rules[base[r]] = rules[call[r].sha]
    /\ call[r].at = "swap" => call[r].tip \in Ancestors(parent, call[r].sha)
    /\ call[r].at = "row" => call[r].sha \in Ancestors(parent, target)

\* While the target is between a run's fork point and its tip, its rules are the fork's.
Governed ==
  \A r \in Runs :
    target \in Ancestors(parent, branch[r]) /\ base[r] \in Ancestors(parent, target)
      => rules[target] = rules[base[r]]

\* drive() starts no round on a streak that is long enough to stop.
Paced ==
  \A r \in Runs :
    /\ DryStreak(ledger[r]) <= DryN[r] /\ Windows(ledger[r], DryN[r])
    /\ pc[r] \in {"new", "round", "implement", "read-notes", "write-notes", "confirm"}
         => DryStreak(ledger[r]) < DryN[r]

Landed ==
  \A r \in Runs : \A i \in DOMAIN ledger[r] :
    ledger[r][i].event = "landed" => ledger[r][i].sha \in Ancestors(parent, target)

IInv ==
  /\ TypeOK /\ Tree(parent) /\ OwnApart /\ OwnNamed
  /\ Called /\ Governed /\ Paced /\ Landed

-----------------------------------------------------------------------------
(* What every step does to the commits.                                     *)

\* A commit is born: the next number, a leaf of the same tree.
LEMMA GrowTree ==
  ASSUME TypeOK, Tree(parent), NEW p \in Born, NEW text \in {0, 1}, Grow(p, text)
  PROVE  /\ NewCommit \in Commits /\ NewCommit \notin Born
         /\ Tree(parent') /\ DOMAIN parent' = Born \cup {NewCommit}
         /\ \A c \in Born : Ancestors(parent', c) = Ancestors(parent, c)
         /\ Ancestors(parent', NewCommit) = {NewCommit} \cup Ancestors(parent, p)
         /\ rules' \in [DOMAIN parent' -> {0, 1}]
         /\ \A c \in Born : rules'[c] = rules[c]
         /\ parent'[NewCommit] = p /\ \A c \in Born : parent'[c] = parent[c]
<1>1. NewCommit \in Fresh
  BY DEF Grow, NewCommit
<1>2. NewCommit \in Nat /\ NewCommit \in Commits /\ \A x \in Born : x < NewCommit
  BY <1>1, SpineAssumption DEF Fresh
<1>3. NewCommit \notin Born
  BY <1>2
<1>4. /\ Tree(parent') /\ DOMAIN parent' = Born \cup {NewCommit}
      /\ \A c \in Born : Ancestors(parent', c) = Ancestors(parent, c)
      /\ Ancestors(parent', NewCommit) = {NewCommit} \cup Ancestors(parent, p)
  <2> DEFINE n == NewCommit
             q == parent'
  <2>1. q = [x \in DOMAIN parent \cup {n} |-> IF x = n THEN p ELSE parent[x]]
    BY DEF Grow, Born
  <2> HIDE DEF n, q
  <2>2. n \in Nat /\ \A x \in DOMAIN parent : x < n
    BY <1>2 DEF n, Born
  <2>3. /\ Tree(q) /\ DOMAIN q = DOMAIN parent \cup {n}
        /\ \A c \in DOMAIN parent : Ancestors(q, c) = Ancestors(parent, c)
        /\ Ancestors(q, n) = {n} \cup Ancestors(parent, p)
    BY <2>1, <2>2, AncestorsGrow DEF Born
  <2> QED
    BY <2>3 DEF n, q, Born
<1>5. /\ rules' \in [DOMAIN parent' -> {0, 1}]
      /\ \A c \in Born : rules'[c] = rules[c]
      /\ parent'[NewCommit] = p /\ \A c \in Born : parent'[c] = parent[c]
  BY <1>3, <1>4 DEF Grow, TypeOK
<1> QED
  BY <1>2, <1>3, <1>4, <1>5

\* Commits, their histories and their rules are there to stay; branches only grow.
Stands ==
  /\ Tree(parent') /\ Born \subseteq DOMAIN parent' /\ DOMAIN parent' \subseteq Commits
  /\ \A c \in Born : Ancestors(parent', c) = Ancestors(parent, c) /\ rules'[c] = rules[c]
  /\ rules' \in [DOMAIN parent' -> {0, 1}]
  /\ theirs \subseteq theirs' /\ theirs' \subseteq DOMAIN parent'
  /\ base' = base /\ branch' \in [Runs -> DOMAIN parent']
  /\ \A r \in Runs : Ancestors(parent', branch'[r]) \cap Born = Ancestors(parent, branch[r])

\* A step that changes none of that.
LEMMA StandsStill ==
  ASSUME TypeOK, Tree(parent), OwnApart, UNCHANGED <<parent, rules, theirs, base, branch>>
  PROVE  Stands /\ OwnApart'
<1>1. Stands
  BY AncestorsClosed DEF Stands, TypeOK, Born
<1>2. OwnApart'
  BY DEF OwnApart, Own
<1> QED
  BY <1>1, <1>2

\* A run commits on top of its branch.
LEMMA StandsOnOwnCommit ==
  ASSUME TypeOK, Tree(parent), OwnApart, NEW r \in Runs, NEW text \in {0, 1},
         Grow(branch[r], text), branch' = [branch EXCEPT ![r] = NewCommit],
         UNCHANGED <<theirs, base>>
  PROVE  Stands /\ OwnApart'
<1> DEFINE n == NewCommit
<1>1. branch[r] \in Born /\ base \in [Runs -> Born] /\ branch \in [Runs -> Born] /\ theirs \subseteq Born
  BY DEF TypeOK
<1>2. /\ n \in Commits /\ n \notin Born
      /\ Tree(parent') /\ DOMAIN parent' = Born \cup {n}
      /\ \A c \in Born : Ancestors(parent', c) = Ancestors(parent, c)
      /\ Ancestors(parent', n) = {n} \cup Ancestors(parent, branch[r])
      /\ rules' \in [DOMAIN parent' -> {0, 1}]
      /\ \A c \in Born : rules'[c] = rules[c]
  BY <1>1, GrowTree
<1>3. branch'[r] = n /\ \A s \in Runs \ {r} : branch'[s] = branch[s]
  BY <1>1
<1>4. \A c \in Born : Ancestors(parent, c) \subseteq Born
  BY AncestorsClosed DEF Born
<1> HIDE DEF n
<1>5. Stands
  <2>1. Born \subseteq DOMAIN parent' /\ DOMAIN parent' \subseteq Commits /\ theirs' \subseteq DOMAIN parent'
    BY <1>1, <1>2 DEF TypeOK
  <2>2. branch' \in [Runs -> DOMAIN parent']
    BY <1>1, <1>2, <1>3
  <2>3. \A s \in Runs : Ancestors(parent', branch'[s]) \cap Born = Ancestors(parent, branch[s])
    BY <1>1, <1>2, <1>3, <1>4
  <2> QED
    BY <1>2, <2>1, <2>2, <2>3 DEF Stands
<1>6. /\ \A s \in Runs \ {r} : Own(s)' = Own(s)
      /\ Own(r)' = {n} \cup Own(r)
  BY <1>1, <1>2, <1>3, <1>4 DEF Own
<1>7. \A s \in Runs : n \notin Own(s)
  BY <1>1, <1>2, <1>4 DEF Own
<1>8. OwnApart'
  <2> SUFFICES ASSUME NEW s \in Runs
               PROVE  /\ Ancestors(parent', base'[s]) \subseteq theirs' /\ Own(s)' \cap theirs' = {}
                      /\ \A t \in Runs \ {s} : Own(s)' \cap Own(t)' = {}
    BY DEF OwnApart, Own
  <2>1. Ancestors(parent', base'[s]) \subseteq theirs'
    BY <1>1, <1>2 DEF OwnApart
  <2>2. Own(s)' \cap theirs' = {}
    BY <1>1, <1>2, <1>6 DEF OwnApart
  <2>3. ASSUME NEW t \in Runs \ {s}
        PROVE  Own(s)' \cap Own(t)' = {}
    BY <1>6, <1>7 DEF OwnApart
  <2> QED
    BY <2>1, <2>2, <2>3
<1> QED
  BY <1>5, <1>8

\* Somebody commits on top of the target.
LEMMA StandsOnPeopleCommit ==
  ASSUME TypeOK, Tree(parent), OwnApart, PeopleCommit
  PROVE  Stands /\ OwnApart'
<1> DEFINE n == NewCommit
<1>1. /\ target \in Born /\ rules[target] \in {0, 1} /\ theirs \subseteq Born
      /\ base \in [Runs -> Born] /\ branch \in [Runs -> Born]
  BY DEF TypeOK
<1>2. Grow(target, rules[target]) /\ theirs' = theirs \cup {n} /\ UNCHANGED <<base, branch>>
  BY DEF PeopleCommit
<1>3. /\ n \in Commits /\ n \notin Born
      /\ Tree(parent') /\ DOMAIN parent' = Born \cup {n}
      /\ \A c \in Born : Ancestors(parent', c) = Ancestors(parent, c)
      /\ rules' \in [DOMAIN parent' -> {0, 1}]
      /\ \A c \in Born : rules'[c] = rules[c]
  BY <1>1, <1>2, GrowTree
<1>4. \A c \in Born : Ancestors(parent, c) \subseteq Born
  BY AncestorsClosed DEF Born
<1> HIDE DEF n
<1>5. Stands
  <2>1. /\ Born \subseteq DOMAIN parent' /\ DOMAIN parent' \subseteq Commits
        /\ theirs \subseteq theirs' /\ theirs' \subseteq DOMAIN parent'
    BY <1>1, <1>2, <1>3 DEF TypeOK
  <2>2. branch' \in [Runs -> DOMAIN parent']
    BY <1>1, <1>2, <1>3
  <2>3. \A s \in Runs : Ancestors(parent', branch'[s]) \cap Born = Ancestors(parent, branch[s])
    BY <1>1, <1>2, <1>3, <1>4
  <2> QED
    BY <1>2, <1>3, <2>1, <2>2, <2>3 DEF Stands
<1>6. \A s \in Runs : Own(s)' = Own(s) /\ n \notin Own(s)
  BY <1>1, <1>2, <1>3, <1>4 DEF Own
<1>7. OwnApart'
  <2> SUFFICES ASSUME NEW s \in Runs
               PROVE  /\ Ancestors(parent', base'[s]) \subseteq theirs' /\ Own(s)' \cap theirs' = {}
                      /\ \A t \in Runs \ {s} : Own(s)' \cap Own(t)' = {}
    BY DEF OwnApart, Own
  <2>1. Ancestors(parent', base'[s]) \subseteq theirs'
    BY <1>1, <1>2, <1>3 DEF OwnApart
  <2>2. Own(s)' \cap theirs' = {}
    BY <1>2, <1>6 DEF OwnApart
  <2>3. \A t \in Runs \ {s} : Own(s)' \cap Own(t)' = {}
    BY <1>6 DEF OwnApart
  <2> QED
    BY <2>1, <2>2, <2>3
<1> QED
  BY <1>5, <1>7

\* No step takes a commit, its text or its ancestors from the graph.
LEMMA EveryStepStands ==
  ASSUME IInv, [Next]_vars
  PROVE  Stands /\ OwnApart'
<1>1. TypeOK /\ Tree(parent) /\ OwnApart
  BY DEF IInv
<1>2. CASE UNCHANGED vars
  <2>1. UNCHANGED <<parent, rules, theirs, base, branch>>
    BY <1>2 DEF vars, spineVars, git
  <2> QED
    BY <1>1, <2>1, StandsStill
<1>3. ASSUME NEW r \in Runs, NEW text \in Texts(r), Implement(r, text)
      PROVE  Stands /\ OwnApart'
  <2>1. text \in {0, 1}
    BY <1>1, <1>3 DEF Texts, TypeOK
  <2> QED
    BY <1>1, <1>3, <2>1, StandsOnOwnCommit DEF Implement
<1>4. ASSUME NEW r \in Runs, ImplementFails(r)
      PROVE  Stands /\ OwnApart'
  <2>1. CASE UNCHANGED <<git, branch>>
    <3>1. UNCHANGED <<parent, rules, theirs, base, branch>>
      BY <1>4, <2>1 DEF ImplementFails, git
    <3> QED
      BY <1>1, <3>1, StandsStill
  <2>2. ASSUME NEW text \in Texts(r), Grow(branch[r], text), UNCHANGED theirs,
               branch' = [branch EXCEPT ![r] = NewCommit]
        PROVE  Stands /\ OwnApart'
    <3>1. text \in {0, 1} /\ UNCHANGED base
      BY <1>1, <1>4, <2>2 DEF Texts, TypeOK, ImplementFails
    <3> QED
      BY <1>1, <2>2, <3>1, StandsOnOwnCommit
  <2> QED
    BY <1>4, <2>1, <2>2 DEF ImplementFails
<1>5. ASSUME NEW r \in Runs, RunStep(r), ~ImplementFails(r), \A text \in Texts(r) : ~Implement(r, text)
      PROVE  Stands /\ OwnApart'
  <2>1. UNCHANGED <<parent, rules, theirs, base, branch>>
    BY <1>5 DEF RunStep, Start, Round, ReadNotes, WriteNotes, Confirm, RecordOutcome, Check, Crash, git
  <2> QED
    BY <1>1, <2>1, StandsStill
<1>6. ASSUME NEW r \in Runs, LandStep(r)
      PROVE  Stands /\ OwnApart'
  <2>1. UNCHANGED <<parent, rules, theirs, base, branch>>
    BY <1>6 DEF LandStep, Decide, Reread, Recheck, DetectSelfHosting, ResolveTarget, Swap,
                RecordLanding, CrashLanding, spineVars, git
  <2> QED
    BY <1>1, <2>1, StandsStill
<1>7. CASE PeopleCommit
  BY <1>1, <1>7, StandsOnPeopleCommit
<1>8. CASE Push
  <2>1. UNCHANGED <<parent, rules, theirs, base, branch>>
    BY <1>8 DEF Push, spineVars, git
  <2> QED
    BY <1>1, <2>1, StandsStill
<1> QED
  BY <1>2, <1>3, <1>4, <1>5, <1>6, <1>7, <1>8 DEF Next, RunStep

\* The target only moves forward, to somebody's commit, or to a vetted one of a run
\* that the call has found to have its fork point's rules.
TargetStands ==
  \/ target' = target
  \/ /\ target' \in theirs /\ target \in Ancestors(parent, target')
     /\ UNCHANGED <<parent, theirs, vetted>>
  \/ \E r \in Runs :
       /\ call[r].at = "swap" /\ target = call[r].tip /\ target' = call[r].sha
       /\ UNCHANGED <<parent, theirs, vetted>>

\* The target moves forward along the graph only.
LEMMA EveryStepMovesForward ==
  ASSUME IInv, [Next]_vars
  PROVE  /\ TargetStands /\ target' \in Born
         /\ Ancestors(parent, target) \subseteq Ancestors(parent', target')
<1>1. TypeOK /\ Tree(parent) /\ OwnNamed /\ Called /\ target \in Born /\ theirs \subseteq Born
  BY DEF IInv, TypeOK
<1>2. TargetStands
  <2>1. CASE UNCHANGED vars
    BY <2>1 DEF vars, landVars, TargetStands
  <2>2. ASSUME NEW r \in Runs, UNCHANGED landVars
        PROVE  TargetStands
    BY <2>2 DEF landVars, TargetStands
  <2>3. ASSUME NEW r \in Runs, LandStep(r)
        PROVE  TargetStands
    <3>1. CASE Swap(r)
      BY <3>1 DEF Swap, TargetStands, spineVars, git
    <3> QED
      BY <2>3, <3>1 DEF LandStep, Decide, Reread, Recheck, DetectSelfHosting, ResolveTarget,
                        RecordLanding, CrashLanding, TargetStands
  <2>4. CASE PeopleCommit
    BY <2>4 DEF PeopleCommit, landVars, TargetStands
  <2>5. CASE Push
    BY <1>1, <2>5, HistoryIsAncestors DEF Push, TargetStands, spineVars, git
  <2> QED
    BY <2>1, <2>2, <2>3, <2>4, <2>5 DEF Next
<1>3. target' \in Born /\ target \in Ancestors(parent, target')
  <2>1. CASE target' = target
    BY <1>1, <2>1, AncestorsClosed DEF Born
  <2>2. ASSUME NEW r \in Runs, call[r].at = "swap", target = call[r].tip, target' = call[r].sha
        PROVE  target' \in Born /\ target \in Ancestors(parent, target')
    <3>1. call[r].sha \in Own(r) /\ target \in Ancestors(parent, call[r].sha)
      BY <1>1, <2>2 DEF OwnNamed, Called
    <3>2. Own(r) \subseteq Born
      BY <1>1, AncestorsClosed DEF Own, Born
    <3> QED
      BY <2>2, <3>1, <3>2
  <2> QED
    BY <1>1, <1>2, <2>1, <2>2 DEF TargetStands
<1>4. Ancestors(parent, target) \subseteq Ancestors(parent, target')
  BY <1>1, <1>3, AncestorsOrdered
<1>5. Ancestors(parent', target') = Ancestors(parent, target')
  BY <1>3, EveryStepStands DEF Stands
<1> QED
  BY <1>2, <1>3, <1>4, <1>5

-----------------------------------------------------------------------------
(* Types.                                                                   *)

LedgerRows == [event : Events, sha : Commits \cup {None}, by : BOOLEAN]

\* The rows the runner writes are ledger rows.
LEMMA RowTypes ==
  /\ \A e \in Events : Plain(e) \in LedgerRows
  /\ \A e \in Events : \A c \in Commits : Attested(e, c) \in LedgerRows
BY DEF Plain, Attested, Row, LedgerRows

\* An append adds one row to one ledger.
LEMMA AppendTypes ==
  ASSUME TypeOK, NEW r \in Runs, NEW row \in LedgerRows, Append1(r, row)
  PROVE  /\ ledger[r] \in Seq(LedgerRows)
         /\ ledger' \in [Runs -> Seq(LedgerRows)]
         /\ ledger'[r] = Append(ledger[r], row)
         /\ \A s \in Runs \ {r} : ledger'[s] = ledger[s]
<1>1. ledger \in [Runs -> Seq(LedgerRows)]
  BY DEF TypeOK, LedgerRows
<1>2. ledger' = [ledger EXCEPT ![r] = Append(ledger[r], row)]
  BY DEF Append1
<1> QED
  BY <1>1, <1>2

\* RecordOutcome appends its two rows one after the other.
LEMMA TwoAppends ==
  ASSUME NEW R, NEW rows \in Seq(R), NEW x \in R, NEW y \in R
  PROVE  rows \o <<x, y>> = Append(Append(rows, x), y)
OBVIOUS

\* A landing that ends adds two rows to one ledger.
LEMMA OutcomeTypes ==
  ASSUME TypeOK, NEW r \in Runs, NEW x \in LedgerRows, NEW y \in LedgerRows,
         ledger' = [ledger EXCEPT ![r] = @ \o <<x, y>>]
  PROVE  /\ ledger[r] \in Seq(LedgerRows)
         /\ ledger' \in [Runs -> Seq(LedgerRows)]
         /\ ledger'[r] = Append(Append(ledger[r], x), y)
         /\ \A s \in Runs \ {r} : ledger'[s] = ledger[s]
<1>1. ledger \in [Runs -> Seq(LedgerRows)]
  BY DEF TypeOK, LedgerRows
<1>2. ledger[r] \o <<x, y>> = Append(Append(ledger[r], x), y)
  BY <1>1, TwoAppends
<1>3. ledger' = [ledger EXCEPT ![r] = Append(Append(ledger[r], x), y)]
  BY <1>2
<1>4. Append(Append(ledger[r], x), y) \in Seq(LedgerRows)
  BY <1>1
<1> QED
  BY <1>1, <1>3, <1>4

Works == [from : Commits, sha : Commits \cup {None}, seen : SUBSET Commits]
\* What a runner remembers keeps its type when a field changes.
LEMMA WorkTypes ==
  ASSUME NEW w \in Works
  PROVE  /\ \A c \in Commits : [w EXCEPT !.sha = c] \in Works
         /\ \A N \in SUBSET Commits : [w EXCEPT !.seen = N] \in Works
         /\ \A c \in Commits : [from |-> c, sha |-> None, seen |-> {}] \in Works
BY DEF Works

\* The types of what is no commit graph.
RestTypes ==
  /\ notes \subseteq Commits /\ vetted \subseteq Commits
  /\ ledger \in [Runs -> Seq(LedgerRows)]
  /\ blocked \in [Runs -> BOOLEAN] /\ pc \in [Runs -> Places] /\ rounds \in [Runs -> Nat]
  /\ work \in [Runs -> Works]
  /\ call \in [Runs -> [at : Steps, sha : Commits \cup {None}, tip : Commits \cup {None},
                       merged : BOOLEAN]]
  /\ result \in [Runs -> {"none", "landed", "refused", "error"}]
  /\ faults \in Nat

\* A step of the runner keeps the types of the rest.
LEMMA RunStepTypes ==
  ASSUME IInv, NEW r \in Runs, RunStep(r), UNCHANGED landVars
  PROVE  RestTypes'
<1>1. /\ RestTypes /\ TypeOK /\ OwnNamed /\ branch[r] \in Born /\ Born \subseteq Commits
      /\ Own(r) \subseteq Born /\ UNCHANGED <<vetted, call, result>>
  BY AncestorsClosed DEF IInv, TypeOK, RestTypes, LedgerRows, Works, Own, Born, landVars
<1>2. CASE Start(r)
  <2>1. Append1(r, Plain("run-start")) /\ Plain("run-start") \in LedgerRows
    BY <1>2, RowTypes DEF Start, LoadOpConfig, Events
  <2>2. ledger' \in [Runs -> Seq(LedgerRows)]
    BY <1>1, <2>1, AppendTypes
  <2> QED
    BY <1>1, <1>2, <2>2 DEF Start, Prepare, Goto, RestTypes, Places
<1>3. CASE Round(r)
  <2>1. Plain("dry-round") \in LedgerRows
    BY RowTypes DEF Events
  <2>2. ledger' \in [Runs -> Seq(LedgerRows)]
    BY <1>1, <1>3, <2>1, AppendTypes DEF Round, DryRound, RestTypes
  <2>3. pc' \in [Runs -> Places]
    BY <1>1, <1>3 DEF Round, DryRound, Goto, RestTypes, Places
  <2>4. [from |-> branch[r], sha |-> None, seen |-> {}] \in Works
    <3>1. branch[r] \in Commits
      BY <1>1
    <3> QED
      BY <3>1 DEF Works
  <2>5. work' = [work EXCEPT ![r] = [from |-> branch[r], sha |-> None, seen |-> {}]]
    BY <1>3 DEF Round
  <2>6. work' \in [Runs -> Works]
    BY <1>1, <2>4, <2>5 DEF RestTypes
  <2> QED
    BY <1>1, <1>3, <2>2, <2>3, <2>6 DEF Round, RestTypes
<1>4. CASE ImplementFails(r)
  <2>1. Plain("dry-round") \in LedgerRows
    BY RowTypes DEF Events
  <2>2. ledger' \in [Runs -> Seq(LedgerRows)]
    BY <1>1, <1>4, <2>1, AppendTypes DEF ImplementFails, DryRound
  <2> QED
    BY <1>1, <1>4, <2>2 DEF ImplementFails, DryRound, Goto, RestTypes, Places
<1>5. ASSUME NEW text \in Texts(r), Implement(r, text)
      PROVE  RestTypes'
  <2>1. NewCommit \in Commits
    <3>1. text \in {0, 1} /\ Tree(parent) /\ Grow(branch[r], text)
      BY <1>1, <1>5 DEF Texts, TypeOK, IInv, Implement
    <3> QED
      BY <1>1, <3>1, GrowTree
  <2>2. work' \in [Runs -> Works]
    <3>1. [work[r] EXCEPT !.sha = NewCommit] \in Works
      BY <1>1, <2>1, WorkTypes DEF RestTypes
    <3>2. work' = [work EXCEPT ![r] = [work[r] EXCEPT !.sha = NewCommit]]
      BY <1>5 DEF Implement
    <3> QED
      BY <1>1, <3>1, <3>2 DEF RestTypes
  <2> QED
    BY <1>1, <1>5, <2>2 DEF Implement, Goto, RestTypes, Places
<1>6. CASE ReadNotes(r)
  <2>1. [work[r] EXCEPT !.seen = notes] \in Works
    BY <1>1, WorkTypes DEF RestTypes
  <2>2. work' = [work EXCEPT ![r] = [work[r] EXCEPT !.seen = notes]]
    BY <1>6 DEF ReadNotes
  <2> QED
    BY <1>1, <1>6, <2>1, <2>2 DEF ReadNotes, Goto, RestTypes, Places
<1>7. CASE WriteNotes(r)
  <2>1. History(work[r].sha) \subseteq Commits
    BY <1>1 DEF History
  <2>2. notes' \subseteq Commits
    BY <1>1, <1>7, <2>1, WorkTypes DEF WriteNotes, RestTypes, Works
  <2>3. [work[r] EXCEPT !.seen = {}] \in Works
    BY <1>1, WorkTypes DEF RestTypes
  <2>4. work' = [work EXCEPT ![r] = [work[r] EXCEPT !.seen = {}]]
    BY <1>7 DEF WriteNotes
  <2> QED
    BY <1>1, <1>7, <2>2, <2>3, <2>4 DEF WriteNotes, Goto, RestTypes, Places
<1>8. CASE Confirm(r)
  <2>1. work[r].sha \in Commits
    BY <1>1, <1>8 DEF Confirm, OwnNamed
  <2>2. Attested("confirmed-work", work[r].sha) \in LedgerRows
    BY <2>1, RowTypes DEF Events
  <2>3. ledger' \in [Runs -> Seq(LedgerRows)]
    BY <1>1, <1>8, <2>2, AppendTypes DEF Confirm
  <2> QED
    BY <1>1, <1>8, <2>3 DEF Confirm, Goto, RestTypes, Places
<1>9. CASE RecordOutcome(r)
  <2>1. work[r].sha \in Commits
    BY <1>1, <1>9 DEF RecordOutcome, OwnNamed
  <2>2. Attested("propagation", work[r].sha) \in LedgerRows /\ Plain("landing") \in LedgerRows
    BY <2>1, RowTypes DEF Events
  <2>3. ledger' \in [Runs -> Seq(LedgerRows)]
    BY <1>1, <1>9, <2>2, OutcomeTypes DEF RecordOutcome, RestTypes
  <2> QED
    BY <1>1, <1>9, <2>3 DEF RecordOutcome, Goto, RestTypes, Places
<1>10. CASE Check(r)
  <2>1. Plain("stop") \in LedgerRows
    BY RowTypes DEF Events
  <2>2. ledger' \in [Runs -> Seq(LedgerRows)]
    BY <1>1, <1>10, <2>1, AppendTypes DEF Check, RestTypes
  <2>3. pc' \in [Runs -> Places]
    BY <1>1, <1>10 DEF Check, Goto, RestTypes, Places
  <2>4. rounds' \in [Runs -> Nat]
    BY <1>1, <1>10 DEF Check, RestTypes
  <2> QED
    BY <1>1, <1>10, <2>2, <2>3, <2>4 DEF Check, RestTypes
<1>11. CASE Crash(r)
  <2>1. Plain("torn") \in LedgerRows
    BY RowTypes DEF Events
  <2>2. ledger' \in [Runs -> Seq(LedgerRows)]
    BY <1>1, <1>11, <2>1, AppendTypes DEF Crash, RestTypes
  <2>3. faults' \in Nat
    BY <1>1, <1>11 DEF Crash, Fault, RestTypes
  <2> QED
    BY <1>1, <1>11, <2>2, <2>3 DEF Crash, Goto, RestTypes, Places
<1> QED
  BY <1>2, <1>3, <1>4, <1>5, <1>6, <1>7, <1>8, <1>9, <1>10, <1>11 DEF RunStep

\* A step of land() keeps the types of the rest.
LEMMA LandStepTypes ==
  ASSUME IInv, NEW r \in Runs, LandStep(r)
  PROVE  RestTypes'
<1> DEFINE Calls == [at : Steps, sha : Commits \cup {None}, tip : Commits \cup {None},
                     merged : BOOLEAN]
<1>1. /\ RestTypes /\ TypeOK /\ OwnNamed /\ target \in Commits /\ Born \subseteq Commits
      /\ Own(r) \subseteq Born /\ call[r] \in Calls
  BY AncestorsClosed DEF IInv, TypeOK, RestTypes, LedgerRows, Works, Own, Born
<1>2. \A answer \in {"none", "landed", "refused", "error"} :
        Answer(r, answer) => /\ call' \in [Runs -> Calls]
                             /\ result' \in [Runs -> {"none", "landed", "refused", "error"}]
  BY <1>1 DEF Answer, NoCall, RestTypes, Steps
<1>3. \A step \in Steps :
        Advance(r, step) => /\ call' \in [Runs -> Calls]
                            /\ result' \in [Runs -> {"none", "landed", "refused", "error"}]
  <2> TAKE step \in Steps
  <2>1. [call[r] EXCEPT !.at = step] \in Calls
    BY <1>1
  <2> QED
    BY <1>1, <2>1 DEF Advance, RestTypes
<1>4. CASE Decide(r)
  <2>1. CASE Answer(r, IF Torn(ledger[r]) THEN "error" ELSE "refused")
    BY <1>1, <1>2, <1>4, <2>1 DEF Decide, RestTypes, spineVars, git
  <2>2. CASE /\ AllPass(ledger[r], branch[r]) /\ UNCHANGED result
             /\ call' = [call EXCEPT ![r] =
                          [NoCall EXCEPT !.at = "recheck", !.sha = ConvergedCommit(ledger[r])]]
    <3>1. ledger[r] \in Seq(LedgerRows) /\ Confirmed(ledger[r]) # {}
      BY <1>1, <2>2 DEF AllPass, WitnessLedgered, RestTypes
    <3>2. ConvergedCommit(ledger[r]) \in Own(r)
      BY <1>1, <3>1, ConvergedCommitIsConfirmed DEF OwnNamed
    <3>3. ConvergedCommit(ledger[r]) \in Commits
      BY <1>1, <3>2
    <3>4. call' \in [Runs -> Calls]
      BY <1>1, <2>2, <3>3 DEF NoCall, RestTypes, Steps
    <3> QED
      BY <1>1, <1>4, <2>2, <3>4 DEF Decide, RestTypes, spineVars, git
  <2> QED
    BY <1>4, <2>1, <2>2 DEF Decide
<1>5. CASE Reread(r)
  BY <1>1, <1>2, <1>3, <1>5 DEF Reread, RestTypes, Steps, spineVars, git
<1>6. CASE Recheck(r)
  <2>1. call[r].sha \in Commits
    BY <1>1, <1>6 DEF Recheck, OwnNamed
  <2> QED
    BY <1>1, <1>2, <1>3, <1>6, <2>1 DEF Recheck, RestTypes, Steps, spineVars, git
<1>7. CASE DetectSelfHosting(r)
  BY <1>1, <1>2, <1>3, <1>7 DEF DetectSelfHosting, RestTypes, Steps, spineVars, git
<1>8. CASE ResolveTarget(r)
  <2>1. CASE Answer(r, "refused")
    BY <1>1, <1>2, <1>8, <2>1 DEF ResolveTarget, RestTypes, spineVars, git
  <2>2. CASE call' = [call EXCEPT ![r].at = "swap", ![r].tip = target] /\ UNCHANGED result
    <3>1. call' \in [Runs -> Calls]
      BY <1>1, <2>2 DEF RestTypes, Steps
    <3> QED
      BY <1>1, <1>8, <2>2, <3>1 DEF ResolveTarget, RestTypes, spineVars, git
  <2> QED
    BY <1>8, <2>1, <2>2 DEF ResolveTarget
<1>9. CASE Swap(r)
  <2>1. CASE Answer(r, "refused")
    BY <1>1, <1>2, <1>9, <2>1 DEF Swap, RestTypes, spineVars, git
  <2>2. CASE call' = [call EXCEPT ![r].at = "row", ![r].merged = TRUE] /\ UNCHANGED result
    <3>1. call' \in [Runs -> Calls]
      BY <1>1, <2>2 DEF RestTypes, Steps
    <3> QED
      BY <1>1, <1>9, <2>2, <3>1 DEF Swap, RestTypes, spineVars, git
  <2> QED
    BY <1>9, <2>1, <2>2 DEF Swap
<1>10. CASE RecordLanding(r)
  <2>1. call[r].sha \in Commits
    BY <1>1, <1>10 DEF RecordLanding, OwnNamed
  <2>2. Attested("landed", call[r].sha) \in LedgerRows
    BY <2>1, RowTypes DEF Events
  <2>3. ledger' \in [Runs -> Seq(LedgerRows)]
    BY <1>1, <1>10, <2>2, AppendTypes DEF RecordLanding, RestTypes
  <2>4. faults' \in Nat
    BY <1>1, <1>10 DEF RecordLanding, Fault, RestTypes
  <2>5. /\ call' \in [Runs -> Calls]
        /\ result' \in [Runs -> {"none", "landed", "refused", "error"}]
    BY <1>2, <1>10 DEF RecordLanding
  <2> QED
    BY <1>1, <1>10, <2>3, <2>4, <2>5 DEF RecordLanding, RestTypes, git
<1>11. CASE CrashLanding(r)
  <2>1. Plain("torn") \in LedgerRows
    BY RowTypes DEF Events
  <2>2. ledger' \in [Runs -> Seq(LedgerRows)]
    BY <1>1, <1>11, <2>1, AppendTypes DEF CrashLanding, RestTypes
  <2>3. faults' \in Nat /\ call' \in [Runs -> Calls]
    BY <1>1, <1>11 DEF CrashLanding, Fault, RestTypes, NoCall, Steps
  <2> QED
    BY <1>1, <1>11, <2>2, <2>3 DEF CrashLanding, RestTypes, git
<1> QED
  BY <1>4, <1>5, <1>6, <1>7, <1>8, <1>9, <1>10, <1>11 DEF LandStep

\* Every step keeps the types and the tree.
LEMMA TypeStep ==
  ASSUME IInv, [Next]_vars
  PROVE  TypeOK' /\ Tree(parent')
<1>1. Stands /\ target' \in Born
  BY EveryStepStands, EveryStepMovesForward
<1>2. RestTypes /\ TypeOK
  BY DEF IInv, TypeOK, RestTypes, LedgerRows, Works
<1>3. RestTypes'
  <2>1. CASE UNCHANGED vars
    BY <1>2, <2>1 DEF vars, spineVars, landVars, git, RestTypes
  <2>2. CASE PeopleCommit
    BY <1>2, <2>2 DEF PeopleCommit, landVars, RestTypes
  <2>3. CASE Push
    BY <1>2, <2>3 DEF Push, spineVars, git, RestTypes
  <2> QED
    BY <2>1, <2>2, <2>3, RunStepTypes, LandStepTypes DEF Next
<1>4. /\ parent' \in [Born' -> Born'] /\ 0 \in Born' /\ Born' \subseteq Commits
      /\ rules' \in [Born' -> {0, 1}] /\ theirs' \subseteq Born' /\ target' \in Born'
      /\ base' \in [Runs -> theirs'] /\ branch' \in [Runs -> Born']
  BY <1>1, <1>2 DEF Stands, Tree, TypeOK, Born
<1> QED
  BY <1>1, <1>3, <1>4 DEF TypeOK, RestTypes, LedgerRows, Works, Stands

-----------------------------------------------------------------------------
(* What a step does to a ledger.                                            *)

\* The rows that one step may append, and what they are about.
RowFits(s, row) ==
  \/ row.event \in {"run-start", "stop", "torn"}
  \/ row.event = "dry-round" /\ pc[s] \in {"round", "implement"}
  \/ row.event = "confirmed-work" /\ pc[s] = "confirm" /\ row.sha = work[s].sha
  \/ row.event = "landed" /\ call[s].at = "row" /\ row.sha = call[s].sha
OneRow(s) ==
  \E row \in LedgerRows : ledger'[s] = Append(ledger[s], row) /\ RowFits(s, row)
TwoRows(s) ==
  \E x, y \in LedgerRows :
    /\ ledger'[s] = Append(Append(ledger[s], x), y)
    /\ x.event = "landing" /\ y.event = "propagation"

\* An append changes no other ledger.
LEMMA OneAppend ==
  ASSUME TypeOK, NEW r \in Runs, NEW row \in LedgerRows, Append1(r, row), RowFits(r, row), NEW s \in Runs
  PROVE  ledger'[s] = ledger[s] \/ OneRow(s)
<1>1. CASE s = r
  BY <1>1, AppendTypes DEF OneRow
<1>2. CASE s # r
  BY <1>2, AppendTypes
<1> QED
  BY <1>1, <1>2

\* A step leaves a ledger alone, or adds one row, or the two of a landing.
LEMMA LedgerStep ==
  ASSUME IInv, [Next]_vars, NEW s \in Runs
  PROVE  ledger'[s] = ledger[s] \/ OneRow(s) \/ TwoRows(s)
<1>1. TypeOK /\ OwnNamed /\ \A r \in Runs : Own(r) \subseteq Commits
  BY AncestorsClosed DEF IInv, TypeOK, Own, Born
<1>2. /\ \A e \in Events : Plain(e) \in LedgerRows /\ Plain(e).event = e
      /\ \A e \in Events : \A c \in Commits :
           Attested(e, c) \in LedgerRows /\ Attested(e, c).event = e /\ Attested(e, c).sha = c
  BY RowTypes DEF Plain, Attested, Row
<1>3. ASSUME NEW r \in Runs, NEW e \in {"run-start", "stop", "torn"}, Append1(r, Plain(e))
      PROVE  ledger'[s] = ledger[s] \/ OneRow(s)
  <2>1. Plain(e) \in LedgerRows /\ RowFits(r, Plain(e))
    BY <1>2 DEF RowFits, Events
  <2> QED
    BY <1>1, <1>3, <2>1, OneAppend
<1>4. ASSUME NEW r \in Runs, DryRound(r), pc[r] \in {"round", "implement"}
      PROVE  ledger'[s] = ledger[s] \/ OneRow(s)
  <2>1. Plain("dry-round") \in LedgerRows /\ RowFits(r, Plain("dry-round"))
    BY <1>2, <1>4 DEF RowFits, Events
  <2> QED
    BY <1>1, <1>4, <2>1, OneAppend DEF DryRound
<1>5. CASE UNCHANGED ledger
  BY <1>5
<1>6. ASSUME NEW r \in Runs, RunStep(r)
      PROVE  ledger'[s] = ledger[s] \/ OneRow(s) \/ TwoRows(s)
  <2>1. CASE Start(r)
    BY <1>3, <2>1 DEF Start, LoadOpConfig
  <2>2. CASE Round(r)
    BY <1>4, <1>5, <2>2 DEF Round
  <2>3. CASE ImplementFails(r)
    BY <1>4, <2>3 DEF ImplementFails
  <2>4. CASE Confirm(r)
    <3>1. work[r].sha \in Commits
      BY <1>1, <2>4 DEF Confirm, OwnNamed
    <3>2. /\ Attested("confirmed-work", work[r].sha) \in LedgerRows
          /\ RowFits(r, Attested("confirmed-work", work[r].sha))
      BY <1>2, <2>4, <3>1 DEF RowFits, Events, Confirm
    <3> QED
      BY <1>1, <2>4, <3>2, OneAppend DEF Confirm
  <2>5. CASE RecordOutcome(r)
    <3>1. work[r].sha \in Commits
      BY <1>1, <2>5 DEF RecordOutcome, OwnNamed
    <3> DEFINE x == Plain("landing")
               y == Attested("propagation", work[r].sha)
    <3>2. x \in LedgerRows /\ y \in LedgerRows /\ x.event = "landing" /\ y.event = "propagation"
      BY <1>2, <3>1 DEF Events
    <3>3. CASE ledger' = [ledger EXCEPT ![r] = @ \o <<x, y>>]
      <4> HIDE DEF x, y
      <4>1. /\ ledger'[r] = Append(Append(ledger[r], x), y)
            /\ \A t \in Runs \ {r} : ledger'[t] = ledger[t]
        BY <1>1, <3>2, <3>3, OutcomeTypes
      <4> QED
        BY <3>2, <4>1 DEF TwoRows
    <3> QED
      BY <1>5, <2>5, <3>3 DEF RecordOutcome
  <2>6. CASE Check(r)
    BY <1>3, <1>5, <2>6 DEF Check
  <2>7. CASE Crash(r)
    BY <1>3, <1>5, <2>7 DEF Crash
  <2>8. CASE ReadNotes(r) \/ WriteNotes(r) \/ \E text \in Texts(r) : Implement(r, text)
    BY <2>8 DEF ReadNotes, WriteNotes, Implement
  <2> QED
    BY <1>6, <2>1, <2>2, <2>3, <2>4, <2>5, <2>6, <2>7, <2>8 DEF RunStep
<1>7. ASSUME NEW r \in Runs, LandStep(r)
      PROVE  ledger'[s] = ledger[s] \/ OneRow(s)
  <2>1. CASE RecordLanding(r) /\ Append1(r, Attested("landed", call[r].sha))
    <3>1. call[r].sha \in Commits
      BY <1>1, <2>1 DEF RecordLanding, OwnNamed
    <3>2. /\ Attested("landed", call[r].sha) \in LedgerRows
          /\ RowFits(r, Attested("landed", call[r].sha))
      BY <1>2, <2>1, <3>1 DEF RowFits, Events, RecordLanding
    <3> QED
      BY <1>1, <2>1, <3>2, OneAppend
  <2>2. CASE CrashLanding(r)
    BY <1>3, <1>5, <2>2 DEF CrashLanding
  <2> QED
    BY <1>5, <1>7, <2>1, <2>2 DEF LandStep, Decide, Reread, Recheck, DetectSelfHosting, ResolveTarget,
                                  Swap, RecordLanding, spineVars
<1>8. CASE PeopleCommit \/ Push \/ UNCHANGED vars
  BY <1>8 DEF PeopleCommit, Push, vars, spineVars
<1> QED
  BY <1>6, <1>7, <1>8 DEF Next

\* Every row of a ledger was there before, or is what this step is about.
LEMMA EveryRow ==
  ASSUME IInv, [Next]_vars, NEW s \in Runs, NEW i \in DOMAIN ledger'[s]
  PROVE  \/ i \in DOMAIN ledger[s] /\ ledger'[s][i] = ledger[s][i]
         \/ ledger'[s][i].event \notin {"confirmed-work", "landed"}
         \/ RowFits(s, ledger'[s][i])
<1>1. ledger[s] \in Seq(LedgerRows)
  BY DEF IInv, TypeOK, LedgerRows
<1>2. ASSUME NEW R, NEW rows \in Seq(R), NEW row \in R, NEW j \in DOMAIN Append(rows, row)
      PROVE  \/ j \in DOMAIN rows /\ Append(rows, row)[j] = rows[j]
             \/ Append(rows, row)[j] = row
  BY <1>2
<1>3. CASE OneRow(s)
  BY <1>1, <1>2, <1>3 DEF OneRow
<1>4. CASE TwoRows(s)
  <2>1. PICK x \in LedgerRows, y \in LedgerRows :
          /\ ledger'[s] = Append(Append(ledger[s], x), y)
          /\ x.event = "landing" /\ y.event = "propagation"
    BY <1>4 DEF TwoRows
  <2>2. Append(ledger[s], x) \in Seq(LedgerRows)
    BY <1>1
  <2>3. \/ i \in DOMAIN Append(ledger[s], x) /\ ledger'[s][i] = Append(ledger[s], x)[i]
        \/ ledger'[s][i] = y
    BY <1>2, <2>1, <2>2
  <2>4. i \in DOMAIN Append(ledger[s], x) =>
          \/ i \in DOMAIN ledger[s] /\ Append(ledger[s], x)[i] = ledger[s][i]
          \/ Append(ledger[s], x)[i] = x
    BY <1>1, <1>2
  <2> QED
    BY <2>1, <2>3, <2>4
<1> QED
  BY <1>3, <1>4, LedgerStep

-----------------------------------------------------------------------------
(* Every step keeps the parts of the invariant.                             *)

\* A run's own commits stay its own.
LEMMA OwnGrows ==
  ASSUME IInv, [Next]_vars, NEW r \in Runs
  PROVE  Own(r) \subseteq Own(r)'
<1>1. /\ Stands /\ base[r] \in Born /\ Ancestors(parent, branch[r]) \subseteq Born
      /\ Ancestors(parent', base[r]) = Ancestors(parent, base[r])
  BY EveryStepStands, AncestorsClosed DEF IInv, TypeOK, Stands, Born
<1> QED
  BY <1>1 DEF Stands, Own

\* land() is called for a commit of the run itself.
LEMMA CallStaysOwn ==
  ASSUME IInv, [Next]_vars, NEW s \in Runs
  PROVE  call'[s].at # "none" => call'[s].sha \in Own(s)'
<1>1. /\ TypeOK /\ OwnNamed /\ RestTypes
  BY DEF IInv, TypeOK, RestTypes, LedgerRows, Works
<1>2. CASE call'[s].at = "none" \/ (call[s].at # "none" /\ call'[s].sha = call[s].sha)
  BY <1>1, <1>2, OwnGrows DEF OwnNamed
<1>3. ASSUME NEW r \in Runs, LandStep(r), r # s
      PROVE  call'[s] = call[s]
  BY <1>1, <1>3 DEF RestTypes, LandStep, Decide, Reread, Recheck, DetectSelfHosting,
                    ResolveTarget, Swap, RecordLanding, CrashLanding, Answer, Advance
<1>4. ASSUME Decide(s), call'[s].at # "none"
      PROVE  call'[s].sha \in Own(s)
  <2>1. AllPass(ledger[s], branch[s]) /\ call'[s].sha = ConvergedCommit(ledger[s])
    <3> DEFINE sha == ConvergedCommit(ledger[s])
    <3>1. \A answer : Answer(s, answer) => call'[s].at = "none"
      BY <1>1 DEF Answer, NoCall, RestTypes
    <3>2. /\ AllPass(ledger[s], branch[s])
          /\ call' = [call EXCEPT ![s] = [NoCall EXCEPT !.at = "recheck", !.sha = sha]]
      BY <1>4, <3>1 DEF Decide
    <3> HIDE DEF sha
    <3>3. call'[s].sha = sha
      BY <1>1, <3>2 DEF NoCall, RestTypes
    <3> QED
      BY <3>2, <3>3 DEF sha
  <2>2. ledger[s] \in Seq(LedgerRows) /\ Confirmed(ledger[s]) # {}
    BY <1>1, <2>1 DEF AllPass, WitnessLedgered, RestTypes
  <2> QED
    BY <1>1, <2>1, <2>2, ConvergedCommitIsConfirmed DEF OwnNamed
<1>5. ASSUME LandStep(s), ~Decide(s)
      PROVE  call'[s].at = "none" \/ (call[s].at # "none" /\ call'[s].sha = call[s].sha)
  <2>1. /\ \A answer : Answer(s, answer) => call'[s].at = "none"
        /\ \A step : Advance(s, step) => call'[s].sha = call[s].sha
    BY <1>1 DEF Answer, Advance, NoCall, RestTypes
  <2>2. CASE Reread(s) \/ Recheck(s) \/ DetectSelfHosting(s) \/ RecordLanding(s)
    BY <2>1, <2>2 DEF Reread, Recheck, DetectSelfHosting, RecordLanding
  <2>3. CASE ResolveTarget(s)
    BY <1>1, <2>1, <2>3 DEF ResolveTarget, RestTypes
  <2>4. CASE Swap(s)
    BY <1>1, <2>1, <2>4 DEF Swap, RestTypes
  <2>5. CASE CrashLanding(s)
    BY <1>1, <2>5 DEF CrashLanding, NoCall, RestTypes
  <2> QED
    BY <1>5, <2>2, <2>3, <2>4, <2>5 DEF LandStep
<1>6. CASE UNCHANGED call
  BY <1>2, <1>6
<1>7. CASE \E r \in Runs : LandStep(r)
  BY <1>2, <1>3, <1>4, <1>5, <1>7, OwnGrows
<1> QED
  BY <1>6, <1>7 DEF Next, vars, landVars, PeopleCommit, Push

\* What a runner confirms or lands is a commit of its own.
LEMMA WorkStaysOwn ==
  ASSUME IInv, [Next]_vars, NEW s \in Runs,
         pc'[s] \in {"read-notes", "write-notes", "confirm", "landing"}
  PROVE  work'[s].sha \in Own(s)'
<1>1. TypeOK /\ OwnNamed /\ RestTypes /\ Tree(parent)
  BY DEF IInv, TypeOK, RestTypes, LedgerRows, Works
<1>2. CASE /\ pc[s] \in {"read-notes", "write-notes", "confirm", "landing"}
           /\ work'[s].sha = work[s].sha
  BY <1>1, <1>2, OwnGrows DEF OwnNamed
<1>3. CASE UNCHANGED <<pc, work>>
  BY <1>2, <1>3
<1>4. ASSUME NEW r \in Runs, RunStep(r), r # s
      PROVE  pc'[s] = pc[s] /\ work'[s] = work[s]
  BY <1>1, <1>4 DEF RestTypes, Works, RunStep, Start, Round, ImplementFails, Implement, ReadNotes,
                    WriteNotes, Confirm, RecordOutcome, Check, Crash, Goto, DryRound
<1>5. ASSUME NEW text \in Texts(s), Implement(s, text)
      PROVE  work'[s].sha \in Own(s)'
  <2>1. text \in {0, 1} /\ branch[s] \in Born /\ base[s] \in Born
    BY <1>1, <1>5 DEF Texts, TypeOK
  <2>2. /\ branch'[s] = NewCommit /\ work'[s].sha = NewCommit /\ base' = base
        /\ Grow(branch[s], text)
    BY <1>1, <1>5 DEF Implement, TypeOK
  <2>3. /\ NewCommit \notin Born /\ NewCommit \in Ancestors(parent', NewCommit)
        /\ Ancestors(parent', base[s]) = Ancestors(parent, base[s])
    BY <1>1, <2>1, <2>2, GrowTree
  <2>4. Ancestors(parent, base[s]) \subseteq Born
    BY <1>1, AncestorsClosed DEF Born
  <2> QED
    BY <2>2, <2>3, <2>4 DEF Own
<1>6. CASE RunStep(s)
  <2>1. CASE Start(s) \/ Round(s) \/ ImplementFails(s) \/ RecordOutcome(s) \/ Check(s) \/ Crash(s)
    BY <1>1, <2>1 DEF RestTypes, Start, Round, ImplementFails, RecordOutcome, Check, Crash, Goto, DryRound
  <2>2. CASE ReadNotes(s) \/ WriteNotes(s) \/ Confirm(s)
    BY <1>1, <1>2, <2>2 DEF RestTypes, Works, ReadNotes, WriteNotes, Confirm, Goto
  <2> QED
    BY <1>5, <1>6, <2>1, <2>2 DEF RunStep
<1>7. CASE \E r \in Runs : LandStep(r)
  <2>1. UNCHANGED <<pc, work>>
    BY <1>7 DEF LandStep, Decide, Reread, Recheck, DetectSelfHosting, ResolveTarget, Swap,
                RecordLanding, CrashLanding, spineVars
  <2> QED
    BY <1>3, <2>1
<1>8. CASE PeopleCommit \/ Push \/ UNCHANGED vars
  BY <1>3, <1>8 DEF PeopleCommit, Push, vars, spineVars
<1> QED
  BY <1>2, <1>4, <1>6, <1>7, <1>8 DEF Next

\* Whatever a run names, in its ledger, its work or its call, is its own.
LEMMA OwnNamedStep ==
  ASSUME IInv, [Next]_vars
  PROVE  OwnNamed'
<1> SUFFICES ASSUME NEW s \in Runs
             PROVE  /\ pc'[s] \in {"read-notes", "write-notes", "confirm", "landing"}
                         => work'[s].sha \in Own(s)'
                    /\ \A i \in Confirmed(ledger'[s]) : ledger'[s][i].sha \in Own(s)'
                    /\ call'[s].at # "none" => call'[s].sha \in Own(s)'
  BY DEF OwnNamed, Own, Confirmed
<1>1. ASSUME NEW i \in Confirmed(ledger'[s])
      PROVE  ledger'[s][i].sha \in Own(s)
  <2>1. OwnNamed /\ i \in DOMAIN ledger'[s] /\ ledger'[s][i].event = "confirmed-work"
    BY <1>1 DEF IInv, Confirmed
  <2>2. \/ i \in DOMAIN ledger[s] /\ ledger'[s][i] = ledger[s][i]
        \/ RowFits(s, ledger'[s][i])
    BY <2>1, EveryRow
  <2> QED
    BY <2>1, <2>2 DEF OwnNamed, Confirmed, RowFits
<1> QED
  BY <1>1, OwnGrows, CallStaysOwn, WorkStaysOwn

\* A landed row stands: the target never moves back.
LEMMA LandedStep ==
  ASSUME IInv, [Next]_vars
  PROVE  Landed'
<1> SUFFICES ASSUME NEW s \in Runs, NEW i \in DOMAIN ledger'[s], ledger'[s][i].event = "landed"
             PROVE  ledger'[s][i].sha \in Ancestors(parent', target')
  BY DEF Landed
<1>1. ledger'[s][i].sha \in Ancestors(parent, target)
  <2>1. \/ i \in DOMAIN ledger[s] /\ ledger'[s][i] = ledger[s][i]
        \/ RowFits(s, ledger'[s][i])
    BY EveryRow
  <2> QED
    BY <2>1 DEF IInv, Landed, Called, RowFits
<1> QED
  BY <1>1, EveryStepMovesForward

\* A pull of the target between fork point and tip is the run's own landing, or back to the fork.
LEMMA GovernedStep ==
  ASSUME IInv, [Next]_vars
  PROVE  Governed'
<1>1. /\ TypeOK /\ Tree(parent) /\ OwnApart /\ OwnNamed /\ Called /\ Governed
      /\ Stands /\ TargetStands /\ target' \in Born
  BY EveryStepStands, EveryStepMovesForward DEF IInv
<1> SUFFICES ASSUME NEW r \in Runs, target' \in Ancestors(parent', branch'[r]),
                    base'[r] \in Ancestors(parent', target')
             PROVE  rules'[target'] = rules'[base'[r]]
  BY DEF Governed
<1>2. /\ base'[r] = base[r] /\ base[r] \in Born
      /\ target' \in Ancestors(parent, branch[r]) /\ base[r] \in Ancestors(parent, target')
      /\ rules'[target'] = rules[target'] /\ rules'[base[r]] = rules[base[r]]
  BY <1>1 DEF Stands, TypeOK
<1>3. CASE target' = target
  BY <1>1, <1>2, <1>3 DEF Governed
<1>4. CASE target' \in theirs
  <2>1. target' \in Ancestors(parent, base[r])
    BY <1>1, <1>2, <1>4 DEF OwnApart, Own
  <2>2. target' <= base[r] /\ base[r] <= target'
    BY <1>1, <1>2, <2>1, AncestorsOrdered DEF Born
  <2>3. target' \in Nat /\ base[r] \in Nat
    BY <1>1, <1>2 DEF Tree, Born
  <2> QED
    BY <1>2, <2>2, <2>3
<1>5. ASSUME NEW s \in Runs, call[s].at = "swap", target' = call[s].sha
      PROVE  rules[target'] = rules[base[r]]
  <2>1. target' \in Own(s) /\ rules[base[s]] = rules[target']
    BY <1>1, <1>5 DEF OwnNamed, Called
  <2>2. CASE s = r
    BY <2>1, <2>2
  <2>3. CASE s # r
    <3>1. target' \notin Own(r) /\ target' \notin theirs
      BY <1>1, <2>1, <2>3 DEF OwnApart
    <3>2. target' \in Own(r) \/ target' \in Ancestors(parent, base[r])
      BY <1>2 DEF Own
    <3> QED
      BY <1>1, <3>1, <3>2 DEF OwnApart
  <2> QED
    BY <2>2, <2>3
<1> QED
  BY <1>1, <1>2, <1>3, <1>4, <1>5 DEF TargetStands

\* What land() has read of the target stays in its history until the compare-and-swap.
LEMMA CalledStep ==
  ASSUME IInv, [Next]_vars
  PROVE  Called'
<1>1. /\ TypeOK /\ RestTypes /\ Tree(parent) /\ OwnNamed /\ Called /\ Stands
      /\ target \in Born /\ target' \in Born
      /\ Ancestors(parent, target) \subseteq Ancestors(parent', target')
  BY EveryStepStands, EveryStepMovesForward DEF IInv, TypeOK, RestTypes, LedgerRows, Works
<1> SUFFICES ASSUME NEW s \in Runs
             PROVE  /\ call'[s].at \in {"hosting", "resolve", "swap", "row"} => call'[s].sha \in vetted'
                    /\ call'[s].at \in {"resolve", "swap"} => rules'[base'[s]] = rules'[call'[s].sha]
                    /\ call'[s].at = "swap" => call'[s].tip \in Ancestors(parent', call'[s].sha)
                    /\ call'[s].at = "row" => call'[s].sha \in Ancestors(parent', target')
  BY DEF Called
<1>2. /\ base' = base /\ base[s] \in Born /\ \A c \in Born : rules'[c] = rules[c]
      /\ \A c \in Born : Ancestors(parent', c) = Ancestors(parent, c)
      /\ call[s].at # "none" => call[s].sha \in Born
  BY <1>1, AncestorsClosed DEF Stands, TypeOK, OwnNamed, Own, Born
<1>3. vetted \subseteq vetted'
  BY DEF Next, vars, landVars, LandStep, Decide, Reread, Recheck, DetectSelfHosting, ResolveTarget,
         Swap, RecordLanding, CrashLanding, PeopleCommit, Push
<1>4. CASE call'[s] = call[s]
  BY <1>1, <1>2, <1>3, <1>4 DEF Called
<1>5. ASSUME NEW r \in Runs, LandStep(r), r # s
      PROVE  call'[s] = call[s]
  BY <1>1, <1>5 DEF RestTypes, LandStep, Decide, Reread, Recheck, DetectSelfHosting,
                    ResolveTarget, Swap, RecordLanding, CrashLanding, Answer, Advance
<1>6. CASE call'[s].at \in {"none", "recheck", "tests"}
  BY <1>6
<1>7. CASE LandStep(s)
  <2>1. \A answer : Answer(s, answer) => call'[s].at = "none"
    BY <1>1 DEF Answer, NoCall, RestTypes
  <2>2. ASSUME NEW step, Advance(s, step)
        PROVE  call'[s].at = step /\ call'[s].sha = call[s].sha
    BY <1>1, <2>2 DEF Advance, RestTypes
  <2>3. CASE Decide(s)
    <3>1. call'[s].at \in {"none", "recheck"}
      <4> DEFINE sha == ConvergedCommit(ledger[s])
      <4>1. CASE call' = [call EXCEPT ![s] = [NoCall EXCEPT !.at = "recheck", !.sha = sha]]
        <5> HIDE DEF sha
        <5> QED
          BY <1>1, <4>1 DEF NoCall, RestTypes
      <4> QED
        BY <2>1, <2>3, <4>1 DEF Decide
    <3> QED
      BY <1>6, <3>1
  <2>4. CASE Reread(s)
    BY <1>6, <2>1, <2>2, <2>4 DEF Reread
  <2>5. CASE Recheck(s)
    BY <1>6, <2>1, <2>2, <2>5 DEF Recheck
  <2>6. CASE DetectSelfHosting(s)
    BY <1>1, <1>2, <1>3, <1>6, <2>1, <2>2, <2>6 DEF DetectSelfHosting, SameRules, Called
  <2>7. CASE ResolveTarget(s)
    <3>1. CASE Answer(s, "refused")
      BY <1>6, <2>1, <3>1
    <3>2. CASE /\ target \in History(call[s].sha)
               /\ call' = [call EXCEPT ![s].at = "swap", ![s].tip = target]
      <4>1. /\ target \in Ancestors(parent, call[s].sha)
            /\ call'[s].at = "swap" /\ call'[s].tip = target /\ call'[s].sha = call[s].sha
        BY <1>1, <3>2, HistoryIsAncestors DEF RestTypes
      <4> QED
        BY <1>1, <1>2, <1>3, <2>7, <4>1 DEF ResolveTarget, Called
    <3> QED
      BY <2>7, <3>1, <3>2 DEF ResolveTarget
  <2>8. CASE Swap(s)
    <3>1. CASE Answer(s, "refused")
      BY <1>6, <2>1, <3>1
    <3>2. CASE /\ target' = call[s].sha
               /\ call' = [call EXCEPT ![s].at = "row", ![s].merged = TRUE]
      <4>1. call'[s].at = "row" /\ call'[s].sha = call[s].sha
        BY <1>1, <3>2 DEF RestTypes
      <4>2. target' \in Ancestors(parent', target')
        BY <1>1, AncestorsClosed DEF Stands
      <4> QED
        BY <1>1, <1>2, <1>3, <2>8, <3>2, <4>1, <4>2 DEF Swap, Called
    <3> QED
      BY <2>8, <3>1, <3>2 DEF Swap
  <2>9. CASE RecordLanding(s)
    BY <1>6, <2>1, <2>9 DEF RecordLanding
  <2>10. CASE CrashLanding(s)
    BY <1>1, <1>6, <2>10 DEF CrashLanding, NoCall, RestTypes
  <2> QED
    BY <1>7, <2>3, <2>4, <2>5, <2>6, <2>7, <2>8, <2>9, <2>10 DEF LandStep
<1>8. CASE UNCHANGED call
  BY <1>4, <1>8
<1> QED
  BY <1>4, <1>5, <1>7, <1>8 DEF Next, vars, landVars, PeopleCommit, Push

\* A ledger's dry streak, by the rows a step appends.
LEMMA StreakStep ==
  ASSUME IInv, [Next]_vars, NEW s \in Runs
  PROVE  /\ DryStreak(ledger'[s]) <= DryN[s]
         /\ Windows(ledger'[s], DryN[s])
         /\ \/ DryStreak(ledger'[s]) <= DryStreak(ledger[s])
            \/ \E row \in LedgerRows : IsRound(row) /\ ledger'[s] = Append(ledger[s], row)
<1>1. /\ DryN[s] \in Nat /\ Paced /\ ledger[s] \in Seq(LedgerRows)
      /\ DryStreak(ledger[s]) <= DryN[s] /\ Windows(ledger[s], DryN[s])
  BY SpineAssumption DEF IInv, TypeOK, Paced, LedgerRows
<1>2. DryStreak(ledger[s]) \in Nat
  BY <1>1, DryRowsFinite
<1>3. ASSUME NEW rows \in Seq(LedgerRows), NEW row \in LedgerRows, ~IsRound(row),
             DryStreak(rows) <= DryN[s], Windows(rows, DryN[s])
      PROVE  /\ Append(rows, row) \in Seq(LedgerRows)
             /\ DryStreak(Append(rows, row)) <= DryStreak(rows)
             /\ DryStreak(Append(rows, row)) <= DryN[s]
             /\ Windows(Append(rows, row), DryN[s])
  <2>1. /\ DryStreak(Append(rows, row)) <= DryStreak(rows)
        /\ DryStreak(Append(rows, row)) \in Nat /\ DryStreak(rows) \in Nat
    BY <1>3, AppendAndStreak, DryRowsFinite
  <2>2. DryStreak(Append(rows, row)) <= DryN[s]
    BY <1>1, <1>3, <2>1
  <2>3. Windows(Append(rows, row), DryN[s])
    BY <1>1, <1>3, <2>2, AppendKeepsWindows
  <2> QED
    BY <1>3, <2>1, <2>2, <2>3
<1>4. CASE ledger'[s] = ledger[s]
  BY <1>1, <1>2, <1>4
<1>5. CASE OneRow(s)
  <2>1. PICK row \in LedgerRows : ledger'[s] = Append(ledger[s], row) /\ RowFits(s, row)
    BY <1>5 DEF OneRow
  <2>2. CASE ~IsRound(row)
    BY <1>1, <1>3, <2>1, <2>2
  <2>3. CASE IsRound(row)
    <3>1. pc[s] \in {"round", "implement", "confirm"}
      BY <2>1, <2>3 DEF RowFits, IsRound
    <3>2. DryStreak(ledger[s]) < DryN[s]
      BY <1>1, <3>1 DEF Paced
    <3>3. /\ DryStreak(ledger'[s]) <= DryStreak(ledger[s]) + 1 /\ DryStreak(ledger'[s]) \in Nat
      BY <1>1, <2>1, <2>3, AppendAndStreak
    <3>4. DryStreak(ledger'[s]) <= DryN[s]
      BY <1>1, <1>2, <3>2, <3>3
    <3>5. Windows(ledger'[s], DryN[s])
      BY <1>1, <2>1, <3>4, AppendKeepsWindows
    <3> QED
      BY <2>1, <2>3, <3>4, <3>5
  <2> QED
    BY <2>2, <2>3
<1>6. CASE TwoRows(s)
  <2>1. PICK x \in LedgerRows, y \in LedgerRows :
          /\ ledger'[s] = Append(Append(ledger[s], x), y)
          /\ x.event = "landing" /\ y.event = "propagation"
    BY <1>6 DEF TwoRows
  <2>2. ~IsRound(x) /\ ~IsRound(y)
    BY <2>1 DEF IsRound
  <2> DEFINE mid == Append(ledger[s], x)
  <2>3. /\ mid \in Seq(LedgerRows) /\ DryStreak(mid) <= DryStreak(ledger[s])
        /\ DryStreak(mid) <= DryN[s] /\ Windows(mid, DryN[s])
    BY <1>1, <1>3, <2>2
  <2> HIDE DEF mid
  <2>4. ledger'[s] = Append(mid, y)
    BY <2>1 DEF mid
  <2>5. /\ DryStreak(ledger'[s]) <= DryStreak(mid)
        /\ DryStreak(ledger'[s]) <= DryN[s] /\ Windows(ledger'[s], DryN[s])
    BY <1>3, <2>2, <2>3, <2>4
  <2>6. DryStreak(ledger'[s]) \in Nat /\ DryStreak(mid) \in Nat
    BY <2>2, <2>3, <2>4, AppendAndStreak, DryRowsFinite
  <2> QED
    BY <1>2, <2>3, <2>5, <2>6
<1> QED
  BY <1>4, <1>5, <1>6, LedgerStep

\* A runner that goes on has not used up its dry rounds.
LEMMA PacedStep ==
  ASSUME IInv, [Next]_vars
  PROVE  Paced'
<1> DEFINE Running == {"new", "round", "implement", "read-notes", "write-notes", "confirm"}
<1>1. /\ TypeOK /\ RestTypes /\ Paced
  BY DEF IInv, TypeOK, RestTypes, LedgerRows, Works
<1> SUFFICES ASSUME NEW s \in Runs, pc'[s] \in Running
             PROVE  DryStreak(ledger'[s]) < DryN[s]
  BY StreakStep DEF Paced
<1>2. /\ ledger[s] \in Seq(LedgerRows) /\ DryStreak(ledger[s]) \in Nat /\ DryN[s] \in Nat
      /\ ledger'[s] \in Seq(LedgerRows) /\ DryStreak(ledger'[s]) \in Nat
  <2>1. ledger[s] \in Seq(LedgerRows) /\ ledger'[s] \in Seq(LedgerRows)
    BY <1>1, TypeStep DEF RestTypes, TypeOK, LedgerRows
  <2> QED
    BY <2>1, DryRowsFinite, SpineAssumption
<1>3. ASSUME NEW r \in Runs, RunStep(r), r # s
      PROVE  pc'[s] = pc[s] /\ ledger'[s] = ledger[s]
  BY <1>1, <1>3 DEF RestTypes, RunStep, Start, Round, ImplementFails, Implement, ReadNotes,
                    WriteNotes, Confirm, RecordOutcome, Check, Crash, Goto, DryRound, Append1, LoadOpConfig
<1>4. ASSUME NEW r \in Runs, LandStep(r)
      PROVE  /\ pc'[s] = pc[s]
             /\ \/ ledger'[s] = ledger[s]
                \/ ledger'[s] = Append(ledger[s], Attested("landed", call[s].sha))
                \/ ledger'[s] = Append(ledger[s], Plain("torn"))
  BY <1>1, <1>4 DEF RestTypes, LandStep, Decide, Reread, Recheck, DetectSelfHosting, ResolveTarget,
                    Swap, RecordLanding, CrashLanding, Append1, spineVars
<1>5. CASE DryStreak(ledger'[s]) <= DryStreak(ledger[s])
  <2>1. CASE pc[s] \in Running
    <3>1. DryStreak(ledger[s]) < DryN[s]
      BY <1>1, <2>1 DEF Paced
    <3> QED
      BY <1>2, <1>5, <3>1
  <2>2. CASE RunStep(s) /\ pc[s] \notin Running
    <3>1. Check(s) /\ pc'[s] = "round"
      BY <1>1, <2>2 DEF RestTypes, RunStep, Start, Round, ImplementFails, Implement, ReadNotes,
                        WriteNotes, Confirm, RecordOutcome, Check, Crash, Goto, DryRound
    <3>2. ledger' = ledger /\ ~(DryStreak(ledger[s]) >= DryN[s])
      BY <1>1, <3>1 DEF Check, Goto, RestTypes
    <3> QED
      BY <1>2, <3>2
  <2>3. CASE pc'[s] = pc[s]
    BY <2>1, <2>3
  <2> QED
    BY <1>3, <1>4, <2>1, <2>2, <2>3 DEF Next, PeopleCommit, Push, vars, spineVars
<1>6. ASSUME NEW row \in LedgerRows, IsRound(row), ledger'[s] = Append(ledger[s], row)
      PROVE  FALSE
  <2>1. ledger'[s] # ledger[s]
    BY <1>2, <1>6
  <2>2. ASSUME NEW x, ledger'[s] = Append(ledger[s], x)
        PROVE  x = row
    <3>1. Append(ledger[s], x)[Len(ledger[s]) + 1] = x /\ Append(ledger[s], row)[Len(ledger[s]) + 1] = row
      BY <1>2
    <3> QED
      BY <1>6, <2>2, <3>1
  <2>3. ~IsRound(Attested("landed", call[s].sha)) /\ ~IsRound(Plain("torn"))
    BY DEF IsRound, Attested, Plain, Row
  <2>4. ~LandStep(s) /\ \A r \in Runs : ~LandStep(r)
    BY <1>4, <1>6, <2>1, <2>2, <2>3
  <2>5. RunStep(s)
    BY <1>3, <2>1, <2>4 DEF Next, PeopleCommit, Push, vars, spineVars
  <2>6. ~IsRound(Plain("run-start"))
    BY DEF IsRound, Plain, Row
  <2>7. ~Start(s)
    BY <1>1, <1>6, <2>2, <2>6 DEF Start, LoadOpConfig, Append1, RestTypes
  <2> QED
    BY <1>1, <2>1, <2>5, <2>7 DEF RestTypes, RunStep, Round, ImplementFails, Implement, ReadNotes,
                      WriteNotes, Confirm, RecordOutcome, Check, Crash, Goto, DryRound
<1> QED
  BY <1>5, <1>6, StreakStep

\* The invariant holds at the start of the runs.
LEMMA Initially ==
  ASSUME Init
  PROVE  IInv
<1>1. /\ DOMAIN parent \subseteq Commits /\ 0 \in DOMAIN parent
      /\ parent = [c \in DOMAIN parent |-> 0] /\ DOMAIN parent \subseteq {0, 1}
      /\ theirs = DOMAIN parent /\ rules \in [DOMAIN parent -> {0, 1}]
  BY SpineAssumption DEF Init, SpineInit
<1>2. /\ base \in [Runs -> theirs] /\ branch = base /\ target = 0
      /\ notes = {} /\ vetted = {} /\ faults = 0
      /\ ledger = [r \in Runs |-> <<>>] /\ blocked = [r \in Runs |-> FALSE]
      /\ pc = [r \in Runs |-> "new"] /\ rounds = [r \in Runs |-> 0]
      /\ work = [r \in Runs |-> [from |-> base[r], sha |-> None, seen |-> {}]]
      /\ call = [r \in Runs |-> NoCall] /\ result = [r \in Runs |-> "none"]
  BY DEF Init, SpineInit
<1>3. Tree(parent)
  BY <1>1, SpineAssumption DEF Tree
<1>4. TypeOK
  <2>1. \A r \in Runs : work[r] \in Works
    BY <1>1, <1>2 DEF Works
  <2>2. work \in [Runs -> Works]
    BY <1>2, <2>1
  <2>3. call \in [Runs -> [at : Steps, sha : Commits \cup {None}, tip : Commits \cup {None},
                           merged : BOOLEAN]]
    BY <1>2 DEF NoCall, Steps
  <2>4. ledger \in [Runs -> Seq([event : Events, sha : Commits \cup {None}, by : BOOLEAN])]
    BY <1>2
  <2>5. parent \in [Born -> Born] /\ 0 \in Born /\ Born \subseteq Commits /\ rules \in [Born -> {0, 1}]
    BY <1>1 DEF Born
  <2>6. theirs \subseteq Born /\ target \in Born /\ branch \in [Runs -> Born]
    BY <1>1, <1>2 DEF Born
  <2> QED
    BY <1>2, <2>2, <2>3, <2>4, <2>5, <2>6 DEF TypeOK, Works, Places
<1>5. \A r \in Runs : Own(r) = {} /\ Ancestors(parent, base[r]) \subseteq theirs
  BY <1>1, <1>2, <1>3, AncestorsClosed DEF Own
<1>6. OwnApart /\ OwnNamed /\ Called /\ Landed
  BY <1>2, <1>5 DEF OwnApart, OwnNamed, Called, Landed, NoCall, Confirmed
<1>7. Governed
  <2> SUFFICES ASSUME NEW r \in Runs, base[r] \in Ancestors(parent, target)
               PROVE  base[r] = target
    BY DEF Governed
  <2>1. base[r] <= 0 /\ base[r] \in Nat
    BY <1>1, <1>2, <1>3, AncestorsOrdered, SpineAssumption DEF Tree
  <2> QED
    BY <1>2, <2>1
<1>8. Paced
  <2> SUFFICES ASSUME NEW r \in Runs
               PROVE  /\ DryStreak(ledger[r]) <= DryN[r] /\ Windows(ledger[r], DryN[r])
                      /\ DryStreak(ledger[r]) < DryN[r]
    BY DEF Paced
  <2>1. <<>> \in Seq(LedgerRows) /\ DOMAIN <<>> = {} /\ ledger[r] = <<>>
    BY <1>2
  <2>2. DryRows(<<>>) = {} /\ Windows(<<>>, DryN[r])
    BY <2>1 DEF DryRows, Windows
  <2>3. DryStreak(<<>>) = 0
    BY <2>1, <2>2, DryRowsFinite, FS_EmptySet
  <2> QED
    BY <2>1, <2>2, <2>3, SpineAssumption
<1> QED
  BY <1>3, <1>4, <1>6, <1>7, <1>8 DEF IInv

\* The invariant is inductive.
LEMMA Inductive ==
  ASSUME IInv, [Next]_vars
  PROVE  IInv'
BY EveryStepStands, TypeStep, OwnNamedStep, CalledStep, GovernedStep, PacedStep, LandedStep DEF IInv

\* The inductive invariant of the runs and their landings.
LEMMA Invariant == Spec => []IInv
<1>1. Init => IInv
  BY Initially
<1>2. IInv /\ [Next]_vars => IInv'
  BY Inductive
<1> QED
  BY <1>1, <1>2, PTL DEF Spec

-----------------------------------------------------------------------------
(* The results.                                                             *)

\* Every variable of the spine and of its landings keeps to its type, whatever the
\* order of rounds, landing calls, kills and pushes.
THEOREM TypeCorrect == Spec => []TypeOK
BY Invariant, PTL DEF IInv

\* A landed row of any ledger names a commit that is in the target's history, now and
\* ever after: step 6 of land() comes after the compare-and-swap.
THEOREM LandedRowsAreTrueAlways == Spec => []LandedRowsAreTrue
<1>1. IInv => LandedRowsAreTrue
  BY HistoryIsAncestors DEF IInv, Landed, LandedRowsAreTrue, History, Ancestors, Born
<1> QED
  BY <1>1, Invariant, PTL

\* Of any dry_n + 1 rounds in a row of a ledger, one is an attested confirmation.
THEOREM DryRunsStopAlways == Spec => []DryRunsStop
<1>1. IInv => DryRunsStop
  BY DEF IInv, Paced, Windows, DryRunsStop
<1> QED
  BY <1>1, Invariant, PTL

\* A landing whose base is behind the target never changes what the target's
\* governance paths say: its diff against the base was empty there, and between the
\* run's base and its tip nobody but the run itself has moved the target.
THEOREM GovernanceNeedsReviewAlways == Spec => GovernanceNeedsReview
<1> DEFINE Keeps == \A r \in Runs :
             call'[r].merged /\ ~call[r].merged /\ base[r] \in History(call[r].tip)
               => rules[target'] = rules[target]
<1>1. ASSUME IInv, [Next]_vars
      PROVE  Keeps
  <2> SUFFICES ASSUME NEW r \in Runs, call'[r].merged, ~call[r].merged,
                      base[r] \in History(call[r].tip)
               PROVE  rules[target'] = rules[target]
    OBVIOUS
  <2>1. RestTypes /\ Tree(parent) /\ OwnNamed /\ Called /\ Governed
    BY <1>1 DEF IInv, TypeOK, RestTypes, LedgerRows, Works
  <2>2. call'[r] # call[r]
    OBVIOUS
  <2>3. \A s \in Runs \ {r} : LandStep(s) => call'[r] = call[r]
    BY <2>1 DEF RestTypes, LandStep, Decide, Reread, Recheck, DetectSelfHosting, ResolveTarget, Swap,
                RecordLanding, CrashLanding, Answer, Advance
  <2>4. LandStep(r)
    BY <1>1, <2>2, <2>3 DEF Next, vars, landVars, PeopleCommit, Push
  <2>5. Swap(r) /\ call' = [call EXCEPT ![r].at = "row", ![r].merged = TRUE]
    <3>1. \A answer : Answer(r, answer) => ~call'[r].merged
      BY <2>1 DEF Answer, NoCall, RestTypes
    <3>2. \A step : Advance(r, step) => ~call'[r].merged
      BY <2>1 DEF Advance, RestTypes
    <3>3. ~Decide(r)
      <4> DEFINE sha == ConvergedCommit(ledger[r])
      <4>1. call' = [call EXCEPT ![r] = [NoCall EXCEPT !.at = "recheck", !.sha = sha]] => ~call'[r].merged
        <5> HIDE DEF sha
        <5> QED
          BY <2>1 DEF NoCall, RestTypes
      <4> QED
        BY <3>1, <4>1 DEF Decide
    <3>4. ~ResolveTarget(r) /\ ~CrashLanding(r)
      BY <2>1, <3>1 DEF ResolveTarget, CrashLanding, NoCall, RestTypes
    <3>5. ~Reread(r) /\ ~Recheck(r) /\ ~DetectSelfHosting(r) /\ ~RecordLanding(r)
      BY <3>1, <3>2 DEF Reread, Recheck, DetectSelfHosting, RecordLanding
    <3> QED
      BY <2>4, <3>1, <3>3, <3>4, <3>5 DEF LandStep, Swap
  <2>6. call[r].at = "swap" /\ target = call[r].tip /\ target' = call[r].sha
    <3>1. ~Answer(r, "refused")
      BY <2>1 DEF Answer, NoCall, RestTypes
    <3> QED
      BY <2>5, <3>1 DEF Swap
  <2>7. /\ rules[base[r]] = rules[target'] /\ target \in Ancestors(parent, target')
        /\ target' \in Own(r) /\ base[r] \in Ancestors(parent, target)
    BY <2>1, <2>6, HistoryIsAncestors DEF OwnNamed, Called, History, Ancestors, Born
  <2>8. target \in Ancestors(parent, branch[r])
    BY <2>1, <2>7, AncestorsOrdered DEF Own
  <2> QED
    BY <2>1, <2>7, <2>8 DEF Governed
<1>2. Spec => [][Keeps]_vars
  BY <1>1, Invariant, PTL DEF Spec
<1> QED
  BY <1>2 DEF GovernanceNeedsReview

-----------------------------------------------------------------------------
(* Landing implements VerifiedTarget: a run's commit and a person's are      *)
(* commits, a passed recheck vets, a compare-and-swap and a push move the    *)
(* target forward, and everything else stutters.                            *)

\* A new commit is a step of the abstract target.
LEMMA BornGrows ==
  ASSUME IInv, NEW p \in Born, NEW text \in {0, 1}, NEW person \in BOOLEAN, Grow(p, text),
         theirs' = IF person THEN theirs \cup {NewCommit} ELSE theirs, UNCHANGED <<target, vetted>>
  PROVE  VT!Next
<1>1. TypeOK /\ Tree(parent)
  BY DEF IInv
<1>2. NewCommit \in Commits /\ NewCommit \notin Born
  BY <1>1, GrowTree
<1>3. parent' = [x \in Born \cup {NewCommit} |-> IF x = NewCommit THEN p ELSE parent[x]]
  BY DEF Grow
<1> DEFINE n == NewCommit
<1>4. VT!Commit(n, p, person)
  <2> HIDE DEF n
  <2> QED
    BY <1>2, <1>3 DEF VT!Commit, VT!Born, Born, n
<1>5. \E c \in Commits : VT!Commit(c, p, person)
  BY <1>2, <1>4
<1> QED
  BY <1>5 DEF VT!Next, VT!Born, Born

\* Every step of the spine is one of the abstract target, or a stutter.
LEMMA StepsImplement ==
  ASSUME IInv, [Next]_vars
  PROVE  [VT!Next]_(VT!vars)
<1>1. /\ TypeOK /\ Tree(parent) /\ OwnNamed /\ Called /\ theirs \subseteq Born /\ target \in Born
      /\ \A r \in Runs : Own(r) \subseteq Born
  BY AncestorsClosed DEF IInv, TypeOK, Own, Born
<1>2. CASE UNCHANGED <<parent, target, theirs, vetted>>
  BY <1>2 DEF VT!vars
<1>3. ASSUME NEW c, c \in vetted \cup theirs, target \in Ancestors(parent, c), target' = c,
             UNCHANGED <<parent, theirs, vetted>>
      PROVE  VT!Next
  BY <1>3, HistoryIsAncestors DEF VT!Next, VT!Forward
<1>4. ASSUME NEW r \in Runs, NEW text \in Texts(r), Grow(branch[r], text), UNCHANGED <<theirs, landVars>>
      PROVE  VT!Next
  <2>1. text \in {0, 1} /\ branch[r] \in Born
    BY <1>1, <1>4 DEF Texts, TypeOK
  <2>2. theirs' = IF FALSE THEN theirs \cup {NewCommit} ELSE theirs
    BY <1>4
  <2> QED
    BY <1>4, <2>1, <2>2, BornGrows DEF landVars
<1>5. ASSUME NEW r \in Runs, RunStep(r), UNCHANGED landVars
      PROVE  [VT!Next]_(VT!vars)
  <2>1. CASE ImplementFails(r)
    BY <1>2, <1>4, <1>5, <2>1 DEF ImplementFails, git, landVars
  <2>2. CASE \E text \in Texts(r) : Implement(r, text)
    BY <1>4, <1>5, <2>2 DEF Implement
  <2>3. CASE ~ImplementFails(r) /\ \A text \in Texts(r) : ~Implement(r, text)
    BY <1>2, <1>5, <2>3 DEF RunStep, Start, Round, ReadNotes, WriteNotes, Confirm, RecordOutcome,
                            Check, Crash, git, landVars
  <2> QED
    BY <2>1, <2>2, <2>3
<1>6. ASSUME NEW r \in Runs, LandStep(r)
      PROVE  [VT!Next]_(VT!vars)
  <2>1. CASE Swap(r)
    <3>1. CASE UNCHANGED target
      BY <1>2, <2>1, <3>1 DEF Swap, spineVars, git
    <3>2. CASE target = call[r].tip /\ target' = call[r].sha
      <4>1. call[r].sha \in vetted /\ target \in Ancestors(parent, call[r].sha)
        BY <1>1, <2>1, <3>2 DEF Swap, Called
      <4> QED
        BY <1>3, <2>1, <3>2, <4>1 DEF Swap, spineVars, git
    <3> QED
      BY <2>1, <3>1, <3>2 DEF Swap
  <2>2. CASE Recheck(r)
    <3>1. CASE UNCHANGED vetted
      BY <1>2, <2>2, <3>1 DEF Recheck, spineVars, git
    <3>2. CASE vetted' = vetted \cup {call[r].sha}
      <4>1. call[r].sha \in Born
        BY <1>1, <2>2 DEF Recheck, OwnNamed
      <4>2. VT!Vet(call[r].sha)
        BY <2>2, <3>2 DEF Recheck, VT!Vet, spineVars, git
      <4> QED
        BY <4>1, <4>2 DEF VT!Next, VT!Born, Born
    <3> QED
      BY <2>2, <3>1, <3>2 DEF Recheck
  <2> QED
    BY <1>2, <1>6, <2>1, <2>2 DEF LandStep, Decide, Reread, DetectSelfHosting, ResolveTarget,
                              RecordLanding, CrashLanding, spineVars, git
<1>7. CASE PeopleCommit
  <2>1. /\ rules[target] \in {0, 1} /\ Grow(target, rules[target]) /\ UNCHANGED <<target, vetted>>
        /\ theirs' = IF TRUE THEN theirs \cup {NewCommit} ELSE theirs
    BY <1>1, <1>7 DEF PeopleCommit, TypeOK, landVars
  <2> QED
    BY <1>1, <2>1, BornGrows
<1>8. CASE Push
  BY <1>3, <1>8, HistoryIsAncestors DEF Push, spineVars, git
<1>9. CASE UNCHANGED vars
  BY <1>2, <1>9 DEF vars, spineVars, git, landVars
<1> QED
  BY <1>5, <1>6, <1>7, <1>8, <1>9 DEF Next

\* A landing keeps the promise of VerifiedTarget.
THEOREM LandingImplementsVerifiedTarget == Spec => TargetKeepsPromise
<1>1. Init => VT!Init
  <2> SUFFICES ASSUME Init
               PROVE  VT!Init
    OBVIOUS
  <2>1. IInv /\ target = 0 /\ vetted = {} /\ theirs = DOMAIN parent
    BY Initially DEF Init, SpineInit
  <2>2. /\ parent \in [DOMAIN parent -> DOMAIN parent] /\ DOMAIN parent \in SUBSET Commits
        /\ 0 \in DOMAIN parent /\ parent[0] = 0
    BY <2>1 DEF IInv, TypeOK, Tree, Born
  <2>3. parent \in UNION {[born -> born] : born \in {B \in SUBSET Commits : 0 \in B}}
    BY <2>2
  <2>4. VT!Reach(target) \subseteq theirs
    BY <2>1 DEF VT!Reach, VT!Born
  <2> QED
    BY <2>1, <2>2, <2>3, <2>4 DEF VT!Init, VT!Born
<1>2. IInv /\ [Next]_vars => [VT!Next]_(VT!vars)
  BY StepsImplement
<1>3. Spec => VT!Spec
  BY <1>1, <1>2, Invariant, PTL DEF Spec, VT!Spec
<1> QED
  BY <1>3 DEF TargetKeepsPromise
===============================================================================
