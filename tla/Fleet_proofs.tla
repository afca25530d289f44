----------------------------- MODULE Fleet_proofs -----------------------------
(***************************************************************************)
(* Fleet proved for any program, any number of runs, slots, faults and     *)
(* conductors: what is started is safe to start, a rejection takes along   *)
(* what was built on it, and a settled run stays settled.                  *)
(***************************************************************************)
EXTENDS Fleet, FiniteSetTheorems, WellFoundedInduction, TLAPS

-----------------------------------------------------------------------------
(* The budget of a set of runs.                                             *)

\* The runs of a program are finitely many.
LEMMA RunIsFinite == IsFiniteSet(Run)
<1>1. Order \in [1..Len(Order) -> Run] /\ Len(Order) \in Nat
  BY FleetAssumption
<1>2. Order \in Surjection(1..Len(Order), Run)
  BY <1>1, FleetAssumption DEF Surjection, Range
<1>3. IsFiniteSet(1..Len(Order))
  BY <1>1, FS_Interval
<1> QED
  BY <1>2, <1>3, FS_Surjection

\* Fewer runs cost no more.
LEMMA TokensMonotone ==
  ASSUME NEW S \in SUBSET Run, NEW T \in SUBSET S
  PROVE  /\ Tokens(T) \in Nat /\ Tokens(S) \in Nat
         /\ Tokens(T) <= Tokens(S)
<1> DEFINE U(X) == {{r} \X (1..Budget[r]) : r \in X}
<1>1. ASSUME NEW X \in SUBSET Run
      PROVE  IsFiniteSet(UNION U(X))
  <2> DEFINE f == [r \in X |-> {r} \X (1..Budget[r])]
  <2>1. f \in Surjection(X, U(X))
    BY DEF Surjection
  <2>2. IsFiniteSet(X)
    BY RunIsFinite, FS_Subset
  <2>3. IsFiniteSet(U(X))
    <3> HIDE DEF f, U
    <3> QED
      BY <2>1, <2>2, FS_Surjection
  <2>4. ASSUME NEW r \in X
        PROVE  IsFiniteSet({r} \X (1..Budget[r]))
    <3>1. Budget[r] \in Nat
      BY FleetAssumption
    <3>2. IsFiniteSet({r})
      BY FS_Singleton
    <3>3. IsFiniteSet(1..Budget[r])
      BY <3>1, FS_Interval
    <3> QED
      BY <3>2, <3>3, FS_Product
  <2>5. \A V \in U(X) : IsFiniteSet(V)
    BY <2>4
  <2> QED
    <3> HIDE DEF U
    <3> QED
      BY <2>3, <2>5, FS_UNION
<1>2. UNION U(T) \in SUBSET (UNION U(S))
  OBVIOUS
<1>3. T \in SUBSET Run
  OBVIOUS
<1>4. Tokens(S) = Cardinality(UNION U(S)) /\ Tokens(T) = Cardinality(UNION U(T))
  BY DEF Tokens
<1> HIDE DEF U
<1>5. IsFiniteSet(UNION U(S)) /\ IsFiniteSet(UNION U(T))
  BY <1>1, <1>3
<1> QED
  BY <1>2, <1>4, <1>5, FS_Subset, FS_CardinalityType

\* A further run costs its budget.
LEMMA TokensAdd ==
  ASSUME NEW S \in SUBSET Run, NEW r \in Run, r \notin S
  PROVE  Tokens(S \cup {r}) = Tokens(S) + Budget[r]
<1> DEFINE V == UNION {{q} \X (1..Budget[q]) : q \in S}
           W == {r} \X (1..Budget[r])
<1>1. UNION {{q} \X (1..Budget[q]) : q \in S \cup {r}} = V \cup W
  BY ZenonT(40)
<1>2. V \cap W = {}
  BY SMTT(30)
<1>3. IsFiniteSet(W) /\ Cardinality(W) = Budget[r]
  <2>1. Budget[r] \in Nat
    BY FleetAssumption
  <2>2. IsFiniteSet({r}) /\ Cardinality({r}) = 1
    BY FS_Singleton
  <2>3. IsFiniteSet(1..Budget[r]) /\ Cardinality(1..Budget[r]) = Budget[r]
    BY <2>1, FS_Interval, SMTT(30)
  <2>4. IsFiniteSet(W) /\ Cardinality(W) = 1 * Budget[r]
    BY <2>2, <2>3, FS_Product, ZenonT(40)
  <2> QED
    BY <2>1, <2>4
<1>4. IsFiniteSet(V) /\ Cardinality(V) = Tokens(S)
  <2> DEFINE f == [q \in S |-> {q} \X (1..Budget[q])]
             U == {{q} \X (1..Budget[q]) : q \in S}
  <2>1. f \in Surjection(S, U)
    BY DEF Surjection
  <2>2. IsFiniteSet(S)
    BY RunIsFinite, FS_Subset
  <2>3. IsFiniteSet(U)
    <3> HIDE DEF f, U
    <3> QED
      BY <2>1, <2>2, FS_Surjection
  <2>4. ASSUME NEW q \in S
        PROVE  IsFiniteSet({q} \X (1..Budget[q]))
    <3>1. Budget[q] \in Nat
      BY FleetAssumption
    <3>2. IsFiniteSet({q})
      BY FS_Singleton
    <3>3. IsFiniteSet(1..Budget[q])
      BY <3>1, FS_Interval
    <3> QED
      BY <3>2, <3>3, FS_Product
  <2>5. \A X \in U : IsFiniteSet(X)
    BY <2>4
  <2>6. V = UNION U
    OBVIOUS
  <2> HIDE DEF U
  <2> QED
    BY <2>3, <2>5, <2>6, FS_UNION DEF Tokens
<1>5. Tokens(S \cup {r}) = Cardinality(V \cup W)
  BY <1>1 DEF Tokens
<1>6. Cardinality(V \cap W) = 0
  BY <1>2, FS_EmptySet
<1>7. Tokens(S) \in Nat /\ Budget[r] \in Nat
  BY TokensMonotone, FleetAssumption
<1>8. Cardinality(V \cup W) = Cardinality(V) + Cardinality(W) - Cardinality(V \cap W)
  <2> HIDE DEF V, W
  <2> QED
    BY <1>3, <1>4, FS_Union
<1> HIDE DEF V, W
<1> QED
  BY <1>3, <1>4, <1>5, <1>6, <1>7, <1>8

-----------------------------------------------------------------------------
(* The scheduler.                                                           *)

\* A set of naturals that is not empty has a least one, so Min picks it.
LEMMA LeastIsIn ==
  ASSUME NEW T \in SUBSET Nat, T # {}
  PROVE  Min(T) \in T /\ \A k \in T : Min(T) <= k
<1>1. PICK x \in T : \A y \in T : ~ (<<y, x>> \in OpToRel(<, Nat))
  BY NatLessThanWellFounded, WFMin, Zenon
<1>2. ASSUME NEW y \in T
      PROVE  x <= y
  <2>1. y < x => <<y, x>> \in OpToRel(<, Nat)
    BY DEF OpToRel
  <2>2. ~ (y < x)
    BY <1>1, <2>1
  <2>3. x \in Nat /\ y \in Nat
    OBVIOUS
  <2> QED
    BY <2>2, <2>3
<1> QED
  BY <1>2 DEF Min

\* The loop of startable_runs along the program is well defined.
LEMMA PlanUnfolds ==
  /\ plan[0] = unplanned
  /\ \A i \in 1..Len(Order) : plan[i] = Consider(plan[i - 1], Order[i])
<1> DEFINE n == Len(Order)
           PlanStep(g, i) == IF i = 0 THEN unplanned ELSE Consider(g[i - 1], Order[i])
           Good(k) == \E g : g = [i \in 0..k |-> PlanStep(g, i)]
           Bad == {k \in 0..n : ~Good(k)}
<1>0. n \in Nat
  BY FleetAssumption
<1>1. Good(n)
  <2> SUFFICES ASSUME Bad # {} PROVE FALSE
    BY <1>0
  <2>1. Min(Bad) \in Bad /\ \A k \in Bad : Min(Bad) <= k
    <3>1. Bad \in SUBSET Nat
      BY <1>0
    <3> HIDE DEF Bad
    <3> QED
      BY <3>1, LeastIsIn
  <2> DEFINE m == Min(Bad)
  <2>2. m \in 0..n /\ ~Good(m) /\ \A k \in 0..n : k < m => Good(k)
    <3> HIDE DEF Good
    <3>1. m \in 0..n /\ ~Good(m)
      BY <2>1
    <3>2. ASSUME NEW k \in 0..n, k < m
          PROVE  Good(k)
      <4> SUFFICES ASSUME ~Good(k) PROVE FALSE
        OBVIOUS
      <4>1. k \in Bad
        OBVIOUS
      <4> QED
        BY <2>1, <3>1, <3>2, <4>1, <1>0
    <3> QED
      BY <3>1, <3>2
  <2>3. CASE m = 0
    <3> DEFINE g == [i \in 0..0 |-> unplanned]
    <3>1. g = [i \in 0..0 |-> PlanStep(g, i)]
      OBVIOUS
    <3>2. Good(0)
      <4> HIDE DEF g
      <4> QED
        BY <3>1
    <3> HIDE DEF Good
    <3> QED
      BY <2>2, <2>3, <3>2
  <2>4. CASE m # 0
    <3>1. m - 1 \in 0..n /\ m - 1 < m /\ m \in Nat
      BY <1>0, <2>2, <2>4
    <3>2. Good(m - 1)
      <4> HIDE DEF Good, m
      <4> QED
        BY <2>2, <3>1
    <3>3. PICK g : g = [i \in 0..(m - 1) |-> PlanStep(g, i)]
      BY <3>2
    <3> DEFINE h == [i \in 0..m |-> IF i = m THEN Consider(g[m - 1], Order[m]) ELSE g[i]]
    <3>4. ASSUME NEW i \in 0..m
          PROVE  h[i] = PlanStep(h, i)
      <4> HIDE DEF m
      <4>1. CASE i = m
        BY <2>4, <3>1, <4>1
      <4>2. CASE i # m
        <5>1. i \in 0..(m - 1) /\ h[i] = g[i]
          BY <3>1, <4>2
        <5>2. g[i] = PlanStep(g, i)
          <6> HIDE DEF h, PlanStep
          <6> QED
            BY <3>3, <5>1
        <5>3. i # 0 => h[i - 1] = g[i - 1]
          BY <3>1, <4>2
        <5> QED
          BY <5>1, <5>2, <5>3
      <4> QED
        BY <4>1, <4>2
    <3>5. h = [i \in 0..m |-> PlanStep(h, i)]
      <4>1. h = [i \in 0..m |-> h[i]]
        OBVIOUS
      <4> HIDE DEF h, PlanStep, m
      <4> QED
        BY <3>4, <4>1
    <3>6. Good(m)
      <4> HIDE DEF h
      <4> QED
        BY <3>5
    <3> HIDE DEF Good
    <3> QED
      BY <2>2, <3>6
  <2> QED
    BY <2>3, <2>4
<1>2. plan = [i \in 0..n |-> PlanStep(plan, i)]
  <2>1. plan = CHOOSE g : g = [i \in 0..n |-> PlanStep(g, i)]
    BY DEF plan
  <2> HIDE DEF PlanStep
  <2> QED
    BY <1>1, <2>1
<1>3. \A i \in 0..n : plan[i] = PlanStep(plan, i)
  <2> HIDE DEF PlanStep
  <2> QED
    BY <1>2
<1> HIDE DEF n
<1>4. 0 \in 0..n /\ \A i \in 1..n : i \in 0..n /\ i # 0
  BY <1>0
<1> QED
  BY <1>3, <1>4 DEF n

\* What is assigned after i runs: new runs that are ready, each in a slot of its
\* own that nobody in flight has, and paid for.
Assigned(x) == {x.starts[k][1] : k \in 1..Len(x.starts)}
Sound(x, i) ==
  /\ x \in [starts : Seq(Run \X Slot), over : BOOLEAN, used : SUBSET Slot, tokens : Nat]
  /\ \A r \in Running : slotOf[r] # NoSlot => slotOf[r] \in x.used
  /\ \A k \in 1..Len(x.starts) :
       /\ Ready(x.starts[k][1])
       /\ \E j \in 1..i : Order[j] = x.starts[k][1]
       /\ x.starts[k][2] \in x.used
       /\ \A r \in Running : slotOf[r] # x.starts[k][2]
       /\ \A l \in 1..Len(x.starts) :
            k # l => x.starts[k][1] # x.starts[l][1] /\ x.starts[k][2] # x.starts[l][2]
  /\ x.tokens = Tokens(Running \cup Assigned(x))
  /\ x.starts # << >> => x.tokens <= program.max_tokens

\* One step of startable_runs keeps a sound plan sound.
LEMMA SoundStep ==
  ASSUME TypeOK, NEW i \in 1..Len(Order), NEW x, Sound(x, i - 1)
  PROVE  Sound(Consider(x, Order[i]), i)
<1> DEFINE r == Order[i]
           free == Allowed[r] \ x.used
           m == Min(free)
           y == [x EXCEPT !.starts = Append(@, <<r, m>>), !.used = @ \cup {m},
                          !.tokens = @ + Budget[r]]
<1>1. /\ r \in Run /\ i \in Nat /\ Budget[r] \in Nat
      /\ Allowed[r] \in SUBSET Slot /\ Slot \in SUBSET Nat
  BY FleetAssumption DEF Slot
<1>2. x \in [starts : Seq(Run \X Slot), over : BOOLEAN, used : SUBSET Slot, tokens : Nat]
  BY DEF Sound
<1>3. \A j \in 1..(i - 1) : j \in 1..i
  BY <1>1
<1>4. Sound(x, i)
  BY <1>3 DEF Sound
<1>5. Sound([x EXCEPT !.over = TRUE], i)
  <2> DEFINE z == [x EXCEPT !.over = TRUE]
  <2>1. /\ z.starts = x.starts /\ z.used = x.used /\ z.tokens = x.tokens
        /\ z \in [starts : Seq(Run \X Slot), over : BOOLEAN, used : SUBSET Slot, tokens : Nat]
    BY <1>2
  <2>2. Sound(z, i)
    <3> HIDE DEF z
    <3>1. Assigned(z) = Assigned(x)
      BY <2>1 DEF Assigned
    <3> QED
      BY <1>4, <2>1, <3>1 DEF Sound
  <2> QED
    BY <2>2
<1>6. ASSUME Ready(r), ~(x.tokens + Budget[r] > program.max_tokens), free # {}
      PROVE  Sound(y, i)
  <2> DEFINE n == Len(x.starts)
             runs == Assigned(x)
  <2>1. m \in Allowed[r] /\ m \notin x.used /\ m \in Slot /\ m # NoSlot
    <3>1. free \in SUBSET Nat
      BY <1>1
    <3>2. m \in free
      <4> HIDE DEF free
      <4> QED
        BY <1>6, <3>1, LeastIsIn
    <3> QED
      BY <1>1, <3>2, FleetAssumption DEF Slot, NoSlot
  <2>2. /\ y.starts = Append(x.starts, <<r, m>>) /\ y.used = x.used \cup {m}
        /\ y.tokens = x.tokens + Budget[r]
    <3> HIDE DEF r, m
    <3> QED
      BY <1>2
  <2>3. y \in [starts : Seq(Run \X Slot), over : BOOLEAN, used : SUBSET Slot, tokens : Nat]
    <3> HIDE DEF r, m
    <3>1. <<r, m>> \in Run \X Slot
      BY <1>1, <2>1
    <3>2. Append(x.starts, <<r, m>>) \in Seq(Run \X Slot)
      BY <1>2, <3>1
    <3>3. x.used \cup {m} \in SUBSET Slot /\ x.tokens + Budget[r] \in Nat
      BY <1>1, <1>2, <2>1
    <3> QED
      BY <1>2, <3>2, <3>3
  <2>4. /\ n \in Nat /\ Len(y.starts) = n + 1 /\ y.starts[n + 1] = <<r, m>>
        /\ y.starts[n + 1][1] = r /\ y.starts[n + 1][2] = m
        /\ \A k \in 1..n : /\ k \in 1..(n + 1) /\ y.starts[k] = x.starts[k]
                           /\ x.starts[k] \in Run \X Slot
    <3> HIDE DEF r, m, y
    <3> QED
      BY <1>2, <2>2
  <2>5. r \notin runs
    <3> SUFFICES ASSUME NEW k \in 1..n, x.starts[k][1] = r PROVE FALSE
      BY DEF Assigned
    <3>1. PICK j \in 1..(i - 1) : Order[j] = r
      BY DEF Sound
    <3>2. i \in 1..Len(Order) /\ j \in 1..Len(Order) /\ Len(Order) \in Nat
      BY <1>1, FleetAssumption
    <3>3. DOMAIN Order = 1..Len(Order)
      BY FleetAssumption
    <3>4. i = j
      BY <3>1, <3>2, <3>3, FleetAssumption DEF IsInjective
    <3> QED
      BY <3>1, <3>2, <3>4
  <2>6. r \notin Running
    BY <1>6 DEF Ready, Pending
  <2>7. Assigned(y) = runs \cup {r}
    <3> HIDE DEF r, m, y
    <3>1. \A k \in 1..Len(y.starts) : k \in 1..n \/ k = n + 1
      BY <2>4
    <3>2. \A k \in 1..Len(y.starts) : y.starts[k][1] \in runs \cup {r}
      BY <2>4, <3>1 DEF Assigned
    <3>3. n + 1 \in 1..Len(y.starts)
      BY <2>4
    <3>4. \A k \in 1..n : k \in 1..Len(y.starts) /\ y.starts[k][1] = x.starts[k][1]
      BY <2>4
    <3>5. runs \subseteq Assigned(y)
      BY <3>4 DEF Assigned
    <3>6. r \in Assigned(y)
      BY <2>4, <3>3 DEF Assigned
    <3>7. Assigned(y) \subseteq runs \cup {r}
      BY <3>2 DEF Assigned
    <3> QED
      BY <3>5, <3>6, <3>7
  <2>8. y.tokens = Tokens(Running \cup Assigned(y))
    <3>1. x.tokens = Tokens(Running \cup runs)
      BY DEF Sound
    <3>2. Running \cup runs \in SUBSET Run
      BY <1>2, <2>4 DEF Running, Assigned
    <3>3. Tokens((Running \cup runs) \cup {r}) = Tokens(Running \cup runs) + Budget[r]
      <4> HIDE DEF runs, r
      <4> QED
        BY <1>1, <2>5, <2>6, <3>2, TokensAdd
    <3>4. (Running \cup runs) \cup {r} = Running \cup (runs \cup {r})
      OBVIOUS
    <3> HIDE DEF runs, r, y
    <3> QED
      BY <2>2, <2>7, <3>1, <3>3, <3>4
  <2>9. y.tokens <= program.max_tokens
    <3>1. program.max_tokens \in Nat
      BY FleetAssumption DEF TypeOK
    <3> HIDE DEF y, r
    <3> QED
      BY <1>1, <1>2, <1>6, <2>2, <3>1
  <2>10. \A q \in Running : slotOf[q] # NoSlot => slotOf[q] \in y.used
    <3> HIDE DEF y, r, m
    <3> QED
      BY <2>2 DEF Sound
  <2>12. \A q \in Running : slotOf[q] # m
    <3> HIDE DEF y, r, m
    <3> QED
      BY <2>1 DEF Sound
  <2>11. ASSUME NEW k \in 1..Len(y.starts)
         PROVE  /\ Ready(y.starts[k][1])
                /\ \E j \in 1..i : Order[j] = y.starts[k][1]
                /\ y.starts[k][2] \in y.used
                /\ \A q \in Running : slotOf[q] # y.starts[k][2]
                /\ \A l \in 1..Len(y.starts) :
                     k # l => /\ y.starts[k][1] # y.starts[l][1]
                              /\ y.starts[k][2] # y.starts[l][2]
    <3>1. ASSUME NEW k1 \in 1..n
          PROVE  /\ Ready(x.starts[k1][1])
                 /\ \E j \in 1..i : Order[j] = x.starts[k1][1]
                 /\ x.starts[k1][2] \in x.used
                 /\ \A q \in Running : slotOf[q] # x.starts[k1][2]
                 /\ \A l \in 1..n :
                      k1 # l => /\ x.starts[k1][1] # x.starts[l][1]
                               /\ x.starts[k1][2] # x.starts[l][2]
      BY <1>3 DEF Sound
    <3>2. ASSUME NEW k1 \in 1..n
          PROVE  x.starts[k1][1] # r /\ x.starts[k1][2] # m
      BY <2>1, <2>5, <3>1 DEF Assigned
    <3>3. r = Order[i] /\ i \in 1..i
      BY <1>1
    <3>4. k \in 1..n \/ k = n + 1
      BY <2>4
    <3> HIDE DEF y, r, m, runs, n
    <3>5. CASE k \in 1..n
      <4>1. y.starts[k] = x.starts[k]
        BY <2>4, <3>5
      <4>2. ASSUME NEW l \in 1..Len(y.starts), k # l
            PROVE  y.starts[k][1] # y.starts[l][1] /\ y.starts[k][2] # y.starts[l][2]
        <5>1. l \in 1..n \/ l = n + 1
          BY <2>4
        <5>2. CASE l \in 1..n
          <6>1. y.starts[l] = x.starts[l]
            BY <2>4, <5>2
          <6>2. x.starts[k][1] # x.starts[l][1] /\ x.starts[k][2] # x.starts[l][2]
            BY <3>1, <3>5, <4>2, <5>2
          <6> QED
            BY <4>1, <6>1, <6>2
        <5>3. CASE l = n + 1
          BY <2>4, <3>2, <3>5, <4>1, <5>3
        <5> QED
          BY <5>1, <5>2, <5>3
      <4> QED
        BY <2>2, <3>1, <3>5, <4>1, <4>2
    <3>6. CASE k = n + 1
      <4>1. y.starts[k][1] = r /\ y.starts[k][2] = m
        BY <2>4, <3>6
      <4>2. ASSUME NEW l \in 1..Len(y.starts), k # l
            PROVE  y.starts[k][1] # y.starts[l][1] /\ y.starts[k][2] # y.starts[l][2]
        <5>1. l \in 1..n
          BY <2>4, <3>6, <4>2
        <5> QED
          BY <2>4, <3>2, <4>1, <5>1
      <4>3. Ready(y.starts[k][1]) /\ \E j \in 1..i : Order[j] = y.starts[k][1]
        BY <1>6, <3>3, <4>1
      <4>4. y.starts[k][2] \in y.used
        BY <2>2, <4>1
      <4>5. \A q \in Running : slotOf[q] # y.starts[k][2]
        BY <2>12, <4>1, Zenon
      <4> QED
        BY <4>2, <4>3, <4>4, <4>5
    <3> QED
      BY <3>4, <3>5, <3>6
  <2> HIDE DEF y, r, m, runs, n
  <2> QED
    BY <2>3, <2>8, <2>9, <2>10, <2>11 DEF Sound
<1> HIDE DEF Sound
<1> QED
  BY <1>4, <1>5, <1>6 DEF Consider

\* What a tick will start is sound.
LEMMA PlanSound ==
  ASSUME TypeOK
  PROVE  Sound(startable_runs, Len(Order))
<1> DEFINE n == Len(Order)
           Bad == {i \in 0..n : ~Sound(plan[i], i)}
<1>1. n \in Nat
  BY FleetAssumption
<1>2. Sound(plan[0], 0)
  <2>1. Running \in SUBSET Run
    BY DEF Running
  <2>2. Tokens(Running) \in Nat
    BY <2>1, TokensMonotone
  <2>3. {slotOf[r] : r \in Running} \ {NoSlot} \in SUBSET Slot
    BY <2>1 DEF TypeOK
  <2> DEFINE x == unplanned
  <2>4. /\ x \in [starts : Seq(Run \X Slot), over : BOOLEAN, used : SUBSET Slot, tokens : Nat]
        /\ x.starts = << >> /\ Len(x.starts) = 0
        /\ x.used = {slotOf[r] : r \in Running} \ {NoSlot}
        /\ x.tokens = Tokens(Running)
    BY <2>2, <2>3 DEF unplanned
  <2>5. Running \cup Assigned(x) = Running
    BY <2>4 DEF Assigned
  <2>6. Sound(x, 0)
    <3> HIDE DEF x
    <3>1. \A r \in Running : slotOf[r] # NoSlot => slotOf[r] \in x.used
      BY <2>4
    <3>2. 1..Len(x.starts) = {}
      BY <2>4
    <3>3. x.tokens = Tokens(Running \cup Assigned(x))
      BY <2>4, <2>5
    <3> QED
      BY <2>4, <3>1, <3>2, <3>3 DEF Sound
  <2> QED
    BY <2>6, PlanUnfolds
<1>3. ASSUME NEW i \in 1..n, Sound(plan[i - 1], i - 1)
      PROVE  Sound(plan[i], i)
  BY <1>3, SoundStep, PlanUnfolds
<1>4. Bad = {}
  <2> SUFFICES ASSUME Bad # {} PROVE FALSE
    OBVIOUS
  <2>1. Min(Bad) \in Bad /\ \A k \in Bad : Min(Bad) <= k
    <3>1. Bad \in SUBSET Nat
      BY <1>1
    <3> HIDE DEF Bad
    <3> QED
      BY <3>1, LeastIsIn
  <2> DEFINE m == Min(Bad)
  <2>2. m \in 0..n /\ ~Sound(plan[m], m)
    BY <2>1
  <2>3. m # 0
    BY <1>2, <2>2
  <2> HIDE DEF m
  <2>4. m \in 1..n /\ m - 1 \in 0..n /\ ~(m <= m - 1)
    BY <1>1, <2>2, <2>3
  <2>5. m - 1 \notin Bad
    BY <2>1, <2>4 DEF m
  <2>6. Sound(plan[m - 1], m - 1)
    BY <2>4, <2>5
  <2> QED
    BY <1>3, <2>2, <2>4, <2>6
<1>5. n \in 0..n
  BY <1>1
<1>6. Sound(plan[n], n)
  BY <1>4, <1>5
<1> QED
  BY <1>6 DEF startable_runs

-----------------------------------------------------------------------------
(* The invariant.                                                           *)

\* The runs that the conductor still has to start, and where it will start them.
Due == {agenda[i][1] : i \in 1..Len(agenda)}
Starting == pc \in {"start", "launch", "launched"}
Launching == pc \in {"launch", "launched"}

\* A loop visits slots in the first half of a tick and runs in the second.
Visits ==
  /\ pc = "top" => todo = {}
  /\ pc = "liveness" => \A s \in todo : s \in Slot /\ s \notin reported /\ slot[s] # NoRun
  /\ Starting => \A r \in todo : r \in Run /\ status[r] = "converged"
  /\ pc = "revoke" => \A r \in todo : r \in Run /\ status[r] # "none"

\* A run in a slot was started, in that slot, on the fleet ledger.
InSlots ==
  \A s \in Slot : slot[s] # NoRun =>
    slotOf[slot[s]] = s /\ status[slot[s]] # "none"

\* A live process is of a run in flight or of one rejected meanwhile.
LiveIsOpen ==
  \A r \in Run : child[r] \in Alive => status[r] \in InFlight \cup {"rejected"}

\* A slot that was reported done holds a dead process and an ended run.
ReportedEnded ==
  \A s \in reported : /\ slot[s] # NoRun
                      /\ child[slot[s]] \notin Alive
                      /\ status[slot[s]] \notin InFlight

\* What is due to start was never started; its dependencies are converged, its
\* slot is nobody's, and there is a budget for all of it.
DueIsNew ==
  Starting => \A i \in 1..Len(agenda) :
    /\ pc = "start" \/ i > 1 => status[agenda[i][1]] = "none"
    /\ \A p \in program.deps[agenda[i][1]] : status[p] = "converged"
    /\ \A j \in 1..Len(agenda) :
         i # j => agenda[i][1] # agenda[j][1] /\ agenda[i][2] # agenda[j][2]
    /\ \A r \in Running :
         slotOf[r] = agenda[i][2] => Launching /\ i = 1 /\ r = agenda[1][1]
DueIsPaid ==
  Starting /\ agenda # << >> => Tokens(Running \cup Due) <= program.max_tokens

\* Between its intent and its "running" row a run is on the ledger with its slot.
Intended ==
  Launching =>
    /\ agenda # << >>
    /\ status[Head(agenda)[1]] = "start-intent"
    /\ slotOf[Head(agenda)[1]] = Head(agenda)[2]
    /\ pc = "launch" => child[Head(agenda)[1]] \notin Alive

\* A run was started with the edges to all it depends on, and no other has any.
EdgesHeld ==
  /\ \A r \in Run : status[r] # "none" => \A p \in program.deps[r] : <<p, r>> \in edges
  /\ \A e \in edges : status[e[2]] # "none"

\* What was built on a rejected run is rejected, or the cascade will come to it.
Cascaded ==
  \A e \in edges : status[e[1]] = "rejected" =>
    \/ status[e[2]] = "rejected" \/ e[2] \in revived \/ cut
    \/ pc = "revoke" /\ e[2] \in todo
CascadeClosed ==
  pc = "revoke" => \A e \in edges : e[1] \in todo =>
    e[2] \in todo \/ status[e[2]] = "rejected"

IInv == /\ TypeOK /\ Visits /\ InSlots /\ LiveIsOpen /\ ReportedEnded
        /\ DueIsNew /\ DueIsPaid /\ Intended /\ EdgesHeld /\ Cascaded
        /\ CascadeClosed /\ NeverHalts /\ WithinCeiling

\* The statuses are all different.
LEMMA StatusesDiffer ==
  /\ InFlight \subseteq Statuses /\ Terminal \subseteq Statuses
  /\ InFlight \cap Terminal = {}
  /\ "none" \notin InFlight \cup Terminal
  /\ "exited" \notin Alive /\ "none" \notin Alive
  BY DEF InFlight, Terminal, Statuses, Alive

\* Before the conductor starts, nothing is in the ledger and no child runs.
LEMMA InitHolds == Init => IInv
<1> SUFFICES ASSUME Init PROVE IInv
  OBVIOUS
<1> USE DEF Init
<1>1. TypeOK
  <2>1. Empty \in [Slot -> Run \cup {NoRun}] /\ Unseen \in [Run -> {"none", "tree", "kept"}]
    BY DEF Empty, Unseen
  <2>2. asked \in 0..Len(Order)
    BY FleetAssumption
  <2>3. status \in [Run -> Statuses] /\ slotOf \in [Run -> Slot \cup {NoSlot}]
    BY DEF Statuses
  <2>4. child \in [Run -> {"none", "exited"} \cup Alive]
    OBVIOUS
  <2>5. agenda \in Seq(Run \X Slot)
    OBVIOUS
  <2> QED
    BY <2>1, <2>2, <2>3, <2>4, <2>5 DEF TypeOK
<1>2. Visits /\ InSlots /\ LiveIsOpen /\ ReportedEnded
  BY DEF Visits, InSlots, LiveIsOpen, ReportedEnded, Starting, Empty, Alive
<1>3. DueIsNew /\ DueIsPaid /\ Intended /\ EdgesHeld /\ Cascaded /\ CascadeClosed
  BY DEF DueIsNew, DueIsPaid, Intended, EdgesHeld, Cascaded, CascadeClosed, Starting, Launching
<1>4. NeverHalts
  BY DEF NeverHalts
<1>5. WithinCeiling
  <2>1. UNION {{r} \X (1..Budget[r]) : r \in Running \ revived} = {}
    BY DEF Running, InFlight
  <2>2. Tokens(Running \ revived) = 0
    BY <2>1, FS_EmptySet DEF Tokens
  <2>3. program.max_tokens \in Nat
    BY FleetAssumption
  <2> QED
    BY <2>2, <2>3 DEF WithinCeiling
<1> QED
  BY <1>1, <1>2, <1>3, <1>4, <1>5 DEF IInv

-----------------------------------------------------------------------------
(* What a step that only ends processes and moves on leaves as it was.      *)

\* With the ledger and the slots unchanged, what is said of them stays true while no
\* child comes to life.
LEMMA LedgerKept ==
  ASSUME IInv, UNCHANGED <<program, ledger, runner, revived>>,
         \A q \in Run : child'[q] \in Alive => child[q] \in Alive
  PROVE  InSlots' /\ LiveIsOpen' /\ ReportedEnded' /\ EdgesHeld' /\ WithinCeiling'
<1> USE DEF ledger, runner
<1>1. InSlots'
  BY DEF IInv, InSlots
<1>2. LiveIsOpen'
  BY DEF IInv, LiveIsOpen
<1>3. ReportedEnded'
  <2>1. \A s \in reported : slot[s] # NoRun => slot[s] \in Run
    BY DEF IInv, TypeOK
  <2> QED
    BY <2>1 DEF IInv, ReportedEnded
<1>4. EdgesHeld'
  BY DEF IInv, EdgesHeld
<1>5. WithinCeiling'
  BY DEF IInv, WithinCeiling, Tokens, Running
<1> QED
  BY <1>1, <1>2, <1>3, <1>4, <1>5

\* Fewer runs in flight stay within the ceiling.
LEMMA CeilingKept ==
  ASSUME TypeOK, WithinCeiling, program' = program,
         Running' \ revived' \in SUBSET (Running \ revived)
  PROVE  WithinCeiling'
<1>1. Running \ revived \in SUBSET Run
  BY DEF Running
<1>2. /\ Tokens(Running' \ revived') <= Tokens(Running \ revived)
      /\ Tokens(Running' \ revived') \in Nat /\ Tokens(Running \ revived) \in Nat
  BY <1>1, TokensMonotone
<1>3. program.max_tokens \in Nat
  BY FleetAssumption DEF TypeOK
<1>4. Tokens(Running \ revived)' = Tokens(Running' \ revived')
  BY DEF Tokens
<1> QED
  BY <1>2, <1>3, <1>4 DEF WithinCeiling

\* While the phase and what it works on stay, so does what is said of them.
LEMMA PhaseKept ==
  ASSUME IInv, UNCHANGED <<program, ledger, runner, revived, pc, todo, agenda, cut>>,
         \A q \in Run : child'[q] \in Alive => child[q] \in Alive
  PROVE  /\ Visits' /\ DueIsNew' /\ DueIsPaid' /\ Intended'
         /\ Cascaded' /\ CascadeClosed'
<1> USE DEF ledger, runner
<1>1. Visits'
  BY DEF IInv, Visits, Starting
<1>2. DueIsNew'
  BY DEF IInv, DueIsNew, Starting, Launching, Running
<1>3. DueIsPaid'
  BY DEF IInv, DueIsPaid, Starting, Due, Running, Tokens
<1>4. Intended'
  <2>1. agenda # << >> => Head(agenda)[1] \in Run
    BY DEF IInv, TypeOK
  <2> QED
    BY <2>1 DEF IInv, Intended, Launching
<1>5. Cascaded' /\ CascadeClosed'
  BY DEF IInv, Cascaded, CascadeClosed
<1> QED
  BY <1>1, <1>2, <1>3, <1>4, <1>5

\* Outside of the starts and the cascades, nothing is due or under way.
LEMMA Between ==
  ASSUME IInv, UNCHANGED <<program, ledger, revived>>,
         pc' \in {"top", "liveness", "down"},
         pc = "revoke" /\ todo # {} => cut', cut => cut'
  PROVE  /\ DueIsNew' /\ DueIsPaid' /\ Intended' /\ Cascaded' /\ CascadeClosed'
<1> USE DEF ledger
<1>1. DueIsNew' /\ DueIsPaid' /\ Intended' /\ CascadeClosed'
  BY DEF DueIsNew, DueIsPaid, Intended, CascadeClosed, Starting, Launching
<1>2. Cascaded'
  BY DEF IInv, Cascaded
<1> QED
  BY <1>1, <1>2

-----------------------------------------------------------------------------
(* The steps of the children, and those that end or start a conductor.      *)

\* Killing brings no child to life.
LEMMA KilledSays ==
  ASSUME TypeOK, NEW rs, child' = Killed(rs)
  PROVE  /\ child' \in [Run -> {"none", "exited"} \cup Alive]
         /\ \A q \in Run : child'[q] \in Alive => child[q] \in Alive
  BY DEF Killed, TypeOK, Alive

\* A child changes its own state, never the ledger.
LEMMA ChildStepKeeps ==
  ASSUME IInv, NEW r \in Run, ChildStep(r)
  PROVE  IInv'
<1>1. TypeOK'
  BY DEF IInv, TypeOK, ChildStep, ChildProgress, ChildLeases, ChildConverges, ChildPersists,
     ChildEnds, ChildDies, Becomes, Alive, ledger, runner, tick, hist, artifacts
<1>2. \A q \in Run : child'[q] \in Alive => child[q] \in Alive
  BY DEF IInv, TypeOK, ChildStep, ChildProgress, ChildLeases, ChildConverges, ChildPersists,
     ChildEnds, ChildDies, Becomes, Alive
<1>3. UNCHANGED <<program, ledger, runner, revived, pc, todo, agenda, cut, cause>>
  BY DEF ChildStep, tick, hist
<1>4. NeverHalts'
  BY <1>3 DEF IInv, NeverHalts
<1> QED
  BY <1>1, <1>2, <1>3, <1>4, LedgerKept, PhaseKept DEF IInv

\* A conductor that ends kills its children and leaves the ledger as it is.
LEMMA FinishKeeps ==
  ASSUME IInv, NEW why, Finish(why), why # "halted", TypeOK',
         UNCHANGED <<program, ledger, runner, todo, revived, cut>>,
         ~(pc = "revoke" /\ todo # {})
  PROVE  IInv'
<1>1. \A q \in Run : child'[q] \in Alive => child[q] \in Alive
  BY KilledSays DEF IInv, Finish
<1>2. pc' = "down" /\ cause' = why
  BY DEF Finish
<1>3. Visits' /\ NeverHalts'
  BY <1>2 DEF Visits, Starting, NeverHalts
<1> QED
  BY <1>1, <1>2, <1>3, LedgerKept, Between DEF IInv

\* A killed conductor leaves the ledger, the slots and a possibly cut cascade.
LEMMA CrashKeeps ==
  ASSUME IInv, Crash
  PROVE  IInv'
<1>1. TypeOK'
  BY DEF IInv, TypeOK, Crash, ledger, runner, tick, artifacts
<1>2. /\ UNCHANGED <<program, ledger, runner, todo, revived, child>>
      /\ pc' = "down" /\ cause' = "killed" /\ (cut => cut')
      /\ (pc = "revoke" /\ todo # {} => cut')
  BY DEF Crash, tick
<1>3. Visits' /\ NeverHalts'
  BY <1>2 DEF Visits, Starting, NeverHalts
<1>4. InSlots' /\ LiveIsOpen' /\ ReportedEnded' /\ EdgesHeld' /\ WithinCeiling'
  BY <1>2, LedgerKept
<1>5. DueIsNew' /\ DueIsPaid' /\ Intended' /\ Cascaded' /\ CascadeClosed'
  BY <1>2, Between
<1> QED
  BY <1>1, <1>3, <1>4, <1>5 DEF IInv

\* A new conductor starts with empty slots.
LEMMA StartKeeps ==
  ASSUME IInv, Start
  PROVE  IInv'
<1>1. TypeOK'
  <2>1. Empty \in [Slot -> Run \cup {NoRun}] /\ Unseen \in [Run -> {"none", "tree", "kept"}]
    BY DEF Empty, Unseen
  <2>2. asked' \in 0..Len(Order)
    BY FleetAssumption DEF Start
  <2>3. agenda' \in Seq(Run \X Slot) /\ starts' \in Nat
    BY DEF IInv, TypeOK, Start
  <2>4. /\ slot' \in [Slot -> Run \cup {NoRun}] /\ seen' \in [Run -> {"none", "tree", "kept"}]
        /\ reported' \subseteq Slot /\ todo' \subseteq Slot \cup Run
    BY <2>1 DEF Start
  <2>5. pc' = "top" /\ cause' = "none" /\ blocked' \in BOOLEAN /\ acted' \in BOOLEAN
    BY DEF Start
  <2>6. UNCHANGED <<program, ledger, child, artifacts, faults, revived, cut>>
    BY DEF Start
  <2> QED
    BY <2>2, <2>3, <2>4, <2>5, <2>6 DEF IInv, TypeOK, ledger, artifacts
<1>2. /\ UNCHANGED <<program, ledger, revived, child, cut>>
      /\ pc' = "top" /\ cause' = "none" /\ pc = "down" /\ todo' = {}
      /\ slot' = Empty /\ reported' = {}
  BY DEF Start
<1>3. Visits' /\ NeverHalts' /\ InSlots' /\ ReportedEnded'
  BY <1>2 DEF Visits, Starting, NeverHalts, InSlots, ReportedEnded, Empty
<1>4. LiveIsOpen' /\ EdgesHeld' /\ WithinCeiling'
  BY <1>2 DEF IInv, LiveIsOpen, EdgesHeld, WithinCeiling, Tokens, Running, ledger
<1>5. DueIsNew' /\ DueIsPaid' /\ Intended' /\ Cascaded' /\ CascadeClosed'
  BY <1>2, Between
<1> QED
  BY <1>1, <1>3, <1>4, <1>5 DEF IInv

-----------------------------------------------------------------------------
(* The conductor's steps, along its tick.                                   *)

\* The ledger, the slots and the children agree, so no tick halts the fleet.
LEMMA ObserveKeeps ==
  ASSUME IInv, Observe
  PROVE  IInv'
<1> DEFINE occupant == [s \in Slot |-> IF s \in reported THEN NoRun ELSE slot[s]]
<1>1. /\ UNCHANGED <<program, ledger, revived, cut>>
      /\ slot' = occupant /\ reported' = {} /\ pc = "top" /\ Slot = 1..Slots
      /\ todo' = {s \in Slot : occupant[s] # NoRun}
  BY DEF Observe, hist, Slot
<1>2. Agrees(occupant)
  BY DEF IInv, InSlots, Agrees, Slot
<1>3. pc' = "liveness" /\ UNCHANGED <<cause, child>>
  BY <1>2 DEF Observe
<1>4. slot' \in [Slot -> Run \cup {NoRun}] /\ NoRun \notin Run
  BY <1>1, FleetAssumption DEF IInv, TypeOK
<1>5. TypeOK'
  <2>1. seen' \in [Run -> {"none", "tree", "kept"}]
    BY DEF Observe
  <2>2. todo' \subseteq Slot \cup Run /\ reported' \subseteq Slot /\ acted' \in BOOLEAN
    BY <1>1 DEF Observe
  <2>3. UNCHANGED <<agenda, blocked, asked, artifacts, hist>>
    BY DEF Observe
  <2> QED
    BY <1>1, <1>3, <1>4, <2>1, <2>2, <2>3 DEF IInv, TypeOK, ledger, artifacts, hist
<1>6. Visits'
  BY <1>1, <1>3 DEF Visits, Starting
<1>7. InSlots' /\ ReportedEnded'
  BY <1>1 DEF IInv, InSlots, ReportedEnded, ledger
<1>8. LiveIsOpen' /\ EdgesHeld' /\ WithinCeiling' /\ NeverHalts'
  BY <1>1, <1>3 DEF IInv, LiveIsOpen, EdgesHeld, WithinCeiling, NeverHalts, Tokens, Running, ledger
<1>9. DueIsNew' /\ DueIsPaid' /\ Intended' /\ Cascaded' /\ CascadeClosed'
  BY <1>1, <1>3, Between
<1> QED
  BY <1>5, <1>6, <1>7, <1>8, <1>9 DEF IInv

\* A look at a slot whose child lives changes nothing that is owed.
LEMMA FindLiveKeeps ==
  ASSUME IInv, NEW s \in Slot, FindLive(s)
  PROVE  IInv'
<1>1. /\ UNCHANGED <<program, ledger, runner, revived, cut, child, cause>>
      /\ pc = "liveness" /\ pc' = "liveness" /\ todo' = todo \ {s}
  BY DEF FindLive, VisitSlot, hist
<1>2. TypeOK'
  BY DEF IInv, TypeOK, FindLive, VisitSlot, ledger, runner, artifacts, hist
<1>3. Visits' /\ NeverHalts'
  BY <1>1 DEF IInv, Visits, NeverHalts, Starting, runner
<1> QED
  BY <1>1, <1>2, <1>3, LedgerKept, Between DEF IInv

\* The liveness loop visits a slot that holds a run of this tick.
LEMMA VisitSays ==
  ASSUME IInv, NEW s \in Slot, VisitSlot(s)
  PROVE  /\ pc = "liveness" /\ s \in todo /\ s \notin reported
         /\ slot[s] \in Run /\ slotOf[slot[s]] = s /\ status[slot[s]] # "none"
         /\ \A t \in reported : slot[t] # slot[s]
<1>1. todo \in SUBSET Nat /\ todo # {}
  BY FleetAssumption DEF IInv, Visits, VisitSlot, Slot
<1>2. s \in todo
  BY <1>1, LeastIsIn DEF VisitSlot
<1> QED
  BY <1>2 DEF IInv, TypeOK, Visits, InSlots, VisitSlot, ReportedEnded

\* A restart puts a rejected run in flight again, or one that was in flight.
LEMMA RestartWedgedKeeps ==
  ASSUME IInv, NEW s \in Slot, RestartWedged(s)
  PROVE  IInv'
<1> DEFINE r == slot[s]
<1>1. /\ UNCHANGED <<program, edges, slot, reported, cause, cut, agenda>>
      /\ pc = "liveness" /\ pc' = "liveness" /\ todo' = todo \ {s}
      /\ child[r] \in Alive /\ child' = [child EXCEPT ![r] = "launched"]
      /\ status' = [status EXCEPT ![r] = "running"]
      /\ slotOf' = [slotOf EXCEPT ![r] = s]
      /\ revived' = IF status[r] = "rejected" THEN revived \cup {r} ELSE revived
  BY DEF RestartWedged, VisitSlot, Becomes, Record, runner
<1>2. /\ s \in todo /\ s \notin reported /\ r \in Run /\ slotOf[r] = s
      /\ status[r] # "none" /\ \A t \in reported : slot[t] # r
  BY VisitSays DEF RestartWedged
<1>3. status[r] \in InFlight \cup {"rejected"}
  BY <1>1, <1>2 DEF IInv, LiveIsOpen
<1>4. TypeOK
  BY DEF IInv
<1>5. slotOf' = slotOf
  BY <1>1, <1>2, <1>4 DEF TypeOK
<1>6. /\ status' \in [Run -> Statuses]
      /\ status'[r] = "running" /\ \A q \in Run \ {r} : status'[q] = status[q]
  BY <1>1, <1>2, <1>4 DEF TypeOK, Statuses, InFlight
<1>7. /\ child' \in [Run -> {"none", "exited"} \cup Alive]
      /\ child'[r] = "launched" /\ \A q \in Run \ {r} : child'[q] = child[q]
  BY <1>1, <1>2, <1>4 DEF TypeOK, Alive
<1> HIDE DEF r
<1>8. TypeOK'
  <2>1. revived' \subseteq Run /\ todo' \subseteq Slot \cup Run
    BY <1>1, <1>2, <1>4 DEF TypeOK
  <2>2. faults' \in Nat /\ acted' \in BOOLEAN
        /\ UNCHANGED <<seen, blocked, asked, artifacts, starts>>
    BY <1>4 DEF RestartWedged, TypeOK
  <2> QED
    BY <1>1, <1>4, <1>5, <1>6, <1>7, <2>1, <2>2 DEF TypeOK, artifacts
<1>9. Visits' /\ NeverHalts'
  BY <1>1 DEF IInv, Visits, NeverHalts, Starting
<1>10. InSlots'
  BY <1>1, <1>4, <1>5, <1>6 DEF IInv, InSlots, TypeOK
<1>11. LiveIsOpen'
  BY <1>6, <1>7 DEF IInv, LiveIsOpen, InFlight
<1>12. ReportedEnded'
  BY <1>1, <1>2, <1>4, <1>6, <1>7 DEF IInv, ReportedEnded, TypeOK
<1>13. EdgesHeld'
  BY <1>1, <1>2, <1>4, <1>6 DEF IInv, EdgesHeld, TypeOK
<1>14. Cascaded'
  <2> SUFFICES ASSUME NEW e \in edges, status'[e[1]] = "rejected"
               PROVE  status'[e[2]] = "rejected" \/ e[2] \in revived' \/ cut'
    BY <1>1 DEF Cascaded
  <2>1. e[1] \in Run /\ e[2] \in Run
    BY <1>4 DEF TypeOK
  <2>2. e[1] # r /\ status[e[1]] = "rejected"
    BY <1>6, <2>1
  <2>3. status[e[2]] = "rejected" \/ e[2] \in revived \/ cut
    BY <1>1, <2>2 DEF IInv, Cascaded
  <2> QED
    BY <1>1, <1>6, <2>1, <2>3
<1>15. WithinCeiling'
  <2>1. Running' \ revived' \in SUBSET (Running \ revived)
    BY <1>1, <1>2, <1>3, <1>6 DEF Running
  <2> QED
    BY <1>1, <2>1, CeilingKept DEF IInv
<1>16. DueIsNew' /\ DueIsPaid' /\ Intended' /\ CascadeClosed'
  BY <1>1 DEF DueIsNew, DueIsPaid, Intended, CascadeClosed, Starting, Launching
<1> QED
  BY <1>8, <1>9, <1>10, <1>11, <1>12, <1>13, <1>14, <1>15, <1>16 DEF IInv

\* A reported run is dead, and its end is on the ledger.
LEMMA ReportDoneKeeps ==
  ASSUME IInv, NEW s \in Slot, ReportDone(s)
  PROVE  IInv'
<1> DEFINE r == slot[s]
<1>1. /\ UNCHANGED <<program, slotOf, edges, slot, cause, child, cut, agenda, revived>>
      /\ pc = "liveness" /\ pc' = "liveness" /\ todo' = todo \ {s}
      /\ child[r] = "exited" /\ reported' = reported \cup {s}
      /\ \/ status[r] \in InFlight /\ \E v \in {"converged", "failed"} :
                                        status' = [status EXCEPT ![r] = v]
         \/ status[r] \notin InFlight /\ status' = status
  BY DEF ReportDone, VisitSlot, Record, hist
<1>2. s \in todo /\ r \in Run /\ slotOf[r] = s /\ status[r] # "none"
  BY VisitSays DEF ReportDone
<1>3. TypeOK
  BY DEF IInv
<1>4. /\ status' \in [Run -> Statuses]
      /\ status'[r] \notin InFlight \cup {"none"}
      /\ status[r] \in InFlight => status'[r] # "rejected"
      /\ status[r] \notin InFlight => status' = status
      /\ \A q \in Run \ {r} : status'[q] = status[q]
  <2>1. CASE status[r] \notin InFlight
    BY <1>1, <1>2, <1>3, <2>1 DEF TypeOK
  <2>2. CASE status[r] \in InFlight
    <3>0. PICK v \in {"converged", "failed"} : status' = [status EXCEPT ![r] = v]
      BY <1>1, <2>2
    <3>1. v \in Statuses /\ v \notin InFlight \cup {"none", "rejected"}
      BY DEF Statuses, InFlight, Terminal
    <3>2. status \in [Run -> Statuses]
      BY <1>3 DEF TypeOK
    <3> HIDE DEF r
    <3> QED
      BY <1>2, <2>2, <3>0, <3>1, <3>2
  <2> QED
    BY <2>1, <2>2
<1> HIDE DEF r
<1>5. TypeOK'
  BY <1>1, <1>2, <1>3, <1>4 DEF TypeOK, ReportDone, artifacts, hist
<1>6. Visits' /\ NeverHalts'
  BY <1>1 DEF IInv, Visits, NeverHalts, Starting
<1>7. InSlots'
  BY <1>1, <1>3, <1>4 DEF IInv, InSlots, TypeOK
<1>8. LiveIsOpen'
  BY <1>1, <1>4 DEF IInv, LiveIsOpen, Alive
<1>9. ReportedEnded'
  <2> SUFFICES ASSUME NEW t \in reported'
               PROVE  /\ slot[t] # NoRun /\ child[slot[t]] \notin Alive
                      /\ status'[slot[t]] \notin InFlight
    BY <1>1 DEF ReportedEnded
  <2>1. t \in reported \/ slot[t] = r
    BY <1>1 DEF r
  <2>2. r # NoRun /\ child[r] \notin Alive
    BY <1>1, <1>2, FleetAssumption DEF Alive
  <2>3. CASE slot[t] = r
    BY <1>4, <2>2, <2>3
  <2>4. CASE t \in reported /\ slot[t] # r
    BY <1>3, <1>4, <2>4 DEF IInv, ReportedEnded, TypeOK
  <2> QED
    BY <2>1, <2>3, <2>4
<1>10. EdgesHeld'
  BY <1>1, <1>2, <1>3, <1>4 DEF IInv, EdgesHeld, TypeOK
<1>11. Cascaded'
  <2> SUFFICES ASSUME NEW e \in edges, status'[e[1]] = "rejected"
               PROVE  status'[e[2]] = "rejected" \/ e[2] \in revived \/ cut
    BY <1>1 DEF Cascaded
  <2>1. e[1] \in Run /\ e[2] \in Run
    BY <1>3 DEF TypeOK
  <2>2. status[e[1]] = "rejected"
    BY <1>4, <2>1
  <2>3. status[e[2]] = "rejected" \/ e[2] \in revived \/ cut
    BY <1>1, <2>2 DEF IInv, Cascaded
  <2> QED
    BY <1>4, <2>1, <2>3 DEF InFlight
<1>12. WithinCeiling'
  <2>1. Running' \ revived' \in SUBSET (Running \ revived)
    BY <1>1, <1>4 DEF Running
  <2> QED
    BY <1>1, <2>1, CeilingKept DEF IInv
<1>13. DueIsNew' /\ DueIsPaid' /\ Intended' /\ CascadeClosed'
  BY <1>1 DEF DueIsNew, DueIsPaid, Intended, CascadeClosed, Starting, Launching
<1> QED
  BY <1>5, <1>6, <1>7, <1>8, <1>9, <1>10, <1>11, <1>12, <1>13 DEF IInv

\* What a schedule assigns is new, and paid for.
LEMMA ScheduleKeeps ==
  ASSUME IInv, Schedule
  PROVE  IInv'
<1> DEFINE x == startable_runs
<1>1. /\ UNCHANGED <<program, status, slotOf, slot, reported, cause, child, revived, cut>>
      /\ pc = "liveness" /\ pc' = "start" /\ agenda' = x.starts
      /\ todo' = {r \in AutoMerge \ Hosting : status[r] = "converged" /\ Verified(r)}
      /\ edges' = edges \cup {e \in Run \X Run :
                                /\ e[2] \notin {a[1] : a \in Range(x.starts)}
                                /\ status[e[2]] \in Consumed
                                /\ e[1] \in program.deps[e[2]] /\ Recordable(e[1], e[2])}
      /\ ~(program.dep_check = "production"
             /\ \E r \in Run : Pending(r) /\ program.deps[r] # {})
  BY DEF Schedule, runner, hist
<1>2. TypeOK
  BY DEF IInv
<1>3. Sound(x, Len(Order))
  BY <1>2, PlanSound
<1> HIDE DEF x
<1>4. edges' = edges
  <2> SUFFICES ASSUME NEW e \in Run \X Run, status[e[2]] \in Consumed,
                      e[1] \in program.deps[e[2]]
               PROVE  e \in edges
    BY <1>1
  <2>1. e = <<e[1], e[2]>> /\ e[2] \in Run /\ status[e[2]] # "none"
    BY DEF Consumed
  <2> QED
    BY <2>1 DEF IInv, EdgesHeld
<1>5. TypeOK'
  <2>1. agenda' \in Seq(Run \X Slot) /\ todo' \subseteq Slot \cup Run
    BY <1>1, <1>3, FleetAssumption DEF Sound
  <2>2. blocked' \in BOOLEAN /\ asked' \in 0..Len(Order)
        /\ UNCHANGED <<seen, acted, artifacts, faults, starts>>
    BY <1>3, FleetAssumption DEF Schedule, Sound, x, hist
  <2> QED
    BY <1>1, <1>2, <1>4, <2>1, <2>2 DEF TypeOK, artifacts
<1>6. Visits' /\ NeverHalts'
  BY <1>1, FleetAssumption DEF IInv, Visits, NeverHalts, Starting
<1>7. InSlots' /\ LiveIsOpen' /\ ReportedEnded' /\ EdgesHeld' /\ WithinCeiling'
  BY <1>1, <1>4, LedgerKept DEF ledger, runner
<1>8. DueIsNew'
  <2> SUFFICES ASSUME NEW i \in 1..Len(x.starts)
               PROVE  /\ status[x.starts[i][1]] = "none"
                      /\ \A p \in program.deps[x.starts[i][1]] : status[p] = "converged"
                      /\ \A j \in 1..Len(x.starts) : i # j =>
                           x.starts[i][1] # x.starts[j][1] /\ x.starts[i][2] # x.starts[j][2]
                      /\ \A r \in Running : slotOf[r] # x.starts[i][2]
    BY <1>1 DEF DueIsNew, Running
  <2>1. Ready(x.starts[i][1]) /\ x.starts[i][1] \in Run
    BY <1>3 DEF Sound
  <2>2. status[x.starts[i][1]] \notin InFlight \cup Terminal
    BY <2>1 DEF Ready, Pending, Running
  <2>3. status[x.starts[i][1]] = "none"
    BY <1>2, <2>1, <2>2 DEF TypeOK, Statuses
  <2>4. \A p \in program.deps[x.starts[i][1]] : status[p] = "converged"
    BY <2>1 DEF Ready
  <2> QED
    BY <1>3, <2>3, <2>4 DEF Sound
<1>9. DueIsPaid'
  <2> SUFFICES ASSUME x.starts # << >>
               PROVE  Tokens(Running \cup Assigned(x)) <= program.max_tokens
    BY <1>1 DEF DueIsPaid, Due, Running, Tokens, Assigned
  <2> QED
    BY <1>3 DEF Sound
<1>10. Intended' /\ CascadeClosed'
  BY <1>1 DEF Intended, CascadeClosed, Launching
<1>11. Cascaded'
  BY <1>1, <1>4 DEF IInv, Cascaded
<1> QED
  BY <1>5, <1>6, <1>7, <1>8, <1>9, <1>10, <1>11 DEF IInv

\* The first of the runs that are due, and its slot.
LEMMA HeadSays ==
  ASSUME TypeOK, agenda # << >>
  PROVE  /\ Head(agenda) = agenda[1] /\ agenda[1] \in Run \X Slot
         /\ Len(agenda) \in Nat /\ 1 \in 1..Len(agenda)
         /\ agenda[1][1] \in Run /\ agenda[1][2] \in Slot /\ agenda[1][1] \in Due
         /\ Due \in SUBSET Run
         /\ Tail(agenda) \in Seq(Run \X Slot) /\ Len(Tail(agenda)) = Len(agenda) - 1
         /\ \A i \in 1..Len(Tail(agenda)) :
              i + 1 \in 1..Len(agenda) /\ Tail(agenda)[i] = agenda[i + 1] /\ i + 1 # 1
<1>1. agenda \in Seq(Run \X Slot)
  BY DEF TypeOK
<1>2. Len(agenda) \in Nat /\ 1 \in 1..Len(agenda) /\ agenda[1] \in Run \X Slot
  BY <1>1
<1>3. Due \in SUBSET Run /\ agenda[1][1] \in Due
  BY <1>1, <1>2 DEF Due
<1>4. /\ Tail(agenda) \in Seq(Run \X Slot) /\ Len(Tail(agenda)) = Len(agenda) - 1
      /\ \A i \in 1..Len(Tail(agenda)) :
              i + 1 \in 1..Len(agenda) /\ Tail(agenda)[i] = agenda[i + 1] /\ i + 1 # 1
  BY <1>1
<1> QED
  BY <1>1, <1>2, <1>3, <1>4

\* What it takes for the starts that are due to be fit before the first of them.
Fit(a, i) ==
  /\ status'[a[i][1]] = "none"
  /\ \A p \in program.deps[a[i][1]] : status'[p] = "converged"
  /\ \A j \in 1..Len(a) : i # j => a[i][1] # a[j][1] /\ a[i][2] # a[j][2]
  /\ \A r \in Running : slotOf[r] # a[i][2]

\* Nothing of an intent is left: the next one due is only planned.
LEMMA DueAgain ==
  ASSUME UNCHANGED <<program, slotOf>>, Running' = Running,
         \A i \in 1..Len(agenda') : Fit(agenda', i)
  PROVE  DueIsNew'
BY DEF DueIsNew, Fit

\* A run less is due.
LEMMA TailKeeps ==
  ASSUME IInv, UNCHANGED <<program, slotOf>>, pc' = "start", pc \in {"start", "launched"},
         agenda # << >>, agenda' = Tail(agenda), Running' = Running,
         status[agenda[1][1]] # "converged",
         \A q \in Run \ {agenda[1][1]} : status'[q] = status[q]
  PROVE  DueIsNew' /\ DueIsPaid'
<1>1. TypeOK
  BY DEF IInv
<1>2. DueIsNew'
  <2> SUFFICES ASSUME NEW i \in 1..Len(Tail(agenda)) PROVE Fit(Tail(agenda), i)
    BY DueAgain
  <2>1. /\ i + 1 \in 1..Len(agenda) /\ Tail(agenda)[i] = agenda[i + 1]
        /\ i + 1 > 1 /\ i + 1 # 1
    BY <1>1, HeadSays
  <2>2. Starting
    BY DEF Starting
  <2>3. /\ status[agenda[i + 1][1]] = "none"
        /\ \A p \in program.deps[agenda[i + 1][1]] : status[p] = "converged"
        /\ \A r \in Running : slotOf[r] # agenda[i + 1][2]
    BY <2>1, <2>2 DEF IInv, DueIsNew
  <2>4. agenda[i + 1] \in Run \X Slot /\ agenda[i + 1][1] # agenda[1][1] /\ agenda[i + 1][1] \in Run
    <3>1. agenda[i + 1] \in Run \X Slot
      BY <1>1, <2>1 DEF TypeOK
    <3>2. agenda[i + 1][1] # agenda[1][1]
      BY <1>1, <2>1, <2>2, HeadSays DEF IInv, DueIsNew
    <3> QED
      BY <3>1, <3>2
  <2>5. program.deps[agenda[i + 1][1]] \in SUBSET Run
    BY <1>1, <2>4, FleetAssumption DEF TypeOK
  <2>6. /\ status'[agenda[i + 1][1]] = "none"
        /\ \A p \in program.deps[agenda[i + 1][1]] : status'[p] = "converged"
    BY <2>3, <2>4, <2>5
  <2>7. ASSUME NEW j \in 1..Len(Tail(agenda)), i # j
        PROVE  /\ Tail(agenda)[i][1] # Tail(agenda)[j][1]
               /\ Tail(agenda)[i][2] # Tail(agenda)[j][2]
    <3>1. j + 1 \in 1..Len(agenda) /\ Tail(agenda)[j] = agenda[j + 1] /\ i + 1 # j + 1
      BY <1>1, <2>7, HeadSays
    <3>2. agenda[i + 1][1] # agenda[j + 1][1] /\ agenda[i + 1][2] # agenda[j + 1][2]
      BY <2>1, <2>2, <3>1 DEF IInv, DueIsNew
    <3> QED
      BY <2>1, <3>1, <3>2
  <2> QED
    BY <2>1, <2>3, <2>6, <2>7 DEF Fit
<1>3. DueIsPaid'
  <2>1. Due' \in SUBSET Due
    BY <1>1, HeadSays DEF Due
  <2>2. Running \cup Due \in SUBSET Run /\ Running \cup Due' \in SUBSET (Running \cup Due)
    BY <1>1, <2>1, HeadSays DEF Running
  <2>3. /\ Tokens(Running \cup Due') <= Tokens(Running \cup Due)
        /\ Tokens(Running \cup Due') \in Nat /\ Tokens(Running \cup Due) \in Nat
    BY <2>2, TokensMonotone
  <2>4. Tokens(Running \cup Due) <= program.max_tokens
    BY DEF IInv, DueIsPaid, Starting
  <2>5. program.max_tokens \in Nat
    BY <1>1, FleetAssumption DEF TypeOK
  <2>6. Tokens(Running \cup Due)' = Tokens(Running \cup Due')
    BY DEF Tokens
  <2> QED
    BY <2>3, <2>4, <2>5, <2>6 DEF DueIsPaid
<1> QED
  BY <1>2, <1>3

\* A start that cannot be recorded is dropped from the agenda.
LEMMA SkipKeeps ==
  ASSUME IInv, SkipUnrecordable
  PROVE  IInv'
<1>1. /\ UNCHANGED <<program, ledger, runner, todo, cause, child, revived, cut>>
      /\ pc = "start" /\ pc' = "start" /\ agenda # << >> /\ agenda' = Tail(agenda)
  BY DEF SkipUnrecordable, hist
<1>2. TypeOK'
  <2>1. agenda' \in Seq(Run \X Slot)
    BY <1>1, HeadSays DEF IInv
  <2> QED
    BY <1>1, <2>1 DEF IInv, TypeOK, SkipUnrecordable, ledger, runner, artifacts, hist
<1>3. InSlots' /\ LiveIsOpen' /\ ReportedEnded' /\ EdgesHeld' /\ WithinCeiling'
  BY <1>1, LedgerKept
<1>4. DueIsNew' /\ DueIsPaid'
  <2>1. Running' = Running /\ UNCHANGED <<status, slotOf>>
    BY <1>1 DEF Running, ledger
  <2>2. status[agenda[1][1]] = "none"
    BY <1>1, HeadSays DEF IInv, DueIsNew, Starting
  <2> QED
    BY <1>1, <2>1, <2>2, TailKeeps
<1>5. Visits' /\ NeverHalts' /\ Intended' /\ Cascaded' /\ CascadeClosed'
  BY <1>1 DEF IInv, Visits, NeverHalts, Intended, Cascaded, CascadeClosed, Starting,
     Launching, ledger
<1> QED
  BY <1>2, <1>3, <1>4, <1>5 DEF IInv

\* An intent is written with its edges and its slot before anything is started.
LEMMA RecordIntentKeeps ==
  ASSUME IInv, RecordIntent
  PROVE  IInv'
<1> DEFINE r == agenda[1][1]
           s == agenda[1][2]
<1>0. TypeOK
  BY DEF IInv
<1>1. /\ UNCHANGED <<program, slot, reported, todo, agenda, cause, child, revived, cut>>
      /\ pc = "start" /\ pc' = "launch" /\ agenda # << >>
      /\ status' = [status EXCEPT ![r] = "start-intent"]
      /\ slotOf' = [slotOf EXCEPT ![r] = s]
      /\ edges' = edges \cup {<<p, r>> : p \in program.deps[r]}
  BY <1>0, HeadSays DEF RecordIntent, Record, runner, tick, hist
<1>2. /\ r \in Run /\ s \in Slot /\ 1 \in 1..Len(agenda) /\ Head(agenda) = agenda[1]
      /\ Len(agenda) \in Nat /\ r \in Due /\ Due \in SUBSET Run
  BY <1>0, <1>1, HeadSays
<1>3. /\ status[r] = "none" /\ \A p \in program.deps[r] : status[p] = "converged"
      /\ child[r] \notin Alive
  BY <1>1, <1>2 DEF IInv, DueIsNew, LiveIsOpen, InFlight, Starting
<1>4. /\ status' \in [Run -> Statuses] /\ status'[r] = "start-intent"
      /\ \A q \in Run \ {r} : status'[q] = status[q]
      /\ slotOf' \in [Run -> Slot \cup {NoSlot}] /\ slotOf'[r] = s
      /\ \A q \in Run \ {r} : slotOf'[q] = slotOf[q]
  BY <1>0, <1>1, <1>2 DEF TypeOK, Statuses, InFlight
<1>5. program.deps[r] \in SUBSET Run
  BY <1>0, <1>2, FleetAssumption DEF TypeOK
<1>6. \A t \in Slot : slot[t] # NoRun => slot[t] \in Run /\ slot[t] # r
  BY <1>0, <1>3 DEF IInv, InSlots, TypeOK
<1>7. Running' = Running \cup {r}
  BY <1>2, <1>4 DEF Running, InFlight
<1>8. \A i \in 1..Len(agenda) :
        /\ agenda[i] \in Run \X Slot /\ program.deps[agenda[i][1]] \in SUBSET Run
        /\ i # 1 => agenda[i][1] # r /\ agenda[i][2] # s
  <2> SUFFICES ASSUME NEW i \in 1..Len(agenda)
               PROVE  /\ agenda[i] \in Run \X Slot /\ program.deps[agenda[i][1]] \in SUBSET Run
                      /\ i # 1 => agenda[i][1] # r /\ agenda[i][2] # s
    OBVIOUS
  <2>1. agenda[i] \in Run \X Slot
    BY <1>0 DEF TypeOK
  <2>2. program.deps[agenda[i][1]] \in SUBSET Run
    BY <1>0, <2>1, FleetAssumption DEF TypeOK
  <2>3. i # 1 => agenda[i][1] # r /\ agenda[i][2] # s
    BY <1>1, <1>2 DEF IInv, DueIsNew, Starting
  <2> QED
    BY <2>1, <2>2, <2>3
<1>9. Intended'
  BY <1>1, <1>2, <1>3, <1>4 DEF Intended, Launching
<1> HIDE DEF r, s
<1>10. TypeOK'
  <2>1. edges' \subseteq Run \X Run
    BY <1>0, <1>1, <1>2, <1>5 DEF TypeOK
  <2>2. UNCHANGED <<seen, blocked, asked, acted, artifacts, faults, starts>>
    BY DEF RecordIntent, tick, hist
  <2> QED
    BY <1>0, <1>1, <1>4, <2>1, <2>2 DEF TypeOK, artifacts
<1>11. Visits'
  BY <1>1, <1>3, <1>4 DEF IInv, Visits, Starting
<1>12. InSlots' /\ NeverHalts'
  BY <1>0, <1>1, <1>4, <1>6 DEF IInv, InSlots, NeverHalts
<1>13. LiveIsOpen'
  BY <1>1, <1>4 DEF IInv, LiveIsOpen, InFlight
<1>14. ReportedEnded'
  BY <1>0, <1>1, <1>4, <1>6 DEF IInv, ReportedEnded, TypeOK
<1>15. EdgesHeld'
  <2>1. ASSUME NEW q \in Run, status'[q] # "none", NEW p \in program.deps[q]
        PROVE  <<p, q>> \in edges'
    <3>1. CASE q = r
      BY <1>1, <2>1, <3>1
    <3>2. CASE q # r
      BY <1>1, <1>4, <2>1, <3>2 DEF IInv, EdgesHeld
    <3> QED
      BY <3>1, <3>2
  <2>2. ASSUME NEW e \in edges'
        PROVE  status'[e[2]] # "none"
    <3>1. CASE e[2] = r
      BY <1>4, <3>1
    <3>2. CASE e[2] # r
      <4>1. e \in edges /\ e[2] \in Run
        BY <1>0, <1>1, <3>2 DEF TypeOK
      <4> QED
        BY <1>4, <3>2, <4>1 DEF IInv, EdgesHeld
    <3> QED
      BY <3>1, <3>2
  <2> QED
    BY <1>1, <2>1, <2>2 DEF EdgesHeld
<1>16. Cascaded'
  <2> SUFFICES ASSUME NEW e \in edges', status'[e[1]] = "rejected"
               PROVE  status'[e[2]] = "rejected" \/ e[2] \in revived \/ cut
    BY <1>1 DEF Cascaded
  <2>1. e \in edges
    <3>1. \A p \in program.deps[r] : status'[p] # "rejected"
      BY <1>3, <1>4, <1>5
    <3> QED
      BY <1>1, <3>1
  <2>2. e[1] \in Run /\ e[2] \in Run
    BY <1>0, <2>1 DEF TypeOK
  <2>3. status[e[1]] = "rejected" /\ e[2] # r
    BY <1>3, <1>4, <2>1, <2>2 DEF IInv, EdgesHeld
  <2> QED
    BY <1>1, <1>4, <2>1, <2>2, <2>3 DEF IInv, Cascaded
<1>17. CascadeClosed'
  BY <1>1 DEF CascadeClosed
<1>18. Running \cup Due \in SUBSET Run
  BY <1>2 DEF Running
<1>19. WithinCeiling'
  <2>1. (Running \cup {r}) \ revived \in SUBSET (Running \cup Due)
    BY <1>2
  <2>2. /\ Tokens((Running \cup {r}) \ revived) <= Tokens(Running \cup Due)
        /\ Tokens((Running \cup {r}) \ revived) \in Nat /\ Tokens(Running \cup Due) \in Nat
    BY <1>18, <2>1, TokensMonotone
  <2>3. Tokens(Running \cup Due) <= program.max_tokens
    BY <1>1 DEF IInv, DueIsPaid, Starting
  <2>4. program.max_tokens \in Nat
    BY <1>0, FleetAssumption DEF TypeOK
  <2>5. Tokens(Running \ revived)' = Tokens((Running \cup {r}) \ revived)
    BY <1>1, <1>7 DEF Tokens
  <2> QED
    BY <1>1, <2>2, <2>3, <2>4, <2>5 DEF WithinCeiling
<1>20. DueIsPaid'
  <2>1. (Running \cup {r}) \cup Due = Running \cup Due
    BY <1>2
  <2>2. Tokens(Running \cup Due)' = Tokens(Running \cup Due)
    BY <1>1, <1>7, <2>1, ZenonT(40) DEF Tokens, Due
  <2> QED
    <3>1. Starting
      BY <1>1 DEF Starting
    <3>2. agenda # << >> => Tokens(Running \cup Due) <= program.max_tokens
      BY <1>1, <3>1 DEF IInv, DueIsPaid
    <3>3. UNCHANGED <<agenda, program>>
      BY <1>1
    <3> QED
      BY <2>2, <3>2, <3>3 DEF DueIsPaid
<1>21. DueIsNew'
  <2> SUFFICES ASSUME NEW i \in 1..Len(agenda)
               PROVE  /\ i > 1 => status'[agenda[i][1]] = "none"
                      /\ \A p \in program.deps[agenda[i][1]] : status'[p] = "converged"
                      /\ \A j \in 1..Len(agenda) : i # j =>
                           agenda[i][1] # agenda[j][1] /\ agenda[i][2] # agenda[j][2]
                      /\ \A q \in Running \cup {r} :
                           slotOf'[q] = agenda[i][2] => i = 1 /\ q = r
    BY <1>1, <1>7 DEF DueIsNew, Launching, r
  <2>1. /\ status[agenda[i][1]] = "none"
        /\ \A p \in program.deps[agenda[i][1]] : status[p] = "converged"
        /\ \A j \in 1..Len(agenda) : i # j =>
             agenda[i][1] # agenda[j][1] /\ agenda[i][2] # agenda[j][2]
        /\ \A q \in Running : slotOf[q] # agenda[i][2]
    BY <1>1 DEF IInv, DueIsNew, Starting, Launching
  <2>2. i > 1 => status'[agenda[i][1]] = "none"
    BY <1>4, <1>8, <2>1
  <2>3. \A p \in program.deps[agenda[i][1]] : status'[p] = "converged"
    BY <1>3, <1>4, <1>8, <2>1
  <2>4. ASSUME NEW q \in Running \cup {r}, slotOf'[q] = agenda[i][2]
        PROVE  i = 1 /\ q = r
    <3>1. q = r
      BY <1>4, <2>1, <2>4 DEF Running
    <3> QED
      BY <1>4, <1>8, <2>4, <3>1
  <2> QED
    BY <2>1, <2>2, <2>3, <2>4
<1> QED
  BY <1>9, <1>10, <1>11, <1>12, <1>13, <1>14, <1>15, <1>16, <1>17, <1>19, <1>20, <1>21 DEF IInv

\* The slot of an intent is the run's, and what is displaced was rejected or dead.
LEMMA LaunchKeeps ==
  ASSUME IInv, Launch
  PROVE  IInv'
<1> DEFINE r == agenda[1][1]
           s == agenda[1][2]
<1>0. TypeOK
  BY DEF IInv
<1>1. agenda # << >> /\ pc = "launch"
  BY DEF IInv, Intended, Launching, Launch
<1>2. /\ r \in Run /\ s \in Slot /\ Head(agenda) = agenda[1] /\ r # NoRun
  BY <1>0, <1>1, HeadSays, FleetAssumption
<1>3. /\ UNCHANGED <<program, ledger, todo, agenda, cause, revived, cut>>
      /\ pc' = "launched" /\ child' = [Killed({slot[s]}) EXCEPT ![r] = "launched"]
      /\ slot' = [slot EXCEPT ![s] = r] /\ reported' = reported \ {s}
  BY <1>2 DEF Launch, tick, hist
<1>4. status[r] = "start-intent" /\ slotOf[r] = s
  BY <1>1, <1>2 DEF IInv, Intended, Launching
<1>5. /\ child' \in [Run -> {"none", "exited"} \cup Alive]
      /\ \A q \in Run \ {r} : child'[q] \in Alive => child[q] \in Alive
  BY <1>0, <1>2, <1>3 DEF Killed, TypeOK, Alive
<1>6. slot' \in [Slot -> Run \cup {NoRun}] /\ slot'[s] = r
      /\ \A t \in Slot \ {s} : slot'[t] = slot[t]
  BY <1>0, <1>2, <1>3 DEF TypeOK
<1>7. Intended'
  BY <1>3, <1>1 DEF IInv, Intended, Launching, ledger
<1> HIDE DEF r, s
<1>8. TypeOK'
  <2>1. UNCHANGED <<program, ledger, tick, cause, artifacts, hist>>
    BY DEF Launch
  <2> QED
    BY <1>0, <1>3, <1>5, <1>6, <2>1 DEF TypeOK, ledger, tick, artifacts, hist
<1>9. Visits' /\ NeverHalts'
  BY <1>1, <1>3 DEF IInv, Visits, NeverHalts, Starting, ledger
<1>10. InSlots'
  BY <1>3, <1>4, <1>6 DEF IInv, InSlots, ledger
<1>11. LiveIsOpen'
  BY <1>3, <1>4, <1>5 DEF IInv, LiveIsOpen, InFlight, ledger
<1>12. ReportedEnded'
  <2> SUFFICES ASSUME NEW t \in reported, t # s
               PROVE  /\ slot'[t] # NoRun /\ child'[slot'[t]] \notin Alive
                      /\ status[slot'[t]] \notin InFlight
    BY <1>3 DEF ReportedEnded, ledger
  <2>1. /\ t \in Slot /\ slot'[t] = slot[t] /\ slot[t] # NoRun /\ slot[t] \in Run
        /\ child[slot[t]] \notin Alive /\ status[slot[t]] \notin InFlight
    BY <1>0, <1>6 DEF IInv, ReportedEnded, TypeOK
  <2>2. slot[t] # r
    BY <1>4, <2>1 DEF InFlight
  <2> QED
    BY <1>5, <2>1, <2>2
<1>13. DueIsNew' /\ DueIsPaid'
  BY <1>1, <1>3 DEF IInv, DueIsNew, DueIsPaid, Starting, Launching, Running, Due, Tokens, ledger
<1>14. EdgesHeld' /\ Cascaded' /\ CascadeClosed' /\ WithinCeiling'
  BY <1>1, <1>3 DEF IInv, EdgesHeld, Cascaded, CascadeClosed, WithinCeiling, Running, Tokens, ledger
<1> QED
  BY <1>7, <1>8, <1>9, <1>10, <1>11, <1>12, <1>13, <1>14 DEF IInv

\* Once the child is launched, the intent becomes "running".
LEMMA RecordRunningKeeps ==
  ASSUME IInv, RecordRunning
  PROVE  IInv'
<1> DEFINE r == agenda[1][1]
           s == agenda[1][2]
<1>0. TypeOK
  BY DEF IInv
<1>1. agenda # << >> /\ pc = "launched"
  BY DEF IInv, Intended, Launching, RecordRunning
<1>2. r \in Run /\ s \in Slot /\ Head(agenda) = agenda[1]
  BY <1>0, <1>1, HeadSays
<1>3. /\ UNCHANGED <<program, edges, runner, todo, cause, child, revived, cut>>
      /\ pc' = "start" /\ agenda' = Tail(agenda)
      /\ status' = [status EXCEPT ![r] = "running"] /\ slotOf' = [slotOf EXCEPT ![r] = s]
  BY <1>2 DEF RecordRunning, Record, hist
<1>4. status[r] = "start-intent" /\ slotOf[r] = s
  BY <1>1, <1>2 DEF IInv, Intended, Launching
<1>5. /\ status' \in [Run -> Statuses] /\ status'[r] = "running"
      /\ \A q \in Run \ {r} : status'[q] = status[q]
  BY <1>0, <1>2, <1>3 DEF TypeOK, Statuses, InFlight
<1>6. slotOf' = slotOf
  BY <1>0, <1>2, <1>3, <1>4 DEF TypeOK
<1>7. Running' = Running
  BY <1>2, <1>4, <1>5 DEF Running, InFlight
<1>8. DueIsNew' /\ DueIsPaid'
  BY <1>1, <1>3, <1>4, <1>5, <1>6, <1>7, TailKeeps
<1> HIDE DEF r, s
<1>9. TypeOK'
  <2>1. agenda' \in Seq(Run \X Slot) /\ acted' \in BOOLEAN
    BY <1>0, <1>1, <1>3, HeadSays DEF RecordRunning
  <2>2. UNCHANGED <<seen, blocked, asked, artifacts, hist>>
    BY DEF RecordRunning
  <2> QED
    BY <1>0, <1>3, <1>5, <1>6, <2>1, <2>2 DEF TypeOK, runner, artifacts, hist
<1>10. Visits' /\ NeverHalts' /\ Intended' /\ CascadeClosed'
  BY <1>1, <1>3, <1>4, <1>5 DEF IInv, Visits, NeverHalts, Intended, CascadeClosed,
     Starting, Launching
<1>11. InSlots'
  BY <1>0, <1>3, <1>5, <1>6 DEF IInv, InSlots, TypeOK, runner
<1>12. LiveIsOpen'
  BY <1>3, <1>5 DEF IInv, LiveIsOpen, InFlight
<1>13. ReportedEnded'
  <2> SUFFICES ASSUME NEW t \in reported
               PROVE  /\ slot[t] # NoRun /\ child[slot[t]] \notin Alive
                      /\ status'[slot[t]] \notin InFlight
    BY <1>3 DEF ReportedEnded, runner
  <2>1. /\ slot[t] # NoRun /\ slot[t] \in Run
        /\ child[slot[t]] \notin Alive /\ status[slot[t]] \notin InFlight
    BY <1>0 DEF IInv, ReportedEnded, TypeOK
  <2>2. slot[t] # r
    BY <1>4, <2>1 DEF InFlight
  <2> QED
    BY <1>5, <2>1, <2>2
<1>14. EdgesHeld'
  BY <1>0, <1>2, <1>3, <1>4, <1>5 DEF IInv, EdgesHeld, TypeOK
<1>15. Cascaded'
  <2> SUFFICES ASSUME NEW e \in edges, status'[e[1]] = "rejected"
               PROVE  status'[e[2]] = "rejected" \/ e[2] \in revived \/ cut
    BY <1>3 DEF Cascaded
  <2>1. e[1] \in Run /\ e[2] \in Run
    BY <1>0 DEF TypeOK
  <2>2. status[e[1]] = "rejected"
    BY <1>5, <2>1
  <2>3. status[e[2]] = "rejected" \/ e[2] \in revived \/ cut
    BY <1>1, <2>2 DEF IInv, Cascaded
  <2> QED
    BY <1>4, <1>5, <2>1, <2>3
<1>16. WithinCeiling'
  BY <1>0, <1>3, <1>7, CeilingKept DEF IInv
<1> QED
  BY <1>8, <1>9, <1>10, <1>11, <1>12, <1>13, <1>14, <1>15, <1>16 DEF IInv

\* A change of statuses that starts nothing, of runs that are not in flight.
LEMMA SettleKeeps ==
  ASSUME IInv, status' \in [Run -> Statuses],
         UNCHANGED <<program, slotOf, edges, runner, child, revived>>,
         \A q \in Run : status'[q] # status[q] =>
           /\ status[q] # "none" /\ status'[q] \in Terminal
           /\ child[q] \in Alive => status'[q] = "rejected"
  PROVE  InSlots' /\ LiveIsOpen' /\ ReportedEnded' /\ EdgesHeld' /\ WithinCeiling'
<1>0. TypeOK
  BY DEF IInv
<1>1. \A q \in Run : /\ status'[q] \in InFlight => status[q] \in InFlight
                     /\ status'[q] = "none" <=> status[q] = "none"
  BY StatusesDiffer
<1>2. InSlots'
  BY <1>0, <1>1 DEF IInv, InSlots, TypeOK, runner
<1>3. LiveIsOpen'
  BY DEF IInv, LiveIsOpen
<1>4. ReportedEnded'
  BY <1>0, <1>1 DEF IInv, ReportedEnded, TypeOK, runner
<1>5. EdgesHeld'
  BY <1>0, <1>1 DEF IInv, EdgesHeld, TypeOK
<1>6. Running' \ revived' \in SUBSET (Running \ revived)
  BY <1>1 DEF Running
<1>7. WithinCeiling'
  BY <1>0, <1>6, CeilingKept DEF IInv
<1> QED
  BY <1>2, <1>3, <1>4, <1>5, <1>7

\* The auto-merge settles a converged run.
LEMMA LandKeeps ==
  ASSUME IInv, NEW r \in Run, Land(r)
  PROVE  IInv'
<1>0. TypeOK
  BY DEF IInv
<1>1. /\ UNCHANGED <<program, slotOf, edges, runner, agenda, cause, child, revived, cut>>
      /\ pc = "start" /\ pc' = "start" /\ agenda = << >> /\ r \in todo /\ todo' = todo \ {r}
      /\ status' = [status EXCEPT ![r] = "landed"] \/ status' = status
  BY DEF Land, Record, hist
<1>2. status[r] = "converged" /\ child[r] \notin Alive
  BY <1>1 DEF IInv, Visits, LiveIsOpen, Starting, InFlight
<1>3. /\ status' \in [Run -> Statuses] /\ status'[r] \in {"landed", "converged"}
      /\ \A q \in Run \ {r} : status'[q] = status[q]
  BY <1>0, <1>1, <1>2 DEF TypeOK, Statuses, Terminal
<1>4. TypeOK'
  BY <1>0, <1>1, <1>3 DEF TypeOK, Land, runner, artifacts, hist
<1>5. Visits' /\ NeverHalts'
  BY <1>1, <1>3 DEF IInv, Visits, NeverHalts, Starting
<1>6. InSlots' /\ LiveIsOpen' /\ ReportedEnded' /\ EdgesHeld' /\ WithinCeiling'
  BY <1>1, <1>2, <1>3, SettleKeeps DEF Terminal
<1>7. DueIsNew' /\ DueIsPaid' /\ Intended' /\ CascadeClosed'
  BY <1>1 DEF DueIsNew, DueIsPaid, Intended, CascadeClosed, Launching
<1>8. Cascaded'
  <2> SUFFICES ASSUME NEW e \in edges, status'[e[1]] = "rejected"
               PROVE  status'[e[2]] = "rejected" \/ e[2] \in revived \/ cut
    BY <1>1 DEF Cascaded
  <2>1. e[1] \in Run /\ e[2] \in Run
    BY <1>0 DEF TypeOK
  <2>2. status[e[1]] = "rejected"
    BY <1>3, <2>1
  <2>3. status[e[2]] = "rejected" \/ e[2] \in revived \/ cut
    BY <1>1, <2>2 DEF IInv, Cascaded
  <2> QED
    BY <1>2, <1>3, <2>1, <2>3
<1> QED
  BY <1>4, <1>5, <1>6, <1>7, <1>8 DEF IInv

\* A cascade reaches the recorded dependents, theirs, and only runs that started.
LEMMA CascadeSays ==
  ASSUME IInv, NEW r \in Run, status[r] # "none"
  PROVE  /\ cascade_invalidate(r) \subseteq Run
         /\ \A q \in cascade_invalidate(r) : status[q] # "none"
         /\ \A e \in edges : e[1] \in cascade_invalidate(r) \cup {r} =>
              e[2] \in cascade_invalidate(r) \cup {r}
<1> DEFINE C == cascade_invalidate(r)
<1>0. edges \subseteq Run \X Run
  BY DEF IInv, TypeOK
<1>1. C \subseteq Run
  BY DEF cascade_invalidate
<1>2. ASSUME NEW q \in C
      PROVE  status[q] # "none"
  <2> DEFINE S == {x \in Run : status[x] # "none"}
  <2>1. r \in S /\ \A e \in edges : e[1] \in S => e[2] \in S
    BY <1>0 DEF IInv, EdgesHeld
  <2> QED
    BY <1>2, <2>1 DEF cascade_invalidate
<1>3. ASSUME NEW e \in edges, e[1] \in C \cup {r}, e[2] # r
      PROVE  e[2] \in C
  <2>1. e[2] \in Run \ {r}
    BY <1>0, <1>3
  <2>2. ASSUME NEW S \in SUBSET Run, r \in S, \A d \in edges : d[1] \in S => d[2] \in S
        PROVE  e[2] \in S
    <3>1. e[1] \in S
      BY <1>3, <2>2 DEF cascade_invalidate
    <3> QED
      BY <2>2, <3>1
  <2> QED
    BY <2>1, <2>2 DEF cascade_invalidate
<1> QED
  BY <1>1, <1>2, <1>3

\* The root of a rejection opens a cascade to all that was built on it.
LEMMA RejectRootKeeps ==
  ASSUME IInv, NEW r \in Run, RejectRoot(r)
  PROVE  IInv'
<1>0. TypeOK
  BY DEF IInv
<1>1. /\ UNCHANGED <<program, slotOf, edges, runner, agenda, cause, child, revived, cut>>
      /\ pc' = "revoke" /\ todo = {} /\ todo' = cascade_invalidate(r)
      /\ status[r] = "converged" /\ status' = [status EXCEPT ![r] = "rejected"]
  BY DEF RejectRoot, Record
<1>2. /\ status' \in [Run -> Statuses] /\ status'[r] = "rejected"
      /\ \A q \in Run \ {r} : status'[q] = status[q]
  BY <1>0, <1>1 DEF TypeOK, Statuses, Terminal
<1>3. /\ todo' \subseteq Run /\ \A q \in todo' : status[q] # "none"
      /\ \A e \in edges : e[1] \in todo' \cup {r} => e[2] \in todo' \cup {r}
  BY <1>1, CascadeSays
<1>4. TypeOK'
  <2>1. asked' \in 0..Len(Order)
    <3>1. \E i \in 1..Len(Order) : Order[i] = r
      BY FleetAssumption DEF Range
    <3>2. Position(r) \in 1..Len(Order)
      BY <3>1 DEF Position
    <3>3. Len(Order) \in Nat
      BY FleetAssumption
    <3> QED
      BY <3>2, <3>3 DEF RejectRoot
  <2>2. faults' \in Nat /\ UNCHANGED <<seen, blocked, acted, artifacts, starts>>
    BY <1>0 DEF RejectRoot, TypeOK
  <2> QED
    BY <1>0, <1>1, <1>2, <1>3, <2>1, <2>2 DEF TypeOK, runner, artifacts
<1>5. Visits' /\ NeverHalts'
  BY <1>1, <1>2, <1>3 DEF IInv, Visits, NeverHalts, Starting
<1>6. InSlots' /\ LiveIsOpen' /\ ReportedEnded' /\ EdgesHeld' /\ WithinCeiling'
  BY <1>1, <1>2, SettleKeeps DEF Terminal
<1>7. DueIsNew' /\ DueIsPaid' /\ Intended'
  BY <1>1 DEF DueIsNew, DueIsPaid, Intended, Starting, Launching
<1>8. Cascaded'
  <2> SUFFICES ASSUME NEW e \in edges, status'[e[1]] = "rejected"
               PROVE  \/ status'[e[2]] = "rejected" \/ e[2] \in revived \/ cut
                      \/ e[2] \in todo'
    BY <1>1 DEF Cascaded
  <2>1. e[1] \in Run /\ e[2] \in Run
    BY <1>0 DEF TypeOK
  <2>2. CASE e[1] = r
    BY <1>2, <1>3, <2>2
  <2>3. CASE e[1] # r
    <3>1. status[e[2]] = "rejected" \/ e[2] \in revived \/ cut
      BY <1>1, <1>2, <2>1, <2>3 DEF IInv, Cascaded
    <3> QED
      BY <1>2, <2>1, <3>1
  <2> QED
    BY <2>2, <2>3
<1>9. CascadeClosed'
  BY <1>1, <1>2, <1>3 DEF CascadeClosed
<1> QED
  BY <1>4, <1>5, <1>6, <1>7, <1>8, <1>9 DEF IInv

\* The cascade rejects the dependents one by one.
LEMMA RejectDependentKeeps ==
  ASSUME IInv, NEW q \in Run, RejectDependent(q)
  PROVE  IInv'
<1>0. TypeOK
  BY DEF IInv
<1>1. /\ UNCHANGED <<program, slotOf, edges, runner, agenda, cause, child, revived, cut>>
      /\ pc = "revoke" /\ pc' = "revoke" /\ q \in todo /\ todo' = todo \ {q}
      /\ status' = [status EXCEPT ![q] = "rejected"]
  BY DEF RejectDependent, Record, hist
<1>2. /\ status' \in [Run -> Statuses] /\ status'[q] = "rejected"
      /\ \A x \in Run \ {q} : status'[x] = status[x]
  BY <1>0, <1>1 DEF TypeOK, Statuses, Terminal
<1>3. status[q] # "none"
  BY <1>1 DEF IInv, Visits
<1>4. TypeOK'
  BY <1>0, <1>1, <1>2 DEF TypeOK, RejectDependent, runner, artifacts, hist
<1>5. Visits' /\ NeverHalts'
  BY <1>1, <1>2 DEF IInv, Visits, NeverHalts, Starting
<1>6. InSlots' /\ LiveIsOpen' /\ ReportedEnded' /\ EdgesHeld' /\ WithinCeiling'
  BY <1>1, <1>2, <1>3, SettleKeeps DEF Terminal
<1>7. DueIsNew' /\ DueIsPaid' /\ Intended'
  BY <1>1 DEF DueIsNew, DueIsPaid, Intended, Starting, Launching
<1>8. Cascaded'
  <2> SUFFICES ASSUME NEW e \in edges, status'[e[1]] = "rejected"
               PROVE  \/ status'[e[2]] = "rejected" \/ e[2] \in revived \/ cut
                      \/ e[2] \in todo'
    BY <1>1 DEF Cascaded
  <2>1. e[1] \in Run /\ e[2] \in Run
    BY <1>0 DEF TypeOK
  <2>2. \/ status[e[2]] = "rejected" \/ e[2] \in revived \/ cut \/ e[2] \in todo
    BY <1>1, <1>2, <2>1 DEF IInv, Cascaded, CascadeClosed
  <2> QED
    BY <1>1, <1>2, <2>1, <2>2
<1>9. CascadeClosed'
  <2> SUFFICES ASSUME NEW e \in edges, e[1] \in todo \ {q}
               PROVE  e[2] \in todo \ {q} \/ status'[e[2]] = "rejected"
    BY <1>1 DEF CascadeClosed
  <2>1. e[2] \in Run /\ (e[2] \in todo \/ status[e[2]] = "rejected")
    BY <1>0, <1>1 DEF IInv, CascadeClosed, TypeOK
  <2> QED
    BY <1>2, <2>1
<1> QED
  BY <1>4, <1>5, <1>6, <1>7, <1>8, <1>9 DEF IInv

\* A launch or a schedule that raises ends the conductor.
LEMMA AbortKeeps ==
  ASSUME IInv, LaunchFails \/ ScheduleRaises
  PROVE  IInv'
<1>1. /\ Finish("aborted") /\ pc \in {"launch", "liveness"}
      /\ UNCHANGED <<program, ledger, runner, tick, artifacts, hist>>
  BY DEF LaunchFails, ScheduleRaises
<1>2. TypeOK'
  <2>1. child' \in [Run -> {"none", "exited"} \cup Alive]
    BY <1>1, KilledSays DEF IInv, Finish
  <2> QED
    BY <1>1, <2>1 DEF IInv, TypeOK, Finish, ledger, runner, tick, artifacts, hist
<1> QED
  BY <1>1, <1>2, FinishKeeps DEF tick, hist

\* A tick ends with the agenda empty.
LEMMA EndTickKeeps ==
  ASSUME IInv, EndTick
  PROVE  IInv'
<1>1. UNCHANGED <<program, ledger, runner, tick, artifacts, hist>> /\ todo = {}
  BY DEF EndTick
<1>2. ASSUME NEW why \in {"complete", "ceiling", "stalled", "max-ticks"}, Finish(why)
      PROVE  IInv'
  <2>1. child' \in [Run -> {"none", "exited"} \cup Alive]
    BY <1>2, KilledSays DEF IInv, Finish
  <2>2. TypeOK'
    BY <1>1, <1>2, <2>1 DEF IInv, TypeOK, Finish, ledger, runner, tick, artifacts, hist
  <2> QED
    BY <1>1, <1>2, <2>2, FinishKeeps DEF tick, hist
<1>3. ASSUME pc' = "top", UNCHANGED <<cause, child>>
      PROVE  IInv'
  <2>1. TypeOK'
    BY <1>1, <1>3 DEF IInv, TypeOK, ledger, runner, tick, artifacts, hist
  <2>2. Visits' /\ NeverHalts'
    BY <1>1, <1>3 DEF IInv, Visits, NeverHalts, Starting, tick
  <2>3. InSlots' /\ LiveIsOpen' /\ ReportedEnded' /\ EdgesHeld' /\ WithinCeiling'
    BY <1>1, <1>3, LedgerKept DEF hist
  <2>4. DueIsNew' /\ DueIsPaid' /\ Intended' /\ Cascaded' /\ CascadeClosed'
    BY <1>1, <1>3, Between DEF hist
  <2> QED
    BY <2>1, <2>2, <2>3, <2>4 DEF IInv
<1>4. \/ \E why \in {"complete", "ceiling", "stalled", "max-ticks"} : Finish(why)
      \/ pc' = "top" /\ UNCHANGED <<cause, child>>
  BY DEF EndTick
<1> QED
  BY <1>2, <1>3, <1>4

-----------------------------------------------------------------------------
(* The theorems.                                                            *)

\* Every step keeps the inductive invariant.
LEMMA NextKeeps ==
  ASSUME IInv, [Next]_vars
  PROVE  IInv'
<1>1. CASE Observe
  BY <1>1, ObserveKeeps
<1>2. ASSUME NEW s \in Slot, FindLive(s) \/ RestartWedged(s) \/ ReportDone(s)
      PROVE  IInv'
  BY <1>2, FindLiveKeeps, RestartWedgedKeeps, ReportDoneKeeps
<1>3. CASE Schedule
  BY <1>3, ScheduleKeeps
<1>4. CASE LaunchFails \/ ScheduleRaises
  BY <1>4, AbortKeeps
<1>5. CASE SkipUnrecordable
  BY <1>5, SkipKeeps
<1>6. CASE RecordIntent
  BY <1>6, RecordIntentKeeps
<1>7. CASE Launch
  BY <1>7, LaunchKeeps
<1>8. CASE RecordRunning
  BY <1>8, RecordRunningKeeps
<1>9. ASSUME NEW r \in Run, Land(r) \/ RejectRoot(r) \/ RejectDependent(r)
      PROVE  IInv'
  BY <1>9, LandKeeps, RejectRootKeeps, RejectDependentKeeps
<1>10. CASE EndTick
  BY <1>10, EndTickKeeps
<1>11. CASE Crash
  BY <1>11, CrashKeeps
<1>12. CASE Start
  BY <1>12, StartKeeps
<1>13. ASSUME NEW r \in Run, ChildStep(r)
       PROVE  IInv'
  BY <1>13, ChildStepKeeps
<1>14. CASE UNCHANGED vars
  <2>1. TypeOK'
    BY <1>14 DEF IInv, TypeOK, vars, ledger, runner, tick, artifacts, hist
  <2>2. UNCHANGED <<program, ledger, runner, revived, pc, todo, agenda, cut, cause, child>>
    BY <1>14 DEF vars, tick, hist
  <2>3. NeverHalts'
    BY <2>2 DEF IInv, NeverHalts
  <2> QED
    BY <2>1, <2>2, <2>3, LedgerKept, PhaseKept DEF IInv
<1> QED
  BY <1>1, <1>2, <1>3, <1>4, <1>5, <1>6, <1>7, <1>8, <1>9, <1>10, <1>11, <1>12, <1>13, <1>14
     DEF Next, Conduct

\* The inductive invariant holds in every reachable state of the conductor, its crashes
\* and restarts included (FleetConductor.tick).
THEOREM Invariant == Spec => []IInv
<1>1. Init => IInv
  BY InitHolds
<1>2. IInv /\ [Next]_vars => IInv'
  BY NextKeeps
<1> QED
  BY <1>1, <1>2, PTL DEF Spec

\* Every variable keeps its type, in any program (conductor.py, slot_runner.py).
THEOREM TypeCorrect == Spec => []TypeOK
<1>1. IInv => TypeOK
  BY DEF IInv
<1> QED
  BY <1>1, Invariant, PTL

\* What a schedule starts is safe to start: no tick halts over a slot that the
\* conductor itself filled, no run gets two processes, and the runs in flight stay
\* within the ceiling (scheduler.startable_runs, conductor.conduct_tick).
THEOREM StartsAreSoundAlways == Spec => []StartsAreSound
<1>1. IInv => StartsAreSound
  <2> SUFFICES ASSUME IInv PROVE StartsAreSound
    OBVIOUS
  <2>1. NoDoubleStart
    <3> SUFFICES ASSUME pc = "launch", NEW q, q = slot[Head(agenda)[2]],
                        q # NoRun, child[q] \in Alive
                 PROVE  status[q] = "rejected"
      BY DEF IInv, NoDoubleStart, Intended, Launching
    <3>1. /\ agenda # << >> /\ agenda[1] = Head(agenda) /\ agenda[1][2] \in Slot
          /\ 1 \in 1..Len(agenda) /\ status[agenda[1][1]] = "start-intent"
          /\ child[agenda[1][1]] \notin Alive
      BY HeadSays DEF IInv, Intended, Launching
    <3>2. q \in Run /\ slotOf[q] = agenda[1][2] /\ q # agenda[1][1]
      BY <3>1 DEF IInv, InSlots, TypeOK
    <3>3. status[q] \in InFlight \cup {"rejected"}
      BY <3>2 DEF IInv, LiveIsOpen
    <3>4. q \notin Running
      BY <3>1, <3>2 DEF IInv, DueIsNew, Starting
    <3> QED
      BY <3>2, <3>3, <3>4 DEF Running
  <2> QED
    BY <2>1 DEF IInv, StartsAreSound
<1> QED
  BY <1>1, Invariant, PTL

\* A rejected run takes everything that was built on it with it, but for kills in
\* the middle of it and rejected runs that were restarted (conductor.reject_run,
\* cascade_invalidate).
THEOREM CascadeCompleteAlways == Spec => []CascadeComplete
<1>1. IInv => CascadeComplete
  <2> SUFFICES ASSUME IInv, pc \in {"top", "liveness"}, ~cut,
                      NEW r \in Run \ revived,
                      status[r] \in {"failed"} \cup InFlight \cup Consumed,
                      NEW p \in program.deps[r], status[p] = "rejected"
               PROVE  FALSE
    BY DEF CascadeComplete
  <2>1. status[r] \notin {"none", "rejected"}
    BY DEF InFlight, Consumed
  <2>2. <<p, r>> \in edges
    BY <2>1 DEF IInv, EdgesHeld
  <2> QED
    BY <2>1, <2>2 DEF IInv, Cascaded
<1> QED
  BY <1>1, Invariant, PTL

\* A run that ended is not brought back by a late report: a landed or failed one
\* can only be rejected, and only a restart revives a rejected one.
THEOREM SettledStaysSettledAlways == Spec => SettledStaysSettled
<1> DEFINE Settled(r) == /\ status[r] = "landed" => status'[r] \in {"landed", "rejected"}
                         /\ status[r] = "failed" => status'[r] \in {"failed", "rejected"}
                         /\ status[r] = "rejected" => status'[r] \in {"rejected", "running"}
<1>1. ASSUME IInv, [Next]_vars, NEW r \in Run
      PROVE  Settled(r)
  <2>0. status \in [Run -> Statuses]
    BY <1>1 DEF IInv, TypeOK
  <2>1. CASE status' = status
    BY <2>1
  <2>2. ASSUME NEW s \in Slot, RestartWedged(s)
        PROVE  Settled(r)
    <3>1. slot[s] \in Run /\ child[slot[s]] \in Alive
      BY <1>1, <2>2, VisitSays DEF RestartWedged
    <3>2. status[slot[s]] \in InFlight \cup {"rejected"}
      BY <1>1, <3>1 DEF IInv, LiveIsOpen
    <3>3. status' = [status EXCEPT ![slot[s]] = "running"]
      BY <2>2 DEF RestartWedged, Record
    <3> QED
      BY <2>0, <3>1, <3>2, <3>3 DEF InFlight
  <2>3. ASSUME NEW s \in Slot, ReportDone(s)
        PROVE  Settled(r)
    <3>1. \/ status' = status
          \/ status[slot[s]] \in InFlight /\ \E v : status' = [status EXCEPT ![slot[s]] = v]
      BY <2>3 DEF ReportDone, Record
    <3> QED
      BY <2>0, <3>1 DEF InFlight
  <2>4. CASE RecordIntent \/ RecordRunning
    <3>1. /\ agenda # << >> /\ Head(agenda) = agenda[1]
          /\ status[agenda[1][1]] \in {"none", "start-intent"}
      BY <1>1, <2>4, HeadSays DEF IInv, DueIsNew, Intended, Launching, Starting,
         RecordIntent, RecordRunning
    <3>2. \E v : status' = [status EXCEPT ![agenda[1][1]] = v]
      BY <2>4, <3>1 DEF RecordIntent, RecordRunning, Record
    <3> QED
      BY <2>0, <3>1, <3>2
  <2>5. ASSUME NEW q \in Run, Land(q)
        PROVE  Settled(r)
    <3>1. status[q] = "converged"
      BY <1>1, <2>5 DEF IInv, Visits, Starting, Land
    <3> QED
      BY <2>0, <2>5, <3>1 DEF Land, Record
  <2>6. ASSUME NEW q \in Run, RejectRoot(q) \/ RejectDependent(q)
        PROVE  Settled(r)
    BY <2>0, <2>6 DEF RejectRoot, RejectDependent, Record
  <2> QED
    BY <1>1, <2>1, <2>2, <2>3, <2>4, <2>5, <2>6 DEF Next, Conduct, vars, ledger,
       Observe, FindLive, Schedule, ScheduleRaises, SkipUnrecordable, Launch, LaunchFails,
       EndTick, Crash, Start, ChildStep
<1>2. IInv /\ [Next]_vars =>
        [\A r \in Run :
           /\ status[r] = "landed" => status'[r] \in {"landed", "rejected"}
           /\ status[r] = "failed" => status'[r] \in {"failed", "rejected"}
           /\ status[r] = "rejected" => status'[r] \in {"rejected", "running"}]_vars
  BY <1>1
<1> QED
  BY <1>2, Invariant, PTL DEF Spec, SettledStaysSettled
===============================================================================
