------------------------ MODULE ReplicaBudget_proofs ------------------------
(***************************************************************************)
(* Facts about the arithmetic of ReplicaBudget that the proofs of          *)
(* BudgetPlanner and BudgetedScaling rest on.  Usage counts budget units,  *)
(* so its laws are laws about the cardinality of finite sets.              *)
(***************************************************************************)
EXTENDS ReplicaBudget, FiniteSetTheorems, TLAPS

(* The units of one deployment are finitely many.                          *)
LEMMA UnitsOfFinite ==
    ASSUME NEW d \in Deployments, NEW n \in Nat
    PROVE  IsFiniteSet(UnitsOf(d, n))
  <1>1. IsFiniteSet(1..n) /\ IsFiniteSet(1..Cost[d])
    BY BudgetAssumption, FS_Interval
  <1>2. IsFiniteSet((1..n) \X (1..Cost[d]))
    BY <1>1, FS_Product
  <1>3. IsFiniteSet({d})
    BY FS_Singleton
  <1> QED
    BY <1>2, <1>3, FS_Product DEF UnitsOf

LEMMA BudgetUnitsFinite ==
    ASSUME NEW r \in Readings
    PROVE  IsFiniteSet(BudgetUnits(r))
  <1> DEFINE f == [d \in Deployments |-> UnitsOf(d, r[d])]
             T == {UnitsOf(d, r[d]) : d \in Deployments}
  <1>1. f \in Surjection(Deployments, T)
    BY DEF Surjection
  <1>2. IsFiniteSet(T)
    BY <1>1, FS_Surjection, BudgetAssumption
  <1>3. \A U \in T : IsFiniteSet(U)
    <2>1. \A d \in Deployments : r[d] \in Nat
      BY DEF Readings
    <2>2. \A d \in Deployments : IsFiniteSet(UnitsOf(d, r[d]))
      BY <2>1, UnitsOfFinite
    <2> QED
      BY <2>2
  <1> QED
    BY <1>2, <1>3, FS_UNION DEF BudgetUnits

(* Usage is a natural number.                                              *)
LEMMA UsageType ==
    ASSUME NEW r \in Readings
    PROVE  Usage(r) \in Nat
  BY BudgetUnitsFinite, FS_CardinalityType DEF Usage

(* More replicas use at least as much budget.                              *)
LEMMA UsageMonotone ==
    ASSUME NEW r \in Readings, NEW q \in Readings,
           \A d \in Deployments : r[d] <= q[d]
    PROVE  Usage(r) <= Usage(q)
  <1>1. \A d \in Deployments : UnitsOf(d, r[d]) \subseteq UnitsOf(d, q[d])
    BY DEF UnitsOf, Readings
  <1>2. BudgetUnits(r) \in SUBSET BudgetUnits(q)
    BY <1>1 DEF BudgetUnits
  <1> QED
    BY <1>2, BudgetUnitsFinite, FS_Subset DEF Usage

(* Replicas taken from one deployment free as many pod costs.              *)
LEMMA UsageTake ==
    ASSUME NEW r \in Readings, NEW d \in Deployments, NEW m \in 0..r[d]
    PROVE  /\ [r EXCEPT ![d] = m] \in Readings
           /\ Usage([r EXCEPT ![d] = m]) = Usage(r) - (r[d] - m) * Cost[d]
  <1> DEFINE q == [r EXCEPT ![d] = m]
             n == r[d]
             taken == {d} \X (((m + 1)..n) \X (1..Cost[d]))
  <1>1. n \in Nat /\ m \in Nat /\ m <= n /\ Cost[d] \in Nat
    BY BudgetAssumption DEF Readings
  <1>2. q \in Readings /\ q[d] = m
    BY <1>1 DEF Readings
  <1>3. UnitsOf(d, n) = UnitsOf(d, m) \cup taken /\ UnitsOf(d, m) \cap taken = {}
    <2>1. 1..n = (1..m) \cup ((m + 1)..n) /\ (1..m) \cap ((m + 1)..n) = {}
      BY <1>1
    <2> QED
      BY <2>1 DEF UnitsOf
  <1>4. \A e \in Deployments \ {d} : UnitsOf(e, q[e]) = UnitsOf(e, r[e]) /\ UnitsOf(e, q[e]) \cap taken = {}
    BY <1>2 DEF UnitsOf, Readings
  <1>5. BudgetUnits(r) = BudgetUnits(q) \cup taken
    BY <1>2, <1>3, <1>4 DEF BudgetUnits
  <1>6. BudgetUnits(q) \cap taken = {}
    BY <1>2, <1>3, <1>4 DEF BudgetUnits
  <1>7. IsFiniteSet(taken) /\ Cardinality(taken) = (n - m) * Cost[d]
    <2>1. IsFiniteSet((m + 1)..n) /\ Cardinality((m + 1)..n) = n - m
      <3>1. m + 1 \in Int /\ n \in Int
        BY <1>1
      <3> HIDE DEF n
      <3>2. /\ IsFiniteSet((m + 1)..n)
            /\ Cardinality((m + 1)..n) = IF m + 1 > n THEN 0 ELSE n - (m + 1) + 1
        BY <3>1, FS_Interval
      <3> QED
        BY <1>1, <3>2
    <2>2. IsFiniteSet(1..Cost[d]) /\ Cardinality(1..Cost[d]) = Cost[d]
      <3>1. 1 \in Int /\ Cost[d] \in Int
        BY <1>1
      <3>2. /\ IsFiniteSet(1..Cost[d])
            /\ Cardinality(1..Cost[d]) = IF 1 > Cost[d] THEN 0 ELSE Cost[d] - 1 + 1
        BY <3>1, FS_Interval
      <3> QED
        BY <1>1, <3>2
    <2>3. /\ IsFiniteSet(((m + 1)..n) \X (1..Cost[d]))
          /\ Cardinality(((m + 1)..n) \X (1..Cost[d])) = Cardinality((m + 1)..n) * Cardinality(1..Cost[d])
      BY <2>1, <2>2, FS_Product
    <2>4. IsFiniteSet({d}) /\ Cardinality({d}) = 1
      BY FS_Singleton
    <2>5. /\ IsFiniteSet(taken)
          /\ Cardinality(taken) = 1 * Cardinality(((m + 1)..n) \X (1..Cost[d]))
      BY <2>3, <2>4, FS_Product
    <2>6. (n - m) * Cost[d] \in Int
      BY <1>1
    <2> QED
      BY <2>1, <2>2, <2>3, <2>5, <2>6
  <1>8. Usage(r) = Usage(q) + Cardinality(taken) - Cardinality({})
    <2>1. IsFiniteSet(BudgetUnits(q))
      BY <1>2, BudgetUnitsFinite
    <2>2. Cardinality(BudgetUnits(q) \cup taken)
             = Cardinality(BudgetUnits(q)) + Cardinality(taken) - Cardinality(BudgetUnits(q) \cap taken)
      BY <2>1, <1>7, FS_Union
    <2> QED
      BY <2>2, <1>5, <1>6 DEF Usage
  <1>9. Usage(q) \in Nat /\ (n - m) * Cost[d] \in Int
    BY <1>1, <1>2, UsageType
  <1> HIDE DEF q, n, taken
  <1>10. Usage(q) = Usage(r) - (n - m) * Cost[d]
    BY <1>7, <1>8, <1>9, FS_EmptySet
  <1> QED
    BY <1>2, <1>10 DEF q, n

(* A replica taken from a deployment frees exactly its pod cost.           *)
LEMMA UsageTakeReplica ==
    ASSUME NEW r \in Readings, NEW d \in Deployments, r[d] > 0
    PROVE  /\ [r EXCEPT ![d] = @ - 1] \in Readings
           /\ Usage([r EXCEPT ![d] = @ - 1]) = Usage(r) - Cost[d]
  <1> DEFINE m == r[d] - 1
  <1>1. r[d] \in Nat /\ m \in 0..r[d] /\ Cost[d] \in Nat
    BY BudgetAssumption DEF Readings
  <1>2. (r[d] - m) * Cost[d] = Cost[d]
    BY <1>1
  <1> HIDE DEF m
  <1>3. [r EXCEPT ![d] = m] \in Readings /\ Usage([r EXCEPT ![d] = m]) = Usage(r) - (r[d] - m) * Cost[d]
    BY <1>1, UsageTake
  <1> QED
    BY <1>2, <1>3 DEF m

-----------------------------------------------------------------------------
(* The order in which donors give is strict: no donor comes before itself  *)
(* or before one that comes before it.                                     *)
LEMMA ListedBeforeStrict ==
    ASSUME NEW order, Len(order) \in Nat, NEW a, NEW b, ListedBefore(order, a, b)
    PROVE  ~ListedBefore(order, b, a)
  <1> SUFFICES ASSUME ListedBefore(order, b, a) PROVE FALSE
    OBVIOUS
  <1>1. PICK i \in 1..Len(order) : order[i] = a /\ \A k \in 1..i : order[k] # b
    BY DEF ListedBefore
  <1>2. PICK j \in 1..Len(order) : order[j] = b /\ \A k \in 1..j : order[k] # a
    BY DEF ListedBefore
  <1> QED
    BY <1>1, <1>2

LEMMA GivesBeforeStrict ==
    ASSUME NEW cur \in Readings, NEW priority \in Seq(Deployments \cup {Unknown}),
           NEW a \in Deployments, NEW b \in Deployments,
           GivesBefore(cur, priority, a, b)
    PROVE  ~GivesBefore(cur, priority, b, a)
  <1>1. cur[a] \in Nat /\ cur[b] \in Nat /\ Floor[a] \in Nat /\ Floor[b] \in Nat
    BY BudgetAssumption DEF Readings
  <1> Len(NameOrder) \in Nat /\ Len(priority) \in Nat
    BY NameOrderAssumption
  <1>2. ~(ListedBefore(NameOrder, a, b) /\ ListedBefore(NameOrder, b, a))
    BY ListedBeforeStrict
  <1>3. ~(ListedBefore(priority, a, b) /\ ListedBefore(priority, b, a))
    BY ListedBeforeStrict
  <1>4. /\ ListedBefore(priority, a, b) => Listed(priority, a)
        /\ ListedBefore(priority, b, a) => Listed(priority, b)
    BY DEF ListedBefore, Listed
  <1> QED
    BY <1>1, <1>2, <1>3, <1>4 DEF GivesBefore, SurplusBefore

-----------------------------------------------------------------------------
(* A subsequence is made of elements of the sequence.  The k-th position   *)
(* exists for every k because ranks are an injection of the positions into *)
(* as many numbers, hence onto them.                                       *)
LEMMA FiniteSubinterval ==
    ASSUME NEW n \in Nat, NEW I \in SUBSET (1..n)
    PROVE  IsFiniteSet(I) /\ Cardinality(I) \in Nat
  <1>1. IsFiniteSet(1..n)
    BY FS_Interval
  <1>2. IsFiniteSet(I)
    BY <1>1, FS_Subset
  <1> QED
    BY <1>2, FS_CardinalityType

Below(I, i) == {j \in I : j < i}

LEMMA RankGrows ==
    ASSUME NEW n \in Nat, NEW I \in SUBSET (1..n), NEW i \in I
    PROVE  /\ Cardinality(Below(I, i)) \in 0..(Cardinality(I) - 1)
           /\ \A j \in I : i < j => Cardinality(Below(I, i)) < Cardinality(Below(I, j))
           /\ i = n => Cardinality(Below(I, i)) = Cardinality(I) - 1
  <1> DEFINE upTo == Below(I, i) \cup {i}
  <1>1. IsFiniteSet(I) /\ Cardinality(I) \in Nat
    BY FiniteSubinterval
  <1>2. \A j \in I : IsFiniteSet(Below(I, j)) /\ Cardinality(Below(I, j)) \in Nat
    <2>1. \A j \in I : Below(I, j) \in SUBSET I
      BY DEF Below
    <2> QED
      BY <1>1, <2>1, FS_Subset, FS_CardinalityType
  <1>3. Cardinality(upTo) = Cardinality(Below(I, i)) + 1
    <2>1. i \notin Below(I, i)
      BY DEF Below
    <2> QED
      BY <1>2, <2>1, FS_AddElement
  <1>4. Cardinality(upTo) <= Cardinality(I)
    <2>1. upTo \in SUBSET I
      BY DEF Below
    <2> QED
      BY <1>1, <2>1, FS_Subset
  <1>5. ASSUME NEW j \in I, i < j PROVE Cardinality(upTo) <= Cardinality(Below(I, j))
    <2>1. \A x \in upTo : x \in I /\ x < j
      BY <1>5 DEF Below
    <2>2. upTo \in SUBSET Below(I, j)
      BY <2>1 DEF Below
    <2> QED
      BY <1>2, <2>2, FS_Subset
  <1>6. i = n => upTo = I
    <2>1. \A j \in I : j \in Int /\ j <= n
      OBVIOUS
    <2>2. ASSUME i = n, NEW j \in I PROVE j \in upTo
      <3>1. j < i \/ j = i
        BY <2>1, <2>2
      <3> QED
        BY <3>1 DEF Below
    <2>3. upTo \subseteq I
      BY DEF Below
    <2> QED
      BY <2>2, <2>3
  <1> HIDE DEF upTo
  <1>7. ASSUME NEW j \in I, i < j PROVE Cardinality(Below(I, i)) < Cardinality(Below(I, j))
    BY <1>2, <1>3, <1>5, <1>7
  <1>8. Cardinality(Below(I, i)) \in Nat
    BY <1>2
  <1> QED
    BY <1>1, <1>3, <1>4, <1>6, <1>7, <1>8

LEMMA PositionOfRank ==
    ASSUME NEW n \in Nat, NEW I \in SUBSET (1..n), NEW k \in 1..Cardinality(I)
    PROVE  /\ Cardinality(I) \in Nat
           /\ \E i \in I : Cardinality({j \in I : j < i}) = k - 1
  <1> DEFINE rank == [i \in I |-> Cardinality(Below(I, i))]
             m == Cardinality(I)
             R == 0..(m - 1)
  <1>1. IsFiniteSet(I) /\ m \in Nat
    BY FiniteSubinterval
  <1>2. \A i \in I : rank[i] \in R
    BY RankGrows
  <1>3. rank \in Injection(I, R)
    <2>1. \A i, j \in I : i # j => rank[i] # rank[j]
      <3>1. \A i, j \in I : rank[i] \in Int /\ rank[j] \in Int /\ (i < j \/ j < i \/ i = j)
        BY <1>2
      <3>2. \A i, j \in I : i < j => rank[i] < rank[j]
        BY RankGrows
      <3> QED
        BY <3>1, <3>2
    <2> QED
      BY <1>2, <2>1 DEF Injection, IsInjective
  <1>4. IsFiniteSet(R) /\ Cardinality(R) = m
    <2>1. 0 \in Int /\ m - 1 \in Int
      BY <1>1
    <2>2. IsFiniteSet(R) /\ Cardinality(R) = IF 0 > m - 1 THEN 0 ELSE m - 1 - 0 + 1
      BY <2>1, FS_Interval
    <2> QED
      BY <1>1, <2>2
  <1>5. rank \in Surjection(I, R)
    BY <1>3, <1>4, FS_Injection
  <1>6. k - 1 \in R
    BY <1>1
  <1> QED
    BY <1>1, <1>5, <1>6 DEF Surjection, Below

(* Element k of a subsequence is the element at the position of rank       *)
(* k - 1: every position counts once, and the last one comes last.         *)
LEMMA SubsequenceElements ==
    ASSUME NEW s, Len(s) \in Nat, NEW I \in SUBSET (1..Len(s))
    PROVE  /\ Len(Subsequence(s, I)) = Cardinality(I) /\ Cardinality(I) \in Nat
           /\ \A k \in 1..Cardinality(I) : \E i \in I :
                 /\ Subsequence(s, I)[k] = s[i]
                 /\ i = Len(s) => k = Cardinality(I)
           /\ \A i \in I : \E k \in 1..Cardinality(I) : Subsequence(s, I)[k] = s[i]
  <1> DEFINE rank(i) == Cardinality(Below(I, i))
             at(k) == CHOOSE i \in I : Cardinality({j \in I : j < i}) = k - 1
             n == Len(s)
             m == Cardinality(I)
  <1>1. m \in Nat
    BY FiniteSubinterval
  <1>2. Subsequence(s, I) = [k \in 1..m |-> s[at(k)]]
    BY DEF Subsequence
  <1>3. \A k \in 1..m : at(k) \in I /\ rank(at(k)) = k - 1
    BY PositionOfRank DEF Below
  <1> HIDE DEF at
  <1>4. \A i \in I : rank(i) \in 0..(m - 1) /\ (i = n => rank(i) = m - 1)
    BY RankGrows
  <1>5. \A i, j \in I : i < j => rank(i) < rank(j)
    BY RankGrows
  <1>6. \A i, j \in I : i \in Int /\ j \in Int /\ rank(i) \in Int /\ rank(j) \in Int
    BY <1>1, <1>4
  <1> HIDE DEF rank, m
  <1>7. \A i, j \in I : rank(i) = rank(j) => i = j
    BY <1>5, <1>6
  <1>8. Len(Subsequence(s, I)) = m
    BY <1>1, <1>2
  <1>9. ASSUME NEW k \in 1..m
        PROVE  \E i \in I : Subsequence(s, I)[k] = s[i] /\ (i = n => k = m)
    <2>1. at(k) \in I /\ rank(at(k)) = k - 1 /\ Subsequence(s, I)[k] = s[at(k)]
      BY <1>2, <1>3, <1>9
    <2>2. at(k) = n => k - 1 = m - 1
      BY <1>4, <2>1
    <2>3. at(k) = n => k = m
      BY <1>1, <1>9, <2>2
    <2> QED
      BY <2>1, <2>3
  <1>10. ASSUME NEW i \in I PROVE \E k \in 1..m : Subsequence(s, I)[k] = s[i]
    <2> DEFINE k == rank(i) + 1
    <2>1. k \in 1..m /\ k - 1 = rank(i)
      BY <1>1, <1>4
    <2>2. at(k) = i
      BY <1>3, <1>7, <2>1
    <2> QED
      BY <1>2, <2>1, <2>2
  <1> QED
    BY <1>1, <1>8, <1>9, <1>10 DEF m

LEMMA SubsequenceType ==
    ASSUME NEW T, NEW s, Len(s) \in Nat, NEW I \in SUBSET (1..Len(s)), \A i \in I : s[i] \in T
    PROVE  Subsequence(s, I) \in Seq(T)
  <1> DEFINE at(k) == CHOOSE i \in I : Cardinality({j \in I : j < i}) = k - 1
  <1>1. Cardinality(I) \in Nat
    BY FiniteSubinterval
  <1>2. \A k \in 1..Cardinality(I) : at(k) \in I
    BY PositionOfRank
  <1>3. Subsequence(s, I) \in [1..Cardinality(I) -> T]
    BY <1>2 DEF Subsequence
  <1> QED
    BY <1>1, <1>3

-----------------------------------------------------------------------------
(* What the planner proposes is a reading, and what it asks for are steps  *)
(* on target deployments.                                                  *)
LEMMA DonationType ==
    ASSUME NEW held \in Nat, NEW floor \in Nat, NEW cost \in Nat \ {0}, NEW needed \in Int
    PROVE  /\ DonorGives(held, floor, cost, needed) \in Int
           /\ DonorGives(held, floor, cost, needed) <= held
  <1>1. (needed + cost - 1) \div cost \in Int
    OBVIOUS
  <1> QED
    BY <1>1 DEF DonorGives

LEMMA PlanType ==
    ASSUME NEW cur \in Readings, NEW target \in Deployments, NEW desired \in Nat, NEW priority
    PROVE  ComputeBudgetPlan(cur, target, desired, priority).proposed \in Readings
  <1>1. ASSUME NEW d \in Deployments
        PROVE  cur[d] - Donation(cur, target, desired, priority, d) \in Nat
    <2> DEFINE earlier == {e \in Deployments \ {target} : GivesBefore(cur, priority, e, d)}
               drained == [e \in Deployments |-> IF e = target THEN desired
                                                ELSE IF e \in earlier THEN AtFloor(cur[e], Floor[e])
                                                ELSE cur[e]]
    <2>1. drained \in Readings
      BY BudgetAssumption DEF Readings, AtFloor
    <2>2. Shortfall(cur, target, desired, earlier) \in Int
      BY <2>1, UsageType, BudgetAssumption DEF Shortfall
    <2>3. cur[d] \in Nat /\ Floor[d] \in Nat /\ Cost[d] \in Nat \ {0}
      BY BudgetAssumption DEF Readings
    <2> HIDE DEF earlier
    <2> DEFINE n == DonorGives(cur[d], Floor[d], Cost[d], Shortfall(cur, target, desired, earlier))
    <2>4. n \in Int /\ n <= cur[d]
      BY <2>2, <2>3, DonationType
    <2>5. Donation(cur, target, desired, priority, d) = n
      BY DEF Donation, earlier
    <2> QED
      BY <2>3, <2>4, <2>5
  <1> QED
    BY <1>1 DEF ComputeBudgetPlan, Readings

LEMMA StepsType ==
    ASSUME NEW cur \in Readings, NEW target \in Deployments, NEW proposed \in Readings,
           NEW priority \in Seq(Deployments \cup {Unknown})
    PROVE  EffectiveSteps(cur, BuildActions(cur, target, proposed, priority))
               \in Seq([deployment : Deployments, replicas : Nat])
  <1> DEFINE T == [deployment : Deployments, replicas : Nat]
             order == IF priority = <<>> THEN NameOrder ELSE priority
             gave(d) == d \in Deployments \ {target} /\ proposed[d] < cur[d]
             I == {i \in 1..Len(order) : gave(order[i])}
             donors == Subsequence(order, I)
             actions == BuildActions(cur, target, proposed, priority)
  <1>1. Len(order) \in Nat
    BY NameOrderAssumption
  <1>2. donors \in Seq(Deployments)
    BY <1>1, SubsequenceType
  <1>3. DonorSteps(cur, target, proposed, order) \in Seq(T)
    <2>1. DonorSteps(cur, target, proposed, order)
             = [i \in 1..Len(donors) |-> Step(donors[i], proposed[donors[i]])]
      BY DEF DonorSteps
    <2> HIDE DEF donors
    <2>2. Len(donors) \in Nat /\ \A i \in 1..Len(donors) : donors[i] \in Deployments
      BY <1>2
    <2>3. \A i \in 1..Len(donors) : Step(donors[i], proposed[donors[i]]) \in T
      BY <2>2 DEF Step, Readings
    <2> HIDE DEF T
    <2>4. [i \in 1..Len(donors) |-> Step(donors[i], proposed[donors[i]])] \in Seq(T)
      BY <2>2, <2>3
    <2> QED
      BY <2>1, <2>4
  <1>4. actions \in Seq(T)
    BY <1>3 DEF BuildActions, Step, Readings
  <1> DEFINE J == {i \in 1..Len(actions) : actions[i].replicas # cur[actions[i].deployment]}
  <1>5. Len(actions) \in Nat /\ \A i \in 1..Len(actions) : actions[i] \in T
    <2> HIDE DEF actions, T
    <2> QED
      BY <1>4
  <1>6. Subsequence(actions, J) \in Seq(T)
    BY <1>5, SubsequenceType
  <1> QED
    BY <1>6 DEF EffectiveSteps
-----------------------------------------------------------------------------
(* What a plan takes, and why it fits.  The order of the donors is         *)
(* transitive as well, so among finitely many donors one comes first.      *)
LEMMA ListedBeforeTransitive ==
    ASSUME NEW order, Len(order) \in Nat, NEW a, NEW b, NEW c,
           ListedBefore(order, a, b), ListedBefore(order, b, c)
    PROVE  ListedBefore(order, a, c)
  <1>1. PICK i \in 1..Len(order) : order[i] = a /\ \A j \in 1..i : order[j] # b
    BY DEF ListedBefore
  <1>2. PICK k \in 1..Len(order) : order[k] = b /\ \A j \in 1..k : order[j] # c
    BY DEF ListedBefore
  <1>3. i < k
    BY <1>1, <1>2
  <1>4. \A j \in 1..i : order[j] # c
    BY <1>2, <1>3
  <1> QED
    BY <1>1, <1>4 DEF ListedBefore

LEMMA GivesBeforeTransitive ==
    ASSUME NEW cur \in Readings, NEW priority \in Seq(Deployments \cup {Unknown}),
           NEW a \in Deployments, NEW b \in Deployments, NEW c \in Deployments,
           GivesBefore(cur, priority, a, b), GivesBefore(cur, priority, b, c)
    PROVE  GivesBefore(cur, priority, a, c)
  <1> Len(NameOrder) \in Nat /\ Len(priority) \in Nat
    BY NameOrderAssumption
  <1>1. /\ cur[a] \in Nat /\ cur[b] \in Nat /\ cur[c] \in Nat
        /\ Floor[a] \in Nat /\ Floor[b] \in Nat /\ Floor[c] \in Nat
    BY BudgetAssumption DEF Readings
  <1>2. /\ ListedBefore(NameOrder, a, b) /\ ListedBefore(NameOrder, b, c) => ListedBefore(NameOrder, a, c)
        /\ ListedBefore(priority, a, b) /\ ListedBefore(priority, b, c) => ListedBefore(priority, a, c)
    BY ListedBeforeTransitive
  <1>3. CASE priority = <<>>
    BY <1>1, <1>2, <1>3 DEF GivesBefore, SurplusBefore
  <1>4. CASE priority # <<>>
    <2>1. ListedBefore(priority, b, c) => Listed(priority, b)
      BY DEF ListedBefore, Listed
    <2>2. ListedBefore(priority, a, b) /\ ~Listed(priority, c) => ListedBefore(priority, a, c)
      BY DEF ListedBefore, Listed
    <2> QED
      BY <1>2, <1>4, <2>1, <2>2 DEF GivesBefore
  <1> QED
    BY <1>3, <1>4

LEMMA FirstDonor ==
    ASSUME NEW cur \in Readings, NEW priority \in Seq(Deployments \cup {Unknown}),
           NEW D \in SUBSET Deployments, D # {}
    PROVE  \E d \in D : \A e \in D : ~GivesBefore(cur, priority, e, d)
  <1> DEFINE earlier(d) == {e \in D : GivesBefore(cur, priority, e, d)}
             T == {earlier(d) : d \in D}
             S == FiniteSubsetsOf(Deployments)
             R == StrictSubsetOrdering(Deployments)
  <1>1. S = SUBSET Deployments
    BY BudgetAssumption, FS_FiniteSubsetsOfFinite
  <1>2. T \subseteq S /\ T # {}
    <2>1. \A d \in D : earlier(d) \in SUBSET Deployments
      OBVIOUS
    <2> HIDE DEF earlier, S
    <2> QED
      BY <1>1, <2>1
  <1>3. IsWellFoundedOn(R, S)
    BY FS_StrictSubsetOrderingWellFounded
  <1> HIDE DEF T, S, R
  <1>4. PICK x \in T : \A y \in T : ~(<<y, x>> \in R)
    BY <1>2, <1>3, WFMin
  <1>5. PICK d \in D : x = earlier(d)
    BY DEF T
  <1>6. ASSUME NEW e \in D, GivesBefore(cur, priority, e, d) PROVE FALSE
    <2>1. earlier(e) \subseteq earlier(d)
      BY <1>6, GivesBeforeTransitive
    <2>2. e \in earlier(d) /\ e \notin earlier(e)
      BY <1>6, GivesBeforeStrict
    <2>3. earlier(e) \in T /\ earlier(e) \in SUBSET Deployments /\ earlier(d) \in SUBSET Deployments
      BY DEF T
    <2>4. <<earlier(e), earlier(d)>> \in R
      BY <2>1, <2>2, <2>3 DEF R, StrictSubsetOrdering
    <2> QED
      BY <1>4, <1>5, <2>3, <2>4
  <1> QED
    BY <1>6

(* The reading in which the donors in `drained` have given all they can.   *)
Drained(cur, target, desired, drained) ==
    [e \in Deployments |-> IF e = target THEN desired
                           ELSE IF e \in drained THEN AtFloor(cur[e], Floor[e])
                           ELSE cur[e]]

Earlier(cur, target, priority, d) ==
    {e \in Deployments \ {target} : GivesBefore(cur, priority, e, d)}

LEMMA DrainedType ==
    ASSUME NEW cur \in Readings, NEW target \in Deployments, NEW desired \in Nat, NEW S
    PROVE  /\ Drained(cur, target, desired, S) \in Readings
           /\ Usage(Drained(cur, target, desired, S)) \in Nat
           /\ Shortfall(cur, target, desired, S) = Usage(Drained(cur, target, desired, S)) - TotalBudget
           /\ Shortfall(cur, target, desired, S) \in Int
  <1>1. Drained(cur, target, desired, S) \in Readings
    BY BudgetAssumption DEF Readings, AtFloor, Drained
  <1>2. Usage(Drained(cur, target, desired, S)) \in Nat
    BY <1>1, UsageType
  <1>3. Shortfall(cur, target, desired, S) = Usage(Drained(cur, target, desired, S)) - TotalBudget
    BY DEF Shortfall, Drained
  <1> QED
    BY <1>1, <1>2, <1>3, BudgetAssumption

(* What one donor gives: nothing, or what the shortfall calls for, rounded *)
(* up to whole replicas, or all it holds above its floor.                  *)
LEMMA DonorGivesOne ==
    ASSUME NEW held \in Nat, NEW floor \in Nat, NEW cost \in Nat \ {0}, NEW needed \in Int,
           NEW left \in Int, left = held - DonorGives(held, floor, cost, needed)
    PROVE  /\ left <= held
           /\ left < held => needed > 0 /\ left >= floor
           /\ left > AtFloor(held, floor) /\ needed > 0
                 => left \in 0..held /\ (held - left) * cost >= needed
  <1> DEFINE asked == (needed + cost - 1) \div cost
             spare == held - floor
  <1>1. asked \in Int /\ (needed > 0 => asked > 0)
    OBVIOUS
  <1>2. asked * cost >= needed
    OBVIOUS
  <1>3. DonorGives(held, floor, cost, needed)
            = IF needed <= 0 \/ spare <= 0 THEN 0 ELSE IF asked < spare THEN asked ELSE spare
    BY DEF DonorGives
  <1> HIDE DEF asked
  <1> QED
    BY <1>1, <1>2, <1>3 DEF AtFloor

(* Donors lose replicas or keep them, and one that loses some keeps its    *)
(* floor, and was asked because those before it could not give enough.     *)
LEMMA PlanBounds ==
    ASSUME NEW cur \in Readings, NEW target \in Deployments, NEW desired \in Nat,
           NEW priority \in Seq(Deployments \cup {Unknown}),
           NEW proposed, proposed = ComputeBudgetPlan(cur, target, desired, priority).proposed
    PROVE  /\ proposed \in Readings
           /\ proposed[target] = desired
           /\ NeedsNoDonor(cur, target, desired) => proposed = [cur EXCEPT ![target] = desired]
           /\ \A d \in Deployments \ {target} :
                 /\ proposed[d] <= cur[d]
                 /\ proposed[d] < cur[d] =>
                       /\ proposed[d] >= Floor[d]
                       /\ Shortfall(cur, target, desired, Earlier(cur, target, priority, d)) > 0
                 /\ ~NeedsNoDonor(cur, target, desired) /\ proposed[d] > AtFloor(cur[d], Floor[d]) =>
                       \/ Shortfall(cur, target, desired, Earlier(cur, target, priority, d)) <= 0
                       \/ /\ proposed[d] \in 0..cur[d]
                          /\ (cur[d] - proposed[d]) * Cost[d]
                                >= Shortfall(cur, target, desired, Earlier(cur, target, priority, d))
  <1>1. proposed \in Readings
    BY PlanType
  <1>2. CASE NeedsNoDonor(cur, target, desired)
    <2>1. proposed = [cur EXCEPT ![target] = desired]
      BY <1>2 DEF ComputeBudgetPlan
    <2> QED
      BY <1>1, <1>2, <2>1 DEF Readings
  <1>3. CASE ~NeedsNoDonor(cur, target, desired)
    <2>1. proposed = [d \in Deployments |->
              IF d = target THEN desired
              ELSE cur[d] - Donation(cur, target, desired, priority, d)]
      BY <1>3 DEF ComputeBudgetPlan
    <2>2. proposed[target] = desired
      BY <2>1
    <2>3. ASSUME NEW d \in Deployments \ {target}
          PROVE  /\ proposed[d] <= cur[d]
                 /\ proposed[d] < cur[d] =>
                       /\ proposed[d] >= Floor[d]
                       /\ Shortfall(cur, target, desired, Earlier(cur, target, priority, d)) > 0
                 /\ proposed[d] > AtFloor(cur[d], Floor[d]) =>
                       \/ Shortfall(cur, target, desired, Earlier(cur, target, priority, d)) <= 0
                       \/ /\ proposed[d] \in 0..cur[d]
                          /\ (cur[d] - proposed[d]) * Cost[d]
                                >= Shortfall(cur, target, desired, Earlier(cur, target, priority, d))
      <3> DEFINE needed == Shortfall(cur, target, desired, Earlier(cur, target, priority, d))
      <3>1. proposed[d] = cur[d] - DonorGives(cur[d], Floor[d], Cost[d], needed)
        BY <2>1 DEF Donation, Earlier
      <3>2. needed \in Int
        BY DrainedType
      <3>3. /\ cur[d] \in Nat /\ Floor[d] \in Nat /\ Cost[d] \in Nat \ {0} /\ proposed[d] \in Nat
        BY <1>1, BudgetAssumption DEF Readings
      <3> HIDE DEF needed
      <3>4. /\ proposed[d] <= cur[d]
            /\ proposed[d] < cur[d] => needed > 0 /\ proposed[d] >= Floor[d]
            /\ proposed[d] > AtFloor(cur[d], Floor[d]) /\ needed > 0
                  => proposed[d] \in 0..cur[d] /\ (cur[d] - proposed[d]) * Cost[d] >= needed
        <4> DEFINE held == cur[d]
                   floor == Floor[d]
                   cost == Cost[d]
                   left == proposed[d]
        <4>1. left = held - DonorGives(held, floor, cost, needed)
          BY <3>1
        <4>2. held \in Nat /\ floor \in Nat /\ cost \in Nat \ {0} /\ left \in Int
          BY <3>3
        <4> HIDE DEF held, floor, cost, left
        <4>3. /\ left <= held
              /\ left < held => needed > 0 /\ left >= floor
              /\ left > AtFloor(held, floor) /\ needed > 0
                    => left \in 0..held /\ (held - left) * cost >= needed
          BY <3>2, <4>1, <4>2, DonorGivesOne
        <4> QED
          BY <4>3 DEF held, floor, cost, left
      <3>5. needed <= 0 \/ needed > 0
        BY <3>2
      <3> QED
        BY <3>4, <3>5 DEF needed
    <2> QED
      BY <1>1, <1>3, <2>2, <2>3
  <1> QED
    BY <1>2, <1>3

(* A feasible plan for more replicas of the target fits the budget: either *)
(* all donors give what they can, which is enough, or the first one to     *)
(* keep something above its floor covers what was still missing.           *)
LEMMA FeasiblePlanFits ==
    ASSUME NEW cur \in Readings, NEW target \in Deployments, NEW desired \in Nat,
           NEW priority \in Seq(Deployments \cup {Unknown}),
           NEW answer, answer = ComputeBudgetPlan(cur, target, desired, priority),
           answer.feasible, desired > cur[target]
    PROVE  WithinBudget(answer.proposed)
  <1> DEFINE proposed == answer.proposed
             D == Deployments \ {target}
             keeps(d) == proposed[d] > AtFloor(cur[d], Floor[d])
             Keeping == {d \in D : keeps(d)}
             all == Drained(cur, target, desired, Deployments)
  <1>1. cur[target] \in Nat /\ TotalBudget \in Nat /\ proposed \in Readings /\ proposed[target] = desired
    <2>1. proposed \in Readings /\ proposed[target] = desired
      BY PlanBounds
    <2> QED
      BY <2>1, BudgetAssumption DEF Readings
  <1>2. \A d \in D : cur[d] \in Nat /\ Floor[d] \in Nat /\ proposed[d] \in Nat /\ proposed[d] <= cur[d]
    BY <1>1, PlanBounds, BudgetAssumption DEF Readings
  <1>3. CASE NeedsNoDonor(cur, target, desired)
    <2>1. WithinBudget([cur EXCEPT ![target] = desired])
      BY <1>1, <1>3 DEF NeedsNoDonor
    <2>2. proposed = [cur EXCEPT ![target] = desired]
      BY <1>3, PlanBounds
    <2> QED
      BY <2>1, <2>2
  <1>4. CASE ~NeedsNoDonor(cur, target, desired) /\ Keeping = {}
    <2>1. all \in Readings /\ Usage(all) \in Nat /\ Usage(all) - TotalBudget <= 0
      <3>1. Shortfall(cur, target, desired, Deployments) <= 0
        BY <1>4 DEF ComputeBudgetPlan
      <3> QED
        BY <3>1, DrainedType
    <2>2. \A d \in Deployments : proposed[d] <= all[d]
      BY <1>1, <1>2, <1>4 DEF Drained, AtFloor
    <2> HIDE DEF all, proposed
    <2>3. Usage(proposed) <= Usage(all)
      BY <1>1, <2>1, <2>2, UsageMonotone
    <2> QED
      BY <1>1, <2>1, <2>3, UsageType DEF WithinBudget, proposed
  <1>5. CASE ~NeedsNoDonor(cur, target, desired) /\ Keeping # {}
    <2>1. PICK d \in Keeping : \A e \in Keeping : ~GivesBefore(cur, priority, e, d)
      BY <1>5, FirstDonor
    <2> DEFINE S == Earlier(cur, target, priority, d)
               before == Drained(cur, target, desired, S)
               after == [before EXCEPT ![d] = proposed[d]]
    <2>2. d \in D /\ ~GivesBefore(cur, priority, d, d)
      BY <2>1, GivesBeforeStrict
    <2>3. \A e \in D : e \in S => proposed[e] <= AtFloor(cur[e], Floor[e])
      BY <1>2, <2>1 DEF Earlier, AtFloor
    <2>4. before \in Readings /\ Usage(before) \in Nat /\ before[d] = cur[d]
          /\ Shortfall(cur, target, desired, S) = Usage(before) - TotalBudget
      <3>1. before[d] = cur[d]
        BY <2>2 DEF Drained, Earlier
      <3> QED
        BY <3>1, DrainedType
    <2>5. \A e \in Deployments \ {d} : proposed[e] <= before[e]
      <3>1. \A e \in D : before[e] = IF e \in S THEN AtFloor(cur[e], Floor[e]) ELSE cur[e]
        BY DEF Drained
      <3>2. before[target] = desired
        BY DEF Drained
      <3> HIDE DEF before, S, proposed
      <3> QED
        BY <1>1, <1>2, <2>3, <3>1, <3>2
    <2>6. \/ Shortfall(cur, target, desired, S) <= 0
          \/ /\ proposed[d] \in 0..cur[d]
             /\ (cur[d] - proposed[d]) * Cost[d] >= Shortfall(cur, target, desired, S)
      BY <1>5, <2>1, <2>2, PlanBounds
    <2> HIDE DEF before, S, proposed
    <2>7. CASE Shortfall(cur, target, desired, S) <= 0
      <3>1. \A e \in Deployments : proposed[e] <= before[e]
        BY <1>2, <2>2, <2>4, <2>5
      <3>2. Usage(proposed) <= Usage(before)
        BY <1>1, <2>4, <3>1, UsageMonotone
      <3> QED
        BY <1>1, <2>4, <2>7, <3>2, UsageType DEF WithinBudget, proposed
    <2>8. CASE /\ proposed[d] \in 0..cur[d]
               /\ (cur[d] - proposed[d]) * Cost[d] >= Shortfall(cur, target, desired, S)
      <3>1. after \in Readings /\ Usage(after) = Usage(before) - (cur[d] - proposed[d]) * Cost[d]
        BY <2>2, <2>4, <2>8, UsageTake
      <3>2. \A e \in Deployments : proposed[e] <= after[e]
        BY <1>1, <1>2, <2>2, <2>4, <2>5 DEF Readings
      <3> HIDE DEF after
      <3>3. Usage(proposed) <= Usage(after)
        BY <1>1, <3>1, <3>2, UsageMonotone
      <3>4. Usage(proposed) \in Nat /\ Usage(after) \in Nat
        BY <1>1, <3>1, UsageType
      <3>5. (cur[d] - proposed[d]) * Cost[d] \in Int
        BY <1>2, <2>2, BudgetAssumption
      <3> QED
        BY <1>1, <2>4, <2>8, <3>1, <3>3, <3>4, <3>5 DEF WithinBudget, proposed
    <2> QED
      BY <2>6, <2>7, <2>8
  <1> QED
    BY <1>3, <1>4, <1>5

(* Until the donors a priority list names have given their part, and while *)
(* one it leaves out still has to, the request does not fit.               *)
LEMMA UnlistedDonorIsNeeded ==
    ASSUME NEW cur \in Readings, NEW target \in Deployments, NEW desired \in Nat,
           NEW priority \in Seq(Deployments \cup {Unknown}), priority # <<>>,
           NEW proposed, proposed = ComputeBudgetPlan(cur, target, desired, priority).proposed,
           NEW d \in Deployments \ {target}, proposed[d] < cur[d], ~Listed(priority, d),
           NEW q \in Readings, q[target] = desired,
           \A e \in Deployments \ {target} :
              q[e] >= proposed[e] /\ (~Listed(priority, e) => q[e] >= cur[e])
    PROVE  ~WithinBudget(q)
  <1> DEFINE S == Earlier(cur, target, priority, d)
             before == Drained(cur, target, desired, S)
  <1>0. /\ proposed \in Readings
        /\ \A e \in Deployments \ {target} :
              proposed[e] <= cur[e] /\ (proposed[e] < cur[e] => proposed[e] >= Floor[e])
    BY PlanBounds
  <1>1. /\ before \in Readings /\ Usage(before) \in Nat
        /\ Usage(before) - TotalBudget > 0
    BY DrainedType, PlanBounds
  <1>2. \A e \in Deployments \ {target} : Listed(priority, e) => e \in S
    <2>1. ASSUME NEW e \in Deployments, Listed(priority, e) PROVE ListedBefore(priority, e, d)
      BY <2>1 DEF Listed, ListedBefore
    <2> QED
      BY <2>1 DEF Earlier, GivesBefore
  <1>3. \A e \in Deployments : before[e] <= q[e]
    <2>1. ASSUME NEW e \in Deployments \ {target}
          PROVE  proposed[e] >= AtFloor(cur[e], Floor[e]) /\ AtFloor(cur[e], Floor[e]) <= cur[e]
      <3>1. /\ proposed[e] <= cur[e] /\ (proposed[e] < cur[e] => proposed[e] >= Floor[e])
            /\ proposed[e] \in Nat /\ cur[e] \in Nat /\ Floor[e] \in Nat
        BY <1>0, BudgetAssumption DEF Readings
      <3> QED
        BY <3>1 DEF AtFloor
    <2>2. \A e \in Deployments : q[e] \in Nat /\ cur[e] \in Nat /\ proposed[e] \in Nat /\ AtFloor(cur[e], Floor[e]) \in Nat
      BY <1>0, BudgetAssumption DEF Readings, AtFloor
    <2>3. \A e \in Deployments \ {target} :
              before[e] = IF e \in S THEN AtFloor(cur[e], Floor[e]) ELSE cur[e]
      BY DEF Drained
    <2>4. before[target] = desired
      BY DEF Drained
    <2> HIDE DEF before, S
    <2> QED
      BY <1>2, <2>1, <2>2, <2>3, <2>4
  <1> HIDE DEF before
  <1>4. Usage(before) <= Usage(q)
    BY <1>1, <1>3, UsageMonotone
  <1> QED
    BY <1>1, <1>4, UsageType, BudgetAssumption DEF WithinBudget

(* The steps of a plan: each takes one deployment to the count the plan    *)
(* gives it, a donor that gives or, last of all, the target; and nothing   *)
(* that changes is left out but the donors the order does not list.        *)
Gives(cur, target, proposed, d) == d \in Deployments \ {target} /\ proposed[d] < cur[d]

LEMMA DonorStepsCarryPlan ==
    ASSUME NEW cur, NEW target, NEW proposed, NEW order, Len(order) \in Nat,
           NEW donors, donors = DonorSteps(cur, target, proposed, order)
    PROVE  /\ Len(donors) \in Nat
           /\ \A k \in 1..Len(donors) : \E d :
                 donors[k] = Step(d, proposed[d]) /\ Gives(cur, target, proposed, d) /\ Listed(order, d)
           /\ \A d : Gives(cur, target, proposed, d) /\ Listed(order, d)
                        => \E k \in 1..Len(donors) : donors[k] = Step(d, proposed[d])
  <1> DEFINE gave(d) == d \in Deployments \ {target} /\ proposed[d] < cur[d]
             I == {i \in 1..Len(order) : gave(order[i])}
             names == Subsequence(order, I)
             m == Cardinality(I)
  <1>1. /\ Len(names) = m /\ m \in Nat
        /\ \A k \in 1..m : \E i \in I : names[k] = order[i]
        /\ \A i \in I : \E k \in 1..m : names[k] = order[i]
    <2>1. I \in SUBSET (1..Len(order))
      OBVIOUS
    <2> HIDE DEF I
    <2> QED
      BY <2>1, SubsequenceElements
  <1>2. donors = [i \in 1..Len(names) |-> Step(names[i], proposed[names[i]])]
    BY DEF DonorSteps
  <1>3. \A i \in I : gave(order[i])
    OBVIOUS
  <1>4. \A d : gave(d) /\ Listed(order, d) => \E i \in I : order[i] = d
    BY DEF Listed
  <1>7. \A i \in I : Listed(order, order[i])
    BY DEF Listed
  <1>5. \A d : gave(d) <=> Gives(cur, target, proposed, d)
    BY DEF Gives
  <1> HIDE DEF names, m, I, gave
  <1>6. Len(donors) = m /\ \A k \in 1..m : donors[k] = Step(names[k], proposed[names[k]])
    BY <1>1, <1>2
  <1>8. ASSUME NEW k \in 1..m
        PROVE  \E d : donors[k] = Step(d, proposed[d]) /\ Gives(cur, target, proposed, d) /\ Listed(order, d)
    <2>1. PICK i \in I : names[k] = order[i]
      BY <1>1
    <2> QED
      BY <1>3, <1>5, <1>6, <1>7, <2>1
  <1>9. ASSUME NEW d, Gives(cur, target, proposed, d), Listed(order, d)
        PROVE  \E k \in 1..m : donors[k] = Step(d, proposed[d])
    <2>1. PICK i \in I : order[i] = d
      BY <1>4, <1>5, <1>9
    <2>2. PICK k \in 1..m : names[k] = order[i]
      BY <1>1
    <2> QED
      BY <1>6, <2>1, <2>2
  <1> QED
    BY <1>1, <1>6, <1>8, <1>9

LEMMA StepsCarryPlan ==
    ASSUME NEW cur \in Readings, NEW target \in Deployments, NEW proposed \in Readings,
           NEW priority \in Seq(Deployments \cup {Unknown}),
           NEW steps, steps = EffectiveSteps(cur, BuildActions(cur, target, proposed, priority)),
           NEW order, order = IF priority = <<>> THEN NameOrder ELSE priority
    PROVE  /\ Len(steps) \in Nat
           /\ \A k \in 1..Len(steps) :
                 /\ steps[k].replicas = proposed[steps[k].deployment]
                 /\ \/ Gives(cur, target, proposed, steps[k].deployment) /\ Listed(order, steps[k].deployment)
                    \/ steps[k].deployment = target /\ k = Len(steps)
           /\ proposed[target] # cur[target] => \E k \in 1..Len(steps) : steps[k].deployment = target
           /\ \A d \in Deployments : Gives(cur, target, proposed, d) /\ Listed(order, d)
                 => \E k \in 1..Len(steps) : steps[k].deployment = d
  <1> DEFINE donors == DonorSteps(cur, target, proposed, order)
             actions == BuildActions(cur, target, proposed, priority)
             n == Len(donors)
             J == {i \in 1..Len(actions) : actions[i].replicas # cur[actions[i].deployment]}
             m == Cardinality(J)
  <1>1. Len(order) \in Nat
    BY NameOrderAssumption
  <1>2. /\ n \in Nat
        /\ \A k \in 1..n : \E d :
              donors[k] = Step(d, proposed[d]) /\ Gives(cur, target, proposed, d) /\ Listed(order, d)
        /\ \A d : Gives(cur, target, proposed, d) /\ Listed(order, d)
                     => \E k \in 1..n : donors[k] = Step(d, proposed[d])
    BY <1>1, DonorStepsCarryPlan
  <1>3. /\ Len(actions) = n + 1
        /\ \A i \in 1..n : actions[i] = donors[i]
        /\ actions[n + 1] = Step(target, proposed[target])
    <2>1. actions = Append(donors, Step(target, proposed[target]))
      BY DEF BuildActions
    <2>2. donors \in Seq(Range(donors))
      <3>1. donors = [i \in 1..Len(donors) |-> donors[i]]
        BY DEF DonorSteps
      <3> HIDE DEF donors
      <3> QED
        BY <1>2, <3>1 DEF Range
    <2> HIDE DEF donors, actions
    <2> QED
      BY <1>2, <2>1, <2>2
  <1>4. /\ Len(steps) = m /\ m \in Nat
        /\ \A k \in 1..m : \E i \in J : steps[k] = actions[i] /\ (i = n + 1 => k = m)
        /\ \A i \in J : \E k \in 1..m : steps[k] = actions[i]
    <2>1. J \in SUBSET (1..Len(actions)) /\ Len(actions) \in Nat
      BY <1>2, <1>3
    <2>2. steps = Subsequence(actions, J)
      BY DEF EffectiveSteps
    <2> HIDE DEF J, actions, n
    <2>3. /\ Len(Subsequence(actions, J)) = m /\ m \in Nat
          /\ \A k \in 1..m : \E i \in J :
                Subsequence(actions, J)[k] = actions[i] /\ (i = Len(actions) => k = m)
          /\ \A i \in J : \E k \in 1..m : Subsequence(actions, J)[k] = actions[i]
      BY <2>1, SubsequenceElements
    <2>4. Len(actions) = n + 1
      BY <1>3
    <2> HIDE DEF m
    <2> QED
      BY <2>2, <2>3, <2>4
  <1>5. \A i \in 1..(n + 1) : i \in J <=> actions[i].replicas # cur[actions[i].deployment]
    BY <1>3
  <1>6. J \subseteq 1..(n + 1)
    BY <1>3
  <1> HIDE DEF donors, actions, n, J, m
  <1>7. ASSUME NEW k \in 1..m
        PROVE  /\ steps[k].replicas = proposed[steps[k].deployment]
               /\ \/ Gives(cur, target, proposed, steps[k].deployment) /\ Listed(order, steps[k].deployment)
                  \/ steps[k].deployment = target /\ k = m
    <2>1. PICK i \in J : steps[k] = actions[i] /\ (i = n + 1 => k = m)
      BY <1>4
    <2>2. CASE i = n + 1
      BY <1>3, <2>1, <2>2 DEF Step
    <2>3. CASE i \in 1..n
      <3>1. PICK d : donors[i] = Step(d, proposed[d]) /\ Gives(cur, target, proposed, d) /\ Listed(order, d)
        BY <1>2, <2>3
      <3>2. steps[k] = Step(d, proposed[d])
        BY <1>3, <2>1, <2>3, <3>1
      <3> QED
        BY <3>1, <3>2 DEF Step
    <2> QED
      BY <1>2, <1>6, <2>2, <2>3
  <1>8. ASSUME proposed[target] # cur[target]
        PROVE  \E k \in 1..m : steps[k].deployment = target
    <2>1. n + 1 \in 1..(n + 1)
      BY <1>2
    <2>2. n + 1 \in J
      BY <1>3, <1>5, <1>8, <2>1 DEF Step
    <2> QED
      BY <1>3, <1>4, <2>2 DEF Step
  <1>9. ASSUME NEW d \in Deployments, Gives(cur, target, proposed, d), Listed(order, d)
        PROVE  \E k \in 1..m : steps[k].deployment = d
    <2>1. PICK i \in 1..n : donors[i] = Step(d, proposed[d])
      BY <1>2, <1>9
    <2>2. i \in 1..(n + 1) /\ actions[i] = Step(d, proposed[d])
      BY <1>2, <1>3, <2>1
    <2>3. proposed[d] # cur[d]
      BY <1>9 DEF Gives, Readings
    <2>4. i \in J
      BY <1>5, <2>2, <2>3 DEF Step
    <2>5. PICK k \in 1..m : steps[k] = actions[i]
      BY <1>4, <2>4
    <2> QED
      BY <2>2, <2>5 DEF Step
  <1> QED
    BY <1>4, <1>7, <1>8, <1>9
=============================================================================
