-------------------------- MODULE CustomerPath_proofs --------------------------
(***************************************************************************)
(* What a customer of the payment path meets: the profile his transactions *)
(* are scored with, and the services at the two ends.                      *)
(*                                                                         *)
(* The profile: what the commands of redis_state.py preserve for any       *)
(* number of scoring workers and any amounts.  A worker holds a copy of    *)
(* the profile between reading and writing it; the invariants say what is  *)
(* true of the copies.  The scores (ScoredProfile) rest on the same        *)
(* invariants: its steps are steps of UserProfile.                         *)
(*                                                                         *)
(* The ends, from EdgeServices on: the gateway that takes a transaction    *)
(* and the notification service that tells of its result, for any number   *)
(* of pods, sockets and transactions.  The two parts do not use each       *)
(* other: between them lies TransactionPipeline.                           *)
(***************************************************************************)
EXTENDS ScoredProfile, EdgeServices, FiniteSetTheorems, SequenceTheorems, TLAPS

\* The types, and what Tick relies on: deadlines are not in the past.
TypeInv ==
    /\ TypeOK
    /\ \A w \in Workers : pc[w] # "idle" => work[w].amount \in Amounts

\* Everything that is taken for an average lies between two amounts.
Between(lo, hi) ==
    /\ lo * profile.count <= profile.sum
    /\ profile.sum <= hi * profile.count
    /\ \A w \in Workers : /\ lo * work[w].count <= work[w].sum
                          /\ work[w].sum <= hi * work[w].count

\* What the workers in the middle of an update have read is still current, as
\* long as nobody wrote over somebody's reading.
CopiesAreCurrent ==
    ~overlapped =>
        /\ profile.count = written.count /\ profile.sum = written.sum
        /\ \A w \in Updating : work[w].count = profile.count /\ work[w].sum = profile.sum

-----------------------------------------------------------------------------
\* The pieces of the type invariant that one step changes.
PcOK == pc \in [Workers -> {"idle", "read", "increment", "keepVelocity", "write", "keepProfile"}]
WorkOK ==
    /\ work \in [Workers -> [amount : Nat, count : Nat, sum : Nat, txCount10m : Nat]]
    /\ \A w \in Workers : pc[w] # "idle" => work[w].amount \in Amounts
ProfileOK == profile \in [count : Nat, sum : Nat, txCount10m : Nat, deadline : Nat]
VelocityOK == velocity \in [n : Nat, deadline : Nat]
HistoryOK ==
    /\ increments \in Seq(0..MaxTime)
    /\ written \in [count : Nat, sum : Nat]
    /\ overlapped \in BOOLEAN
    /\ missed \in Nat
CountersOK == now \in 0..MaxTime /\ faults \in 0..MaxFaults

LEMMA Pieces == TypeInv <=> PcOK /\ WorkOK /\ ProfileOK /\ VelocityOK /\ HistoryOK /\ CountersOK
  BY DEF TypeInv, TypeOK, PcOK, WorkOK, ProfileOK, VelocityOK, HistoryOK, CountersOK

LEMMA KeepingFinite == IsFiniteSet(Keeping) /\ Cardinality(Keeping) \in Nat
  BY WorkersAssumption, FS_Subset, FS_CardinalityType DEF Keeping

LEMMA TypeStep == TypeInv /\ [Next]_vars => TypeInv'
  <1> SUFFICES ASSUME TypeInv, [Next]_vars PROVE TypeInv'
    OBVIOUS
  <1>0. /\ PcOK /\ WorkOK /\ ProfileOK /\ VelocityOK /\ HistoryOK /\ CountersOK
        /\ now \in Nat /\ now + Window \in Nat /\ now + ProfileTTL \in Nat
    BY Pieces, ProfileAssumption DEF CountersOK
  <1>1. ASSUME NEW w \in Workers, NEW a \in Amounts, Score(w, a) PROVE TypeInv'
    BY <1>1, ProfileAssumption DEF TypeInv, TypeOK, Score, Goto, Idle, historyVars
  <1>2. ASSUME NEW w \in Workers, ReadProfile(w) PROVE TypeInv'
    BY <1>2 DEF TypeInv, TypeOK, ReadProfile, Goto, historyVars
  <1>3. ASSUME NEW w \in Workers, IncrementVelocity(w) PROVE TypeInv'
    <2>1. now \in 0..MaxTime /\ increments \in Seq(0..MaxTime)
      BY <1>0 DEF HistoryOK, CountersOK
    <2>2. HistoryOK'
      BY <1>0, <1>3, <2>1 DEF IncrementVelocity, HistoryOK
    <2>3. PcOK' /\ pc[w] # "idle" /\ \A v \in Workers : pc'[v] # "idle" => pc[v] # "idle"
      BY <1>0, <1>3 DEF IncrementVelocity, Goto, PcOK
    <2>4. velocity.n + 1 \in Nat /\ VelocityOK'
      BY <1>0, <1>3 DEF IncrementVelocity, VelocityOK
    <2>5. WorkOK'
      BY <1>0, <1>3, <2>3, <2>4 DEF IncrementVelocity, WorkOK
    <2>6. ProfileOK' /\ CountersOK'
      BY <1>0, <1>3 DEF IncrementVelocity, ProfileOK, CountersOK
    <2> QED
      BY <2>2, <2>3, <2>4, <2>5, <2>6 DEF TypeInv, TypeOK, PcOK, WorkOK, ProfileOK, VelocityOK, HistoryOK, CountersOK
  <1>4. ASSUME NEW w \in Workers, KeepVelocity(w) PROVE TypeInv'
    <2>1. PcOK' /\ \A v \in Workers : pc'[v] # "idle" => pc[v] # "idle"
      BY <1>0, <1>4 DEF KeepVelocity, Goto, PcOK, KeepVelocityUntil, Renewed, historyVars
    <2>2. VelocityOK'
      BY <1>0, <1>4 DEF KeepVelocity, VelocityOK, KeepVelocityUntil, Renewed, historyVars
    <2>3. WorkOK' /\ ProfileOK' /\ HistoryOK' /\ CountersOK'
      BY <1>0, <1>4, <2>1 DEF KeepVelocity, WorkOK, ProfileOK, HistoryOK, CountersOK, KeepVelocityUntil, Renewed, historyVars
    <2> QED
      BY <2>1, <2>2, <2>3 DEF TypeInv, TypeOK, PcOK, WorkOK, ProfileOK, VelocityOK, HistoryOK, CountersOK
  <1>5. ASSUME NEW w \in Workers, WriteProfile(w) PROVE TypeInv'
    <2>1. PcOK' /\ \A v \in Workers : pc'[v] # "idle" => pc[v] # "idle"
      BY <1>0, <1>5 DEF WriteProfile, WriteWith, Goto, PcOK
    <2>2. /\ work[w].amount \in Nat /\ work[w].txCount10m \in Nat
          /\ work[w].count + 1 \in Nat /\ work[w].sum + work[w].amount \in Nat
      BY <1>0 DEF WorkOK
    <2>3. ProfileOK'
      BY <1>0, <1>5, <2>2 DEF WriteProfile, WriteWith, ProfileOK
    <2>4. HistoryOK'
      BY <1>0, <1>5, <2>2 DEF WriteProfile, WriteWith, HistoryOK
    <2>5. WorkOK' /\ VelocityOK' /\ CountersOK'
      BY <1>0, <1>5, <2>1 DEF WriteProfile, WriteWith, WorkOK, VelocityOK, CountersOK
    <2> QED
      BY <2>1, <2>3, <2>4, <2>5 DEF TypeInv, TypeOK, PcOK, WorkOK, ProfileOK, VelocityOK, HistoryOK, CountersOK
  <1>6. ASSUME NEW w \in Workers, KeepProfile(w) PROVE TypeInv'
    <2>1. PcOK' /\ pc'[w] = "idle" /\ \A v \in Workers : pc'[v] # "idle" => pc[v] # "idle" /\ v # w
      BY <1>0, <1>6 DEF KeepProfile, Goto, PcOK, Renewed, historyVars
    <2>2. ProfileOK'
      BY <1>0, <1>6 DEF KeepProfile, ProfileOK, Renewed, historyVars
    <2>3. WorkOK'
      BY <1>0, <1>6, <2>1 DEF KeepProfile, WorkOK, Idle, Renewed, historyVars
    <2>4. VelocityOK' /\ HistoryOK' /\ CountersOK'
      BY <1>0, <1>6 DEF KeepProfile, VelocityOK, HistoryOK, CountersOK, Renewed, historyVars
    <2> QED
      BY <2>1, <2>2, <2>3, <2>4 DEF TypeInv, TypeOK, PcOK, WorkOK, ProfileOK, VelocityOK, HistoryOK, CountersOK
  <1>7. ASSUME NEW w \in Workers, Abandon(w) PROVE TypeInv'
    <2>1. PcOK' /\ \A v \in Workers : pc'[v] # "idle" => pc[v] # "idle" /\ v # w
      BY <1>0, <1>7 DEF Abandon, Goto, PcOK, historyVars
    <2>2. WorkOK'
      BY <1>0, <1>7, <2>1 DEF Abandon, WorkOK, Idle, historyVars
    <2>3. CountersOK'
      BY <1>0, <1>7, ProfileAssumption DEF Abandon, CountersOK, historyVars
    <2>4. ProfileOK' /\ VelocityOK' /\ HistoryOK'
      BY <1>0, <1>7 DEF Abandon, ProfileOK, VelocityOK, HistoryOK, historyVars
    <2> QED
      BY <2>1, <2>2, <2>3, <2>4 DEF TypeInv, TypeOK, PcOK, WorkOK, ProfileOK, VelocityOK, HistoryOK, CountersOK
  <1>8. CASE Tick
    <2>1. ProfileOK' /\ VelocityOK'
      BY <1>0, <1>8 DEF Tick, ProfileOK, VelocityOK, NoProfile, NoVelocity, Forever
    <2>2. HistoryOK'
      <3>1. increments' = increments
        BY <1>8 DEF Tick
      <3>2. written' \in {written, Nothing}
        BY <1>8 DEF Tick
      <3>4. missed' \in Nat
        BY <1>0, <1>8, KeepingFinite DEF Tick, HistoryOK
      <3>5. overlapped' \in BOOLEAN
        BY <1>0, <1>8, Zenon DEF Tick, HistoryOK
      <3>3. Nothing \in [count : Nat, sum : Nat]
        BY DEF Nothing
      <3> QED
        BY <1>0, <3>1, <3>2, <3>3, <3>4, <3>5 DEF HistoryOK
    <2>3. PcOK' /\ WorkOK'
      BY <1>0, <1>8 DEF Tick, PcOK, WorkOK
    <2>4. CountersOK'
      BY <1>0, <1>8, ProfileAssumption DEF Tick, CountersOK
    <2> QED
      BY <2>1, <2>2, <2>3, <2>4 DEF TypeInv, TypeOK, PcOK, WorkOK, ProfileOK, VelocityOK, HistoryOK, CountersOK
  <1>9. CASE UNCHANGED vars
    BY <1>9 DEF vars, TypeInv, TypeOK, historyVars
  <1> QED
    BY <1>1, <1>2, <1>3, <1>4, <1>5, <1>6, <1>7, <1>8, <1>9 DEF Next

LEMMA InitInv == Init => TypeInv /\ CopiesAreCurrent
  <1> SUFFICES ASSUME Init PROVE TypeInv /\ CopiesAreCurrent
    OBVIOUS
  <1>1. PcOK /\ WorkOK /\ CountersOK
    BY ProfileAssumption DEF Init, PcOK, WorkOK, CountersOK, Idle
  <1>2. <<>> \in Seq(0..MaxTime)
    OBVIOUS
  <1>4. ProfileOK /\ VelocityOK
    BY DEF Init, ProfileOK, VelocityOK, NoProfile, NoVelocity, Forever
  <1>5. HistoryOK
    BY <1>2 DEF Init, HistoryOK, Nothing
  <1>3. CopiesAreCurrent
    BY DEF Init, CopiesAreCurrent, NoProfile, Nothing, Updating
  <1> QED
    BY <1>1, <1>3, <1>4, <1>5, Pieces

\* The profile of a user and the workers' copies keep their types.
THEOREM TypeCorrect == Spec => []TypeOK
  <1>1. TypeInv => TypeOK
    BY DEF TypeInv
  <1> QED
    BY <1>1, InitInv, TypeStep, PTL DEF Spec

-----------------------------------------------------------------------------
\* One more amount keeps an average between the bounds.
LEMMA OneMore ==
    ASSUME NEW lo \in Nat, NEW hi \in Nat, NEW count \in Nat, NEW sum \in Nat, NEW a \in Nat,
           lo * count <= sum, sum <= hi * count, lo <= a, a <= hi
    PROVE  lo * (count + 1) <= sum + a /\ sum + a <= hi * (count + 1)
  <1>1. lo * (count + 1) = lo * count + lo /\ hi * (count + 1) = hi * count + hi
    OBVIOUS
  <1>2. lo * count \in Nat /\ hi * count \in Nat
    OBVIOUS
  <1> QED
    BY <1>1, <1>2

LEMMA BetweenStep ==
    ASSUME NEW lo \in Nat, NEW hi \in Nat, \A a \in Amounts : lo <= a /\ a <= hi,
           TypeInv, Between(lo, hi), [Next]_vars
    PROVE  Between(lo, hi)'
  <1>1. lo * 0 = 0 /\ hi * 0 = 0
    OBVIOUS
  <1>2. ASSUME NEW w \in Workers, NEW a \in Amounts, Score(w, a) PROVE Between(lo, hi)'
    BY <1>1, <1>2 DEF Score, Idle, Between, TypeInv, TypeOK, historyVars
  <1>3. ASSUME NEW w \in Workers, ReadProfile(w) PROVE Between(lo, hi)'
    BY <1>3 DEF ReadProfile, Between, TypeInv, TypeOK, historyVars
  <1>4. ASSUME NEW w \in Workers, WriteProfile(w) PROVE Between(lo, hi)'
    <2>1. /\ work[w].count \in Nat /\ work[w].sum \in Nat /\ work[w].amount \in Nat
          /\ lo <= work[w].amount /\ work[w].amount <= hi
          /\ lo * work[w].count <= work[w].sum /\ work[w].sum <= hi * work[w].count
      BY <1>4 DEF WriteProfile, WriteWith, Between, TypeInv, TypeOK
    <2>2. profile'.count = work[w].count + 1 /\ profile'.sum = work[w].sum + work[w].amount
          /\ work' = work
      BY <1>4 DEF WriteProfile, WriteWith, TypeInv, TypeOK
    <2>3. lo * profile'.count <= profile'.sum /\ profile'.sum <= hi * profile'.count
      BY <2>1, <2>2, OneMore
    <2> QED
      BY <2>2, <2>3 DEF Between
  <1>5. ASSUME NEW w \in Workers,
               IncrementVelocity(w) \/ KeepVelocity(w) \/ KeepProfile(w) \/ Abandon(w)
        PROVE  Between(lo, hi)'
    <2>1. profile'.count = profile.count /\ profile'.sum = profile.sum
      BY <1>5 DEF IncrementVelocity, KeepVelocity, KeepProfile, Abandon, TypeInv, TypeOK, KeepVelocityUntil, Renewed, historyVars
    <2>2. ASSUME NEW v \in Workers
          PROVE  \/ work'[v] = Idle
                 \/ work'[v].count = work[v].count /\ work'[v].sum = work[v].sum
      <3>1. /\ work \in [Workers -> [amount : Nat, count : Nat, sum : Nat, txCount10m : Nat]]
            /\ work[v] \in [amount : Nat, count : Nat, sum : Nat, txCount10m : Nat]
        BY DEF TypeInv, TypeOK
      <3>2. CASE IncrementVelocity(w)
        BY <3>1, <3>2 DEF IncrementVelocity
      <3>3. CASE KeepVelocity(w) \/ KeepProfile(w) \/ Abandon(w)
        BY <3>1, <3>3 DEF KeepVelocity, KeepProfile, Abandon, KeepVelocityUntil, Renewed, historyVars
      <3> QED
        BY <1>5, <3>2, <3>3
    <2> QED
      BY <1>1, <2>1, <2>2 DEF Between, Idle
  <1>6. CASE Tick
    BY <1>1, <1>6 DEF Tick, NoProfile, Between
  <1>7. CASE UNCHANGED vars
    BY <1>7 DEF vars, Between, historyVars
  <1> QED
    BY <1>2, <1>3, <1>4, <1>5, <1>6, <1>7 DEF Next

AllBetween ==
    \A lo, hi \in Amounts : (\A a \in Amounts : lo <= a /\ a <= hi) => Between(lo, hi)

\* However many workers overwrite each other's updates and wherever updates
\* break off, the average of a profile is an average of amounts of that user.
THEOREM AverageStaysPlausible == Spec => []AverageIsPlausible
  <1>1. Init => AllBetween
    BY ProfileAssumption DEF Init, NoProfile, Idle, Between, AllBetween
  <1>2. TypeInv /\ AllBetween /\ [Next]_vars => (TypeInv /\ AllBetween)'
    <2> SUFFICES ASSUME TypeInv, AllBetween, [Next]_vars PROVE AllBetween'
      BY TypeStep
    <2>1. ASSUME NEW lo \in Amounts, NEW hi \in Amounts, \A a \in Amounts : lo <= a /\ a <= hi
          PROVE  Between(lo, hi)'
      <3>1. lo \in Nat /\ hi \in Nat /\ Between(lo, hi)
        BY <2>1, ProfileAssumption DEF AllBetween
      <3> QED
        BY <2>1, <3>1, BetweenStep
    <2> QED
      BY <2>1 DEF AllBetween
  <1>3. AllBetween => AverageIsPlausible
    BY DEF AllBetween, Between, AverageIsPlausible
  <1> QED
    BY <1>1, <1>2, <1>3, InitInv, PTL DEF Spec

-----------------------------------------------------------------------------
LEMMA CopiesStep == TypeInv /\ CopiesAreCurrent /\ [Next]_vars => CopiesAreCurrent'
  <1> SUFFICES ASSUME TypeInv, CopiesAreCurrent, [Next]_vars PROVE CopiesAreCurrent'
    OBVIOUS
  <1> USE DEF TypeInv, TypeOK, CopiesAreCurrent, Updating
  <1>1. ASSUME NEW w \in Workers, NEW a \in Amounts, Score(w, a) PROVE CopiesAreCurrent'
    BY <1>1 DEF Score, Goto, historyVars
  <1>2. ASSUME NEW w \in Workers, ReadProfile(w) PROVE CopiesAreCurrent'
    BY <1>2 DEF ReadProfile, Goto, historyVars
  <1>3. ASSUME NEW w \in Workers, IncrementVelocity(w) \/ KeepVelocity(w) PROVE CopiesAreCurrent'
    <2>2. Updating' = Updating /\ UNCHANGED <<overlapped, profile, written>>
      BY <1>3 DEF IncrementVelocity, KeepVelocity, Goto, KeepVelocityUntil, Renewed, historyVars
    <2>3. \A v \in Workers : work'[v].count = work[v].count /\ work'[v].sum = work[v].sum
      <3>1. CASE IncrementVelocity(w)
        BY <3>1 DEF IncrementVelocity
      <3>2. CASE KeepVelocity(w)
        BY <3>2 DEF KeepVelocity, KeepVelocityUntil, Renewed, historyVars
      <3> QED
        BY <1>3, <3>1, <3>2
    <2> QED
      BY <2>2, <2>3
  <1>4. ASSUME NEW w \in Workers, WriteProfile(w) PROVE CopiesAreCurrent'
    <2>1. ~overlapped' => ~overlapped /\ Updating = {w} /\ Updating' = {}
      BY <1>4 DEF WriteProfile, WriteWith, Goto
    <2>2. w \in Updating
      BY <1>4 DEF WriteProfile, WriteWith
    <2>3. ~overlapped' => profile'.count = written'.count /\ profile'.sum = written'.sum
      BY <1>4, <2>1, <2>2 DEF WriteProfile, WriteWith
    <2> QED
      BY <2>1, <2>3
  <1>5. ASSUME NEW w \in Workers, KeepProfile(w) \/ Abandon(w) PROVE CopiesAreCurrent'
    BY <1>5 DEF KeepProfile, Abandon, Goto, Renewed, historyVars
  <1>6. CASE Tick
    <2>1. CASE Gone(profile)
      <3>1. profile' = NoProfile /\ written' = Nothing /\ (overlapped' <=> Updating # {})
        BY <1>6, <2>1 DEF Tick
      <3>2. Updating' = Updating
        BY <1>6 DEF Tick, Updating
      <3> QED
        BY <3>1, <3>2 DEF NoProfile, Nothing
    <2>2. CASE ~Gone(profile)
      <3>1. UNCHANGED <<profile, written, overlapped, pc, work>>
        BY <1>6, <2>2 DEF Tick
      <3> QED
        BY <3>1
    <2> QED
      BY <2>1, <2>2
  <1>7. CASE UNCHANGED vars
    BY <1>7 DEF vars, historyVars
  <1> QED
    BY <1>1, <1>2, <1>3, <1>4, <1>5, <1>6, <1>7 DEF Next

\* The average is exact as long as no two workers update the user at once and the
\* profile is not dropped under a reading, wherever an update breaks off.
THEOREM AverageStaysExact == Spec => []AverageIsExact
  <1>1. TypeInv /\ CopiesAreCurrent /\ [Next]_vars => (TypeInv /\ CopiesAreCurrent)'
    BY TypeStep, CopiesStep
  <1>2. CopiesAreCurrent => AverageIsExact
    BY DEF CopiesAreCurrent, AverageIsExact
  <1> QED
    BY <1>1, <1>2, InitInv, PTL DEF Spec

-----------------------------------------------------------------------------
\* The transactions counted since the time to live of the counter was last
\* renewed.
Unkept == {i \in DOMAIN increments : increments[i] > velocity.deadline - Window}

\* Transactions of the window that the time to live does not cover belong to a
\* worker that is about to renew it, to one that broke off, or to one whose
\* increment went with an earlier counter.
KeptInTime ==
    velocity.deadline # Forever =>
        Cardinality(Unkept) <= missed + faults + Cardinality(Keeping)

\* A key that does not exist has no deadline.
KeysExist == velocity.n = 0 => velocity.deadline = Forever

NotAhead == \A i \in DOMAIN increments : increments[i] <= now

CountingInv == TypeInv /\ NotAhead /\ KeysExist /\ KeptInTime /\ VelocityNeverUndercounts

\* Positions of transactions counted after t.
After(t) == {i \in DOMAIN increments : increments[i] > t}

LEMMA Stamps == TypeInv => \A i \in DOMAIN increments : increments[i] \in Nat
  <1> SUFFICES ASSUME TypeInv, NEW i \in DOMAIN increments PROVE increments[i] \in Nat
    OBVIOUS
  <1>1. increments \in Seq(0..MaxTime)
    BY DEF TypeInv, TypeOK
  <1>2. increments[i] \in 0..MaxTime
    <2>1. i \in 1..Len(increments)
      BY <1>1
    <2> QED
      BY <1>1, <2>1, ElementOfSeq
  <1> QED
    BY <1>2, ProfileAssumption

LEMMA AfterFinite ==
    ASSUME TypeInv, NEW t
    PROVE  IsFiniteSet(After(t)) /\ Cardinality(After(t)) \in Nat
  <1>1. DOMAIN increments = 1..Len(increments) /\ Len(increments) \in Nat
    BY DEF TypeInv, TypeOK
  <1>2. IsFiniteSet(DOMAIN increments)
    BY <1>1, FS_Interval
  <1> QED
    BY <1>2, FS_Subset, FS_CardinalityType DEF After

LEMMA OneMoreAfter ==
    ASSUME TypeInv, NEW t, increments' = Append(increments, now)
    PROVE  IsFiniteSet(After(t)') /\ Cardinality(After(t)') <= Cardinality(After(t)) + 1
  <1>1. increments \in Seq(0..MaxTime)
    BY DEF TypeInv, TypeOK
  <1>2. After(t)' \subseteq After(t) \cup {Len(increments) + 1}
    BY <1>1 DEF After
  <1>3. /\ IsFiniteSet(After(t) \cup {Len(increments) + 1})
        /\ Cardinality(After(t) \cup {Len(increments) + 1}) <= Cardinality(After(t)) + 1
    BY AfterFinite, FS_AddElement
  <1>4. /\ IsFiniteSet(After(t)')
        /\ Cardinality(After(t)') <= Cardinality(After(t) \cup {Len(increments) + 1})
    BY <1>2, <1>3, FS_Subset
  <1> QED
    BY <1>3, <1>4, AfterFinite, FS_CardinalityType

\* Steps that count no transaction and leave the counter and the clock alone,
\* and take a worker out of Keeping only by way of a fault.
LEMMA QuietCounting ==
    ASSUME CountingInv, UNCHANGED <<now, velocity, increments, missed>>,
           faults' \in Nat,
           \/ faults' = faults /\ Keeping' = Keeping
           \/ faults' = faults + 1 /\ \E w \in Workers : Keeping' = Keeping \ {w}
    PROVE  (NotAhead /\ KeysExist /\ KeptInTime /\ VelocityNeverUndercounts)'
  <1>1. faults \in Nat /\ faults' + Cardinality(Keeping') >= faults + Cardinality(Keeping)
    <2>1. faults \in Nat
      BY ProfileAssumption DEF CountingInv, TypeInv, TypeOK
    <2>2. ASSUME NEW w \in Workers
          PROVE  /\ Cardinality(Keeping \ {w}) >= Cardinality(Keeping) - 1
                 /\ Cardinality(Keeping \ {w}) \in Nat
      <3>1. /\ IsFiniteSet(Keeping \ {w})
            /\ Cardinality(Keeping \ {w}) \in {Cardinality(Keeping) - 1, Cardinality(Keeping)}
        BY KeepingFinite, FS_RemoveElement
      <3>2. Cardinality(Keeping \ {w}) \in Nat
        BY <3>1, FS_CardinalityType
      <3> QED
        BY <3>1, <3>2, KeepingFinite
    <2>3. CASE faults' = faults /\ Keeping' = Keeping
      BY <2>1, <2>3, KeepingFinite
    <2>4. ASSUME NEW w \in Workers, faults' = faults + 1, Keeping' = Keeping \ {w}
          PROVE  faults' + Cardinality(Keeping') >= faults + Cardinality(Keeping)
      <3>1. Cardinality(Keeping') = Cardinality(Keeping \ {w})
        BY <2>4
      <3> QED
        BY <2>1, <2>2, <2>4, <3>1, KeepingFinite
    <2> QED
      BY <2>1, <2>3, <2>4
  <1>2. Unkept' = Unkept /\ Recent' = Recent
    BY DEF Unkept, Recent
  <1>3. Cardinality(Unkept) \in Nat /\ Recent \in Nat
    BY AfterFinite DEF CountingInv, After, Unkept, Recent
  <1>4. Cardinality(Keeping') \in Nat
    BY KeepingFinite, FS_RemoveElement, FS_CardinalityType
  <1>5. velocity.n \in Nat /\ missed \in Nat
    BY DEF CountingInv, TypeInv, TypeOK
  <1>6. NotAhead' /\ KeysExist'
    BY DEF CountingInv, NotAhead, KeysExist
  <1>7. KeptInTime'
    BY <1>1, <1>2, <1>3, <1>4, <1>5, KeepingFinite DEF CountingInv, KeptInTime
  <1>8. VelocityNeverUndercounts'
    BY <1>1, <1>2, <1>3, <1>5 DEF CountingInv, VelocityNeverUndercounts
  <1> QED
    BY <1>6, <1>7, <1>8

LEMMA IncrementCounts ==
    ASSUME CountingInv, NEW w \in Workers, IncrementVelocity(w)
    PROVE  (NotAhead /\ KeysExist /\ KeptInTime /\ VelocityNeverUndercounts)'
  <1>t. /\ TypeInv /\ now \in Nat /\ faults \in Nat /\ missed \in Nat /\ velocity.n \in Nat
        /\ increments \in Seq(0..MaxTime)
    BY ProfileAssumption DEF CountingInv, TypeInv, TypeOK
  <1>1. /\ increments' = Append(increments, now) /\ UNCHANGED <<now, missed, faults>>
        /\ velocity'.n = velocity.n + 1 /\ velocity'.deadline = velocity.deadline
    BY DEF IncrementVelocity, CountingInv, TypeInv, TypeOK
  <1>2. NotAhead'
    BY <1>1, <1>t DEF CountingInv, NotAhead
  <1>3. /\ Recent = Cardinality(After(now - Window)) /\ Recent' = Cardinality(After(now - Window)')
        /\ Unkept = After(velocity.deadline - Window) /\ Unkept' = After(velocity.deadline - Window)'
    BY <1>1 DEF Recent, Unkept, After
  <1>4. Recent' <= Recent + 1 /\ Cardinality(Unkept') <= Cardinality(Unkept) + 1
    BY <1>1, <1>3, <1>t, OneMoreAfter
  <1>5. /\ Recent \in Nat /\ Cardinality(Unkept) \in Nat
        /\ Recent' \in Nat /\ Cardinality(Unkept') \in Nat
    BY <1>1, <1>3, <1>t, AfterFinite, OneMoreAfter, FS_CardinalityType
  <1>6. Cardinality(Keeping') = Cardinality(Keeping) + 1
    <2>1. Keeping' = Keeping \cup {w} /\ w \notin Keeping
      BY DEF IncrementVelocity, Goto, Keeping, CountingInv, TypeInv, TypeOK
    <2> QED
      BY <2>1, KeepingFinite, FS_AddElement
  <1>7. KeysExist'
    BY <1>1, <1>t DEF KeysExist
  <1>8. KeptInTime'
    BY <1>t, <1>1, <1>4, <1>5, <1>6, KeepingFinite DEF CountingInv, KeptInTime
  <1>9. VelocityNeverUndercounts'
    BY <1>t, <1>1, <1>4, <1>5 DEF CountingInv, VelocityNeverUndercounts
  <1> QED
    BY <1>2, <1>7, <1>8, <1>9

LEMMA KeepCounts ==
    ASSUME CountingInv, NEW w \in Workers, KeepVelocity(w), faults \in Nat
    PROVE  (NotAhead /\ KeysExist /\ KeptInTime /\ VelocityNeverUndercounts)'
  <1>t. /\ now \in Nat /\ Window \in Nat /\ missed \in Nat /\ velocity.n \in Nat
        /\ increments \in Seq(0..MaxTime)
    BY ProfileAssumption DEF CountingInv, TypeInv, TypeOK
  <1>1. UNCHANGED <<now, increments, missed, faults>>
    BY DEF KeepVelocity, KeepVelocityUntil, historyVars
  <1>2. NotAhead'
    BY <1>1 DEF CountingInv, NotAhead
  <1>3. IsFiniteSet(Keeping') /\ Cardinality(Keeping') \in Nat
    BY KeepingFinite, WorkersAssumption, FS_Subset, FS_CardinalityType DEF Keeping
  <1>4. CASE velocity.n = 0
    <2>1. velocity' = velocity /\ velocity.deadline = Forever
      BY <1>4 DEF KeepVelocity, KeepVelocityUntil, Renewed, CountingInv, KeysExist
    <2> QED
      BY <1>1, <1>2, <2>1 DEF CountingInv, KeysExist, KeptInTime, VelocityNeverUndercounts, Recent
  <1>5. CASE velocity.n > 0
    <2>1. velocity'.n = velocity.n /\ velocity'.deadline = now + Window
      BY <1>5 DEF KeepVelocity, KeepVelocityUntil, Renewed, CountingInv, TypeInv, TypeOK
    <2>2. KeysExist' /\ VelocityNeverUndercounts'
      BY <1>1, <1>5, <2>1 DEF CountingInv, KeysExist, VelocityNeverUndercounts, Recent
    <2>3. Unkept' = {}
      <3>1. ASSUME NEW i \in DOMAIN increments PROVE ~(increments[i] > now + Window - Window)
        <4>1. increments[i] <= now /\ increments[i] \in Nat
          BY Stamps DEF CountingInv, NotAhead
        <4> QED
          BY <1>t, <4>1
      <3>2. velocity'.deadline - Window = now + Window - Window
        BY <2>1, <1>t
      <3> QED
        BY <1>1, <3>1, <3>2, Zenon DEF Unkept
    <2>4. Cardinality(Unkept') = 0 /\ missed' \in Nat /\ faults' \in Nat
      BY <1>1, <1>t, <2>3, FS_EmptySet
    <2> QED
      BY <1>2, <1>3, <2>2, <2>4 DEF KeptInTime
  <1> QED
    BY <1>4, <1>5, <1>t

\* When the counter is dropped, its time to live covered all of the window but
\* what broken-off updates have counted and what those between incr and expire
\* have, whom the history takes down at that moment.
LEMMA TickCounts ==
    ASSUME CountingInv, Tick
    PROVE  (NotAhead /\ KeysExist /\ KeptInTime /\ VelocityNeverUndercounts)'
  <1>t. /\ TypeInv /\ now \in Nat /\ faults \in Nat /\ missed \in Nat /\ Window \in Nat
        /\ velocity.n \in Nat /\ velocity.deadline \in Nat /\ increments \in Seq(0..MaxTime)
    BY ProfileAssumption DEF CountingInv, TypeInv, TypeOK
  <1>1. UNCHANGED <<pc, increments, faults>> /\ now' = now + 1
    BY DEF Tick
  <1>2. Keeping' = Keeping /\ Cardinality(Keeping) \in Nat
    BY <1>1, KeepingFinite DEF Keeping
  <1>3. NotAhead'
    <2>1. ASSUME NEW i \in DOMAIN increments PROVE increments[i] <= now + 1
      <3>1. increments[i] <= now /\ increments[i] \in Nat
        BY Stamps DEF CountingInv, NotAhead
      <3> QED
        BY <1>t, <3>1
    <2> QED
      BY <1>1, <2>1 DEF NotAhead
  <1>i. \A i \in DOMAIN increments : increments[i] \in Nat
    BY <1>t, Stamps
  <1>4. /\ Recent = Cardinality(After(now - Window))
        /\ Recent' = Cardinality(After(now + 1 - Window))
        /\ Unkept = After(velocity.deadline - Window)
    <2>1. now' = now + 1
      BY <1>1
    <2>2. now' - Window = now + 1 - Window
      BY <2>1, <1>t
    <2>3. increments' = increments
      BY <1>1
    <2> QED
      BY <2>2, <2>3, Zenon DEF Recent, Unkept, After
  <1>5. Recent' \in Nat /\ Recent \in Nat /\ Cardinality(Unkept) \in Nat
    BY <1>4, <1>t, AfterFinite
  <1>6. CASE Gone(velocity)
    <2>1. velocity' = NoVelocity /\ velocity.deadline # Forever /\ velocity.deadline <= now + 1
      BY <1>6 DEF Tick, Gone
    <2>2. Recent' <= Cardinality(Unkept)
      <3>1. After(now + 1 - Window) \subseteq After(velocity.deadline - Window)
        BY <1>t, <1>i, <2>1 DEF After
      <3> QED
        BY <1>4, <1>t, <3>1, AfterFinite, FS_Subset
    <2>3. missed' = missed + Cardinality(Keeping)
      BY <1>6 DEF Tick
    <2>4. Recent' <= missed' + faults
      BY <1>2, <1>5, <1>t, <2>1, <2>2, <2>3 DEF CountingInv, KeptInTime
    <2> QED
      BY <1>1, <1>2, <1>3, <1>5, <1>t, <2>1, <2>3, <2>4
      DEF NoVelocity, KeysExist, KeptInTime, VelocityNeverUndercounts
  <1>7. CASE ~Gone(velocity)
    <2>1. velocity' = velocity /\ missed' = missed
      BY <1>7 DEF Tick
    <2>2. Recent' <= Recent
      <3>1. After(now + 1 - Window) \subseteq After(now - Window)
        BY <1>t, <1>i DEF After
      <3> QED
        BY <1>4, <1>t, <3>1, AfterFinite, FS_Subset
    <2>3. KeysExist' /\ KeptInTime'
      BY <1>1, <1>2, <2>1 DEF CountingInv, KeysExist, KeptInTime, Unkept
    <2> QED
      BY <1>1, <1>3, <1>5, <1>t, <2>1, <2>2, <2>3 DEF CountingInv, VelocityNeverUndercounts
  <1> QED
    BY <1>6, <1>7

LEMMA CountingStep == CountingInv /\ [Next]_vars => CountingInv'
  <1> SUFFICES ASSUME CountingInv, [Next]_vars
               PROVE  (NotAhead /\ KeysExist /\ KeptInTime /\ VelocityNeverUndercounts)'
    BY TypeStep DEF CountingInv
  <1>t. faults \in Nat /\ faults + 1 \in Nat
    BY ProfileAssumption DEF CountingInv, TypeInv, TypeOK
  <1>p. pc \in [Workers -> {"idle", "read", "increment", "keepVelocity", "write", "keepProfile"}]
    BY DEF CountingInv, TypeInv, TypeOK
  <1>1. ASSUME NEW w \in Workers,
               \/ \E a \in Amounts : Score(w, a)
               \/ ReadProfile(w) \/ WriteProfile(w) \/ KeepProfile(w)
        PROVE  (NotAhead /\ KeysExist /\ KeptInTime /\ VelocityNeverUndercounts)'
    <2>1. /\ UNCHANGED <<now, velocity, increments, missed, faults>>
          /\ pc[w] # "keepVelocity"
          /\ \E step \in {"read", "increment", "keepProfile", "idle"} : pc' = [pc EXCEPT ![w] = step]
      BY <1>1 DEF Score, ReadProfile, WriteProfile, WriteWith, KeepProfile, Goto, historyVars, Renewed
    <2>2. Keeping' = Keeping
      BY <1>p, <2>1 DEF Keeping
    <2> QED
      BY <1>t, <2>1, <2>2, QuietCounting
  <1>2. ASSUME NEW w \in Workers, Abandon(w)
        PROVE  (NotAhead /\ KeysExist /\ KeptInTime /\ VelocityNeverUndercounts)'
    <2>1. /\ UNCHANGED <<now, velocity, increments, missed>> /\ faults' = faults + 1
          /\ pc' = [pc EXCEPT ![w] = "idle"]
      BY <1>2 DEF Abandon, Goto, historyVars
    <2>2. Keeping' = Keeping \ {w}
      BY <1>p, <2>1 DEF Keeping
    <2> QED
      BY <1>t, <2>1, <2>2, QuietCounting
  <1>3. CASE UNCHANGED vars
    <2>1. UNCHANGED <<now, velocity, increments, missed, faults>> /\ Keeping' = Keeping
      BY <1>3 DEF vars, Keeping, historyVars
    <2> QED
      BY <1>t, <2>1, QuietCounting
  <1> QED
    BY <1>t, <1>1, <1>2, <1>3, IncrementCounts, KeepCounts, TickCounts DEF Next

\* The counter misses no transaction of the last ten minutes but those whose
\* update broke off between incr and expire, or was between them when the counter
\* was dropped, for any number of workers and keys dropped at any time: every
\* other update renews the time to live, so that an expiring counter has no
\* further transaction of the window left (redis_state.py, update_user_profile).
THEOREM VelocityCountsAll == Spec => []VelocityNeverUndercounts
  <1>1. Init => CountingInv
    <2> SUFFICES ASSUME Init PROVE CountingInv
      OBVIOUS
    <2>1. TypeInv /\ DOMAIN increments = {}
      BY InitInv DEF Init
    <2>2. Recent = 0
      <3>1. {i \in DOMAIN increments : increments[i] > now - Window} = {}
        BY <2>1
      <3> QED
        BY <3>1, FS_EmptySet DEF Recent
    <2> QED
      BY <2>1, <2>2 DEF Init, NoVelocity, CountingInv, NotAhead, KeysExist, KeptInTime, VelocityNeverUndercounts
  <1>2. CountingInv => VelocityNeverUndercounts
    BY DEF CountingInv
  <1> QED
    BY <1>1, <1>2, CountingStep, PTL DEF Spec

-----------------------------------------------------------------------------
\* Every step with scores is a step of the commands alone.
LEMMA ScoredStep == [ScoredNext]_<<vars, scoreVars>> => [Next]_vars
  BY DEF ScoredNext, Next, ScoreTransaction, WriteScore, AbandonScore, Forget

\* What is shown of the commands of redis_state.py holds with the scores of
\* scoring.py computed between them.
THEOREM ScoringUpdatesProfile == ScoredSpec => Spec
  <1>1. ScoredInit => Init
    BY DEF ScoredInit
  <1> QED
    BY <1>1, ScoredStep, PTL DEF ScoredSpec, Spec

\* No amount is more than three times the average that a worker may read.
NoSpikes ==
    \A a \in Amounts :
        /\ a * profile.count <= 3 * profile.sum
        /\ \A w \in Workers : a * work[w].count <= 3 * work[w].sum

\* The score that is written last, and those about to be written, earn no penalty.
ScoresOK == lastScore \in Nat /\ score \in [Workers -> Nat]
Calm == ~strange => lastScore <= 70 /\ \A w \in Workers : score[w] <= 70

CalmInv == TypeInv /\ NoSpikes /\ ScoresOK /\ Calm

\* The amounts are within a factor of three of each other.
Steady == \A a, b \in Amounts : a <= 3 * b

LEMMA SpikesStep ==
    ASSUME Steady, TypeInv, NoSpikes, [Next]_vars
    PROVE  NoSpikes'
  <1> SUFFICES ASSUME NEW a \in Amounts
               PROVE  /\ a * profile'.count <= 3 * profile'.sum
                      /\ \A v \in Workers : a * work'[v].count <= 3 * work'[v].sum
    BY DEF NoSpikes
  <1>t. /\ work \in [Workers -> [amount : Nat, count : Nat, sum : Nat, txCount10m : Nat]]
        /\ profile \in [count : Nat, sum : Nat, txCount10m : Nat, deadline : Nat]
        /\ a \in Nat
    BY ProfileAssumption DEF TypeInv, TypeOK
  <1>0. a * 0 = 0 /\ 3 * 0 = 0
    BY <1>t
  <1>i. /\ a * profile.count <= 3 * profile.sum
        /\ \A v \in Workers : a * work[v].count <= 3 * work[v].sum
    BY DEF NoSpikes
  <1>1. ASSUME NEW w \in Workers, NEW b \in Amounts, Score(w, b)
        PROVE  /\ profile' = profile
               /\ \A v \in Workers : v # w => work'[v] = work[v]
               /\ work'[w].count = 0 /\ work'[w].sum = 0
    BY <1>1, <1>t DEF Score, Idle, historyVars
  <1>2. ASSUME NEW w \in Workers, ReadProfile(w)
        PROVE  /\ profile' = profile
               /\ \A v \in Workers : v # w => work'[v] = work[v]
               /\ work'[w].count = profile.count /\ work'[w].sum = profile.sum
    BY <1>2, <1>t DEF ReadProfile, historyVars
  <1>3. ASSUME NEW w \in Workers, WriteProfile(w)
        PROVE  work' = work /\ a * profile'.count <= 3 * profile'.sum
    <2>1. /\ work[w].count \in Nat /\ work[w].sum \in Nat /\ work[w].amount \in Amounts
          /\ work[w].amount \in Nat /\ a <= 3 * work[w].amount
          /\ a * work[w].count <= 3 * work[w].sum
      BY <1>3, <1>t, <1>i, ProfileAssumption DEF WriteProfile, WriteWith, TypeInv, Steady
    <2>2. profile'.count = work[w].count + 1 /\ profile'.sum = work[w].sum + work[w].amount
          /\ work' = work
      BY <1>3, <1>t DEF WriteProfile, WriteWith
    <2>3. a * (work[w].count + 1) = a * work[w].count + a
      BY <1>t, <2>1
    <2>4. a * work[w].count \in Nat
      BY <1>t, <2>1
    <2> QED
      BY <1>t, <2>1, <2>2, <2>3, <2>4
  <1>4. ASSUME NEW w \in Workers, IncrementVelocity(w)
        PROVE  /\ profile' = profile
               /\ \A v \in Workers : work'[v].count = work[v].count /\ work'[v].sum = work[v].sum
    BY <1>4, <1>t DEF IncrementVelocity
  <1>5. ASSUME NEW w \in Workers, KeepVelocity(w) \/ KeepProfile(w) \/ Abandon(w)
        PROVE  /\ profile'.count = profile.count /\ profile'.sum = profile.sum
               /\ \A v \in Workers : work'[v] \in {work[v], Idle}
    BY <1>5, <1>t DEF KeepVelocity, KeepProfile, Abandon, KeepVelocityUntil, Renewed, historyVars
  <1>6. CASE Tick
    BY <1>0, <1>6, <1>i DEF Tick, NoProfile
  <1>7. CASE UNCHANGED vars
    BY <1>7, <1>i DEF vars, historyVars
  <1>8. Idle.count = 0 /\ Idle.sum = 0
    BY DEF Idle
  <1>9. ASSUME NEW w \in Workers,
               \/ \E b \in Amounts : Score(w, b)
               \/ ReadProfile(w) \/ WriteProfile(w) \/ IncrementVelocity(w)
        PROVE  /\ a * profile'.count <= 3 * profile'.sum
               /\ \A v \in Workers : a * work'[v].count <= 3 * work'[v].sum
    BY <1>0, <1>i, <1>1, <1>2, <1>3, <1>4, <1>9
  <1>10. ASSUME NEW w \in Workers, KeepVelocity(w) \/ KeepProfile(w) \/ Abandon(w)
         PROVE  /\ a * profile'.count <= 3 * profile'.sum
                /\ \A v \in Workers : a * work'[v].count <= 3 * work'[v].sum
    BY <1>0, <1>i, <1>5, <1>8, <1>10
  <1> QED
    BY <1>6, <1>7, <1>9, <1>10 DEF Next

LEMMA StatelessPoints ==
    ASSUME NEW tx
    PROVE  /\ Stateless(tx) \in Nat
           /\ tx \subseteq Ordinary => Stateless(tx) \in 0..25
  <1> DEFINE whole == Points(5, "whole amount" \in tx)
             nightRisk == Points(50, {"night", "risky mcc"} \subseteq tx)
             risk == Points(25, "risky mcc" \in tx /\ "night" \notin tx)
             night == Points(15, "night" \in tx /\ "risky mcc" \notin tx)
             stripe == Points(50, "magstripe" \in tx)
             no3ds == Points(20, "no 3ds" \in tx)
             black == Points(100, "blacklisted method" \in tx)
  <1>1. Stateless(tx) = whole + nightRisk + risk + night + stripe + no3ds + black
    BY Zenon DEF Stateless
  <1>2. /\ whole \in {0, 5} /\ nightRisk \in {0, 50} /\ risk \in {0, 25} /\ night \in {0, 15}
        /\ stripe \in {0, 50} /\ no3ds \in {0, 20} /\ black \in {0, 100}
    BY Zenon DEF Points
  <1>3. ASSUME tx \subseteq Ordinary
        PROVE  nightRisk = 0 /\ risk = 0 /\ night = 0 /\ stripe = 0 /\ black = 0
    <2>1. /\ "night" \notin tx /\ "risky mcc" \notin tx /\ "magstripe" \notin tx
          /\ "blacklisted method" \notin tx
      BY <1>3 DEF Ordinary
    <2>2. ~({"night", "risky mcc"} \subseteq tx)
      BY <2>1
    <2> QED
      BY <2>1, <2>2, Zenon DEF Points
  <1> HIDE DEF whole, nightRisk, risk, night, stripe, no3ds, black
  <1> QED
    BY <1>1, <1>2, <1>3

\* An ordinary purchase at the place of the one before scores at most 70.
LEMMA OrdinaryScores ==
    ASSUME Steady, CalmInv, ~strange, NEW a \in Amounts, NEW tx \in SUBSET Ordinary
    PROVE  Evaluate(tx, a, FALSE, ProfileRead) \in 0..70
  <1>1. /\ ProfileRead.lastScore <= 80 /\ ProfileRead.lastScore \in Nat
        /\ ProfileRead.txCount10m \in Nat
    BY DEF CalmInv, ScoresOK, Calm, ProfileRead, ScoredVelocity, TypeInv, TypeOK
  <1>2. ~IsSpike(a, ProfileRead)
    <2>1. a * profile.count <= 3 * profile.sum /\ profile.count \in Nat /\ profile.sum \in Nat
      BY DEF CalmInv, NoSpikes, TypeInv, TypeOK
    <2>2. a * profile.count \in Nat
      BY <2>1, ProfileAssumption
    <2> QED
      BY <2>1, <2>2 DEF IsSpike, ProfileRead
  <1>3. Stateful(a, FALSE, ProfileRead) \in 0..45
    BY <1>1, <1>2, VelocityAssumption DEF Stateful, Points
  <1>4. Stateless(tx) \in 0..25
    BY StatelessPoints
  <1>5. \A m \in 0..25, n \in 0..45 : Capped(m + n) \in 0..70
    BY DEF Capped
  <1> QED
    BY <1>3, <1>4, <1>5, Zenon DEF Evaluate

LEMMA CalmStep == Steady /\ CalmInv /\ [ScoredNext]_<<vars, scoreVars>> => CalmInv'
  <1> SUFFICES ASSUME Steady, CalmInv, [ScoredNext]_<<vars, scoreVars>>
               PROVE  (ScoresOK /\ Calm)'
    BY ScoredStep, TypeStep, SpikesStep DEF CalmInv
  <1> USE DEF CalmInv, ScoresOK, Calm
  <1>1. ASSUME NEW w \in Workers, NEW a \in Amounts, NEW tx \in Kinds, NEW far \in Far,
               ScoreTransaction(w, a, tx, far)
        PROVE  (ScoresOK /\ Calm)'
    <2>1. Evaluate(tx, a, far, ProfileRead) \in Nat
      <3>1. Stateless(tx) \in Nat
        BY StatelessPoints
      <3>2. Stateful(a, far, ProfileRead) \in Nat
        BY DEF Stateful, Points
      <3>3. \A m, n \in Nat : Capped(m + n) \in Nat
        BY DEF Capped
      <3> QED
        BY <3>1, <3>2, <3>3, Zenon DEF Evaluate
    <2>2. /\ score' = [score EXCEPT ![w] = Evaluate(tx, a, far, ProfileRead)]
          /\ lastScore' = lastScore
          /\ ~strange' => ~strange /\ ~far /\ tx \subseteq Ordinary
      BY <1>1 DEF ScoreTransaction
    <2>3. ~strange' => Evaluate(tx, a, far, ProfileRead) <= 70
      <3>1. SUFFICES ASSUME ~strange' PROVE Evaluate(tx, a, far, ProfileRead) <= 70
        OBVIOUS
      <3>2. far = FALSE /\ tx \in SUBSET Ordinary /\ ~strange
        BY <2>2, <3>1 DEF Far
      <3>3. Evaluate(tx, a, FALSE, ProfileRead) \in 0..70
        BY <3>2, OrdinaryScores
      <3>4. Evaluate(tx, a, far, ProfileRead) \in 0..70
        BY <3>2, <3>3, Zenon
      <3> QED
        BY <3>4
    <2> QED
      BY <2>1, <2>2, <2>3
  <1>2. ASSUME NEW w \in Workers, WriteScore(w) PROVE (ScoresOK /\ Calm)'
    BY <1>2 DEF WriteScore
  <1>3. ASSUME NEW w \in Workers, AbandonScore(w) PROVE (ScoresOK /\ Calm)'
    BY <1>3 DEF AbandonScore
  <1>4. CASE Forget
    <2>1. score' = score /\ lastScore' \in {0, lastScore}
      BY <1>4 DEF Forget
    <2>2. ~strange' => \/ ~strange
                       \/ lastScore' = 0 /\ \A w \in Workers : score[w] = 0
      BY <1>4 DEF Forget
    <2> QED
      BY <2>1, <2>2
  <1>5. CASE UNCHANGED scoreVars
    BY <1>5 DEF scoreVars
  <1> QED
    BY <1>1, <1>2, <1>3, <1>4, <1>5 DEF ScoredNext

\* A customer whose purchases are ordinary and within a factor of three of each
\* other is never blocked, for any number of workers and any thresholds: the
\* score of such a purchase stays below the level of the penalty, so that no
\* score that is read, however late, adds one (scoring_engine.py, evaluate).
THEOREM OrdinaryPasses ==
    ASSUME Steady
    PROVE  ScoredSpec => []OrdinaryIsNotBlocked
  <1>1. ScoredInit => CalmInv
    <2> SUFFICES ASSUME ScoredInit PROVE CalmInv
      OBVIOUS
    <2>1. TypeInv
      BY InitInv DEF ScoredInit
    <2>2. NoSpikes
      BY ProfileAssumption DEF ScoredInit, Init, NoProfile, Idle, NoSpikes
    <2> QED
      BY <2>1, <2>2 DEF ScoredInit, CalmInv, ScoresOK, Calm
  <1>2. CalmInv /\ [ScoredNext]_<<vars, scoreVars>> => CalmInv'
    BY CalmStep
  <1>3. CalmInv => OrdinaryIsNotBlocked
    BY DEF CalmInv, ScoresOK, Calm, OrdinaryIsNotBlocked, RiskLevel
  <1> QED
    BY <1>1, <1>2, <1>3, PTL DEF ScoredSpec

-----------------------------------------------------------------------------
(* EdgeServices.  The steps of gateway and notification service do not     *)
(* share variables, so that each invariant is about one of them, the       *)
(* broker and what scoring carries over.                                   *)

\* A pod that holds the partition reads it, from what is committed on.
OwnersRead ==
    /\ \A p, q \in owner : p = q
    /\ \A p \in owner : loop[p] = "polling" /\ committed <= position[p]

OutageIsNoted == ~broker => outage

\* What a thread died of is committed, if the broker was never away.
DeadAreCommitted ==
    ~outage => \A p \in Pods : loop[p] = "dead" => position[p] <= committed

\* The clients a broadcast still owes a message are on the list of its pod, or gone.
CopiesAreListed ==
    \A b \in broadcasts :
        /\ ~b.started => b.left = {}
        /\ \A s \in b.left : peer[s] # "away" /\ (peer[s] = "here" => s \in connections[b.pod])
        /\ \A s \in b.failed : peer[s] = "gone"

SocketsAreKnown ==
    /\ \A p \in Pods : \A s \in connections[p] : peer[s] # "away"
    /\ \A s \in Sockets : owed[s] # {} => peer[s] = "here"

\* What a step does to the notification service.
NotificationMoves ==
    \/ UNCHANGED notificationVars
    \/ \E m \in Payments \cup Foreign : Write(m)
    \/ NotificationStep
    \/ PodEnds
    \/ \E p \in Pods : Rebalance(p)

\* What a step does to the gateway.
GatewayMoves == UNCHANGED gatewayVars \/ GatewayStep \/ GatewayEnds

LEMMA EdgeMoves ==
    ASSUME EdgeTypeOK, [EdgeNext]_edgeVars
    PROVE  /\ NotificationMoves /\ GatewayMoves
           /\ UNCHANGED brokerVars \/ BrokerDown \/ BrokerUp
           /\ UNCHANGED brokerVars \/ UNCHANGED <<gatewayVars, notificationVars>>
  <1>1. CASE GatewayStep /\ UNCHANGED <<brokerVars, notificationVars, passing, bounds>>
    BY <1>1 DEF NotificationMoves, GatewayMoves
  <1>2. CASE NotificationStep /\ UNCHANGED <<brokerVars, gatewayVars, passing, bounds>>
    BY <1>2 DEF NotificationMoves, GatewayMoves
  <1>0. raw \in Seq(Transactions) /\ Len(raw) \in Nat /\ carried \in 0 .. Len(raw)
    BY DEF EdgeTypeOK, GatewayTypeOK
  <1>8. \A i \in 1 .. Len(raw) : raw[i] \in Payments
    BY <1>0, SamePayments, ElementOfSeq
  <1>3. CASE Scoring
    <2>1. CASE CarryOver
      <3>1. raw[carried + 1] \in Payments
        BY <1>0, <1>8, <2>1 DEF CarryOver
      <3> QED
        BY <1>3, <2>1, <3>1 DEF Scoring, CarryOver, NotificationMoves, GatewayMoves
    <2>2. CASE Drop
      BY <1>3, <2>2 DEF Scoring, Drop, NotificationMoves, GatewayMoves
    <2> QED
      BY <1>3, <2>1, <2>2 DEF Scoring
  <1>4. CASE OutageEnds
    BY <1>4 DEF OutageEnds, NotificationMoves, GatewayMoves
  <1>5. CASE ForeignMessage
    BY <1>5 DEF ForeignMessage, NotificationMoves, GatewayMoves
  <1>6. CASE Disturbance
    <2>1. CASE Outage
      BY <2>1 DEF Outage, NotificationMoves, GatewayMoves
    <2>2. CASE GatewayRestart
      BY <2>2 DEF GatewayRestart, NotificationMoves, GatewayMoves
    <2>3. CASE GroupDisturbed
      BY <2>3 DEF GroupDisturbed, NotificationMoves, GatewayMoves
    <2>4. CASE ScoreAgain
      <3>1. PICK i \in 1 .. carried : Write(raw[i])
        BY <2>4 DEF ScoreAgain
      <3>2. raw[i] \in Payments
        BY <1>0, <1>8
      <3> QED
        BY <2>4, <3>1, <3>2 DEF ScoreAgain, NotificationMoves, GatewayMoves
    <2> QED
      BY <1>6, <2>1, <2>2, <2>3, <2>4 DEF Disturbance
  <1>7. CASE UNCHANGED edgeVars
    BY <1>7 DEF edgeVars, NotificationMoves, GatewayMoves
  <1> QED
    BY <1>1, <1>2, <1>3, <1>4, <1>5, <1>6, <1>7 DEF EdgeNext

\* The pieces of the gateway's type invariant: its flags, and the rest.
FlagsOK == connected \in BOOLEAN /\ ready \in BOOLEAN /\ (connected => task = "done")
TaskOK == task \in {"none", "connecting", "sleeping", "done"} /\ delay \in MinRetryDelay .. MaxRetryDelay
RequestsOK ==
    /\ request \in [Transactions -> {"none", "sending", "stored"}]
    /\ accepted \subseteq Transactions
    /\ raw \in Seq(Transactions)

LEMMA GatewayPieces == GatewayTypeOK <=> FlagsOK /\ TaskOK /\ RequestsOK
  BY Zenon DEF GatewayTypeOK, FlagsOK, TaskOK, RequestsOK

LEMMA GatewayTypeStep ==
    ASSUME GatewayTypeOK, GatewayMoves
    PROVE  GatewayTypeOK' /\ Len(raw) <= Len(raw')
  <1>1. /\ MinRetryDelay \in Nat \ {0} /\ MaxRetryDelay \in Nat \ {0} /\ MinRetryDelay <= MaxRetryDelay
        /\ Len(raw) \in Nat
    BY GatewayAssumption DEF GatewayTypeOK
  <1>2. FlagsOK /\ TaskOK /\ RequestsOK
    BY GatewayPieces
  <1>3. FlagsOK'
    <2>1. CASE UNCHANGED <<connected, ready>> /\ (UNCHANGED task \/ task # "done")
      BY <1>2, <2>1, Zenon DEF FlagsOK
    <2>2. CASE Connect
      BY <1>2, <2>2, Zenon DEF Connect, FlagsOK
    <2>3. CASE Probe
      <3>1. PICK healthy \in {broker, TRUE} : ready' = (connected /\ healthy)
        BY <2>3 DEF Probe
      <3> QED
        BY <1>2, <2>3, <3>1, Zenon DEF Probe, processVars, FlagsOK
    <2>4. CASE GatewayEnds
      BY <2>4, Zenon DEF GatewayEnds, Shutdown, GatewayKilled, Ended, FlagsOK
    <2>5. CASE UNCHANGED gatewayVars \/ StartUp \/ ConnectFails \/ RetryConnect
      BY <2>1, <2>5 DEF gatewayVars, processVars, StartUp, ConnectFails, RetryConnect
    <2>6. ASSUME NEW t \in Transactions, Ingest(t) \/ Store(t) \/ Accept(t) \/ Refuse(t)
          PROVE  FlagsOK'
      <3>1. UNCHANGED <<task, connected, ready>>
        BY <2>6 DEF Ingest, Store, Accept, Refuse, processVars
      <3> QED
        BY <2>1, <3>1
    <2> QED
      BY <2>2, <2>3, <2>4, <2>5, <2>6 DEF GatewayMoves, GatewayStep, ConnectionTask
  <1>4. TaskOK'
    <2>1. CASE RetryConnect
      BY <1>1, <1>2, <2>1 DEF RetryConnect, TaskOK, LeastOf
    <2>2. CASE UNCHANGED gatewayVars \/ StartUp \/ Connect \/ ConnectFails \/ Probe \/ GatewayEnds
      BY <1>1, <1>2, <2>2 DEF gatewayVars, processVars, StartUp, Connect, ConnectFails, Probe,
         GatewayEnds, Shutdown, GatewayKilled, Ended, TaskOK
    <2>3. ASSUME NEW t \in Transactions, Ingest(t) \/ Store(t) \/ Accept(t) \/ Refuse(t)
          PROVE  TaskOK'
      BY <1>2, <2>3 DEF Ingest, Store, Accept, Refuse, processVars, TaskOK
    <2> QED
      BY <2>1, <2>2, <2>3 DEF GatewayMoves, GatewayStep, ConnectionTask
  <1>5. RequestsOK' /\ Len(raw) <= Len(raw')
    <2>1. CASE UNCHANGED gatewayVars \/ ConnectionTask \/ Probe \/ GatewayEnds
      BY <1>1, <1>2, <2>1 DEF gatewayVars, ConnectionTask, StartUp, Connect, ConnectFails, RetryConnect, Probe,
         GatewayEnds, Shutdown, GatewayKilled, Ended, RequestsOK
    <2>2. ASSUME NEW t \in Transactions, Ingest(t) \/ Accept(t) \/ Refuse(t)
          PROVE  RequestsOK' /\ Len(raw) <= Len(raw')
      BY <1>1, <1>2, <2>2 DEF Ingest, Accept, Refuse, RequestsOK
    <2>3. ASSUME NEW t \in Transactions, Store(t)
          PROVE  RequestsOK' /\ Len(raw) <= Len(raw')
      BY <1>1, <1>2, <2>3 DEF Store, RequestsOK
    <2> QED
      BY <2>1, <2>2, <2>3 DEF GatewayMoves, GatewayStep
  <1>6. (GatewayTypeOK <=> FlagsOK /\ TaskOK /\ RequestsOK)'
    BY GatewayPieces, PTL
  <1> QED
    BY <1>3, <1>4, <1>5, <1>6

\* The pieces of the notification service's type invariant: the consumer group,
\* the sockets, and what is said of offsets.
GroupOK ==
    /\ scored \in Seq(Payments \cup Foreign)
    /\ committed \in 0 .. Len(scored)
    /\ owner \subseteq Pods
    /\ loop \in [Pods -> {"none", "polling", "dead"}]
    /\ position \in [Pods -> 0 .. Len(scored)]
SocketsOK ==
    /\ connections \in [Pods -> SUBSET Sockets]
    /\ peer \in [Sockets -> {"away", "here", "gone"}]
OffsetsOK ==
    /\ broadcasts \subseteq Broadcasts
    /\ owed \in [Sockets -> SUBSET Offsets]
    /\ over \subseteq Offsets

LEMMA NotificationPieces ==
    NotificationTypeOK <=>
        GroupOK /\ SocketsOK /\ OffsetsOK /\ Cardinality(owner) <= 1 /\ undecoded \subseteq Offsets
  BY DEF NotificationTypeOK, GroupOK, SocketsOK, OffsetsOK

LEMMA OneOwner == OwnersRead => Cardinality(owner) <= 1
  <1> SUFFICES ASSUME OwnersRead PROVE Cardinality(owner) <= 1
    OBVIOUS
  <1>1. CASE owner = {}
    BY <1>1, FS_EmptySet
  <1>2. CASE owner # {}
    <2>1. PICK p : owner = {p}
      BY <1>2 DEF OwnersRead
    <2>2. Cardinality({p}) = 1
      BY FS_Singleton
    <2> QED
      BY <2>1, <2>2
  <1> QED
    BY <1>1, <1>2

Grouped == GroupOK /\ OwnersRead /\ DeadAreCommitted

\* The thread reads the message after its position.
LEMMA ReadsNext ==
    ASSUME GroupOK, NEW p \in Pods, Reads(p) # {}
    PROVE  /\ p \in owner /\ loop[p] = "polling"
           /\ position[p] \in Nat /\ position[p] + 1 \in Offsets
           /\ Reads(p) = {scored[position[p] + 1]}
           /\ Advanced(p) = [position EXCEPT ![p] = position[p] + 1]
           /\ Advanced(p) \in [Pods -> 0 .. Len(scored)]
  BY DEF GroupOK, Reads, Offsets, Advanced

LEMMA GroupStep ==
    ASSUME Grouped, OutageIsNoted, NotificationMoves, UNCHANGED brokerVars
    PROVE  Grouped' /\ Len(scored) <= Len(scored')
  <1> USE DEF Grouped
  <1>1. Len(scored) \in Nat /\ committed \in Nat /\ \A p \in Pods : position[p] \in Nat
    BY DEF GroupOK
  <1>2. ASSUME NEW p \in Pods, StartPod(p)
        PROVE  Grouped' /\ Len(scored) <= Len(scored')
    BY <1>1, <1>2 DEF StartPod, groupVars, GroupOK, OwnersRead, DeadAreCommitted, brokerVars
  <1>3. ASSUME NEW p \in Pods, Assign(p)
        PROVE  Grouped' /\ Len(scored) <= Len(scored')
    BY <1>1, <1>3 DEF Assign, GroupOK, OwnersRead, DeadAreCommitted, brokerVars
  <1>4. ASSUME NEW p \in Pods, Skip(p) \/ Hand(p)
        PROVE  Grouped' /\ Len(scored) <= Len(scored')
    <2>1. /\ UNCHANGED <<scored, committed, owner, loop>> /\ position' = Advanced(p)
          /\ Reads(p) # {}
      BY <1>4 DEF Skip, Hand, groupVars
    <2> QED
      BY <1>1, <2>1, ReadsNext DEF GroupOK, OwnersRead, DeadAreCommitted, brokerVars
  <1>5. ASSUME NEW p \in Pods, Die(p)
        PROVE  Grouped' /\ Len(scored) <= Len(scored')
    <2>1. Reads(p) # {} /\ position' = Advanced(p) /\ loop' = [loop EXCEPT ![p] = "dead"]
          /\ committed' = Left(p, position') /\ owner' = owner \ {p} /\ UNCHANGED scored
      BY <1>5 DEF Die
    <2>2. /\ position[p] + 1 \in 0 .. Len(scored) /\ position'[p] = position[p] + 1
          /\ p \in owner /\ loop[p] = "polling" /\ position' \in [Pods -> 0 .. Len(scored)]
          /\ \A q \in Pods \ {p} : position'[q] = position[q]
      BY <1>1, <2>1, ReadsNext DEF Offsets, GroupOK
    <2>3. owner' = {} /\ committed <= position[p]
      BY <2>1, <2>2 DEF OwnersRead
    <2>4. committed' = IF broker THEN position[p] + 1 ELSE committed
      BY <2>1, <2>2 DEF Left
    <2>5. GroupOK'
      BY <1>1, <2>1, <2>2, <2>3, <2>4 DEF GroupOK
    <2>6. DeadAreCommitted'
      BY <1>1, <2>1, <2>2, <2>3, <2>4 DEF DeadAreCommitted, OutageIsNoted, GroupOK, brokerVars
    <2> QED
      BY <1>1, <2>1, <2>3, <2>5, <2>6 DEF OwnersRead
  <1>6. ASSUME NEW p \in Pods, AutoCommit(p)
        PROVE  Grouped' /\ Len(scored) <= Len(scored')
    BY <1>1, <1>6 DEF AutoCommit, threadVars, GroupOK, OwnersRead, DeadAreCommitted, brokerVars
  <1>7. ASSUME NEW p \in Pods, Rebalance(p)
        PROVE  Grouped' /\ Len(scored) <= Len(scored')
    BY <1>1, <1>7 DEF Rebalance, Left, GroupOK, OwnersRead, DeadAreCommitted, brokerVars
  <1>8. ASSUME NEW p \in Pods, StopPod(p) \/ KillPod(p)
        PROVE  Grouped' /\ Len(scored) <= Len(scored')
    <2>1. /\ loop' = [loop EXCEPT ![p] = "none"] /\ owner' = owner \ {p}
          /\ position' = [position EXCEPT ![p] = 0] /\ UNCHANGED scored
      BY <1>8 DEF StopPod, KillPod, EndPod
    <2>2. committed' = committed \/ (p \in owner /\ committed' = position[p])
      BY <1>8 DEF StopPod, KillPod, EndPod, Left
    <2>3. committed <= committed' /\ committed' \in 0 .. Len(scored)
      BY <1>1, <2>2 DEF GroupOK, OwnersRead
    <2>4. GroupOK'
      BY <1>1, <2>1, <2>3 DEF GroupOK
    <2>5. OwnersRead'
      BY <1>1, <2>1, <2>2 DEF OwnersRead, GroupOK
    <2>6. DeadAreCommitted'
      BY <1>1, <2>1, <2>3 DEF DeadAreCommitted, GroupOK, brokerVars
    <2> QED
      BY <1>1, <2>1, <2>4, <2>5, <2>6
  <1>9. ASSUME NEW m \in Payments \cup Foreign, Write(m)
        PROVE  Grouped' /\ Len(scored) <= Len(scored')
    <2>1. scored' \in Seq(Payments \cup Foreign) /\ Len(scored') = Len(scored) + 1
      BY <1>9 DEF Write, GroupOK
    <2> QED
      BY <1>1, <1>9, <2>1 DEF Write, threadVars, GroupOK, OwnersRead, DeadAreCommitted, brokerVars
  <1>10. ASSUME UNCHANGED <<groupVars, threadVars>>
         PROVE  Grouped' /\ Len(scored) <= Len(scored')
    BY <1>1, <1>10 DEF groupVars, threadVars, GroupOK, OwnersRead, DeadAreCommitted, brokerVars
  <1>11. CASE \E b \in broadcasts : RunBroadcast(b)
    BY <1>10, <1>11 DEF RunBroadcast, Start, Send
  <1>12. CASE \E s \in Sockets : Leave(s) \/ \E p \in Pods : ConnectSocket(s, p) \/ Disconnect(s, p)
    BY <1>10, <1>12 DEF Leave, ConnectSocket, Disconnect
  <1>13. CASE UNCHANGED notificationVars
    BY <1>10, <1>13 DEF notificationVars
  <1> QED
    BY <1>2, <1>3, <1>4, <1>5, <1>6, <1>7, <1>8, <1>9, <1>11, <1>12, <1>13
    DEF NotificationMoves, NotificationStep, Thread, PodEnds

\* What the first step of a broadcast does.
LEMMA Starting ==
    ASSUME OffsetsOK, SocketsOK, NEW b \in broadcasts, Start(b)
    PROVE  /\ b \in Broadcasts /\ ~b.started
           /\ UNCHANGED <<scored, connections, peer>>
           /\ owed' = [s \in Sockets |-> IF s \in connections[b.pod] /\ peer[s] = "here"
                                         THEN owed[s] \cup {b.at} ELSE owed[s]]
           /\ \/ /\ connections[b.pod] = {}
                 /\ broadcasts' = broadcasts \ {b} /\ over' = over \cup {b.at}
              \/ \E next \in Broadcasts :
                    /\ next.pod = b.pod /\ next.at = b.at /\ next.started
                    /\ next.left = connections[b.pod] /\ next.failed = b.failed
                    /\ broadcasts' = (broadcasts \ {b}) \cup {next} /\ UNCHANGED over
  <1> DEFINE copy == connections[b.pod]
             next == [b EXCEPT !.started = TRUE, !.left = copy]
  <1>1. b \in Broadcasts /\ b.pod \in Pods /\ copy \in SUBSET Sockets
    BY DEF OffsetsOK, SocketsOK, Broadcasts
  <1>2. /\ ~b.started /\ UNCHANGED <<scored, peer>>
        /\ owed' = [s \in Sockets |-> IF s \in copy /\ peer[s] = "here" THEN owed[s] \cup {b.at} ELSE owed[s]]
        /\ IF copy = {} THEN Close(b, {}) ELSE GoOn(b, next)
    BY DEF Start, groupVars
  <1>3. CASE copy = {}
    <2>1. connections' = [connections EXCEPT ![b.pod] = copy]
      BY <1>2, <1>3 DEF Close
    <2>2. UNCHANGED connections
      BY <1>1, <2>1 DEF SocketsOK
    <2> QED
      BY <1>1, <1>2, <1>3, <2>2 DEF Close
  <1>4. CASE copy # {}
    <2>1. GoOn(b, next)
      BY <1>2, <1>4
    <2>2. /\ next \in Broadcasts /\ next.pod = b.pod /\ next.at = b.at
          /\ next.left = copy /\ next.failed = b.failed
      BY <1>1 DEF Broadcasts
    <2>3. next.started = TRUE
      BY <1>1 DEF Broadcasts
    <2> HIDE DEF next
    <2> QED
      BY <1>1, <1>2, <2>1, <2>2, <2>3 DEF GoOn
  <1> QED
    BY <1>3, <1>4

\* What a send does.
LEMMA Sending ==
    ASSUME OffsetsOK, SocketsOK, NEW b \in broadcasts, NEW s \in Sockets, Send(b, s)
    PROVE  /\ b \in Broadcasts /\ s \in b.left
           /\ UNCHANGED <<scored, peer>>
           /\ owed' = [owed EXCEPT ![s] = owed[s] \ {b.at}]
           /\ \E failed \in SUBSET Sockets :
                 /\ failed = (IF peer[s] = "here" THEN b.failed ELSE b.failed \cup {s})
                 /\ \/ /\ b.left \subseteq {s}
                       /\ connections' = [connections EXCEPT ![b.pod] = connections[b.pod] \ failed]
                       /\ broadcasts' = broadcasts \ {b} /\ over' = over \cup {b.at}
                    \/ \E next \in Broadcasts :
                          /\ next.pod = b.pod /\ next.at = b.at /\ next.started
                          /\ next.left = b.left \ {s} /\ next.failed = failed
                          /\ broadcasts' = (broadcasts \ {b}) \cup {next}
                          /\ UNCHANGED <<connections, over>>
  <1> DEFINE failed == IF peer[s] = "here" THEN b.failed ELSE b.failed \cup {s}
             next == [b EXCEPT !.left = b.left \ {s}, !.failed = failed]
  <1>1. b \in Broadcasts /\ b.pod \in Pods /\ b.left \in SUBSET Sockets /\ failed \in SUBSET Sockets
    BY DEF OffsetsOK, Broadcasts
  <1>2. Tried(b, s) = next
    BY DEF Tried
  <1>3. /\ next \in Broadcasts /\ next.pod = b.pod /\ next.at = b.at
        /\ next.left = b.left \ {s} /\ next.failed = failed
    BY <1>1 DEF Broadcasts
  <1>4. next.started = b.started
    BY <1>1 DEF Broadcasts
  <1> HIDE DEF next, failed
  <1>5. /\ b.started /\ s \in b.left /\ UNCHANGED <<scored, peer>>
        /\ owed' = [owed EXCEPT ![s] = owed[s] \ {b.at}]
        /\ IF next.left = {} THEN Close(b, next.failed) ELSE GoOn(b, next)
    BY <1>2 DEF Send, Proceed, groupVars
  <1>6. failed = IF peer[s] = "here" THEN b.failed ELSE b.failed \cup {s}
    BY DEF failed
  <1>7. CASE next.left = {}
    BY <1>1, <1>3, <1>5, <1>6, <1>7 DEF Close
  <1>8. CASE next.left # {}
    <2>1. broadcasts' = (broadcasts \ {b}) \cup {next} /\ UNCHANGED <<connections, over>>
      BY <1>5, <1>8 DEF GoOn
    <2> QED
      BY <1>1, <1>3, <1>4, <1>5, <1>6, <2>1
  <1> QED
    BY <1>7, <1>8

LEMMA DeliveryTypeStep ==
    ASSUME GroupOK, SocketsOK, OffsetsOK, NotificationMoves,
           Len(scored) \in Nat, Len(scored') \in Nat, Len(scored) <= Len(scored')
    PROVE  SocketsOK' /\ OffsetsOK'
  <1>1. Offsets \subseteq Offsets' /\ Broadcasts \subseteq Broadcasts'
    BY DEF Offsets, Broadcasts
  <1>2. ASSUME UNCHANGED <<broadcasts, socketVars, over>> PROVE SocketsOK' /\ OffsetsOK'
    BY <1>1, <1>2 DEF socketVars, SocketsOK, OffsetsOK
  <1>3. ASSUME NEW p \in Pods, Hand(p) PROVE SocketsOK' /\ OffsetsOK'
    <2>1. broadcasts' = broadcasts \cup {Handed(p)} /\ UNCHANGED <<socketVars, over>> /\ Reads(p) # {}
      BY <1>3 DEF Hand
    <2>2. Handed(p) \in Broadcasts
      BY <2>1, ReadsNext DEF Handed, Broadcasts
    <2> QED
      BY <1>1, <2>1, <2>2 DEF socketVars, SocketsOK, OffsetsOK
  <1>4. ASSUME NEW b \in broadcasts, Start(b) PROVE SocketsOK' /\ OffsetsOK'
    <2>1. b.at \in Offsets
      BY DEF OffsetsOK, Broadcasts
    <2>2. over' \subseteq Offsets /\ broadcasts' \subseteq Broadcasts
      BY <1>4, <2>1, Starting DEF OffsetsOK
    <2>3. owed' \in [Sockets -> SUBSET Offsets] /\ UNCHANGED <<connections, peer>>
      BY <1>4, <2>1, Starting DEF OffsetsOK
    <2> QED
      BY <1>1, <2>2, <2>3 DEF SocketsOK, OffsetsOK
  <1>5. ASSUME NEW b \in broadcasts, NEW s \in Sockets, Send(b, s) PROVE SocketsOK' /\ OffsetsOK'
    <2>1. b.at \in Offsets /\ b.pod \in Pods
      BY DEF OffsetsOK, Broadcasts
    <2>2. over' \subseteq Offsets /\ broadcasts' \subseteq Broadcasts
      BY <1>5, <2>1, Sending DEF OffsetsOK
    <2>3. owed' \in [Sockets -> SUBSET Offsets] /\ UNCHANGED peer
      BY <1>5, <2>1, Sending DEF OffsetsOK
    <2>4. connections' \in [Pods -> SUBSET Sockets]
      BY <1>5, <2>1, Sending DEF SocketsOK
    <2> QED
      BY <1>1, <2>2, <2>3, <2>4 DEF SocketsOK, OffsetsOK
  <1>6. ASSUME NEW s \in Sockets, NEW p \in Pods, ConnectSocket(s, p) PROVE SocketsOK' /\ OffsetsOK'
    BY <1>1, <1>6 DEF ConnectSocket, SocketsOK, OffsetsOK
  <1>7. ASSUME NEW s \in Sockets, Leave(s) PROVE SocketsOK' /\ OffsetsOK'
    BY <1>1, <1>7 DEF Leave, SocketsOK, OffsetsOK
  <1>8. ASSUME NEW s \in Sockets, NEW p \in Pods, Disconnect(s, p) PROVE SocketsOK' /\ OffsetsOK'
    BY <1>1, <1>8 DEF Disconnect, SocketsOK, OffsetsOK
  <1>9. ASSUME NEW p \in Pods, EndPod(p) PROVE SocketsOK' /\ OffsetsOK'
    <2>1. {b.at : b \in {c \in broadcasts : c.pod = p}} \subseteq Offsets
      BY DEF OffsetsOK, Broadcasts
    <2>2. SocketsOK'
      BY <1>9 DEF EndPod, SocketsOK
    <2>3. broadcasts' \subseteq Broadcasts /\ over' \subseteq Offsets
      BY <1>9, <2>1 DEF EndPod, OffsetsOK
    <2>4. owed' \in [Sockets -> SUBSET Offsets]
      BY <1>9 DEF EndPod, OffsetsOK
    <2> QED
      BY <1>1, <2>2, <2>3, <2>4 DEF OffsetsOK
  <1>10. CASE \E p \in Pods : StartPod(p) \/ Assign(p) \/ Skip(p) \/ Die(p) \/ AutoCommit(p) \/ Rebalance(p)
    BY <1>2, <1>10 DEF StartPod, Assign, Skip, Die, AutoCommit, Rebalance
  <1>11. CASE (\E m \in Payments \cup Foreign : Write(m)) \/ UNCHANGED notificationVars
    BY <1>2, <1>11 DEF Write, notificationVars
  <1> QED
    BY <1>3, <1>4, <1>5, <1>6, <1>7, <1>8, <1>9, <1>10, <1>11
    DEF NotificationMoves, NotificationStep, Thread, RunBroadcast, PodEnds, StopPod, KillPod

\* What has been skipped stays skipped, and only what is in the topic is.
LEMMA UndecodedStep ==
    ASSUME GroupOK, undecoded \subseteq Offsets, NotificationMoves,
           Len(scored) \in Nat, Len(scored') \in Nat, Len(scored) <= Len(scored')
    PROVE  undecoded \subseteq undecoded' /\ undecoded' \subseteq Offsets'
  <1>1. Offsets \subseteq Offsets'
    BY DEF Offsets
  <1>2. CASE UNCHANGED undecoded
    BY <1>1, <1>2
  <1>3. ASSUME NEW p \in Pods, Skip(p) PROVE undecoded \subseteq undecoded' /\ undecoded' \subseteq Offsets'
    <2>1. undecoded' = undecoded \cup {position[p] + 1} /\ Reads(p) # {}
      BY <1>3 DEF Skip
    <2>2. position[p] + 1 \in Offsets
      BY <2>1, ReadsNext
    <2> QED
      BY <1>1, <2>1, <2>2
  <1>4. CASE \E p \in Pods : StartPod(p) \/ Assign(p) \/ Hand(p) \/ Die(p) \/ AutoCommit(p) \/ Rebalance(p)
                           \/ StopPod(p) \/ KillPod(p)
    BY <1>2, <1>4 DEF StartPod, Assign, Hand, Die, AutoCommit, Rebalance, StopPod, KillPod, EndPod
  <1>5. CASE \E b \in broadcasts : RunBroadcast(b)
    BY <1>2, <1>5 DEF RunBroadcast, Start, Send
  <1>6. CASE \E s \in Sockets : Leave(s) \/ \E p \in Pods : ConnectSocket(s, p) \/ Disconnect(s, p)
    BY <1>2, <1>6 DEF Leave, ConnectSocket, Disconnect
  <1>7. CASE (\E m \in Payments \cup Foreign : Write(m)) \/ UNCHANGED notificationVars
    BY <1>2, <1>7 DEF Write, notificationVars
  <1> QED
    BY <1>3, <1>4, <1>5, <1>6, <1>7 DEF NotificationMoves, NotificationStep, Thread, PodEnds

Delivery == CopiesAreListed /\ SocketsAreKnown /\ ConnectedReceive

LEMMA DeliveryStep ==
    ASSUME SocketsOK, OffsetsOK, Delivery, NotificationMoves
    PROVE  Delivery'
  <1> USE DEF Delivery
  <1>0. \A c \in broadcasts : c.pod \in Pods /\ c.left \subseteq Sockets /\ c.failed \subseteq Sockets
    BY DEF OffsetsOK, Broadcasts
  <1>1. ASSUME UNCHANGED <<broadcasts, socketVars>> PROVE Delivery'
    BY <1>1 DEF socketVars, CopiesAreListed, SocketsAreKnown, ConnectedReceive
  <1>2. ASSUME NEW p \in Pods, Hand(p) PROVE Delivery'
    <2>1. broadcasts' = broadcasts \cup {Handed(p)} /\ UNCHANGED socketVars
      BY <1>2 DEF Hand
    <2>2. ~Handed(p).started /\ Handed(p).left = {} /\ Handed(p).failed = {}
      BY DEF Handed
    <2> QED
      BY <2>1, <2>2 DEF socketVars, CopiesAreListed, SocketsAreKnown, ConnectedReceive
  <1>3. ASSUME NEW b \in broadcasts, Start(b) PROVE Delivery'
    <2>1. /\ b.left = {} /\ UNCHANGED <<connections, peer>>
          /\ owed' = [s \in Sockets |-> IF s \in connections[b.pod] /\ peer[s] = "here"
                                        THEN owed[s] \cup {b.at} ELSE owed[s]]
      BY <1>3, Starting DEF CopiesAreListed
    <2>2. SocketsAreKnown'
      BY <2>1 DEF SocketsAreKnown
    <2>3. CASE connections[b.pod] = {} /\ broadcasts' = broadcasts \ {b}
      <3>1. \A s \in Sockets : owed'[s] = owed[s]
        BY <2>1, <2>3
      <3>2. ConnectedReceive'
        BY <2>1, <2>3, <3>1 DEF ConnectedReceive
      <3> QED
        BY <2>1, <2>2, <2>3, <3>2 DEF CopiesAreListed
    <2>4. ASSUME NEW next \in Broadcasts, next.at = b.at, next.pod = b.pod, next.started,
                 next.left = connections[b.pod], next.failed = b.failed,
                 broadcasts' = (broadcasts \ {b}) \cup {next}
          PROVE  Delivery'
      <3>1. CopiesAreListed'
        BY <1>0, <2>1, <2>4 DEF CopiesAreListed, SocketsAreKnown
      <3>2. ConnectedReceive'
        BY <2>1, <2>4 DEF ConnectedReceive
      <3> QED
        BY <2>2, <3>1, <3>2
    <2> QED
      BY <1>3, <2>3, <2>4, Starting
  <1>4. ASSUME NEW b \in broadcasts, NEW s \in Sockets, Send(b, s) PROVE Delivery'
    <2>1. /\ s \in b.left /\ UNCHANGED peer /\ peer[s] # "away"
          /\ owed' = [owed EXCEPT ![s] = owed[s] \ {b.at}]
      BY <1>4, Sending DEF CopiesAreListed
    <2>2. \A r \in Sockets : owed'[r] = IF r = s THEN owed[r] \ {b.at} ELSE owed[r]
      BY <2>1 DEF OffsetsOK
    <2>3. PICK failed \in SUBSET Sockets :
              /\ failed = (IF peer[s] = "here" THEN b.failed ELSE b.failed \cup {s})
              /\ \/ /\ b.left \subseteq {s}
                    /\ connections' = [connections EXCEPT ![b.pod] = connections[b.pod] \ failed]
                    /\ broadcasts' = broadcasts \ {b}
                 \/ \E next \in Broadcasts :
                       /\ next.pod = b.pod /\ next.at = b.at /\ next.started
                       /\ next.left = b.left \ {s} /\ next.failed = failed
                       /\ broadcasts' = (broadcasts \ {b}) \cup {next}
                       /\ UNCHANGED connections
      BY <1>4, Sending
    <2>4. \A r \in failed : peer[r] = "gone"
      BY <2>1, <2>3 DEF CopiesAreListed, SocketsOK
    <2>5. CASE b.left \subseteq {s} /\ connections' = [connections EXCEPT ![b.pod] = connections[b.pod] \ failed]
               /\ broadcasts' = broadcasts \ {b}
      <3>1. \A p \in Pods : connections'[p] = IF p = b.pod THEN connections[p] \ failed ELSE connections[p]
        BY <2>5 DEF SocketsOK
      <3>2. SocketsAreKnown'
        BY <2>1, <2>2, <3>1 DEF SocketsAreKnown
      <3>3. CopiesAreListed'
        BY <1>0, <2>1, <2>4, <2>5, <3>1 DEF CopiesAreListed
      <3>4. ConnectedReceive'
        <4>1. ASSUME NEW r \in Sockets, NEW at \in owed'[r]
              PROVE  \E c \in broadcasts' : c.at = at /\ r \in c.left
          <5>1. at \in owed[r] /\ (r = s => at # b.at)
            BY <2>2, <4>1
          <5>2. PICK c \in broadcasts : c.at = at /\ r \in c.left
            BY <5>1 DEF ConnectedReceive
          <5>3. CASE c = b
            BY <2>5, <5>1, <5>2, <5>3
          <5>4. CASE c # b
            BY <2>5, <5>2, <5>4
          <5> QED
            BY <5>3, <5>4
        <4> QED
          BY <4>1 DEF ConnectedReceive
      <3> QED
        BY <3>2, <3>3, <3>4
    <2>6. ASSUME NEW next \in Broadcasts, next.pod = b.pod, next.at = b.at, next.started,
                 next.left = b.left \ {s}, next.failed = failed,
                 broadcasts' = (broadcasts \ {b}) \cup {next}, UNCHANGED connections
          PROVE  Delivery'
      <3>1. SocketsAreKnown'
        BY <2>1, <2>2, <2>6 DEF SocketsAreKnown
      <3>2. CopiesAreListed'
        BY <1>0, <2>1, <2>4, <2>6 DEF CopiesAreListed
      <3>3. ConnectedReceive'
        <4>1. ASSUME NEW r \in Sockets, NEW at \in owed'[r]
              PROVE  \E c \in broadcasts' : c.at = at /\ r \in c.left
          <5>1. at \in owed[r] /\ (r = s => at # b.at)
            BY <2>2, <4>1
          <5>2. PICK c \in broadcasts : c.at = at /\ r \in c.left
            BY <5>1 DEF ConnectedReceive
          <5>3. CASE c = b
            BY <2>6, <5>1, <5>2, <5>3
          <5>4. CASE c # b
            BY <2>6, <5>2, <5>4
          <5> QED
            BY <5>3, <5>4
        <4> QED
          BY <4>1 DEF ConnectedReceive
      <3> QED
        BY <3>1, <3>2, <3>3
    <2> QED
      BY <2>3, <2>5, <2>6
  <1>5. ASSUME NEW s \in Sockets, NEW p \in Pods, ConnectSocket(s, p) PROVE Delivery'
    <2>1. /\ peer[s] = "away" /\ UNCHANGED <<broadcasts, owed>>
          /\ peer' = [peer EXCEPT ![s] = "here"]
          /\ connections' = [connections EXCEPT ![p] = connections[p] \cup {s}]
      BY <1>5 DEF ConnectSocket
    <2>2. SocketsAreKnown'
      BY <2>1 DEF SocketsOK, SocketsAreKnown
    <2>3. CopiesAreListed'
      BY <1>0, <2>1 DEF SocketsOK, CopiesAreListed
    <2> QED
      BY <2>1, <2>2, <2>3 DEF ConnectedReceive
  <1>6. ASSUME NEW s \in Sockets, Leave(s) PROVE Delivery'
    <2>1. /\ UNCHANGED <<broadcasts, connections>>
          /\ peer' = [peer EXCEPT ![s] = "gone"] /\ owed' = [owed EXCEPT ![s] = {}]
      BY <1>6 DEF Leave
    <2>2. SocketsAreKnown' /\ ConnectedReceive'
      BY <2>1 DEF SocketsOK, OffsetsOK, SocketsAreKnown, ConnectedReceive
    <2>3. CopiesAreListed'
      BY <1>0, <2>1 DEF SocketsOK, CopiesAreListed
    <2> QED
      BY <2>2, <2>3
  <1>7. ASSUME NEW s \in Sockets, NEW p \in Pods, Disconnect(s, p) PROVE Delivery'
    <2>1. /\ UNCHANGED <<broadcasts, peer, owed>> /\ peer[s] = "gone"
          /\ connections' = [connections EXCEPT ![p] = connections[p] \ {s}]
      BY <1>7 DEF Disconnect
    <2>2. SocketsAreKnown' /\ ConnectedReceive'
      BY <2>1 DEF SocketsOK, SocketsAreKnown, ConnectedReceive
    <2>3. CopiesAreListed'
      BY <1>0, <2>1 DEF SocketsOK, CopiesAreListed
    <2> QED
      BY <2>2, <2>3
  <1>8. ASSUME NEW p \in Pods, EndPod(p) PROVE Delivery'
    <2>1. /\ broadcasts' = {c \in broadcasts : c.pod # p}
          /\ peer' = [s \in Sockets |-> IF s \in connections[p] THEN "gone" ELSE peer[s]]
          /\ owed' = [s \in Sockets |-> IF s \in connections[p] THEN {} ELSE owed[s]]
          /\ connections' = [connections EXCEPT ![p] = {}]
      BY <1>8 DEF EndPod
    <2>2. SocketsAreKnown'
      BY <2>1 DEF SocketsOK, SocketsAreKnown
    <2>3. CopiesAreListed'
      BY <1>0, <2>1 DEF SocketsOK, CopiesAreListed
    <2>4. ConnectedReceive'
      <3>1. ASSUME NEW s \in Sockets, NEW at \in owed'[s]
            PROVE  \E c \in broadcasts' : c.at = at /\ s \in c.left
        <4>1. s \notin connections[p] /\ at \in owed[s] /\ peer[s] = "here"
          BY <2>1, <3>1 DEF SocketsAreKnown
        <4>2. PICK c \in broadcasts : c.at = at /\ s \in c.left
          BY <4>1 DEF ConnectedReceive
        <4>3. s \in connections[c.pod]
          BY <4>1, <4>2 DEF CopiesAreListed
        <4> QED
          BY <2>1, <4>1, <4>2, <4>3
      <3> QED
        BY <3>1 DEF ConnectedReceive
    <2> QED
      BY <2>2, <2>3, <2>4
  <1>9. CASE \E p \in Pods : StartPod(p) \/ Assign(p) \/ Skip(p) \/ Die(p) \/ AutoCommit(p) \/ Rebalance(p)
    BY <1>1, <1>9 DEF StartPod, Assign, Skip, Die, AutoCommit, Rebalance
  <1>10. CASE (\E m \in Payments \cup Foreign : Write(m)) \/ UNCHANGED notificationVars
    BY <1>1, <1>10 DEF Write, notificationVars
  <1> QED
    BY <1>2, <1>3, <1>4, <1>5, <1>6, <1>7, <1>8, <1>9, <1>10
    DEF NotificationMoves, NotificationStep, Thread, RunBroadcast, PodEnds, StopPod, KillPod

\* Two threads never die of the same message: the first commits it, and the
\* second polls from what is committed on.
LEMMA PoisonStep ==
    ASSUME Grouped, PoisonStopsOneThread, NotificationMoves, UNCHANGED brokerVars
    PROVE  PoisonStopsOneThread'
  <1>0. UNCHANGED outage /\ \A p \in Pods : position[p] \in Nat
    BY DEF Grouped, GroupOK, brokerVars
  <1>1. ASSUME NEW p \in Pods, UNCHANGED loop, loop[p] # "dead",
               \A q \in Pods \ {p} : position'[q] = position[q]
        PROVE  PoisonStopsOneThread'
    BY <1>0, <1>1 DEF PoisonStopsOneThread
  <1>2. ASSUME NEW p \in Pods, Assign(p) \/ Skip(p) \/ Hand(p) \/ Rebalance(p) PROVE PoisonStopsOneThread'
    <2>1. UNCHANGED loop /\ loop[p] = "polling"
      BY <1>2 DEF Assign, Skip, Hand, Rebalance, Reads, groupVars, Grouped, OwnersRead
    <2>2. \A q \in Pods \ {p} : position'[q] = position[q]
      BY <1>2 DEF Assign, Skip, Hand, Rebalance, Advanced, Grouped, GroupOK
    <2> QED
      BY <1>1, <2>1, <2>2
  <1>3. ASSUME NEW p \in Pods, Die(p) PROVE PoisonStopsOneThread'
    <2>1. Reads(p) # {} /\ position' = Advanced(p) /\ loop' = [loop EXCEPT ![p] = "dead"]
      BY <1>3 DEF Die
    <2>2. /\ p \in owner /\ position'[p] = position[p] + 1
          /\ \A q \in Pods \ {p} : position'[q] = position[q] /\ loop'[q] = loop[q]
      BY <1>0, <2>1, ReadsNext DEF Grouped, GroupOK
    <2>3. committed <= position[p] /\ committed \in Nat
      BY <2>2 DEF Grouped, OwnersRead, GroupOK
    <2>4. ~outage => \A q \in Pods \ {p} : loop[q] = "dead" => position'[q] < position'[p]
      BY <1>0, <2>2, <2>3 DEF Grouped, DeadAreCommitted
    <2>5. ASSUME NEW q \in Pods, NEW r \in Pods, q # r, loop'[q] = "dead", loop'[r] = "dead",
                 position'[q] = position'[r], ~outage
          PROVE  FALSE
      <3>1. CASE q = p \/ r = p
        BY <1>0, <2>2, <2>4, <2>5, <3>1
      <3>2. CASE q # p /\ r # p
        BY <2>2, <2>5, <3>2 DEF PoisonStopsOneThread
      <3> QED
        BY <3>1, <3>2
    <2> QED
      BY <1>0, <2>5 DEF PoisonStopsOneThread
  <1>4. ASSUME NEW p \in Pods, StartPod(p) \/ EndPod(p) PROVE PoisonStopsOneThread'
    <2>1. /\ loop'[p] # "dead"
          /\ \A q \in Pods \ {p} : position'[q] = position[q] /\ loop'[q] = loop[q]
      BY <1>4 DEF StartPod, EndPod, Grouped, GroupOK
    <2> QED
      BY <1>0, <2>1 DEF PoisonStopsOneThread
  <1>5. ASSUME UNCHANGED threadVars PROVE PoisonStopsOneThread'
    BY <1>0, <1>5 DEF threadVars, PoisonStopsOneThread
  <1>6. CASE (\E m \in Payments \cup Foreign : Write(m)) \/ UNCHANGED notificationVars
             \/ \E p \in Pods : AutoCommit(p)
    BY <1>5, <1>6 DEF Write, notificationVars, AutoCommit
  <1>7. CASE (\E b \in broadcasts : RunBroadcast(b))
             \/ \E s \in Sockets : Leave(s) \/ \E p \in Pods : ConnectSocket(s, p) \/ Disconnect(s, p)
    BY <1>5, <1>7 DEF RunBroadcast, Start, Send, Leave, ConnectSocket, Disconnect
  <1> QED
    BY <1>2, <1>3, <1>4, <1>6, <1>7 DEF NotificationMoves, NotificationStep, Thread, PodEnds, StopPod, KillPod

\* What the edges keep: their types, and what the two services rely on.
PassingOK ==
    /\ carried \in 0 .. Len(raw) /\ dropped \subseteq 1 .. carried
    /\ disturbances \in 0 .. MaxDisturbances /\ foreign \in 0 .. MaxForeign

EdgeInv ==
    /\ BrokerTypeOK /\ GatewayTypeOK /\ PassingOK
    /\ GroupOK /\ SocketsOK /\ OffsetsOK /\ undecoded \subseteq Offsets
    /\ OutageIsNoted /\ OwnersRead /\ DeadAreCommitted
    /\ PoisonStopsOneThread
    /\ Delivery

LEMMA EdgeInvImplies == EdgeInv => EdgeTypeOK /\ ConnectedReceive /\ PoisonStopsOneThread
  BY OneOwner, NotificationPieces, Zenon DEF EdgeInv, EdgeTypeOK, PassingOK, Delivery

LEMMA EdgeInitInv == EdgeInit => EdgeInv
  <1> SUFFICES ASSUME EdgeInit PROVE EdgeInv
    OBVIOUS
  <1>1. BrokerTypeOK /\ OutageIsNoted
    BY Zenon DEF EdgeInit, BrokerInit, BrokerTypeOK, OutageIsNoted
  <1>2. GatewayTypeOK
    <2>1. FlagsOK
      BY Zenon DEF EdgeInit, GatewayInit, FlagsOK
    <2>2. TaskOK /\ RequestsOK
      BY GatewayAssumption DEF EdgeInit, GatewayInit, TaskOK, RequestsOK
    <2> QED
      BY <2>1, <2>2, GatewayPieces
  <1>3. PassingOK
    BY EdgeAssumption DEF EdgeInit, GatewayInit, PassingOK
  <1>4. GroupOK /\ SocketsOK /\ OffsetsOK /\ undecoded \subseteq Offsets
    BY DEF EdgeInit, NotificationInit, GroupOK, SocketsOK, OffsetsOK
  <1>5. OwnersRead /\ DeadAreCommitted /\ PoisonStopsOneThread
    BY DEF EdgeInit, NotificationInit, OwnersRead, DeadAreCommitted, PoisonStopsOneThread
  <1>6. Delivery
    BY DEF EdgeInit, NotificationInit, Delivery, CopiesAreListed, SocketsAreKnown, ConnectedReceive
  <1> QED
    BY <1>1, <1>2, <1>3, <1>4, <1>5, <1>6 DEF EdgeInv

\* The broker's own steps leave the services alone.
LEMMA BrokerStep ==
    ASSUME BrokerTypeOK, OutageIsNoted, UNCHANGED brokerVars \/ BrokerDown \/ BrokerUp
    PROVE  BrokerTypeOK' /\ OutageIsNoted' /\ (outage => outage')
  BY Zenon DEF BrokerTypeOK, OutageIsNoted, brokerVars, BrokerDown, BrokerUp

LEMMA PassingStep ==
    ASSUME PassingOK, [EdgeNext]_edgeVars, Len(raw) \in Nat, Len(raw') \in Nat, Len(raw) <= Len(raw')
    PROVE  PassingOK'
  <1>1. MaxDisturbances \in Nat /\ MaxForeign \in Nat
    BY EdgeAssumption
  <1>2. CASE Scoring
    <2>1. /\ carried < Len(raw) /\ carried' = carried + 1 /\ UNCHANGED <<raw, bounds>>
          /\ dropped' = dropped \/ dropped' = dropped \cup {carried + 1}
      BY <1>2 DEF Scoring, CarryOver, Drop, gatewayVars
    <2>2. carried \in 0 .. Len(raw) /\ \A i \in dropped : i \in 1 .. carried
      BY DEF PassingOK
    <2>3. dropped' \subseteq 1 .. carried'
      <3>1. ASSUME NEW i \in dropped' PROVE i \in 1 .. carried'
        <4>1. i \in dropped \/ i = carried + 1
          BY <2>1, <3>1
        <4>2. i \in dropped => i \in 1 .. carried'
          BY <1>1, <2>1, <2>2
        <4> QED
          BY <2>1, <2>2, <4>1, <4>2
      <3> QED
        BY <3>1
    <2> QED
      BY <1>1, <2>1, <2>2, <2>3 DEF bounds, PassingOK
  <1>3. CASE ForeignMessage
    BY <1>1, <1>3 DEF ForeignMessage, PassingOK, passing
  <1>4. CASE Disturbance
    BY <1>1, <1>4 DEF Disturbance, PassingOK, passing
  <1>5. CASE UNCHANGED <<passing, bounds>>
    BY <1>1, <1>5 DEF bounds, passing, PassingOK
  <1> QED
    BY <1>2, <1>3, <1>4, <1>5 DEF EdgeNext, OutageEnds, edgeVars

LEMMA EdgeStep == EdgeInv /\ [EdgeNext]_edgeVars => EdgeInv'
  <1> SUFFICES ASSUME EdgeInv, [EdgeNext]_edgeVars PROVE EdgeInv'
    OBVIOUS
  <1> USE DEF EdgeInv
  <1>1. /\ NotificationMoves /\ GatewayMoves
        /\ UNCHANGED brokerVars \/ BrokerDown \/ BrokerUp
        /\ UNCHANGED brokerVars \/ UNCHANGED <<gatewayVars, notificationVars>>
    BY EdgeInvImplies, EdgeMoves
  <1>2. BrokerTypeOK' /\ OutageIsNoted' /\ (outage => outage')
    BY <1>1, BrokerStep
  <1>3. GatewayTypeOK' /\ Len(raw) <= Len(raw')
    BY <1>1, GatewayTypeStep
  <1>4. PassingOK'
    <2>1. Len(raw) \in Nat /\ Len(raw') \in Nat
      BY <1>3 DEF GatewayTypeOK
    <2> QED
      BY <1>3, <2>1, PassingStep
  <1>5. Grouped' /\ PoisonStopsOneThread' /\ Len(scored) <= Len(scored')
    <2>1. CASE UNCHANGED brokerVars
      BY <1>1, <2>1, GroupStep, PoisonStep DEF Grouped
    <2>2. CASE UNCHANGED notificationVars
      <3>1. UNCHANGED <<scored, committed, owner, loop, position>> /\ Len(scored) \in Nat
        BY <2>2 DEF notificationVars, groupVars, threadVars, GroupOK
      <3> QED
        BY <1>2, <3>1 DEF Grouped, GroupOK, OwnersRead, DeadAreCommitted, PoisonStopsOneThread
    <2> QED
      BY <1>1, <2>1, <2>2
  <1>6. SocketsOK' /\ OffsetsOK' /\ (undecoded \subseteq Offsets)'
    <2>1. Len(scored) \in Nat /\ Len(scored') \in Nat
      BY <1>5 DEF Grouped, GroupOK
    <2> QED
      BY <1>1, <1>5, <2>1, DeliveryTypeStep, UndecodedStep
  <1>7. Delivery'
    BY <1>1, DeliveryStep
  <1> QED
    BY <1>2, <1>3, <1>4, <1>5, <1>6, <1>7 DEF Grouped

LEMMA EdgeInvariant == EdgeSpec => []EdgeInv
  BY EdgeInitInv, EdgeStep, PTL DEF EdgeSpec

\* Gateway, notification service, broker and what runs between them stay within
\* their states; in particular one pod at most holds the partition (the consumer
\* group of notification_system.py:70).
THEOREM EdgeTypeCorrect == EdgeSpec => []EdgeTypeOK
  BY EdgeInvariant, EdgeInvImplies, PTL

\* A broadcast that is over has reached every client that was connected when it
\* began and still is, however the sends of several broadcasts, the connections
\* and the disconnections interleave on the event loop, and however many pods,
\* clients and transactions there are (broadcast, notification_system.py:45-55).
THEOREM ConnectedAreServed == EdgeSpec => []ConnectedReceive
  BY EdgeInvariant, EdgeInvImplies, PTL

\* Without an outage two consumer threads do not die of the same message, for any
\* number of pods, rebalances and messages that cannot be parsed: the finally that
\* closes the consumer commits past it (notification_system.py:159).
THEOREM PoisonIsContained == EdgeSpec => []PoisonStopsOneThread
  BY EdgeInvariant, EdgeInvImplies, PTL

\* What the gateway has taken for stored is in the topic.
Stored(t) == t \in accepted \/ request[t] = "stored"
StoredAreInRaw == \A t \in Transactions : Stored(t) => \E i \in 1 .. Len(raw) : raw[i] = t

LEMMA StoredStep ==
    ASSUME StoredAreInRaw, GatewayTypeOK, GatewayMoves
    PROVE  StoredAreInRaw'
  <1>0. Len(raw) \in Nat /\ request \in [Transactions -> {"none", "sending", "stored"}]
    BY DEF GatewayTypeOK
  <1>1. ASSUME UNCHANGED raw, \A t \in Transactions : Stored(t)' => Stored(t) PROVE StoredAreInRaw'
    BY <1>1 DEF StoredAreInRaw, Stored
  <1>2. ASSUME NEW t \in Transactions, Store(t) PROVE StoredAreInRaw'
    <2>1. /\ UNCHANGED accepted /\ request' = [request EXCEPT ![t] = "stored"]
          /\ Len(raw') = Len(raw) + 1 /\ raw'[Len(raw) + 1] = t
          /\ \A i \in 1 .. Len(raw) : raw'[i] = raw[i]
      BY <1>0, <1>2 DEF Store, GatewayTypeOK
    <2>2. ASSUME NEW u \in Transactions, Stored(u)' PROVE \E i \in 1 .. Len(raw') : raw'[i] = u
      <3>1. CASE u = t
        BY <1>0, <2>1, <3>1
      <3>2. CASE u # t
        <4>1. Stored(u)
          BY <1>0, <2>1, <2>2, <3>2 DEF Stored
        <4>2. PICK i \in 1 .. Len(raw) : raw[i] = u
          BY <4>1 DEF StoredAreInRaw
        <4> QED
          BY <1>0, <2>1, <4>2
      <3> QED
        BY <3>1, <3>2
    <2> QED
      BY <2>2 DEF StoredAreInRaw
  <1>3. ASSUME NEW t \in Transactions, Ingest(t) \/ Accept(t) \/ Refuse(t) PROVE StoredAreInRaw'
    BY <1>0, <1>1, <1>3 DEF Ingest, Accept, Refuse, Stored
  <1>4. CASE GatewayEnds
    <2>1. Ended
      BY <1>4 DEF GatewayEnds, Shutdown, GatewayKilled
    <2> QED
      BY <1>1, <2>1 DEF Ended, Stored
  <1>5. CASE UNCHANGED gatewayVars \/ ConnectionTask \/ Probe
    BY <1>1, <1>5 DEF gatewayVars, ConnectionTask, StartUp, Connect, ConnectFails, RetryConnect, Probe, Stored
  <1> QED
    BY <1>2, <1>3, <1>4, <1>5 DEF GatewayMoves, GatewayStep

\* A transaction answered with 202 is in the raw-transactions topic: the answer
\* waits for the broker, and no restart, outage or repetition of the request in
\* between makes the gateway promise what it has not stored (gateway.py:208).
THEOREM AcceptedIsStored == EdgeSpec => [](\A t \in accepted : \E i \in 1 .. Len(raw) : raw[i] = t)
  <1>1. EdgeInit => StoredAreInRaw
    BY DEF EdgeInit, GatewayInit, StoredAreInRaw, Stored
  <1>2. EdgeInv /\ StoredAreInRaw /\ [EdgeNext]_edgeVars => StoredAreInRaw'
    BY EdgeInvImplies, EdgeMoves, StoredStep DEF EdgeTypeOK
  <1>3. EdgeInv /\ StoredAreInRaw => \A t \in accepted : \E i \in 1 .. Len(raw) : raw[i] = t
    BY DEF EdgeInv, GatewayTypeOK, StoredAreInRaw, Stored
  <1> QED
    BY EdgeInvariant, <1>1, <1>2, <1>3, PTL DEF EdgeSpec

\* A message whose broadcast was begun, is over, or was lost with its pod.
Passed(i) == i \in over \/ \E b \in broadcasts : b.at = i

\* That, or a thread could not decode it.
Accounted(i) == Passed(i) \/ i \in undecoded

\* Nobody reads on, and nothing is committed, before what is to be broadcast is.
HandedOver ==
    \A i \in Offsets :
        scored[i] \in Payments /\ (i <= committed \/ \E p \in owner : i <= position[p]) => Accounted(i)

LEMMA PassedOnce ==
    ASSUME SocketsOK, OffsetsOK, NotificationMoves, NEW i \in Nat, Passed(i)
    PROVE  Passed(i)'
  <1>1. ASSUME UNCHANGED over, broadcasts \subseteq broadcasts' PROVE Passed(i)'
    BY <1>1 DEF Passed
  <1>2. ASSUME NEW b \in broadcasts, NEW next, next.at = b.at,
               \/ broadcasts' = broadcasts \ {b} /\ over' = over \cup {b.at}
               \/ broadcasts' = (broadcasts \ {b}) \cup {next} /\ UNCHANGED over
        PROVE  Passed(i)'
    BY <1>2 DEF Passed
  <1>3. ASSUME NEW b \in broadcasts, Start(b) PROVE Passed(i)'
    <2>1. CASE broadcasts' = broadcasts \ {b} /\ over' = over \cup {b.at}
      BY <1>2, <2>1
    <2>2. CASE \E next \in Broadcasts :
                  next.at = b.at /\ broadcasts' = (broadcasts \ {b}) \cup {next} /\ UNCHANGED over
      BY <1>2, <2>2
    <2> QED
      BY <1>3, <2>1, <2>2, Starting
  <1>4. ASSUME NEW b \in broadcasts, NEW s \in Sockets, Send(b, s) PROVE Passed(i)'
    <2>1. CASE broadcasts' = broadcasts \ {b} /\ over' = over \cup {b.at}
      BY <1>2, <2>1
    <2>2. CASE \E next \in Broadcasts :
                  next.at = b.at /\ broadcasts' = (broadcasts \ {b}) \cup {next} /\ UNCHANGED over
      BY <1>2, <2>2
    <2> QED
      BY <1>4, <2>1, <2>2, Sending
  <1>5. ASSUME NEW p \in Pods, EndPod(p) PROVE Passed(i)'
    BY <1>5 DEF EndPod, Passed
  <1>6. ASSUME NEW p \in Pods, Hand(p) PROVE Passed(i)'
    BY <1>1, <1>6 DEF Hand
  <1>7. CASE \E p \in Pods : StartPod(p) \/ Assign(p) \/ Skip(p) \/ Die(p) \/ AutoCommit(p) \/ Rebalance(p)
    BY <1>1, <1>7 DEF StartPod, Assign, Skip, Die, AutoCommit, Rebalance
  <1>8. CASE \E s \in Sockets : Leave(s) \/ \E p \in Pods : ConnectSocket(s, p) \/ Disconnect(s, p)
    BY <1>1, <1>8 DEF Leave, ConnectSocket, Disconnect
  <1>9. CASE (\E m \in Payments \cup Foreign : Write(m)) \/ UNCHANGED notificationVars
    BY <1>1, <1>9 DEF Write, notificationVars
  <1> QED
    BY <1>3, <1>4, <1>5, <1>6, <1>7, <1>8, <1>9
    DEF NotificationMoves, NotificationStep, Thread, RunBroadcast, PodEnds, StopPod, KillPod

LEMMA HandedStep ==
    ASSUME Grouped, Grouped', SocketsOK, OffsetsOK, undecoded \subseteq Offsets, HandedOver,
           NotificationMoves, Len(scored) <= Len(scored')
    PROVE  HandedOver'
  <1>0. /\ Len(scored) \in Nat /\ committed \in 0 .. Len(scored) /\ owner \subseteq Pods
        /\ position \in [Pods -> 0 .. Len(scored)]
        /\ committed' \in Nat /\ owner' \subseteq Pods /\ \A p \in Pods : position'[p] \in Nat
    BY DEF Grouped, GroupOK
  <1>1. \A i \in Offsets : i \in Nat /\ (Accounted(i) => Accounted(i)')
    <2>1. Len(scored') \in Nat
      BY DEF Grouped, GroupOK
    <2>2. undecoded \subseteq undecoded'
      BY <1>0, <2>1, UndecodedStep DEF Grouped
    <2> QED
      BY <1>0, <2>2, PassedOnce DEF Offsets, Accounted
  \* A step that reads no message.
  <1>2. ASSUME UNCHANGED scored, committed' = committed \/ (\E p \in owner : committed' = position[p]),
               \A p \in owner' : position'[p] = committed \/ (p \in owner /\ position'[p] = position[p])
        PROVE  HandedOver'
    BY <1>1, <1>2 DEF HandedOver, Offsets
  \* A step that reads the next one.
  <1>3. ASSUME NEW p \in Pods, Reads(p) # {}, position' = Advanced(p), UNCHANGED scored,
               NEW n, n = position[p] + 1, scored[n] \in Payments => Accounted(n)',
               owner' \subseteq owner, committed' = committed \/ committed' = position'[p]
        PROVE  HandedOver'
    <2>1. /\ p \in owner /\ position[p] \in Nat /\ position'[p] = position[p] + 1
          /\ \A q \in Pods \ {p} : position'[q] = position[q]
      BY <1>0, <1>3, ReadsNext DEF Grouped
    <2>2. ASSUME NEW i \in Offsets, scored[i] \in Payments,
                 i <= committed' \/ \E q \in owner' : i <= position'[q]
          PROVE  Accounted(i)'
      <3>1. CASE i = n
        BY <1>3, <2>2, <3>1
      <3>2. CASE i # n
        <4>1. i <= committed \/ \E q \in owner : i <= position[q]
          <5>1. CASE i <= committed
            BY <5>1
          <5>2. CASE i <= position'[p]
            BY <1>1, <1>3, <2>1, <3>2, <5>2
          <5>3. ASSUME NEW q \in owner', q # p, i <= position'[q]
                PROVE  \E r \in owner : i <= position[r]
            BY <1>0, <1>3, <2>1, <5>3
          <5> QED
            BY <1>3, <2>2, <5>1, <5>2, <5>3
        <4> QED
          BY <1>1, <2>2, <4>1 DEF HandedOver
      <3> QED
        BY <3>1, <3>2
    <2> QED
      BY <1>3, <2>2 DEF HandedOver, Offsets
  <1>4. ASSUME NEW p \in Pods, Hand(p) PROVE HandedOver'
    <2> DEFINE n == position[p] + 1
    <2>1. Handed(p) \in broadcasts' /\ Handed(p).at = n
      BY <1>4 DEF Hand, Handed
    <2> HIDE DEF n
    <2>2. PICK m : m = n
      OBVIOUS
    <2>3. Accounted(m)'
      BY <2>1, <2>2 DEF Passed, Accounted
    <2>4. /\ Reads(p) # {} /\ position' = Advanced(p) /\ UNCHANGED <<scored, committed, owner>>
      BY <1>4 DEF Hand, groupVars
    <2> QED
      BY <1>3, <2>2, <2>3, <2>4 DEF n
  <1>5. ASSUME NEW p \in Pods, Skip(p) \/ Die(p) PROVE HandedOver'
    <2> DEFINE n == position[p] + 1
    <2>1. /\ Reads(p) # {} /\ position' = Advanced(p) /\ UNCHANGED scored
          /\ owner' \subseteq owner /\ (committed' = committed \/ committed' = position'[p])
      BY <1>5 DEF Skip, Die, Left, groupVars
    <2>2. CASE Skip(p)
      <3>1. n \in undecoded'
        BY <2>2 DEF Skip
      <3> HIDE DEF n
      <3>2. PICK m : m = n
        OBVIOUS
      <3>3. Accounted(m)'
        BY <3>1, <3>2 DEF Accounted
      <3> QED
        BY <1>3, <2>1, <3>2, <3>3 DEF n
    <2>3. CASE Die(p)
      <3>1. scored[n] \in Foreign
        BY <2>3, ReadsNext DEF Die, Foreign, Grouped
      <3>2. scored[n] \notin Payments
        BY <3>1, NotificationAssumption
      <3> QED
        BY <1>3, <2>1, <3>2
    <2> QED
      BY <1>5, <2>2, <2>3
  <1>6. ASSUME NEW p \in Pods, Assign(p) PROVE HandedOver'
    BY <1>0, <1>2, <1>6 DEF Assign
  <1>7. ASSUME NEW p \in Pods, AutoCommit(p) PROVE HandedOver'
    BY <1>2, <1>7 DEF AutoCommit, threadVars
  <1>8. ASSUME NEW p \in Pods, Rebalance(p) PROVE HandedOver'
    BY <1>2, <1>8 DEF Rebalance, Left
  <1>9. ASSUME NEW p \in Pods, StopPod(p) \/ KillPod(p) PROVE HandedOver'
    <2>1. UNCHANGED scored /\ owner' = owner \ {p} /\ position' = [position EXCEPT ![p] = 0]
      BY <1>9 DEF StopPod, KillPod, EndPod
    <2>2. committed' = committed \/ \E q \in owner : committed' = position[q]
      BY <1>9 DEF StopPod, KillPod, Left
    <2> QED
      BY <1>0, <1>2, <2>1, <2>2
  <1>10. CASE \E m \in Payments \cup Foreign : Write(m)
    <2>1. Len(scored') = Len(scored) + 1 /\ \A i \in Offsets : scored'[i] = scored[i]
      BY <1>0, <1>10 DEF Write, Grouped, GroupOK, Offsets
    <2>2. \A i \in Offsets' : i <= committed' \/ (\E p \in owner' : i <= position'[p]) => i \in Offsets
      BY <1>0, <1>10, <2>1 DEF Write, threadVars, Offsets
    <2> QED
      BY <1>1, <1>10, <2>1, <2>2 DEF Write, threadVars, HandedOver
  <1>11. CASE UNCHANGED <<groupVars, position>>
    BY <1>2, <1>11 DEF groupVars
  <1>12. CASE \E p \in Pods : StartPod(p)
    BY <1>11, <1>12 DEF StartPod
  <1>13. CASE (\E b \in broadcasts : RunBroadcast(b)) \/ UNCHANGED notificationVars
             \/ \E s \in Sockets : Leave(s) \/ \E p \in Pods : ConnectSocket(s, p) \/ Disconnect(s, p)
    BY <1>11, <1>13 DEF RunBroadcast, Start, Send, Leave, ConnectSocket, Disconnect, threadVars, notificationVars
  <1> QED
    BY <1>4, <1>5, <1>6, <1>7, <1>8, <1>9, <1>10, <1>12, <1>13
    DEF NotificationMoves, NotificationStep, Thread, PodEnds

\* No scored transaction is passed over but those a thread could not decode: what
\* the group has committed, or a thread has read, is being broadcast, was
\* broadcast, was lost with the pod that had it, or has been logged as not to be
\* decoded, whatever rebalances, commits that failed and messages that kill a
\* thread came between (_kafka_consumer_loop, notification_system.py:129).
THEOREM NothingIsPassedOver == EdgeSpec => []HandedOver
  <1>1. EdgeInit => HandedOver
    BY DEF EdgeInit, NotificationInit, HandedOver, Offsets
  <1>2. EdgeInv /\ EdgeInv' /\ HandedOver /\ [EdgeNext]_edgeVars => HandedOver'
    <2> SUFFICES ASSUME EdgeInv, EdgeInv', HandedOver, [EdgeNext]_edgeVars PROVE HandedOver'
      OBVIOUS
    <2>1. NotificationMoves
      BY EdgeInvImplies, EdgeMoves
    <2>2. Len(scored) <= Len(scored')
      <3>1. CASE UNCHANGED brokerVars
        BY <2>1, <3>1, GroupStep DEF EdgeInv, Grouped
      <3>2. CASE UNCHANGED notificationVars
        BY <3>2 DEF notificationVars, groupVars, EdgeInv, GroupOK
      <3> QED
        BY <3>1, <3>2, EdgeInvImplies, EdgeMoves
    <2> QED
      BY <2>1, <2>2, HandedStep DEF EdgeInv, Grouped
  <1> QED
    BY EdgeInvariant, <1>1, <1>2, PTL DEF EdgeSpec
=============================================================================
