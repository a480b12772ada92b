--------------------- MODULE TransactionPipeline_proofs ---------------------
(***************************************************************************)
(* What the pipeline guarantees for any number of transactions, workers    *)
(* and disturbances.  The argument is about what a worker may commit: the  *)
(* offsets before its own have been handled (HandledUpTo), because it      *)
(* started at the committed offset and does not poll past a message that   *)
(* it did not handle.  That last step is where a failure in processing     *)
(* breaks it, so the theorems about commits assume that processing does    *)
(* not fail.  The theorem about duplicates assumes nothing of the kind: it *)
(* weighs what a stage has produced, and is bound to produce, against what *)
(* it has committed and is about to commit (Surplus).                      *)
(***************************************************************************)
EXTENDS TransactionPipeline, FiniteSetTheorems, TLAPS

\* A worker knows only offsets of messages that are there.
PositionsExist ==
    /\ \A w \in Workers : position[w] <= Len(Input(w))
    /\ \A w \in Workers : pc[w] \in {"processing", "committing"} => position[w] >= 1
    /\ \A s \in Stages : committed[s] <= Len(log[InTopic[s]])

FlushingOwnsNothing == \A w \in Workers : pc[w] = "flushing" => ~Owns(w)

TypeInv == TypeOK /\ PositionsExist /\ FlushingOwnsNothing

\* The offsets before which a worker knows everything to be handled.
HandledUpTo ==
    \A w \in Workers :
        /\ pc[w] = "polling" /\ Owns(w) => 1..position[w] \subseteq handled[StageOf[w]]
        /\ pc[w] = "processing" => 1..(position[w] - 1) \subseteq handled[StageOf[w]]
        /\ pc[w] = "committing" => 1..position[w] \subseteq handled[StageOf[w]]

CommitInv == TypeInv /\ CommittedIsHandled /\ HandledUpTo

-----------------------------------------------------------------------------
LEMMA Topology ==
    /\ InTopic \in [Stages -> Topics]
    /\ OutTopic \in [Stages -> Topics]
    /\ \A w \in Workers : StageOf[w] \in Stages /\ InTopic[StageOf[w]] \in Topics
                                                /\ OutTopic[StageOf[w]] \in Topics
    /\ "raw" \in Topics
  BY PipelineAssumption DEF InTopic, OutTopic, Stages, Topics

\* Topics are logs: a step appends at most one message to one of them.
LogKept ==
    \A p \in Topics : /\ Len(log[p]) <= Len(log'[p])
                      /\ \A i \in 1..Len(log[p]) : log'[p][i] = log[p][i]

LEMMA AppendKeepsLog ==
    ASSUME TypeOK, NEW p \in Topics, NEW t \in Transactions,
           log' = [log EXCEPT ![p] = Append(@, t)]
    PROVE  LogKept /\ log' \in [Topics -> Seq(Transactions)]
  <1>1. log \in [Topics -> Seq(Transactions)]
    BY DEF TypeOK
  <1>2. ASSUME NEW q \in Topics
        PROVE  /\ Len(log[q]) <= Len(log'[q])
               /\ \A i \in 1..Len(log[q]) : log'[q][i] = log[q][i]
    <2>1. log[q] \in Seq(Transactions)
      BY <1>1
    <2>2. log'[q] = IF q = p THEN Append(log[q], t) ELSE log[q]
      BY <1>1
    <2> QED
      BY <2>1, <2>2
  <1>3. log' \in [Topics -> Seq(Transactions)]
    <2>1. log[p] \in Seq(Transactions)
      BY <1>1
    <2>2. Append(log[p], t) \in Seq(Transactions)
      BY <2>1
    <2> QED
      BY <1>1, <2>2
  <1> QED
    BY <1>2, <1>3 DEF LogKept

LEMMA StepKeepsLog ==
    ASSUME TypeOK, [Next]_vars
    PROVE  LogKept /\ log' \in [Topics -> Seq(Transactions)]
  <1>1. CASE log' = log
    <2>1. \A p \in Topics : log[p] \in Seq(Transactions)
      BY DEF TypeOK
    <2> QED
      BY <1>1, <2>1 DEF LogKept, TypeOK
  <1>2. ASSUME NEW t \in Transactions, Ingest(t) \/ IngestFails(t)
        PROVE  log' = log \/ log' = [log EXCEPT !["raw"] = Append(@, t)]
    BY <1>2 DEF Ingest, IngestFails
  <1>3. ASSUME NEW t \in Transactions, Ingest(t) \/ IngestFails(t)
        PROVE  LogKept /\ log' \in [Topics -> Seq(Transactions)]
    BY <1>1, <1>2, <1>3, AppendKeepsLog, Topology
  <1>4. ASSUME NEW w \in Workers, Deliver(w)
        PROVE  LogKept /\ log' \in [Topics -> Seq(Transactions)]
    <2>1. outbox[w] \in Seq(Transactions) /\ outbox[w] # <<>>
      BY <1>4 DEF TypeOK, Deliver
    <2>2. Head(outbox[w]) \in Transactions
      BY <2>1
    <2>3. log' = [log EXCEPT ![OutTopic[StageOf[w]]] = Append(@, Head(outbox[w]))]
      BY <1>4 DEF Deliver
    <2> QED
      BY <2>2, <2>3, AppendKeepsLog, Topology
  <1>5. ASSUME NEW w \in Workers,
               Loop(w) \/ ProcessFails(w) \/ CommitFails(w) \/ DeliveryFails(w) \/ Stop(w) \/ Crash(w)
        PROVE  log' = log
    BY <1>5 DEF Loop, Assign, Poll, Process, Commit, CommitRefused, Restart, ProcessFails,
       CommitFails, DeliveryFails, Stop, Crash
  <1>6. ASSUME NEW s \in Stages, Evict(s) PROVE log' = log
    BY <1>6 DEF Evict
  <1>7. UNCHANGED vars => log' = log
    BY DEF vars
  <1> QED
    BY <1>1, <1>3, <1>4, <1>5, <1>6, <1>7 DEF Next

LEMMA InitInv == Init => CommitInv
  <1> SUFFICES ASSUME Init PROVE CommitInv
    OBVIOUS
  <1>1. TypeOK
    BY PipelineAssumption DEF Init, TypeOK, Topics, Stages
  <1>2. PositionsExist
    BY Topology DEF Init, PositionsExist, Input
  <1>3. FlushingOwnsNothing /\ CommittedIsHandled
    BY DEF Init, FlushingOwnsNothing, CommittedIsHandled
  <1>4. HandledUpTo
    BY Topology DEF Init, HandledUpTo
  <1> QED
    BY <1>1, <1>2, <1>3, <1>4 DEF CommitInv, TypeInv

-----------------------------------------------------------------------------
(* The types, and where workers and offsets may be                         *)

LEMMA LengthsGrow ==
    ASSUME TypeOK, [Next]_vars
    PROVE  /\ \A w \in Workers : /\ Input(w) \in Seq(Transactions)
                                  /\ Len(Input(w)) \in Nat
                                  /\ Len(Input(w)') \in Nat
                                  /\ Len(Input(w)) <= Len(Input(w)')
           /\ \A s \in Stages : /\ Len(log[InTopic[s]]) \in Nat
                                 /\ Len(log'[InTopic[s]]) \in Nat
                                 /\ Len(log[InTopic[s]]) <= Len(log'[InTopic[s]])
  <1>1. LogKept /\ log' \in [Topics -> Seq(Transactions)] /\ log \in [Topics -> Seq(Transactions)]
    BY StepKeepsLog DEF TypeOK
  <1>2. \A q \in Topics : /\ log[q] \in Seq(Transactions)
                           /\ Len(log[q]) \in Nat /\ Len(log'[q]) \in Nat
                           /\ Len(log[q]) <= Len(log'[q])
    BY <1>1 DEF LogKept
  <1>3. \A s \in Stages : InTopic[s] \in Topics
    BY Topology
  <1> QED
    BY <1>2, <1>3, Topology DEF Input

\* What is left of a step when the log is taken care of.
RestOK ==
    /\ sent \subseteq Transactions
    /\ accepted \subseteq sent
    /\ committed \in [Stages -> Nat]
    /\ owner \in [Stages -> Workers \cup {Nobody}]
    /\ pc \in [Workers -> {"polling", "processing", "committing", "flushing"}]
    /\ position \in [Workers -> Nat]
    /\ outbox \in [Workers -> Seq(Transactions)]
    /\ handled \in [Stages -> SUBSET (Nat \ {0})]
    /\ faults \in 0..MaxFaults

LEMMA DisturbType == ASSUME TypeOK, NEW k, Disturb(k) PROVE faults' \in 0..MaxFaults
  BY PipelineAssumption DEF TypeOK, Disturb

LEMMA ReleasedType ==
    ASSUME TypeOK, NEW w \in Workers
    PROVE  /\ Released(w) \in [Stages -> Workers \cup {Nobody}]
           /\ Released(w)[StageOf[w]] # w
           /\ \A s \in Stages : Released(w)[s] \in {owner[s], Nobody}
  BY PipelineAssumption DEF TypeOK, Released, Owns

LEMMA EnvironmentStep ==
    ASSUME TypeInv, [Next]_vars,
           \/ \E t \in Transactions : Ingest(t) \/ IngestFails(t)
           \/ \E s \in Stages : Evict(s)
           \/ UNCHANGED vars
    PROVE  RestOK' /\ PositionsExist' /\ FlushingOwnsNothing'
  <1> USE LengthsGrow, Topology DEF TypeInv, TypeOK, RestOK, PositionsExist, FlushingOwnsNothing
  <1>1. ASSUME NEW t \in Transactions, Ingest(t) \/ IngestFails(t)
        PROVE  RestOK' /\ PositionsExist' /\ FlushingOwnsNothing'
    <2>1. UNCHANGED <<committed, owner, pc, position, outbox, handled, faults>>
      BY <1>1 DEF Ingest, IngestFails, workerVars
    <2>2. sent' \subseteq Transactions /\ accepted' \subseteq sent'
      BY <1>1 DEF Ingest, IngestFails
    <2> QED
      BY <2>1, <2>2 DEF Owns
  <1>2. ASSUME NEW s \in Stages, Evict(s)
        PROVE  RestOK' /\ PositionsExist' /\ FlushingOwnsNothing'
    <2>1. UNCHANGED <<sent, accepted, committed, pc, position, outbox, handled>>
      BY <1>2 DEF Evict, gatewayVars
    <2>2. owner' \in [Stages -> Workers \cup {Nobody}] /\ \A w \in Workers : Owns(w)' => Owns(w)
      BY <1>2, PipelineAssumption DEF Evict, Owns
    <2>3. faults' \in 0..MaxFaults
      BY <1>2, DisturbType DEF Evict
    <2>4. RestOK'
      BY <2>1, <2>2, <2>3
    <2>5. PositionsExist' /\ FlushingOwnsNothing'
      BY <2>1, <2>2
    <2> QED
      BY <2>4, <2>5
  <1>3. CASE UNCHANGED vars
    BY <1>3 DEF vars, Owns
  <1> QED
    BY <1>1, <1>2, <1>3

LEMMA WorkerStep ==
    ASSUME TypeInv, [Next]_vars, NEW w \in Workers,
           \/ Loop(w) \/ Deliver(w) \/ ProcessFails(w) \/ CommitFails(w)
           \/ DeliveryFails(w) \/ Stop(w) \/ Crash(w)
    PROVE  RestOK' /\ PositionsExist' /\ FlushingOwnsNothing'
  <1> USE LengthsGrow, Topology DEF TypeInv, TypeOK, RestOK, PositionsExist, FlushingOwnsNothing
  <1>1. CASE Assign(w)
    BY <1>1, PipelineAssumption DEF Assign, Owns, gatewayVars, Input
  <1>2. CASE Poll(w)
    <2>1. position' \in [Workers -> Nat] /\ position'[w] <= Len(Input(w)) /\ position'[w] >= 1
      BY <1>2 DEF Poll
    <2>2. RestOK'
      BY <1>2, <2>1 DEF Poll, gatewayVars
    <2>3. PositionsExist'
      BY <1>2, <2>1 DEF Poll
    <2>4. FlushingOwnsNothing'
      BY <1>2 DEF Poll, Owns
    <2> QED
      BY <2>2, <2>3, <2>4
  <1>3. CASE Process(w)
    <2>1. position[w] \in 1..Len(Input(w))
      BY <1>3 DEF Process
    <2>2. Output(Input(w)[position[w]]) \in Seq(Transactions)
      BY <2>1 DEF Output
    <2>3. outbox' \in [Workers -> Seq(Transactions)]
      BY <1>3, <2>2 DEF Process
    <2>4. handled' \in [Stages -> SUBSET (Nat \ {0})]
      BY <1>3, <2>1 DEF Process
    <2>5. pc' \in [Workers -> {"polling", "processing", "committing", "flushing"}]
      BY <1>3 DEF Process
    <2>6. RestOK'
      BY <1>3, <2>3, <2>4, <2>5 DEF Process, gatewayVars
    <2>7. PositionsExist'
      <3>1. UNCHANGED <<committed, position>> /\ position[w] >= 1
        BY <1>3, <2>1 DEF Process
      <3>2. \A x \in Workers : pc'[x] \in {"processing", "committing"}
                                => x = w \/ pc[x] \in {"processing", "committing"}
        BY <1>3 DEF Process
      <3> QED
        BY <3>1, <3>2
    <2>8. FlushingOwnsNothing'
      BY <1>3 DEF Process, Owns
    <2> QED
      BY <2>6, <2>7, <2>8
  <1>4. CASE Commit(w)
    BY <1>4 DEF Commit, Owns, gatewayVars, Input
  <1>5. ASSUME AfterFailedCommit(w), UNCHANGED position,
               committed' \in {committed, [committed EXCEPT ![StageOf[w]] = position[w]]}
        PROVE  /\ committed' \in [Stages -> Nat]
               /\ owner' \in [Stages -> Workers \cup {Nobody}]
               /\ pc' \in [Workers -> {"polling", "processing", "committing", "flushing"}]
               /\ PositionsExist' /\ FlushingOwnsNothing'
    <2>1. /\ committed' \in [Stages -> Nat]
          /\ \A s \in Stages : committed'[s] <= Len(log[InTopic[s]])
      BY <1>5 DEF Input
    <2>2. pc' = [pc EXCEPT ![w] = "flushing"] \/ pc' = [pc EXCEPT ![w] = "polling"]
      BY <1>5 DEF AfterFailedCommit
    <2>3. owner' = owner \/ owner' = Released(w)
      BY <1>5 DEF AfterFailedCommit
    <2>4. \A x \in Workers : Owns(x)' => Owns(x)
      BY <2>3, ReleasedType, PipelineAssumption DEF Owns
    <2>5. pc'[w] = "flushing" => ~Owns(w)'
      BY <1>5, <2>2, ReleasedType DEF AfterFailedCommit, Owns
    <2>6. PositionsExist'
      BY <1>5, <2>1, <2>2
    <2>7. FlushingOwnsNothing'
      BY <2>2, <2>4, <2>5
    <2>8. owner' \in [Stages -> Workers \cup {Nobody}]
      BY <2>3, ReleasedType
    <2> QED
      BY <2>1, <2>2, <2>6, <2>7, <2>8
  <1>6. CASE CommitRefused(w)
    BY <1>5, <1>6 DEF CommitRefused, gatewayVars
  <1>7. CASE CommitFails(w)
    BY <1>5, <1>7, DisturbType DEF CommitFails, gatewayVars
  <1>8. CASE Restart(w)
    BY <1>8 DEF Restart, Owns, gatewayVars
  <1>9. CASE Deliver(w) \/ DeliveryFails(w)
    <2>1. outbox[w] \in Seq(Transactions) /\ outbox[w] # <<>>
      BY <1>9 DEF Deliver, DeliveryFails
    <2>2. Tail(outbox[w]) \in Seq(Transactions)
      BY <2>1
    <2>3. faults' \in 0..MaxFaults
      BY <1>9, DisturbType DEF Deliver, DeliveryFails
    <2>4. UNCHANGED <<sent, accepted, committed, owner, pc, position, handled>>
      BY <1>9 DEF Deliver, DeliveryFails, gatewayVars, workerVars
    <2>5. outbox' \in [Workers -> Seq(Transactions)]
      BY <1>9, <2>2 DEF Deliver, DeliveryFails
    <2>6. RestOK'
      BY <2>3, <2>4, <2>5
    <2> QED
      BY <2>4, <2>6 DEF Owns
  <1>10. CASE ProcessFails(w)
    BY <1>10, DisturbType DEF ProcessFails, Owns, gatewayVars
  <1>11. CASE Stop(w) \/ Crash(w)
    <2>1. owner' = Released(w) /\ UNCHANGED <<committed, position>>
      BY <1>11 DEF Stop, Crash
    <2>2. faults' \in 0..MaxFaults
      BY <1>11, DisturbType DEF Stop, Crash
    <2>3. pc' = [pc EXCEPT ![w] = "flushing"] \/ pc' = [pc EXCEPT ![w] = "polling"]
      BY <1>11 DEF Stop, Crash
    <2>4. outbox' \in [Workers -> Seq(Transactions)]
      <3>1. <<>> \in Seq(Transactions)
        OBVIOUS
      <3> QED
        BY <1>11, <3>1 DEF Stop, Crash
    <2>5. \A x \in Workers : Owns(x)' => Owns(x) /\ x # w
      BY <2>1, ReleasedType, PipelineAssumption DEF Owns
    <2>6. FlushingOwnsNothing'
      BY <2>3, <2>5
    <2>7. UNCHANGED <<sent, accepted, handled>>
      BY <1>11 DEF Stop, Crash, gatewayVars
    <2>8. RestOK'
      BY <2>1, <2>2, <2>3, <2>4, <2>7, ReleasedType
    <2>9. PositionsExist'
      BY <2>1, <2>3
    <2> QED
      BY <2>6, <2>8, <2>9
  <1> QED
    BY <1>1, <1>2, <1>3, <1>4, <1>6, <1>7, <1>8, <1>9, <1>10, <1>11 DEF Loop

LEMMA TypeStep == TypeInv /\ [Next]_vars => TypeInv'
  <1> SUFFICES ASSUME TypeInv, [Next]_vars PROVE TypeInv'
    OBVIOUS
  <1>1. log' \in [Topics -> Seq(Transactions)]
    BY StepKeepsLog DEF TypeInv
  <1>2. RestOK' /\ PositionsExist' /\ FlushingOwnsNothing'
    BY EnvironmentStep, WorkerStep DEF Next
  <1> QED
    BY <1>1, <1>2 DEF TypeInv, TypeOK, RestOK

\* The state of gateway, groups, workers and producers keeps its types.
THEOREM TypeCorrect == Spec => []TypeOK
  <1>1. Init => TypeInv
    BY InitInv DEF CommitInv
  <1> QED
    BY <1>1, TypeStep, PTL DEF Spec, TypeInv

-----------------------------------------------------------------------------
(* What is committed has been handled                                      *)

LEMMA HandledGrows ==
    ASSUME TypeInv, [Next]_vars
    PROVE  \A s \in Stages : handled[s] \subseteq handled'[s]
  <1>1. ASSUME NEW w \in Workers, Process(w)
        PROVE  \A s \in Stages : handled[s] \subseteq handled'[s]
    BY <1>1 DEF Process, TypeInv, TypeOK
  <1>2. ASSUME NEW w \in Workers,
               \/ Assign(w) \/ Poll(w) \/ Commit(w) \/ CommitRefused(w) \/ Restart(w) \/ Deliver(w)
               \/ ProcessFails(w) \/ CommitFails(w) \/ DeliveryFails(w) \/ Stop(w) \/ Crash(w)
        PROVE  handled' = handled
    BY <1>2 DEF Assign, Poll, Commit, CommitRefused, Restart, Deliver, ProcessFails, CommitFails,
       DeliveryFails, Stop, Crash
  <1>3. ASSUME NEW t \in Transactions, Ingest(t) \/ IngestFails(t) PROVE handled' = handled
    BY <1>3 DEF Ingest, IngestFails
  <1>4. ASSUME NEW s \in Stages, Evict(s) PROVE handled' = handled
    BY <1>4 DEF Evict
  <1>5. UNCHANGED vars => handled' = handled
    BY DEF vars
  <1> QED
    BY <1>1, <1>2, <1>3, <1>4, <1>5 DEF Next, Loop

\* A step that commits nothing new keeps CommittedIsHandled, and the workers
\* it does not touch know what they knew.
LEMMA CommittedKept ==
    ASSUME TypeInv, CommittedIsHandled, [Next]_vars, committed' = committed
    PROVE  CommittedIsHandled'
  BY HandledGrows DEF CommittedIsHandled

LEMMA KnowledgeKept ==
    ASSUME TypeInv, HandledUpTo, [Next]_vars, NEW w \in Workers,
           pc'[w] = pc[w] \/ pc'[w] = "flushing" \/ (pc'[w] = "polling" /\ ~Owns(w)'),
           position'[w] = position[w], Owns(w)' => Owns(w)
    PROVE  /\ pc'[w] = "polling" /\ Owns(w)' => 1..position'[w] \subseteq handled'[StageOf[w]]
           /\ pc'[w] = "processing" => 1..(position'[w] - 1) \subseteq handled'[StageOf[w]]
           /\ pc'[w] = "committing" => 1..position'[w] \subseteq handled'[StageOf[w]]
  <1>1. handled[StageOf[w]] \subseteq handled'[StageOf[w]]
    BY HandledGrows, Topology
  <1> QED
    BY <1>1 DEF HandledUpTo

\* The worker that moves.
LEMMA CommitInvWorker ==
    ASSUME CommitInv, [Next]_vars, NEW w \in Workers,
           Loop(w) \/ Deliver(w) \/ CommitFails(w) \/ DeliveryFails(w) \/ Stop(w) \/ Crash(w)
    PROVE  CommittedIsHandled' /\ HandledUpTo'
  <1> DEFINE Knows(x) ==
        /\ pc'[x] = "polling" /\ Owns(x)' => 1..position'[x] \subseteq handled'[StageOf[x]]
        /\ pc'[x] = "processing" => 1..(position'[x] - 1) \subseteq handled'[StageOf[x]]
        /\ pc'[x] = "committing" => 1..position'[x] \subseteq handled'[StageOf[x]]
  <1>1. /\ TypeInv /\ TypeOK /\ CommittedIsHandled /\ HandledUpTo
        /\ handled[StageOf[w]] \subseteq handled'[StageOf[w]]
        /\ position[w] \in Nat /\ committed[StageOf[w]] \in Nat
    BY HandledGrows, Topology DEF CommitInv, TypeInv, TypeOK
  <1>2. ASSUME NEW x \in Workers, x # w
        PROVE  pc'[x] = pc[x] /\ position'[x] = position[x] /\ (Owns(x)' => Owns(x))
    <2>1. pc'[x] = pc[x] /\ position'[x] = position[x]
      BY <1>1, <1>2 DEF TypeOK, Loop, Assign, Poll, Process, Commit, CommitRefused, AfterFailedCommit,
         Restart, Deliver, CommitFails, DeliveryFails, Stop, Crash, workerVars
    <2>2. \/ owner' = owner
          \/ owner' = [owner EXCEPT ![StageOf[w]] = w]
          \/ owner' = Released(w)
      BY DEF Loop, Assign, Poll, Process, Commit, CommitRefused, AfterFailedCommit,
         Restart, Deliver, CommitFails, DeliveryFails, Stop, Crash, workerVars
    <2>3. Owns(x)' => Owns(x)
      BY <1>1, <1>2, <2>2, ReleasedType, PipelineAssumption DEF Owns, TypeOK
    <2> QED
      BY <2>1, <2>3
  <1>3. \A x \in Workers : x # w => Knows(x)
    BY <1>1, <1>2, KnowledgeKept
  <1>4. Knows(w) => HandledUpTo'
    BY <1>3 DEF HandledUpTo
  <1>5. CASE Assign(w)
    <2>1. committed' = committed /\ pc'[w] = "polling" /\ position'[w] = committed[StageOf[w]]
      BY <1>1, <1>5 DEF Assign, TypeOK
    <2>2. 1..committed[StageOf[w]] \subseteq handled[StageOf[w]]
      BY <1>1, Topology DEF CommittedIsHandled
    <2> QED
      BY <1>1, <1>4, <2>1, <2>2, CommittedKept
  <1>6. CASE Poll(w)
    <2>1. /\ committed' = committed /\ pc'[w] = "processing" /\ position'[w] = position[w] + 1
          /\ 1..position[w] \subseteq handled[StageOf[w]]
      BY <1>1, <1>6 DEF Poll, TypeOK, HandledUpTo
    <2>2. 1..(position'[w] - 1) = 1..position[w]
      BY <1>1, <2>1
    <2> QED
      BY <1>1, <1>4, <2>1, <2>2, CommittedKept
  <1>7. CASE Process(w)
    <2>1. /\ committed' = committed /\ pc'[w] = "committing" /\ position'[w] = position[w]
          /\ 1..(position[w] - 1) \subseteq handled[StageOf[w]]
          /\ position[w] \in handled'[StageOf[w]]
      BY <1>1, <1>7, Topology DEF Process, TypeOK, HandledUpTo
    <2>2. 1..position'[w] \subseteq handled'[StageOf[w]]
      BY <1>1, <2>1
    <2> QED
      BY <1>1, <1>4, <2>1, <2>2, CommittedKept
  <1>8. CASE Commit(w) \/ CommitFails(w) \/ CommitRefused(w)
    <2>1. /\ position'[w] = position[w]
          /\ 1..position[w] \subseteq handled[StageOf[w]]
      BY <1>1, <1>8 DEF Commit, CommitFails, CommitRefused, HandledUpTo
    <2>2. \/ committed' = committed
          \/ committed' = [committed EXCEPT ![StageOf[w]] = position[w]]
      BY <1>8 DEF Commit, CommitFails, CommitRefused
    <2>3. CommittedIsHandled'
      BY <1>1, <2>1, <2>2, HandledGrows, Topology DEF CommittedIsHandled, TypeOK
    <2>4. pc'[w] \in {"polling", "flushing"}
      BY <1>1, <1>8 DEF Commit, CommitFails, CommitRefused, AfterFailedCommit, TypeOK
    <2> QED
      BY <1>1, <1>4, <2>1, <2>3, <2>4
  <1>9. CASE Restart(w) \/ Deliver(w) \/ DeliveryFails(w) \/ Stop(w) \/ Crash(w)
    <2>1. committed' = committed /\ position' = position
      BY <1>9 DEF Restart, Deliver, DeliveryFails, Stop, Crash, workerVars
    <2>2. Owns(w)' => Owns(w)
      BY <1>1, <1>9, ReleasedType DEF Restart, Deliver, DeliveryFails, Stop, Crash, workerVars, Owns
    <2>3. pc'[w] = pc[w] \/ pc'[w] = "flushing" \/ (pc'[w] = "polling" /\ ~Owns(w)')
      BY <1>1, <1>9, ReleasedType
      DEF Restart, Deliver, DeliveryFails, Stop, Crash, workerVars, Owns, TypeOK, TypeInv,
          FlushingOwnsNothing
    <2> QED
      BY <1>1, <1>4, <2>1, <2>2, <2>3, CommittedKept, KnowledgeKept
  <1> QED
    BY <1>5, <1>6, <1>7, <1>8, <1>9 DEF Loop

LEMMA CommitInvStep ==
    ASSUME Stages \cap Faults = {}
    PROVE  CommitInv /\ [Next]_vars => CommitInv'
  <1> SUFFICES ASSUME CommitInv, [Next]_vars PROVE CommittedIsHandled' /\ HandledUpTo'
    BY TypeStep DEF CommitInv
  <1> USE DEF CommitInv
  <1>1. ASSUME committed' = committed, pc' = pc, position' = position,
               \A w \in Workers : Owns(w)' => Owns(w)
        PROVE  CommittedIsHandled' /\ HandledUpTo'
    BY <1>1, CommittedKept, KnowledgeKept DEF HandledUpTo
  <1>2. ASSUME NEW t \in Transactions, Ingest(t) \/ IngestFails(t)
        PROVE  CommittedIsHandled' /\ HandledUpTo'
    BY <1>1, <1>2 DEF Ingest, IngestFails, workerVars, Owns
  <1>3. ASSUME NEW s \in Stages, Evict(s) PROVE CommittedIsHandled' /\ HandledUpTo'
    <2>1. \A w \in Workers : Owns(w)' => Owns(w)
      BY <1>3, PipelineAssumption DEF Evict, Owns, TypeInv, TypeOK
    <2> QED
      BY <1>1, <1>3, <2>1 DEF Evict
  <1>4. CASE UNCHANGED vars
    BY <1>1, <1>4 DEF vars, Owns
  <1>5. ASSUME NEW w \in Workers PROVE ~ProcessFails(w)
    BY PipelineAssumption DEF ProcessFails, Disturb
  <1> QED
    BY <1>2, <1>3, <1>4, <1>5, CommitInvWorker DEF Next

\* No group ever commits past a message that was neither handed to a producer
\* nor discarded, for any number of workers, crashes, rebalances, lost
\* deliveries and failing commits, as long as processing does not fail.
THEOREM CommitsAreSafe ==
    ASSUME Stages \cap Faults = {}
    PROVE  Spec => []CommittedIsHandled
  <1>1. CommitInv => CommittedIsHandled
    BY DEF CommitInv
  <1> QED
    BY <1>1, InitInv, CommitInvStep, PTL DEF Spec

-----------------------------------------------------------------------------
(* What has been handled reaches the next topic                            *)

Safe(s, t) == t \in Malformed \/ Published(OutTopic[s], t) \/ InFlight(s, t)

HandledIsSafe ==
    \A s \in Stages : \A o \in handled[s] :
        o \in 1..Len(log[InTopic[s]]) /\ Safe(s, MessageAt(s, o))

LEMMA PublishedKept ==
    ASSUME TypeOK, [Next]_vars, NEW p \in Topics, NEW t, Published(p, t)
    PROVE  Published(p, t)'
  <1>1. LogKept /\ log[p] \in Seq(Transactions) /\ log'[p] \in Seq(Transactions)
    BY StepKeepsLog DEF TypeOK
  <1>2. PICK i \in 1..Len(log[p]) : log[p][i] = t
    BY <1>1 DEF Published
  <1>3. i \in 1..Len(log'[p]) /\ log'[p][i] = t
    BY <1>1, <1>2 DEF LogKept
  <1> QED
    BY <1>1, <1>3 DEF Published

\* A queued message stays queued or is published.
LEMMA SafeKept ==
    ASSUME "crash" \notin Faults, "delivery" \notin Faults,
           TypeInv, [Next]_vars, NEW s \in Stages, NEW t, Safe(s, t)
    PROVE  Safe(s, t)'
  <1>1. TypeOK /\ OutTopic[s] \in Topics
    BY Topology DEF TypeInv
  <1>2. CASE t \in Malformed \/ Published(OutTopic[s], t)
    BY <1>1, <1>2, PublishedKept DEF Safe
  <1>3. CASE InFlight(s, t)
    <2>0. PICK w \in Workers : StageOf[w] = s /\ \E i \in DOMAIN outbox[w] : outbox[w][i] = t
      BY <1>3 DEF InFlight
    <2>1. PICK i \in DOMAIN outbox[w] : StageOf[w] = s /\ outbox[w][i] = t
      BY <2>0
    <2>2. outbox[w] \in Seq(Transactions) /\ i \in 1..Len(outbox[w]) /\ Len(outbox[w]) \in Nat
      BY <1>1, <2>1 DEF TypeOK
    <2>3. CASE outbox'[w] = outbox[w]
      BY <2>1, <2>3 DEF Safe, InFlight
    <2>4. ASSUME NEW x \in Workers, Process(x) PROVE Safe(s, t)'
      <3>1. outbox'[x] = outbox[x] \o Output(Input(x)[position[x]])
        BY <1>1, <2>4 DEF Process, TypeOK
      <3>2. CASE x # w
        BY <1>1, <2>3, <2>4, <3>2 DEF Process, TypeOK
      <3>3. CASE x = w
        <4>1. position[w] \in 1..Len(Input(w)) /\ Input(w) \in Seq(Transactions)
          BY <2>4, <3>3, LengthsGrow DEF Process, TypeInv, TypeOK, PositionsExist
        <4>2. Output(Input(w)[position[w]]) \in Seq(Transactions)
          BY <4>1 DEF Output
        <4>3. i \in 1..Len(outbox'[w]) /\ outbox'[w][i] = t /\ outbox'[w] \in Seq(Transactions)
          <5>1. \A q \in Seq(Transactions) :
                    /\ outbox[w] \o q \in Seq(Transactions)
                    /\ i \in 1..Len(outbox[w] \o q)
                    /\ (outbox[w] \o q)[i] = outbox[w][i]
            BY <2>2
          <5> QED
            BY <2>1, <3>1, <3>3, <4>2, <5>1
        <4>4. i \in DOMAIN outbox'[w]
          BY <4>3
        <4> QED
          BY <2>1, <4>3, <4>4 DEF Safe, InFlight
      <3> QED
        BY <3>2, <3>3
    <2>5. ASSUME NEW x \in Workers, Deliver(x) PROVE Safe(s, t)'
      <3>1. CASE x # w
        BY <1>1, <2>3, <2>5, <3>1 DEF Deliver, TypeOK
      <3>2. CASE x = w /\ i = 1
        <4>1. log'[OutTopic[s]] = Append(log[OutTopic[s]], t) /\ log[OutTopic[s]] \in Seq(Transactions)
          BY <1>1, <2>1, <2>2, <2>5, <3>2 DEF Deliver, TypeOK
        <4>2. DOMAIN log'[OutTopic[s]] = 1..(Len(log[OutTopic[s]]) + 1)
              /\ log'[OutTopic[s]][Len(log[OutTopic[s]]) + 1] = t
          <5>1. t \in Transactions
            BY <2>1, <2>2
          <5> QED
            BY <4>1, <5>1
        <4>3. Published(OutTopic[s], t)'
          BY <4>1, <4>2 DEF Published
        <4> QED
          BY <4>3 DEF Safe
      <3>3. CASE x = w /\ i # 1
        <4>1. outbox'[w] = Tail(outbox[w])
          BY <1>1, <2>5, <3>3 DEF Deliver, TypeOK
        <4>2. i - 1 \in DOMAIN outbox'[w] /\ outbox'[w][i - 1] = t
          BY <2>1, <2>2, <3>3, <4>1
        <4> QED
          BY <2>1, <4>2 DEF Safe, InFlight
      <3> QED
        BY <3>1, <3>2, <3>3
    <2>6. ASSUME NEW x \in Workers,
                 \/ Assign(x) \/ Poll(x) \/ Commit(x) \/ CommitRefused(x) \/ Restart(x)
                 \/ ProcessFails(x) \/ CommitFails(x) \/ Stop(x)
          PROVE  outbox' = outbox
      BY <2>6 DEF Assign, Poll, Commit, CommitRefused, Restart, ProcessFails, CommitFails, Stop
    <2>7. ASSUME NEW x \in Workers PROVE ~Crash(x) /\ ~DeliveryFails(x)
      BY DEF Crash, DeliveryFails, Disturb
    <2>8. (\E u \in Transactions : Ingest(u) \/ IngestFails(u)) => outbox' = outbox
      BY DEF Ingest, IngestFails
    <2>9. (\E q \in Stages : Evict(q)) => outbox' = outbox
      BY DEF Evict
    <2>10. UNCHANGED vars => outbox' = outbox
      BY DEF vars
    <2> QED
      BY <2>3, <2>4, <2>5, <2>6, <2>7, <2>8, <2>9, <2>10 DEF Next, Loop
  <1> QED
    BY <1>2, <1>3 DEF Safe

\* The only new offset is the one a worker has just handled.
LEMMA NewlyHandled ==
    ASSUME TypeInv, [Next]_vars, NEW s \in Stages, NEW o \in handled'[s], o \notin handled[s]
    PROVE  \E w \in Workers : Process(w) /\ StageOf[w] = s /\ o = position[w]
  <1>1. ASSUME NEW w \in Workers, Process(w)
        PROVE  StageOf[w] = s /\ o = position[w]
    BY <1>1 DEF Process, TypeInv, TypeOK
  <1>2. ASSUME NEW w \in Workers,
               \/ Assign(w) \/ Poll(w) \/ Commit(w) \/ CommitRefused(w) \/ Restart(w) \/ Deliver(w)
               \/ ProcessFails(w) \/ CommitFails(w) \/ DeliveryFails(w) \/ Stop(w) \/ Crash(w)
        PROVE  handled' = handled
    BY <1>2 DEF Assign, Poll, Commit, CommitRefused, Restart, Deliver, ProcessFails, CommitFails,
       DeliveryFails, Stop, Crash
  <1>3. (\E t \in Transactions : Ingest(t) \/ IngestFails(t)) => handled' = handled
    BY DEF Ingest, IngestFails
  <1>4. (\E q \in Stages : Evict(q)) => handled' = handled
    BY DEF Evict
  <1>5. UNCHANGED vars => handled' = handled
    BY DEF vars
  <1> QED
    BY <1>1, <1>2, <1>3, <1>4, <1>5 DEF Next, Loop

LEMMA HandledIsSafeStep ==
    ASSUME "crash" \notin Faults, "delivery" \notin Faults
    PROVE  TypeInv /\ HandledIsSafe /\ [Next]_vars => HandledIsSafe'
  <1> SUFFICES ASSUME TypeInv, HandledIsSafe, [Next]_vars, NEW s \in Stages, NEW o \in handled'[s]
               PROVE  o \in 1..Len(log'[InTopic[s]]) /\ Safe(s, MessageAt(s, o))'
    BY DEF HandledIsSafe
  <1>1. /\ TypeOK /\ InTopic[s] \in Topics /\ LogKept
        /\ log[InTopic[s]] \in Seq(Transactions) /\ log'[InTopic[s]] \in Seq(Transactions)
    BY Topology, StepKeepsLog DEF TypeInv, TypeOK
  <1>2. ASSUME o \in 1..Len(log[InTopic[s]])
        PROVE  /\ o \in 1..Len(log'[InTopic[s]])
               /\ MessageAt(s, o)' = MessageAt(s, o)
    BY <1>1, <1>2 DEF LogKept, MessageAt
  <1>3. CASE o \in handled[s]
    <2>1. o \in 1..Len(log[InTopic[s]]) /\ Safe(s, MessageAt(s, o))
      BY <1>3 DEF HandledIsSafe
    <2> DEFINE t == log[InTopic[s]][o]
    <2>2. Safe(s, t)'
      <3> SUFFICES ASSUME NEW u, Safe(s, u) PROVE Safe(s, u)'
        BY <1>2, <2>1, SafeKept DEF MessageAt, Safe, Published, InFlight
      <3> QED
        BY SafeKept
    <2> QED
      BY <1>2, <2>1, <2>2 DEF MessageAt, Safe, Published, InFlight
  <1>4. CASE o \notin handled[s]
    <2>1. PICK w \in Workers : Process(w) /\ StageOf[w] = s /\ o = position[w]
      BY <1>4, NewlyHandled
    <2>2. o \in 1..Len(log[InTopic[s]]) /\ MessageAt(s, o) = Input(w)[position[w]]
      BY <2>1 DEF Process, TypeInv, TypeOK, PositionsExist, Input, MessageAt
    <2> DEFINE m == Input(w)[position[w]]
    <2>3. outbox'[w] = outbox[w] \o Output(m) /\ outbox[w] \in Seq(Transactions)
      BY <1>1, <2>1 DEF Process, TypeOK
    <2>4. CASE m \in Malformed
      BY <1>2, <2>2, <2>4 DEF Safe
    <2>5. CASE m \notin Malformed
      <3>1. m \in Transactions /\ outbox'[w] = outbox[w] \o <<m>>
        BY <1>1, <2>1, <2>2, <2>3, <2>5 DEF Output, MessageAt
      <3>2. /\ Len(outbox[w]) + 1 \in DOMAIN outbox'[w]
            /\ outbox'[w][Len(outbox[w]) + 1] = m
        BY <2>3, <3>1
      <3>3. MessageAt(s, o)' = m
        BY <1>2, <2>2
      <3> QED
        BY <1>2, <2>1, <2>2, <3>2, <3>3 DEF Safe, InFlight
    <2> QED
      BY <2>4, <2>5
  <1> QED
    BY <1>3, <1>4

\* Committing an offset before the broker has acknowledged the result loses
\* nothing as long as every producer is flushed before its process ends, the
\* broker takes what it is given and processing does not fail.
THEOREM FlushedCommitsAreDurable ==
    ASSUME Stages \cap Faults = {}, "crash" \notin Faults, "delivery" \notin Faults
    PROVE  Spec => []NothingCommittedIsLost
  <1>1. Init => CommitInv /\ HandledIsSafe
    BY InitInv DEF Init, HandledIsSafe
  <1>2. CommitInv /\ HandledIsSafe /\ [Next]_vars => (CommitInv /\ HandledIsSafe)'
    BY CommitInvStep, HandledIsSafeStep DEF CommitInv
  <1>3. CommitInv /\ HandledIsSafe => NothingCommittedIsLost
    BY DEF CommitInv, CommittedIsHandled, HandledIsSafe, NothingCommittedIsLost, Safe
  <1> QED
    BY <1>1, <1>2, <1>3, PTL DEF Spec

-----------------------------------------------------------------------------
(* How often messages are produced.  The surplus of a stage is what it     *)
(* has produced and is bound to produce beyond what it has committed and   *)
(* is about to commit.  Only a disturbance adds to the surplus, and one at *)
(* most: a worker whose commit fails, who stops before it or who loses the *)
(* partition with a message in hand.                                       *)

\* Workers that lost the partition and still process a message they polled.
Stranded(s) == {w \in Workers : StageOf[w] = s /\ pc[w] = "processing" /\ ~Owns(w)}

\* The holder of the partition is about to commit.
CommitDue(s) == \E w \in Workers : StageOf[w] = s /\ pc[w] = "committing" /\ Owns(w)

Due(s) == IF CommitDue(s) THEN 1 ELSE 0

Surplus(s) == Produced(s) + Cardinality(Stranded(s)) - committed[s] - Due(s)

\* The holder of a partition never reads below what is committed.
OwnerIsAhead ==
    \A w \in Workers : Owns(w) =>
        /\ committed[StageOf[w]] <= position[w]
        /\ pc[w] \in {"processing", "committing"} => committed[StageOf[w]] < position[w]

\* The two stages share the disturbances.
SurplusIsPaidFor ==
    /\ Surplus("enrichment") <= faults
    /\ Surplus("scoring") <= faults
    /\ Surplus("enrichment") + Surplus("scoring") <= faults

CountInv == TypeInv /\ OwnerIsAhead /\ SurplusIsPaidFor

LEMMA OneMore ==
    ASSUME NEW A, NEW B, NEW x, IsFiniteSet(A), B \subseteq A \cup {x}
    PROVE  /\ IsFiniteSet(B)
           /\ Cardinality(A) \in Nat
           /\ Cardinality(B) \in Nat
           /\ Cardinality(B) <= Cardinality(A) + 1
           /\ x \notin B => Cardinality(B) <= Cardinality(A)
           /\ x \in A => Cardinality(B) <= Cardinality(A)
           /\ x \in A /\ x \notin B => Cardinality(B) <= Cardinality(A) - 1
  <1>1. /\ Cardinality(A) \in Nat
        /\ IsFiniteSet(A \cup {x}) /\ Cardinality(A \cup {x}) \in Nat
        /\ Cardinality(A \cup {x}) <= Cardinality(A) + 1
    BY FS_CardinalityType, FS_AddElement
  <1>2. IsFiniteSet(B) /\ Cardinality(B) \in Nat /\ Cardinality(B) <= Cardinality(A \cup {x})
    BY <1>1, FS_Subset, FS_CardinalityType
  <1>3. B \subseteq A => Cardinality(B) <= Cardinality(A)
    BY FS_Subset
  <1>4. ASSUME x \in A, x \notin B PROVE Cardinality(B) <= Cardinality(A) - 1
    <2>1. IsFiniteSet(A \ {x}) /\ Cardinality(A \ {x}) = Cardinality(A) - 1
      BY <1>4, FS_RemoveElement
    <2>2. B \subseteq A \ {x}
      BY <1>4
    <2> QED
      BY <2>1, <2>2, FS_Subset
  <1> QED
    BY <1>1, <1>2, <1>3, <1>4

LEMMA CountsAreFinite ==
    ASSUME TypeOK, NEW s \in Stages
    PROVE  /\ IsFiniteSet(Queued(s)) /\ Cardinality(Queued(s)) \in Nat
           /\ IsFiniteSet(Stranded(s)) /\ Cardinality(Stranded(s)) \in Nat
           /\ Due(s) \in {0, 1}
           /\ Len(log[OutTopic[s]]) \in Nat
           /\ Produced(s) \in Nat
           /\ committed[s] \in Nat
           /\ Surplus(s) \in Int
  <1> DEFINE mine == {x \in Workers : StageOf[x] = s}
             places(w) == {w} \X DOMAIN outbox[w]
  <1>1. IsFiniteSet(mine) /\ IsFiniteSet(Stranded(s))
    BY PipelineAssumption, FS_Subset DEF Stranded
  <1>2. ASSUME NEW w \in mine PROVE IsFiniteSet(places(w))
    <2>1. DOMAIN outbox[w] = 1..Len(outbox[w]) /\ Len(outbox[w]) \in Nat
      BY DEF TypeOK
    <2>2. 1 \in Int /\ Len(outbox[w]) \in Int
      BY <2>1
    <2>3. IsFiniteSet(DOMAIN outbox[w])
      BY <2>1, <2>2, FS_Interval
    <2> QED
      BY <2>3, FS_Singleton, FS_Product
  <1> DEFINE f == [w \in mine |-> places(w)]
             T == {places(w) : w \in mine}
  <1>3. f \in Surjection(mine, T)
    BY DEF Surjection
  <1> HIDE DEF places
  <1>4. IsFiniteSet(T)
    BY <1>1, <1>3, FS_Surjection
  <1>5. \A U \in T : IsFiniteSet(U)
    BY <1>2
  <1>6. IsFiniteSet(Queued(s))
    BY <1>4, <1>5, FS_UNION DEF Queued, places
  <1>7. Cardinality(Queued(s)) \in Nat /\ Cardinality(Stranded(s)) \in Nat
    BY <1>1, <1>6, FS_CardinalityType
  <1>8. Len(log[OutTopic[s]]) \in Nat /\ committed[s] \in Nat
    BY Topology DEF TypeOK
  <1>9. Due(s) \in {0, 1}
    BY DEF Due
  <1>10. Produced(s) \in Nat
    BY <1>7, <1>8 DEF Produced
  <1>11. Surplus(s) \in Int
    BY <1>7, <1>8, <1>9, <1>10 DEF Surplus
  <1> QED
    BY <1>1, <1>6, <1>7, <1>8, <1>9, <1>10, <1>11

\* A step of worker w, and what it leaves alone.
WorkerActs(w) ==
    \/ Loop(w) \/ Deliver(w) \/ ProcessFails(w) \/ CommitFails(w)
    \/ DeliveryFails(w) \/ Stop(w) \/ Crash(w)

LEMMA OthersKeep ==
    ASSUME TypeOK, NEW w \in Workers, WorkerActs(w)
    PROVE  /\ \A x \in Workers \ {w} : /\ pc'[x] = pc[x] /\ outbox'[x] = outbox[x]
                                       /\ position'[x] = position[x]
                                       /\ Owns(x)' <=> Owns(x)
           /\ \A q \in Stages : q # StageOf[w] =>
                 /\ committed'[q] = committed[q]
                 /\ log'[OutTopic[q]] = log[OutTopic[q]]
           /\ ~Owns(w) => committed' = committed
           /\ faults' \in {faults, faults + 1}
  <1> USE DEF WorkerActs, Loop
  <1>1. \A x \in Workers \ {w} : pc'[x] = pc[x] /\ position'[x] = position[x]
    BY DEF TypeOK, Assign, Poll, Process, Commit, CommitRefused, AfterFailedCommit,
       Restart, Deliver, CommitFails, DeliveryFails, ProcessFails, Stop, Crash, workerVars
  <1>2. \A x \in Workers \ {w} : outbox'[x] = outbox[x]
    BY DEF TypeOK, Assign, Poll, Process, Commit, CommitRefused, Restart, Deliver, CommitFails,
       DeliveryFails, ProcessFails, Stop, Crash, workerVars
  <1>3. ASSUME NEW x \in Workers \ {w} PROVE Owns(x)' <=> Owns(x)
    <2>1. \/ owner' = owner
          \/ owner[StageOf[w]] = Nobody /\ owner' = [owner EXCEPT ![StageOf[w]] = w]
          \/ Owns(w) /\ owner' = [owner EXCEPT ![StageOf[w]] = Nobody]
      BY DEF Assign, Poll, Process, Commit, CommitRefused, AfterFailedCommit, Released,
         Restart, Deliver, CommitFails, DeliveryFails, ProcessFails, Stop, Crash, workerVars
    <2> QED
      BY <2>1, PipelineAssumption DEF Owns, TypeOK
  <1>4. committed' = committed \/ (Owns(w) /\ committed' = [committed EXCEPT ![StageOf[w]] = position[w]])
    BY DEF Assign, Poll, Process, Commit, CommitRefused, Restart, Deliver, CommitFails,
       DeliveryFails, ProcessFails, Stop, Crash
  <1>5. ASSUME NEW q \in Stages, q # StageOf[w]
        PROVE  committed'[q] = committed[q] /\ log'[OutTopic[q]] = log[OutTopic[q]]
    <2>1. committed'[q] = committed[q]
      BY <1>4, <1>5 DEF TypeOK
    <2>2. \/ log' = log
          \/ log' = [log EXCEPT ![OutTopic[StageOf[w]]] = Append(@, Head(outbox[w]))]
      BY DEF Assign, Poll, Process, Commit, CommitRefused, Restart, Deliver, CommitFails,
         DeliveryFails, ProcessFails, Stop, Crash
    <2>3. OutTopic[q] # OutTopic[StageOf[w]] /\ OutTopic[q] \in Topics /\ OutTopic[StageOf[w]] \in Topics
      BY <1>5, PipelineAssumption DEF OutTopic, Stages, Topics
    <2> QED
      BY <2>1, <2>2, <2>3 DEF TypeOK
  <1>6. faults' \in {faults, faults + 1}
    BY DEF Assign, Poll, Process, Commit, CommitRefused, Restart, Deliver, CommitFails,
       DeliveryFails, ProcessFails, Stop, Crash, Disturb
  <1> QED
    BY <1>1, <1>2, <1>3, <1>4, <1>5, <1>6

\* The other stage's surplus stays the same.
LEMMA OtherSurplusKept ==
    ASSUME TypeOK, NEW w \in Workers, WorkerActs(w), NEW q \in Stages, q # StageOf[w]
    PROVE  Surplus(q)' = Surplus(q)
  <1>1. \A x \in Workers : StageOf[x] = q =>
            pc'[x] = pc[x] /\ outbox'[x] = outbox[x] /\ (Owns(x)' <=> Owns(x))
    BY OthersKeep
  <1>2. committed'[q] = committed[q] /\ log'[OutTopic[q]] = log[OutTopic[q]]
    BY OthersKeep
  <1>3. Queued(q)' = Queued(q)
    BY <1>1 DEF Queued
  <1>4. Stranded(q)' = Stranded(q)
    BY <1>1 DEF Stranded
  <1>5. CommitDue(q)' <=> CommitDue(q)
    BY <1>1 DEF CommitDue
  <1>6. Due(q)' = Due(q)
    BY <1>5 DEF Due
  <1>7. Produced(q)' = Produced(q)
    BY <1>2, <1>3 DEF Produced
  <1> QED
    BY <1>2, <1>4, <1>6, <1>7 DEF Surplus

\* The queue of one producer changes by one message at most, or is lost.
LEMMA QueueSteps ==
    ASSUME TypeInv, NEW w \in Workers, WorkerActs(w)
    PROVE  /\ Process(w) => Produced(StageOf[w])' <= Produced(StageOf[w]) + 1
           /\ ~Process(w) => Produced(StageOf[w])' <= Produced(StageOf[w])
  <1> DEFINE s == StageOf[w]
             n == Len(outbox[w])
             A == Queued(s)
             B == Queued(s)'
             out == log[OutTopic[s]]
  <1>1. /\ TypeOK /\ s \in Stages /\ OutTopic[s] \in Topics /\ outbox[w] \in Seq(Transactions)
        /\ n \in Nat /\ DOMAIN outbox[w] = 1..n /\ out \in Seq(Transactions)
    BY Topology DEF TypeInv, TypeOK
  <1>2. IsFiniteSet(A) /\ Cardinality(A) \in Nat /\ Len(out) \in Nat
    BY <1>1, CountsAreFinite
  <1>3. \A x \in Workers \ {w} : outbox'[x] = outbox[x]
    BY <1>1, OthersKeep
  <1>4. ASSUME NEW k \in Nat, DOMAIN outbox'[w] \subseteq DOMAIN outbox[w] \cup {k}
        PROVE  B \subseteq A \cup {<<w, k>>}
    BY <1>3, <1>4 DEF Queued
  <1>5. ASSUME DOMAIN outbox'[w] \subseteq DOMAIN outbox[w]
        PROVE  IsFiniteSet(B) /\ Cardinality(B) \in Nat /\ Cardinality(B) <= Cardinality(A)
    <2>1. B \subseteq A
      BY <1>3, <1>5 DEF Queued
    <2> QED
      BY <1>2, <2>1, FS_Subset, FS_CardinalityType
  <1>6. CASE Process(w)
    <2>1. outbox'[w] = outbox[w] \o Output(Input(w)[position[w]]) /\ log' = log
      BY <1>1, <1>6 DEF Process, TypeOK
    <2>2. Output(Input(w)[position[w]]) \in Seq(Transactions) /\ Len(Output(Input(w)[position[w]])) <= 1
      <3>1. position[w] \in 1..Len(Input(w)) /\ Input(w) \in Seq(Transactions)
        BY <1>6, Topology DEF Process, TypeInv, TypeOK, PositionsExist, Input
      <3> QED
        BY <3>1 DEF Output
    <2>3. DOMAIN outbox'[w] \subseteq DOMAIN outbox[w] \cup {n + 1}
      <3>1. \A q \in Seq(Transactions) :
                Len(q) <= 1 => DOMAIN (outbox[w] \o q) \subseteq 1..(n + 1)
        BY <1>1
      <3>2. DOMAIN outbox'[w] \subseteq 1..(n + 1)
        BY <2>1, <2>2, <3>1
      <3>3. 1..(n + 1) \subseteq (1..n) \cup {n + 1}
        BY <1>1
      <3> QED
        BY <1>1, <3>2, <3>3
    <2>4. B \subseteq A \cup {<<w, n + 1>>}
      <3>1. n + 1 \in Nat
        BY <1>1
      <3> HIDE DEF A, B
      <3> QED
        BY <1>4, <2>3, <3>1
    <2> HIDE DEF A, B
    <2>5. Cardinality(B) \in Nat /\ Cardinality(B) <= Cardinality(A) + 1
      BY <1>2, <2>4, OneMore
    <2> QED
      BY <1>2, <1>6, <2>1, <2>5 DEF Produced, A, B
  <1>7. CASE Deliver(w)
    <2>1. /\ outbox[w] # <<>> /\ n >= 1
          /\ log'[OutTopic[s]] = Append(out, Head(outbox[w])) /\ outbox'[w] = Tail(outbox[w])
      BY <1>1, <1>7 DEF Deliver, TypeOK
    <2>2. Len(log'[OutTopic[s]]) = Len(out) + 1
      <3>1. Head(outbox[w]) \in Transactions
        BY <1>1, <2>1
      <3> QED
        BY <1>1, <2>1, <3>1
    <2>3. DOMAIN outbox'[w] = 1..(n - 1)
      BY <1>1, <2>1
    <2>4. B \subseteq A \cup {<<w, n>>}
      BY <1>1, <1>4, <2>3
    <2>5. <<w, n>> \in A /\ <<w, n>> \notin B
      <3>1. n \in DOMAIN outbox[w] /\ n \notin DOMAIN outbox'[w]
        BY <1>1, <2>1, <2>3
      <3>2. <<w, n>> \in A
        <4>1. <<w, n>> \in {w} \X DOMAIN outbox[w]
          BY <3>1
        <4> QED
          BY <4>1 DEF Queued
      <3>3. <<w, n>> \notin B
        <4>1. \A x \in Workers : <<w, n>> \notin {x} \X DOMAIN outbox'[x]
          BY <3>1
        <4> QED
          BY <4>1 DEF Queued
      <3> QED
        BY <3>2, <3>3
    <2> HIDE DEF A, B
    <2>6. Cardinality(B) \in Nat /\ Cardinality(B) <= Cardinality(A) - 1
      BY <1>2, <2>4, <2>5, OneMore
    <2>7. Produced(s)' = Len(log'[OutTopic[s]]) + Cardinality(B)
      BY DEF Produced, B
    <2>8. Produced(s) = Len(out) + Cardinality(A)
      BY DEF Produced, A
    <2>9. ~Process(w)
      BY <1>1, <1>7, <2>2 DEF Deliver, Process, workerVars, TypeOK
    <2> QED
      BY <1>2, <2>2, <2>6, <2>7, <2>8, <2>9
  <1>8. CASE \/ Assign(w) \/ Poll(w) \/ Commit(w) \/ CommitRefused(w) \/ Restart(w)
             \/ ProcessFails(w) \/ CommitFails(w) \/ DeliveryFails(w) \/ Stop(w) \/ Crash(w)
    <2>1. log' = log
      BY <1>8 DEF Assign, Poll, Commit, CommitRefused, Restart, ProcessFails, CommitFails,
         DeliveryFails, Stop, Crash
    <2>2. outbox'[w] \in {outbox[w], <<>>} \/ (outbox[w] # <<>> /\ outbox'[w] = Tail(outbox[w]))
      BY <1>1, <1>8 DEF TypeOK, Assign, Poll, Commit, CommitRefused, Restart, ProcessFails, CommitFails,
         DeliveryFails, Stop, Crash
    <2>3. DOMAIN outbox'[w] \subseteq DOMAIN outbox[w]
      <3>1. CASE outbox'[w] = outbox[w]
        BY <3>1
      <3>2. CASE outbox'[w] = <<>>
        BY <3>2
      <3>3. CASE outbox[w] # <<>> /\ outbox'[w] = Tail(outbox[w])
        BY <1>1, <3>3
      <3> QED
        BY <2>2, <3>1, <3>2, <3>3
    <2>4. IsFiniteSet(B) /\ Cardinality(B) \in Nat /\ Cardinality(B) <= Cardinality(A)
      BY <1>5, <2>3
    <2> HIDE DEF A, B
    <2>5. Produced(s)' = Len(out) + Cardinality(B)
      BY <2>1 DEF Produced, B
    <2>6. Produced(s) = Len(out) + Cardinality(A)
      BY DEF Produced, A
    <2> QED
      BY <1>2, <2>4, <2>5, <2>6
  <1> QED
    BY <1>6, <1>7, <1>8 DEF WorkerActs, Loop

\* A worker is stranded by losing its partition only, never by a step of its own.
LEMMA StrandedSteps ==
    ASSUME TypeInv, NEW w \in Workers, WorkerActs(w)
    PROVE  /\ Cardinality(Stranded(StageOf[w]))' \in Nat
           /\ Cardinality(Stranded(StageOf[w]))' <= Cardinality(Stranded(StageOf[w]))
           /\ Process(w) /\ ~Owns(w) =>
                 Cardinality(Stranded(StageOf[w]))' <= Cardinality(Stranded(StageOf[w])) - 1
  <1> DEFINE s == StageOf[w]
             A == Stranded(s)
             B == Stranded(s)'
  <1>1. TypeOK /\ s \in Stages
    BY Topology DEF TypeInv
  <1>2. IsFiniteSet(A) /\ Cardinality(A) \in Nat
    BY <1>1, CountsAreFinite
  <1>3. \A x \in Workers \ {w} : pc'[x] = pc[x] /\ (Owns(x)' <=> Owns(x))
    BY <1>1, OthersKeep
  <1>4. B \subseteq A \cup {w}
    BY <1>3 DEF Stranded
  <1>5. w \in B => w \in A
    <2>1. CASE Deliver(w) \/ DeliveryFails(w)
      BY <2>1 DEF Deliver, DeliveryFails, workerVars, Stranded, Owns
    <2>2. CASE Poll(w)
      BY <2>2 DEF Poll, Stranded, Owns
    <2>3. CASE \/ Assign(w) \/ Process(w) \/ Commit(w) \/ CommitRefused(w) \/ Restart(w)
               \/ ProcessFails(w) \/ CommitFails(w) \/ Stop(w) \/ Crash(w)
      <3>1. pc'[w] # "processing"
        BY <1>1, <2>3 DEF TypeOK, Assign, Process, Commit, CommitRefused, AfterFailedCommit, Restart,
           ProcessFails, CommitFails, Stop, Crash
      <3> QED
        BY <3>1 DEF Stranded
    <2> QED
      BY <2>1, <2>2, <2>3 DEF WorkerActs, Loop
  <1>6. Process(w) /\ ~Owns(w) => w \in A /\ w \notin B
    BY <1>1 DEF Process, Stranded, TypeOK
  <1> HIDE DEF A, B
  <1>7. /\ Cardinality(B) \in Nat /\ Cardinality(B) <= Cardinality(A)
        /\ Process(w) /\ ~Owns(w) => Cardinality(B) <= Cardinality(A) - 1
    BY <1>2, <1>4, <1>5, <1>6, OneMore
  <1> QED
    BY <1>7 DEF A, B

\* A commit that is due stays due until its worker commits, fails to, or ends.
LEMMA DueSteps ==
    ASSUME TypeInv, NEW w \in Workers, WorkerActs(w)
    PROVE  /\ ~(pc[w] = "committing" /\ Owns(w) /\ ~Deliver(w) /\ ~DeliveryFails(w))
                 => (CommitDue(StageOf[w]) => CommitDue(StageOf[w])')
           /\ Process(w) /\ Owns(w) => ~CommitDue(StageOf[w]) /\ CommitDue(StageOf[w])'
  <1>1. TypeOK
    BY DEF TypeInv
  <1>2. \A x \in Workers \ {w} : pc'[x] = pc[x] /\ (Owns(x)' <=> Owns(x))
    BY <1>1, OthersKeep
  <1>3. ASSUME CommitDue(StageOf[w]), ~(pc[w] = "committing" /\ Owns(w) /\ ~Deliver(w) /\ ~DeliveryFails(w))
        PROVE  CommitDue(StageOf[w])'
    <2>1. PICK x \in Workers : StageOf[x] = StageOf[w] /\ pc[x] = "committing" /\ Owns(x)
      BY <1>3 DEF CommitDue
    <2>2. CASE x # w
      BY <1>2, <2>1, <2>2 DEF CommitDue
    <2>3. CASE Deliver(w) \/ DeliveryFails(w)
      BY <2>1, <2>3 DEF Deliver, DeliveryFails, workerVars, CommitDue, Owns
    <2> QED
      BY <1>3, <2>1, <2>2, <2>3
  <1>4. ASSUME Process(w), Owns(w) PROVE ~CommitDue(StageOf[w]) /\ CommitDue(StageOf[w])'
    <2>1. pc[w] = "processing" /\ pc'[w] = "committing" /\ Owns(w)'
      BY <1>1, <1>4 DEF Process, TypeOK, Owns
    <2>2. \A x \in Workers : StageOf[x] = StageOf[w] /\ Owns(x) => x = w
      BY <1>4 DEF Owns
    <2> QED
      BY <2>1, <2>2 DEF CommitDue
  <1> QED
    BY <1>3, <1>4

CountTypes ==
    \A s \in Stages : /\ Produced(s) \in Nat
                      /\ Cardinality(Stranded(s)) \in Nat
                      /\ Due(s) \in {0, 1}
                      /\ committed[s] \in Nat
                      /\ Surplus(s) \in Int

LEMMA CountTypesNow == TypeOK => CountTypes
  BY CountsAreFinite DEF CountTypes

LEMMA CountTypesNext == TypeOK' => CountTypes'
  BY CountTypesNow, PTL

\* A step of a worker adds to its stage's surplus no more than to the number
\* of disturbances.
LEMMA SurplusSteps ==
    ASSUME TypeInv, TypeOK', OwnerIsAhead, NEW w \in Workers, WorkerActs(w)
    PROVE  Surplus(StageOf[w])' - Surplus(StageOf[w]) <= faults' - faults
  <1> DEFINE s == StageOf[w]
             p == Produced(s)
             st == Cardinality(Stranded(s))
             c == committed[s]
             d == Due(s)
             p2 == Produced(s)'
             st2 == Cardinality(Stranded(s))'
             c2 == committed'[s]
             d2 == Due(s)'
  <1>1. /\ TypeOK /\ s \in Stages /\ faults \in Nat /\ position[w] \in Nat
        /\ faults' \in {faults, faults + 1}
    BY Topology, OthersKeep DEF TypeInv, TypeOK
  <1>2. p \in Nat /\ st \in Nat /\ d \in {0, 1} /\ c \in Nat
    BY <1>1, CountTypesNow DEF CountTypes
  <1>3. p2 \in Nat /\ st2 \in Nat /\ d2 \in {0, 1} /\ c2 \in Nat
    BY <1>1, CountTypesNext DEF CountTypes
  <1>4. Surplus(s) = p + st - c - d /\ Surplus(s)' = p2 + st2 - c2 - d2
    BY DEF Surplus
  <1>5. /\ Process(w) => p2 <= p + 1
        /\ ~Process(w) => p2 <= p
        /\ st2 <= st
        /\ Process(w) /\ ~Owns(w) => st2 <= st - 1
    BY QueueSteps, StrandedSteps
  <1>6. /\ ~(pc[w] = "committing" /\ Owns(w) /\ ~Deliver(w) /\ ~DeliveryFails(w)) => d <= d2
        /\ Process(w) /\ Owns(w) => d = 0 /\ d2 = 1
    BY DueSteps DEF Due
  <1> HIDE DEF p, st, c, d, p2, st2, c2, d2
  <1>7. CASE Process(w)
    <2>1. c2 = c /\ faults' = faults /\ pc[w] # "committing"
      BY <1>7 DEF Process, c, c2
    <2>2. p2 <= p + 1 /\ st2 <= st
      BY <1>5, <1>7
    <2>3. CASE Owns(w)
      <3>1. d = 0 /\ d2 = 1
        BY <1>6, <1>7, <2>3
      <3>2. p2 + st2 - c2 - d2 <= p + st - c - d
        BY <1>2, <1>3, <2>1, <2>2, <3>1
      <3> QED
        BY <1>1, <1>2, <1>3, <1>4, <2>1, <3>2
    <2>4. CASE ~Owns(w)
      <3>1. d <= d2 /\ st2 <= st - 1
        BY <1>5, <1>6, <1>7, <2>1, <2>4
      <3>2. p2 + st2 - c2 - d2 <= p + st - c - d
        BY <1>2, <1>3, <2>1, <2>2, <3>1
      <3> QED
        BY <1>1, <1>2, <1>3, <1>4, <2>1, <3>2
    <2> QED
      BY <2>3, <2>4
  <1>8. CASE Commit(w)
    <2>1. c2 = position[w] /\ c < position[w] /\ faults' = faults
      BY <1>1, <1>8 DEF Commit, OwnerIsAhead, TypeOK, c, c2
    <2>2. ~Process(w)
      BY <1>8 DEF Commit, Process
    <2> QED
      BY <1>1, <1>2, <1>3, <1>4, <1>5, <2>1, <2>2
  <1>9. CASE ProcessFails(w) \/ CommitFails(w) \/ DeliveryFails(w) \/ Stop(w) \/ Crash(w)
    <2>1. c <= c2 /\ faults' = faults + 1
      BY <1>1, <1>2, <1>9
      DEF ProcessFails, CommitFails, DeliveryFails, Stop, Crash, Disturb, OwnerIsAhead, TypeOK, c, c2
    <2>2. ~Process(w)
      <3>1. Process(w) => faults' = faults
        BY DEF Process
      <3>2. faults' # faults
        BY <1>1, <2>1
      <3> QED
        BY <3>1, <3>2
    <2> QED
      BY <1>1, <1>2, <1>3, <1>4, <1>5, <2>1, <2>2
  <1>10. CASE Assign(w) \/ Poll(w) \/ CommitRefused(w) \/ Restart(w) \/ Deliver(w)
    <2>1. c2 = c /\ faults' = faults
      BY <1>10 DEF Assign, Poll, CommitRefused, Restart, Deliver, c, c2
    <2>2. d <= d2
      BY <1>6, <1>10 DEF Assign, Poll, CommitRefused, Restart
    <2>3. ~Process(w) \/ p2 <= p
      <3>1. ASSUME Assign(w) \/ Poll(w) \/ CommitRefused(w) \/ Restart(w) PROVE ~Process(w)
        BY <3>1 DEF Assign, Poll, CommitRefused, Restart, Process
      <3>2. ASSUME Deliver(w) PROVE ~Process(w)
        BY <1>1, <3>2 DEF Deliver, Process, workerVars, TypeOK
      <3> QED
        BY <1>10, <3>1, <3>2
    <2> QED
      BY <1>1, <1>2, <1>3, <1>4, <1>5, <2>1, <2>2, <2>3
  <1> QED
    BY <1>7, <1>8, <1>9, <1>10 DEF WorkerActs, Loop, s

\* The group taking the partition away is paid for with one disturbance: the
\* holder may be stranded with a message, or a commit due is not made.
LEMMA EvictSteps ==
    ASSUME TypeInv, TypeOK', NEW s \in Stages, Evict(s)
    PROVE  /\ faults' = faults + 1
           /\ Surplus(s)' - Surplus(s) <= 1
           /\ \A q \in Stages : q # s => Surplus(q)' = Surplus(q)
  <1>1. /\ TypeOK /\ faults' = faults + 1
        /\ UNCHANGED <<log, committed, pc, position, outbox>>
        /\ owner' = [owner EXCEPT ![s] = Nobody]
    BY DEF TypeInv, Evict, Disturb
  <1>2. \A x \in Workers : /\ Owns(x)' => Owns(x)
                           /\ StageOf[x] # s => (Owns(x)' <=> Owns(x))
                           /\ StageOf[x] = s => ~Owns(x)'
    BY <1>1, PipelineAssumption DEF Owns, TypeOK
  <1>3. \A q \in Stages : Produced(q)' = Produced(q) /\ committed'[q] = committed[q]
    BY <1>1 DEF Produced, Queued
  <1>4. ASSUME NEW q \in Stages, q # s PROVE Surplus(q)' = Surplus(q)
    <2>1. Stranded(q)' = Stranded(q) /\ (CommitDue(q)' <=> CommitDue(q))
      BY <1>1, <1>2, <1>4 DEF Stranded, CommitDue
    <2>2. Due(q)' = Due(q)
      BY <2>1 DEF Due
    <2> QED
      BY <1>3, <2>1, <2>2 DEF Surplus
  <1>5. Surplus(s)' - Surplus(s) <= 1
    <2> DEFINE A == Stranded(s)
               B == Stranded(s)'
               w == owner[s]
    <2>1. IsFiniteSet(A) /\ Cardinality(A) \in Nat
      BY <1>1, CountsAreFinite
    <2>2. B \subseteq A \cup {w} /\ (pc[w] = "committing" => w \notin B)
      BY <1>1, <1>2 DEF Stranded, Owns
    <2>3. CommitDue(s) => pc[w] = "committing"
      BY DEF CommitDue, Owns
    <2>4. Produced(s) \in Nat /\ Due(s) \in {0, 1} /\ committed[s] \in Nat
      BY <1>1, CountTypesNow DEF CountTypes
    <2>5. Due(s)' \in {0, 1}
      BY DEF Due
    <2>6. Due(s) = 1 => pc[w] = "committing"
      BY <2>3 DEF Due
    <2>7. Surplus(s) = Produced(s) + Cardinality(A) - committed[s] - Due(s)
      BY DEF Surplus
    <2>8. Surplus(s)' = Produced(s) + Cardinality(B) - committed[s] - Due(s)'
      BY <1>3 DEF Surplus
    <2> HIDE DEF A, B, w
    <2>9. /\ Cardinality(B) \in Nat
          /\ Cardinality(B) <= Cardinality(A) + 1
          /\ pc[w] = "committing" => Cardinality(B) <= Cardinality(A)
      BY <2>1, <2>2, OneMore
    <2> QED
      BY <2>1, <2>4, <2>5, <2>6, <2>7, <2>8, <2>9
  <1> QED
    BY <1>1, <1>4, <1>5

LEMMA OwnerStaysAhead ==
    ASSUME TypeInv, OwnerIsAhead, NEW w \in Workers, WorkerActs(w)
    PROVE  OwnerIsAhead'
  <1> USE DEF OwnerIsAhead
  <1>1. /\ TypeOK /\ StageOf[w] \in Stages
        /\ position[w] \in Nat /\ committed[StageOf[w]] \in Nat
    BY Topology DEF TypeInv, TypeOK
  <1>2. ASSUME NEW x \in Workers, x # w, Owns(x)'
        PROVE  /\ committed'[StageOf[x]] <= position'[x]
               /\ pc'[x] \in {"processing", "committing"} => committed'[StageOf[x]] < position'[x]
    <2>1. Owns(x) /\ pc'[x] = pc[x] /\ position'[x] = position[x]
      BY <1>1, <1>2, OthersKeep
    <2>2. committed'[StageOf[x]] = committed[StageOf[x]]
      <3>1. StageOf[x] \in Stages
        BY Topology
      <3>2. StageOf[x] = StageOf[w] => ~Owns(w)
        BY <1>2, <2>1 DEF Owns
      <3> QED
        BY <1>1, <3>1, <3>2, OthersKeep
    <2> QED
      BY <2>1, <2>2
  <1>3. ASSUME Owns(w)'
        PROVE  /\ committed'[StageOf[w]] <= position'[w]
               /\ pc'[w] \in {"processing", "committing"} => committed'[StageOf[w]] < position'[w]
    <2>1. CASE Assign(w)
      BY <1>1, <2>1 DEF Assign, TypeOK
    <2>2. CASE Poll(w)
      BY <1>1, <2>2 DEF Poll, TypeOK
    <2>3. CASE Process(w) \/ ProcessFails(w)
      <3>1. /\ Owns(w) /\ UNCHANGED <<committed, position>>
            /\ pc[w] = "processing"
        BY <1>3, <2>3 DEF Process, ProcessFails, Owns
      <3> QED
        BY <1>1, <3>1
    <2>4. CASE Commit(w) \/ CommitFails(w)
      <3>1. /\ Owns(w) /\ pc[w] = "committing" /\ position' = position
            /\ pc'[w] \in {"polling", "flushing"}
            /\ committed'[StageOf[w]] \in {committed[StageOf[w]], position[w]}
        BY <1>1, <2>4 DEF Commit, CommitFails, AfterFailedCommit, TypeOK
      <3> QED
        BY <1>1, <3>1
    <2>5. CASE CommitRefused(w) \/ Stop(w) \/ Crash(w)
      <3>1. ~Owns(w)'
        <4>1. Released(w)[StageOf[w]] # w
          BY <1>1, ReleasedType
        <4>2. ASSUME CommitRefused(w) PROVE ~Owns(w)'
          BY <4>1, <4>2 DEF CommitRefused, AfterFailedCommit, Owns
        <4>3. ASSUME Stop(w) \/ Crash(w) PROVE ~Owns(w)'
          BY <4>1, <4>3 DEF Stop, Crash, Owns
        <4> QED
          BY <2>5, <4>2, <4>3
      <3> QED
        BY <1>3, <3>1
    <2>6. CASE Restart(w) \/ Deliver(w) \/ DeliveryFails(w)
      <3>1. /\ Owns(w) /\ UNCHANGED <<committed, position>>
            /\ pc'[w] \in {pc[w], "polling"}
        BY <1>1, <1>3, <2>6 DEF Restart, Deliver, DeliveryFails, workerVars, Owns, TypeOK
      <3> QED
        BY <1>1, <3>1
    <2> QED
      BY <2>1, <2>2, <2>3, <2>4, <2>5, <2>6 DEF WorkerActs, Loop
  <1> QED
    BY <1>2, <1>3

LEMMA CountInvStep == CountInv /\ [Next]_vars => CountInv'
  <1> SUFFICES ASSUME CountInv, [Next]_vars PROVE OwnerIsAhead' /\ SurplusIsPaidFor'
    BY TypeStep DEF CountInv
  <1>1. /\ TypeInv /\ TypeOK /\ OwnerIsAhead /\ SurplusIsPaidFor /\ faults \in Nat
        /\ TypeInv' /\ TypeOK' /\ faults' \in Nat
    BY TypeStep DEF CountInv, TypeInv, TypeOK
  <1> DEFINE e == Surplus("enrichment")
             s == Surplus("scoring")
             e2 == Surplus("enrichment")'
             s2 == Surplus("scoring")'
             f == faults
             f2 == faults'
  <1>2. e \in Int /\ s \in Int /\ f \in Nat /\ e <= f /\ s <= f /\ e + s <= f
    BY <1>1, CountTypesNow DEF CountTypes, Stages, SurplusIsPaidFor
  <1>3. e2 \in Int /\ s2 \in Int /\ f2 \in Nat
    BY <1>1, CountTypesNext DEF CountTypes, Stages
  <1>4. SurplusIsPaidFor' <=> e2 <= f2 /\ s2 <= f2 /\ e2 + s2 <= f2
    BY DEF SurplusIsPaidFor
  <1>5. ASSUME NEW w \in Workers, WorkerActs(w) PROVE OwnerIsAhead' /\ SurplusIsPaidFor'
    <2>1. f2 \in {f, f + 1}
      BY <1>1, <1>5, OthersKeep
    <2>2. CASE StageOf[w] = "enrichment"
      <3>1. s2 = s
        BY <1>1, <1>5, <2>2, OtherSurplusKept DEF Stages
      <3>2. e2 - e <= f2 - f
        BY <1>1, <1>5, <2>2, SurplusSteps
      <3> HIDE DEF e, s, e2, s2, f, f2
      <3>3. e2 <= f2 /\ s2 <= f2 /\ e2 + s2 <= f2
        BY <1>2, <1>3, <2>1, <3>1, <3>2
      <3> QED
        BY <1>1, <1>4, <1>5, <3>3, OwnerStaysAhead
    <2>3. CASE StageOf[w] = "scoring"
      <3>1. e2 = e
        BY <1>1, <1>5, <2>3, OtherSurplusKept DEF Stages
      <3>2. s2 - s <= f2 - f
        BY <1>1, <1>5, <2>3, SurplusSteps
      <3> HIDE DEF e, s, e2, s2, f, f2
      <3>3. e2 <= f2 /\ s2 <= f2 /\ e2 + s2 <= f2
        BY <1>2, <1>3, <2>1, <3>1, <3>2
      <3> QED
        BY <1>1, <1>4, <1>5, <3>3, OwnerStaysAhead
    <2> QED
      BY <2>2, <2>3, PipelineAssumption DEF Stages
  <1>6. ASSUME NEW q \in Stages, Evict(q) PROVE OwnerIsAhead' /\ SurplusIsPaidFor'
    <2>1. /\ f2 = f + 1
          /\ Surplus(q)' - Surplus(q) <= 1
          /\ \A r \in Stages : r # q => Surplus(r)' = Surplus(r)
      BY <1>1, <1>6, EvictSteps
    <2>2. (e2 - e <= 1 /\ s2 = s) \/ (s2 - s <= 1 /\ e2 = e)
      <3>1. CASE q = "enrichment"
        BY <2>1, <3>1 DEF Stages
      <3>2. CASE q = "scoring"
        BY <2>1, <3>2 DEF Stages
      <3> QED
        BY <3>1, <3>2 DEF Stages
    <2>3. e2 <= f2 /\ s2 <= f2 /\ e2 + s2 <= f2
      <3>1. f2 = f + 1
        BY <2>1
      <3> HIDE DEF e, s, e2, s2, f, f2
      <3> QED
        BY <1>2, <1>3, <2>2, <3>1
    <2>4. \A w \in Workers : Owns(w)' => Owns(w)
      BY <1>1, <1>6, PipelineAssumption DEF Evict, Owns, TypeOK
    <2>5. OwnerIsAhead'
      BY <1>1, <1>6, <2>4 DEF Evict, OwnerIsAhead
    <2> QED
      BY <1>4, <2>3, <2>5
  <1>7. CASE (\E t \in Transactions : Ingest(t) \/ IngestFails(t)) \/ UNCHANGED vars
    <2>1. UNCHANGED <<committed, owner, pc, position, outbox, faults>>
      BY <1>7 DEF Ingest, IngestFails, vars, workerVars
    <2>2. \A q \in Stages : log'[OutTopic[q]] = log[OutTopic[q]]
      BY <1>1, <1>7 DEF Ingest, IngestFails, vars, TypeOK, OutTopic, Stages, Topics
    <2>3. ASSUME NEW q \in Stages PROVE Surplus(q)' = Surplus(q)
      BY <2>1, <2>2 DEF Surplus, Produced, Queued, Stranded, Due, CommitDue, Owns
    <2>4. e2 = e /\ s2 = s /\ f2 = f
      BY <2>1, <2>3 DEF Stages
    <2>5. e2 <= f2 /\ s2 <= f2 /\ e2 + s2 <= f2
      <3> HIDE DEF e, s, e2, s2, f, f2
      <3> QED
        BY <1>2, <1>3, <2>4
    <2>6. OwnerIsAhead'
      BY <1>1, <2>1 DEF OwnerIsAhead, Owns
    <2> QED
      BY <1>4, <2>5, <2>6
  <1> QED
    BY <1>5, <1>6, <1>7 DEF Next, WorkerActs

\* What a stage has produced, from its surplus: no more than it has read, and
\* one message for every disturbance.
LEMMA SurplusBoundsOutput ==
    ASSUME CountInv, NEW s \in Stages
    PROVE  Produced(s) <= Len(log[InTopic[s]]) + Surplus(s)
  <1>1. TypeOK /\ OwnerIsAhead /\ PositionsExist
    BY DEF CountInv, TypeInv
  <1>2. /\ Produced(s) \in Nat /\ Cardinality(Stranded(s)) \in Nat /\ Due(s) \in {0, 1}
        /\ committed[s] \in Nat
    BY <1>1, CountTypesNow DEF CountTypes
  <1>3. Len(log[InTopic[s]]) \in Nat
    BY <1>1, Topology DEF TypeOK
  <1>4. committed[s] + Due(s) <= Len(log[InTopic[s]])
    <2>1. CASE ~CommitDue(s)
      BY <1>1, <1>2, <1>3, <2>1 DEF Due, PositionsExist
    <2>2. CASE CommitDue(s)
      <3>1. PICK w \in Workers : StageOf[w] = s /\ pc[w] = "committing" /\ Owns(w)
        BY <2>2 DEF CommitDue
      <3>2. /\ committed[s] < position[w] /\ position[w] \in Nat
            /\ position[w] <= Len(log[InTopic[s]])
        BY <1>1, <3>1 DEF OwnerIsAhead, PositionsExist, Input, TypeOK
      <3> QED
        BY <1>2, <1>3, <2>2, <3>2 DEF Due
    <2> QED
      BY <2>1, <2>2
  <1> QED
    BY <1>2, <1>3, <1>4 DEF Surplus

\* However workers are killed, evicted, restarted or fail to commit, each such
\* disturbance puts at most one message more into the pipeline: enrichment and
\* scoring together never produce more than one message per posted transaction
\* and disturbance (kafka_consumer.py:61, scoring.py:122).
THEOREM OneDuplicatePerDisturbance == Spec => []DuplicatesAreBounded
  <1>1. Init => CountInv
    <2> SUFFICES ASSUME Init PROVE CountInv
      OBVIOUS
    <2>1. TypeInv /\ TypeOK
      BY InitInv DEF CommitInv, TypeInv
    <2>2. OwnerIsAhead
      BY Topology DEF Init, OwnerIsAhead
    <2>3. ASSUME NEW s \in Stages PROVE Surplus(s) = 0
      <3>1. Queued(s) = {} /\ Stranded(s) = {} /\ ~CommitDue(s)
        BY DEF Init, Queued, Stranded, CommitDue
      <3>2. log[OutTopic[s]] = <<>> /\ committed[s] = 0
        BY Topology DEF Init
      <3> QED
        BY <3>1, <3>2, FS_EmptySet DEF Surplus, Produced, Due
    <2>4. faults = 0
      BY DEF Init
    <2> QED
      BY <2>1, <2>2, <2>3, <2>4 DEF CountInv, SurplusIsPaidFor, Stages
  <1>2. CountInv => DuplicatesAreBounded
    <2> SUFFICES ASSUME CountInv PROVE DuplicatesAreBounded
      OBVIOUS
    <2>1. /\ Produced("enrichment") <= Len(log["raw"]) + Surplus("enrichment")
          /\ Produced("scoring") <= Len(log["enriched"]) + Surplus("scoring")
      BY SurplusBoundsOutput DEF Stages, InTopic
    <2>2. /\ TypeOK /\ SurplusIsPaidFor /\ faults \in Nat
          /\ Len(log["raw"]) \in Nat /\ Len(log["enriched"]) \in Nat
      BY DEF CountInv, TypeInv, TypeOK, Topics
    <2>3. /\ Produced("enrichment") \in Nat /\ Produced("scoring") \in Nat
          /\ Surplus("enrichment") \in Int /\ Surplus("scoring") \in Int
      BY <2>2, CountTypesNow DEF CountTypes, Stages
    <2>4. Len(log["enriched"]) <= Produced("enrichment")
      <3>1. Cardinality(Queued("enrichment")) \in Nat
        BY <2>2, CountsAreFinite DEF Stages
      <3> QED
        BY <2>2, <3>1 DEF Produced, OutTopic, Stages
    <2> QED
      BY <2>1, <2>2, <2>3, <2>4 DEF DuplicatesAreBounded, SurplusIsPaidFor
  <1> QED
    BY <1>1, <1>2, CountInvStep, PTL DEF Spec
=============================================================================
