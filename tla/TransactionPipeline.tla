------------------------- MODULE TransactionPipeline -------------------------
(***************************************************************************)
(* The Kafka pipeline of ATLAS: the gateway appends transactions to        *)
(* raw-transactions, the enrichment workers move them to                   *)
(* enriched-transactions, the scoring workers to scored-transactions.      *)
(*                                                                         *)
(* Each worker runs the same loop (kafka_consumer.py, scoring.py): poll a  *)
(* message, process it, commit the offset synchronously.  Processing only  *)
(* QUEUES the result in the producer; librdkafka's thread delivers it      *)
(* later.  The two loops treat failures differently: enrichment swallows   *)
(* what goes wrong while processing and dies when a commit fails, scoring  *)
(* catches both, waits a second and polls the NEXT message.                *)
(*                                                                         *)
(* Modelled with one partition per topic: a partition has one owner in a   *)
(* consumer group, and partitions share nothing but the Redis profiles,    *)
(* which are another module's subject.                                     *)
(***************************************************************************)
EXTENDS Integers, Sequences, FiniteSets

CONSTANTS
    Transactions,   \* the transactions clients post
    Malformed,      \* those the gateway accepts and enrichment rejects (no user_id, say)
    Workers,        \* the pods of both deployments
    StageOf,        \* the deployment a worker belongs to
    Nobody,         \* the owner of a partition between two assignments
    Faults,         \* which disturbances happen
    MaxFaults       \* bound: how many of them

Stages == {"enrichment", "scoring"}
Topics == {"raw", "enriched", "scored"}

InTopic  == [s \in Stages |-> IF s = "enrichment" THEN "raw" ELSE "enriched"]
OutTopic == [s \in Stages |-> IF s = "enrichment" THEN "enriched" ELSE "scored"]

\* A stage as a kind: processing a message fails in that stage.
FaultKinds == Stages \cup {"commit", "delivery", "stop", "crash", "evict"}

ASSUME PipelineAssumption ==
    /\ IsFiniteSet(Workers)
    /\ Malformed \subseteq Transactions
    /\ StageOf \in [Workers -> Stages]
    /\ Nobody \notin Workers
    /\ Faults \subseteq FaultKinds
    /\ MaxFaults \in Nat

VARIABLES
    log,        \* the messages of each topic, in offset order
    sent,       \* the transactions posted so far
    accepted,   \* those answered 202
    committed,  \* the offset each consumer group has committed
    owner,      \* the worker that holds the input partition of each stage
    pc,         \* where each worker's loop is
    position,   \* the offset each worker polled last
    outbox,     \* the messages queued in each worker's producer
    handled,    \* history: the offsets some worker handed to its producer or discarded
    faults      \* how many disturbances there have been

vars == <<log, sent, accepted, committed, owner, pc, position, outbox, handled, faults>>

workerVars == <<owner, pc, position>>
gatewayVars == <<sent, accepted>>

TypeOK ==
    /\ log \in [Topics -> Seq(Transactions)]
    /\ sent \subseteq Transactions
    /\ accepted \subseteq sent
    /\ committed \in [Stages -> Nat]
    /\ owner \in [Stages -> Workers \cup {Nobody}]
    /\ pc \in [Workers -> {"polling", "processing", "committing", "flushing"}]
    /\ position \in [Workers -> Nat]
    /\ outbox \in [Workers -> Seq(Transactions)]
    /\ handled \in [Stages -> SUBSET (Nat \ {0})]
    /\ faults \in 0..MaxFaults

Init ==
    /\ log = [p \in Topics |-> <<>>]
    /\ sent = {}
    /\ accepted = {}
    /\ committed = [s \in Stages |-> 0]
    /\ owner = [s \in Stages |-> Nobody]
    /\ pc = [w \in Workers |-> "polling"]
    /\ position = [w \in Workers |-> 0]
    /\ outbox = [w \in Workers |-> <<>>]
    /\ handled = [s \in Stages |-> {}]
    /\ faults = 0

Disturb(kind) ==
    /\ kind \in Faults
    /\ faults < MaxFaults
    /\ faults' = faults + 1

Input(w) == log[InTopic[StageOf[w]]]
Owns(w) == owner[StageOf[w]] = w

-----------------------------------------------------------------------------
(* The gateway *)

\* The broker acknowledges the message and the client gets a 202.
Ingest(t) ==
    /\ t \notin sent
    /\ sent' = sent \cup {t}
    /\ accepted' = accepted \cup {t}
    /\ log' = [log EXCEPT !["raw"] = Append(@, t)]
    /\ UNCHANGED <<committed, workerVars, outbox, handled, faults>>

\* send_and_wait raises and the client gets a 503; the message may be there.
IngestFails(t) ==
    /\ t \notin sent
    /\ sent' = sent \cup {t}
    /\ log' \in {log, [log EXCEPT !["raw"] = Append(@, t)]}
    /\ UNCHANGED <<accepted, committed, workerVars, outbox, handled, faults>>

-----------------------------------------------------------------------------
(* The consumer group *)

\* Change: a group without a committed offset starts at the end of the topic.
Assign_FromLatest(w) ==
    /\ pc[w] = "polling"
    /\ owner[StageOf[w]] = Nobody
    /\ owner' = [owner EXCEPT ![StageOf[w]] = w]
    /\ position' = [position EXCEPT ![w] = IF committed[StageOf[w]] = 0 THEN Len(Input(w))
                                           ELSE committed[StageOf[w]]]
    /\ UNCHANGED <<log, gatewayVars, committed, pc, outbox, handled, faults>>

\* Change: the group is new after every restart and starts at the beginning.
Assign_FromEarliest(w) ==
    /\ pc[w] = "polling"
    /\ owner[StageOf[w]] = Nobody
    /\ owner' = [owner EXCEPT ![StageOf[w]] = w]
    /\ position' = [position EXCEPT ![w] = 0]
    /\ UNCHANGED <<log, gatewayVars, committed, pc, outbox, handled, faults>>

\* Change: the position is taken for the offset polled last.
Assign_OneBack(w) ==
    /\ pc[w] = "polling"
    /\ owner[StageOf[w]] = Nobody
    /\ owner' = [owner EXCEPT ![StageOf[w]] = w]
    /\ position' = [position EXCEPT ![w] = committed[StageOf[w]] - 1]
    /\ UNCHANGED <<log, gatewayVars, committed, pc, outbox, handled, faults>>

\* A worker that polls without holding a partition takes the free one and
\* starts at the committed offset.
Assign(w) ==
    /\ pc[w] = "polling"
    /\ owner[StageOf[w]] = Nobody
    /\ owner' = [owner EXCEPT ![StageOf[w]] = w]
    /\ position' = [position EXCEPT ![w] = committed[StageOf[w]]]
    /\ UNCHANGED <<log, gatewayVars, committed, pc, outbox, handled, faults>>

\* The group takes the partition away: a rebalance, or a worker that did not
\* poll within max.poll.interval.ms.
Evict(s) ==
    /\ owner[s] # Nobody
    /\ Disturb("evict")
    /\ owner' = [owner EXCEPT ![s] = Nobody]
    /\ UNCHANGED <<log, gatewayVars, committed, pc, position, outbox, handled>>

Released(w) == IF Owns(w) THEN [owner EXCEPT ![StageOf[w]] = Nobody] ELSE owner

-----------------------------------------------------------------------------
(* The loop of a worker *)

Poll(w) ==
    /\ pc[w] = "polling"
    /\ Owns(w)
    /\ position[w] < Len(Input(w))
    /\ position' = [position EXCEPT ![w] = @ + 1]
    /\ pc' = [pc EXCEPT ![w] = "processing"]
    /\ UNCHANGED <<log, gatewayVars, committed, owner, outbox, handled, faults>>

\* What processing a message queues: a message that fails the schema is
\* discarded for good, every other one gives one message for the next topic.
Output(t) == IF t \in Malformed THEN <<>> ELSE <<t>>

Process(w) ==
    /\ pc[w] = "processing"
    /\ outbox' = [outbox EXCEPT ![w] = @ \o Output(Input(w)[position[w]])]
    /\ handled' = [handled EXCEPT ![StageOf[w]] = @ \cup {position[w]}]
    /\ pc' = [pc EXCEPT ![w] = "committing"]
    /\ UNCHANGED <<log, gatewayVars, committed, owner, position, faults>>

\* Redis, the schema registry or the producer fails.  process_transaction
\* logs and returns, process_message raises.
ProcessFails(w) ==
    /\ pc[w] = "processing"
    /\ Disturb(StageOf[w])
    /\ pc' = [pc EXCEPT ![w] = IF StageOf[w] = "enrichment" THEN "committing" ELSE "polling"]
    /\ UNCHANGED <<log, gatewayVars, committed, owner, position, outbox, handled>>

\* commit() without arguments commits the position of the partition.
Commit(w) ==
    /\ pc[w] = "committing"
    /\ Owns(w)
    /\ committed' = [committed EXCEPT ![StageOf[w]] = position[w]]
    /\ pc' = [pc EXCEPT ![w] = "polling"]
    /\ UNCHANGED <<log, gatewayVars, owner, position, outbox, handled, faults>>

\* A commit that raises ends the loop of an enrichment worker; a scoring
\* worker goes on polling.
AfterFailedCommit(w) ==
    IF StageOf[w] = "enrichment"
    THEN /\ pc' = [pc EXCEPT ![w] = "flushing"]
         /\ owner' = Released(w)
    ELSE /\ pc' = [pc EXCEPT ![w] = "polling"]
         /\ UNCHANGED owner

\* The group refuses the commit of a worker that lost the partition.
CommitRefused(w) ==
    /\ pc[w] = "committing"
    /\ ~Owns(w)
    /\ AfterFailedCommit(w)
    /\ UNCHANGED <<log, gatewayVars, committed, position, outbox, handled, faults>>

\* The broker does not answer; it may have stored the offset.
CommitFails(w) ==
    /\ pc[w] = "committing"
    /\ Owns(w)
    /\ Disturb("commit")
    /\ committed' \in {committed, [committed EXCEPT ![StageOf[w]] = position[w]]}
    /\ AfterFailedCommit(w)
    /\ UNCHANGED <<log, gatewayVars, position, outbox, handled>>

\* Change: enable.auto.commit keeps its default, close() commits the position.
Stop_AutoCommits(w) ==
    /\ pc[w] # "flushing"
    /\ Disturb("stop")
    /\ pc' = [pc EXCEPT ![w] = "flushing"]
    /\ committed' = [committed EXCEPT ![StageOf[w]] = IF Owns(w) THEN position[w] ELSE @]
    /\ owner' = Released(w)
    /\ UNCHANGED <<log, gatewayVars, position, outbox, handled>>

\* SIGINT or a consumer error: the consumer closes, then the producer flushes.
Stop(w) ==
    /\ pc[w] # "flushing"
    /\ Disturb("stop")
    /\ pc' = [pc EXCEPT ![w] = "flushing"]
    /\ owner' = Released(w)
    /\ UNCHANGED <<log, gatewayVars, committed, position, outbox, handled>>

\* Change: the process exits without flushing its producer.
Restart_WithoutFlush(w) ==
    /\ pc[w] = "flushing"
    /\ outbox' = [outbox EXCEPT ![w] = <<>>]
    /\ pc' = [pc EXCEPT ![w] = "polling"]
    /\ UNCHANGED <<log, gatewayVars, committed, owner, position, handled, faults>>

\* flush() returns when the queue is empty, the process exits, the pod restarts.
Restart(w) ==
    /\ pc[w] = "flushing"
    /\ outbox[w] = <<>>
    /\ pc' = [pc EXCEPT ![w] = "polling"]
    /\ UNCHANGED <<log, gatewayVars, committed, owner, position, outbox, handled, faults>>

\* SIGKILL: what is queued in the producer is gone.  The group notices when
\* the session ends, the pod restarts.
Crash(w) ==
    /\ Disturb("crash")
    /\ outbox' = [outbox EXCEPT ![w] = <<>>]
    /\ pc' = [pc EXCEPT ![w] = "polling"]
    /\ owner' = Released(w)
    /\ UNCHANGED <<log, gatewayVars, committed, position, handled>>

\* The producer's thread delivers the oldest message of its queue ...
Deliver(w) ==
    /\ outbox[w] # <<>>
    /\ log' = [log EXCEPT ![OutTopic[StageOf[w]]] = Append(@, Head(outbox[w]))]
    /\ outbox' = [outbox EXCEPT ![w] = Tail(@)]
    /\ UNCHANGED <<gatewayVars, committed, workerVars, handled, faults>>

\* ... or gives up, which delivery_report logs and nobody acts upon.
DeliveryFails(w) ==
    /\ outbox[w] # <<>>
    /\ Disturb("delivery")
    /\ outbox' = [outbox EXCEPT ![w] = Tail(@)]
    /\ UNCHANGED <<log, gatewayVars, committed, workerVars, handled>>

-----------------------------------------------------------------------------

Loop(w) == Assign(w) \/ Poll(w) \/ Process(w) \/ Commit(w) \/ CommitRefused(w) \/ Restart(w)

Next ==
    \/ \E t \in Transactions : Ingest(t) \/ IngestFails(t)
    \/ \E s \in Stages : Evict(s)
    \/ \E w \in Workers :
          \/ Loop(w)
          \/ Deliver(w)
          \/ ProcessFails(w)
          \/ CommitFails(w)
          \/ DeliveryFails(w)
          \/ Stop(w)
          \/ Crash(w)

Spec == Init /\ [][Next]_vars

\* A worker's loop keeps running, and so does its producer's thread: calls have
\* timeouts (redis_state.py:36), and a loop that stands still fails the liveness
\* probe (scoring.py:234) and is restarted.
FairSpec ==
    /\ Spec
    /\ \A w \in Workers : WF_vars(Loop(w)) /\ WF_vars(Deliver(w))

-----------------------------------------------------------------------------
(* Properties *)

\* What stage s reads at an offset.
MessageAt(s, o) == log[InTopic[s]][o]

\* Some worker of stage s still has t in its producer's queue.
InFlight(s, t) ==
    \E w \in Workers : StageOf[w] = s /\ \E i \in DOMAIN outbox[w] : outbox[w][i] = t

Published(topic, t) == \E i \in DOMAIN log[topic] : log[topic][i] = t

\* The committed offset of a group never passes a message that nobody handed
\* to a producer or discarded: this is what "skip the commit, retry" in the
\* loop of the scoring worker is for.  It needs more than one worker and
\* several steps to break: an eviction, a commit for a partition that somebody
\* else already reads, a restart in the middle of a message.
CommittedIsHandled == \A s \in Stages : 1..committed[s] \subseteq handled[s]

\* A well-formed transaction below the committed offset is in the next topic
\* or on its way there, as long as no process is killed and the broker takes
\* what it is given: committing before the delivery report is harmless when
\* every producer is flushed.
NothingCommittedIsLost ==
    \A s \in Stages : \A o \in 1..committed[s] :
        MessageAt(s, o) \in Malformed
            \/ Published(OutTopic[s], MessageAt(s, o))
            \/ InFlight(s, MessageAt(s, o))

\* The places taken in the producers' queues of stage s.
Queued(s) == UNION {{w} \X DOMAIN outbox[w] : w \in {x \in Workers : StageOf[x] = s}}

\* How many messages stage s has handed to its producers that were not lost there.
Produced(s) == Len(log[OutTopic[s]]) + Cardinality(Queued(s))

\* One disturbance costs at most one duplicate in the whole pipeline: the
\* synchronous commit after every message keeps the window of redelivery at
\* one message, and a duplicate of enrichment is not multiplied by scoring.
DuplicatesAreBounded ==
    /\ Produced("scoring") <= Len(log["raw"]) + faults
    /\ Produced("enrichment") <= Len(log["raw"]) + faults

\* Every well-formed transaction that was answered 202 is eventually scored,
\* whatever restarts, rebalances and failing commits happen on the way.
AcceptedIsScored ==
    \A t \in Transactions \ Malformed : t \in accepted ~> Published("scored", t)

=============================================================================
