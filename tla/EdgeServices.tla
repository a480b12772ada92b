----------------------------- MODULE EdgeServices -----------------------------
(***************************************************************************)
(* The two ends of the payment path: clients hand transactions to the      *)
(* gateway and are told of their result by the notification service.       *)
(* What lies between, enrichment and scoring, is TransactionPipeline; here *)
(* only its outcome for the next raw transaction is kept: it is scored, or *)
(* dropped, because enrichment has logged and committed it                 *)
(* (enrichment_system.py:120), scoring has polled on past it               *)
(* (scoring.py:123) or one of the two has found it malformed.  What has    *)
(* been scored may be scored again.                                        *)
(***************************************************************************)
EXTENDS Gateway, Notification

ASSUME SamePayments == Payments = Transactions

CONSTANTS
    MaxDisturbances,    \* bound: outages, ends of processes, rebalances
    MaxForeign          \* bound: messages the scoring service did not write

ASSUME EdgeAssumption == {MaxDisturbances, MaxForeign} \subseteq Nat

VARIABLES
    carried,            \* raw transactions the pipeline is through with
    dropped,            \* history: those of them that it has not scored
    disturbances,       \* disturbances so far
    foreign             \* foreign messages so far

passing == <<carried, dropped>>
bounds == <<disturbances, foreign>>
edgeVars == <<brokerVars, gatewayVars, notificationVars, passing, bounds>>

EdgeTypeOK ==
    /\ BrokerTypeOK
    /\ GatewayTypeOK
    /\ NotificationTypeOK
    /\ carried \in 0 .. Len(raw) /\ dropped \subseteq 1 .. carried
    /\ disturbances \in 0 .. MaxDisturbances /\ foreign \in 0 .. MaxForeign

EdgeInit ==
    /\ BrokerInit /\ GatewayInit /\ NotificationInit
    /\ carried = 0 /\ dropped = {} /\ disturbances = 0 /\ foreign = 0

\* The next raw transaction is enriched, scored and committed by both services.
CarryOver ==
    /\ carried < Len(raw)
    /\ carried' = carried + 1
    /\ Write(raw[carried + 1])
    /\ UNCHANGED dropped

\* It is committed without having been scored.
Drop ==
    /\ carried < Len(raw)
    /\ carried' = carried + 1
    /\ dropped' = dropped \cup {carried + 1}
    /\ UNCHANGED notificationVars

\* A commit is lost with a worker or its partition, and another one polls the
\* transaction again.
ScoreAgain ==
    /\ broker
    /\ \E i \in 1 .. carried : Write(raw[i])
    /\ UNCHANGED <<brokerVars, gatewayVars>>

Outage == BrokerDown /\ UNCHANGED <<gatewayVars, notificationVars>>
OutageEnds == BrokerUp /\ UNCHANGED <<gatewayVars, notificationVars, passing, bounds>>
GatewayRestart == GatewayEnds /\ UNCHANGED <<brokerVars, notificationVars>>
GroupDisturbed == (PodEnds \/ \E p \in Pods : Rebalance(p)) /\ UNCHANGED <<brokerVars, gatewayVars>>

Disturbance ==
    /\ disturbances < MaxDisturbances /\ disturbances' = disturbances + 1
    /\ Outage \/ GatewayRestart \/ GroupDisturbed \/ ScoreAgain
    /\ UNCHANGED <<passing, foreign>>

ForeignMessage ==
    /\ broker
    /\ foreign < MaxForeign /\ foreign' = foreign + 1
    /\ \E m \in Foreign : Write(m)
    /\ UNCHANGED <<brokerVars, gatewayVars, passing, disturbances>>

Scoring == broker /\ (CarryOver \/ Drop) /\ UNCHANGED <<brokerVars, gatewayVars, bounds>>

EdgeNext ==
    \/ GatewayStep /\ UNCHANGED <<brokerVars, notificationVars, passing, bounds>>
    \/ NotificationStep /\ UNCHANGED <<brokerVars, gatewayVars, passing, bounds>>
    \/ Scoring
    \/ OutageEnds
    \/ ForeignMessage
    \/ Disturbance

EdgeSpec == EdgeInit /\ [][EdgeNext]_edgeVars

\* Besides the fairness of the two services: outages end, and TransactionPipeline
\* works on.
FairSpec ==
    /\ EdgeSpec
    /\ GatewayFairness
    /\ NotificationFairness
    /\ WF_edgeVars(OutageEnds)
    /\ WF_edgeVars(Scoring)

-----------------------------------------------------------------------------
(* Properties *)

Announced(t) == \E at \in over : scored[at] = t

\* Every copy of it in the topic was dropped.
Dropped(t) == \A i \in DOMAIN raw : raw[i] = t => i \in dropped

Undecoded(t) == \E at \in undecoded : scored[at] = t

\* A transaction answered with 202 is broadcast in the end, or its broadcast dies
\* with the pod, through outages, rebalances and restarts at both ends.  That is
\* unless the pipeline has dropped every copy of it, the notification service
\* could not decode it (notification_system.py:85), or no consumer thread is left:
\* one that has met a message it cannot parse is not started again (157).
AcceptedIsAnnounced ==
    \A t \in Transactions : t \in accepted ~>
        \/ Announced(t)
        \/ Dropped(t) \/ Undecoded(t)
        \/ \A p \in Pods : loop[p] = "dead"
=============================================================================
