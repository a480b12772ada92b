------------------------------- MODULE Gateway -------------------------------
(***************************************************************************)
(* The API gateway (gateway/gateway.py), one pod of it: the background     *)
(* task that connects the Kafka producer, the endpoint that publishes a    *)
(* transaction, and the readiness probe that lets the service route        *)
(* requests to the pod.                                                    *)
(*                                                                         *)
(* kafka_connected is set once per process and never reset: after an       *)
(* outage the producer reconnects by itself, and until then a request      *)
(* fails after the flag has let it in.  Clients repeat a transaction until *)
(* it is accepted.                                                         *)
(***************************************************************************)
EXTENDS Broker

CONSTANTS
    Transactions,       \* the transactions clients have
    MinRetryDelay,      \* MIN_RETRY_DELAY
    MaxRetryDelay       \* MAX_RETRY_DELAY

ASSUME GatewayAssumption ==
    /\ {MinRetryDelay, MaxRetryDelay} \subseteq Nat \ {0}
    /\ MinRetryDelay <= MaxRetryDelay

VARIABLES
    task,               \* connection_task: "none", "connecting", "sleeping", "done"
    delay,              \* retry_delay, local to the task
    connected,          \* kafka_connected
    ready,              \* the last answer of the readiness probe
    request,            \* the request under way for each transaction
    accepted,           \* transactions answered with 202
    raw                 \* the raw-transactions topic

processVars == <<task, delay, connected>>
gatewayVars == <<processVars, ready, request, accepted, raw>>

GatewayTypeOK ==
    /\ task \in {"none", "connecting", "sleeping", "done"}
    /\ delay \in MinRetryDelay .. MaxRetryDelay
    /\ connected \in BOOLEAN /\ ready \in BOOLEAN
    /\ connected => task = "done"
    /\ request \in [Transactions -> {"none", "sending", "stored"}]
    /\ accepted \subseteq Transactions
    /\ raw \in Seq(Transactions)

GatewayInit ==
    /\ task = "none" /\ delay = MinRetryDelay /\ connected = FALSE /\ ready = FALSE
    /\ request = [t \in Transactions |-> "none"]
    /\ accepted = {}
    /\ raw = <<>>

LeastOf(x, y) == IF x <= y THEN x ELSE y

-----------------------------------------------------------------------------
(* The process and its connection task *)

StartUp ==
    /\ task = "none"
    /\ task' = "connecting"
    /\ UNCHANGED <<delay, connected, ready, request, accepted, raw>>

Connect ==
    /\ task = "connecting" /\ broker
    /\ task' = "done" /\ connected' = TRUE /\ delay' = MinRetryDelay
    /\ UNCHANGED <<ready, request, accepted, raw>>

ConnectFails ==
    /\ task = "connecting" /\ ~broker
    /\ task' = "sleeping"
    /\ UNCHANGED <<delay, connected, ready, request, accepted, raw>>

\* Mutant: the delay grows without a cap.
RetryConnect_Uncapped ==
    /\ task = "sleeping"
    /\ task' = "connecting" /\ delay' = delay * 2
    /\ UNCHANGED <<connected, ready, request, accepted, raw>>

RetryConnect ==
    /\ task = "sleeping"
    /\ task' = "connecting" /\ delay' = LeastOf(delay * 2, MaxRetryDelay)
    /\ UNCHANGED <<connected, ready, request, accepted, raw>>

\* The process ends, killed or after lifespan has cancelled the task and closed
\* the producer; requests under way get no answer from it.
Ended ==
    /\ task' = "none" /\ delay' = MinRetryDelay
    /\ connected' = FALSE /\ ready' = FALSE
    /\ request' = [t \in Transactions |-> "none"]
    /\ UNCHANGED <<accepted, raw>>

Shutdown ==
    /\ task # "none"
    /\ \A t \in Transactions : request[t] = "none"
    /\ Ended

GatewayKilled ==
    /\ task # "none"
    /\ Ended

-----------------------------------------------------------------------------
(* Endpoints *)

\* readiness_probe.  The metadata update of the library raises, runs into the
\* timeout, or reports the failure by a return value that nobody looks at.
Probe ==
    /\ task # "none"
    /\ \E healthy \in {broker, TRUE} : ready' = (connected /\ healthy)
    /\ UNCHANGED <<processVars, request, accepted, raw>>

\* A client sends a transaction it has no 202 for; ingest_transaction up to the
\* send.  Without a connection the answer is 503 at once.
Ingest(t) ==
    /\ ready /\ connected
    /\ t \notin accepted /\ request[t] = "none"
    /\ request' = [request EXCEPT ![t] = "sending"]
    /\ UNCHANGED <<processVars, ready, accepted, raw>>

Store(t) ==
    /\ request[t] = "sending" /\ broker
    /\ raw' = Append(raw, t)
    /\ request' = [request EXCEPT ![t] = "stored"]
    /\ UNCHANGED <<processVars, ready, accepted>>

Accept(t) ==
    /\ request[t] = "stored" /\ broker
    /\ request' = [request EXCEPT ![t] = "none"]
    /\ accepted' = accepted \cup {t}
    /\ UNCHANGED <<processVars, ready, raw>>

\* Mutant: a failing send marks the gateway as disconnected.
Refuse_Disconnects(t) ==
    /\ request[t] # "none" /\ ~broker
    /\ request' = [request EXCEPT ![t] = "none"]
    /\ connected' = FALSE
    /\ UNCHANGED <<task, delay, ready, accepted, raw>>

\* The send raises, before the broker has the message or after: 503.
Refuse(t) ==
    /\ request[t] # "none" /\ ~broker
    /\ request' = [request EXCEPT ![t] = "none"]
    /\ UNCHANGED <<processVars, ready, accepted, raw>>

ConnectionTask == StartUp \/ Connect \/ ConnectFails \/ RetryConnect

GatewayEnds == Shutdown \/ GatewayKilled

GatewayStep ==
    \/ ConnectionTask
    \/ Probe
    \/ \E t \in Transactions : Ingest(t) \/ Store(t) \/ Accept(t) \/ Refuse(t)

\* Kubernetes restarts the pod and probes it, a sleep ends, a send ends, and
\* clients come back with what was refused.
GatewayFairness ==
    /\ WF_gatewayVars(ConnectionTask)
    /\ WF_gatewayVars(Probe)
    /\ \A t \in Transactions : WF_gatewayVars(Ingest(t)) /\ WF_gatewayVars(Store(t) \/ Accept(t) \/ Refuse(t))

-----------------------------------------------------------------------------
(* Properties *)

\* A client that repeats its transaction gets it accepted, whatever outages and
\* restarts there were: the flag that is never reset keeps nobody out, because
\* the task that sets it tries until it is set (gateway.py:38).
RetriesSucceed == \A t \in Transactions : <>(t \in accepted)
=============================================================================
