-------------------------------- MODULE Broker --------------------------------
(* The Kafka cluster as its clients see it: it can be reached or not.        *)
EXTENDS Integers, Sequences

VARIABLES
    broker,             \* whether the brokers can be reached
    outage              \* history: whether there was a time they could not

brokerVars == <<broker, outage>>

BrokerTypeOK == broker \in BOOLEAN /\ outage \in BOOLEAN

BrokerInit == broker = TRUE /\ outage = FALSE

BrokerDown ==
    /\ broker
    /\ broker' = FALSE
    /\ outage' = TRUE

BrokerUp ==
    /\ ~broker
    /\ broker' = TRUE
    /\ UNCHANGED outage
=============================================================================
