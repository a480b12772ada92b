----------------------------- MODULE Notification -----------------------------
(***************************************************************************)
(* The notification service (notification-system/notification_system.py):  *)
(* in every pod a thread that reads the scored transactions and hands each *)
(* to the event loop, and on the event loop the web sockets of the clients *)
(* connected to that pod and one broadcast per transaction handed over.    *)
(*                                                                         *)
(* The event loop is single-threaded, but a broadcast awaits every send:   *)
(* other broadcasts, new connections and disconnections come in between.   *)
(* A socket is one connection of a client; a client that comes back is     *)
(* another socket.  The pods share one consumer group, so a transaction is *)
(* handed over by one of them and reaches the clients of that pod only.    *)
(* One partition stands for all: partitions are independent of each other. *)
(***************************************************************************)
EXTENDS Broker, FiniteSets

CONSTANTS
    Pods,               \* the pods of the service
    Sockets,            \* the connections clients make
    Payments            \* scored transactions

\* A message on which _parse_message raises: JSON that is no object, or no value.
\* Others that are no scored transaction, no JSON or without the fields, have the
\* fate of one that cannot be decoded (Skip) and are not kept apart.
Foreign == {"poison"}

ASSUME NotificationAssumption == Payments \cap Foreign = {}

VARIABLES
    scored,             \* the scored-transactions topic
    committed,          \* the group's offset
    owner,              \* the pod that the partition is assigned to, if any
    loop,               \* the consumer thread of each pod: "none", "polling", "dead"
    position,           \* the next offset it polls
    broadcasts,         \* the broadcasts scheduled or running
    connections,        \* _active_connections of each pod
    peer,               \* the client's end of each socket: "away", "here", "gone"
    owed,               \* history: offsets whose broadcast began while the socket was
                        \* connected and that were not sent to it yet
    over,               \* history: offsets whose broadcast is over
    undecoded           \* history: offsets of scored transactions a thread could not decode

groupVars == <<scored, committed, owner>>
threadVars == <<loop, position>>
socketVars == <<connections, peer, owed>>
notificationVars == <<groupVars, threadVars, broadcasts, socketVars, over, undecoded>>

Offsets == 1 .. Len(scored)

\* A broadcast has taken its copy of the connections once it has started.
Broadcasts == [pod : Pods, at : Offsets, started : BOOLEAN, left : SUBSET Sockets, failed : SUBSET Sockets]

NotificationTypeOK ==
    /\ scored \in Seq(Payments \cup Foreign)
    /\ committed \in 0 .. Len(scored)
    /\ owner \subseteq Pods /\ Cardinality(owner) <= 1
    /\ loop \in [Pods -> {"none", "polling", "dead"}]
    /\ position \in [Pods -> 0 .. Len(scored)]
    /\ broadcasts \subseteq Broadcasts
    /\ connections \in [Pods -> SUBSET Sockets]
    /\ peer \in [Sockets -> {"away", "here", "gone"}]
    /\ owed \in [Sockets -> SUBSET Offsets]
    /\ over \subseteq Offsets /\ undecoded \subseteq Offsets

NotificationInit ==
    /\ scored = <<>> /\ committed = 0 /\ owner = {}
    /\ loop = [p \in Pods |-> "none"] /\ position = [p \in Pods |-> 0]
    /\ broadcasts = {} /\ over = {} /\ undecoded = {}
    /\ connections = [p \in Pods |-> {}]
    /\ peer = [s \in Sockets |-> "away"]
    /\ owed = [s \in Sockets |-> {}]

\* A message written to the topic, by the scoring service or by others.
Write(message) ==
    /\ scored' = Append(scored, message)
    /\ UNCHANGED <<committed, owner, threadVars, broadcasts, socketVars, over, undecoded>>

-----------------------------------------------------------------------------
(* The consumer thread *)

StartPod(p) ==
    /\ loop[p] = "none"
    /\ loop' = [loop EXCEPT ![p] = "polling"]
    /\ UNCHANGED <<groupVars, position, broadcasts, socketVars, over, undecoded>>

Assign(p) ==
    /\ owner = {} /\ broker /\ loop[p] = "polling"
    /\ owner' = {p}
    /\ position' = [position EXCEPT ![p] = committed]
    /\ UNCHANGED <<scored, committed, loop, broadcasts, socketVars, over, undecoded>>

\* What the thread reads next.
Reads(p) == IF p \in owner /\ loop[p] = "polling" /\ position[p] < Len(scored)
            THEN {scored[position[p] + 1]} ELSE {}

Advanced(p) == [position EXCEPT ![p] = @ + 1]

\* _parse_message returns None, because the schema registry does not deliver the
\* schema and binary Avro is no JSON either: the thread logs it and polls on, and
\* what it has polled is committed with the rest.
Skip(p) ==
    /\ Reads(p) \cap Payments # {}
    /\ position' = Advanced(p)
    /\ undecoded' = undecoded \cup {position[p] + 1}
    /\ UNCHANGED <<groupVars, loop, broadcasts, socketVars, over>>

Handed(p) == [pod |-> p, at |-> position[p] + 1, started |-> FALSE, left |-> {}, failed |-> {}]

Hand(p) ==
    /\ Reads(p) \cap Payments # {}
    /\ position' = Advanced(p)
    /\ broadcasts' = broadcasts \cup {Handed(p)}
    /\ UNCHANGED <<groupVars, loop, socketVars, over, undecoded>>

\* What leaving the group commits: all that has been polled, if the broker answers.
Left(p, pos) == IF p \in owner /\ broker THEN pos[p] ELSE committed

\* Mutant: the consumer is left open, and nothing is committed.
Die_WithoutClose(p) ==
    /\ "poison" \in Reads(p)
    /\ position' = Advanced(p)
    /\ loop' = [loop EXCEPT ![p] = "dead"]
    /\ owner' = owner \ {p}
    /\ UNCHANGED <<scored, committed, broadcasts, socketVars, over, undecoded>>

\* Mutant: the consumer is left open and keeps its partition.
Die_KeepsPartition(p) ==
    /\ "poison" \in Reads(p)
    /\ position' = Advanced(p)
    /\ loop' = [loop EXCEPT ![p] = "dead"]
    /\ UNCHANGED <<groupVars, broadcasts, socketVars, over, undecoded>>

\* _parse_message raises outside of the loop's try: the thread closes the
\* consumer and ends, while the pod lives on and answers that it is ready.
Die(p) ==
    /\ "poison" \in Reads(p)
    /\ position' = Advanced(p)
    /\ loop' = [loop EXCEPT ![p] = "dead"]
    /\ committed' = Left(p, position')
    /\ owner' = owner \ {p}
    /\ UNCHANGED <<scored, broadcasts, socketVars, over, undecoded>>

AutoCommit(p) ==
    /\ p \in owner /\ broker /\ committed # position[p]
    /\ committed' = position[p]
    /\ UNCHANGED <<scored, owner, threadVars, broadcasts, socketVars, over, undecoded>>

\* A pod joins the group, or the session of this one has timed out: then
\* nothing is committed.
Rebalance(p) ==
    /\ p \in owner
    /\ committed' \in {committed, Left(p, position)}
    /\ owner' = {} /\ position' = [position EXCEPT ![p] = 0]
    /\ UNCHANGED <<scored, loop, broadcasts, socketVars, over, undecoded>>

-----------------------------------------------------------------------------
(* The event loop *)

\* The broadcast ends: failing sockets are removed unless they are already.
Close(b, failed) ==
    /\ broadcasts' = broadcasts \ {b}
    /\ connections' = [connections EXCEPT ![b.pod] = @ \ failed]
    /\ over' = over \cup {b.at}

GoOn(b, next) == broadcasts' = (broadcasts \ {b}) \cup {next} /\ UNCHANGED <<connections, over>>

\* A broadcast starts with a copy of the list; with nobody connected it is over.
Start(b) ==
    /\ ~b.started
    /\ LET copy == connections[b.pod]
       IN /\ owed' = [s \in Sockets |-> IF s \in copy /\ peer[s] = "here" THEN owed[s] \cup {b.at} ELSE owed[s]]
          /\ IF copy = {} THEN Close(b, {}) ELSE GoOn(b, [b EXCEPT !.started = TRUE, !.left = copy])
    /\ UNCHANGED <<groupVars, threadVars, peer, undecoded>>

\* The broadcast after a send to s.
Tried(b, s) == [b EXCEPT !.left = @ \ {s}, !.failed = IF peer[s] = "here" THEN @ ELSE @ \cup {s}]

\* Mutant: the first exception ends the broadcast.
Proceed_StopsAtFailure(b, s) ==
    LET next == Tried(b, s)
    IN IF next.left = {} \/ next.failed # {} THEN Close(b, next.failed) ELSE GoOn(b, next)

\* On to another socket of the copy, in any order, or, after the last, the removals.
Proceed(b, s) ==
    LET next == Tried(b, s)
    IN IF next.left = {} THEN Close(b, next.failed) ELSE GoOn(b, next)

Send(b, s) ==
    /\ b.started /\ s \in b.left
    /\ owed' = [owed EXCEPT ![s] = @ \ {b.at}]
    /\ Proceed(b, s)
    /\ UNCHANGED <<groupVars, threadVars, peer, undecoded>>

\* websocket_notifications: accept, and the entry in the list.
ConnectSocket(s, p) ==
    /\ peer[s] = "away" /\ loop[p] # "none"
    /\ peer' = [peer EXCEPT ![s] = "here"]
    /\ connections' = [connections EXCEPT ![p] = @ \cup {s}]
    /\ UNCHANGED <<groupVars, threadVars, broadcasts, owed, over, undecoded>>

Leave(s) ==
    /\ peer[s] = "here"
    /\ peer' = [peer EXCEPT ![s] = "gone"]
    /\ owed' = [owed EXCEPT ![s] = {}]
    /\ UNCHANGED <<groupVars, threadVars, broadcasts, connections, over, undecoded>>

\* receive_text raises: the endpoint takes the socket off the list.
Disconnect(s, p) ==
    /\ peer[s] = "gone" /\ s \in connections[p]
    /\ connections' = [connections EXCEPT ![p] = @ \ {s}]
    /\ UNCHANGED <<groupVars, threadVars, broadcasts, peer, owed, over, undecoded>>

-----------------------------------------------------------------------------
(* The process *)

\* The process ends; its sockets close and its broadcasts are gone.
EndPod(p) ==
    /\ loop[p] # "none"
    /\ loop' = [loop EXCEPT ![p] = "none"]
    /\ owner' = owner \ {p} /\ position' = [position EXCEPT ![p] = 0]
    /\ broadcasts' = {b \in broadcasts : b.pod # p}
    /\ over' = over \cup {b.at : b \in {b \in broadcasts : b.pod = p}}
    /\ peer' = [s \in Sockets |-> IF s \in connections[p] THEN "gone" ELSE peer[s]]
    /\ owed' = [s \in Sockets |-> IF s \in connections[p] THEN {} ELSE owed[s]]
    /\ connections' = [connections EXCEPT ![p] = {}]
    /\ UNCHANGED <<scored, undecoded>>

\* The shutdown handler stops the thread, which closes its consumer.
StopPod(p) == EndPod(p) /\ committed' = Left(p, position)

KillPod(p) == EndPod(p) /\ UNCHANGED committed

PodEnds == \E p \in Pods : StopPod(p) \/ KillPod(p)

Thread(p) == Assign(p) \/ Skip(p) \/ Hand(p) \/ Die(p)
RunBroadcast(b) == Start(b) \/ \E s \in Sockets : Send(b, s)

NotificationStep ==
    \/ \E p \in Pods : StartPod(p) \/ Thread(p) \/ AutoCommit(p)
    \/ \E b \in broadcasts : RunBroadcast(b)
    \/ \E s \in Sockets : Leave(s) \/ \E p \in Pods : ConnectSocket(s, p) \/ Disconnect(s, p)

\* Kubernetes starts the pods, and threads and event loops run.  That a send ends,
\* delivered or failed, is assumed of the web server; that a peer has closed its
\* end may never be noticed.
NotificationFairness ==
    /\ \A p \in Pods : WF_notificationVars(StartPod(p)) /\ WF_notificationVars(Thread(p))
    /\ WF_notificationVars(\E b \in broadcasts : RunBroadcast(b))

-----------------------------------------------------------------------------
(* Properties *)

\* A broadcast that is over has reached every client that was connected when it
\* began and still is: a broken socket, a disconnection or another broadcast in
\* between costs the others nothing (broadcast, 45-55).
ConnectedReceive ==
    \A s \in Sockets : \A at \in owed[s] : \E b \in broadcasts : b.at = at /\ s \in b.left

\* A message that a thread cannot parse stops that thread only: closing the
\* consumer commits it, so that no other pod reads it, unless the broker is away.
PoisonStopsOneThread ==
    \A p, q \in Pods :
        p # q /\ loop[p] = "dead" /\ loop[q] = "dead" /\ position[p] = position[q] => outage
=============================================================================
