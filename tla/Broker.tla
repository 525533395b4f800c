------------------------------- MODULE Broker -------------------------------
(***************************************************************************)
(* RabbitMQ as internal/queue/queue.go uses it: one durable work queue,    *)
(* a dead-letter queue behind a fanout exchange, and one channel per       *)
(* consumer connection, with a prefetch limit and per-channel delivery     *)
(* tags.  The broker itself is outside the repository; only the calls      *)
(* queue.go and manager.go make on it are described.                       *)
(*                                                                         *)
(* A session is the broker's side of one consumer channel.  Sessions are   *)
(* numbered in the order they are opened and never reopened: a reconnect   *)
(* opens the next one.                                                     *)
(***************************************************************************)
EXTENDS Naturals, FiniteSets

CONSTANTS
  Msgs,         \* job messages that may be published to the work queue
  Prefetch,     \* channel QoS: main.go sets it to the number of workers
  MaxSessions   \* bound: how many consumer channels are ever opened

ASSUME PrefetchAssumption == Prefetch \in Nat \ {0}
ASSUME MaxSessionsAssumption == MaxSessions \in Nat \ {0}

Session == 1..MaxSessions

(* What amqp.Delivery carries: the channel it came on, its tag there, and  *)
(* the body.                                                               *)
Delivery == [session : Session, tag : Nat, msg : Msgs]

VARIABLES
  ready,    \* messages waiting in the work queue
  unacked,  \* deliveries pushed to a live session and not settled yet
  acked,    \* messages confirmed by an Ack
  dead,     \* messages in the dead-letter queue
  lost,     \* messages a broker restart discarded
  session,  \* broker side of every session: "down", "up" or "consuming"
  lastTag   \* the last delivery tag each session has used

brokerVars == <<ready, unacked, acked, dead, lost, session, lastTag>>

HeldBy(s) == {d \in unacked : d.session = s}
Outstanding == ready \cup {d.msg : d \in unacked}
Published == Outstanding \cup acked \cup dead \cup lost

BrokerInit ==
  /\ ready = {}
  /\ unacked = {}
  /\ acked = {}
  /\ dead = {}
  /\ lost = {}
  /\ session = [s \in Session |-> "down"]
  /\ lastTag = [s \in Session |-> 0]

(* A publisher's basic.publish reaches the queue.                          *)
Enqueued(m) ==
  /\ m \notin Published
  /\ ready' = ready \cup {m}
  /\ UNCHANGED <<unacked, acked, dead, lost, session, lastTag>>

(* main.go asks for as many unacknowledged deliveries as it has workers.   *)
Qos == Prefetch

(* The broker pushes m on session s, within the prefetch limit.            *)
Pushed(s, m) ==
  /\ session[s] = "consuming"
  /\ Cardinality(HeldBy(s)) < Qos
  /\ m \in ready
  /\ ready' = ready \ {m}
  /\ lastTag' = [lastTag EXCEPT ![s] = @ + 1]
  /\ unacked' = unacked \cup {[session |-> s, tag |-> lastTag[s] + 1, msg |-> m]}
  /\ UNCHANGED <<acked, dead, lost, session>>

(* The delivery a (session, tag) pair stands for: a tag means nothing      *)
(* outside its channel.                                                    *)
Tagged(s, tag) == {d \in unacked : d.session = s /\ d.tag = tag}
MsgsOf(ds) == {d.msg : d \in ds}

(* basic.ack, basic.nack without requeue (routed through the dead-letter   *)
(* exchange) and basic.nack with requeue, as the broker applies them.      *)
Settled(s, tag, how) ==
  LET ms == MsgsOf(Tagged(s, tag)) IN
  /\ how \in {"ack", "reject", "requeue"}
  /\ unacked' = unacked \ Tagged(s, tag)
  /\ acked' = IF how = "ack" THEN acked \cup ms ELSE acked
  /\ dead' = IF how = "reject" THEN dead \cup ms ELSE dead
  /\ ready' = IF how = "requeue" THEN ready \cup ms ELSE ready
  /\ UNCHANGED <<lost, session, lastTag>>

Opened(s) ==
  /\ session' = [session EXCEPT ![s] = "up"]
  /\ UNCHANGED <<ready, unacked, acked, dead, lost, lastTag>>

Subscribed(s) ==
  /\ session' = [session EXCEPT ![s] = "consuming"]
  /\ UNCHANGED <<ready, unacked, acked, dead, lost, lastTag>>

(* basic.cancel from the broker: no more pushes, the channel stays.        *)
Unsubscribed(s) ==
  /\ session[s] = "consuming"
  /\ session' = [session EXCEPT ![s] = "up"]
  /\ UNCHANGED <<ready, unacked, acked, dead, lost, lastTag>>

(* The broker loses the channel and requeues what it had not settled.      *)
Dropped(s) ==
  /\ session[s] # "down"
  /\ session' = [session EXCEPT ![s] = "down"]
  /\ unacked' = unacked \ HeldBy(s)
  /\ ready' = ready \cup MsgsOf(HeldBy(s))
  /\ UNCHANGED <<acked, dead, lost, lastTag>>

(* publishOnce sets no DeliveryMode, so messages are transient: although   *)
(* both queues are durable, a broker restart empties them.                 *)
Persistent == FALSE

Restarted ==
  /\ session' = [s \in Session |-> "down"]
  /\ unacked' = {}
  /\ IF Persistent
       THEN /\ ready' = Outstanding
            /\ UNCHANGED <<dead, lost>>
       ELSE /\ ready' = {}
            /\ dead' = {}
            /\ lost' = lost \cup Outstanding \cup dead
  /\ UNCHANGED <<acked, lastTag>>
=============================================================================
