------------------------------- MODULE Manager -------------------------------
(***************************************************************************)
(* The queue consumer and worker pool of internal/job (manager.go and      *)
(* worker.go), the consumer's queue.Client, and the start and shutdown     *)
(* sequence of cmd/main.go, working against Broker.                        *)
(*                                                                         *)
(* Threads: the main goroutine, the consumer goroutine                     *)
(* (RunQueueConsumer), one goroutine per worker (JobWorker) and the result *)
(* logger.  They share MessageChannel, a Go channel buffered to the number *)
(* of workers, and ResultChannel, which is unbuffered.  What a worker does *)
(* with a payload is reduced to its outcome: "ok" or "failed".             *)
(***************************************************************************)
EXTENDS Broker, Sequences

CONSTANTS
  Workers,          \* worker goroutines
  NoDelivery,       \* "no message": an idle worker, an empty hand
  MinBackoff,       \* minReconnectBackoff, in seconds
  MaxBackoff,       \* maxReconnectBackoff, in seconds
  BrokerMayRestart  \* whether the environment includes broker restarts

ASSUME WorkersAssumption == IsFiniteSet(Workers) /\ Prefetch = Cardinality(Workers)
ASSUME NoDeliveryAssumption == NoDelivery \notin Delivery
ASSUME BackoffAssumption ==
  MinBackoff \in Nat \ {0} /\ MaxBackoff \in Nat /\ MinBackoff <= MaxBackoff
ASSUME BrokerMayRestartAssumption == BrokerMayRestart \in BOOLEAN

VARIABLES
  main,      \* main goroutine, from "running" through shutdown to "exited"
  consumer,  \* where RunQueueConsumer / consumeOnce is
  backoff,   \* RunQueueConsumer's local backoff
  hand,      \* delivery read by consumeOnce, not handed to a worker yet
  cur,       \* the session the client's current channel belongs to
  chan,      \* the client's view of that channel
  inbox,     \* deliveries the amqp library has received and not handed on
  msgChan,   \* MessageChannel
  wpc,       \* where each JobWorker is
  wmsg,      \* the message each JobWorker is working on
  logger,    \* result logger goroutine
  attempts,  \* history: attempts at a message started, per session
  outcomes   \* history: outcomes of the finished attempts at a message

consumerVars == <<consumer, backoff, hand>>
clientVars == <<cur, chan, inbox>>
workerVars == <<msgChan, wpc, wmsg, logger>>
historyVars == <<attempts, outcomes>>
vars == <<brokerVars, main, consumerVars, clientVars, workerVars, historyVars>>

MainStates == {"down", "running", "stopping", "draining", "flushing", "exited"}
ConsumerStates == {"loop", "consume", "receive", "handoff", "backoff", "reconnect", "done"}
ChanStates == {"none", "open", "cancelled", "closed", "released"}
WorkerStates == {"idle", "busy", "ok", "failed", "report", "exited"}

(* The context RunQueueConsumer runs under is cancelled at shutdown.       *)
Cancelled == main # "running"
MessageChannelClosed == main \in {"draining", "flushing", "exited"}
ResultChannelClosed == main \in {"flushing", "exited"}

(* The client can settle on its channel, also when the broker has          *)
(* cancelled the consumer on it.                                           *)
ChanUsable == chan \in {"open", "cancelled"}

(* Bound: the environment disturbs the process (drops, crashes, signals)   *)
(* only while another session may still be opened.                         *)
MayDisturb == cur < MaxSessions

-----------------------------------------------------------------------------
(* Start: connect, declare the topology, start workers, logger, consumer.  *)

(* Wrong on purpose: MessageChannel buffers a single message.              *)
BufferOne == 1

(* MessageChannel buffers as many messages as there are workers.           *)
Buffer == Cardinality(Workers)

(* The memory of a process that has just started, or is gone.              *)
ProcessMemory(pcs, cpc, lpc) ==
  /\ consumer' = cpc
  /\ backoff' = MinBackoff
  /\ hand' = NoDelivery
  /\ inbox' = <<>>
  /\ msgChan' = <<>>
  /\ wpc' = [w \in Workers |-> pcs]
  /\ wmsg' = [w \in Workers |-> NoDelivery]
  /\ logger' = lpc

Init ==
  /\ BrokerInit
  /\ main = "down"
  /\ cur = 0
  /\ chan = "none"
  /\ consumer = "done"
  /\ backoff = MinBackoff
  /\ hand = NoDelivery
  /\ inbox = <<>>
  /\ msgChan = <<>>
  /\ wpc = [w \in Workers |-> "exited"]
  /\ wmsg = [w \in Workers |-> NoDelivery]
  /\ logger = "done"
  /\ attempts = [m \in Msgs |-> [s \in Session |-> 0]]
  /\ outcomes = [m \in Msgs |-> {}]

Boot ==
  /\ main \in {"down", "exited"}
  /\ cur < MaxSessions
  /\ main' = "running"
  /\ cur' = cur + 1
  /\ chan' = "open"
  /\ Opened(cur + 1)
  /\ ProcessMemory("idle", "loop", "running")
  /\ UNCHANGED historyVars

(* The process is killed: everything in memory is lost.                    *)
Crash ==
  /\ MayDisturb
  /\ main \notin {"down", "exited"}
  /\ main' = "down"
  /\ chan' = "none"
  /\ ProcessMemory("exited", "done", "done")
  /\ UNCHANGED <<brokerVars, cur, historyVars>>

-----------------------------------------------------------------------------
(* The environment: publishers, the broker, the connection.                *)

(* The queue is there from the first start on (Declare), and takes         *)
(* messages also from publishers that outlive the process.                 *)
Publish(m) ==
  /\ cur > 0
  /\ Enqueued(m)
  /\ UNCHANGED <<main, consumerVars, clientVars, workerVars, historyVars>>

(* A push reaches the client unless its side of the channel has gone.      *)
Deliver(s, m) ==
  /\ Pushed(s, m)
  /\ inbox' = IF s = cur /\ chan = "open"
                THEN Append(inbox, [session |-> s, tag |-> lastTag[s] + 1, msg |-> m])
                ELSE inbox
  /\ UNCHANGED <<main, consumerVars, cur, chan, workerVars, historyVars>>

(* The broker's side of a channel goes down: a lost connection, or the     *)
(* close of one the client has already left.                               *)
SessionDown(s) ==
  /\ s # cur \/ ~ChanUsable \/ MayDisturb
  /\ Dropped(s)
  /\ UNCHANGED <<main, consumerVars, clientVars, workerVars, historyVars>>

(* The broker cancels the consumer (the queue's node has gone) and leaves  *)
(* the channel open: what was delivered on it stays unacknowledged.        *)
CancelledByBroker ==
  /\ MayDisturb
  /\ chan = "open"
  /\ Unsubscribed(cur)
  /\ chan' = "cancelled"
  /\ UNCHANGED <<main, consumerVars, cur, inbox, workerVars, historyVars>>

(* The client's side notices, before or after the broker's.                *)
ChannelClosed ==
  /\ MayDisturb
  /\ ChanUsable
  /\ chan' = "closed"
  /\ UNCHANGED <<brokerVars, main, consumerVars, cur, inbox, workerVars, historyVars>>

(* A half-open channel is noticed by a missed heartbeat.                   *)
HeartbeatMissed == ChannelClosed /\ session[cur] = "down"

BrokerRestart ==
  /\ BrokerMayRestart
  /\ MayDisturb
  /\ Restarted
  /\ UNCHANGED <<main, consumerVars, clientVars, workerVars, historyVars>>

-----------------------------------------------------------------------------
(* RunQueueConsumer and consumeOnce.                                       *)

(* Wrong on purpose: the outer select of consumeOnce ignores the context.  *)
ConsumerCancelledLate ==
  /\ Cancelled
  /\ consumer \in {"loop", "backoff"}
  /\ consumer' = "done"
  /\ UNCHANGED <<brokerVars, main, backoff, hand, clientVars, workerVars, historyVars>>

(* The places where the consumer looks at its context: the top of the      *)
(* loop, the outer select of consumeOnce, the backoff timer.               *)
ConsumerCancelled ==
  /\ Cancelled
  /\ consumer \in {"loop", "receive", "backoff"}
  /\ consumer' = "done"
  /\ UNCHANGED <<brokerVars, main, backoff, hand, clientVars, workerVars, historyVars>>

ConsumerLoop ==
  /\ ~Cancelled
  /\ consumer = "loop"
  /\ consumer' = "consume"
  /\ UNCHANGED <<brokerVars, main, backoff, hand, clientVars, workerVars, historyVars>>

(* Wrong on purpose: the consumer returns on the first lost connection.    *)
InterruptedForGood == consumer' = "done"

(* Wrong on purpose: it consumes again without having reconnected.         *)
InterruptedNoReconnect == consumer' = IF Cancelled THEN "done" ELSE "loop"

(* consumeOnce has returned: with the context cancelled so does            *)
(* RunQueueConsumer, otherwise it waits before reconnecting.               *)
Interrupted == consumer' = IF Cancelled THEN "done" ELSE "backoff"

ConsumeOk ==
  /\ consumer = "consume"
  /\ chan = "open"
  /\ session[cur] = "up"
  /\ Subscribed(cur)
  /\ consumer' = "receive"
  /\ UNCHANGED <<main, backoff, hand, clientVars, workerVars, historyVars>>

ConsumeFailed ==
  /\ consumer = "consume"
  /\ chan # "open"
  /\ Interrupted
  /\ UNCHANGED <<brokerVars, main, backoff, hand, clientVars, workerVars, historyVars>>

(* The amqp library may still hand on what it had buffered when the        *)
(* channel closed; it may as well drop it and close the Go channel.  After *)
(* a cancel it hands everything on first.                                  *)
ReceiveDelivery ==
  /\ consumer = "receive"
  /\ inbox # <<>>
  /\ hand' = Head(inbox)
  /\ inbox' = Tail(inbox)
  /\ consumer' = "handoff"
  /\ UNCHANGED <<brokerVars, main, backoff, cur, chan, workerVars, historyVars>>

DeliveriesClosed ==
  /\ consumer = "receive"
  /\ ~ChanUsable \/ (chan = "cancelled" /\ inbox = <<>>)
  /\ inbox' = <<>>
  /\ Interrupted
  /\ UNCHANGED <<brokerVars, main, backoff, hand, cur, chan, workerVars, historyVars>>

(* Wrong on purpose: settles on the client's current channel.              *)
AckSessionCurrent(d) == cur

(* deliveryAck settles on the channel the delivery came on.                *)
AckSession(d) == d.session

(* A settlement is written to the delivery's own channel: on a channel the *)
(* client has closed or replaced it fails locally, on one the broker has   *)
(* dropped it goes nowhere.  Every failure is only logged.                 *)
Settle(d, how) ==
  LET s == AckSession(d) IN
  IF s = cur /\ ChanUsable /\ session[s] # "down"
    THEN Settled(s, d.tag, how)
    ELSE UNCHANGED brokerVars

(* Wrong on purpose: confirms the message when it is handed to a worker.   *)
HandoffConfirms ==
  /\ consumer = "handoff"
  /\ Len(msgChan) < Buffer
  /\ Settle(hand, "ack")
  /\ msgChan' = Append(msgChan, hand)
  /\ hand' = NoDelivery
  /\ consumer' = "receive"
  /\ UNCHANGED <<main, backoff, clientVars, wpc, wmsg, logger, historyVars>>

Handoff ==
  /\ consumer = "handoff"
  /\ Len(msgChan) < Buffer
  /\ msgChan' = Append(msgChan, hand)
  /\ hand' = NoDelivery
  /\ consumer' = "receive"
  /\ UNCHANGED <<brokerVars, main, backoff, clientVars, wpc, wmsg, logger, historyVars>>

(* Shutting down before handoff: return the message to the queue.          *)
HandBack ==
  /\ Cancelled
  /\ consumer = "handoff"
  /\ Settle(hand, "requeue")
  /\ hand' = NoDelivery
  /\ consumer' = "done"
  /\ UNCHANGED <<main, backoff, clientVars, workerVars, historyVars>>

BackoffElapsed ==
  /\ consumer = "backoff"
  /\ consumer' = "reconnect"
  /\ UNCHANGED <<brokerVars, main, backoff, hand, clientVars, workerVars, historyVars>>

(* Wrong on purpose: no ceiling.                                           *)
nextBackoffUncapped(current) == 2 * current

nextBackoff(current) == IF 2 * current > MaxBackoff THEN MaxBackoff ELSE 2 * current

ReconnectOk ==
  /\ consumer = "reconnect"
  /\ cur < MaxSessions
  /\ cur' = cur + 1
  /\ chan' = "open"
  /\ inbox' = <<>>
  /\ Opened(cur + 1)
  /\ backoff' = MinBackoff
  /\ consumer' = "loop"
  /\ UNCHANGED <<main, hand, workerVars, historyVars>>

(* The dial fails and leaves no channel, or a declare fails and leaves a   *)
(* closed one.                                                             *)
ReconnectFailed ==
  /\ consumer = "reconnect"
  /\ chan' \in {"none", "closed"}
  /\ inbox' = <<>>
  /\ backoff' = nextBackoff(backoff)
  /\ consumer' = "loop"
  /\ UNCHANGED <<brokerVars, main, hand, cur, workerVars, historyVars>>

-----------------------------------------------------------------------------
(* JobWorker, and the result logger it reports to.                         *)

WorkerReceive(w) ==
  /\ wpc[w] = "idle"
  /\ msgChan # <<>>
  /\ wpc' = [wpc EXCEPT ![w] = "busy"]
  /\ wmsg' = [wmsg EXCEPT ![w] = Head(msgChan)]
  /\ msgChan' = Tail(msgChan)
  /\ attempts' = [attempts EXCEPT ![Head(msgChan).msg][Head(msgChan).session] = @ + 1]
  /\ UNCHANGED <<brokerVars, main, consumerVars, clientVars, logger, outcomes>>

WorkerExit(w) ==
  /\ wpc[w] = "idle"
  /\ msgChan = <<>>
  /\ MessageChannelClosed
  /\ wpc' = [wpc EXCEPT ![w] = "exited"]
  /\ UNCHANGED <<brokerVars, main, consumerVars, clientVars, msgChan, wmsg, logger, historyVars>>

(* processPayload returns, with an error or without one.                   *)
WorkerFinish(w, result) ==
  /\ wpc[w] = "busy"
  /\ wpc' = [wpc EXCEPT ![w] = result]
  /\ outcomes' = [outcomes EXCEPT ![wmsg[w].msg] = @ \cup {result}]
  /\ UNCHANGED <<brokerVars, main, consumerVars, clientVars, msgChan, wmsg, logger, attempts>>

(* Wrong on purpose: a failure is nacked with requeue, or not at all.      *)
WorkerAcknowledgeRequeues(w) ==
  /\ \/ wpc[w] = "ok" /\ Settle(wmsg[w], "ack")
     \/ wpc[w] = "failed" /\ Settle(wmsg[w], "requeue")
  /\ wpc' = [wpc EXCEPT ![w] = "report"]
  /\ wmsg' = [wmsg EXCEPT ![w] = NoDelivery]
  /\ UNCHANGED <<main, consumerVars, clientVars, msgChan, logger, historyVars>>

WorkerAcknowledgeSuccessOnly(w) ==
  /\ \/ wpc[w] = "ok" /\ Settle(wmsg[w], "ack")
     \/ wpc[w] = "failed" /\ UNCHANGED brokerVars
  /\ wpc' = [wpc EXCEPT ![w] = "report"]
  /\ wmsg' = [wmsg EXCEPT ![w] = NoDelivery]
  /\ UNCHANGED <<main, consumerVars, clientVars, msgChan, logger, historyVars>>

(* acknowledge: Ack a success, Nack a failure without requeue.             *)
WorkerAcknowledge(w) ==
  /\ \/ wpc[w] = "ok" /\ Settle(wmsg[w], "ack")
     \/ wpc[w] = "failed" /\ Settle(wmsg[w], "reject")
  /\ wpc' = [wpc EXCEPT ![w] = "report"]
  /\ wmsg' = [wmsg EXCEPT ![w] = NoDelivery]
  /\ UNCHANGED <<main, consumerVars, clientVars, msgChan, logger, historyVars>>

(* ResultChannel is unbuffered: the send completes with the logger.        *)
WorkerReport(w) ==
  /\ wpc[w] = "report"
  /\ logger = "running"
  /\ wpc' = [wpc EXCEPT ![w] = "idle"]
  /\ UNCHANGED <<brokerVars, main, consumerVars, clientVars, msgChan, wmsg, logger, historyVars>>

LoggerExit ==
  /\ logger = "running"
  /\ ResultChannelClosed
  /\ logger' = "done"
  /\ UNCHANGED <<brokerVars, main, consumerVars, clientVars, msgChan, wpc, wmsg, historyVars>>

-----------------------------------------------------------------------------
(* main: cancel the consumer's context, wait for it, then the deferred     *)
(* stop function and the close of the consumer connection.                 *)

(* A signal, or the HTTP server failing.  Bound: it leaves a session for   *)
(* the next start, and one for the reconnect that may be under way.        *)
ShutdownRequested ==
  /\ MayDisturb
  /\ consumer \in {"backoff", "reconnect"} => cur + 1 < MaxSessions
  /\ main = "running"
  /\ main' = "stopping"
  /\ UNCHANGED <<brokerVars, consumerVars, clientVars, workerVars, historyVars>>

(* Wrong on purpose: main does not wait for the consumer, or closes the    *)
(* connection before it stops the workers.                                 *)
CloseMessageChannelEarly ==
  /\ main = "stopping"
  /\ main' = "draining"
  /\ UNCHANGED <<brokerVars, consumerVars, clientVars, workerVars, historyVars>>

CloseMessageChannelAfterClient ==
  /\ main = "stopping"
  /\ consumer = "done"
  /\ main' = "draining"
  /\ chan' = IF ChanUsable THEN "released" ELSE chan
  /\ inbox' = <<>>
  /\ UNCHANGED <<brokerVars, consumerVars, cur, workerVars, historyVars>>

CloseMessageChannel ==
  /\ main = "stopping"
  /\ consumer = "done"
  /\ main' = "draining"
  /\ UNCHANGED <<brokerVars, consumerVars, clientVars, workerVars, historyVars>>

CloseResultChannel ==
  /\ main = "draining"
  /\ \A w \in Workers : wpc[w] = "exited"
  /\ main' = "flushing"
  /\ UNCHANGED <<brokerVars, consumerVars, clientVars, workerVars, historyVars>>

CloseClient ==
  /\ main = "flushing"
  /\ logger = "done"
  /\ main' = "exited"
  /\ chan' = IF ChanUsable THEN "released" ELSE chan
  /\ inbox' = <<>>
  /\ UNCHANGED <<brokerVars, consumerVars, cur, workerVars, historyVars>>

-----------------------------------------------------------------------------

Environment ==
  \/ \E m \in Msgs : Publish(m)
  \/ \E s \in Session, m \in Msgs : Deliver(s, m)
  \/ \E s \in Session : SessionDown(s)
  \/ CancelledByBroker
  \/ ChannelClosed
  \/ BrokerRestart
  \/ Crash

Consumer ==
  \/ ConsumerCancelled \/ ConsumerLoop \/ ConsumeOk \/ ConsumeFailed
  \/ ReceiveDelivery \/ DeliveriesClosed \/ Handoff \/ HandBack
  \/ BackoffElapsed \/ ReconnectOk \/ ReconnectFailed

Worker(w) ==
  \/ WorkerReceive(w) \/ WorkerExit(w)
  \/ \E result \in {"ok", "failed"} : WorkerFinish(w, result)
  \/ WorkerAcknowledge(w) \/ WorkerReport(w)

Main ==
  \/ Boot \/ ShutdownRequested
  \/ CloseMessageChannel \/ CloseResultChannel \/ CloseClient

(* The service waits for work: the only place it may come to rest.         *)
Waiting ==
  /\ main = "running" /\ consumer = "receive" /\ chan = "open"
  /\ Outstanding = {}
  /\ UNCHANGED vars

Next ==
  \/ Environment
  \/ Consumer
  \/ \E w \in Workers : Worker(w)
  \/ LoggerExit
  \/ Main
  \/ Waiting

Spec == Init /\ [][Next]_vars

(***************************************************************************)
(* Fairness.  Go schedules every goroutine that can run; a busy worker     *)
(* returns: PROCESS_TIMEOUT bounds the stages that take its context (the   *)
(* download, the Bento4 tools, the upload), and the database calls and the *)
(* removals of Finish, which take none, are assumed to return; the broker  *)
(* pushes what it holds and, like the client, notices a dead connection by *)
(* its heartbeat; a stopped service is started again.  A dial may fail any *)
(* number of times, but one that is retried for ever succeeds in the end:  *)
(* strong fairness.  Nothing is assumed of publishers, crashes, signals or *)
(* connection losses.                                                      *)
(***************************************************************************)
StaleSessionDown(s) == SessionDown(s) /\ (s # cur \/ ~ChanUsable)

Fairness ==
  /\ WF_vars(Boot)
  /\ WF_vars(HeartbeatMissed)
  /\ \A s \in Session : /\ WF_vars(StaleSessionDown(s))
                       /\ WF_vars(\E m \in Msgs : Deliver(s, m))
  /\ WF_vars(Consumer)
  /\ SF_vars(ReconnectOk)
  /\ \A w \in Workers : WF_vars(Worker(w))
  /\ WF_vars(LoggerExit)
  /\ WF_vars(CloseMessageChannel \/ CloseResultChannel \/ CloseClient)

FairSpec == Spec /\ Fairness

-----------------------------------------------------------------------------
(* Properties.                                                             *)

DeliveryOrNone == Delivery \cup {NoDelivery}

(* Every variable has its type; the backoff of RunQueueConsumer doubles    *)
(* without ever leaving its bounds (nextBackoff).                          *)
TypeOK ==
  /\ ready \subseteq Msgs
  /\ unacked \subseteq Delivery
  /\ acked \subseteq Msgs
  /\ dead \subseteq Msgs
  /\ lost \subseteq Msgs
  /\ session \in [Session -> {"down", "up", "consuming"}]
  /\ lastTag \in [Session -> Nat]
  /\ main \in MainStates
  /\ consumer \in ConsumerStates
  /\ backoff \in MinBackoff..MaxBackoff
  /\ hand \in DeliveryOrNone
  /\ cur \in 0..MaxSessions
  /\ chan \in ChanStates
  /\ inbox \in Seq(Delivery)
  /\ msgChan \in Seq(Delivery)
  /\ wpc \in [Workers -> WorkerStates]
  /\ wmsg \in [Workers -> DeliveryOrNone]
  /\ logger \in {"running", "done"}
  /\ attempts \in [Msgs -> [Session -> Nat]]
  /\ outcomes \in [Msgs -> SUBSET {"ok", "failed"}]

(* A message is confirmed only if some attempt at that very message has    *)
(* succeeded, and dead-lettered only if one has failed, whatever channel   *)
(* the attempt's settlement goes to (worker.go acknowledge, deliveryAck).  *)
SettledByOutcome ==
  /\ \A m \in acked : "ok" \in outcomes[m]
  /\ \A m \in dead : "failed" \in outcomes[m]

(* Work is repeated only across channels: whatever is nacked, requeued or  *)
(* drained at shutdown, a message delivered on one channel is never        *)
(* started twice because of it (consumeOnce, acknowledge).                 *)
AttemptedOncePerSession ==
  \A m \in Msgs, s \in Session : attempts[m][s] <= 1

(* On a live channel the process settles only deliveries the broker still  *)
(* waits for: an unknown tag would make the broker close the channel and   *)
(* redeliver everything in flight (consumeOnce and JobWorker each settle   *)
(* what they hold, once).                                                  *)
TagsKnown ==
  (ChanUsable /\ session[cur] # "down") =>
    /\ \A w \in Workers :
         wmsg[w] # NoDelivery /\ wmsg[w].session = cur => wmsg[w] \in unacked
    /\ hand # NoDelivery /\ hand.session = cur => hand \in unacked

(* No goroutine sends on a channel that has been closed, which would       *)
(* panic: MessageChannel is closed after the consumer has returned,        *)
(* ResultChannel after every worker has (main, Manager.Start's stop).      *)
NoSendOnClosed ==
  /\ MessageChannelClosed => consumer = "done"
  /\ ResultChannelClosed => \A w \in Workers : wpc[w] = "exited"

(* Graceful shutdown: when main closes a connection that was still open,   *)
(* every message a worker had started on it has been settled, so shutdown  *)
(* makes nothing run twice (the order of main's deferred calls).           *)
StartedIsSettledAtClose ==
  chan = "released" =>
    \A d \in HeldBy(cur) : attempts[d.msg][cur] = 0

(* RunQueueConsumer returns only once its context is cancelled: no loss of *)
(* the connection, whenever it happens, leaves a running service without   *)
(* its consumer.                                                           *)
ConsumerRunsUntilCancelled == main = "running" => consumer # "done"

(* With the prefetch equal to the buffer of MessageChannel, handing over a *)
(* delivery can block only behind deliveries of an earlier channel: as     *)
(* long as there are none the consumer is always free to see its channel   *)
(* or its context close (main.go sets q.Prefetch to manager.Workers).      *)
HandoffBlocksOnlyOnStale ==
  (consumer = "handoff" /\ Len(msgChan) = Buffer) =>
    \E i \in 1..Len(msgChan) : msgChan[i].session # hand.session

(* The manager and its broker give publishers AtLeastOnce.                 *)
Promise == INSTANCE AtLeastOnce WITH queued <- Outstanding
ImplementsAtLeastOnce == Promise!Spec

(* Every published message is eventually confirmed or dead-lettered, over  *)
(* connection losses, crashes and shutdowns.                               *)
EventuallySettled ==
  \A m \in Msgs : m \in Published ~> m \in acked \cup dead

(* A requested shutdown ends: no goroutine waits for ever on another       *)
(* (consumerDone, wg.Wait, the result logger's done channel).              *)
ShutdownCompletes == main = "stopping" ~> main \in {"exited", "down"}

(* A consumer that has lost its channel, or that the broker has cancelled, *)
(* is receiving again in the end, unless the process stops first.          *)
ConsumerRecovers ==
  (main = "running" /\ chan # "open") ~>
    (main # "running" \/ (consumer = "receive" /\ chan = "open"))

(* README, "Reliability behavior": failures are routed to the dead-letter  *)
(* queue "instead of being dropped".  Broken by a broker restart, because  *)
(* publishOnce leaves messages transient.                                  *)
NothingDropped == lost = {}
=============================================================================
