---------------------------- MODULE ManagerProofs ----------------------------
(***************************************************************************)
(* Proofs about Manager, for any number of messages, workers and sessions. *)
(***************************************************************************)
EXTENDS Manager, TLAPS

USE PrefetchAssumption, MaxSessionsAssumption, NoDeliveryAssumption, BackoffAssumption

-----------------------------------------------------------------------------
(* Type correctness.                                                       *)

(* The consumer holds a delivery exactly while it waits to hand it over, a *)
(* worker exactly until it has acknowledged it.                            *)
HandsFull ==
  /\ consumer = "handoff" <=> hand # NoDelivery
  /\ \A w \in Workers : wpc[w] \in {"busy", "ok", "failed"} <=> wmsg[w] # NoDelivery

TypeInv == TypeOK /\ HandsFull

(* What the broker does with a settlement keeps its variables typed.       *)
LEMMA SettleType ==
  ASSUME TypeOK, NEW d, NEW how, Settle(d, how)
  PROVE  /\ ready' \subseteq Msgs
         /\ unacked' \subseteq Delivery
         /\ acked' \subseteq Msgs
         /\ dead' \subseteq Msgs
         /\ lost' \subseteq Msgs
         /\ session' \in [Session -> {"down", "up", "consuming"}]
         /\ lastTag' \in [Session -> Nat]
<1>1. MsgsOf(Tagged(d.session, d.tag)) \subseteq Msgs
  BY DEF TypeOK, MsgsOf, Tagged, Delivery
<1>2. CASE Settled(d.session, d.tag, how)
  BY <1>1, <1>2 DEF TypeOK, Settled
<1>3. CASE UNCHANGED brokerVars
  BY <1>3 DEF TypeOK, brokerVars
<1>4. QED
  BY <1>2, <1>3 DEF Settle, AckSession

(* RunQueueConsumer's backoff stays between its bounds.                    *)
LEMMA BackoffInRange ==
  ASSUME NEW b \in MinBackoff..MaxBackoff
  PROVE  nextBackoff(b) \in MinBackoff..MaxBackoff
BY DEF nextBackoff

LEMMA InitType == Init => TypeInv
BY DEF Init, TypeInv, HandsFull, TypeOK, BrokerInit, MainStates, ConsumerStates, ChanStates, WorkerStates,
       DeliveryOrNone

LEMMA EnvironmentType == TypeInv /\ Environment => TypeInv'
<1> SUFFICES ASSUME TypeInv, Environment PROVE TypeInv'
  OBVIOUS
<1> USE DEF TypeInv, TypeOK, HandsFull, DeliveryOrNone, vars, consumerVars, clientVars, workerVars, historyVars
<1>1. ASSUME NEW m \in Msgs, Publish(m) PROVE TypeInv'
  BY <1>1 DEF Publish, Enqueued
<1>2. ASSUME NEW s \in Session, NEW m \in Msgs, Deliver(s, m) PROVE TypeInv'
  <2>1. [session |-> s, tag |-> lastTag[s] + 1, msg |-> m] \in Delivery
    BY DEF Delivery
  <2>2. inbox' \in Seq(Delivery)
    BY <1>2, <2>1 DEF Deliver
  <2>3. QED
    BY <1>2, <2>1, <2>2 DEF Deliver, Pushed
<1>3. ASSUME NEW s \in Session, SessionDown(s) PROVE TypeInv'
  BY <1>3 DEF SessionDown, Dropped, MsgsOf, HeldBy, Delivery
<1>4. CASE ChannelClosed \/ CancelledByBroker
  BY <1>4 DEF ChannelClosed, CancelledByBroker, Unsubscribed, brokerVars, ChanStates
<1>5. CASE BrokerRestart
  BY <1>5 DEF BrokerRestart, Restarted, Outstanding, Delivery
<1>6. CASE Crash
  BY <1>6 DEF Crash, ProcessMemory, brokerVars, MainStates, ConsumerStates, ChanStates, WorkerStates
<1>7. QED
  BY <1>1, <1>2, <1>3, <1>4, <1>5, <1>6 DEF Environment

LEMMA ConsumerType == TypeInv /\ Consumer => TypeInv'
<1> SUFFICES ASSUME TypeInv, Consumer PROVE TypeInv'
  OBVIOUS
<1> USE DEF TypeInv, TypeOK, HandsFull, DeliveryOrNone, consumerVars, clientVars, workerVars, historyVars,
            ConsumerStates, ChanStates
<1>1. CASE ConsumerCancelled
  BY <1>1 DEF ConsumerCancelled, brokerVars
<1>2. CASE ConsumerLoop
  BY <1>2 DEF ConsumerLoop, brokerVars
<1>3. CASE ConsumeOk
  BY <1>3 DEF ConsumeOk, Subscribed
<1>4. CASE ConsumeFailed
  BY <1>4 DEF ConsumeFailed, Interrupted, brokerVars
<1>5. CASE ReceiveDelivery
  <2>1. Head(inbox) \in Delivery /\ Tail(inbox) \in Seq(Delivery)
    BY <1>5 DEF ReceiveDelivery
  <2>2. QED
    BY <1>5, <2>1 DEF ReceiveDelivery, brokerVars
<1>6. CASE DeliveriesClosed
  BY <1>6 DEF DeliveriesClosed, Interrupted, brokerVars
<1>7. CASE Handoff
  <2>1. hand # NoDelivery
    BY <1>7 DEF Handoff
  <2>2. msgChan' \in Seq(Delivery)
    BY <1>7, <2>1 DEF Handoff
  <2>3. QED
    BY <1>7, <2>2 DEF Handoff, brokerVars
<1>8. CASE HandBack
  <2>1. /\ ready' \subseteq Msgs /\ unacked' \subseteq Delivery
        /\ acked' \subseteq Msgs /\ dead' \subseteq Msgs /\ lost' \subseteq Msgs
        /\ session' \in [Session -> {"down", "up", "consuming"}]
        /\ lastTag' \in [Session -> Nat]
    BY <1>8, SettleType DEF HandBack
  <2>2. QED
    BY <1>8, <2>1 DEF HandBack
<1>9. CASE BackoffElapsed
  BY <1>9 DEF BackoffElapsed, brokerVars
<1>10. CASE ReconnectOk
  BY <1>10 DEF ReconnectOk, Opened, Session
<1>11. CASE ReconnectFailed
  BY <1>11, BackoffInRange DEF ReconnectFailed, brokerVars
<1>12. QED
  BY <1>1, <1>2, <1>3, <1>4, <1>5, <1>6, <1>7, <1>8, <1>9, <1>10, <1>11 DEF Consumer

LEMMA WorkerType == \A w \in Workers : TypeInv /\ Worker(w) => TypeInv'
<1> SUFFICES ASSUME NEW w \in Workers, TypeInv, Worker(w) PROVE TypeInv'
  OBVIOUS
<1> USE DEF TypeInv, TypeOK, HandsFull, DeliveryOrNone, consumerVars, clientVars, historyVars,
            WorkerStates
<1>1. CASE WorkerReceive(w)
  <2>1. Head(msgChan) \in Delivery /\ Tail(msgChan) \in Seq(Delivery)
    BY <1>1 DEF WorkerReceive
  <2>2. Head(msgChan) # NoDelivery
    BY <2>1
  <2>3. Head(msgChan).msg \in Msgs /\ Head(msgChan).session \in Session
    BY <2>1 DEF Delivery
  <2>4. attempts' \in [Msgs -> [Session -> Nat]]
    BY <1>1, <2>3 DEF WorkerReceive
  <2>5. wpc' = [wpc EXCEPT ![w] = "busy"] /\ wmsg' = [wmsg EXCEPT ![w] = Head(msgChan)]
    BY <1>1 DEF WorkerReceive
  <2>6. HandsFull'
    BY <1>1, <2>2, <2>5 DEF WorkerReceive
  <2>7. QED
    BY <1>1, <2>1, <2>4, <2>6 DEF WorkerReceive, brokerVars
<1>2. CASE WorkerExit(w)
  BY <1>2 DEF WorkerExit, brokerVars
<1>3. ASSUME NEW result \in {"ok", "failed"}, WorkerFinish(w, result) PROVE TypeInv'
  BY <1>3 DEF WorkerFinish, brokerVars
<1>4. CASE WorkerAcknowledge(w)
  <2>1. /\ ready' \subseteq Msgs /\ unacked' \subseteq Delivery
        /\ acked' \subseteq Msgs /\ dead' \subseteq Msgs /\ lost' \subseteq Msgs
        /\ session' \in [Session -> {"down", "up", "consuming"}]
        /\ lastTag' \in [Session -> Nat]
    BY <1>4, SettleType DEF WorkerAcknowledge
  <2>2. QED
    BY <1>4, <2>1 DEF WorkerAcknowledge
<1>5. CASE WorkerReport(w)
  BY <1>5 DEF WorkerReport, brokerVars
<1>6. QED
  BY <1>1, <1>2, <1>3, <1>4, <1>5 DEF Worker

LEMMA MainType == TypeInv /\ (Main \/ LoggerExit \/ Waiting) => TypeInv'
<1> SUFFICES ASSUME TypeInv, Main \/ LoggerExit \/ Waiting PROVE TypeInv'
  OBVIOUS
<1> USE DEF TypeInv, TypeOK, HandsFull, DeliveryOrNone, vars, consumerVars, clientVars,
            workerVars, historyVars, MainStates, ChanStates
<1>1. CASE Boot
  BY <1>1 DEF Boot, Opened, ProcessMemory, Session, ConsumerStates, WorkerStates
<1>2. CASE ShutdownRequested
  BY <1>2 DEF ShutdownRequested, brokerVars
<1>3. CASE CloseMessageChannel
  BY <1>3 DEF CloseMessageChannel, brokerVars
<1>4. CASE CloseResultChannel
  BY <1>4 DEF CloseResultChannel, brokerVars
<1>5. CASE CloseClient
  BY <1>5 DEF CloseClient, brokerVars
<1>6. CASE LoggerExit
  BY <1>6 DEF LoggerExit, brokerVars
<1>7. CASE Waiting
  BY <1>7 DEF Waiting, brokerVars
<1>8. QED
  BY <1>1, <1>2, <1>3, <1>4, <1>5, <1>6, <1>7 DEF Main

LEMMA TypeStep == TypeInv /\ [Next]_vars => TypeInv'
<1>1. TypeInv /\ UNCHANGED vars => TypeInv'
  BY DEF TypeInv, TypeOK, HandsFull, vars, brokerVars, consumerVars, clientVars, workerVars,
         historyVars
<1>2. QED
  BY <1>1, EnvironmentType, ConsumerType, WorkerType, MainType DEF Next

(* Every reachable state has its type, for any number of messages, workers *)
(* and sessions and any backoff bounds (RunQueueConsumer, nextBackoff).    *)
THEOREM TypeCorrect == Spec => []TypeOK
<1>1. Spec => []TypeInv
  BY InitType, TypeStep, PTL DEF Spec
<1>2. TypeInv => TypeOK
  BY DEF TypeInv
<1>3. QED
  BY <1>1, <1>2, PTL

-----------------------------------------------------------------------------
(* No goroutine sends on a closed channel.                                 *)

LEMMA ShutdownStep == TypeInv /\ NoSendOnClosed /\ [Next]_vars => NoSendOnClosed'
<1> SUFFICES ASSUME TypeInv, NoSendOnClosed, [Next]_vars PROVE NoSendOnClosed'
  OBVIOUS
<1> USE DEF TypeInv, TypeOK, NoSendOnClosed, MessageChannelClosed, ResultChannelClosed
<1>1. CASE UNCHANGED vars
  BY <1>1 DEF vars, consumerVars, workerVars
<1>2. CASE Environment
  BY <1>2 DEF Environment, Publish, Deliver, SessionDown, ChannelClosed, CancelledByBroker,
              BrokerRestart, Crash,
              consumerVars, workerVars
<1>3. CASE Consumer
  BY <1>3 DEF Consumer, ConsumerCancelled, ConsumerLoop, ConsumeOk, ConsumeFailed,
              ReceiveDelivery, DeliveriesClosed, Handoff, HandBack, BackoffElapsed, ReconnectOk,
              ReconnectFailed, Interrupted, workerVars
<1>4. ASSUME NEW w \in Workers, Worker(w) PROVE NoSendOnClosed'
  BY <1>4 DEF Worker, WorkerReceive, WorkerExit, WorkerFinish, WorkerAcknowledge, WorkerReport,
              consumerVars
<1>5. CASE LoggerExit
  BY <1>5 DEF LoggerExit, consumerVars
<1>6. CASE Main
  BY <1>6 DEF Main, Boot, ShutdownRequested, CloseMessageChannel, CloseResultChannel,
              CloseClient, MainStates, consumerVars, workerVars
<1>7. CASE Waiting
  BY <1>1, <1>7 DEF Waiting
<1>8. QED
  BY <1>1, <1>2, <1>3, <1>4, <1>5, <1>6, <1>7 DEF Next

(* MessageChannel is closed only after the consumer has returned and       *)
(* ResultChannel only after every worker has, so that no goroutine panics  *)
(* sending on a closed channel, however many workers there are (main and   *)
(* the stop function of Manager.Start).                                    *)
THEOREM ClosedInOrder == Spec => []NoSendOnClosed
<1>1. Init => NoSendOnClosed
  BY DEF Init, NoSendOnClosed, MessageChannelClosed, ResultChannelClosed
<1>2. QED
  BY <1>1, InitType, TypeStep, ShutdownStep, PTL DEF Spec

LEMMA ConsumerStays == ConsumerRunsUntilCancelled /\ [Next]_vars => ConsumerRunsUntilCancelled'
<1> SUFFICES ASSUME ConsumerRunsUntilCancelled, [Next]_vars PROVE ConsumerRunsUntilCancelled'
  OBVIOUS
<1> USE DEF ConsumerRunsUntilCancelled, Cancelled, consumerVars, vars
<1>1. CASE Environment
  BY <1>1 DEF Environment, Publish, Deliver, SessionDown, ChannelClosed, CancelledByBroker,
              BrokerRestart, Crash
<1>2. CASE Consumer
  BY <1>2 DEF Consumer, ConsumerCancelled, ConsumerLoop, Interrupted, ConsumeOk, ConsumeFailed,
              ReceiveDelivery, DeliveriesClosed, Handoff, HandBack, BackoffElapsed, ReconnectOk,
              ReconnectFailed
<1>3. ASSUME NEW w \in Workers, Worker(w) PROVE ConsumerRunsUntilCancelled'
  BY <1>3 DEF Worker, WorkerReceive, WorkerExit, WorkerFinish, WorkerAcknowledge, WorkerReport
<1>4. CASE Main
  BY <1>4 DEF Main, Boot, ProcessMemory, ShutdownRequested, CloseMessageChannel, CloseResultChannel,
              CloseClient
<1>5. CASE LoggerExit \/ Waiting \/ UNCHANGED vars
  BY <1>5 DEF LoggerExit, Waiting
<1>6. QED
  BY <1>1, <1>2, <1>3, <1>4, <1>5 DEF Next

(* However often and wherever the connection is lost, RunQueueConsumer     *)
(* returns only after its context has been cancelled.                      *)
THEOREM ConsumerOutlivesConnections == Spec => []ConsumerRunsUntilCancelled
<1>1. Init => ConsumerRunsUntilCancelled
  BY DEF Init, ConsumerRunsUntilCancelled
<1>2. QED
  BY <1>1, ConsumerStays, PTL DEF Spec
-----------------------------------------------------------------------------
(* The inductive invariant: what the process holds and what the broker     *)
(* waits for agree.                                                        *)

(* Deliveries anywhere in the process: buffered by the amqp library, in    *)
(* the consumer's hand, in MessageChannel, or with a worker.               *)
InProcess == {d \in Delivery :
  \/ \E i \in 1..Len(inbox) : d = inbox[i]
  \/ \E i \in 1..Len(msgChan) : d = msgChan[i]
  \/ d = hand
  \/ \E w \in Workers : d = wmsg[w]}

Known == unacked \cup InProcess

(* A (session, tag) pair stands for one delivery.                          *)
TagInv ==
  /\ \A d \in Known : d.tag \in 1..lastTag[d.session]
  /\ \A d, e \in Known : d.session = e.session /\ d.tag = e.tag => d = e

(* The broker keeps one copy of a message, and the process only messages   *)
(* that were published.                                                    *)
CopyInv ==
  /\ ready \cap MsgsOf(unacked) = {}
  /\ \A d, e \in unacked : d.msg = e.msg => d = e
  /\ \A d \in InProcess : d.msg \in Published
  /\ ~BrokerMayRestart => lost = {}

(* What a worker is about to report has been recorded.                     *)
OutcomeInv ==
  /\ \A w \in Workers : wpc[w] \in {"ok", "failed"} => wpc[w] \in outcomes[wmsg[w].msg]
  /\ SettledByOutcome

IInv == TypeInv /\ TagInv /\ CopyInv /\ OutcomeInv

LEMMA InitIInv == Init => IInv
<1> SUFFICES ASSUME Init PROVE IInv
  OBVIOUS
<1>1. TypeInv
  BY InitType
<1>2. Known = {}
  BY DEF Init, BrokerInit, Known, InProcess
<1>3. QED
  BY <1>1, <1>2 DEF Init, BrokerInit, IInv, TagInv, CopyInv, OutcomeInv, SettledByOutcome,
                    MsgsOf, Known

-----------------------------------------------------------------------------
(* Where deliveries come from: only a push makes a new one.                *)

LEMMA TailElements ==
  ASSUME NEW S, NEW q \in Seq(S), q # <<>>
  PROVE  \A i \in 1..Len(Tail(q)) : \E j \in 1..Len(q) : Tail(q)[i] = q[j]
OBVIOUS

LEMMA AppendElements ==
  ASSUME NEW S, NEW q \in Seq(S), NEW x \in S
  PROVE  \A i \in 1..Len(Append(q, x)) :
           Append(q, x)[i] = x \/ \E j \in 1..Len(q) : Append(q, x)[i] = q[j]
OBVIOUS

LEMMA KnownAfterDeliver ==
  ASSUME TypeInv, NEW s \in Session, NEW m \in Msgs, Deliver(s, m)
  PROVE  Known' \subseteq Known \cup {[session |-> s, tag |-> lastTag[s] + 1, msg |-> m]}
<1> DEFINE new == [session |-> s, tag |-> lastTag[s] + 1, msg |-> m]
<1>1. new \in Delivery
  BY DEF TypeInv, TypeOK, Delivery
<1>2. \A i \in 1..Len(inbox') : inbox'[i] = new \/ \E j \in 1..Len(inbox) : inbox'[i] = inbox[j]
  BY <1>1, AppendElements DEF Deliver, TypeInv, TypeOK
<1>3. unacked' = unacked \cup {new}
  BY DEF Deliver, Pushed
<1>4. UNCHANGED <<hand, msgChan, wmsg>>
  BY DEF Deliver, consumerVars, workerVars
<1>5. QED
  BY <1>2, <1>3, <1>4 DEF Known, InProcess

LEMMA SettleShrinks ==
  ASSUME NEW d, NEW how, Settle(d, how)
  PROVE  unacked' \subseteq unacked /\ lastTag' = lastTag
BY DEF Settle, Settled, brokerVars

LEMMA KnownAfterOthers ==
  ASSUME TypeInv, [Next]_vars, \A s \in Session, m \in Msgs : ~Deliver(s, m)
  PROVE  unacked' \subseteq unacked /\ lastTag' = lastTag /\ InProcess' \subseteq InProcess
<1> DEFINE Goal == unacked' \subseteq unacked /\ lastTag' = lastTag
                   /\ InProcess' \subseteq InProcess
           Memory == UNCHANGED <<inbox, msgChan, hand, wmsg>>
<1> USE DEF consumerVars, clientVars, workerVars
<1>1. ASSUME unacked' \subseteq unacked, lastTag' = lastTag, Memory PROVE Goal
  BY <1>1 DEF InProcess
<1>2. ASSUME unacked' \subseteq unacked, lastTag' = lastTag, UNCHANGED <<msgChan, wmsg>>,
             hand' \in {hand, NoDelivery}, inbox' \in {inbox, <<>>}
      PROVE  Goal
  BY <1>2, NoDeliveryAssumption DEF InProcess
<1>3. CASE UNCHANGED vars
  BY <1>1, <1>3 DEF vars, brokerVars
<1>4. CASE Environment
  <2>1. ASSUME NEW m \in Msgs, Publish(m) PROVE Goal
    BY <1>1, <2>1 DEF Publish, Enqueued
  <2>2. ASSUME NEW s \in Session, SessionDown(s) PROVE Goal
    BY <1>1, <2>2 DEF SessionDown, Dropped
  <2>3. CASE ChannelClosed \/ CancelledByBroker
    BY <1>1, <2>3 DEF ChannelClosed, CancelledByBroker, Unsubscribed, brokerVars
  <2>4. CASE BrokerRestart
    BY <1>1, <2>4 DEF BrokerRestart, Restarted
  <2>5. CASE Crash
    BY <2>5, NoDeliveryAssumption DEF Crash, ProcessMemory, brokerVars, InProcess
  <2>6. QED
    BY <1>4, <2>1, <2>2, <2>3, <2>4, <2>5 DEF Environment
<1>5. CASE Consumer
  <2>1. CASE ConsumerCancelled \/ ConsumerLoop \/ ConsumeFailed \/ BackoffElapsed
    BY <1>1, <2>1 DEF ConsumerCancelled, ConsumerLoop, ConsumeFailed, BackoffElapsed, brokerVars
  <2>2. CASE ConsumeOk
    BY <1>1, <2>2 DEF ConsumeOk, Subscribed
  <2>3. CASE ReceiveDelivery
    <3>1. \A i \in 1..Len(inbox') : \E j \in 1..Len(inbox) : inbox'[i] = inbox[j]
      BY <2>3, TailElements DEF ReceiveDelivery, TypeInv, TypeOK
    <3>2. hand' = inbox[1] /\ 1 \in 1..Len(inbox)
      BY <2>3 DEF ReceiveDelivery, TypeInv, TypeOK
    <3>3. QED
      BY <2>3, <3>1, <3>2 DEF ReceiveDelivery, brokerVars, InProcess
  <2>4. CASE DeliveriesClosed \/ ReconnectFailed
    BY <1>2, <2>4 DEF DeliveriesClosed, ReconnectFailed, brokerVars
  <2>5. CASE ReconnectOk
    BY <1>2, <2>5 DEF ReconnectOk, Opened
  <2>6. CASE Handoff
    <3>1. hand \in Delivery
      BY <2>6 DEF Handoff, TypeInv, TypeOK, HandsFull, DeliveryOrNone
    <3>2. \A i \in 1..Len(msgChan') :
            msgChan'[i] = hand \/ \E j \in 1..Len(msgChan) : msgChan'[i] = msgChan[j]
      BY <2>6, <3>1, AppendElements DEF Handoff, TypeInv, TypeOK
    <3>3. QED
      BY <2>6, <3>2, NoDeliveryAssumption DEF Handoff, brokerVars, InProcess
  <2>7. CASE HandBack
    BY <1>2, <2>7, SettleShrinks DEF HandBack
  <2>8. QED
    BY <1>5, <2>1, <2>2, <2>3, <2>4, <2>5, <2>6, <2>7 DEF Consumer
<1>6. ASSUME NEW w \in Workers, Worker(w) PROVE Goal
  <2>1. CASE WorkerReceive(w)
    <3>1. \A i \in 1..Len(msgChan') : \E j \in 1..Len(msgChan) : msgChan'[i] = msgChan[j]
      BY <2>1, TailElements DEF WorkerReceive, TypeInv, TypeOK
    <3>2. Head(msgChan) = msgChan[1] /\ 1 \in 1..Len(msgChan)
      BY <2>1 DEF WorkerReceive, TypeInv, TypeOK
    <3>3. \A v \in Workers : wmsg'[v] = msgChan[1] \/ wmsg'[v] = wmsg[v]
      BY <2>1, <3>2 DEF WorkerReceive, TypeInv, TypeOK
    <3>4. UNCHANGED <<unacked, lastTag, inbox, hand>>
      BY <2>1 DEF WorkerReceive, brokerVars
    <3>5. InProcess' \subseteq InProcess
      BY <3>1, <3>2, <3>3, <3>4 DEF InProcess
    <3>6. QED
      BY <3>4, <3>5
  <2>2. CASE WorkerExit(w) \/ WorkerReport(w)
    BY <1>1, <2>2 DEF WorkerExit, WorkerReport, brokerVars
  <2>3. ASSUME NEW result \in {"ok", "failed"}, WorkerFinish(w, result) PROVE Goal
    BY <1>1, <2>3 DEF WorkerFinish, brokerVars
  <2>4. CASE WorkerAcknowledge(w)
    <3>1. unacked' \subseteq unacked /\ lastTag' = lastTag
      BY <2>4, SettleShrinks DEF WorkerAcknowledge
    <3>2. \A v \in Workers : wmsg'[v] = NoDelivery \/ wmsg'[v] = wmsg[v]
      BY <2>4 DEF WorkerAcknowledge, TypeInv, TypeOK
    <3>3. QED
      BY <2>4, <3>1, <3>2, NoDeliveryAssumption DEF WorkerAcknowledge, InProcess
  <2>5. QED
    BY <1>6, <2>1, <2>2, <2>3, <2>4 DEF Worker
<1>7. CASE Main
  <2>1. CASE Boot
    BY <2>1, NoDeliveryAssumption DEF Boot, Opened, ProcessMemory, InProcess
  <2>2. CASE ShutdownRequested \/ CloseMessageChannel \/ CloseResultChannel
    BY <1>1, <2>2 DEF ShutdownRequested, CloseMessageChannel, CloseResultChannel, brokerVars
  <2>3. CASE CloseClient
    BY <1>2, <2>3 DEF CloseClient, brokerVars
  <2>4. QED
    BY <1>7, <2>1, <2>2, <2>3 DEF Main
<1>8. CASE LoggerExit
  BY <1>1, <1>8 DEF LoggerExit, brokerVars
<1>9. CASE Waiting
  BY <1>3, <1>9 DEF Waiting
<1>10. QED
  BY <1>3, <1>4, <1>5, <1>6, <1>7, <1>8, <1>9 DEF Next, Environment

LEMMA TagStep == TypeInv /\ TagInv /\ [Next]_vars => TagInv'
<1> SUFFICES ASSUME TypeInv, TagInv, [Next]_vars PROVE TagInv'
  OBVIOUS
<1>1. ASSUME NEW s \in Session, NEW m \in Msgs, Deliver(s, m) PROVE TagInv'
  <2> DEFINE new == [session |-> s, tag |-> lastTag[s] + 1, msg |-> m]
  <2>1. Known' \subseteq Known \cup {new}
    BY <1>1, KnownAfterDeliver
  <2>2. lastTag' = [lastTag EXCEPT ![s] = @ + 1] /\ lastTag \in [Session -> Nat]
    BY <1>1 DEF Deliver, Pushed, TypeInv, TypeOK
  <2>3. \A d \in Known : d.session \in Session /\ d.tag \in Nat
    BY DEF Known, InProcess, TypeInv, TypeOK, Delivery
  <2>4. \A d \in Known : d.session = s => d.tag <= lastTag[s]
    BY <2>2, <2>3 DEF TagInv
  <2>5. \A d \in Known' : d.tag \in 1..lastTag'[d.session]
    BY <2>1, <2>2, <2>3 DEF TagInv
  <2>6. \A d, e \in Known' : d.session = e.session /\ d.tag = e.tag => d = e
    BY <2>1, <2>2, <2>3, <2>4 DEF TagInv
  <2>7. QED
    BY <2>5, <2>6 DEF TagInv
<1>2. CASE \A s \in Session, m \in Msgs : ~Deliver(s, m)
  BY <1>2, KnownAfterOthers DEF TagInv, Known
<1>3. QED
  BY <1>1, <1>2

-----------------------------------------------------------------------------
(* Messages: one copy at the broker, none in the process that the broker   *)
(* never saw.                                                              *)

(* A settlement reaches the one delivery it is meant for, or nothing.      *)
LEMMA SettleEffect ==
  ASSUME TypeInv, TagInv, CopyInv, NEW d \in InProcess, NEW how, Settle(d, how)
  PROVE  \/ UNCHANGED brokerVars
         \/ /\ d \in unacked
            /\ unacked' = unacked \ {d}
            /\ acked' = IF how = "ack" THEN acked \cup {d.msg} ELSE acked
            /\ dead' = IF how = "reject" THEN dead \cup {d.msg} ELSE dead
            /\ ready' = IF how = "requeue" THEN ready \cup {d.msg} ELSE ready
            /\ how \in {"ack", "reject", "requeue"}
            /\ UNCHANGED <<lost, session, lastTag>>
<1>1. CASE UNCHANGED brokerVars
  BY <1>1
<1>2. CASE Settled(d.session, d.tag, how)
  <2>1. CASE d \in unacked
    <3>1. Tagged(d.session, d.tag) = {d}
      BY <2>1 DEF Tagged, TagInv, Known
    <3>2. MsgsOf(Tagged(d.session, d.tag)) = {d.msg}
      BY <3>1 DEF MsgsOf
    <3>3. QED
      BY <1>2, <2>1, <3>1, <3>2 DEF Settled
  <2>2. CASE d \notin unacked
    <3>1. Tagged(d.session, d.tag) = {}
      BY <2>2 DEF Tagged, TagInv, Known
    <3>2. MsgsOf(Tagged(d.session, d.tag)) = {}
      BY <3>1 DEF MsgsOf
    <3>3. QED
      BY <1>2, <3>1, <3>2 DEF Settled, brokerVars
  <2>3. QED
    BY <2>1, <2>2
<1>3. QED
  BY <1>1, <1>2 DEF Settle, AckSession

(* What one settlement does to the broker's messages.                      *)
LEMMA SettleMsgs ==
  ASSUME TypeInv, TagInv, CopyInv, NEW d \in InProcess, NEW how, Settle(d, how)
  PROVE  /\ ready' \cap MsgsOf(unacked') = {}
         /\ \A e, f \in unacked' : e.msg = f.msg => e = f
         /\ Published' = Published
         /\ lost' = lost
<1>1. CASE UNCHANGED brokerVars
  BY <1>1 DEF brokerVars, CopyInv, MsgsOf, Published, Outstanding
<1>2. CASE ~UNCHANGED brokerVars
  <2>1. /\ d \in unacked
        /\ unacked' = unacked \ {d}
        /\ acked' = IF how = "ack" THEN acked \cup {d.msg} ELSE acked
        /\ dead' = IF how = "reject" THEN dead \cup {d.msg} ELSE dead
        /\ ready' = IF how = "requeue" THEN ready \cup {d.msg} ELSE ready
        /\ how \in {"ack", "reject", "requeue"}
        /\ lost' = lost
    BY <1>2, SettleEffect
  <2>2. \A e, f \in unacked' : e.msg = f.msg => e = f
    BY <2>1 DEF CopyInv
  <2>3. ready' \cap MsgsOf(unacked') = {}
    BY <2>1 DEF CopyInv, MsgsOf
  <2>4. Published' = Published
    BY <2>1 DEF Published, Outstanding
  <2>5. QED
    BY <2>1, <2>2, <2>3, <2>4
<1>3. QED
  BY <1>1, <1>2

LEMMA HandKnown == TypeInv /\ HandBack => hand \in InProcess
BY DEF TypeInv, TypeOK, HandsFull, DeliveryOrNone, HandBack, InProcess

LEMMA WorkerKnown ==
  ASSUME TypeInv, NEW w \in Workers, wpc[w] \in {"busy", "ok", "failed"}
  PROVE  wmsg[w] \in InProcess
BY DEF TypeInv, TypeOK, HandsFull, DeliveryOrNone, InProcess

LEMMA CopyStep == TypeInv /\ TagInv /\ CopyInv /\ [Next]_vars => CopyInv'
<1> SUFFICES ASSUME TypeInv, TagInv, CopyInv, [Next]_vars PROVE CopyInv'
  OBVIOUS
<1> DEFINE OneCopy == /\ ready \cap MsgsOf(unacked) = {}
                      /\ \A d, e \in unacked : d.msg = e.msg => d = e
                      /\ ~BrokerMayRestart => lost = {}
<1>1. ASSUME NEW s \in Session, NEW m \in Msgs, Deliver(s, m) PROVE CopyInv'
  <2> DEFINE new == [session |-> s, tag |-> lastTag[s] + 1, msg |-> m]
  <2>1. /\ m \in ready /\ ready' = ready \ {m} /\ unacked' = unacked \cup {new}
        /\ UNCHANGED <<acked, dead, lost>>
    BY <1>1 DEF Deliver, Pushed
  <2>2. OneCopy'
    BY <2>1 DEF CopyInv, MsgsOf
  <2>3. Published' = Published
    <3> new.msg = m
      OBVIOUS
    <3> HIDE DEF new
    <3>1. {d.msg : d \in unacked \cup {new}} = {d.msg : d \in unacked} \cup {m}
      OBVIOUS
    <3>2. Outstanding' = Outstanding
      BY <2>1, <3>1 DEF Outstanding
    <3>3. QED
      BY <2>1, <3>2 DEF Published
  <2>4. Known' \subseteq Known \cup {new}
    BY <1>1, KnownAfterDeliver
  <2>5. \A d \in Known : d.msg \in Published
    BY DEF Known, CopyInv, Published, Outstanding
  <2>6. \A d \in InProcess' : d.msg \in Published'
    BY <2>1, <2>3, <2>4, <2>5 DEF Known, Published, Outstanding
  <2>7. QED
    BY <2>2, <2>6 DEF CopyInv
<1>2. CASE \A s \in Session, m \in Msgs : ~Deliver(s, m)
  <2>1. InProcess' \subseteq InProcess
    BY <1>2, KnownAfterOthers
  <2>2. ASSUME OneCopy', Published \subseteq Published' PROVE CopyInv'
    BY <2>1, <2>2 DEF CopyInv
  <2>3. ASSUME UNCHANGED <<ready, unacked, acked, dead, lost>> PROVE CopyInv'
    <3>1. OneCopy' /\ Published' = Published
      BY <2>3 DEF CopyInv, MsgsOf, Published, Outstanding
    <3>2. QED
      BY <2>2, <3>1
  <2>4. CASE UNCHANGED vars
    BY <2>3, <2>4 DEF vars, brokerVars
  <2>5. CASE Environment
    <3>1. ASSUME NEW m \in Msgs, Publish(m) PROVE CopyInv'
      <4>1. /\ m \notin Published /\ ready' = ready \cup {m}
            /\ UNCHANGED <<unacked, acked, dead, lost>>
        BY <3>1 DEF Publish, Enqueued
      <4>2. OneCopy'
        BY <4>1 DEF CopyInv, MsgsOf, Published, Outstanding
      <4>3. QED
        BY <2>2, <4>1, <4>2 DEF Published, Outstanding
    <3>2. ASSUME NEW s \in Session, SessionDown(s) PROVE CopyInv'
      <4>1. /\ unacked' = unacked \ HeldBy(s) /\ ready' = ready \cup MsgsOf(HeldBy(s))
            /\ UNCHANGED <<acked, dead, lost>>
        BY <3>2 DEF SessionDown, Dropped
      <4>2. OneCopy'
        BY <4>1 DEF CopyInv, MsgsOf, HeldBy
      <4>3. HeldBy(s) \subseteq unacked
        BY DEF HeldBy
      <4>4. Outstanding' = Outstanding
        BY <4>1, <4>3 DEF Outstanding, MsgsOf
      <4>5. Published' = Published
        BY <4>1, <4>4 DEF Published
      <4>6. QED
        BY <2>2, <4>2, <4>5
    <3>3. CASE ChannelClosed \/ CancelledByBroker
      BY <2>3, <3>3 DEF ChannelClosed, CancelledByBroker, Unsubscribed, brokerVars
    <3>4. CASE BrokerRestart
      <4>1. /\ BrokerMayRestart /\ unacked' = {} /\ acked' = acked
            /\ \/ ready' = Outstanding /\ UNCHANGED <<dead, lost>>
               \/ ready' = {} /\ dead' = {} /\ lost' = lost \cup Outstanding \cup dead
        BY <3>4 DEF BrokerRestart, Restarted
      <4>2. OneCopy'
        BY <4>1 DEF MsgsOf
      <4>3. Published' = Published
        BY <4>1 DEF Published, Outstanding
      <4>4. QED
        BY <2>2, <4>2, <4>3
    <3>5. CASE Crash
      BY <2>3, <3>5 DEF Crash, brokerVars
    <3>6. QED
      BY <1>2, <2>5, <3>1, <3>2, <3>3, <3>4, <3>5 DEF Environment
  <2>6. CASE Consumer
    <3>1. CASE HandBack
      BY <2>2, <3>1, HandKnown, SettleMsgs DEF HandBack, CopyInv
    <3>2. CASE ~HandBack
      BY <2>3, <2>6, <3>2 DEF Consumer, ConsumerCancelled, ConsumerLoop, ConsumeOk, Subscribed,
         ConsumeFailed, ReceiveDelivery, DeliveriesClosed, Handoff, BackoffElapsed, ReconnectOk,
         Opened, ReconnectFailed, brokerVars
    <3>3. QED
      BY <3>1, <3>2
  <2>7. ASSUME NEW w \in Workers, Worker(w) PROVE CopyInv'
    <3>1. CASE WorkerAcknowledge(w)
      BY <2>2, <3>1, WorkerKnown, SettleMsgs DEF WorkerAcknowledge, CopyInv
    <3>2. CASE ~WorkerAcknowledge(w)
      BY <2>3, <2>7, <3>2 DEF Worker, WorkerReceive, WorkerExit, WorkerFinish, WorkerReport,
         brokerVars
    <3>3. QED
      BY <3>1, <3>2
  <2>8. CASE LoggerExit \/ Main
    BY <2>3, <2>8 DEF LoggerExit, Main, Boot, Opened, ShutdownRequested, CloseMessageChannel,
       CloseResultChannel, CloseClient, brokerVars
  <2>9. CASE Waiting
    BY <2>4, <2>9 DEF Waiting
  <2>10. QED
    BY <2>4, <2>5, <2>6, <2>7, <2>8, <2>9 DEF Next
<1>3. QED
  BY <1>1, <1>2

-----------------------------------------------------------------------------
(* Settlements follow outcomes.                                            *)

LEMMA OutcomeStep == TypeInv /\ TagInv /\ CopyInv /\ OutcomeInv /\ [Next]_vars => OutcomeInv'
<1> SUFFICES ASSUME TypeInv, TagInv, CopyInv, OutcomeInv, [Next]_vars PROVE OutcomeInv'
  OBVIOUS
<1> USE DEF OutcomeInv, SettledByOutcome
<1>1. ASSUME UNCHANGED <<acked, wpc, wmsg, outcomes>>, dead' \in {dead, {}} PROVE OutcomeInv'
  BY <1>1
<1>2. CASE UNCHANGED vars
  BY <1>1, <1>2 DEF vars, brokerVars, workerVars, historyVars
<1>3. CASE Environment
  <2>1. CASE Crash
    BY <2>1 DEF Crash, ProcessMemory, brokerVars, historyVars
  <2>2. CASE ~Crash
    BY <1>1, <1>3, <2>2 DEF Environment, Publish, Enqueued, Deliver, Pushed, SessionDown, Dropped,
       ChannelClosed, CancelledByBroker, Unsubscribed, BrokerRestart, Restarted, brokerVars, workerVars, historyVars
  <2>3. QED
    BY <2>1, <2>2
<1>4. CASE Consumer
  <2>1. CASE HandBack
    <3>1. Settle(hand, "requeue") /\ hand \in InProcess
      BY <2>1, HandKnown DEF HandBack
    <3>2. UNCHANGED <<acked, dead>>
      BY <3>1, SettleEffect DEF brokerVars
    <3>3. QED
      BY <1>1, <2>1, <3>2 DEF HandBack, workerVars, historyVars
  <2>2. CASE ~HandBack
    BY <1>1, <1>4, <2>2 DEF Consumer, ConsumerCancelled, ConsumerLoop, ConsumeOk, Subscribed,
       ConsumeFailed, ReceiveDelivery, DeliveriesClosed, Handoff, BackoffElapsed, ReconnectOk,
       Opened, ReconnectFailed, brokerVars, workerVars, historyVars
  <2>3. QED
    BY <2>1, <2>2
<1>5. ASSUME NEW w \in Workers, Worker(w) PROVE OutcomeInv'
  <2>1. CASE WorkerReceive(w) \/ WorkerExit(w) \/ WorkerReport(w)
    <3>1. \A v \in Workers :
            wpc'[v] \in {"ok", "failed"} => wpc'[v] = wpc[v] /\ wmsg'[v] = wmsg[v]
      BY <2>1 DEF WorkerReceive, WorkerExit, WorkerReport, TypeInv, TypeOK
    <3>2. UNCHANGED <<acked, dead, outcomes>>
      BY <2>1 DEF WorkerReceive, WorkerExit, WorkerReport, brokerVars, historyVars
    <3>3. QED
      BY <3>1, <3>2
  <2>2. ASSUME NEW result \in {"ok", "failed"}, WorkerFinish(w, result) PROVE OutcomeInv'
    <3>1. wmsg[w].msg \in Msgs
      BY <2>2, WorkerKnown DEF WorkerFinish, InProcess, Delivery
    <3>2. \A m \in Msgs : outcomes[m] \subseteq outcomes'[m]
      BY <2>2 DEF WorkerFinish, TypeInv, TypeOK
    <3>3. result \in outcomes'[wmsg[w].msg]
      BY <2>2, <3>1 DEF WorkerFinish, TypeInv, TypeOK
    <3>4. \A v \in Workers : wpc[v] \in {"ok", "failed"} => wmsg[v].msg \in Msgs
      BY WorkerKnown DEF InProcess, Delivery
    <3>5. \A v \in Workers : wpc'[v] \in {"ok", "failed"} => wpc'[v] \in outcomes'[wmsg'[v].msg]
      BY <2>2, <3>2, <3>3, <3>4 DEF WorkerFinish, TypeInv, TypeOK
    <3>6. QED
      BY <2>2, <3>2, <3>5 DEF WorkerFinish, brokerVars, TypeInv, TypeOK
  <2>3. CASE WorkerAcknowledge(w)
    <3>1. /\ wpc[w] \in {"ok", "failed"}
          /\ wmsg[w] \in InProcess
          /\ Settle(wmsg[w], IF wpc[w] = "ok" THEN "ack" ELSE "reject")
      BY <2>3, WorkerKnown DEF WorkerAcknowledge
    <3>2. wpc[w] \in outcomes[wmsg[w].msg] /\ wmsg[w].msg \in Msgs
      BY <3>1 DEF InProcess, Delivery
    <3>3. /\ acked' \subseteq IF wpc[w] = "ok" THEN acked \cup {wmsg[w].msg} ELSE acked
          /\ dead' \subseteq IF wpc[w] = "failed" THEN dead \cup {wmsg[w].msg} ELSE dead
      BY <3>1, SettleEffect DEF brokerVars
    <3>4. UNCHANGED outcomes /\ \A v \in Workers : v # w => wpc'[v] = wpc[v] /\ wmsg'[v] = wmsg[v]
      BY <2>3 DEF WorkerAcknowledge, historyVars, TypeInv, TypeOK
    <3>5. wpc'[w] = "report"
      BY <2>3 DEF WorkerAcknowledge, TypeInv, TypeOK
    <3>6. SettledByOutcome'
      BY <3>1, <3>2, <3>3, <3>4
    <3>7. QED
      BY <3>4, <3>5, <3>6
  <2>4. QED
    BY <1>5, <2>1, <2>2, <2>3 DEF Worker
<1>6. CASE LoggerExit \/ Main
  BY <1>1, <1>6 DEF LoggerExit, Main, ShutdownRequested, CloseMessageChannel,
     CloseResultChannel, CloseClient, Boot, Opened, ProcessMemory, brokerVars, workerVars, historyVars
<1>7. CASE Waiting
  BY <1>2, <1>7 DEF Waiting
<1>8. QED
  BY <1>2, <1>3, <1>4, <1>5, <1>6, <1>7 DEF Next

LEMMA IInvStep == IInv /\ [Next]_vars => IInv'
BY TypeStep, TagStep, CopyStep, OutcomeStep DEF IInv

LEMMA Invariance == Spec => []IInv
BY InitIInv, IInvStep, PTL DEF Spec

(* Whatever reconnects, redeliveries, crashes and late settlements do, a   *)
(* message is confirmed only after an attempt at that message succeeded    *)
(* and dead-lettered only after one failed (acknowledge, deliveryAck).     *)
THEOREM SettlementsFollowOutcomes == Spec => []SettledByOutcome
<1>1. IInv => SettledByOutcome
  BY DEF IInv, OutcomeInv
<1>2. QED
  BY <1>1, Invariance, PTL

-----------------------------------------------------------------------------
(* The manager and its broker implement AtLeastOnce.                       *)

LEMMA RefinementInit == Init => Promise!Init
BY DEF Init, BrokerInit, Outstanding, Promise!Init

LEMMA RefinementStep ==
  ASSUME BrokerMayRestart = FALSE, IInv, [Next]_vars
  PROVE  [Promise!Next]_(Promise!vars)
<1> DEFINE Goal == [Promise!Next]_(Promise!vars)
<1> USE DEF IInv
<1>1. ASSUME UNCHANGED <<acked, dead, outcomes>>, Outstanding' = Outstanding PROVE Goal
  BY <1>1 DEF Promise!vars
<1>2. ASSUME UNCHANGED <<ready, unacked, acked, dead, outcomes>> PROVE Goal
  BY <1>1, <1>2 DEF Outstanding
<1>3. CASE UNCHANGED vars
  BY <1>2, <1>3 DEF vars, brokerVars, historyVars
<1>4. CASE Environment
  <2>1. ASSUME NEW m \in Msgs, Publish(m) PROVE Goal
    <3>1. /\ m \notin Published /\ ready' = ready \cup {m}
          /\ UNCHANGED <<unacked, acked, dead, outcomes>>
      BY <2>1 DEF Publish, Enqueued, historyVars
    <3>2. Promise!Submit(m)
      BY <3>1 DEF Promise!Submit, Published, Outstanding
    <3>3. QED
      BY <3>2 DEF Promise!Next
  <2>2. ASSUME NEW s \in Session, NEW m \in Msgs, Deliver(s, m) PROVE Goal
    <3> DEFINE new == [session |-> s, tag |-> lastTag[s] + 1, msg |-> m]
    <3>1. /\ m \in ready /\ ready' = ready \ {m} /\ unacked' = unacked \cup {new}
          /\ UNCHANGED <<acked, dead, outcomes>>
      BY <2>2 DEF Deliver, Pushed, historyVars
    <3> new.msg = m
      OBVIOUS
    <3> HIDE DEF new
    <3>2. {d.msg : d \in unacked \cup {new}} = {d.msg : d \in unacked} \cup {m}
      OBVIOUS
    <3>3. QED
      BY <1>1, <3>1, <3>2 DEF Outstanding
  <2>3. ASSUME NEW s \in Session, SessionDown(s) PROVE Goal
    <3>1. /\ unacked' = unacked \ HeldBy(s) /\ ready' = ready \cup MsgsOf(HeldBy(s))
          /\ UNCHANGED <<acked, dead, outcomes>>
      BY <2>3 DEF SessionDown, Dropped, historyVars
    <3>2. HeldBy(s) \subseteq unacked
      BY DEF HeldBy
    <3>3. Outstanding' = Outstanding
      BY <3>1, <3>2 DEF Outstanding, MsgsOf
    <3>4. QED
      BY <1>1, <3>1, <3>3
  <2>4. CASE ChannelClosed \/ CancelledByBroker \/ Crash
    BY <1>2, <2>4 DEF ChannelClosed, CancelledByBroker, Unsubscribed, Crash, brokerVars, historyVars
  <2>5. ~BrokerRestart
    BY DEF BrokerRestart
  <2>6. QED
    BY <1>4, <2>1, <2>2, <2>3, <2>4, <2>5 DEF Environment
<1>5. CASE Consumer
  <2>1. CASE HandBack
    <3>1. Settle(hand, "requeue") /\ hand \in InProcess /\ UNCHANGED outcomes
      BY <2>1, HandKnown DEF HandBack, historyVars
    <3>2. CASE UNCHANGED brokerVars
      BY <1>2, <3>1, <3>2 DEF brokerVars
    <3>3. CASE ~UNCHANGED brokerVars
      <4>1. /\ hand \in unacked /\ unacked' = unacked \ {hand}
            /\ ready' = ready \cup {hand.msg} /\ UNCHANGED <<acked, dead>>
        BY <3>1, <3>3, SettleEffect
      <4>2. Outstanding' = Outstanding
        BY <4>1 DEF Outstanding
      <4>3. QED
        BY <1>1, <3>1, <4>1, <4>2
    <3>4. QED
      BY <3>2, <3>3
  <2>2. CASE ~HandBack
    BY <1>2, <1>5, <2>2 DEF Consumer, ConsumerCancelled, ConsumerLoop, ConsumeOk, Subscribed,
       ConsumeFailed, ReceiveDelivery, DeliveriesClosed, Handoff, BackoffElapsed, ReconnectOk,
       Opened, ReconnectFailed, brokerVars, historyVars
  <2>3. QED
    BY <2>1, <2>2
<1>6. ASSUME NEW w \in Workers, Worker(w) PROVE Goal
  <2>1. CASE WorkerReceive(w) \/ WorkerExit(w) \/ WorkerReport(w)
    BY <1>2, <2>1 DEF WorkerReceive, WorkerExit, WorkerReport, brokerVars, historyVars
  <2>2. ASSUME NEW result \in {"ok", "failed"}, WorkerFinish(w, result) PROVE Goal
    <3>1. wmsg[w] \in InProcess
      BY <2>2, WorkerKnown DEF WorkerFinish
    <3>2. wmsg[w].msg \in Msgs /\ wmsg[w].msg \in Outstanding \cup acked \cup dead
      BY <3>1 DEF CopyInv, Published, InProcess, Delivery
    <3>3. Promise!Attempt(wmsg[w].msg, result)
      BY <2>2, <3>2 DEF WorkerFinish, Promise!Attempt, Outstanding, brokerVars
    <3>4. QED
      BY <3>2, <3>3 DEF Promise!Next
  <2>3. CASE WorkerAcknowledge(w)
    <3> DEFINE d == wmsg[w]
               how == IF wpc[w] = "ok" THEN "ack" ELSE "reject"
    <3>1. /\ wpc[w] \in {"ok", "failed"} /\ d \in InProcess
          /\ Settle(d, how) /\ UNCHANGED outcomes
      BY <2>3, WorkerKnown DEF WorkerAcknowledge, historyVars
    <3>2. d.msg \in Msgs /\ wpc[w] \in outcomes[d.msg]
      BY <3>1 DEF OutcomeInv, InProcess, Delivery
    <3>3. CASE UNCHANGED brokerVars
      BY <1>2, <3>1, <3>3 DEF brokerVars
    <3>4. CASE ~UNCHANGED brokerVars
      <4>1. /\ d \in unacked /\ unacked' = unacked \ {d} /\ ready' = ready
            /\ acked' = IF wpc[w] = "ok" THEN acked \cup {d.msg} ELSE acked
            /\ dead' = IF wpc[w] = "failed" THEN dead \cup {d.msg} ELSE dead
        BY <3>1, <3>4, SettleEffect
      <4>2. d.msg \in Outstanding
        BY <4>1 DEF Outstanding
      <4>3. d.msg \notin ready /\ \A e \in unacked : e.msg = d.msg => e = d
        BY <4>1 DEF CopyInv, MsgsOf
      <4>4. Outstanding' = Outstanding \ {d.msg}
        BY <4>1, <4>3 DEF Outstanding
      <4>5. Promise!Confirm(d.msg) \/ Promise!DeadLetter(d.msg)
        BY <3>1, <3>2, <4>1, <4>2, <4>4 DEF Promise!Confirm, Promise!DeadLetter
      <4>6. QED
        BY <3>2, <4>5 DEF Promise!Next
    <3>5. QED
      BY <3>3, <3>4
  <2>4. QED
    BY <1>6, <2>1, <2>2, <2>3 DEF Worker
<1>7. CASE LoggerExit \/ Main
  BY <1>2, <1>7 DEF LoggerExit, Main, Boot, Opened, ShutdownRequested, CloseMessageChannel,
     CloseResultChannel, CloseClient, brokerVars, historyVars
<1>8. CASE Waiting
  BY <1>3, <1>8 DEF Waiting
<1>9. QED
  BY <1>3, <1>4, <1>5, <1>6, <1>7, <1>8 DEF Next

(* As long as the broker does not restart, consumer, workers and broker    *)
(* together implement AtLeastOnce: every message stays queued until it is  *)
(* confirmed after a success or dead-lettered after a failure, over every  *)
(* reconnect, shutdown and crash.                                          *)
THEOREM ManagerImplementsAtLeastOnce ==
  ASSUME BrokerMayRestart = FALSE
  PROVE  Spec => ImplementsAtLeastOnce
<1>1. IInv /\ [Next]_vars => [Promise!Next]_(Promise!vars)
  BY RefinementStep
<1>2. QED
  BY <1>1, RefinementInit, Invariance, PTL DEF Spec, Promise!Spec, ImplementsAtLeastOnce

(* Where a published message is: in exactly one of the work queue (waiting *)
(* there, or delivered and unsettled), the messages confirmed after a      *)
(* success, and the dead-letter queue after a failure.                     *)
InOnePlace(m) ==
  \/ m \in Outstanding /\ m \notin acked \cup dead
  \/ m \in acked /\ m \notin Outstanding \cup dead /\ "ok" \in outcomes[m]
  \/ m \in dead /\ m \notin Outstanding \cup acked /\ "failed" \in outcomes[m]

LEMMA KeptStep ==
  ASSUME NEW m \in Msgs, TypeOK, [Promise!Next]_(Promise!vars)
  PROVE  /\ InOnePlace(m) => InOnePlace(m)'
         /\ (m \in Outstanding \cup acked \cup dead)' =>
              InOnePlace(m)' \/ m \in Outstanding \cup acked \cup dead
         /\ m \in acked => m \in acked'
         /\ m \in dead => m \in dead'
<1> DEFINE Goal == /\ InOnePlace(m) => InOnePlace(m)'
                   /\ (m \in Outstanding \cup acked \cup dead)' =>
                        InOnePlace(m)' \/ m \in Outstanding \cup acked \cup dead
                   /\ m \in acked => m \in acked'
                   /\ m \in dead => m \in dead'
<1>1. CASE UNCHANGED Promise!vars
  BY <1>1 DEF Promise!vars, InOnePlace
<1>2. ASSUME NEW x \in Msgs, Promise!Submit(x) \/ Promise!Confirm(x) \/ Promise!DeadLetter(x)
      PROVE  Goal
  BY <1>2 DEF Promise!Submit, Promise!Confirm, Promise!DeadLetter, InOnePlace
<1>3. ASSUME NEW x \in Msgs, NEW result \in {"ok", "failed"}, Promise!Attempt(x, result)
      PROVE  Goal
  BY <1>3 DEF Promise!Attempt, InOnePlace, TypeOK
<1>4. QED
  BY <1>1, <1>2, <1>3 DEF Promise!Next

(* "Routed to the dead-letter queue instead of being dropped" (README),    *)
(* for every message and ever after its publication: as long as the broker *)
(* does not restart, it stays queued until it is confirmed with a success  *)
(* behind it or dead-lettered with a failure behind it, is never in two of *)
(* these places at once, and never leaves the last two - whatever becomes  *)
(* of channels, deliveries and processes (consumeOnce, acknowledge).       *)
THEOREM PublishedMessagesAreKept ==
  ASSUME BrokerMayRestart = FALSE, NEW m \in Msgs
  PROVE  Spec => /\ [](m \in Published => []InOnePlace(m))
                 /\ [](m \in acked => [](m \in acked))
                 /\ [](m \in dead => [](m \in dead))
<1> DEFINE Inv == m \in Published => InOnePlace(m)
<1>1. Init => Inv
  BY DEF Init, BrokerInit, Published, Outstanding
<1>2. IInv => (m \in Published <=> m \in Outstanding \cup acked \cup dead)
  BY DEF IInv, CopyInv, Published
<1>3. IInv /\ [Next]_vars => (InOnePlace(m) => InOnePlace(m)')
  BY KeptStep, RefinementStep DEF IInv, TypeInv
<1>4. IInv /\ [Next]_vars => (m \in acked => (m \in acked)')
  BY KeptStep, RefinementStep DEF IInv, TypeInv
<1>5. IInv /\ [Next]_vars => (m \in dead => (m \in dead)')
  BY KeptStep, RefinementStep DEF IInv, TypeInv
<1>6. IInv /\ IInv' /\ Inv /\ [Next]_vars => Inv'
  <2> SUFFICES ASSUME IInv, IInv', Inv, [Next]_vars, (m \in Published)'
               PROVE  InOnePlace(m)'
    OBVIOUS
  <2>1. (m \in Outstanding \cup acked \cup dead)'
    BY DEF IInv, CopyInv, Published
  <2>2. InOnePlace(m)' \/ m \in Published
    BY <1>2, <2>1, KeptStep, RefinementStep DEF IInv, TypeInv
  <2>3. QED
    BY <1>3, <2>2
<1>7. Spec => [](m \in Published => []InOnePlace(m))
  BY <1>1, <1>3, <1>6, Invariance, PTL DEF Spec
<1>8. Spec => [](m \in acked => [](m \in acked))
  BY <1>4, Invariance, PTL DEF Spec
<1>9. Spec => [](m \in dead => [](m \in dead))
  BY <1>5, Invariance, PTL DEF Spec
<1>10. QED
  BY <1>7, <1>8, <1>9
=============================================================================
