--------------------------- MODULE DeliveryProofs ---------------------------
(***************************************************************************)
(* Proofs about what becomes of a delivery in the process: no message is   *)
(* started twice on one channel, no unknown tag is settled, a graceful     *)
(* shutdown settles what was started, and the consumer waits for a worker  *)
(* only behind deliveries of an earlier channel.                           *)
(***************************************************************************)
EXTENDS ManagerProofs, FiniteSetTheorems

USE PrefetchAssumption, MaxSessionsAssumption, WorkersAssumption, NoDeliveryAssumption

-----------------------------------------------------------------------------
(* The inductive invariant.                                                *)

Decided == acked \cup dead \cup lost

(* The broker's side: a message has one fate; a channel that is down holds *)
(* nothing; none holds more than its prefetch; the channels still to come  *)
(* are unused.                                                             *)
ChannelInv ==
  /\ Decided \cap Outstanding = {}
  /\ \A s \in Session :
       /\ session[s] = "down" => HeldBy(s) = {}
       /\ IsFiniteSet(HeldBy(s))
       /\ Cardinality(HeldBy(s)) <= Prefetch
       /\ s > cur => /\ session[s] = "down" /\ lastTag[s] = 0
                     /\ \A m \in Msgs : attempts[m][s] = 0

(* The deliveries no worker has started.                                   *)
Unstarted == {d \in Delivery :
  \/ \E i \in 1..Len(inbox) : d = inbox[i]
  \/ \E i \in 1..Len(msgChan) : d = msgChan[i]
  \/ d = hand}

(* Two deliveries of one message on one channel.                           *)
SameWork(d, e) == d.msg = e.msg /\ d.session = e.session

Started(d) == attempts[d.msg][d.session]

(* In the process, work that came on one channel is in one place only, and *)
(* it is started when it leaves MessageChannel for a worker.               *)
Apart ==
  /\ \A i, j \in 1..Len(inbox) : SameWork(inbox[i], inbox[j]) => i = j
  /\ \A i, j \in 1..Len(msgChan) : SameWork(msgChan[i], msgChan[j]) => i = j
  /\ \A i \in 1..Len(inbox), j \in 1..Len(msgChan) : ~SameWork(inbox[i], msgChan[j])
  /\ hand # NoDelivery =>
       /\ \A i \in 1..Len(inbox) : ~SameWork(inbox[i], hand)
       /\ \A i \in 1..Len(msgChan) : ~SameWork(msgChan[i], hand)

WorkersApart ==
  \A v, w \in Workers :
    wmsg[v] # NoDelivery /\ wmsg[w] # NoDelivery /\ SameWork(wmsg[v], wmsg[w]) => v = w

StartedByWorkers ==
  /\ \A d \in Unstarted : Started(d) = 0
  /\ \A w \in Workers : wmsg[w] # NoDelivery => Started(wmsg[w]) = 1
  /\ AttemptedOncePerSession

PlaceInv == Apart /\ WorkersApart /\ StartedByWorkers

(* A live channel gives a message to the process at most once: work that   *)
(* has come on it is still held for it, or has been settled.               *)
SpentInv ==
  \A m \in Msgs, s \in Session :
    (session[s] # "down" /\ (attempts[m][s] > 0 \/ \E d \in Unstarted : d.msg = m /\ d.session = s))
      => m \in MsgsOf(HeldBy(s)) \cup Decided

(* What came on a usable channel the broker still waits for.               *)
LiveInv ==
  (ChanUsable /\ session[cur] # "down") =>
    \A d \in InProcess : d.session = cur => d \in unacked

(* On a usable channel, work that is started and not settled is a worker's. *)
StartedInv ==
  /\ ChanUsable => cur \in Session
  /\ ChanUsable => \A d \in HeldBy(cur) : Started(d) > 0 => \E w \in Workers : wmsg[w] = d
  /\ chan = "released" => main = "exited"
  /\ StartedIsSettledAtClose

(* The prefetch also bounds what came on a channel that is gone.           *)
InProcessOf(s) == {d \in InProcess : d.session = s}

PrefetchInv ==
  \A s \in Session : IsFiniteSet(InProcessOf(s)) /\ Cardinality(InProcessOf(s)) <= Prefetch

DInv == ChannelInv /\ PlaceInv /\ SpentInv /\ LiveInv /\ StartedInv /\ PrefetchInv

-----------------------------------------------------------------------------
(* The steps, by what they do to deliveries.                               *)

(* Nothing happens to a delivery; a usable channel may be found closed.    *)
Quiet ==
  /\ UNCHANGED <<brokerVars, cur, inbox, hand, msgChan, wmsg, attempts>>
  /\ chan' \in {chan, "closed"}
  /\ main = "exited" => main' = "exited"

(* The amqp library drops what it has buffered.                            *)
Discarded ==
  /\ UNCHANGED <<brokerVars, cur, hand, msgChan, wmsg, attempts>>
  /\ inbox' = <<>>
  /\ chan' \in {chan, "none", "closed"} \/ (chan' = "released" /\ CloseClient)
  /\ main = "exited" => main' = "exited"

(* A process starts or ends, or the client opens its next channel.         *)
Renewed ==
  /\ inbox' = <<>> /\ attempts' = attempts
  /\ UNCHANGED <<hand, msgChan, wmsg>>
     \/ (hand' = NoDelivery /\ msgChan' = <<>> /\ wmsg' = [w \in Workers |-> NoDelivery])
  /\ \/ UNCHANGED <<brokerVars, cur>> /\ chan' = "none"
     \/ cur < MaxSessions /\ cur' = cur + 1 /\ Opened(cur + 1) /\ chan' = "open"

LEMMA StepCases ==
  ASSUME TypeInv, [Next]_vars
  PROVE  \/ Quiet \/ Discarded \/ Renewed
         \/ \E m \in Msgs : Publish(m)
         \/ \E s \in Session, m \in Msgs : Deliver(s, m)
         \/ \E s \in Session : SessionDown(s)
         \/ CancelledByBroker \/ BrokerRestart \/ ConsumeOk
         \/ ReceiveDelivery \/ Handoff \/ HandBack
         \/ \E w \in Workers : WorkerReceive(w) \/ WorkerAcknowledge(w)
<1> USE DEF consumerVars, clientVars, workerVars, historyVars
<1>1. CASE UNCHANGED vars
  BY <1>1 DEF vars, Quiet
<1>2. CASE Environment
  BY <1>2 DEF Environment, ChannelClosed, Crash, ProcessMemory, Quiet, Renewed
<1>3. CASE Consumer
  BY <1>3 DEF Consumer, ConsumerCancelled, ConsumerLoop, ConsumeFailed, BackoffElapsed,
              DeliveriesClosed, ReconnectOk, ReconnectFailed, Quiet, Discarded, Renewed
<1>4. ASSUME NEW w \in Workers, Worker(w), ~WorkerReceive(w), ~WorkerAcknowledge(w) PROVE Quiet
  BY <1>4 DEF Worker, WorkerExit, WorkerFinish, WorkerReport, Quiet
<1>5. CASE LoggerExit
  BY <1>5 DEF LoggerExit, Quiet
<1>6. CASE Main
  BY <1>6 DEF Main, Boot, ProcessMemory, ShutdownRequested, CloseMessageChannel, CloseResultChannel,
              CloseClient, Quiet, Discarded, Renewed
<1>7. CASE Waiting
  BY <1>1, <1>7 DEF Waiting
<1>8. QED
  BY <1>1, <1>2, <1>3, <1>4, <1>5, <1>6, <1>7 DEF Next

-----------------------------------------------------------------------------
(* What the proofs below share.                                            *)

LEMMA TailAt ==
  ASSUME NEW S, NEW q \in Seq(S), q # <<>>
  PROVE  /\ Head(q) = q[1] /\ 1 \in 1..Len(q)
         /\ Len(Tail(q)) \in Nat
         /\ \A i \in 1..Len(Tail(q)) : Tail(q)[i] = q[i + 1] /\ i + 1 \in 1..Len(q)
OBVIOUS

LEMMA AppendAt ==
  ASSUME NEW S, NEW q \in Seq(S), NEW x \in S
  PROVE  /\ Len(Append(q, x)) = Len(q) + 1 /\ Len(q) \in Nat
         /\ \A i \in 1..Len(Append(q, x)) :
              \/ i \in 1..Len(q) /\ Append(q, x)[i] = q[i]
              \/ i = Len(q) + 1 /\ Append(q, x)[i] = x
OBVIOUS

(* What the broker holds for a channel, or the process has of it, stays    *)
(* within the prefetch when it shrinks.                                    *)
LEMMA Shrinks ==
  ASSUME NEW S, NEW T, T \subseteq S, IsFiniteSet(S), Cardinality(S) <= Prefetch
  PROVE  IsFiniteSet(T) /\ Cardinality(T) <= Prefetch
<1>1. IsFiniteSet(T) /\ Cardinality(T) <= Cardinality(S)
  BY FS_Subset
<1>2. Cardinality(T) \in Nat /\ Cardinality(S) \in Nat
  BY <1>1, FS_CardinalityType
<1>3. QED
  BY <1>1, <1>2

(* No delivery comes from a channel that has not been opened.              *)
LEMMA KnownIsPast ==
  ASSUME IInv, ChannelInv, NEW d \in Known
  PROVE  d \in Delivery /\ d.session \in Session /\ d.msg \in Msgs /\ d.session <= cur
<1>1. d \in Delivery
  BY DEF Known, InProcess, IInv, TypeInv, TypeOK
<1>2. d.session \in Session /\ d.msg \in Msgs /\ d.tag \in 1..lastTag[d.session]
  BY <1>1 DEF Delivery, IInv, TagInv
<1>3. d.session > cur => FALSE
  BY <1>2 DEF ChannelInv
<1>4. QED
  BY <1>1, <1>2, <1>3 DEF Session, IInv, TypeInv, TypeOK

LEMMA UnstartedInProcess == Unstarted \subseteq InProcess /\ InProcess \subseteq Known
BY DEF Unstarted, InProcess, Known

LEMMA HeadUnstarted ==
  ASSUME TypeInv, msgChan # <<>>
  PROVE  Head(msgChan) = msgChan[1] /\ 1 \in 1..Len(msgChan) /\ msgChan[1] \in Unstarted
BY TailAt DEF TypeInv, TypeOK, Unstarted

(* A worker starts the head of MessageChannel, and nothing else.           *)
LEMMA ReceiveStarts ==
  ASSUME TypeInv, NEW w \in Workers, WorkerReceive(w)
  PROVE  /\ msgChan[1] \in Unstarted
         /\ wpc[w] = "idle" /\ wmsg[w] = NoDelivery
         /\ wmsg' = [wmsg EXCEPT ![w] = msgChan[1]]
         /\ \A m \in Msgs, s \in Session :
              attempts'[m][s] = IF m = msgChan[1].msg /\ s = msgChan[1].session
                                  THEN attempts[m][s] + 1 ELSE attempts[m][s]
<1>1. msgChan # <<>> /\ Head(msgChan) = msgChan[1] /\ msgChan[1] \in Unstarted
  BY HeadUnstarted DEF WorkerReceive
<1>2. msgChan[1].msg \in Msgs /\ msgChan[1].session \in Session
  BY <1>1 DEF Unstarted, Delivery
<1>3. attempts' = [attempts EXCEPT ![msgChan[1].msg][msgChan[1].session] = @ + 1]
  BY <1>1 DEF WorkerReceive
<1>4. attempts \in [Msgs -> [Session -> Nat]]
  BY DEF TypeInv, TypeOK
<1>5. wpc[w] = "idle" /\ wmsg[w] = NoDelivery
  BY DEF WorkerReceive, TypeInv, HandsFull
<1>6. QED
  BY <1>1, <1>2, <1>3, <1>4, <1>5 DEF WorkerReceive

-----------------------------------------------------------------------------
(* The broker's side.                                                      *)

(* One delivery more on a channel within its limit.                        *)
LEMMA HeldAfterPush ==
  ASSUME IInv, ChannelInv, NEW t \in Session, NEW m \in Msgs, Deliver(t, m), NEW s \in Session
  PROVE  IsFiniteSet(HeldBy(s))' /\ (Cardinality(HeldBy(s)) <= Prefetch)'
<1> DEFINE new == [session |-> t, tag |-> lastTag[t] + 1, msg |-> m]
<1>1. unacked' = unacked \cup {new} /\ Cardinality(HeldBy(t)) < Prefetch /\ new.session = t
  BY DEF Deliver, Pushed, Qos
<1>2. CASE s # t
  <2>1. HeldBy(s)' = HeldBy(s)
    BY <1>1, <1>2 DEF HeldBy
  <2>2. QED
    BY <2>1 DEF ChannelInv
<1>3. CASE s = t
  <2>1. HeldBy(s)' = HeldBy(s) \cup {new}
    BY <1>1, <1>3 DEF HeldBy
  <2>2. IsFiniteSet(HeldBy(s)) /\ Cardinality(HeldBy(s)) \in Nat
    BY FS_CardinalityType DEF ChannelInv
  <2> HIDE DEF new
  <2>3. /\ IsFiniteSet(HeldBy(s) \cup {new})
        /\ Cardinality(HeldBy(s) \cup {new}) =
             IF new \in HeldBy(s) THEN Cardinality(HeldBy(s)) ELSE Cardinality(HeldBy(s)) + 1
    BY <2>2, FS_AddElement, Zenon
  <2>4. Cardinality(HeldBy(s) \cup {new}) \in Nat
    BY <2>3, FS_CardinalityType
  <2>5. QED
    BY <1>1, <1>3, <2>1, <2>2, <2>3, <2>4
<1>4. QED
  BY <1>2, <1>3

LEMMA ChannelStep == IInv /\ ChannelInv /\ [Next]_vars => ChannelInv'
<1> SUFFICES ASSUME IInv, ChannelInv, [Next]_vars PROVE ChannelInv'
  OBVIOUS
<1> USE DEF historyVars, clientVars
<1> DEFINE OneFate == Decided \cap Outstanding = {}
           Unused == \A s \in Session : s > cur =>
                       /\ session[s] = "down" /\ lastTag[s] = 0
                       /\ \A m \in Msgs : attempts[m][s] = 0
           Empty == \A s \in Session : session[s] = "down" => HeldBy(s) = {}
           Within == \A s \in Session : IsFiniteSet(HeldBy(s)) /\ Cardinality(HeldBy(s)) <= Prefetch
<1>0. cur \in 0..MaxSessions /\ session \in [Session -> {"down", "up", "consuming"}]
      /\ lastTag \in [Session -> Nat] /\ TypeInv
  BY DEF IInv, TypeInv, TypeOK
<1>1. ASSUME OneFate', Unused', Empty', Within' PROVE ChannelInv'
  BY <1>1 DEF ChannelInv
<1>2. ASSUME unacked' \subseteq unacked PROVE Within'
  <2> SUFFICES ASSUME NEW s \in Session
               PROVE  IsFiniteSet(HeldBy(s))' /\ (Cardinality(HeldBy(s)) <= Prefetch)'
    OBVIOUS
  <2>1. HeldBy(s)' \subseteq HeldBy(s)
    BY <1>2 DEF HeldBy
  <2>2. IsFiniteSet(HeldBy(s)) /\ Cardinality(HeldBy(s)) <= Prefetch
    BY DEF ChannelInv
  <2>3. QED
    BY <2>1, <2>2, Shrinks
<1>3. ASSUME UNCHANGED <<brokerVars, cur, attempts>> PROVE ChannelInv'
  BY <1>3 DEF ChannelInv, brokerVars, Decided, Outstanding, HeldBy
<1>4. CASE Quiet \/ Discarded \/ ReceiveDelivery \/ Handoff
  BY <1>3, <1>4 DEF Quiet, Discarded, ReceiveDelivery, Handoff
<1>5. CASE Renewed
  <2>1. CASE UNCHANGED <<brokerVars, cur>>
    BY <1>3, <1>5, <2>1 DEF Renewed
  <2>2. CASE cur < MaxSessions /\ cur' = cur + 1 /\ Opened(cur + 1)
    <3>1. UNCHANGED <<ready, unacked, acked, dead, lost, lastTag, attempts>>
          /\ session' = [session EXCEPT ![cur + 1] = "up"]
      BY <1>5, <2>2 DEF Renewed, Opened
    <3>2. OneFate' /\ Within' /\ Empty'
      BY <1>0, <1>2, <3>1 DEF ChannelInv, Decided, Outstanding, HeldBy
    <3>3. Unused'
      BY <1>0, <2>2, <3>1 DEF ChannelInv, Session
    <3>4. QED
      BY <1>1, <3>2, <3>3
  <2>3. QED
    BY <1>5, <2>1, <2>2 DEF Renewed
<1>6. ASSUME NEW m \in Msgs, Publish(m) PROVE ChannelInv'
  <2>1. m \notin Published /\ ready' = ready \cup {m}
        /\ UNCHANGED <<unacked, acked, dead, lost, session, lastTag, cur, attempts>>
    BY <1>6 DEF Publish, Enqueued
  <2>2. OneFate'
    BY <2>1 DEF ChannelInv, Decided, Outstanding, Published
  <2>3. QED
    BY <1>2, <2>1, <2>2 DEF ChannelInv, HeldBy
<1>7. ASSUME NEW t \in Session, NEW m \in Msgs, Deliver(t, m) PROVE ChannelInv'
  <2> DEFINE new == [session |-> t, tag |-> lastTag[t] + 1, msg |-> m]
  <2>1. /\ session[t] = "consuming" /\ m \in ready /\ ready' = ready \ {m}
        /\ lastTag' = [lastTag EXCEPT ![t] = @ + 1]
        /\ unacked' = unacked \cup {new} /\ new.session = t /\ new.msg = m
        /\ UNCHANGED <<acked, dead, lost, session, cur, attempts>>
    BY <1>7 DEF Deliver, Pushed
  <2> HIDE DEF new
  <2>2. OneFate'
    <3>1. {d.msg : d \in unacked \cup {new}} = {d.msg : d \in unacked} \cup {m}
      BY <2>1
    <3>2. QED
      BY <2>1, <3>1 DEF ChannelInv, Decided, Outstanding
  <2>3. Unused'
    BY <1>0, <2>1 DEF ChannelInv
  <2>4. Empty'
    BY <2>1 DEF ChannelInv, HeldBy
  <2>5. Within'
    BY <1>7, HeldAfterPush
  <2>6. QED
    BY <1>1, <2>2, <2>3, <2>4, <2>5
<1>8. ASSUME NEW t \in Session, SessionDown(t) PROVE ChannelInv'
  <2>1. /\ session' = [session EXCEPT ![t] = "down"] /\ unacked' = unacked \ HeldBy(t)
        /\ ready' = ready \cup MsgsOf(HeldBy(t))
        /\ UNCHANGED <<acked, dead, lost, lastTag, cur, attempts>>
    BY <1>8 DEF SessionDown, Dropped
  <2>2. HeldBy(t) \subseteq unacked
    BY DEF HeldBy
  <2>3. OneFate'
    BY <2>1, <2>2 DEF ChannelInv, Decided, Outstanding, MsgsOf
  <2>4. Unused'
    BY <1>0, <2>1 DEF ChannelInv
  <2>5. \A s \in Session : HeldBy(s)' = IF s = t THEN {} ELSE HeldBy(s)
    BY <2>1 DEF HeldBy
  <2>6. Empty'
    BY <1>0, <2>1, <2>5 DEF ChannelInv
  <2>7. QED
    BY <1>1, <1>2, <2>1, <2>3, <2>4, <2>6
<1>9. CASE CancelledByBroker \/ ConsumeOk
  <2>1. /\ session[cur] # "down" /\ \E to \in {"up", "consuming"} : session' = [session EXCEPT ![cur] = to]
        /\ UNCHANGED <<ready, unacked, acked, dead, lost, lastTag, cur, attempts>>
    BY <1>9 DEF CancelledByBroker, Unsubscribed, ConsumeOk, Subscribed
  <2>2. OneFate' /\ Within'
    BY <1>2, <2>1 DEF ChannelInv, Decided, Outstanding
  <2>3. Unused' /\ Empty'
    BY <1>0, <2>1 DEF ChannelInv, HeldBy
  <2>4. QED
    BY <1>1, <2>2, <2>3
<1>10. CASE BrokerRestart
  <2>1. /\ session' = [s \in Session |-> "down"] /\ unacked' = {} /\ ready' = {} /\ dead' = {}
        /\ UNCHANGED <<lastTag, cur, attempts>>
    BY <1>10 DEF BrokerRestart, Restarted, Persistent
  <2>2. QED
    BY <1>1, <1>2, <2>1 DEF ChannelInv, Decided, Outstanding, HeldBy
<1>11. ASSUME NEW d \in InProcess, NEW how, Settle(d, how), UNCHANGED <<cur, attempts>>
       PROVE  ChannelInv'
  <2>1. CASE UNCHANGED brokerVars
    BY <1>3, <1>11, <2>1
  <2>2. CASE ~UNCHANGED brokerVars
    <3>1. /\ d \in unacked /\ unacked' = unacked \ {d}
          /\ acked' = IF how = "ack" THEN acked \cup {d.msg} ELSE acked
          /\ dead' = IF how = "reject" THEN dead \cup {d.msg} ELSE dead
          /\ ready' = IF how = "requeue" THEN ready \cup {d.msg} ELSE ready
          /\ how \in {"ack", "reject", "requeue"}
          /\ UNCHANGED <<lost, session, lastTag>>
      BY <1>11, <2>2, SettleEffect DEF IInv
    <3>2. d.msg \notin ready /\ \A e \in unacked : e.msg = d.msg => e = d
      BY <3>1 DEF IInv, CopyInv, MsgsOf
    <3>3. d.msg \notin Decided /\ Decided \cap Outstanding = {}
      BY <3>1 DEF ChannelInv, Outstanding
    <3>4. OneFate'
      BY <3>1, <3>2, <3>3 DEF Decided, Outstanding
    <3>5. Unused' /\ Empty'
      BY <1>11, <3>1 DEF ChannelInv, HeldBy
    <3>6. QED
      BY <1>1, <1>2, <3>1, <3>4, <3>5
  <2>3. QED
    BY <2>1, <2>2
<1>12. CASE HandBack
  BY <1>0, <1>11, <1>12, HandKnown DEF HandBack
<1>13. ASSUME NEW w \in Workers, WorkerAcknowledge(w) PROVE ChannelInv'
  BY <1>0, <1>11, <1>13, WorkerKnown DEF WorkerAcknowledge
<1>14. ASSUME NEW w \in Workers, WorkerReceive(w) PROVE ChannelInv'
  <2> DEFINE d == msgChan[1]
  <2>1. UNCHANGED <<brokerVars, cur>>
    BY <1>14 DEF WorkerReceive
  <2>2. d.session <= cur /\ d.session \in Session
    BY <1>0, <1>14, ReceiveStarts, UnstartedInProcess, KnownIsPast
  <2>3. \A m \in Msgs, s \in Session : s > cur => attempts'[m][s] = attempts[m][s]
    BY <1>0, <1>14, <2>2, ReceiveStarts DEF Session
  <2>4. OneFate' /\ Empty' /\ Within'
    BY <1>2, <2>1 DEF ChannelInv, brokerVars, Decided, Outstanding, HeldBy
  <2>5. Unused'
    BY <2>1, <2>3 DEF ChannelInv, brokerVars
  <2>6. QED
    BY <1>1, <2>4, <2>5
<1>15. QED
  BY <1>0, <1>4, <1>5, <1>6, <1>7, <1>8, <1>9, <1>10, <1>12, <1>13, <1>14, StepCases

-----------------------------------------------------------------------------
(* The process's side: one place for every piece of work.                  *)

(* Work a live channel may still bring is nowhere in the process and has   *)
(* not been started.                                                       *)
LEMMA PushIsNew ==
  ASSUME IInv, ChannelInv, SpentInv, NEW s \in Session, NEW m \in Msgs, session[s] # "down", m \in ready
  PROVE  attempts[m][s] = 0 /\ \A d \in Unstarted : ~(d.msg = m /\ d.session = s)
<1>1. m \notin MsgsOf(HeldBy(s))
  BY DEF IInv, CopyInv, MsgsOf, HeldBy
<1>2. m \notin Decided
  BY DEF ChannelInv, Outstanding
<1>3. attempts[m][s] \in Nat
  BY DEF IInv, TypeInv, TypeOK
<1>4. QED
  BY <1>1, <1>2, <1>3 DEF SpentInv

(* Only a push adds to what is not started.                                *)
LEMMA UnstartedAfterOthers ==
  ASSUME TypeInv, [Next]_vars, \A s \in Session, m \in Msgs : ~Deliver(s, m)
  PROVE  Unstarted' \subseteq Unstarted
<1> USE NoDeliveryAssumption DEF consumerVars, clientVars, workerVars
<1>1. inbox \in Seq(Delivery) /\ msgChan \in Seq(Delivery)
  BY DEF TypeInv, TypeOK
<1>2. ASSUME msgChan' \in {msgChan, <<>>}, inbox' \in {inbox, <<>>}, hand' \in {hand, NoDelivery}
      PROVE  Unstarted' \subseteq Unstarted
  BY <1>2 DEF Unstarted
<1>3. CASE Quiet \/ Discarded \/ Renewed \/ CancelledByBroker \/ BrokerRestart \/ ConsumeOk \/ HandBack
  BY <1>2, <1>3 DEF Quiet, Discarded, Renewed, CancelledByBroker, BrokerRestart, ConsumeOk, HandBack
<1>4. CASE (\E m \in Msgs : Publish(m)) \/ (\E s \in Session : SessionDown(s))
  BY <1>2, <1>4 DEF Publish, SessionDown
<1>5. CASE ReceiveDelivery
  <2>1. /\ hand' = inbox[1] /\ 1 \in 1..Len(inbox) /\ UNCHANGED msgChan
        /\ \A i \in 1..Len(inbox') : inbox'[i] = inbox[i + 1] /\ i + 1 \in 1..Len(inbox)
    BY <1>1, <1>5, TailAt DEF ReceiveDelivery
  <2>2. QED
    BY <2>1 DEF Unstarted
<1>6. CASE Handoff
  <2>1. hand \in Delivery
    BY <1>6 DEF Handoff, TypeInv, TypeOK, HandsFull, DeliveryOrNone
  <2>2. QED
    BY <1>1, <1>6, <2>1, AppendAt DEF Handoff, Unstarted
<1>7. ASSUME NEW w \in Workers, WorkerReceive(w) PROVE Unstarted' \subseteq Unstarted
  BY <1>1, <1>7, TailAt DEF WorkerReceive, Unstarted
<1>8. ASSUME NEW w \in Workers, WorkerAcknowledge(w) PROVE Unstarted' \subseteq Unstarted
  BY <1>2, <1>8 DEF WorkerAcknowledge
<1>9. QED
  BY <1>3, <1>4, <1>5, <1>6, <1>7, <1>8, StepCases

LEMMA PlaceStep == IInv /\ ChannelInv /\ PlaceInv /\ SpentInv /\ [Next]_vars => PlaceInv'
<1> SUFFICES ASSUME IInv, ChannelInv, PlaceInv, SpentInv, [Next]_vars PROVE PlaceInv'
  OBVIOUS
<1> USE DEF PlaceInv, consumerVars, clientVars, workerVars, historyVars
<1>0. /\ TypeInv /\ inbox \in Seq(Delivery) /\ msgChan \in Seq(Delivery)
      /\ hand \in Delivery \cup {NoDelivery} /\ wmsg \in [Workers -> Delivery \cup {NoDelivery}]
  BY DEF IInv, TypeInv, TypeOK, DeliveryOrNone
<1>1. ASSUME UNCHANGED <<msgChan, wmsg, attempts>>, inbox' \in {inbox, <<>>},
             hand' \in {hand, NoDelivery}
      PROVE  PlaceInv'
  <2>1. Unstarted' \subseteq Unstarted
    BY <1>1, NoDeliveryAssumption DEF Unstarted
  <2>2. Apart'
    BY <1>1 DEF Apart
  <2>3. QED
    BY <1>1, <2>1, <2>2 DEF WorkersApart, StartedByWorkers, Started, AttemptedOncePerSession
<1>2. CASE Quiet \/ Discarded
  BY <1>1, <1>2 DEF Quiet, Discarded
<1>3. CASE Renewed
  <2>1. CASE UNCHANGED <<hand, msgChan, wmsg>>
    BY <1>1, <1>3, <2>1 DEF Renewed
  <2>2. CASE hand' = NoDelivery /\ msgChan' = <<>> /\ wmsg' = [w \in Workers |-> NoDelivery]
    <3>1. Unstarted' = {}
      BY <1>3, <2>2, NoDeliveryAssumption DEF Renewed, Unstarted
    <3>2. QED
      BY <1>3, <2>2, <3>1 DEF Renewed, Apart, WorkersApart, StartedByWorkers, AttemptedOncePerSession
  <2>3. QED
    BY <1>3, <2>1, <2>2 DEF Renewed
<1>4. ASSUME NEW m \in Msgs, Publish(m) PROVE PlaceInv'
  BY <1>1, <1>4 DEF Publish
<1>5. ASSUME NEW s \in Session, NEW m \in Msgs, Deliver(s, m) PROVE PlaceInv'
  <2> DEFINE new == [session |-> s, tag |-> lastTag[s] + 1, msg |-> m]
  <2>1. CASE inbox' = inbox
    BY <1>1, <1>5, <2>1 DEF Deliver
  <2>2. CASE inbox' = Append(inbox, new)
    <3>1. new \in Delivery /\ new.session = s /\ new.msg = m
      BY <1>0 DEF Delivery, TypeInv, TypeOK
    <3> HIDE DEF new
    <3>2. UNCHANGED <<hand, msgChan, wmsg, attempts>>
      BY <1>5 DEF Deliver
    <3>3. attempts[m][s] = 0 /\ \A d \in Unstarted : ~SameWork(d, new) /\ ~SameWork(new, d)
      BY <1>5, <3>1, PushIsNew DEF Deliver, Pushed, SameWork
    <3>4. \A i \in 1..Len(inbox') : \/ i \in 1..Len(inbox) /\ inbox'[i] = inbox[i]
                                    \/ i = Len(inbox) + 1 /\ inbox'[i] = new
      BY <1>0, <2>2, <3>1, AppendAt
    <3>5. /\ \A i \in 1..Len(inbox) : inbox[i] \in Unstarted
          /\ \A i \in 1..Len(msgChan) : msgChan[i] \in Unstarted
          /\ hand # NoDelivery => hand \in Unstarted
      BY <1>0 DEF Unstarted
    <3>6. Apart'
      <4> USE DEF Apart
      <4>1. \A i, j \in 1..Len(inbox') : SameWork(inbox'[i], inbox'[j]) => i = j
        <5> SUFFICES ASSUME NEW i \in 1..Len(inbox'), NEW j \in 1..Len(inbox'),
                            SameWork(inbox'[i], inbox'[j])
                     PROVE  i = j
          OBVIOUS
        <5>1. CASE i \in 1..Len(inbox) /\ inbox'[i] = inbox[i]
          BY <3>3, <3>4, <3>5, <5>1
        <5>2. CASE i = Len(inbox) + 1 /\ inbox'[i] = new
          BY <3>3, <3>4, <3>5, <5>2
        <5>3. QED
          BY <3>4, <5>1, <5>2
      <4>2. \A i \in 1..Len(inbox'), j \in 1..Len(msgChan) : ~SameWork(inbox'[i], msgChan[j])
        BY <3>3, <3>4, <3>5
      <4>3. hand # NoDelivery => \A i \in 1..Len(inbox') : ~SameWork(inbox'[i], hand)
        BY <3>3, <3>4, <3>5
      <4>4. QED
        BY <3>2, <4>1, <4>2, <4>3
    <3>7. Unstarted' \subseteq Unstarted \cup {new}
      BY <3>2, <3>4 DEF Unstarted
    <3>8. QED
      BY <3>1, <3>2, <3>3, <3>6, <3>7
         DEF WorkersApart, StartedByWorkers, Started, AttemptedOncePerSession
  <2>3. QED
    BY <1>5, <2>1, <2>2 DEF Deliver
<1>6. ASSUME NEW s \in Session, SessionDown(s) PROVE PlaceInv'
  BY <1>1, <1>6 DEF SessionDown
<1>7. CASE CancelledByBroker \/ BrokerRestart \/ ConsumeOk \/ HandBack
  BY <1>1, <1>7 DEF CancelledByBroker, BrokerRestart, ConsumeOk, HandBack
<1>8. CASE ReceiveDelivery
  <2>1. /\ hand = NoDelivery /\ hand' = inbox[1] /\ 1 \in 1..Len(inbox)
        /\ UNCHANGED <<msgChan, wmsg, attempts>> /\ Len(inbox') \in Nat
        /\ \A i \in 1..Len(inbox') : inbox'[i] = inbox[i + 1] /\ i + 1 \in 1..Len(inbox)
    BY <1>0, <1>8, TailAt DEF ReceiveDelivery, TypeInv, HandsFull
  <2>2. Apart'
    <3>1. \A i, j \in 1..Len(inbox') : SameWork(inbox'[i], inbox'[j]) => i = j
      BY <2>1 DEF Apart
    <3>2. \A i \in 1..Len(inbox') : ~SameWork(inbox'[i], hand')
      BY <2>1 DEF Apart
    <3>3. \A i \in 1..Len(msgChan) : ~SameWork(msgChan[i], hand')
      BY <2>1 DEF Apart, SameWork
    <3>4. \A i \in 1..Len(inbox'), j \in 1..Len(msgChan) : ~SameWork(inbox'[i], msgChan[j])
      BY <2>1 DEF Apart
    <3>5. QED
      BY <2>1, <3>1, <3>2, <3>3, <3>4 DEF Apart
  <2>3. Unstarted' \subseteq Unstarted
    BY <2>1 DEF Unstarted
  <2>4. QED
    BY <2>1, <2>2, <2>3 DEF WorkersApart, StartedByWorkers, Started, AttemptedOncePerSession
<1>9. CASE Handoff
  <2>1. /\ hand \in Delivery /\ hand # NoDelivery /\ hand' = NoDelivery
        /\ UNCHANGED <<inbox, wmsg, attempts>>
        /\ \A i \in 1..Len(msgChan') : \/ i \in 1..Len(msgChan) /\ msgChan'[i] = msgChan[i]
                                       \/ i = Len(msgChan) + 1 /\ msgChan'[i] = hand
    BY <1>0, <1>9, AppendAt DEF Handoff, TypeInv, HandsFull
  <2>2. Apart'
    <3>1. \A i, j \in 1..Len(msgChan') : SameWork(msgChan'[i], msgChan'[j]) => i = j
      BY <2>1 DEF Apart, SameWork
    <3>2. \A i \in 1..Len(inbox), j \in 1..Len(msgChan') : ~SameWork(inbox[i], msgChan'[j])
      BY <2>1 DEF Apart
    <3>3. QED
      BY <2>1, <3>1, <3>2 DEF Apart
  <2>3. Unstarted' \subseteq Unstarted
    BY <2>1, NoDeliveryAssumption DEF Unstarted
  <2>4. QED
    BY <2>1, <2>2, <2>3 DEF WorkersApart, StartedByWorkers, Started, AttemptedOncePerSession
<1>10. ASSUME NEW w \in Workers, WorkerReceive(w) PROVE PlaceInv'
  <2> DEFINE d == msgChan[1]
  <2>1. /\ d \in Unstarted /\ d \in Delivery
        /\ wmsg' = [wmsg EXCEPT ![w] = d]
        /\ \A m \in Msgs, s \in Session :
             attempts'[m][s] = IF m = d.msg /\ s = d.session
                                 THEN attempts[m][s] + 1 ELSE attempts[m][s]
    BY <1>0, <1>10, ReceiveStarts DEF Unstarted
  <2>2. /\ UNCHANGED <<inbox, hand>> /\ 1 \in 1..Len(msgChan) /\ Len(msgChan') \in Nat
        /\ \A i \in 1..Len(msgChan') : msgChan'[i] = msgChan[i + 1] /\ i + 1 \in 1..Len(msgChan)
    BY <1>0, <1>10, TailAt DEF WorkerReceive
  <2>3. d.msg \in Msgs /\ d.session \in Session
    BY <2>1 DEF Delivery
  <2>4. Apart'
    <3>1. \A i, j \in 1..Len(msgChan') : SameWork(msgChan'[i], msgChan'[j]) => i = j
      BY <2>2 DEF Apart
    <3>2. \A i \in 1..Len(inbox), j \in 1..Len(msgChan') : ~SameWork(inbox[i], msgChan'[j])
      BY <2>2 DEF Apart
    <3>3. hand # NoDelivery => \A i \in 1..Len(msgChan') : ~SameWork(msgChan'[i], hand)
      BY <2>2 DEF Apart
    <3>4. QED
      BY <2>2, <3>1, <3>2, <3>3 DEF Apart
  <2>5. Unstarted' \subseteq Unstarted /\ \A e \in Unstarted' : ~SameWork(e, d)
    <3>1. \A i \in 1..Len(inbox) : ~SameWork(inbox[i], d)
      BY <2>2 DEF Apart
    <3>2. \A i \in 1..Len(msgChan') : ~SameWork(msgChan'[i], d)
      BY <2>2 DEF Apart
    <3>3. hand # NoDelivery => ~SameWork(hand, d)
      BY <2>2 DEF Apart, SameWork
    <3>4. QED
      BY <2>2, <3>1, <3>2, <3>3, NoDeliveryAssumption DEF Unstarted
  <2>6. attempts[d.msg][d.session] = 0 /\ attempts'[d.msg][d.session] = 1
    BY <2>1, <2>3 DEF StartedByWorkers, Started
  <2>7. \A v \in Workers : wmsg[v] # NoDelivery => ~SameWork(wmsg[v], d)
    BY <2>6 DEF StartedByWorkers, Started, SameWork
  <2>8. \A e \in Delivery : e.msg \in Msgs /\ e.session \in Session
    BY DEF Delivery
  <2>9. \A e \in Delivery : ~SameWork(e, d) => attempts'[e.msg][e.session] = attempts[e.msg][e.session]
    BY <2>1, <2>8 DEF SameWork
  <2>10. WorkersApart'
    BY <1>0, <2>1, <2>7 DEF WorkersApart, SameWork
  <2>11. \A e \in Unstarted' : attempts'[e.msg][e.session] = 0
    BY <2>5, <2>9 DEF StartedByWorkers, Started, Unstarted
  <2>12. ASSUME NEW v \in Workers, wmsg'[v] # NoDelivery
         PROVE  attempts'[wmsg'[v].msg][wmsg'[v].session] = 1
    <3>1. CASE v = w
      BY <1>0, <2>1, <2>6, <3>1
    <3>2. CASE v # w
      <4>1. wmsg'[v] = wmsg[v] /\ wmsg[v] \in Delivery
        BY <1>0, <2>1, <2>12, <3>2
      <4>2. attempts'[wmsg[v].msg][wmsg[v].session] = attempts[wmsg[v].msg][wmsg[v].session]
        BY <2>7, <2>9, <2>12, <4>1
      <4>3. QED
        BY <2>12, <4>1, <4>2 DEF StartedByWorkers, Started
    <3>3. QED
      BY <3>1, <3>2
  <2>13. AttemptedOncePerSession'
    BY <2>1, <2>6 DEF StartedByWorkers, Started, AttemptedOncePerSession
  <2>14. QED
    BY <2>4, <2>10, <2>11, <2>12, <2>13 DEF StartedByWorkers, Started
<1>11. ASSUME NEW w \in Workers, WorkerAcknowledge(w) PROVE PlaceInv'
  <2>1. UNCHANGED <<inbox, hand, msgChan, attempts>> /\ wmsg' = [wmsg EXCEPT ![w] = NoDelivery]
    BY <1>11 DEF WorkerAcknowledge
  <2>2. \A v \in Workers : wmsg'[v] # NoDelivery => wmsg'[v] = wmsg[v]
    BY <1>0, <2>1
  <2>3. QED
    BY <2>1, <2>2 DEF Apart, Unstarted, WorkersApart, StartedByWorkers, Started, AttemptedOncePerSession
<1>12. QED
  BY <1>0, <1>2, <1>3, <1>4, <1>5, <1>6, <1>7, <1>8, <1>9, <1>10, <1>11, StepCases

(* What is settled leaves the process.                                     *)
LEMMA SettledIsGone ==
  ASSUME IInv, PlaceInv
  PROVE  /\ HandBack => hand \in Unstarted /\ hand \notin InProcess' /\ \A d \in Unstarted' : ~SameWork(d, hand)
         /\ \A w \in Workers : WorkerAcknowledge(w) => wmsg[w] \in InProcess /\ wmsg[w] \notin InProcess'
<1>0. /\ TypeInv /\ inbox \in Seq(Delivery) /\ msgChan \in Seq(Delivery)
      /\ wmsg \in [Workers -> Delivery \cup {NoDelivery}]
  BY DEF IInv, TypeInv, TypeOK, DeliveryOrNone
<1>1. \A w \in Workers : wmsg[w] # NoDelivery => wmsg[w] \notin Unstarted
  BY DEF PlaceInv, StartedByWorkers
<1>2. ASSUME HandBack
      PROVE  hand \in Unstarted /\ hand \notin InProcess' /\ \A d \in Unstarted' : ~SameWork(d, hand)
  <2>1. hand # NoDelivery /\ hand \in Delivery /\ hand \in Unstarted
    BY <1>2 DEF HandBack, IInv, TypeInv, TypeOK, HandsFull, DeliveryOrNone, Unstarted
  <2>2. hand' = NoDelivery /\ UNCHANGED <<inbox, msgChan, wmsg>>
    BY <1>2 DEF HandBack, clientVars, workerVars
  <2>3. \A w \in Workers : wmsg[w] # hand
    BY <1>1, <2>1
  <2>4. /\ \A i \in 1..Len(inbox) : ~SameWork(inbox[i], hand)
        /\ \A i \in 1..Len(msgChan) : ~SameWork(msgChan[i], hand)
    BY <2>1 DEF PlaceInv, Apart
  <2>5. \A d \in Unstarted' : ~SameWork(d, hand)
    BY <2>2, <2>4, NoDeliveryAssumption DEF Unstarted
  <2>6. QED
    BY <2>1, <2>2, <2>3, <2>4, <2>5 DEF InProcess, SameWork
<1>3. ASSUME NEW w \in Workers, WorkerAcknowledge(w)
      PROVE  wmsg[w] \in InProcess /\ wmsg[w] \notin InProcess'
  <2>1. wmsg[w] \in InProcess /\ wmsg[w] # NoDelivery /\ wmsg[w] \in Delivery
    BY <1>0, <1>3, WorkerKnown, NoDeliveryAssumption DEF WorkerAcknowledge, InProcess
  <2>2. /\ UNCHANGED <<inbox, msgChan, hand>> /\ wmsg' = [wmsg EXCEPT ![w] = NoDelivery]
    BY <1>3 DEF WorkerAcknowledge, clientVars, consumerVars
  <2>3. wmsg[w] \notin Unstarted
    BY <1>1, <2>1
  <2>4. \A v \in Workers : wmsg'[v] # wmsg[w]
    BY <1>0, <2>1, <2>2 DEF PlaceInv, WorkersApart, SameWork
  <2>5. QED
    BY <2>1, <2>2, <2>3, <2>4 DEF InProcess, Unstarted
<1>4. QED
  BY <1>2, <1>3

-----------------------------------------------------------------------------
(* What a live channel has brought stays accounted for.                    *)

LEMMA SpentStep == IInv /\ ChannelInv /\ PlaceInv /\ SpentInv /\ [Next]_vars => SpentInv'
<1> SUFFICES ASSUME IInv, ChannelInv, PlaceInv, SpentInv, [Next]_vars PROVE SpentInv'
  OBVIOUS
<1> USE DEF consumerVars, clientVars, workerVars, historyVars
<1> DEFINE Brought(m, s) == attempts[m][s] > 0 \/ \E d \in Unstarted : d.msg = m /\ d.session = s
           Kept(m, s) == m \in MsgsOf(HeldBy(s)) \cup Decided
<1>0. /\ TypeInv /\ session \in [Session -> {"down", "up", "consuming"}] /\ cur \in 0..MaxSessions
      /\ attempts \in [Msgs -> [Session -> Nat]]
  BY DEF IInv, TypeInv, TypeOK
<1>1. ASSUME NEW t \in Session, NEW n \in Msgs, Deliver(t, n) PROVE SpentInv'
  <2> DEFINE new == [session |-> t, tag |-> lastTag[t] + 1, msg |-> n]
  <2>1. /\ unacked' = unacked \cup {new} /\ new.session = t /\ new.msg = n
        /\ UNCHANGED <<acked, dead, lost, session, attempts, hand, msgChan>>
        /\ inbox' \in {inbox, Append(inbox, new)}
    BY <1>1 DEF Deliver, Pushed
  <2>2. new \in Delivery /\ inbox \in Seq(Delivery)
    BY DEF Delivery, IInv, TypeInv, TypeOK
  <2> HIDE DEF new
  <2>3. Unstarted' \subseteq Unstarted \cup {new}
    BY <2>1, <2>2, AppendAt DEF Unstarted
  <2>4. n \in MsgsOf(HeldBy(t))'
    BY <2>1 DEF MsgsOf, HeldBy
  <2>5. \A s \in Session : MsgsOf(HeldBy(s)) \subseteq MsgsOf(HeldBy(s))'
    BY <2>1 DEF MsgsOf, HeldBy
  <2>6. QED
    BY <2>1, <2>3, <2>4, <2>5 DEF SpentInv, Decided
<1>2. CASE \A t \in Session, n \in Msgs : ~Deliver(t, n)
  <2>1. Unstarted' \subseteq Unstarted
    BY <1>0, <1>2, UnstartedAfterOthers
  <2>2. ASSUME \A s \in Session : session'[s] # "down" => session[s] # "down" /\ HeldBy(s)' = HeldBy(s),
               Decided \subseteq Decided', attempts' = attempts
        PROVE  SpentInv'
    BY <2>1, <2>2 DEF SpentInv, MsgsOf
  <2>3. CASE Quiet \/ Discarded \/ ReceiveDelivery \/ Handoff
    BY <2>2, <2>3 DEF Quiet, Discarded, ReceiveDelivery, Handoff, brokerVars, HeldBy, Decided
  <2>4. CASE Renewed
    <3>1. CASE UNCHANGED brokerVars
      BY <2>2, <2>4, <3>1 DEF Renewed, brokerVars, HeldBy, Decided
    <3>2. CASE cur < MaxSessions /\ Opened(cur + 1)
      <4>1. /\ UNCHANGED <<unacked, acked, dead, lost, attempts>>
            /\ session' = [session EXCEPT ![cur + 1] = "up"]
        BY <2>4, <3>2 DEF Renewed, Opened
      <4>2. \A d \in Unstarted : d.session # cur + 1
        BY <1>0, UnstartedInProcess, KnownIsPast DEF Session
      <4>3. cur + 1 \in Session /\ \A m \in Msgs : attempts[m][cur + 1] = 0
        BY <1>0, <3>2 DEF ChannelInv, Session
      <4>4. QED
        BY <1>0, <2>1, <4>1, <4>2, <4>3 DEF SpentInv, MsgsOf, HeldBy, Decided
    <3>3. QED
      BY <2>4, <3>1, <3>2 DEF Renewed
  <2>5. ASSUME NEW n \in Msgs, Publish(n) PROVE SpentInv'
    BY <2>2, <2>5 DEF Publish, Enqueued, HeldBy, Decided
  <2>6. ASSUME NEW t \in Session, SessionDown(t) PROVE SpentInv'
    <3>1. /\ session' = [session EXCEPT ![t] = "down"] /\ unacked' = unacked \ HeldBy(t)
          /\ UNCHANGED <<acked, dead, lost, attempts>>
      BY <2>6 DEF SessionDown, Dropped
    <3>2. \A s \in Session : s # t => session'[s] = session[s] /\ HeldBy(s)' = HeldBy(s)
      BY <1>0, <3>1 DEF HeldBy
    <3>3. session'[t] = "down"
      BY <1>0, <3>1
    <3>4. QED
      BY <2>2, <3>1, <3>2, <3>3 DEF Decided
  <2>7. CASE CancelledByBroker \/ ConsumeOk
    <3>1. /\ session[cur] # "down" /\ \E to \in {"up", "consuming"} : session' = [session EXCEPT ![cur] = to]
          /\ UNCHANGED <<unacked, acked, dead, lost, attempts>>
      BY <2>7 DEF CancelledByBroker, Unsubscribed, ConsumeOk, Subscribed
    <3>2. QED
      BY <1>0, <2>2, <3>1 DEF HeldBy, Decided
  <2>8. CASE BrokerRestart
    BY <2>8 DEF BrokerRestart, Restarted, SpentInv
  <2>9. ASSUME NEW d \in InProcess, NEW how, Settle(d, how), attempts' = attempts,
               how = "requeue" => Started(d) = 0 /\ \A e \in Unstarted' : ~SameWork(e, d)
        PROVE  SpentInv'
    <3>1. CASE UNCHANGED brokerVars
      BY <2>2, <2>9, <3>1 DEF brokerVars, HeldBy, Decided
    <3>2. CASE ~UNCHANGED brokerVars
      <4>1. /\ d \in unacked /\ unacked' = unacked \ {d}
            /\ acked' = IF how = "ack" THEN acked \cup {d.msg} ELSE acked
            /\ dead' = IF how = "reject" THEN dead \cup {d.msg} ELSE dead
            /\ how \in {"ack", "reject", "requeue"}
            /\ UNCHANGED <<lost, session>>
        BY <2>9, <3>2, SettleEffect DEF IInv
      <4>2. Decided \subseteq Decided' /\ (how # "requeue" => d.msg \in Decided')
        BY <4>1 DEF Decided
      <4>3. d.msg \notin Decided /\ d.msg \in Msgs /\ d.session \in Session
        BY <1>0, <4>1 DEF ChannelInv, Outstanding, TypeInv, TypeOK, Delivery
      <4>4. \A e \in unacked : e.msg = d.msg => e = d
        BY <4>1 DEF IInv, CopyInv
      <4>5. \A m \in Msgs, s \in Session : m # d.msg /\ Kept(m, s) => Kept(m, s)'
        BY <4>1, <4>2 DEF MsgsOf, HeldBy
      <4>6. \A s \in Session : s # d.session => ~Kept(d.msg, s)
        BY <4>3, <4>4, <4>1 DEF MsgsOf, HeldBy
      <4>7. \A s \in Session : session[s] # "down" /\ s # d.session => ~Brought(d.msg, s)
        BY <4>3, <4>6 DEF SpentInv
      <4>8. \A m \in Msgs, s \in Session : Brought(m, s)' => Brought(m, s)
        BY <2>1, <2>9
      <4>9. how = "requeue" => ~Brought(d.msg, d.session)'
        BY <2>9, <4>3 DEF Started, SameWork
      <4>10. ASSUME NEW m \in Msgs, NEW s \in Session, session'[s] # "down", Brought(m, s)'
             PROVE  Kept(m, s)'
        <5>1. session[s] # "down" /\ Brought(m, s)
          BY <4>1, <4>8, <4>10
        <5>2. CASE m # d.msg
          BY <4>5, <5>1, <5>2 DEF SpentInv
        <5>3. CASE m = d.msg
          BY <4>2, <4>7, <4>9, <4>10, <5>1, <5>3
        <5>4. QED
          BY <5>2, <5>3
      <4>11. QED
        BY <4>10 DEF SpentInv
    <3>3. QED
      BY <3>1, <3>2
  <2>10. CASE HandBack
    <3>1. Settle(hand, "requeue") /\ attempts' = attempts
      BY <2>10 DEF HandBack
    <3>2. hand \in Unstarted /\ hand \in InProcess /\ \A e \in Unstarted' : ~SameWork(e, hand)
      BY <2>10, SettledIsGone, UnstartedInProcess
    <3>3. Started(hand) = 0
      BY <3>2 DEF PlaceInv, StartedByWorkers
    <3>4. QED
      BY <2>9, <3>1, <3>2, <3>3
  <2>11. ASSUME NEW w \in Workers, WorkerAcknowledge(w) PROVE SpentInv'
    <3>1. wmsg[w] \in InProcess /\ attempts' = attempts
          /\ (Settle(wmsg[w], "ack") \/ Settle(wmsg[w], "reject"))
      BY <2>11, SettledIsGone DEF WorkerAcknowledge
    <3>2. QED
      BY <2>9, <3>1
  <2>12. ASSUME NEW w \in Workers, WorkerReceive(w) PROVE SpentInv'
    <3> DEFINE d == msgChan[1]
    <3>1. UNCHANGED brokerVars
      BY <2>12 DEF WorkerReceive
    <3>2. /\ d \in Unstarted
          /\ \A m \in Msgs, s \in Session :
               attempts'[m][s] = IF m = d.msg /\ s = d.session THEN attempts[m][s] + 1 ELSE attempts[m][s]
      BY <1>0, <2>12, ReceiveStarts
    <3>3. \A m \in Msgs, s \in Session : Brought(m, s)' => Brought(m, s)
      BY <2>1, <3>2
    <3>4. QED
      BY <3>1, <3>3 DEF SpentInv, brokerVars, MsgsOf, HeldBy, Decided
  <2>13. QED
    BY <1>0, <1>2, <2>3, <2>4, <2>5, <2>6, <2>7, <2>8, <2>10, <2>11, <2>12, StepCases
<1>3. QED
  BY <1>1, <1>2

-----------------------------------------------------------------------------
(* On a usable channel the process and the broker agree.                   *)

(* A usable channel is the one it was, unless the client has opened one.   *)
LEMMA ChannelBefore ==
  ASSUME TypeInv, [Next]_vars, ~Renewed
  PROVE  cur' = cur /\ (ChanUsable' => ChanUsable) /\ (chan' = "released" => chan = "released" \/ CloseClient)
<1> USE DEF ChanUsable, clientVars
<1>1. CASE Quiet \/ Discarded \/ ReceiveDelivery \/ Handoff \/ HandBack \/ BrokerRestart \/ CancelledByBroker
           \/ ConsumeOk
  BY <1>1 DEF Quiet, Discarded, ReceiveDelivery, Handoff, HandBack, BrokerRestart, CancelledByBroker, ConsumeOk
<1>2. CASE \/ \E m \in Msgs : Publish(m)
           \/ \E s \in Session, m \in Msgs : Deliver(s, m)
           \/ \E s \in Session : SessionDown(s)
           \/ \E w \in Workers : WorkerReceive(w) \/ WorkerAcknowledge(w)
  BY <1>2 DEF Publish, Deliver, SessionDown, WorkerReceive, WorkerAcknowledge
<1>3. QED
  BY <1>1, <1>2, StepCases

(* What the broker keeps of a channel, through everything but a push and a *)
(* settlement, as long as the channel lives.                               *)
LEMMA HeldAfterOthers ==
  ASSUME TypeInv, [Next]_vars, \A s \in Session, m \in Msgs : ~Deliver(s, m), ~HandBack,
         \A w \in Workers : ~WorkerAcknowledge(w)
  PROVE  \A s \in Session : session'[s] # "down" => HeldBy(s)' = HeldBy(s)
<1> DEFINE Goal == \A s \in Session : session'[s] # "down" => HeldBy(s)' = HeldBy(s)
<1>1. CASE Quiet \/ Discarded \/ ReceiveDelivery \/ Handoff \/ Renewed \/ CancelledByBroker \/ ConsumeOk
  BY <1>1 DEF Quiet, Discarded, ReceiveDelivery, Handoff, Renewed, Opened, CancelledByBroker, Unsubscribed,
              ConsumeOk, Subscribed, brokerVars, HeldBy
<1>2. ASSUME NEW m \in Msgs, Publish(m) PROVE Goal
  BY <1>2 DEF Publish, Enqueued, HeldBy
<1>3. ASSUME NEW t \in Session, SessionDown(t) PROVE Goal
  <2>1. session' = [session EXCEPT ![t] = "down"] /\ unacked' = unacked \ HeldBy(t)
    BY <1>3 DEF SessionDown, Dropped
  <2>2. session'[t] = "down" /\ \A s \in Session : s # t => HeldBy(s)' = HeldBy(s)
    BY <2>1 DEF HeldBy, TypeInv, TypeOK
  <2>3. QED
    BY <2>2
<1>4. CASE BrokerRestart
  BY <1>4 DEF BrokerRestart, Restarted
<1>5. ASSUME NEW w \in Workers, WorkerReceive(w) PROVE Goal
  BY <1>5 DEF WorkerReceive, brokerVars, HeldBy
<1>6. QED
  BY <1>1, <1>2, <1>3, <1>4, <1>5, StepCases

(* A channel that is up has not been down, unless it has been opened.      *)
LEMMA SessionBefore ==
  ASSUME IInv, [Next]_vars, ~Renewed
  PROVE  \A s \in Session : session'[s] # "down" => session[s] # "down"
<1> DEFINE Goal == \A s \in Session : session'[s] # "down" => session[s] # "down"
<1>0. TypeInv /\ session \in [Session -> {"down", "up", "consuming"}]
  BY DEF IInv, TypeInv, TypeOK
<1>1. CASE Quiet \/ Discarded \/ ReceiveDelivery \/ Handoff
  BY <1>1 DEF Quiet, Discarded, ReceiveDelivery, Handoff, brokerVars
<1>2. CASE CancelledByBroker \/ ConsumeOk \/ BrokerRestart
  BY <1>0, <1>2 DEF CancelledByBroker, Unsubscribed, ConsumeOk, Subscribed, BrokerRestart, Restarted
<1>3. CASE HandBack \/ \E w \in Workers : WorkerAcknowledge(w)
  BY <1>0, <1>3 DEF HandBack, WorkerAcknowledge, Settle, Settled, brokerVars
<1>4. CASE \/ \E m \in Msgs : Publish(m)
           \/ \E s \in Session, m \in Msgs : Deliver(s, m)
           \/ \E s \in Session : SessionDown(s)
           \/ \E w \in Workers : WorkerReceive(w)
  BY <1>0, <1>4 DEF Publish, Enqueued, Deliver, Pushed, SessionDown, Dropped, WorkerReceive, brokerVars
<1>5. QED
  BY <1>0, <1>1, <1>2, <1>3, <1>4, StepCases

(* A settlement takes away what it settles and nothing else.               *)
LEMMA HeldAfterSettle ==
  ASSUME IInv, PlaceInv, HandBack \/ \E w \in Workers : WorkerAcknowledge(w)
  PROVE  \A d \in unacked : d \notin unacked' => d \notin InProcess'
<1>1. CASE HandBack
  <2>1. Settle(hand, "requeue") /\ hand \in InProcess /\ hand \notin InProcess'
    BY <1>1, SettledIsGone, UnstartedInProcess DEF HandBack
  <2>2. UNCHANGED brokerVars \/ unacked' = unacked \ {hand}
    BY <2>1, SettleEffect DEF IInv
  <2>3. QED
    BY <2>1, <2>2 DEF brokerVars
<1>2. ASSUME NEW w \in Workers, WorkerAcknowledge(w)
      PROVE  \A d \in unacked : d \notin unacked' => d \notin InProcess'
  <2>1. /\ wmsg[w] \in InProcess /\ wmsg[w] \notin InProcess'
        /\ Settle(wmsg[w], "ack") \/ Settle(wmsg[w], "reject")
    BY <1>2, SettledIsGone DEF WorkerAcknowledge
  <2>2. UNCHANGED brokerVars \/ unacked' = unacked \ {wmsg[w]}
    BY <2>1, SettleEffect DEF IInv
  <2>3. QED
    BY <2>1, <2>2 DEF brokerVars
<1>3. QED
  BY <1>1, <1>2

LEMMA LiveStep ==
  IInv /\ ChannelInv /\ PlaceInv /\ LiveInv /\ [Next]_vars => LiveInv'
<1> SUFFICES ASSUME IInv, ChannelInv, PlaceInv, LiveInv, [Next]_vars,
                    ChanUsable', session'[cur'] # "down",
                    NEW d \in InProcess', d.session = cur'
             PROVE  d \in unacked'
  BY DEF LiveInv
<1>0. TypeInv /\ cur \in 0..MaxSessions
  BY DEF IInv, TypeInv, TypeOK
<1>1. CASE \E s \in Session, m \in Msgs : Deliver(s, m)
  <2> PICK s \in Session, m \in Msgs : Deliver(s, m)
    BY <1>1
  <2> DEFINE new == [session |-> s, tag |-> lastTag[s] + 1, msg |-> m]
  <2>1. /\ unacked' = unacked \cup {new}
        /\ UNCHANGED <<cur, chan, session>>
    BY DEF Deliver, Pushed
  <2>2. d \in Known \cup {new}
    BY KnownAfterDeliver, <1>0 DEF Known
  <2>3. QED
    BY <2>1, <2>2 DEF LiveInv, ChanUsable, Known
<1>2. CASE \A s \in Session, m \in Msgs : ~Deliver(s, m)
  <2>1. d \in InProcess
    BY <1>0, <1>2, KnownAfterOthers
  <2>2. d.session \in Session /\ d.session <= cur
    BY <2>1, KnownIsPast, UnstartedInProcess
  <2>3. ~Renewed
    BY <1>0, <2>2 DEF Renewed, ChanUsable
  <2>4. cur' = cur /\ ChanUsable /\ session[cur] # "down"
    BY <1>0, <2>2, <2>3, ChannelBefore, SessionBefore
  <2>5. d \in unacked
    BY <2>1, <2>4 DEF LiveInv
  <2>6. CASE HandBack \/ \E w \in Workers : WorkerAcknowledge(w)
    BY <2>5, <2>6, HeldAfterSettle
  <2>7. CASE ~HandBack /\ \A w \in Workers : ~WorkerAcknowledge(w)
    <3>1. HeldBy(cur)' = HeldBy(cur)
      BY <1>0, <1>2, <2>2, <2>4, <2>7, HeldAfterOthers
    <3>2. QED
      BY <2>4, <2>5, <3>1 DEF HeldBy
  <2>8. QED
    BY <2>6, <2>7
<1>3. QED
  BY <1>1, <1>2

-----------------------------------------------------------------------------
(* Started work stays with its worker until it is settled.                 *)

(* No worker is active once main has reached the end of its shutdown.      *)
LEMMA WorkersGone ==
  ASSUME IInv, NoSendOnClosed, main \in {"flushing", "exited"}
  PROVE  \A w \in Workers : wmsg[w] = NoDelivery /\ ~WorkerReceive(w) /\ ~WorkerAcknowledge(w)
BY DEF IInv, TypeInv, HandsFull, NoSendOnClosed, ResultChannelClosed, WorkerReceive, WorkerAcknowledge

(* On a usable channel started work that is still held has its worker.     *)
HasWorker == ChanUsable => \A d \in HeldBy(cur) : Started(d) > 0 => \E w \in Workers : wmsg[w] = d

LEMMA HasWorkerStep ==
  IInv /\ ChannelInv /\ PlaceInv /\ SpentInv /\ LiveInv /\ StartedInv /\ [Next]_vars => HasWorker'
<1> SUFFICES ASSUME IInv, ChannelInv, PlaceInv, SpentInv, LiveInv, StartedInv, [Next]_vars,
                    ChanUsable', NEW d \in HeldBy(cur)', Started(d)' > 0
             PROVE  \E w \in Workers : wmsg'[w] = d
  BY DEF HasWorker
<1>0. /\ TypeInv /\ cur \in 0..MaxSessions /\ attempts \in [Msgs -> [Session -> Nat]]
      /\ session \in [Session -> {"down", "up", "consuming"}] /\ unacked \subseteq Delivery
      /\ wmsg \in [Workers -> Delivery \cup {NoDelivery}]
  BY DEF IInv, TypeInv, TypeOK, DeliveryOrNone
<1>1. ~Renewed
  <2> SUFFICES ASSUME Renewed PROVE FALSE
    OBVIOUS
  <2>1. cur < MaxSessions /\ cur' = cur + 1 /\ unacked' = unacked
    BY DEF Renewed, Opened, ChanUsable
  <2>2. cur + 1 \in Session
    BY <1>0, <2>1 DEF Session
  <2>3. HeldBy(cur + 1) = {}
    BY <1>0, <2>2 DEF ChannelInv
  <2>4. QED
    BY <2>1, <2>3 DEF HeldBy
<1>2. cur' = cur /\ ChanUsable /\ cur \in Session /\ d.session = cur /\ d \in unacked'
  BY <1>0, <1>1, ChannelBefore DEF StartedInv, HeldBy
<1>3. ASSUME NEW s \in Session, NEW m \in Msgs, Deliver(s, m) PROVE \E w \in Workers : wmsg'[w] = d
  <2> DEFINE new == [session |-> s, tag |-> lastTag[s] + 1, msg |-> m]
  <2>1. /\ unacked' = unacked \cup {new} /\ session[s] = "consuming" /\ m \in ready
        /\ UNCHANGED <<wmsg, attempts>> /\ new.msg = m /\ new.session = s
    BY <1>3 DEF Deliver, Pushed, workerVars, historyVars
  <2>2. attempts[m][s] = 0
    BY <2>1, PushIsNew
  <2>3. d # new
    BY <2>1, <2>2 DEF Started
  <2>4. d \in HeldBy(cur)
    BY <1>2, <2>1, <2>3 DEF HeldBy
  <2>5. QED
    BY <1>2, <2>1, <2>4 DEF StartedInv, Started
<1>4. CASE \A s \in Session, m \in Msgs : ~Deliver(s, m)
  <2>1. d \in unacked /\ d \in HeldBy(cur) /\ d \in Delivery
    BY <1>0, <1>2, <1>4, KnownAfterOthers DEF HeldBy
  <2>2. d.msg \in Msgs /\ session[cur] # "down"
    BY <1>2, <2>1 DEF Delivery, ChannelInv
  <2>3. ASSUME UNCHANGED <<wmsg, attempts>> PROVE \E w \in Workers : wmsg'[w] = d
    BY <1>2, <2>1, <2>3 DEF StartedInv, Started
  <2>4. CASE \/ Quiet \/ Discarded \/ CancelledByBroker \/ BrokerRestart \/ ConsumeOk
             \/ ReceiveDelivery \/ Handoff \/ HandBack
    BY <2>3, <2>4 DEF Quiet, Discarded, CancelledByBroker, BrokerRestart, ConsumeOk, ReceiveDelivery,
                      Handoff, HandBack, workerVars, historyVars
  <2>5. CASE (\E m \in Msgs : Publish(m)) \/ (\E s \in Session : SessionDown(s))
    BY <2>3, <2>5 DEF Publish, SessionDown, workerVars, historyVars
  <2>6. ASSUME NEW w \in Workers, WorkerReceive(w) PROVE \E v \in Workers : wmsg'[v] = d
    <3> DEFINE e == msgChan[1]
    <3>1. /\ e \in Unstarted /\ wmsg[w] = NoDelivery /\ wmsg' = [wmsg EXCEPT ![w] = e]
          /\ attempts'[d.msg][cur] = IF d.msg = e.msg /\ cur = e.session
                                       THEN attempts[d.msg][cur] + 1 ELSE attempts[d.msg][cur]
      BY <1>0, <1>2, <2>2, <2>6, ReceiveStarts
    <3>2. CASE d.msg = e.msg /\ cur = e.session
      <4>1. e \in unacked
        BY <1>2, <2>2, <3>1, <3>2, UnstartedInProcess DEF LiveInv
      <4>2. d = e
        BY <2>1, <3>2, <4>1 DEF IInv, CopyInv
      <4>3. QED
        BY <1>0, <3>1, <4>2
    <3>3. CASE ~(d.msg = e.msg /\ cur = e.session)
      <4>1. Started(d) > 0
        BY <1>2, <3>1, <3>3 DEF Started
      <4>2. PICK v \in Workers : wmsg[v] = d
        BY <1>2, <2>1, <4>1 DEF StartedInv
      <4>3. v # w
        BY <2>1, <3>1, <4>2, NoDeliveryAssumption
      <4>4. QED
        BY <1>0, <3>1, <4>2, <4>3
    <3>4. QED
      BY <3>2, <3>3
  <2>7. ASSUME NEW w \in Workers, WorkerAcknowledge(w) PROVE \E v \in Workers : wmsg'[v] = d
    <3>1. attempts' = attempts /\ wmsg' = [wmsg EXCEPT ![w] = NoDelivery]
      BY <2>7 DEF WorkerAcknowledge, historyVars
    <3>2. PICK v \in Workers : wmsg[v] = d
      BY <1>2, <2>1, <3>1 DEF StartedInv, Started
    <3>3. v # w
      <4> SUFFICES ASSUME wmsg[w] = d PROVE FALSE
        BY <3>2
      <4>1. \E how : Settled(d.session, d.tag, how)
        BY <1>2, <2>2, <2>7 DEF WorkerAcknowledge, Settle, AckSession
      <4>2. d \notin unacked'
        BY <2>1, <4>1 DEF Settled, Tagged
      <4>3. QED
        BY <1>2, <4>2
    <3>4. QED
      BY <1>0, <3>1, <3>2, <3>3
  <2>8. QED
    BY <1>0, <1>1, <1>4, <2>4, <2>5, <2>6, <2>7, StepCases
<1>5. QED
  BY <1>3, <1>4

(* The client is closed only at the end of main, and stays so.             *)
LEMMA ReleasedStep ==
  ASSUME IInv, StartedInv, [Next]_vars, chan' = "released"
  PROVE  /\ chan # "released" => CloseClient /\ ChanUsable
         /\ chan = "released" => main = "exited"
         /\ main' = "exited" /\ ~Renewed /\ cur' = cur
<1>1. ~Renewed
  BY DEF Renewed
<1>2. cur' = cur /\ (chan = "released" \/ CloseClient)
  BY <1>1, ChannelBefore DEF IInv
<1>3. CASE CloseClient
  BY <1>1, <1>2, <1>3 DEF CloseClient, StartedInv
<1>4. CASE chan = "released" /\ ~CloseClient
  <2>1. main = "exited"
    BY <1>4 DEF StartedInv
  <2>2. main' = main \/ (main = "exited" => main' = "exited")
    <3>1. CASE Quiet \/ Discarded \/ CancelledByBroker \/ BrokerRestart \/ ConsumeOk \/ ReceiveDelivery
               \/ Handoff \/ HandBack
      BY <3>1 DEF Quiet, Discarded, CancelledByBroker, BrokerRestart, ConsumeOk, ReceiveDelivery, Handoff,
                  HandBack
    <3>2. CASE \/ \E m \in Msgs : Publish(m)
               \/ \E s \in Session, m \in Msgs : Deliver(s, m)
               \/ \E s \in Session : SessionDown(s)
               \/ \E w \in Workers : WorkerReceive(w) \/ WorkerAcknowledge(w)
      BY <3>2 DEF Publish, Deliver, SessionDown, WorkerReceive, WorkerAcknowledge
    <3>3. QED
      BY <1>1, <3>1, <3>2, StepCases DEF IInv
  <2>3. QED
    BY <1>1, <1>2, <1>4, <2>1, <2>2
<1>5. QED
  BY <1>2, <1>3, <1>4

LEMMA StartedStep ==
  IInv /\ NoSendOnClosed /\ ChannelInv /\ PlaceInv /\ SpentInv /\ LiveInv /\ StartedInv /\ [Next]_vars
    => StartedInv'
<1> SUFFICES ASSUME IInv, NoSendOnClosed, ChannelInv, PlaceInv, SpentInv, LiveInv, StartedInv, [Next]_vars
             PROVE  StartedInv'
  OBVIOUS
<1>0. TypeInv /\ cur \in 0..MaxSessions /\ unacked \subseteq Delivery /\ attempts \in [Msgs -> [Session -> Nat]]
  BY DEF IInv, TypeInv, TypeOK
<1>1. ChanUsable' => cur' \in Session
  <2>1. CASE Renewed
    BY <1>0, <2>1 DEF Renewed, Session, ChanUsable
  <2>2. CASE ~Renewed
    BY <1>0, <2>2, ChannelBefore DEF StartedInv, Session
  <2>3. QED
    BY <2>1, <2>2
<1>2. HasWorker'
  BY HasWorkerStep
<1>3. chan' = "released" => main' = "exited"
  BY ReleasedStep
<1>4. ASSUME chan' = "released", NEW d \in HeldBy(cur)' PROVE attempts'[d.msg][cur'] = 0
  <2>1. cur' = cur /\ ~Renewed /\ main' = "exited"
    BY <1>4, ReleasedStep
  <2>2. main \in {"flushing", "exited"}
    BY <1>4, ReleasedStep DEF CloseClient
  <2>3. \A w \in Workers : wmsg[w] = NoDelivery /\ ~WorkerReceive(w) /\ ~WorkerAcknowledge(w)
    BY <2>2, WorkersGone
  <2>4. attempts' = attempts
    <3>1. CASE Quiet \/ Discarded \/ CancelledByBroker \/ BrokerRestart \/ ConsumeOk \/ ReceiveDelivery
               \/ Handoff \/ HandBack
      BY <3>1 DEF Quiet, Discarded, CancelledByBroker, BrokerRestart, ConsumeOk, ReceiveDelivery, Handoff,
                  HandBack, historyVars
    <3>2. CASE \/ \E m \in Msgs : Publish(m)
               \/ \E s \in Session, m \in Msgs : Deliver(s, m)
               \/ \E s \in Session : SessionDown(s)
      BY <3>2 DEF Publish, Deliver, SessionDown, historyVars
    <3>3. QED
      BY <1>0, <2>1, <2>3, <3>1, <3>2, StepCases
  <2>5. ASSUME d \in HeldBy(cur) PROVE attempts[d.msg][cur] = 0
    <3>1. CASE chan = "released"
      BY <2>5, <3>1 DEF StartedInv, StartedIsSettledAtClose
    <3>2. CASE chan # "released"
      <4>1. ChanUsable /\ cur \in Session /\ d \in Delivery /\ d.session = cur
        BY <1>0, <1>4, <2>5, <3>2, ReleasedStep DEF StartedInv, HeldBy
      <4>2. attempts[d.msg][cur] \in Nat
        BY <1>0, <4>1 DEF Delivery
      <4>3. ~(Started(d) > 0)
        BY <2>3, <2>5, <4>1, NoDeliveryAssumption DEF StartedInv
      <4>4. QED
        BY <4>1, <4>2, <4>3 DEF Started
    <3>3. QED
      BY <3>1, <3>2
  <2>6. ASSUME NEW s \in Session, NEW m \in Msgs, Deliver(s, m) PROVE attempts[d.msg][cur] = 0
    <3> DEFINE new == [session |-> s, tag |-> lastTag[s] + 1, msg |-> m]
    <3>1. /\ unacked' = unacked \cup {new} /\ session[s] = "consuming" /\ m \in ready
          /\ new.msg = m /\ new.session = s
      BY <2>6 DEF Deliver, Pushed
    <3>2. attempts[m][s] = 0
      BY <3>1, PushIsNew
    <3>3. d = new \/ d \in HeldBy(cur)
      BY <2>1, <1>4, <3>1 DEF HeldBy
    <3>4. d.session = cur
      BY <2>1, <1>4 DEF HeldBy
    <3>5. QED
      BY <2>5, <3>1, <3>2, <3>3, <3>4
  <2>7. CASE \A s \in Session, m \in Msgs : ~Deliver(s, m)
    BY <1>0, <1>4, <2>1, <2>4, <2>5, <2>7, KnownAfterOthers DEF HeldBy
  <2>8. QED
    BY <2>1, <2>4, <2>6, <2>5, <2>7
<1>5. QED
  BY <1>1, <1>2, <1>3, <1>4 DEF StartedInv, HasWorker, StartedIsSettledAtClose

(* What came on one channel is bounded by its prefetch: only a push to the *)
(* current channel adds to it, and all of that is still unacknowledged.    *)
LEMMA PrefetchStep ==
  IInv /\ ChannelInv /\ PlaceInv /\ LiveInv /\ PrefetchInv /\ [Next]_vars => PrefetchInv'
<1> SUFFICES ASSUME IInv, ChannelInv, PlaceInv, LiveInv, PrefetchInv, [Next]_vars PROVE PrefetchInv'
  OBVIOUS
<1>0. TypeInv /\ ChannelInv' /\ LiveInv' /\ InProcess \subseteq Delivery
  BY ChannelStep, LiveStep DEF IInv, InProcess
<1> SUFFICES ASSUME NEW s \in Session
             PROVE  IsFiniteSet(InProcessOf(s)') /\ Cardinality(InProcessOf(s)') <= Prefetch
  BY DEF PrefetchInv
<1>1. ASSUME InProcessOf(s)' \subseteq InProcessOf(s)
      PROVE  IsFiniteSet(InProcessOf(s)') /\ Cardinality(InProcessOf(s)') <= Prefetch
  BY <1>1, Shrinks DEF PrefetchInv
<1>2. CASE \A t \in Session, m \in Msgs : ~Deliver(t, m)
  <2>1. InProcess' \subseteq InProcess
    BY <1>0, <1>2, KnownAfterOthers
  <2>2. QED
    BY <1>1, <2>1 DEF InProcessOf
<1>3. ASSUME NEW t \in Session, NEW m \in Msgs, Deliver(t, m)
      PROVE  IsFiniteSet(InProcessOf(s)') /\ Cardinality(InProcessOf(s)') <= Prefetch
  <2> DEFINE new == [session |-> t, tag |-> lastTag[t] + 1, msg |-> m]
  <2>1. /\ UNCHANGED <<hand, msgChan, wmsg, cur, chan, session>> /\ session[t] = "consuming"
        /\ inbox' = IF t = cur /\ chan = "open" THEN Append(inbox, new) ELSE inbox
    BY <1>3 DEF Deliver, Pushed, consumerVars, workerVars
  <2>2. CASE s = cur /\ t = cur /\ chan = "open"
    <3>1. ChanUsable' /\ session'[cur'] # "down"
      BY <2>1, <2>2 DEF ChanUsable
    <3>2. InProcessOf(s)' \subseteq HeldBy(s)'
      BY <1>0, <2>1, <2>2, <3>1 DEF LiveInv, InProcessOf, HeldBy
    <3>3. IsFiniteSet(HeldBy(s)') /\ Cardinality(HeldBy(s)') <= Prefetch
      BY <1>0 DEF ChannelInv
    <3>4. QED
      BY <3>2, <3>3, Shrinks
  <2>3. CASE ~(s = cur /\ t = cur /\ chan = "open")
    <3>1. ASSUME NEW d \in InProcess', d.session = s PROVE d \in InProcess
      <4>1. CASE inbox' = inbox
        BY <2>1, <3>1, <4>1 DEF InProcess
      <4>2. CASE inbox' = Append(inbox, new) /\ s # t
        <5>1. new.session = t /\ d \in Delivery
          BY <3>1 DEF InProcess
        <5>2. d # new
          BY <3>1, <4>2, <5>1
        <5>3. inbox \in Seq(Delivery) /\ new \in Delivery
          BY <1>0, <1>3 DEF TypeInv, TypeOK, Delivery
        <5>4. (\E i \in 1..Len(inbox') : d = inbox'[i]) => \E i \in 1..Len(inbox) : d = inbox[i]
          BY <4>2, <5>2, <5>3, AppendAt
        <5>5. QED
          BY <2>1, <3>1, <5>1, <5>4 DEF InProcess
      <4>3. QED
        BY <2>1, <2>3, <4>1, <4>2
    <3>2. QED
      BY <1>1, <3>1 DEF InProcessOf
  <2>4. QED
    BY <2>2, <2>3
<1>4. QED
  BY <1>2, <1>3

LEMMA InitDInv == Init => DInv
<1> SUFFICES ASSUME Init PROVE DInv
  OBVIOUS
<1> USE DEF Init, BrokerInit
<1>1. Unstarted = {} /\ InProcess = {}
  BY NoDeliveryAssumption DEF Unstarted, InProcess
<1>2. ASSUME NEW s \in Session
      PROVE  /\ HeldBy(s) = {} /\ IsFiniteSet(HeldBy(s)) /\ Cardinality(HeldBy(s)) <= Prefetch
             /\ IsFiniteSet(InProcessOf(s)) /\ Cardinality(InProcessOf(s)) <= Prefetch
  <2>1. HeldBy(s) = {} /\ InProcessOf(s) = {}
    BY <1>1 DEF HeldBy, InProcessOf
  <2>2. IsFiniteSet({}) /\ Cardinality({}) <= Prefetch
    BY FS_EmptySet
  <2>3. QED
    BY <2>1, <2>2
<1>3. ChannelInv
  BY <1>2 DEF ChannelInv, Decided, Outstanding, Session
<1>4. PlaceInv
  BY <1>1 DEF PlaceInv, Apart, WorkersApart, StartedByWorkers, AttemptedOncePerSession
<1>5. SpentInv /\ LiveInv /\ StartedInv
  BY <1>1 DEF SpentInv, LiveInv, StartedInv, StartedIsSettledAtClose, ChanUsable
<1>6. PrefetchInv
  BY <1>2 DEF PrefetchInv
<1>7. QED
  BY <1>3, <1>4, <1>5, <1>6 DEF DInv

LEMMA DeliveryInvariance == Spec => [](IInv /\ DInv)
<1>1. Init => IInv /\ NoSendOnClosed /\ DInv
  BY InitIInv, InitDInv DEF Init, NoSendOnClosed, MessageChannelClosed, ResultChannelClosed
<1>2. IInv /\ NoSendOnClosed /\ DInv /\ [Next]_vars => (IInv /\ NoSendOnClosed /\ DInv)'
  BY IInvStep, ShutdownStep, ChannelStep, PlaceStep, SpentStep, LiveStep, StartedStep, PrefetchStep
     DEF IInv, DInv
<1>3. QED
  BY <1>1, <1>2, PTL DEF Spec

-----------------------------------------------------------------------------
(* The properties.                                                         *)

(* Nacks, requeues, the hand-back at shutdown and the drain of             *)
(* MessageChannel never start a message twice on the channel it came on:   *)
(* work is repeated only after a reconnect (consumeOnce, acknowledge).     *)
THEOREM AttemptsRepeatOnlyAcrossChannels == Spec => []AttemptedOncePerSession
<1>1. DInv => AttemptedOncePerSession
  BY DEF DInv, PlaceInv, StartedByWorkers
<1>2. QED
  BY <1>1, DeliveryInvariance, PTL

(* On a live channel the consumer and the workers settle only tags the     *)
(* broker knows, so no settlement makes it close the channel (consumeOnce, *)
(* JobWorker).                                                             *)
THEOREM SettledTagsAreKnown == Spec => []TagsKnown
<1>1. TypeInv /\ LiveInv => TagsKnown
  BY NoDeliveryAssumption DEF TypeInv, TypeOK, DeliveryOrNone, LiveInv, InProcess, TagsKnown
<1>2. IInv /\ DInv => TagsKnown
  BY <1>1 DEF IInv, DInv
<1>3. QED
  BY <1>2, DeliveryInvariance, PTL

(* When main closes a connection that was still open, no worker has left a *)
(* message of it unsettled, so a graceful shutdown repeats no work (the    *)
(* order of main's deferred calls, the drain of Manager.Start's stop).     *)
THEOREM ShutdownSettlesStartedWork == Spec => []StartedIsSettledAtClose
<1>1. DInv => StartedIsSettledAtClose
  BY DEF DInv, StartedInv
<1>2. QED
  BY <1>1, DeliveryInvariance, PTL

(* Were all of a full MessageChannel and the consumer's hand from one      *)
(* channel, it would have sent more than its prefetch.                     *)
LEMMA HandoffBlocks == IInv /\ DInv => HandoffBlocksOnlyOnStale
<1> SUFFICES ASSUME IInv, DInv, consumer = "handoff", Len(msgChan) = Buffer,
                    \A i \in 1..Len(msgChan) : msgChan[i].session = hand.session
             PROVE  FALSE
  BY DEF HandoffBlocksOnlyOnStale
<1> DEFINE s == hand.session
           place == [i \in 0..Buffer |-> IF i = 0 THEN hand ELSE msgChan[i]]
<1>1. hand \in Delivery /\ hand # NoDelivery /\ msgChan \in Seq(Delivery) /\ s \in Session
  BY DEF IInv, TypeInv, TypeOK, HandsFull, DeliveryOrNone, Delivery
<1>2. IsFiniteSet(InProcessOf(s)) /\ Cardinality(InProcessOf(s)) <= Prefetch
  BY <1>1 DEF DInv, PrefetchInv
<1>3. Buffer = Prefetch /\ Buffer \in Nat
  BY DEF Buffer
<1>4. place \in [0..Buffer -> InProcessOf(s)]
  BY <1>1, <1>3 DEF InProcessOf, InProcess
<1>5. IsFiniteSet(0..Buffer) /\ Cardinality(0..Buffer) = Buffer + 1
  BY <1>3, FS_Interval
<1>6. Cardinality(InProcessOf(s)) < Cardinality(0..Buffer)
  BY <1>2, <1>3, <1>5, FS_CardinalityType
<1>7. \E i, j \in 0..Buffer : i # j /\ place[i] = place[j]
  <2> HIDE DEF place
  <2>1. QED
    BY <1>2, <1>4, <1>5, <1>6, FS_PigeonHole
<1>8. Apart
  BY DEF DInv, PlaceInv
<1>9. PICK i \in 0..Buffer, j \in 0..Buffer : i # j /\ place[i] = place[j]
  BY <1>7
<1>10. CASE i # 0 /\ j # 0
  BY <1>3, <1>8, <1>9, <1>10 DEF Apart, SameWork
<1>11. CASE i = 0 \/ j = 0
  BY <1>1, <1>3, <1>8, <1>9, <1>11 DEF Apart, SameWork
<1>12. QED
  BY <1>10, <1>11

(* With the prefetch equal to the buffer of MessageChannel, the consumer   *)
(* is never blocked on its own channel's deliveries: for any number of     *)
(* workers it waits only behind what an earlier channel left (main.go sets *)
(* q.Prefetch to manager.Workers).                                         *)
THEOREM PrefetchKeepsConsumerFree == Spec => []HandoffBlocksOnlyOnStale
BY HandoffBlocks, DeliveryInvariance, PTL
=============================================================================
