---------------------------- MODULE VideoEncoder ----------------------------
(***************************************************************************)
(* The whole encoder process: the queue side (Manager with its Broker) and *)
(* the job side (Pipeline) joined where processPayload joins them.  A      *)
(* worker takes a message and starts an attempt at the message's video;    *)
(* the outcome of the attempt becomes the result it acknowledges by; a     *)
(* crash hits both sides at once.  A redelivery is a second attempt, with  *)
(* a row of its own, while the first one may still be running.             *)
(***************************************************************************)
EXTENDS Naturals, FiniteSets, Sequences

CONSTANTS
  Msgs, Prefetch, MaxSessions, Workers, NoDelivery, MinBackoff, MaxBackoff, BrokerMayRestart,
  Videos, Jobs, DbMayFail,
  VideoOf  \* the video each message asks for

ASSUME VideoOfAssumption == VideoOf \in [Msgs -> Videos]
ASSUME NoMessageAssumption == NoDelivery \notin Msgs

VARIABLES
  ready, unacked, acked, dead, lost, session, lastTag, main, consumer, backoff, hand, cur, chan,
  inbox, msgChan, wpc, wmsg, logger, attempts, outcomes,
  enabled, pc, video, job, status, uploaded, mp4, writers, truncater, frag, dir, disturbed,
  crashes,
  rowOf  \* history: the message every job row was created for

M == INSTANCE Manager
P == INSTANCE Pipeline WITH None <- NoDelivery, MaxCrashes <- MaxSessions

ASSUME QueueAssumption ==
  /\ M!PrefetchAssumption /\ M!MaxSessionsAssumption /\ M!WorkersAssumption
  /\ M!NoDeliveryAssumption /\ M!BackoffAssumption /\ M!BrokerMayRestartAssumption
ASSUME JobAssumption ==
  /\ P!WorkersAssumption /\ P!VideosAssumption /\ P!JobsAssumption
  /\ P!DbMayFailAssumption /\ P!MaxCrashesAssumption

queueVars ==
  <<ready, unacked, acked, dead, lost, session, lastTag, main, consumer, backoff, hand, cur, chan,
    inbox, msgChan, wpc, wmsg, logger, attempts, outcomes>>
jobVars ==
  <<enabled, pc, video, job, status, uploaded, mp4, writers, truncater, frag, dir, disturbed,
    crashes>>
vars == <<queueVars, jobVars, rowOf>>

Init ==
  /\ M!Init
  /\ P!Init
  /\ rowOf = [j \in Jobs |-> NoDelivery]

-----------------------------------------------------------------------------
(* JobWorker.                                                              *)

(* A message is taken from MessageChannel, and processPayload called.      *)
Take(w) ==
  /\ M!WorkerReceive(w)
  /\ P!Receive(w, VideoOf[Head(msgChan).msg])
  /\ UNCHANGED rowOf

(* CreatePendingJob and the stages of Processor.Run.                       *)
Process(w) ==
  /\ wpc[w] = "busy"
  /\ P!Attempt(w)
  /\ pc[w] \notin {"ok", "failed"}
  /\ rowOf' = [j \in Jobs |->
       IF status[j] = "none" /\ status'[j] # "none" THEN wmsg[w].msg ELSE rowOf[j]]
  /\ UNCHANGED queueVars

(* Wrong on purpose: a cleanup that fails becomes the result's Error.      *)
ReturnCleanupError(w) ==
  /\ pc[w] \in {"ok", "failed"}
  /\ M!WorkerFinish(w, IF dir[video[w]] # "absent" THEN "failed" ELSE pc[w])
  /\ UNCHANGED <<jobVars, rowOf>>

(* processPayload returns: its result carries the attempt's outcome.       *)
Return(w) ==
  /\ pc[w] \in {"ok", "failed"}
  /\ M!WorkerFinish(w, pc[w])
  /\ UNCHANGED <<jobVars, rowOf>>

Report(w) ==
  /\ M!WorkerReport(w)
  /\ P!Report(w)
  /\ UNCHANGED rowOf

-----------------------------------------------------------------------------
(* What concerns one side only, and the crash of the process.              *)

QueueSide(A) == A /\ UNCHANGED <<jobVars, rowOf>>

Crash == M!Crash /\ P!Crash /\ UNCHANGED rowOf

Worker(w) ==
  \/ Take(w) \/ Process(w) \/ Return(w) \/ Report(w)
  \/ QueueSide(M!WorkerAcknowledge(w)) \/ QueueSide(M!WorkerExit(w))

Next ==
  \/ \E m \in Msgs : QueueSide(M!Publish(m))
  \/ \E s \in M!Session, m \in Msgs : QueueSide(M!Deliver(s, m))
  \/ \E s \in M!Session : QueueSide(M!SessionDown(s))
  \/ QueueSide(M!CancelledByBroker)
  \/ QueueSide(M!ChannelClosed)
  \/ QueueSide(M!BrokerRestart)
  \/ QueueSide(M!Consumer)
  \/ QueueSide(M!LoggerExit)
  \/ QueueSide(M!Main)
  \/ QueueSide(M!Waiting)
  \/ \E w \in Workers : Worker(w)
  \/ Crash

Spec == Init /\ [][Next]_vars

(* As for Manager, with every stage of a busy worker in the place of       *)
(* WorkerFinish: a stage under PROCESS_TIMEOUT ends at the latest with it, *)
(* and a database call or a removal is assumed to return.                  *)
FairSpec ==
  /\ Spec
  /\ WF_vars(QueueSide(M!Boot))
  /\ WF_vars(QueueSide(M!HeartbeatMissed))
  /\ \A s \in M!Session :
       /\ WF_vars(QueueSide(M!StaleSessionDown(s)))
       /\ WF_vars(\E m \in Msgs : QueueSide(M!Deliver(s, m)))
  /\ WF_vars(QueueSide(M!Consumer))
  /\ SF_vars(QueueSide(M!ReconnectOk))
  /\ \A w \in Workers : WF_vars(Worker(w))
  /\ WF_vars(QueueSide(M!LoggerExit))
  /\ WF_vars(QueueSide(M!CloseMessageChannel \/ M!CloseResultChannel \/ M!CloseClient))

-----------------------------------------------------------------------------
(* Properties.                                                             *)

RowsOf(m) == {j \in Jobs : rowOf[j] = m}

(* README, "At-least-once delivery": a message is confirmed only once the  *)
(* work is done and the jobs table says so: one of its rows is Completed   *)
(* with its outputs uploaded (Pending where processing is disabled),       *)
(* however many deliveries, losses and crashes lie between.                *)
AckedIsCompleted ==
  \A m \in acked : \E j \in RowsOf(m) :
    IF enabled THEN status[j] = "Completed" /\ uploaded[j] # "absent" ELSE status[j] = "Pending"

(* A message whose job is Completed is dead-lettered only if it was        *)
(* attempted again, on another channel, or the database reported an error  *)
(* for the row: no other failure turns finished work into a dead letter.   *)
DeadYetCompletedIsExplained ==
  \A m \in dead : \A j \in RowsOf(m) :
    status[j] = "Completed" =>
      \/ j \in disturbed
      \/ \E s, t \in M!Session : s # t /\ attempts[m][s] > 0 /\ attempts[m][t] > 0

(* Every published message ends confirmed or dead-lettered, or is lost     *)
(* with the broker's memory, whatever becomes of the attempts at it.       *)
EveryMessageDecided ==
  \A m \in Msgs : m \in M!Published ~> m \in acked \cup dead \cup lost

(* Every attempt that has started ends: no stage waits for another.        *)
AttemptsEnd == \A w \in Workers : pc[w] # "idle" ~> pc[w] = "idle"
=============================================================================
