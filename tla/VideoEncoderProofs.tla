------------------------- MODULE VideoEncoderProofs -------------------------
(***************************************************************************)
(* Proofs about VideoEncoder: the whole process is a Manager and a         *)
(* Pipeline, so that all that is proved of the two holds of it, and what   *)
(* the queue is told of a message agrees with the message's rows.          *)
(***************************************************************************)
EXTENDS VideoEncoder, TLAPS

(* What has been proved of the two sides.                                  *)
QP == INSTANCE DeliveryProofs
JP == INSTANCE PipelineProofs WITH None <- NoDelivery, MaxCrashes <- MaxSessions

-----------------------------------------------------------------------------
(* The queue side is a Manager.                                            *)

LEMMA QueueConstants ==
  /\ QP!PrefetchAssumption /\ QP!MaxSessionsAssumption /\ QP!WorkersAssumption
  /\ QP!NoDeliveryAssumption /\ QP!BackoffAssumption /\ QP!BrokerMayRestartAssumption
<1>1. QP!PrefetchAssumption /\ QP!MaxSessionsAssumption
  BY QueueAssumption DEF M!PrefetchAssumption, M!MaxSessionsAssumption,
                         QP!PrefetchAssumption, QP!MaxSessionsAssumption
<1>2. QP!BackoffAssumption /\ QP!BrokerMayRestartAssumption
  BY QueueAssumption DEF M!BackoffAssumption, M!BrokerMayRestartAssumption,
                         QP!BackoffAssumption, QP!BrokerMayRestartAssumption
<1>3. QP!NoDeliveryAssumption
  BY QueueAssumption DEF M!NoDeliveryAssumption, M!Delivery, M!Session,
                         QP!NoDeliveryAssumption, QP!Delivery, QP!Session
<1>4. M!WorkersAssumption => QP!WorkersAssumption
  BY DEF M!WorkersAssumption, M!Cardinality, M!IsFiniteSet,
         QP!WorkersAssumption, QP!Cardinality, QP!IsFiniteSet
<1>5. QED
  BY <1>1, <1>2, <1>3, <1>4, QueueAssumption

LEMMA JobConstants ==
  /\ JP!WorkersAssumption /\ JP!VideosAssumption /\ JP!JobsAssumption
  /\ JP!DbMayFailAssumption /\ JP!MaxCrashesAssumption
BY JobAssumption DEF P!WorkersAssumption, P!VideosAssumption, P!JobsAssumption,
     P!DbMayFailAssumption, P!MaxCrashesAssumption, JP!WorkersAssumption, JP!VideosAssumption,
     JP!JobsAssumption, JP!DbMayFailAssumption, JP!MaxCrashesAssumption

LEMMA SameConsumer == M!Consumer <=> QP!Consumer
BY DEF M!Consumer, M!ConsumerCancelled, M!ConsumerLoop, M!ConsumeOk, M!ConsumeFailed, M!ReceiveDelivery,
     M!DeliveriesClosed, M!Handoff, M!HandBack, M!BackoffElapsed, M!ReconnectOk, M!ReconnectFailed,
     M!Cancelled, M!Interrupted, M!ChanUsable, M!Buffer, M!Settle, M!AckSession, M!nextBackoff,
     M!Subscribed, M!Opened, M!Settled, M!Tagged, M!MsgsOf, M!Cardinality,
     M!brokerVars, M!clientVars, M!workerVars, M!historyVars,
     QP!Consumer, QP!ConsumerCancelled, QP!ConsumerLoop, QP!ConsumeOk, QP!ConsumeFailed, QP!ReceiveDelivery,
     QP!DeliveriesClosed, QP!Handoff, QP!HandBack, QP!BackoffElapsed, QP!ReconnectOk, QP!ReconnectFailed,
     QP!Cancelled, QP!Interrupted, QP!ChanUsable, QP!Buffer, QP!Settle, QP!AckSession, QP!nextBackoff,
     QP!Subscribed, QP!Opened, QP!Settled, QP!Tagged, QP!MsgsOf, QP!Cardinality,
     QP!brokerVars, QP!clientVars, QP!workerVars, QP!historyVars

LEMMA SameWorker ==
  ASSUME NEW w
  PROVE  /\ M!WorkerReceive(w) <=> QP!WorkerReceive(w)
         /\ M!WorkerExit(w) <=> QP!WorkerExit(w)
         /\ \A r : M!WorkerFinish(w, r) <=> QP!WorkerFinish(w, r)
         /\ M!WorkerAcknowledge(w) <=> QP!WorkerAcknowledge(w)
         /\ M!WorkerReport(w) <=> QP!WorkerReport(w)
BY DEF M!WorkerReceive, M!WorkerExit, M!WorkerFinish, M!WorkerAcknowledge, M!WorkerReport,
     M!MessageChannelClosed, M!ChanUsable, M!Settle, M!AckSession, M!Settled, M!Tagged, M!MsgsOf,
     M!brokerVars, M!consumerVars, M!clientVars, M!historyVars,
     QP!WorkerReceive, QP!WorkerExit, QP!WorkerFinish, QP!WorkerAcknowledge, QP!WorkerReport,
     QP!MessageChannelClosed, QP!ChanUsable, QP!Settle, QP!AckSession, QP!Settled, QP!Tagged, QP!MsgsOf,
     QP!brokerVars, QP!consumerVars, QP!clientVars, QP!historyVars

LEMMA SameMain == (M!Main <=> QP!Main) /\ (M!LoggerExit <=> QP!LoggerExit)
BY DEF M!Main, M!LoggerExit, M!Boot, M!ShutdownRequested, M!CloseMessageChannel, M!CloseResultChannel,
     M!CloseClient, M!MayDisturb, M!ResultChannelClosed, M!ChanUsable, M!Opened, M!ProcessMemory,
     M!brokerVars, M!consumerVars, M!clientVars, M!workerVars, M!historyVars,
     QP!Main, QP!LoggerExit, QP!Boot, QP!ShutdownRequested, QP!CloseMessageChannel, QP!CloseResultChannel,
     QP!CloseClient, QP!MayDisturb, QP!ResultChannelClosed, QP!ChanUsable, QP!Opened, QP!ProcessMemory,
     QP!brokerVars, QP!consumerVars, QP!clientVars, QP!workerVars, QP!historyVars

LEMMA SameEnvironment ==
  /\ \A m : M!Publish(m) <=> QP!Publish(m)
  /\ \A s, m : M!Deliver(s, m) <=> QP!Deliver(s, m)
  /\ \A s : M!SessionDown(s) <=> QP!SessionDown(s)
  /\ M!CancelledByBroker <=> QP!CancelledByBroker
  /\ M!ChannelClosed <=> QP!ChannelClosed
  /\ M!BrokerRestart <=> QP!BrokerRestart
  /\ M!Crash <=> QP!Crash
  /\ M!Waiting <=> QP!Waiting
BY DEF M!Publish, M!Deliver, M!SessionDown, M!CancelledByBroker, M!ChannelClosed, M!BrokerRestart, M!Crash,
     M!Waiting, M!Enqueued, M!Published, M!Outstanding, M!Pushed, M!Qos, M!HeldBy, M!Cardinality, M!ChanUsable,
     M!MayDisturb, M!Dropped, M!MsgsOf, M!Unsubscribed, M!Restarted, M!Persistent, M!Session, M!ProcessMemory,
     M!brokerVars, M!consumerVars, M!clientVars, M!workerVars, M!historyVars, M!vars,
     QP!Publish, QP!Deliver, QP!SessionDown, QP!CancelledByBroker, QP!ChannelClosed, QP!BrokerRestart, QP!Crash,
     QP!Waiting, QP!Enqueued, QP!Published, QP!Outstanding, QP!Pushed, QP!Qos, QP!HeldBy, QP!Cardinality, QP!ChanUsable,
     QP!MayDisturb, QP!Dropped, QP!MsgsOf, QP!Unsubscribed, QP!Restarted, QP!Persistent, QP!Session, QP!ProcessMemory,
     QP!brokerVars, QP!consumerVars, QP!clientVars, QP!workerVars, QP!historyVars, QP!vars

LEMMA SameQueue ==
  /\ M!Init <=> QP!Init
  /\ M!Next <=> QP!Next
  /\ UNCHANGED M!vars <=> UNCHANGED QP!vars
<1>1. M!Init <=> QP!Init
  BY DEF M!Init, M!BrokerInit, M!Session, QP!Init, QP!BrokerInit, QP!Session
<1>2. M!Session = QP!Session
  BY DEF M!Session, QP!Session
<1>3. M!Next <=> QP!Next
  BY <1>2, SameConsumer, SameWorker, SameMain, SameEnvironment
     DEF M!Next, M!Environment, M!Worker, QP!Next, QP!Environment, QP!Worker
<1>4. UNCHANGED M!vars <=> UNCHANGED QP!vars
  BY DEF M!vars, M!brokerVars, M!consumerVars, M!clientVars, M!workerVars, M!historyVars,
         QP!vars, QP!brokerVars, QP!consumerVars, QP!clientVars, QP!workerVars, QP!historyVars
<1>5. QED
  BY <1>1, <1>3, <1>4

-----------------------------------------------------------------------------
(* The job side is a Pipeline.                                             *)

LEMMA SameRows ==
  ASSUME NEW w
  PROVE  /\ \A v : P!Receive(w, v) <=> JP!Receive(w, v)
         /\ P!CreateFails(w) <=> JP!CreateFails(w)
         /\ P!CreatePendingJob(w) <=> JP!CreatePendingJob(w)
         /\ P!MarkProcessing(w) <=> JP!MarkProcessing(w)
         /\ P!MarkCompleted(w) <=> JP!MarkCompleted(w)
         /\ P!MarkFailed(w) <=> JP!MarkFailed(w)
         /\ P!Report(w) <=> JP!Report(w)
BY DEF P!Receive, P!CreateFails, P!CreatePendingJob, P!MarkProcessing, P!MarkCompleted, P!MarkFailed, P!Report,
     P!UpdateStatus, P!Goto, P!Cardinality, P!jobVars, P!dbVars, P!fileVars, P!envVars,
     JP!Receive, JP!CreateFails, JP!CreatePendingJob, JP!MarkProcessing, JP!MarkCompleted, JP!MarkFailed, JP!Report,
     JP!UpdateStatus, JP!Goto, JP!Cardinality, JP!jobVars, JP!dbVars, JP!fileVars, JP!envVars

LEMMA SameFiles ==
  ASSUME NEW w
  PROVE  /\ P!NewVideoService(w) <=> JP!NewVideoService(w)
         /\ P!CreateMp4(w) <=> JP!CreateMp4(w)
         /\ P!Download(w) <=> JP!Download(w)
         /\ P!Mkdir(w) <=> JP!Mkdir(w)
         /\ P!Fragment(w) <=> JP!Fragment(w)
         /\ P!Encode(w) <=> JP!Encode(w)
         /\ P!Upload(w) <=> JP!Upload(w)
         /\ P!StageFails(w) <=> JP!StageFails(w)
         /\ P!RemoveMp4(w) <=> JP!RemoveMp4(w)
         /\ P!RemoveFrag(w) <=> JP!RemoveFrag(w)
         /\ P!RemoveDir(w) <=> JP!RemoveDir(w)
BY DEF P!NewVideoService, P!CreateMp4, P!Download, P!Mkdir, P!Fragment, P!Encode, P!Upload, P!StageFails,
     P!RemoveMp4, P!RemoveFrag, P!RemoveDir, P!MediaStages, P!Goto, P!jobVars, P!dbVars, P!fileVars, P!envVars,
     JP!NewVideoService, JP!CreateMp4, JP!Download, JP!Mkdir, JP!Fragment, JP!Encode, JP!Upload, JP!StageFails,
     JP!RemoveMp4, JP!RemoveFrag, JP!RemoveDir, JP!MediaStages, JP!Goto, JP!jobVars, JP!dbVars, JP!fileVars, JP!envVars

LEMMA SameJobs ==
  /\ P!Init <=> JP!Init
  /\ P!Next <=> JP!Next
  /\ UNCHANGED P!vars <=> UNCHANGED JP!vars
  /\ \A w : P!Attempt(w) <=> JP!Attempt(w)
<1>1. P!Init <=> JP!Init
  BY DEF P!Init, JP!Init
<1>2. (P!Crash <=> JP!Crash) /\ (P!Waiting <=> JP!Waiting)
  BY DEF P!Crash, P!Owned, P!Waiting, P!vars, P!jobVars, P!dbVars, P!fileVars, P!envVars,
         JP!Crash, JP!Owned, JP!Waiting, JP!vars, JP!jobVars, JP!dbVars, JP!fileVars, JP!envVars
<1>3. \A w : P!Attempt(w) <=> JP!Attempt(w)
  BY SameRows, SameFiles DEF P!Attempt, JP!Attempt
<1>4. P!Next <=> JP!Next
  BY <1>2, <1>3, SameRows DEF P!Next, JP!Next
<1>5. UNCHANGED P!vars <=> UNCHANGED JP!vars
  BY DEF P!vars, P!jobVars, P!dbVars, P!fileVars, P!envVars,
         JP!vars, JP!jobVars, JP!dbVars, JP!fileVars, JP!envVars
<1>6. QED
  BY <1>1, <1>3, <1>4, <1>5

-----------------------------------------------------------------------------
(* The process implements both.                                            *)

LEMMA QueueSideStep == [Next]_vars => [M!Next]_(M!vars)
<1> SUFFICES ASSUME [Next]_vars PROVE [M!Next]_(M!vars)
  OBVIOUS
<1>1. ASSUME UNCHANGED queueVars PROVE UNCHANGED M!vars
  BY <1>1 DEF queueVars, M!vars, M!brokerVars, M!consumerVars, M!clientVars, M!workerVars, M!historyVars
<1>2. CASE UNCHANGED vars
  BY <1>1, <1>2 DEF vars
<1>3. ASSUME NEW w \in Workers, Worker(w) PROVE [M!Next]_(M!vars)
  <2>1. CASE Process(w)
    BY <1>1, <2>1 DEF Process
  <2>2. CASE Return(w)
    <3>1. PICK r \in {"ok", "failed"} : M!WorkerFinish(w, r)
      BY <2>2 DEF Return
    <3>2. QED
      BY <3>1 DEF M!Worker, M!Next
  <2>3. QED
    BY <1>3, <2>1, <2>2 DEF Worker, Take, Report, QueueSide, M!Worker, M!Next
<1>4. CASE Crash
  BY <1>4 DEF Crash, M!Environment, M!Next
<1>5. QED
  BY <1>2, <1>3, <1>4 DEF Next, QueueSide, M!Environment, M!Next

(* All that the process does is what Manager may do with its Broker.       *)
THEOREM EncoderImplementsManager == Spec => M!Spec
<1>1. Init => M!Init
  BY DEF Init
<1>2. QED
  BY <1>1, QueueSideStep, PTL DEF Spec, M!Spec

(* What has been proved of Manager, and AtLeastOnce, which it implements,  *)
(* holds of the process.                                                   *)
LEMMA QueueInvariance == Spec => [](QP!IInv /\ QP!NoSendOnClosed /\ QP!DInv)
<1>1. Init => QP!Init
  BY SameQueue DEF Init
<1>2. [Next]_vars => [QP!Next]_(QP!vars)
  BY SameQueue, QueueSideStep
<1>3. Spec => QP!Spec
  BY <1>1, <1>2, PTL DEF Spec, QP!Spec
<1>4. QP!Spec => [](QP!IInv /\ QP!DInv)
  BY QueueConstants, QP!DeliveryInvariance
<1>5. QP!Spec => []QP!NoSendOnClosed
  BY QueueConstants, QP!ClosedInOrder
<1>6. QED
  BY <1>3, <1>4, <1>5, PTL

LEMMA JobSideStep == QP!IInv /\ [Next]_vars => [P!Next]_(P!vars)
<1> SUFFICES ASSUME QP!IInv, [Next]_vars PROVE [P!Next]_(P!vars)
  OBVIOUS
<1>1. ASSUME UNCHANGED jobVars PROVE UNCHANGED P!vars
  BY <1>1 DEF jobVars, P!vars, P!jobVars, P!dbVars, P!fileVars, P!envVars
<1>2. CASE UNCHANGED vars
  BY <1>1, <1>2 DEF vars
<1>3. ASSUME NEW w \in Workers, Worker(w) PROVE [P!Next]_(P!vars)
  <2>1. CASE Take(w)
    <3>1. msgChan # <<>>
      BY <2>1 DEF Take, M!WorkerReceive
    <3>2. msgChan \in Seq(QP!Delivery)
      BY DEF QP!IInv, QP!TypeInv, QP!TypeOK
    <3>3. Head(msgChan) \in QP!Delivery
      BY <3>1, <3>2
    <3>4. VideoOf[Head(msgChan).msg] \in Videos
      BY <3>3, VideoOfAssumption DEF QP!Delivery
    <3>5. QED
      BY <2>1, <3>4 DEF Take, P!Next
  <2>2. CASE Report(w)
    BY <2>2 DEF Report, P!Attempt, P!Next
  <2>3. QED
    BY <1>1, <1>3, <2>1, <2>2 DEF Worker, Process, Return, QueueSide, P!Next
<1>4. CASE Crash
  BY <1>4 DEF Crash, P!Next
<1>5. QED
  BY <1>1, <1>2, <1>3, <1>4 DEF Next, QueueSide

(* All that becomes of jobs and files in the process is what Pipeline      *)
(* allows: workers fed by the queue are among those it considers.          *)
THEOREM EncoderImplementsPipeline == Spec => P!Spec
<1>1. Init => P!Init
  BY DEF Init
<1>2. QED
  BY <1>1, QueueInvariance, JobSideStep, PTL DEF Spec, P!Spec

LEMMA JobBehaviours == Spec => JP!Spec
<1>1. Init => JP!Init
  BY SameJobs DEF Init
<1>2. QP!IInv /\ [Next]_vars => [JP!Next]_(JP!vars)
  BY SameJobs, JobSideStep
<1>3. QED
  BY <1>1, <1>2, QueueInvariance, PTL DEF Spec, JP!Spec

LEMMA JobInvariance == Spec => []JP!IInv
<1>1. JP!Spec => []JP!IInv
  BY JobConstants, JP!Invariance
<1>2. QED
  BY <1>1, JobBehaviours, PTL

-----------------------------------------------------------------------------
(* The inductive invariant: where the two sides meet.                      *)

(* A worker that has a message is at an attempt, whose row, once there, is *)
(* that message's; the outcome it settles by is the attempt's.             *)
Joined(w) ==
  /\ wpc[w] = "busy" => pc[w] # "idle"
  /\ wpc[w] \in {"ok", "failed"} => pc[w] = wpc[w]
  /\ wpc[w] = "report" => pc[w] \in {"ok", "failed"}
  /\ wpc[w] \in {"idle", "exited"} => pc[w] = "idle"
  /\ wmsg[w] # NoDelivery /\ job[w] # NoDelivery => rowOf[job[w]] = wmsg[w].msg

(* Every row is some message's; a process that is not there has no workers. *)
JoinInv ==
  /\ \A w \in Workers : Joined(w)
  /\ rowOf \in [Jobs -> Msgs \cup {NoDelivery}]
  /\ \A j \in Jobs : status[j] = "none" <=> rowOf[j] = NoDelivery
  /\ main = "down" => \A w \in Workers : wpc[w] = "exited"

(* Where processing is disabled an attempt only creates its row.           *)
DisabledInv ==
  ~enabled =>
    /\ \A w \in Workers : /\ pc[w] \in {"idle", "create", "ok", "failed"}
                          /\ pc[w] = "ok" => status[job[w]] = "Pending"
    /\ \A j \in Jobs : status[j] \in {"none", "Pending"}

Unattempted(m) == \A s \in M!Session : attempts[m][s] = 0
AttemptedOnce(m) == \A s, t \in M!Session : attempts[m][s] > 0 /\ attempts[m][t] > 0 => s = t

(* The workers that have a message, to attempt it.                         *)
Workload(m) == {w \in Workers : wmsg[w] # NoDelivery /\ wmsg[w].msg = m}

(* A message has no row before its first attempt; while that attempt runs, *)
(* its own and those a database error has left; and after it, if it has    *)
(* failed, none that says Completed but by a fault.                        *)
AttemptInv ==
  \A m \in Msgs :
    /\ Unattempted(m) => RowsOf(m) = {}
    /\ AttemptedOnce(m) =>
         \A w \in Workload(m), j \in RowsOf(m) : j = job[w] \/ j \in disturbed
    /\ m \in dead =>
         /\ ~Unattempted(m)
         /\ AttemptedOnce(m) =>
              /\ Workload(m) = {}
              /\ \A j \in RowsOf(m) : status[j] = "Completed" => j \in disturbed

WholeInv == JoinInv /\ DisabledInv /\ AckedIsCompleted /\ AttemptInv

-----------------------------------------------------------------------------
(* The steps, by what they do to workers, rows and settled messages.       *)

LEMMA Typed ==
  ASSUME QP!IInv, JP!IInv
  PROVE  /\ wpc \in [Workers -> QP!WorkerStates]
         /\ wmsg \in [Workers -> QP!Delivery \cup {NoDelivery}]
         /\ attempts \in [Msgs -> [M!Session -> Nat]]
         /\ acked \subseteq Msgs /\ dead \subseteq Msgs
         /\ pc \in [Workers -> JP!Stages]
         /\ job \in [Workers -> Jobs \cup {NoDelivery}] /\ NoDelivery \notin Jobs
         /\ status \in [Jobs -> JP!Statuses]
         /\ disturbed \subseteq Jobs
<1>1. M!Session = QP!Session
  BY DEF M!Session, QP!Session
<1>2. NoDelivery \notin Jobs
  BY JobConstants DEF JP!JobsAssumption
<1>3. QED
  BY <1>1, <1>2 DEF QP!IInv, QP!TypeInv, QP!TypeOK, QP!DeliveryOrNone, JP!IInv, JP!TypeInv, JP!TypeOK

(* Nothing becomes of workers and rows, nothing is confirmed or rejected.  *)
QueueQuiet ==
  /\ UNCHANGED <<jobVars, rowOf, wpc, wmsg, attempts, acked>>
  /\ dead' \subseteq dead
  /\ main' = "down" => main = "down"

LEMMA StepCases ==
  ASSUME [Next]_vars
  PROVE  \/ QueueQuiet \/ QueueSide(M!Boot) \/ Crash
         \/ \E w \in Workers : \/ Take(w) \/ Process(w) \/ Return(w) \/ Report(w)
                               \/ QueueSide(M!WorkerAcknowledge(w)) \/ QueueSide(M!WorkerExit(w))
<1> USE DEF QueueSide, QueueQuiet, M!brokerVars, M!consumerVars, M!clientVars, M!workerVars, M!historyVars
<1>1. CASE UNCHANGED vars
  BY <1>1 DEF vars, queueVars
<1>2. CASE \/ \E m \in Msgs : QueueSide(M!Publish(m))
           \/ \E s \in M!Session, m \in Msgs : QueueSide(M!Deliver(s, m))
  BY <1>2 DEF M!Publish, M!Enqueued, M!Deliver, M!Pushed
<1>3. CASE \/ \E s \in M!Session : QueueSide(M!SessionDown(s))
           \/ QueueSide(M!CancelledByBroker) \/ QueueSide(M!ChannelClosed) \/ QueueSide(M!BrokerRestart)
  BY <1>3 DEF M!SessionDown, M!Dropped, M!CancelledByBroker, M!Unsubscribed, M!ChannelClosed,
              M!BrokerRestart, M!Restarted, M!Persistent
<1>4. CASE QueueSide(M!Consumer)
  <2>1. CASE M!HandBack
    <3>1. UNCHANGED <<acked, dead>>
      BY <2>1 DEF M!HandBack, M!Settle, M!Settled
    <3>2. QED
      BY <1>4, <2>1, <3>1 DEF M!HandBack
  <2>2. CASE ~M!HandBack
    BY <1>4, <2>2 DEF M!Consumer, M!ConsumerCancelled, M!ConsumerLoop, M!ConsumeOk, M!Subscribed,
         M!ConsumeFailed, M!ReceiveDelivery, M!DeliveriesClosed, M!Handoff, M!BackoffElapsed,
         M!ReconnectOk, M!Opened, M!ReconnectFailed
  <2>3. QED
    BY <2>1, <2>2
<1>5. CASE QueueSide(M!LoggerExit) \/ QueueSide(M!Waiting)
  BY <1>5 DEF M!LoggerExit, M!Waiting, M!vars
<1>6. CASE QueueSide(M!Main)
  BY <1>6 DEF M!Main, M!ShutdownRequested, M!CloseMessageChannel, M!CloseResultChannel, M!CloseClient
<1>7. QED
  BY <1>1, <1>2, <1>3, <1>4, <1>5, <1>6 DEF Next, Worker

(* A stage touches one worker and its own row; it may leave a new row with *)
(* a fault instead; a row that says Completed goes on saying so.           *)
LEMMA ProcessEffect ==
  ASSUME QP!IInv, JP!IInv, NEW w \in Workers, Process(w)
  PROVE  /\ wpc[w] = "busy" /\ wmsg[w] # NoDelivery
         /\ UNCHANGED <<queueVars, enabled>>
         /\ \A u \in Workers \ {w} : pc'[u] = pc[u] /\ job'[u] = job[u]
         /\ pc'[w] # "idle"
         /\ disturbed \subseteq disturbed'
         /\ job[w] # NoDelivery => job'[w] = job[w]
         /\ job'[w] # job[w] =>
              job'[w] \in Jobs /\ status[job'[w]] = "none" /\ status'[job'[w]] = "Pending"
         /\ \A j \in Jobs : status'[j] # status[j] =>
              \/ status[j] = "none" /\ status'[j] = "Pending" /\ (j = job'[w] \/ j \in disturbed')
              \/ j = job[w] /\ status[j] \in {"Pending", "Processing"} /\ status'[j] # "none"
                 /\ pc[w] # "create"
<1>0. /\ pc \in [Workers -> JP!Stages] /\ job \in [Workers -> Jobs \cup {NoDelivery}]
      /\ status \in [Jobs -> JP!Statuses] /\ NoDelivery \notin Jobs
  BY Typed
<1>1. wpc[w] = "busy" /\ UNCHANGED queueVars /\ P!Attempt(w) /\ ~P!Report(w)
  BY DEF Process, P!Report
<1>2. wmsg[w] # NoDelivery
  BY <1>1 DEF QP!IInv, QP!TypeInv, QP!HandsFull
<1>3. JP!RowOK(w)
  BY DEF JP!IInv, JP!RowInv
<1> USE DEF P!Goto, P!jobVars, P!dbVars, P!fileVars, P!envVars
<1> DEFINE Goal ==
  /\ UNCHANGED enabled
  /\ \A u \in Workers \ {w} : pc'[u] = pc[u] /\ job'[u] = job[u]
  /\ pc'[w] # "idle"
  /\ disturbed \subseteq disturbed'
  /\ job[w] # NoDelivery => job'[w] = job[w]
  /\ job'[w] # job[w] =>
       job'[w] \in Jobs /\ status[job'[w]] = "none" /\ status'[job'[w]] = "Pending"
  /\ \A j \in Jobs : status'[j] # status[j] =>
       \/ status[j] = "none" /\ status'[j] = "Pending" /\ (j = job'[w] \/ j \in disturbed')
       \/ j = job[w] /\ status[j] \in {"Pending", "Processing"} /\ status'[j] # "none" /\ pc[w] # "create"
<1>4. ASSUME P!CreateFails(w) PROVE Goal
  BY <1>0, <1>4 DEF P!CreateFails
<1>5. ASSUME P!CreatePendingJob(w) PROVE Goal
  <2>1. job[w] = NoDelivery
    BY <1>3, <1>5 DEF P!CreatePendingJob, JP!RowOK
  <2>2. QED
    BY <1>0, <1>5, <2>1 DEF P!CreatePendingJob
<1>6. ASSUME NEW to \in {"Processing", "Completed", "Failed"}, NEW ifOk, NEW ifError,
             ifOk # "idle", ifError # "idle",
             P!UpdateStatus(w, to, ifOk, ifError), pc[w] # "create", job[w] \in Jobs,
             status[job[w]] \in {"Pending", "Processing"}
      PROVE  Goal
  <2>1. /\ status' \in {status, [status EXCEPT ![job[w]] = to]}
        /\ pc' = [pc EXCEPT ![w] = pc'[w]] /\ pc'[w] # "idle"
        /\ disturbed \subseteq disturbed' /\ UNCHANGED <<job, enabled>>
    BY <1>0, <1>6 DEF P!UpdateStatus
  <2>2. QED
    BY <1>0, <1>6, <2>1
<1>7. ASSUME P!MarkProcessing(w) \/ P!MarkCompleted(w) \/ P!MarkFailed(w) PROVE Goal
  <2>1. /\ pc[w] \in {"start", "complete", "fail"} /\ job[w] \in Jobs
        /\ status[job[w]] \in {"Pending", "Processing"}
    BY <1>3, <1>7 DEF P!MarkProcessing, P!MarkCompleted, P!MarkFailed, JP!RowOK, JP!MediaStages,
                      JP!UploadedStages
  <2>2. QED
    BY <1>6, <1>7, <2>1 DEF P!MarkProcessing, P!MarkCompleted, P!MarkFailed
<1>8. ASSUME P!NewVideoService(w) \/ P!CreateMp4(w) \/ P!Download(w) \/ P!Mkdir(w) \/ P!Fragment(w) PROVE Goal
  BY <1>0, <1>8 DEF P!NewVideoService, P!CreateMp4, P!Download, P!Mkdir, P!Fragment
<1>9. ASSUME P!Encode(w) \/ P!Upload(w) \/ P!StageFails(w) \/ P!RemoveMp4(w) \/ P!RemoveFrag(w) \/ P!RemoveDir(w) PROVE Goal
  BY <1>0, <1>9 DEF P!Encode, P!Upload, P!StageFails, P!RemoveMp4, P!RemoveFrag, P!RemoveDir
<1>10. Goal
  BY <1>1, <1>4, <1>5, <1>7, <1>8, <1>9 DEF P!Attempt
<1>11. QED
  BY <1>1, <1>2, <1>10

(* A settlement decides the worker's message, by the attempt's outcome.    *)
LEMMA AcknowledgeEffect ==
  ASSUME QP!IInv, NEW w \in Workers, QueueSide(M!WorkerAcknowledge(w))
  PROVE  /\ wpc[w] \in {"ok", "failed"} /\ wmsg[w] # NoDelivery /\ wmsg[w].msg \in Msgs
         /\ wpc' = [wpc EXCEPT ![w] = "report"] /\ wmsg' = [wmsg EXCEPT ![w] = NoDelivery]
         /\ UNCHANGED <<jobVars, rowOf, attempts, main>>
         /\ acked' = acked \/ (wpc[w] = "ok" /\ acked' = acked \cup {wmsg[w].msg})
         /\ dead' = dead \/ (wpc[w] = "failed" /\ dead' = dead \cup {wmsg[w].msg})
<1>1. QP!WorkerAcknowledge(w) /\ UNCHANGED <<jobVars, rowOf>>
  BY SameWorker DEF QueueSide
<1>2. wpc[w] \in {"ok", "failed"} /\ wmsg[w] # NoDelivery /\ wmsg[w] \in QP!Delivery
  BY <1>1 DEF QP!WorkerAcknowledge, QP!IInv, QP!TypeInv, QP!HandsFull, QP!TypeOK, QP!DeliveryOrNone
<1>3. wmsg[w].msg \in Msgs
  BY <1>2 DEF QP!Delivery
<1>4. wmsg[w] \in QP!InProcess
  BY <1>2 DEF QP!InProcess
<1>5. PICK how \in {"ack", "reject"} : /\ QP!Settle(wmsg[w], how)
                                       /\ how = "ack" => wpc[w] = "ok"
                                       /\ how = "reject" => wpc[w] = "failed"
  BY <1>1 DEF QP!WorkerAcknowledge
<1>6. \/ UNCHANGED <<acked, dead>>
      \/ /\ acked' = IF how = "ack" THEN acked \cup {wmsg[w].msg} ELSE acked
         /\ dead' = IF how = "reject" THEN dead \cup {wmsg[w].msg} ELSE dead
  <2>1. QP!TypeInv /\ QP!TagInv /\ QP!CopyInv
    BY DEF QP!IInv
  <2>2. QED
    BY <2>1, <1>4, <1>5, QueueConstants, QP!SettleEffect DEF QP!brokerVars
<1>7. QED
  BY <1>1, <1>2, <1>3, <1>5, <1>6 DEF QP!WorkerAcknowledge, QP!clientVars, QP!consumerVars, QP!historyVars

(* A process that is about to start has no worker and no attempt.          *)
LEMMA BootEffect ==
  ASSUME QP!NoSendOnClosed, JoinInv, QueueSide(M!Boot)
  PROVE  /\ \A w \in Workers : pc[w] = "idle" /\ wpc'[w] = "idle" /\ wmsg'[w] = NoDelivery
         /\ UNCHANGED <<jobVars, rowOf, attempts, acked, dead>> /\ main' # "down"
<1>1. \A w \in Workers : wpc[w] = "exited"
  BY DEF QueueSide, M!Boot, JoinInv, QP!NoSendOnClosed, QP!ResultChannelClosed
<1>2. QED
  BY <1>1 DEF QueueSide, M!Boot, M!ProcessMemory, M!Opened, M!historyVars, JoinInv, Joined

LEMMA CrashEffect ==
  ASSUME Crash
  PROVE  /\ \A w \in Workers : /\ pc'[w] = "idle" /\ job'[w] = NoDelivery
                               /\ wpc'[w] = "exited" /\ wmsg'[w] = NoDelivery
         /\ disturbed \subseteq disturbed'
         /\ UNCHANGED <<enabled, status, uploaded, rowOf, attempts, acked, dead>>
BY DEF Crash, M!Crash, M!ProcessMemory, M!brokerVars, M!historyVars, P!Crash, P!dbVars

-----------------------------------------------------------------------------
(* The two sides agree on where every worker is.                           *)

LEMMA JoinStep ==
  ASSUME QP!IInv, QP!NoSendOnClosed, JP!IInv, JoinInv, [Next]_vars
  PROVE  JoinInv'
<1>0. /\ wpc \in [Workers -> QP!WorkerStates] /\ wmsg \in [Workers -> QP!Delivery \cup {NoDelivery}]
      /\ pc \in [Workers -> JP!Stages]
      /\ job \in [Workers -> Jobs \cup {NoDelivery}] /\ NoDelivery \notin Jobs
      /\ status \in [Jobs -> JP!Statuses]
  BY Typed
<1>1. CASE QueueQuiet
  BY <1>1 DEF QueueQuiet, jobVars, JoinInv, Joined
<1>2. CASE QueueSide(M!Boot)
  BY <1>2, BootEffect DEF jobVars, JoinInv, Joined
<1>3. CASE Crash
  BY <1>3, CrashEffect DEF JoinInv, Joined
<1>4. ASSUME NEW w \in Workers, Take(w) PROVE JoinInv'
  <2>1. /\ wpc' = [wpc EXCEPT ![w] = "busy"] /\ wmsg' = [wmsg EXCEPT ![w] = Head(msgChan)]
        /\ pc' = [pc EXCEPT ![w] = "create"] /\ pc[w] = "idle"
        /\ UNCHANGED <<job, status, rowOf, main>>
    BY <1>4 DEF Take, M!WorkerReceive, P!Receive, P!Goto, P!dbVars
  <2>2. job[w] = NoDelivery
    BY <2>1 DEF JP!IInv, JP!RowInv, JP!RowOK
  <2>3. main # "down"
    BY <1>0, <1>4 DEF Take, M!WorkerReceive, JoinInv
  <2>4. QED
    BY <1>0, <2>1, <2>2, <2>3 DEF JoinInv, Joined
<1>5. ASSUME NEW w \in Workers, Process(w) PROVE JoinInv'
  <2>1. /\ wpc[w] = "busy" /\ wmsg[w] # NoDelivery /\ UNCHANGED <<wpc, wmsg, main>>
        /\ \A u \in Workers \ {w} : pc'[u] = pc[u] /\ job'[u] = job[u]
        /\ pc'[w] # "idle"
        /\ job[w] # NoDelivery => job'[w] = job[w]
        /\ job'[w] # job[w] =>
             job'[w] \in Jobs /\ status[job'[w]] = "none" /\ status'[job'[w]] = "Pending"
        /\ \A j \in Jobs : status'[j] # status[j] => status[j] = "none" \/ status'[j] # "none"
    BY <1>5, ProcessEffect DEF queueVars
  <2>2. rowOf' = [j \in Jobs |->
          IF status[j] = "none" /\ status'[j] # "none" THEN wmsg[w].msg ELSE rowOf[j]]
    BY <1>5 DEF Process
  <2>3. wmsg[w].msg \in Msgs
    BY <1>0, <2>1 DEF QP!Delivery
  <2>4. \A u \in Workers : job[u] # NoDelivery => status[job[u]] # "none"
    BY DEF JP!IInv, JP!RowInv, JP!OneWriter
  <2>5. \A u \in Workers : job[u] # NoDelivery => rowOf'[job[u]] = rowOf[job[u]]
    BY <1>0, <2>2, <2>4
  <2>6. job'[w] # job[w] => rowOf'[job'[w]] = wmsg[w].msg
    BY <2>1, <2>2
  <2>7. ASSUME NEW u \in Workers PROVE Joined(u)'
    <3>1. Joined(u)
      BY DEF JoinInv
    <3>2. CASE u # w
      BY <2>1, <2>5, <3>1, <3>2 DEF Joined
    <3>3. CASE u = w
      BY <2>1, <2>5, <2>6, <3>1, <3>3 DEF Joined
    <3>4. QED
      BY <3>2, <3>3
  <2>8. rowOf' \in [Jobs -> Msgs \cup {NoDelivery}]
    BY <2>2, <2>3 DEF JoinInv
  <2>9. \A j \in Jobs : status'[j] = "none" <=> rowOf'[j] = NoDelivery
    BY <2>1, <2>2, <2>3, NoMessageAssumption DEF JoinInv
  <2>10. QED
    BY <2>1, <2>7, <2>8, <2>9 DEF JoinInv
<1>6. ASSUME NEW w \in Workers, Return(w) PROVE JoinInv'
  <2>1. /\ pc[w] \in {"ok", "failed"} /\ wpc' = [wpc EXCEPT ![w] = pc[w]]
        /\ UNCHANGED <<wmsg, main, pc, job, status, rowOf>>
    BY <1>6 DEF Return, M!WorkerFinish, jobVars
  <2>2. wpc[w] = "busy"
    BY <1>6 DEF Return, M!WorkerFinish
  <2>3. QED
    BY <1>0, <2>1, <2>2 DEF JoinInv, Joined
<1>7. ASSUME NEW w \in Workers, Report(w) PROVE JoinInv'
  <2>1. /\ wpc[w] = "report" /\ wpc' = [wpc EXCEPT ![w] = "idle"] /\ pc' = [pc EXCEPT ![w] = "idle"]
        /\ job' = [job EXCEPT ![w] = NoDelivery] /\ UNCHANGED <<wmsg, main, status, rowOf>>
    BY <1>7 DEF Report, M!WorkerReport, P!Report, P!Goto, P!dbVars
  <2>2. QED
    BY <1>0, <2>1 DEF JoinInv, Joined
<1>8. ASSUME NEW w \in Workers, QueueSide(M!WorkerAcknowledge(w)) PROVE JoinInv'
  BY <1>0, <1>8, AcknowledgeEffect DEF jobVars, JoinInv, Joined
<1>9. ASSUME NEW w \in Workers, QueueSide(M!WorkerExit(w)) PROVE JoinInv'
  <2>1. /\ wpc[w] = "idle" /\ wpc' = [wpc EXCEPT ![w] = "exited"]
        /\ UNCHANGED <<wmsg, main, pc, job, status, rowOf>>
    BY <1>9 DEF QueueSide, M!WorkerExit, jobVars
  <2>2. QED
    BY <1>0, <2>1 DEF JoinInv, Joined
<1>10. QED
  BY <1>1, <1>2, <1>3, <1>4, <1>5, <1>6, <1>7, <1>8, <1>9, StepCases

LEMMA DisabledStep ==
  ASSUME QP!IInv, JP!IInv, JoinInv, DisabledInv, [Next]_vars
  PROVE  enabled' = enabled /\ DisabledInv'
<1>0. /\ pc \in [Workers -> JP!Stages] /\ job \in [Workers -> Jobs \cup {NoDelivery}]
      /\ status \in [Jobs -> JP!Statuses] /\ NoDelivery \notin Jobs
  BY Typed
<1>1. CASE UNCHANGED jobVars
  BY <1>1 DEF jobVars, DisabledInv
<1>2. CASE Crash
  BY <1>2, CrashEffect DEF DisabledInv
<1>3. ASSUME NEW w \in Workers, Take(w) PROVE enabled' = enabled /\ DisabledInv'
  <2>1. pc' = [pc EXCEPT ![w] = "create"] /\ UNCHANGED <<enabled, job, status>>
    BY <1>3 DEF Take, P!Receive, P!Goto, P!dbVars, P!envVars
  <2>2. QED
    BY <1>0, <2>1 DEF DisabledInv
<1>4. ASSUME NEW w \in Workers, Report(w) PROVE enabled' = enabled /\ DisabledInv'
  <2>1. /\ pc' = [pc EXCEPT ![w] = "idle"] /\ job' = [job EXCEPT ![w] = NoDelivery]
        /\ UNCHANGED <<enabled, status>>
    BY <1>4 DEF Report, P!Report, P!Goto, P!dbVars, P!envVars
  <2>2. QED
    BY <1>0, <2>1 DEF DisabledInv
<1>5. ASSUME NEW w \in Workers, Process(w) PROVE enabled' = enabled /\ DisabledInv'
  <2>1. enabled' = enabled
    BY <1>5, ProcessEffect
  <2>2. SUFFICES ASSUME ~enabled PROVE DisabledInv'
    BY <2>1 DEF DisabledInv
  <2>3. pc[w] = "create"
    BY <1>5, <2>2 DEF Process, JoinInv, Joined, DisabledInv
  <2>4. P!CreateFails(w) \/ P!CreatePendingJob(w)
    BY <1>5, <2>3 DEF Process, P!Attempt, P!MarkProcessing, P!MarkCompleted, P!MarkFailed,
         P!NewVideoService, P!CreateMp4, P!Download, P!Mkdir, P!Fragment, P!Encode, P!Upload,
         P!StageFails, P!MediaStages, P!RemoveMp4, P!RemoveFrag, P!RemoveDir, P!Report
  <2>5. \A u \in Workers : pc[u] = "ok" => job[u] \in Jobs /\ status[job[u]] = "Pending"
    BY <2>2 DEF DisabledInv, JP!IInv, JP!RowInv, JP!RowOK
  <2>6. CASE P!CreateFails(w)
    <3>1. /\ pc' = [pc EXCEPT ![w] = "failed"] /\ job' = job
          /\ \/ status' = status
             \/ \E j \in Jobs : status[j] = "none" /\ status' = [status EXCEPT ![j] = "Pending"]
      BY <2>6 DEF P!CreateFails, P!Goto, P!jobVars
    <3>2. QED
      BY <1>0, <2>2, <2>5, <3>1 DEF DisabledInv
  <2>7. CASE P!CreatePendingJob(w)
    <3>1. PICK j \in Jobs : /\ status[j] = "none" /\ status' = [status EXCEPT ![j] = "Pending"]
                            /\ job' = [job EXCEPT ![w] = j] /\ pc' = [pc EXCEPT ![w] = "ok"]
      BY <2>2, <2>7 DEF P!CreatePendingJob, P!Goto
    <3>2. QED
      BY <1>0, <2>2, <2>5, <3>1 DEF DisabledInv
  <2>8. QED
    BY <2>1, <2>4, <2>6, <2>7
<1>6. QED
  BY <1>1, <1>2, <1>3, <1>4, <1>5, StepCases DEF QueueQuiet, QueueSide, Return

-----------------------------------------------------------------------------
(* What is confirmed has its row.                                          *)

LEMMA JobStep == QP!IInv /\ JP!IInv /\ [Next]_vars => JP!IInv'
<1>1. QP!IInv /\ [Next]_vars => [JP!Next]_(JP!vars)
  BY SameJobs, JobSideStep
<1>2. QED
  BY <1>1, JobConstants, JP!IInvStep

(* A row stays its message's, and only its own worker may complete it.     *)
LEMMA RowKept ==
  ASSUME QP!IInv, JP!IInv, JoinInv, [Next]_vars
  PROVE  /\ disturbed \subseteq disturbed'
         /\ \A j \in Jobs : rowOf[j] # NoDelivery =>
              /\ rowOf'[j] = rowOf[j]
              /\ status[j] = "Completed" => status'[j] = "Completed"
              /\ status'[j] # status[j] =>
                   \E w \in Workers : Process(w) /\ j = job[w] /\ pc[w] # "create"
<1>1. CASE UNCHANGED <<status, disturbed, rowOf>>
  BY <1>1
<1>2. CASE Crash
  BY <1>2, CrashEffect
<1>3. ASSUME NEW w \in Workers, Process(w)
      PROVE  /\ disturbed \subseteq disturbed'
             /\ \A j \in Jobs : status[j] # "none" =>
                  /\ rowOf'[j] = rowOf[j]
                  /\ status[j] = "Completed" => status'[j] = "Completed"
                  /\ status'[j] # status[j] => j = job[w] /\ pc[w] # "create"
  <2>1. rowOf' = [j \in Jobs |->
          IF status[j] = "none" /\ status'[j] # "none" THEN wmsg[w].msg ELSE rowOf[j]]
    BY <1>3 DEF Process
  <2>2. QED
    BY <1>3, <2>1, ProcessEffect
<1>4. ASSUME NEW w \in Workers, Take(w) \/ Report(w) \/ Return(w) PROVE UNCHANGED <<status, disturbed, rowOf>>
  BY <1>4 DEF Take, Report, Return, P!Receive, P!Report, P!dbVars, jobVars
<1>5. CASE \E w \in Workers : Process(w)
  BY <1>3, <1>5 DEF JoinInv
<1>6. QED
  BY <1>1, <1>2, <1>4, <1>5, StepCases DEF QueueQuiet, QueueSide, jobVars

LEMMA AckStep ==
  ASSUME QP!IInv, JP!IInv, JoinInv, DisabledInv, AckedIsCompleted, [Next]_vars
  PROVE  AckedIsCompleted'
<1> DEFINE Done(j) == IF enabled THEN status[j] = "Completed" /\ uploaded[j] # "absent"
                                 ELSE status[j] = "Pending"
<1>1. /\ enabled' = enabled
      /\ \A j \in Jobs : status'[j] = "Completed" => uploaded'[j] # "absent"
  <2>1. JP!IInv'
    BY JobStep
  <2>2. QED
    BY <2>1, DisabledStep DEF JP!IInv, JP!RowInv, JP!CompletedWasUploaded
<1>2. ASSUME NEW m \in Msgs, NEW j \in RowsOf(m), Done(j)
      PROVE  j \in RowsOf(m)' /\ Done(j)'
  <2>1. j \in Jobs /\ rowOf[j] = m /\ rowOf[j] # NoDelivery
    BY NoMessageAssumption DEF RowsOf
  <2>2. rowOf'[j] = m
    BY <2>1, RowKept
  <2>3. CASE enabled
    BY <1>1, <1>2, <2>1, <2>2, <2>3, RowKept DEF RowsOf
  <2>4. CASE ~enabled
    <3>1. \A w \in Workers : ~(Process(w) /\ pc[w] # "create")
      BY <2>4 DEF Process, DisabledInv, JoinInv, Joined
    <3>2. status'[j] = status[j]
      BY <2>1, <3>1, RowKept
    <3>3. QED
      BY <1>1, <1>2, <2>1, <2>2, <2>4, <3>2 DEF RowsOf
  <2>5. QED
    BY <2>3, <2>4
<1>3. \A m \in acked : m \in Msgs /\ \E j \in RowsOf(m) : Done(j)
  BY Typed DEF AckedIsCompleted
<1>4. ASSUME NEW m \in acked PROVE \E j \in RowsOf(m)' : Done(j)'
  BY <1>2, <1>3
<1>5. CASE acked' = acked
  BY <1>4, <1>5 DEF AckedIsCompleted
<1>6. ASSUME NEW w \in Workers, QueueSide(M!WorkerAcknowledge(w)) PROVE AckedIsCompleted'
  <2>1. acked' = acked \/ (wpc[w] = "ok" /\ acked' = acked \cup {wmsg[w].msg})
    BY <1>6, AcknowledgeEffect
  <2>2. CASE wpc[w] = "ok" /\ acked' = acked \cup {wmsg[w].msg}
    <3>1. PICK m \in Msgs : wmsg[w] # NoDelivery /\ wmsg[w].msg = m
      BY <1>6, AcknowledgeEffect
    <3>2. pc[w] = "ok"
      BY <2>2 DEF JoinInv, Joined
    <3>3. job[w] \in Jobs /\ (enabled => status[job[w]] = "Completed")
      BY <3>2 DEF JP!IInv, JP!RowInv, JP!RowOK
    <3>4. Done(job[w])
      BY <3>2, <3>3 DEF DisabledInv, JP!IInv, JP!RowInv, JP!CompletedWasUploaded
    <3>5. job[w] \in RowsOf(m)
      BY <3>1, <3>3, Typed DEF JoinInv, Joined, RowsOf
    <3>6. \E j \in RowsOf(m)' : Done(j)'
      BY <1>2, <3>4, <3>5
    <3>7. QED
      BY <1>4, <2>2, <3>1, <3>6 DEF AckedIsCompleted
  <2>3. QED
    BY <1>5, <2>1, <2>2
<1>7. ASSUME NEW w \in Workers, Take(w) \/ Process(w) \/ Return(w) \/ Report(w) \/ QueueSide(M!WorkerExit(w))
      PROVE  acked' = acked
  BY <1>7 DEF Take, Process, Return, Report, QueueSide, queueVars, M!WorkerReceive, M!WorkerFinish,
              M!WorkerReport, M!WorkerExit, M!brokerVars
<1>8. QED
  BY <1>5, <1>6, <1>7, StepCases, CrashEffect DEF QueueQuiet, QueueSide, M!Boot, M!Opened

-----------------------------------------------------------------------------
(* Attempts, rows and dead letters.                                        *)

(* A worker's message has been attempted, and by it alone if only once.    *)
LEMMA WorkersAttempt ==
  ASSUME QP!IInv, QP!DInv, NEW m \in Msgs, NEW w \in Workload(m)
  PROVE  /\ ~Unattempted(m)
         /\ AttemptedOnce(m) => \A u \in Workload(m) : u = w
<1>1. /\ \A u \in Workload(m) : u \in Workers /\ wmsg[u] \in QP!Delivery /\ wmsg[u].msg = m
      /\ \A u \in Workload(m) : wmsg[u].session \in M!Session
      /\ \A u \in Workload(m) : attempts[m][wmsg[u].session] = 1
  BY DEF Workload, QP!IInv, QP!TypeInv, QP!TypeOK, QP!DeliveryOrNone, QP!Delivery, QP!Session, M!Session,
         QP!DInv, QP!PlaceInv, QP!StartedByWorkers, QP!Started
<1>2. \A u \in Workload(m) : wmsg[u].session = wmsg[w].session => u = w
  BY <1>1 DEF Workload, QP!DInv, QP!PlaceInv, QP!WorkersApart, QP!SameWork
<1>3. QED
  BY <1>1, <1>2 DEF Unattempted, AttemptedOnce

(* Taking a message starts the one attempt on the channel it came on.      *)
LEMMA TakeStarts ==
  ASSUME QP!IInv, QP!DInv, NEW w \in Workers, Take(w)
  PROVE  \E m \in Msgs, s \in M!Session :
           /\ attempts[m][s] = 0
           /\ \A n \in Msgs, t \in M!Session :
                attempts'[n][t] = IF n = m /\ t = s THEN 1 ELSE attempts[n][t]
           /\ \E d : d.msg = m /\ wmsg' = [wmsg EXCEPT ![w] = d]
           /\ UNCHANGED <<rowOf, job, status, disturbed, dead>>
<1>1. QP!WorkerReceive(w) /\ QP!TypeInv
  BY SameWorker DEF Take, QP!IInv
<1>2. /\ msgChan[1] \in QP!Unstarted
      /\ wmsg' = [wmsg EXCEPT ![w] = msgChan[1]]
      /\ \A n \in Msgs, t \in QP!Session :
           attempts'[n][t] = IF n = msgChan[1].msg /\ t = msgChan[1].session
                               THEN attempts[n][t] + 1 ELSE attempts[n][t]
  BY <1>1, QueueConstants, QP!ReceiveStarts
<1>3. msgChan[1].msg \in Msgs /\ msgChan[1].session \in M!Session /\ M!Session = QP!Session
  BY <1>2 DEF QP!Unstarted, QP!Delivery, QP!Session, M!Session
<1>4. attempts[msgChan[1].msg][msgChan[1].session] = 0
  BY <1>2 DEF QP!DInv, QP!PlaceInv, QP!StartedByWorkers, QP!Started
<1>5. UNCHANGED <<rowOf, job, status, disturbed, dead>>
  BY DEF Take, M!WorkerReceive, M!brokerVars, P!Receive, P!dbVars
<1>6. PICK m \in Msgs, s \in M!Session : m = msgChan[1].msg /\ s = msgChan[1].session
  BY <1>3
<1>7. attempts[m][s] = 0
  BY <1>4, <1>6
<1>8. \A n \in Msgs, t \in M!Session :
        attempts'[n][t] = IF n = m /\ t = s THEN 1 ELSE attempts[n][t]
  BY <1>2, <1>3, <1>6, <1>7
<1>9. QED
  BY <1>2, <1>5, <1>6, <1>7, <1>8

(* A row is added only by an attempt at its message.                       *)
LEMMA RowAdded ==
  ASSUME QP!IInv, JP!IInv, JoinInv, [Next]_vars, NEW m \in Msgs, NEW j \in RowsOf(m)', j \notin RowsOf(m)
  PROVE  \E w \in Workload(m) : /\ Process(w) /\ status'[j] = "Pending"
                                /\ j = job'[w] \/ j \in disturbed'
<1>1. j \in Jobs /\ rowOf'[j] = m /\ rowOf[j] # m /\ m # NoDelivery
  BY NoMessageAssumption DEF RowsOf
<1>2. ASSUME NEW w \in Workers, Process(w)
      PROVE  w \in Workload(m) /\ status'[j] = "Pending" /\ (j = job'[w] \/ j \in disturbed')
  <2>1. rowOf' = [i \in Jobs |->
          IF status[i] = "none" /\ status'[i] # "none" THEN wmsg[w].msg ELSE rowOf[i]]
    BY <1>2 DEF Process
  <2>2. wmsg[w].msg = m /\ status[j] = "none" /\ status'[j] # status[j]
    BY <1>1, <2>1
  <2>3. wmsg[w] # NoDelivery
    BY <1>2, ProcessEffect
  <2>4. status'[j] = "Pending" /\ (j = job'[w] \/ j \in disturbed')
    BY <1>1, <1>2, <2>2, ProcessEffect
  <2>5. QED
    BY <2>2, <2>3, <2>4 DEF Workload
<1>3. ASSUME ~\E w \in Workers : Process(w) PROVE UNCHANGED rowOf
  BY <1>3, StepCases DEF QueueQuiet, QueueSide, Take, Return, Report, Crash
<1>4. QED
  BY <1>1, <1>2, <1>3 DEF Workload

(* A message gets to a worker only by starting an attempt at it.           *)
LEMMA WorkloadAdded ==
  ASSUME QP!IInv, QP!NoSendOnClosed, QP!DInv, JP!IInv, JoinInv, [Next]_vars, NEW m \in Msgs
  PROVE  /\ \A s \in M!Session : attempts[m][s] > 0 => attempts'[m][s] > 0
         /\ \A w \in Workload(m)' : w \notin Workload(m) =>
              \E s \in M!Session :
                /\ attempts[m][s] = 0 /\ attempts'[m][s] = 1
                /\ \A t \in M!Session : t # s => attempts'[m][t] = attempts[m][t]
<1> DEFINE Goal ==
      /\ \A s \in M!Session : attempts[m][s] > 0 => attempts'[m][s] > 0
      /\ \A w \in Workload(m)' : w \notin Workload(m) =>
           \E s \in M!Session :
             /\ attempts[m][s] = 0 /\ attempts'[m][s] = 1
             /\ \A t \in M!Session : t # s => attempts'[m][t] = attempts[m][t]
<1>0. wmsg \in [Workers -> QP!Delivery \cup {NoDelivery}]
  BY Typed
<1>1. ASSUME attempts' = attempts, \A w \in Workers : wmsg'[w] \in {wmsg[w], NoDelivery} PROVE Goal
  BY <1>1 DEF Workload
<1>2. ASSUME NEW w \in Workers, Take(w) PROVE Goal
  <2>1. PICK n \in Msgs, s \in M!Session :
           /\ attempts[n][s] = 0
           /\ \A k \in Msgs, t \in M!Session :
                attempts'[k][t] = IF k = n /\ t = s THEN 1 ELSE attempts[k][t]
           /\ \E d : d.msg = n /\ wmsg' = [wmsg EXCEPT ![w] = d]
    BY <1>2, TakeStarts
  <2>2. \A u \in Workload(m)' : u \notin Workload(m) => m = n
    BY <1>0, <2>1 DEF Workload
  <2>3. QED
    BY <2>1, <2>2
<1>3. ASSUME NEW w \in Workers, \/ Process(w) \/ Return(w) \/ Report(w) \/ QueueSide(M!WorkerExit(w))
      PROVE  UNCHANGED <<attempts, wmsg>>
  BY <1>3 DEF Process, queueVars, Return, Report, QueueSide, M!WorkerFinish, M!WorkerReport, M!WorkerExit,
              M!historyVars
<1>4. ASSUME NEW w \in Workers, QueueSide(M!WorkerAcknowledge(w)) PROVE Goal
  BY <1>0, <1>1, <1>4, AcknowledgeEffect
<1>5. CASE QueueSide(M!Boot) \/ Crash
  BY <1>1, <1>5, BootEffect, CrashEffect
<1>6. QED
  BY <1>1, <1>2, <1>3, <1>4, <1>5, StepCases DEF QueueQuiet

(* While a worker has a message, the row it has made for it is its job.    *)
LEMMA JobKept ==
  ASSUME QP!IInv, QP!NoSendOnClosed, JP!IInv, JoinInv, [Next]_vars, NEW w \in Workers,
         wmsg[w] # NoDelivery, wmsg'[w] # NoDelivery, job[w] # NoDelivery
  PROVE  job'[w] = job[w]
<1>0. job \in [Workers -> Jobs \cup {NoDelivery}]
  BY Typed
<1>1. CASE UNCHANGED job
  BY <1>1
<1>2. ASSUME NEW u \in Workers, Process(u) PROVE job'[w] = job[w]
  BY <1>2, ProcessEffect
<1>3. ASSUME NEW u \in Workers, Report(u) PROVE job'[w] = job[w]
  <2>1. job' = [job EXCEPT ![u] = NoDelivery] /\ wpc[u] = "report"
    BY <1>3 DEF Report, M!WorkerReport, P!Report
  <2>2. wmsg[u] = NoDelivery
    BY <2>1 DEF QP!IInv, QP!TypeInv, QP!HandsFull
  <2>3. QED
    BY <1>0, <2>1, <2>2
<1>4. ASSUME NEW u \in Workers, Take(u) \/ Return(u) PROVE UNCHANGED job
  BY <1>4 DEF Take, P!Receive, Return, jobVars
<1>5. QED
  BY <1>1, <1>2, <1>3, <1>4, StepCases, CrashEffect DEF QueueQuiet, QueueSide, jobVars

(* A dead letter is an earlier one, or one a worker makes of its message.  *)
LEMMA DeadAdded ==
  ASSUME QP!IInv, QP!NoSendOnClosed, JoinInv, [Next]_vars, NEW m \in dead', m \notin dead
  PROVE  \E w \in Workload(m) : /\ pc[w] = "failed"
                                /\ wmsg' = [wmsg EXCEPT ![w] = NoDelivery]
                                /\ UNCHANGED <<jobVars, rowOf, attempts>>
<1>1. ASSUME NEW w \in Workers, QueueSide(M!WorkerAcknowledge(w))
      PROVE  /\ w \in Workload(m) /\ pc[w] = "failed"
             /\ wmsg' = [wmsg EXCEPT ![w] = NoDelivery]
             /\ UNCHANGED <<jobVars, rowOf, attempts>>
  <2>1. wpc[w] = "failed" /\ m = wmsg[w].msg /\ wmsg[w] # NoDelivery
    BY <1>1, AcknowledgeEffect
  <2>2. QED
    BY <1>1, <2>1, AcknowledgeEffect DEF JoinInv, Joined, Workload
<1>2. ASSUME NEW w \in Workers, \/ Take(w) \/ Process(w) \/ Return(w) \/ Report(w) \/ QueueSide(M!WorkerExit(w))
      PROVE  FALSE
  BY <1>2 DEF Take, Process, Return, Report, QueueSide, queueVars, M!WorkerReceive, M!WorkerFinish,
              M!WorkerReport, M!WorkerExit, M!brokerVars
<1>3. QED
  BY <1>1, <1>2, StepCases, BootEffect, CrashEffect DEF QueueQuiet

LEMMA AttemptStep ==
  ASSUME QP!IInv, QP!NoSendOnClosed, QP!DInv, JP!IInv, JoinInv, AttemptInv, [Next]_vars
  PROVE  AttemptInv'
<1> SUFFICES ASSUME NEW m \in Msgs
             PROVE  /\ Unattempted(m)' => RowsOf(m)' = {}
                    /\ AttemptedOnce(m)' =>
                         \A w \in Workload(m)', j \in RowsOf(m)' : j = job'[w] \/ j \in disturbed'
                    /\ m \in dead' =>
                         /\ ~Unattempted(m)'
                         /\ AttemptedOnce(m)' =>
                              /\ Workload(m)' = {}
                              /\ \A j \in RowsOf(m)' : status'[j] = "Completed" => j \in disturbed'
  BY DEF AttemptInv
<1>0. /\ attempts \in [Msgs -> [M!Session -> Nat]] /\ wmsg \in [Workers -> QP!Delivery \cup {NoDelivery}]
      /\ job \in [Workers -> Jobs \cup {NoDelivery}] /\ NoDelivery \notin Jobs
  BY Typed
<1>1. /\ Unattempted(m)' => Unattempted(m)
      /\ AttemptedOnce(m)' => AttemptedOnce(m)
  <2>1. \A s \in M!Session : attempts[m][s] \in Nat /\ (attempts[m][s] > 0 => attempts'[m][s] > 0)
    BY <1>0, WorkloadAdded
  <2>2. QED
    BY <2>1 DEF Unattempted, AttemptedOnce
<1>2. ASSUME AttemptedOnce(m)', NEW w \in Workload(m)', w \notin Workload(m) PROVE Unattempted(m)
  <2>1. PICK s \in M!Session :
          /\ attempts[m][s] = 0 /\ attempts'[m][s] = 1
          /\ \A t \in M!Session : t # s => attempts'[m][t] = attempts[m][t]
    BY <1>2, WorkloadAdded
  <2>2. \A t \in M!Session : t # s => ~(attempts'[m][t] > 0)
    BY <1>2, <2>1 DEF AttemptedOnce
  <2>3. QED
    BY <1>0, <2>1, <2>2 DEF Unattempted
<1>3. Unattempted(m) => Workload(m) = {}
  BY WorkersAttempt
<1>4. ASSUME Unattempted(m)' PROVE RowsOf(m)' = {}
  <2>1. RowsOf(m) = {} /\ Workload(m) = {}
    BY <1>1, <1>3, <1>4 DEF AttemptInv
  <2>2. \A j \in RowsOf(m)' : FALSE
    BY <2>1, RowAdded
  <2>3. QED
    BY <2>2
<1>5. ASSUME AttemptedOnce(m)', NEW w \in Workload(m)', NEW j \in RowsOf(m)'
      PROVE  j = job'[w] \/ j \in disturbed'
  <2>1. CASE w \notin Workload(m)
    <3>1. RowsOf(m) = {} /\ Workload(m) = {}
      BY <1>2, <1>3, <1>5, <2>1 DEF AttemptInv
    <3>2. QED
      BY <3>1, RowAdded
  <2>2. CASE w \in Workload(m) /\ j \in RowsOf(m)
    <3>1. j = job[w] \/ j \in disturbed
      BY <1>1, <1>5, <2>2 DEF AttemptInv
    <3>2. wmsg[w] # NoDelivery /\ wmsg'[w] # NoDelivery /\ w \in Workers /\ j \in Jobs
      BY <2>2 DEF Workload, RowsOf
    <3>3. QED
      BY <1>0, <3>1, <3>2, JobKept, RowKept
  <2>3. CASE w \in Workload(m) /\ j \notin RowsOf(m)
    <3>1. PICK u \in Workload(m) : j = job'[u] \/ j \in disturbed'
      BY <2>3, RowAdded
    <3>2. u = w
      BY <1>1, <1>5, <2>3, WorkersAttempt
    <3>3. QED
      BY <3>1, <3>2
  <2>4. QED
    BY <2>1, <2>2, <2>3
<1>6. ASSUME m \in dead', m \notin dead
      PROVE  /\ ~Unattempted(m)'
             /\ AttemptedOnce(m)' =>
                  /\ Workload(m)' = {}
                  /\ \A j \in RowsOf(m)' : status'[j] = "Completed" => j \in disturbed'
  <2>1. PICK w \in Workload(m) : /\ pc[w] = "failed" /\ wmsg' = [wmsg EXCEPT ![w] = NoDelivery]
                                 /\ UNCHANGED <<jobVars, rowOf, attempts>>
    BY <1>6, DeadAdded
  <2>2. ~Unattempted(m)'
    BY <2>1, WorkersAttempt DEF Unattempted
  <2>3. SUFFICES ASSUME AttemptedOnce(m)'
                 PROVE  /\ Workload(m)' = {}
                        /\ \A j \in RowsOf(m)' : status'[j] = "Completed" => j \in disturbed'
    BY <2>2
  <2>4. \A u \in Workload(m) : u = w
    BY <1>1, <2>3, WorkersAttempt
  <2>5. Workload(m)' = {}
    BY <1>0, <2>1, <2>4 DEF Workload
  <2>6. ASSUME NEW j \in RowsOf(m), status[j] = "Completed" PROVE j \in disturbed
    <3>1. CASE j = job[w]
      <4>1. w \in Workers /\ j # NoDelivery
        BY <1>0 DEF Workload, RowsOf
      <4>2. JP!RowOK(w)
        BY <4>1 DEF JP!IInv, JP!RowInv
      <4>3. QED
        BY <2>1, <2>6, <3>1, <4>1, <4>2 DEF JP!RowOK
    <3>2. QED
      BY <1>1, <2>3, <3>1 DEF AttemptInv
  <2>7. QED
    BY <2>1, <2>5, <2>6 DEF RowsOf, jobVars
<1>7. ASSUME m \in dead
      PROVE  /\ ~Unattempted(m)'
             /\ AttemptedOnce(m)' =>
                  /\ Workload(m)' = {}
                  /\ \A j \in RowsOf(m)' : status'[j] = "Completed" => j \in disturbed'
  <2>1. ~Unattempted(m)
    BY <1>7 DEF AttemptInv
  <2>2. SUFFICES ASSUME AttemptedOnce(m)'
                 PROVE  /\ Workload(m)' = {}
                        /\ \A j \in RowsOf(m)' : status'[j] = "Completed" => j \in disturbed'
    BY <1>1, <2>1
  <2>3. /\ Workload(m) = {}
        /\ \A j \in RowsOf(m) : status[j] = "Completed" => j \in disturbed
    BY <1>1, <1>7, <2>2 DEF AttemptInv
  <2>4. \A w \in Workload(m)' : FALSE
    BY <1>2, <2>1, <2>2, <2>3
  <2>5. ASSUME NEW j \in RowsOf(m)', status'[j] = "Completed" PROVE j \in disturbed'
    <3>1. j \in RowsOf(m)
      BY <2>3, RowAdded
    <3>2. j \in Jobs /\ rowOf[j] = m /\ rowOf[j] # NoDelivery
      BY <3>1, NoMessageAssumption DEF RowsOf
    <3>3. ASSUME NEW w \in Workers, Process(w), j = job[w] PROVE FALSE
      <4>1. wmsg[w] # NoDelivery /\ job[w] # NoDelivery
        BY <1>0, <3>2, <3>3, ProcessEffect
      <4>2. w \in Workload(m)
        BY <3>2, <3>3, <4>1 DEF JoinInv, Joined, Workload
      <4>3. QED
        BY <2>3, <4>2
    <3>4. status[j] = "Completed"
      BY <2>5, <3>2, <3>3, RowKept
    <3>5. QED
      BY <2>3, <3>1, <3>4, RowKept
  <2>6. QED
    BY <2>4, <2>5
<1>8. QED
  BY <1>4, <1>5, <1>6, <1>7

LEMMA WholeInvariance == Spec => []WholeInv
<1>1. Init => WholeInv
  <2> SUFFICES ASSUME Init PROVE WholeInv
    OBVIOUS
  <2>1. /\ wpc = [w \in Workers |-> "exited"] /\ wmsg = [w \in Workers |-> NoDelivery]
        /\ pc = [w \in Workers |-> "idle"] /\ job = [w \in Workers |-> NoDelivery]
        /\ status = [j \in Jobs |-> "none"] /\ rowOf = [j \in Jobs |-> NoDelivery]
        /\ acked = {} /\ dead = {}
    BY DEF Init, M!Init, M!BrokerInit, P!Init
  <2>2. JoinInv
    BY <2>1 DEF JoinInv, Joined
  <2>3. DisabledInv /\ AckedIsCompleted
    BY <2>1 DEF DisabledInv, AckedIsCompleted
  <2>4. AttemptInv
    BY <2>1, NoMessageAssumption DEF AttemptInv, RowsOf, Workload
  <2>5. QED
    BY <2>2, <2>3, <2>4 DEF WholeInv
<1>2. QP!IInv /\ QP!NoSendOnClosed /\ QP!DInv /\ JP!IInv /\ WholeInv /\ [Next]_vars => WholeInv'
  BY JoinStep, DisabledStep, AckStep, AttemptStep DEF WholeInv
<1>3. QED
  BY <1>1, <1>2, QueueInvariance, JobInvariance, PTL DEF Spec

(* At-least-once delivery, end to end: a message is confirmed only when    *)
(* one of its rows says Completed and that job's outputs were uploaded,    *)
(* whatever was lost, redelivered or killed on the way, and for any number *)
(* of messages, workers, videos and channels (worker.go, processor.go).    *)
THEOREM ConfirmedWorkIsCompleted == Spec => []AckedIsCompleted
<1>1. WholeInv => AckedIsCompleted
  BY DEF WholeInv
<1>2. QED
  BY <1>1, WholeInvariance, PTL

(* A message is confirmed only with a whole set of outputs in the bucket,  *)
(* as long as no two workers hold messages for one video: then neither     *)
(* redeliveries nor what crashed attempts have left behind can spoil what  *)
(* a Completed row stands for.                                             *)
AckedIsWhole ==
  enabled =>
    \A m \in acked : \E j \in RowsOf(m) : status[j] = "Completed" /\ uploaded[j] = "good"

THEOREM ConfirmedWorkIsWhole == Spec /\ []JP!OneAttemptPerVideo => []AckedIsWhole
<1>1. JP!Spec /\ []JP!OneAttemptPerVideo => []JP!CompletedIsWhole
  BY JobConstants, JP!UndisturbedJobsAreWhole
<1>2. AckedIsCompleted /\ JP!CompletedIsWhole => AckedIsWhole
  BY DEF AckedIsCompleted, JP!CompletedIsWhole, AckedIsWhole, RowsOf
<1>3. QED
  BY <1>1, <1>2, JobBehaviours, ConfirmedWorkIsCompleted, PTL

(* So it is with one worker, whatever the broker redelivers.               *)
THEOREM OneWorkerConfirmsWholeWork ==
  ASSUME \A u, w \in Workers : u = w
  PROVE  Spec => []AckedIsWhole
<1>1. JP!OneAttemptPerVideo
  BY DEF JP!OneAttemptPerVideo
<1>2. QED
  BY <1>1, ConfirmedWorkIsWhole, PTL

(* A Completed job's message is dead-lettered only after another attempt   *)
(* at it, on another channel, or a fault of the database or a crash in     *)
(* that job: Run and acknowledge never part on their own.                  *)
THEOREM DeadLettersAreExplained == Spec => []DeadYetCompletedIsExplained
<1>1. QP!IInv /\ WholeInv => DeadYetCompletedIsExplained
  BY DEF WholeInv, AttemptInv, AttemptedOnce, DeadYetCompletedIsExplained, QP!IInv, QP!TypeInv, QP!TypeOK
<1>2. QED
  BY <1>1, WholeInvariance, QueueInvariance, PTL

(* What publishers are promised holds of the whole process, with real      *)
(* attempts behind the outcomes: as long as the broker does not restart, a *)
(* message stays queued until it is confirmed after a success or dead-     *)
(* lettered after a failure (RunQueueConsumer, JobWorker, processPayload). *)
THEOREM EncoderImplementsAtLeastOnce ==
  ASSUME BrokerMayRestart = FALSE
  PROVE  Spec => M!ImplementsAtLeastOnce
<1>1. Init => QP!Init
  BY SameQueue DEF Init
<1>2. [Next]_vars => [QP!Next]_(QP!vars)
  BY SameQueue, QueueSideStep
<1>3. Spec => QP!Spec
  BY <1>1, <1>2, PTL DEF Spec, QP!Spec
<1>4. QP!Spec => QP!ImplementsAtLeastOnce
  BY QueueConstants, QP!ManagerImplementsAtLeastOnce
<1>5. QP!Promise!Init => M!Promise!Init
  BY DEF QP!Promise!Init, M!Promise!Init, QP!Outstanding, M!Outstanding
<1>6. [QP!Promise!Next]_(QP!Promise!vars) => [M!Promise!Next]_(M!Promise!vars)
  <2>1. M!Outstanding = QP!Outstanding /\ M!Outstanding' = QP!Outstanding'
    BY DEF M!Outstanding, QP!Outstanding
  <2>2. QED
    BY <2>1 DEF
      QP!Promise!Next, QP!Promise!Submit, QP!Promise!Attempt, QP!Promise!Confirm, QP!Promise!DeadLetter,
      QP!Promise!vars, M!Promise!Next, M!Promise!Submit, M!Promise!Attempt, M!Promise!Confirm,
      M!Promise!DeadLetter, M!Promise!vars
<1>7. QED
  BY <1>3, <1>4, <1>5, <1>6, PTL
     DEF QP!ImplementsAtLeastOnce, QP!Promise!Spec, M!ImplementsAtLeastOnce, M!Promise!Spec
=============================================================================
