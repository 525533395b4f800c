--------------------------- MODULE PublisherProofs ---------------------------
(***************************************************************************)
(* Proofs about Publisher, for any number of concurrent requests.          *)
(***************************************************************************)
EXTENDS Publisher, TLAPS

USE HandlersAssumption

(* What the holder of the mutex may rely on: it dials only with no         *)
(* connection left, and sends on one it has seen or just made; one it has  *)
(* just made can be lost only by a fault during the request.               *)
HolderOK(h) ==
  /\ pc[h] \in {"dial", "redial"} => link = "nil"
  /\ pc[h] \in {"send", "resend"} => link # "nil"
  /\ pc[h] = "resend" /\ link # "open" => fault[h]

(* What a request has got so far.                                          *)
RequestOK(h) ==
  /\ pc[h] # "answered" => answer[h] = "none" /\ queued[h] = 0
  /\ queued[h] <= 1
  /\ answer[h] = "rejected" => queued[h] = 0 /\ fault[h]

IInv ==
  /\ TypeOK
  /\ \A h \in Handlers : HolderOK(h) /\ RequestOK(h)
  /\ NoConnectionLeaked

LEMMA InitIInv == Init => IInv
BY DEF Init, IInv, TypeOK, Locked, HolderOK, RequestOK, NoConnectionLeaked

LEMMA EnvironmentStep == IInv /\ Environment => IInv'
<1> SUFFICES ASSUME IInv, Environment PROVE IInv'
  OBVIOUS
<1> USE DEF IInv, TypeOK, Locked, Busy, HolderOK, RequestOK, NoConnectionLeaked, requestVars
<1>1. CASE BrokerStops
  BY <1>1 DEF BrokerStops, FaultDuring, LinkLost
<1>2. CASE BrokerStarts
  BY <1>2 DEF BrokerStarts
<1>3. CASE LinkBreaks
  BY <1>3 DEF LinkBreaks, FaultDuring, LinkLost
<1>4. CASE LossNoticed
  BY <1>4 DEF LossNoticed
<1>5. QED
  BY <1>1, <1>2, <1>3, <1>4 DEF Environment

(* Only the holder of the mutex is at a step that needs it.                *)
LEMMA OneHolder ==
  ASSUME TypeOK, NEW h \in Handlers, NEW g \in Handlers, pc[h] \in Locked, pc[g] \in Locked
  PROVE  g = h
BY DEF TypeOK

LEMMA HandlerStep ==
  ASSUME IInv, NEW h \in Handlers, Refuse(h) \/ Proceed(h)
  PROVE  IInv'
<1> USE DEF IInv, TypeOK, Locked, HolderOK, RequestOK, NoConnectionLeaked, Step, Answer
<1>1. CASE Refuse(h)
  BY <1>1 DEF Refuse
<1>2. CASE Lock(h)
  BY <1>2 DEF Lock
<1>3. CASE Check(h)
  BY <1>3 DEF Check, readyLocked
<1>4. CASE closeLocked(h)
  BY <1>4, OneHolder DEF closeLocked
<1>5. CASE connectLocked(h)
  BY <1>5, OneHolder DEF connectLocked, Dialled
<1>6. CASE ConnectFails(h)
  BY <1>6 DEF ConnectFails
<1>7. CASE Sent(h)
  BY <1>7 DEF Sent
<1>8. CASE SendFails(h)
  BY <1>8 DEF SendFails
<1>9. CASE Finish(h)
  BY <1>9 DEF Finish
<1>10. QED
  BY <1>1, <1>2, <1>3, <1>4, <1>5, <1>6, <1>7, <1>8, <1>9 DEF Proceed

LEMMA IInvStep == IInv /\ [Next]_vars => IInv'
<1> SUFFICES ASSUME IInv, [Next]_vars PROVE IInv'
  OBVIOUS
<1> USE DEF IInv, TypeOK, Locked, HolderOK, RequestOK, NoConnectionLeaked, requestVars
<1>1. ASSUME NEW h \in Handlers, NEW k \in {"job", "ready"}, Request(h, k) PROVE IInv'
  BY <1>1 DEF Request
<1>2. CASE Shutdown
  BY <1>2 DEF Shutdown
<1>3. CASE Close
  BY <1>3 DEF Close
<1>4. CASE Exit
  BY <1>4 DEF Exit
<1>5. CASE UNCHANGED vars
  BY <1>5 DEF vars
<1>6. QED
  BY <1>1, <1>2, <1>3, <1>4, <1>5, EnvironmentStep, HandlerStep DEF Next

LEMMA Invariance == Spec => []IInv
BY InitIInv, IInvStep, PTL DEF Spec

(* Every variable has its type and only the holder of Client.mu is inside  *)
(* Publish or EnsureReady, however many handlers call them.                *)
THEOREM TypeCorrect == Spec => []TypeOK
<1>1. IInv => TypeOK
  BY DEF IInv
<1>2. QED
  BY <1>1, Invariance, PTL

(* publishOnce never uses a nil channel: readiness probes and main's Close *)
(* cannot take it away between the check of Publish and its send.          *)
THEOREM SendsOnAChannel == Spec => []NeverSendsOnNil
<1>1. IInv => NeverSendsOnNil
  BY DEF IInv, HolderOK, NeverSendsOnNil
<1>2. QED
  BY <1>1, Invariance, PTL

(* connectLocked never overwrites a connection that is still open: Publish *)
(* and EnsureReady always close first.                                     *)
THEOREM ConnectionsAreClosed == Spec => []NoConnectionLeaked
<1>1. IInv => NoConnectionLeaked
  BY DEF IInv
<1>2. QED
  BY <1>1, Invariance, PTL

(* The retry of Publish queues no message twice, and none whose request is *)
(* answered with an error.                                                 *)
THEOREM RetryQueuesOnce == Spec => []QueuedAtMostOnce
<1>1. IInv => QueuedAtMostOnce
  BY DEF IInv, RequestOK, QueuedAtMostOnce
<1>2. QED
  BY <1>1, Invariance, PTL

(* Publish repairs a connection lost before the request: only a fault      *)
(* within the request can fail it.                                         *)
THEOREM PastOutagesAreRepaired == Spec => []PastOutagesCostNothing
<1>1. IInv => PastOutagesCostNothing
  BY DEF IInv, RequestOK, PastOutagesCostNothing
<1>2. QED
  BY <1>1, Invariance, PTL

-----------------------------------------------------------------------------
(* What an accepted request is worth.                                      *)

(* Losses are noticed before the next send: publishOnce never writes to a  *)
(* connection that is gone without the client knowing.                     *)
LossesAreNoticed ==
  \A h \in Handlers : pc[h] \in {"send", "resend"} => link # "broken"

LEMMA AcceptedStep ==
  IInv /\ LossesAreNoticed /\ AcceptedIsQueued /\ [Next]_vars => AcceptedIsQueued'
<1> SUFFICES ASSUME IInv, LossesAreNoticed, AcceptedIsQueued, [Next]_vars
             PROVE  AcceptedIsQueued'
  OBVIOUS
<1> USE DEF AcceptedIsQueued, requestVars, Step, Answer, IInv, TypeOK, RequestOK
<1>1. CASE Environment \/ Shutdown \/ Close \/ Exit \/ UNCHANGED vars
  BY <1>1 DEF Environment, BrokerStops, BrokerStarts, LinkBreaks, LossNoticed,
       Shutdown, Close, Exit, vars
<1>2. ASSUME NEW h \in Handlers, NEW k \in {"job", "ready"}, Request(h, k)
      PROVE  AcceptedIsQueued'
  BY <1>2 DEF Request
<1>3. ASSUME NEW h \in Handlers, Sent(h) PROVE AcceptedIsQueued'
  BY <1>3 DEF Sent, LossesAreNoticed
<1>4. ASSUME NEW h \in Handlers, Check(h) \/ connectLocked(h) PROVE AcceptedIsQueued'
  BY <1>4 DEF Check, connectLocked
<1>5. ASSUME NEW h \in Handlers,
             \/ Refuse(h) \/ Lock(h) \/ closeLocked(h) \/ ConnectFails(h)
             \/ SendFails(h) \/ Finish(h)
      PROVE  AcceptedIsQueued'
  BY <1>5 DEF Refuse, Lock, closeLocked, ConnectFails, SendFails, Finish
<1>6. QED
  BY <1>1, <1>2, <1>3, <1>4, <1>5 DEF Next, Proceed

(* "Acknowledges that a job was queued" (EnqueueResponse) is true of every *)
(* request as long as no connection is lost unnoticed at a send: the       *)
(* reconnects and the retry of Publish lose nothing of their own.          *)
THEOREM AcceptedJobsAreQueued == Spec /\ []LossesAreNoticed => []AcceptedIsQueued
<1>1. Init => AcceptedIsQueued
  BY DEF Init, AcceptedIsQueued
<1>2. QED
  BY <1>1, AcceptedStep, Invariance, PTL DEF Spec
=============================================================================
