------------------------------ MODULE Publisher ------------------------------
(***************************************************************************)
(* The publishing queue.Client (internal/queue) as the HTTP handlers share *)
(* it: POST /jobs publishes through it, GET /readyz revives it, main       *)
(* closes it at shutdown.  A mutex guards its one connection, which is     *)
(* replaced whenever it is found unusable.                                 *)
(*                                                                         *)
(* The connection is seen from the client: "nil"; "open"; "broken", when   *)
(* it is lost and the client does not know yet; "dead", when it does.      *)
(***************************************************************************)
EXTENDS Naturals

CONSTANTS
  Handlers,  \* HTTP requests that may be in progress at once
  None       \* nobody holds the mutex

ASSUME HandlersAssumption == None \notin Handlers

VARIABLES
  up,        \* whether the broker can be reached
  link,      \* the client's connection and channel
  mu,        \* who holds Client.mu
  main,      \* "serving", "stopping", "closed" or "exited"
  pc,        \* where every handler is
  kind,      \* the request it handles: "job" or "ready"
  answer,    \* what it has answered
  queued,    \* history: how often the request's message reached the queue
  fault,     \* history: an outage, a loss or a failed dial during the request
  leaked     \* history: connections opened and never closed

requestVars == <<pc, kind, answer, queued>>
vars == <<up, link, mu, main, requestVars, fault, leaked>>

Locked == {"check", "close", "dial", "send", "reclose", "redial", "resend"}
Busy(h) == pc[h] # "idle"

(* main does not serve requests before pub.Connect has succeeded.          *)
Init ==
  /\ up = TRUE
  /\ link = "open"
  /\ mu = None
  /\ main = "serving"
  /\ pc = [h \in Handlers |-> "idle"]
  /\ kind = [h \in Handlers |-> "job"]
  /\ answer = [h \in Handlers |-> "none"]
  /\ queued = [h \in Handlers |-> 0]
  /\ fault = [h \in Handlers |-> FALSE]
  /\ leaked = 0

-----------------------------------------------------------------------------
(* The broker and the network.                                             *)

FaultDuring == fault' = [h \in Handlers |-> fault[h] \/ Busy(h)]
LinkLost == link' = IF link = "open" THEN "broken" ELSE link

BrokerStops ==
  /\ up
  /\ up' = FALSE
  /\ LinkLost
  /\ FaultDuring
  /\ UNCHANGED <<mu, main, requestVars, leaked>>

BrokerStarts ==
  /\ ~up
  /\ up' = TRUE
  /\ UNCHANGED <<link, mu, main, requestVars, fault, leaked>>

LinkBreaks ==
  /\ link = "open"
  /\ LinkLost
  /\ FaultDuring
  /\ UNCHANGED <<up, mu, main, requestVars, leaked>>

LossNoticed ==
  /\ link = "broken"
  /\ link' = "dead"
  /\ UNCHANGED <<up, mu, main, requestVars, fault, leaked>>

-----------------------------------------------------------------------------
(* The handlers.                                                           *)

Step(h, to) == pc' = [pc EXCEPT ![h] = to] /\ UNCHANGED <<kind, answer, queued>>

(* The handler answers and the deferred Unlock runs.                       *)
Answer(h, what, copies) ==
  /\ pc' = [pc EXCEPT ![h] = "answered"]
  /\ answer' = [answer EXCEPT ![h] = what]
  /\ queued' = [queued EXCEPT ![h] = @ + copies]
  /\ mu' = None
  /\ UNCHANGED kind

Request(h, k) ==
  /\ pc[h] = "idle"
  /\ main = "serving"
  /\ pc' = [pc EXCEPT ![h] = "request"]
  /\ kind' = [kind EXCEPT ![h] = k]
  /\ fault' = [fault EXCEPT ![h] = ~up]
  /\ UNCHANGED <<up, link, mu, main, answer, queued, leaked>>

(* The body or the video id is refused, or the database cannot be reached. *)
Refuse(h) ==
  /\ pc[h] = "request"
  /\ pc' = [pc EXCEPT ![h] = "answered"]
  /\ answer' = [answer EXCEPT ![h] = "refused"]
  /\ UNCHANGED <<up, link, mu, main, kind, queued, fault, leaked>>

(* Wrong on purpose: the readiness probe does not take the mutex.          *)
LockJobsOnly(h) ==
  /\ pc[h] = "request"
  /\ kind[h] = "ready" \/ mu = None
  /\ mu' = IF kind[h] = "ready" THEN mu ELSE h
  /\ Step(h, "check")
  /\ UNCHANGED <<up, link, main, fault, leaked>>

(* Publish and EnsureReady begin: c.mu.Lock().                             *)
Lock(h) ==
  /\ pc[h] = "request"
  /\ mu = None
  /\ mu' = h
  /\ Step(h, "check")
  /\ UNCHANGED <<up, link, main, fault, leaked>>

readyLocked == link \in {"open", "broken"}

Check(h) ==
  /\ pc[h] = "check"
  /\ IF ~readyLocked THEN Step(h, "close") /\ UNCHANGED mu
     ELSE IF kind[h] = "ready" THEN Answer(h, "accepted", 0)
     ELSE Step(h, "send") /\ UNCHANGED mu
  /\ UNCHANGED <<up, link, main, fault, leaked>>

(* Wrong on purpose: reconnects without closing the old connection.        *)
SkipClose(h) ==
  /\ \/ pc[h] = "close" /\ Step(h, "dial")
     \/ pc[h] = "reclose" /\ Step(h, "redial")
  /\ UNCHANGED <<up, link, mu, main, fault, leaked>>

closeLocked(h) ==
  /\ \/ pc[h] = "close" /\ Step(h, "dial")
     \/ pc[h] = "reclose" /\ Step(h, "redial")
  /\ link' = "nil"
  /\ UNCHANGED <<up, mu, main, fault, leaked>>

(* connectLocked puts a new connection in the place of whatever is there.  *)
Dialled ==
  /\ up
  /\ link' = "open"
  /\ leaked' = IF link \in {"open", "broken"} THEN leaked + 1 ELSE leaked

connectLocked(h) ==
  /\ Dialled
  /\ \/ pc[h] = "dial" /\ kind[h] = "job" /\ Step(h, "send") /\ UNCHANGED mu
     \/ pc[h] = "dial" /\ kind[h] = "ready" /\ Answer(h, "accepted", 0)
     \/ pc[h] = "redial" /\ Step(h, "resend") /\ UNCHANGED mu
  /\ UNCHANGED <<up, main, fault>>

(* Wrong on purpose: the error path returns without unlocking.             *)
ConnectFailsLocked(h) ==
  /\ pc[h] \in {"dial", "redial"}
  /\ pc' = [pc EXCEPT ![h] = "answered"]
  /\ answer' = [answer EXCEPT ![h] = "rejected"]
  /\ fault' = [fault EXCEPT ![h] = TRUE]
  /\ UNCHANGED <<up, link, mu, main, kind, queued, leaked>>

(* The broker is not there, or dial, channel or QoS fail or time out: one  *)
(* step, in which the error returns of connectLocked close what it had     *)
(* opened.                                                                 *)
ConnectFails(h) ==
  /\ pc[h] \in {"dial", "redial"}
  /\ Answer(h, "rejected", 0)
  /\ fault' = [fault EXCEPT ![h] = TRUE]
  /\ UNCHANGED <<up, link, main, leaked>>

(* Wrong on purpose: after a send, looks at the connection once more and   *)
(* sends again if that has been lost since.                                *)
SentAndVerified(h) ==
  /\ pc[h] \in {"send", "resend"}
  /\ \/ link = "open" /\ Answer(h, "accepted", 1)
     \/ /\ link = "open" /\ pc[h] = "send"
        /\ pc' = [pc EXCEPT ![h] = "reclose"]
        /\ queued' = [queued EXCEPT ![h] = @ + 1]
        /\ UNCHANGED <<mu, kind, answer>>
     \/ link = "broken" /\ Answer(h, "accepted", 0)
  /\ UNCHANGED <<up, link, main, fault, leaked>>

(* publishOnce returns nil: the message is queued, or it was written to a  *)
(* connection that no longer leads anywhere.                               *)
Sent(h) ==
  /\ pc[h] \in {"send", "resend"}
  /\ \/ link = "open" /\ Answer(h, "accepted", 1)
     \/ link = "broken" /\ Answer(h, "accepted", 0)
  /\ UNCHANGED <<up, link, main, fault, leaked>>

(* Wrong on purpose: gives up at the first error.                          *)
SendGivesUp(h) ==
  /\ link \in {"broken", "dead"}
  /\ pc[h] \in {"send", "resend"}
  /\ Answer(h, "rejected", 0)
  /\ UNCHANGED <<up, link, main, fault, leaked>>

(* publishOnce returns an error: Publish reconnects and tries once more.   *)
SendFails(h) ==
  /\ link \in {"broken", "dead"}
  /\ \/ pc[h] = "send" /\ Step(h, "reclose") /\ UNCHANGED mu
     \/ pc[h] = "resend" /\ Answer(h, "rejected", 0)
  /\ UNCHANGED <<up, link, main, fault, leaked>>

(* The connection slot is free for the next request.                       *)
Finish(h) ==
  /\ pc[h] = "answered"
  /\ pc' = [pc EXCEPT ![h] = "idle"]
  /\ answer' = [answer EXCEPT ![h] = "none"]
  /\ queued' = [queued EXCEPT ![h] = 0]
  /\ fault' = [fault EXCEPT ![h] = FALSE]
  /\ UNCHANGED <<up, link, mu, main, kind, leaked>>

-----------------------------------------------------------------------------
(* main.                                                                   *)

Shutdown ==
  /\ main = "serving"
  /\ main' = "stopping"
  /\ UNCHANGED <<up, link, mu, requestVars, fault, leaked>>

(* Shutdown gives up on handlers after 15 s: some may still be running.    *)
Close ==
  /\ main = "stopping"
  /\ mu = None
  /\ link' = "nil"
  /\ main' = "closed"
  /\ UNCHANGED <<up, mu, requestVars, fault, leaked>>

(* main returns after its deferred calls and the process ends: whoever is  *)
(* still in a handler is never answered, and the connection goes with it.  *)
Exit ==
  /\ main = "closed"
  /\ main' = "exited"
  /\ link' = "nil"
  /\ mu' = None
  /\ pc' = [h \in Handlers |-> "idle"]
  /\ answer' = [h \in Handlers |-> "none"]
  /\ queued' = [h \in Handlers |-> 0]
  /\ fault' = [h \in Handlers |-> FALSE]
  /\ UNCHANGED <<up, kind, leaked>>

-----------------------------------------------------------------------------

Environment == BrokerStops \/ BrokerStarts \/ LinkBreaks \/ LossNoticed

Proceed(h) ==
  \/ Lock(h) \/ Check(h) \/ closeLocked(h) \/ connectLocked(h) \/ ConnectFails(h)
  \/ Sent(h) \/ SendFails(h) \/ Finish(h)

Next ==
  \/ Environment
  \/ \E h \in Handlers, k \in {"job", "ready"} : Request(h, k)
  \/ \E h \in Handlers : Refuse(h) \/ Proceed(h)
  \/ Shutdown \/ Close \/ Exit

Spec == Init /\ [][Next]_vars

(* Go schedules whoever can run, and its mutexes do not starve a waiter.   *)
(* Nothing else is fair: a call into the amqp library may never return     *)
(* (dialTimeout bounds only the dial; a send has no deadline), nothing     *)
(* makes a request be refused, and main need not shut down.                *)
FairSpec ==
  /\ Spec
  /\ \A h \in Handlers : WF_vars(Check(h) \/ Finish(h)) /\ SF_vars(Lock(h))

-----------------------------------------------------------------------------
(* Properties.                                                             *)

(* Every variable has its type, and only the holder of the mutex is inside *)
(* Publish or EnsureReady.                                                 *)
TypeOK ==
  /\ up \in BOOLEAN
  /\ link \in {"nil", "open", "broken", "dead"}
  /\ mu \in Handlers \cup {None}
  /\ main \in {"serving", "stopping", "closed", "exited"}
  /\ pc \in [Handlers -> {"idle", "request", "answered"} \cup Locked]
  /\ \A h \in Handlers : pc[h] \in Locked <=> mu = h
  /\ kind \in [Handlers -> {"job", "ready"}]
  /\ answer \in [Handlers -> {"none", "accepted", "rejected", "refused"}]
  /\ queued \in [Handlers -> 0..2]
  /\ fault \in [Handlers -> BOOLEAN]
  /\ leaked \in Nat

(* publishOnce never dereferences a nil channel: between the check and the *)
(* send nobody closes the connection (Client.mu).                          *)
NeverSendsOnNil ==
  \A h \in Handlers : pc[h] \in {"send", "resend"} => link # "nil"

(* However often concurrent publishes and probes reconnect, every          *)
(* connection they have opened is closed or is the client's.               *)
NoConnectionLeaked == leaked = 0

(* The retry of Publish never queues a message twice, and one that was     *)
(* answered with an error was not queued at all.                           *)
QueuedAtMostOnce ==
  \A h \in Handlers :
    /\ queued[h] <= 1
    /\ answer[h] = "rejected" => queued[h] = 0

(* Publish "can transparently reconnect after an outage": a request is     *)
(* rejected only for a fault that falls within the request, never for a    *)
(* connection lost before it.                                              *)
PastOutagesCostNothing ==
  \A h \in Handlers : answer[h] = "rejected" => fault[h]

(* No handler stays in a call into the amqp library for ever.              *)
AmqpCallsReturn ==
  \A h \in Handlers :
    []<>(pc[h] \notin {"close", "dial", "send", "reclose", "redial", "resend"})

(* As long as the library's calls return, every request is answered or the *)
(* process ends: no return path of Publish or EnsureReady keeps the mutex, *)
(* however many handlers wait for it and however often they reconnect.     *)
(* One call that never returns would hold up every other request: the      *)
(* premise is the library's to keep, the rest is the client's.             *)
RequestsAnswered ==
  AmqpCallsReturn =>
    \A h \in Handlers : pc[h] = "request" ~> (pc[h] = "answered" \/ main = "exited")

(* server.go: EnqueueResponse "acknowledges that a job was queued".        *)
(* Broken by a lost connection the client has not noticed yet: publishes   *)
(* are not confirmed.                                                      *)
AcceptedIsQueued ==
  \A h \in Handlers : (answer[h] = "accepted" /\ kind[h] = "job") => queued[h] = 1
=============================================================================
