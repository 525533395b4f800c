----------------------------- MODULE AtLeastOnce -----------------------------
(***************************************************************************)
(* What the queue side of the service promises its publishers (README,     *)
(* "Reliability behavior"): a published message stays queued until it is   *)
(* either confirmed or dead-lettered, never both; it is confirmed only     *)
(* after an attempt at it has succeeded and dead-lettered only after one   *)
(* has failed.  Attempts may be repeated, also after the message has been  *)
(* settled.                                                                *)
(***************************************************************************)
CONSTANT Msgs

VARIABLES
  queued,    \* messages accepted and not settled
  acked,     \* messages confirmed
  dead,      \* messages dead-lettered
  outcomes   \* outcomes of the attempts made at each message

vars == <<queued, acked, dead, outcomes>>

Init ==
  /\ queued = {}
  /\ acked = {}
  /\ dead = {}
  /\ outcomes = [m \in Msgs |-> {}]

Submit(m) ==
  /\ m \notin queued \cup acked \cup dead
  /\ queued' = queued \cup {m}
  /\ UNCHANGED <<acked, dead, outcomes>>

Attempt(m, result) ==
  /\ m \in queued \cup acked \cup dead
  /\ outcomes' = [outcomes EXCEPT ![m] = @ \cup {result}]
  /\ UNCHANGED <<queued, acked, dead>>

Confirm(m) ==
  /\ m \in queued
  /\ "ok" \in outcomes[m]
  /\ queued' = queued \ {m}
  /\ acked' = acked \cup {m}
  /\ UNCHANGED <<dead, outcomes>>

DeadLetter(m) ==
  /\ m \in queued
  /\ "failed" \in outcomes[m]
  /\ queued' = queued \ {m}
  /\ dead' = dead \cup {m}
  /\ UNCHANGED <<acked, outcomes>>

Next ==
  \E m \in Msgs :
    \/ Submit(m)
    \/ \E result \in {"ok", "failed"} : Attempt(m, result)
    \/ Confirm(m)
    \/ DeadLetter(m)

Spec == Init /\ [][Next]_vars
=============================================================================
