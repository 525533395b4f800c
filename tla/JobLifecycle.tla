---------------------------- MODULE JobLifecycle ----------------------------
(***************************************************************************)
(* The status of every job row, as clients polling the API may see it      *)
(* change (README, "Job status is a simple state machine").  A job can     *)
(* also fail before it is Processing: when MarkProcessing reports an       *)
(* error, Run still tries to mark the job Failed.                          *)
(***************************************************************************)
CONSTANT Jobs

VARIABLE status

Init == status = [j \in Jobs |-> "none"]

Become(j, from, to) ==
  /\ status[j] \in from
  /\ status' = [status EXCEPT ![j] = to]

Consume(j) == Become(j, {"none"}, "Pending")
PickUp(j) == Become(j, {"Pending"}, "Processing")
Complete(j) == Become(j, {"Processing"}, "Completed")

(* Wrong on purpose: a job can still fail after it was Completed.          *)
FailLate(j) == Become(j, {"Pending", "Processing", "Completed"}, "Failed")

Fail(j) == Become(j, {"Pending", "Processing"}, "Failed")

Next == \E j \in Jobs : Consume(j) \/ PickUp(j) \/ Complete(j) \/ Fail(j)

Spec == Init /\ [][Next]_status
=============================================================================
