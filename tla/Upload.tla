------------------------------- MODULE Upload -------------------------------
(***************************************************************************)
(* One call of VideoUpload.ProcessUpload (internal/upload): the caller     *)
(* feeds file indexes through a buffered Go channel to a pool of           *)
(* uploadWorker goroutines, which collect failures in a slice they share.  *)
(* Files are their indexes in Paths; an object in the bucket is reduced to *)
(* whether it is there and whole.                                          *)
(***************************************************************************)
EXTENDS Integers, Sequences, FiniteSets, Functions

CONSTANTS
  MaxFiles,     \* bound: files under VideoPath
  Concurrency,  \* the values of the concurrency argument
  Capacity      \* buffer of the channel: runtime.NumCPU()

ASSUME MaxFilesAssumption == MaxFiles \in Nat
ASSUME ConcurrencyAssumption == Concurrency \subseteq Int
ASSUME CapacityAssumption == Capacity \in Nat \ {0}

Files == 1..MaxFiles
Pool == 1..MaxFiles  \* there are never more workers than files

VARIABLES
  n,            \* how many files there are: len(Paths)
  concurrency,  \* the argument
  caller,       \* where ProcessUpload is
  next,         \* the index it sends next
  in,           \* the channel
  expired,      \* the job's context has expired
  worker,       \* where every uploadWorker is
  item,         \* the index it handles
  errorsMu,     \* who holds the mutex, 0 if nobody
  seen,         \* the slice as the worker's append has read it
  Errors,       \* the shared slice
  object,       \* the objects in the bucket
  failed        \* history: files whose upload failed

callVars == <<n, concurrency>>
poolVars == <<worker, item, errorsMu, seen, Errors>>
bucketVars == <<object, failed>>
vars == <<callVars, caller, next, in, expired, poolVars, bucketVars>>

Returned == {"ok", "failed", "error"}

Init ==
  /\ n \in 0..MaxFiles
  /\ concurrency \in Concurrency
  /\ caller = "start"
  /\ next = 1
  /\ in = <<>>
  /\ expired = FALSE
  /\ worker = [w \in Pool |-> "none"]
  /\ item = [w \in Pool |-> 0]
  /\ errorsMu = 0
  /\ seen = [w \in Pool |-> <<>>]
  /\ Errors = <<>>
  /\ object = [f \in Files |-> "none"]
  /\ failed = {}

-----------------------------------------------------------------------------
(* ProcessUpload.                                                          *)

(* The walk fails or finds nothing, or there is no storage client.         *)
StartFails ==
  /\ caller = "start"
  /\ caller' = "error"
  /\ UNCHANGED <<callVars, next, in, expired, poolVars, bucketVars>>

(* Wrong on purpose: a concurrency below one is taken as it is.            *)
WorkerCountUnchecked == IF concurrency > n THEN n ELSE concurrency

WorkerCount ==
  LET atLeastOne == IF concurrency <= 0 THEN 1 ELSE concurrency IN
  IF atLeastOne > n THEN n ELSE atLeastOne

Start ==
  /\ caller = "start"
  /\ n > 0
  /\ caller' = "feed"
  /\ worker' = [w \in Pool |-> IF w <= WorkerCount THEN "idle" ELSE "none"]
  /\ UNCHANGED <<callVars, next, in, expired, item, errorsMu, seen, Errors, bucketVars>>

(* Wrong on purpose: x <= len(vu.Paths).                                   *)
FeedOneTooMany ==
  /\ caller = "feed"
  /\ next <= n + 1
  /\ Len(in) < Capacity
  /\ in' = Append(in, next)
  /\ next' = next + 1
  /\ UNCHANGED <<callVars, caller, expired, poolVars, bucketVars>>

Feed ==
  /\ caller = "feed"
  /\ next <= n
  /\ Len(in) < Capacity
  /\ in' = Append(in, next)
  /\ next' = next + 1
  /\ UNCHANGED <<callVars, caller, expired, poolVars, bucketVars>>

CloseIn ==
  /\ caller = "feed"
  /\ next > n
  /\ caller' = "wait"
  /\ UNCHANGED <<callVars, next, in, expired, poolVars, bucketVars>>

Return ==
  /\ caller = "wait"
  /\ \A w \in Pool : worker[w] \in {"none", "done"}
  /\ caller' = IF Errors # <<>> THEN "failed" ELSE "ok"
  /\ UNCHANGED <<callVars, next, in, expired, poolVars, bucketVars>>

(* PROCESS_TIMEOUT runs out: no upload succeeds after that.                *)
Expire ==
  /\ ~expired
  /\ caller \notin Returned
  /\ expired' = TRUE
  /\ UNCHANGED <<callVars, caller, next, in, poolVars, bucketVars>>

-----------------------------------------------------------------------------
(* uploadWorker.                                                           *)

Receive(w) ==
  /\ worker[w] = "idle"
  /\ in # <<>>
  /\ item' = [item EXCEPT ![w] = Head(in)]
  /\ in' = Tail(in)
  /\ worker' = [worker EXCEPT ![w] = "upload"]
  /\ UNCHANGED <<callVars, caller, next, expired, errorsMu, seen, Errors, bucketVars>>

Exit(w) ==
  /\ worker[w] = "idle"
  /\ in = <<>>
  /\ caller = "wait"
  /\ worker' = [worker EXCEPT ![w] = "done"]
  /\ UNCHANGED <<callVars, caller, next, in, expired, item, errorsMu, seen, Errors, bucketVars>>

UploadObject(w) ==
  /\ worker[w] = "upload"
  /\ ~expired
  /\ object' = [object EXCEPT ![item[w]] = "whole"]
  /\ worker' = [worker EXCEPT ![w] = "idle"]
  /\ UNCHANGED <<callVars, caller, next, in, expired, item, errorsMu, seen, Errors, failed>>

(* Wrong on purpose: the result of the final wc.Close is not looked at.    *)
UploadFailsUnnoticed(w) ==
  /\ worker[w] = "upload"
  /\ object' = [object EXCEPT ![item[w]] = "partial"]
  /\ worker' = [worker EXCEPT ![w] = "idle"]
  /\ UNCHANGED <<callVars, caller, next, in, expired, item, errorsMu, seen, Errors, failed>>

(* The file cannot be opened, the copy breaks off (the writer is closed    *)
(* all the same, and may leave part of the file as the object), or the     *)
(* final Close reports an error, with or without the object in place.      *)
UploadFails(w) ==
  /\ worker[w] = "upload"
  /\ \E left \in {object[item[w]], "partial", "whole"} :
       object' = [object EXCEPT ![item[w]] = left]
  /\ failed' = failed \cup {item[w]}
  /\ worker' = [worker EXCEPT ![w] = "lock"]
  /\ UNCHANGED <<callVars, caller, next, in, expired, item, errorsMu, seen, Errors>>

(* Wrong on purpose: the slice is appended to without the mutex.           *)
NoLockErrors(w) ==
  /\ worker[w] = "lock"
  /\ seen' = [seen EXCEPT ![w] = Errors]
  /\ worker' = [worker EXCEPT ![w] = "append"]
  /\ UNCHANGED <<callVars, caller, next, in, expired, item, errorsMu, Errors, bucketVars>>

(* append reads the slice, then writes it: under the mutex.                *)
LockErrors(w) ==
  /\ worker[w] = "lock"
  /\ errorsMu = 0
  /\ errorsMu' = w
  /\ seen' = [seen EXCEPT ![w] = Errors]
  /\ worker' = [worker EXCEPT ![w] = "append"]
  /\ UNCHANGED <<callVars, caller, next, in, expired, item, Errors, bucketVars>>

(* Wrong on purpose: the worker returns at its first error.                *)
AppendErrorAndStop(w) ==
  /\ worker[w] = "append"
  /\ Errors' = Append(seen[w], item[w])
  /\ errorsMu' = 0
  /\ seen' = [seen EXCEPT ![w] = <<>>]
  /\ worker' = [worker EXCEPT ![w] = "done"]
  /\ UNCHANGED <<callVars, caller, next, in, expired, item, bucketVars>>

AppendError(w) ==
  /\ worker[w] = "append"
  /\ Errors' = Append(seen[w], item[w])
  /\ errorsMu' = 0
  /\ seen' = [seen EXCEPT ![w] = <<>>]
  /\ worker' = [worker EXCEPT ![w] = "idle"]
  /\ UNCHANGED <<callVars, caller, next, in, expired, item, bucketVars>>

-----------------------------------------------------------------------------

Caller == StartFails \/ Start \/ Feed \/ CloseIn \/ Return

Worker(w) ==
  \/ Receive(w) \/ Exit(w) \/ UploadObject(w) \/ UploadFails(w)
  \/ LockErrors(w) \/ AppendError(w)

Next == Caller \/ Expire \/ (\E w \in Pool : Worker(w))

Spec == Init /\ [][Next]_vars

(* Go schedules every goroutine that can run; an upload ends, at the       *)
(* latest when the context expires.                                        *)
FairSpec == Spec /\ WF_vars(Caller) /\ \A w \in Pool : WF_vars(Worker(w))

-----------------------------------------------------------------------------
(* Properties.                                                             *)

(* Every variable has its type; an item is the index of a file there is.   *)
TypeOK ==
  /\ n \in 0..MaxFiles
  /\ concurrency \in Concurrency
  /\ caller \in {"start", "feed", "wait"} \cup Returned
  /\ next \in 1..(n + 1)
  /\ in \in Seq(1..n) /\ Len(in) <= Capacity
  /\ expired \in BOOLEAN
  /\ worker \in [Pool -> {"none", "idle", "upload", "lock", "append", "done"}]
  /\ item \in [Pool -> 0..n]
  /\ errorsMu \in 0..MaxFiles
  /\ seen \in [Pool -> Seq(1..n)]
  /\ Errors \in Seq(1..n)
  /\ object \in [Files -> {"none", "partial", "whole"}]
  /\ failed \subseteq 1..n

(* ProcessUpload "returns nil only when all uploads succeed": every file   *)
(* then has a whole object in the bucket.                                  *)
NilMeansAllStored ==
  caller = "ok" => \A f \in 1..n : object[f] = "whole"

(* No failure is lost on its way to the caller: when the call returns the  *)
(* shared slice names exactly the files that failed, each once (errorsMu), *)
(* and nobody is left to add to it or to use the storage client, which the *)
(* call has closed (wg.Wait).                                              *)
ErrorsExact ==
  caller \in {"ok", "failed"} =>
    /\ Range(Errors) = failed /\ Len(Errors) = Cardinality(failed)
    /\ \A w \in Pool : worker[w] \in {"none", "done"}

(* "%d of %d uploads failed" is the whole truth: one failed upload keeps   *)
(* no other from being made, so that every file the error does not count   *)
(* is stored.  A worker that gave up at a failed file would leave indexes  *)
(* in the channel that are neither stored nor counted.                     *)
OthersAreStored ==
  caller = "failed" => \A f \in 1..n : f \in Range(Errors) \/ object[f] = "whole"

(* The call returns, however many uploads fail and whatever concurrency it *)
(* was given: neither feeder nor pool waits for ever on the other.         *)
CallReturns == <>(caller \in Returned)
=============================================================================
