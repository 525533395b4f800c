----------------------------- MODULE UploadProofs -----------------------------
(***************************************************************************)
(* Proofs about Upload, for any number of files, any concurrency and any   *)
(* buffer.                                                                 *)
(***************************************************************************)
EXTENDS Upload, FiniteSetTheorems, TLAPS

USE MaxFilesAssumption, ConcurrencyAssumption, CapacityAssumption

(* The channel holds consecutive indexes, so that the files a worker has   *)
(* taken are those below the first of them.                                *)
Taken == 1..(next - Len(in) - 1)

QueueInv ==
  /\ Len(in) < next
  /\ \A i \in 1..Len(in) : in[i] = next - 1 - Len(in) + i
  /\ caller \in {"start", "error"} => next = 1 /\ \A w \in Pool : worker[w] = "none"
  /\ caller \in {"wait", "ok", "failed"} => next = n + 1

Active(w) == worker[w] \in {"upload", "lock", "append"}

TypeInv == TypeOK /\ \A w \in Pool : Active(w) => item[w] \in 1..n

(* A worker handles a file of its own; it is done only when the channel is *)
(* closed and empty; and there is one as soon as there are files.          *)
WorkerInv ==
  /\ \A w \in Pool : Active(w) => item[w] \in Taken
  /\ \A u, w \in Pool : Active(u) /\ Active(w) /\ item[u] = item[w] => u = w
  /\ \A w \in Pool : worker[w] = "done" => in = <<>> /\ caller \in {"wait", "ok", "failed"}
  /\ caller \in {"feed", "wait", "ok", "failed"} => 1 \in Pool /\ worker[1] # "none"
  /\ caller \in {"ok", "failed"} => \A w \in Pool : worker[w] \in {"none", "done"}

(* The slice names every file that failed and is not still to be appended, *)
(* and the worker in the critical section has read its latest value.       *)
ErrorInv ==
  /\ \A w \in Pool : errorsMu = w <=> worker[w] = "append"
  /\ \A w \in Pool : worker[w] = "append" => seen[w] = Errors
  /\ failed \subseteq Taken
  /\ \A w \in Pool : worker[w] = "upload" => item[w] \notin failed
  /\ \A w \in Pool : worker[w] \in {"lock", "append"} =>
       item[w] \in failed /\ item[w] \notin Range(Errors)
  /\ \A f \in failed :
       f \in Range(Errors) \/ \E w \in Pool : worker[w] \in {"lock", "append"} /\ item[w] = f
  /\ Range(Errors) \subseteq failed
  /\ \A i, j \in 1..Len(Errors) : Errors[i] = Errors[j] => i = j
  /\ caller = "ok" => Errors = <<>>

(* A file taken is stored, has failed, or is being uploaded.               *)
StoreInv ==
  \A f \in Taken :
    \/ object[f] = "whole"
    \/ f \in failed
    \/ \E w \in Pool : worker[w] = "upload" /\ item[w] = f

Inv == QueueInv /\ WorkerInv /\ ErrorInv /\ StoreInv

IInv == TypeInv /\ Inv

-----------------------------------------------------------------------------
(* Type correctness.                                                       *)

LEMMA WorkerCountRange ==
  ASSUME TypeOK, n > 0
  PROVE  WorkerCount \in 1..n
BY DEF TypeOK, WorkerCount

LEMMA InitType == Init => TypeInv
<1>1. <<>> \in Seq(1..n) /\ Len(<<>>) = 0
  OBVIOUS
<1>2. Init => in \in Seq(1..n) /\ Len(in) <= Capacity /\ Errors \in Seq(1..n)
              /\ seen \in [Pool -> Seq(1..n)]
  BY <1>1 DEF Init
<1>3. ASSUME Init PROVE TypeOK
  <2>1. n \in 0..MaxFiles /\ next \in 1..(n + 1) /\ errorsMu \in 0..MaxFiles
    BY <1>3 DEF Init
  <2>2. item \in [Pool -> 0..n]
    BY <1>3, <2>1 DEF Init
  <2>3. QED
    BY <1>2, <1>3, <2>1, <2>2 DEF Init, TypeOK, Returned
<1>4. QED
  BY <1>3 DEF Init, TypeInv, Active

LEMMA CallerType == TypeInv /\ (Caller \/ Expire) => TypeInv'
<1> SUFFICES ASSUME TypeInv, Caller \/ Expire PROVE TypeInv'
  OBVIOUS
<1> USE DEF TypeInv, Active, TypeOK, Files, Pool, Returned, callVars, poolVars, bucketVars
<1>1. CASE StartFails
  BY <1>1 DEF StartFails
<1>2. CASE Start
  BY <1>2 DEF Start
<1>3. CASE Feed
  BY <1>3 DEF Feed
<1>4. CASE CloseIn
  BY <1>4 DEF CloseIn
<1>5. CASE Return
  BY <1>5 DEF Return
<1>6. CASE Expire
  BY <1>6 DEF Expire
<1>7. QED
  BY <1>1, <1>2, <1>3, <1>4, <1>5, <1>6 DEF Caller

(* What a worker takes from the channel is the index of a file there is.   *)
LEMMA TakenType ==
  ASSUME TypeOK, in # <<>>
  PROVE  /\ Head(in) \in 1..n /\ Head(in) \in Files
         /\ Tail(in) \in Seq(1..n) /\ Len(Tail(in)) = Len(in) - 1
         /\ \A i \in 1..Len(Tail(in)) : Tail(in)[i] = in[i + 1]
         /\ Len(in) > 0 /\ Head(in) = in[1]
BY DEF TypeOK, Files

LEMMA ReceiveType ==
  ASSUME TypeInv, NEW w \in Pool, Receive(w)
  PROVE  TypeInv'
<1>1. /\ Head(in) \in 1..n /\ Head(in) \in Files
      /\ Tail(in) \in Seq(1..n) /\ Len(Tail(in)) = Len(in) - 1
  BY TakenType DEF Receive, TypeInv
<1>2. Len(in) \in Nat /\ Len(in) <= Capacity /\ n \in Nat
  BY DEF TypeInv, TypeOK
<1>3. PICK x \in 1..n : x = Head(in) /\ x \in Files
  BY <1>1
<1>4. item' \in [Pool -> 0..n]
  <2>1. item' = [item EXCEPT ![w] = x] /\ x \in 0..n
    BY <1>2, <1>3 DEF Receive
  <2>2. QED
    BY <2>1 DEF TypeInv, TypeOK
<1>5. worker' = [worker EXCEPT ![w] = "upload"] /\ item'[w] = x
  BY <1>3 DEF Receive, TypeInv, TypeOK
<1>6. ASSUME NEW u \in Pool, Active(u)' PROVE item'[u] \in 1..n
  BY <1>3, <1>5, <1>6 DEF Receive, TypeInv, TypeOK, Active
<1>7. in' \in Seq(1..n) /\ Len(in') <= Capacity
  BY <1>1, <1>2 DEF Receive
<1>8. TypeOK'
  BY <1>4, <1>5, <1>7 DEF Receive, TypeInv, TypeOK, callVars, bucketVars
<1>9. n' = n
  BY DEF Receive, callVars
<1>10. QED
  BY <1>6, <1>8, <1>9, Zenon DEF TypeInv

LEMMA WorkerType ==
  ASSUME TypeInv, NEW w \in Pool, Worker(w)
  PROVE  TypeInv'
<1> USE DEF TypeInv, Active, TypeOK, Files, Pool, Returned, callVars, bucketVars
<1>1. CASE Receive(w)
  BY <1>1, ReceiveType
<1>2. CASE Exit(w)
  BY <1>2 DEF Exit
<1>3. CASE UploadObject(w)
  BY <1>3 DEF UploadObject
<1>4. CASE UploadFails(w)
  BY <1>4 DEF UploadFails
<1>5. CASE LockErrors(w)
  BY <1>5 DEF LockErrors
<1>6. CASE AppendError(w)
  <2>1. seen[w] \in Seq(1..n) /\ item[w] \in 1..n /\ <<>> \in Seq(1..n)
    BY <1>6 DEF AppendError
  <2>2. Errors' \in Seq(1..n)
    BY <1>6, <2>1 DEF AppendError
  <2>3. seen' \in [Pool -> Seq(1..n)]
    BY <1>6, <2>1 DEF AppendError
  <2>4. /\ worker' = [worker EXCEPT ![w] = "idle"] /\ errorsMu' = 0
        /\ UNCHANGED <<callVars, caller, next, in, expired, item, bucketVars>>
    BY <1>6 DEF AppendError
  <2>5. \A u \in Pool : Active(u)' => item'[u] \in 1..n'
    BY <2>4
  <2>6. /\ worker' \in [Pool -> {"none", "idle", "upload", "lock", "append", "done"}]
        /\ errorsMu' \in 0..MaxFiles
    BY <2>4
  <2>7. TypeOK'
    BY <2>2, <2>3, <2>4, <2>6
  <2>8. QED
    BY <2>5, <2>7
<1>7. QED
  BY <1>1, <1>2, <1>3, <1>4, <1>5, <1>6 DEF Worker

-----------------------------------------------------------------------------
(* The caller's steps preserve the invariant.                              *)

LEMMA InitInv == Init => Inv
<1> SUFFICES ASSUME Init PROVE Inv
  OBVIOUS
<1>1. Taken = {} /\ Range(Errors) = {}
  BY DEF Init, Taken, Range
<1>2. QED
  BY <1>1 DEF Init, Inv, QueueInv, WorkerInv, ErrorInv, StoreInv, Active, Pool

LEMMA StartStep == TypeInv /\ Inv /\ Start => Inv'
<1> SUFFICES ASSUME TypeInv, Inv, Start PROVE Inv'
  OBVIOUS
<1>1. 1 \in Pool /\ 1 <= WorkerCount
  <2>1. n > 0 /\ n \in 0..MaxFiles
    BY DEF Start, TypeInv, TypeOK
  <2>2. QED
    BY <2>1, WorkerCountRange DEF TypeInv, Pool
<1>2. Taken' = Taken /\ Range(Errors)' = Range(Errors)
  BY DEF Start, Taken, Range
<1>3. worker'[1] = "idle" /\ \A w \in Pool : worker[w] = "none" /\ worker'[w] \in {"idle", "none"}
  BY <1>1 DEF Start, Inv, QueueInv
<1>4. QueueInv'
  BY <1>2 DEF Start, Inv, QueueInv, callVars, bucketVars
<1>5. WorkerInv'
  BY <1>1, <1>3 DEF Start, WorkerInv, Active
<1>6. ErrorInv' /\ StoreInv'
  BY <1>2, <1>3 DEF Start, Inv, ErrorInv, StoreInv, bucketVars
<1>7. QED
  BY <1>4, <1>5, <1>6 DEF Inv

LEMMA FeedStep == TypeInv /\ Inv /\ Feed => Inv'
<1> SUFFICES ASSUME TypeInv, Inv, Feed PROVE Inv'
  OBVIOUS
<1>1. /\ Len(in) \in Nat /\ next \in Nat /\ Len(in') = Len(in) + 1 /\ next' = next + 1
      /\ \A i \in 1..Len(in) : in'[i] = in[i]
      /\ in'[Len(in) + 1] = next
  BY DEF Feed, TypeInv, TypeOK
<1>2. Taken' = Taken /\ Range(Errors)' = Range(Errors)
  BY <1>1 DEF Feed, Taken, Range, poolVars
<1>3. QueueInv'
  BY <1>1, <1>2 DEF Feed, Inv, QueueInv, callVars, bucketVars
<1>4. WorkerInv'
  BY <1>2 DEF Feed, Inv, WorkerInv, Active, poolVars
<1>5. ErrorInv' /\ StoreInv'
  BY <1>2 DEF Feed, Inv, ErrorInv, StoreInv, poolVars, bucketVars
<1>6. QED
  BY <1>3, <1>4, <1>5 DEF Inv

LEMMA CallerStep == TypeInv /\ Inv /\ (Caller \/ Expire) => Inv'
<1> SUFFICES ASSUME TypeInv, Inv, Caller \/ Expire, ~Start, ~Feed PROVE Inv'
  BY StartStep, FeedStep
<1>1. /\ UNCHANGED <<next, in, n, worker, item, errorsMu, seen, Errors, object, failed>>
      /\ Taken' = Taken /\ Range(Errors)' = Range(Errors)
  BY DEF Caller, StartFails, CloseIn, Return, Expire, callVars, poolVars, bucketVars, Taken, Range
<1>2. QueueInv'
  BY <1>1 DEF Caller, StartFails, CloseIn, Return, Expire, Inv, QueueInv, TypeInv, TypeOK
<1>3. WorkerInv'
  BY <1>1 DEF Caller, StartFails, CloseIn, Return, Expire, Inv, QueueInv, WorkerInv, Active
<1>4. ErrorInv'
  BY <1>1 DEF Caller, StartFails, CloseIn, Return, Expire, Inv, ErrorInv
<1>5. StoreInv'
  BY <1>1 DEF Inv, StoreInv
<1>6. QED
  BY <1>2, <1>3, <1>4, <1>5 DEF Inv

-----------------------------------------------------------------------------
(* The workers' steps preserve the invariant.                              *)

LEMMA ReceiveStep ==
  ASSUME TypeInv, Inv, NEW w \in Pool, Receive(w)
  PROVE  Inv'
<1>1. /\ n \in Nat /\ n <= MaxFiles /\ next \in 1..(n + 1)
      /\ Len(in) \in Nat /\ Len(in) > 0 /\ Len(in) < next
      /\ Len(in') = Len(in) - 1
      /\ \A i \in 1..Len(in') : in'[i] = in[i + 1]
  BY TakenType DEF Receive, TypeInv, TypeOK, Inv, QueueInv
<1>2. PICK x : x = Head(in) /\ x = next - Len(in)
  BY <1>1, TakenType DEF Receive, TypeInv, Inv, QueueInv
<1>3. x \in Files /\ x \notin Taken /\ Taken' = Taken \cup {x}
  BY <1>1, <1>2 DEF Receive, Files, Taken
<1>4. /\ worker[w] = "idle" /\ worker' = [worker EXCEPT ![w] = "upload"]
      /\ item' = [item EXCEPT ![w] = x] /\ in # <<>>
      /\ UNCHANGED <<n, concurrency, caller, next, errorsMu, seen, Errors, object, failed>>
  BY <1>2 DEF Receive, callVars, bucketVars
<1>5. /\ \A u \in Pool : worker'[u] = IF u = w THEN "upload" ELSE worker[u]
      /\ \A u \in Pool : item'[u] = IF u = w THEN x ELSE item[u]
      /\ Range(Errors)' = Range(Errors)
  BY <1>3, <1>4 DEF TypeInv, TypeOK, Range
<1>6. QueueInv'
  <2>1. \A i \in 1..Len(in') : in'[i] = next' - 1 - Len(in') + i
    BY <1>1, <1>4 DEF Inv, QueueInv
  <2>2. caller \notin {"start", "error"}
    BY <1>4 DEF Inv, QueueInv
  <2>3. QED
    BY <1>1, <1>4, <2>1, <2>2 DEF Inv, QueueInv
<1>7. \A u \in Pool : worker[u] # "done"
  BY <1>4 DEF Inv, WorkerInv
<1>8. WorkerInv'
  BY <1>3, <1>4, <1>5, <1>7 DEF Inv, WorkerInv, Active
<1>9. ErrorInv'
  BY <1>3, <1>4, <1>5 DEF Inv, ErrorInv, WorkerInv, Active
<1>10. StoreInv'
  <2> SUFFICES ASSUME NEW f \in Taken'
               PROVE \/ object'[f] = "whole" \/ f \in failed'
                     \/ \E u \in Pool : worker'[u] = "upload" /\ item'[u] = f
    BY DEF StoreInv
  <2>1. CASE f = x
    BY <1>5, <2>1
  <2>2. CASE f # x
    BY <1>3, <1>4, <1>5, <2>2 DEF Inv, StoreInv
  <2>3. QED
    BY <2>1, <2>2
<1>11. QED
  BY <1>6, <1>8, <1>9, <1>10 DEF Inv

LEMMA ExitStep ==
  ASSUME TypeInv, Inv, NEW w \in Pool, Exit(w)
  PROVE  Inv'
<1>1. /\ \A u \in Pool : worker'[u] = IF u = w THEN "done" ELSE worker[u]
      /\ worker[w] = "idle" /\ in = <<>> /\ caller = "wait"
      /\ UNCHANGED <<n, caller, next, in, item, errorsMu, seen, Errors, object, failed>>
      /\ Taken' = Taken /\ Range(Errors)' = Range(Errors)
  BY DEF Exit, TypeInv, TypeOK, callVars, bucketVars, Taken, Range
<1>2. QueueInv'
  BY <1>1 DEF Inv, QueueInv
<1>3. WorkerInv'
  BY <1>1 DEF Inv, WorkerInv, Active
<1>4. ErrorInv' /\ StoreInv'
  BY <1>1 DEF Inv, ErrorInv, StoreInv
<1>5. QED
  BY <1>2, <1>3, <1>4 DEF Inv

(* What an upload that ends does to the object it wrote, to the set of     *)
(* failed files and to its worker.                                         *)
LEMMA UploadStep ==
  ASSUME TypeInv, Inv, NEW w \in Pool, UploadObject(w) \/ UploadFails(w)
  PROVE  Inv'
<1>1. /\ worker[w] = "upload" /\ item[w] \in 1..n /\ item[w] \in Files
      /\ item[w] \in Taken /\ item[w] \notin failed
  BY DEF UploadObject, UploadFails, TypeInv, TypeOK, Inv, WorkerInv, ErrorInv, Active, Files
<1>2. /\ UNCHANGED <<n, caller, next, in, item, errorsMu, seen, Errors>>
      /\ Taken' = Taken /\ Range(Errors)' = Range(Errors)
      /\ \A f \in Files : f # item[w] => object'[f] = object[f]
  BY <1>1 DEF UploadObject, UploadFails, TypeInv, TypeOK, callVars, Taken, Range
<1>3. \/ /\ object'[item[w]] = "whole" /\ failed' = failed
         /\ \A u \in Pool : worker'[u] = IF u = w THEN "idle" ELSE worker[u]
      \/ /\ failed' = failed \cup {item[w]}
         /\ \A u \in Pool : worker'[u] = IF u = w THEN "lock" ELSE worker[u]
  BY <1>1 DEF UploadObject, UploadFails, TypeInv, TypeOK
<1>4. Taken \subseteq Files
  BY DEF Taken, Files, TypeInv, TypeOK
<1>5. caller \notin {"start", "error", "ok", "failed"}
  BY <1>1 DEF Inv, QueueInv, WorkerInv
<1>6. \A u \in Pool : u # w /\ Active(u) => item[u] # item[w]
  BY <1>1 DEF Inv, WorkerInv, Active
<1>7. item[w] \notin Range(Errors)
  BY <1>1 DEF Inv, ErrorInv
<1>8. QueueInv'
  BY <1>2, <1>5 DEF Inv, QueueInv
<1>9. WorkerInv'
  BY <1>1, <1>2, <1>3, <1>5 DEF Inv, WorkerInv, Active
<1>10. ErrorInv'
  BY <1>1, <1>2, <1>3, <1>6, <1>7 DEF Inv, ErrorInv, Active
<1>11. StoreInv'
  BY <1>1, <1>2, <1>3, <1>4 DEF Inv, StoreInv
<1>12. QED
  BY <1>8, <1>9, <1>10, <1>11 DEF Inv

LEMMA LockStep ==
  ASSUME TypeInv, Inv, NEW w \in Pool, LockErrors(w)
  PROVE  Inv'
<1>1. /\ \A u \in Pool : worker'[u] = IF u = w THEN "append" ELSE worker[u]
      /\ \A u \in Pool : seen'[u] = IF u = w THEN Errors ELSE seen[u]
      /\ worker[w] = "lock" /\ errorsMu = 0 /\ errorsMu' = w
      /\ UNCHANGED <<n, caller, next, in, item, Errors, object, failed>>
      /\ Taken' = Taken /\ Range(Errors)' = Range(Errors)
  BY DEF LockErrors, TypeInv, TypeOK, callVars, bucketVars, Taken, Range
<1>2. caller \notin {"start", "error", "ok", "failed"}
  BY <1>1 DEF Inv, QueueInv, WorkerInv
<1>3. \A u \in Pool : worker[u] # "append"
  BY <1>1 DEF Inv, ErrorInv, Pool
<1>4. QueueInv'
  BY <1>1, <1>2 DEF Inv, QueueInv
<1>5. WorkerInv'
  BY <1>1, <1>2 DEF Inv, WorkerInv, Active
<1>6. ErrorInv'
  BY <1>1, <1>2, <1>3 DEF Inv, ErrorInv
<1>7. StoreInv'
  BY <1>1 DEF Inv, StoreInv
<1>8. QED
  BY <1>4, <1>5, <1>6, <1>7 DEF Inv

(* The append adds the worker's file, and takes nothing away, because the  *)
(* worker has read the latest value of the slice.                          *)
LEMMA AppendStep ==
  ASSUME TypeInv, Inv, NEW w \in Pool, AppendError(w)
  PROVE  Inv'
<1>1. /\ worker[w] = "append" /\ seen[w] = Errors /\ errorsMu = w
      /\ item[w] \in failed /\ item[w] \notin Range(Errors)
      /\ item[w] \in 1..n /\ Errors \in Seq(1..n)
  BY DEF AppendError, Inv, ErrorInv, TypeInv, TypeOK, Active
<1>2. /\ \A u \in Pool : worker'[u] = IF u = w THEN "idle" ELSE worker[u]
      /\ \A u \in Pool : u # w => seen'[u] = seen[u]
      /\ errorsMu' = 0 /\ Errors' = Append(Errors, item[w])
      /\ UNCHANGED <<n, caller, next, in, item, object, failed>>
      /\ Taken' = Taken
  BY <1>1 DEF AppendError, TypeInv, TypeOK, callVars, bucketVars, Taken
<1>3. /\ Len(Errors) \in Nat /\ Len(Errors') = Len(Errors) + 1
      /\ DOMAIN Errors = 1..Len(Errors) /\ DOMAIN Errors' = 1..Len(Errors')
      /\ \A i \in 1..Len(Errors) : Errors'[i] = Errors[i]
      /\ Errors'[Len(Errors) + 1] = item[w]
  BY <1>1, <1>2
<1>4. Range(Errors)' = Range(Errors) \cup {item[w]}
  BY <1>3 DEF Range
<1>5. \A i, j \in 1..Len(Errors') : Errors'[i] = Errors'[j] => i = j
  <2>1. \A i, j \in 1..Len(Errors) : Errors[i] = Errors[j] => i = j
    BY DEF Inv, ErrorInv
  <2>2. \A i \in 1..Len(Errors) : Errors[i] # item[w]
    BY <1>1, <1>3 DEF Range
  <2>3. QED
    BY <1>3, <2>1, <2>2
<1>6. caller \notin {"start", "error", "ok", "failed"}
  BY <1>1 DEF Inv, QueueInv, WorkerInv
<1>7. \A u \in Pool : u # w => worker[u] # "append" /\ (Active(u) => item[u] # item[w])
  BY <1>1 DEF Inv, ErrorInv, WorkerInv, Active
<1>8. QueueInv'
  BY <1>2, <1>6 DEF Inv, QueueInv
<1>9. WorkerInv'
  BY <1>1, <1>2, <1>6 DEF Inv, WorkerInv, Active
<1>10. ErrorInv'
  <2>1. \A u \in Pool : errorsMu' = u <=> worker'[u] = "append"
    BY <1>2, <1>7 DEF Pool
  <2>2. \A u \in Pool : worker'[u] \in {"lock", "append"} =>
          item'[u] \in failed' /\ item'[u] \notin Range(Errors)'
    BY <1>2, <1>4, <1>7 DEF Inv, ErrorInv, Active
  <2>3. \A f \in failed' : f \in Range(Errors)'
          \/ \E u \in Pool : worker'[u] \in {"lock", "append"} /\ item'[u] = f
    BY <1>2, <1>4 DEF Inv, ErrorInv
  <2>4. /\ failed' \subseteq Taken' /\ Range(Errors)' \subseteq failed'
        /\ \A u \in Pool : worker'[u] = "upload" => item'[u] \notin failed'
        /\ \A u \in Pool : worker'[u] = "append" => seen'[u] = Errors'
    BY <1>1, <1>2, <1>4, <1>7 DEF Inv, ErrorInv
  <2>5. QED
    BY <1>2, <1>5, <1>6, <2>1, <2>2, <2>3, <2>4 DEF ErrorInv
<1>11. StoreInv'
  BY <1>1, <1>2 DEF Inv, StoreInv
<1>12. QED
  BY <1>8, <1>9, <1>10, <1>11 DEF Inv

LEMMA IInvStep == IInv /\ [Next]_vars => IInv'
<1> SUFFICES ASSUME IInv, [Next]_vars PROVE IInv'
  OBVIOUS
<1>1. TypeInv /\ Inv
  BY DEF IInv
<1>2. CASE Caller \/ Expire
  BY <1>1, <1>2, CallerType, CallerStep DEF IInv
<1>3. ASSUME NEW w \in Pool, Worker(w) PROVE IInv'
  <2>1. Inv'
    BY <1>1, <1>3, ReceiveStep, ExitStep, UploadStep, LockStep, AppendStep DEF Worker
  <2>2. QED
    BY <1>1, <1>3, <2>1, WorkerType DEF IInv
<1>4. CASE UNCHANGED vars
  BY <1>1, <1>4 DEF IInv, TypeInv, TypeOK, Active, Inv, QueueInv, WorkerInv, ErrorInv, StoreInv,
       Taken, Range, vars, callVars, poolVars, bucketVars
<1>5. QED
  BY <1>2, <1>3, <1>4 DEF Next

LEMMA Invariance == Spec => []IInv
<1>1. Init => IInv
  BY InitType, InitInv DEF IInv
<1>2. QED
  BY <1>1, IInvStep, PTL DEF Spec

-----------------------------------------------------------------------------
(* The theorems.                                                           *)

(* What the caller can conclude once the call has returned.                *)
LEMMA AtReturn ==
  ASSUME IInv, caller \in {"ok", "failed"}
  PROVE  Taken = 1..n /\ Range(Errors) = failed /\ \A w \in Pool : ~Active(w)
<1>1. \A w \in Pool : ~Active(w)
  BY DEF IInv, Inv, WorkerInv, Active
<1>2. worker[1] = "done" /\ 1 \in Pool
  BY DEF IInv, Inv, WorkerInv
<1>3. in = <<>> /\ next = n + 1
  BY <1>2 DEF IInv, Inv, QueueInv, WorkerInv
<1>4. Range(Errors) = failed
  BY <1>1 DEF IInv, Inv, ErrorInv, Active
<1>5. QED
  BY <1>1, <1>3, <1>4 DEF Taken, IInv, TypeInv, TypeOK

(* Every variable of a ProcessUpload call and of its pool keeps its type;  *)
(* what travels through the channel is always the index of a file.         *)
THEOREM TypeCorrect == Spec => []TypeOK
<1>1. IInv => TypeOK
  BY DEF IInv, TypeInv
<1>2. QED
  BY <1>1, Invariance, PTL

(* errorsMu loses no failure and counts none twice: the slice the caller   *)
(* reports from names exactly the files that failed, and wg.Wait leaves no *)
(* worker that could add to it.                                            *)
THEOREM ErrorsAreExact == Spec => []ErrorsExact
<1>1. IInv => ErrorsExact
  <2> SUFFICES ASSUME IInv, caller \in {"ok", "failed"}
               PROVE  /\ Range(Errors) = failed /\ Len(Errors) = Cardinality(failed)
                      /\ \A w \in Pool : worker[w] \in {"none", "done"}
    BY DEF ErrorsExact
  <2>1. Range(Errors) = failed
    BY AtReturn
  <2>2. Errors \in Seq(1..n) /\ Len(Errors) \in Nat
    BY DEF IInv, TypeInv, TypeOK
  <2>3. Errors \in [1..Len(Errors) -> failed]
    BY <2>1, <2>2 DEF Range
  <2>4. \A f \in failed : \E i \in 1..Len(Errors) : Errors[i] = f
    BY <2>1, <2>2 DEF Range
  <2>5. \A i, j \in 1..Len(Errors) : Errors[i] = Errors[j] => i = j
    BY DEF IInv, Inv, ErrorInv
  <2>6. ExistsBijection(1..Len(Errors), failed)
    BY <2>3, <2>4, <2>5 DEF ExistsBijection, Bijection, Injection, IsInjective, Surjection
  <2>7. \A w \in Pool : worker[w] \in {"none", "done"}
    BY DEF IInv, Inv, WorkerInv
  <2>8. Len(Errors) = Cardinality(failed)
    BY <2>1, <2>2, <2>6, FS_CountingElements
  <2>9. QED
    BY <2>1, <2>7, <2>8
<1>2. QED
  BY <1>1, Invariance, PTL

(* A nil error is the truth: whatever fails, and whenever the context      *)
(* expires, ProcessUpload returns nil only with every file in the bucket.  *)
THEOREM NilMeansStored == Spec => []NilMeansAllStored
<1>1. IInv => NilMeansAllStored
  <2> SUFFICES ASSUME IInv, caller = "ok", NEW f \in 1..n PROVE object[f] = "whole"
    BY DEF NilMeansAllStored
  <2>1. f \in Taken /\ \A w \in Pool : worker[w] # "upload"
    BY AtReturn DEF Active
  <2>2. failed = {}
    BY AtReturn DEF IInv, Inv, ErrorInv, Range
  <2>3. QED
    BY <2>1, <2>2 DEF IInv, Inv, StoreInv
<1>2. QED
  BY <1>1, Invariance, PTL

(* A failed upload keeps no other from being made, for any number of files *)
(* and workers: what the returned error does not count is in the bucket.   *)
THEOREM FailuresStopNoOthers == Spec => []OthersAreStored
<1>1. IInv => OthersAreStored
  <2> SUFFICES ASSUME IInv, caller = "failed", NEW f \in 1..n
               PROVE  f \in Range(Errors) \/ object[f] = "whole"
    BY DEF OthersAreStored
  <2>1. f \in Taken /\ Range(Errors) = failed /\ \A w \in Pool : worker[w] # "upload"
    BY AtReturn DEF Active
  <2>2. QED
    BY <2>1 DEF IInv, Inv, StoreInv
<1>2. QED
  BY <1>1, Invariance, PTL

(* Somebody can move: the caller, which may wait for room in the channel   *)
(* or for the workers, or a worker, which may wait for an index, for the   *)
(* close of the channel or for the mutex.                                  *)
CanMove ==
  \/ caller = "start"
  \/ caller = "feed" /\ (next > n \/ Len(in) < Capacity)
  \/ caller = "wait" /\ \A w \in Pool : worker[w] \in {"none", "done"}
  \/ \E w \in Pool :
       \/ worker[w] = "idle" /\ (in # <<>> \/ caller = "wait")
       \/ worker[w] \in {"upload", "append"}
       \/ worker[w] = "lock" /\ errorsMu = 0

(* Nobody waits for ever on somebody who waits: whatever the concurrency,  *)
(* the buffer and the failures, a call that has not returned can go on     *)
(* (ProcessUpload sends on a bounded channel its own workers drain).       *)
THEOREM CallsAreNeverStuck == Spec => [](caller \notin Returned => CanMove)
<1>1. ASSUME IInv, caller \notin Returned PROVE CanMove
  <2>1. caller \in {"start", "feed", "wait"}
    BY <1>1 DEF IInv, TypeInv, TypeOK
  <2>2. ASSUME NEW w \in Pool, worker[w] = "lock" PROVE CanMove
    <3>1. errorsMu = 0 \/ \E u \in Pool : errorsMu = u
      BY <1>1 DEF IInv, TypeInv, TypeOK, Pool
    <3>2. \A u \in Pool : errorsMu = u => worker[u] = "append"
      BY <1>1 DEF IInv, Inv, ErrorInv
    <3>3. QED
      BY <2>2, <3>1, <3>2 DEF CanMove
  <2>3. CASE caller = "feed" /\ ~(next > n \/ Len(in) < Capacity)
    <3>1. in # <<>>
      BY <1>1, <2>3 DEF IInv, TypeInv, TypeOK
    <3>2. 1 \in Pool /\ worker[1] \notin {"none", "done"}
      BY <1>1, <2>3 DEF IInv, Inv, WorkerInv, Returned
    <3>3. worker[1] \in {"idle", "upload", "lock", "append"}
      BY <1>1, <3>2 DEF IInv, TypeInv, TypeOK
    <3>4. QED
      BY <2>2, <3>1, <3>2, <3>3 DEF CanMove
  <2>4. CASE caller = "wait"
    <3> SUFFICES ASSUME NEW w \in Pool, worker[w] \notin {"none", "done"} PROVE CanMove
      BY <2>4 DEF CanMove
    <3>1. worker[w] \in {"idle", "upload", "lock", "append"}
      BY <1>1 DEF IInv, TypeInv, TypeOK
    <3>2. QED
      BY <2>2, <2>4, <3>1 DEF CanMove
  <2>5. QED
    BY <2>1, <2>3, <2>4 DEF CanMove
<1>2. QED
  BY <1>1, Invariance, PTL
=============================================================================
