------------------------------ MODULE Pipeline ------------------------------
(***************************************************************************)
(* What a worker does with one message: processPayload (worker.go),        *)
(* JobService (service.go), Processor.Run (processor.go) and VideoService  *)
(* (internal/video).  Every worker of the process shares the local storage *)
(* directory, in which the files of a video are named after the video, not *)
(* after the job: <video>.mp4, <video>.frag and the directory <video>/.    *)
(*                                                                         *)
(* Left out: file contents beyond whether they are whole, the network and  *)
(* the Bento4 tools beyond whether they succeed, the timeout beyond its    *)
(* effect, which is that a stage fails.                                    *)
(***************************************************************************)
EXTENDS Naturals, FiniteSets

CONSTANTS
  Workers,    \* worker goroutines
  Videos,     \* registered videos
  Jobs,       \* ids for job rows; one is drawn for every attempt
  None,       \* no job, no video, no worker
  DbMayFail,  \* whether database calls may return an error
  MaxCrashes  \* bound: how often the process is killed

ASSUME WorkersAssumption == None \notin Workers
ASSUME VideosAssumption == None \notin Videos
ASSUME JobsAssumption == None \notin Jobs
ASSUME DbMayFailAssumption == DbMayFail \in BOOLEAN
ASSUME MaxCrashesAssumption == MaxCrashes \in Nat

VARIABLES
  enabled,    \* Processor.Enabled(): both buckets are configured
  pc,         \* the next step of every worker
  video,      \* the video of the message each worker handles
  job,        \* the id of the row it has created
  status,     \* jobs table: the status column
  uploaded,   \* history: what a job's upload delivered, if it succeeded
  mp4,        \* local <video>.mp4
  writers,    \* downloads writing to that very file
  truncater,  \* the last download to have created or truncated it
  frag,       \* local <video>.frag
  dir,        \* local <video>/
  disturbed,  \* history: jobs hit by a crash or a database error
  crashes     \* number of crashes so far

jobVars == <<video, job>>
dbVars == <<status, uploaded>>
fileVars == <<mp4, writers, truncater, frag, dir>>
envVars == <<enabled, crashes>>
vars == <<pc, jobVars, dbVars, fileVars, disturbed, envVars>>

Statuses == {"none", "Pending", "Processing", "Completed", "Failed"}
Content == {"absent", "bad", "good"}

(* The stages of process that return an error, and those that work inside  *)
(* <video>/ from the Mkdir of Fragment to the last removal of Finish.      *)
MediaStages == {"init", "download", "fetch", "mkdir", "fragment", "encode", "upload"}
DirStages == {"fragment", "encode", "upload", "cleanMp4", "cleanFrag", "cleanDir"}
Stages == MediaStages \cup DirStages
          \cup {"idle", "create", "start", "complete", "fail", "ok", "failed"}

Init ==
  /\ enabled \in BOOLEAN
  /\ pc = [w \in Workers |-> "idle"]
  /\ video = [w \in Workers |-> None]
  /\ job = [w \in Workers |-> None]
  /\ status = [j \in Jobs |-> "none"]
  /\ uploaded = [j \in Jobs |-> "absent"]
  /\ mp4 = [v \in Videos |-> "absent"]
  /\ writers = [v \in Videos |-> {}]
  /\ truncater = [v \in Videos |-> None]
  /\ frag = [v \in Videos |-> "absent"]
  /\ dir = [v \in Videos |-> "absent"]
  /\ disturbed = {}
  /\ crashes = 0

Goto(w, stage) == pc' = [pc EXCEPT ![w] = stage]

-----------------------------------------------------------------------------
(* processPayload.                                                         *)

(* Bound: only while there is an id left for the attempt's row.            *)
Receive(w, v) ==
  /\ pc[w] = "idle"
  /\ Cardinality({u \in Workers : pc[u] = "create"}) < Cardinality({j \in Jobs : status[j] = "none"})
  /\ Goto(w, "create")
  /\ video' = [video EXCEPT ![w] = v]
  /\ UNCHANGED <<job, dbVars, fileVars, disturbed, envVars>>

(* The payload does not parse, the video is not found, or the look-up or   *)
(* the insert fails; the row may have been inserted all the same.          *)
CreateFails(w) ==
  /\ pc[w] = "create"
  /\ Goto(w, "failed")
  /\ \/ UNCHANGED <<status, disturbed>>
     \/ /\ DbMayFail
        /\ \E j \in Jobs :
             /\ status[j] = "none"
             /\ status' = [status EXCEPT ![j] = "Pending"]
             /\ disturbed' = disturbed \cup {j}
  /\ UNCHANGED <<jobVars, uploaded, fileVars, envVars>>

CreatePendingJob(w) ==
  /\ pc[w] = "create"
  /\ \E j \in Jobs :
       /\ status[j] = "none"
       /\ status' = [status EXCEPT ![j] = "Pending"]
       /\ job' = [job EXCEPT ![w] = j]
  /\ Goto(w, IF enabled THEN "start" ELSE "ok")
  /\ UNCHANGED <<video, uploaded, fileVars, disturbed, envVars>>

(* updateStatus.  A failed update may have been committed.  Its Find and   *)
(* its Save are one step: every attempt inserts a row of its own, which    *)
(* nobody else writes.                                                     *)
UpdateStatus(w, to, ifOk, ifError) ==
  LET updated == [status EXCEPT ![job[w]] = to] IN
  /\ \/ /\ status' = updated
        /\ Goto(w, ifOk)
        /\ UNCHANGED disturbed
     \/ /\ DbMayFail
        /\ status' \in {status, updated}
        /\ Goto(w, ifError)
        /\ disturbed' = disturbed \cup {job[w]}
  /\ UNCHANGED <<jobVars, uploaded, fileVars, envVars>>

(* Wrong on purpose: an error of MarkCompleted is ignored, or treated as a *)
(* failure of the job; MarkFailed is left out, or misspells the status.    *)
MarkCompletedBestEffort(w) == pc[w] = "complete" /\ UpdateStatus(w, "Completed", "ok", "ok")
MarkCompletedOrFailed(w) == pc[w] = "complete" /\ UpdateStatus(w, "Completed", "ok", "fail")
MarkFailedSkipped(w) ==
  /\ pc[w] = "fail"
  /\ Goto(w, "failed")
  /\ UNCHANGED <<jobVars, dbVars, fileVars, disturbed, envVars>>
MarkFailedMisspelt(w) == pc[w] = "fail" /\ UpdateStatus(w, "failed", "failed", "failed")

MarkProcessing(w) == pc[w] = "start" /\ UpdateStatus(w, "Processing", "init", "fail")
MarkCompleted(w) == pc[w] = "complete" /\ UpdateStatus(w, "Completed", "ok", "failed")
MarkFailed(w) == pc[w] = "fail" /\ UpdateStatus(w, "Failed", "failed", "failed")

(* The worker acknowledges the message, reports, and waits for the next.   *)
Report(w) ==
  /\ pc[w] \in {"ok", "failed"}
  /\ Goto(w, "idle")
  /\ video' = [video EXCEPT ![w] = None]
  /\ job' = [job EXCEPT ![w] = None]
  /\ UNCHANGED <<dbVars, fileVars, disturbed, envVars>>

-----------------------------------------------------------------------------
(* process.                                                                *)

NewVideoService(w) ==
  /\ pc[w] = "init"
  /\ Goto(w, "download")
  /\ UNCHANGED <<jobVars, dbVars, fileVars, disturbed, envVars>>

(* os.Create truncates a file that exists: whoever is still writing to it  *)
(* goes on at its own offset, behind a hole.                               *)
CreateMp4(w) ==
  LET v == video[w] IN
  /\ pc[w] = "download"
  /\ Goto(w, "fetch")
  /\ mp4' = [mp4 EXCEPT ![v] = "bad"]
  /\ writers' = [writers EXCEPT ![v] = @ \cup {w}]
  /\ truncater' = [truncater EXCEPT ![v] = w]
  /\ UNCHANGED <<jobVars, dbVars, frag, dir, disturbed, envVars>>

(* The whole object has been written.  The file holds it all if nobody has *)
(* truncated it in between, and may or may not otherwise; a file removed   *)
(* in between is not affected.                                             *)
Download(w) ==
  LET v == video[w] IN
  /\ pc[w] = "fetch"
  /\ Goto(w, "mkdir")
  /\ mp4' \in IF w \notin writers[v] THEN {mp4}
              ELSE IF truncater[v] = w THEN {[mp4 EXCEPT ![v] = "good"]}
              ELSE {mp4, [mp4 EXCEPT ![v] = "good"]}
  /\ writers' = [writers EXCEPT ![v] = @ \ {w}]
  /\ UNCHANGED <<jobVars, dbVars, truncater, frag, dir, disturbed, envVars>>

(* Wrong on purpose: os.MkdirAll, content with a directory that exists.    *)
MkdirAll(w) ==
  LET v == video[w] IN
  /\ pc[w] = "mkdir"
  /\ Goto(w, "fragment")
  /\ dir' = [dir EXCEPT ![v] = "bad"]
  /\ UNCHANGED <<jobVars, dbVars, mp4, writers, truncater, frag, disturbed, envVars>>

(* os.Mkdir makes the directory ("bad": without its outputs yet), and can  *)
(* only fail, as any stage may, where there is one already.                *)
Mkdir(w) ==
  LET v == video[w] IN
  /\ pc[w] = "mkdir"
  /\ dir[v] = "absent"
  /\ Goto(w, "fragment")
  /\ dir' = [dir EXCEPT ![v] = "bad"]
  /\ UNCHANGED <<jobVars, dbVars, mp4, writers, truncater, frag, disturbed, envVars>>

(* mp4fragment turns what it reads into <video>.frag.                      *)
Fragment(w) ==
  LET v == video[w] IN
  /\ pc[w] = "fragment"
  /\ mp4[v] # "absent"
  /\ Goto(w, "encode")
  /\ frag' = [frag EXCEPT ![v] = mp4[v]]
  /\ UNCHANGED <<jobVars, dbVars, mp4, writers, truncater, dir, disturbed, envVars>>

Encode(w) ==
  LET v == video[w] IN
  /\ pc[w] = "encode"
  /\ frag[v] # "absent"
  /\ Goto(w, "upload")
  /\ dir' = [dir EXCEPT ![v] = frag[v]]
  /\ UNCHANGED <<jobVars, dbVars, mp4, writers, truncater, frag, disturbed, envVars>>

Upload(w) ==
  /\ pc[w] = "upload"
  /\ dir[video[w]] # "absent"
  /\ Goto(w, "cleanMp4")
  /\ uploaded' = [uploaded EXCEPT ![job[w]] = dir[video[w]]]
  /\ UNCHANGED <<jobVars, status, fileVars, disturbed, envVars>>

(* Wrong on purpose: an upload error is only logged, like one of Finish.   *)
StageFailsUploadLogged(w) ==
  LET v == video[w] IN
  /\ pc[w] \in MediaStages
  /\ Goto(w, IF pc[w] = "upload" THEN "cleanMp4" ELSE "fail")
  /\ writers' = [writers EXCEPT ![v] = @ \ {w}]
  /\ frag' \in IF pc[w] = "fragment" THEN {frag, [frag EXCEPT ![v] = "bad"]} ELSE {frag}
  /\ dir' = IF pc[w] = "encode" THEN [dir EXCEPT ![v] = "bad"] ELSE dir
  /\ UNCHANGED <<jobVars, dbVars, mp4, truncater, disturbed, envVars>>

(* Wrong on purpose: Fragment waits for <video>/ to go away.               *)
StageFailsButMkdir(w) ==
  LET v == video[w] IN
  /\ pc[w] \in MediaStages \ {"mkdir"}
  /\ Goto(w, "fail")
  /\ writers' = [writers EXCEPT ![v] = @ \ {w}]
  /\ UNCHANGED <<jobVars, dbVars, mp4, truncater, frag, dir, disturbed, envVars>>

(* Any stage may return an error, for a fault of its own or because the    *)
(* context has expired.  What it has half done stays where it is.          *)
StageFails(w) ==
  LET v == video[w] IN
  /\ pc[w] \in MediaStages
  /\ Goto(w, "fail")
  /\ writers' = [writers EXCEPT ![v] = @ \ {w}]
  /\ frag' \in IF pc[w] = "fragment" THEN {frag, [frag EXCEPT ![v] = "bad"]} ELSE {frag}
  /\ dir' = IF pc[w] = "encode" THEN [dir EXCEPT ![v] = "bad"] ELSE dir
  /\ UNCHANGED <<jobVars, dbVars, mp4, truncater, disturbed, envVars>>

(* Wrong on purpose: Finish removes <video>/ before the two files.         *)
RemoveDirFirst(w) ==
  LET v == video[w] IN
  /\ pc[w] = "cleanMp4"
  /\ Goto(w, "cleanFrag")
  /\ dir' = [dir EXCEPT ![v] = "absent"]
  /\ mp4' = [mp4 EXCEPT ![v] = "absent"]
  /\ writers' = [writers EXCEPT ![v] = {}]
  /\ truncater' = [truncater EXCEPT ![v] = None]
  /\ UNCHANGED <<jobVars, dbVars, frag, disturbed, envVars>>

(* Finish: three removals, each attempted whatever became of the others.   *)
RemoveMp4(w) ==
  LET v == video[w] IN
  /\ pc[w] = "cleanMp4"
  /\ Goto(w, "cleanFrag")
  /\ \/ UNCHANGED <<mp4, writers, truncater>>
     \/ /\ mp4' = [mp4 EXCEPT ![v] = "absent"]
        /\ writers' = [writers EXCEPT ![v] = {}]
        /\ truncater' = [truncater EXCEPT ![v] = None]
  /\ UNCHANGED <<jobVars, dbVars, frag, dir, disturbed, envVars>>

RemoveFrag(w) ==
  /\ pc[w] = "cleanFrag"
  /\ Goto(w, "cleanDir")
  /\ frag' \in {frag, [frag EXCEPT ![video[w]] = "absent"]}
  /\ UNCHANGED <<jobVars, dbVars, mp4, writers, truncater, dir, disturbed, envVars>>

RemoveDir(w) ==
  /\ pc[w] = "cleanDir"
  /\ Goto(w, "complete")
  /\ dir' \in {dir, [dir EXCEPT ![video[w]] = "absent"]}
  /\ UNCHANGED <<jobVars, dbVars, mp4, writers, truncater, frag, disturbed, envVars>>

-----------------------------------------------------------------------------

Owned == {job[w] : w \in Workers} \ {None}

(* The process is killed and started again: files and rows stay.           *)
Crash ==
  /\ crashes < MaxCrashes
  /\ crashes' = crashes + 1
  /\ pc' = [w \in Workers |-> "idle"]
  /\ video' = [w \in Workers |-> None]
  /\ job' = [w \in Workers |-> None]
  /\ writers' = [v \in Videos |-> {}]
  /\ disturbed' = disturbed \cup Owned
  /\ UNCHANGED <<enabled, dbVars, mp4, truncater, frag, dir>>

(* The workers wait for messages: the only place they may come to rest.    *)
Waiting ==
  /\ \A w \in Workers : pc[w] = "idle"
  /\ UNCHANGED vars

Attempt(w) ==
  \/ CreateFails(w) \/ CreatePendingJob(w)
  \/ MarkProcessing(w) \/ MarkCompleted(w) \/ MarkFailed(w)
  \/ NewVideoService(w) \/ CreateMp4(w) \/ Download(w) \/ Mkdir(w) \/ Fragment(w)
  \/ Encode(w) \/ Upload(w) \/ StageFails(w)
  \/ RemoveMp4(w) \/ RemoveFrag(w) \/ RemoveDir(w)
  \/ Report(w)

Next ==
  \/ \E w \in Workers, v \in Videos : Receive(w, v)
  \/ \E w \in Workers : Attempt(w)
  \/ Crash
  \/ Waiting

Spec == Init /\ [][Next]_vars

-----------------------------------------------------------------------------
(* Properties.                                                             *)

(* Every variable has its type (the columns and files of one video).       *)
TypeOK ==
  /\ enabled \in BOOLEAN
  /\ pc \in [Workers -> Stages]
  /\ video \in [Workers -> Videos \cup {None}]
  /\ job \in [Workers -> Jobs \cup {None}]
  /\ status \in [Jobs -> Statuses]
  /\ uploaded \in [Jobs -> Content]
  /\ mp4 \in [Videos -> Content]
  /\ writers \in [Videos -> SUBSET Workers]
  /\ truncater \in [Videos -> Workers \cup {None}]
  /\ frag \in [Videos -> Content]
  /\ dir \in [Videos -> Content]
  /\ disturbed \subseteq Jobs
  /\ crashes \in 0..MaxCrashes

(* From Fragment's Mkdir to the end of Finish an attempt has its video's   *)
(* directory to itself, although the name is shared by every job for the   *)
(* video (VideoService.Fragment, Finish).                                  *)
WorkDirExclusive ==
  \A u, w \in Workers :
    (pc[u] \in DirStages /\ pc[w] \in DirStages /\ video[u] = video[w]) => u = w

(* What Encode and Upload are about to read is there: the attempt that has *)
(* made it finds it again, and Finish of another attempt never takes it    *)
(* away.  (Whether the input is whole is CompletedIsWhole.)                *)
InputsKept ==
  \A w \in Workers :
    /\ pc[w] = "encode" => frag[video[w]] # "absent"
    /\ pc[w] = "upload" => dir[video[w]] # "absent"

(* A job is Completed only if its outputs have all been uploaded: cleanup  *)
(* comes after the upload and the status after both (process, Run).        *)
CompletedWasUploaded ==
  \A j \in Jobs : status[j] = "Completed" => uploaded[j] # "absent"

(* A message is acknowledged as a success only if the row of its job says  *)
(* Completed, and rejected with the row Completed only if the database     *)
(* reported an error for it (Run, processPayload).                         *)
ResultMatchesRow ==
  enabled =>
    \A w \in Workers :
      /\ pc[w] = "ok" => status[job[w]] = "Completed"
      /\ (pc[w] = "failed" /\ job[w] # None /\ status[job[w]] = "Completed")
           => job[w] \in disturbed

(* A job that nobody works on any more has a terminal status, unless the   *)
(* process was killed or the database failed while it ran: Run records     *)
(* the outcome on every path out of process.                               *)
UnfinishedIsExplained ==
  enabled =>
    \A j \in Jobs \ (Owned \cup disturbed) : status[j] \in {"none", "Completed", "Failed"}

(* A row has one writer, so that the read-modify-write of updateStatus     *)
(* needs no transaction, and rows move only forward.                       *)
Lifecycle == INSTANCE JobLifecycle
ImplementsJobLifecycle == Lifecycle!Spec

(* README, "Roadmap": a redelivered job "overwrites its output objects".   *)
(* It cannot when an earlier attempt failed or was killed after Mkdir:     *)
(* nobody removes <video>/ then, and Fragment refuses to run.              *)
RedeliveryCanProceed ==
  \A w \in Workers :
    (pc[w] = "mkdir" /\ \A u \in Workers \ {w} : video[u] # video[w])
      => dir[video[w]] = "absent"

(* README, job status diagram: Completed means "download, encode, upload   *)
(* OK".  Broken when a second attempt for the video truncates the source   *)
(* file of the first: mp4fragment may accept the file with a hole.         *)
CompletedIsWhole ==
  \A j \in Jobs : status[j] = "Completed" => uploaded[j] = "good"
=============================================================================
