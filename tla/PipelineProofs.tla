--------------------------- MODULE PipelineProofs ---------------------------
(***************************************************************************)
(* Proofs about Pipeline, for any number of workers, videos and jobs.      *)
(***************************************************************************)
EXTENDS Pipeline, TLAPS

-----------------------------------------------------------------------------
(* Type correctness.                                                       *)

BusyHasVideo == \A w \in Workers : pc[w] # "idle" => video[w] \in Videos

TypeInv == TypeOK /\ BusyHasVideo

LEMMA InitType == Init => TypeInv
BY MaxCrashesAssumption DEF Init, TypeInv, TypeOK, BusyHasVideo, Stages, Statuses, Content

LEMMA UpdateType ==
  ASSUME TypeInv, NEW w \in Workers, pc[w] # "idle",
         NEW to \in Statuses, NEW ifOk \in Stages, NEW ifError \in Stages,
         UpdateStatus(w, to, ifOk, ifError), job[w] \in Jobs
  PROVE  TypeInv'
BY DEF TypeInv, TypeOK, BusyHasVideo, UpdateStatus, Goto, jobVars, fileVars, envVars

JobHeld ==
  \A w \in Workers : pc[w] \notin {"idle", "create", "failed"} => job[w] \in Jobs

LEMMA AttemptType ==
  ASSUME TypeInv, JobHeld, NEW w \in Workers, Attempt(w)
  PROVE  TypeInv'
<1> USE DEF TypeInv, TypeOK, BusyHasVideo, Goto, jobVars, dbVars, fileVars, envVars
<1>1. CASE CreateFails(w)
  BY <1>1 DEF CreateFails, Stages, Statuses
<1>2. CASE CreatePendingJob(w)
  BY <1>2 DEF CreatePendingJob, Stages, Statuses
<1>3. CASE MarkProcessing(w) \/ MarkCompleted(w) \/ MarkFailed(w)
  BY <1>3, UpdateType
     DEF MarkProcessing, MarkCompleted, MarkFailed, JobHeld, Stages, MediaStages, Statuses
<1>4. CASE NewVideoService(w)
  BY <1>4 DEF NewVideoService, Stages, MediaStages
<1>5. CASE CreateMp4(w)
  BY <1>5 DEF CreateMp4, Stages, MediaStages, Content
<1>6. CASE Download(w)
  <2>1. mp4' \in [Videos -> Content]
    BY <1>6 DEF Download, Content
  <2>2. QED
    BY <1>6, <2>1 DEF Download, Stages, MediaStages
<1>7. CASE Mkdir(w)
  BY <1>7 DEF Mkdir, Stages, DirStages, Content
<1>8. CASE Fragment(w)
  BY <1>8 DEF Fragment, Stages, DirStages
<1>9. CASE Encode(w)
  BY <1>9 DEF Encode, Stages, DirStages
<1>10. CASE Upload(w)
  BY <1>10 DEF Upload, Stages, DirStages
<1>11. CASE StageFails(w)
  BY <1>11 DEF StageFails, Stages, MediaStages, Content
<1>12. CASE RemoveMp4(w) \/ RemoveFrag(w) \/ RemoveDir(w)
  BY <1>12 DEF RemoveMp4, RemoveFrag, RemoveDir, Stages, DirStages, Content
<1>13. CASE Report(w)
  BY <1>13 DEF Report, Stages
<1>14. QED
  BY <1>1, <1>2, <1>3, <1>4, <1>5, <1>6, <1>7, <1>8, <1>9, <1>10, <1>11, <1>12, <1>13
     DEF Attempt

LEMMA OtherType ==
  ASSUME TypeInv, \/ \E w \in Workers, v \in Videos : Receive(w, v)
                  \/ Crash \/ Waiting \/ UNCHANGED vars
  PROVE  TypeInv'
<1> USE DEF TypeInv, TypeOK, BusyHasVideo, Goto, jobVars, dbVars, fileVars, envVars, vars
<1>1. ASSUME NEW w \in Workers, NEW v \in Videos, Receive(w, v) PROVE TypeInv'
  BY <1>1 DEF Receive, Stages
<1>2. CASE Crash
  BY <1>2, MaxCrashesAssumption DEF Crash, Stages, Owned
<1>3. CASE Waiting \/ UNCHANGED vars
  BY <1>3 DEF Waiting
<1>4. QED
  BY <1>1, <1>2, <1>3

-----------------------------------------------------------------------------
(* A worker and the row of its job.                                        *)

UploadedStages == {"cleanMp4", "cleanFrag", "cleanDir", "complete"}

RowOK(w) ==
  LET j == job[w] IN
  /\ pc[w] \in {"idle", "create"} => j = None
  /\ pc[w] \notin {"idle", "create", "failed"} => j \in Jobs
  /\ pc[w] = "start" => status[j] = "Pending"
  /\ pc[w] \in MediaStages \cup UploadedStages => status[j] = "Processing"
  /\ pc[w] \in UploadedStages => uploaded[j] # "absent"
  /\ pc[w] = "fail" => status[j] \in {"Pending", "Processing"}
  /\ (pc[w] = "ok" /\ enabled) => status[j] = "Completed"
  /\ (pc[w] = "failed" /\ j # None) => status[j] = "Failed" \/ j \in disturbed

(* Rows have one writer, and exist while they have one.                    *)
OneWriter ==
  /\ \A u, w \in Workers : (job[u] = job[w] /\ job[w] # None) => u = w
  /\ \A w \in Workers : job[w] # None => status[job[w]] # "none"

RowInv ==
  /\ \A w \in Workers : RowOK(w)
  /\ OneWriter
  /\ CompletedWasUploaded
  /\ UnfinishedIsExplained

LEMMA InitRows == Init => RowInv
BY DEF Init, RowInv, RowOK, OneWriter, CompletedWasUploaded, UnfinishedIsExplained, Owned,
       MediaStages, UploadedStages

(* A worker's step leaves the rows of the others alone.                    *)
LEMMA OthersRows ==
  ASSUME TypeInv, RowInv, NEW w \in Workers,
         \A u \in Workers \ {w} : pc'[u] = pc[u] /\ job'[u] = job[u],
         enabled' = enabled, disturbed \subseteq disturbed',
         \A j \in Jobs : status[j] = "none" \/ j = job[w]
                         \/ (status'[j] = status[j] /\ uploaded'[j] = uploaded[j])
  PROVE  \A u \in Workers \ {w} : RowOK(u)'
<1> SUFFICES ASSUME NEW u \in Workers \ {w} PROVE RowOK(u)'
  OBVIOUS
<1>1. RowOK(u) /\ pc'[u] = pc[u] /\ job'[u] = job[u]
  BY DEF RowInv
<1>2. job[u] # None => job[u] \in Jobs /\ job[u] # job[w] /\ status[job[u]] # "none"
  BY DEF RowInv, OneWriter, TypeInv, TypeOK
<1>3. job[u] # None => status'[job[u]] = status[job[u]] /\ uploaded'[job[u]] = uploaded[job[u]]
  BY <1>2
<1>4. QED
  BY <1>1, <1>2, <1>3, JobsAssumption DEF RowOK, MediaStages, UploadedStages

(* Steps that touch neither rows nor uploads: only the stage matters.      *)
LEMMA StageStep ==
  ASSUME TypeInv, RowInv, NEW w \in Workers, NEW to \in Stages,
         pc' = [pc EXCEPT ![w] = to], UNCHANGED <<job, status, uploaded, disturbed, enabled>>,
         \/ pc[w] \in MediaStages /\ to \in MediaStages \cup {"fail"}
         \/ pc[w] \in UploadedStages /\ to \in UploadedStages
         \/ pc[w] = "create" /\ to = "failed"
         \/ pc[w] = "idle" /\ to = "create"
  PROVE  RowInv'
<1>1. \A u \in Workers \ {w} : RowOK(u)'
  BY OthersRows DEF TypeInv, TypeOK
<1>2. RowOK(w) /\ pc'[w] = to
  BY DEF RowInv, TypeInv, TypeOK
<1>3. RowOK(w)'
  BY <1>2 DEF RowOK, MediaStages, UploadedStages
<1>4. \A u \in Workers : RowOK(u)'
  BY <1>1, <1>3
<1>5. OneWriter' /\ CompletedWasUploaded' /\ UnfinishedIsExplained'
  BY DEF RowInv, OneWriter, CompletedWasUploaded, UnfinishedIsExplained, Owned
<1>6. QED
  BY <1>4, <1>5 DEF RowInv

(* A status update moves the worker's own row and no other.                *)
LEMMA UpdateStep ==
  ASSUME TypeInv, RowInv, NEW w \in Workers, pc[w] \in {"start", "complete", "fail"},
         NEW to, NEW ifOk \in Stages, NEW ifError \in Stages,
         UpdateStatus(w, to, ifOk, ifError),
         \/ pc[w] = "start" /\ to = "Processing" /\ ifOk = "init" /\ ifError = "fail"
         \/ pc[w] = "complete" /\ to = "Completed" /\ ifOk = "ok" /\ ifError = "failed"
         \/ pc[w] = "fail" /\ to = "Failed" /\ ifOk = "failed" /\ ifError = "failed"
  PROVE  RowInv'
<1> DEFINE j == job[w]
<1>1. j \in Jobs /\ j # None /\ RowOK(w)
  BY JobsAssumption DEF RowInv, RowOK
<1>2. /\ UNCHANGED <<job, uploaded, enabled>> /\ disturbed \subseteq disturbed'
      /\ status' \in {status, [status EXCEPT ![j] = to]}
      /\ pc' \in {[pc EXCEPT ![w] = ifOk], [pc EXCEPT ![w] = ifError]}
  BY DEF UpdateStatus, Goto, jobVars, envVars
<1>3. \A u \in Workers \ {w} : RowOK(u)'
  BY <1>2, OthersRows DEF TypeInv, TypeOK
<1>4. \/ status'[j] = to /\ pc'[w] = ifOk
      \/ status'[j] \in {status[j], to} /\ pc'[w] = ifError /\ j \in disturbed'
  BY <1>1 DEF UpdateStatus, Goto, TypeInv, TypeOK
<1>5. RowOK(w)'
  BY <1>1, <1>2, <1>4 DEF RowOK, MediaStages, UploadedStages
<1>6. OneWriter'
  BY <1>1, <1>2 DEF RowInv, OneWriter, TypeInv, TypeOK
<1>7. CompletedWasUploaded'
  <2>1. to = "Completed" => uploaded[j] # "absent"
    BY <1>1 DEF RowOK, UploadedStages
  <2>2. QED
    BY <1>1, <1>2, <2>1 DEF RowInv, CompletedWasUploaded, TypeInv, TypeOK
<1>8. UnfinishedIsExplained'
  <2>1. j \in Owned /\ Owned' = Owned
    BY <1>1, <1>2 DEF Owned
  <2>2. QED
    BY <1>2, <2>1 DEF RowInv, UnfinishedIsExplained, TypeInv, TypeOK
<1>9. QED
  BY <1>3, <1>5, <1>6, <1>7, <1>8 DEF RowInv

LEMMA CreateStep ==
  ASSUME TypeInv, RowInv, NEW w \in Workers, CreateFails(w) \/ CreatePendingJob(w)
  PROVE  RowInv'
<1> USE DEF TypeInv, TypeOK
<1>1. pc[w] = "create" /\ job[w] = None
  BY DEF CreateFails, CreatePendingJob, RowInv, RowOK
<1>2. CASE CreateFails(w) /\ UNCHANGED <<status, disturbed>>
  BY <1>1, <1>2, StageStep DEF CreateFails, Goto, jobVars, envVars, Stages
<1>3. ASSUME NEW j \in Jobs, status[j] = "none", status' = [status EXCEPT ![j] = "Pending"],
             disturbed' = disturbed \cup {j}, CreateFails(w)
      PROVE  RowInv'
  <2>1. pc' = [pc EXCEPT ![w] = "failed"] /\ UNCHANGED <<job, uploaded, enabled>>
    BY <1>3 DEF CreateFails, Goto, jobVars, envVars
  <2>2. \A u \in Workers \ {w} : RowOK(u)'
    BY <1>3, <2>1, OthersRows
  <2>3. RowOK(w)'
    BY <1>1, <2>1 DEF RowOK, MediaStages, UploadedStages
  <2>4. OneWriter' /\ CompletedWasUploaded'
    BY <1>3, <2>1 DEF RowInv, OneWriter, CompletedWasUploaded
  <2>5. UnfinishedIsExplained'
    BY <1>3, <2>1 DEF RowInv, UnfinishedIsExplained, Owned
  <2>6. QED
    BY <2>2, <2>3, <2>4, <2>5 DEF RowInv
<1>4. ASSUME NEW j \in Jobs, status[j] = "none", status' = [status EXCEPT ![j] = "Pending"],
             job' = [job EXCEPT ![w] = j], CreatePendingJob(w)
      PROVE  RowInv'
  <2>1. /\ pc' = [pc EXCEPT ![w] = IF enabled THEN "start" ELSE "ok"]
        /\ UNCHANGED <<uploaded, disturbed, enabled>>
    BY <1>4 DEF CreatePendingJob, Goto, envVars
  <2>2. \A u \in Workers \ {w} : RowOK(u)'
    BY <1>4, <2>1, OthersRows
  <2>3. RowOK(w)'
    BY <1>4, <2>1, JobsAssumption DEF RowOK, MediaStages, UploadedStages
  <2>4. \A u \in Workers : job[u] # j
    BY <1>4, JobsAssumption DEF RowInv, OneWriter
  <2>5. OneWriter' /\ CompletedWasUploaded'
    BY <1>4, <2>1, <2>4 DEF RowInv, OneWriter, CompletedWasUploaded
  <2>6. UnfinishedIsExplained'
    <3>1. Owned \cup {j} \subseteq Owned'
      BY <1>1, <1>4, JobsAssumption DEF Owned
    <3>2. QED
      BY <1>4, <2>1, <3>1 DEF RowInv, UnfinishedIsExplained
  <2>7. QED
    BY <2>2, <2>3, <2>5, <2>6 DEF RowInv
<1>5. QED
  BY <1>2, <1>3, <1>4 DEF CreateFails, CreatePendingJob

LEMMA ReportStep ==
  ASSUME TypeInv, RowInv, NEW w \in Workers, Report(w)
  PROVE  RowInv'
<1> USE DEF TypeInv, TypeOK
<1>1. /\ pc[w] \in {"ok", "failed"} /\ pc' = [pc EXCEPT ![w] = "idle"]
      /\ job' = [job EXCEPT ![w] = None] /\ UNCHANGED <<status, uploaded, disturbed, enabled>>
  BY DEF Report, Goto, dbVars, envVars
<1>2. \A u \in Workers \ {w} : RowOK(u)'
  BY <1>1, OthersRows
<1>3. RowOK(w)'
  BY <1>1 DEF RowOK, MediaStages, UploadedStages
<1>4. OneWriter' /\ CompletedWasUploaded'
  BY <1>1 DEF RowInv, OneWriter, CompletedWasUploaded
<1>5. UnfinishedIsExplained'
  <2>1. Owned \subseteq Owned' \cup {job[w]}
    BY <1>1 DEF Owned
  <2>2. enabled /\ job[w] # None =>
          status[job[w]] \in {"Completed", "Failed"} \/ job[w] \in disturbed
    BY <1>1 DEF RowInv, RowOK
  <2>3. QED
    BY <1>1, <2>1, <2>2, JobsAssumption DEF RowInv, UnfinishedIsExplained
<1>6. QED
  BY <1>2, <1>3, <1>4, <1>5 DEF RowInv

LEMMA UploadStep ==
  ASSUME TypeInv, RowInv, NEW w \in Workers, Upload(w)
  PROVE  RowInv'
<1> USE DEF TypeInv, TypeOK
<1>1. /\ pc[w] = "upload" /\ pc' = [pc EXCEPT ![w] = "cleanMp4"]
      /\ dir[video[w]] # "absent"
      /\ uploaded' = [uploaded EXCEPT ![job[w]] = dir[video[w]]]
      /\ UNCHANGED <<job, status, disturbed, enabled>>
  BY DEF Upload, Goto, jobVars, envVars
<1>2. RowOK(w)
  BY DEF RowInv
<1>3. \A u \in Workers \ {w} : RowOK(u)'
  BY <1>1, OthersRows
<1>4. RowOK(w)'
  BY <1>1, <1>2 DEF RowOK, MediaStages, UploadedStages
<1>5. OneWriter' /\ CompletedWasUploaded' /\ UnfinishedIsExplained'
  BY <1>1 DEF RowInv, OneWriter, CompletedWasUploaded, UnfinishedIsExplained, Owned
<1>6. QED
  BY <1>3, <1>4, <1>5 DEF RowInv

LEMMA AttemptRows ==
  ASSUME TypeInv, RowInv, NEW w \in Workers, Attempt(w)
  PROVE  RowInv'
<1>1. CASE MarkProcessing(w)
  BY <1>1, UpdateStep DEF MarkProcessing, Stages, MediaStages
<1>2. CASE MarkCompleted(w)
  BY <1>2, UpdateStep DEF MarkCompleted, Stages
<1>3. CASE MarkFailed(w)
  BY <1>3, UpdateStep DEF MarkFailed, Stages
<1>4. CASE \/ NewVideoService(w) \/ CreateMp4(w) \/ Download(w) \/ Mkdir(w) \/ Fragment(w)
         \/ Encode(w) \/ StageFails(w)
  <2> DEFINE next == CASE pc[w] = "init" -> "download" [] pc[w] = "download" -> "fetch"
                     [] pc[w] = "fetch" -> "mkdir" [] pc[w] = "mkdir" -> "fragment"
                     [] pc[w] = "fragment" -> "encode" [] pc[w] = "encode" -> "upload"
                     [] OTHER -> "fail"
  <2>1. /\ pc[w] \in MediaStages
        /\ pc' = [pc EXCEPT ![w] = next] \/ pc' = [pc EXCEPT ![w] = "fail"]
        /\ UNCHANGED <<job, status, uploaded, disturbed, enabled>>
    BY <1>4 DEF NewVideoService, CreateMp4, Download, Mkdir, Fragment, Encode, StageFails, Goto,
                MediaStages, jobVars, dbVars, envVars
  <2>2. next \in MediaStages \cup {"fail"} /\ MediaStages \cup {"fail"} \subseteq Stages
    BY DEF MediaStages, Stages
  <2>3. QED
    BY <2>1, <2>2, StageStep
<1>5. CASE RemoveMp4(w) \/ RemoveFrag(w) \/ RemoveDir(w)
  <2> DEFINE next == CASE pc[w] = "cleanMp4" -> "cleanFrag" [] pc[w] = "cleanFrag" -> "cleanDir"
                     [] OTHER -> "complete"
  <2>1. /\ pc[w] \in UploadedStages /\ pc' = [pc EXCEPT ![w] = next]
        /\ UNCHANGED <<job, status, uploaded, disturbed, enabled>>
    BY <1>5 DEF RemoveMp4, RemoveFrag, RemoveDir, Goto, UploadedStages, jobVars, dbVars, envVars
  <2>2. next \in UploadedStages /\ UploadedStages \subseteq Stages
    BY DEF UploadedStages, Stages, DirStages
  <2>3. QED
    BY <2>1, <2>2, StageStep
<1>6. QED
  BY <1>1, <1>2, <1>3, <1>4, <1>5, CreateStep, ReportStep, UploadStep DEF Attempt

LEMMA OtherRows ==
  ASSUME TypeInv, RowInv, \/ \E w \in Workers, v \in Videos : Receive(w, v)
                          \/ Crash \/ Waiting \/ UNCHANGED vars
  PROVE  RowInv'
<1>1. ASSUME NEW w \in Workers, NEW v \in Videos, Receive(w, v) PROVE RowInv'
  BY <1>1, StageStep DEF Receive, Goto, dbVars, envVars, Stages
<1>2. CASE Crash
  <2>1. /\ pc' = [w \in Workers |-> "idle"] /\ job' = [w \in Workers |-> None]
        /\ disturbed' = disturbed \cup Owned /\ UNCHANGED <<status, uploaded, enabled>>
    BY <1>2 DEF Crash, dbVars
  <2>2. (\A w \in Workers : RowOK(w)') /\ OneWriter'
    BY <2>1 DEF RowOK, OneWriter, MediaStages, UploadedStages
  <2>3. CompletedWasUploaded' /\ UnfinishedIsExplained'
    BY <2>1 DEF RowInv, CompletedWasUploaded, UnfinishedIsExplained
  <2>4. QED
    BY <2>2, <2>3 DEF RowInv
<1>3. CASE Waiting \/ UNCHANGED vars
  BY <1>3 DEF Waiting, vars, jobVars, dbVars, envVars, RowInv, RowOK, OneWriter,
     CompletedWasUploaded, UnfinishedIsExplained, Owned
<1>4. QED
  BY <1>1, <1>2, <1>3

-----------------------------------------------------------------------------
(* The work directory as a lock.                                           *)

(* It exists from Mkdir to RemoveDir, and so does what Fragment made.      *)
DirInv ==
  /\ \A w \in Workers : pc[w] \in DirStages => dir[video[w]] # "absent"
  /\ \A w \in Workers : pc[w] = "encode" => frag[video[w]] # "absent"
  /\ WorkDirExclusive

LEMMA InitDir == Init => DirInv
BY DEF Init, DirInv, WorkDirExclusive, DirStages

(* Steps outside the directory: the worker does not enter it, and neither  *)
(* directory nor fragment of a video changes.                              *)
LEMMA OutsideDir ==
  ASSUME DirInv, UNCHANGED <<frag, dir>>,
         \A w \in Workers : pc'[w] \in DirStages =>
           pc[w] \in DirStages /\ video'[w] = video[w] /\ (pc'[w] = "encode" => pc[w] = "encode")
  PROVE  DirInv'
BY DEF DirInv, WorkDirExclusive, DirStages

LEMMA AttemptDir ==
  ASSUME TypeInv, DirInv, NEW w \in Workers, Attempt(w)
  PROVE  DirInv'
<1> USE DEF TypeInv, TypeOK, BusyHasVideo
<1>1. CASE \/ CreateFails(w) \/ CreatePendingJob(w) \/ NewVideoService(w)
         \/ CreateMp4(w) \/ Download(w) \/ Report(w)
  <2>1. UNCHANGED <<frag, dir>>
    BY <1>1 DEF CreateFails, CreatePendingJob, NewVideoService, CreateMp4, Download, Report, fileVars
  <2>2. \A u \in Workers : pc'[u] \in DirStages => pc'[u] = pc[u] /\ video'[u] = video[u]
    BY <1>1 DEF CreateFails, CreatePendingJob, NewVideoService, CreateMp4, Download, Report, Goto,
                jobVars, DirStages
  <2>3. QED
    BY <2>1, <2>2, OutsideDir
<1>2. CASE MarkProcessing(w) \/ MarkCompleted(w) \/ MarkFailed(w)
  <2>1. UNCHANGED <<frag, dir, video>>
    BY <1>2 DEF MarkProcessing, MarkCompleted, MarkFailed, UpdateStatus, fileVars, jobVars
  <2>2. \A u \in Workers : pc'[u] \in DirStages => pc'[u] = pc[u]
    BY <1>2 DEF MarkProcessing, MarkCompleted, MarkFailed, UpdateStatus, Goto, DirStages
  <2>3. QED
    BY <2>1, <2>2, OutsideDir
<1>3. CASE Upload(w) \/ RemoveMp4(w)
  <2>1. UNCHANGED <<frag, dir, video>>
    BY <1>3 DEF Upload, RemoveMp4, fileVars, jobVars
  <2>2. \A u \in Workers : pc'[u] \in DirStages =>
          pc[u] \in DirStages /\ (pc'[u] = "encode" => pc[u] = "encode")
    BY <1>3 DEF Upload, RemoveMp4, Goto, DirStages
  <2>3. QED
    BY <2>1, <2>2, OutsideDir
<1>4. CASE Mkdir(w)
  <2>1. /\ dir[video[w]] = "absent" /\ video[w] \in Videos /\ pc' = [pc EXCEPT ![w] = "fragment"]
        /\ dir' = [dir EXCEPT ![video[w]] = "bad"] /\ UNCHANGED <<video, frag>>
    BY <1>4 DEF Mkdir, Goto, jobVars
  <2>2. \A u \in Workers : pc[u] \in DirStages => video[u] # video[w]
    BY <2>1 DEF DirInv
  <2>3. WorkDirExclusive'
    BY <2>1, <2>2 DEF DirInv, WorkDirExclusive
  <2>4. QED
    BY <2>1, <2>3 DEF DirInv, DirStages
<1>5. CASE Fragment(w)
  <2>1. /\ pc[w] = "fragment" /\ mp4[video[w]] # "absent" /\ video[w] \in Videos
        /\ pc' = [pc EXCEPT ![w] = "encode"]
        /\ frag' = [frag EXCEPT ![video[w]] = mp4[video[w]]] /\ UNCHANGED <<video, dir>>
    BY <1>5 DEF Fragment, Goto, jobVars
  <2>2. QED
    BY <2>1 DEF DirInv, WorkDirExclusive, DirStages
<1>6. CASE Encode(w)
  <2>1. /\ pc[w] = "encode" /\ frag[video[w]] # "absent" /\ video[w] \in Videos
        /\ pc' = [pc EXCEPT ![w] = "upload"]
        /\ dir' = [dir EXCEPT ![video[w]] = frag[video[w]]] /\ UNCHANGED <<video, frag>>
    BY <1>6 DEF Encode, Goto, jobVars
  <2>2. QED
    BY <2>1 DEF DirInv, WorkDirExclusive, DirStages
<1>7. CASE StageFails(w)
  <2>1. /\ pc[w] \in MediaStages /\ video[w] \in Videos /\ pc' = [pc EXCEPT ![w] = "fail"]
        /\ frag' \in {frag, [frag EXCEPT ![video[w]] = "bad"]}
        /\ dir' \in {dir, [dir EXCEPT ![video[w]] = "bad"]} /\ UNCHANGED video
    BY <1>7 DEF StageFails, Goto, jobVars, MediaStages
  <2>2. QED
    BY <2>1 DEF DirInv, WorkDirExclusive, DirStages
<1>8. CASE RemoveFrag(w)
  <2>1. /\ pc[w] = "cleanFrag" /\ pc' = [pc EXCEPT ![w] = "cleanDir"]
        /\ frag' \in {frag, [frag EXCEPT ![video[w]] = "absent"]} /\ UNCHANGED <<video, dir>>
    BY <1>8 DEF RemoveFrag, Goto, jobVars
  <2>2. \A u \in Workers : pc[u] = "encode" => video[u] # video[w]
    BY <2>1 DEF DirInv, WorkDirExclusive, DirStages
  <2>3. QED
    BY <2>1, <2>2 DEF DirInv, WorkDirExclusive, DirStages
<1>9. CASE RemoveDir(w)
  <2>1. /\ pc[w] = "cleanDir" /\ pc' = [pc EXCEPT ![w] = "complete"]
        /\ dir' \in {dir, [dir EXCEPT ![video[w]] = "absent"]} /\ UNCHANGED <<video, frag>>
    BY <1>9 DEF RemoveDir, Goto, jobVars
  <2>2. \A u \in Workers \ {w} : pc[u] \in DirStages => video[u] # video[w]
    BY <2>1 DEF DirInv, WorkDirExclusive, DirStages
  <2>3. QED
    BY <2>1, <2>2 DEF DirInv, WorkDirExclusive, DirStages
<1>10. QED
  BY <1>1, <1>2, <1>3, <1>4, <1>5, <1>6, <1>7, <1>8, <1>9 DEF Attempt

LEMMA OtherDir ==
  ASSUME TypeInv, DirInv, \/ \E w \in Workers, v \in Videos : Receive(w, v)
                          \/ Crash \/ Waiting \/ UNCHANGED vars
  PROVE  DirInv'
<1> USE DEF TypeInv, TypeOK
<1>1. ASSUME NEW w \in Workers, NEW v \in Videos, Receive(w, v) PROVE DirInv'
  <2>1. /\ UNCHANGED <<frag, dir>>
        /\ \A u \in Workers : pc'[u] \in DirStages => pc'[u] = pc[u] /\ video'[u] = video[u]
    BY <1>1 DEF Receive, Goto, fileVars, DirStages
  <2>2. QED
    BY <2>1, OutsideDir
<1>2. CASE Crash
  BY <1>2 DEF Crash, DirInv, WorkDirExclusive, DirStages
<1>3. CASE Waiting \/ UNCHANGED vars
  BY <1>3 DEF Waiting, vars, jobVars, fileVars, DirInv, WorkDirExclusive
<1>4. QED
  BY <1>1, <1>2, <1>3

-----------------------------------------------------------------------------
(* The inductive invariant and what follows from it.                       *)

IInv == TypeInv /\ RowInv /\ DirInv

LEMMA RowsHold == RowInv => JobHeld
BY DEF RowInv, RowOK, JobHeld

LEMMA IInvStep == IInv /\ [Next]_vars => IInv'
<1> SUFFICES ASSUME IInv, [Next]_vars PROVE IInv'
  OBVIOUS
<1>1. ASSUME NEW w \in Workers, Attempt(w) PROVE IInv'
  BY <1>1, RowsHold, AttemptType, AttemptRows, AttemptDir DEF IInv
<1>2. CASE \/ \E w \in Workers, v \in Videos : Receive(w, v)
         \/ Crash \/ Waiting \/ UNCHANGED vars
  BY <1>2, OtherType, OtherRows, OtherDir DEF IInv
<1>3. QED
  BY <1>1, <1>2 DEF Next

LEMMA Invariance == Spec => []IInv
BY InitType, InitRows, InitDir, IInvStep, PTL DEF Spec, IInv

(* Every reachable state has its type, whatever the number of workers.     *)
THEOREM TypeCorrect == Spec => []TypeOK
<1>1. IInv => TypeOK
  BY DEF IInv, TypeInv
<1>2. QED
  BY <1>1, Invariance, PTL

(* At most one attempt at a time works in a video's directory: os.Mkdir in *)
(* Fragment is a lock that the last removal of Finish releases.            *)
THEOREM DirectoryIsExclusive == Spec => []WorkDirExclusive
<1>1. IInv => WorkDirExclusive
  BY DEF IInv, DirInv
<1>2. QED
  BY <1>1, Invariance, PTL

(* The fragment an attempt encodes and the directory it uploads are not    *)
(* removed by the Finish of another attempt for the same video.            *)
THEOREM InputsAreKept == Spec => []InputsKept
<1>1. IInv => InputsKept
  BY DEF IInv, DirInv, InputsKept, DirStages
<1>2. QED
  BY <1>1, Invariance, PTL

(* A job is marked Completed only after its outputs have been uploaded     *)
(* (process returns before MarkCompleted, and uploads before Finish).      *)
THEOREM CompletedIsUploaded == Spec => []CompletedWasUploaded
<1>1. IInv => CompletedWasUploaded
  BY DEF IInv, RowInv
<1>2. QED
  BY <1>1, Invariance, PTL

(* What a worker tells the queue agrees with the row of its job            *)
(* (Processor.Run, processPayload).                                        *)
THEOREM ResultsMatchRows == Spec => []ResultMatchesRow
<1>1. IInv => ResultMatchesRow
  BY DEF IInv, RowInv, RowOK, ResultMatchesRow
<1>2. QED
  BY <1>1, Invariance, PTL

(* Only a crash or a database error leaves a job unfinished: Run records   *)
(* an outcome on every path.                                               *)
THEOREM UnfinishedJobsAreExplained == Spec => []UnfinishedIsExplained
<1>1. IInv => UnfinishedIsExplained
  BY DEF IInv, RowInv
<1>2. QED
  BY <1>1, Invariance, PTL

-----------------------------------------------------------------------------
(* Rows follow JobLifecycle.                                               *)

LEMMA LifecycleStep == IInv /\ [Next]_vars => [Lifecycle!Next]_status
<1> SUFFICES ASSUME IInv, [Next]_vars PROVE [Lifecycle!Next]_status
  OBVIOUS
<1> USE DEF IInv, Lifecycle!Next, Lifecycle!Become
<1>1. ASSUME NEW w \in Workers, CreateFails(w) \/ CreatePendingJob(w)
      PROVE  [Lifecycle!Next]_status
  BY <1>1 DEF CreateFails, CreatePendingJob, Lifecycle!Consume
<1>2. ASSUME NEW w \in Workers, MarkProcessing(w) \/ MarkCompleted(w) \/ MarkFailed(w)
      PROVE  [Lifecycle!Next]_status
  <2>1. RowOK(w) /\ job[w] \in Jobs
    BY <1>2 DEF MarkProcessing, MarkCompleted, MarkFailed, RowInv, RowOK
  <2>2. CASE MarkProcessing(w)
    BY <2>1, <2>2 DEF MarkProcessing, UpdateStatus, RowOK, Lifecycle!PickUp
  <2>3. CASE MarkCompleted(w)
    BY <2>1, <2>3 DEF MarkCompleted, UpdateStatus, RowOK, UploadedStages, Lifecycle!Complete
  <2>4. CASE MarkFailed(w)
    BY <2>1, <2>4 DEF MarkFailed, UpdateStatus, RowOK, Lifecycle!Fail
  <2>5. QED
    BY <1>2, <2>2, <2>3, <2>4
<1>3. ASSUME NEW w \in Workers, Attempt(w),
             ~(CreateFails(w) \/ CreatePendingJob(w)),
             ~(MarkProcessing(w) \/ MarkCompleted(w) \/ MarkFailed(w))
      PROVE  [Lifecycle!Next]_status
  BY <1>3 DEF Attempt, NewVideoService, CreateMp4, Download, Mkdir, Fragment, Encode, Upload,
     StageFails, RemoveMp4, RemoveFrag, RemoveDir, Report, dbVars
<1>4. CASE \/ \E w \in Workers, v \in Videos : Receive(w, v)
         \/ Crash \/ Waiting \/ UNCHANGED vars
  BY <1>4 DEF Receive, Crash, Waiting, vars, dbVars
<1>5. QED
  BY <1>1, <1>2, <1>3, <1>4 DEF Next

(* Every row goes through the states of JobLifecycle and through no other, *)
(* although updateStatus reads and writes it in two calls without a        *)
(* transaction: a row has one writer.                                      *)
THEOREM PipelineImplementsJobLifecycle == Spec => ImplementsJobLifecycle
<1>1. Init => Lifecycle!Init
  BY DEF Init, Lifecycle!Init
<1>2. QED
  BY <1>1, LifecycleStep, Invariance, PTL DEF Spec, Lifecycle!Spec, ImplementsJobLifecycle

-----------------------------------------------------------------------------
(* Attempts one at a time: no two workers hold messages for one video.     *)

OneAttemptPerVideo ==
  \A u, w \in Workers : (video[u] = video[w] /\ video[u] # None) => u = w

(* What an attempt that nobody disturbs has made of the files.             *)
MadeOK(w) ==
  LET v == video[w] IN
  /\ pc[w] = "fetch" => w \in writers[v] /\ truncater[v] = w
  /\ pc[w] \in {"mkdir", "fragment"} => mp4[v] = "good"
  /\ pc[w] = "encode" => frag[v] = "good"
  /\ pc[w] = "upload" => dir[v] = "good"
  /\ pc[w] \in UploadedStages => uploaded[job[w]] = "good"

MadeInv == (\A w \in Workers : MadeOK(w)) /\ CompletedIsWhole

LEMMA InitMade == Init => MadeInv
BY DEF Init, MadeInv, MadeOK, CompletedIsWhole, UploadedStages

(* A worker's step leaves the attempts of the others alone.                *)
LEMMA OthersMade ==
  ASSUME TypeInv, MadeInv, NEW w \in Workers, NEW u \in Workers, u # w,
         pc'[u] = pc[u], video'[u] = video[u], job'[u] = job[u],
         \A v \in Videos : v # video[w] =>
           /\ mp4'[v] = mp4[v] /\ writers'[v] = writers[v] /\ truncater'[v] = truncater[v]
           /\ frag'[v] = frag[v] /\ dir'[v] = dir[v],
         video[u] # video[w] \/ video[u] = None,
         \A j \in Jobs : uploaded[j] = "good" => uploaded'[j] = "good",
         JobHeld
  PROVE  MadeOK(u)'
<1>1. CASE pc[u] \in {"fetch", "mkdir", "fragment", "encode", "upload"}
  <2>1. video[u] \in Videos /\ video[u] # video[w]
    BY <1>1, VideosAssumption DEF TypeInv, BusyHasVideo
  <2>2. QED
    BY <1>1, <2>1 DEF MadeInv, MadeOK, UploadedStages
<1>2. CASE pc[u] \in UploadedStages
  BY <1>2 DEF MadeInv, MadeOK, UploadedStages, JobHeld
<1>3. QED
  BY <1>1, <1>2 DEF MadeOK

LEMMA AttemptMade ==
  ASSUME IInv, OneAttemptPerVideo, MadeInv, NEW w \in Workers, Attempt(w)
  PROVE  MadeInv'
<1> USE DEF Goto, jobVars, dbVars, fileVars, envVars
<1>1. TypeInv /\ JobHeld /\ MadeOK(w) /\ CompletedIsWhole
  BY RowsHold DEF IInv, MadeInv
<1>2. video[w] \in Videos /\ pc[w] # "idle"
  BY <1>1 DEF TypeInv, BusyHasVideo, Attempt, CreateFails, CreatePendingJob, MarkProcessing,
              MarkCompleted, MarkFailed, NewVideoService, CreateMp4, Download, Mkdir, Fragment,
              Encode, Upload, StageFails, MediaStages, RemoveMp4, RemoveFrag, RemoveDir, Report
<1>3. ASSUME NEW u \in Workers, u # w
      PROVE  video[u] # video[w] \/ video[u] = None
  BY <1>3 DEF OneAttemptPerVideo
<1>4. ASSUME \A u \in Workers \ {w} :
               pc'[u] = pc[u] /\ video'[u] = video[u] /\ job'[u] = job[u],
             \A v \in Videos : v # video[w] =>
               /\ mp4'[v] = mp4[v] /\ writers'[v] = writers[v] /\ truncater'[v] = truncater[v]
               /\ frag'[v] = frag[v] /\ dir'[v] = dir[v],
             \A j \in Jobs : uploaded[j] = "good" => uploaded'[j] = "good",
             MadeOK(w)', CompletedIsWhole'
      PROVE  MadeInv'
  BY <1>1, <1>3, <1>4, OthersMade DEF MadeInv
<1> USE DEF TypeInv, TypeOK, MadeOK, CompletedIsWhole, UploadedStages
<1>5. CASE CreateFails(w)
  BY <1>1, <1>2, <1>4, <1>5 DEF CreateFails
<1>6. CASE CreatePendingJob(w)
  BY <1>1, <1>2, <1>4, <1>6 DEF CreatePendingJob
<1>7. CASE MarkProcessing(w) \/ MarkFailed(w)
  BY <1>1, <1>2, <1>4, <1>7 DEF MarkProcessing, MarkFailed, UpdateStatus
<1>8. CASE MarkCompleted(w)
  BY <1>1, <1>2, <1>4, <1>8 DEF MarkCompleted, UpdateStatus
<1>9. CASE NewVideoService(w)
  BY <1>1, <1>2, <1>4, <1>9 DEF NewVideoService
<1>10. CASE CreateMp4(w)
  BY <1>1, <1>2, <1>4, <1>10 DEF CreateMp4
<1>11. CASE Download(w)
  <2>1. mp4' = [mp4 EXCEPT ![video[w]] = "good"]
    BY <1>1, <1>11 DEF Download
  <2>2. QED
    BY <1>1, <1>2, <1>4, <1>11, <2>1 DEF Download
<1>12. CASE Mkdir(w)
  BY <1>1, <1>2, <1>4, <1>12 DEF Mkdir
<1>13. CASE Fragment(w)
  BY <1>1, <1>2, <1>4, <1>13 DEF Fragment
<1>14. CASE Encode(w)
  BY <1>1, <1>2, <1>4, <1>14 DEF Encode
<1>15. CASE Upload(w)
  BY <1>1, <1>2, <1>4, <1>15 DEF Upload, JobHeld
<1>16. CASE StageFails(w)
  BY <1>1, <1>2, <1>4, <1>16 DEF StageFails
<1>17. CASE RemoveMp4(w)
  BY <1>1, <1>2, <1>4, <1>17 DEF RemoveMp4
<1>18. CASE RemoveFrag(w)
  BY <1>1, <1>2, <1>4, <1>18 DEF RemoveFrag
<1>19. CASE RemoveDir(w)
  BY <1>1, <1>2, <1>4, <1>19 DEF RemoveDir
<1>20. CASE Report(w)
  BY <1>1, <1>2, <1>4, <1>20 DEF Report
<1>21. QED
  BY <1>5, <1>6, <1>7, <1>8, <1>9, <1>10, <1>11, <1>12, <1>13, <1>14, <1>15, <1>16, <1>17,
     <1>18, <1>19, <1>20 DEF Attempt

LEMMA MadeStep == IInv /\ OneAttemptPerVideo /\ MadeInv /\ [Next]_vars => MadeInv'
<1> SUFFICES ASSUME IInv, OneAttemptPerVideo, MadeInv, [Next]_vars PROVE MadeInv'
  OBVIOUS
<1> USE DEF MadeInv, CompletedIsWhole, Goto, jobVars, dbVars, fileVars, envVars
<1>1. ASSUME NEW w \in Workers, NEW v \in Videos, Receive(w, v) PROVE MadeInv'
  BY <1>1 DEF Receive, MadeOK, UploadedStages, IInv, TypeInv, TypeOK
<1>2. CASE Crash
  BY <1>2 DEF Crash, MadeOK, UploadedStages
<1>3. CASE Waiting \/ UNCHANGED vars
  BY <1>3 DEF Waiting, vars, MadeOK, UploadedStages
<1>4. QED
  BY <1>1, <1>2, <1>3, AttemptMade DEF Next

(* The README's "download, encode, upload OK" is true as long as no two    *)
(* workers ever hold messages for one video, whatever earlier attempts,    *)
(* crashes and database errors have left behind.                           *)
THEOREM UndisturbedJobsAreWhole ==
  Spec /\ []OneAttemptPerVideo => []CompletedIsWhole
<1>1. MadeInv => CompletedIsWhole
  BY DEF MadeInv
<1>2. QED
  BY <1>1, InitMade, MadeStep, Invariance, PTL DEF Spec

(* So it is with CONCURRENCY_WORKERS=1.                                    *)
THEOREM OneWorkerCompletesWholeJobs ==
  ASSUME \A u, w \in Workers : u = w
  PROVE  Spec => []CompletedIsWhole
<1>1. OneAttemptPerVideo
  BY DEF OneAttemptPerVideo
<1>2. QED
  BY <1>1, UndisturbedJobsAreWhole, PTL

-----------------------------------------------------------------------------
(* What is left of <video>/ after an attempt.                              *)

(* An attempt that has made the directory also removes it: no crash, no    *)
(* failure of Fragment after its Mkdir, of Encode or of the upload, and a  *)
(* RemoveAll that works.                                                   *)
AttemptsTidyUp ==
  /\ ~Crash
  /\ \A w \in Workers : /\ StageFails(w) => pc[w] \notin DirStages
                        /\ RemoveDir(w) => dir'[video[w]] = "absent"

(* A directory that is there belongs to an attempt under way.              *)
DirInUse ==
  \A v \in Videos : dir[v] # "absent" => \E w \in Workers : pc[w] \in DirStages /\ video[w] = v

LEMMA TidyAttempt ==
  ASSUME IInv, DirInUse, AttemptsTidyUp, NEW w \in Workers, Attempt(w)
  PROVE  DirInUse'
<1> USE DEF Goto, jobVars, dbVars, fileVars, envVars
<1>1. TypeInv
  BY DEF IInv
<1>2. video[w] \in Videos /\ pc[w] # "idle"
  BY <1>1 DEF TypeInv, BusyHasVideo, Attempt, CreateFails, CreatePendingJob, MarkProcessing,
              MarkCompleted, MarkFailed, NewVideoService, CreateMp4, Download, Mkdir, Fragment,
              Encode, Upload, StageFails, MediaStages, RemoveMp4, RemoveFrag, RemoveDir, Report
<1>3. ASSUME \A u \in Workers \ {w} : pc'[u] = pc[u] /\ video'[u] = video[u],
             \A v \in Videos : v # video[w] => dir'[v] = dir[v],
             \/ pc'[w] \in DirStages /\ video'[w] = video[w]
             \/ dir'[video[w]] = "absent"
             \/ pc[w] \notin DirStages /\ dir'[video[w]] = dir[video[w]]
      PROVE  DirInUse'
  <2> SUFFICES ASSUME NEW v \in Videos, dir'[v] # "absent"
               PROVE  \E u \in Workers : pc'[u] \in DirStages /\ video'[u] = v
    BY DEF DirInUse
  <2>1. CASE v = video[w] /\ pc'[w] \in DirStages /\ video'[w] = video[w]
    BY <2>1
  <2>2. CASE v # video[w] \/ (pc[w] \notin DirStages /\ dir'[v] = dir[v])
    <3>1. PICK u \in Workers : pc[u] \in DirStages /\ video[u] = v
      BY <1>3, <2>2 DEF DirInUse
    <3>2. u # w
      BY <2>2, <3>1
    <3>3. QED
      BY <1>3, <3>1, <3>2
  <2>3. QED
    BY <1>3, <2>1, <2>2
<1> USE DEF TypeInv, TypeOK, DirStages
<1>4. CASE CreateFails(w) \/ CreatePendingJob(w) \/ Report(w)
  BY <1>1, <1>2, <1>3, <1>4 DEF CreateFails, CreatePendingJob, Report
<1>5. CASE MarkProcessing(w) \/ MarkCompleted(w) \/ MarkFailed(w)
  BY <1>1, <1>2, <1>3, <1>5 DEF MarkProcessing, MarkCompleted, MarkFailed, UpdateStatus
<1>6. CASE NewVideoService(w) \/ CreateMp4(w) \/ Download(w)
  BY <1>1, <1>2, <1>3, <1>6 DEF NewVideoService, CreateMp4, Download
<1>7. CASE Mkdir(w) \/ Fragment(w) \/ Encode(w) \/ Upload(w)
  BY <1>1, <1>2, <1>3, <1>7 DEF Mkdir, Fragment, Encode, Upload
<1>8. CASE StageFails(w)
  BY <1>1, <1>2, <1>3, <1>8 DEF StageFails, AttemptsTidyUp
<1>9. CASE RemoveMp4(w) \/ RemoveFrag(w)
  BY <1>1, <1>2, <1>3, <1>9 DEF RemoveMp4, RemoveFrag
<1>10. CASE RemoveDir(w)
  BY <1>1, <1>2, <1>3, <1>10 DEF RemoveDir, AttemptsTidyUp
<1>11. QED
  BY <1>4, <1>5, <1>6, <1>7, <1>8, <1>9, <1>10 DEF Attempt

LEMMA TidyStep == IInv /\ DirInUse /\ [Next]_vars /\ [AttemptsTidyUp]_vars => DirInUse'
<1> SUFFICES ASSUME IInv, DirInUse, [Next]_vars, [AttemptsTidyUp]_vars PROVE DirInUse'
  OBVIOUS
<1>1. CASE UNCHANGED vars
  BY <1>1 DEF vars, fileVars, jobVars, DirInUse
<1>2. ASSUME NEW w \in Workers, NEW v \in Videos, Receive(w, v) PROVE DirInUse'
  BY <1>2 DEF Receive, Goto, fileVars, DirInUse, DirStages, IInv, TypeInv, TypeOK
<1>3. CASE Waiting
  BY <1>1, <1>3 DEF Waiting
<1>4. QED
  BY <1>1, <1>2, <1>3, TidyAttempt DEF Next, AttemptsTidyUp

(* A redelivered job runs as the README says unless an attempt at the      *)
(* video has been killed, has failed after Mkdir or could not remove its   *)
(* directory: nothing else makes Fragment refuse to run.                   *)
THEOREM TidyAttemptsMayBeRepeated ==
  Spec /\ [][AttemptsTidyUp]_vars => []RedeliveryCanProceed
<1>1. Init => DirInUse
  BY DEF Init, DirInUse
<1>2. IInv /\ DirInUse => RedeliveryCanProceed
  <2> SUFFICES ASSUME IInv, DirInUse, NEW w \in Workers, pc[w] = "mkdir",
                      \A u \in Workers \ {w} : video[u] # video[w], dir[video[w]] # "absent"
               PROVE  FALSE
    BY DEF RedeliveryCanProceed
  <2>1. video[w] \in Videos
    BY DEF IInv, TypeInv, BusyHasVideo
  <2>2. PICK u \in Workers : pc[u] \in DirStages /\ video[u] = video[w]
    BY <2>1 DEF DirInUse
  <2>3. QED
    BY <2>2 DEF DirStages
<1>3. QED
  BY <1>1, <1>2, TidyStep, Invariance, PTL DEF Spec
=============================================================================
