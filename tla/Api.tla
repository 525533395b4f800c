--------------------------------- MODULE Api ---------------------------------
(***************************************************************************)
(* The HTTP API (internal/api) over the videos and jobs tables             *)
(* (internal/repositories): concurrent handlers register videos, enqueue   *)
(* jobs and show their status while workers move the rows.  A worker is    *)
(* seen as JobLifecycle, which Pipeline implements; the publisher by its   *)
(* outcome, which Publisher describes.                                     *)
(*                                                                         *)
(* What a request holds, and its id, are reduced to the classes the checks *)
(* tell apart.  A "urn" id (urn:uuid:...) is one uuid.FromString accepts   *)
(* and Postgres does not.                                                  *)
(***************************************************************************)
EXTENDS Naturals

CONSTANTS
  Handlers,  \* requests in progress at once
  Videos,    \* video ids that may be drawn
  Jobs,      \* job ids that may be drawn
  None       \* no video, no id

BadIds == {"malformed", "urn"}

(* Ids are UUIDs, unique over both tables.                                 *)
ASSUME IdsAssumption ==
  /\ Videos \cap Jobs = {}
  /\ (Videos \cup Jobs) \cap (BadIds \cup {None}) = {}

VARIABLES
  videos,     \* videos table: the ids
  status,     \* jobs table: the status column
  owner,      \* jobs table: the video_id column
  published,  \* videos a message has been queued for
  handler,    \* what every handler is doing: see Idle
  announced,  \* history: ids that answers have named
  shown       \* history: the furthest status of a job an answer has shown

dbVars == <<videos, status, owner>>
clientVars == <<announced, shown>>
vars == <<dbVars, published, handler, clientVars>>

(* A body that is too large, or is not one JSON object of the right kind;  *)
(* or its fields: blank, longer than their column, with a null byte.       *)
Contents == {"ok", "large", "unreadable", "blank", "long", "nul"}

Requests ==
  [kind : {"createVideo"}, content : Contents, id : {None}]
  \cup [kind : {"createJob"}, content : Contents, id : Videos \cup BadIds]
  \cup [kind : {"getVideo"}, content : {"ok"}, id : Videos \cup BadIds]
  \cup [kind : {"getJob"}, content : {"ok"}, id : Jobs \cup BadIds]

Nothing == [kind |-> "none", content |-> "ok", id |-> None]

(* A handler without a request.  Of one with a request: its next step, the *)
(* job rows it has read, the code of its answer and the video it names;    *)
(* and, as history, whether a database call has failed and its message was *)
(* queued, and what earlier answers had named and shown when it began.     *)
Idle ==
  [pc |-> "idle", req |-> Nothing, seen |-> {}, code |-> 0, created |-> None,
   trouble |-> FALSE, queued |-> FALSE, known |-> {}, floor |-> [j \in Jobs |-> "none"]]

Init ==
  /\ videos = {}
  /\ status = [j \in Jobs |-> "none"]
  /\ owner = [j \in Jobs |-> None]
  /\ published = {}
  /\ handler = [h \in Handlers |-> Idle]
  /\ announced = {}
  /\ shown = [j \in Jobs |-> "none"]

-----------------------------------------------------------------------------
(* The workers, as the tables see them.                                    *)

Worker == INSTANCE JobLifecycle

(* A message may be delivered more than once; every attempt at it inserts  *)
(* a row, if it finds the video.                                           *)
CreatePendingJob(j, v) ==
  /\ v \in published \cap videos
  /\ Worker!Consume(j)
  /\ owner' = [owner EXCEPT ![j] = v]
  /\ UNCHANGED <<videos, published, handler, clientVars>>

UpdateStatus(j) ==
  /\ Worker!PickUp(j) \/ Worker!Complete(j) \/ Worker!Fail(j)
  /\ UNCHANGED <<videos, owner, published, handler, clientVars>>

-----------------------------------------------------------------------------
(* The handlers.                                                           *)

At(h, step) == handler[h].pc = step

(* The request whose statements handler h sends, and its class.            *)
Req(h) == handler[h].req

Goto(h, step) ==
  /\ handler' = [handler EXCEPT ![h].pc = step]
  /\ UNCHANGED clientVars

(* How far a job has come.                                                 *)
Rank(s) ==
  CASE s = "none" -> 0 [] s = "Pending" -> 1 [] s = "Processing" -> 2 [] OTHER -> 3

(* Before: a job may be seen as s first and as t later.                    *)
Before(s, t) == s = t \/ Rank(s) < Rank(t)

(* The handler answers.  It names the video v and shows rows, which is     *)
(* what clients know from now on.                                          *)
Answer(h, c, v, rows) ==
  /\ handler' = [handler EXCEPT ![h] =
       [@ EXCEPT !.pc = "answered", !.code = c, !.created = v, !.seen = rows]]
  /\ announced' = announced \cup ({v} \ {None}) \cup {row.id : row \in rows}
  /\ shown' = [j \in Jobs |->
       LET news == {row \in rows : row.id = j /\ Rank(row.status) > Rank(shown[j])} IN
       IF news = {} THEN shown[j] ELSE (CHOOSE row \in news : TRUE).status]

AnswerError(h, c) == Answer(h, c, None, {})

Request(h, r) ==
  /\ At(h, "idle")
  /\ handler' = [handler EXCEPT ![h] =
       [@ EXCEPT !.pc = IF r.kind \in {"createVideo", "createJob"} THEN "read" ELSE "check",
                 !.req = r, !.known = announced, !.floor = shown]]
  /\ UNCHANGED <<dbVars, published, clientVars>>

readJSON(h) ==
  /\ At(h, "read")
  /\ CASE Req(h).content = "large" -> AnswerError(h, 413)
       [] Req(h).content = "unreadable" -> AnswerError(h, 400)
       [] OTHER -> Goto(h, "check")
  /\ UNCHANGED <<dbVars, published>>

validUUID(id) == id # "malformed"

(* Wrong on purpose: null bytes are not looked for.                        *)
ValidButNUL(r) == r.content \in {"ok", "nul"} /\ validUUID(r.id)

(* Blank fields, fields a column is too short for, null bytes and ids that *)
(* are not UUIDs are refused before they reach the database.               *)
Valid(r) == r.content = "ok" /\ validUUID(r.id)

Validate(h) ==
  /\ At(h, "check")
  /\ IF ~Valid(Req(h)) THEN AnswerError(h, 400)
     ELSE Goto(h, IF Req(h).kind = "createVideo" THEN "insert" ELSE "find")
  /\ UNCHANGED <<dbVars, published>>

(* What Postgres can put into a column, or compare with one.               *)
Storable(r) == r.content \notin {"long", "nul"} /\ r.id # "urn"

(* Wrong on purpose: no id is generated for the new video.                 *)
InsertWithoutId(h) ==
  /\ At(h, "insert")
  /\ Storable(Req(h))
  /\ videos' = videos \cup {None}
  /\ Answer(h, 201, None, {})
  /\ UNCHANGED <<status, owner, published>>

(* VideoRepositoryDb.Insert, under a new id.                               *)
Insert(h) ==
  /\ At(h, "insert")
  /\ Storable(Req(h))
  /\ \E v \in Videos \ videos : videos' = videos \cup {v} /\ Answer(h, 201, v, {})
  /\ UNCHANGED <<status, owner, published>>

(* The rows of the jobs table with these ids.                              *)
Rows(js) == {[id |-> j, status |-> status[j]] : j \in {j \in js : status[j] # "none"}}

(* Wrong on purpose: only the read endpoints ask whether Find has found.   *)
FindRowLenient(h) ==
  LET id == Req(h).id
      rows == Rows({id} \cap Jobs)
  IN
  /\ At(h, "find")
  /\ Storable(Req(h))
  /\ IF id \in videos \/ rows # {} \/ Req(h).kind = "createJob"
       THEN /\ handler' = [handler EXCEPT ![h] = [@ EXCEPT !.pc = "preload", !.seen = rows]]
            /\ UNCHANGED clientVars
       ELSE AnswerError(h, 404)
  /\ UNCHANGED <<dbVars, published>>

(* Find's first query: the row itself.                                     *)
FindRow(h) ==
  LET id == Req(h).id
      rows == Rows({id} \cap Jobs)
  IN
  /\ At(h, "find")
  /\ Storable(Req(h))
  /\ IF id \in videos \/ rows # {}
       THEN /\ handler' = [handler EXCEPT ![h] = [@ EXCEPT !.pc = "preload", !.seen = rows]]
            /\ UNCHANGED clientVars
       ELSE AnswerError(h, 404)
  /\ UNCHANGED <<dbVars, published>>

(* Find's second query, Preload: the jobs of a video, the video of a job.  *)
(* The read endpoints then answer, POST /jobs goes on to publish.          *)
Preload(h) ==
  /\ At(h, "preload")
  /\ CASE Req(h).kind = "getVideo" ->
            Answer(h, 200, Req(h).id, Rows({j \in Jobs : owner[j] = Req(h).id}))
       [] Req(h).kind = "getJob" -> Answer(h, 200, owner[Req(h).id], handler[h].seen)
       [] OTHER -> Goto(h, "publish")
  /\ UNCHANGED <<dbVars, published>>

Troubled(h) ==
  handler' = [handler EXCEPT ![h] =
    [@ EXCEPT !.pc = "answered", !.code = 500, !.trouble = Storable(Req(h))]]

(* Wrong on purpose: the error of Insert is not looked at.                 *)
DbFailsUnnoticed(h) ==
  \/ /\ At(h, "insert")
     /\ \E v \in Videos \ videos : Answer(h, 201, v, {})
     /\ UNCHANGED <<dbVars, published>>
  \/ /\ At(h, "find") \/ At(h, "preload")
     /\ Troubled(h)
     /\ UNCHANGED <<dbVars, published, clientVars>>

(* The database refuses the statement, or fails: an Insert before or after *)
(* its commit.                                                             *)
DbFails(h) ==
  /\ \/ At(h, "find") \/ At(h, "preload") \/ At(h, "insert")
  /\ Troubled(h)
  /\ \/ UNCHANGED videos
     \/ /\ At(h, "insert") /\ Storable(Req(h))
        /\ \E v \in Videos \ videos : videos' = videos \cup {v}
  /\ UNCHANGED <<status, owner, published, clientVars>>

(* The message of h is queued or not, and the answer is c.                 *)
Published(h, q, c) ==
  /\ At(h, "publish")
  /\ handler' = [handler EXCEPT ![h] = [@ EXCEPT !.pc = "answered", !.code = c, !.queued = q]]
  /\ published' = IF q THEN published \cup {Req(h).id} ELSE published
  /\ UNCHANGED <<dbVars, clientVars>>

(* PublishJSON reports an error only for a message that was not queued,    *)
(* and may lose one it reports no error for: see Publisher.                *)
Publish(h) == \E q \in BOOLEAN, c \in {202, 502} : (q => c = 202) /\ Published(h, q, c)

(* The connection is free for the next request.                            *)
Finish(h) ==
  /\ At(h, "answered")
  /\ handler' = [handler EXCEPT ![h] = Idle]
  /\ UNCHANGED <<dbVars, published, clientVars>>

-----------------------------------------------------------------------------

Handle(h) ==
  \/ readJSON(h) \/ Validate(h) \/ Insert(h) \/ FindRow(h) \/ Preload(h)
  \/ DbFails(h) \/ Publish(h) \/ Finish(h)

Next ==
  \/ \E j \in Jobs, v \in Videos : CreatePendingJob(j, v)
  \/ \E j \in Jobs : UpdateStatus(j)
  \/ \E h \in Handlers, r \in Requests : Request(h, r)
  \/ \E h \in Handlers : Handle(h)

Spec == Init /\ [][Next]_vars

-----------------------------------------------------------------------------
(* Properties.                                                             *)

Statuses == {"none", "Pending", "Processing", "Completed", "Failed"}

HandlerStates ==
  [pc : {"idle", "read", "check", "insert", "find", "preload", "publish", "answered"},
   req : Requests \cup {Nothing},
   seen : SUBSET [id : Jobs, status : Statuses],
   code : {0, 200, 201, 202, 400, 404, 413, 500, 502},
   created : Videos \cup {None},
   trouble : BOOLEAN,
   queued : BOOLEAN,
   known : SUBSET (Videos \cup Jobs),
   floor : [Jobs -> Statuses]]

(* Every variable has its type; a job's row belongs to a registered video. *)
TypeOK ==
  /\ videos \subseteq Videos
  /\ status \in [Jobs -> Statuses]
  /\ owner \in [Jobs -> Videos \cup {None}]
  /\ \A j \in Jobs : IF status[j] = "none" THEN owner[j] = None ELSE owner[j] \in videos
  /\ published \subseteq Videos
  /\ announced \subseteq Videos \cup Jobs
  /\ shown \in [Jobs -> Statuses]
  /\ handler \in [Handlers -> HandlerStates]

(* "Reject early if the referenced video does not exist, instead of        *)
(* letting the message fail later and dead-letter" (handleCreateJob): the  *)
(* worker finds the video and the fields of every message ever queued, and *)
(* whoever is answered with an error has queued none.                      *)
QueuedCanStart ==
  /\ published \subseteq videos
  /\ \A h \in Handlers :
       handler[h].queued => handler[h].code = 202 /\ Req(h).content = "ok"

(* "A malformed id is a client error (400) rather than a lookup that would *)
(* surface as a database error" (validUUID, containsNUL, maxFieldLen): 500 *)
(* is answered only when the database has failed.  Except for the urn form *)
(* of a UUID, which validUUID lets through.                                *)
InternalErrorNeedsFault ==
  \A h \in Handlers :
    (handler[h].code = 500 /\ Req(h).id # "urn") => handler[h].trouble

(* Read your writes: an id that any answer has named is never answered     *)
(* with 404 by a request that begins later, on whatever connection         *)
(* (the commit comes before the 201, a job's row before it is shown).      *)
NamedIsFound ==
  \A h \in Handlers : handler[h].code = 404 => Req(h).id \notin handler[h].known

(* Monotonic reads: a job's status never goes back from what GET /jobs or  *)
(* GET /videos has shown before the request began, while workers update    *)
(* the row between the statements of the handlers.                         *)
StatusNeverGoesBack ==
  \A h \in Handlers :
    (handler[h].code = 200 /\ Req(h).kind \in {"getVideo", "getJob"}) =>
      \A row \in handler[h].seen : Before(handler[h].floor[row.id], row.status)

=============================================================================
