------------------------------ MODULE ApiProofs ------------------------------
(***************************************************************************)
(* Proofs about Api, for any number of handlers, videos and jobs: what the *)
(* answers promise while other handlers and the workers change the tables. *)
(***************************************************************************)
EXTENDS Api, TLAPS

USE IdsAssumption

-----------------------------------------------------------------------------
(* The inductive invariant.                                                *)

Named == videos \cup {j \in Jobs : status[j] # "none"}

(* How far a request has been checked at each of its steps.                *)
Checked(h) ==
  LET pc == handler[h].pc IN
  /\ pc # "answered" => handler[h].code = 0 /\ ~handler[h].queued
  /\ pc \notin {"preload", "publish", "answered"} => handler[h].seen = {}
  /\ pc \in {"read", "check"} => Req(h).kind # "none"
  /\ pc = "read" => Req(h).kind \in {"createVideo", "createJob"}
  /\ pc = "insert" => Req(h).kind = "createVideo"
  /\ pc \in {"find", "preload", "publish"} => Req(h).kind \in {"createJob", "getVideo", "getJob"}
  /\ pc \in {"insert", "find", "preload", "publish"} => Valid(Req(h))
  /\ pc = "preload" => Req(h).id \in Named
  /\ pc = "publish" => Req(h).kind = "createJob" /\ Req(h).id \in videos

(* The rows a handler holds lie between what clients had been shown when   *)
(* its request began and what the table says now.                          *)
RowsCurrent(h) ==
  \A row \in handler[h].seen :
    /\ status[row.id] # "none"
    /\ Before(handler[h].floor[row.id], row.status)
    /\ Before(row.status, status[row.id])

(* What a request found when it began is history.                          *)
BegunBefore(h) ==
  /\ handler[h].known \subseteq announced
  /\ \A j \in Jobs : Before(handler[h].floor[j], shown[j])

AnswerRight(h) ==
  /\ handler[h].queued => handler[h].code = 202 /\ Req(h).content = "ok"
  /\ (handler[h].code = 500 /\ Req(h).id # "urn") => handler[h].trouble
  /\ handler[h].code = 404 => Req(h).id \notin handler[h].known

HandlerInv(h) == Checked(h) /\ RowsCurrent(h) /\ BegunBefore(h) /\ AnswerRight(h)

TablesInv ==
  /\ published \subseteq videos
  /\ announced \subseteq Named
  /\ \A j \in Jobs : Before(shown[j], status[j])

IInv == TypeOK /\ TablesInv /\ \A h \in Handlers : HandlerInv(h)

-----------------------------------------------------------------------------
(* Statuses are seen in order.                                             *)

LEMMA BeforeOrder ==
  ASSUME NEW r, NEW s, NEW t
  PROVE  /\ Before(s, s)
         /\ Before(r, s) /\ Before(s, t) => Before(r, t)
         /\ Before("none", s)
         /\ Before(s, "none") => s = "none"
BY DEF Before, Rank

-----------------------------------------------------------------------------
(* What every step does to the tables and to what clients know: it adds.   *)

Advances ==
  /\ videos \subseteq videos' /\ announced \subseteq announced'
  /\ \A j \in Jobs : Before(status[j], status'[j]) /\ Before(shown[j], shown'[j])

LEMMA NamedStays == TypeOK /\ Advances => Named \subseteq Named'
BY BeforeOrder DEF Advances, Named

(* A handler that does not move keeps its invariant.                       *)
LEMMA HandlerStays ==
  ASSUME TypeOK, Advances, NEW g \in Handlers, handler'[g] = handler[g], HandlerInv(g)
  PROVE  HandlerInv(g)'
<1>1. Checked(g)'
  BY NamedStays DEF HandlerInv, Checked, Req, Advances
<1>2. \A row \in handler[g].seen : row.id \in Jobs
  BY DEF TypeOK, HandlerStates
<1>3. RowsCurrent(g)'
  BY <1>2, BeforeOrder DEF HandlerInv, RowsCurrent, Advances
<1>4. BegunBefore(g)'
  BY BeforeOrder DEF HandlerInv, BegunBefore, Advances
<1>5. AnswerRight(g)'
  BY DEF HandlerInv, AnswerRight, Req
<1>6. QED
  BY <1>1, <1>3, <1>4, <1>5 DEF HandlerInv

(* Requests by their kind.                                                 *)
LEMMA RequestKinds ==
  ASSUME NEW r \in Requests \cup {Nothing}
  PROVE  /\ r.kind \in {"none", "createVideo", "createJob", "getVideo", "getJob"}
         /\ r.kind \in {"createJob", "getVideo"} => r.id \in Videos \cup BadIds
         /\ r.kind = "getJob" => r.id \in Jobs \cup BadIds
         /\ r.kind = "none" => r = Nothing
BY DEF Requests, Nothing

Answered(h, c, v, rows) ==
  /\ handler' = [handler EXCEPT ![h] =
       [handler[h] EXCEPT !.pc = "answered", !.code = c, !.created = v, !.seen = rows]]
  /\ handler' \in [Handlers -> HandlerStates]
  /\ announced' \subseteq (Videos \cup Jobs) \cap Named'
  /\ shown' \in [Jobs -> Statuses]
  /\ \A j \in Jobs : Before(shown'[j], status[j])
  /\ Advances

(* A handler answers with what the tables hold, or held when it read them. *)
LEMMA AnswerStep ==
  ASSUME TypeOK, TablesInv, NEW h \in Handlers,
         NEW c \in {200, 201, 400, 404, 413}, NEW v \in Videos \cup {None},
         NEW rows \in SUBSET [id : Jobs, status : Statuses], Answer(h, c, v, rows),
         videos \subseteq videos', status' = status, v = None \/ v \in videos',
         \A row \in rows : status[row.id] # "none" /\ Before(row.status, status[row.id])
  PROVE  Answered(h, c, v, rows)
<1> DEFINE new == [handler[h] EXCEPT !.pc = "answered", !.code = c, !.created = v, !.seen = rows]
<1>1. handler' = [handler EXCEPT ![h] = new]
  BY DEF Answer, TypeOK
<1>2. handler[h] \in HandlerStates
  BY DEF TypeOK
<1>3. new \in HandlerStates
  <2> DEFINE a1 == [handler[h] EXCEPT !.pc = "answered"]
             a2 == [a1 EXCEPT !.code = c]
             a3 == [a2 EXCEPT !.created = v]
             a4 == [a3 EXCEPT !.seen = rows]
  <2>1. a4 = new
    OBVIOUS
  <2> HIDE DEF new
  <2>2. a1 \in HandlerStates
    BY <1>2 DEF HandlerStates
  <2> HIDE DEF a1
  <2>3. a2 \in HandlerStates
    BY <2>2 DEF HandlerStates
  <2> HIDE DEF a2
  <2>4. a3 \in HandlerStates
    BY <2>3 DEF HandlerStates
  <2> HIDE DEF a3
  <2>5. a4 \in HandlerStates
    BY <2>4 DEF HandlerStates
  <2>6. QED
    BY <2>1, <2>5
<1>4. announced \subseteq announced' /\ announced' \subseteq (Videos \cup Jobs) \cap Named'
  BY DEF Answer, TypeOK, TablesInv, Named
<1>5. ASSUME NEW j \in Jobs
      PROVE  /\ shown'[j] \in Statuses
             /\ Before(shown[j], shown'[j]) /\ Before(shown'[j], status[j])
  <2> DEFINE news == {row \in rows : row.id = j /\ Rank(row.status) > Rank(shown[j])}
  <2>1. shown'[j] = IF news = {} THEN shown[j] ELSE (CHOOSE row \in news : TRUE).status
    BY DEF Answer
  <2>2. CASE news = {}
    BY <2>1, <2>2, BeforeOrder DEF TypeOK, TablesInv
  <2>3. CASE news # {}
    <3> DEFINE row == CHOOSE x \in news : TRUE
    <3>1. row \in news /\ shown'[j] = row.status
      <4> HIDE DEF news
      <4>1. QED
        BY <2>1, <2>3
    <3> HIDE DEF row
    <3>2. row \in rows /\ row.id = j /\ Rank(row.status) > Rank(shown[j]) /\ row.status \in Statuses
      BY <3>1
    <3>3. Rank(shown[j]) < Rank(row.status)
      BY <3>2 DEF Rank
    <3>4. QED
      BY <3>1, <3>2, <3>3 DEF Before
  <2>4. QED
    BY <2>2, <2>3
<1>6. shown' \in [Jobs -> Statuses]
  BY <1>5 DEF Answer
<1>7. QED
  BY <1>1, <1>2, <1>3, <1>4, <1>5, <1>6, BeforeOrder DEF Answered, Advances, TypeOK

-----------------------------------------------------------------------------
(* The invariant is inductive.                                             *)

(* A step that moves one handler need be looked at for that handler only.  *)
LEMMA OneMoves ==
  ASSUME IInv, Advances, TypeOK', TablesInv', NEW h \in Handlers, HandlerInv(h)',
         \A g \in Handlers \ {h} : handler'[g] = handler[g]
  PROVE  IInv'
BY HandlerStays DEF IInv

LEMMA NoneMoves ==
  ASSUME IInv, Advances, TypeOK', TablesInv', handler' = handler
  PROVE  IInv'
BY HandlerStays DEF IInv

LEMMA Still == UNCHANGED <<videos, status, announced, shown>> => Advances
BY BeforeOrder DEF Advances

(* A handler answers what it was asked.                                    *)
LEMMA AnswerKeeps ==
  ASSUME IInv, NEW h \in Handlers, handler[h].pc # "answered",
         NEW c \in {200, 201, 400, 404, 413}, NEW v \in Videos \cup {None},
         NEW rows \in SUBSET [id : Jobs, status : Statuses], Answer(h, c, v, rows),
         videos \subseteq videos', videos' \subseteq Videos, UNCHANGED <<status, owner, published>>,
         v = None \/ v \in videos',
         \A row \in rows : /\ status[row.id] # "none" /\ Before(row.status, status[row.id])
                           /\ Before(handler[h].floor[row.id], row.status),
         c = 404 => Req(h).id \notin Named
  PROVE  IInv'
<1>0. TypeOK /\ TablesInv /\ HandlerInv(h)
  BY DEF IInv
<1>1. Answered(h, c, v, rows)
  <2>1. status' = status /\ \A row \in rows : status[row.id] # "none" /\ Before(row.status, status[row.id])
    OBVIOUS
  <2>2. QED
    BY <1>0, <2>1, AnswerStep
<1>2. TypeOK'
  BY <1>0, <1>1 DEF Answered, TypeOK
<1>3. TablesInv'
  BY <1>0, <1>1 DEF Answered, TablesInv
<1>4. /\ handler'[h].pc = "answered" /\ handler'[h].code = c /\ handler'[h].seen = rows
      /\ handler'[h].req = handler[h].req /\ handler'[h].queued = handler[h].queued
      /\ handler'[h].trouble = handler[h].trouble /\ handler'[h].known = handler[h].known
      /\ handler'[h].floor = handler[h].floor
      /\ \A g \in Handlers \ {h} : handler'[g] = handler[g]
  BY <1>0, <1>1 DEF Answered, TypeOK, HandlerStates
<1>5. Checked(h)'
  BY <1>4 DEF Checked
<1>6. RowsCurrent(h)'
  BY <1>4 DEF RowsCurrent
<1>7. BegunBefore(h)'
  BY <1>0, <1>1, <1>4, BeforeOrder DEF Answered, HandlerInv, BegunBefore, Advances
<1>8. AnswerRight(h)'
  BY <1>0, <1>4 DEF HandlerInv, Checked, BegunBefore, TablesInv, AnswerRight, Req
<1>9. QED
  BY <1>1, <1>2, <1>3, <1>4, <1>5, <1>6, <1>7, <1>8, OneMoves DEF Answered, HandlerInv

(* A handler goes on to a step whose precondition holds.                   *)
LEMMA GotoKeeps ==
  ASSUME IInv, NEW h \in Handlers, handler[h].pc # "answered",
         NEW step \in {"check", "insert", "find", "publish"}, Goto(h, step),
         UNCHANGED <<dbVars, published>>,
         step = "check" => handler[h].pc = "read",
         step \in {"insert", "find"} => handler[h].pc = "check" /\ Valid(Req(h)),
         step = "insert" => Req(h).kind = "createVideo",
         step = "find" => Req(h).kind # "createVideo",
         step = "publish" => handler[h].pc = "preload" /\ Req(h).kind = "createJob"
  PROVE  IInv'
<1>0. TypeOK /\ TablesInv /\ HandlerInv(h)
  BY DEF IInv
<1>1. handler' = [handler EXCEPT ![h] = [handler[h] EXCEPT !.pc = step]]
  BY <1>0 DEF Goto, TypeOK
<1>2. handler[h] \in HandlerStates
  BY <1>0 DEF TypeOK
<1>3. [handler[h] EXCEPT !.pc = step] \in HandlerStates
  BY <1>2 DEF HandlerStates
<1>4. /\ handler'[h].pc = step /\ handler'[h].code = handler[h].code
      /\ handler'[h].seen = handler[h].seen
      /\ handler'[h].req = handler[h].req /\ handler'[h].queued = handler[h].queued
      /\ handler'[h].trouble = handler[h].trouble /\ handler'[h].known = handler[h].known
      /\ handler'[h].floor = handler[h].floor
      /\ \A g \in Handlers \ {h} : handler'[g] = handler[g]
  BY <1>0, <1>1 DEF TypeOK, HandlerStates
<1>5. UNCHANGED <<videos, status, owner, published, announced, shown>> /\ Advances
  BY Still DEF Goto, dbVars, clientVars
<1>6. TypeOK'
  BY <1>0, <1>1, <1>3, <1>5 DEF TypeOK
<1>7. TablesInv'
  BY <1>0, <1>5 DEF TablesInv, Named
<1>8. Checked(h)'
  <2>1. Req(h)' = Req(h) /\ Req(h) \in Requests \cup {Nothing}
    BY <1>2, <1>4 DEF Req, HandlerStates
  <2>2. step = "publish" => Req(h).id \in videos
    BY <1>0, <2>1, RequestKinds DEF HandlerInv, Checked, Named
  <2>3. Req(h).kind # "none" => Req(h).kind \in {"createVideo", "createJob", "getVideo", "getJob"}
    BY <2>1, RequestKinds
  <2>4. QED
    BY <1>0, <1>4, <1>5, <2>1, <2>2, <2>3 DEF HandlerInv, Checked
<1>9. RowsCurrent(h)' /\ BegunBefore(h)' /\ AnswerRight(h)'
  BY <1>0, <1>4, <1>5 DEF HandlerInv, RowsCurrent, BegunBefore, AnswerRight, Req
<1>10. QED
  BY <1>4, <1>5, <1>6, <1>7, <1>8, <1>9, OneMoves DEF HandlerInv

(* The fields of a handler that has moved, and the others as they were.    *)
Moved(h, new) ==
  /\ new \in HandlerStates
  /\ handler' = [handler EXCEPT ![h] = new]

LEMMA MovedKeeps ==
  ASSUME IInv, NEW h \in Handlers, NEW new, Moved(h, new), Advances, UNCHANGED <<owner, clientVars>>,
         videos' \subseteq Videos, published' \subseteq videos', UNCHANGED status,
         HandlerInv(h)'
  PROVE  IInv'
<1>1. TypeOK /\ TablesInv
  BY DEF IInv
<1>2. TypeOK'
  BY <1>1 DEF TypeOK, Moved, clientVars, Advances
<1>3. TablesInv'
  BY <1>1 DEF TablesInv, Named, clientVars, Advances
<1>4. \A g \in Handlers \ {h} : handler'[g] = handler[g]
  BY <1>1 DEF Moved, TypeOK
<1>5. QED
  BY <1>2, <1>3, <1>4, OneMoves

LEMMA RequestKeeps ==
  ASSUME IInv, NEW h \in Handlers, NEW r \in Requests, Request(h, r)
  PROVE  IInv'
<1> DEFINE p == IF r.kind \in {"createVideo", "createJob"} THEN "read" ELSE "check"
           new == [handler[h] EXCEPT !.pc = p, !.req = r, !.known = announced, !.floor = shown]
<1>0. TypeOK /\ TablesInv /\ HandlerInv(h) /\ handler[h] \in HandlerStates
  BY DEF IInv, TypeOK
<1>1. handler' = [handler EXCEPT ![h] = new] /\ handler[h].pc = "idle"
      /\ UNCHANGED <<dbVars, published, clientVars>>
  BY DEF Request, At
<1>2. new \in HandlerStates
  <2> DEFINE a1 == [handler[h] EXCEPT !.pc = p]
             a2 == [a1 EXCEPT !.req = r]
             a3 == [a2 EXCEPT !.known = announced]
             a4 == [a3 EXCEPT !.floor = shown]
  <2>1. a4 = new
    OBVIOUS
  <2> HIDE DEF new
  <2>2. p \in {"read", "check"} /\ announced \subseteq Videos \cup Jobs /\ shown \in [Jobs -> Statuses]
    BY <1>0 DEF TypeOK
  <2> HIDE DEF p
  <2>3. a1 \in HandlerStates
    BY <1>0, <2>2 DEF HandlerStates
  <2> HIDE DEF a1
  <2>4. a2 \in HandlerStates
    BY <2>3 DEF HandlerStates
  <2> HIDE DEF a2
  <2>5. a3 \in HandlerStates
    BY <2>2, <2>4 DEF HandlerStates
  <2> HIDE DEF a3
  <2>6. a4 \in HandlerStates
    BY <2>2, <2>5 DEF HandlerStates
  <2>7. QED
    BY <2>1, <2>6
<1>3. Advances /\ UNCHANGED <<videos, status, owner, published, announced, shown>>
  BY <1>1, Still DEF dbVars, clientVars
<1>4. /\ handler'[h].pc = p /\ handler'[h].req = r
      /\ handler'[h].known = announced /\ handler'[h].floor = shown
      /\ handler'[h].code = handler[h].code /\ handler'[h].seen = handler[h].seen
      /\ handler'[h].queued = handler[h].queued
  BY <1>0, <1>1 DEF TypeOK, HandlerStates
<1>5. Checked(h)'
  <2>1. r.kind \in {"createVideo", "createJob", "getVideo", "getJob"}
    BY DEF Requests
  <2>2. QED
    BY <1>0, <1>1, <1>4, <2>1 DEF HandlerInv, Checked, Req
<1>6. RowsCurrent(h)' /\ BegunBefore(h)' /\ AnswerRight(h)'
  <2>1. handler[h].seen = {} /\ handler[h].code = 0 /\ ~handler[h].queued
    BY <1>0, <1>1 DEF HandlerInv, Checked
  <2>2. QED
    BY <1>3, <1>4, <2>1, BeforeOrder DEF RowsCurrent, BegunBefore, AnswerRight
<1>7. QED
  BY <1>0, <1>1, <1>2, <1>3, <1>5, <1>6, MovedKeeps DEF HandlerInv, Moved, TypeOK, TablesInv

LEMMA NoRows == {} \in SUBSET [id : Jobs, status : Statuses]
OBVIOUS

LEMMA ErrorKeeps ==
  ASSUME IInv, NEW h \in Handlers, handler[h].pc # "answered", NEW c \in {400, 404, 413},
         AnswerError(h, c), UNCHANGED <<dbVars, published>>, c = 404 => Req(h).id \notin Named
  PROVE  IInv'
<1>1. videos \subseteq Videos /\ UNCHANGED <<videos, status, owner, published>>
  BY DEF IInv, TypeOK, dbVars
<1>2. Answer(h, c, None, {})
  BY DEF AnswerError
<1>3. QED
  BY <1>1, <1>2, NoRows, AnswerKeeps

LEMMA ReadKeeps ==
  ASSUME IInv, NEW h \in Handlers, readJSON(h)
  PROVE  IInv'
<1>1. handler[h].pc = "read" /\ UNCHANGED <<dbVars, published>>
  BY DEF readJSON, At
<1>2. CASE Goto(h, "check")
  BY <1>1, <1>2, GotoKeeps
<1>3. ASSUME NEW c \in {400, 413}, AnswerError(h, c) PROVE IInv'
  BY <1>1, <1>3, ErrorKeeps
<1>4. QED
  BY <1>2, <1>3 DEF readJSON

LEMMA ValidateKeeps ==
  ASSUME IInv, NEW h \in Handlers, Validate(h)
  PROVE  IInv'
<1>1. handler[h].pc = "check" /\ UNCHANGED <<dbVars, published>>
  BY DEF Validate, At
<1>2. CASE ~Valid(Req(h))
  <2>1. AnswerError(h, 400)
    BY <1>2 DEF Validate
  <2>2. QED
    BY <1>1, <2>1, ErrorKeeps
<1>3. CASE Valid(Req(h)) /\ Req(h).kind = "createVideo"
  <2>1. Goto(h, "insert")
    BY <1>3 DEF Validate
  <2>2. QED
    BY <1>1, <1>3, <2>1, GotoKeeps
<1>4. CASE Valid(Req(h)) /\ Req(h).kind # "createVideo"
  <2>1. Goto(h, "find")
    BY <1>4 DEF Validate
  <2>2. QED
    BY <1>1, <1>4, <2>1, GotoKeeps
<1>5. QED
  BY <1>2, <1>3, <1>4

LEMMA InsertKeeps ==
  ASSUME IInv, NEW h \in Handlers, Insert(h)
  PROVE  IInv'
<1>1. PICK v \in Videos \ videos : videos' = videos \cup {v} /\ Answer(h, 201, v, {})
  BY DEF Insert
<1>2. /\ videos \subseteq videos' /\ videos' \subseteq Videos /\ v \in videos'
      /\ UNCHANGED <<status, owner, published>> /\ handler[h].pc # "answered"
  BY <1>1 DEF Insert, At, IInv, TypeOK
<1>3. QED
  BY <1>1, <1>2, NoRows, AnswerKeeps

(* The rows of the table are those of the jobs that have been consumed.    *)
LEMMA RowsRead ==
  ASSUME IInv, NEW js \in SUBSET Jobs
  PROVE  /\ Rows(js) \in SUBSET [id : Jobs, status : Statuses]
         /\ \A row \in Rows(js) : row.id \in js /\ row.status = status[row.id] /\ status[row.id] # "none"
         /\ \A j \in js : status[j] # "none" => Rows(js) # {}
<1>1. status \in [Jobs -> Statuses]
  BY DEF IInv, TypeOK
<1>2. \A row \in Rows(js) : \E j \in js : status[j] # "none" /\ row = [id |-> j, status |-> status[j]]
  BY DEF Rows
<1>3. \A j \in js : status[j] # "none" => [id |-> j, status |-> status[j]] \in Rows(js)
  BY DEF Rows
<1>4. ASSUME NEW row \in Rows(js)
      PROVE  /\ row \in [id : Jobs, status : Statuses]
             /\ row.id \in js /\ row.status = status[row.id] /\ status[row.id] # "none"
  BY <1>1, <1>2
<1>5. QED
  BY <1>3, <1>4

(* What is in the table comes after all that has been shown of it.         *)
LEMMA ShownFirst ==
  ASSUME IInv, NEW h \in Handlers, NEW j \in Jobs
  PROVE  Before(handler[h].floor[j], status[j])
BY BeforeOrder DEF IInv, HandlerInv, BegunBefore, TablesInv

LEMMA FindKeeps ==
  ASSUME IInv, NEW h \in Handlers, FindRow(h)
  PROVE  IInv'
<1> DEFINE id == Req(h).id
           rows == Rows({id} \cap Jobs)
           new == [handler[h] EXCEPT !.pc = "preload", !.seen = rows]
<1>0. /\ TypeOK /\ TablesInv /\ HandlerInv(h) /\ handler[h] \in HandlerStates
      /\ handler[h].pc = "find" /\ UNCHANGED <<dbVars, published>>
  BY DEF IInv, TypeOK, FindRow, At
<1>1. /\ rows \in SUBSET [id : Jobs, status : Statuses]
      /\ \A row \in rows : row.id \in Jobs /\ row.status = status[row.id] /\ status[row.id] # "none"
                           /\ row.id = id
      /\ id \in Jobs /\ status[id] # "none" => rows # {}
  BY RowsRead
<1>2. CASE ~(id \in videos \/ rows # {})
  <2>1. AnswerError(h, 404) /\ id \notin Named
    BY <1>1, <1>2 DEF FindRow, Named
  <2>2. QED
    BY <1>0, <2>1, ErrorKeeps
<1>3. CASE id \in videos \/ rows # {}
  <2>1. handler' = [handler EXCEPT ![h] = new] /\ UNCHANGED clientVars
    BY <1>3 DEF FindRow
  <2>2. new \in HandlerStates
    <3> DEFINE a1 == [handler[h] EXCEPT !.pc = "preload"]
               a2 == [a1 EXCEPT !.seen = rows]
    <3>1. a2 = new
      OBVIOUS
    <3> HIDE DEF new, rows
    <3>2. a1 \in HandlerStates
      BY <1>0 DEF HandlerStates
    <3> HIDE DEF a1
    <3>3. a2 \in HandlerStates
      BY <1>1, <3>2 DEF HandlerStates
    <3>4. QED
      BY <3>1, <3>3
  <2>3. /\ handler'[h].pc = "preload" /\ handler'[h].seen = rows
        /\ handler'[h].req = handler[h].req /\ handler'[h].code = handler[h].code
        /\ handler'[h].queued = handler[h].queued /\ handler'[h].trouble = handler[h].trouble
        /\ handler'[h].known = handler[h].known /\ handler'[h].floor = handler[h].floor
    BY <1>0, <2>1 DEF TypeOK, HandlerStates
  <2> HIDE DEF rows, new
  <2>4. Advances /\ UNCHANGED <<videos, status, owner, published, announced, shown>>
    BY <1>0, <2>1, Still DEF dbVars, clientVars
  <2>5. id \in Named
    BY <1>1, <1>3 DEF Named
  <2>6. Checked(h)'
    BY <1>0, <2>3, <2>4, <2>5 DEF HandlerInv, Checked, Req, Named
  <2>7. RowsCurrent(h)'
    BY <1>1, <2>3, <2>4, ShownFirst, BeforeOrder DEF RowsCurrent
  <2>8. BegunBefore(h)' /\ AnswerRight(h)'
    BY <1>0, <2>3, <2>4 DEF HandlerInv, BegunBefore, AnswerRight, Req
  <2>9. QED
    BY <1>0, <2>1, <2>2, <2>4, <2>6, <2>7, <2>8, MovedKeeps DEF HandlerInv, Moved, TypeOK, TablesInv
<1>4. QED
  BY <1>2, <1>3

LEMMA PreloadKeeps ==
  ASSUME IInv, NEW h \in Handlers, Preload(h)
  PROVE  IInv'
<1>0. /\ TypeOK /\ TablesInv /\ HandlerInv(h) /\ handler[h] \in HandlerStates
      /\ handler[h].pc = "preload" /\ UNCHANGED <<dbVars, published>>
      /\ UNCHANGED <<videos, status, owner>> /\ videos \subseteq Videos
  BY DEF IInv, TypeOK, Preload, At, dbVars
<1>1. Req(h) \in Requests \cup {Nothing} /\ Req(h).kind \in {"createJob", "getVideo", "getJob"}
      /\ Req(h).id \in Named /\ Named \subseteq Videos \cup Jobs
  BY <1>0 DEF HandlerInv, Checked, Req, HandlerStates, Named
<1>2. CASE Req(h).kind = "getVideo"
  <2> DEFINE js == {j \in Jobs : owner[j] = Req(h).id}
  <2>1. Answer(h, 200, Req(h).id, Rows(js))
    BY <1>2 DEF Preload
  <2>2. Req(h).id \in videos
    BY <1>1, <1>2, RequestKinds DEF Named
  <2>3. /\ Rows(js) \in SUBSET [id : Jobs, status : Statuses]
        /\ \A row \in Rows(js) : /\ status[row.id] # "none" /\ Before(row.status, status[row.id])
                                 /\ Before(handler[h].floor[row.id], row.status)
    BY RowsRead, ShownFirst, BeforeOrder
  <2>4. QED
    BY <1>0, <2>1, <2>2, <2>3, AnswerKeeps
<1>3. CASE Req(h).kind = "getJob"
  <2>1. Answer(h, 200, owner[Req(h).id], handler[h].seen)
    BY <1>3 DEF Preload
  <2>2. owner[Req(h).id] \in videos
    BY <1>0, <1>1, <1>3, RequestKinds DEF Named, TypeOK
  <2>3. /\ handler[h].seen \in SUBSET [id : Jobs, status : Statuses]
        /\ \A row \in handler[h].seen : /\ status[row.id] # "none" /\ Before(row.status, status[row.id])
                                        /\ Before(handler[h].floor[row.id], row.status)
    BY <1>0 DEF HandlerInv, RowsCurrent, HandlerStates
  <2>4. QED
    BY <1>0, <2>1, <2>2, <2>3, AnswerKeeps
<1>4. CASE Req(h).kind = "createJob"
  <2>1. Goto(h, "publish")
    BY <1>4 DEF Preload
  <2>2. QED
    BY <1>0, <1>4, <2>1, GotoKeeps
<1>5. QED
  BY <1>1, <1>2, <1>3, <1>4

LEMMA FailKeeps ==
  ASSUME IInv, NEW h \in Handlers, DbFails(h)
  PROVE  IInv'
<1> DEFINE b == Storable(Req(h))
           new == [handler[h] EXCEPT !.pc = "answered", !.code = 500, !.trouble = b]
<1>0. /\ TypeOK /\ TablesInv /\ HandlerInv(h) /\ handler[h] \in HandlerStates
      /\ handler[h].pc \in {"find", "preload", "insert"}
      /\ UNCHANGED <<status, owner, published, clientVars>>
      /\ handler' = [handler EXCEPT ![h] = new]
  BY DEF IInv, TypeOK, DbFails, At, Troubled
<1>1. new \in HandlerStates
  <2> DEFINE a1 == [handler[h] EXCEPT !.pc = "answered"]
             a2 == [a1 EXCEPT !.code = 500]
             a3 == [a2 EXCEPT !.trouble = b]
  <2>1. a3 = new
    OBVIOUS
  <2>2. b \in BOOLEAN
    BY DEF Storable
  <2> HIDE DEF new, b
  <2>3. a1 \in HandlerStates
    BY <1>0 DEF HandlerStates
  <2> HIDE DEF a1
  <2>4. a2 \in HandlerStates
    BY <2>3 DEF HandlerStates
  <2> HIDE DEF a2
  <2>5. a3 \in HandlerStates
    BY <2>2, <2>4 DEF HandlerStates
  <2>6. QED
    BY <2>1, <2>5
<1>2. videos \subseteq videos' /\ videos' \subseteq Videos
  BY <1>0 DEF DbFails, TypeOK
<1>3. /\ handler'[h].pc = "answered" /\ handler'[h].code = 500 /\ handler'[h].trouble = b
      /\ handler'[h].seen = handler[h].seen /\ handler'[h].req = handler[h].req
      /\ handler'[h].queued = handler[h].queued
      /\ handler'[h].known = handler[h].known /\ handler'[h].floor = handler[h].floor
  BY <1>0 DEF TypeOK, HandlerStates
<1>4. Advances
  BY <1>0, <1>2, BeforeOrder DEF Advances, clientVars
<1>5. b \/ Req(h).id = "urn"
  BY <1>0 DEF HandlerInv, Checked, Valid, Storable
<1> HIDE DEF new, b
<1>6. Checked(h)' /\ RowsCurrent(h)' /\ BegunBefore(h)'
  BY <1>0, <1>3 DEF HandlerInv, Checked, RowsCurrent, BegunBefore, clientVars
<1>7. AnswerRight(h)'
  BY <1>0, <1>3, <1>5 DEF HandlerInv, Checked, AnswerRight, Req
<1>8. QED
  BY <1>0, <1>1, <1>2, <1>4, <1>6, <1>7, MovedKeeps DEF HandlerInv, Moved, TablesInv

LEMMA PublishKeeps ==
  ASSUME IInv, NEW h \in Handlers, NEW q \in BOOLEAN, NEW c \in {202, 502}, q => c = 202, Published(h, q, c)
  PROVE  IInv'
<1> DEFINE new == [handler[h] EXCEPT !.pc = "answered", !.code = c, !.queued = q]
<1>0. /\ TypeOK /\ TablesInv /\ HandlerInv(h) /\ handler[h] \in HandlerStates
      /\ handler[h].pc = "publish"
      /\ UNCHANGED <<videos, status, owner, announced, shown>>
      /\ handler' = [handler EXCEPT ![h] = new]
      /\ published' \subseteq published \cup {Req(h).id}
  BY DEF IInv, TypeOK, Published, At, dbVars, clientVars
<1>1. new \in HandlerStates
  <2> DEFINE a1 == [handler[h] EXCEPT !.pc = "answered"]
             a2 == [a1 EXCEPT !.code = c]
             a3 == [a2 EXCEPT !.queued = q]
  <2>1. a3 = new
    OBVIOUS
  <2> HIDE DEF new
  <2>2. a1 \in HandlerStates
    BY <1>0 DEF HandlerStates
  <2> HIDE DEF a1
  <2>3. a2 \in HandlerStates
    BY <2>2 DEF HandlerStates
  <2> HIDE DEF a2
  <2>4. a3 \in HandlerStates
    BY <2>3 DEF HandlerStates
  <2>5. QED
    BY <2>1, <2>4
<1>2. /\ handler'[h].pc = "answered" /\ handler'[h].code = c /\ handler'[h].queued = q
      /\ handler'[h].seen = handler[h].seen /\ handler'[h].req = handler[h].req
      /\ handler'[h].known = handler[h].known /\ handler'[h].floor = handler[h].floor
  BY <1>0 DEF TypeOK, HandlerStates
<1> HIDE DEF new
<1>3. Req(h).id \in videos /\ Req(h).content = "ok"
  BY <1>0 DEF HandlerInv, Checked, Valid
<1>4. Advances /\ published' \subseteq videos' /\ videos' \subseteq Videos
  BY <1>0, <1>3, Still DEF TablesInv, TypeOK
<1>5. Checked(h)' /\ RowsCurrent(h)' /\ BegunBefore(h)' /\ AnswerRight(h)'
  BY <1>0, <1>2, <1>3 DEF HandlerInv, Checked, RowsCurrent, BegunBefore, AnswerRight, Req
<1>6. Moved(h, new) /\ UNCHANGED <<owner, clientVars>>
  BY <1>0, <1>1 DEF Moved, clientVars
<1>7. QED
  BY <1>0, <1>4, <1>5, <1>6, MovedKeeps DEF HandlerInv

LEMMA FinishKeeps ==
  ASSUME IInv, NEW h \in Handlers, Finish(h)
  PROVE  IInv'
<1>0. TypeOK /\ TablesInv /\ handler' = [handler EXCEPT ![h] = Idle]
      /\ UNCHANGED <<videos, status, owner, published, announced, shown>>
  BY DEF IInv, Finish, dbVars, clientVars
<1>1. Idle \in HandlerStates
  BY DEF Idle, HandlerStates, Statuses
<1>2. handler'[h] = Idle
  BY <1>0 DEF TypeOK
<1>3. /\ handler'[h].pc = "idle" /\ handler'[h].seen = {} /\ handler'[h].code = 0
      /\ handler'[h].queued = FALSE /\ handler'[h].known = {}
      /\ handler'[h].floor = [j \in Jobs |-> "none"]
  BY <1>2 DEF Idle
<1>4. Checked(h)' /\ AnswerRight(h)'
  BY <1>3 DEF Checked, AnswerRight
<1>5. RowsCurrent(h)' /\ BegunBefore(h)'
  BY <1>3, BeforeOrder DEF RowsCurrent, BegunBefore
<1>6. QED
  BY <1>0, <1>1, <1>4, <1>5, Still, MovedKeeps DEF HandlerInv, Moved, clientVars, TypeOK, TablesInv

LEMMA HandleKeeps ==
  ASSUME IInv, NEW h \in Handlers, Handle(h)
  PROVE  IInv'
<1>1. CASE Publish(h)
  BY <1>1, PublishKeeps DEF Publish
<1>2. QED
  BY <1>1, ReadKeeps, ValidateKeeps, InsertKeeps, FindKeeps, PreloadKeeps, FailKeeps, FinishKeeps DEF Handle

(* The workers move rows forward.                                          *)
LEMMA WorkersKeep ==
  ASSUME IInv, NEW j \in Jobs, UpdateStatus(j) \/ \E v \in Videos : CreatePendingJob(j, v)
  PROVE  IInv'
<1>0. TypeOK /\ TablesInv
  BY DEF IInv
<1>1. /\ UNCHANGED <<videos, published, handler, announced, shown>>
      /\ \E s \in Statuses \ {"none"} : Before(status[j], s) /\ status' = [status EXCEPT ![j] = s]
  BY DEF UpdateStatus, CreatePendingJob, clientVars, Statuses, Before, Rank,
         Worker!Consume, Worker!PickUp, Worker!Complete, Worker!Fail, Worker!Become
<1>2. PICK s \in Statuses \ {"none"} : Before(status[j], s) /\ status' = [status EXCEPT ![j] = s]
  BY <1>1
<1>3. \A i \in Jobs : Before(status[i], status'[i]) /\ (status'[i] = "none" <=> status[i] = "none" /\ i # j)
  BY <1>0, <1>2, BeforeOrder DEF TypeOK
<1>4. Advances
  BY <1>1, <1>3, BeforeOrder DEF Advances
<1>5. /\ owner' \in [Jobs -> Videos \cup {None}]
      /\ \A i \in Jobs : IF status'[i] = "none" THEN owner'[i] = None ELSE owner'[i] \in videos
  <2>1. CASE UpdateStatus(j)
    <3>1. owner' = owner /\ status[j] # "none"
      BY <2>1 DEF UpdateStatus, Worker!PickUp, Worker!Complete, Worker!Fail, Worker!Become
    <3>2. QED
      BY <1>0, <1>3, <3>1 DEF TypeOK
  <2>2. ASSUME NEW v \in Videos, CreatePendingJob(j, v)
        PROVE  /\ owner' \in [Jobs -> Videos \cup {None}]
               /\ \A i \in Jobs : IF status'[i] = "none" THEN owner'[i] = None ELSE owner'[i] \in videos
    <3>1. owner' = [owner EXCEPT ![j] = v] /\ v \in videos
      BY <2>2 DEF CreatePendingJob
    <3>2. QED
      BY <1>0, <1>3, <3>1 DEF TypeOK
  <2>3. QED
    BY <2>1, <2>2
<1>6. TypeOK'
  BY <1>0, <1>1, <1>2, <1>5 DEF TypeOK
<1>7. TablesInv'
  <2>1. Named \subseteq Named'
    BY <1>0, <1>4, NamedStays
  <2>2. QED
    BY <1>0, <1>1, <1>3, <2>1, BeforeOrder DEF TablesInv
<1>8. QED
  BY <1>1, <1>4, <1>6, <1>7, NoneMoves

LEMMA InitIInv == Init => IInv
<1> SUFFICES ASSUME Init PROVE IInv
  OBVIOUS
<1> USE DEF Init
<1>1. Idle \in HandlerStates
  BY DEF Idle, HandlerStates, Statuses
<1>2. TypeOK
  BY <1>1 DEF TypeOK, Statuses
<1>3. TablesInv
  BY BeforeOrder DEF TablesInv
<1>4. ASSUME NEW h \in Handlers PROVE HandlerInv(h)
  BY <1>4, BeforeOrder DEF Idle, HandlerInv, Checked, RowsCurrent, BegunBefore, AnswerRight, Req
<1>5. QED
  BY <1>2, <1>3, <1>4 DEF IInv

LEMMA IInvStep == IInv /\ [Next]_vars => IInv'
<1> SUFFICES ASSUME IInv, [Next]_vars PROVE IInv'
  OBVIOUS
<1>1. CASE UNCHANGED vars
  <2>1. UNCHANGED <<videos, status, owner, published, handler, announced, shown>>
    BY <1>1 DEF vars, dbVars, clientVars
  <2>2. TypeOK' /\ TablesInv'
    BY <2>1 DEF IInv, TypeOK, TablesInv, Named
  <2>3. QED
    BY <2>1, <2>2, Still, NoneMoves
<1>2. CASE Next
  BY <1>2, WorkersKeep, RequestKeeps, HandleKeeps DEF Next
<1>3. QED
  BY <1>1, <1>2

LEMMA Invariance == Spec => []IInv
BY InitIInv, IInvStep, PTL DEF Spec

-----------------------------------------------------------------------------
(* The properties.                                                         *)

(* Every reachable state has its type, and every job row belongs to a      *)
(* registered video (jobs.video_id), for any number of requests.           *)
THEOREM TypeCorrect == Spec => []TypeOK
<1>1. IInv => TypeOK
  BY DEF IInv
<1>2. QED
  BY <1>1, Invariance, PTL

(* The worker finds the video and the fields of every message that POST    *)
(* /jobs has queued, and who is answered with an error has queued none     *)
(* (handleCreateJob).                                                      *)
THEOREM QueuedJobsCanStart == Spec => []QueuedCanStart
<1>1. IInv => QueuedCanStart
  BY DEF IInv, TablesInv, HandlerInv, AnswerRight, QueuedCanStart
<1>2. QED
  BY <1>1, Invariance, PTL

(* But for the urn form of an id, 500 is answered only when the database   *)
(* has failed: what it would refuse is refused before (validUUID,          *)
(* containsNUL, maxFieldLen).                                              *)
THEOREM InternalErrorsAreFaults == Spec => []InternalErrorNeedsFault
<1>1. IInv => InternalErrorNeedsFault
  BY DEF IInv, HandlerInv, AnswerRight, InternalErrorNeedsFault
<1>2. QED
  BY <1>1, Invariance, PTL

(* Read your writes, over any number of clients and requests: an id that   *)
(* an answer has named is found by every request that begins later         *)
(* (VideoRepositoryDb and JobRepositoryDb, Insert and Find).               *)
THEOREM NamedIdsAreFound == Spec => []NamedIsFound
<1>1. IInv => NamedIsFound
  BY DEF IInv, HandlerInv, AnswerRight, NamedIsFound
<1>2. QED
  BY <1>1, Invariance, PTL

(* Monotonic reads, while workers update the rows between the statements   *)
(* of the handlers: no answer shows a job before the status that one given *)
(* earlier has shown (handleGetJob, handleGetVideo).                       *)
THEOREM StatusReadsAreMonotonic == Spec => []StatusNeverGoesBack
<1>1. IInv => StatusNeverGoesBack
  BY DEF IInv, HandlerInv, RowsCurrent, StatusNeverGoesBack
<1>2. QED
  BY <1>1, Invariance, PTL
=============================================================================
