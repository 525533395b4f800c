# Verification of the video encoder service

TLA+ models of `golang-videoencoder-api` (paths below are relative to the
repository), TLC configurations that check them on small instances, and TLAPS
proofs for every instance. The code is the reference: each definition
translates the lines that `PROJECT.json` ("map") names for it.

Contents: [the system](#the-system) · [modules](#modules) ·
[abstractions](#model-and-code) · [runs](#runs-and-bounds) ·
[fairness](#fairness) · [proofs](#proofs) ·
[disagreements](#where-code-and-documentation-disagree) ·
[not modelled](#not-modelled) · [plan](#plan).

## The system

A client registers a video and posts a job for it; the job travels through a
RabbitMQ queue to a pool of workers in the same process, which download,
fragment, encode and upload the video and record the outcome in a job row.

| Component (source) | State | Operations | Hard behaviour | Correct when |
|---|---|---|---|---|
| Process lifecycle (`cmd/main.go`) | stage of start or shutdown | connect, declare, start workers and consumer, serve, shut down in a fixed order | five kinds of goroutine stop in a chain, each waiting on the next; handlers may outlive `Shutdown` | shutdown ends; nothing in flight is settled late or sent on a closed channel |
| Consumer and worker pool (`internal/job/manager.go`, `worker.go`) | consumer position, backoff, the delivery in hand, `MessageChannel`, `ResultChannel`, one message per worker | consume, hand over, hand back, back off, reconnect; receive, process, acknowledge, report | deliveries of an old channel are processed and settled after a reconnect; the hand-over can block | a message is settled once, by its own outcome, on its own channel; the consumer always comes back |
| `queue.Client`, consumer side (`internal/queue/queue.go`) | connection and channel, as client and broker see them | connect, declare, QoS, consume, close | the two ends of a channel close independently | at-least-once delivery |
| `queue.Client`, publisher side (same file) | one connection shared by all handlers, a mutex | publish with one retry, readiness probe that reconnects, close | concurrent reconnects, losses not noticed yet, publish after close, calls into the library under the mutex | no send on nil, no leak, no duplicate, every request answered as long as the library's calls return |
| Job service and processor (`internal/job/service.go`, `processor.go`) | job rows, stage of each attempt | create row, mark Processing / Completed / Failed, run the stages | database errors (also after the commit), deadline, crash | rows agree with outcomes and acknowledgements |
| Video service (`internal/video/service.go`) | local `<video>.mp4`, `<video>.frag`, `<video>/`, shared by all jobs of the video | download, fragment, encode, finish | concurrent attempts for one video, files left by failures and crashes | an attempt never works on another one's directory |
| Upload pool (`internal/upload/manager.go`) | index channel, workers, shared `Errors` slice | walk, feed, upload, record failure, wait, name objects | goroutines and a shared slice, partial objects, deadline, names made by trimming a prefix | nil means every file is stored, an error counts every file that is not, each file has a name of its own |
| HTTP API (`internal/api`) | none of its own | register and read videos, enqueue and read jobs, probes | several statements per request while others and the workers change the tables; shares the publisher connection | a request is answered, truthfully, and no later answer takes it back |
| Repositories, domain, database (`internal/repositories`, `domain`, `internal/database`) | tables `videos`, `jobs` | insert, find (two queries), update | a reported error may follow a commit; what the columns cannot hold | one writer per row |
| RabbitMQ (external) | work queue, dead-letter queue, unacknowledged deliveries, tags | deliver, requeue, dead-letter, cancel a consumer, restart | redelivery, transient messages | – |
| `docs/` (generated), tests | – | – | – | – |

Interaction: handlers → publisher client → broker (publish); broker →
consumer client → `consumeOnce` → `MessageChannel` → worker (delivery);
worker → broker (ack or nack, on the delivery's own channel); worker → job
service → database; worker → video service → local files and the external
tools; worker → upload pool → bucket; worker → `ResultChannel` → logger.
`main` cancels the consumer's context, waits for it, and then runs its
deferred calls in reverse order: stop workers, close publisher, close consumer
connection.

The hazards this leads to are listed, each at its line and with the
properties that watch it, in `PROJECT.json` ("hazards").

## Modules

| Module | Models | State | Extends |
|---|---|---|---|
| `Broker` | RabbitMQ as the code uses it | queue contents, unacknowledged deliveries, sessions (the broker's side of each consumer channel), delivery tags | – |
| `Manager` | consumer, worker pool, result logger, consumer connection, start and shutdown of `main` | one variable per goroutine position and per Go channel | `Broker` |
| `AtLeastOnce` | what publishers are promised, without channels, tags or goroutines | queued, acked, dead, outcomes | – |
| `ManagerProofs` | proofs about `Manager` | – | `Manager`, `TLAPS` |
| `DeliveryProofs` | more of them: what becomes of a delivery inside the process | – | `ManagerProofs`, `FiniteSetTheorems` |
| `Pipeline` | one attempt per worker: row, stages, shared local files | `pc`, rows, files | – |
| `JobLifecycle` | the status of a row as API clients see it change | status | – |
| `PipelineProofs` | proofs about `Pipeline` | – | `Pipeline`, `TLAPS` |
| `VideoEncoder` | the whole encoder: `Manager` and `Pipeline` joined at `processPayload` | both states, and which message a row was created for | instances of `Manager`, `Pipeline` |
| `VideoEncoderProofs` | proofs about `VideoEncoder`, from those about its two sides | – | `VideoEncoder`, `TLAPS`, instances of `DeliveryProofs`, `PipelineProofs` |
| `Upload` | one call of `ProcessUpload` and its workers | index channel, workers, mutex, slice, bucket | – |
| `UploadNames` | the walk of the output directory and `objectName`, on path components | none of its own | `Upload` |
| `Api` | the HTTP handlers over the two tables, statement by statement | tables, one record per handler, what clients have been told | instance of `JobLifecycle` |
| `Publisher` | the publisher connection, shared by handlers and closed by `main` | mutex, connection, handlers | – |
| `UploadProofs`, `ApiProofs`, `PublisherProofs` | proofs about `Upload`, `Api` and `Publisher` | – | the module they are about, `TLAPS` |
| `UploadNamesProofs` | proofs about `UploadNames`: what `path.Clean` and `objectName` give for paths of any length | – | `UploadNames`, `UploadProofs`, `SequenceTheorems`, `WellFoundedInduction` |
| `MCManager`, `MCPipeline`, `MCPublisher`, `MCApi`, `MCUploadNames`, `MCVideoEncoder` | symmetry sets and values of constants for TLC | – | the module they check |

Operators whose comment begins "Wrong on purpose" are faulty variants of the
definition that follows them. Nothing uses them; substituted for that
definition they break the property `PROJECT.json` ("mutants") names, which
shows that the property depends on the code.

## Model and code

**Manager.** `consumer` is the position of `RunQueueConsumer` and
`consumeOnce`: `loop` (ctx check), `consume` (`q.Consume`), `receive` (outer
select), `handoff` (inner select, `hand` is `msg`), `backoff` (timer),
`reconnect`, `done`. `wpc[w]` is the position of a `JobWorker`: `idle` (range
over `MessageChannel`), `busy` (`processPayload`), `ok`/`failed` (about to
acknowledge), `report` (send on `ResultChannel`), `exited`. `main` is
`running`, `stopping` (context cancelled, waiting for `consumerDone`),
`draining` (`MessageChannel` closed, in `wg.Wait`), `flushing`
(`ResultChannel` closed, waiting for the logger), `exited`; `down` is a
process not started or killed. `cur` numbers the client's current channel and
`session[cur]` is the broker's side of it, so a settlement by a worker that
still holds a delivery of an earlier channel goes to that channel and is
lost, as `amqp.Delivery.Ack` does. `inbox` is what the amqp library has
received and not yet passed on. `CancelledByBroker` ends the deliveries and
leaves the channel open (`chan = "cancelled"`), so what is in flight can still be
settled until `ReconnectOk` replaces the channel. What `processPayload` does is
reduced to its result; `Pipeline` opens it up. `Publish` needs a queue, hence a first
start (`cur > 0`), but not a running process: the queue also takes messages from
other publishers (`README.MD`, the dotted arrow of the diagram).

**VideoEncoder.** `Take` is `WorkerReceive` and `Receive` in one step, `Return`
gives `WorkerFinish` the outcome at which the attempt has arrived, `Report`
ends both, and `Crash` hits both. Every other step belongs to one side and
leaves the other as it is (`QueueSide`, `Process`). `rowOf` remembers the
message that each row was created for. Where `Manager` lets `WorkerFinish`
choose an outcome, here it is that of the attempt.

**Pipeline.** `pc[w]` is the next step of `processPayload` → `Processor.Run`
→ `process`. A file is `absent`, `bad` (incomplete, or made from something
incomplete) or `good`. `os.Create` makes the file `bad` and remembers the last
process to truncate it: a writer that was there before may or may not leave a
whole file. `mp4fragment` and `mp4dash` may succeed on a bad input, or fail;
nothing in the code tells. `StageFails` stands for every error return of the
stages, the deadline included. A database call that reports an error may have
been committed; `disturbed` remembers the jobs to which that, or a crash,
happened. The files are shared by all workers, and a crash keeps them, as a
restarted container does. Find and Save of `updateStatus` are one step: an
attempt writes only the row it has inserted itself, and nobody else writes it.

**Api.** A handler is a record: the next step, the request, the rows it has
read, its answer. A statement is one step: `Insert`, `FindRow` and `Preload`,
each of which may be `DbFails` instead; an insert that fails may have been
committed. Bodies and ids are reduced to classes (`Contents`, `BadIds`): what
`readJSON` refuses, what the checks refuse, what Postgres would refuse
(`Storable`). `announced` and `shown` collect what answers have told clients;
`known` and `floor` are their values when a request began. Workers move rows as
`JobLifecycle` allows, which `Pipeline` implements.

**Upload.** The append to the shared slice is two steps (read, write), so
that removing the mutex shows. A failed upload may leave the object as it was,
partial or whole. In `UploadNames` a path is the sequence of its components;
`Clean`, `Join` and `TrimPrefix` are what Go's `path` and `strings` do with
them.

**Publisher.** The connection is `nil`, `open`, `broken` (lost, unknown to the
client: a send may be accepted or fail) or `dead` (known: `IsClosed`). The
mutex is held from `Lock` to the answer. A send that returns an error has not
queued its message: the library reports an error only if it could not write
the whole frame. `fault` records whether a fault fell within the request.
`ConnectFails` is one step for the three error returns of `connectLocked`, which
close what they opened; a leak on one of these paths would not show. `Close` is
main's deferred call, `Exit` the end of the process: in between, handlers that
`Shutdown` has given up on may still publish and reconnect; after it there is
nobody.

## Runs and bounds

| Run | Checks | Instance | Why it is enough |
|---|---|---|---|
| `manager` | types; settlements follow outcomes; one attempt per message and channel; no unknown tag; no send on a closed channel; started work settled before the close; the consumer runs until cancelled; hand-over blocks only behind stale deliveries | 2 messages, 2 workers, 3 channels, backoff 1..2, broker restarts | a reconnect while work of the first channel is in progress, and another after a restart of the process; with 2 workers the buffer and the prefetch both fill |
| `manager_live` | `AtLeastOnce` is implemented; every message settled; shutdown completes; consumer recovers | 1 message, 1 worker, 3 channels | one worker is the default of the code, and the one for which a blocked worker blocks everything; one message can be in flight on a lost channel, be redelivered on the next, and find the buffer full of its own earlier delivery. `AtLeastOnce` is proved for any number of messages |
| `manager_restart` | violation | 1 message, 1 worker, 2 channels | |
| `pipeline` | types; exclusive directory; inputs kept; Completed means uploaded; result matches row; unfinished rows explained; `JobLifecycle` implemented | 2 workers, 2 videos, 3 rows, database errors, 1 crash | two attempts collide on a video while a third follows them; a crash leaves files behind |
| `encoder` | confirmed means Completed; a dead letter whose job is Completed is explained by a second attempt or a database error; every message is decided; attempts end | 1 message, 2 workers, 2 channels, 2 rows, broker restarts | the message is redelivered to the second worker while the first still runs: both contend for the same files, and one acknowledges on a channel that is gone. A lost channel, a crash, a broker restart, a cancel or a shutdown may come between the two deliveries. Database errors are in the run `pipeline`, and in the proofs of both invariants |
| `pipeline_redelivery`, `pipeline_whole` | violations | 1 or 2 workers, 1 video | |
| `upload` | types; nil means stored; errors exact and no worker left at the return; one failure keeps no other file from being stored; objects are the job's own; the call returns | up to 3 files in two directories, concurrency 0, 2 or 4, channel buffer 1, several output paths | concurrency below one, less and more than the files; the feeder blocks. The buffer is `runtime.NumCPU()`: 1 is the hardest value. The tree has one base name twice, the output paths are empty, nested and disjoint |
| `upload_names` | violation | a local storage path that ends in a slash | |
| `publisher` | types; no send on nil; no leak; queued at most once; only faults of its own time reject a request; as long as the library's calls return, every request is answered or the process ends | 3 requests at once | the mutex has a holder and two waiters |
| `publisher_accepted` | violation | 1 request | |
| `api` | types; a queued message can start; 500 only for a fault; what was named is found; statuses never go back | 2 handlers at once, 1 video, 1 job, every class of request | a registration beside a read of the same video, a read beside another read, both beside a worker; no property relates two videos or two jobs; handlers serve any number of requests one after another |

Bounds on behaviour: `MaxSessions` (channels opened; the environment
disturbs the process only while another can be opened, and a shutdown leaves
one for the next start and one for a reconnect under way), `Jobs` (attempts), `MaxCrashes`, `MaxFiles`. The
theorems hold for all their values. Deadlock is checked in every run except
`upload`, where the call ends; `Waiting` in `Manager` and `Pipeline` names the
state in which the service rests.

## Fairness

Weak fairness of each goroutine: the Go scheduler runs what can run. `Worker`
includes the end of `processPayload`; `VideoEncoder` has the stages themselves
in its place. `PROCESS_TIMEOUT` bounds those that take its context: download,
the Bento4 tools, upload. The database calls and the removals of `Finish` take
none; that they return is assumed, and a worker stuck in one would never settle its
message. The liveness properties show that nothing else keeps an attempt, a
message or a shutdown from ending.
`HeartbeatMissed` and `StaleSessionDown`: each side of an
AMQP connection notices the loss of the other by its heartbeat. Delivery:
the broker pushes while the prefetch allows. `Boot`: docker-compose or an
operator starts a stopped service again. `ReconnectOk` is strongly fair: a
dial may fail any number of times, but the consumer retries for ever.
`Lock` in `Publisher` is strongly fair, because Go's mutex hands over to a
waiter that starves. Calls into the amqp library under that mutex are not fair:
`dialTimeout` bounds only the dial, `PublishWithContext` writes without a
deadline. `RequestsAnswered` states as its premise that they return
(`AmqpCallsReturn`); what it shows is the client's part, that every way out of
`Publish` and `EnsureReady` leaves the mutex to the next. Nothing is assumed of
publishers, crashes, signals, lost connections, or of a request's being refused.

## Proofs

TLAPS checks, for every value of the constants under the named assumptions of
the modules:

*ManagerProofs.* `TypeCorrect`; `ClosedInOrder` (`NoSendOnClosed`);
`ConsumerOutlivesConnections` (`ConsumerRunsUntilCancelled`);
`SettlementsFollowOutcomes` (`SettledByOutcome`);
`ManagerImplementsAtLeastOnce`, which assumes that the broker does not
restart. `SettledByOutcome` alone is not inductive: a worker settles by
delivery tag, so one must know that its tag stands for its message. `IInv` is
`TypeInv` (types, and a worker or the consumer holds a delivery exactly in the
positions where it must), `TagInv` (among all deliveries the broker or the
process knows, channel and tag determine the delivery), `CopyInv` (the broker
has one copy of a message, and everything in the process was published) and
`OutcomeInv` (a worker about to settle has recorded its outcome). The
refinement maps the abstract queue to `Outstanding`, the messages waiting or
unacknowledged: deliveries, requeues, crashes and reconnects stutter.
`PublishedMessagesAreKept`, under the same assumption, says where a
message is from its publication on: in exactly one of the queue (waiting or
unacknowledged), the confirmed messages, with a success behind it, and the
dead-letter queue, with a failure behind it (`InOnePlace`); and it never leaves the last
two. The refinement gives it step by step: no step of consumer, workers or
broker takes away a message that is not settled by an attempt of its own.

*PipelineProofs.* `TypeCorrect`, `DirectoryIsExclusive`, `InputsAreKept`,
`CompletedIsUploaded`, `ResultsMatchRows`, `UnfinishedJobsAreExplained` and
`PipelineImplementsJobLifecycle`. `IInv` is `TypeInv`, `RowInv` (a row has one
writer, and its status agrees with the position of that writer) and `DirInv`
(an attempt between Mkdir and the last removal has a directory, and has it
alone: Mkdir fails where there is one, and Finish removes it last).
`UndisturbedJobsAreWhole` adds `MadeInv`, which follows an attempt through its
files: an attempt that has its video to itself truncates what an earlier one
left, so what it has made up to its position is good.
`TidyAttemptsMayBeRepeated` adds `DirInUse`: every directory belongs to an
attempt under way.

*UploadProofs.* `TypeCorrect`, `ErrorsAreExact` (no
worker is left when the call returns, and the slice names the failed files),
`NilMeansStored`, `FailuresStopNoOthers` (`OthersAreStored`: whatever the error
does not count is in the bucket). What the caller
sees at its return depends on all the files a worker has taken, so `IInv` says
at every moment which these are: the channel holds consecutive indexes, hence
the files taken (`Taken`) are those below the first of them (`QueueInv`); each
worker handles a taken file of its own (`WorkerInv`); each failed file is in
the slice or still in the hands of a worker, and the worker in the critical
section has read the latest slice (`ErrorInv`); each taken file is stored,
failed or being uploaded (`StoreInv`). When all workers are done and the
channel is empty, nothing is left in between. `CallsAreNeverStuck` follows from
the same invariant: until the call has returned, the guard of one of its steps
holds (`CanMove` lists the guards: room in the channel, an index in it, its
close, the free mutex), so feeder, workers and mutex cannot wait on each other in a
circle. That the call then returns is liveness (`CallReturns`), which TLC checks.

*UploadNamesProofs.* `ObjectsAreTheirOwn` (`ObjectsAreItsOwn`) and
`CleanStoresAreNamedByRelativePath` (`NamedByRelativePath`), for trees and
paths of any size and any strings as their components. Both rest on what
`path.Clean` computes. `Clean` is a recursive function on the positions of its
argument; `CleanRuns` says that it exists and that each step is a `CleanStep`,
`CleanAppend` that cleaning a path and one more component is one more step.
Then each fact about `Clean` is an induction on the length of a path, which
needs no operator as a parameter: the paths with the property are a set, and
`SeqInduction` (proved from `LeastNumber`, the least element of a set of numbers)
says that a set with the empty sequence, closed under `Append`, has all
sequences. In this way: the result is clean (`CleanType`: ".." only at the
front); names that are no dots are kept (`CleanConcat`); a path of such names
is its own result (`PlainClean`); an absolute path never leads upwards
(`AbsoluteContained`); a path that does not lead upwards stays below where it
starts (`CleanBelow`). `NameShape` puts them together: a file's object
is named by the cleaned output path, then a base that depends only on the store and
the video, then the file's path in the tree. Hence no two files meet, and
objects of two jobs meet only if one output path contains the other.

`ObjectsAreTheirOwn` assumes of each `localStoragePath` that it is clean or, once
cleaned, has no ".."; absolute paths such as the default `/tmp`, with or without a trailing
slash, all qualify (`AbsoluteStoresKeepObjectsApart`). The assumption is needed:
with `./../x` the prefix to trim does not match, the local path `../x/<id>/...`
enters the name, and its ".." takes the object out of the output path.
`CleanStoresAreNamedByRelativePath` needs more, a clean path, as the run
`upload_names` shows.

*PublisherProofs.* `TypeCorrect`, `SendsOnAChannel`, `ConnectionsAreClosed`,
`RetryQueuesOnce`, `PastOutagesAreRepaired`. `IInv` ties what is true of the
connection and of a request to the position of the handler that holds the
mutex (`HolderOK`, `RequestOK`). `AcceptedJobsAreQueued` (`AcceptedIsQueued`)
holds of every behaviour in which no loss is unnoticed at a send.

*DeliveryProofs.* `AttemptsRepeatOnlyAcrossChannels`
(`AttemptedOncePerSession`), `SettledTagsAreKnown` (`TagsKnown`),
`ShutdownSettlesStartedWork` (`StartedIsSettledAtClose`),
`PrefetchKeepsConsumerFree` (`HandoffBlocksOnlyOnStale`). `IInv` of
`ManagerProofs` says which deliveries exist; `DInv` adds where each of them is.
`ChannelInv`: a message is outstanding or has one fate, a channel that is down
holds nothing, none holds more than its prefetch, and the channels still to come are
unused. `PlaceInv`: work that came on one channel is in one place of the
process only (`inbox`, the consumer's hand, `MessageChannel` or one worker),
and is started exactly when a worker has it. `SpentInv`: a message that
a live channel has given to the process is still held for that channel, or
settled, so the channel does not give it again. `LiveInv`: what the process holds of a
channel that lives on both ends is still unacknowledged there. `StartedInv`:
what was started on a channel and is unacknowledged is with a worker, as long as
the client can settle; after the orderly close none is left. `PrefetchInv`: the
deliveries of one channel in the process are at most its prefetch. For
`HandoffBlocksOnlyOnStale` a full `MessageChannel` and the consumer's hand are
`Prefetch + 1` places; by the pigeonhole principle two of them would hold one
delivery, which `PlaceInv` excludes.

*ApiProofs.* `TypeCorrect`, `QueuedJobsCanStart`, `InternalErrorsAreFaults`,
`NamedIdsAreFound` and `StatusReadsAreMonotonic`. The tables, and what clients
know of them, only grow (`Advances`): a row is never deleted, a status never goes
back, since the workers move it as `JobLifecycle` allows. So a handler
that does not move keeps its invariant (`HandlerStays`), however the others and
the workers change the tables between its statements. `IInv` ties each handler
to the tables: how far its request has been checked at each step (`Checked`),
that the rows it has read lie between what clients had been shown when the
request began and what the table says now (`RowsCurrent`), that `known` and
`floor` are history (`BegunBefore`), and that its answer is right
(`AnswerRight`).

*VideoEncoderProofs.* `EncoderImplementsManager` and
`EncoderImplementsPipeline`: every step of the whole process is a step or a
stutter of `Manager`, and of `Pipeline`. Hence whatever is proved of either holds
of the process, and `EncoderImplementsAtLeastOnce` follows (where the broker
does not restart). `ConfirmedWorkIsCompleted` (`AckedIsCompleted`) and
`DeadLettersAreExplained` (`DeadYetCompletedIsExplained`) say what neither side
can: that what the queue is told agrees with the rows. On top of the
invariants of both sides, `WholeInv` says that a worker's message is the one its
row was created for, and that its position in the queue and in the pipeline
correspond (`JoinInv`); that with processing disabled rows stay Pending
(`DisabledInv`); that what was confirmed is Completed, now and after any
later attempt (`AckedIsCompleted`: a row has one writer, and a second attempt
creates a row of its own); and that a
message has no row before its first attempt, and until a second one only the
row of that attempt and rows that a database error has left (`AttemptInv`). Both
theorems cover database errors, which the run of `VideoEncoder` leaves out.
`ConfirmedWorkIsWhole` joins the second of these to `UndisturbedJobsAreWhole`:
a confirmed message has whole outputs behind it.

*When the documentation is right.* For each of the five disagreements that the
runs show there is a theorem that names its only cause. It states the
violated property under a condition, on the configuration or on the behaviour,
that leaves every other disturbance in place:

| Violated property | holds, says | if |
|---|---|---|
| `NothingDropped` | `PublishedMessagesAreKept` | the broker does not restart; connections and processes may be lost |
| `AcceptedIsQueued` | `AcceptedJobsAreQueued` | no connection is lost without the client knowing when it sends (`LossesAreNoticed`) |
| `RedeliveryCanProceed` | `TidyAttemptsMayBeRepeated` | no attempt ends with its directory left behind (`AttemptsTidyUp`) |
| `CompletedIsWhole` | `UndisturbedJobsAreWhole` | no two workers hold messages for one video (`OneAttemptPerVideo`); crashes, database errors and leftovers included |
| `NamedByRelativePath` | `CleanStoresAreNamedByRelativePath` | `localStoragePath` is a clean path |

With one worker, which is the default of the code (`job/manager.go:18`), the
fourth condition always holds: `OneWorkerCompletesWholeJobs` for the pipeline
and `OneWorkerConfirmsWholeWork` for the whole process need no condition on
the behaviour.

Assumptions. `Prefetch` is the number of workers (`main.go` sets it so);
`NoDelivery` and `None` are none of the things they stand for the lack of;
`Videos`, `Jobs` and malformed ids are told apart (`IdsAssumption`: ids are
UUIDs, of rows of two tables); the bounds are natural numbers. In `UploadNames`
a path is any non-empty sequence of strings (`PathsAssumption`), ids and directory
entries are neither empty nor "." nor ".." (`VideosAssumption`: ids are UUIDs;
`TreeAssumption`: so does a file system name its entries, and no two files
have one path). `QueueAssumption` and
`JobAssumption` are the assumptions of `Manager` and `Pipeline`, stated for
the constants that `VideoEncoder` gives them.

Only model-checked:

- Liveness: `EventuallySettled`, `ShutdownCompletes`, `ConsumerRecovers`,
  `EveryMessageDecided`, `AttemptsEnd`, `CallReturns`, `RequestsAnswered`. Fairness is
  stated with ENABLED, which is out of the prover's reach.
- The violations themselves: TLC finds a behaviour, the theorems above say
  where there is none.

## Where code and documentation disagree

1. `manager_restart`: messages are transient (`queue.go:219` sets no delivery
   mode), so a broker restart loses them; `README.MD:161-163` promises
   at-least-once delivery.
2. `publisher_accepted`: publishes are not confirmed; 202 "queued"
   (`server.go:79`) may be answered for a message written to a dead connection.
3. `pipeline_redelivery`: after a crash between Mkdir and Finish a redelivered
   job fails in Fragment; `README.MD:260-261` says that it overwrites its
   outputs.
4. `pipeline_whole`: a second attempt for a video truncates the source file of
   the first, which may complete with what is left.
5. `upload_names`: `objectName` (`upload/manager.go:38`) trims a prefix that
   does not match where `localStoragePath` is not a clean path; the comment
   above it promises "its path relative to VideoPath".

Smaller, without a run:

- The urn form of an id (`urn:uuid:...`) passes `validUUID` but is no uuid to
  Postgres: the lookup is answered 500, which the comment at
  `handlers.go:27-29` wants to exclude. `InternalErrorNeedsFault` excepts it.
- `POST /jobs` answers 500 when the lookup fails (`handlers.go:192`); its
  annotations (`handlers.go:154-158`) do not list that code.
- `maxFieldLen` counts bytes (`len`), the message says characters, and the
  columns count characters: some texts that would fit are refused.
- `main.go:47-48` says that required configuration is validated before any
  resource is opened; `RABBITMQ_QUEUE` and `RABBITMQ_URL` are read after the
  database connection.
- `README.MD:168` says that a signal "drains the HTTP server". `Shutdown` gives
  up after 15 s (`main.go:165`), and main's return ends what is left unanswered:
  `RequestsAnswered` excepts it. Requests that wait for the mutex may need longer,
  as each holder may spend two dials of 5 s.
- A row may go from Pending to Failed, when MarkProcessing reports an error; the
  diagram of `README.MD:99-107` has no such arrow, `JobLifecycle` does.

## Not modelled

- The media tools, the storage service and file contents, beyond success,
  failure and completeness; formats, logging, Swagger, environment parsing,
  schema migration.
- Columns other than ids, status and video; the deadlines of HTTP requests (a
  client that goes away is a handler whose answer nobody reads).
- The contents of objects written by two jobs with one output path: they
  overwrite each other, as `README.MD:260-261` says.
- Publisher flow control as such: a broker that blocks publishers is a send that
  does not return, which the premise of `RequestsAnswered` excludes.
- The opening of the database connection and the errors that end `main` before
  it has any state.
- `Manager.Enqueue` and `Client.IsReady`, which only tests call.

## Plan

Done: all modules above; a theorem for every safety property of every component,
and for each violated one a theorem about when it holds; the refinements of
`AtLeastOnce`, of `JobLifecycle`, and of `Manager` and `Pipeline` by the whole.

Left:
1. The upload pool under `Pipeline`'s stage `upload`, whose success the theorem
   `NilMeansStored` describes, as an instance.
2. The publisher connection and `Api` joined at `POST /jobs`.
