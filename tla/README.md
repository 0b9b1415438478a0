# A formal model of s3gator

s3gator is a web front end for Garage (an S3-compatible object store): a
NestJS API and worker (`apps/api`), a Next.js application (`apps/web`) and
shared packages (`packages/*`), with PostgreSQL for its records and Redis for
locks, counters and cached state. This directory holds TLA+ modules
that model the parts of it where order, failure and concurrency matter, the TLC
configurations that check them on small instances, and proofs checked by TLAPS.
Paths below are relative to `src/`.

## 1. Inventory

| Component | Source | State it keeps | Operations |
|---|---|---|---|
| Job queue | `apps/api/src/jobs/jobs.service.ts` | `jobs`, `job_events` tables; `job:lock:<id>` | enqueue, claimNext, markProgress, markCompleted, markFailed, markCanceled, requestCancel, lists |
| Job worker | `apps/api/src/jobs/jobs.worker.service.ts` | `running` flag, the job of the tick | tick, execute, five job bodies |
| Maintenance scheduler | `apps/api/src/jobs/maintenance-scheduler.service.ts` | the lock in Redis; heartbeat and task state in `app_settings` | tick, runTaskNow, executeTask |
| Retention | `apps/api/src/jobs/job-retention.service.ts` | jobs, events, audit logs, upload sessions and their archives | runCleanup |
| Locks and counters | `apps/api/src/redis/redis.service.ts` | Redis keys, or a map in memory | acquireLock, releaseLock, incrementWithWindow, get, delete |
| Multipart uploads | `apps/api/src/files/files.service.ts` | `upload_sessions` table; S3 multipart uploads | init, sign, part completed, complete, abort, fail, recover, cleanup |
| Upload client | `apps/web/lib/multipart-upload.ts`, `apps/web/app/files/page.tsx` | parts in flight | upload, retry, resume, cancel |
| S3 operations | `packages/s3/src` | objects of a bucket | list, rename and delete of files and folders, multipart calls, admin API |
| Sign-in | `apps/api/src/auth` | sessions, login counters | login (local, LDAP), logout, session lookup, limiter |
| Users | `apps/api/src/users` | users, roles | list, create, update |
| Buckets and grants | `apps/api/src/buckets`, `apps/api/src/authorization` | buckets, permissions, admin scopes | sync, setUserBucketPermissions, setAdminScopes, checks |
| Connections | `apps/api/src/connections` | Garage connections, the default | create, update, health check, the readers' fallback |
| Settings, audit, metrics, health, telemetry, crypto | `apps/api/src/...` | key-value rows, log rows, counters | read and write one row |
| Administration pages | `apps/web/app` | none of their own | forms over the API |

How they interact. The API and the worker processes share one database and one
Redis; no process calls another. The API enqueues jobs; the scheduler, a timer in
each worker process, enqueues maintenance jobs; workers claim jobs by a lock and
a conditional update and report by updating rows. The browser uploads parts to S3
directly with URLs the API signs, and tells the API what it did.

What is hard here: two processes act on one row between another's read and
write; locks expire under a live holder; a process dies between two writes that
belong together (nothing but the claim is transactional); reports fail after
they took effect; S3 and the database disagree; without Redis the locks exclude
nobody outside their process.

What makes each component correct:

- *Job queue and worker*: one executor per job while workers end in time; a job
  fails only when its attempts are used up; a running job can always be
  reclaimed; a destructive job is never retried by the retry path; a canceled
  job does no more work; every job ends.
- *Scheduler*: one leader; one active job per task; due times are acted on as
  read; every scheduled task recurs.
- *Retention*: nothing goes before its window, nothing is lost on the way to the
  archive, everything goes at last.
- *Uploads*: the object is whole; rows say what is in S3; no upload stays open
  in S3 that nobody knows of.
- *Rename and delete*: no content is lost; each key is moved or reported.
- *Sign-in, users, connections*: attempts are limited and a lockout ends; there
  is an active super admin; there is a default connection for whoever needs one.
- *Buckets and grants*: what a user may do is what the latest requests asked
  for, whole; a files request acts only with permissions given since it was sent;
  rows agree with Garage at last.

## 2. Modules

| Module | Models | State, and what it stands for |
|---|---|---|
| `RetryPolicy` | `getRetryPolicy`, `computeBackoffSeconds` | constants and functions only |
| `JobQueue` | `jobs.service.ts`, the loop of `jobs.worker.service.ts`, locks of `redis.service.ts` | `jobs` (rows), `events` (what of `job_events` the properties tell apart), `locks` (Redis, or one map per process), `worker` and `canceler` (locals of a process between two awaits) |
| `JobLifecycle` | what a client may rely on: submit, begin, succeed, retry, give up | the status of each job; `JobQueue` is shown to implement it |
| `MaintenanceScheduler` | `maintenance-scheduler.service.ts` | the lock, the active jobs per task, the state row per task, the locals of each tick or request |
| `UploadSession` | `files.service.ts` sessions, the browser's loop, the multipart side of S3, the cleanup of expired sessions | `row` (upload_sessions), `s3` (multipart uploads), `object`, `tab` (an attempt with its lanes), `found` (what the cleanup has listed) |
| `UploadLifecycle` | what clients see of a session: open, store, register, report, stop, complete, confirm, settle | status and recorded parts of each row, state and parts of each multipart upload, the object; `UploadSession` is shown to implement it |
| `Retention` | `job-retention.service.ts` | `hot` and `archive` (ids in the live and the archive tables), `born` (createdAt), `job`, `run` (stage, instant and batch of a cleanup) |
| `RecordLifecycle` | what readers of the records may rely on: write, archive, delete, purge | where each record is, and which are old for their table and for the archive; `Retention` is shown to implement it |
| `FolderJobs` | `renameFileOrFolder`, `deleteFileOrFolder` and what they call in `packages/s3` | `objects` (content by key), `run` (keys, lanes, page token and failures of an execution), `latest` (what users last put: history) |
| `Buckets` | `buckets/`, `authorization/`, the checks of `files.controller.ts` and `files.service.ts`, the job body of BUCKET_SYNC | `grants` and `scopes` (the two tables), `row` (bucket rows) and `garage` (what they copy), `request` (a request's locals), `sync` (what an execution has yet to copy); `asked`, `entrusted`, `given` are history |
| `Access` | `auth/`, `users/`, `connections/`, `bootstrap/seed.ts` of the API | `account` (role and activity), `session` (whose session a client's cookie names), `failures` and `window` (the attempt counter in Redis and its expiry), `connection` (which is the default), `request` (what each client's request has read and where it is), `seed` |
| `MC*` | | values of the constants for TLC |
| `*Proofs` | | theorems and their proofs |

`JobQueue` abstracts the body of a job to units of work with a cancel checkpoint
between them; `UploadSession`, `Retention`, `FolderJobs` and `Buckets` look into
the bodies and take from the queue only what it was shown not to exclude:
executions that overlap, die, and start again. `MaintenanceScheduler` takes from
it that jobs end, and `Buckets` from the scheduler that the sync recurs. `Access`
shares no state with the other modules but the roles, which change under the
requests of `Buckets` (`ChangeRole`); its connection is read by each job and file
operation, which appear in it as readers (`FindNone`). What a files request does
once `Buckets` has let it is in `UploadSession`, `FolderJobs` or `JobQueue`.
All modules follow one rule: one action per round trip to the
database, Redis or S3, and what a process read earlier is in its local record, so
TLC interleaves exactly where the code awaits. Statements that Prisma runs in one
transaction are one action.

S3 is modelled as the code uses it: an abort ends a multipart upload and discards
its parts, and fails for an upload that has ended; a part goes to an open upload
only; an upload is completed if it is open and has the parts that are listed, which
`s3` then keeps as what the object was assembled from.

Operators named as a mutant of another (for example `ExpiredOfAnyJob`) are not
part of the model: each is a definition with one plausible mistake, kept so that
it can be confirmed that the property beside it notices.

## 3. Runs

| Run | Instance | What it shows |
|---|---|---|
| `JobQueue_hostile` | one upload cleanup, two workers, one request, delays longer than the lock TTL, one crash, one error, one error after the write | types; a job fails only exhausted or destructive; a running row can be reclaimed; a claim that found a cancel request does no work |
| `JobQueue_prompt` | the same faults, no Redis, workers that end within the TTL | one executor at a time; no more attempts beyond the limit than crashes and errors; a job whose cancel request was observed is not reported completed |
| `JobQueue_calm` | a folder delete and a bucket sync, a crash, an error | one terminal event; final states are final; destructive jobs are not requeued; the queue implements `JobLifecycle`; each job ends |
| `JobQueue_late_error` | one error after the write | **violated** `OneTerminalEvent` (section 6) |
| `MaintenanceScheduler_prompt` | an API and a worker process, one run-once request, a scheduled task and one that is off but has an endpoint, one failure | one leader; one active job of the scheduled task; due times; the last success is kept; the task recurs |
| `MaintenanceScheduler_same_pid` | two processes with one pid | **violated** `SoleLeader` |
| `UploadSession_resume` | two attempts, two parts, two sessions, one failure | rows that say of S3 what is so, until an abort takes the parts away, the life cycle of `UploadLifecycle` (a whole object among it), and no open upload that neither a row nor a request or process at work knows, unless a failure came between |
| `UploadSession_dead_session` | one attempt at a time, one failure | **violated** `ResumedIsOpen` |
| `Retention_overlap` | two cleanups, two events of one job, one security log, both modes, one failure | nothing too early, lost, doubled or kept for ever; the tables and the archive implement `RecordLifecycle` |
| `FolderJobs_overlap` | two executions, of the folder or of one file, three keys, pages of two, two lanes, one write, one failed call or crash | no loss, no key missed, an end |
| `Buckets_overlap` | two requests that replace grants or scopes or check them, two users, two buckets, two permissions, two syncs, one failure | grants and scopes are the requests' last word; checks; rows agree with Garage at last |
| `Access_overlap` | two clients, two accounts, two connections, three requests, the seed, one failing statement, hybrid sign-in | attempts in flight are bounded and a lockout ends; the last super admin and the default connection stay, but for the exceptions the properties name; a reader without a connection gets one or an error |

Types are checked in `hostile` (with their mutant); `TypeOK` of every module is proved.

### Bounds, and why they are enough

- *Time.* Instants are offsets from now, clipped at `-Horizon`. Every comparison
  of the code is with an instant at most `MaxDelay + LockTTL` (or the largest
  backoff) away, and `Horizon` is larger, so clipped instants are told apart by
  nothing. A TTL of 1 or 2 ticks is enough to be before, at and after expiry;
  `MaxDelay` is below, at, and in `hostile` above it.
- *Queue.* Two workers give every overlap of a live claim, a stale one and a
  release; the invariants speak of one job at a time, and jobs meet only in the
  order of the candidates, which `calm` has with two. A retryable type has two
  attempts, so first, last and excess attempts occur; `AttemptCap` is above them.
  Nine lock tokens outlast the claims of any run. One fault of each kind already
  meets every step; two of one kind are covered by the proofs, which bound none.
- *Scheduler.* Two ticks and a request meet in every pair of kinds; the lock
  makes any two runners alike.
- *Uploads.* Two parts are the least with a lost report of one; two sessions the
  least with recovery of an older row; `MaxAttempts` starts a third attempt after
  a stop.
- *Retention.* Windows of one and two days and a horizon of five pass every
  window after the last birth. A batch of one makes the loop go round for two
  events. `MaxLag` of one makes an event later than its job's end.
- *Folders.* Three keys in pages of two are a full and a last page; two lanes of
  three keys leave a key for a lane that is done. One of the keys is renamed and
  deleted singly (`Files`): it is in the middle, so a folder's run meets it before,
  with and after another key.
- *Buckets.* `MaxEvents` counts requests, changes of a role and changes in Garage
  alike: two are two requests that overlap, or one that loses its role meanwhile.
  Two names and two ids have a bucket renamed, replaced and exchanged. `MCInit`
  has one super admin and one user who is an administrator or not, with at most
  one permission or any scope. `MCChecks` has the two checks of a
  download, the guard's and the service's, which is the most a request meets.
- *Access.* `MaxCalls` counts requests, ended sessions and the start of the seed:
  three are two requests that overlap and one that made way for them. A limit of
  one attempt and a window of one tick have every order of check, failure and
  expiry of two attempts. `MCPatches` has a change of role up and down, of
  activity either way, and both at once; the field that is left out is `Keep`.
  `MCInit` keeps one of the initial states that differ only by the names of the
  clients, and leaves out accounts with role USER, which updates lead to. The
  proofs bound nothing of this.

### Fairness

Safety runs use none. `JobQueue` (calm): time passes; a worker process keeps
polling and goes on with what it does (a `setInterval` and a chain of awaits; a
process that died is a `WorkerCrash`, not an unfair worker, and workers are
restarted by their supervisor); a request once accepted runs. `MaintenanceScheduler`: timers fire, a
started tick goes on, jobs end. `Retention`: the scheduler recurs (shown above)
and an execution goes on. `FolderJobs`: an execution that is not dead goes on.
`Buckets`: the sync recurs (`EveryTaskRecurs`) and an execution goes on.
`Access`: Redis expires keys, and a request under way is answered, be it by an
error; nobody is assumed to send one.
All of it is weak fairness of one process's next step; no fairness chooses
between outcomes, so calls may fail whenever the bound on failures allows.

`CHECK_DEADLOCK FALSE` is set where the system comes to rest: uploads and folder
jobs when attempts are used up.

## 4. Proofs

| Theorem | States | For |
|---|---|---|
| `JobQueueProofs!TypeCorrect` | `Spec => []TypeOK` | all constants |
| `JobQueueSafetyProofs!RunningReclaimable` | `Spec => []RunningIsReclaimable` | all constants |
| `JobQueueSafetyProofs!FailedOnlyExhausted` | `Spec => []FailedMeansExhausted` | all constants |
| `JobQueueSafetyProofs!DestructiveStaysOut` | `Spec => DestructiveNotRequeued` | all constants |
| `JobQueueSafetyProofs!CanceledDoesNoWork` | `Spec => []CanceledClaimDoesNoWork` | all constants |
| `JobQueueSafetyProofs!OneExecutor` | `MaxDelay <= LockTTL /\ Spec => []SoleExecutor` | workers that end in time |
| `JobQueueSafetyProofs!ExcessNeedsFaults`, `!ObservedCancelKept` | `MaxDelay <= LockTTL /\ Spec =>` `[]ExcessAttemptsNeedFaults`, `[]ObservedCancelIsKept` | workers that end in time |
| `JobQueueSafetyProofs!QueueImplementsLifecycle`, `!TerminalFinal`, `!TerminalEventOnce` | `Calm /\ Spec =>` `ImplementsLifecycle`, `TerminalIsFinal`, `[]OneTerminalEvent` | workers that end in time, nothing canceled, no report throws (`Calm`) |
| `MaintenanceSchedulerProofs!TypeCorrect` | `Spec => []TypeOK` | all constants |
| `MaintenanceSchedulerProofs!OneLeader`, `!OneJobAtATime`, `!EnqueuedWhenDue`, `!SuccessStays` | `Prompt /\ DistinctNames /\ Spec =>` `[]SoleLeader`, `[]OneActiveJob`, `[]DueWhenEnqueued`, `SuccessIsKept` | runners quicker than the lock's TTL, of distinct names |
| `UploadSessionProofs!TypeCorrect`, `FolderJobsProofs!TypeCorrect` | `Spec => []TypeOK` | all constants; prefixes that are apart |
| `UploadSessionProofs!RecordedStored`, `!CompletedAssembled`, `!ObjectWhole`, `!OpenUploadsKnown` | `Spec => []` of `RecordedIsStored`, `CompletedIsAssembled`, `ObjectIsWhole`, `OpenUploadsAreKnown` | all constants |
| `UploadSessionProofs!UploadImplementsLifecycle` | `Spec => ImplementsUploadLifecycle` | all constants |
| `FolderJobsProofs!NothingIsLost`, `!NothingIsMissed` | `Spec => []NothingLost`, `Spec => []DoneOrReported` | prefixes that are apart |
| `FolderJobsProofs!EveryRunIsBounded` | `Spec => [](Left(run[r]) <= 3n + 4)`, `Spec => [][Advances]_vars`: each step of an execution lowers `Left` | prefixes that are apart |
| `RetentionProofs!TypeCorrect`, `!RowsStayLongEnough`, `!NoHistoryLost`, `!NothingTwice` | `Spec => []` of `TypeOK`, `HotLongEnough`, `HistoryKept`, `NeverBoth` | event windows within job windows |
| `RetentionProofs!RetentionImplementsLifecycle` | `Spec => ImplementsRecordLifecycle` | event windows within job windows |
| `RetentionProofs!CleanupIsBounded` | `Spec => [](Left(run[r], hot, born) <= 2n + 8)`, `Spec => [][Advances]_vars`: each step of a cleanup lowers `Left`, no other step raises it | event windows within job windows |
| `BucketsProofs!TypeCorrect`, `!GrantsAreRequested`, `!GrantsAreDecided`, `!ScopesAreDecided` | `Spec => []` of `TypeOK`, `GrantsAreAskedFor`, `OneRequestDecides`, `OneScopeDecides` | all constants |
| `BucketsProofs!FilesAreGranted`, `!ScopesAreObserved` | `Spec => []` of `OperationsAreGranted`, `ChangesAreInScope` | all constants |
| `AccessProofs!Typing` | `Spec => []TypeOK`, `Spec => []Decided` | all constants |
| `AccessProofs!LimiterHolds` | `Spec => []LimiterBound` | all constants |
| `AccessProofs!SuperAdminHolds` | `Spec => SuperAdminRemains` | all constants |
| `AccessProofs!DefaultHolds` | `Spec => DefaultRemains` | all constants |
| `AccessProofs!CountersExpire` | `Spec => []Expires`, `Spec => [][Approaches]_vars`: a counter above 0 has an expiry, and nothing puts it off | all constants |

The arguments.

- *Rows.* `RunningIsReclaimable` is the part of `RowsSound` that concerns one
  row; it is inductive because each update of the code writes status, `lockedAt`
  and `lockKey` together, so one lemma on what an update can make of a row
  (`RowChange`) serves all actions.
- *Attempts.* That a failed job is exhausted depends on a decision made from an
  older read. `RetryDecided` carries it: a worker about to write FAILED read an
  attempt count that the row has not fallen below since (`AttemptsGrow`).
- *Cancel.* `ClaimFoundCancel` says that a claim that returned a cancel request
  still has it in the row: no update clears `cancelRequestedAt` (`CancelStays`).
- *One executor.* `SoleInv` has three parts: a claim is younger than `MaxDelay`
  (`ClaimIsYoung`), the row of an engaged worker says RUNNING since then
  (`ClaimIsRecorded`), and no two workers are engaged with one job
  (`SoleEngaged`). A claimable row is then staler than any live claim. The proof
  nowhere uses `locks`: the conditional update of `claimNext` excludes, the Redis
  lock only saves attempts.
- *Excess attempts.* A job that waits, or that is RUNNING with nobody engaged, has
  an attempt of its budget left (`AttemptLeft`), where each crash and each error
  adds one to the budget: a worker stops being engaged by writing another status,
  by releasing after that, or by a fault (`Disengages`), and a decided retry still
  has its attempt when the row is written (`RetryStands`).
- *Observed cancel.* Whoever is past its last look for a cancel request is the only
  engaged worker and found none (`FinishesUnseen`), so the one that observes a
  request is another state of the same worker or of an earlier attempt; and while
  it works the row is not completed (`WorkIsOpen`).
- *Life cycle.* When nothing is canceled and no report throws, the job of a worker
  that has not written its report is in RUNNING (`ExecutedIsRunning`): the row of
  an engaged worker changes by its own write only (`EngagedRow`). Hence each write
  of the table is one step of `JobLifecycle` (`LifecycleStep`), terminal rows stay
  (`TerminalStays`), and a terminal event is owed by at most one worker, the one
  that wrote the status, and by it only once (`DueIsOpen`, `SoleDue`).
- *One leader.* `SoleLeader` needs that whoever leads still has the lock, for its
  TTL less the age of the tick (`Held`): it took the lock, the lock outlives the
  tick since `MaxDelay < LockTTL` (`Prompt`), and nobody else's release compares
  equal, since names differ (`DistinctNames`; with one pid in two containers they
  do not, and the run `same_pid` shows what follows). With a sole leader, what it
  read stays true until it writes: no job is active after the guard (`Guarded`),
  the due time (`DueKnown`) and the last success (`PreviousKnown`) are those read.
- *Uploads.* Until an abort discards an upload for good, parts only join it, and a
  completed one stays so (`Later`). `UInv` adds to the two properties that what an
  attempt holds, or a report under way has read, is true of its upload unless it
  has been aborted (`Sound`); by `Later` it remains so however stale the reader,
  and a report that overwrites another records too little, never too much. After
  an abort nothing of this holds: the row keeps its parts and S3 has none, which
  is what `RecordedIsStored` and the abstract `Report` leave out and what the run
  `dead_session` shows.
  `VInv` adds what an attempt must not lose: each part is held or still to be
  sent while it uploads (`Whole`), and its row exists and its upload was opened
  (`Relies`). The uploads without a row and without an attempt (`Rowless`) are
  counted: a step adds one only by a failure in state `create`, so they never
  exceed `failures`.
- *Life cycle of an upload.* The refinement maps a row to its status and parts and
  an upload to its state and parts, and forgets attempts. `Registers` adds what no
  single property says: the attempt that is to write a row is the only one with
  this session, which has no row yet, and parts are under way only for a session
  with a row (`Working`). Then each write of a row is a `Register`, `Report`,
  `Confirm` or `Settle` (`RowLives`), each call to S3 that succeeds an `Open`,
  `Store`, `Complete` or, with the loss of the parts, `Stop` (`UploadStops`), and
  everything else a stutter (`TabLives`).
- *Retention.* A batch holds rows that were expired at the instant of its run and
  have stayed so, since births and ends are final (`BatchOK`). Past the stages of
  events, no hot event but a late one is left of a job the run may delete
  (`GoneOK`): an expired one would have been found by the stage's last query, a
  newer one of such a job is late, and a job that ends after the run began is not
  old for it. The cascade therefore takes late events only.
- *Life cycle of a record.* Which rows are old is a function of clock, births and
  ends, and grows (`Age` in `RecordLifecycle`). A row that a step takes from its
  table, or from both places, was in one of them before; that it was old enough is
  what `HotLongEnough` and `HistoryKept` say of the state after the step, and these
  hold there because they are invariants. What remains is the shape of each step:
  nothing returns to a table, and what an archiving takes away it has copied.
- *An end to every cleanup.* While a cleanup works, users go on writing events and
  logs, other cleanups archive the rows it has selected, and jobs end, which makes
  more rows match. `Left` counts the rows in its batch and those that were in the
  tables at its instant, `now`; only they can ever match, since a window is not
  negative, and whatever is written later is born at `now` or after
  (`NothingAdded`). A query that finds nothing goes to the next stage, one that
  finds rows takes a batch, and the transaction takes the batch's rows out of the
  table (`LeftFalls`).
- *Buckets.* Each inserted set was asked for by the request that inserts it
  (`WantIsAsked`), and as long as no other replacement is between its statements
  the table is one of the sets in the history; the same argument serves grants and
  scopes. For the checks, `Covered` says that what a request may still find in the
  tables is among what it was given since it was sent, and `Passed` that so is
  what it has found.
- *Folders.* A key under the folder holds its latest content or nothing
  (`SourceIsLatest`), because only copies to targets, which are elsewhere, could
  bring back an older one; and when some execution has copied a key and is yet to
  delete it, the target holds the latest content (`CopyIsLatest`), except after a
  write in between. That no key is missed goes key by key (`KeySound`): while a
  run lists, a key it works on that nobody has written is gone, reported, beyond
  the page token, or waiting in a lane. A page leaves nothing between two tokens
  behind (`PageFacts`), no step brings such a key back (`StepKeeps`), and a lane
  ends with the key gone or reported (`LaneSound`).
- *An end to every execution.* `Left` counts the keys beyond the page token and the
  calls that wait in lanes; users may fill a folder as fast as it is emptied, but a
  page that is not the last is full and so passes a key (`PagePasses`), and each call
  takes its key further (`LanePasses`). That the next step comes is fairness, and
  with it `EveryRunEnds` is left to TLC.
- *Access.* Types need `Decided`: a request about to write an account has found
  one, or has a role to create it with. `LimiterBound` is inductive with the
  types: a failure moves one attempt from the pending to the counter, and a check
  that passes reads a counter below the limit, when at most the other clients are
  pending. For the super admin, `Managed` says what a request past `FindTarget`
  was found allowed to do, with the roles as read; an update that is not `Stale`
  is then one of another account by a super admin, who remains. For the default,
  `Clearing` says that only a request for the default is on its way through the
  clearing statements, so that each clearing is followed by a setting. The first
  failure of a window sets the counter's expiry and later ones leave it
  (`ExpiryStep`): attempts at a locked account do not prolong its lockout.

Assumptions on constants are the named `ASSUME`s of each module; TLC evaluates
them in every run. `RetentionAssumption` has `EventDays <= TerminalDays`, which
holds of the defaults (30 and 30 days) but which `env.ts` does not enforce.

Only model-checked: liveness (`EveryJobEnds`, `EveryTaskRecurs`, `FallbackHeals`,
`RowsConverge`; and `EventuallyGone` but for `CleanupIsBounded`, `EveryRunEnds` but
for `EveryRunIsBounded`, `LockoutEnds` but for `CountersExpire`), since the prover
has no rules for fairness and `ENABLED`; every other property of a passing run is a
theorem. What needs induction over data stays with TLC, too; no module declares a
`RECURSIVE` operator.

## 5. Plan

Written, in this order: the queue and its worker, the scheduler, uploads,
retention, folder jobs, access, buckets and grants; then the proofs of every
safety property. To come: a rename into a folder below the source, which
`FolderAssumption` excludes.

## 6. Where the code and its documents disagree

Shown by a run each:

- A late error of `markCompleted` is taken for a failure of the work: the
  completed job is queued or failed again (`JobQueue_late_error`).
- The lock value of the scheduler is pid and millisecond; with one pid in each
  container, the `finally` of a refused tick frees the leader's lock
  (`MaintenanceScheduler_same_pid`).
- A failed upload leaves a session that every later attempt finds and cannot
  resume: its row keeps the parts that were recorded, which the attempt skips, and
  the abort has discarded them in S3 (`UploadSession_dead_session`).

Met while modelling, without a run of their own:

- `requestCancel` cancels by id a job that may be running by then.
- `executeUploadCleanup` swallows the cancel request its checkpoint observes.
- Two replacements of one user's grants that overlap may leave the union of both
  sets; one that fails between its statements leaves none, and `setAdminScopes`
  for an unknown bucket always does (`asked` and `entrusted` say which sets).
- Rows of buckets that are gone from Garage stay, with their grants.
- An upload that S3 opened before its row was written is known to nobody after a
  failure in between; nothing lists S3's open uploads.
- A run longer than `JOB_LOCK_TTL_SECONDS` is executed twice (`hostile` allows it
  and checks what holds all the same).
- The two cleanup endpoints enqueue beside an active job, which the scheduler
  never does: `OneActiveJob` speaks of the other tasks.
- The terminal event of a job is written after its row and may outlive the event
  window's cut; the cascade then deletes it un-archived (`Late` in `Retention`).
- Deleting a file deletes the folder of its name, too (`ProbeFolder`).
- A folder renamed to its own name is left alone, but a file is copied onto
  itself and then deleted, unless S3 refuses the copy.
- A folder can be renamed into a folder below itself; a write between the copy
  and the delete of its key is deleted (`raced` in `FolderJobs`).
- With `Quiet: true`, `DeleteObjects` reports no deleted keys, so a folder
  delete always counts 0.
- `create` of a connection with a taken name fails after it has cleared the
  default; two readers that both make the environment's connection can leave no
  default until the next read (the exceptions of `DefaultRemains`).
- Two super admins who demote one another at once both succeed (`Stale`).
- A login whose audit record fails is answered by an error, and counts as a
  failed attempt, after its session was opened.
- `admin.scope.update` is not among the security actions of the retention policy.

## 7. Not modelled

`runSyncFromGarage` of the buckets service, which nothing calls. Single-row reads and writes
(settings, audit, lists, health), pure functions (crypto, schemas, key
normalisation), metrics and telemetry, process start, the pages of
the web application other than the upload loop, the Garage admin client, and the
reliability scripts. Within modelled parts: job payloads and progress numbers,
`markProgress` of a rename, which is not awaited, the lists of the queue, the
deletion of old upload sessions, files outside the folder of `FolderJobs`, and the
wording of events and errors. In `Access`: passwords and LDAP's answers are
choices, an LDAP entry has the name that was typed, names of connections stay,
settings stay during a run, a username has one counter (the code has one per
address of the client), and a statement that fails has had no effect.
