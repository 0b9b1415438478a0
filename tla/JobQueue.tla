------------------------------ MODULE JobQueue ------------------------------
(***************************************************************************)
(* The background-job queue: the `jobs` table, the per-job Redis locks,    *)
(* the worker processes that claim and execute jobs (jobs.service.ts and   *)
(* jobs.worker.service.ts) and the API requests that cancel them.          *)
(*                                                                         *)
(* One action per database or Redis round trip: whatever the code reads    *)
(* before an `await` and uses after it is kept in the process's local      *)
(* record, so that every interleaving of workers and API requests at those *)
(* points is explored.                                                     *)
(*                                                                         *)
(* Time.  A timestamp is kept as its offset from the present (0 is now,    *)
(* negative is past); Tick ages all of them and lets locks expire.  Past   *)
(* offsets stop at -Horizon, beyond which no comparison of the code can    *)
(* tell them apart, so time runs for ever in finitely many states.         *)
(***************************************************************************)
EXTENDS RetryPolicy, FiniteSets

CONSTANTS
    NumJobs,       \* job slots; slot order is createdAt order
    JobType,       \* the type each slot is enqueued with
    Workers,       \* worker processes
    Cancelers,     \* API requests that may cancel a job
    Tokens,        \* lock tokens (workerId:uuid)
    LockTTL,       \* JOB_LOCK_TTL_SECONDS, in ticks
    MaxDelay,      \* longest time a live worker spends on one claimed job
    Horizon,       \* oldest offset kept
    AttemptCap,    \* attemptCount stops here, above every maxAttempts
    LoopItems,     \* items of one bucket sync or upload cleanup
    RedisEnabled,  \* FALSE: locks live in the memory of each process
    MaxCrashes, MaxErrors, MaxLateErrors, MaxCancels,  \* environment bounds
    Null

Jobs == 1..NumJobs

ASSUME QueueAssumption ==
    /\ NumJobs \in Nat \ {0}
    /\ JobType \in [Jobs -> JobTypes]
    /\ LockTTL \in Nat \ {0} /\ MaxDelay \in Nat \ {0}
    /\ Horizon \in Nat /\ Horizon > MaxDelay + LockTTL
    /\ AttemptCap \in Nat
    /\ \A type \in JobTypes : MaxAttempts(type) < AttemptCap
    /\ LoopItems \in Nat \ {0}
    /\ RedisEnabled \in BOOLEAN
    /\ MaxCrashes \in Nat /\ MaxErrors \in Nat
    /\ MaxLateErrors \in Nat /\ MaxCancels \in Nat
    /\ Null \notin Int /\ Null \notin Tokens /\ Null \notin Jobs
    /\ Workers \cap Cancelers = {}

VARIABLES
    jobs,       \* the jobs table
    locks,      \* job:lock:<id> in Redis, or in each process's memory
    events,     \* the rows of job_events the properties speak of
    worker,     \* JobsWorkerService: local state of the running tick
    canceler,   \* local state of a requestCancel call
    faults      \* crashes, errors and cancel requests so far

vars == <<jobs, locks, events, worker, canceler, faults>>

-----------------------------------------------------------------------------
Terminal == {"COMPLETED", "FAILED", "CANCELED"}
Statuses == {"NONE", "QUEUED", "RUNNING"} \cup Terminal   \* NONE: no row yet
Times    == (-Horizon)..0

Redis  == "redis"
Stores == IF RedisEnabled THEN {Redis} ELSE Workers \cup Cancelers
StoreOf(p) == IF RedisEnabled THEN Redis ELSE p

FreeLock  == [value |-> Null, ttl |-> 0]
HeldLock(token) == [value |-> token, ttl |-> LockTTL]

NoJob == [status |-> "NONE", attemptCount |-> 0, nextRetryAt |-> Null,
          lockedAt |-> Null, lockKey |-> Null, cancelRequested |-> FALSE,
          completed |-> FALSE]

\* An event count stops at 2: the properties tell none, one and more apart.
EventCap == 2
NoEvents == [completed |-> 0, failed |-> 0, canceled |-> 0, cancelObserved |-> FALSE]
TerminalEvents(j) == events[j].completed + events[j].failed + events[j].canceled
Counted(n) == Smaller(n + 1, EventCap)

(***************************************************************************)
(* The local state of a worker's tick.  pc names the call it awaits next:  *)
(* claimNext (lock, claim, unlock), execute (start, checkpoint, unit,      *)
(* after), then markCompleted, markFailed or markCanceled (read, write,    *)
(* event, release).  `outcome` says which mark; "cancelEarly" is the       *)
(* markCanceled of the check before start, which is inside the try block.  *)
(***************************************************************************)
Executing == {"start", "checkpoint", "unit", "after", "read", "write"}
Marking   == {"read", "write", "event", "release"}
WorkerPcs == {"idle", "lock", "claim", "unlock"} \cup Executing \cup Marking
Outcomes  == {"none", "complete", "fail", "cancel", "cancelEarly"}

IdleWorker == [pc |-> "idle", job |-> Null, now |-> 0, token |-> Null,
               left |-> 0, cancelAtClaim |-> FALSE, outcome |-> "none",
               retryAt |-> Null, lockKey |-> Null]
IdleCanceler == [pc |-> "idle", job |-> Null, lockKey |-> Null]

Init ==
    /\ jobs     = [j \in Jobs |-> NoJob]
    /\ locks    = [s \in Stores |-> [j \in Jobs |-> FreeLock]]
    /\ events   = [j \in Jobs |-> NoEvents]
    /\ worker   = [w \in Workers |-> IdleWorker]
    /\ canceler = [c \in Cancelers |-> IdleCanceler]
    /\ faults   = [crashes |-> 0, errors |-> 0, lateErrors |-> 0, cancels |-> 0]

\* Assignments to the local state of one process.
Become(w, r)     == worker' = [worker EXCEPT ![w] = r]
BecomeCanceler(c, r) == canceler' = [canceler EXCEPT ![c] = r]

-----------------------------------------------------------------------------
(* Time *)

Aged(t)       == IF t = Null THEN Null ELSE Larger(t - 1, -Horizon)
\* Mutants of AgedLock: a lock outlives its TTL, or has none.
AgedLockPastZero(l) == [l EXCEPT !.ttl = @ - 1]
AgedLockForever(l)  == l

AgedLock(l)   == IF l.ttl <= 1 THEN FreeLock ELSE [l EXCEPT !.ttl = @ - 1]
AgedJob(r)    == [r EXCEPT !.nextRetryAt = Aged(@), !.lockedAt = Aged(@)]
AgedWorker(r) == IF r.pc = "idle" THEN r
                 ELSE [r EXCEPT !.now = Aged(@), !.retryAt = Aged(@)]

\* Time passes, but never so much that a live worker exceeds MaxDelay.
Tick ==
    /\ \A w \in Workers : worker[w].pc # "idle" => worker[w].now > -MaxDelay
    /\ jobs'   = [j \in Jobs |-> AgedJob(jobs[j])]
    /\ locks'  = [s \in Stores |-> [j \in Jobs |-> AgedLock(locks[s][j])]]
    /\ worker' = [w \in Workers |-> AgedWorker(worker[w])]
    /\ UNCHANGED <<events, canceler, faults>>

-----------------------------------------------------------------------------
(* RedisService.acquireLock and releaseLock *)

Acquire(p, j, token) ==
    /\ locks[StoreOf(p)][j].value = Null
    /\ locks' = [locks EXCEPT ![StoreOf(p)][j] = HeldLock(token)]

\* Compare and delete; a job without a lockKey releases nothing.
Release(p, j, token) ==
    locks' = IF token # Null /\ locks[StoreOf(p)][j].value = token
             THEN [locks EXCEPT ![StoreOf(p)][j] = FreeLock]
             ELSE locks

-----------------------------------------------------------------------------
(* JobsService.enqueue *)

Enqueue(j) ==
    /\ jobs[j].status = "NONE"
    /\ \A i \in Jobs : i < j => jobs[i].status # "NONE"
    /\ jobs' = [jobs EXCEPT ![j].status = "QUEUED"]
    /\ UNCHANGED <<locks, events, worker, canceler, faults>>

-----------------------------------------------------------------------------
(* JobsService.claimNext *)

\* Mutants of Claimable: a lock that is just as old as the TTL counts as stale;
\* or a stale row is claimed whatever its status.
ClaimableAtExpiry(j, now) ==
    \/ /\ jobs[j].status = "QUEUED"
       /\ jobs[j].nextRetryAt # Null => jobs[j].nextRetryAt <= now
    \/ /\ jobs[j].status = "RUNNING"
       /\ jobs[j].lockedAt # Null
       /\ jobs[j].lockedAt <= now - LockTTL

ClaimableAnyStale(j, now) ==
    \/ /\ jobs[j].status = "QUEUED"
       /\ jobs[j].nextRetryAt # Null => jobs[j].nextRetryAt <= now
    \/ /\ jobs[j].lockedAt # Null
       /\ jobs[j].lockedAt < now - LockTTL

\* The where clause of both the findFirst and the updateMany.
Claimable(j, now) ==
    \/ /\ jobs[j].status = "QUEUED"
       /\ jobs[j].nextRetryAt # Null => jobs[j].nextRetryAt <= now
    \/ /\ jobs[j].status = "RUNNING"
       /\ jobs[j].lockedAt # Null
       /\ jobs[j].lockedAt < now - LockTTL

Candidates == {j \in Jobs : Claimable(j, 0)}

\* A uuid is any token that occurs nowhere yet.
TokensInUse ==
    {jobs[j].lockKey : j \in Jobs}
    \cup {locks[s][j].value : s \in Stores, j \in Jobs}
    \cup {worker[w].token : w \in Workers} \cup {worker[w].lockKey : w \in Workers}
    \cup {canceler[c].lockKey : c \in Cancelers}

ClaimFind(w) ==
    /\ worker[w].pc = "idle"
    /\ \E j \in Candidates :
        /\ \A i \in Candidates : j <= i
        /\ Tokens \ TokensInUse # {}
        /\ Become(w, [IdleWorker EXCEPT
              !.pc = "lock", !.job = j, !.now = 0,
              !.token = CHOOSE t \in Tokens : t \notin TokensInUse])
    /\ UNCHANGED <<jobs, locks, events, canceler, faults>>

ClaimLock(w) ==
    /\ worker[w].pc = "lock"
    /\ \/ /\ Acquire(w, worker[w].job, worker[w].token)
          /\ Become(w, [worker[w] EXCEPT !.pc = "claim"])
       \/ /\ locks[StoreOf(w)][worker[w].job].value # Null
          /\ Become(w, IdleWorker)
          /\ UNCHANGED locks
    /\ UNCHANGED <<jobs, events, canceler, faults>>

Claimed(r, now, token) ==
    [r EXCEPT !.status = "RUNNING", !.lockedAt = now, !.lockKey = token,
              !.nextRetryAt = Null, !.attemptCount = Smaller(@ + 1, AttemptCap)]

\* A mutant of ClaimUpdate: update by id, without the condition.
ClaimUpdateUnchecked(w) ==
    LET j == worker[w].job IN
    /\ worker[w].pc = "claim"
    /\ jobs' = [jobs EXCEPT ![j] = Claimed(@, worker[w].now, worker[w].token)]
    /\ Become(w, [worker[w] EXCEPT !.pc = "start", !.token = Null,
                                   !.cancelAtClaim = jobs[j].cancelRequested])
    /\ UNCHANGED <<locks, events, canceler, faults>>

\* The conditional updateMany: the condition is evaluated again, in the
\* database, against the instants computed when the call began.
ClaimUpdate(w) ==
    LET j == worker[w].job IN
    /\ worker[w].pc = "claim"
    /\ \/ /\ Claimable(j, worker[w].now)
          /\ jobs' = [jobs EXCEPT ![j] = Claimed(@, worker[w].now, worker[w].token)]
          /\ Become(w, [worker[w] EXCEPT !.pc = "start", !.token = Null,
                                         !.cancelAtClaim = jobs[j].cancelRequested])
       \/ /\ ~Claimable(j, worker[w].now)
          /\ Become(w, [worker[w] EXCEPT !.pc = "unlock"])
          /\ UNCHANGED jobs
    /\ UNCHANGED <<locks, events, canceler, faults>>

ClaimAbandon(w) ==
    /\ worker[w].pc = "unlock"
    /\ Release(w, worker[w].job, worker[w].token)
    /\ Become(w, IdleWorker)
    /\ UNCHANGED <<jobs, events, canceler, faults>>

-----------------------------------------------------------------------------
(* JobsWorkerService.execute *)

LoopTypes   == {"BUCKET_SYNC", "UPLOAD_CLEANUP"}
Units(type) == IF type \in LoopTypes THEN LoopItems ELSE 1

Observe(j) == events' = [events EXCEPT ![j].cancelObserved = TRUE]

\* Leave the body of execute for the mark of the given outcome.
Conclude(w, outcome) ==
    Become(w, [worker[w] EXCEPT !.pc = "read", !.outcome = outcome])

\* Where the worker goes when an item is done or skipped.
NextItem(w) ==
    LET type == JobType[worker[w].job] IN
    IF worker[w].left > 1
    THEN Become(w, [worker[w] EXCEPT !.left = @ - 1, !.pc = "checkpoint"])
    ELSE IF type \in LoopTypes
         THEN Become(w, [worker[w] EXCEPT !.left = 0, !.pc = "read",
                                          !.outcome = "complete"])
         ELSE Become(w, [worker[w] EXCEPT !.left = 0, !.pc = "after"])

\* A mutant of CheckBeforeStart: the work begins unchecked.
StartUnchecked(w) ==
    /\ worker[w].pc = "start"
    /\ Become(w, [worker[w] EXCEPT !.pc = "checkpoint",
                                   !.left = Units(JobType[worker[w].job])])
    /\ UNCHANGED <<jobs, locks, events, canceler, faults>>

\* isCancelRequested before the job's own code runs.
CheckBeforeStart(w) ==
    LET j == worker[w].job IN
    /\ worker[w].pc = "start"
    /\ \/ /\ jobs[j].cancelRequested
          /\ Observe(j)
          /\ Conclude(w, "cancelEarly")
       \/ /\ ~jobs[j].cancelRequested
          /\ Become(w, [worker[w] EXCEPT !.pc = "checkpoint",
                                         !.left = Units(JobType[j])])
          /\ UNCHANGED events
    /\ UNCHANGED <<jobs, locks, canceler, faults>>

\* A mutant of Checkpoint: every loop takes the cancellation for a failed item.
CheckpointSwallowing(w) ==
    LET j == worker[w].job IN
    /\ worker[w].pc = "checkpoint"
    /\ \/ /\ ~jobs[j].cancelRequested
          /\ Become(w, [worker[w] EXCEPT !.pc = "unit"])
          /\ UNCHANGED events
       \/ /\ jobs[j].cancelRequested
          /\ Observe(j)
          /\ NextItem(w)
    /\ UNCHANGED <<jobs, locks, canceler, faults>>

\* throwIfCancelRequested before an item.  The upload cleanup calls it inside
\* the try block of the item, whose catch takes the JobCanceledError for a
\* failed item and goes on with the next one.
Checkpoint(w) ==
    LET j == worker[w].job IN
    /\ worker[w].pc = "checkpoint"
    /\ \/ /\ ~jobs[j].cancelRequested
          /\ Become(w, [worker[w] EXCEPT !.pc = "unit"])
          /\ UNCHANGED events
       \/ /\ jobs[j].cancelRequested
          /\ Observe(j)
          /\ IF JobType[j] = "UPLOAD_CLEANUP" THEN NextItem(w)
                                              ELSE Conclude(w, "cancel")
    /\ UNCHANGED <<jobs, locks, canceler, faults>>

\* The work itself: one bucket, one session, or the whole rename, delete or
\* retention cleanup.  Its effects are outside the jobs table.
DoUnit(w) ==
    /\ worker[w].pc = "unit"
    /\ NextItem(w)
    /\ UNCHANGED <<jobs, locks, events, canceler, faults>>

\* throwIfCancelRequested after a rename, a delete or a retention cleanup.
CheckAfter(w) ==
    LET j == worker[w].job IN
    /\ worker[w].pc = "after"
    /\ \/ /\ jobs[j].cancelRequested
          /\ Observe(j)
          /\ Conclude(w, "cancel")
       \/ /\ ~jobs[j].cancelRequested
          /\ Conclude(w, "complete")
          /\ UNCHANGED events
    /\ UNCHANGED <<jobs, locks, canceler, faults>>

\* An awaited call of the work throws: step_error, then markFailed.
WorkThrows(w) ==
    /\ faults.errors < MaxErrors
    /\ worker[w].pc \in {"start", "checkpoint", "unit", "after"}
    /\ Conclude(w, "fail")
    /\ faults' = [faults EXCEPT !.errors = @ + 1]
    /\ UNCHANGED <<jobs, locks, events, canceler>>

\* The upload cleanup reports an item whose calls throw and goes on.
ItemThrows(w) ==
    /\ faults.errors < MaxErrors
    /\ worker[w].pc \in {"checkpoint", "unit"}
    /\ JobType[worker[w].job] = "UPLOAD_CLEANUP"
    /\ NextItem(w)
    /\ faults' = [faults EXCEPT !.errors = @ + 1]
    /\ UNCHANGED <<jobs, locks, events, canceler>>

\* markCompleted and the early markCanceled are in the same try block: when one
\* of their calls throws, the job they may already have written is failed.
ReportThrows(w) ==
    /\ faults.lateErrors < MaxLateErrors
    /\ worker[w].pc \in Marking
    /\ worker[w].outcome \in {"complete", "cancelEarly"}
    /\ Conclude(w, "fail")
    /\ faults' = [faults EXCEPT !.lateErrors = @ + 1]
    /\ UNCHANGED <<jobs, locks, events, canceler>>

\* A call outside the try block throws (claimNext, its events, a mark in the
\* catch block): tick logs it, and the job stays as the database has it.
TickThrows(w) ==
    /\ faults.errors < MaxErrors
    /\ \/ worker[w].pc \in {"lock", "claim", "unlock", "start"}
       \/ worker[w].pc \in Marking /\ worker[w].outcome \in {"fail", "cancel"}
    /\ Become(w, IdleWorker)
    /\ faults' = [faults EXCEPT !.errors = @ + 1]
    /\ UNCHANGED <<jobs, locks, events, canceler>>

-----------------------------------------------------------------------------
(* JobsService.markCompleted, markFailed, markCanceled *)

\* Mutants of MayRetry: one attempt less, one attempt more.
MayRetryBeforeLast(j) == /\ Retryable(JobType[j])
                         /\ jobs[j].attemptCount + 1 < MaxAttempts(JobType[j])
MayRetryOnceMore(j)   == /\ Retryable(JobType[j])
                         /\ jobs[j].attemptCount <= MaxAttempts(JobType[j])

MayRetry(j) == /\ Retryable(JobType[j])
               /\ jobs[j].attemptCount < MaxAttempts(JobType[j])

\* findUnique; markFailed decides on a retry from what it reads here.
MarkRead(w) ==
    LET j == worker[w].job IN
    /\ worker[w].pc = "read"
    /\ Become(w, [worker[w] EXCEPT
          !.pc      = "write",
          !.lockKey = jobs[j].lockKey,
          !.retryAt = IF worker[w].outcome = "fail" /\ MayRetry(j)
                      THEN Backoff(JobType[j], jobs[j].attemptCount)
                      ELSE Null])
    /\ UNCHANGED <<jobs, locks, events, canceler, faults>>

\* The update is by id alone, whatever the job has become in the meantime.
Completed(r) == [r EXCEPT !.status = "COMPLETED", !.completed = TRUE,
                          !.nextRetryAt = Null]
Failed(r)    == [r EXCEPT !.status = "FAILED", !.completed = TRUE,
                          !.nextRetryAt = Null]
Canceled(r)  == [r EXCEPT !.status = "CANCELED", !.completed = TRUE,
                          !.nextRetryAt = Null, !.cancelRequested = TRUE]
\* A mutant of Requeued: the row keeps the key of the failed attempt.
RequeuedKeepingLock(r, retryAt) ==
    [r EXCEPT !.status = "QUEUED", !.completed = FALSE,
              !.lockedAt = Null, !.nextRetryAt = retryAt]

Requeued(r, retryAt) ==
    [r EXCEPT !.status = "QUEUED", !.completed = FALSE, !.lockKey = Null,
              !.lockedAt = Null, !.nextRetryAt = retryAt]

\* A mutant of Marked: each failure goes back to the queue.
MarkedAlwaysRequeued(r, outcome, retryAt) ==
    CASE outcome = "complete"                    -> Completed(r)
      [] outcome = "fail"                        -> Requeued(r, retryAt)
      [] outcome \in {"cancel", "cancelEarly"}   -> Canceled(r)

Marked(r, outcome, retryAt) ==
    CASE outcome = "complete"                    -> Completed(r)
      [] outcome = "fail" /\ retryAt # Null      -> Requeued(r, retryAt)
      [] outcome = "fail" /\ retryAt = Null      -> Failed(r)
      [] outcome \in {"cancel", "cancelEarly"}   -> Canceled(r)

\* markCompleted goes on with the row the update returns, the others with the
\* row they read before it: that decides whose lock is released.
MarkWrite(w) ==
    LET j == worker[w].job
        o == worker[w].outcome
    IN
    /\ worker[w].pc = "write"
    /\ jobs'   = [jobs EXCEPT ![j] = Marked(@, o, worker[w].retryAt)]
    /\ Become(w, [worker[w] EXCEPT
          !.pc = "event", !.lockKey = IF o = "complete" THEN jobs[j].lockKey ELSE @])
    /\ UNCHANGED <<locks, events, canceler, faults>>

\* markFailed of an attempt that will be retried writes other events.
Reported(r, outcome, retryAt) ==
    CASE outcome = "complete"                    -> [r EXCEPT !.completed = Counted(@)]
      [] outcome = "fail" /\ retryAt # Null      -> r
      [] outcome = "fail" /\ retryAt = Null      -> [r EXCEPT !.failed = Counted(@)]
      [] outcome \in {"cancel", "cancelEarly"}   -> [r EXCEPT !.canceled = Counted(@)]

MarkEvent(w) ==
    LET j == worker[w].job
        o == worker[w].outcome
    IN
    /\ worker[w].pc = "event"
    /\ events' = [events EXCEPT ![j] = Reported(@, o, worker[w].retryAt)]
    /\ Become(w, [worker[w] EXCEPT !.pc = "release"])
    /\ UNCHANGED <<jobs, locks, canceler, faults>>

MarkRelease(w) ==
    /\ worker[w].pc = "release"
    /\ Release(w, worker[w].job, worker[w].lockKey)
    /\ Become(w, IdleWorker)
    /\ UNCHANGED <<jobs, events, canceler, faults>>

-----------------------------------------------------------------------------
(* JobsService.requestCancel, by a caller that may cancel the job *)

\* findUnique: the status read here decides the path taken.
CancelRead(c, j) ==
    /\ canceler[c].pc = "idle"
    /\ faults.cancels < MaxCancels
    /\ jobs[j].status # "NONE"
    /\ BecomeCanceler(c, [IdleCanceler EXCEPT !.job = j,
          !.pc = IF jobs[j].status = "QUEUED" THEN "cancelNow" ELSE "request"])
    /\ faults' = [faults EXCEPT !.cancels = @ + 1]
    /\ UNCHANGED <<jobs, locks, events, worker>>

CancelNow(c) ==
    LET j == canceler[c].job IN
    /\ canceler[c].pc = "cancelNow"
    /\ jobs' = [jobs EXCEPT ![j] = Canceled(@)]
    /\ BecomeCanceler(c, [canceler[c] EXCEPT !.pc = "event", !.lockKey = jobs[j].lockKey])
    /\ UNCHANGED <<locks, events, worker, faults>>

CancelEvent(c) ==
    /\ canceler[c].pc = "event"
    /\ events' = [events EXCEPT ![canceler[c].job].canceled = Counted(@)]
    /\ BecomeCanceler(c, [canceler[c] EXCEPT !.pc = "release"])
    /\ UNCHANGED <<jobs, locks, worker, faults>>

CancelRelease(c) ==
    /\ canceler[c].pc = "release"
    /\ Release(c, canceler[c].job, canceler[c].lockKey)
    /\ BecomeCanceler(c, IdleCanceler)
    /\ UNCHANGED <<jobs, events, worker, faults>>

CancelRequest(c) ==
    /\ canceler[c].pc = "request"
    /\ jobs' = [jobs EXCEPT ![canceler[c].job].cancelRequested = TRUE]
    /\ BecomeCanceler(c, IdleCanceler)
    /\ UNCHANGED <<locks, events, worker, faults>>

-----------------------------------------------------------------------------
(* Crashes: a process dies and is restarted with empty memory *)

Forget(p) ==
    locks' = IF RedisEnabled THEN locks
             ELSE [locks EXCEPT ![p] = [j \in Jobs |-> FreeLock]]

WorkerCrash(w) ==
    /\ faults.crashes < MaxCrashes
    /\ worker[w].pc # "idle"
    /\ Become(w, IdleWorker)
    /\ Forget(w)
    /\ faults' = [faults EXCEPT !.crashes = @ + 1]
    /\ UNCHANGED <<jobs, events, canceler>>

CancelerCrash(c) ==
    /\ faults.crashes < MaxCrashes
    /\ canceler[c].pc # "idle"
    /\ BecomeCanceler(c, IdleCanceler)
    /\ Forget(c)
    /\ faults' = [faults EXCEPT !.crashes = @ + 1]
    /\ UNCHANGED <<jobs, events, worker>>

-----------------------------------------------------------------------------
Claim(w)    == ClaimFind(w) \/ ClaimLock(w) \/ ClaimUpdate(w) \/ ClaimAbandon(w)
Execute(w)  == CheckBeforeStart(w) \/ Checkpoint(w) \/ DoUnit(w) \/ CheckAfter(w)
Mark(w)     == MarkRead(w) \/ MarkWrite(w) \/ MarkEvent(w) \/ MarkRelease(w)
WorkerStep(w)    == Claim(w) \/ Execute(w) \/ Mark(w)
RunCancel(c)     == CancelNow(c) \/ CancelEvent(c) \/ CancelRelease(c) \/ CancelRequest(c)

Next ==
    \/ Tick
    \/ \E j \in Jobs : Enqueue(j)
    \/ \E w \in Workers : \/ WorkerStep(w)
                          \/ WorkThrows(w) \/ ItemThrows(w) \/ ReportThrows(w)
                          \/ TickThrows(w) \/ WorkerCrash(w)
    \/ \E c \in Cancelers : \/ \E j \in Jobs : CancelRead(c, j)
                            \/ RunCancel(c) \/ CancelerCrash(c)

Spec == Init /\ [][Next]_vars

(***************************************************************************)
(* Every worker polls on an interval timer and continues each await when   *)
(* its answer arrives, a cancel call runs to its end, and time passes.     *)
(* Nothing obliges a client to enqueue or cancel, or anything to fail.     *)
(***************************************************************************)
Fairness == /\ WF_vars(Tick)
            /\ \A w \in Workers : WF_vars(WorkerStep(w))
            /\ \A c \in Cancelers : WF_vars(RunCancel(c))

FairSpec == Spec /\ Fairness

(***************************************************************************)
(* Types                                                                   *)
(***************************************************************************)
Token  == Tokens \cup {Null}
JobRow == [status: Statuses, attemptCount: 0..AttemptCap,
           nextRetryAt: Int \cup {Null}, lockedAt: Int \cup {Null},
           lockKey: Token, cancelRequested: BOOLEAN, completed: BOOLEAN]
EventRows == [completed: 0..EventCap, failed: 0..EventCap,
              canceled: 0..EventCap, cancelObserved: BOOLEAN]
LockRow == [value: Token, ttl: 0..LockTTL]
WorkerRecord == [pc: WorkerPcs, job: Jobs \cup {Null}, now: Int, token: Token,
                 left: 0..LoopItems, cancelAtClaim: BOOLEAN,
                 outcome: Outcomes, retryAt: Int \cup {Null}, lockKey: Token]
WorkerState == {r \in WorkerRecord :
                  /\ r.pc # "idle" => r.job \in Jobs
                  /\ r.pc \in {"lock", "claim", "unlock"} => r.token # Null
                  /\ r.pc \in Marking => r.outcome # "none"}
CancelerPcs == {"idle", "cancelNow", "request", "event", "release"}
CancelerState == {r \in [pc: CancelerPcs, job: Jobs \cup {Null}, lockKey: Token] :
                    r.pc # "idle" => r.job \in Jobs}
FaultCounts == [crashes: 0..MaxCrashes, errors: 0..MaxErrors,
                lateErrors: 0..MaxLateErrors, cancels: 0..MaxCancels]

\* Every variable keeps its type; a busy process has a job, one that claims has
\* a token, and one that marks knows the outcome.
TypeOK ==
    /\ jobs \in [Jobs -> JobRow]
    /\ locks \in [Stores -> [Jobs -> LockRow]]
    /\ events \in [Jobs -> EventRows]
    /\ worker \in [Workers -> WorkerState]
    /\ canceler \in [Cancelers -> CancelerState]
    /\ faults \in FaultCounts

(***************************************************************************)
(* Safety, for any timing, crash, error and cancellation                   *)
(***************************************************************************)

\* A retryable job is FAILED only when its attempts are used up: markFailed
\* decides on a row it read earlier, while other workers claim and mark.
FailedMeansExhausted ==
    \A j \in Jobs : jobs[j].status = "FAILED" /\ Retryable(JobType[j])
                      => jobs[j].attemptCount >= MaxAttempts(JobType[j])

\* A job in RUNNING can always become claimable again: it has the lockedAt that
\* staleness is judged by and a lockKey, and no completedAt; a job waiting in
\* QUEUED after a failed attempt has neither.  Two workers and an API request
\* write these columns without conditions.
RunningIsReclaimable ==
    \A j \in Jobs :
        /\ jobs[j].status = "RUNNING" => /\ jobs[j].lockedAt # Null
                                         /\ jobs[j].lockKey # Null
                                         /\ ~jobs[j].completed
        /\ jobs[j].status = "QUEUED"  => /\ jobs[j].lockKey = Null
                                         /\ ~jobs[j].completed

\* A destructive job that left QUEUED never returns to it: only a reclaim of a
\* stale run executes it again, never the retry path of markFailed.
StaysOut ==
    \A j \in Jobs :
        (JobType[j] \in DestructiveTypes /\ jobs[j].status \notin {"NONE", "QUEUED"})
            => jobs'[j].status # "QUEUED"

DestructiveNotRequeued == [][StaysOut]_vars

\* An attempt whose claim found a cancel request does no work, whatever retry,
\* reclaim or restart led to the attempt.
CanceledClaimDoesNoWork ==
    \A w \in Workers : worker[w].cancelAtClaim
                          => worker[w].pc \notin {"checkpoint", "unit", "after"}

(***************************************************************************)
(* Safety when a live worker ends within the lock TTL (MaxDelay <= LockTTL) *)
(***************************************************************************)

Executes(w, j) == worker[w].job = j /\ worker[w].pc \in Executing

\* No job is executed by two workers at once.
SoleExecutor ==
    \A j \in Jobs, v, w \in Workers : Executes(v, j) /\ Executes(w, j) => v = w

\* An attempt beyond maxAttempts is the reclaim of one that a crash or an
\* error outside the try block cut off: each such fault buys at most one, and a
\* report that throws buys none.  (faults.errors also counts the errors that
\* markFailed handles, which buy none: with them the bound is loose.)
ExcessAttemptsNeedFaults ==
    \A j \in Jobs : jobs[j].attemptCount
                      <= MaxAttempts(JobType[j]) + faults.crashes + faults.errors

\* A worker that observed a cancel request never reports the job completed,
\* unless it is an upload cleanup.
ObservedCancelIsKept ==
    \A j \in Jobs : events[j].cancelObserved /\ JobType[j] # "UPLOAD_CLEANUP"
                      => jobs[j].status # "COMPLETED"

(***************************************************************************)
(* ... and when, besides, nothing is canceled and no report throws         *)
(***************************************************************************)

\* The timeline of a job has at most one terminal event, also when workers
\* crash at any point, work throws, and jobs are retried or reclaimed.
OneTerminalEvent == \A j \in Jobs : TerminalEvents(j) <= 1

\* A terminal status is final.
TerminalIsFinal ==
    [][\A j \in Jobs : jobs[j].status \in Terminal
                          => jobs'[j].status = jobs[j].status]_vars

\* Hidden from clients: who works, the locks and the time.
Lifecycle == INSTANCE JobLifecycle WITH
    Job      <- Jobs,
    TypeOf   <- JobType,
    CountCap <- AttemptCap,
    status   <- [j \in Jobs |-> jobs[j].status],
    attempts <- [j \in Jobs |-> jobs[j].attemptCount]

\* Each step of the queue is a step of the abstract life cycle, or none.
ImplementsLifecycle == Lifecycle!Spec

(***************************************************************************)
(* Liveness                                                                *)
(***************************************************************************)

\* Every queued job is at last terminal for good: crashes leave locks behind
\* and jobs in RUNNING, and the oldest candidate holds up the queue while its
\* lock is held.
EveryJobEnds ==
    \A j \in Jobs : jobs[j].status = "QUEUED" ~> [](jobs[j].status \in Terminal)
=============================================================================
