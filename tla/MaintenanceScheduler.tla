------------------------- MODULE MaintenanceScheduler -------------------------
(***************************************************************************)
(* The maintenance scheduler (maintenance-scheduler.service.ts).  Every    *)
(* API and worker process runs a timer whose tick takes one Redis lock,    *)
(* looks at each task's stored state and enqueues a job for the tasks that *)
(* are due; an administrator can run one task at once through the API      *)
(* (runTaskNow), under the same lock.  A task is enqueued only when no job *)
(* of its type is queued or running.                                       *)
(*                                                                         *)
(* As in JobQueue, one action per round trip, and a timestamp is kept as   *)
(* its offset from the present, clipped at -Horizon.                       *)
(***************************************************************************)
EXTENDS Integers, Sequences

CONSTANTS
    Processes,     \* API and worker processes, one tick each
    Requests,      \* run-once requests in flight
    Instance,      \* the name in a runner's lock value: `scheduler-<pid>`
    Tasks,         \* the tasks, in the order a tick handles them
    TaskEnabled,   \* MAINTENANCE_TASK_<task>_ENABLED
    Interval,      \* MAINTENANCE_<task>_INTERVAL_MINUTES, in ticks; 0: manual only
    LockTTL,       \* the lock's time to live, in ticks
    MaxDelay,      \* longest time a live tick or request takes
    Horizon,       \* oldest offset kept
    ActiveCap,     \* most active jobs of one task
    DirectTasks,   \* tasks that clients also enqueue by an endpoint of their own
    MaxFailures, MaxRequests,  \* environment bounds
    Null

Runners == Processes \cup Requests
TaskSet == {Tasks[k] : k \in DOMAIN Tasks}

ASSUME SchedulerAssumption ==
    /\ Processes \cap Requests = {}
    /\ Tasks \in Seq(TaskSet) /\ Tasks # <<>>
    /\ \A q \in Requests, r \in Runners : q # r => Instance[q] # Instance[r]
    /\ TaskEnabled \in [TaskSet -> BOOLEAN] /\ Interval \in [TaskSet -> Nat]
    /\ LockTTL \in Nat \ {0} /\ MaxDelay \in Nat \ {0}
    /\ Horizon \in Nat /\ Horizon > MaxDelay
    /\ ActiveCap \in Nat \ {0}
    /\ DirectTasks \subseteq TaskSet
    /\ MaxFailures \in Nat /\ MaxRequests \in Nat
    /\ Null \notin Int

VARIABLES
    lock,     \* maintenance:scheduler:tick in Redis
    active,   \* how many jobs of each task are QUEUED or RUNNING
    state,    \* the app_settings row of each task
    runner,   \* local state of a tick or of a run-once request
    faults    \* crashes and errors, and run-once requests, so far

vars == <<lock, active, state, runner, faults>>

NoLock  == [value |-> Null, ttl |-> 0]
NoState == [nextRunAt |-> Null, result |-> "none", succeeded |-> FALSE]
Idle    == [pc |-> "idle", at |-> -1, now |-> 0, task |-> 0, actor |-> TRUE,
            result |-> "none", succeeded |-> FALSE]

Init ==
    /\ lock   = NoLock
    /\ active = [t \in TaskSet |-> 0]
    /\ state  = [t \in TaskSet |-> NoState]
    /\ runner = [r \in Runners |-> Idle]
    /\ faults = [failures |-> 0, requests |-> 0]

Scheduled(r) == r \in Processes
TaskOf(r)    == Tasks[runner[r].task]
LockValue(r) == [by |-> Instance[r], at |-> runner[r].at]
Become(r, new) == runner' = [runner EXCEPT ![r] = new]
Goto(r, pc)    == Become(r, [runner[r] EXCEPT !.pc = pc])

\* writeTaskState begins with a read of the row that is about to be replaced.
Record(r, result) == Become(r, [runner[r] EXCEPT !.pc = "previous", !.result = result,
                                                    !.succeeded = FALSE])

\* All that a runner still needs to release its lock.
Releasing(r) == [Idle EXCEPT !.pc = "release", !.at = runner[r].at]

\* An idle process remembers whether its last tick began at this very instant.
Resting(r) == [Idle EXCEPT !.at = IF Scheduled(r) /\ runner[r].at = 0 THEN 0 ELSE -1]

\* A tick goes on with its next task; a request handles one task only.
Finished(r) ==
    IF Scheduled(r) /\ runner[r].task < Len(Tasks)
    THEN [runner[r] EXCEPT !.pc = "state", !.task = @ + 1,
                           !.result = "none", !.succeeded = FALSE]
    ELSE Releasing(r)

-----------------------------------------------------------------------------
Aged(t)      == IF t = Null THEN Null ELSE IF t > -Horizon THEN t - 1 ELSE -Horizon
AgedLock     == IF lock.ttl <= 1 THEN NoLock
                ELSE [lock EXCEPT !.ttl = @ - 1, !.value.at = Aged(@)]
AgedRunner(l) == IF l.pc = "idle" THEN Idle
                 ELSE [l EXCEPT !.at = Aged(@), !.now = Aged(@)]

\* Time passes, but never so much that a live tick or request exceeds MaxDelay.
Tick ==
    /\ \A r \in Runners : runner[r].pc # "idle" => runner[r].at > -MaxDelay
    /\ lock'   = AgedLock
    /\ state'  = [t \in TaskSet |-> [state[t] EXCEPT !.nextRunAt = Aged(@)]]
    /\ runner' = [r \in Runners |-> AgedRunner(runner[r])]
    /\ UNCHANGED <<active, faults>>

-----------------------------------------------------------------------------
\* The timer fires once in a while, and the `running` flag keeps it from
\* starting a tick while one runs.
TickStart(p) ==
    /\ runner[p].pc = "idle" /\ runner[p].at < 0
    /\ Become(p, [Idle EXCEPT !.pc = "acquire", !.at = 0])
    /\ UNCHANGED <<lock, active, state, faults>>

RunTaskNow(q, k) ==
    /\ runner[q].pc = "idle" /\ faults.requests < MaxRequests
    /\ Become(q, [Idle EXCEPT !.pc = "acquire", !.at = 0, !.task = k])
    /\ faults' = [faults EXCEPT !.requests = @ + 1]
    /\ UNCHANGED <<lock, active, state>>

\* A mutant of AcquireLock: a run-once request does without the lock.
AcquireTicksOnly(r) ==
    /\ runner[r].pc = "acquire"
    /\ IF Scheduled(r)
       THEN \/ lock = NoLock /\ lock' = [value |-> LockValue(r), ttl |-> LockTTL]
                             /\ Goto(r, "actor")
            \/ lock # NoLock /\ UNCHANGED lock /\ Become(r, Releasing(r))
       ELSE Goto(r, "decide") /\ UNCHANGED lock
    /\ UNCHANGED <<active, state, faults>>

\* A tick that finds the lock busy returns from inside the try block, so its
\* finally releases a lock it does not hold; a request returns before it.
AcquireLock(r) ==
    /\ runner[r].pc = "acquire"
    /\ \/ /\ lock = NoLock
          /\ lock' = [value |-> LockValue(r), ttl |-> LockTTL]
          /\ Goto(r, IF Scheduled(r) THEN "actor" ELSE "decide")
       \/ /\ lock # NoLock
          /\ Become(r, IF Scheduled(r) THEN Releasing(r) ELSE Idle)
          /\ UNCHANGED lock
    /\ UNCHANGED <<active, state, faults>>

\* resolveSchedulerActor: without an active administrator each due task fails.
\* The tick's own `now` is read next; the heartbeat row is left out.
ResolveActor(p) ==
    /\ runner[p].pc = "actor"
    /\ \E found \in BOOLEAN :
        /\ found \/ faults.failures < MaxFailures
        /\ faults' = IF found THEN faults ELSE [faults EXCEPT !.failures = @ + 1]
        /\ Become(p, [runner[p] EXCEPT !.actor = found, !.now = 0, !.task = 1,
                                       !.pc = "state"])
    /\ UNCHANGED <<lock, active, state>>

ScheduledEnabled(t) == TaskEnabled[t] /\ Interval[t] > 0

\* A mutant of IsDue: a task with a next run is never due again.
IsDueOnce(t, now) == state[t].nextRunAt = Null

IsDue(t, now) == state[t].nextRunAt # Null => state[t].nextRunAt <= now

\* executeTaskIfDue: its read of the task's row decides.
ExecuteTaskIfDue(p) ==
    LET t == TaskOf(p) IN
    /\ runner[p].pc = "state"
    /\ \/ /\ ~ScheduledEnabled(t) /\ state[t].result # "skipped_disabled"
          /\ Record(p, "skipped_disabled")
       \/ /\ ScheduledEnabled(t) /\ IsDue(t, runner[p].now)
          /\ Goto(p, "decide")
       \/ /\ IF ScheduledEnabled(t) THEN ~IsDue(t, runner[p].now)
                                    ELSE state[t].result = "skipped_disabled"
          /\ Become(p, Finished(p))
    /\ UNCHANGED <<lock, active, state, faults>>

\* A mutant of ExecuteTask: no active-job guard.
ExecuteUnguarded(r) ==
    /\ runner[r].pc = "decide"
    /\ Goto(r, "enqueue")
    /\ UNCHANGED <<lock, active, state, faults>>

\* executeTask up to the active-job guard, a findFirst on the jobs table.
ExecuteTask(r) ==
    LET t == TaskOf(r) IN
    /\ runner[r].pc = "decide"
    /\ \/ ~TaskEnabled[t] /\ Record(r, "skipped_disabled")
       \/ TaskEnabled[t] /\ ~runner[r].actor /\ Record(r, "failed")
       \/ TaskEnabled[t] /\ runner[r].actor /\ active[t] > 0 /\ Record(r, "skipped_active")
       \/ TaskEnabled[t] /\ runner[r].actor /\ active[t] = 0 /\ Goto(r, "enqueue")
    /\ UNCHANGED <<lock, active, state, faults>>

EnqueueTask(r) ==
    LET t == TaskOf(r) IN
    /\ runner[r].pc = "enqueue"
    /\ active[t] < ActiveCap
    /\ active' = [active EXCEPT ![t] = @ + 1]
    /\ Record(r, "queued")
    /\ UNCHANGED <<lock, state, faults>>

ReadPrevious(r) ==
    /\ runner[r].pc = "previous"
    /\ Become(r, [runner[r] EXCEPT !.pc = "write", !.succeeded = state[TaskOf(r)].succeeded])
    /\ UNCHANGED <<lock, active, state, faults>>

\* computeNextRunAt; the disabled branch of executeTaskIfDue stores null, too.
NextRunAt(t, now) == IF ScheduledEnabled(t) THEN now + Interval[t] ELSE Null

\* A mutant of NewState: lastSuccessAt is not carried over.
NewStateForgetting(r) ==
    [nextRunAt |-> NextRunAt(TaskOf(r), runner[r].now), result |-> runner[r].result,
     succeeded |-> runner[r].result = "queued"]

NewState(r) ==
    [nextRunAt |-> NextRunAt(TaskOf(r), runner[r].now), result |-> runner[r].result,
     succeeded |-> runner[r].result = "queued" \/ runner[r].succeeded]

WriteTaskState(r) ==
    /\ runner[r].pc = "write"
    /\ state' = [state EXCEPT ![TaskOf(r)] = NewState(r)]
    /\ IF runner[r].result = "queued" THEN Goto(r, "audit")
                                      ELSE Become(r, Finished(r))
    /\ UNCHANGED <<lock, active, faults>>

RecordAudit(r) ==
    /\ runner[r].pc = "audit"
    /\ Become(r, Finished(r))
    /\ UNCHANGED <<lock, active, state, faults>>

\* A mutant of ReleaseLock: delete without comparing.
ReleaseAny(r) ==
    /\ runner[r].pc = "release"
    /\ lock' = NoLock
    /\ Become(r, Resting(r))
    /\ UNCHANGED <<active, state, faults>>

ReleaseLock(r) ==
    /\ runner[r].pc = "release"
    /\ lock' = IF lock.value = LockValue(r) THEN NoLock ELSE lock
    /\ Become(r, Resting(r))
    /\ UNCHANGED <<active, state, faults>>

-----------------------------------------------------------------------------
(* What else happens *)

\* The try block of executeTask: from the enqueue to the audit record.
InTry(r) == \/ runner[r].pc \in {"enqueue", "audit"}
            \/ runner[r].pc \in {"previous", "write"} /\ runner[r].result = "queued"

\* A call throws, possibly after it took effect.  Inside the try block the task
\* is recorded as failed, without the job that may exist; elsewhere the tick or
\* the request ends, and a failed release leaves the lock to its TTL.
CallThrows(r) ==
    LET t == TaskOf(r) IN
    /\ runner[r].pc # "idle" /\ faults.failures < MaxFailures
    /\ IF runner[r].pc = "enqueue" /\ active[t] < ActiveCap
       THEN active' \in {active, [active EXCEPT ![t] = @ + 1]}
       ELSE UNCHANGED active
    /\ IF runner[r].pc = "write"
       THEN state' \in {state, [state EXCEPT ![t] = NewState(r)]}
       ELSE UNCHANGED state
    /\ \/ InTry(r) /\ Record(r, "failed")
       \/ runner[r].pc = "release" /\ Become(r, Resting(r))
       \/ runner[r].pc = "acquire" /\ ~Scheduled(r) /\ Become(r, Idle)
       \/ /\ runner[r].pc # "release" /\ (runner[r].pc = "acquire" => Scheduled(r))
          /\ ~InTry(r) /\ Become(r, Releasing(r))
    /\ faults' = [faults EXCEPT !.failures = @ + 1]
    /\ UNCHANGED lock

Crash(r) ==
    /\ runner[r].pc # "idle" /\ faults.failures < MaxFailures
    /\ Become(r, Idle)
    /\ faults' = [faults EXCEPT !.failures = @ + 1]
    /\ UNCHANGED <<lock, active, state>>

\* A job reaches a terminal status (JobQueue).
JobEnds(t) ==
    /\ active[t] > 0
    /\ active' = [active EXCEPT ![t] = @ - 1]
    /\ UNCHANGED <<lock, state, runner, faults>>

\* queueUploadCleanup, queueRetentionCleanup: neither lock
\* nor guard.
EnqueueDirect(t) ==
    /\ t \in DirectTasks
    /\ active[t] < ActiveCap
    /\ active' = [active EXCEPT ![t] = @ + 1]
    /\ UNCHANGED <<lock, state, runner, faults>>

RunnerStep(r) ==
    \/ AcquireLock(r) \/ ExecuteTask(r) \/ EnqueueTask(r)
    \/ ReadPrevious(r) \/ WriteTaskState(r) \/ RecordAudit(r) \/ ReleaseLock(r)
TickStep(p) == RunnerStep(p) \/ TickStart(p) \/ ResolveActor(p) \/ ExecuteTaskIfDue(p)

Next ==
    \/ Tick
    \/ \E p \in Processes : TickStep(p)
    \/ \E q \in Requests : RunnerStep(q) \/ \E k \in DOMAIN Tasks : RunTaskNow(q, k)
    \/ \E r \in Runners : CallThrows(r) \/ Crash(r)
    \/ \E t \in TaskSet : JobEnds(t) \/ EnqueueDirect(t)

Spec == Init /\ [][Next]_vars

\* Timers fire, awaits are answered, jobs end and time passes; nothing obliges
\* an administrator, and the timer runs a tick only when the lock, too, is free
\* again and again: the lock of a dead process expires.
Fairness == /\ WF_vars(Tick)
            /\ \A p \in Processes : WF_vars(TickStep(p))
            /\ \A q \in Requests : WF_vars(RunnerStep(q))
            /\ \A t \in TaskSet : WF_vars(JobEnds(t))

FairSpec == Spec /\ Fairness

(***************************************************************************)
(* Properties                                                              *)
(***************************************************************************)
Results == {"none", "queued", "skipped_active", "failed", "skipped_disabled"}
Pcs == {"idle", "acquire", "actor", "state", "decide", "enqueue", "previous",
        "write", "audit", "release"}
Offsets == Int \cup {Null}

TypeOK ==
    /\ lock \in {NoLock} \cup [value: [by: {Instance[r] : r \in Runners}, at: Int],
                                ttl: 1..LockTTL]
    /\ active \in [TaskSet -> 0..ActiveCap]
    /\ state \in [TaskSet -> [nextRunAt: Offsets, result: Results, succeeded: BOOLEAN]]
    /\ runner \in [Runners -> [pc: Pcs, at: Int, now: Int, task: 0..Len(Tasks),
                               actor: BOOLEAN, result: Results, succeeded: BOOLEAN]]
    /\ faults \in [failures: 0..MaxFailures, requests: 0..MaxRequests]

Leads(r) == runner[r].pc \in {"actor", "state", "decide", "enqueue", "previous",
                              "write", "audit"}

\* One tick or request at a time holds the scheduler's lock and acts (the
\* "single active leader" of docs/scheduler.md).
SoleLeader == \A q, r \in Runners : Leads(q) /\ Leads(r) => q = r

\* The guard, read before the enqueue, is still right at the enqueue: a task
\* that only the scheduler enqueues never has two active jobs.
OneActiveJob == \A t \in TaskSet \ DirectTasks : active[t] <= 1

\* A tick that is about to enqueue acts on a due time no other runner has moved
\* since the tick read it.
DueWhenEnqueued ==
    \A p \in Processes : runner[p].pc = "enqueue"
        => IsDue(TaskOf(p), runner[p].now)

\* The read-modify-write of a task's row never loses its last success.
SuccessIsKept ==
    [][\A t \in TaskSet : state[t].succeeded => state'[t].succeeded]_vars

\* Each task on the schedule is enqueued again and again (its jobs end), after
\* any crash or error: a lock left behind expires, and no row says that a task
\* is never due again.
EveryTaskRecurs ==
    \A t \in TaskSet : ScheduledEnabled(t) => []<>(active[t] > 0)
=============================================================================
