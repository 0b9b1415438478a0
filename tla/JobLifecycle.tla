---------------------------- MODULE JobLifecycle ----------------------------
(***************************************************************************)
(* What the job queue promises about its jobs to a client that only        *)
(* reads their status and attemptCount: each is worked on in numbered      *)
(* attempts, and ends once.  No workers, locks, clocks or crashes here;    *)
(* JobQueue implements this specification while nothing is canceled, a     *)
(* live worker stays within the lock TTL and reports do not fail.          *)
(***************************************************************************)
EXTENDS RetryPolicy

CONSTANTS
    Job,         \* the jobs
    TypeOf,      \* their types
    CountCap     \* attempts are counted up to here

VARIABLES
    status,      \* jobs.status, "NONE" before the job is enqueued
    attempts     \* jobs.attemptCount

lifecycleVars == <<status, attempts>>

Init ==
    /\ status = [j \in Job |-> "NONE"]
    /\ attempts = [j \in Job |-> 0]

Move(j, from, to) ==
    /\ status[j] = from
    /\ status' = [status EXCEPT ![j] = to]

Submit(j) == Move(j, "NONE", "QUEUED") /\ UNCHANGED attempts

\* A fresh, a retried or (from RUNNING) a reclaimed attempt begins.
Begin(j) ==
    /\ \E from \in {"QUEUED", "RUNNING"} : Move(j, from, "RUNNING")
    /\ attempts' = [attempts EXCEPT ![j] = Smaller(@ + 1, CountCap)]

Succeed(j) == Move(j, "RUNNING", "COMPLETED") /\ UNCHANGED attempts

\* A failed attempt is retried while the budget lasts, and only then.
Retry(j) ==
    /\ Retryable(TypeOf[j]) /\ attempts[j] < MaxAttempts(TypeOf[j])
    /\ Move(j, "RUNNING", "QUEUED")
    /\ UNCHANGED attempts

GiveUp(j) ==
    /\ ~Retryable(TypeOf[j]) \/ attempts[j] >= MaxAttempts(TypeOf[j])
    /\ Move(j, "RUNNING", "FAILED")
    /\ UNCHANGED attempts

Next == \E j \in Job : Submit(j) \/ Begin(j) \/ Succeed(j) \/ Retry(j) \/ GiveUp(j)

Spec == Init /\ [][Next]_lifecycleVars
=============================================================================
