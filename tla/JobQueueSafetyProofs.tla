------------------------ MODULE JobQueueSafetyProofs ------------------------
(***************************************************************************)
(* The safety properties of JobQueue, proved for every value of the        *)
(* constants: first those that hold for any timing, crash, error and       *)
(* cancellation, then those that need workers to end in time, and last     *)
(* those that besides need that nothing is canceled and no report throws,  *)
(* among them the refinement of JobLifecycle.                              *)
(***************************************************************************)
EXTENDS JobQueueProofs

-----------------------------------------------------------------------------
(* What a step can do to the jobs table *)

\* Six kinds of steps write the table; all others leave it alone.
LEMMA JobsChange ==
    ASSUME [Next]_vars
    PROVE  \/ UNCHANGED jobs
           \/ Tick
           \/ \E j \in Jobs : Enqueue(j)
           \/ \E w \in Workers : ClaimUpdate(w) /\ Claimable(worker[w].job, worker[w].now)
           \/ \E w \in Workers : MarkWrite(w)
           \/ \E c \in Cancelers : CancelNow(c)
           \/ \E c \in Cancelers : CancelRequest(c)
<1>1. ASSUME NEW w \in Workers, WorkerStep(w)
      PROVE  \/ UNCHANGED jobs
             \/ ClaimUpdate(w) /\ Claimable(worker[w].job, worker[w].now)
             \/ MarkWrite(w)
  BY <1>1 DEF WorkerStep, Claim, Execute, Mark, ClaimFind, ClaimLock, ClaimUpdate,
     ClaimAbandon, CheckBeforeStart, Checkpoint, DoUnit, CheckAfter,
     MarkRead, MarkEvent, MarkRelease
<1>2. ASSUME NEW w \in Workers,
             \/ WorkThrows(w) \/ ItemThrows(w) \/ ReportThrows(w)
             \/ TickThrows(w) \/ WorkerCrash(w)
      PROVE  UNCHANGED jobs
  BY <1>2 DEF WorkThrows, ItemThrows, ReportThrows, TickThrows, WorkerCrash
<1>3. ASSUME NEW c \in Cancelers, RunCancel(c)
      PROVE  UNCHANGED jobs \/ CancelNow(c) \/ CancelRequest(c)
  BY <1>3 DEF RunCancel, CancelEvent, CancelRelease
<1>4. ASSUME NEW c \in Cancelers, CancelerCrash(c) \/ \E j \in Jobs : CancelRead(c, j)
      PROVE  UNCHANGED jobs
  BY <1>4 DEF CancelerCrash, CancelRead
<1>5. UNCHANGED vars => UNCHANGED jobs
  BY DEF vars
<1>6. QED
  BY <1>1, <1>2, <1>3, <1>4, <1>5 DEF Next

\* ... and, seen from one row, this is what becomes of it.
RowStep(j, r, s) ==
    \/ s = r
    \/ s = AgedJob(r)
    \/ r.status = "NONE" /\ s = [r EXCEPT !.status = "QUEUED"]
    \/ \E now \in Int, token \in Tokens :
          Claimable(j, now) /\ s = Claimed(r, now, token)
    \/ s = Completed(r)
    \/ \E w \in Workers :
          /\ worker[w].job = j /\ worker[w].pc = "write" /\ worker[w].outcome = "fail"
          /\ \/ worker[w].retryAt # Null /\ s = Requeued(r, worker[w].retryAt)
             \/ worker[w].retryAt = Null /\ s = Failed(r)
    \/ s = Canceled(r)
    \/ s = [r EXCEPT !.cancelRequested = TRUE]

LEMMA RowChange ==
    ASSUME TypeOK, [Next]_vars, NEW j \in Jobs
    PROVE  RowStep(j, jobs[j], jobs'[j])
<1>t. /\ jobs \in [Jobs -> JobRow]
      /\ \A w \in Workers : worker[w] \in WorkerState
  BY DEF TypeOK
<1>1. CASE UNCHANGED jobs
  BY <1>1 DEF RowStep
<1>2. CASE Tick
  BY <1>2 DEF Tick, RowStep
<1>3. ASSUME NEW i \in Jobs, Enqueue(i) PROVE RowStep(j, jobs[j], jobs'[j])
  BY <1>3, <1>t DEF Enqueue, RowStep
<1>4. ASSUME NEW w \in Workers, ClaimUpdate(w), Claimable(worker[w].job, worker[w].now)
      PROVE  RowStep(j, jobs[j], jobs'[j])
  <2>1. worker[w].now \in Int /\ worker[w].token \in Tokens
    BY <1>4, <1>t DEF ClaimUpdate, WorkerState, WorkerRecord, Token
  <2>2. jobs' = [jobs EXCEPT ![worker[w].job] =
                   Claimed(@, worker[w].now, worker[w].token)]
    BY <1>4 DEF ClaimUpdate
  <2>3. QED
    BY <1>4, <1>t, <2>1, <2>2 DEF RowStep
<1>5. ASSUME NEW w \in Workers, MarkWrite(w) PROVE RowStep(j, jobs[j], jobs'[j])
  <2>1. worker[w].pc = "write" /\ worker[w].outcome \in Outcomes \ {"none"}
    BY <1>5, <1>t DEF MarkWrite, WorkerState, WorkerRecord, Marking
  <2>2. jobs' = [jobs EXCEPT ![worker[w].job] =
                   Marked(@, worker[w].outcome, worker[w].retryAt)]
    BY <1>5 DEF MarkWrite
  <2>3. CASE j # worker[w].job
    BY <1>t, <2>2, <2>3 DEF RowStep
  <2>4. CASE j = worker[w].job
    <3>1. jobs'[j] = Marked(jobs[j], worker[w].outcome, worker[w].retryAt)
      BY <1>t, <2>2, <2>4
    <3>2. QED
      BY <2>1, <2>4, <3>1 DEF Marked, Outcomes, RowStep
  <2>5. QED
    BY <2>3, <2>4
<1>6. ASSUME NEW c \in Cancelers, CancelNow(c) PROVE RowStep(j, jobs[j], jobs'[j])
  BY <1>6, <1>t DEF CancelNow, RowStep
<1>7. ASSUME NEW c \in Cancelers, CancelRequest(c) PROVE RowStep(j, jobs[j], jobs'[j])
  BY <1>7, <1>t DEF CancelRequest, RowStep
<1>8. QED
  BY <1>1, <1>2, <1>3, <1>4, <1>5, <1>6, <1>7, JobsChange

-----------------------------------------------------------------------------
(* A running job can always be reclaimed *)

\* Inductive: a slot without a row has the columns of a fresh one.
RowSound(r) ==
    /\ r.status = "RUNNING" => r.lockedAt # Null /\ r.lockKey # Null /\ ~r.completed
    /\ r.status \in {"NONE", "QUEUED"} => r.lockKey = Null /\ ~r.completed

RowsSound == \A j \in Jobs : RowSound(jobs[j])

LEMMA RowsSoundNext == TypeOK /\ RowsSound /\ [Next]_vars => RowsSound'
<1> SUFFICES ASSUME TypeOK, RowsSound, [Next]_vars, NEW j \in Jobs
             PROVE  RowSound(jobs'[j])
  BY DEF RowsSound
<1> DEFINE r == jobs[j]
<1>1. r \in JobRow /\ RowSound(r)
  BY DEF TypeOK, RowsSound
<1>2. RowStep(j, r, jobs'[j])
  BY RowChange
<1>3. ASSUME NEW now \in Int, NEW token \in Tokens, Claimable(j, now)
      PROVE  RowSound(Claimed(r, now, token))
  BY <1>1, <1>3, QueueAssumption DEF Claimable, Claimed, JobRow, RowSound
<1> HIDE DEF r
<1>4. RowSound(AgedJob(r))
  BY <1>1, AgedType DEF AgedJob, JobRow, RowSound
<1>5. r.status = "NONE" => RowSound([r EXCEPT !.status = "QUEUED"])
  BY <1>1 DEF JobRow, RowSound
<1>6. RowSound(Completed(r)) /\ RowSound(Failed(r)) /\ RowSound(Canceled(r))
  BY <1>1 DEF Completed, Failed, Canceled, JobRow, RowSound
<1>7. \A t : RowSound(Requeued(r, t))
  BY <1>1 DEF Requeued, JobRow, RowSound
<1>8. RowSound([r EXCEPT !.cancelRequested = TRUE])
  BY <1>1 DEF JobRow, RowSound
<1>9. QED
  BY <1>1, <1>2, <1>3, <1>4, <1>5, <1>6, <1>7, <1>8 DEF RowStep

\* A job in RUNNING has what a reclaim needs, whoever wrote its row last.
THEOREM RunningReclaimable == Spec => []RunningIsReclaimable
<1>1. Init => RowsSound
  BY DEF Init, RowsSound, RowSound, NoJob
<1>2. TypeOK /\ RowsSound /\ [Next]_vars => RowsSound'
  BY RowsSoundNext
<1>3. RowsSound => RunningIsReclaimable
  BY DEF RowsSound, RowSound, RunningIsReclaimable
<1>4. QED
  BY <1>1, <1>2, <1>3, TypeCorrect, PTL DEF Spec

-----------------------------------------------------------------------------
(* What a step can do to the local state of a worker *)

LEMMA BecomeIs ==
    ASSUME TypeOK, NEW w \in Workers, NEW r, Become(w, r)
    PROVE  worker'[w] = r /\ \A v \in Workers \ {w} : worker'[v] = worker[v]
BY DEF Become, TypeOK

\* What a worker remembers of its claim.
Keeps(s, r) == s.job = r.job /\ s.now = r.now /\ s.cancelAtClaim = r.cancelAtClaim

\* The next local state of the worker that moves.
LEMMA ClaimMoves ==
    ASSUME TypeOK, NEW w \in Workers, NEW r, NEW s, r = worker[w], s = worker'[w]
    PROVE  /\ ClaimFind(w) =>
                /\ s.job \in Jobs /\ s.now = 0 /\ s.pc = "lock" /\ ~s.cancelAtClaim
           /\ ClaimLock(w) =>
                r.pc = "lock" /\ (s = IdleWorker \/ (Keeps(s, r) /\ s.pc = "claim"))
           /\ ClaimUpdate(w) =>
                /\ r.pc = "claim"
                /\ \/ /\ s.job = r.job /\ s.now = r.now /\ s.pc = "start"
                      /\ s.cancelAtClaim = jobs[r.job].cancelRequested
                      /\ Claimable(r.job, r.now)
                   \/ Keeps(s, r) /\ s.pc = "unlock"
           /\ ClaimAbandon(w) => s = IdleWorker
<1>t. r \in WorkerState
  BY DEF TypeOK
<1>1. ASSUME ClaimFind(w)
      PROVE  s.job \in Jobs /\ s.now = 0 /\ s.pc = "lock" /\ ~s.cancelAtClaim
  <2>1. PICK j \in Jobs, t \in Tokens : Become(w, [IdleWorker EXCEPT
            !.pc = "lock", !.job = j, !.now = 0, !.token = t])
    BY <1>1 DEF ClaimFind, Candidates
  <2>2. s = [IdleWorker EXCEPT !.pc = "lock", !.job = j, !.now = 0, !.token = t]
    BY <2>1, BecomeIs
  <2>3. QED
    BY <2>2 DEF IdleWorker
<1>2. ClaimLock(w) => s = IdleWorker \/ s = [r EXCEPT !.pc = "claim"]
  BY BecomeIs DEF ClaimLock
<1>3. ASSUME ClaimUpdate(w)
      PROVE  \/ /\ Claimable(r.job, r.now)
                /\ s = [r EXCEPT !.pc = "start", !.token = Null,
                                 !.cancelAtClaim = jobs[r.job].cancelRequested]
             \/ s = [r EXCEPT !.pc = "unlock"]
  BY <1>3, BecomeIs DEF ClaimUpdate
<1>4. ClaimAbandon(w) => s = IdleWorker
  BY BecomeIs DEF ClaimAbandon
<1>5. (ClaimLock(w) => r.pc = "lock") /\ (ClaimUpdate(w) => r.pc = "claim")
  BY DEF ClaimLock, ClaimUpdate
<1>6. QED
  BY <1>t, <1>1, <1>2, <1>3, <1>4, <1>5 DEF WorkerState, WorkerRecord, Keeps

\* Every conclusion goes on with the read of the mark function.
LEMMA ConcludeMoves ==
    ASSUME TypeOK, NEW w \in Workers, NEW o, Conclude(w, o)
    PROVE  Keeps(worker'[w], worker[w]) /\ worker'[w].pc = "read" /\ worker'[w].outcome = o
<1>1. worker[w] \in WorkerState
  BY DEF TypeOK
<1>2. worker'[w] = [worker[w] EXCEPT !.pc = "read", !.outcome = o]
  BY BecomeIs DEF Conclude
<1>3. QED
  BY <1>1, <1>2 DEF WorkerState, WorkerRecord, Keeps

LEMMA NextItemMoves ==
    ASSUME TypeOK, NEW w \in Workers, NEW r, NEW s, r = worker[w], s = worker'[w],
           NextItem(w)
    PROVE  /\ Keeps(s, r)
           /\ \/ s.pc = "checkpoint" /\ s.outcome = r.outcome
              \/ s.pc = "after" /\ s.outcome = r.outcome
              \/ s.pc = "read" /\ s.outcome = "complete"
<1>1. r \in WorkerState
  BY DEF TypeOK
<1>2. \/ s = [r EXCEPT !.left = @ - 1, !.pc = "checkpoint"]
      \/ s = [r EXCEPT !.left = 0, !.pc = "read", !.outcome = "complete"]
      \/ s = [r EXCEPT !.left = 0, !.pc = "after"]
  BY BecomeIs DEF NextItem
<1>3. QED
  BY <1>1, <1>2 DEF WorkerState, WorkerRecord, Keeps

LEMMA ExecuteMoves ==
    ASSUME TypeOK, NEW w \in Workers, NEW r, NEW s, r = worker[w], s = worker'[w]
    PROVE  /\ CheckBeforeStart(w) =>
                /\ r.pc = "start" /\ Keeps(s, r)
                /\ IF jobs[r.job].cancelRequested
                   THEN s.pc = "read" /\ s.outcome = "cancelEarly"
                   ELSE s.pc = "checkpoint" /\ s.outcome = r.outcome
           /\ Checkpoint(w) =>
                /\ r.pc = "checkpoint" /\ Keeps(s, r)
                /\ \/ s.pc \in {"checkpoint", "unit", "after"} /\ s.outcome = r.outcome
                   \/ s.pc = "read" /\ s.outcome = "cancel"
                   \/ /\ s.pc = "read" /\ s.outcome = "complete"
                      /\ JobType[r.job] = "UPLOAD_CLEANUP"
           /\ DoUnit(w) =>
                /\ r.pc = "unit" /\ Keeps(s, r)
                /\ \/ s.pc \in {"checkpoint", "after"} /\ s.outcome = r.outcome
                   \/ s.pc = "read" /\ s.outcome = "complete"
           /\ CheckAfter(w) =>
                /\ r.pc = "after" /\ Keeps(s, r)
                /\ s.pc = "read"
                /\ s.outcome = IF jobs[r.job].cancelRequested THEN "cancel" ELSE "complete"
           /\ WorkThrows(w) \/ ReportThrows(w) =>
                /\ \/ r.pc \in {"start", "checkpoint", "unit", "after"}
                   \/ r.pc \in Marking /\ r.outcome \in {"complete", "cancelEarly"}
                /\ Keeps(s, r) /\ s.pc = "read" /\ s.outcome = "fail"
           /\ ItemThrows(w) =>
                /\ r.pc \in {"checkpoint", "unit"} /\ JobType[r.job] = "UPLOAD_CLEANUP"
                /\ Keeps(s, r)
                /\ \/ s.pc \in {"checkpoint", "after"} /\ s.outcome = r.outcome
                   \/ s.pc = "read" /\ s.outcome = "complete"
           /\ TickThrows(w) \/ WorkerCrash(w) => s = IdleWorker
<1>t. r \in WorkerState
  BY DEF TypeOK
<1>1. ASSUME CheckBeforeStart(w), ~jobs[r.job].cancelRequested
      PROVE  Keeps(s, r) /\ s.pc = "checkpoint" /\ s.outcome = r.outcome
  <2>1. s = [r EXCEPT !.pc = "checkpoint", !.left = Units(JobType[r.job])]
    BY <1>1, BecomeIs DEF CheckBeforeStart
  <2>2. QED
    BY <1>t, <2>1 DEF WorkerState, WorkerRecord, Keeps
<1>2. ASSUME Become(w, [worker[w] EXCEPT !.pc = "unit"])
      PROVE  Keeps(s, r) /\ s.pc = "unit" /\ s.outcome = r.outcome
  <2>1. s = [r EXCEPT !.pc = "unit"]
    BY <1>2, BecomeIs
  <2>2. QED
    BY <1>t, <2>1 DEF WorkerState, WorkerRecord, Keeps
<1>3. TickThrows(w) \/ WorkerCrash(w) => s = IdleWorker
  BY BecomeIs DEF TickThrows, WorkerCrash
<1>4. CheckBeforeStart(w) =>
         /\ r.pc = "start" /\ Keeps(s, r)
         /\ IF jobs[r.job].cancelRequested
            THEN s.pc = "read" /\ s.outcome = "cancelEarly"
            ELSE s.pc = "checkpoint" /\ s.outcome = r.outcome
  BY <1>1, ConcludeMoves DEF CheckBeforeStart
<1>5. Checkpoint(w) =>
         /\ r.pc = "checkpoint" /\ Keeps(s, r)
         /\ \/ s.pc \in {"checkpoint", "unit", "after"} /\ s.outcome = r.outcome
            \/ s.pc = "read" /\ s.outcome = "cancel"
            \/ /\ s.pc = "read" /\ s.outcome = "complete"
               /\ JobType[r.job] = "UPLOAD_CLEANUP"
  BY <1>2, ConcludeMoves, NextItemMoves DEF Checkpoint
<1>6. DoUnit(w) =>
         /\ r.pc = "unit" /\ Keeps(s, r)
         /\ \/ s.pc \in {"checkpoint", "after"} /\ s.outcome = r.outcome
            \/ s.pc = "read" /\ s.outcome = "complete"
  BY NextItemMoves DEF DoUnit
<1>7. CheckAfter(w) =>
         /\ r.pc = "after" /\ Keeps(s, r)
         /\ s.pc = "read"
         /\ s.outcome = IF jobs[r.job].cancelRequested THEN "cancel" ELSE "complete"
  BY ConcludeMoves DEF CheckAfter
<1>8. WorkThrows(w) \/ ReportThrows(w) =>
         /\ \/ r.pc \in {"start", "checkpoint", "unit", "after"}
            \/ r.pc \in Marking /\ r.outcome \in {"complete", "cancelEarly"}
         /\ Keeps(s, r) /\ s.pc = "read" /\ s.outcome = "fail"
  BY ConcludeMoves DEF WorkThrows, ReportThrows
<1>9. ItemThrows(w) =>
         /\ r.pc \in {"checkpoint", "unit"} /\ JobType[r.job] = "UPLOAD_CLEANUP"
         /\ Keeps(s, r)
         /\ \/ s.pc \in {"checkpoint", "after"} /\ s.outcome = r.outcome
            \/ s.pc = "read" /\ s.outcome = "complete"
  BY NextItemMoves DEF ItemThrows
<1>10. QED
  BY <1>3, <1>4, <1>5, <1>6, <1>7, <1>8, <1>9

LEMMA MarkMoves ==
    ASSUME TypeOK, NEW w \in Workers, NEW r, NEW s, r = worker[w], s = worker'[w]
    PROVE  /\ MarkRead(w) =>
                /\ r.pc = "read"
                /\ Keeps(s, r) /\ s.pc = "write" /\ s.outcome = r.outcome
                /\ s.retryAt = IF r.outcome = "fail" /\ MayRetry(r.job)
                               THEN Backoff(JobType[r.job], jobs[r.job].attemptCount)
                               ELSE Null
           /\ MarkWrite(w) =>
                /\ r.pc = "write"
                /\ Keeps(s, r) /\ s.pc = "event" /\ s.outcome = r.outcome
           /\ MarkEvent(w) =>
                /\ r.pc = "event"
                /\ Keeps(s, r) /\ s.pc = "release" /\ s.outcome = r.outcome
           /\ MarkRelease(w) => s = IdleWorker
<1>t. r \in WorkerState
  BY DEF TypeOK
<1>1. ASSUME MarkRead(w)
      PROVE  s = [r EXCEPT !.pc      = "write",
                           !.lockKey = jobs[r.job].lockKey,
                           !.retryAt = IF r.outcome = "fail" /\ MayRetry(r.job)
                               THEN Backoff(JobType[r.job], jobs[r.job].attemptCount)
                               ELSE Null]
  BY <1>1, BecomeIs DEF MarkRead
<1>2. ASSUME MarkWrite(w)
      PROVE  \E key : s = [r EXCEPT !.pc = "event", !.lockKey = key]
  BY <1>2, BecomeIs DEF MarkWrite
<1>3. MarkEvent(w) => s = [r EXCEPT !.pc = "release"]
  BY BecomeIs DEF MarkEvent
<1>4. MarkRelease(w) => s = IdleWorker
  BY BecomeIs DEF MarkRelease
<1>5. /\ MarkRead(w) => r.pc = "read"
      /\ MarkWrite(w) => r.pc = "write"
      /\ MarkEvent(w) => r.pc = "event"
  BY DEF MarkRead, MarkWrite, MarkEvent
<1>6. QED
  BY <1>t, <1>1, <1>2, <1>3, <1>4, <1>5 DEF WorkerState, WorkerRecord, Keeps

\* A worker's local state is its own, but for the passing of time.
LEMMA WorkerChange ==
    ASSUME TypeOK, [Next]_vars, NEW w \in Workers
    PROVE  \/ worker'[w] = worker[w]
           \/ Tick
           \/ WorkerStep(w) \/ WorkThrows(w) \/ ItemThrows(w) \/ ReportThrows(w)
           \/ TickThrows(w) \/ WorkerCrash(w)
<1>1. ASSUME NEW v \in Workers, v # w, WorkerStep(v)
      PROVE  worker'[w] = worker[w]
  <2>1. \E r : Become(v, r)
    BY <1>1 DEF WorkerStep, Claim, Execute, Mark, ClaimFind, ClaimLock, ClaimUpdate,
       ClaimAbandon, CheckBeforeStart, Checkpoint, DoUnit, CheckAfter, NextItem, Conclude,
       MarkRead, MarkWrite, MarkEvent, MarkRelease
  <2>2. QED
    BY <1>1, <2>1, BecomeIs
<1>2. ASSUME NEW v \in Workers, v # w,
             \/ WorkThrows(v) \/ ItemThrows(v) \/ ReportThrows(v)
             \/ TickThrows(v) \/ WorkerCrash(v)
      PROVE  worker'[w] = worker[w]
  <2>1. \E r : Become(v, r)
    BY <1>2 DEF WorkThrows, ItemThrows, ReportThrows, TickThrows, WorkerCrash,
       Conclude, NextItem
  <2>2. QED
    BY <1>2, <2>1, BecomeIs
<1>3. ASSUME NEW j \in Jobs, Enqueue(j) PROVE UNCHANGED worker
  BY <1>3 DEF Enqueue
<1>4. ASSUME NEW c \in Cancelers,
             RunCancel(c) \/ CancelerCrash(c) \/ \E j \in Jobs : CancelRead(c, j)
      PROVE  UNCHANGED worker
  BY <1>4 DEF RunCancel, CancelNow, CancelEvent, CancelRelease, CancelRequest,
     CancelerCrash, CancelRead
<1>5. UNCHANGED vars => UNCHANGED worker
  BY DEF vars
<1>6. QED
  BY <1>1, <1>2, <1>3, <1>4, <1>5 DEF Next

\* Only markRead brings a worker to the write of a mark function; nothing
\* but time changes what it is going to write.
LEMMA EnterWrite ==
    ASSUME TypeOK, [Next]_vars, NEW w \in Workers, worker'[w].pc = "write"
    PROVE  \/ MarkRead(w)
           \/ /\ worker[w].pc = "write"
              /\ worker'[w].job = worker[w].job
              /\ worker'[w].outcome = worker[w].outcome
              /\ worker'[w].retryAt = Null <=> worker[w].retryAt = Null
<1>t. worker[w] \in WorkerState
  BY DEF TypeOK
<1>1. CASE Tick
  <2>1. worker'[w] = AgedWorker(worker[w])
    BY <1>1 DEF Tick
  <2>2. worker[w].retryAt \in Int \cup {Null}
    BY <1>t DEF WorkerState, WorkerRecord
  <2>3. QED
    BY <1>t, <2>1, <2>2, AgedType DEF AgedWorker, WorkerState, WorkerRecord
<1>2. CASE WorkerStep(w)
  BY <1>2, ClaimMoves, ExecuteMoves, MarkMoves
     DEF WorkerStep, Claim, Execute, Mark, IdleWorker
<1>3. CASE \/ WorkThrows(w) \/ ItemThrows(w) \/ ReportThrows(w)
           \/ TickThrows(w) \/ WorkerCrash(w)
  BY <1>3, ExecuteMoves DEF IdleWorker
<1>4. CASE worker'[w] = worker[w]
  BY <1>4
<1>5. QED
  BY <1>1, <1>2, <1>3, <1>4, WorkerChange

-----------------------------------------------------------------------------
(* Retry decisions *)

\* Attempts are never taken back.
LEMMA AttemptsGrow ==
    ASSUME TypeOK, [Next]_vars, NEW j \in Jobs
    PROVE  jobs'[j].attemptCount >= jobs[j].attemptCount
<1> DEFINE r == jobs[j]
<1>1. r \in JobRow
  BY DEF TypeOK
<1>2. RowStep(j, r, jobs'[j])
  BY RowChange
<1>3. r.attemptCount \in Nat /\ Smaller(r.attemptCount + 1, AttemptCap) >= r.attemptCount
  BY <1>1, QueueAssumption DEF JobRow, Smaller
<1> HIDE DEF r
<1>4. \A now, token : Claimed(r, now, token).attemptCount
                         = Smaller(r.attemptCount + 1, AttemptCap)
  BY <1>1 DEF Claimed, JobRow
<1>5. /\ AgedJob(r).attemptCount = r.attemptCount
      /\ \A t : Requeued(r, t).attemptCount = r.attemptCount
      /\ Completed(r).attemptCount = r.attemptCount
      /\ Failed(r).attemptCount = r.attemptCount
      /\ Canceled(r).attemptCount = r.attemptCount
      /\ [r EXCEPT !.status = "QUEUED"].attemptCount = r.attemptCount
      /\ [r EXCEPT !.cancelRequested = TRUE].attemptCount = r.attemptCount
  BY <1>1 DEF AgedJob, Completed, Failed, Canceled, Requeued, JobRow
<1>6. CASE \E now, token : jobs'[j] = Claimed(r, now, token)
  BY <1>3, <1>4, <1>6 DEF r
<1>7. CASE jobs'[j].attemptCount = r.attemptCount
  BY <1>3, <1>7 DEF r
<1>8. \/ \E now, token : jobs'[j] = Claimed(r, now, token)
      \/ jobs'[j] \in {r, AgedJob(r), [r EXCEPT !.status = "QUEUED"], Completed(r), Failed(r),
                      Canceled(r), [r EXCEPT !.cancelRequested = TRUE]}
      \/ \E t : jobs'[j] = Requeued(r, t)
  BY <1>2 DEF RowStep
<1>9. CASE \E t : jobs'[j] = Requeued(r, t)
  BY <1>5, <1>7, <1>9
<1>10. CASE jobs'[j] \in {r, AgedJob(r), [r EXCEPT !.status = "QUEUED"], Completed(r),
                         Failed(r), Canceled(r), [r EXCEPT !.cancelRequested = TRUE]}
  BY <1>5, <1>7, <1>10
<1>11. QED
  BY <1>6, <1>8, <1>9, <1>10

\* Inductive: a retry that was decided is allowed, one that was denied still
\* has no attempts left when the row is written.
RetryDecided ==
    \A w \in Workers : worker[w].pc = "write" =>
        /\ worker[w].retryAt # Null => Retryable(JobType[worker[w].job])
        /\ /\ worker[w].outcome = "fail" /\ worker[w].retryAt = Null
           /\ Retryable(JobType[worker[w].job])
           => jobs[worker[w].job].attemptCount >= MaxAttempts(JobType[worker[w].job])

LEMMA RetryDecidedNext == TypeOK /\ RetryDecided /\ [Next]_vars => RetryDecided'
<1> SUFFICES ASSUME TypeOK, RetryDecided, [Next]_vars, NEW w \in Workers,
                    worker'[w].pc = "write"
             PROVE  /\ worker'[w].retryAt # Null => Retryable(JobType[worker'[w].job])
                    /\ /\ worker'[w].outcome = "fail" /\ worker'[w].retryAt = Null
                       /\ Retryable(JobType[worker'[w].job])
                       => jobs'[worker'[w].job].attemptCount
                            >= MaxAttempts(JobType[worker'[w].job])
  BY DEF RetryDecided
<1> DEFINE j == worker[w].job
<1>1. worker[w].pc # "idle" => j \in Jobs /\ JobType[j] \in JobTypes
  BY QueueAssumption DEF TypeOK, WorkerState
<1>2. MaxAttempts(JobType[j]) \in Int
  BY RetryConfigAssumption DEF MaxAttempts, Retryable
<1>3. \A i \in Jobs : jobs[i].attemptCount \in Nat /\ jobs'[i].attemptCount \in Nat
  BY TypeNext, QueueAssumption DEF TypeOK, JobRow
<1>4. CASE MarkRead(w)
  <2>1. worker[w].pc # "idle"
    BY <1>4 DEF MarkRead
  <2>2. /\ worker'[w].job = j /\ worker'[w].outcome = worker[w].outcome
        /\ worker'[w].retryAt = IF worker[w].outcome = "fail" /\ MayRetry(j)
                      THEN Backoff(JobType[j], jobs[j].attemptCount) ELSE Null
    BY <1>4, MarkMoves DEF Keeps
  <2>3. Backoff(JobType[j], jobs[j].attemptCount) # Null
    BY <1>1, <1>3, <2>1, BackoffInt, QueueAssumption
  <2>4. jobs'[j].attemptCount = jobs[j].attemptCount
    BY <1>4 DEF MarkRead
  <2> HIDE DEF j
  <2>5. CASE MayRetry(j) /\ worker[w].outcome = "fail"
    BY <2>2, <2>3, <2>5 DEF MayRetry
  <2>6. CASE ~MayRetry(j) \/ worker[w].outcome # "fail"
    <3>1. worker'[w].retryAt = Null
      BY <2>2, <2>6
    <3>2. ~MayRetry(j) /\ Retryable(JobType[j]) =>
            jobs[j].attemptCount >= MaxAttempts(JobType[j])
      BY <1>1, <1>2, <1>3, <2>1 DEF MayRetry
    <3>3. QED
      BY <2>2, <2>4, <2>6, <3>1, <3>2
  <2>7. QED
    BY <2>5, <2>6
<1>5. CASE /\ worker[w].pc = "write"
           /\ worker'[w].job = j
           /\ worker'[w].outcome = worker[w].outcome
           /\ worker'[w].retryAt = Null <=> worker[w].retryAt = Null
  BY <1>1, <1>2, <1>3, <1>5, AttemptsGrow DEF RetryDecided
<1>6. QED
  BY <1>4, <1>5, EnterWrite

LEMMA FailedNext ==
    TypeOK /\ RetryDecided /\ FailedMeansExhausted /\ [Next]_vars => FailedMeansExhausted'
<1> SUFFICES ASSUME TypeOK, RetryDecided, FailedMeansExhausted, [Next]_vars,
                    NEW j \in Jobs, jobs'[j].status = "FAILED", Retryable(JobType[j])
             PROVE  jobs'[j].attemptCount >= MaxAttempts(JobType[j])
  BY DEF FailedMeansExhausted
<1>1. MaxAttempts(JobType[j]) \in Int
  BY RetryConfigAssumption, QueueAssumption DEF MaxAttempts, Retryable
<1>2. jobs[j].attemptCount \in Nat /\ jobs'[j].attemptCount \in Nat
  BY TypeNext, QueueAssumption DEF TypeOK, JobRow
<1>3. CASE jobs[j].status = "FAILED"
  BY <1>1, <1>2, <1>3, AttemptsGrow DEF FailedMeansExhausted
<1>4. CASE jobs[j].status # "FAILED"
  <2>1. \E w \in Workers :
           /\ worker[w].job = j /\ worker[w].pc = "write" /\ worker[w].outcome = "fail"
           /\ worker[w].retryAt = Null
    <3>1. jobs[j] \in JobRow /\ RowStep(j, jobs[j], jobs'[j])
      BY RowChange DEF TypeOK
    <3>2. QED
      BY <1>4, <3>1 DEF RowStep, AgedJob, Claimed, Completed, Canceled, Requeued, JobRow
  <2>2. jobs[j].attemptCount >= MaxAttempts(JobType[j])
    BY <2>1 DEF RetryDecided
  <2>3. QED
    BY <1>1, <1>2, <2>2, AttemptsGrow
<1>5. QED
  BY <1>3, <1>4

\* A retryable job fails for good only when its attempts are used up, although
\* markFailed decides on a row that other workers may have changed since.
THEOREM FailedOnlyExhausted == Spec => []FailedMeansExhausted
<1>1. Init => RetryDecided /\ FailedMeansExhausted
  BY DEF Init, RetryDecided, FailedMeansExhausted, NoJob, IdleWorker
<1>2. /\ TypeOK /\ RetryDecided /\ [Next]_vars => RetryDecided'
      /\ TypeOK /\ RetryDecided /\ FailedMeansExhausted /\ [Next]_vars
           => FailedMeansExhausted'
  BY RetryDecidedNext, FailedNext
<1>3. QED
  BY <1>1, <1>2, TypeCorrect, PTL DEF Spec

\* markFailed never queues a destructive job again.
THEOREM DestructiveStaysOut == Spec => DestructiveNotRequeued
<1>1. TypeOK /\ RetryDecided /\ [Next]_vars => StaysOut
  <2> SUFFICES ASSUME TypeOK, RetryDecided, [Next]_vars, NEW j \in Jobs,
                      JobType[j] \in DestructiveTypes,
                      jobs[j].status \notin {"NONE", "QUEUED"},
                      jobs'[j].status = "QUEUED"
               PROVE  FALSE
    BY DEF StaysOut
  <2>1. jobs[j] \in JobRow /\ RowStep(j, jobs[j], jobs'[j])
    BY RowChange DEF TypeOK
  <2>2. \E w \in Workers : /\ worker[w].job = j /\ worker[w].pc = "write"
                           /\ worker[w].retryAt # Null
    BY <2>1 DEF RowStep, AgedJob, Claimed, Completed, Canceled, Failed, JobRow
  <2>3. QED
    BY <2>2 DEF RetryDecided, Retryable, RetryableTypes, DestructiveTypes
<1>2. Init => RetryDecided
  BY DEF Init, RetryDecided, IdleWorker
<1>3. TypeOK /\ RetryDecided /\ [Next]_vars => RetryDecided'
  BY RetryDecidedNext
<1>4. QED
  BY <1>1, <1>2, <1>3, TypeCorrect, PTL DEF Spec, DestructiveNotRequeued

-----------------------------------------------------------------------------
(* Cancel requests *)

\* No step withdraws a cancel request.
LEMMA CancelStays ==
    ASSUME TypeOK, [Next]_vars, NEW j \in Jobs, jobs[j].cancelRequested
    PROVE  jobs'[j].cancelRequested
<1> DEFINE r == jobs[j]
<1>1. r \in JobRow /\ RowStep(j, r, jobs'[j])
  BY RowChange DEF TypeOK
<1>2. r.cancelRequested
  OBVIOUS
<1> HIDE DEF r
<1>3. /\ AgedJob(r).cancelRequested
      /\ \A now, token : Claimed(r, now, token).cancelRequested
      /\ \A t : Requeued(r, t).cancelRequested
      /\ Completed(r).cancelRequested
      /\ Failed(r).cancelRequested
      /\ Canceled(r).cancelRequested
      /\ [r EXCEPT !.status = "QUEUED"].cancelRequested
      /\ [r EXCEPT !.cancelRequested = TRUE].cancelRequested
  BY <1>1, <1>2 DEF AgedJob, Claimed, Completed, Failed, Canceled, Requeued, JobRow
<1>4. \/ \E now, token : jobs'[j] = Claimed(r, now, token)
      \/ jobs'[j] \in {r, AgedJob(r), [r EXCEPT !.status = "QUEUED"], Completed(r), Failed(r),
                      Canceled(r), [r EXCEPT !.cancelRequested = TRUE]}
      \/ \E t : jobs'[j] = Requeued(r, t)
  BY <1>1 DEF RowStep
<1>5. QED
  BY <1>2, <1>3, <1>4

\* Inductive: the request the claim found is still there.
ClaimFoundCancel ==
    \A w \in Workers : worker[w].cancelAtClaim =>
        /\ worker[w].pc \notin {"idle", "checkpoint", "unit", "after"}
        /\ jobs[worker[w].job].cancelRequested

LEMMA ClaimFoundCancelNext ==
    TypeOK /\ ClaimFoundCancel /\ [Next]_vars => ClaimFoundCancel'
<1> SUFFICES ASSUME TypeOK, ClaimFoundCancel, [Next]_vars,
                    NEW w \in Workers, worker'[w].cancelAtClaim
             PROVE  /\ worker'[w].pc \notin {"idle", "checkpoint", "unit", "after"}
                    /\ jobs'[worker'[w].job].cancelRequested
  BY DEF ClaimFoundCancel
<1> DEFINE r == worker[w]
           s == worker'[w]
<1>t. /\ r \in WorkerState
      /\ r.pc # "idle" => r.job \in Jobs
  BY DEF TypeOK, WorkerState
<1>1. s # IdleWorker
  BY DEF IdleWorker
<1>2. r.cancelAtClaim /\ r.pc # "idle" => jobs'[r.job].cancelRequested
  BY <1>t, CancelStays DEF ClaimFoundCancel
<1>3. CASE Tick
  <2>1. s.pc = r.pc /\ s.job = r.job /\ s.cancelAtClaim = r.cancelAtClaim
    BY <1>3, <1>t DEF Tick, AgedWorker, WorkerState, WorkerRecord
  <2>2. QED
    BY <1>2, <2>1 DEF ClaimFoundCancel
<1>4. CASE s = r
  BY <1>2, <1>4 DEF ClaimFoundCancel
<1>5. CASE Claim(w)
  <2>1. CASE ClaimFind(w) \/ ClaimAbandon(w)
    BY <1>1, <2>1, ClaimMoves
  <2>2. CASE ClaimLock(w)
    BY <1>1, <1>2, <2>2, ClaimMoves DEF Keeps
  <2>3. CASE ClaimUpdate(w)
    <3>1. r.job \in Jobs /\ r.pc # "idle"
      BY <1>t, <2>3 DEF ClaimUpdate
    <3>2. \/ s.job = r.job /\ s.pc = "start" /\ s.cancelAtClaim = jobs[r.job].cancelRequested
          \/ Keeps(s, r) /\ s.pc = "unlock"
      BY <2>3, ClaimMoves
    <3>3. QED
      BY <1>2, <3>1, <3>2, CancelStays DEF Keeps
  <2>4. QED
    BY <1>5, <2>1, <2>2, <2>3 DEF Claim
<1>6. CASE \/ Execute(w) \/ WorkThrows(w) \/ ItemThrows(w) \/ ReportThrows(w)
           \/ TickThrows(w) \/ WorkerCrash(w)
  <2>1. CASE CheckBeforeStart(w)
    BY <1>2, <2>1, ExecuteMoves DEF Keeps, ClaimFoundCancel
  <2>2. CASE Checkpoint(w) \/ DoUnit(w) \/ CheckAfter(w) \/ ItemThrows(w)
    BY <2>2, ExecuteMoves DEF Keeps, ClaimFoundCancel
  <2>3. CASE WorkThrows(w) \/ ReportThrows(w) \/ TickThrows(w) \/ WorkerCrash(w)
    BY <1>1, <1>2, <2>3, ExecuteMoves DEF Keeps, ClaimFoundCancel, Marking
  <2>4. QED
    BY <1>6, <2>1, <2>2, <2>3 DEF Execute
<1>7. CASE Mark(w)
  BY <1>1, <1>2, <1>7, MarkMoves DEF Mark, Keeps
<1>8. QED
  BY <1>3, <1>4, <1>5, <1>6, <1>7, WorkerChange DEF WorkerStep

\* An attempt whose claim found a cancel request does none of the job's work.
THEOREM CanceledDoesNoWork == Spec => []CanceledClaimDoesNoWork
<1>1. Init => ClaimFoundCancel
  BY DEF Init, ClaimFoundCancel, IdleWorker
<1>2. TypeOK /\ ClaimFoundCancel /\ [Next]_vars => ClaimFoundCancel'
  BY ClaimFoundCancelNext
<1>3. ClaimFoundCancel => CanceledClaimDoesNoWork
  BY DEF ClaimFoundCancel, CanceledClaimDoesNoWork
<1>4. QED
  BY <1>1, <1>2, <1>3, TypeCorrect, PTL DEF Spec

-----------------------------------------------------------------------------
(* While every live worker ends its job within the lock TTL, no job is     *)
(* executed by two workers at once - also when a retry, a crash, a failed  *)
(* report or a cancel request comes between.  The argument uses the        *)
(* lockedAt column and the conditional update alone: the Redis lock adds   *)
(* nothing to it, so the theorem covers a deployment without Redis.        *)

\* A worker that may still write the row of its job: it executes it, or it
\* reports an outcome inside the try block, whose failure writes once more.
Engaged(w) ==
    \/ worker[w].pc \in Executing
    \/ /\ worker[w].pc \in {"event", "release"}
       /\ worker[w].outcome \in {"complete", "cancelEarly"}

\* The age of a claim is bounded: Tick waits for a worker that is late.
ClaimIsYoung ==
    \A w \in Workers : worker[w].pc # "idle" => worker[w].now \in (-MaxDelay)..0

\* The row of an engaged worker's job carries the instant of its claim.
ClaimIsRecorded ==
    \A w \in Workers : Engaged(w) =>
        /\ jobs[worker[w].job].status \notin {"NONE", "QUEUED"}
        /\ jobs[worker[w].job].status = "RUNNING"
             => jobs[worker[w].job].lockedAt = worker[w].now

SoleEngaged ==
    \A v, w \in Workers :
        Engaged(v) /\ Engaged(w) /\ worker[v].job = worker[w].job => v = w

SoleInv == ClaimIsYoung /\ ClaimIsRecorded /\ SoleEngaged

LEMMA EngagedHasJob ==
    ASSUME TypeOK, NEW w \in Workers, Engaged(w)
    PROVE  worker[w].pc # "idle" /\ worker[w].job \in Jobs
BY DEF TypeOK, Engaged, Executing, WorkerState

\* A worker is engaged by a claim, and keeps the job and the instant of it.
LEMMA EngagedSource ==
    ASSUME TypeOK, [Next]_vars, NEW w \in Workers, Engaged(w)'
    PROVE  /\ worker'[w].job = worker[w].job
           /\ \/ ClaimUpdate(w) /\ Claimable(worker[w].job, worker[w].now)
              \/ Engaged(w)
<1> DEFINE r == worker[w]
           s == worker'[w]
<1>t. r \in WorkerState
  BY DEF TypeOK
<1>e. \/ s.pc \in Executing
      \/ s.pc \in {"event", "release"} /\ s.outcome \in {"complete", "cancelEarly"}
  BY DEF Engaged
<1>i. s # IdleWorker /\ s.pc \notin {"idle", "lock", "claim", "unlock"}
  BY <1>e DEF IdleWorker, Executing
<1>1. CASE Tick
  BY <1>1, <1>t, <1>e DEF Tick, AgedWorker, WorkerState, WorkerRecord, Engaged, Executing
<1>2. CASE s = r
  BY <1>2, <1>e DEF Engaged
<1>3. CASE Claim(w)
  BY <1>3, <1>i, ClaimMoves DEF Claim, Keeps
<1>4. CASE Execute(w)
  BY <1>4, ExecuteMoves DEF Execute, Keeps, Engaged, Executing
<1>5. CASE WorkThrows(w) \/ ItemThrows(w) \/ ReportThrows(w)
  <2>1. worker'[w].job = worker[w].job
    BY <1>5, ExecuteMoves DEF Keeps
  <2>2. Engaged(w)
    BY <1>5, ExecuteMoves DEF Engaged, Executing, Marking
  <2>3. QED
    BY <2>1, <2>2
<1>6. CASE TickThrows(w) \/ WorkerCrash(w)
  BY <1>6, <1>i, ExecuteMoves
<1>7. CASE Mark(w)
  BY <1>7, <1>i, <1>e, MarkMoves DEF Mark, Keeps, Engaged, Executing
<1>8. QED
  BY <1>1, <1>2, <1>3, <1>4, <1>5, <1>6, <1>7, WorkerChange DEF WorkerStep

LEMMA YoungNext == TypeOK /\ ClaimIsYoung /\ [Next]_vars => ClaimIsYoung'
<1> SUFFICES ASSUME TypeOK, ClaimIsYoung, [Next]_vars,
                    NEW w \in Workers, worker'[w].pc # "idle"
             PROVE  worker'[w].now \in (-MaxDelay)..0
  BY DEF ClaimIsYoung
<1> DEFINE r == worker[w]
           s == worker'[w]
<1>t. r \in WorkerState
  BY DEF TypeOK
<1>y. r.pc # "idle" => r.now \in (-MaxDelay)..0
  BY DEF ClaimIsYoung
<1>i. s # IdleWorker
  BY DEF IdleWorker
<1>1. CASE Tick
  <2>1. r.pc # "idle" /\ s.now = Aged(r.now)
    BY <1>1, <1>t DEF Tick, AgedWorker, WorkerState, WorkerRecord
  <2>2. r.now > -MaxDelay
    BY <1>1, <2>1 DEF Tick
  <2>3. QED
    BY <1>y, <2>1, <2>2, QueueAssumption DEF Aged, Larger
<1>2. CASE s = r
  BY <1>2, <1>y
<1>3. CASE ClaimFind(w)
  BY <1>3, ClaimMoves, QueueAssumption
<1>4. CASE WorkerStep(w) /\ ~ClaimFind(w)
  <2>1. r.pc # "idle" /\ s.now = r.now
    <3>1. CASE Claim(w)
      BY <1>4, <1>i, <3>1, ClaimMoves DEF Claim, Keeps
    <3>2. CASE Execute(w)
      BY <3>2, ExecuteMoves DEF Execute, Keeps
    <3>3. CASE Mark(w)
      BY <1>i, <3>3, MarkMoves DEF Mark, Keeps
    <3>4. QED
      BY <1>4, <3>1, <3>2, <3>3 DEF WorkerStep
  <2>2. QED
    BY <1>y, <2>1
<1>5. CASE \/ WorkThrows(w) \/ ItemThrows(w) \/ ReportThrows(w)
           \/ TickThrows(w) \/ WorkerCrash(w)
  <2>1. r.pc # "idle" /\ s.now = r.now
    BY <1>5, <1>i, ExecuteMoves DEF Keeps, Marking
  <2>2. QED
    BY <1>y, <2>1
<1>6. QED
  BY <1>1, <1>2, <1>3, <1>4, <1>5, WorkerChange

\* The heart of the argument: a job with an engaged worker is not claimable,
\* for a claim is not older than MaxDelay and staleness begins after LockTTL.
LEMMA EngagedNotClaimable ==
    ASSUME TypeOK, SoleInv, MaxDelay <= LockTTL,
           NEW v \in Workers, worker[v].pc # "idle",
           NEW w \in Workers, Engaged(w), worker[w].job = worker[v].job
    PROVE  ~Claimable(worker[v].job, worker[v].now)
<1>1. worker[v].now \in (-MaxDelay)..0 /\ worker[w].now \in (-MaxDelay)..0
  BY EngagedHasJob DEF SoleInv, ClaimIsYoung
<1>2. /\ jobs[worker[v].job].status # "QUEUED"
      /\ jobs[worker[v].job].status = "RUNNING"
           => jobs[worker[v].job].lockedAt = worker[w].now
  BY DEF SoleInv, ClaimIsRecorded
<1>3. ~(worker[w].now < worker[v].now - LockTTL)
  BY <1>1, QueueAssumption
<1>4. QED
  BY <1>2, <1>3 DEF Claimable

LEMMA RecordedNext ==
    ASSUME TypeOK, SoleInv, MaxDelay <= LockTTL, [Next]_vars
    PROVE  ClaimIsRecorded'
<1> SUFFICES ASSUME NEW w \in Workers, Engaged(w)'
             PROVE  /\ jobs'[worker'[w].job].status \notin {"NONE", "QUEUED"}
                    /\ jobs'[worker'[w].job].status = "RUNNING"
                         => jobs'[worker'[w].job].lockedAt = worker'[w].now
  BY DEF ClaimIsRecorded
<1> DEFINE j == worker[w].job
           Recorded(r, now) == /\ r.status \notin {"NONE", "QUEUED"}
                               /\ r.status = "RUNNING" => r.lockedAt = now
<1>t. jobs \in [Jobs -> JobRow] /\ worker[w] \in WorkerState
  BY DEF TypeOK
<1>j. worker'[w].job = j
  BY EngagedSource
<1>1. CASE ClaimUpdate(w) /\ Claimable(j, worker[w].now)
  <2>1. j \in Jobs
    BY <1>1, <1>t DEF ClaimUpdate, WorkerState
  <2>2. jobs'[j] = Claimed(jobs[j], worker[w].now, worker[w].token)
    BY <1>1, <1>t, <2>1 DEF ClaimUpdate
  <2>3. worker'[w].now = worker[w].now
    BY <1>1, ClaimMoves DEF Keeps
  <2>4. QED
    BY <1>j, <1>t, <2>1, <2>2, <2>3 DEF Claimed, JobRow
<1>2. CASE Engaged(w) /\ Tick
  <2>1. j \in Jobs /\ worker[w].pc # "idle" /\ Recorded(jobs[j], worker[w].now)
    BY <1>2, EngagedHasJob DEF SoleInv, ClaimIsRecorded
  <2>2. jobs'[j] = AgedJob(jobs[j]) /\ worker'[w].now = Aged(worker[w].now)
    BY <1>2, <1>t, <2>1 DEF Tick, AgedWorker, WorkerState, WorkerRecord
  <2>3. QED
    BY <1>j, <1>t, <2>1, <2>2 DEF AgedJob, JobRow
<1>3. CASE Engaged(w) /\ ~Tick /\ ~ClaimUpdate(w)
  <2>1. /\ j \in Jobs /\ worker[w].pc # "idle" /\ Recorded(jobs[j], worker[w].now)
        /\ jobs[j] \in JobRow
    BY <1>3, <1>t, EngagedHasJob DEF SoleInv, ClaimIsRecorded
  <2>2. worker'[w].now = worker[w].now
    <3>1. worker'[w] # IdleWorker
      BY DEF Engaged, IdleWorker, Executing
    <3>2. CASE Claim(w)
      BY <1>3, <2>1, <3>1, <3>2, ClaimMoves DEF Claim, Keeps, ClaimFind
    <3>3. CASE \/ Execute(w) \/ WorkThrows(w) \/ ItemThrows(w) \/ ReportThrows(w)
               \/ TickThrows(w) \/ WorkerCrash(w)
      BY <3>1, <3>3, ExecuteMoves DEF Execute, Keeps
    <3>4. CASE Mark(w)
      BY <3>1, <3>4, MarkMoves DEF Mark, Keeps
    <3>5. QED
      BY <1>3, <3>2, <3>3, <3>4, WorkerChange DEF WorkerStep
  <2>3. ASSUME NEW i \in Jobs, Enqueue(i) PROVE jobs'[j] = jobs[j]
    BY <1>t, <2>1, <2>3 DEF Enqueue
  <2>4. ASSUME NEW v \in Workers, ClaimUpdate(v), Claimable(worker[v].job, worker[v].now)
        PROVE  jobs'[j] = jobs[j]
    <3>1. worker[v].job # j
      BY <1>3, <2>4, EngagedNotClaimable DEF ClaimUpdate
    <3>2. QED
      BY <1>t, <2>1, <2>4, <3>1 DEF ClaimUpdate
  <2>5. ASSUME NEW v \in Workers, MarkWrite(v)
        PROVE  Recorded(jobs'[j], worker[w].now)
    <3>1. Engaged(v)
      BY <2>5 DEF MarkWrite, Engaged, Executing
    <3>2. CASE worker[v].job # j
      BY <1>t, <2>1, <2>5, <3>2 DEF MarkWrite
    <3>3. CASE worker[v].job = j
      <4>1. v = w
        BY <1>3, <3>1, <3>3 DEF SoleInv, SoleEngaged
      <4>2. worker[w].outcome \in {"complete", "cancelEarly"}
        BY <2>5, <4>1, MarkMoves DEF Engaged, Executing
      <4>3. jobs'[j] \in {Completed(jobs[j]), Canceled(jobs[j])}
        BY <1>t, <2>1, <2>5, <4>1, <4>2 DEF MarkWrite, Marked
      <4>4. QED
        BY <2>1, <4>3 DEF Completed, Canceled, JobRow
    <3>4. QED
      BY <3>2, <3>3
  <2>6. ASSUME NEW c \in Cancelers, CancelNow(c) \/ CancelRequest(c)
        PROVE  Recorded(jobs'[j], worker[w].now)
    <3>1. jobs'[j] \in {jobs[j], Canceled(jobs[j]), [jobs[j] EXCEPT !.cancelRequested = TRUE]}
      BY <1>t, <2>1, <2>6 DEF CancelNow, CancelRequest
    <3>2. QED
      BY <2>1, <3>1 DEF Canceled, JobRow
  <2>7. QED
    BY <1>3, <1>j, <2>1, <2>2, <2>3, <2>4, <2>5, <2>6, JobsChange
<1>4. Engaged(w) => ~ClaimUpdate(w)
  BY DEF Engaged, Executing, ClaimUpdate
<1>5. QED
  BY <1>1, <1>2, <1>3, <1>4, EngagedSource

LEMMA SoleNext ==
    ASSUME TypeOK, SoleInv, MaxDelay <= LockTTL, [Next]_vars
    PROVE  SoleEngaged'
<1> SUFFICES ASSUME NEW v \in Workers, NEW w \in Workers, v # w,
                    Engaged(v)', Engaged(w)', worker'[v].job = worker'[w].job
             PROVE  FALSE
  BY DEF SoleEngaged
<1>1. worker[v].job = worker[w].job
  BY EngagedSource
<1>2. CASE Engaged(v) /\ Engaged(w)
  BY <1>1, <1>2 DEF SoleInv, SoleEngaged
<1>3. ASSUME NEW x \in Workers, NEW y \in Workers, Engaged(y),
             worker[x].job = worker[y].job,
             ClaimUpdate(x), Claimable(worker[x].job, worker[x].now)
      PROVE  FALSE
  BY <1>3, EngagedNotClaimable DEF ClaimUpdate
<1>4. CASE ClaimUpdate(v) /\ ClaimUpdate(w)
  <2>1. worker'[w] = worker[w]
    BY <1>4, BecomeIs DEF ClaimUpdate
  <2>2. QED
    BY <1>4, <2>1 DEF Engaged, Executing, ClaimUpdate
<1>5. QED
  BY <1>1, <1>2, <1>3, <1>4, EngagedSource

LEMMA InitSole == Init => SoleInv
BY DEF Init, SoleInv, ClaimIsYoung, ClaimIsRecorded, SoleEngaged, Engaged, Executing,
   IdleWorker

LEMMA SoleInductive ==
    ASSUME TypeOK, SoleInv, MaxDelay <= LockTTL, [Next]_vars
    PROVE  SoleInv'
BY YoungNext, RecordedNext, SoleNext DEF SoleInv

\* No job is executed by two workers at once, for every number of workers,
\* jobs, crashes, errors and cancel requests, with Redis or without.
THEOREM OneExecutor == MaxDelay <= LockTTL /\ Spec => []SoleExecutor
<1> SUFFICES ASSUME MaxDelay <= LockTTL PROVE Spec => []SoleExecutor
  OBVIOUS
<1>1. TypeOK /\ SoleInv /\ [Next]_vars => SoleInv'
  BY SoleInductive
<1>2. SoleInv => SoleExecutor
  BY DEF SoleInv, SoleEngaged, SoleExecutor, Executes, Engaged
<1>3. QED
  BY InitSole, <1>1, <1>2, TypeCorrect, PTL DEF Spec

-----------------------------------------------------------------------------
(* The row of a job that a worker is engaged with *)

\* A row as the life cycle and the cancel requests see it.
SameJob(s, r) ==
    /\ s.status = r.status /\ s.attemptCount = r.attemptCount
    /\ s.cancelRequested = r.cancelRequested

LEMMA AgedSame == ASSUME NEW r \in JobRow PROVE SameJob(AgedJob(r), r)
BY DEF AgedJob, SameJob, JobRow

\* What the claim and a cancel request make of a row.
LEMMA OtherSays ==
    ASSUME NEW r \in JobRow
    PROVE  /\ \A now, token : LET s == Claimed(r, now, token) IN
                 /\ s.status = "RUNNING" /\ s.cancelRequested = r.cancelRequested
                 /\ s.attemptCount = Smaller(r.attemptCount + 1, AttemptCap)
           /\ Canceled(r).status = "CANCELED" /\ Canceled(r).attemptCount = r.attemptCount
           /\ LET s == [r EXCEPT !.cancelRequested = TRUE] IN
                 s.status = r.status /\ s.attemptCount = r.attemptCount
BY DEF Claimed, Canceled, JobRow

\* What the mark functions make of a row.
LEMMA MarkedSays ==
    ASSUME NEW r \in JobRow, NEW t, NEW s,
           NEW o \in Outcomes \ {"none"}, s = Marked(r, o, t)
    PROVE  /\ s.attemptCount = r.attemptCount
           /\ o = "complete" => s.status = "COMPLETED"
           /\ o \in {"cancel", "cancelEarly"} => s.status = "CANCELED"
           /\ o = "fail" /\ t # Null => s.status = "QUEUED"
           /\ o = "fail" /\ t = Null => s.status = "FAILED"
           /\ o \in {"complete", "fail"} => s.cancelRequested = r.cancelRequested
<1>1. CASE o = "complete"
  BY <1>1 DEF Marked, Completed, JobRow
<1>2. CASE o = "fail" /\ t # Null
  BY <1>2 DEF Marked, Requeued, JobRow
<1>3. CASE o = "fail" /\ t = Null
  BY <1>3 DEF Marked, Failed, JobRow
<1>4. CASE o \in {"cancel", "cancelEarly"}
  BY <1>4 DEF Marked, Canceled, JobRow
<1> QED
  BY <1>1, <1>2, <1>3, <1>4 DEF Outcomes

LEMMA MarkWriteSays ==
    ASSUME TypeOK, NEW w \in Workers, MarkWrite(w)
    PROVE  /\ worker[w].job \in Jobs /\ worker[w].outcome \in Outcomes \ {"none"}
           /\ worker[w].pc = "write"
           /\ jobs'[worker[w].job] =
                Marked(jobs[worker[w].job], worker[w].outcome, worker[w].retryAt)
           /\ \A i \in Jobs \ {worker[w].job} : jobs'[i] = jobs[i]
<1>1. worker[w] \in WorkerState /\ jobs \in [Jobs -> JobRow] /\ worker[w].pc = "write"
  BY DEF TypeOK, MarkWrite
<1>2. worker[w].job \in Jobs /\ worker[w].outcome \in Outcomes \ {"none"}
  BY <1>1 DEF WorkerState, WorkerRecord, Marking
<1>3. jobs' = [jobs EXCEPT ![worker[w].job] =
                  Marked(@, worker[w].outcome, worker[w].retryAt)]
  BY DEF MarkWrite
<1> QED
  BY <1>1, <1>2, <1>3

\* While a worker is engaged with a job, nobody claims the job or marks it but
\* the worker itself; a cancel request may come.
LEMMA EngagedRow ==
    ASSUME TypeOK, SoleInv, MaxDelay <= LockTTL, [Next]_vars,
           NEW w \in Workers, Engaged(w), NEW j, j = worker[w].job
    PROVE  \/ SameJob(jobs'[j], jobs[j])
           \/ /\ \E c \in Cancelers : canceler[c].pc # "idle"
              /\ jobs'[j].status \in {jobs[j].status, "CANCELED"}
              /\ jobs'[j].attemptCount = jobs[j].attemptCount
           \/ MarkWrite(w)
<1>1. j \in Jobs /\ jobs[j] \in JobRow /\ jobs \in [Jobs -> JobRow]
  BY EngagedHasJob DEF TypeOK
<1>2. CASE UNCHANGED jobs
  BY <1>2 DEF SameJob
<1>3. CASE Tick
  <2>1. jobs'[j] = AgedJob(jobs[j])
    BY <1>1, <1>3 DEF Tick
  <2> QED
    BY <1>1, <2>1, AgedSame
<1>4. ASSUME NEW i \in Jobs, Enqueue(i) PROVE SameJob(jobs'[j], jobs[j])
  <2>1. jobs[j].status # "NONE" /\ jobs[i].status = "NONE"
    BY <1>4 DEF SoleInv, ClaimIsRecorded, Enqueue
  <2>2. jobs'[j] = jobs[j]
    BY <1>1, <1>4, <2>1 DEF Enqueue
  <2> QED
    BY <2>2 DEF SameJob
<1>5. ASSUME NEW v \in Workers, ClaimUpdate(v), Claimable(worker[v].job, worker[v].now)
      PROVE  SameJob(jobs'[j], jobs[j])
  <2>1. worker[v].job # j
    BY <1>5, EngagedNotClaimable DEF ClaimUpdate
  <2>2. jobs'[j] = jobs[j]
    BY <1>1, <1>5, <2>1 DEF ClaimUpdate
  <2> QED
    BY <2>2 DEF SameJob
<1>6. ASSUME NEW v \in Workers, MarkWrite(v), v # w PROVE SameJob(jobs'[j], jobs[j])
  <2>1. Engaged(v)
    BY <1>6 DEF MarkWrite, Engaged, Executing
  <2>2. worker[v].job # j
    BY <1>6, <2>1 DEF SoleInv, SoleEngaged
  <2>3. jobs'[j] = jobs[j]
    BY <1>1, <1>6, <2>2, MarkWriteSays
  <2> QED
    BY <2>3 DEF SameJob
<1>7. ASSUME NEW c \in Cancelers, CancelNow(c) \/ CancelRequest(c)
      PROVE  /\ canceler[c].pc # "idle"
             /\ jobs'[j].status \in {jobs[j].status, "CANCELED"}
             /\ jobs'[j].attemptCount = jobs[j].attemptCount
  <2>1. canceler[c].pc # "idle" /\
        jobs'[j] \in {jobs[j], Canceled(jobs[j]), [jobs[j] EXCEPT !.cancelRequested = TRUE]}
    BY <1>1, <1>7 DEF CancelNow, CancelRequest
  <2> QED
    BY <1>1, <2>1 DEF Canceled, JobRow
<1> QED
  BY <1>2, <1>3, <1>4, <1>5, <1>6, <1>7, JobsChange

\* The states of the work itself, before a mark function.
Working == {"start", "checkpoint", "unit", "after"}

LEMMA WorkingSource ==
    ASSUME TypeOK, [Next]_vars, NEW w \in Workers, worker'[w].pc \in Working
    PROVE  /\ worker'[w].job = worker[w].job
           /\ \/ ClaimUpdate(w) /\ Claimable(worker[w].job, worker[w].now)
              \/ worker[w].pc \in Working
<1> DEFINE r == worker[w]
           s == worker'[w]
<1>t. r \in WorkerState /\ Working \subseteq Executing
  BY DEF TypeOK, Working, Executing
<1>e. Engaged(w)'
  BY <1>t DEF Engaged
<1>i. s # IdleWorker /\ s.pc \notin {"idle", "lock", "claim", "unlock", "read", "write", "event", "release"}
  BY DEF IdleWorker, Working
<1>j. s.job = r.job /\ ((ClaimUpdate(w) /\ Claimable(r.job, r.now)) \/ Engaged(w))
  BY <1>e, EngagedSource
<1>1. CASE Tick
  BY <1>1, <1>t, <1>j DEF Tick, AgedWorker, WorkerState, WorkerRecord
<1>2. CASE s = r
  BY <1>2, <1>j
<1>3. CASE Claim(w)
  BY <1>3, <1>i, <1>j, ClaimMoves DEF Claim
<1>4. CASE Execute(w)
  BY <1>4, <1>j, ExecuteMoves DEF Execute, Working
<1>5. CASE \/ WorkThrows(w) \/ ItemThrows(w) \/ ReportThrows(w)
           \/ TickThrows(w) \/ WorkerCrash(w)
  BY <1>5, <1>i, <1>j, ExecuteMoves DEF Working
<1>6. CASE Mark(w)
  BY <1>6, <1>i, MarkMoves DEF Mark
<1> QED
  BY <1>1, <1>2, <1>3, <1>4, <1>5, <1>6, WorkerChange DEF WorkerStep

-----------------------------------------------------------------------------
(* A cancel request that was observed *)

\* A worker at work, but not yet at a mark function, has not completed the job.
WorkIsOpen ==
    \A w \in Workers : worker[w].pc \in Working =>
        jobs[worker[w].job].status \in {"RUNNING", "CANCELED"}

\* An observed request is in the row.
ObservedIsRequested == \A j \in Jobs : events[j].cancelObserved => jobs[j].cancelRequested

\* The worker r is past its last look for a cancel request.
Finishing(r) == \/ r.pc = "unit"
                \/ r.pc \in {"read", "write"} /\ r.outcome = "complete"

\* Whoever is about to complete a job has not observed a request, nor has anyone
\* before it.
FinishesUnseen ==
    \A w \in Workers :
        Finishing(worker[w]) /\ JobType[worker[w].job] # "UPLOAD_CLEANUP"
            => ~events[worker[w].job].cancelObserved

LEMMA WorkIsOpenNext ==
    ASSUME TypeOK, SoleInv, WorkIsOpen, MaxDelay <= LockTTL, [Next]_vars
    PROVE  WorkIsOpen'
<1> SUFFICES ASSUME NEW w \in Workers, worker'[w].pc \in Working
             PROVE  jobs'[worker'[w].job].status \in {"RUNNING", "CANCELED"}
  BY DEF WorkIsOpen
<1> DEFINE j == worker[w].job
<1>1. worker'[w].job = j
  BY WorkingSource
<1>2. CASE ClaimUpdate(w) /\ Claimable(j, worker[w].now)
  <2>1. j \in Jobs /\ jobs \in [Jobs -> JobRow]
    BY <1>2 DEF TypeOK, WorkerState, ClaimUpdate
  <2>2. jobs'[j] = Claimed(jobs[j], worker[w].now, worker[w].token)
    BY <1>2, <2>1 DEF ClaimUpdate
  <2>3. jobs'[j].status = "RUNNING"
    BY <2>1, <2>2 DEF Claimed, JobRow
  <2> QED
    BY <1>1, <2>3
<1>3. CASE worker[w].pc \in Working
  <2>1. Engaged(w) /\ ~MarkWrite(w)
    BY <1>3 DEF Working, Engaged, Executing, MarkWrite
  <2>2. jobs'[j].status \in {jobs[j].status, "CANCELED"}
    BY <2>1, EngagedRow DEF SameJob
  <2> QED
    BY <1>1, <1>3, <2>2 DEF WorkIsOpen
<1> QED
  BY <1>2, <1>3, WorkingSource

LEMMA FinishSource ==
    ASSUME TypeOK, [Next]_vars, NEW w \in Workers, Finishing(worker'[w]),
           JobType[worker'[w].job] # "UPLOAD_CLEANUP"
    PROVE  /\ worker'[w].job = worker[w].job
           /\ \/ Finishing(worker[w])
              \/ UNCHANGED events /\ ~jobs[worker[w].job].cancelRequested
<1> DEFINE r == worker[w]
           s == worker'[w]
<1>t. r \in WorkerState
  BY DEF TypeOK
<1>i. /\ s # IdleWorker /\ s.pc \in {"unit", "read", "write"}
      /\ s.pc \in {"read", "write"} => s.outcome = "complete"
  BY DEF IdleWorker, Finishing
<1>1. CASE Tick
  <2>1. s.pc = r.pc /\ s.job = r.job /\ s.outcome = r.outcome
    BY <1>1, <1>t DEF Tick, AgedWorker, WorkerState, WorkerRecord
  <2> QED
    BY <2>1 DEF Finishing
<1>2. CASE s = r
  BY <1>2
<1>3. CASE Claim(w)
  BY <1>3, <1>i, ClaimMoves DEF Claim
<1>4. CASE CheckBeforeStart(w)
  BY <1>4, <1>i, ExecuteMoves
<1>5. CASE Checkpoint(w)
  <2>1. s.job = r.job
    BY <1>5, ExecuteMoves DEF Keeps
  <2>2. ~jobs[r.job].cancelRequested
    <3>1. jobs[r.job].cancelRequested => Conclude(w, "cancel")
      BY <1>5, <2>1 DEF Checkpoint
    <3> QED
      BY <1>i, <3>1, ConcludeMoves
  <2>3. UNCHANGED events
    BY <1>5, <2>2 DEF Checkpoint
  <2> QED
    BY <2>1, <2>2, <2>3
<1>6. CASE DoUnit(w)
  BY <1>6, ExecuteMoves DEF Keeps, Finishing
<1>7. CASE CheckAfter(w)
  <2>1. s.job = r.job /\ ~jobs[r.job].cancelRequested
    BY <1>7, <1>i, ExecuteMoves DEF Keeps
  <2>2. UNCHANGED events
    BY <1>7, <2>1 DEF CheckAfter
  <2> QED
    BY <2>1, <2>2
<1>8. CASE WorkThrows(w) \/ ItemThrows(w) \/ ReportThrows(w) \/ TickThrows(w) \/ WorkerCrash(w)
  BY <1>8, <1>i, ExecuteMoves DEF Keeps
<1>9. CASE Mark(w)
  BY <1>9, <1>i, MarkMoves DEF Mark, Keeps, Finishing
<1> QED
  BY <1>1, <1>2, <1>3, <1>4, <1>5, <1>6, <1>7, <1>8, <1>9, WorkerChange
     DEF WorkerStep, Execute

\* A request is observed by a worker at work that finds it in the row, and that
\* does not finish thereafter.
LEMMA ObservedBy ==
    ASSUME TypeOK, [Next]_vars, NEW j \in Jobs,
           events'[j].cancelObserved, ~events[j].cancelObserved
    PROVE  \E w \in Workers :
              /\ worker[w].job = j /\ worker[w].pc \in Working
              /\ jobs[j].cancelRequested /\ UNCHANGED jobs
              /\ Finishing(worker'[w]) => JobType[j] = "UPLOAD_CLEANUP"
<1>t. events \in [Jobs -> EventRows]
  BY DEF TypeOK
<1>1. ASSUME NEW w \in Workers, CheckBeforeStart(w) \/ Checkpoint(w) \/ CheckAfter(w)
      PROVE  /\ worker[w].job = j /\ worker[w].pc \in Working
             /\ jobs[j].cancelRequested /\ UNCHANGED jobs
             /\ Finishing(worker'[w]) => JobType[j] = "UPLOAD_CLEANUP"
  <2>1. /\ jobs[worker[w].job].cancelRequested /\ Observe(worker[w].job)
        /\ worker[w].pc \in Working
    BY <1>1 DEF CheckBeforeStart, Checkpoint, CheckAfter, Working
  <2>2. worker[w].job = j
    BY <1>t, <2>1 DEF Observe
  <2>3. UNCHANGED jobs
    BY <1>1 DEF CheckBeforeStart, Checkpoint, CheckAfter
  <2>4. \/ \E o \in {"cancel", "cancelEarly"} : Conclude(w, o)
        \/ JobType[j] = "UPLOAD_CLEANUP"
    BY <1>1, <2>1, <2>2 DEF CheckBeforeStart, Checkpoint, CheckAfter
  <2>5. ASSUME NEW o \in {"cancel", "cancelEarly"}, Conclude(w, o)
        PROVE  ~Finishing(worker'[w])
    BY <2>5, ConcludeMoves DEF Finishing
  <2> QED
    BY <2>1, <2>2, <2>3, <2>4, <2>5
<1>2. ASSUME NEW w \in Workers, MarkEvent(w) PROVE FALSE
  <2>1. worker[w] \in WorkerState /\ worker[w].pc = "event"
    BY <1>2 DEF TypeOK, MarkEvent
  <2>2. worker[w].job \in Jobs /\ worker[w].outcome \in Outcomes \ {"none"}
    BY <2>1 DEF WorkerState, WorkerRecord, Marking
  <2>3. events' = [events EXCEPT ![worker[w].job] =
                      Reported(@, worker[w].outcome, worker[w].retryAt)]
    BY <1>2 DEF MarkEvent
  <2>4. Reported(events[j], worker[w].outcome, worker[w].retryAt).cancelObserved
           = events[j].cancelObserved
    BY <1>t, <2>2 DEF Reported, EventRows, Outcomes
  <2> QED
    BY <1>t, <2>3, <2>4
<1>3. ASSUME NEW c \in Cancelers, CancelEvent(c) PROVE FALSE
  BY <1>t, <1>3 DEF CancelEvent, EventRows
<1>4. ASSUME NEW w \in Workers,
             Claim(w) \/ DoUnit(w) \/ MarkRead(w) \/ MarkWrite(w) \/ MarkRelease(w)
      PROVE  UNCHANGED events
  BY <1>4 DEF Claim, ClaimFind, ClaimLock, ClaimUpdate, ClaimAbandon, DoUnit, MarkRead,
     MarkWrite, MarkRelease
<1>5. ASSUME NEW w \in Workers, \/ WorkThrows(w) \/ ItemThrows(w) \/ ReportThrows(w)
                                \/ TickThrows(w) \/ WorkerCrash(w)
      PROVE  UNCHANGED events
  BY <1>5 DEF WorkThrows, ItemThrows, ReportThrows, TickThrows, WorkerCrash
<1>6. ASSUME NEW c \in Cancelers,
             \/ CancelNow(c) \/ CancelRelease(c) \/ CancelRequest(c) \/ CancelerCrash(c)
             \/ \E i \in Jobs : CancelRead(c, i)
      PROVE  UNCHANGED events
  BY <1>6 DEF CancelNow, CancelRelease, CancelRequest, CancelerCrash, CancelRead
<1>7. Tick \/ (\E i \in Jobs : Enqueue(i)) \/ UNCHANGED vars => UNCHANGED events
  BY DEF Tick, Enqueue, vars
<1>8. ~UNCHANGED events
  OBVIOUS
<1> QED
  BY <1>1, <1>2, <1>3, <1>4, <1>5, <1>6, <1>7, <1>8
     DEF Next, WorkerStep, Execute, Mark, RunCancel

ObservedInv == WorkIsOpen /\ ObservedIsRequested /\ FinishesUnseen /\ ObservedCancelIsKept

LEMMA FinishesUnseenNext ==
    ASSUME TypeOK, SoleInv, ObservedInv, MaxDelay <= LockTTL, [Next]_vars
    PROVE  FinishesUnseen'
<1> SUFFICES ASSUME NEW w \in Workers, Finishing(worker'[w]),
                    JobType[worker'[w].job] # "UPLOAD_CLEANUP",
                    events'[worker'[w].job].cancelObserved
             PROVE  FALSE
  BY DEF FinishesUnseen, Finishing
<1> DEFINE j == worker[w].job
<1>1. worker'[w].job = j /\ j \in Jobs
  <2>1. worker'[w].job = j
    BY FinishSource
  <2>2. worker'[w] \in WorkerState /\ worker'[w].pc # "idle"
    BY TypeNext DEF TypeOK, Finishing
  <2> QED
    BY <2>1, <2>2 DEF WorkerState
<1>2. ~events[j].cancelObserved
  BY <1>1, FinishSource DEF ObservedInv, FinishesUnseen, ObservedIsRequested
<1>3. ~UNCHANGED events
  BY <1>1, <1>2
<1>4. Finishing(worker[w])
  BY <1>3, FinishSource
<1>5. PICK v \in Workers : /\ worker[v].job = j /\ worker[v].pc \in Working
                           /\ Finishing(worker'[v]) => JobType[j] = "UPLOAD_CLEANUP"
  BY <1>1, <1>2, ObservedBy
<1>6. Engaged(v) /\ Engaged(w)
  BY <1>4, <1>5 DEF Engaged, Executing, Working, Finishing
<1>7. v = w
  BY <1>5, <1>6 DEF SoleInv, SoleEngaged
<1> QED
  BY <1>1, <1>5, <1>7

LEMMA ObservedKeptNext ==
    ASSUME TypeOK, SoleInv, ObservedInv, MaxDelay <= LockTTL, [Next]_vars
    PROVE  ObservedCancelIsKept'
<1> SUFFICES ASSUME NEW j \in Jobs, events'[j].cancelObserved,
                    JobType[j] # "UPLOAD_CLEANUP", jobs'[j].status = "COMPLETED"
             PROVE  FALSE
  BY DEF ObservedCancelIsKept
<1>1. jobs[j] \in JobRow /\ jobs \in [Jobs -> JobRow]
  BY DEF TypeOK
<1>2. CASE events[j].cancelObserved
  <2>1. jobs[j].status # "COMPLETED"
    BY <1>2 DEF ObservedInv, ObservedCancelIsKept
  <2>2. ASSUME NEW w \in Workers, MarkWrite(w), worker[w].job = j,
               worker[w].outcome = "complete"
        PROVE  FALSE
    <3>1. Finishing(worker[w])
      BY <2>2 DEF MarkWrite, Finishing
    <3> QED
      BY <1>2, <2>2, <3>1 DEF ObservedInv, FinishesUnseen
  <2>3. PICK w \in Workers : MarkWrite(w)
    <3>1. RowStep(j, jobs[j], jobs'[j])
      BY RowChange
    <3>2. ASSUME NEW i \in Jobs, Enqueue(i) PROVE jobs'[j].status # "COMPLETED"
      BY <1>1, <2>1, <3>2 DEF Enqueue, JobRow
    <3>3. ASSUME NEW v \in Workers, ClaimUpdate(v),
                 Claimable(worker[v].job, worker[v].now)
          PROVE  jobs'[j].status # "COMPLETED"
      <4>1. jobs' = [jobs EXCEPT ![worker[v].job] =
                        Claimed(@, worker[v].now, worker[v].token)]
        BY <3>3 DEF ClaimUpdate
      <4>2. jobs'[j] = jobs[j] \/ jobs'[j] = Claimed(jobs[j], worker[v].now, worker[v].token)
        BY <1>1, <4>1
      <4> QED
        BY <1>1, <2>1, <4>2, OtherSays
    <3>4. ASSUME NEW c \in Cancelers, CancelNow(c) \/ CancelRequest(c)
          PROVE  jobs'[j].status # "COMPLETED"
      <4>1. jobs'[j] \in {jobs[j], Canceled(jobs[j]),
                          [jobs[j] EXCEPT !.cancelRequested = TRUE]}
        BY <1>1, <3>4 DEF CancelNow, CancelRequest
      <4> QED
        BY <1>1, <2>1, <4>1, OtherSays
    <3>5. ASSUME Tick PROVE jobs'[j].status # "COMPLETED"
      <4>1. jobs'[j] = AgedJob(jobs[j])
        BY <3>5 DEF Tick
      <4> QED
        BY <1>1, <2>1, <4>1, AgedSame DEF SameJob
    <3> QED
      BY <2>1, <3>2, <3>3, <3>4, <3>5, JobsChange
  <2>4. worker[w].job = j /\ worker[w].outcome = "complete"
    BY <1>1, <2>1, <2>3, MarkWriteSays, MarkedSays DEF Outcomes
  <2> QED
    BY <2>2, <2>3, <2>4
<1>3. CASE ~events[j].cancelObserved
  <2>1. PICK v \in Workers : worker[v].job = j /\ worker[v].pc \in Working /\ UNCHANGED jobs
    BY <1>3, ObservedBy
  <2> QED
    BY <2>1 DEF ObservedInv, WorkIsOpen
<1> QED
  BY <1>2, <1>3

LEMMA ObservedRequestedNext ==
    ASSUME TypeOK, ObservedIsRequested, [Next]_vars
    PROVE  ObservedIsRequested'
<1> SUFFICES ASSUME NEW j \in Jobs, events'[j].cancelObserved
             PROVE  jobs'[j].cancelRequested
  BY DEF ObservedIsRequested
<1>1. CASE events[j].cancelObserved
  BY <1>1, CancelStays DEF ObservedIsRequested
<1>2. CASE ~events[j].cancelObserved
  BY <1>2, ObservedBy
<1> QED
  BY <1>1, <1>2

\* A job whose cancel request some attempt has observed is not reported completed,
\* whatever crashes, errors and retries follow, while attempts end in time.
THEOREM ObservedCancelKept == MaxDelay <= LockTTL /\ Spec => []ObservedCancelIsKept
<1> SUFFICES ASSUME MaxDelay <= LockTTL PROVE Spec => []ObservedCancelIsKept
  OBVIOUS
<1>1. Init => SoleInv /\ ObservedInv
  BY InitSole DEF Init, ObservedInv, WorkIsOpen, Working, ObservedIsRequested, FinishesUnseen,
     Finishing, ObservedCancelIsKept, IdleWorker, NoEvents
<1>2. TypeOK /\ SoleInv /\ ObservedInv /\ [Next]_vars => (SoleInv /\ ObservedInv)'
  BY SoleInductive, WorkIsOpenNext, FinishesUnseenNext, ObservedKeptNext,
     ObservedRequestedNext DEF ObservedInv
<1>3. ObservedInv => ObservedCancelIsKept
  BY DEF ObservedInv
<1> QED
  BY <1>1, <1>2, <1>3, TypeCorrect, PTL DEF Spec

-----------------------------------------------------------------------------
(* Attempts beyond the budget *)

Budget(j) == MaxAttempts(JobType[j]) + faults.crashes + faults.errors
Idle(j)   == \A w \in Workers : Engaged(w) => worker[w].job # j

\* One more attempt is left while the job waits, and while it is RUNNING with
\* nobody engaged: whoever ran it was cut off by a fault.
AttemptLeft(j) ==
    /\ jobs[j].attemptCount <= Budget(j)
    /\ \/ jobs[j].status \in {"NONE", "QUEUED"}
       \/ jobs[j].status = "RUNNING" /\ Idle(j)
       => jobs[j].attemptCount < Budget(j)

\* A retry that was decided still has an attempt when the row is written.
RetryStands ==
    \A w \in Workers : worker[w].pc = "write" /\ worker[w].retryAt # Null =>
        jobs[worker[w].job].attemptCount < MaxAttempts(JobType[worker[w].job])

\* A worker that has written its report has left no RUNNING row behind.
ReportIsWritten ==
    \A w \in Workers : worker[w].pc \in {"event", "release"} /\ Engaged(w) =>
        jobs[worker[w].job].status # "RUNNING"

AttemptInv == (\A j \in Jobs : AttemptLeft(j)) /\ RetryStands /\ ReportIsWritten

LEMMA RetryStandsNext ==
    ASSUME TypeOK, SoleInv, RetryStands, MaxDelay <= LockTTL, [Next]_vars
    PROVE  RetryStands'
<1> SUFFICES ASSUME NEW w \in Workers, worker'[w].pc = "write", worker'[w].retryAt # Null
             PROVE  jobs'[worker'[w].job].attemptCount
                       < MaxAttempts(JobType[worker'[w].job])
  BY DEF RetryStands
<1> DEFINE j == worker[w].job
<1>1. CASE MarkRead(w)
  <2>1. worker'[w].job = j /\ MayRetry(j) /\ UNCHANGED jobs
    BY <1>1, MarkMoves DEF Keeps, MarkRead
  <2> QED
    BY <2>1 DEF MayRetry
<1>2. CASE worker[w].pc = "write" /\ worker'[w].job = j /\ worker[w].retryAt # Null
  <2>1. Engaged(w)
    BY <1>2 DEF Engaged, Executing
  <2>2. jobs'[j].attemptCount = jobs[j].attemptCount
    <3>1. ~MarkWrite(w)
      BY MarkMoves
    <3> QED
      BY <2>1, <3>1, EngagedRow DEF SameJob
  <2> QED
    BY <1>2, <2>2 DEF RetryStands
<1> QED
  BY <1>1, <1>2, EnterWrite

LEMMA ReportIsWrittenNext ==
    ASSUME TypeOK, SoleInv, ReportIsWritten, MaxDelay <= LockTTL, [Next]_vars
    PROVE  ReportIsWritten'
<1> SUFFICES ASSUME NEW w \in Workers, worker'[w].pc \in {"event", "release"}, Engaged(w)'
             PROVE  jobs'[worker'[w].job].status # "RUNNING"
  BY DEF ReportIsWritten
<1> DEFINE j == worker[w].job
<1>1. worker'[w].job = j
  BY EngagedSource
<1>2. ~ClaimUpdate(w) /\ Engaged(w)
  <2>1. ~ClaimUpdate(w)
    BY ClaimMoves
  <2> QED
    BY <2>1, EngagedSource
<1>3. CASE MarkWrite(w)
  <2>1. /\ jobs'[j] = Marked(jobs[j], worker[w].outcome, worker[w].retryAt)
        /\ j \in Jobs /\ worker[w].outcome \in Outcomes \ {"none"} /\ jobs[j] \in JobRow
    BY <1>3, MarkWriteSays DEF TypeOK
  <2>2. jobs'[j].status # "RUNNING"
    BY <2>1, MarkedSays DEF Outcomes
  <2> QED
    BY <1>1, <2>2
<1>4. CASE ~MarkWrite(w)
  <2>1. worker[w].pc \in {"event", "release"}
    <3>t. worker[w] \in WorkerState
      BY DEF TypeOK
    <3>1. CASE Tick
      BY <3>1, <3>t DEF Tick, AgedWorker, WorkerState, WorkerRecord
    <3>2. CASE worker'[w] = worker[w]
      BY <3>2
    <3>i. worker'[w] # IdleWorker
      BY DEF IdleWorker
    <3>3. CASE Claim(w)
      BY <3>3, <3>i, ClaimMoves DEF Claim
    <3>4. CASE \/ Execute(w) \/ WorkThrows(w) \/ ItemThrows(w) \/ ReportThrows(w)
               \/ TickThrows(w) \/ WorkerCrash(w)
      BY <3>4, <3>i, ExecuteMoves DEF Execute
    <3>5. CASE Mark(w)
      BY <1>4, <3>5, <3>i, MarkMoves DEF Mark
    <3> QED
      BY <3>1, <3>2, <3>3, <3>4, <3>5, WorkerChange DEF WorkerStep
  <2>2. jobs[j].status # "RUNNING"
    BY <1>2, <2>1 DEF ReportIsWritten
  <2>3. jobs'[j].status \in {jobs[j].status, "CANCELED"}
    BY <1>2, <1>4, EngagedRow DEF SameJob
  <2> QED
    BY <1>1, <2>2, <2>3
<1> QED
  BY <1>3, <1>4

\* A worker is no longer engaged when it has written another status than RUNNING,
\* or by a fault.
LEMMA Disengages ==
    ASSUME TypeOK, [Next]_vars, NEW w \in Workers, Engaged(w),
           ~(Engaged(w)' /\ worker'[w].job = worker[w].job)
    PROVE  MarkWrite(w) \/ MarkRelease(w) \/ TickThrows(w) \/ WorkerCrash(w)
<1>t. worker[w] \in WorkerState
  BY DEF TypeOK
<1>e. \/ worker[w].pc \in Executing
      \/ worker[w].pc \in {"event", "release"} /\ worker[w].outcome \in {"complete", "cancelEarly"}
  BY DEF Engaged
<1>1. CASE Tick
  <2>1. /\ worker'[w].pc = worker[w].pc /\ worker'[w].outcome = worker[w].outcome
        /\ worker'[w].job = worker[w].job
    BY <1>1, <1>t DEF Tick, AgedWorker, WorkerState, WorkerRecord
  <2> QED
    BY <1>e, <2>1 DEF Engaged
<1>2. CASE worker'[w] = worker[w]
  BY <1>2, <1>e DEF Engaged
<1>3. CASE Claim(w)
  BY <1>3, <1>e DEF Claim, ClaimFind, ClaimLock, ClaimUpdate, ClaimAbandon, Executing
<1>4. CASE Execute(w) \/ WorkThrows(w) \/ ItemThrows(w) \/ ReportThrows(w)
  <2>1. worker'[w].job = worker[w].job
    BY <1>4, ExecuteMoves DEF Execute, Keeps
  <2>2. worker'[w].pc \in Executing
    BY <1>4, ExecuteMoves DEF Execute, Executing
  <2> QED
    BY <2>1, <2>2 DEF Engaged
<1>5. CASE MarkRead(w) \/ MarkEvent(w)
  BY <1>5, <1>e, MarkMoves DEF Keeps, Engaged, Executing
<1> QED
  BY <1>1, <1>2, <1>3, <1>4, <1>5, WorkerChange DEF WorkerStep, Mark

LEMMA FaultsGrow ==
    ASSUME TypeOK, [Next]_vars, NEW j \in Jobs
    PROVE  /\ Budget(j) \in Nat \ {0} /\ Budget(j)' \in Nat
           /\ Budget(j)' >= Budget(j) /\ MaxAttempts(JobType[j]) <= Budget(j)
           /\ \A w \in Workers : TickThrows(w) \/ WorkerCrash(w) => Budget(j)' = Budget(j) + 1
<1>1. MaxAttempts(JobType[j]) \in Nat \ {0}
  BY RetryConfigAssumption, QueueAssumption DEF MaxAttempts, Retryable
<1>2. /\ faults \in FaultCounts /\ faults.crashes \in Nat /\ faults.errors \in Nat
      /\ faults'.crashes \in Nat /\ faults'.errors \in Nat
  BY TypeNext, QueueAssumption DEF TypeOK, FaultCounts
<1>3. ASSUME NEW w \in Workers, TickThrows(w) \/ WorkerCrash(w)
      PROVE  faults'.crashes + faults'.errors = faults.crashes + faults.errors + 1
  BY <1>2, <1>3 DEF TickThrows, WorkerCrash, FaultCounts
<1>4. faults'.crashes >= faults.crashes /\ faults'.errors >= faults.errors
  <2>1. \/ faults' = faults
        \/ faults' = [faults EXCEPT !.crashes = @ + 1]
        \/ faults' = [faults EXCEPT !.errors = @ + 1]
        \/ faults' = [faults EXCEPT !.lateErrors = @ + 1]
        \/ faults' = [faults EXCEPT !.cancels = @ + 1]
    BY DEF Next, vars, Tick, Enqueue, WorkerStep, Claim, Execute, Mark, ClaimFind,
       ClaimLock, ClaimUpdate, ClaimAbandon, CheckBeforeStart, Checkpoint, DoUnit, CheckAfter,
       MarkRead, MarkWrite, MarkEvent, MarkRelease, WorkThrows, ItemThrows, ReportThrows,
       TickThrows, WorkerCrash, CancelRead, RunCancel, CancelNow, CancelEvent, CancelRelease,
       CancelRequest, CancelerCrash
  <2> QED
    BY <1>2, <2>1 DEF FaultCounts
<1> QED
  BY <1>1, <1>2, <1>3, <1>4 DEF Budget

LEMMA AttemptLeftNext ==
    ASSUME TypeOK, SoleInv, AttemptInv, MaxDelay <= LockTTL, [Next]_vars, NEW j \in Jobs
    PROVE  AttemptLeft(j)'
<1> DEFINE n == jobs[j].attemptCount
           m == jobs'[j].attemptCount
           b == Budget(j)
           c == Budget(j)'
<1>1. jobs \in [Jobs -> JobRow] /\ jobs[j] \in JobRow /\ n \in Nat /\ m \in Nat
  BY TypeNext, QueueAssumption DEF TypeOK, JobRow
<1>2. b \in Nat \ {0} /\ c \in Nat /\ c >= b /\ MaxAttempts(JobType[j]) <= b
      /\ \A w \in Workers : TickThrows(w) \/ WorkerCrash(w) => c = b + 1
  BY FaultsGrow
<1>3. /\ n <= b
      /\ jobs[j].status \in {"NONE", "QUEUED"} \/ (jobs[j].status = "RUNNING" /\ Idle(j))
            => n < b
  BY DEF AttemptInv, AttemptLeft
<1> HIDE DEF n, m, b, c
<1>4. SUFFICES /\ m <= c
               /\ jobs'[j].status \in {"NONE", "QUEUED"}
                     \/ (jobs'[j].status = "RUNNING" /\ Idle(j)') => m < c
  BY DEF AttemptLeft, m, c
<1>5. CASE jobs'[j].status = jobs[j].status /\ m = n
  <2>1. CASE jobs[j].status # "RUNNING" \/ Idle(j)
    BY <1>1, <1>2, <1>3, <1>5, <2>1
  <2>2. CASE jobs[j].status = "RUNNING" /\ ~Idle(j) /\ Idle(j)'
    <3>1. PICK w \in Workers : Engaged(w) /\ worker[w].job = j
      BY <2>2 DEF Idle
    <3>2. ~(Engaged(w)' /\ worker'[w].job = worker[w].job)
      BY <2>2, <3>1 DEF Idle
    <3>3. MarkWrite(w) \/ MarkRelease(w) \/ TickThrows(w) \/ WorkerCrash(w)
      BY <3>1, <3>2, Disengages
    <3>4. ~MarkRelease(w)
      BY <2>2, <3>1 DEF AttemptInv, ReportIsWritten, MarkRelease
    <3>5. ~MarkWrite(w)
      BY <1>1, <1>5, <2>2, <3>1, MarkWriteSays, MarkedSays DEF Outcomes
    <3> QED
      BY <1>1, <1>2, <1>3, <1>5, <3>3, <3>4, <3>5
  <2>3. CASE jobs[j].status = "RUNNING" /\ ~Idle(j)'
    BY <1>1, <1>2, <1>3, <1>5, <2>3
  <2> QED
    BY <2>1, <2>2, <2>3
<1>6. CASE m = n /\ jobs'[j].status \in Terminal
  BY <1>1, <1>2, <1>3, <1>6 DEF Terminal
<1>7. ASSUME NEW i \in Jobs, Enqueue(i) PROVE m = n /\ (jobs'[j].status = jobs[j].status \/ n < b)
  BY <1>1, <1>3, <1>7 DEF Enqueue, JobRow, m, n
<1>8. CASE m = n /\ n < b
  BY <1>1, <1>2, <1>8
<1>9. ASSUME NEW w \in Workers, ClaimUpdate(w), Claimable(worker[w].job, worker[w].now),
             worker[w].job = j
      PROVE  m <= c /\ jobs'[j].status = "RUNNING" /\ ~Idle(j)'
  <2>1. jobs'[j] = Claimed(jobs[j], worker[w].now, worker[w].token)
    BY <1>1, <1>9 DEF ClaimUpdate
  <2>2. m = Smaller(n + 1, AttemptCap) /\ jobs'[j].status = "RUNNING"
    BY <1>1, <2>1, OtherSays DEF m, n
  <2>3. n < b
    <3>1. worker[w].pc # "idle"
      BY <1>9 DEF ClaimUpdate
    <3>2. jobs[j].status = "RUNNING" => Idle(j)
      BY <1>9, <3>1, EngagedNotClaimable DEF Idle
    <3>3. jobs[j].status \in {"QUEUED", "RUNNING"}
      BY <1>9 DEF Claimable
    <3> QED
      BY <1>3, <3>2, <3>3
  <2>4. m <= n + 1
    BY <1>1, <2>2, QueueAssumption DEF Smaller
  <2>5. Engaged(w)' /\ worker'[w].job = j
    <3>1. worker'[w] = [worker[w] EXCEPT !.pc = "start", !.token = Null,
                                         !.cancelAtClaim = jobs[j].cancelRequested]
      BY <1>9, BecomeIs DEF ClaimUpdate
    <3>2. worker[w] \in WorkerState
      BY DEF TypeOK
    <3>3. worker'[w].pc = "start" /\ worker'[w].job = j
      BY <1>9, <3>1, <3>2 DEF WorkerState, WorkerRecord
    <3> QED
      BY <3>3 DEF Engaged, Executing
  <2> QED
    BY <1>1, <1>2, <2>2, <2>3, <2>4, <2>5 DEF Idle
<1>10. ASSUME NEW w \in Workers, ClaimUpdate(w) \/ MarkWrite(w), worker[w].job # j
       PROVE  jobs'[j] = jobs[j]
  BY <1>1, <1>10, MarkWriteSays DEF ClaimUpdate
<1>11. ASSUME NEW w \in Workers, MarkWrite(w), worker[w].job = j
       PROVE  m = n /\ (jobs'[j].status \in Terminal \/ n < b)
  <2>1. /\ worker[w].outcome \in Outcomes \ {"none"}
        /\ jobs'[j] = Marked(jobs[j], worker[w].outcome, worker[w].retryAt)
    BY <1>11, MarkWriteSays
  <2>2. m = n
    BY <1>1, <2>1, MarkedSays DEF m, n
  <2>3. CASE worker[w].outcome = "fail" /\ worker[w].retryAt # Null
    <3>1. n < MaxAttempts(JobType[j])
      BY <1>11, <2>3 DEF AttemptInv, RetryStands, MarkWrite, n
    <3>2. MaxAttempts(JobType[j]) \in Nat
      BY RetryConfigAssumption, QueueAssumption DEF MaxAttempts, Retryable
    <3> QED
      BY <1>1, <1>2, <2>2, <3>1, <3>2
  <2>4. CASE ~(worker[w].outcome = "fail" /\ worker[w].retryAt # Null)
    BY <1>1, <2>1, <2>2, <2>4, MarkedSays DEF Outcomes, Terminal
  <2> QED
    BY <2>3, <2>4
<1>12. ASSUME NEW k \in Cancelers, CancelNow(k) \/ CancelRequest(k)
       PROVE  m = n /\ (jobs'[j].status = jobs[j].status \/ jobs'[j].status \in Terminal)
  <2>1. jobs'[j] \in {jobs[j], Canceled(jobs[j]), [jobs[j] EXCEPT !.cancelRequested = TRUE]}
    BY <1>1, <1>12 DEF CancelNow, CancelRequest
  <2> QED
    BY <1>1, <2>1, OtherSays DEF Terminal, m, n
<1>13. ASSUME Tick PROVE m = n /\ jobs'[j].status = jobs[j].status
  <2>1. jobs'[j] = AgedJob(jobs[j])
    BY <1>13 DEF Tick
  <2> QED
    BY <1>1, <2>1, AgedSame DEF SameJob, m, n
<1>14. jobs'[j] = jobs[j] => m = n /\ jobs'[j].status = jobs[j].status
  BY DEF m, n
<1> QED
  BY <1>5, <1>6, <1>7, <1>8, <1>9, <1>10, <1>11, <1>12, <1>13, <1>14, JobsChange

\* An attempt beyond maxAttempts follows a crash or an error that cut another one
\* off: each such fault buys one, and a report that throws buys none.
THEOREM ExcessNeedsFaults == MaxDelay <= LockTTL /\ Spec => []ExcessAttemptsNeedFaults
<1> SUFFICES ASSUME MaxDelay <= LockTTL PROVE Spec => []ExcessAttemptsNeedFaults
  OBVIOUS
<1>1. Init => SoleInv /\ AttemptInv
  <2> SUFFICES ASSUME Init PROVE AttemptInv
    BY InitSole
  <2>1. RetryStands /\ ReportIsWritten
    BY DEF Init, RetryStands, ReportIsWritten, IdleWorker
  <2>2. ASSUME NEW j \in Jobs PROVE AttemptLeft(j)
    <3>1. MaxAttempts(JobType[j]) \in Nat \ {0}
      BY RetryConfigAssumption, QueueAssumption DEF MaxAttempts, Retryable
    <3>2. jobs[j].attemptCount = 0 /\ faults.crashes = 0 /\ faults.errors = 0
      BY DEF Init, NoJob
    <3> QED
      BY <3>1, <3>2 DEF AttemptLeft, Budget
  <2> QED
    BY <2>1, <2>2 DEF AttemptInv
<1>2. TypeOK /\ SoleInv /\ AttemptInv /\ [Next]_vars => (SoleInv /\ AttemptInv)'
  BY SoleInductive, AttemptLeftNext, RetryStandsNext, ReportIsWrittenNext DEF AttemptInv
<1>3. AttemptInv => ExcessAttemptsNeedFaults
  BY DEF AttemptInv, AttemptLeft, Budget, ExcessAttemptsNeedFaults
<1> QED
  BY <1>1, <1>2, <1>3, TypeCorrect, PTL DEF Spec

-----------------------------------------------------------------------------
(* Without cancel requests and failing reports *)

Calm == MaxDelay <= LockTTL /\ MaxLateErrors = 0 /\ MaxCancels = 0

NothingCanceled ==
    /\ \A c \in Cancelers : canceler[c].pc = "idle"
    /\ \A j \in Jobs : ~jobs[j].cancelRequested
    /\ \A w \in Workers : worker[w].pc \in Marking => worker[w].outcome \in {"complete", "fail"}

\* The job of a worker that has not written its report is in RUNNING.
ExecutedIsRunning ==
    \A w \in Workers : worker[w].pc \in Executing => jobs[worker[w].job].status = "RUNNING"

CalmInv == NothingCanceled /\ ExecutedIsRunning

LEMMA CalmNever ==
    ASSUME TypeOK, Calm
    PROVE  /\ \A w \in Workers : ~ReportThrows(w)
           /\ \A c \in Cancelers, j \in Jobs : ~CancelRead(c, j)
<1>1. faults.lateErrors = 0 /\ faults.cancels = 0
  BY DEF TypeOK, FaultCounts, Calm
<1> QED
  BY <1>1 DEF ReportThrows, CancelRead, Calm

LEMMA NothingCanceledNext ==
    ASSUME TypeOK, SoleInv, CalmInv, Calm, [Next]_vars
    PROVE  NothingCanceled'
<1>t. jobs \in [Jobs -> JobRow] /\ canceler \in [Cancelers -> CancelerState]
  BY DEF TypeOK
<1>i. \A c \in Cancelers : canceler[c].pc = "idle"
  BY DEF CalmInv, NothingCanceled
<1>1. ASSUME NEW c \in Cancelers PROVE canceler'[c].pc = "idle"
  <2>1. \A d \in Cancelers : ~RunCancel(d) /\ ~CancelerCrash(d)
    BY <1>i DEF RunCancel, CancelNow, CancelEvent, CancelRelease, CancelRequest, CancelerCrash
  <2>2. UNCHANGED canceler
    BY <2>1, CalmNever DEF Next, vars, Tick, Enqueue, WorkerStep, Claim, Execute, Mark, ClaimFind,
       ClaimLock, ClaimUpdate, ClaimAbandon, CheckBeforeStart, Checkpoint, DoUnit, CheckAfter,
       MarkRead, MarkWrite, MarkEvent, MarkRelease, WorkThrows, ItemThrows, ReportThrows,
       TickThrows, WorkerCrash
  <2> QED
    BY <1>i, <2>2
<1>2. ASSUME NEW j \in Jobs PROVE ~jobs'[j].cancelRequested
  <2>1. jobs[j] \in JobRow /\ ~jobs[j].cancelRequested
    BY <1>t DEF CalmInv, NothingCanceled
  <2>2. CASE Tick
    <3>1. jobs'[j] = AgedJob(jobs[j])
      BY <2>2 DEF Tick
    <3> QED
      BY <2>1, <3>1, AgedSame DEF SameJob
  <2>3. ASSUME NEW i \in Jobs, Enqueue(i) PROVE ~jobs'[j].cancelRequested
    <3>1. jobs'[j] \in {jobs[j], [jobs[j] EXCEPT !.status = "QUEUED"]}
      BY <1>t, <2>3 DEF Enqueue
    <3> QED
      BY <2>1, <3>1 DEF JobRow
  <2>4. ASSUME NEW w \in Workers, ClaimUpdate(w), Claimable(worker[w].job, worker[w].now)
        PROVE  ~jobs'[j].cancelRequested
    <3>1. jobs'[j] \in {jobs[j], Claimed(jobs[j], worker[w].now, worker[w].token)}
      BY <1>t, <2>4 DEF ClaimUpdate
    <3> QED
      BY <2>1, <3>1, OtherSays
  <2>5. ASSUME NEW w \in Workers, MarkWrite(w) PROVE ~jobs'[j].cancelRequested
    <3>1. worker[w].outcome \in {"complete", "fail"}
      BY <2>5 DEF MarkWrite, CalmInv, NothingCanceled, Marking
    <3>2. CASE j = worker[w].job
      <4>1. jobs'[j] = Marked(jobs[j], worker[w].outcome, worker[w].retryAt)
        BY <2>5, <3>2, MarkWriteSays
      <4> QED
        BY <2>1, <3>1, <4>1, MarkedSays DEF Outcomes
    <3>3. CASE j # worker[w].job
      BY <2>1, <2>5, <3>3, MarkWriteSays
    <3> QED
      BY <3>2, <3>3
  <2>6. \A c \in Cancelers : ~CancelNow(c) /\ ~CancelRequest(c)
    BY <1>i DEF CancelNow, CancelRequest
  <2> QED
    BY <2>1, <2>2, <2>3, <2>4, <2>5, <2>6, JobsChange
<1>3. ASSUME NEW w \in Workers, worker'[w].pc \in Marking
      PROVE  worker'[w].outcome \in {"complete", "fail"}
  <2> DEFINE r == worker[w]
             s == worker'[w]
  <2>t. r \in WorkerState /\ s # IdleWorker
    <3>1. IdleWorker.pc = "idle"
      BY DEF IdleWorker
    <3>2. s.pc # "idle"
      BY <1>3 DEF Marking
    <3> QED
      BY <3>1, <3>2 DEF TypeOK
  <2>i. r.pc \in Marking => r.outcome \in {"complete", "fail"}
    BY DEF CalmInv, NothingCanceled
  <2>c. r.pc # "idle" => ~jobs[r.job].cancelRequested
    BY <2>t DEF CalmInv, NothingCanceled, WorkerState
  <2>1. CASE Tick
    BY <2>1, <2>t, <2>i, <1>3 DEF Tick, AgedWorker, WorkerState, WorkerRecord
  <2>2. CASE s = r
    BY <2>2, <2>i, <1>3
  <2>3. CASE Claim(w)
    BY <2>3, <2>t, <1>3, ClaimMoves DEF Claim, Marking
  <2>4. CASE CheckBeforeStart(w) \/ CheckAfter(w)
    BY <2>4, <2>c, <1>3, ExecuteMoves DEF Marking
  <2>5. CASE Checkpoint(w)
    <3>1. r.pc # "idle" /\ s = [r EXCEPT !.pc = "unit"]
      BY <2>5, <2>c, BecomeIs DEF Checkpoint
    <3> QED
      BY <3>1, <2>t, <1>3 DEF WorkerState, WorkerRecord, Marking
  <2>6. CASE DoUnit(w) \/ WorkThrows(w) \/ ItemThrows(w) \/ TickThrows(w) \/ WorkerCrash(w)
    BY <2>6, <2>t, <1>3, ExecuteMoves DEF Marking
  <2>7. CASE Mark(w)
    BY <2>7, <2>t, <2>i, <1>3, MarkMoves DEF Mark, Marking
  <2> QED
    BY <2>1, <2>2, <2>3, <2>4, <2>5, <2>6, <2>7, WorkerChange, CalmNever
       DEF WorkerStep, Execute
<1> QED
  BY <1>1, <1>2, <1>3 DEF NothingCanceled

\* A worker executes from its claim on; only a report that throws leads back.
LEMMA ExecutingSource ==
    ASSUME TypeOK, Calm, [Next]_vars, NEW w \in Workers, worker'[w].pc \in Executing
    PROVE  /\ worker'[w].job = worker[w].job
           /\ \/ ClaimUpdate(w) /\ Claimable(worker[w].job, worker[w].now)
              \/ worker[w].pc \in Executing /\ ~MarkWrite(w)
<1> DEFINE r == worker[w]
           s == worker'[w]
<1>t. r \in WorkerState
  BY DEF TypeOK
<1>e. Engaged(w)'
  BY DEF Engaged
<1>i. s # IdleWorker /\ s.pc \notin {"idle", "lock", "claim", "unlock", "event", "release"}
  BY DEF IdleWorker, Executing
<1>j. s.job = r.job /\ ((ClaimUpdate(w) /\ Claimable(r.job, r.now)) \/ Engaged(w))
  BY <1>e, EngagedSource
<1>m. ~MarkWrite(w)
  BY <1>i, MarkMoves
<1>1. CASE Tick
  BY <1>1, <1>t, <1>j, <1>m DEF Tick, AgedWorker, WorkerState, WorkerRecord
<1>2. CASE s = r
  BY <1>2, <1>j, <1>m
<1>3. CASE Claim(w)
  BY <1>3, <1>i, <1>j, ClaimMoves DEF Claim
<1>4. CASE Execute(w) \/ ItemThrows(w) \/ TickThrows(w) \/ WorkerCrash(w)
  BY <1>4, <1>i, <1>j, <1>m, ExecuteMoves DEF Execute, Executing
<1>5. CASE WorkThrows(w)
  BY <1>5, <1>j, <1>m DEF WorkThrows, Executing
<1>6. CASE Mark(w)
  BY <1>6, <1>i, <1>j, <1>m, MarkMoves DEF Mark, Executing
<1> QED
  BY <1>1, <1>2, <1>3, <1>4, <1>5, <1>6, WorkerChange, CalmNever DEF WorkerStep

LEMMA ExecutedIsRunningNext ==
    ASSUME TypeOK, SoleInv, CalmInv, Calm, [Next]_vars
    PROVE  ExecutedIsRunning'
<1> SUFFICES ASSUME NEW w \in Workers, worker'[w].pc \in Executing
             PROVE  jobs'[worker'[w].job].status = "RUNNING"
  BY DEF ExecutedIsRunning
<1> DEFINE j == worker[w].job
<1>1. worker'[w].job = j
  BY ExecutingSource
<1>2. CASE ClaimUpdate(w) /\ Claimable(j, worker[w].now)
  <2>1. j \in Jobs /\ jobs \in [Jobs -> JobRow]
    BY <1>2 DEF TypeOK, WorkerState, ClaimUpdate
  <2>2. jobs'[j] = Claimed(jobs[j], worker[w].now, worker[w].token)
    BY <1>2, <2>1 DEF ClaimUpdate
  <2> QED
    BY <1>1, <2>1, <2>2, OtherSays
<1>3. CASE worker[w].pc \in Executing /\ ~MarkWrite(w)
  <2>1. Engaged(w)
    BY <1>3 DEF Engaged
  <2>2. MaxDelay <= LockTTL
    BY DEF Calm
  <2>3. jobs'[j].status = jobs[j].status
    BY <1>3, <2>1, <2>2, EngagedRow DEF SameJob, CalmInv, NothingCanceled
  <2> QED
    BY <1>1, <1>3, <2>3 DEF CalmInv, ExecutedIsRunning
<1> QED
  BY <1>2, <1>3, ExecutingSource

LEMMA InitCalm == Init => CalmInv
BY DEF Init, CalmInv, NothingCanceled, ExecutedIsRunning, IdleWorker, IdleCanceler, NoJob,
   Executing, Marking

\* A worker writes the report of a job that is in RUNNING, and gives it another
\* status; a failure is for good exactly when no attempt is left.
LEMMA CalmWrite ==
    ASSUME TypeOK, CalmInv, RetryDecided, RetryStands,
           NEW w \in Workers, MarkWrite(w),
           NEW j, j = worker[w].job, NEW s, s = jobs'[j].status
    PROVE  /\ j \in Jobs /\ jobs[j].status = "RUNNING"
           /\ jobs'[j].attemptCount = jobs[j].attemptCount
           /\ \A i \in Jobs \ {j} : jobs'[i] = jobs[i]
           /\ \/ s = "COMPLETED" /\ worker[w].outcome = "complete"
              \/ /\ s = "QUEUED" /\ worker[w].outcome = "fail" /\ worker[w].retryAt # Null
                 /\ Retryable(JobType[j])
                 /\ jobs[j].attemptCount < MaxAttempts(JobType[j])
              \/ /\ s = "FAILED"
                 /\ \/ ~Retryable(JobType[j])
                    \/ jobs[j].attemptCount >= MaxAttempts(JobType[j])
<1>1. /\ j \in Jobs /\ jobs'[j] = Marked(jobs[j], worker[w].outcome, worker[w].retryAt)
      /\ worker[w].pc = "write" /\ \A i \in Jobs \ {j} : jobs'[i] = jobs[i]
  BY MarkWriteSays
<1>2. worker[w].outcome \in {"complete", "fail"} /\ jobs[j] \in JobRow
  BY <1>1 DEF TypeOK, CalmInv, NothingCanceled, Marking
<1>3. jobs[j].status = "RUNNING"
  BY <1>1 DEF CalmInv, ExecutedIsRunning, Executing
<1>4. /\ jobs'[j].attemptCount = jobs[j].attemptCount
      /\ worker[w].outcome = "complete" => s = "COMPLETED"
      /\ worker[w].outcome = "fail" /\ worker[w].retryAt # Null => s = "QUEUED"
      /\ worker[w].outcome = "fail" /\ worker[w].retryAt = Null => s = "FAILED"
  BY <1>1, <1>2, MarkedSays DEF Outcomes
<1>5. CASE worker[w].outcome = "fail" /\ worker[w].retryAt # Null
  BY <1>1, <1>3, <1>4, <1>5 DEF RetryDecided, RetryStands
<1>6. CASE worker[w].outcome = "fail" /\ worker[w].retryAt = Null
  BY <1>1, <1>3, <1>4, <1>6 DEF RetryDecided
<1>7. CASE worker[w].outcome = "complete"
  BY <1>1, <1>3, <1>4, <1>7
<1> QED
  BY <1>2, <1>5, <1>6, <1>7

CalmFacts == SoleInv /\ CalmInv /\ RetryDecided /\ RetryStands

\* A terminal status is final, while nothing is canceled and no report throws.
LEMMA TerminalStays ==
    ASSUME TypeOK, CalmFacts, [Next]_vars, NEW j \in Jobs, jobs[j].status \in Terminal
    PROVE  jobs'[j].status = jobs[j].status
<1>t. jobs \in [Jobs -> JobRow] /\ jobs[j] \in JobRow
  BY DEF TypeOK
<1>1. CASE Tick
  <2>1. jobs'[j] = AgedJob(jobs[j])
    BY <1>1 DEF Tick
  <2> QED
    BY <1>t, <2>1, AgedSame DEF SameJob
<1>2. ASSUME NEW i \in Jobs, Enqueue(i) PROVE jobs'[j] = jobs[j]
  BY <1>t, <1>2 DEF Enqueue, Terminal
<1>3. ASSUME NEW w \in Workers, ClaimUpdate(w), Claimable(worker[w].job, worker[w].now)
      PROVE  jobs'[j] = jobs[j]
  BY <1>t, <1>3 DEF ClaimUpdate, Claimable, Terminal
<1>4. ASSUME NEW w \in Workers, MarkWrite(w) PROVE jobs'[j] = jobs[j]
  BY <1>4, CalmWrite DEF CalmFacts, Terminal
<1>5. \A c \in Cancelers : ~CancelNow(c) /\ ~CancelRequest(c)
  BY DEF CancelNow, CancelRequest, CalmFacts, CalmInv, NothingCanceled
<1> QED
  BY <1>1, <1>2, <1>3, <1>4, <1>5, JobsChange

LEMMA InitCalmFacts == Init => CalmFacts
<1>1. Init => RetryDecided /\ RetryStands
  BY DEF Init, RetryDecided, RetryStands, IdleWorker
<1> QED
  BY <1>1, InitSole, InitCalm DEF CalmFacts

LEMMA CalmFactsNext == ASSUME TypeOK, CalmFacts, Calm, [Next]_vars PROVE CalmFacts'
<1>1. MaxDelay <= LockTTL
  BY DEF Calm
<1>2. SoleInv' /\ RetryStands'
  BY <1>1, SoleInductive, RetryStandsNext DEF CalmFacts
<1>3. NothingCanceled' /\ ExecutedIsRunning'
  BY NothingCanceledNext, ExecutedIsRunningNext DEF CalmFacts
<1>4. RetryDecided'
  BY RetryDecidedNext DEF CalmFacts
<1> QED
  BY <1>2, <1>3, <1>4 DEF CalmFacts, CalmInv

\* A terminal status is final, whatever crashes, throws or is reclaimed, for every
\* number of workers and jobs.
THEOREM TerminalFinal == Calm /\ Spec => TerminalIsFinal
<1> SUFFICES ASSUME Calm PROVE Spec => TerminalIsFinal
  OBVIOUS
<1>1. TypeOK /\ CalmFacts /\ [Next]_vars => CalmFacts'
  BY CalmFactsNext
<1>2. TypeOK /\ CalmFacts /\ [Next]_vars =>
        [\A j \in Jobs : jobs[j].status \in Terminal
                            => jobs'[j].status = jobs[j].status]_vars
  BY TerminalStays
<1> QED
  BY InitCalmFacts, <1>1, <1>2, TypeCorrect, PTL DEF Spec, TerminalIsFinal

-----------------------------------------------------------------------------
(* The life cycle that clients see *)

\* A step that writes one row is a move of that job.
LEMMA StatusMoves ==
    ASSUME TypeOK, TypeOK', NEW j \in Jobs, NEW to, to = jobs'[j].status,
           \A i \in Jobs \ {j} : SameJob(jobs'[i], jobs[i])
    PROVE  LET status   == [i \in Jobs |-> jobs[i].status]
               attempts == [i \in Jobs |-> jobs[i].attemptCount]
               n        == jobs[j].attemptCount
           IN  /\ status' = [status EXCEPT ![j] = to]
               /\ jobs'[j].attemptCount = n => attempts' = attempts
               /\ jobs'[j].attemptCount = Smaller(n + 1, AttemptCap) =>
                     attempts' = [attempts EXCEPT ![j] = Smaller(@ + 1, AttemptCap)]
BY DEF SameJob

\* Both modules take the retry policy from the same constants.
LEMMA SamePolicy ==
    /\ \A type : Lifecycle!Retryable(type) = Retryable(type)
    /\ \A type : Lifecycle!MaxAttempts(type) = MaxAttempts(type)
    /\ \A a, b : Lifecycle!Smaller(a, b) = Smaller(a, b)
BY DEF Lifecycle!Retryable, Retryable, Lifecycle!RetryableTypes, RetryableTypes,
   Lifecycle!MaxAttempts, MaxAttempts, Lifecycle!Smaller, Smaller

LEMMA LifecycleStep ==
    ASSUME TypeOK, CalmFacts, [Next]_vars
    PROVE  [Lifecycle!Next]_(Lifecycle!lifecycleVars)
<1>t. jobs \in [Jobs -> JobRow] /\ \A j \in Jobs : jobs[j] \in JobRow
  BY DEF TypeOK
<1>p. TypeOK'
  BY TypeNext
<1>1. ASSUME \A j \in Jobs : SameJob(jobs'[j], jobs[j])
      PROVE  UNCHANGED Lifecycle!lifecycleVars
  BY <1>1 DEF Lifecycle!lifecycleVars, SameJob
<1>2. ASSUME Tick PROVE UNCHANGED Lifecycle!lifecycleVars
  <2>1. \A j \in Jobs : jobs'[j] = AgedJob(jobs[j])
    BY <1>2 DEF Tick
  <2> QED
    BY <1>t, <1>1, <2>1, AgedSame
<1>3. ASSUME UNCHANGED jobs PROVE UNCHANGED Lifecycle!lifecycleVars
  BY <1>1, <1>3 DEF SameJob
<1>4. ASSUME NEW j \in Jobs, Enqueue(j) PROVE Lifecycle!Submit(j)
  <2>1. /\ jobs[j].status = "NONE" /\ jobs'[j].status = "QUEUED"
        /\ jobs'[j].attemptCount = jobs[j].attemptCount
        /\ \A i \in Jobs \ {j} : SameJob(jobs'[i], jobs[i])
    BY <1>t, <1>4 DEF Enqueue, SameJob, JobRow
  <2> QED
    BY <1>p, <2>1, StatusMoves DEF Lifecycle!Submit, Lifecycle!Move
<1>5. ASSUME NEW w \in Workers, ClaimUpdate(w), Claimable(worker[w].job, worker[w].now)
      PROVE  \E j \in Jobs : Lifecycle!Begin(j)
  <2>1. PICK j \in Jobs : j = worker[w].job
    BY <1>5 DEF TypeOK, WorkerState, ClaimUpdate
  <2>2. /\ jobs'[j] = Claimed(jobs[j], worker[w].now, worker[w].token)
        /\ \A i \in Jobs \ {j} : SameJob(jobs'[i], jobs[i])
    BY <1>t, <1>5, <2>1 DEF ClaimUpdate, SameJob
  <2>3. /\ jobs'[j].status = "RUNNING" /\ jobs[j].status \in {"QUEUED", "RUNNING"}
        /\ jobs'[j].attemptCount = Smaller(jobs[j].attemptCount + 1, AttemptCap)
    BY <1>t, <1>5, <2>1, <2>2, OtherSays DEF Claimable
  <2>4. /\ [i \in Jobs |-> jobs[i].status]'
               = [[i \in Jobs |-> jobs[i].status] EXCEPT ![j] = "RUNNING"]
        /\ [i \in Jobs |-> jobs[i].attemptCount]'
               = [[i \in Jobs |-> jobs[i].attemptCount]
                     EXCEPT ![j] = Smaller(@ + 1, AttemptCap)]
    BY <1>p, <2>1, <2>2, <2>3, StatusMoves
  <2>5. Lifecycle!Begin(j)
    BY <2>3, <2>4, SamePolicy DEF Lifecycle!Begin, Lifecycle!Move
  <2> QED
    BY <2>5
<1>6. ASSUME NEW w \in Workers, MarkWrite(w)
      PROVE  \E j \in Jobs : Lifecycle!Succeed(j) \/ Lifecycle!Retry(j) \/ Lifecycle!GiveUp(j)
  <2>0. PICK j \in Jobs : j = worker[w].job
    BY <1>6, MarkWriteSays
  <2>1. /\ jobs[j].status = "RUNNING"
        /\ jobs'[j].attemptCount = jobs[j].attemptCount
        /\ \A i \in Jobs \ {j} : SameJob(jobs'[i], jobs[i])
    BY <1>6, <2>0, CalmWrite DEF CalmFacts, SameJob
  <2>2. \/ jobs'[j].status = "COMPLETED"
        \/ /\ jobs'[j].status = "QUEUED" /\ Retryable(JobType[j])
           /\ jobs[j].attemptCount < MaxAttempts(JobType[j])
        \/ /\ jobs'[j].status = "FAILED"
           /\ \/ ~Retryable(JobType[j])
              \/ jobs[j].attemptCount >= MaxAttempts(JobType[j])
    BY <1>6, <2>0, CalmWrite DEF CalmFacts
  <2>3. ASSUME NEW to, to = jobs'[j].status
        PROVE  /\ [i \in Jobs |-> jobs[i].status]'
                     = [[i \in Jobs |-> jobs[i].status] EXCEPT ![j] = to]
               /\ UNCHANGED [i \in Jobs |-> jobs[i].attemptCount]
    BY <1>p, <2>1, <2>3, StatusMoves
  <2>4. CASE jobs'[j].status = "COMPLETED"
    <3>1. Lifecycle!Succeed(j)
      BY <2>1, <2>3, <2>4 DEF Lifecycle!Succeed, Lifecycle!Move
    <3> QED
      BY <3>1
  <2>5. CASE /\ jobs'[j].status = "QUEUED" /\ Retryable(JobType[j])
             /\ jobs[j].attemptCount < MaxAttempts(JobType[j])
    <3>1. Lifecycle!Retry(j)
      BY <2>1, <2>3, <2>5, SamePolicy DEF Lifecycle!Retry, Lifecycle!Move
    <3> QED
      BY <3>1
  <2>6. CASE /\ jobs'[j].status = "FAILED"
             /\ \/ ~Retryable(JobType[j])
                \/ jobs[j].attemptCount >= MaxAttempts(JobType[j])
    <3>1. Lifecycle!GiveUp(j)
      BY <2>1, <2>3, <2>6, SamePolicy DEF Lifecycle!GiveUp, Lifecycle!Move
    <3> QED
      BY <3>1
  <2> QED
    BY <2>2, <2>4, <2>5, <2>6
<1>7. \A c \in Cancelers : ~CancelNow(c) /\ ~CancelRequest(c)
  BY DEF CancelNow, CancelRequest, CalmFacts, CalmInv, NothingCanceled
<1>8. \/ UNCHANGED Lifecycle!lifecycleVars
      \/ \E j \in Jobs : \/ Lifecycle!Submit(j) \/ Lifecycle!Begin(j)
                        \/ Lifecycle!Succeed(j) \/ Lifecycle!Retry(j) \/ Lifecycle!GiveUp(j)
  BY <1>2, <1>3, <1>4, <1>5, <1>6, <1>7, JobsChange
<1> QED
  BY <1>8 DEF Lifecycle!Next

\* Clients see each job submitted, begun, retried within its budget and ended once:
\* the queue, with all its workers, locks and clocks, implements the life cycle.
THEOREM QueueImplementsLifecycle == Calm /\ Spec => ImplementsLifecycle
<1> SUFFICES ASSUME Calm PROVE Spec => ImplementsLifecycle
  OBVIOUS
<1>1. Init => Lifecycle!Init
  BY DEF Init, Lifecycle!Init, NoJob
<1>2. TypeOK /\ CalmFacts /\ [Next]_vars => CalmFacts'
  BY CalmFactsNext
<1>3. TypeOK /\ CalmFacts /\ [Next]_vars => [Lifecycle!Next]_(Lifecycle!lifecycleVars)
  BY LifecycleStep
<1> QED
  BY InitCalmFacts, <1>1, <1>2, <1>3, TypeCorrect, PTL
     DEF Spec, ImplementsLifecycle, Lifecycle!Spec

-----------------------------------------------------------------------------
(* One terminal event *)

\* The worker r has written a terminal status and not yet the event of it.
EventDue(r) == r.pc = "event" /\ (r.outcome = "complete" \/ r.retryAt = Null)

\* An event follows the terminal status of its job.
NoEventBefore == \A j \in Jobs : jobs[j].status \notin Terminal => TerminalEvents(j) = 0

DueIsOpen ==
    \A w \in Workers, j \in Jobs : EventDue(worker[w]) /\ worker[w].job = j =>
        jobs[j].status \in Terminal /\ TerminalEvents(j) = 0

SoleDue ==
    \A v, w \in Workers :
        EventDue(worker[v]) /\ EventDue(worker[w]) /\ worker[v].job = worker[w].job => v = w

EventInv == NoEventBefore /\ DueIsOpen /\ SoleDue /\ OneTerminalEvent

\* A terminal event is due from the write of the status to that of the event.
LEMMA DueSource ==
    ASSUME TypeOK, CalmInv, [Next]_vars, NEW w \in Workers, EventDue(worker'[w])
    PROVE  /\ worker'[w].job = worker[w].job /\ worker[w].job \in Jobs
           /\ \/ EventDue(worker[w]) /\ ~MarkEvent(w)
              \/ MarkWrite(w) /\ (worker[w].outcome = "complete" \/ worker[w].retryAt = Null)
<1> DEFINE r == worker[w]
           s == worker'[w]
<1>t. r \in WorkerState
  BY DEF TypeOK
<1>i. s.pc = "event" /\ s # IdleWorker
  <2>1. IdleWorker.pc = "idle"
    BY DEF IdleWorker
  <2> QED
    BY <2>1 DEF EventDue
<1>1. CASE Tick
  <2>1. s = AgedWorker(r)
    BY <1>1 DEF Tick
  <2>2. r.retryAt \in Int \cup {Null}
    BY <1>t DEF WorkerState, WorkerRecord
  <2>3. /\ s.pc = r.pc /\ s.job = r.job /\ s.outcome = r.outcome
        /\ s.retryAt = Null <=> r.retryAt = Null
    BY <1>t, <2>1, <2>2, AgedType DEF AgedWorker, WorkerState, WorkerRecord
  <2>4. ~MarkEvent(w)
    BY <1>i, MarkMoves
  <2> QED
    BY <1>t, <1>i, <2>3, <2>4 DEF EventDue, WorkerState
<1>2. CASE s = r
  <2>1. ~MarkEvent(w)
    BY <1>i, MarkMoves
  <2> QED
    BY <1>t, <1>i, <1>2, <2>1 DEF WorkerState
<1>3. CASE Claim(w)
  BY <1>3, <1>i, ClaimMoves DEF Claim
<1>4. CASE \/ Execute(w) \/ WorkThrows(w) \/ ItemThrows(w) \/ ReportThrows(w)
           \/ TickThrows(w) \/ WorkerCrash(w)
  BY <1>4, <1>i, ExecuteMoves DEF Execute
<1>5. CASE MarkWrite(w)
  <2>1. \E key : s = [r EXCEPT !.pc = "event", !.lockKey = key]
    BY <1>5, BecomeIs DEF MarkWrite
  <2>2. s.job = r.job /\ s.outcome = r.outcome /\ s.retryAt = r.retryAt
    BY <1>t, <2>1 DEF WorkerState, WorkerRecord
  <2> QED
    BY <1>5, <2>2, MarkWriteSays DEF EventDue
<1>6. CASE MarkRead(w) \/ MarkEvent(w) \/ MarkRelease(w)
  BY <1>6, <1>i, MarkMoves
<1> QED
  BY <1>1, <1>2, <1>3, <1>4, <1>5, <1>6, WorkerChange DEF WorkerStep, Mark

\* Only a worker whose event is due writes one.
LEMMA EventsChange ==
    ASSUME TypeOK, CalmInv, Calm, [Next]_vars, NEW j \in Jobs
    PROVE  \/ TerminalEvents(j)' = TerminalEvents(j)
           \/ \E w \in Workers :
                 /\ MarkEvent(w) /\ worker[w].job = j /\ EventDue(worker[w])
                 /\ TerminalEvents(j) = 0 => TerminalEvents(j)' = 1
<1>t. events \in [Jobs -> EventRows]
  BY DEF TypeOK
<1>1. CASE UNCHANGED events
  BY <1>1 DEF TerminalEvents
<1>2. ASSUME NEW w \in Workers, CheckBeforeStart(w) \/ Checkpoint(w) \/ CheckAfter(w)
      PROVE  TerminalEvents(j)' = TerminalEvents(j)
  <2>1. UNCHANGED events \/ Observe(worker[w].job)
    BY <1>2 DEF CheckBeforeStart, Checkpoint, CheckAfter
  <2> QED
    BY <1>t, <2>1 DEF Observe, TerminalEvents, EventRows
<1>3. ASSUME NEW w \in Workers, MarkEvent(w)
      PROVE  \/ TerminalEvents(j)' = TerminalEvents(j)
             \/ /\ worker[w].job = j /\ EventDue(worker[w])
                /\ TerminalEvents(j) = 0 => TerminalEvents(j)' = 1
  <2>1. /\ worker[w].pc = "event" /\ worker[w].outcome \in {"complete", "fail"}
        /\ events' = [events EXCEPT ![worker[w].job] =
                         Reported(@, worker[w].outcome, worker[w].retryAt)]
    BY <1>3 DEF MarkEvent, CalmInv, NothingCanceled, Marking
  <2>2. CASE worker[w].job # j
    BY <1>t, <2>1, <2>2 DEF TerminalEvents
  <2>3. CASE worker[w].job = j
    <3> DEFINE e == events[j]
    <3>1. e \in EventRows /\ events'[j] = Reported(e, worker[w].outcome, worker[w].retryAt)
      BY <1>t, <2>1, <2>3
    <3>2. /\ e.completed \in Nat /\ e.failed \in Nat /\ e.canceled \in Nat
          /\ Counted(0) = 1
      BY <3>1 DEF EventRows, EventCap, Counted, Smaller
    <3> HIDE DEF e
    <3>3. CASE worker[w].outcome = "complete"
      <4>1. events'[j] = [e EXCEPT !.completed = Counted(@)]
        BY <3>1, <3>3 DEF Reported
      <4>2. /\ events'[j].completed = Counted(e.completed)
            /\ events'[j].failed = e.failed /\ events'[j].canceled = e.canceled
        BY <3>1, <4>1 DEF EventRows
      <4>3. TerminalEvents(j) = 0 => TerminalEvents(j)' = 1
        BY <3>2, <4>2 DEF TerminalEvents, e
      <4> QED
        BY <2>1, <2>3, <3>3, <4>3 DEF EventDue
    <3>4. CASE worker[w].outcome = "fail" /\ worker[w].retryAt = Null
      <4>1. events'[j] = [e EXCEPT !.failed = Counted(@)]
        BY <3>1, <3>4 DEF Reported
      <4>2. /\ events'[j].failed = Counted(e.failed)
            /\ events'[j].completed = e.completed /\ events'[j].canceled = e.canceled
        BY <3>1, <4>1 DEF EventRows
      <4>3. TerminalEvents(j) = 0 => TerminalEvents(j)' = 1
        BY <3>2, <4>2 DEF TerminalEvents, e
      <4> QED
        BY <2>1, <2>3, <3>4, <4>3 DEF EventDue
    <3>5. CASE worker[w].outcome = "fail" /\ worker[w].retryAt # Null
      <4>1. events'[j] = e
        BY <3>1, <3>5 DEF Reported
      <4> QED
        BY <4>1 DEF TerminalEvents, e
    <3> QED
      BY <2>1, <3>3, <3>4, <3>5
  <2> QED
    BY <2>2, <2>3
<1>4. ASSUME NEW c \in Cancelers, RunCancel(c) \/ CancelerCrash(c)
      PROVE  FALSE
  BY <1>4 DEF RunCancel, CancelNow, CancelEvent, CancelRelease, CancelRequest, CancelerCrash,
     CalmInv, NothingCanceled
<1>5. ASSUME NEW w \in Workers,
             \/ Claim(w) \/ DoUnit(w) \/ MarkRead(w) \/ MarkWrite(w) \/ MarkRelease(w)
             \/ WorkThrows(w) \/ ItemThrows(w) \/ ReportThrows(w)
             \/ TickThrows(w) \/ WorkerCrash(w)
      PROVE  UNCHANGED events
  BY <1>5 DEF Claim, ClaimFind, ClaimLock, ClaimUpdate, ClaimAbandon, DoUnit, MarkRead,
     MarkWrite, MarkRelease, WorkThrows, ItemThrows, ReportThrows, TickThrows, WorkerCrash
<1>6. Tick \/ (\E i \in Jobs : Enqueue(i)) \/ UNCHANGED vars => UNCHANGED events
  BY DEF Tick, Enqueue, vars
<1> QED
  BY <1>1, <1>2, <1>3, <1>4, <1>5, <1>6, CalmNever
     DEF Next, WorkerStep, Execute, Mark

LEMMA EventInvNext ==
    ASSUME TypeOK, CalmFacts, EventInv, Calm, [Next]_vars
    PROVE  EventInv'
<1>t. \A j \in Jobs : TerminalEvents(j) \in Nat
  BY DEF TypeOK, TerminalEvents, EventRows, EventCap
<1>c. CalmInv
  BY DEF CalmFacts
\* What the write of a terminal status finds.
<1>w. ASSUME NEW w \in Workers, MarkWrite(w), NEW j \in Jobs, j = worker[w].job
      PROVE  /\ jobs[j].status \notin Terminal
             /\ TerminalEvents(j)' = 0
             /\ worker[w].outcome = "complete" \/ worker[w].retryAt = Null
                  => jobs'[j].status \in Terminal
  <2>1. jobs[j].status = "RUNNING"
    BY <1>w, CalmWrite DEF CalmFacts
  <2>2. worker[w].outcome = "complete" \/ worker[w].retryAt = Null
           => jobs'[j].status \in Terminal
    BY <1>w, CalmWrite DEF CalmFacts, Terminal
  <2>3. UNCHANGED events
    BY <1>w DEF MarkWrite
  <2> QED
    BY <2>1, <2>2, <2>3 DEF EventInv, NoEventBefore, TerminalEvents, Terminal
<1>1. NoEventBefore'
  <2> SUFFICES ASSUME NEW j \in Jobs, jobs'[j].status \notin Terminal
               PROVE  TerminalEvents(j)' = 0
    BY DEF NoEventBefore
  <2>1. jobs[j].status \notin Terminal
    BY TerminalStays
  <2>2. TerminalEvents(j) = 0
    BY <2>1 DEF EventInv, NoEventBefore
  <2>3. \A w \in Workers : ~(EventDue(worker[w]) /\ worker[w].job = j)
    BY <2>1 DEF EventInv, DueIsOpen
  <2> QED
    BY <1>c, <2>2, <2>3, EventsChange
<1>2. DueIsOpen'
  <2> SUFFICES ASSUME NEW w \in Workers, NEW j \in Jobs,
                      EventDue(worker'[w]), worker'[w].job = j
               PROVE  jobs'[j].status \in Terminal /\ TerminalEvents(j)' = 0
    BY DEF DueIsOpen
  <2>1. worker[w].job = j
    BY <1>c, DueSource
  <2>2. CASE EventDue(worker[w]) /\ ~MarkEvent(w)
    <3>1. jobs[j].status \in Terminal /\ TerminalEvents(j) = 0
      BY <2>1, <2>2 DEF EventInv, DueIsOpen
    <3>2. jobs'[j].status \in Terminal
      BY <3>1, TerminalStays
    <3>3. \A v \in Workers : ~(MarkEvent(v) /\ EventDue(worker[v]) /\ worker[v].job = j)
      BY <2>1, <2>2 DEF EventInv, SoleDue
    <3>4. TerminalEvents(j)' = 0
      BY <1>c, <3>1, <3>3, EventsChange
    <3> QED
      BY <2>1, <3>2, <3>4
  <2>3. CASE MarkWrite(w) /\ (worker[w].outcome = "complete" \/ worker[w].retryAt = Null)
    BY <1>w, <2>1, <2>3
  <2> QED
    BY <1>c, <2>2, <2>3, DueSource
<1>3. SoleDue'
  <2> SUFFICES ASSUME NEW v \in Workers, NEW w \in Workers, v # w,
                      EventDue(worker'[v]), EventDue(worker'[w]),
                      worker'[v].job = worker'[w].job
               PROVE  FALSE
    BY DEF SoleDue
  <2>1. worker[v].job = worker[w].job
    BY <1>c, DueSource
  <2>2. EventDue(worker[v]) \/ MarkWrite(v)
    BY <1>c, DueSource
  <2>3. EventDue(worker[w]) \/ MarkWrite(w)
    BY <1>c, DueSource
  <2>4. ASSUME NEW x \in Workers, NEW y \in Workers, worker[x].job = worker[y].job,
               MarkWrite(x), EventDue(worker[y])
        PROVE  FALSE
    <3>1. PICK j \in Jobs : j = worker[x].job
      BY <2>4, MarkWriteSays
    <3>2. jobs[j].status \notin Terminal
      BY <1>w, <2>4, <3>1
    <3> QED
      BY <2>4, <3>1, <3>2 DEF EventInv, DueIsOpen
  <2>5. ~(MarkWrite(v) /\ MarkWrite(w))
    <3>1. ASSUME MarkWrite(v), MarkWrite(w) PROVE Engaged(v) /\ Engaged(w)
      BY <3>1 DEF MarkWrite, Engaged, Executing
    <3> QED
      BY <2>1, <3>1 DEF CalmFacts, SoleInv, SoleEngaged
  <2> QED
    BY <2>1, <2>2, <2>3, <2>4, <2>5 DEF EventInv, SoleDue
<1>4. OneTerminalEvent'
  <2> SUFFICES ASSUME NEW j \in Jobs PROVE TerminalEvents(j)' <= 1
    BY DEF OneTerminalEvent
  <2>1. TerminalEvents(j) <= 1
    BY DEF EventInv, OneTerminalEvent
  <2>2. ASSUME NEW w \in Workers, worker[w].job = j, EventDue(worker[w])
        PROVE  TerminalEvents(j) = 0
    BY <2>2 DEF EventInv, DueIsOpen
  <2> QED
    BY <1>c, <2>1, <2>2, EventsChange
<1> QED
  BY <1>1, <1>2, <1>3, <1>4 DEF EventInv

\* The timeline of a job has at most one terminal event: whoever owes it wrote the
\* status, and nobody else may.
THEOREM TerminalEventOnce == Calm /\ Spec => []OneTerminalEvent
<1> SUFFICES ASSUME Calm PROVE Spec => []OneTerminalEvent
  OBVIOUS
<1>1. Init => EventInv
  BY DEF Init, EventInv, NoEventBefore, DueIsOpen, SoleDue, OneTerminalEvent, EventDue,
     TerminalEvents, NoEvents, IdleWorker
<1>2. TypeOK /\ CalmFacts /\ EventInv /\ [Next]_vars => (CalmFacts /\ EventInv)'
  BY CalmFactsNext, EventInvNext
<1>3. EventInv => OneTerminalEvent
  BY DEF EventInv
<1> QED
  BY InitCalmFacts, <1>1, <1>2, <1>3, TypeCorrect, PTL DEF Spec
=============================================================================
