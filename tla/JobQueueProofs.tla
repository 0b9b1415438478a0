--------------------------- MODULE JobQueueProofs ---------------------------
(***************************************************************************)
(* Proofs about JobQueue, for every number of jobs, workers and cancel     *)
(* requests, every lock TTL and every delay of a worker.                   *)
(***************************************************************************)
EXTENDS JobQueue, TLAPS

\* The wait before a retry is an integer number of ticks, never Null.
LEMMA BackoffInt ==
    ASSUME NEW type \in JobTypes, NEW n \in Nat
    PROVE  Backoff(type, n) \in Int
<1>1. BaseBackoff(type) \in Int
  BY RetryConfigAssumption DEF BaseBackoff, Retryable
<1>2. Larger(n - 1, 0) \in Nat
  BY DEF Larger
<1>3. 2^Larger(n - 1, 0) \in Int
  BY <1>2
<1>4. BaseBackoff(type) * 2^Larger(n - 1, 0) \in Int
  BY <1>1, <1>3
<1>5. QED
  BY <1>1, <1>4, RetryConfigAssumption DEF Backoff, Larger, Smaller

\* Ageing keeps a timestamp a timestamp, and keeps null null.
LEMMA AgedType ==
    ASSUME NEW t \in Int \cup {Null}
    PROVE  /\ Aged(t) \in Int \cup {Null}
           /\ Aged(t) = Null <=> t = Null
           /\ t \in Int => Aged(t) \in Int
BY QueueAssumption DEF Aged, Larger

-----------------------------------------------------------------------------
(* Type correctness *)

\* acquireLock and releaseLock leave a well-formed lock table.
LockTable == [Stores -> [Jobs -> LockRow]]

LEMMA LockTableType ==
    ASSUME NEW p \in Workers \cup Cancelers, NEW j \in Jobs, NEW t \in Token,
           locks \in LockTable, Acquire(p, j, t) \/ Release(p, j, t)
    PROVE  locks' \in LockTable
<1>1. StoreOf(p) \in Stores
  BY DEF StoreOf, Stores
<1>2. FreeLock \in LockRow /\ HeldLock(t) \in LockRow
  BY QueueAssumption DEF FreeLock, HeldLock, Token, LockRow
<1>3. ASSUME NEW l \in LockRow
      PROVE  [locks EXCEPT ![StoreOf(p)][j] = l] \in LockTable
  BY <1>1 DEF LockTable
<1>4. QED
  BY <1>2, <1>3 DEF Acquire, Release

\* A crash forgets the locks in the memory of the process.
LEMMA ForgetType ==
    ASSUME NEW p \in Workers \cup Cancelers,
           locks \in LockTable, Forget(p)
    PROVE  locks' \in LockTable
<1>1. FreeLock \in LockRow
  BY QueueAssumption DEF FreeLock, Token, LockRow
<1>2. QED
  BY <1>1 DEF Forget, Stores, LockTable

\* (A leaf about literal timestamps inside records needs this stated apart.)
LEMMA ZeroInt == 0 \in Int
OBVIOUS

\* Processes start, and go back to, well-formed idle states.
LEMMA IdleTypes == IdleWorker \in WorkerState /\ IdleCanceler \in CancelerState
BY QueueAssumption DEF IdleWorker, IdleCanceler, WorkerState, WorkerRecord,
   CancelerState, WorkerPcs, Marking, Outcomes, Token, CancelerPcs

\* Assigning a well-formed local state keeps all of them well formed.
LEMMA BecomeType ==
    ASSUME worker \in [Workers -> WorkerState],
           NEW w \in Workers, NEW r \in WorkerState, Become(w, r)
    PROVE  worker' \in [Workers -> WorkerState]
BY DEF Become

LEMMA BecomeCancelerType ==
    ASSUME canceler \in [Cancelers -> CancelerState],
           NEW c \in Cancelers, NEW r \in CancelerState, BecomeCanceler(c, r)
    PROVE  canceler' \in [Cancelers -> CancelerState]
BY DEF BecomeCanceler

\* Leaving the body of execute, by its end or by an exception.
LEMMA ConcludeType ==
    ASSUME worker \in [Workers -> WorkerState], NEW w \in Workers,
           worker[w].pc # "idle", NEW o \in Outcomes \ {"none"}, Conclude(w, o)
    PROVE  worker' \in [Workers -> WorkerState]
<1> DEFINE new == [worker[w] EXCEPT !.pc = "read", !.outcome = o]
<1>1. worker[w] \in WorkerRecord /\ worker[w].job \in Jobs
  BY DEF WorkerState
<1>2. "read" \in WorkerPcs
  BY DEF WorkerPcs, Executing
<1>3. /\ new \in WorkerRecord /\ new.pc = "read" /\ new.job = worker[w].job
      /\ new.outcome = o
  BY <1>1, <1>2 DEF WorkerRecord
<1>4. new \in WorkerState
  BY <1>1, <1>3 DEF WorkerState
<1>5. QED
  BY <1>4, BecomeType DEF Conclude

\* Going on with the next item of the job, or to its end.
LEMMA NextItemType ==
    ASSUME worker \in [Workers -> WorkerState], NEW w \in Workers,
           worker[w].pc # "idle", NextItem(w)
    PROVE  worker' \in [Workers -> WorkerState]
<1>1. ASSUME NEW n \in 0..LoopItems
      PROVE  /\ [worker[w] EXCEPT !.left = n, !.pc = "checkpoint"] \in WorkerState
             /\ [worker[w] EXCEPT !.left = n, !.pc = "after"] \in WorkerState
             /\ [worker[w] EXCEPT !.left = n, !.pc = "read", !.outcome = "complete"]
                  \in WorkerState
  <2>1. worker[w] \in WorkerRecord /\ worker[w].job \in Jobs
    BY DEF WorkerState
  <2>2. {"checkpoint", "after", "read"} \subseteq WorkerPcs /\ "complete" \in Outcomes
    BY DEF WorkerPcs, Executing, Outcomes
  <2>3. ASSUME NEW pc \in {"checkpoint", "after"}
        PROVE  [worker[w] EXCEPT !.left = n, !.pc = pc] \in WorkerState
    <3> DEFINE new == [worker[w] EXCEPT !.left = n, !.pc = pc]
    <3>1. new \in WorkerRecord /\ new.pc = pc /\ new.job = worker[w].job
      BY <2>1, <2>2 DEF WorkerRecord
    <3>2. QED
      BY <2>1, <3>1 DEF WorkerState, Marking
  <2>4. [worker[w] EXCEPT !.left = n, !.pc = "read", !.outcome = "complete"]
           \in WorkerState
    <3> DEFINE new == [worker[w] EXCEPT !.left = n, !.pc = "read", !.outcome = "complete"]
    <3>1. /\ new \in WorkerRecord /\ new.pc = "read" /\ new.job = worker[w].job
          /\ new.outcome = "complete"
      BY <2>1, <2>2 DEF WorkerRecord
    <3>2. QED
      BY <2>1, <3>1 DEF WorkerState
  <2>5. QED
    BY <2>3, <2>4
<1>2. /\ 0 \in 0..LoopItems
      /\ worker[w].left > 1 => worker[w].left - 1 \in 0..LoopItems
  BY QueueAssumption DEF WorkerState, WorkerRecord
<1>3. QED
  BY <1>1, <1>2, BecomeType DEF NextItem

\* Observing a cancel request, and reporting an outcome, count well.
LEMMA EventTypes ==
    ASSUME events \in [Jobs -> EventRows], NEW j \in Jobs
    PROVE  /\ Observe(j) => events' \in [Jobs -> EventRows]
           /\ [events[j] EXCEPT !.canceled = Counted(@)] \in EventRows
           /\ \A o \in Outcomes \ {"none"} : \A t : Reported(events[j], o, t) \in EventRows
<1>1. \A n \in 0..EventCap : Counted(n) \in 0..EventCap
  BY DEF Counted, Smaller, EventCap
<1>2. Observe(j) => events' \in [Jobs -> EventRows]
  BY DEF Observe, EventRows
<1>3. /\ [events[j] EXCEPT !.canceled = Counted(@)] \in EventRows
      /\ [events[j] EXCEPT !.completed = Counted(@)] \in EventRows
      /\ [events[j] EXCEPT !.failed = Counted(@)] \in EventRows
  BY <1>1 DEF EventRows
<1>4. QED
  BY <1>2, <1>3 DEF Reported, Outcomes

\* What the mark functions make of a row is a row.
LEMMA MarkedType ==
    ASSUME NEW r \in JobRow, NEW o \in Outcomes \ {"none"}, NEW t \in Int \cup {Null}
    PROVE  Marked(r, o, t) \in JobRow /\ Canceled(r) \in JobRow
<1>1. /\ Completed(r) \in JobRow /\ Failed(r) \in JobRow
      /\ Canceled(r) \in JobRow /\ Requeued(r, t) \in JobRow
  BY DEF Completed, Failed, Canceled, Requeued, JobRow, Statuses, Terminal, Token
<1>2. QED
  BY <1>1 DEF Marked, Outcomes

LEMMA TypeInit == Init => TypeOK
<1> SUFFICES ASSUME Init PROVE TypeOK
  OBVIOUS
<1>1. NoJob \in JobRow
  BY QueueAssumption DEF NoJob, JobRow, Statuses, Token, Terminal
<1>2. FreeLock \in LockRow
  BY QueueAssumption DEF FreeLock, Token, LockRow
<1>3. NoEvents \in EventRows
  BY DEF NoEvents, EventRows, EventCap
<1>4. faults \in FaultCounts
  BY QueueAssumption DEF Init, FaultCounts
<1>5. QED
  BY <1>1, <1>2, <1>3, <1>4, IdleTypes DEF Init, TypeOK

\* Every step keeps every variable in its type.
LEMMA TypeNext == TypeOK /\ [Next]_vars => TypeOK'
<1> SUFFICES ASSUME TypeOK, [Next]_vars PROVE TypeOK'
  OBVIOUS
<1>t. /\ jobs \in [Jobs -> JobRow]
      /\ locks \in LockTable
      /\ events \in [Jobs -> EventRows]
      /\ worker \in [Workers -> WorkerState]
      /\ canceler \in [Cancelers -> CancelerState]
      /\ faults \in FaultCounts
  BY DEF TypeOK, LockTable
\* It is enough to show each variable well typed.
<1>g. ASSUME jobs' \in [Jobs -> JobRow], locks' \in LockTable,
             events' \in [Jobs -> EventRows], worker' \in [Workers -> WorkerState],
             canceler' \in [Cancelers -> CancelerState], faults' \in FaultCounts
      PROVE  TypeOK'
  BY <1>g DEF TypeOK, LockTable
<1>w. ASSUME NEW w \in Workers, worker[w].pc # "idle"
      PROVE  /\ worker[w] \in WorkerState
             /\ worker[w].job \in Jobs /\ jobs[worker[w].job] \in JobRow
             /\ worker[w].token \in Token /\ worker[w].lockKey \in Token
             /\ worker[w].retryAt \in Int \cup {Null}
             /\ JobType[worker[w].job] \in JobTypes
  BY <1>t, <1>w, QueueAssumption DEF WorkerState, WorkerRecord
<1>c. ASSUME NEW c \in Cancelers, canceler[c].pc # "idle"
      PROVE  /\ canceler[c] \in CancelerState
             /\ canceler[c].job \in Jobs /\ jobs[canceler[c].job] \in JobRow
             /\ canceler[c].lockKey \in Token
  BY <1>t, <1>c DEF CancelerState
<1>1. CASE Tick
  <2>1. jobs' \in [Jobs -> JobRow]
    <3>1. \A r \in JobRow : AgedJob(r) \in JobRow
      BY AgedType DEF AgedJob, JobRow
    <3>2. QED
      BY <1>1, <1>t, <3>1 DEF Tick
  <2>2. locks' \in LockTable
    <3>1. \A l \in LockRow : AgedLock(l) \in LockRow
      BY QueueAssumption DEF AgedLock, LockRow, FreeLock, Token
    <3>2. QED
      BY <1>1, <1>t, <3>1 DEF Tick, LockTable
  <2>3. worker' \in [Workers -> WorkerState]
    <3>1. \A r \in WorkerState : AgedWorker(r) \in WorkerState
      BY AgedType, QueueAssumption DEF AgedWorker, WorkerState, WorkerRecord
    <3>2. QED
      BY <1>1, <1>t, <3>1 DEF Tick
  <2>4. QED
    BY <1>1, <1>t, <1>g, <2>1, <2>2, <2>3 DEF Tick
<1>2. ASSUME NEW j \in Jobs, Enqueue(j) PROVE TypeOK'
  <2>1. [jobs[j] EXCEPT !.status = "QUEUED"] \in JobRow
    BY <1>t DEF JobRow, Statuses
  <2>2. QED
    BY <1>2, <1>t, <1>g, <2>1 DEF Enqueue
<1>3. ASSUME NEW w \in Workers, ClaimFind(w) PROVE TypeOK'
  <2> DEFINE token == CHOOSE t \in Tokens : t \notin TokensInUse
  <2>1. token \in Token /\ token # Null
    BY <1>3, QueueAssumption DEF ClaimFind, Token
  <2>2. PICK j \in Jobs : Become(w, [IdleWorker EXCEPT
            !.pc = "lock", !.job = j, !.now = 0, !.token = token])
    BY <1>3 DEF ClaimFind, Candidates
  <2> HIDE DEF token
  <2>3. \A n \in Int : [IdleWorker EXCEPT !.pc = "lock", !.job = j, !.now = n,
                                          !.token = token] \in WorkerState
    BY <2>1, IdleTypes DEF WorkerState, WorkerRecord, WorkerPcs, Marking
  <2>4. worker' \in [Workers -> WorkerState]
    BY <1>t, <2>2, <2>3, ZeroInt, BecomeType
  <2>5. QED
    BY <1>3, <1>t, <1>g, <2>4 DEF ClaimFind
<1>4. ASSUME NEW w \in Workers, ClaimLock(w) PROVE TypeOK'
  <2>1. worker[w].pc # "idle"
    BY <1>4 DEF ClaimLock
  <2>2. locks' \in LockTable
    BY <1>4, <1>t, <1>w, <2>1, LockTableType DEF ClaimLock
  <2>3. [worker[w] EXCEPT !.pc = "claim"] \in WorkerState
    BY <1>4, <1>w, <2>1 DEF ClaimLock, WorkerState, WorkerRecord, WorkerPcs, Marking
  <2>4. worker' \in [Workers -> WorkerState]
    BY <1>4, <1>t, <2>3, BecomeType, IdleTypes DEF ClaimLock
  <2>5. QED
    BY <1>4, <1>t, <1>g, <2>2, <2>4 DEF ClaimLock
<1>5. ASSUME NEW w \in Workers, ClaimUpdate(w) PROVE TypeOK'
  <2> DEFINE j == worker[w].job
  <2>1. worker[w].pc # "idle" /\ worker[w].pc = "claim"
    BY <1>5 DEF ClaimUpdate
  <2>2. worker[w].now \in Int
    BY <1>w, <2>1 DEF WorkerState, WorkerRecord
  <2>a. \A n \in 0..AttemptCap : Smaller(n + 1, AttemptCap) \in 0..AttemptCap
    BY QueueAssumption DEF Smaller
  <2>b. jobs[j] \in JobRow /\ worker[w].token \in Token
    BY <1>w, <2>1
  <2>3. Claimed(jobs[j], worker[w].now, worker[w].token) \in JobRow
    BY <2>2, <2>a, <2>b DEF Claimed, JobRow, Statuses
  <2>4. jobs' \in [Jobs -> JobRow]
    BY <1>5, <1>t, <2>3 DEF ClaimUpdate
  <2>5. /\ [worker[w] EXCEPT !.pc = "start", !.token = Null,
                             !.cancelAtClaim = jobs[j].cancelRequested] \in WorkerState
        /\ [worker[w] EXCEPT !.pc = "unlock"] \in WorkerState
    <3> DEFINE new == [worker[w] EXCEPT !.pc = "start", !.token = Null,
                                        !.cancelAtClaim = jobs[j].cancelRequested]
               out == [worker[w] EXCEPT !.pc = "unlock"]
    <3>1. /\ worker[w] \in WorkerRecord /\ worker[w].job \in Jobs /\ worker[w].token # Null
          /\ jobs[j].cancelRequested \in BOOLEAN
      BY <1>w, <2>1 DEF WorkerState, JobRow
    <3>2. {"start", "unlock"} \subseteq WorkerPcs /\ Null \in Token
      BY DEF WorkerPcs, Executing, Token
    <3>3. new \in WorkerRecord /\ new.pc = "start" /\ new.job = worker[w].job
      BY <3>1, <3>2 DEF WorkerRecord
    <3>4. /\ out \in WorkerRecord /\ out.pc = "unlock" /\ out.job = worker[w].job
          /\ out.token = worker[w].token
      BY <3>1, <3>2 DEF WorkerRecord
    <3>5. QED
      BY <3>1, <3>3, <3>4 DEF WorkerState, Marking
  <2>6. worker' \in [Workers -> WorkerState]
    BY <1>5, <1>t, <2>5, BecomeType DEF ClaimUpdate
  <2>7. QED
    BY <1>5, <1>t, <1>g, <2>4, <2>6 DEF ClaimUpdate
<1>6. ASSUME NEW w \in Workers, ClaimAbandon(w) PROVE TypeOK'
  <2>1. worker[w].pc # "idle"
    BY <1>6 DEF ClaimAbandon
  <2>2. locks' \in LockTable
    BY <1>6, <1>t, <1>w, <2>1, LockTableType DEF ClaimAbandon
  <2>3. worker' \in [Workers -> WorkerState]
    BY <1>6, <1>t, BecomeType, IdleTypes DEF ClaimAbandon
  <2>4. QED
    BY <1>6, <1>t, <1>g, <2>2, <2>3 DEF ClaimAbandon
<1>7. ASSUME NEW w \in Workers, CheckBeforeStart(w) PROVE TypeOK'
  <2>1. worker[w].pc # "idle" /\ worker[w].pc = "start"
    BY <1>7 DEF CheckBeforeStart
  <2>2. events' \in [Jobs -> EventRows]
    BY <1>7, <1>t, <1>w, <2>1, EventTypes DEF CheckBeforeStart
  <2>a. Units(JobType[worker[w].job]) \in 0..LoopItems
    BY QueueAssumption DEF Units
  <2>3. [worker[w] EXCEPT !.pc = "checkpoint", !.left = Units(JobType[worker[w].job])]
          \in WorkerState
    <3> DEFINE units == Units(JobType[worker[w].job])
               new   == [worker[w] EXCEPT !.pc = "checkpoint", !.left = units]
    <3>1. /\ worker[w] \in WorkerRecord /\ worker[w].job \in Jobs
          /\ "checkpoint" \in WorkerPcs /\ units \in 0..LoopItems
      BY <1>w, <2>1, <2>a DEF WorkerState, WorkerPcs, Executing
    <3> HIDE DEF units
    <3>2. new \in WorkerRecord /\ new.pc = "checkpoint" /\ new.job = worker[w].job
      BY <3>1 DEF WorkerRecord
    <3>3. new \in WorkerState
      BY <3>1, <3>2 DEF WorkerState, Marking
    <3>4. QED
      BY <3>3 DEF units
  <2>4. worker' \in [Workers -> WorkerState]
    BY <1>7, <1>t, <2>1, <2>3, BecomeType, ConcludeType DEF CheckBeforeStart, Outcomes
  <2>5. QED
    BY <1>7, <1>t, <1>g, <2>2, <2>4 DEF CheckBeforeStart
<1>8. ASSUME NEW w \in Workers, Checkpoint(w) PROVE TypeOK'
  <2>1. worker[w].pc # "idle" /\ worker[w].pc = "checkpoint"
    BY <1>8 DEF Checkpoint
  <2>2. events' \in [Jobs -> EventRows]
    BY <1>8, <1>t, <1>w, <2>1, EventTypes DEF Checkpoint
  <2>3. [worker[w] EXCEPT !.pc = "unit"] \in WorkerState
    BY <1>w, <2>1 DEF WorkerState, WorkerRecord, WorkerPcs, Executing, Marking
  <2>4. worker' \in [Workers -> WorkerState]
    BY <1>8, <1>t, <2>1, <2>3, BecomeType, ConcludeType, NextItemType
       DEF Checkpoint, Outcomes
  <2>5. QED
    BY <1>8, <1>t, <1>g, <2>2, <2>4 DEF Checkpoint
<1>9. ASSUME NEW w \in Workers, DoUnit(w) PROVE TypeOK'
  <2>1. worker[w].pc # "idle"
    BY <1>9 DEF DoUnit
  <2>2. worker' \in [Workers -> WorkerState]
    BY <1>9, <1>t, <2>1, NextItemType DEF DoUnit
  <2>3. QED
    BY <1>9, <1>t, <1>g, <2>2 DEF DoUnit
<1>10. ASSUME NEW w \in Workers, CheckAfter(w) PROVE TypeOK'
  <2>1. worker[w].pc # "idle"
    BY <1>10 DEF CheckAfter
  <2>2. events' \in [Jobs -> EventRows]
    BY <1>10, <1>t, <1>w, <2>1, EventTypes DEF CheckAfter
  <2>3. worker' \in [Workers -> WorkerState]
    BY <1>10, <1>t, <2>1, ConcludeType DEF CheckAfter, Outcomes
  <2>4. QED
    BY <1>10, <1>t, <1>g, <2>2, <2>3 DEF CheckAfter
<1>11. ASSUME NEW w \in Workers, WorkThrows(w) \/ ReportThrows(w) PROVE TypeOK'
  <2>1. worker[w].pc # "idle"
    BY <1>11 DEF WorkThrows, ReportThrows, Marking
  <2>2. worker' \in [Workers -> WorkerState]
    BY <1>11, <1>t, <2>1, ConcludeType DEF WorkThrows, ReportThrows, Outcomes
  <2>3. faults' \in FaultCounts
    BY <1>11, <1>t, QueueAssumption DEF WorkThrows, ReportThrows, FaultCounts
  <2>4. QED
    BY <1>11, <1>t, <1>g, <2>2, <2>3 DEF WorkThrows, ReportThrows
<1>i. ASSUME NEW w \in Workers, ItemThrows(w) PROVE TypeOK'
  <2>1. worker[w].pc # "idle"
    BY <1>i DEF ItemThrows
  <2>2. worker' \in [Workers -> WorkerState]
    BY <1>i, <1>t, <2>1, NextItemType DEF ItemThrows
  <2>3. faults' \in FaultCounts
    BY <1>i, <1>t, QueueAssumption DEF ItemThrows, FaultCounts
  <2>4. QED
    BY <1>i, <1>t, <1>g, <2>2, <2>3 DEF ItemThrows
<1>12. ASSUME NEW w \in Workers, TickThrows(w) PROVE TypeOK'
  <2>1. worker' \in [Workers -> WorkerState]
    BY <1>12, <1>t, BecomeType, IdleTypes DEF TickThrows
  <2>2. faults' \in FaultCounts
    BY <1>12, <1>t, QueueAssumption DEF TickThrows, FaultCounts
  <2>3. QED
    BY <1>12, <1>t, <1>g, <2>1, <2>2 DEF TickThrows
<1>13. ASSUME NEW w \in Workers, MarkRead(w) PROVE TypeOK'
  <2> DEFINE j == worker[w].job
             retryAt == IF worker[w].outcome = "fail" /\ MayRetry(j)
                        THEN Backoff(JobType[j], jobs[j].attemptCount) ELSE Null
  <2>1. worker[w].pc # "idle" /\ worker[w].pc = "read"
    BY <1>13 DEF MarkRead
  <2>2. /\ jobs[j].lockKey \in Token
        /\ jobs[j].attemptCount \in Nat
    BY <1>w, <2>1, QueueAssumption DEF JobRow
  <2>3. retryAt \in Int \cup {Null}
    BY <1>w, <2>1, <2>2, BackoffInt
  <2>4. Become(w, [worker[w] EXCEPT !.pc = "write", !.lockKey = jobs[j].lockKey,
                                    !.retryAt = retryAt])
    BY <1>13 DEF MarkRead
  <2> HIDE DEF retryAt
  <2>5. [worker[w] EXCEPT !.pc = "write", !.lockKey = jobs[j].lockKey,
                          !.retryAt = retryAt] \in WorkerState
    <3> DEFINE new == [worker[w] EXCEPT !.pc = "write", !.lockKey = jobs[j].lockKey,
                                        !.retryAt = retryAt]
    <3>1. /\ worker[w] \in WorkerRecord /\ worker[w].job \in Jobs
          /\ worker[w].outcome # "none" /\ "write" \in WorkerPcs
      BY <1>w, <2>1 DEF WorkerState, WorkerPcs, Executing, Marking
    <3>2. /\ new \in WorkerRecord /\ new.pc = "write" /\ new.job = worker[w].job
          /\ new.outcome = worker[w].outcome
      BY <2>2, <2>3, <3>1 DEF WorkerRecord
    <3>3. QED
      BY <3>1, <3>2 DEF WorkerState
  <2>6. worker' \in [Workers -> WorkerState]
    BY <1>t, <2>4, <2>5, BecomeType
  <2>7. QED
    BY <1>13, <1>t, <1>g, <2>6 DEF MarkRead
<1>14. ASSUME NEW w \in Workers, MarkWrite(w) PROVE TypeOK'
  <2> DEFINE j == worker[w].job
             key == IF worker[w].outcome = "complete" THEN jobs[j].lockKey
                    ELSE worker[w].lockKey
  <2>1. worker[w].pc # "idle" /\ worker[w].pc = "write"
    BY <1>14 DEF MarkWrite
  <2>2. worker[w].outcome \in Outcomes \ {"none"}
    BY <1>w, <2>1 DEF WorkerState, WorkerRecord, Marking
  <2>3. jobs' \in [Jobs -> JobRow]
    BY <1>14, <1>t, <1>w, <2>1, <2>2, MarkedType DEF MarkWrite
  <2>4. key \in Token
    BY <1>w, <2>1 DEF JobRow
  <2>5. Become(w, [worker[w] EXCEPT !.pc = "event", !.lockKey = key])
    BY <1>14 DEF MarkWrite
  <2> HIDE DEF key
  <2>6. [worker[w] EXCEPT !.pc = "event", !.lockKey = key] \in WorkerState
    BY <1>w, <2>1, <2>4 DEF WorkerState, WorkerRecord, WorkerPcs, Marking
  <2>7. worker' \in [Workers -> WorkerState]
    BY <1>t, <2>5, <2>6, BecomeType
  <2>8. QED
    BY <1>14, <1>t, <1>g, <2>3, <2>7 DEF MarkWrite
<1>15. ASSUME NEW w \in Workers, MarkEvent(w) PROVE TypeOK'
  <2>1. worker[w].pc # "idle" /\ worker[w].pc = "event"
    BY <1>15 DEF MarkEvent
  <2>2. worker[w].outcome \in Outcomes \ {"none"}
    BY <1>w, <2>1 DEF WorkerState, WorkerRecord, Marking
  <2>3. events' \in [Jobs -> EventRows]
    BY <1>15, <1>t, <1>w, <2>1, <2>2, EventTypes DEF MarkEvent
  <2>4. [worker[w] EXCEPT !.pc = "release"] \in WorkerState
    BY <1>w, <2>1 DEF WorkerState, WorkerRecord, WorkerPcs, Marking
  <2>5. worker' \in [Workers -> WorkerState]
    BY <1>15, <1>t, <2>4, BecomeType DEF MarkEvent
  <2>6. QED
    BY <1>15, <1>t, <1>g, <2>3, <2>5 DEF MarkEvent
<1>16. ASSUME NEW w \in Workers, MarkRelease(w) PROVE TypeOK'
  <2>1. worker[w].pc # "idle"
    BY <1>16 DEF MarkRelease
  <2>2. locks' \in LockTable
    BY <1>16, <1>t, <1>w, <2>1, LockTableType DEF MarkRelease
  <2>3. worker' \in [Workers -> WorkerState]
    BY <1>16, <1>t, BecomeType, IdleTypes DEF MarkRelease
  <2>4. QED
    BY <1>16, <1>t, <1>g, <2>2, <2>3 DEF MarkRelease
<1>17. ASSUME NEW w \in Workers, WorkerCrash(w) PROVE TypeOK'
  <2>1. locks' \in LockTable
    BY <1>17, <1>t, ForgetType DEF WorkerCrash
  <2>2. worker' \in [Workers -> WorkerState]
    BY <1>17, <1>t, BecomeType, IdleTypes DEF WorkerCrash
  <2>3. faults' \in FaultCounts
    BY <1>17, <1>t, QueueAssumption DEF WorkerCrash, FaultCounts
  <2>4. QED
    BY <1>17, <1>t, <1>g, <2>1, <2>2, <2>3 DEF WorkerCrash
<1>18. ASSUME NEW c \in Cancelers, NEW j \in Jobs, CancelRead(c, j) PROVE TypeOK'
  <2>1. \A pc \in {"cancelNow", "request"} :
            [IdleCanceler EXCEPT !.job = j, !.pc = pc] \in CancelerState
    BY IdleTypes DEF CancelerState, CancelerPcs
  <2>2. canceler' \in [Cancelers -> CancelerState]
    BY <1>18, <1>t, <2>1, BecomeCancelerType DEF CancelRead
  <2>3. faults' \in FaultCounts
    BY <1>18, <1>t, QueueAssumption DEF CancelRead, FaultCounts
  <2>4. QED
    BY <1>18, <1>t, <1>g, <2>2, <2>3 DEF CancelRead
<1>19. ASSUME NEW c \in Cancelers, CancelNow(c) PROVE TypeOK'
  <2>1. canceler[c].pc # "idle"
    BY <1>19 DEF CancelNow
  <2>2. Canceled(jobs[canceler[c].job]) \in JobRow
    BY <1>c, <2>1, MarkedType DEF Outcomes
  <2>3. jobs' \in [Jobs -> JobRow]
    BY <1>19, <1>t, <1>c, <2>1, <2>2 DEF CancelNow
  <2>4. [canceler[c] EXCEPT !.pc = "event", !.lockKey = jobs[canceler[c].job].lockKey]
          \in CancelerState
    BY <1>c, <2>1 DEF CancelerState, CancelerPcs, JobRow
  <2>5. canceler' \in [Cancelers -> CancelerState]
    BY <1>19, <1>t, <2>4, BecomeCancelerType DEF CancelNow
  <2>6. QED
    BY <1>19, <1>t, <1>g, <2>3, <2>5 DEF CancelNow
<1>20. ASSUME NEW c \in Cancelers, CancelEvent(c) PROVE TypeOK'
  <2>1. canceler[c].pc # "idle"
    BY <1>20 DEF CancelEvent
  <2>2. events' \in [Jobs -> EventRows]
    BY <1>20, <1>t, <1>c, <2>1, EventTypes DEF CancelEvent
  <2>3. [canceler[c] EXCEPT !.pc = "release"] \in CancelerState
    BY <1>c, <2>1 DEF CancelerState, CancelerPcs
  <2>4. canceler' \in [Cancelers -> CancelerState]
    BY <1>20, <1>t, <2>3, BecomeCancelerType DEF CancelEvent
  <2>5. QED
    BY <1>20, <1>t, <1>g, <2>2, <2>4 DEF CancelEvent
<1>21. ASSUME NEW c \in Cancelers, CancelRelease(c) PROVE TypeOK'
  <2>1. canceler[c].pc # "idle"
    BY <1>21 DEF CancelRelease
  <2>2. locks' \in LockTable
    BY <1>21, <1>t, <1>c, <2>1, LockTableType DEF CancelRelease
  <2>3. canceler' \in [Cancelers -> CancelerState]
    BY <1>21, <1>t, BecomeCancelerType, IdleTypes DEF CancelRelease
  <2>4. QED
    BY <1>21, <1>t, <1>g, <2>2, <2>3 DEF CancelRelease
<1>22. ASSUME NEW c \in Cancelers, CancelRequest(c) PROVE TypeOK'
  <2>1. canceler[c].pc # "idle"
    BY <1>22 DEF CancelRequest
  <2>2. [jobs[canceler[c].job] EXCEPT !.cancelRequested = TRUE] \in JobRow
    BY <1>c, <2>1 DEF JobRow
  <2>3. jobs' \in [Jobs -> JobRow]
    BY <1>22, <1>t, <1>c, <2>1, <2>2 DEF CancelRequest
  <2>4. canceler' \in [Cancelers -> CancelerState]
    BY <1>22, <1>t, BecomeCancelerType, IdleTypes DEF CancelRequest
  <2>5. QED
    BY <1>22, <1>t, <1>g, <2>3, <2>4 DEF CancelRequest
<1>23. ASSUME NEW c \in Cancelers, CancelerCrash(c) PROVE TypeOK'
  <2>1. locks' \in LockTable
    BY <1>23, <1>t, ForgetType DEF CancelerCrash
  <2>2. canceler' \in [Cancelers -> CancelerState]
    BY <1>23, <1>t, BecomeCancelerType, IdleTypes DEF CancelerCrash
  <2>3. faults' \in FaultCounts
    BY <1>23, <1>t, QueueAssumption DEF CancelerCrash, FaultCounts
  <2>4. QED
    BY <1>23, <1>t, <1>g, <2>1, <2>2, <2>3 DEF CancelerCrash
<1>24. CASE UNCHANGED vars
  BY <1>24, <1>t, <1>g DEF vars
<1>25. QED
  BY <1>1, <1>2, <1>3, <1>4, <1>5, <1>6, <1>7, <1>8, <1>9, <1>10, <1>11, <1>12,
     <1>13, <1>14, <1>15, <1>16, <1>17, <1>18, <1>19, <1>20, <1>21, <1>22, <1>23, <1>24, <1>i
     DEF Next, WorkerStep, Claim, Execute, Mark, RunCancel

\* The queue's variables keep their types, whatever happens in whatever order.
THEOREM TypeCorrect == Spec => []TypeOK
<1>1. Init => TypeOK
  BY TypeInit
<1>2. TypeOK /\ [Next]_vars => TypeOK'
  BY TypeNext
<1>3. QED
  BY <1>1, <1>2, PTL DEF Spec

=============================================================================
