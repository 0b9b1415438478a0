------------------------------- MODULE Retention -------------------------------
(***************************************************************************)
(* Retention of operational data (job-retention.service.ts): a cleanup run *)
(* moves or deletes old job events and audit logs, deletes old ended jobs, *)
(* whose remaining events the database deletes with them, and purges the   *)
(* archive.  Several runs may be under way: the scheduler's job, one that  *)
(* an administrator queued, and the maintenance command.                   *)
(*                                                                         *)
(* A unit of time is a day.  A day's number may be that of several writes, *)
(* so MaxLag is how many days after its job's end an event can be written: *)
(* the code writes the terminal event after the row.  CANCELED is treated  *)
(* as COMPLETED is.  The deletion of old upload sessions is one statement  *)
(* on rows of another module and left out, as is the record of the last run. *)
(***************************************************************************)
EXTENDS Naturals, FiniteSets, Sequences

CONSTANTS
    Runs,               \* cleanup runs that can be under way at once
    Jobs, Events,
    JobOf,              \* the job of each event
    Logs, SecurityLogs, \* audit logs; those with a security action
    EventDays, TerminalDays, FailedDays, LogDays, SecurityDays,
    ArchiveEventDays, ArchiveLogDays, ArchiveSecurityDays,
    BatchSize,
    Modes,              \* RETENTION_ARCHIVE_ENABLED: "archive_and_prune", "hard_delete"
    MaxLag,             \* days from a job's end to its last event
    LastBirth, Horizon, \* bounds of the clock: last new row (jobs end before), last day
    MaxFailures         \* bound of runs that fail or die

Rows == Events \cup Logs

ASSUME RetentionAssumption ==
    /\ JobOf \in [Events -> Jobs] /\ SecurityLogs \subseteq Logs
    /\ Events \cap Logs = {} /\ IsFiniteSet(Rows)
    /\ {EventDays, TerminalDays, FailedDays, LogDays, SecurityDays,
        ArchiveEventDays, ArchiveLogDays, ArchiveSecurityDays} \subseteq Nat
    /\ EventDays <= TerminalDays       \* as the defaults of env.ts have it
    /\ BatchSize \in Nat \ {0}
    /\ Modes \subseteq {"archive_and_prune", "hard_delete"}
    /\ {MaxLag, LastBirth, Horizon, MaxFailures} \subseteq Nat

VARIABLES
    clock,
    mode,      \* the configuration of this system
    job,       \* jobs: status, day of the end, whether the row is deleted
    born,      \* createdAt of each row, 0 before
    hot,       \* job_events and audit_logs
    archive,   \* JobEventArchive and AuditLogArchive
    run,       \* the local state of each run
    failures

vars == <<clock, mode, job, born, hot, archive, run, failures>>

\* The steps of runCleanup, in its order.
Stages == <<"ended_events", "failed_events", "logs", "security_logs",
            "ended_jobs", "failed_jobs", "purge">>
Idle   == [stage |-> 0, now |-> 0, batch |-> {}]

Init ==
    /\ clock = 1
    /\ mode \in Modes
    /\ job  = [j \in Jobs |-> [status |-> "active", ended |-> 0, deleted |-> FALSE]]
    /\ born = [x \in Rows |-> 0]
    /\ hot = {} /\ archive = {}
    /\ run  = [r \in Runs |-> Idle]
    /\ failures = 0

\* createdAt < now - days
Before(day, days, now) == day + days < now

-----------------------------------------------------------------------------
(* What the cleanup selects *)

EndedEvents(status, days, now) ==
    {e \in Events \cap hot : /\ job[JobOf[e]].status = status
                             /\ Before(born[e], days, now)}

\* A mutant of Expired: the events of all jobs that are not failed.
ExpiredOfAnyJob(stage, now) ==
    [ended_events  |-> {e \in Events \cap hot : /\ job[JobOf[e]].status # "FAILED"
                                                /\ Before(born[e], EventDays, now)},
     failed_events |-> EndedEvents("FAILED", FailedDays, now),
     logs          |-> {l \in (Logs \ SecurityLogs) \cap hot : Before(born[l], LogDays, now)},
     security_logs |-> {l \in SecurityLogs \cap hot : Before(born[l], SecurityDays, now)}][stage]

\* The rows the where clauses of the first four stages match.
Expired(stage, now) ==
    [ended_events  |-> EndedEvents("COMPLETED", EventDays, now),
     failed_events |-> EndedEvents("FAILED", FailedDays, now),
     logs          |-> {l \in (Logs \ SecurityLogs) \cap hot : Before(born[l], LogDays, now)},
     security_logs |-> {l \in SecurityLogs \cap hot : Before(born[l], SecurityDays, now)}][stage]

EndedJobs(status, days, now) ==
    {j \in Jobs : /\ job[j].status = status /\ ~job[j].deleted
                  /\ Before(job[j].ended, days, now)}

OldJobs(stage, now) ==
    [ended_jobs  |-> EndedJobs("COMPLETED", TerminalDays, now),
     failed_jobs |-> EndedJobs("FAILED", FailedDays, now)][stage]

ArchiveDays(x) == IF x \in Events THEN ArchiveEventDays
                  ELSE IF x \in SecurityLogs THEN ArchiveSecurityDays ELSE ArchiveLogDays

\* A mutant of Purgeable: the statement for security logs is missing.
PurgeableGeneral(now) ==
    {x \in archive \ SecurityLogs : Before(born[x], ArchiveDays(x), now)}

\* applyArchiveGovernance
Purgeable(now) == {x \in archive : Before(born[x], ArchiveDays(x), now)}

-----------------------------------------------------------------------------
(* runCleanup *)

At(r, stages) == run[r].stage \in DOMAIN Stages /\ Stages[run[r].stage] \in stages
Stage(r)      == Stages[run[r].stage]
RowStages     == {"ended_events", "failed_events", "logs", "security_logs"}

Advance(r) == run' = [run EXCEPT ![r].stage = @ + 1]

Start(r) ==
    /\ run[r] = Idle
    /\ run' = [run EXCEPT ![r] = [stage |-> 1, now |-> clock, batch |-> {}]]
    /\ UNCHANGED <<clock, mode, job, born, hot, archive, failures>>

\* A mutant of DeleteRows: the mode is not looked at.
DeleteRowsAlways(r) ==
    /\ At(r, RowStages)
    /\ hot' = hot \ Expired(Stage(r), run[r].now)
    /\ Advance(r)
    /\ UNCHANGED <<clock, mode, job, born, archive, failures>>

\* Hard delete: one statement.
DeleteRows(r) ==
    /\ At(r, RowStages) /\ mode = "hard_delete"
    /\ hot' = hot \ Expired(Stage(r), run[r].now)
    /\ Advance(r)
    /\ UNCHANGED <<clock, mode, job, born, archive, failures>>

\* A mutant of FindBatch: what fits in one batch is left to the next run.
FindBeyondBatch(r) ==
    LET found == Expired(Stage(r), run[r].now) IN
    /\ At(r, RowStages) /\ mode = "archive_and_prune" /\ run[r].batch = {}
    /\ \/ Cardinality(found) <= BatchSize /\ Advance(r)
       \/ /\ Cardinality(found) > BatchSize
          /\ \E b \in SUBSET found :
                /\ Cardinality(b) = BatchSize
                /\ run' = [run EXCEPT ![r].batch = b]
    /\ UNCHANGED <<clock, mode, job, born, hot, archive, failures>>

\* The query of the archiving loop: the oldest rows, outside the transaction.
FindBatch(r) ==
    LET found == Expired(Stage(r), run[r].now) IN
    /\ At(r, RowStages) /\ mode = "archive_and_prune" /\ run[r].batch = {}
    /\ \/ found = {} /\ Advance(r)
       \/ \E b \in SUBSET found :
             /\ b # {}
             /\ Cardinality(b) <= BatchSize /\ (Cardinality(b) < BatchSize => b = found)
             /\ \A x \in b, y \in found \ b : born[x] <= born[y]
             /\ run' = [run EXCEPT ![r].batch = b]
    /\ UNCHANGED <<clock, mode, job, born, hot, archive, failures>>

\* A mutant of ArchiveBatch: the deletion is forgotten.
ArchiveBatchCopying(r) ==
    /\ run[r].batch # {}
    /\ archive' = archive \cup run[r].batch
    /\ run' = [run EXCEPT ![r].batch = {}]
    /\ UNCHANGED <<clock, mode, job, born, hot, failures>>

\* The transaction: rows that are in the archive are skipped, rows that are
\* deleted already are copied all the same.
ArchiveBatch(r) ==
    /\ run[r].batch # {}
    /\ archive' = archive \cup run[r].batch
    /\ hot' = hot \ run[r].batch
    /\ run' = [run EXCEPT ![r].batch = {}]
    /\ UNCHANGED <<clock, mode, job, born, failures>>

\* deleteTerminalJobs; the database deletes the events of the jobs.
DeleteJobs(r) ==
    LET old == OldJobs(Stage(r), run[r].now) IN
    /\ At(r, {"ended_jobs", "failed_jobs"})
    /\ job' = [j \in Jobs |-> IF j \in old THEN [job[j] EXCEPT !.deleted = TRUE] ELSE job[j]]
    /\ hot' = hot \ {e \in Events : JobOf[e] \in old}
    /\ Advance(r)
    /\ UNCHANGED <<clock, mode, born, archive, failures>>

\* applyArchiveGovernance: three statements on different rows.  What the run
\* did is then recorded for the status page.
Purge(r) ==
    /\ At(r, {"purge"})
    /\ archive' = archive \ Purgeable(run[r].now)
    /\ run' = [run EXCEPT ![r] = Idle]
    /\ UNCHANGED <<clock, mode, job, born, hot, failures>>

\* A statement throws and the transaction is rolled back, or the process dies.
Throws(r) ==
    /\ run[r] # Idle /\ failures < MaxFailures
    /\ run' = [run EXCEPT ![r] = Idle]
    /\ failures' = failures + 1
    /\ UNCHANGED <<clock, mode, job, born, hot, archive>>

-----------------------------------------------------------------------------
(* The rest of the system *)

Create(x) ==
    /\ born[x] = 0 /\ clock <= LastBirth
    /\ born' = [born EXCEPT ![x] = clock]
    /\ hot'  = hot \cup {x}
    /\ UNCHANGED <<clock, mode, job, archive, run, failures>>

\* An event of a job that runs, or that has just ended.
RecordEvent(e) ==
    /\ \/ job[JobOf[e]].status = "active"
       \/ ~job[JobOf[e]].deleted /\ clock <= job[JobOf[e]].ended + MaxLag
    /\ Create(e)

RecordLog(l) == Create(l)

JobEnds(j) ==
    /\ job[j].status = "active" /\ clock < LastBirth
    /\ \E s \in {"COMPLETED", "FAILED"} :
          job' = [job EXCEPT ![j].status = s, ![j].ended = clock]
    /\ UNCHANGED <<clock, mode, born, hot, archive, run, failures>>

Tick ==
    /\ clock < Horizon
    /\ clock' = clock + 1
    /\ UNCHANGED <<mode, job, born, hot, archive, run, failures>>

Step(r) == \/ DeleteRows(r) \/ FindBatch(r) \/ ArchiveBatch(r)
           \/ DeleteJobs(r) \/ Purge(r)

Next ==
    \/ \E r \in Runs : Start(r) \/ Step(r) \/ Throws(r)
    \/ \E e \in Events : RecordEvent(e)
    \/ \E l \in Logs : RecordLog(l)
    \/ \E j \in Jobs : JobEnds(j)
    \/ Tick

Spec == Init /\ [][Next]_vars

\* The scheduler enqueues the cleanup again and again, and its job ends.
FairSpec == /\ Spec
            /\ WF_vars(Tick)
            /\ \A r \in Runs : WF_vars(Start(r)) /\ WF_vars(Step(r))

(***************************************************************************)
(* Properties                                                              *)
(***************************************************************************)
\* Types; a run that is not under way keeps nothing, no run is of the future,
\* and nothing is archived when rows are deleted at once.
TypeOK ==
    /\ clock \in 1..(Horizon + 1) /\ mode \in Modes
    /\ job \in [Jobs -> [status: {"active", "COMPLETED", "FAILED"}, ended: Nat,
                          deleted: BOOLEAN]]
    /\ born \in [Rows -> Nat] /\ hot \subseteq Rows /\ archive \subseteq Rows
    /\ run \in [Runs -> [stage: 0..Len(Stages), now: Nat, batch: SUBSET Rows]]
    /\ \A r \in Runs : /\ run[r].stage = 0 => run[r] = Idle
                       /\ run[r].now <= clock
    /\ failures \in 0..MaxFailures
    /\ mode = "hard_delete" => archive = {}

\* An event written after its job's row had ended.
Late(x) == /\ x \in Events /\ job[JobOf[x]].status # "active"
           /\ born[x] > job[JobOf[x]].ended

HotDays(x) == IF x \in Events
              THEN IF job[JobOf[x]].status = "FAILED" THEN FailedDays ELSE EventDays
              ELSE IF x \in SecurityLogs THEN SecurityDays ELSE LogDays

\* No row leaves its table before the window of its kind is over, and no event
\* of a job that has not ended (data-retention.md, safety rules), except a late
\* event, which goes with its job.
HotLongEnough ==
    \A x \in Rows : born[x] # 0 /\ x \notin hot =>
        \/ Late(x)
        \/ /\ Before(born[x], HotDays(x), clock)
           /\ x \in Events => job[JobOf[x]].status # "active"

\* In archive mode nothing is lost: what is in neither table is older than the
\* archive's window, whatever runs overlap, fail or die, again except late events.
HistoryKept ==
    mode = "archive_and_prune" =>
        \A x \in Rows : born[x] # 0 /\ x \notin hot /\ x \notin archive =>
            Late(x) \/ Before(born[x], ArchiveDays(x), clock)

\* No row is both in its table and in the archive: lists and counts never show
\* it twice.
NeverBoth == hot \cap archive = {}

\* Hidden from readers: the clock, jobs, runs with their stages and batches.
Lifecycle == INSTANCE RecordLifecycle WITH
    Record   <- Rows,
    written  <- {x \in Rows : born[x] # 0},
    live     <- hot,
    archived <- archive,
    old      <- {x \in Rows : /\ born[x] # 0
                              /\ \/ Late(x)
                                 \/ /\ Before(born[x], HotDays(x), clock)
                                    /\ x \in Events => job[JobOf[x]].status # "active"},
    older    <- {x \in Rows : /\ born[x] # 0
                              /\ Late(x) \/ Before(born[x], ArchiveDays(x), clock)}

\* Each statement of a cleanup, however old the query it acts on, moves or
\* deletes only what may go: out of the table in one step with its copy, never
\* back into it, out of the archive not before its time there.
ImplementsRecordLifecycle == Lifecycle!Spec

\* When cleanups recur, the tables and the archive are at last rid of every row
\* but the events of jobs that do not end.
EventuallyGone ==
    <>[](\A x \in hot \cup archive : x \in Events /\ job[JobOf[x]].status = "active")
=============================================================================
