----------------------------- MODULE RetentionProofs -----------------------------
(***************************************************************************)
(* Proofs of Retention's safety: rows stay long enough, none is lost on    *)
(* the way to the archive, and none is in both places, for any number of   *)
(* cleanups that overlap, fail and die, and any windows that keep events   *)
(* no longer than their jobs.  What has to be known of a cleanup that is   *)
(* under way: its batch holds rows that were expired at its instant, and   *)
(* past the stages of events none is left of a job it may delete.          *)
(***************************************************************************)
EXTENDS Retention, FiniteSetTheorems, TLAPS

Days == {EventDays, TerminalDays, FailedDays, LogDays, SecurityDays,
         ArchiveEventDays, ArchiveLogDays, ArchiveSecurityDays}
JobRows  == [status: {"active", "COMPLETED", "FAILED"}, ended: Nat, deleted: BOOLEAN]
RunState == [stage: 0..7, now: Nat, batch: SUBSET Rows]

JobEnded(x) == x \in Events => job[JobOf[x]].status # "active"

\* Types, and what keeps them.
TInv == /\ TypeOK
        /\ \A r \in Runs : run[r].batch # {} => mode = "archive_and_prune"

\* Rows that are anywhere have been born.
Known == \A x \in hot \cup archive : born[x] # 0

\* The batch of a cleanup in state l was expired at its instant.
BatchOK(l) ==
    \A x \in l.batch : /\ born[x] # 0 /\ JobEnded(x)
                       /\ Before(born[x], HotDays(x), l.now)

\* Past its stage, no event but late ones is left of a job that a cleanup in
\* state l may delete.
GoneOK(l) ==
    mode = "archive_and_prune" =>
        \A e \in Events \cap hot :
            /\ /\ l.stage > 1 /\ job[JobOf[e]].status = "COMPLETED"
               /\ Before(job[JobOf[e]].ended, TerminalDays, l.now)
               => Late(e)
            /\ /\ l.stage > 2 /\ job[JobOf[e]].status = "FAILED"
               /\ Before(job[JobOf[e]].ended, FailedDays, l.now)
               => Late(e)

RunsSound == \A r \in Runs : BatchOK(run[r]) /\ GoneOK(run[r])

RInv == TInv /\ Known /\ RunsSound /\ HotLongEnough /\ HistoryKept /\ NeverBoth

-----------------------------------------------------------------------------
(* What the definitions say *)

LEMMA StageFacts ==
    /\ DOMAIN Stages = 1..7 /\ Len(Stages) = 7
    /\ Stages[1] = "ended_events" /\ Stages[2] = "failed_events"
    /\ Stages[3] = "logs" /\ Stages[4] = "security_logs"
    /\ Stages[5] = "ended_jobs" /\ Stages[6] = "failed_jobs" /\ Stages[7] = "purge"
  BY DEF Stages

LEMMA DayFacts ==
    /\ EventDays \in Nat /\ TerminalDays \in Nat /\ FailedDays \in Nat
    /\ LogDays \in Nat /\ SecurityDays \in Nat
    /\ \A x \in Rows : HotDays(x) \in Nat /\ ArchiveDays(x) \in Nat
    /\ EventDays <= TerminalDays
    /\ JobOf \in [Events -> Jobs] /\ SecurityLogs \subseteq Logs
    /\ Events \cap Logs = {} /\ Events \subseteq Rows /\ Logs \subseteq Rows
    /\ {MaxLag, LastBirth, Horizon, MaxFailures} \subseteq Nat
<1>1. EventDays \in Nat /\ TerminalDays \in Nat /\ FailedDays \in Nat
      /\ LogDays \in Nat /\ SecurityDays \in Nat /\ ArchiveEventDays \in Nat
      /\ ArchiveLogDays \in Nat /\ ArchiveSecurityDays \in Nat
  BY RetentionAssumption
<1>2. \A x \in Rows : HotDays(x) \in Nat /\ ArchiveDays(x) \in Nat
  BY <1>1 DEF HotDays, ArchiveDays
<1> QED
  BY <1>1, <1>2, RetentionAssumption DEF Rows

LEMMA AtFacts ==
    ASSUME NEW r \in Runs, run[r].stage \in 0..7
    PROVE  /\ At(r, RowStages) => run[r].stage \in 1..4
           /\ At(r, {"ended_jobs", "failed_jobs"}) => run[r].stage \in 5..6
           /\ At(r, {"purge"}) => run[r].stage = 7
           /\ run[r].stage = 1 => Stage(r) = "ended_events"
           /\ run[r].stage = 2 => Stage(r) = "failed_events"
           /\ run[r].stage = 3 => Stage(r) = "logs"
           /\ run[r].stage = 4 => Stage(r) = "security_logs"
           /\ run[r].stage = 5 => Stage(r) = "ended_jobs"
           /\ run[r].stage = 6 => Stage(r) = "failed_jobs"
<1>1. run[r].stage \in {0, 1, 2, 3, 4, 5, 6, 7}
  OBVIOUS
<1>2. /\ run[r].stage = 1 => Stage(r) = "ended_events"
      /\ run[r].stage = 2 => Stage(r) = "failed_events"
      /\ run[r].stage = 3 => Stage(r) = "logs"
      /\ run[r].stage = 4 => Stage(r) = "security_logs"
      /\ run[r].stage = 5 => Stage(r) = "ended_jobs"
      /\ run[r].stage = 6 => Stage(r) = "failed_jobs"
      /\ run[r].stage = 7 => Stage(r) = "purge"
  BY StageFacts DEF Stage
<1>3. \A S : At(r, S) => run[r].stage \in 1..7 /\ Stage(r) \in S
  BY StageFacts DEF At, Stage
<1>4. At(r, RowStages) => Stage(r) \in {"ended_events", "failed_events", "logs",
                                        "security_logs"}
  BY <1>3 DEF RowStages
<1>5. At(r, RowStages) => run[r].stage \in 1..4
  BY <1>1, <1>2, <1>3, <1>4
<1>6. At(r, {"ended_jobs", "failed_jobs"}) => run[r].stage \in 5..6
  BY <1>1, <1>2, <1>3
<1>7. At(r, {"purge"}) => run[r].stage = 7
  BY <1>1, <1>2, <1>3
<1> QED
  BY <1>2, <1>5, <1>6, <1>7

\* What the cleanup selects is expired.
LEMMA ExpiredFacts ==
    ASSUME NEW now, NEW r \in Runs, run[r].stage \in 1..4,
           NEW x \in Expired(Stage(r), now)
    PROVE  x \in hot /\ x \in Rows /\ Before(born[x], HotDays(x), now) /\ JobEnded(x)
<1>1. /\ Expired("ended_events", now) = EndedEvents("COMPLETED", EventDays, now)
      /\ Expired("failed_events", now) = EndedEvents("FAILED", FailedDays, now)
      /\ Expired("logs", now)
            = {l \in (Logs \ SecurityLogs) \cap hot : Before(born[l], LogDays, now)}
      /\ Expired("security_logs", now)
            = {l \in SecurityLogs \cap hot : Before(born[l], SecurityDays, now)}
  BY DEF Expired
<1>2. run[r].stage \in {1, 2, 3, 4}
  OBVIOUS
<1>3. CASE run[r].stage = 1
  <2>1. x \in EndedEvents("COMPLETED", EventDays, now)
    BY <1>1, <1>3, AtFacts
  <2> QED
    BY <2>1, DayFacts DEF EndedEvents, HotDays, JobEnded
<1>4. CASE run[r].stage = 2
  <2>1. x \in EndedEvents("FAILED", FailedDays, now)
    BY <1>1, <1>4, AtFacts
  <2> QED
    BY <2>1, DayFacts DEF EndedEvents, HotDays, JobEnded
<1>5. CASE run[r].stage = 3
  <2>1. x \in (Logs \ SecurityLogs) \cap hot /\ Before(born[x], LogDays, now)
    BY <1>1, <1>5, AtFacts
  <2> QED
    BY <2>1, DayFacts DEF HotDays, JobEnded
<1>6. CASE run[r].stage = 4
  <2>1. x \in SecurityLogs \cap hot /\ Before(born[x], SecurityDays, now)
    BY <1>1, <1>6, AtFacts
  <2> QED
    BY <2>1, DayFacts DEF HotDays, JobEnded
<1> QED
  BY <1>2, <1>3, <1>4, <1>5, <1>6

LEMMA BeforeLater ==
    ASSUME NEW day \in Nat, NEW days \in Nat, NEW now \in Nat, NEW later \in Nat,
           now <= later, Before(day, days, now)
    PROVE  Before(day, days, later)
  BY DEF Before

-----------------------------------------------------------------------------
(* Types *)

LEMMA InitTypes == Init => TInv
<1> SUFFICES ASSUME Init PROVE TInv
  OBVIOUS
<1> DEFINE z == 0
<1>1. Idle = [stage |-> z, now |-> z, batch |-> {}]
  BY DEF Idle
<1>2. [j \in Jobs |-> [status |-> "active", ended |-> z, deleted |-> FALSE]]
         \in [Jobs -> JobRows]
  <2> z \in Nat
    OBVIOUS
  <2> HIDE DEF z
  <2> QED
    BY DEF JobRows
<1>3. Idle \in RunState /\ Idle.now = 0 /\ Idle.batch = {}
  <2> z \in Nat /\ z \in 0..7 /\ z = 0
    OBVIOUS
  <2> HIDE DEF z
  <2> QED
    BY <1>1 DEF RunState
<1>4. clock \in 1..(Horizon + 1) /\ mode \in Modes /\ job \in [Jobs -> JobRows]
      /\ born \in [Rows -> Nat] /\ hot \subseteq Rows /\ archive \subseteq Rows
      /\ failures \in 0..MaxFailures /\ archive = {}
  BY <1>2, DayFacts DEF Init
<1>5. run \in [Runs -> RunState]
      /\ \A r \in Runs : run[r] = Idle /\ run[r].now <= clock /\ run[r].batch = {}
  BY <1>3 DEF Init
<1> QED
  BY <1>4, <1>5, StageFacts DEF TInv, TypeOK, JobRows, RunState

\* What a step may do to the run of a cleanup.
LEMMA RunKeepsTypes ==
    ASSUME TInv, UNCHANGED <<clock, mode, job, born>>,
           hot' \subseteq Rows, archive' \subseteq Rows,
           mode = "hard_delete" => archive' = {},
           failures' \in 0..MaxFailures,
           NEW r \in Runs, NEW new \in RunState, run' = [run EXCEPT ![r] = new],
           new.stage = 0 => new = Idle, new.now <= clock,
           new.batch # {} => mode = "archive_and_prune"
    PROVE  TInv'
<1>1. run \in [Runs -> RunState]
  BY StageFacts DEF TInv, TypeOK, RunState
<1>2. run' \in [Runs -> RunState]
  BY <1>1
<1>3. \A q \in Runs : /\ run'[q].stage = 0 => run'[q] = Idle
                      /\ run'[q].now <= clock
                      /\ run'[q].batch # {} => mode = "archive_and_prune"
  BY <1>1 DEF TInv, TypeOK
<1> QED
  BY <1>2, <1>3, StageFacts DEF TInv, TypeOK, RunState

LEMMA RunFacts ==
    ASSUME TInv, NEW r \in Runs
    PROVE  /\ run \in [Runs -> RunState] /\ run[r] \in RunState
           /\ run[r].stage \in 0..7 /\ run[r].now \in Nat /\ run[r].now <= clock
           /\ run[r].batch \subseteq Rows /\ clock \in Nat
           /\ run[r].stage = 0 => run[r] = Idle
           /\ run[r].batch # {} => run[r].stage # 0
           /\ hot \subseteq Rows /\ archive \subseteq Rows
           /\ born \in [Rows -> Nat] /\ job \in [Jobs -> JobRows]
           /\ failures \in 0..MaxFailures
           /\ mode = "hard_delete" => archive = {}
<1>1. run \in [Runs -> RunState] /\ job \in [Jobs -> JobRows]
  BY StageFacts DEF TInv, TypeOK, RunState, JobRows
<1>2. run[r] \in RunState
  BY <1>1
<1>3. run[r].stage = 0 => run[r] = Idle
  BY DEF TInv, TypeOK
<1>4. Idle.batch = {}
  BY DEF Idle
<1>5. clock \in Nat /\ run[r].now <= clock
  BY DayFacts DEF TInv, TypeOK
<1>6. run[r].stage \in 0..7 /\ run[r].now \in Nat /\ run[r].batch \subseteq Rows
  BY <1>2 DEF RunState
<1> QED
  BY <1>1, <1>2, <1>3, <1>4, <1>5, <1>6 DEF TInv, TypeOK

LEMMA IdleFacts == Idle \in RunState /\ Idle.now = 0 /\ Idle.batch = {} /\ Idle.stage = 0
<1> DEFINE z == 0
<1>1. Idle = [stage |-> z, now |-> z, batch |-> {}]
  BY DEF Idle
<1> z \in Nat /\ z \in 0..7 /\ z = 0
  OBVIOUS
<1> HIDE DEF z
<1> QED
  BY <1>1 DEF RunState

\* The cleanup goes to its next stage.
LEMMA AdvanceFacts ==
    ASSUME TInv, NEW r \in Runs, Advance(r), run[r].stage \in 1..6
    PROVE  \E new \in RunState :
              /\ run' = [run EXCEPT ![r] = new] /\ new.stage = run[r].stage + 1
              /\ new.now = run[r].now /\ new.batch = run[r].batch
<1>1. run[r] \in RunState /\ run \in [Runs -> RunState]
  BY RunFacts
<1> DEFINE next == run[r].stage + 1
           new  == [run[r] EXCEPT !.stage = next]
<1>2. next \in 0..7
  OBVIOUS
<1>3. run' = [run EXCEPT ![r] = new]
  BY <1>1 DEF Advance
<1>4. new \in RunState /\ new.stage = next /\ new.now = run[r].now
      /\ new.batch = run[r].batch
  <2> HIDE DEF next
  <2> QED
    BY <1>1, <1>2 DEF RunState
<1> HIDE DEF new
<1> QED
  BY <1>3, <1>4

LEMMA BatchFacts ==
    ASSUME TInv, NEW r \in Runs, NEW b \in SUBSET Rows,
           run' = [run EXCEPT ![r].batch = b]
    PROVE  \E new \in RunState :
              /\ run' = [run EXCEPT ![r] = new] /\ new.stage = run[r].stage
              /\ new.now = run[r].now /\ new.batch = b
<1>1. run[r] \in RunState /\ run \in [Runs -> RunState]
  BY RunFacts
<1> DEFINE new == [run[r] EXCEPT !.batch = b]
<1>2. run' = [run EXCEPT ![r] = new]
  BY <1>1
<1>3. new \in RunState /\ new.stage = run[r].stage /\ new.now = run[r].now
      /\ new.batch = b
  BY <1>1 DEF RunState
<1> HIDE DEF new
<1> QED
  BY <1>2, <1>3

\* Start begins a run of the present, without a batch.
LEMMA StartFacts ==
    ASSUME TInv, NEW r \in Runs, Start(r)
    PROVE  \E new \in RunState :
              /\ run' = [run EXCEPT ![r] = new] /\ new.stage = 1
              /\ new.now = clock /\ new.batch = {}
<1> DEFINE o == 1
           new == [stage |-> o, now |-> clock, batch |-> {}]
<1>1. run' = [run EXCEPT ![r] = new]
  BY DEF Start
<1>2. clock \in Nat
  BY RunFacts
<1>3. new \in RunState /\ new.stage = o /\ new.now = clock /\ new.batch = {}
  <2> o \in 0..7
    OBVIOUS
  <2> HIDE DEF o
  <2> QED
    BY <1>2 DEF RunState
<1> HIDE DEF new
<1> QED
  BY <1>1, <1>3

LEMMA TypesInductive == TInv /\ [Next]_vars => TInv'
<1> SUFFICES ASSUME TInv, [Next]_vars PROVE TInv'
  OBVIOUS
<1>1. ASSUME NEW r \in Runs, Start(r) PROVE TInv'
  <2>1. PICK new \in RunState : /\ run' = [run EXCEPT ![r] = new] /\ new.stage = 1
                                /\ new.now = clock /\ new.batch = {}
    BY <1>1, StartFacts
  <2>2. clock \in Nat
    BY RunFacts
  <2>3. /\ UNCHANGED <<clock, mode, job, born>> /\ hot' \subseteq Rows
        /\ archive' \subseteq Rows /\ failures' \in 0..MaxFailures
        /\ mode = "hard_delete" => archive' = {}
    BY <1>1, RunFacts DEF Start
  <2>4. new.stage # 0 /\ new.now <= clock /\ new.batch = {}
    BY <2>1, <2>2
  <2> QED
    BY <2>1, <2>3, <2>4, RunKeepsTypes
<1>2. ASSUME NEW r \in Runs, Throws(r) \/ Purge(r) PROVE TInv'
  <2>1. /\ UNCHANGED <<clock, mode, job, born>> /\ hot' \subseteq Rows
        /\ archive' \subseteq Rows /\ failures' \in 0..MaxFailures
        /\ mode = "hard_delete" => archive' = {}
    <3>1. UNCHANGED <<clock, mode, job, born, hot>> /\ archive' \subseteq archive
      BY <1>2 DEF Throws, Purge
    <3>2. failures \in 0..MaxFailures /\ MaxFailures \in Nat
      BY RunFacts, DayFacts
    <3>3. failures' \in 0..MaxFailures
      BY <1>2, <3>2 DEF Throws, Purge
    <3> QED
      BY <3>1, <3>3, RunFacts
  <2>2. run' = [run EXCEPT ![r] = Idle] /\ clock \in Nat
    BY <1>2, RunFacts DEF Throws, Purge
  <2>3. Idle.now <= clock
    BY <2>2, IdleFacts
  <2> QED
    BY <2>1, <2>2, <2>3, IdleFacts, RunKeepsTypes
<1>3. ASSUME NEW r \in Runs, Advance(r), run[r].stage \in 1..6,
             UNCHANGED <<clock, mode, born, failures, archive>>, hot' \subseteq hot,
             job' \in [Jobs -> JobRows]
      PROVE TInv'
  <2>1. PICK new \in RunState :
              /\ run' = [run EXCEPT ![r] = new] /\ new.stage = run[r].stage + 1
              /\ new.now = run[r].now /\ new.batch = run[r].batch
    BY <1>3, AdvanceFacts
  <2>2. new.stage # 0 /\ new.now <= clock
    BY <1>3, <2>1, RunFacts
  <2>3. run' \in [Runs -> RunState]
    BY <2>1, RunFacts
  <2>4. \A q \in Runs : /\ run'[q].stage = 0 => run'[q] = Idle
                        /\ run'[q].now <= clock
                        /\ run'[q].batch # {} => mode = "archive_and_prune"
    BY <2>1, <2>2, RunFacts DEF TInv, TypeOK
  <2> QED
    BY <1>3, <2>3, <2>4, StageFacts DEF TInv, TypeOK, RunState, JobRows
<1>4. ASSUME NEW r \in Runs, DeleteRows(r) PROVE TInv'
  <2>1. run[r].stage \in 1..4
    BY <1>4, RunFacts, AtFacts DEF DeleteRows
  <2> QED
    <3>1. job' \in [Jobs -> JobRows] /\ UNCHANGED <<clock, mode, born, failures, archive>>
          /\ hot' \subseteq hot /\ Advance(r)
      BY <1>4, RunFacts DEF DeleteRows
    <3> QED
      BY <1>3, <2>1, <3>1
<1>5. ASSUME NEW r \in Runs, FindBatch(r) PROVE TInv'
  <2>1. run[r].stage \in 1..4
    BY <1>5, RunFacts, AtFacts DEF FindBatch
  <2>2. CASE Advance(r)
    <3>1. job' \in [Jobs -> JobRows] /\ UNCHANGED <<clock, mode, born, failures, archive>>
          /\ hot' \subseteq hot
      BY <1>5, RunFacts DEF FindBatch
    <3> QED
      BY <1>3, <2>1, <2>2, <3>1
  <2>3. CASE \E b \in SUBSET Expired(Stage(r), run[r].now) :
                 run' = [run EXCEPT ![r].batch = b]
    <3>1. PICK b \in SUBSET Expired(Stage(r), run[r].now) :
                 run' = [run EXCEPT ![r].batch = b]
      BY <2>3
    <3>2. b \in SUBSET Rows
      BY <2>1, ExpiredFacts
    <3>3. PICK new \in RunState :
              /\ run' = [run EXCEPT ![r] = new] /\ new.stage = run[r].stage
              /\ new.now = run[r].now /\ new.batch = b
      BY <3>1, <3>2, BatchFacts
    <3>4. /\ UNCHANGED <<clock, mode, job, born>> /\ hot' \subseteq Rows
          /\ archive' \subseteq Rows /\ failures' \in 0..MaxFailures
          /\ mode = "hard_delete" => archive' = {}
          /\ mode = "archive_and_prune"
      BY <1>5, RunFacts DEF FindBatch
    <3>5. new.stage # 0 /\ new.now <= clock
      BY <2>1, <3>3, RunFacts
    <3> QED
      BY <3>3, <3>4, <3>5, RunKeepsTypes
  <2> QED
    BY <1>5, <2>2, <2>3 DEF FindBatch
<1>6. ASSUME NEW r \in Runs, ArchiveBatch(r) PROVE TInv'
  <2>1. PICK new \in RunState :
              /\ run' = [run EXCEPT ![r] = new] /\ new.stage = run[r].stage
              /\ new.now = run[r].now /\ new.batch = {}
    BY <1>6, BatchFacts DEF ArchiveBatch
  <2>2. mode = "archive_and_prune" /\ run[r].stage # 0
    BY <1>6, RunFacts DEF ArchiveBatch, TInv
  <2> QED
    BY <1>6, <2>1, <2>2, RunFacts, RunKeepsTypes DEF ArchiveBatch
<1>7. ASSUME NEW r \in Runs, DeleteJobs(r) PROVE TInv'
  <2>1. run[r].stage \in 5..6
    BY <1>7, RunFacts, AtFacts DEF DeleteJobs
  <2>2. job' \in [Jobs -> JobRows]
    <3>1. \A j \in Jobs : job[j] \in JobRows
                          /\ [job[j] EXCEPT !.deleted = TRUE] \in JobRows
      BY RunFacts DEF JobRows
    <3> QED
      BY <1>7, <3>1 DEF DeleteJobs
  <2> QED
    BY <1>3, <1>7, <2>1, <2>2 DEF DeleteJobs
<1>8. ASSUME NEW x \in Rows, Create(x) PROVE TInv'
  BY <1>8, DayFacts DEF Create, TInv, TypeOK
<1>9. ASSUME NEW j \in Jobs, JobEnds(j) PROVE TInv'
  <2>1. job' \in [Jobs -> JobRows]
    <3>1. PICK s \in {"COMPLETED", "FAILED"} :
             job' = [job EXCEPT ![j].status = s, ![j].ended = clock]
      BY <1>9 DEF JobEnds
    <3>2. job \in [Jobs -> JobRows] /\ clock \in Nat
      BY DayFacts DEF TInv, TypeOK, JobRows
    <3> DEFINE new == [job[j] EXCEPT !.status = s, !.ended = clock]
    <3>3. new \in JobRows
      BY <3>2 DEF JobRows
    <3>4. job' = [job EXCEPT ![j] = new]
      BY <3>1, <3>2
    <3> HIDE DEF new
    <3> QED
      BY <3>2, <3>3, <3>4
  <2> QED
    BY <1>9, <2>1 DEF JobEnds, TInv, TypeOK, JobRows
<1>10. CASE Tick
  <2>1. clock' \in 1..(Horizon + 1) /\ \A r \in Runs : run[r].now <= clock'
    <3>1. \A r \in Runs : run[r].now \in Nat /\ run[r].now <= clock
      BY RunFacts
    <3>2. clock' = clock + 1 /\ clock < Horizon /\ clock \in 1..(Horizon + 1)
          /\ Horizon \in Nat
      BY <1>10, DayFacts DEF Tick, TInv, TypeOK
    <3> QED
      BY <3>1, <3>2
  <2> QED
    BY <1>10, <2>1 DEF Tick, TInv, TypeOK
<1>11. CASE UNCHANGED vars
  BY <1>11 DEF vars, TInv, TypeOK
<1> QED
  BY <1>1, <1>2, <1>4, <1>5, <1>6, <1>7, <1>8, <1>9, <1>10, <1>11, DayFacts
     DEF Next, Step, RecordEvent, RecordLog

\* Types: in particular, a cleanup that is not under way keeps nothing, none
\* is of the future, and nothing is archived when rows are deleted at once.
THEOREM TypeCorrect == Spec => []TypeOK
<1>1. TInv => TypeOK
  BY DEF TInv
<1> QED
  BY InitTypes, TypesInductive, <1>1, PTL DEF Spec

-----------------------------------------------------------------------------
(* Rows *)

SameJobs == \A j \in Jobs : /\ job'[j].status = job[j].status
                            /\ job'[j].ended = job[j].ended

LEMMA SameFacts ==
    ASSUME SameJobs, born' = born, NEW x \in Rows
    PROVE  /\ Late(x)' <=> Late(x)
           /\ HotDays(x)' = HotDays(x)
           /\ JobEnded(x)' <=> JobEnded(x)
  BY DayFacts DEF SameJobs, Late, HotDays, JobEnded

\* A step of a cleanup that leaves the jobs' ends and the births alone.
LEMMA CleanupKeeps ==
    ASSUME RInv, TInv', SameJobs, UNCHANGED <<clock, mode, born>>, hot' \subseteq hot,
           NEW r \in Runs, NEW new \in RunState, run' = [run EXCEPT ![r] = new],
           BatchOK(new), GoneOK(new),
           \A x \in archive' \ archive : x \in run[r].batch /\ x \notin hot',
           \A x \in hot \ hot' :
              \/ Late(x)
              \/ Before(born[x], HotDays(x), clock) /\ JobEnded(x),
           mode = "archive_and_prune" =>
              /\ \A x \in hot \ hot' : Late(x) \/ x \in archive'
              /\ \A x \in archive \ archive' : Before(born[x], ArchiveDays(x), clock)
    PROVE  RInv'
<1>1. run \in [Runs -> RunState] /\ hot \subseteq Rows /\ archive \subseteq Rows
      /\ run[r].batch \subseteq Rows
  BY RunFacts DEF RInv
<1>2. hot' \subseteq Rows /\ archive' \subseteq Rows
  BY <1>1
<1>3. Known'
  <2>1. \A x \in run[r].batch : born[x] # 0
    BY DEF RInv, RunsSound, BatchOK
  <2> QED
    BY <2>1 DEF RInv, Known
<1>4. \A l \in RunState : BatchOK(l) => BatchOK(l)'
  BY SameFacts DEF BatchOK, RunState
<1>5. \A l \in RunState : GoneOK(l) => GoneOK(l)'
  <2> SUFFICES ASSUME NEW l \in RunState, GoneOK(l), mode = "archive_and_prune",
                      NEW e \in Events \cap hot
               PROVE  /\ /\ l.stage > 1 /\ job'[JobOf[e]].status = "COMPLETED"
                         /\ Before(job'[JobOf[e]].ended, TerminalDays, l.now)
                         => Late(e)'
                      /\ /\ l.stage > 2 /\ job'[JobOf[e]].status = "FAILED"
                         /\ Before(job'[JobOf[e]].ended, FailedDays, l.now)
                         => Late(e)'
    BY DEF GoneOK, Before
  <2>1. Late(e)' <=> Late(e)
    BY SameFacts, DayFacts
  <2>2. /\ job'[JobOf[e]].status = job[JobOf[e]].status
        /\ job'[JobOf[e]].ended = job[JobOf[e]].ended
    BY DayFacts DEF SameJobs
  <2> QED
    BY <2>1, <2>2 DEF GoneOK
<1>6. RunsSound'
  <2>1. \A q \in Runs : run'[q] \in RunState /\ BatchOK(run'[q]) /\ GoneOK(run'[q])
    BY <1>1 DEF RInv, RunsSound
  <2>2. \A q \in Runs : BatchOK(run[q])' /\ GoneOK(run[q])'
    <3> SUFFICES ASSUME NEW q \in Runs PROVE BatchOK(run[q])' /\ GoneOK(run[q])'
      OBVIOUS
    <3>1. PICK l \in RunState : l = run'[q] /\ BatchOK(l) /\ GoneOK(l)
      BY <2>1
    <3>2. BatchOK(l)' /\ GoneOK(l)'
      BY <3>1, <1>4, <1>5
    <3> QED
      BY <3>1, <3>2 DEF BatchOK, GoneOK
  <2> QED
    BY <2>2 DEF RunsSound
<1>7. HotLongEnough'
  <2> SUFFICES ASSUME NEW x \in Rows, born[x] # 0, x \notin hot'
               PROVE  Late(x) \/ (Before(born[x], HotDays(x), clock) /\ JobEnded(x))
    BY SameFacts DEF HotLongEnough, JobEnded, Before
  <2> QED
    BY DEF RInv, HotLongEnough, JobEnded
<1>8. HistoryKept'
  <2> SUFFICES ASSUME mode = "archive_and_prune", NEW x \in Rows, born[x] # 0,
                      x \notin hot', x \notin archive'
               PROVE  Late(x) \/ Before(born[x], ArchiveDays(x), clock)
    BY SameFacts DEF HistoryKept, Before
  <2> QED
    BY DEF RInv, HistoryKept
<1>9. NeverBoth'
  BY DEF RInv, NeverBoth
<1> QED
  BY <1>3, <1>6, <1>7, <1>8, <1>9 DEF RInv

\* What has expired at the instant of a cleanup has expired now.
LEMMA ExpiredNow ==
    ASSUME TInv, NEW r \in Runs, NEW x \in Rows, NEW days \in Nat,
           Before(born[x], days, run[r].now)
    PROVE  Before(born[x], days, clock)
  BY RunFacts, BeforeLater

\* Past the stage of its events, an expired event that is still hot is late.
LEMMA StageLeavesLate ==
    ASSUME RInv, NEW r \in Runs, run[r].stage \in 1..4,
           mode = "archive_and_prune" => Expired(Stage(r), run[r].now) = {},
           NEW new \in RunState, new.stage = run[r].stage + 1, new.now = run[r].now
    PROVE  GoneOK(new)
<1> SUFFICES ASSUME mode = "archive_and_prune", NEW e \in Events \cap hot
             PROVE
        /\ /\ new.stage > 1 /\ job[JobOf[e]].status = "COMPLETED"
           /\ Before(job[JobOf[e]].ended, TerminalDays, new.now)
           => Late(e)
        /\ /\ new.stage > 2 /\ job[JobOf[e]].status = "FAILED"
           /\ Before(job[JobOf[e]].ended, FailedDays, new.now)
           => Late(e)
  BY DEF GoneOK
<1>1. run[r].now \in Nat /\ born[e] \in Nat /\ job[JobOf[e]].ended \in Nat
  <2>1. job[JobOf[e]] \in JobRows /\ born[e] \in Nat /\ run[r].now \in Nat
    BY RunFacts, DayFacts DEF RInv
  <2> QED
    BY <2>1 DEF JobRows
<1>2. ASSUME job[JobOf[e]].status = "COMPLETED",
             Before(job[JobOf[e]].ended, TerminalDays, run[r].now)
      PROVE  Late(e)
  <2>1. CASE run[r].stage = 1
    <3>1. Expired("ended_events", run[r].now) = EndedEvents("COMPLETED", EventDays, run[r].now)
      BY DEF Expired
    <3>2. ~Before(born[e], EventDays, run[r].now)
      BY <2>1, <3>1, <1>2, AtFacts DEF EndedEvents
    <3>3. born[e] > job[JobOf[e]].ended
      BY <3>2, <1>1, <1>2, DayFacts DEF Before
    <3> QED
      BY <3>3, <1>2 DEF Late
  <2>2. CASE run[r].stage > 1
    BY <2>2, <1>2 DEF RInv, RunsSound, GoneOK
  <2> QED
    BY <2>1, <2>2
<1>3. ASSUME job[JobOf[e]].status = "FAILED", run[r].stage > 1,
             Before(job[JobOf[e]].ended, FailedDays, run[r].now)
      PROVE  Late(e)
  <2>1. CASE run[r].stage = 2
    <3>1. Expired("failed_events", run[r].now) = EndedEvents("FAILED", FailedDays, run[r].now)
      BY DEF Expired
    <3>2. ~Before(born[e], FailedDays, run[r].now)
      BY <2>1, <3>1, <1>3, AtFacts DEF EndedEvents
    <3>3. born[e] > job[JobOf[e]].ended
      BY <3>2, <1>1, <1>3, DayFacts DEF Before
    <3> QED
      BY <3>3, <1>3 DEF Late
  <2>2. CASE run[r].stage > 2
    BY <2>2, <1>3 DEF RInv, RunsSound, GoneOK
  <2> QED
    BY <2>1, <2>2, <1>3
<1> QED
  BY <1>2, <1>3

LEMMA StartKeeps == ASSUME RInv, TInv', NEW r \in Runs, Start(r) PROVE RInv'
<1>1. PICK new \in RunState : /\ run' = [run EXCEPT ![r] = new] /\ new.stage = 1
                              /\ new.now = clock /\ new.batch = {}
  BY StartFacts DEF RInv
<1>2. BatchOK(new) /\ GoneOK(new)
  BY <1>1 DEF BatchOK, GoneOK
<1>3. SameJobs /\ UNCHANGED <<clock, mode, born, hot, archive>>
  BY DEF Start, SameJobs
<1> QED
  BY <1>1, <1>2, <1>3, CleanupKeeps

LEMMA ThrowsKeeps == ASSUME RInv, TInv', NEW r \in Runs, Throws(r) PROVE RInv'
<1>1. BatchOK(Idle) /\ GoneOK(Idle)
  BY IdleFacts DEF BatchOK, GoneOK
<1>2. SameJobs /\ UNCHANGED <<clock, mode, born, hot, archive>>
      /\ run' = [run EXCEPT ![r] = Idle]
  BY DEF Throws, SameJobs
<1> QED
  BY <1>1, <1>2, IdleFacts, CleanupKeeps

LEMMA DeleteRowsKeeps == ASSUME RInv, TInv', NEW r \in Runs, DeleteRows(r) PROVE RInv'
<1>1. run[r].stage \in 1..4 /\ TInv /\ mode = "hard_delete"
  BY RunFacts, AtFacts DEF DeleteRows, RInv
<1>2. PICK new \in RunState :
          /\ run' = [run EXCEPT ![r] = new] /\ new.stage = run[r].stage + 1
          /\ new.now = run[r].now /\ new.batch = run[r].batch
  BY <1>1, AdvanceFacts DEF DeleteRows
<1>3. BatchOK(new)
  BY <1>2 DEF RInv, RunsSound, BatchOK
<1>4. GoneOK(new)
  BY <1>1 DEF GoneOK
<1>5. SameJobs /\ UNCHANGED <<clock, mode, born, archive>>
      /\ hot' = hot \ Expired(Stage(r), run[r].now)
  BY DEF DeleteRows, SameJobs
<1>6. \A x \in hot \ hot' : Before(born[x], HotDays(x), clock) /\ JobEnded(x)
  <2> SUFFICES ASSUME NEW x \in Expired(Stage(r), run[r].now)
               PROVE  Before(born[x], HotDays(x), clock) /\ JobEnded(x)
    BY <1>5
  <2>1. x \in Rows /\ Before(born[x], HotDays(x), run[r].now) /\ JobEnded(x)
    BY <1>1, ExpiredFacts
  <2> QED
    BY <1>1, <2>1, DayFacts, ExpiredNow
<1>7. hot' \subseteq hot /\ archive' \ archive = {} /\ mode # "archive_and_prune"
  BY <1>1, <1>5
<1> QED
  BY <1>2, <1>3, <1>4, <1>5, <1>6, <1>7, CleanupKeeps

LEMMA FindBatchKeeps == ASSUME RInv, TInv', NEW r \in Runs, FindBatch(r) PROVE RInv'
<1>1. run[r].stage \in 1..4 /\ TInv /\ run[r].batch = {}
  BY RunFacts, AtFacts DEF FindBatch, RInv
<1>2. SameJobs /\ UNCHANGED <<clock, mode, born, hot, archive>>
  BY DEF FindBatch, SameJobs
<1>3. CASE Expired(Stage(r), run[r].now) = {} /\ Advance(r)
  <2>1. PICK new \in RunState :
            /\ run' = [run EXCEPT ![r] = new] /\ new.stage = run[r].stage + 1
            /\ new.now = run[r].now /\ new.batch = run[r].batch
    BY <1>1, <1>3, AdvanceFacts
  <2>2. BatchOK(new)
    BY <1>1, <2>1 DEF BatchOK
  <2>3. GoneOK(new)
    BY <1>1, <1>3, <2>1, StageLeavesLate
  <2> QED
    BY <1>2, <2>1, <2>2, <2>3, CleanupKeeps
<1>4. CASE \E b \in SUBSET Expired(Stage(r), run[r].now) :
               run' = [run EXCEPT ![r].batch = b]
  <2>1. PICK b \in SUBSET Expired(Stage(r), run[r].now) :
               run' = [run EXCEPT ![r].batch = b]
    BY <1>4
  <2>2. \A x \in b : /\ x \in hot /\ x \in Rows /\ JobEnded(x)
                     /\ Before(born[x], HotDays(x), run[r].now)
    BY <1>1, ExpiredFacts
  <2>3. b \in SUBSET Rows
    BY <2>2
  <2>4. PICK new \in RunState :
            /\ run' = [run EXCEPT ![r] = new] /\ new.stage = run[r].stage
            /\ new.now = run[r].now /\ new.batch = b
    BY <1>1, <2>1, <2>3, BatchFacts
  <2>5. BatchOK(new)
    BY <2>2, <2>4 DEF BatchOK, RInv, Known
  <2>6. GoneOK(new)
    BY <2>4 DEF RInv, RunsSound, GoneOK
  <2> QED
    BY <1>2, <2>4, <2>5, <2>6, CleanupKeeps
<1> QED
  BY <1>3, <1>4 DEF FindBatch

LEMMA ArchiveBatchKeeps == ASSUME RInv, TInv', NEW r \in Runs, ArchiveBatch(r) PROVE RInv'
<1>1. TInv /\ BatchOK(run[r]) /\ GoneOK(run[r]) /\ run[r].batch \subseteq Rows
  BY RunFacts DEF RInv, RunsSound
<1>2. PICK new \in RunState :
          /\ run' = [run EXCEPT ![r] = new] /\ new.stage = run[r].stage
          /\ new.now = run[r].now /\ new.batch = {}
  BY <1>1, BatchFacts DEF ArchiveBatch
<1>3. BatchOK(new) /\ GoneOK(new)
  BY <1>1, <1>2 DEF BatchOK, GoneOK
<1>4. SameJobs /\ UNCHANGED <<clock, mode, born>> /\ hot' = hot \ run[r].batch
      /\ archive' = archive \cup run[r].batch
  BY DEF ArchiveBatch, SameJobs
<1>5. \A x \in hot \ hot' : Before(born[x], HotDays(x), clock) /\ JobEnded(x)
  <2> SUFFICES ASSUME NEW x \in run[r].batch
               PROVE  Before(born[x], HotDays(x), clock) /\ JobEnded(x)
    BY <1>4
  <2>1. x \in Rows /\ Before(born[x], HotDays(x), run[r].now) /\ JobEnded(x)
    BY <1>1 DEF BatchOK
  <2> QED
    BY <1>1, <2>1, DayFacts, ExpiredNow
<1>6. /\ \A x \in hot \ hot' : x \in archive'
      /\ \A x \in archive' \ archive : x \in run[r].batch /\ x \notin hot'
      /\ archive \ archive' = {} /\ hot' \subseteq hot
  BY <1>4
<1> QED
  BY <1>2, <1>3, <1>4, <1>5, <1>6, CleanupKeeps

LEMMA DeleteJobsKeeps == ASSUME RInv, TInv', NEW r \in Runs, DeleteJobs(r) PROVE RInv'
<1> DEFINE old == OldJobs(Stage(r), run[r].now)
<1>1. run[r].stage \in 5..6 /\ TInv /\ RunsSound
  BY RunFacts, AtFacts DEF DeleteJobs, RInv
<1>2. PICK new \in RunState :
          /\ run' = [run EXCEPT ![r] = new] /\ new.stage = run[r].stage + 1
          /\ new.now = run[r].now /\ new.batch = run[r].batch
  BY <1>1, AdvanceFacts DEF DeleteJobs
<1>3. BatchOK(new) /\ GoneOK(new)
  BY <1>1, <1>2 DEF RunsSound, BatchOK, GoneOK
<1>4. UNCHANGED <<clock, mode, born, archive>> /\ hot' = hot \ {e \in Events : JobOf[e] \in old}
      /\ job' = [j \in Jobs |-> IF j \in old THEN [job[j] EXCEPT !.deleted = TRUE] ELSE job[j]]
  BY DEF DeleteJobs
<1>5. SameJobs
  <2>1. \A j \in Jobs : job[j] \in JobRows
    BY <1>1, RunFacts
  <2> HIDE DEF old
  <2> QED
    BY <1>4, <2>1 DEF SameJobs, JobRows
<1>6. \A j \in old :
         \/ /\ run[r].stage = 5 /\ job[j].status = "COMPLETED"
            /\ Before(job[j].ended, TerminalDays, run[r].now)
         \/ /\ run[r].stage = 6 /\ job[j].status = "FAILED"
            /\ Before(job[j].ended, FailedDays, run[r].now)
  <2>1. OldJobs("ended_jobs", run[r].now) = EndedJobs("COMPLETED", TerminalDays, run[r].now)
        /\ OldJobs("failed_jobs", run[r].now) = EndedJobs("FAILED", FailedDays, run[r].now)
    BY DEF OldJobs
  <2>2. run[r].stage \in {5, 6} /\ run[r].stage \in 0..7
    BY <1>1
  <2>3. CASE run[r].stage = 5
    BY <2>1, <2>2, <2>3, AtFacts DEF EndedJobs
  <2>4. CASE run[r].stage = 6
    BY <2>1, <2>2, <2>4, AtFacts DEF EndedJobs
  <2> QED
    BY <2>2, <2>3, <2>4
<1>7. ASSUME NEW e \in hot \ hot'
      PROVE  /\ Late(e) \/ (Before(born[e], HotDays(e), clock) /\ JobEnded(e))
             /\ mode = "archive_and_prune" => Late(e)
  <2>1. e \in Events /\ e \in hot /\ JobOf[e] \in old
    BY <1>4, <1>7
  <2> HIDE DEF old
  <2>2. mode = "archive_and_prune" => Late(e)
    BY <1>1, <1>6, <2>1 DEF RunsSound, GoneOK
  <2>3. /\ run[r].now \in Nat /\ clock \in Nat /\ run[r].now <= clock
        /\ born[e] \in Nat /\ job[JobOf[e]] \in JobRows /\ e \in Rows
    BY <1>1, <2>1, RunFacts, DayFacts
  <2>4. job[JobOf[e]].ended \in Nat
    BY <2>3 DEF JobRows
  <2>5. ASSUME ~Late(e) PROVE Before(born[e], HotDays(e), clock) /\ JobEnded(e)
    <3>1. job[JobOf[e]].status # "active" /\ born[e] <= job[JobOf[e]].ended
      BY <1>6, <2>1, <2>3, <2>4, <2>5 DEF Late
    <3>2. CASE job[JobOf[e]].status = "COMPLETED"
      <4>1. Before(job[JobOf[e]].ended, TerminalDays, run[r].now) /\ HotDays(e) = EventDays
        BY <1>6, <2>1, <3>2 DEF HotDays
      <4> QED
        BY <3>1, <4>1, <2>3, <2>4, DayFacts DEF Before, JobEnded
    <3>3. CASE job[JobOf[e]].status = "FAILED"
      <4>1. Before(job[JobOf[e]].ended, FailedDays, run[r].now) /\ HotDays(e) = FailedDays
        BY <1>6, <2>1, <3>3 DEF HotDays
      <4> QED
        BY <3>1, <4>1, <2>3, <2>4, DayFacts DEF Before, JobEnded
    <3> QED
      BY <1>6, <2>1, <3>2, <3>3
  <2> QED
    BY <2>2, <2>5
<1>8. hot' \subseteq hot /\ archive' = archive
  BY <1>4
<1> QED
  BY <1>2, <1>3, <1>4, <1>5, <1>7, <1>8, CleanupKeeps

LEMMA PurgeKeeps == ASSUME RInv, TInv', NEW r \in Runs, Purge(r) PROVE RInv'
<1>1. BatchOK(Idle) /\ GoneOK(Idle)
  BY IdleFacts DEF BatchOK, GoneOK
<1>2. SameJobs /\ UNCHANGED <<clock, mode, born, hot>>
      /\ run' = [run EXCEPT ![r] = Idle] /\ archive' = archive \ Purgeable(run[r].now)
  BY DEF Purge, SameJobs
<1>3. \A x \in archive \ archive' : Before(born[x], ArchiveDays(x), clock)
  <2> SUFFICES ASSUME NEW x \in archive, x \in Purgeable(run[r].now)
               PROVE  Before(born[x], ArchiveDays(x), clock)
    BY <1>2
  <2>1. x \in Rows /\ Before(born[x], ArchiveDays(x), run[r].now) /\ TInv
    BY RunFacts DEF Purgeable, RInv
  <2> QED
    BY <2>1, DayFacts, ExpiredNow
<1> QED
  BY <1>1, <1>2, <1>3, IdleFacts, CleanupKeeps

-----------------------------------------------------------------------------
(* The rest of the system *)

\* A new row is nowhere yet, and an event of a job that a cleanup under way may
\* delete is a late one.
LEMMA CreateKeeps == ASSUME RInv, TInv', NEW x \in Rows, Create(x) PROVE RInv'
<1>1. /\ born[x] = 0 /\ born' = [born EXCEPT ![x] = clock] /\ hot' = hot \cup {x}
      /\ UNCHANGED <<clock, mode, job, archive, run>>
      /\ TInv /\ born \in [Rows -> Nat] /\ clock \in Nat /\ clock >= 1
      /\ hot \subseteq Rows /\ archive \subseteq Rows
  BY DayFacts DEF Create, RInv, TInv, TypeOK
<1>2. x \notin archive /\ \A r \in Runs : x \notin run[r].batch
  BY <1>1 DEF RInv, Known, RunsSound, BatchOK
<1>3. \A y \in Rows \ {x} : /\ born'[y] = born[y] /\ HotDays(y)' = HotDays(y)
                            /\ JobEnded(y)' <=> JobEnded(y)
                            /\ Late(y)' <=> Late(y)
  BY <1>1 DEF HotDays, JobEnded, Late
<1>4. born'[x] = clock
  BY <1>1
<1>5. Known'
  BY <1>1, <1>3, <1>4 DEF RInv, Known
<1>6. ASSUME NEW r \in Runs PROVE BatchOK(run[r])' /\ GoneOK(run[r])'
  <2>1. BatchOK(run[r]) /\ GoneOK(run[r]) /\ run[r].batch \subseteq Rows
        /\ run[r].now \in Nat /\ run[r].now <= clock
    BY <1>1, RunFacts DEF RInv, RunsSound
  <2>2. BatchOK(run[r])'
    <3> SUFFICES ASSUME NEW y \in run[r].batch
                 PROVE  /\ born'[y] # 0 /\ JobEnded(y)'
                        /\ Before(born'[y], HotDays(y)', run[r].now)
      BY <1>1 DEF BatchOK, Before
    <3> QED
      BY <1>2, <1>3, <2>1 DEF BatchOK
  <2>3. GoneOK(run[r])'
    <3> SUFFICES ASSUME mode = "archive_and_prune", NEW e \in Events \cap hot'
                 PROVE
          /\ /\ run[r].stage > 1 /\ job[JobOf[e]].status = "COMPLETED"
             /\ Before(job[JobOf[e]].ended, TerminalDays, run[r].now)
             => Late(e)'
          /\ /\ run[r].stage > 2 /\ job[JobOf[e]].status = "FAILED"
             /\ Before(job[JobOf[e]].ended, FailedDays, run[r].now)
             => Late(e)'
      BY <1>1 DEF GoneOK, Before
    <3>1. CASE e # x
      BY <3>1, <1>1, <1>3, <2>1, DayFacts DEF GoneOK
    <3>2. CASE e = x
      <4>1. job[JobOf[e]].ended \in Nat
        <5>1. job[JobOf[e]] \in JobRows
          BY <1>1, RunFacts, DayFacts
        <5> QED
          BY <5>1 DEF JobRows
      <4>2. Late(e)' <=> job[JobOf[e]].status # "active" /\ clock > job[JobOf[e]].ended
        BY <1>1, <1>4, <3>2 DEF Late
      <4> QED
        BY <4>1, <4>2, <1>1, <2>1, DayFacts DEF Before
    <3> QED
      BY <3>1, <3>2
  <2> QED
    BY <2>2, <2>3
<1>7. HotLongEnough'
  <2> SUFFICES ASSUME NEW y \in Rows \ {x}, born[y] # 0, y \notin hot
               PROVE  Late(y) \/ (Before(born[y], HotDays(y), clock) /\ JobEnded(y))
    BY <1>1, <1>3 DEF HotLongEnough, JobEnded, Before
  <2> QED
    BY DEF RInv, HotLongEnough, JobEnded
<1>8. HistoryKept'
  <2> SUFFICES ASSUME mode = "archive_and_prune", NEW y \in Rows \ {x}, born[y] # 0,
                      y \notin hot, y \notin archive
               PROVE  Late(y) \/ Before(born[y], ArchiveDays(y), clock)
    BY <1>1, <1>3 DEF HistoryKept, Before
  <2> QED
    BY DEF RInv, HistoryKept
<1>9. NeverBoth'
  BY <1>1, <1>2 DEF RInv, NeverBoth
<1> QED
  BY <1>5, <1>6, <1>7, <1>8, <1>9 DEF RInv, RunsSound

\* A job that ends now is not one that any cleanup under way may delete.
LEMMA JobEndsKeeps == ASSUME RInv, TInv', NEW j \in Jobs, JobEnds(j) PROVE RInv'
<1>1. /\ job[j].status = "active" /\ UNCHANGED <<clock, mode, born, hot, archive, run>>
      /\ TInv /\ job \in [Jobs -> JobRows] /\ clock \in Nat
  <2>1. job[j].status = "active" /\ UNCHANGED <<clock, mode, born, hot, archive, run>>
    BY DEF JobEnds
  <2>2. TInv /\ job \in [Jobs -> JobRows] /\ clock \in 1..(Horizon + 1)
    BY DEF RInv, TInv, TypeOK, JobRows
  <2> QED
    BY <2>1, <2>2, DayFacts
<1>2. /\ job'[j].ended = clock /\ job'[j].status \in {"COMPLETED", "FAILED"}
      /\ \A k \in Jobs \ {j} : job'[k] = job[k]
  BY <1>1 DEF JobEnds, JobRows
<1>3. \A y \in Rows : \/ y \in Events /\ JobOf[y] = j
                      \/ /\ HotDays(y)' = HotDays(y)
                         /\ JobEnded(y)' <=> JobEnded(y)
                         /\ Late(y)' <=> Late(y)
  BY <1>1, <1>2, DayFacts DEF HotDays, JobEnded, Late
<1>4. \A y \in Events : JobOf[y] = j => ~JobEnded(y) /\ ~Late(y)
  BY <1>1 DEF JobEnded, Late
<1>5. ASSUME NEW r \in Runs PROVE BatchOK(run[r])' /\ GoneOK(run[r])'
  <2>1. BatchOK(run[r]) /\ GoneOK(run[r]) /\ run[r].batch \subseteq Rows
        /\ run[r].now \in Nat /\ run[r].now <= clock
    BY <1>1, RunFacts DEF RInv, RunsSound
  <2>2. BatchOK(run[r])'
    <3> SUFFICES ASSUME NEW y \in run[r].batch
                 PROVE  /\ born[y] # 0 /\ JobEnded(y)'
                        /\ Before(born[y], HotDays(y)', run[r].now)
      BY <1>1 DEF BatchOK, Before
    <3> QED
      BY <1>3, <1>4, <2>1 DEF BatchOK
  <2>3. GoneOK(run[r])'
    <3> SUFFICES ASSUME mode = "archive_and_prune", NEW e \in Events \cap hot
                 PROVE
          /\ /\ run[r].stage > 1 /\ job'[JobOf[e]].status = "COMPLETED"
             /\ Before(job'[JobOf[e]].ended, TerminalDays, run[r].now)
             => Late(e)'
          /\ /\ run[r].stage > 2 /\ job'[JobOf[e]].status = "FAILED"
             /\ Before(job'[JobOf[e]].ended, FailedDays, run[r].now)
             => Late(e)'
      BY <1>1 DEF GoneOK, Before
    <3>1. CASE JobOf[e] # j
      BY <3>1, <1>2, <1>3, <2>1, DayFacts DEF GoneOK
    <3>2. CASE JobOf[e] = j
      BY <3>2, <1>1, <1>2, <2>1, DayFacts DEF Before
    <3> QED
      BY <3>1, <3>2
  <2> QED
    BY <2>2, <2>3
<1>6. HotLongEnough'
  <2> SUFFICES ASSUME NEW y \in Rows, born[y] # 0, y \notin hot
               PROVE  \/ Late(y)'
                      \/ Before(born[y], HotDays(y)', clock) /\ JobEnded(y)'
    BY <1>1 DEF HotLongEnough, JobEnded, Before
  <2>1. Late(y) \/ (Before(born[y], HotDays(y), clock) /\ JobEnded(y))
    BY DEF RInv, HotLongEnough, JobEnded
  <2> QED
    BY <2>1, <1>3, <1>4
<1>7. HistoryKept'
  <2> SUFFICES ASSUME mode = "archive_and_prune", NEW y \in Rows, born[y] # 0,
                      y \notin hot, y \notin archive
               PROVE  Late(y)' \/ Before(born[y], ArchiveDays(y), clock)
    BY <1>1 DEF HistoryKept, Before, ArchiveDays
  <2>1. Late(y) \/ Before(born[y], ArchiveDays(y), clock)
    BY DEF RInv, HistoryKept
  <2> QED
    BY <2>1, <1>3, <1>4
<1> QED
  BY <1>1, <1>5, <1>6, <1>7 DEF RInv, RunsSound, Known, NeverBoth

LEMMA TickKeeps == ASSUME RInv, TInv', Tick PROVE RInv'
<1>1. /\ clock' = clock + 1 /\ UNCHANGED <<mode, job, born, hot, archive, run>>
      /\ TInv /\ clock \in Nat /\ clock' \in Nat /\ clock <= clock'
      /\ born \in [Rows -> Nat]
  BY DayFacts DEF Tick, RInv, TInv, TypeOK
<1>2. \A x \in Rows : \A days \in Nat :
          Before(born[x], days, clock) => Before(born[x], days, clock')
  BY <1>1, BeforeLater
<1>3. \A x \in Rows : HotDays(x) \in Nat /\ ArchiveDays(x) \in Nat
  BY DayFacts
<1>4. HotLongEnough'
  <2> SUFFICES ASSUME NEW x \in Rows, born[x] # 0, x \notin hot
               PROVE  Late(x) \/ (Before(born[x], HotDays(x), clock') /\ JobEnded(x))
    BY <1>1 DEF HotLongEnough, JobEnded, Late, HotDays, Before
  <2>1. Late(x) \/ (Before(born[x], HotDays(x), clock) /\ JobEnded(x))
    BY DEF RInv, HotLongEnough, JobEnded
  <2> QED
    BY <2>1, <1>2, <1>3
<1>5. HistoryKept'
  <2> SUFFICES ASSUME mode = "archive_and_prune", NEW x \in Rows, born[x] # 0,
                      x \notin hot, x \notin archive
               PROVE  Late(x) \/ Before(born[x], ArchiveDays(x), clock')
    BY <1>1 DEF HistoryKept, Before, Late
  <2>1. Late(x) \/ Before(born[x], ArchiveDays(x), clock)
    BY DEF RInv, HistoryKept
  <2> QED
    BY <2>1, <1>2, <1>3
<1>6. RunsSound'
  BY <1>1 DEF RInv, RunsSound, BatchOK, GoneOK, Before, HotDays, JobEnded, Late
<1> QED
  BY <1>1, <1>4, <1>5, <1>6 DEF RInv, Known, NeverBoth

-----------------------------------------------------------------------------
LEMMA InitRInv == Init => RInv
<1> SUFFICES ASSUME Init PROVE RInv
  OBVIOUS
<1>1. TInv /\ hot = {} /\ archive = {} /\ \A x \in Rows : born[x] = 0
  BY InitTypes DEF Init
<1>2. \A r \in Runs : run[r] = Idle
  BY DEF Init
<1>3. BatchOK(Idle) /\ GoneOK(Idle)
  BY IdleFacts DEF BatchOK, GoneOK
<1>4. RunsSound
  BY <1>2, <1>3 DEF RunsSound
<1> QED
  BY <1>1, <1>4 DEF RInv, Known, HotLongEnough, HistoryKept, NeverBoth

LEMMA RInvInductive == RInv /\ [Next]_vars => RInv'
<1> SUFFICES ASSUME RInv, [Next]_vars PROVE RInv'
  OBVIOUS
<1>1. TInv'
  BY TypesInductive DEF RInv
<1>2. ASSUME NEW r \in Runs, Start(r) \/ Step(r) \/ Throws(r) PROVE RInv'
  BY <1>1, <1>2, StartKeeps, ThrowsKeeps, DeleteRowsKeeps, FindBatchKeeps,
     ArchiveBatchKeeps, DeleteJobsKeeps, PurgeKeeps DEF Step
<1>3. ASSUME NEW x \in Rows, Create(x) PROVE RInv'
  BY <1>1, <1>3, CreateKeeps
<1>4. ASSUME NEW j \in Jobs, JobEnds(j) PROVE RInv'
  BY <1>1, <1>4, JobEndsKeeps
<1>5. CASE Tick
  BY <1>1, <1>5, TickKeeps
<1>6. CASE UNCHANGED vars
  BY <1>6 DEF vars, RInv, TInv, TypeOK, Known, RunsSound, BatchOK, GoneOK, Before,
     HotDays, JobEnded, Late, HotLongEnough, HistoryKept, NeverBoth
<1> QED
  BY <1>2, <1>3, <1>4, <1>5, <1>6, DayFacts DEF Next, RecordEvent, RecordLog

\* However cleanups overlap, fail and die, no row leaves its table before the
\* window of its kind is over, but late events, which go with their jobs.
THEOREM RowsStayLongEnough == Spec => []HotLongEnough
<1>1. RInv => HotLongEnough
  BY DEF RInv
<1> QED
  BY InitRInv, RInvInductive, <1>1, PTL DEF Spec

\* In archive mode, a row that is in neither table was purged from the archive
\* after its window there, or is a late event: the cascade of a job's deletion
\* takes no other event with it.
THEOREM NoHistoryLost == Spec => []HistoryKept
<1>1. RInv => HistoryKept
  BY DEF RInv
<1> QED
  BY InitRInv, RInvInductive, <1>1, PTL DEF Spec

\* No row is at once in its table and in the archive, though a cleanup copies
\* rows that another may have archived and deleted since it read them.
THEOREM NothingTwice == Spec => []NeverBoth
<1>1. RInv => NeverBoth
  BY DEF RInv
<1> QED
  BY InitRInv, RInvInductive, <1>1, PTL DEF Spec

-----------------------------------------------------------------------------
(* The life cycle *)

\* The records whose table need not keep them any longer, and those nothing need
\* keep, as RecordLifecycle has them.
Old   == {x \in Rows : /\ born[x] # 0
                       /\ \/ Late(x)
                          \/ Before(born[x], HotDays(x), clock) /\ JobEnded(x)}
Older == {x \in Rows : born[x] # 0 /\ (Late(x) \/ Before(born[x], ArchiveDays(x), clock))}
Written == {x \in Rows : born[x] # 0}

\* What readers see of a step: a step of the life cycle, or nothing.
Lives == [Lifecycle!Next]_(Lifecycle!recordVars)

\* The life cycle's actions, in terms of what their variables are mapped to.
LEMMA WaitLives ==
    ASSUME UNCHANGED <<mode, hot, archive>>, Written' = Written,
           Old \subseteq Old', Older \subseteq Older'
    PROVE  Lives
<1>1. Lifecycle!Wait
  BY DEF Lifecycle!Wait, Lifecycle!Age, Written, Old, Older, JobEnded
<1> QED
  BY <1>1 DEF Lives, Lifecycle!Next

LEMMA WriteLives ==
    ASSUME NEW x \in Rows, x \notin Written, Written' = Written \cup {x},
           hot' = hot \cup {x}, UNCHANGED <<mode, archive>>,
           Old \subseteq Old', Older \subseteq Older'
    PROVE  Lives
<1>1. Lifecycle!Write(x)
  BY DEF Lifecycle!Write, Lifecycle!Age, Written, Old, Older, JobEnded
<1> QED
  BY <1>1 DEF Lives, Lifecycle!Next

LEMMA ArchiveLives ==
    ASSUME NEW X \in SUBSET Rows, mode = "archive_and_prune", X \subseteq Old,
           hot' = hot \ X, archive' = archive \cup X,
           mode' = mode, Written' = Written, Old' = Old, Older' = Older
    PROVE  Lives
<1>1. Lifecycle!Archive(X)
  BY DEF Lifecycle!Archive, Written, Old, Older, JobEnded
<1> QED
  BY <1>1 DEF Lives, Lifecycle!Next

LEMMA DeleteLives ==
    ASSUME NEW X \in SUBSET Rows, X \subseteq Old,
           mode = "archive_and_prune" => X \subseteq Older,
           hot' = hot \ X, UNCHANGED <<mode, archive>>,
           Written' = Written, Old' = Old, Older' = Older
    PROVE  Lives
<1>1. Lifecycle!Delete(X)
  BY DEF Lifecycle!Delete, Written, Old, Older, JobEnded
<1> QED
  BY <1>1 DEF Lives, Lifecycle!Next

LEMMA PurgeLives ==
    ASSUME NEW X \in SUBSET Rows, X \subseteq Older, archive' = archive \ X,
           UNCHANGED <<mode, hot>>, Written' = Written, Old' = Old, Older' = Older
    PROVE  Lives
<1>1. Lifecycle!Purge(X)
  BY DEF Lifecycle!Purge, Written, Old, Older, JobEnded
<1> QED
  BY <1>1 DEF Lives, Lifecycle!Next

\* No record grows younger while neither time nor its job moves.
LEMMA AgesStay ==
    ASSUME SameJobs, UNCHANGED <<clock, born>>
    PROVE  Old' = Old /\ Older' = Older /\ Written' = Written
<1>1. \A x \in Rows : /\ Late(x)' <=> Late(x)
                      /\ HotDays(x)' = HotDays(x)
                      /\ JobEnded(x)' <=> JobEnded(x)
                      /\ ArchiveDays(x)' = ArchiveDays(x)
  BY SameFacts DEF ArchiveDays
<1> QED
  BY <1>1 DEF Old, Older, Written, Before

\* What a cleanup takes away was old, since what the invariant says of rows that
\* are gone is so after the step.
LEMMA GoneAreOld ==
    ASSUME RInv, RInv', SameJobs, UNCHANGED <<clock, mode, born>>
    PROVE  /\ \A x \in Written : x \notin hot' => x \in Old
           /\ mode = "archive_and_prune" =>
                \A x \in Written : x \notin hot' /\ x \notin archive' => x \in Older
<1>1. \A x \in Rows : /\ Late(x)' <=> Late(x)
                      /\ HotDays(x)' = HotDays(x)
                      /\ JobEnded(x)' <=> JobEnded(x)
  BY SameFacts
<1>2. ASSUME NEW x \in Written, x \notin hot' PROVE x \in Old
  <2>1. x \in Rows /\ born[x] # 0
    BY DEF Written
  <2>2. \/ Late(x)'
        \/ Before(born[x], HotDays(x)', clock) /\ JobEnded(x)'
    BY <1>2, <2>1 DEF RInv, HotLongEnough, JobEnded, Before
  <2> QED
    BY <1>1, <2>1, <2>2 DEF Old
<1>3. ASSUME mode = "archive_and_prune", NEW x \in Written, x \notin hot', x \notin archive'
      PROVE  x \in Older
  <2>1. x \in Rows /\ born[x] # 0
    BY DEF Written
  <2>2. Late(x)' \/ Before(born[x], ArchiveDays(x), clock)
    BY <1>3, <2>1 DEF RInv, HistoryKept, Before, ArchiveDays
  <2> QED
    BY <1>1, <2>1, <2>2 DEF Older
<1> QED
  BY <1>2, <1>3

\* Rows leave their table only, or the archive only.
LEMMA LossLives ==
    ASSUME RInv, RInv', SameJobs, UNCHANGED <<clock, mode, born>>,
           \/ hot' \subseteq hot /\ archive' = archive
           \/ archive' \subseteq archive /\ hot' = hot
    PROVE  Lives
<1>1. /\ hot \subseteq Written /\ archive \subseteq Written /\ Written \subseteq Rows
      /\ hot \cap archive = {}
  BY DEF RInv, TInv, TypeOK, Known, Written, NeverBoth
<1>2. Old' = Old /\ Older' = Older /\ Written' = Written
  BY AgesStay
<1>3. CASE hot' \subseteq hot /\ archive' = archive
  <2> DEFINE X == hot \ hot'
  <2>1. X \in SUBSET Rows /\ X \subseteq Old /\ hot' = hot \ X
    BY <1>1, <1>3, GoneAreOld
  <2>2. mode = "archive_and_prune" => X \subseteq Older
    BY <1>1, <1>3, GoneAreOld
  <2> HIDE DEF X
  <2> QED
    BY <1>2, <1>3, <2>1, <2>2, DeleteLives
<1>4. CASE archive' \subseteq archive /\ hot' = hot
  <2> DEFINE X == archive \ archive'
  <2>1. X \in SUBSET Rows /\ archive' = archive \ X
    BY <1>1, <1>4
  <2>2. X \subseteq Older
    <3>1. CASE mode = "archive_and_prune"
      BY <1>1, <1>4, <3>1, GoneAreOld
    <3>2. CASE mode # "archive_and_prune"
      <4>1. mode = "hard_delete"
        BY <3>2, RetentionAssumption DEF RInv, TInv, TypeOK
      <4>2. archive = {}
        BY <4>1 DEF RInv, TInv, TypeOK
      <4> QED
        BY <4>2
    <3> QED
      BY <3>1, <3>2
  <2> HIDE DEF X
  <2> QED
    BY <1>2, <1>4, <2>1, <2>2, PurgeLives
<1> QED
  BY <1>3, <1>4

LEMMA ArchiveBatchLives ==
    ASSUME RInv, RInv', NEW r \in Runs, ArchiveBatch(r) PROVE Lives
<1>1. PICK X \in SUBSET Rows : X = run[r].batch
  BY RunFacts DEF RInv
<1>2. /\ SameJobs /\ UNCHANGED <<clock, mode, born>>
      /\ hot' = hot \ X /\ archive' = archive \cup X /\ mode = "archive_and_prune"
  BY <1>1 DEF ArchiveBatch, SameJobs, RInv, TInv
<1>3. X \subseteq Written
  BY <1>1 DEF RInv, RunsSound, BatchOK, Written
<1>4. X \subseteq Old
  BY <1>2, <1>3, GoneAreOld
<1>5. Old' = Old /\ Older' = Older /\ Written' = Written
  BY <1>2, AgesStay
<1> QED
  BY <1>2, <1>4, <1>5, ArchiveLives

LEMMA CleanupLives ==
    ASSUME RInv, RInv', NEW r \in Runs, Start(r) \/ Step(r) \/ Throws(r) PROVE Lives
<1>1. CASE Start(r) \/ FindBatch(r) \/ Throws(r)
  <2>1. SameJobs /\ UNCHANGED <<clock, mode, born, hot, archive>>
    BY <1>1 DEF Start, FindBatch, Throws, SameJobs
  <2> QED
    BY <2>1, LossLives
<1>2. CASE DeleteRows(r) \/ Purge(r)
  <2>1. SameJobs /\ UNCHANGED <<clock, mode, born>>
    BY <1>2 DEF DeleteRows, Purge, SameJobs
  <2>2. \/ hot' \subseteq hot /\ archive' = archive
        \/ archive' \subseteq archive /\ hot' = hot
    BY <1>2 DEF DeleteRows, Purge
  <2> QED
    BY <2>1, <2>2, LossLives
<1>3. CASE DeleteJobs(r)
  <2> DEFINE old == OldJobs(Stage(r), run[r].now)
  <2>1. /\ UNCHANGED <<clock, mode, born, archive>> /\ hot' \subseteq hot
        /\ job' = [j \in Jobs |-> IF j \in old THEN [job[j] EXCEPT !.deleted = TRUE]
                                               ELSE job[j]]
    BY <1>3 DEF DeleteJobs
  <2>2. \A j \in Jobs : job[j] \in JobRows
    BY RunFacts DEF RInv
  <2> HIDE DEF old
  <2>3. SameJobs
    BY <2>1, <2>2 DEF SameJobs, JobRows
  <2> QED
    BY <2>1, <2>3, LossLives
<1>4. CASE ArchiveBatch(r)
  BY <1>4, ArchiveBatchLives
<1> QED
  BY <1>1, <1>2, <1>3, <1>4 DEF Step

LEMMA CreateLives == ASSUME RInv, NEW x \in Rows, Create(x) PROVE Lives
<1>1. /\ born[x] = 0 /\ born' = [born EXCEPT ![x] = clock] /\ hot' = hot \cup {x}
      /\ UNCHANGED <<clock, mode, job, archive>>
      /\ born \in [Rows -> Nat] /\ clock # 0
  BY DEF Create, RInv, TInv, TypeOK
<1>2. \A y \in Rows \ {x} : /\ born'[y] = born[y] /\ HotDays(y)' = HotDays(y)
                            /\ JobEnded(y)' <=> JobEnded(y)
                            /\ Late(y)' <=> Late(y)
  BY <1>1 DEF HotDays, JobEnded, Late
<1>3. x \notin Written /\ x \notin Old /\ x \notin Older
  BY <1>1 DEF Written, Old, Older
<1>4. Written' = Written \cup {x}
  BY <1>1, <1>2 DEF Written
<1>5. Old \subseteq Old' /\ Older \subseteq Older'
  BY <1>1, <1>2, <1>3 DEF Old, Older, Before, ArchiveDays
<1> QED
  BY <1>1, <1>3, <1>4, <1>5, WriteLives

LEMMA JobEndsLives == ASSUME RInv, NEW j \in Jobs, JobEnds(j) PROVE Lives
<1>1. /\ job[j].status = "active" /\ UNCHANGED <<clock, mode, born, hot, archive>>
      /\ \A k \in Jobs \ {j} : job'[k] = job[k]
  <2>1. job \in [Jobs -> JobRows]
    BY DEF RInv, TInv, TypeOK, JobRows
  <2> QED
    BY <2>1 DEF JobEnds
<1>2. \A y \in Rows : \/ y \in Events /\ JobOf[y] = j
                      \/ /\ HotDays(y)' = HotDays(y)
                         /\ JobEnded(y)' <=> JobEnded(y)
                         /\ Late(y)' <=> Late(y)
  BY <1>1, DayFacts DEF HotDays, JobEnded, Late
<1>3. \A y \in Events : JobOf[y] = j => ~JobEnded(y) /\ ~Late(y)
  BY <1>1 DEF JobEnded, Late
<1>4. Old \subseteq Old'
  BY <1>1, <1>2, <1>3 DEF Old, Before
<1>5. Older \subseteq Older'
  <2>1. \A y \in Rows : Late(y) => Late(y)'
    BY <1>2, <1>3
  <2> QED
    BY <1>1, <2>1 DEF Older, Before, ArchiveDays
<1>6. Written' = Written
  BY <1>1 DEF Written
<1> QED
  BY <1>1, <1>4, <1>5, <1>6, WaitLives

LEMMA TickLives == ASSUME RInv, Tick PROVE Lives
<1>1. /\ UNCHANGED <<mode, job, born, hot, archive>>
      /\ clock \in Nat /\ clock' \in Nat /\ clock <= clock' /\ born \in [Rows -> Nat]
  BY DayFacts DEF Tick, RInv, TInv, TypeOK
<1>2. \A x \in Rows : \A days \in Nat :
          Before(born[x], days, clock) => Before(born[x], days, clock')
  BY <1>1, BeforeLater
<1>3. \A x \in Rows : /\ HotDays(x) \in Nat /\ ArchiveDays(x) \in Nat
                      /\ HotDays(x)' = HotDays(x)
                      /\ JobEnded(x)' <=> JobEnded(x)
                      /\ Late(x)' <=> Late(x)
  BY <1>1, DayFacts DEF HotDays, JobEnded, Late
<1>4. \A x \in Rows :
         /\ Before(born[x], HotDays(x), clock) => Before(born[x], HotDays(x), clock')
         /\ Before(born[x], ArchiveDays(x), clock) => Before(born[x], ArchiveDays(x), clock')
  BY <1>2, <1>3
<1>5. Old \subseteq Old'
  BY <1>1, <1>3, <1>4 DEF Old, Before
<1>6. Older \subseteq Older'
  BY <1>1, <1>3, <1>4 DEF Older, Before, ArchiveDays
<1>7. Written' = Written
  BY <1>1 DEF Written
<1> QED
  BY <1>1, <1>5, <1>6, <1>7, WaitLives

LEMMA StillLives == ASSUME UNCHANGED vars PROVE Lives
<1>1. SameJobs /\ UNCHANGED <<clock, mode, born, hot, archive>>
  BY DEF vars, SameJobs
<1>2. Old' = Old /\ Older' = Older /\ Written' = Written
  BY <1>1, AgesStay
<1> QED
  BY <1>1, <1>2, WaitLives

LEMMA StepLives == RInv /\ RInv' /\ [Next]_vars => Lives
<1> SUFFICES ASSUME RInv, RInv', [Next]_vars PROVE Lives
  OBVIOUS
<1>1. ASSUME NEW r \in Runs, Start(r) \/ Step(r) \/ Throws(r) PROVE Lives
  BY <1>1, CleanupLives
<1>2. ASSUME NEW x \in Rows, Create(x) PROVE Lives
  BY <1>2, CreateLives
<1>3. ASSUME NEW j \in Jobs, JobEnds(j) PROVE Lives
  BY <1>3, JobEndsLives
<1>4. CASE Tick
  BY <1>4, TickLives
<1>5. CASE UNCHANGED vars
  BY <1>5, StillLives
<1> QED
  BY <1>1, <1>2, <1>3, <1>4, <1>5, DayFacts DEF Next, RecordEvent, RecordLog

\* Retention implements the life cycle of records: whatever cleanups overlap, act on
\* old queries, fail or die, each of their statements moves or deletes only records
\* that are old where they are, and no record returns to its table.
THEOREM RetentionImplementsLifecycle == Spec => ImplementsRecordLifecycle
<1>1. Init => Lifecycle!Init
  <2>1. Init => \A x \in Rows : born[x] = 0
    BY DEF Init
  <2>2. Init => mode \in {"archive_and_prune", "hard_delete"} /\ hot = {} /\ archive = {}
    BY RetentionAssumption DEF Init
  <2> QED
    BY <2>1, <2>2 DEF Lifecycle!Init
<1>2. RInv /\ RInv' /\ [Next]_vars => [Lifecycle!Next]_(Lifecycle!recordVars)
  BY StepLives DEF Lives
<1> QED
  BY InitRInv, RInvInductive, <1>1, <1>2, PTL
     DEF Spec, ImplementsRecordLifecycle, Lifecycle!Spec

-----------------------------------------------------------------------------
(* Why every cleanup comes to its end while rows are still added: what a     *)
(* cleanup has before it was there at its instant, so others can only make   *)
(* it less, and each of its own steps lowers a count.                        *)

\* The rows that a cleanup in state l may still have to handle, where the tables
\* hold h and rows were born at b.
ToDo(l, h, b) == {x \in Rows : x \in l.batch \/ (x \in h /\ b[x] < l.now)}

\* The most steps it has to go: a query and a transaction for each row.
Left(l, h, b) ==
    IF l = Idle THEN 0
    ELSE 2 * Cardinality(ToDo(l, h, b)) + (IF l.batch = {} THEN 1 ELSE 0) + (8 - l.stage)

Advances ==
    \A r \in Runs : run[r] # Idle =>
        /\ Left(run'[r], hot', born') <= Left(run[r], hot, born)
        /\ run'[r] # run[r] => Left(run'[r], hot', born') < Left(run[r], hot, born)

LEMMA SmallerSet ==
    ASSUME NEW S \in SUBSET Rows, NEW T \in SUBSET S
    PROVE  /\ Cardinality(T) \in Nat /\ Cardinality(S) \in Nat
           /\ Cardinality(T) <= Cardinality(S)
           /\ \A x \in S : x \notin T => Cardinality(T) < Cardinality(S)
<1>1. IsFiniteSet(S) /\ IsFiniteSet(T)
  BY RetentionAssumption, FS_Subset
<1>2. Cardinality(S) \in Nat /\ Cardinality(T) \in Nat
  BY <1>1, FS_CardinalityType
<1>3. Cardinality(T) <= Cardinality(S) /\ (Cardinality(S) = Cardinality(T) => S = T)
  BY <1>1, FS_Subset
<1> QED
  BY <1>2, <1>3

LEMMA LeftCounts ==
    ASSUME NEW l \in RunState, l.stage = 0 => l = Idle, NEW h, NEW b
    PROVE  Left(l, h, b) \in 0..(2 * Cardinality(Rows) + 8)
<1> DEFINE S == ToDo(l, h, b)
<1>1. S \in SUBSET Rows /\ l.stage \in 0..7
  BY DEF ToDo, RunState
<1>2. Left(l, h, b) = IF l = Idle THEN 0 ELSE
             2 * Cardinality(S) + (IF l.batch = {} THEN 1 ELSE 0) + (8 - l.stage)
  BY DEF Left
<1> HIDE DEF S
<1>3. /\ Cardinality(S) \in Nat /\ Cardinality(Rows) \in Nat
      /\ Cardinality(S) <= Cardinality(Rows)
  BY <1>1, SmallerSet
<1> QED
  BY <1>1, <1>2, <1>3

LEMMA LeftStays ==
    ASSUME NEW l \in RunState, NEW h, NEW b, NEW h2, NEW b2,
           ToDo(l, h2, b2) \subseteq ToDo(l, h, b)
    PROVE  Left(l, h2, b2) <= Left(l, h, b)
<1> DEFINE S == ToDo(l, h, b)
           T == ToDo(l, h2, b2)
<1>1. S \in SUBSET Rows /\ T \in SUBSET S /\ l.stage \in 0..7
  BY DEF ToDo, RunState
<1>2. /\ Left(l, h, b) = IF l = Idle THEN 0 ELSE
             2 * Cardinality(S) + (IF l.batch = {} THEN 1 ELSE 0) + (8 - l.stage)
      /\ Left(l, h2, b2) = IF l = Idle THEN 0 ELSE
             2 * Cardinality(T) + (IF l.batch = {} THEN 1 ELSE 0) + (8 - l.stage)
  BY DEF Left
<1> HIDE DEF S, T
<1>3. Cardinality(T) \in Nat /\ Cardinality(S) \in Nat /\ Cardinality(T) <= Cardinality(S)
  BY <1>1, SmallerSet
<1> QED
  BY <1>1, <1>2, <1>3

\* The ways in which a cleanup goes on: it ends, goes to its next stage, takes a
\* batch or is rid of one.
LEMMA LeftFalls ==
    ASSUME NEW l \in RunState, NEW n \in RunState, NEW h, NEW b, NEW h2, NEW b2,
           l # Idle, l.stage \in 1..7,
           n # Idle => ToDo(n, h2, b2) \subseteq ToDo(l, h, b),
           \/ n = Idle
           \/ n.stage = l.stage + 1 /\ n.batch = l.batch
           \/ n.stage = l.stage /\ l.batch = {} /\ n.batch # {}
           \/ n.stage = l.stage /\ n.batch = {}
              /\ \E x \in l.batch : x \notin ToDo(n, h2, b2)
    PROVE  Left(n, h2, b2) < Left(l, h, b)
<1> DEFINE S == ToDo(l, h, b)
           T == ToDo(n, h2, b2)
           f(r) == IF r.batch = {} THEN 1 ELSE 0
<1>1. S \in SUBSET Rows /\ l.batch \subseteq S /\ n.stage \in 0..7
  BY DEF ToDo, RunState
<1>2. /\ Left(l, h, b) = 2 * Cardinality(S) + f(l) + (8 - l.stage)
      /\ n # Idle => Left(n, h2, b2) = 2 * Cardinality(T) + f(n) + (8 - n.stage)
      /\ n = Idle => Left(n, h2, b2) = 0
  BY DEF Left
<1>3. f(l) \in {0, 1} /\ f(n) \in {0, 1} /\ (f(l) = 1 <=> l.batch = {})
      /\ (f(n) = 1 <=> n.batch = {})
  OBVIOUS
<1> HIDE DEF S, T, f
<1>4. CASE n = Idle
  <2>1. Cardinality(S) \in Nat
    BY <1>1, SmallerSet
  <2> QED
    BY <1>2, <1>3, <1>4, <2>1
<1>5. CASE n # Idle
  <2>1. T \in SUBSET S
    BY <1>5 DEF S, T
  <2>2. /\ Cardinality(T) \in Nat /\ Cardinality(S) \in Nat
        /\ Cardinality(T) <= Cardinality(S)
        /\ \A x \in S : x \notin T => Cardinality(T) < Cardinality(S)
    BY <1>1, <2>1, SmallerSet
  <2>3. CASE n.stage = l.stage + 1 /\ n.batch = l.batch
    BY <1>1, <1>2, <1>3, <1>5, <2>2, <2>3
  <2>4. CASE n.stage = l.stage /\ l.batch = {} /\ n.batch # {}
    BY <1>1, <1>2, <1>3, <1>5, <2>2, <2>4
  <2>5. CASE n.stage = l.stage /\ n.batch = {} /\ \E x \in l.batch : x \notin T
    <3>1. Cardinality(T) < Cardinality(S)
      BY <1>1, <2>2, <2>5
    <3>2. f(l) = 0
      BY <1>3, <2>5
    <3> QED
      BY <1>1, <1>2, <1>3, <1>5, <2>2, <2>5, <3>1, <3>2
  <2> QED
    BY <1>5, <2>3, <2>4, <2>5 DEF T
<1> QED
  BY <1>4, <1>5

\* No step adds a row of the past.
NoneOlder == \A x \in hot' : (x \in hot /\ born'[x] = born[x]) \/ born'[x] = clock

LEMMA NothingAdded ==
    ASSUME TInv, NoneOlder, NEW l \in RunState, l.now <= clock
    PROVE  ToDo(l, hot', born') \subseteq ToDo(l, hot, born)
<1>1. l.now \in Nat
  BY DEF RunState
<1>2. clock \in Nat
  BY DayFacts DEF TInv, TypeOK
<1>3. \A x \in hot' : born'[x] < l.now => x \in hot /\ born'[x] = born[x]
  BY <1>1, <1>2 DEF NoneOlder
<1> QED
  BY <1>3 DEF ToDo

\* A step of one cleanup, or of none.
LEMMA OthersStay ==
    ASSUME TInv, TInv', NoneOlder, NEW r,
           \A q \in Runs \ {r} : run'[q] = run[q],
           r \in Runs /\ run[r] # Idle => Left(run'[r], hot', born') < Left(run[r], hot, born)
    PROVE  Advances
<1>1. ASSUME NEW q \in Runs, q # r
      PROVE  run'[q] = run[q] /\ Left(run'[q], hot', born') <= Left(run[q], hot, born)
  <2>1. run'[q] = run[q] /\ run[q] \in RunState /\ run[q].now <= clock
    BY <1>1, RunFacts
  <2>2. PICK l \in RunState : l = run[q]
    BY <2>1
  <2>3. Left(l, hot', born') <= Left(l, hot, born)
    BY <2>1, <2>2, NothingAdded, LeftStays
  <2> QED
    BY <2>1, <2>2, <2>3
<1>2. ASSUME r \in Runs, run[r] # Idle
      PROVE  /\ Left(run'[r], hot', born') <= Left(run[r], hot, born)
             /\ Left(run'[r], hot', born') < Left(run[r], hot, born)
  <2>1. Left(run'[r], hot', born') < Left(run[r], hot, born)
    BY <1>2
  <2>2. run[r] \in RunState /\ run'[r] \in RunState
        /\ (run[r].stage = 0 => run[r] = Idle) /\ (run'[r].stage = 0 => run'[r] = Idle)
    BY <1>2, RunFacts, StageFacts DEF TInv, TypeOK, RunState
  <2>3. PICK n \in RunState : n = run'[r] /\ (n.stage = 0 => n = Idle)
    BY <2>2
  <2>4. Left(n, hot', born') \in Nat /\ Left(run[r], hot, born) \in Nat
    <3>1. Cardinality(Rows) \in Nat
      BY SmallerSet
    <3>2. Left(n, hot', born') \in 0..(2 * Cardinality(Rows) + 8)
      BY <2>3, LeftCounts
    <3>3. Left(run[r], hot, born) \in 0..(2 * Cardinality(Rows) + 8)
      BY <2>2, LeftCounts
    <3> QED
      BY <3>1, <3>2, <3>3
  <2> QED
    BY <2>1, <2>3, <2>4
<1> QED
  BY <1>1, <1>2 DEF Advances

\* A step of a cleanup that leaves its table as it was or with fewer rows.
LEMMA CleanupAdvances ==
    ASSUME TInv, TInv', NEW r \in Runs, NEW n \in RunState,
           run' = [run EXCEPT ![r] = n], hot' \subseteq hot, born' = born,
           run[r] # Idle =>
              /\ n # Idle => n.now = run[r].now
                             /\ n.batch \subseteq run[r].batch \cup
                                   {x \in hot : born[x] < run[r].now}
              /\ \/ n = Idle
                 \/ n.stage = run[r].stage + 1 /\ n.batch = run[r].batch
                 \/ n.stage = run[r].stage /\ run[r].batch = {} /\ n.batch # {}
                 \/ n.stage = run[r].stage /\ n.batch = {}
                    /\ \E x \in run[r].batch : x \notin hot'
    PROVE  Advances
<1>1. run \in [Runs -> RunState] /\ run[r] \in RunState /\ run[r].stage \in 0..7
      /\ (run[r].stage = 0 => run[r] = Idle)
  BY RunFacts
<1>2. run'[r] = n /\ \A q \in Runs \ {r} : run'[q] = run[q]
  BY <1>1
<1>3. NoneOlder
  BY DEF NoneOlder
<1>4. ASSUME run[r] # Idle
      PROVE  Left(n, hot', born') < Left(run[r], hot, born)
  <2>1. PICK l \in RunState : l = run[r]
    BY <1>1
  <2>2. l # Idle /\ l.stage \in 1..7
    BY <1>1, <1>4, <2>1
  <2>3. ASSUME n # Idle
        PROVE  ToDo(n, hot', born') \subseteq ToDo(l, hot, born)
    BY <1>4, <2>1, <2>3 DEF ToDo
  <2>4. \/ n = Idle
        \/ n.stage = l.stage + 1 /\ n.batch = l.batch
        \/ n.stage = l.stage /\ l.batch = {} /\ n.batch # {}
        \/ n.stage = l.stage /\ n.batch = {}
           /\ \E x \in l.batch : x \notin ToDo(n, hot', born')
    BY <1>4, <2>1 DEF ToDo
  <2>5. Left(n, hot', born') < Left(l, hot, born)
    BY <2>2, <2>3, <2>4, LeftFalls
  <2> QED
    BY <2>1, <2>5
<1> QED
  BY <1>2, <1>3, <1>4, OthersStay

\* A cleanup takes a batch of rows that were there at its instant.
LEMMA BatchAdvances ==
    ASSUME TInv, TInv', NEW r \in Runs, NEW b \in SUBSET Rows,
           run' = [run EXCEPT ![r].batch = b], UNCHANGED <<hot, born>>,
           run[r].batch = {}, b # {}, \A x \in b : x \in hot /\ born[x] < run[r].now
    PROVE  Advances
<1> DEFINE n == [run[r] EXCEPT !.batch = b]
<1>1. run[r] \in RunState /\ run \in [Runs -> RunState]
  BY RunFacts
<1>2. run' = [run EXCEPT ![r] = n]
  BY <1>1
<1>3. n \in RunState /\ n.stage = run[r].stage /\ n.now = run[r].now /\ n.batch = b
  BY <1>1 DEF RunState
<1> HIDE DEF n
<1> QED
  BY <1>2, <1>3, CleanupAdvances

LEMMA FindBatchAdvances ==
    ASSUME TInv, TInv', NEW r \in Runs, FindBatch(r)
    PROVE  Advances
<1>1. run[r].stage \in 1..4 /\ run[r].batch = {} /\ hot' = hot /\ born' = born
  <2>1. At(r, RowStages) /\ run[r].batch = {} /\ UNCHANGED <<hot, born>>
    BY DEF FindBatch
  <2> QED
    BY <2>1, RunFacts, AtFacts
<1>2. ASSUME Advance(r)
      PROVE  Advances
  <2>1. run[r].stage \in 1..6
    BY <1>1
  <2>2. PICK n \in RunState : /\ run' = [run EXCEPT ![r] = n]
                              /\ n.stage = run[r].stage + 1
                              /\ n.now = run[r].now /\ n.batch = run[r].batch
    BY <1>2, <2>1, AdvanceFacts
  <2> QED
    BY <1>1, <2>2, CleanupAdvances
<1>3. ASSUME NEW b \in SUBSET Expired(Stage(r), run[r].now), b # {},
             run' = [run EXCEPT ![r].batch = b]
      PROVE  Advances
  <2>1. run[r].now \in Nat /\ hot \subseteq Rows /\ born \in [Rows -> Nat]
    BY RunFacts
  <2>2. \A x \in b : x \in hot /\ x \in Rows /\ Before(born[x], HotDays(x), run[r].now)
    BY <1>1, <1>3, ExpiredFacts
  <2>3. \A x \in b : x \in hot /\ born[x] < run[r].now
    BY <2>1, <2>2, DayFacts DEF Before
  <2>4. PICK c \in SUBSET Rows : c = b
    BY <2>2
  <2> QED
    BY <1>1, <1>3, <2>3, <2>4, BatchAdvances
<1>4. \/ Advance(r)
      \/ \E b \in SUBSET Expired(Stage(r), run[r].now) :
            b # {} /\ run' = [run EXCEPT ![r].batch = b]
  BY DEF FindBatch
<1> QED
  BY <1>2, <1>3, <1>4

LEMMA StepAdvances ==
    ASSUME TInv, TInv', NEW r \in Runs, Step(r)
    PROVE  Advances
<1>1. run[r].stage \in 0..7
  BY RunFacts
<1>2. ASSUME Advance(r), hot' \subseteq hot, born' = born, run[r].stage \in 1..6
      PROVE  Advances
  <2>1. PICK n \in RunState : /\ run' = [run EXCEPT ![r] = n]
                              /\ n.stage = run[r].stage + 1
                              /\ n.now = run[r].now /\ n.batch = run[r].batch
    BY <1>2, AdvanceFacts
  <2> QED
    BY <1>2, <2>1, CleanupAdvances
<1>3. ASSUME DeleteRows(r) PROVE Advances
  <2>1. /\ At(r, RowStages) /\ Advance(r) /\ born' = born
        /\ hot' = hot \ Expired(Stage(r), run[r].now)
    BY <1>3 DEF DeleteRows
  <2>2. run[r].stage \in 1..6
    BY <1>1, <2>1, AtFacts
  <2> QED
    BY <1>2, <2>1, <2>2
<1>4. ASSUME DeleteJobs(r) PROVE Advances
  <2>1. /\ At(r, {"ended_jobs", "failed_jobs"}) /\ Advance(r) /\ born' = born
        /\ hot' \subseteq hot
    BY <1>4 DEF DeleteJobs
  <2>2. run[r].stage \in 1..6
    BY <1>1, <2>1, AtFacts
  <2> QED
    BY <1>2, <2>1, <2>2
<1>5. ASSUME ArchiveBatch(r) PROVE Advances
  <2>1. /\ run[r].batch # {} /\ hot' = hot \ run[r].batch /\ born' = born
        /\ run' = [run EXCEPT ![r].batch = {}]
    BY <1>5 DEF ArchiveBatch
  <2>2. PICK n \in RunState : /\ run' = [run EXCEPT ![r] = n]
                              /\ n.stage = run[r].stage
                              /\ n.now = run[r].now /\ n.batch = {}
    BY <2>1, BatchFacts
  <2>3. \E x \in run[r].batch : x \notin hot'
    BY <2>1
  <2> QED
    BY <2>1, <2>2, <2>3, CleanupAdvances
<1>6. ASSUME Purge(r) PROVE Advances
  <2>1. run' = [run EXCEPT ![r] = Idle] /\ UNCHANGED <<hot, born>>
    BY <1>6 DEF Purge
  <2> QED
    BY <2>1, IdleFacts, CleanupAdvances
<1> QED
  BY <1>3, <1>4, <1>5, <1>6, FindBatchAdvances DEF Step

LEMMA NextAdvances == TInv /\ TInv' /\ [Next]_vars => Advances
<1> SUFFICES ASSUME TInv, TInv', [Next]_vars PROVE Advances
  OBVIOUS
<1>1. ASSUME run' = run, NoneOlder
      PROVE  Advances
  <2>1. ASSUME NEW q \in Runs
        PROVE  Left(run'[q], hot', born') <= Left(run[q], hot, born)
    <3>1. PICK l \in RunState : l = run[q] /\ l.now <= clock
      BY RunFacts
    <3>2. Left(l, hot', born') <= Left(l, hot, born)
      BY <1>1, <3>1, NothingAdded, LeftStays
    <3> QED
      BY <1>1, <3>1, <3>2
  <2> QED
    BY <1>1, <2>1 DEF Advances
<1>2. ASSUME NEW r \in Runs, Start(r) PROVE Advances
  <2>1. PICK n \in RunState : run' = [run EXCEPT ![r] = n]
    BY <1>2, StartFacts
  <2>2. run[r] = Idle /\ UNCHANGED <<hot, born>>
    BY <1>2 DEF Start
  <2> QED
    BY <2>1, <2>2, CleanupAdvances
<1>3. ASSUME NEW r \in Runs, Throws(r) PROVE Advances
  <2>1. run' = [run EXCEPT ![r] = Idle] /\ UNCHANGED <<hot, born>>
    BY <1>3 DEF Throws
  <2> QED
    BY <2>1, IdleFacts, CleanupAdvances
<1>4. ASSUME NEW x \in Rows, Create(x) PROVE Advances
  <2>1. /\ hot' = hot \cup {x} /\ born' = [born EXCEPT ![x] = clock]
        /\ run' = run
    BY <1>4 DEF Create
  <2>2. hot \subseteq Rows /\ born \in [Rows -> Nat]
    BY DEF TInv, TypeOK
  <2>3. NoneOlder
    BY <2>1, <2>2 DEF NoneOlder
  <2> QED
    BY <1>1, <2>1, <2>3
<1>5. CASE (\E j \in Jobs : JobEnds(j)) \/ Tick \/ UNCHANGED vars
  <2>1. UNCHANGED <<run, hot, born>>
    BY <1>5 DEF JobEnds, Tick, vars
  <2> QED
    BY <1>1, <2>1 DEF NoneOlder
<1> QED
  BY <1>2, <1>3, <1>4, <1>5, StepAdvances
     DEF Next, RecordEvent, RecordLog, Rows

\* A cleanup takes at most two steps for each row there is and one for each of
\* its stages, whatever rows are added and whichever cleanups overlap: none of
\* its steps leaves it with as much, and no step of others leaves it with more.
\* The archiving loop of runCleanup cannot go on for ever while events are written.
THEOREM CleanupIsBounded ==
    Spec => /\ [](\A r \in Runs : Left(run[r], hot, born) \in 0..(2 * Cardinality(Rows) + 8))
            /\ [][Advances]_vars
<1>1. ASSUME TInv, NEW r \in Runs
      PROVE  Left(run[r], hot, born) \in 0..(2 * Cardinality(Rows) + 8)
  <2>1. run[r] \in RunState /\ (run[r].stage = 0 => run[r] = Idle)
    BY <1>1, RunFacts
  <2> QED
    BY <2>1, LeftCounts
<1>2. TInv => \A r \in Runs : Left(run[r], hot, born) \in 0..(2 * Cardinality(Rows) + 8)
  BY <1>1
<1>3. TInv /\ TInv' /\ [Next]_vars => [Advances]_vars
  BY NextAdvances
<1> QED
  BY InitTypes, TypesInductive, <1>2, <1>3, PTL DEF Spec
=============================================================================
