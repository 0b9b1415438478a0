---------------------- MODULE MaintenanceSchedulerProofs ----------------------
(***************************************************************************)
(* Types, the single leader of the maintenance scheduler, and what follows *)
(* from it: the active-job guard, the due time and the previous row that a *)
(* runner read are still so when it acts on them.                          *)
(*                                                                         *)
(* One leader needs runners quicker than the lock's time to live and with  *)
(* names of their own.  The argument: whoever leads took the lock, and its *)
(* lock has at least LockTTL left, less the time the runner has taken, so  *)
(* no tick of the clock frees it; and no other runner deletes it, because  *)
(* it compares the value, which holds the name.                            *)
(***************************************************************************)
EXTENDS MaintenanceScheduler, TLAPS

Prompt == MaxDelay < LockTTL
DistinctNames == \A q, r \in Runners : Instance[q] = Instance[r] => q = r

States == [pc: Pcs, at: Int, now: Int, task: 0..Len(Tasks), actor: BOOLEAN,
           result: Results, succeeded: BOOLEAN]
Rows == [nextRunAt: Offsets, result: Results, succeeded: BOOLEAN]

\* A runner's record: from the first task on it has one, and only ticks look
\* for an actor and at due times.
Placed(r, l) ==
    /\ l \in States
    /\ l.pc \in {"state", "decide", "enqueue", "previous", "write", "audit"}
           => l.task \in DOMAIN Tasks
    /\ r \notin Processes => /\ l.pc \notin {"actor", "state"}
                             /\ l.pc = "acquire" => l.task \in DOMAIN Tasks

Names == {Instance[r] : r \in Runners}
Locks == [value: [by: Names, at: Int], ttl: 1..LockTTL]
LockTyped == lock \in {NoLock} \cup Locks
FaultsTyped == faults \in [failures: 0..MaxFailures, requests: 0..MaxRequests]

Typed ==
    /\ LockTyped
    /\ active \in [TaskSet -> 0..ActiveCap]
    /\ state \in [TaskSet -> Rows]
    /\ runner \in [Runners -> States]
    /\ \A r \in Runners : Placed(r, runner[r])
    /\ FaultsTyped

LEMMA ConstantFacts ==
    /\ Processes \subseteq Runners /\ Requests \subseteq Runners
    /\ \A r \in Runners : r \notin Processes => r \in Requests
    /\ \A q \in Requests : q \notin Processes
    /\ Len(Tasks) \in Nat /\ Len(Tasks) >= 1 /\ DOMAIN Tasks = 1..Len(Tasks)
    /\ \A k \in DOMAIN Tasks : Tasks[k] \in TaskSet
    /\ LockTTL \in Nat /\ LockTTL > 0 /\ MaxDelay \in Nat /\ MaxDelay > 0
    /\ Horizon \in Nat /\ Horizon > MaxDelay
    /\ ActiveCap \in Nat /\ ActiveCap > 0 /\ MaxFailures \in Nat /\ MaxRequests \in Nat
    /\ Interval \in [TaskSet -> Nat] /\ Null \notin Int
<1>1. /\ Tasks \in Seq(TaskSet) /\ Tasks # <<>>
  BY SchedulerAssumption
<1>2. Len(Tasks) \in Nat /\ Len(Tasks) >= 1 /\ DOMAIN Tasks = 1..Len(Tasks)
  BY <1>1
<1>3. \A k \in DOMAIN Tasks : Tasks[k] \in TaskSet
  BY DEF TaskSet
<1> QED
  BY <1>2, <1>3, SchedulerAssumption DEF Runners

LEMMA AgedFacts ==
  ASSUME NEW t \in Offsets
  PROVE  Aged(t) \in Offsets /\ (t # Null => Aged(t) \in Int) /\ (t = Null <=> Aged(t) = Null)
BY ConstantFacts DEF Aged, Offsets

\* A runner with a task.
LEMMA TaskFacts ==
  ASSUME Typed, NEW r \in Runners,
         runner[r].pc \in {"state", "decide", "enqueue", "previous", "write", "audit"}
  PROVE  /\ runner[r].task \in DOMAIN Tasks /\ TaskOf(r) \in TaskSet
         /\ active[TaskOf(r)] \in 0..ActiveCap /\ state[TaskOf(r)] \in Rows
<1>1. runner[r].task \in DOMAIN Tasks
  BY DEF Typed, Placed
<1>2. TaskOf(r) \in TaskSet
  BY <1>1, ConstantFacts DEF TaskOf
<1> QED
  BY <1>1, <1>2 DEF Typed

(***************************************************************************)
(* The records that runners go on with.                                    *)
(***************************************************************************)
LEMMA IdleFacts ==
    /\ Idle \in States
    /\ Idle.pc = "idle" /\ Idle.at = -1 /\ Idle.task = 0 /\ Idle.result = "none"
    /\ \A r \in Runners : Placed(r, Idle)
<1>1. Idle \in States /\ Idle.pc = "idle" /\ Idle.at = -1 /\ Idle.task = 0
      /\ Idle.result = "none"
  BY ConstantFacts DEF Idle, States, Pcs, Results
<1> QED
  BY <1>1 DEF Placed

LEMMA NextRecords ==
  ASSUME Typed, NEW r \in Runners
  PROVE  /\ Placed(r, Releasing(r)) /\ Releasing(r).pc = "release"
         /\ Releasing(r).at = runner[r].at
         /\ Placed(r, Resting(r)) /\ Resting(r).pc = "idle"
<1>1. runner[r].at \in Int
  BY DEF Typed, States
<1>2. Placed(r, Releasing(r)) /\ Releasing(r).pc = "release" /\ Releasing(r).at = runner[r].at
  BY <1>1, IdleFacts DEF Releasing, Placed, States, Pcs
<1> DEFINE z == IF Scheduled(r) /\ runner[r].at = 0 THEN 0 ELSE -1
<1>3. z \in Int
  OBVIOUS
<1>4. Resting(r) = [Idle EXCEPT !.at = z]
  BY DEF Resting
<1> HIDE DEF z
<1>5. Placed(r, Resting(r)) /\ Resting(r).pc = "idle"
  BY <1>3, <1>4, IdleFacts DEF Placed, States
<1> QED
  BY <1>2, <1>5

LEMMA FinishedPlaced ==
  ASSUME Typed, NEW r \in Runners, runner[r].pc \in {"state", "write", "audit"}
  PROVE  /\ Placed(r, Finished(r)) /\ Finished(r).at = runner[r].at
         /\ Finished(r).pc \in {"state", "release"}
         /\ r \notin Processes => Finished(r).pc = "release"
<1>1. runner[r] \in States /\ runner[r].task \in DOMAIN Tasks
  BY TaskFacts DEF Typed
<1>2. CASE Scheduled(r) /\ runner[r].task < Len(Tasks)
  <2>1. Finished(r) = [runner[r] EXCEPT !.pc = "state", !.task = @ + 1,
                                        !.result = "none", !.succeeded = FALSE]
    BY <1>2 DEF Finished
  <2>2. runner[r].task + 1 \in DOMAIN Tasks
    BY <1>1, <1>2, ConstantFacts
  <2>3. runner[r].task + 1 \in 0..Len(Tasks)
    BY <2>2, ConstantFacts
  <2>4. /\ Finished(r) \in States /\ Finished(r).pc = "state"
        /\ Finished(r).at = runner[r].at /\ Finished(r).task = runner[r].task + 1
    BY <1>1, <2>1, <2>3 DEF States, Pcs, Results
  <2> QED
    BY <1>2, <2>2, <2>4 DEF Placed, Scheduled
<1>3. CASE ~(Scheduled(r) /\ runner[r].task < Len(Tasks))
  BY <1>3, NextRecords DEF Finished
<1> QED
  BY <1>2, <1>3

\* A runner goes on at another place, with the same task.
LEMMA MovedPlaced ==
  ASSUME Typed, NEW r \in Runners, NEW pc \in Pcs, NEW result \in Results,
         NEW succeeded \in BOOLEAN,
         pc \in {"state", "decide", "enqueue", "previous", "write", "audit"}
             => runner[r].task \in DOMAIN Tasks,
         r \notin Processes => pc \notin {"actor", "state", "acquire"}
  PROVE  Placed(r, [runner[r] EXCEPT !.pc = pc, !.result = result, !.succeeded = succeeded])
<1>1. runner[r] \in States
  BY DEF Typed
<1> QED
  BY <1>1 DEF Placed, States

(***************************************************************************)
(* Steps of one runner, and what is left of the others.                    *)
(***************************************************************************)
Leading(l) == l.pc \in {"actor", "state", "decide", "enqueue", "previous",
                        "write", "audit"}

\* A step that begins no tick and takes no lock.
Soft(r, new) ==
    /\ Placed(r, new) /\ Become(r, new)
    /\ new.pc # "idle" => new.at = runner[r].at /\ runner[r].pc # "idle"
    /\ Leading(new) => Leading(runner[r])

LEMMA BecomeFacts ==
  ASSUME Typed, NEW r \in Runners, NEW new, Placed(r, new), Become(r, new)
  PROVE  /\ runner' \in [Runners -> States] /\ runner'[r] = new
         /\ \A q \in Runners : q # r => runner'[q] = runner[q]
         /\ \A q \in Runners : Placed(q, runner'[q])
<1>1. runner \in [Runners -> States] /\ new \in States
  BY DEF Typed, Placed
<1>2. runner' = [runner EXCEPT ![r] = new]
  BY DEF Become
<1>3. runner' \in [Runners -> States] /\ runner'[r] = new
      /\ \A q \in Runners : q # r => runner'[q] = runner[q]
  BY <1>1, <1>2
<1>4. \A q \in Runners : Placed(q, runner'[q])
  BY <1>3 DEF Typed
<1> QED
  BY <1>3, <1>4

LEMMA MoveIsSoft ==
  ASSUME Typed, NEW r \in Runners, NEW pc \in Pcs, NEW result \in Results,
         NEW succeeded \in BOOLEAN,
         pc \in {"state", "decide", "enqueue", "previous", "write", "audit"}
             => runner[r].task \in DOMAIN Tasks,
         r \notin Processes => pc \notin {"actor", "state", "acquire"},
         runner[r].pc # "idle", Leads(r),
         Become(r, [runner[r] EXCEPT !.pc = pc, !.result = result, !.succeeded = succeeded])
  PROVE  Soft(r, [runner[r] EXCEPT !.pc = pc, !.result = result, !.succeeded = succeeded])
<1>1. runner[r] \in States
  BY DEF Typed
<1> DEFINE new == [runner[r] EXCEPT !.pc = pc, !.result = result, !.succeeded = succeeded]
<1>2. Placed(r, new)
  BY MovedPlaced
<1>3. new.at = runner[r].at
  BY <1>1 DEF States
<1> QED
  BY <1>2, <1>3 DEF Soft, Leading, Leads

\* Goto and Record are such moves.
LEMMA GotoIsSoft ==
  ASSUME Typed, NEW r \in Runners, NEW pc \in Pcs, Leads(r), Goto(r, pc),
         pc \in {"state", "decide", "enqueue", "previous", "write", "audit"}
             => runner[r].task \in DOMAIN Tasks,
         r \notin Processes => pc \notin {"actor", "state", "acquire"}
  PROVE  \E new : Soft(r, new) /\ new.pc = pc /\ new.task = runner[r].task
                  /\ new.now = runner[r].now /\ new.result = runner[r].result
                  /\ new.succeeded = runner[r].succeeded
<1>1. runner[r] \in States /\ runner[r].result \in Results /\ runner[r].succeeded \in BOOLEAN
  BY DEF Typed, States
<1> DEFINE new == [runner[r] EXCEPT !.pc = pc, !.result = runner[r].result,
                                    !.succeeded = runner[r].succeeded]
<1>2. new = [runner[r] EXCEPT !.pc = pc]
  BY <1>1 DEF States
<1>3. Become(r, new)
  BY <1>2 DEF Goto
<1>4. Soft(r, new)
  BY <1>1, <1>3, MoveIsSoft DEF Leads
<1>5. new.pc = pc /\ new.task = runner[r].task /\ new.now = runner[r].now
      /\ new.result = runner[r].result /\ new.succeeded = runner[r].succeeded
  BY <1>1 DEF States
<1> HIDE DEF new
<1> QED
  BY <1>4, <1>5

LEMMA RecordIsSoft ==
  ASSUME Typed, NEW r \in Runners, NEW result \in Results, Record(r, result),
         Leads(r), runner[r].task \in DOMAIN Tasks
  PROVE  \E new : Soft(r, new) /\ new.pc = "previous"
<1>1. runner[r] \in States
  BY DEF Typed
<1> DEFINE new == [runner[r] EXCEPT !.pc = "previous", !.result = result, !.succeeded = FALSE]
<1>2. Become(r, new)
  BY DEF Record
<1>3. "previous" \in Pcs /\ FALSE \in BOOLEAN
  BY DEF Pcs
<1>4. Soft(r, new)
  BY <1>2, <1>3, MoveIsSoft DEF Leads
<1>5. new.pc = "previous"
  BY <1>1 DEF States
<1> HIDE DEF new
<1> QED
  BY <1>4, <1>5

LEMMA EndIsSoft ==
  ASSUME Typed, NEW r \in Runners, NEW new \in {Releasing(r), Resting(r), Idle},
         runner[r].pc # "idle", Become(r, new)
  PROVE  Soft(r, new) /\ new.pc \in {"release", "idle"}
<1>1. Placed(r, new) /\ new.pc \in {"release", "idle"}
  BY NextRecords, IdleFacts
<1>2. new.pc = "idle" \/ new.at = runner[r].at
  BY NextRecords, IdleFacts
<1> QED
  BY <1>1, <1>2 DEF Soft, Leading

LEMMA FinishIsSoft ==
  ASSUME Typed, NEW r \in Runners, runner[r].pc \in {"state", "write", "audit"},
         Become(r, Finished(r))
  PROVE  Soft(r, Finished(r)) /\ Finished(r).pc \in {"state", "release"}
<1>1. Placed(r, Finished(r)) /\ Finished(r).at = runner[r].at
      /\ Finished(r).pc \in {"state", "release"}
  BY FinishedPlaced
<1> QED
  BY <1>1 DEF Soft, Leading

(***************************************************************************)
(* One lemma per action: its step of the runner is soft, the rest is typed.*)
(***************************************************************************)
RestTyped ==
    /\ active \in [TaskSet -> 0..ActiveCap]
    /\ state \in [TaskSet -> Rows]
    /\ FaultsTyped

LEMMA RestFacts == Typed => RestTyped
BY DEF Typed, RestTyped

LEMMA RestKept ==
  ASSUME Typed, UNCHANGED <<active, state, faults>> PROVE RestTyped'
BY DEF Typed, RestTyped, FaultsTyped

LEMMA FailureCounted ==
  ASSUME Typed, faults.failures < MaxFailures,
         faults' = [faults EXCEPT !.failures = @ + 1]
  PROVE  FaultsTyped'
<1>1. faults.failures + 1 \in 0..MaxFailures
  BY ConstantFacts DEF Typed, FaultsTyped
<1> QED
  BY <1>1 DEF Typed, FaultsTyped

LEMMA ResolveActorStep ==
  ASSUME Typed, NEW p \in Processes, ResolveActor(p)
  PROVE  (\E new : Soft(p, new) /\ new.pc = "state") /\ RestTyped'
<1>1. p \in Runners /\ runner[p] \in States
  BY ConstantFacts DEF Typed
<1>2. PICK found \in BOOLEAN :
        /\ found \/ faults.failures < MaxFailures
        /\ faults' = IF found THEN faults ELSE [faults EXCEPT !.failures = @ + 1]
        /\ Become(p, [runner[p] EXCEPT !.actor = found, !.now = 0, !.task = 1,
                                       !.pc = "state"])
  BY DEF ResolveActor
<1> DEFINE new == [runner[p] EXCEPT !.actor = found, !.now = 0, !.task = 1, !.pc = "state"]
<1>3. 1 \in 0..Len(Tasks) /\ 1 \in DOMAIN Tasks
  BY ConstantFacts
<1>4. new \in States /\ new.pc = "state" /\ new.task = 1 /\ new.at = runner[p].at
  <2>1. "state" \in Pcs /\ 0 \in Int
    BY DEF Pcs
  <2> DEFINE once == [runner[p] EXCEPT !.actor = found, !.now = 0]
  <2>2. once \in States /\ once.at = runner[p].at
    BY <1>1, <2>1 DEF States
  <2>3. new = [once EXCEPT !.task = 1, !.pc = "state"]
    BY <1>1 DEF States
  <2> HIDE DEF once, new
  <2> QED
    BY <1>3, <2>1, <2>2, <2>3 DEF States
<1>5. Become(p, new)
  BY <1>2
<1> HIDE DEF new
<1>6. Placed(p, new)
  BY <1>3, <1>4 DEF Placed
<1>7. Soft(p, new)
  BY <1>4, <1>5, <1>6 DEF Soft, Leading, ResolveActor
<1>8. FaultsTyped'
  BY <1>2, FailureCounted DEF Typed, FaultsTyped
<1> QED
  BY <1>4, <1>7, <1>8 DEF RestTyped, Typed, ResolveActor

LEMMA ExecuteTaskIfDueStep ==
  ASSUME Typed, NEW p \in Processes, ExecuteTaskIfDue(p)
  PROVE  /\ \E new : /\ Soft(p, new) /\ new.pc \in {"state", "release", "previous", "decide"}
                     /\ new.pc = "decide" => /\ IsDue(TaskOf(p), runner[p].now)
                                             /\ new.task = runner[p].task
                                             /\ new.now = runner[p].now
         /\ UNCHANGED <<active, state, faults>>
<1>1. p \in Runners /\ Leads(p) /\ runner[p].task \in DOMAIN Tasks /\ runner[p].pc = "state"
  BY ConstantFacts, TaskFacts DEF ExecuteTaskIfDue, Leads
<1>2. \/ Become(p, Finished(p))
      \/ Record(p, "skipped_disabled")
      \/ Goto(p, "decide") /\ IsDue(TaskOf(p), runner[p].now)
  BY DEF ExecuteTaskIfDue
<1>3. "skipped_disabled" \in Results /\ "decide" \in Pcs
  BY DEF Results, Pcs
<1>4. CASE Become(p, Finished(p))
  BY <1>1, <1>4, FinishIsSoft DEF ExecuteTaskIfDue
<1>5. CASE Record(p, "skipped_disabled")
  BY <1>1, <1>3, <1>5, RecordIsSoft DEF ExecuteTaskIfDue
<1>6. CASE Goto(p, "decide") /\ IsDue(TaskOf(p), runner[p].now)
  BY <1>1, <1>3, <1>6, GotoIsSoft DEF ExecuteTaskIfDue
<1> QED
  BY <1>2, <1>4, <1>5, <1>6

LEMMA ExecuteTaskStep ==
  ASSUME Typed, NEW r \in Runners, ExecuteTask(r)
  PROVE  /\ \E new : /\ Soft(r, new) /\ new.pc \in {"previous", "enqueue"}
                     /\ new.pc = "enqueue" => /\ active[TaskOf(r)] = 0
                                              /\ new.task = runner[r].task
                                              /\ new.now = runner[r].now
         /\ UNCHANGED <<active, state, faults>> /\ runner[r].pc = "decide"
<1>1. Leads(r) /\ runner[r].task \in DOMAIN Tasks /\ runner[r].pc = "decide"
      /\ active[TaskOf(r)] \in Nat
  BY TaskFacts, ConstantFacts DEF ExecuteTask, Leads
<1>2. \/ \E result \in {"skipped_disabled", "failed", "skipped_active"} : Record(r, result)
      \/ Goto(r, "enqueue") /\ active[TaskOf(r)] = 0
  BY <1>1 DEF ExecuteTask
<1>3. {"skipped_disabled", "failed", "skipped_active"} \subseteq Results /\ "enqueue" \in Pcs
  BY DEF Results, Pcs
<1>4. ASSUME NEW result \in {"skipped_disabled", "failed", "skipped_active"}, Record(r, result)
      PROVE  \E new : Soft(r, new) /\ new.pc = "previous"
  BY <1>1, <1>3, <1>4, RecordIsSoft
<1>5. CASE Goto(r, "enqueue") /\ active[TaskOf(r)] = 0
  BY <1>1, <1>3, <1>5, GotoIsSoft DEF ExecuteTask
<1> QED
  BY <1>1, <1>2, <1>4, <1>5 DEF ExecuteTask

LEMMA OneMore ==
  ASSUME Typed, NEW t \in TaskSet, active[t] < ActiveCap
  PROVE  [active EXCEPT ![t] = @ + 1] \in [TaskSet -> 0..ActiveCap]
<1>1. active \in [TaskSet -> 0..ActiveCap] /\ active[t] + 1 \in 0..ActiveCap
  BY ConstantFacts DEF Typed
<1> QED
  BY <1>1

LEMMA EnqueueTaskStep ==
  ASSUME Typed, NEW r \in Runners, EnqueueTask(r)
  PROVE  /\ \E new : Soft(r, new) /\ new.pc = "previous"
         /\ RestTyped' /\ UNCHANGED state
         /\ active' = [active EXCEPT ![TaskOf(r)] = @ + 1] /\ runner[r].pc = "enqueue"
<1>1. Leads(r) /\ runner[r].task \in DOMAIN Tasks /\ TaskOf(r) \in TaskSet
  BY TaskFacts DEF EnqueueTask, Leads
<1>2. Record(r, "queued") /\ active[TaskOf(r)] < ActiveCap
      /\ active' = [active EXCEPT ![TaskOf(r)] = @ + 1] /\ UNCHANGED <<state, faults>>
  BY DEF EnqueueTask
<1>3. "queued" \in Results
  BY DEF Results
<1>4. active' \in [TaskSet -> 0..ActiveCap]
  BY <1>1, <1>2, OneMore
<1> QED
  BY <1>1, <1>2, <1>3, <1>4, RecordIsSoft DEF EnqueueTask, RestTyped, Typed, FaultsTyped

LEMMA ReadPreviousStep ==
  ASSUME Typed, NEW r \in Runners, ReadPrevious(r)
  PROVE  /\ \E new : /\ Soft(r, new) /\ new.pc = "write" /\ new.task = runner[r].task
                     /\ new.succeeded = state[TaskOf(r)].succeeded
         /\ UNCHANGED <<active, state, faults>> /\ runner[r].pc = "previous"
<1>1. Leads(r) /\ runner[r].task \in DOMAIN Tasks /\ runner[r].pc = "previous"
      /\ state[TaskOf(r)].succeeded \in BOOLEAN
      /\ runner[r] \in States /\ runner[r].result \in Results
  BY TaskFacts DEF ReadPrevious, Leads, Rows, States, Typed
<1> DEFINE s == state[TaskOf(r)].succeeded
           new == [runner[r] EXCEPT !.pc = "write", !.result = runner[r].result,
                                    !.succeeded = s]
<1>2. [runner[r] EXCEPT !.pc = "write", !.succeeded = s] = new
  BY <1>1 DEF States
<1>3. Become(r, new)
  BY <1>2 DEF ReadPrevious
<1>4. "write" \in Pcs
  BY DEF Pcs
<1>5. Soft(r, new)
  BY <1>1, <1>3, <1>4, MoveIsSoft
<1>6. new.pc = "write" /\ new.task = runner[r].task /\ new.succeeded = s
  BY <1>1 DEF States
<1> HIDE DEF new
<1> QED
  BY <1>1, <1>5, <1>6 DEF ReadPrevious

LEMMA NewStateTyped ==
  ASSUME Typed, NEW r \in Runners, runner[r].pc = "write"
  PROVE  /\ NewState(r) \in Rows
         /\ NewState(r).succeeded = (runner[r].result = "queued" \/ runner[r].succeeded)
         /\ [state EXCEPT ![TaskOf(r)] = NewState(r)] \in [TaskSet -> Rows]
<1>1. TaskOf(r) \in TaskSet /\ runner[r] \in States /\ runner[r].now \in Int
      /\ runner[r].result \in Results /\ runner[r].succeeded \in BOOLEAN
  BY TaskFacts DEF Typed, States
<1> DEFINE next == NextRunAt(TaskOf(r), runner[r].now)
           done == runner[r].result = "queued" \/ runner[r].succeeded
<1>2. next \in Offsets
  <2>1. Interval[TaskOf(r)] \in Nat
    BY <1>1, ConstantFacts
  <2> QED
    BY <1>1, <2>1 DEF NextRunAt, Offsets
<1>3. done \in BOOLEAN
  OBVIOUS
<1>4. NewState(r) = [nextRunAt |-> next, result |-> runner[r].result, succeeded |-> done]
  BY DEF NewState
<1> HIDE DEF next, done
<1>5. NewState(r) \in Rows /\ NewState(r).succeeded = done
  BY <1>1, <1>2, <1>3, <1>4 DEF Rows
<1>6. [state EXCEPT ![TaskOf(r)] = NewState(r)] \in [TaskSet -> Rows]
  BY <1>1, <1>5 DEF Typed
<1> QED
  BY <1>5, <1>6 DEF done

LEMMA WriteTaskStateStep ==
  ASSUME Typed, NEW r \in Runners, WriteTaskState(r)
  PROVE  /\ \E new : Soft(r, new) /\ new.pc \in {"audit", "state", "release"}
         /\ RestTyped' /\ UNCHANGED active
         /\ state' = [state EXCEPT ![TaskOf(r)] = NewState(r)] /\ runner[r].pc = "write"
<1>1. Leads(r) /\ runner[r].task \in DOMAIN Tasks /\ runner[r].pc = "write"
  BY TaskFacts DEF WriteTaskState, Leads
<1>2. Goto(r, "audit") \/ Become(r, Finished(r))
  BY DEF WriteTaskState
<1>3. "audit" \in Pcs
  BY DEF Pcs
<1>4. CASE Goto(r, "audit")
  <2>1. \E new : Soft(r, new) /\ new.pc = "audit"
    BY <1>1, <1>3, <1>4, GotoIsSoft
  <2> QED
    BY <2>1, <1>1, NewStateTyped DEF WriteTaskState, RestTyped, Typed, FaultsTyped
<1>5. CASE Become(r, Finished(r))
  <2>1. Soft(r, Finished(r)) /\ Finished(r).pc \in {"state", "release"}
    BY <1>1, <1>5, FinishIsSoft
  <2> QED
    BY <2>1, <1>1, NewStateTyped DEF WriteTaskState, RestTyped, Typed, FaultsTyped
<1> QED
  BY <1>2, <1>4, <1>5

LEMMA RecordAuditStep ==
  ASSUME Typed, NEW r \in Runners, RecordAudit(r)
  PROVE  /\ \E new : Soft(r, new) /\ new.pc \in {"state", "release"}
         /\ UNCHANGED <<active, state, faults>>
<1>1. Soft(r, Finished(r)) /\ Finished(r).pc \in {"state", "release"}
  BY FinishIsSoft DEF RecordAudit
<1> QED
  BY <1>1 DEF RecordAudit

LEMMA ReleaseLockStep ==
  ASSUME Typed, NEW r \in Runners, ReleaseLock(r)
  PROVE  /\ \E new : Soft(r, new) /\ new.pc \in {"release", "idle"}
         /\ UNCHANGED <<active, state, faults>>
<1>1. Soft(r, Resting(r)) /\ Resting(r).pc \in {"release", "idle"}
  BY EndIsSoft DEF ReleaseLock
<1> QED
  BY <1>1 DEF ReleaseLock

LEMMA CallThrowsStep ==
  ASSUME Typed, NEW r \in Runners, CallThrows(r)
  PROVE  /\ \E new : Soft(r, new) /\ new.pc \in {"previous", "release", "idle"}
         /\ RestTyped' /\ UNCHANGED lock
         /\ \/ UNCHANGED active
            \/ /\ active' = [active EXCEPT ![TaskOf(r)] = @ + 1]
               /\ runner[r].pc = "enqueue"
         /\ \/ UNCHANGED state
            \/ /\ state' = [state EXCEPT ![TaskOf(r)] = NewState(r)]
               /\ runner[r].pc = "write"
<1>1. runner[r].pc # "idle" /\ UNCHANGED lock /\ runner[r] \in States
  BY DEF CallThrows, Typed
<1>2. \/ InTry(r) /\ Record(r, "failed")
      \/ \E new \in {Resting(r), Idle, Releasing(r)} : Become(r, new)
  BY DEF CallThrows
<1>3. ASSUME InTry(r), Record(r, "failed")
      PROVE  \E new : Soft(r, new) /\ new.pc = "previous"
  <2>1. Leads(r) /\ runner[r].task \in DOMAIN Tasks
    BY <1>3, TaskFacts DEF InTry, Leads
  <2>2. "failed" \in Results
    BY DEF Results
  <2> QED
    BY <1>3, <2>1, <2>2, RecordIsSoft
<1>4. ASSUME NEW new \in {Resting(r), Idle, Releasing(r)}, Become(r, new)
      PROVE  Soft(r, new) /\ new.pc \in {"release", "idle"}
  BY <1>1, <1>4, EndIsSoft
<1>5. \/ UNCHANGED active
      \/ /\ active' = [active EXCEPT ![TaskOf(r)] = @ + 1]
         /\ runner[r].pc = "enqueue" /\ active[TaskOf(r)] < ActiveCap
  BY DEF CallThrows
<1>6. \/ UNCHANGED state
      \/ state' = [state EXCEPT ![TaskOf(r)] = NewState(r)] /\ runner[r].pc = "write"
  BY DEF CallThrows
<1>7. active' \in [TaskSet -> 0..ActiveCap]
  BY <1>5, OneMore, TaskFacts DEF Typed
<1>8. state' \in [TaskSet -> Rows]
  BY <1>6, NewStateTyped DEF Typed
<1>9. FaultsTyped'
  BY FailureCounted DEF CallThrows
<1>10. \E new : Soft(r, new) /\ new.pc \in {"previous", "release", "idle"}
  BY <1>2, <1>3, <1>4
<1> QED
  BY <1>1, <1>5, <1>6, <1>7, <1>8, <1>9, <1>10 DEF RestTyped

LEMMA CrashStep ==
  ASSUME Typed, NEW r \in Runners, Crash(r)
  PROVE  /\ \E new : Soft(r, new) /\ new.pc = "idle"
         /\ RestTyped' /\ UNCHANGED <<lock, active, state>>
<1>1. Soft(r, Idle)
  BY EndIsSoft DEF Crash
<1>2. FaultsTyped'
  BY FailureCounted DEF Crash
<1> QED
  BY <1>1, <1>2, IdleFacts DEF Crash, RestTyped, Typed

\* A tick or a request begins.
Begins(r, new) == /\ Placed(r, new) /\ Become(r, new)
                  /\ new.pc = "acquire" /\ new.at = 0

LEMMA TickStartStep ==
  ASSUME Typed, NEW p \in Processes, TickStart(p)
  PROVE  (\E new : Begins(p, new)) /\ UNCHANGED <<lock, active, state, faults>>
<1> DEFINE new == [Idle EXCEPT !.pc = "acquire", !.at = 0]
           z == 0
<1>1. new \in States /\ new.pc = "acquire" /\ new.at = 0
  <2>1. z \in Int /\ z = 0 /\ "acquire" \in Pcs
    BY DEF Pcs
  <2>2. new = [Idle EXCEPT !.pc = "acquire", !.at = z]
    OBVIOUS
  <2> HIDE DEF z, new
  <2> QED
    BY <2>1, <2>2, IdleFacts DEF States
<1>2. Become(p, new)
  BY DEF TickStart
<1> HIDE DEF new
<1> QED
  BY <1>1, <1>2, ConstantFacts DEF Begins, Placed, TickStart

LEMMA RunTaskNowStep ==
  ASSUME Typed, NEW q \in Requests, NEW k \in DOMAIN Tasks, RunTaskNow(q, k)
  PROVE  (\E new : Begins(q, new)) /\ UNCHANGED <<lock, active, state>> /\ FaultsTyped'
<1> DEFINE new == [Idle EXCEPT !.pc = "acquire", !.at = 0, !.task = k]
<1>1. k \in 0..Len(Tasks)
  BY ConstantFacts
<1>2. new \in States /\ new.pc = "acquire" /\ new.at = 0 /\ new.task = k
  <2> DEFINE z == 0
  <2>1. z \in Int /\ z = 0 /\ "acquire" \in Pcs
    BY DEF Pcs
  <2>2. new = [Idle EXCEPT !.pc = "acquire", !.at = z, !.task = k]
    OBVIOUS
  <2> HIDE DEF z, new
  <2> QED
    BY <1>1, <2>1, <2>2, IdleFacts DEF States
<1>3. Become(q, new)
  BY DEF RunTaskNow
<1> HIDE DEF new
<1>4. Placed(q, new)
  BY <1>2 DEF Placed
<1>5. FaultsTyped'
  <2>1. faults.requests + 1 \in 0..MaxRequests
    BY ConstantFacts DEF Typed, FaultsTyped, RunTaskNow
  <2> QED
    BY <2>1 DEF Typed, FaultsTyped, RunTaskNow
<1> QED
  BY <1>2, <1>3, <1>4, <1>5 DEF Begins, RunTaskNow

\* The runner takes the lock, or gives up.
Takes(r, new) ==
    /\ Placed(r, new) /\ Become(r, new) /\ new.at = runner[r].at
    /\ lock' = [value |-> LockValue(r), ttl |-> LockTTL]
    /\ new.pc = IF Scheduled(r) THEN "actor" ELSE "decide"

LEMMA AcquireLockStep ==
  ASSUME Typed, NEW r \in Runners, AcquireLock(r)
  PROVE  /\ UNCHANGED <<active, state, faults>> /\ runner[r].pc = "acquire"
         /\ \/ lock = NoLock /\ \E new : Takes(r, new)
            \/ UNCHANGED lock /\ \E new : Soft(r, new) /\ new.pc \in {"release", "idle"}
<1>1. runner[r].pc = "acquire" /\ runner[r] \in States /\ UNCHANGED <<active, state, faults>>
  BY DEF AcquireLock, Typed
<1>2. CASE /\ lock = NoLock
           /\ lock' = [value |-> LockValue(r), ttl |-> LockTTL]
           /\ Goto(r, IF Scheduled(r) THEN "actor" ELSE "decide")
  <2> DEFINE pc  == IF Scheduled(r) THEN "actor" ELSE "decide"
             new == [runner[r] EXCEPT !.pc = pc]
  <2>1. pc \in Pcs
    BY DEF Pcs
  <2>2. Become(r, new)
    BY <1>2 DEF Goto
  <2>3. pc = "decide" => runner[r].task \in DOMAIN Tasks
    BY <1>1 DEF Typed, Placed, Scheduled
  <2>4. pc \in {"actor", "decide"} /\ (r \notin Processes => pc # "actor")
    BY DEF Scheduled
  <2>5. lock = NoLock /\ lock' = [value |-> LockValue(r), ttl |-> LockTTL]
    BY <1>2
  <2>6. new.pc = IF Scheduled(r) THEN "actor" ELSE "decide"
    BY <1>1 DEF States
  <2> HIDE DEF pc
  <2>7. new \in States /\ new.pc = pc /\ new.at = runner[r].at /\ new.task = runner[r].task
    BY <1>1, <2>1 DEF States
  <2> HIDE DEF new
  <2>8. Placed(r, new)
    BY <2>3, <2>4, <2>7 DEF Placed
  <2> QED
    BY <1>1, <2>2, <2>5, <2>6, <2>7, <2>8 DEF Takes
<1>3. CASE UNCHANGED lock /\ Become(r, IF Scheduled(r) THEN Releasing(r) ELSE Idle)
  <2>1. \E new \in {Releasing(r), Resting(r), Idle} : Become(r, new)
    BY <1>3
  <2> QED
    BY <1>1, <1>3, <2>1, EndIsSoft
<1> QED
  BY <1>1, <1>2, <1>3 DEF AcquireLock

\* The clock.
LEMMA TickStep1 ==
  ASSUME Typed, Tick
  PROVE  /\ \A r \in Runners : runner'[r] = AgedRunner(runner[r])
         /\ \A r \in Runners : /\ AgedRunner(runner[r]).pc = runner[r].pc
                               /\ AgedRunner(runner[r]).task = runner[r].task
                                    \/ runner[r].pc = "idle"
                               /\ Placed(r, AgedRunner(runner[r]))
         /\ runner' \in [Runners -> States] /\ RestTyped' /\ LockTyped'
<1>1. /\ \A r \in Runners : runner'[r] = AgedRunner(runner[r])
      /\ runner' = [r \in Runners |-> AgedRunner(runner[r])]
  BY DEF Tick
<1>2. ASSUME NEW r \in Runners
      PROVE  /\ AgedRunner(runner[r]).pc = runner[r].pc
             /\ AgedRunner(runner[r]).task = runner[r].task \/ runner[r].pc = "idle"
             /\ Placed(r, AgedRunner(runner[r]))
  <2>1. CASE runner[r].pc = "idle"
    BY <2>1, IdleFacts DEF AgedRunner
  <2>2. CASE runner[r].pc # "idle"
    <3> DEFINE l == runner[r]
               new == [l EXCEPT !.at = Aged(l.at), !.now = Aged(l.now)]
    <3>0. l \in States /\ l.at \in Offsets \ {Null} /\ l.now \in Offsets \ {Null}
      BY ConstantFacts DEF Typed, States, Offsets
    <3>1. l \in States /\ Aged(l.at) \in Int /\ Aged(l.now) \in Int
      BY <3>0, AgedFacts
    <3>2. AgedRunner(l) = new
      BY <2>2 DEF AgedRunner
    <3>3. new \in States /\ new.pc = l.pc /\ new.task = l.task
      BY <3>1 DEF States
    <3>4. Placed(r, l)
      BY DEF Typed
    <3> HIDE DEF new
    <3> QED
      BY <3>2, <3>3, <3>4 DEF Placed
  <2> QED
    BY <2>1, <2>2
<1>3. runner' \in [Runners -> States]
  BY <1>1, <1>2 DEF Placed
<1>4. state' \in [TaskSet -> Rows]
  <2>1. \A t \in TaskSet : [state[t] EXCEPT !.nextRunAt = Aged(@)] \in Rows
    BY AgedFacts DEF Typed, Rows
  <2> QED
    BY <2>1 DEF Tick
<1>5. LockTyped'
  <2>1. CASE lock.ttl <= 1
    BY <2>1 DEF Tick, AgedLock, LockTyped
  <2>2. CASE ~(lock.ttl <= 1)
    <3>1. lock # NoLock
      BY <2>2 DEF NoLock
    <3>2. lock \in Locks /\ lock.ttl \in 1..LockTTL /\ lock.value.at \in Int
      BY <3>1 DEF Typed, LockTyped, Locks
    <3>3. lock' = [lock EXCEPT !.ttl = lock.ttl - 1, !.value.at = Aged(lock.value.at)]
      BY <2>2 DEF Tick, AgedLock
    <3>4. lock.ttl - 1 \in 1..LockTTL /\ Aged(lock.value.at) \in Int
      <4>1. lock.ttl - 1 \in 1..LockTTL
        BY <2>2, <3>2, ConstantFacts
      <4>2. lock.value.at \in Offsets /\ lock.value.at # Null
        BY <3>2, ConstantFacts DEF Offsets
      <4>3. Aged(lock.value.at) \in Int
        BY <4>2, AgedFacts
      <4> QED
        BY <4>1, <4>3
    <3>5. lock' \in Locks
      <4> DEFINE a == Aged(lock.value.at)
                 v == [lock.value EXCEPT !.at = a]
                 n == lock.ttl - 1
      <4>1. lock' = [lock EXCEPT !.ttl = n, !.value = v]
        BY <3>2, <3>3 DEF Locks
      <4>2. lock.value \in [by: Names, at: Int] /\ a \in Int /\ n \in 1..LockTTL
        BY <3>2, <3>4 DEF Locks
      <4> HIDE DEF a, n
      <4>3. v \in [by: Names, at: Int]
        BY <4>2
      <4> HIDE DEF v
      <4> QED
        BY <3>2, <4>1, <4>2, <4>3 DEF Locks
    <3> QED
      BY <3>5 DEF LockTyped
  <2> QED
    BY <2>1, <2>2
<1> QED
  BY <1>1, <1>2, <1>3, <1>4, <1>5 DEF RestTyped, Typed, FaultsTyped, Tick

(***************************************************************************)
(* Types                                                                   *)
(***************************************************************************)
LEMMA InitTyped == Init => Typed
<1> SUFFICES ASSUME Init PROVE Typed
  OBVIOUS
<1>1. NoState \in Rows
  BY DEF NoState, Rows, Offsets, Results
<1>2. state \in [TaskSet -> Rows]
  BY <1>1 DEF Init
<1>3. active \in [TaskSet -> 0..ActiveCap]
  BY ConstantFacts DEF Init
<1>4. runner \in [Runners -> States] /\ \A r \in Runners : Placed(r, runner[r])
  BY IdleFacts DEF Init
<1>5. FaultsTyped
  BY ConstantFacts DEF Init, FaultsTyped
<1> QED
  BY <1>2, <1>3, <1>4, <1>5 DEF Typed, Init, LockTyped

LEMMA RunnerStepTyped ==
  ASSUME Typed, NEW r \in Runners, NEW new, Placed(r, new), Become(r, new),
         RestTyped', LockTyped'
  PROVE  Typed'
BY BecomeFacts DEF Typed, RestTyped

\* What the actions of the runners make of the lock.
LEMMA LockSteps ==
  ASSUME Typed, NEW r \in Runners
  PROVE  /\ UNCHANGED lock \/ lock' = NoLock => LockTyped'
         /\ lock' = [value |-> LockValue(r), ttl |-> LockTTL] => LockTyped'
         /\ ReleaseLock(r) => UNCHANGED lock \/ lock' = NoLock
<1>1. UNCHANGED lock \/ lock' = NoLock => LockTyped'
  BY DEF Typed, LockTyped
<1>2. LockValue(r) \in [by: Names, at: Int]
  BY DEF LockValue, Names, Typed, States
<1>3. LockTTL \in 1..LockTTL
  BY ConstantFacts
<1>4. lock' = [value |-> LockValue(r), ttl |-> LockTTL] => LockTyped'
  BY <1>2, <1>3 DEF LockTyped, Locks
<1> QED
  BY <1>1, <1>4 DEF ReleaseLock

LEMMA SoftTyped ==
  ASSUME Typed, NEW r \in Runners, \E new : Soft(r, new), RestTyped',
         UNCHANGED lock \/ lock' = NoLock
  PROVE  Typed'
BY RunnerStepTyped, LockSteps DEF Soft

LEMMA RunnerTyped == ASSUME Typed, NEW r \in Runners, RunnerStep(r) PROVE Typed'
<1>1. CASE AcquireLock(r)
  <2>1. RestTyped' /\ \/ \E new : Takes(r, new)
                      \/ UNCHANGED lock /\ \E new : Soft(r, new)
    BY <1>1, AcquireLockStep, RestKept
  <2>2. CASE \E new : Takes(r, new)
    BY <2>1, <2>2, LockSteps, RunnerStepTyped DEF Takes
  <2> QED
    BY <2>1, <2>2, SoftTyped
<1>2. CASE ExecuteTask(r)
  BY <1>2, ExecuteTaskStep, RestKept, SoftTyped DEF ExecuteTask
<1>3. CASE EnqueueTask(r)
  BY <1>3, EnqueueTaskStep, SoftTyped DEF EnqueueTask
<1>4. CASE ReadPrevious(r)
  BY <1>4, ReadPreviousStep, RestKept, SoftTyped DEF ReadPrevious
<1>5. CASE WriteTaskState(r)
  BY <1>5, WriteTaskStateStep, SoftTyped DEF WriteTaskState
<1>6. CASE RecordAudit(r)
  BY <1>6, RecordAuditStep, RestKept, SoftTyped DEF RecordAudit
<1>7. CASE ReleaseLock(r)
  BY <1>7, ReleaseLockStep, RestKept, SoftTyped, LockSteps
<1> QED
  BY <1>1, <1>2, <1>3, <1>4, <1>5, <1>6, <1>7 DEF RunnerStep

LEMMA TickTyped == ASSUME Typed, Tick PROVE Typed'
BY TickStep1 DEF Typed, RestTyped

LEMMA JobsTyped ==
  ASSUME Typed, NEW t \in TaskSet, JobEnds(t) \/ EnqueueDirect(t) PROVE Typed'
<1>1. active \in [TaskSet -> 0..ActiveCap] /\ active[t] \in 0..ActiveCap
  BY DEF Typed
<1>2. active' \in [TaskSet -> 0..ActiveCap]
  <2>1. CASE JobEnds(t)
    <3>1. active[t] - 1 \in 0..ActiveCap
      BY <1>1, <2>1, ConstantFacts DEF JobEnds
    <3> QED
      BY <1>1, <2>1, <3>1 DEF JobEnds
  <2>2. CASE EnqueueDirect(t)
    BY <2>2, OneMore DEF EnqueueDirect
  <2> QED
    BY <2>1, <2>2
<1> QED
  BY <1>2 DEF Typed, LockTyped, FaultsTyped, JobEnds, EnqueueDirect

LEMMA NextTyped == Typed /\ [Next]_vars => Typed'
<1> SUFFICES ASSUME Typed, [Next]_vars PROVE Typed'
  OBVIOUS
<1>1. ASSUME NEW p \in Processes, TickStep(p) PROVE Typed'
  <2>1. p \in Runners
    BY ConstantFacts
  <2>2. CASE TickStart(p)
    BY <2>1, <2>2, TickStartStep, RestKept, LockSteps, RunnerStepTyped DEF Begins
  <2>3. CASE ResolveActor(p)
    BY <2>1, <2>3, ResolveActorStep, SoftTyped DEF ResolveActor
  <2>4. CASE ExecuteTaskIfDue(p)
    BY <2>1, <2>4, ExecuteTaskIfDueStep, RestKept, SoftTyped DEF ExecuteTaskIfDue
  <2> QED
    BY <1>1, <2>1, <2>2, <2>3, <2>4, RunnerTyped DEF TickStep
<1>2. ASSUME NEW q \in Requests, RunnerStep(q) PROVE Typed'
  BY <1>2, RunnerTyped, ConstantFacts
<1>3. ASSUME NEW q \in Requests, NEW k \in DOMAIN Tasks, RunTaskNow(q, k) PROVE Typed'
  <2>1. q \in Runners
    BY ConstantFacts
  <2>2. RestTyped'
    BY <1>3, RunTaskNowStep DEF RestTyped, Typed
  <2> QED
    BY <1>3, <2>1, <2>2, RunTaskNowStep, LockSteps, RunnerStepTyped DEF Begins
<1>4. ASSUME NEW r \in Runners, CallThrows(r) \/ Crash(r) PROVE Typed'
  BY <1>4, CallThrowsStep, CrashStep, SoftTyped
<1>5. ASSUME NEW t \in TaskSet, JobEnds(t) \/ EnqueueDirect(t) PROVE Typed'
  BY <1>5, JobsTyped
<1>6. CASE UNCHANGED vars
  BY <1>6 DEF vars, Typed, LockTyped, FaultsTyped
<1> QED
  BY <1>1, <1>2, <1>3, <1>4, <1>5, <1>6, TickTyped DEF Next

\* Every reachable state is well typed: what Redis holds is a runner's value,
\* and a runner past its first read is at one of the tasks.
THEOREM TypeCorrect == Spec => []TypeOK
<1>1. Typed => TypeOK
  BY DEF Typed, TypeOK, LockTyped, Locks, Names, Rows, States, FaultsTyped
<1> QED
  BY InitTyped, NextTyped, <1>1, PTL DEF Spec

(***************************************************************************)
(* One leader                                                              *)
(***************************************************************************)
Young == \A r \in Runners : runner[r].pc # "idle" => runner[r].at \in (-MaxDelay)..0

\* Whoever leads has the lock, and has it for the rest of its time.
Held == \A r \in Runners :
            Leads(r) => /\ lock # NoLock /\ lock.value = LockValue(r)
                        /\ lock.ttl >= LockTTL + runner[r].at

LInv == Typed /\ Young /\ Held

LEMMA HeldIsSole == DistinctNames /\ Typed /\ Held => SoleLeader
<1> SUFFICES ASSUME DistinctNames, Typed, Held, NEW q \in Runners, NEW r \in Runners,
                    Leads(q), Leads(r)
             PROVE  q = r
  BY DEF SoleLeader
<1>1. LockValue(q) = LockValue(r)
  BY DEF Held
<1>2. LockValue(q).by = Instance[q] /\ LockValue(r).by = Instance[r]
  BY DEF LockValue
<1> QED
  BY <1>1, <1>2 DEF DistinctNames

LEMMA SoftHeld ==
  ASSUME LInv, NEW r \in Runners, \E new : Soft(r, new),
         \/ UNCHANGED lock
         \/ \A q \in Runners : q # r => ~Leads(q) \/ lock' = lock,
         Leads(r)' => UNCHANGED lock
  PROVE  Young' /\ Held'
<1>1. PICK new : Soft(r, new)
  OBVIOUS
<1>2. /\ runner'[r] = new
      /\ \A q \in Runners : q # r => runner'[q] = runner[q]
      /\ new.pc # "idle" => new.at = runner[r].at /\ runner[r].pc # "idle"
      /\ Leads(r)' => Leads(r)
  BY <1>1, BecomeFacts DEF Soft, LInv, Leads, Leading
<1>3. Young'
  BY <1>2 DEF LInv, Young
<1>4. ASSUME NEW q \in Runners, Leads(q)'
      PROVE  Leads(q) /\ runner'[q].at = runner[q].at /\ lock' = lock
  BY <1>2, <1>4 DEF Leads
<1>5. Held'
  BY <1>4 DEF LInv, Held, LockValue
<1> QED
  BY <1>3, <1>5

LEMMA BeginsHeld ==
  ASSUME LInv, NEW r \in Runners, \E new : Begins(r, new), UNCHANGED lock
  PROVE  Young' /\ Held'
<1>1. /\ \A q \in Runners : q # r => runner'[q] = runner[q]
      /\ runner'[r].pc = "acquire" /\ runner'[r].at = 0
  BY BecomeFacts DEF Begins, LInv
<1>2. 0 \in (-MaxDelay)..0
  BY ConstantFacts
<1>3. Young'
  BY <1>1, <1>2 DEF LInv, Young
<1>4. ASSUME NEW q \in Runners, Leads(q)' PROVE q # r /\ Leads(q)
  BY <1>1, <1>4 DEF Leads
<1>5. Held'
  BY <1>1, <1>4 DEF LInv, Held, LockValue
<1> QED
  BY <1>3, <1>5

LEMMA TakesHeld ==
  ASSUME LInv, NEW r \in Runners, lock = NoLock, \E new : Takes(r, new),
         runner[r].pc = "acquire"
  PROVE  Young' /\ Held'
<1>1. /\ \A q \in Runners : q # r => runner'[q] = runner[q]
      /\ runner'[r].at = runner[r].at
      /\ lock' = [value |-> LockValue(r), ttl |-> LockTTL]
  BY BecomeFacts DEF Takes, LInv
<1>2. runner[r].at \in (-MaxDelay)..0
  BY DEF LInv, Young
<1>3. Young'
  BY <1>1, <1>2 DEF LInv, Young
<1>4. \A q \in Runners : ~Leads(q)
  BY DEF LInv, Held
<1>5. lock' # NoLock /\ lock'.value = LockValue(r) /\ lock'.ttl = LockTTL
  <2>1. lock'.value = LockValue(r) /\ lock'.ttl = LockTTL
    BY <1>1
  <2>2. NoLock.ttl = 0
    BY DEF NoLock
  <2> QED
    BY <2>1, <2>2, ConstantFacts
<1>6. LockTTL >= LockTTL + runner[r].at
  BY <1>2, ConstantFacts
<1>7. LockValue(r)' = LockValue(r)
  BY <1>1 DEF LockValue
<1>8. Held'
  BY <1>1, <1>4, <1>5, <1>6, <1>7 DEF Held, Leads
<1> QED
  BY <1>3, <1>8

\* The clock frees no lock that a leader needs.
LEMMA TickHeld == ASSUME Prompt, LInv, Tick PROVE Young' /\ Held'
<1>1. \A r \in Runners : runner'[r] = AgedRunner(runner[r])
  BY DEF Tick
<1>2. ASSUME NEW r \in Runners, runner'[r].pc # "idle"
      PROVE  /\ runner[r].pc # "idle" /\ runner'[r].pc = runner[r].pc
             /\ runner[r].at \in (1 - MaxDelay)..0 /\ runner'[r].at = runner[r].at - 1
  <2>1. runner'[r].pc = runner[r].pc /\ runner[r].pc # "idle"
    BY <1>2, TickStep1 DEF LInv
  <2>2. runner[r].at \in (-MaxDelay)..0 /\ runner[r].at > -MaxDelay
    BY <2>1 DEF Tick, LInv, Young
  <2>3. Aged(runner[r].at) = runner[r].at - 1
    BY <2>2, ConstantFacts DEF Aged
  <2>4. runner[r] \in States
    BY DEF LInv, Typed
  <2>5. runner'[r] = [runner[r] EXCEPT !.at = Aged(@), !.now = Aged(@)]
    BY <1>1, <2>1 DEF AgedRunner
  <2>6. runner'[r].at = Aged(runner[r].at)
    BY <2>4, <2>5 DEF States
  <2> QED
    BY <2>1, <2>2, <2>3, <2>6, ConstantFacts
<1>3. Young'
  <2> SUFFICES ASSUME NEW r \in Runners, runner'[r].pc # "idle"
               PROVE  runner'[r].at \in (-MaxDelay)..0
    BY DEF Young
  <2> QED
    BY <1>2, ConstantFacts
<1>4. Held'
  <2> SUFFICES ASSUME NEW r \in Runners, Leads(r)'
               PROVE  /\ lock' # NoLock /\ lock'.value = LockValue(r)'
                      /\ lock'.ttl >= LockTTL + runner'[r].at
    BY DEF Held
  <2>1. runner'[r].pc # "idle"
    BY DEF Leads
  <2>2. /\ Leads(r) /\ runner[r].at \in (1 - MaxDelay)..0
        /\ runner'[r].at = runner[r].at - 1
    BY <2>1, <1>2 DEF Leads
  <2>3. lock # NoLock /\ lock.value = LockValue(r) /\ lock.ttl >= LockTTL + runner[r].at
    BY <2>2 DEF LInv, Held
  <2>4. lock \in Locks
    BY <2>3 DEF LInv, Typed, LockTyped
  <2>5. lock.ttl \in Int /\ lock.ttl > 1
    BY <2>2, <2>3, <2>4, ConstantFacts DEF Locks, Prompt
  <2> DEFINE n == lock.ttl - 1
             v == [lock.value EXCEPT !.at = Aged(lock.value.at)]
  <2>6. lock' = [lock EXCEPT !.ttl = n, !.value = v]
    BY <2>4, <2>5 DEF Tick, AgedLock, Locks
  <2> HIDE DEF n, v
  <2>7. lock'.ttl = n /\ lock'.value = v
    BY <2>4, <2>6 DEF Locks
  <2>8. n = lock.ttl - 1
    BY DEF n
  <2>9. lock' # NoLock
    <3>1. NoLock.ttl = 0 /\ n # 0
      BY <2>5, <2>8 DEF NoLock
    <3> QED
      BY <3>1, <2>7
  <2>10. v = LockValue(r)'
    <3>1. lock.value = [by |-> Instance[r], at |-> runner[r].at]
      BY <2>3 DEF LockValue
    <3>2. Aged(runner[r].at) = runner'[r].at
      BY <2>2, ConstantFacts DEF Aged
    <3>3. v = [by |-> Instance[r], at |-> Aged(runner[r].at)]
      BY <3>1 DEF v
    <3> QED
      BY <3>2, <3>3 DEF LockValue
  <2> QED
    BY <2>2, <2>3, <2>5, <2>7, <2>8, <2>9, <2>10, ConstantFacts
<1> QED
  BY <1>3, <1>4

LEMMA RunnerHeld ==
  ASSUME DistinctNames, LInv, NEW r \in Runners, RunnerStep(r)
  PROVE  Young' /\ Held'
<1> USE DEF LInv
<1>1. CASE AcquireLock(r)
  BY <1>1, AcquireLockStep, TakesHeld, SoftHeld
<1>2. CASE ExecuteTask(r)
  BY <1>2, ExecuteTaskStep, SoftHeld DEF ExecuteTask
<1>3. CASE EnqueueTask(r)
  BY <1>3, EnqueueTaskStep, SoftHeld DEF EnqueueTask
<1>4. CASE ReadPrevious(r)
  BY <1>4, ReadPreviousStep, SoftHeld DEF ReadPrevious
<1>5. CASE WriteTaskState(r)
  BY <1>5, WriteTaskStateStep, SoftHeld DEF WriteTaskState
<1>6. CASE RecordAudit(r)
  BY <1>6, RecordAuditStep, SoftHeld DEF RecordAudit
<1>7. CASE ReleaseLock(r)
  <2>1. PICK new : Soft(r, new) /\ new.pc \in {"release", "idle"}
    BY <1>7, ReleaseLockStep
  <2>2. ~Leads(r)'
    BY <2>1, BecomeFacts DEF Soft, Leads
  <2>3. lock' = IF lock.value = LockValue(r) THEN NoLock ELSE lock
    BY <1>7 DEF ReleaseLock
  <2>4. ASSUME NEW q \in Runners, q # r, Leads(q) PROVE lock' = lock
    <3>1. lock.value = LockValue(q)
      BY <2>4 DEF Held
    <3>2. LockValue(q).by = Instance[q] /\ LockValue(r).by = Instance[r]
      BY DEF LockValue
    <3> QED
      BY <2>3, <2>4, <3>1, <3>2 DEF DistinctNames
  <2> QED
    BY <2>1, <2>2, <2>4, SoftHeld
<1> QED
  BY <1>1, <1>2, <1>3, <1>4, <1>5, <1>6, <1>7 DEF RunnerStep

LEMMA NextHeld == Prompt /\ DistinctNames /\ LInv /\ [Next]_vars => LInv'
<1> SUFFICES ASSUME Prompt, DistinctNames, LInv, [Next]_vars PROVE LInv'
  OBVIOUS
<1>1. Typed'
  BY NextTyped DEF LInv
<1>2. ASSUME NEW p \in Processes, TickStep(p) PROVE Young' /\ Held'
  <2>1. p \in Runners
    BY ConstantFacts
  <2>2. CASE TickStart(p)
    BY <2>1, <2>2, TickStartStep, BeginsHeld DEF LInv
  <2>3. CASE ResolveActor(p)
    BY <2>1, <2>3, ResolveActorStep, SoftHeld DEF ResolveActor, LInv
  <2>4. CASE ExecuteTaskIfDue(p)
    BY <2>1, <2>4, ExecuteTaskIfDueStep, SoftHeld DEF ExecuteTaskIfDue, LInv
  <2> QED
    BY <1>2, <2>1, <2>2, <2>3, <2>4, RunnerHeld DEF TickStep
<1>3. ASSUME NEW q \in Requests, RunnerStep(q) PROVE Young' /\ Held'
  BY <1>3, RunnerHeld, ConstantFacts
<1>4. ASSUME NEW q \in Requests, NEW k \in DOMAIN Tasks, RunTaskNow(q, k)
      PROVE  Young' /\ Held'
  BY <1>4, RunTaskNowStep, BeginsHeld, ConstantFacts DEF LInv
<1>5. ASSUME NEW r \in Runners, CallThrows(r) \/ Crash(r) PROVE Young' /\ Held'
  BY <1>5, CallThrowsStep, CrashStep, SoftHeld DEF LInv
<1>6. ASSUME NEW t \in TaskSet, JobEnds(t) \/ EnqueueDirect(t) PROVE Young' /\ Held'
  BY <1>6 DEF LInv, Young, Held, Leads, LockValue, JobEnds, EnqueueDirect
<1>7. ASSUME UNCHANGED vars PROVE Young' /\ Held'
  BY <1>7 DEF vars, LInv, Young, Held, Leads, LockValue
<1>8. ASSUME Tick PROVE Young' /\ Held'
  BY <1>8, TickHeld
<1> QED
  BY <1>1, <1>2, <1>3, <1>4, <1>5, <1>6, <1>7, <1>8 DEF Next, LInv

LEMMA InitHeld == Init => LInv
BY InitTyped, IdleFacts DEF Init, LInv, Young, Held, Leads

\* Runners that are quicker than the lock's time to live and have names of their
\* own never lead together, whatever fails and whichever of them die.
THEOREM OneLeader == Prompt /\ DistinctNames /\ Spec => []SoleLeader
<1> SUFFICES ASSUME Prompt, DistinctNames PROVE Spec => []SoleLeader
  OBVIOUS
<1>1. LInv => SoleLeader
  BY HeldIsSole DEF LInv
<1>2. LInv /\ [Next]_vars => LInv'
  BY NextHeld
<1> QED
  BY InitHeld, <1>1, <1>2, PTL DEF Spec

(***************************************************************************)
(* What the leader has read stays so                                       *)
(***************************************************************************)
\* The guard found no active job of a task that only the scheduler enqueues.
Guarded == \A r \in Runners :
    runner[r].pc = "enqueue" /\ TaskOf(r) \notin DirectTasks => active[TaskOf(r)] = 0

DueKnown == \A p \in Processes :
    runner[p].pc \in {"decide", "enqueue"} => IsDue(TaskOf(p), runner[p].now)

\* The row about to be written carries the success that the stored row has.
PreviousKnown == \A r \in Runners :
    runner[r].pc = "write" /\ state[TaskOf(r)].succeeded => runner[r].succeeded

RInv == LInv /\ SoleLeader /\ Guarded /\ OneActiveJob /\ DueKnown /\ PreviousKnown

GuardedAt(r) == runner[r].pc = "enqueue" /\ TaskOf(r) \notin DirectTasks
                    => active[TaskOf(r)] = 0
DueAt(r) == r \in Processes /\ runner[r].pc \in {"decide", "enqueue"}
                => IsDue(TaskOf(r), runner[r].now)
PreviousAt(r) == runner[r].pc = "write" /\ state[TaskOf(r)].succeeded
                     => runner[r].succeeded

\* A runner that acts leaves the others' reads alone: what it changes, it changes
\* as the leader, and then nobody else leads.
LEMMA OthersFresh ==
  ASSUME RInv, NEW r \in Runners, NEW new, Placed(r, new), Become(r, new),
         Leads(r) \/ UNCHANGED <<active, state>>,
         GuardedAt(r)', DueAt(r)', PreviousAt(r)'
  PROVE  Guarded' /\ DueKnown' /\ PreviousKnown'
<1>1. \A q \in Runners : q # r => runner'[q] = runner[q]
  BY BecomeFacts DEF RInv, LInv
<1>2. ASSUME NEW q \in Runners, q # r
      PROVE  GuardedAt(q)' /\ DueAt(q)' /\ PreviousAt(q)'
  <2>1. runner'[q] = runner[q]
    BY <1>1, <1>2
  <2>2. CASE ~Leads(q)
    BY <2>1, <2>2 DEF Leads, GuardedAt, DueAt, PreviousAt
  <2>3. CASE Leads(q)
    <3>1. UNCHANGED <<active, state>>
      BY <1>2, <2>3 DEF RInv, SoleLeader
    <3> QED
      BY <2>1, <3>1 DEF RInv, Guarded, DueKnown, PreviousKnown, GuardedAt, DueAt,
                        PreviousAt, TaskOf, IsDue
  <2> QED
    BY <2>2, <2>3
<1>3. \A q \in Runners : GuardedAt(q)' /\ DueAt(q)' /\ PreviousAt(q)'
  BY <1>2
<1> QED
  BY <1>3, ConstantFacts DEF Guarded, DueKnown, PreviousKnown, GuardedAt, DueAt, PreviousAt

\* A runner at none of the places where it acts on what it read.
LEMMA ElsewhereFresh ==
  ASSUME RInv, NEW r \in Runners, NEW new, Placed(r, new), Become(r, new),
         Leads(r) \/ UNCHANGED <<active, state>>,
         new.pc \notin {"enqueue", "write"}, new.pc = "decide" => r \notin Processes
  PROVE  Guarded' /\ DueKnown' /\ PreviousKnown'
<1>1. runner'[r] = new
  BY BecomeFacts DEF RInv, LInv
<1>2. GuardedAt(r)' /\ DueAt(r)' /\ PreviousAt(r)'
  BY <1>1 DEF GuardedAt, DueAt, PreviousAt
<1> QED
  BY <1>2, OthersFresh

LEMMA EnqueuedOnce ==
  ASSUME RInv, NEW r \in Runners, runner[r].pc = "enqueue",
         active' = [active EXCEPT ![TaskOf(r)] = @ + 1]
  PROVE  OneActiveJob'
<1>1. active \in [TaskSet -> 0..ActiveCap] /\ TaskOf(r) \in TaskSet
  BY TaskFacts DEF RInv, LInv, Typed
<1> SUFFICES ASSUME NEW t \in TaskSet \ DirectTasks PROVE active'[t] <= 1
  BY DEF OneActiveJob
<1>2. active[t] <= 1 /\ active[t] \in Nat
  BY <1>1, ConstantFacts DEF RInv, OneActiveJob
<1>3. t = TaskOf(r) => active[t] = 0
  BY DEF RInv, Guarded
<1> QED
  BY <1>1, <1>2, <1>3

Fresh == Guarded /\ DueKnown /\ PreviousKnown /\ OneActiveJob

LEMMA RunnerFresh == ASSUME RInv, NEW r \in Runners, RunnerStep(r) PROVE Fresh'
<1>1. Typed
  BY DEF RInv, LInv
<1>2. UNCHANGED active => OneActiveJob'
  BY DEF RInv, OneActiveJob
<1>3. CASE AcquireLock(r)
  BY <1>1, <1>2, <1>3, AcquireLockStep, ElsewhereFresh DEF Takes, Soft, Scheduled, Fresh
<1>4. CASE ExecuteTask(r)
  <2>1. PICK new : /\ Soft(r, new) /\ new.pc \in {"previous", "enqueue"}
                   /\ new.pc = "enqueue" => /\ active[TaskOf(r)] = 0
                                            /\ new.task = runner[r].task
                                            /\ new.now = runner[r].now
    BY <1>1, <1>4, ExecuteTaskStep
  <2>2. UNCHANGED <<active, state>> /\ runner[r].pc = "decide"
    BY <1>1, <1>4, ExecuteTaskStep
  <2>3. Placed(r, new) /\ Become(r, new) /\ runner'[r] = new
    BY <1>1, <2>1, BecomeFacts DEF Soft
  <2>4. CASE new.pc = "previous"
    BY <1>2, <2>2, <2>3, <2>4, ElsewhereFresh DEF Fresh
  <2>5. CASE new.pc = "enqueue"
    <3>1. TaskOf(r)' = TaskOf(r) /\ runner'[r].now = runner[r].now /\ runner'[r].pc = "enqueue"
      BY <2>1, <2>3, <2>5 DEF TaskOf
    <3>2. GuardedAt(r)' /\ PreviousAt(r)'
      BY <2>1, <2>2, <2>5, <3>1 DEF GuardedAt, PreviousAt
    <3>3. DueAt(r)'
      BY <2>2, <3>1 DEF RInv, DueKnown, DueAt, IsDue
    <3> QED
      BY <1>2, <2>2, <2>3, <3>2, <3>3, OthersFresh DEF Fresh
  <2> QED
    BY <2>1, <2>4, <2>5
<1>5. CASE EnqueueTask(r)
  <2>1. PICK new : Soft(r, new) /\ new.pc = "previous"
    BY <1>1, <1>5, EnqueueTaskStep
  <2>2. Leads(r)
    BY <1>5 DEF EnqueueTask, Leads
  <2> QED
    BY <1>1, <1>5, <2>1, <2>2, EnqueueTaskStep, EnqueuedOnce, ElsewhereFresh DEF Soft, Fresh
<1>6. CASE ReadPrevious(r)
  <2>1. PICK new : /\ Soft(r, new) /\ new.pc = "write" /\ new.task = runner[r].task
                   /\ new.succeeded = state[TaskOf(r)].succeeded
    BY <1>1, <1>6, ReadPreviousStep
  <2>2. UNCHANGED <<active, state>>
    BY <1>1, <1>6, ReadPreviousStep
  <2>3. Placed(r, new) /\ Become(r, new) /\ runner'[r] = new
    BY <1>1, <2>1, BecomeFacts DEF Soft
  <2>4. TaskOf(r)' = TaskOf(r)
    BY <2>1, <2>3 DEF TaskOf
  <2>5. GuardedAt(r)' /\ DueAt(r)' /\ PreviousAt(r)'
    BY <2>1, <2>2, <2>3, <2>4 DEF GuardedAt, DueAt, PreviousAt
  <2> QED
    BY <1>2, <2>2, <2>3, <2>5, OthersFresh DEF Fresh
<1>7. CASE WriteTaskState(r)
  <2>1. PICK new : Soft(r, new) /\ new.pc \in {"audit", "state", "release"}
    BY <1>1, <1>7, WriteTaskStateStep
  <2>2. Leads(r) /\ UNCHANGED active
    BY <1>7 DEF WriteTaskState, Leads
  <2> QED
    BY <1>2, <2>1, <2>2, ElsewhereFresh DEF Soft, Fresh
<1>8. CASE RecordAudit(r)
  BY <1>1, <1>2, <1>8, RecordAuditStep, ElsewhereFresh DEF Soft, Fresh
<1>9. CASE ReleaseLock(r)
  BY <1>1, <1>2, <1>9, ReleaseLockStep, ElsewhereFresh DEF Soft, Fresh
<1> QED
  BY <1>3, <1>4, <1>5, <1>6, <1>7, <1>8, <1>9 DEF RunnerStep

\* The clock moves due times and what ticks take for now together.
LEMMA TickFresh == ASSUME RInv, Tick PROVE Fresh'
<1>1. /\ UNCHANGED active
      /\ \A r \in Runners : runner'[r] = AgedRunner(runner[r])
      /\ state' = [t \in TaskSet |-> [state[t] EXCEPT !.nextRunAt = Aged(@)]]
  BY DEF Tick
<1>2. ASSUME NEW r \in Runners, Leads(r)'
      PROVE  /\ Leads(r) /\ runner'[r].pc = runner[r].pc /\ TaskOf(r)' = TaskOf(r)
             /\ runner'[r].succeeded = runner[r].succeeded
             /\ runner'[r].now = Aged(runner[r].now) /\ runner[r].now \in Int
  <2>1. runner'[r].pc = runner[r].pc /\ runner[r].pc # "idle" /\ Leads(r)
    BY <1>2, TickStep1 DEF RInv, LInv, Leads
  <2>2. runner'[r] = [runner[r] EXCEPT !.at = Aged(@), !.now = Aged(@)]
    BY <1>1, <2>1 DEF AgedRunner
  <2>3. runner[r] \in States
    BY DEF RInv, LInv, Typed
  <2>4. /\ runner'[r].task = runner[r].task /\ runner'[r].succeeded = runner[r].succeeded
        /\ runner'[r].now = Aged(runner[r].now) /\ runner[r].now \in Int
    BY <2>2, <2>3 DEF States
  <2> QED
    BY <2>1, <2>4 DEF TaskOf
<1>3. ASSUME NEW t \in TaskSet
      PROVE  /\ state[t] \in Rows /\ state'[t].nextRunAt = Aged(state[t].nextRunAt)
             /\ state'[t].succeeded = state[t].succeeded
  <2>1. state[t] \in Rows
    BY DEF RInv, LInv, Typed
  <2>2. state'[t] = [state[t] EXCEPT !.nextRunAt = Aged(state[t].nextRunAt)]
    BY <1>1
  <2> QED
    BY <2>1, <2>2 DEF Rows
<1>4. Guarded'
  <2> SUFFICES ASSUME NEW r \in Runners, runner'[r].pc = "enqueue",
                      TaskOf(r)' \notin DirectTasks
               PROVE  active'[TaskOf(r)'] = 0
    BY <1>1 DEF Guarded
  <2>1. Leads(r)'
    BY DEF Leads
  <2> QED
    BY <2>1, <1>1, <1>2 DEF RInv, Guarded
<1>5. DueKnown'
  <2> SUFFICES ASSUME NEW p \in Processes, runner'[p].pc \in {"decide", "enqueue"}
               PROVE  IsDue(TaskOf(p), runner[p].now)'
    BY DEF DueKnown
  <2>1. p \in Runners /\ Leads(p)'
    BY ConstantFacts DEF Leads
  <2>2. runner[p].pc \in {"decide", "enqueue"} /\ TaskOf(p)' = TaskOf(p)
        /\ runner'[p].now = Aged(runner[p].now) /\ runner[p].now \in Int
    BY <2>1, <1>2
  <2>3. TaskOf(p) \in TaskSet
    BY <2>1, <2>2, TaskFacts DEF RInv, LInv
  <2> DEFINE d == state[TaskOf(p)].nextRunAt
  <2>4. /\ d # Null => d <= runner[p].now
        /\ d \in Offsets /\ state'[TaskOf(p)].nextRunAt = Aged(d)
    BY <2>2, <2>3, <1>3 DEF RInv, DueKnown, IsDue, Rows
  <2> HIDE DEF d
  <2>5. Aged(d) # Null => Aged(d) <= Aged(runner[p].now)
    BY <2>2, <2>4, ConstantFacts DEF Aged, Offsets
  <2> QED
    BY <2>2, <2>4, <2>5 DEF IsDue
<1>6. PreviousKnown'
  <2> SUFFICES ASSUME NEW r \in Runners, runner'[r].pc = "write",
                      state'[TaskOf(r)'].succeeded
               PROVE  runner'[r].succeeded
    BY DEF PreviousKnown
  <2>1. Leads(r)'
    BY DEF Leads
  <2>2. runner[r].pc = "write" /\ TaskOf(r)' = TaskOf(r)
        /\ runner'[r].succeeded = runner[r].succeeded
    BY <2>1, <1>2
  <2>3. TaskOf(r) \in TaskSet
    BY <2>2, TaskFacts DEF RInv, LInv
  <2> QED
    BY <2>2, <2>3, <1>3 DEF RInv, PreviousKnown
<1> QED
  BY <1>1, <1>4, <1>5, <1>6 DEF Fresh, RInv, OneActiveJob

LEMMA JobsFresh ==
  ASSUME RInv, NEW t \in TaskSet, JobEnds(t) \/ EnqueueDirect(t) PROVE Fresh'
<1>1. UNCHANGED <<runner, state>> /\ active \in [TaskSet -> 0..ActiveCap]
  BY DEF JobEnds, EnqueueDirect, RInv, LInv, Typed
<1>2. \A u \in TaskSet : /\ active[u] \in Nat /\ active'[u] \in Int
                         /\ u \notin DirectTasks =>
                               /\ active'[u] <= active[u]
                               /\ active[u] = 0 => active'[u] = 0
  <2>1. CASE JobEnds(t)
    BY <1>1, <2>1, ConstantFacts DEF JobEnds
  <2>2. CASE EnqueueDirect(t)
    BY <1>1, <2>2, ConstantFacts DEF EnqueueDirect
  <2> QED
    BY <2>1, <2>2
<1>3. OneActiveJob'
  <2> SUFFICES ASSUME NEW u \in TaskSet \ DirectTasks PROVE active'[u] <= 1
    BY DEF OneActiveJob
  <2>1. active[u] <= 1
    BY DEF RInv, OneActiveJob
  <2> QED
    BY <2>1, <1>2
<1>4. Guarded'
  <2> SUFFICES ASSUME NEW r \in Runners, runner[r].pc = "enqueue",
                      TaskOf(r) \notin DirectTasks
               PROVE  active'[TaskOf(r)] = 0
    BY <1>1 DEF Guarded, TaskOf
  <2>1. TaskOf(r) \in TaskSet
    BY TaskFacts DEF RInv, LInv
  <2>2. active[TaskOf(r)] = 0
    BY DEF RInv, Guarded
  <2> QED
    BY <2>1, <2>2, <1>2
<1>5. DueKnown' /\ PreviousKnown'
  BY <1>1 DEF RInv, DueKnown, PreviousKnown, TaskOf, IsDue
<1> QED
  BY <1>3, <1>4, <1>5 DEF Fresh

LEMMA NextFresh == RInv /\ [Next]_vars => Fresh'
<1> SUFFICES ASSUME RInv, [Next]_vars PROVE Fresh'
  OBVIOUS
<1> USE DEF Fresh
<1>1. Typed /\ (UNCHANGED active => OneActiveJob')
  BY DEF RInv, LInv, OneActiveJob
<1>2. ASSUME NEW r \in Runners, \E new : Begins(r, new), UNCHANGED <<active, state>>
      PROVE  Fresh'
  BY <1>1, <1>2, ElsewhereFresh DEF Begins
<1>3. ASSUME NEW p \in Processes, TickStep(p) PROVE Fresh'
  <2>1. p \in Runners
    BY ConstantFacts
  <2>2. CASE TickStart(p)
    BY <1>1, <1>2, <2>1, <2>2, TickStartStep
  <2>3. CASE ResolveActor(p)
    <3>1. UNCHANGED <<active, state>>
      BY <2>3 DEF ResolveActor
    <3>2. PICK new : Soft(p, new) /\ new.pc = "state"
      BY <1>1, <2>3, ResolveActorStep
    <3> QED
      BY <1>1, <2>1, <3>1, <3>2, ElsewhereFresh DEF Soft
  <2>4. CASE ExecuteTaskIfDue(p)
    <3>1. PICK new : /\ Soft(p, new) /\ new.pc \in {"state", "release", "previous", "decide"}
                     /\ new.pc = "decide" => /\ IsDue(TaskOf(p), runner[p].now)
                                             /\ new.task = runner[p].task
                                             /\ new.now = runner[p].now
      BY <1>1, <2>4, ExecuteTaskIfDueStep
    <3>2. UNCHANGED <<active, state>>
      BY <1>1, <2>4, ExecuteTaskIfDueStep
    <3>3. Placed(p, new) /\ Become(p, new) /\ runner'[p] = new
      BY <1>1, <2>1, <3>1, BecomeFacts DEF Soft
    <3>4. GuardedAt(p)' /\ PreviousAt(p)'
      BY <3>1, <3>3 DEF GuardedAt, PreviousAt
    <3>5. DueAt(p)'
      BY <3>1, <3>2, <3>3 DEF DueAt, TaskOf, IsDue
    <3> QED
      BY <1>1, <2>1, <3>2, <3>3, <3>4, <3>5, OthersFresh
  <2> QED
    BY <1>3, <2>1, <2>2, <2>3, <2>4, RunnerFresh DEF TickStep
<1>4. ASSUME NEW q \in Requests, RunnerStep(q) PROVE Fresh'
  BY <1>4, RunnerFresh, ConstantFacts
<1>5. ASSUME NEW q \in Requests, NEW k \in DOMAIN Tasks, RunTaskNow(q, k) PROVE Fresh'
  BY <1>1, <1>2, <1>5, RunTaskNowStep, ConstantFacts
<1>6. ASSUME NEW r \in Runners, CallThrows(r) PROVE Fresh'
  <2>1. PICK new : Soft(r, new) /\ new.pc \in {"previous", "release", "idle"}
    BY <1>1, <1>6, CallThrowsStep
  <2>2. Leads(r) \/ UNCHANGED <<active, state>>
    BY <1>1, <1>6, CallThrowsStep DEF Leads
  <2>3. OneActiveJob'
    BY <1>1, <1>6, CallThrowsStep, EnqueuedOnce
  <2> QED
    BY <2>1, <2>2, <2>3, ElsewhereFresh DEF Soft
<1>7. ASSUME NEW r \in Runners, Crash(r) PROVE Fresh'
  BY <1>1, <1>7, CrashStep, ElsewhereFresh DEF Soft
<1>8. ASSUME NEW t \in TaskSet, JobEnds(t) \/ EnqueueDirect(t) PROVE Fresh'
  BY <1>8, JobsFresh
<1>9. ASSUME UNCHANGED vars PROVE Fresh'
  BY <1>9 DEF vars, RInv, Guarded, DueKnown, PreviousKnown, OneActiveJob, TaskOf, IsDue
<1> QED
  BY <1>3, <1>4, <1>5, <1>6, <1>7, <1>8, <1>9, TickFresh DEF Next

LEMMA RInvNext == Prompt /\ DistinctNames /\ RInv /\ [Next]_vars => RInv'
<1> SUFFICES ASSUME Prompt, DistinctNames, RInv, [Next]_vars PROVE RInv'
  OBVIOUS
<1>1. LInv'
  BY NextHeld DEF RInv
<1>2. SoleLeader'
  <2> SUFFICES ASSUME NEW q \in Runners, NEW r \in Runners, Leads(q)', Leads(r)'
               PROVE  q = r
    BY DEF SoleLeader
  <2>1. LockValue(q)' = LockValue(r)'
    BY <1>1 DEF LInv, Held
  <2>2. LockValue(q)'.by = Instance[q] /\ LockValue(r)'.by = Instance[r]
    BY DEF LockValue
  <2> QED
    BY <2>1, <2>2 DEF DistinctNames
<1> QED
  BY <1>1, <1>2, NextFresh DEF RInv, Fresh

LEMMA InitRInv == DistinctNames /\ Init => RInv
<1> SUFFICES ASSUME DistinctNames, Init PROVE RInv
  OBVIOUS
<1>1. LInv /\ SoleLeader
  BY InitHeld, HeldIsSole DEF LInv
<1>2. \A r \in Runners : runner[r].pc = "idle"
  BY IdleFacts DEF Init
<1>3. Guarded /\ DueKnown /\ PreviousKnown
  BY <1>2, ConstantFacts DEF Guarded, DueKnown, PreviousKnown
<1>4. OneActiveJob
  BY DEF Init, OneActiveJob
<1> QED
  BY <1>1, <1>3, <1>4 DEF RInv

\* The guard holds at the enqueue: a task that only the scheduler enqueues has
\* one active job at most, although the guard and the enqueue are two statements.
THEOREM OneJobAtATime == Prompt /\ DistinctNames /\ Spec => []OneActiveJob
<1> SUFFICES ASSUME Prompt, DistinctNames PROVE Spec => []OneActiveJob
  OBVIOUS
<1>1. RInv => OneActiveJob
  BY DEF RInv
<1> QED
  BY InitRInv, RInvNext, <1>1, PTL DEF Spec

\* A tick enqueues on a due time that nobody has moved since it was read.
THEOREM EnqueuedWhenDue == Prompt /\ DistinctNames /\ Spec => []DueWhenEnqueued
<1> SUFFICES ASSUME Prompt, DistinctNames PROVE Spec => []DueWhenEnqueued
  OBVIOUS
<1>1. RInv => DueWhenEnqueued
  BY DEF RInv, DueKnown, DueWhenEnqueued
<1> QED
  BY InitRInv, RInvNext, <1>1, PTL DEF Spec

LEMMA WriteKeepsSuccess ==
  ASSUME RInv, NEW r \in Runners, runner[r].pc = "write",
         state' = [state EXCEPT ![TaskOf(r)] = NewState(r)]
  PROVE  \A t \in TaskSet : state[t].succeeded => state'[t].succeeded
<1>1. state \in [TaskSet -> Rows] /\ TaskOf(r) \in TaskSet
  BY TaskFacts DEF RInv, LInv, Typed
<1>2. NewState(r).succeeded = (runner[r].result = "queued" \/ runner[r].succeeded)
  BY NewStateTyped DEF RInv, LInv
<1>3. state[TaskOf(r)].succeeded => runner[r].succeeded
  BY DEF RInv, PreviousKnown
<1> QED
  BY <1>1, <1>2, <1>3

LEMMA StepKeepsSuccess ==
  ASSUME RInv, [Next]_vars
  PROVE  \A t \in TaskSet : state[t].succeeded => state'[t].succeeded
<1> DEFINE Kept == \A t \in TaskSet : state[t].succeeded => state'[t].succeeded
<1>1. UNCHANGED state => Kept
  OBVIOUS
<1>2. ASSUME NEW r \in Runners, RunnerStep(r) PROVE Kept
  <2>1. UNCHANGED state \/ WriteTaskState(r)
    BY <1>2 DEF RunnerStep, AcquireLock, ExecuteTask, EnqueueTask, ReadPrevious,
                RecordAudit, ReleaseLock
  <2>2. WriteTaskState(r) => Kept
    BY WriteKeepsSuccess DEF WriteTaskState
  <2> QED
    BY <1>1, <2>1, <2>2
<1>3. ASSUME NEW p \in Processes, TickStep(p) PROVE Kept
  BY <1>1, <1>2, <1>3, ConstantFacts
     DEF TickStep, TickStart, ResolveActor, ExecuteTaskIfDue
<1>4. ASSUME NEW r \in Runners, CallThrows(r) PROVE Kept
  BY <1>1, <1>4, CallThrowsStep, WriteKeepsSuccess DEF RInv, LInv
<1>5. ASSUME Tick PROVE Kept
  <2> SUFFICES ASSUME NEW t \in TaskSet PROVE state[t].succeeded = state'[t].succeeded
    OBVIOUS
  <2>1. state[t] \in Rows
    BY DEF RInv, LInv, Typed
  <2>2. state'[t] = [state[t] EXCEPT !.nextRunAt = Aged(@)]
    BY <1>5 DEF Tick
  <2> QED
    BY <2>1, <2>2 DEF Rows
<1>6. ASSUME NEW q \in Requests, RunnerStep(q) \/ \E k \in DOMAIN Tasks : RunTaskNow(q, k)
      PROVE  Kept
  BY <1>1, <1>2, <1>6, ConstantFacts DEF RunTaskNow
<1>7. (\E r \in Runners : Crash(r)) \/ (\E t \in TaskSet : JobEnds(t) \/ EnqueueDirect(t))
         \/ UNCHANGED vars => Kept
  BY <1>1 DEF Crash, JobEnds, EnqueueDirect, vars
<1> QED
  BY <1>2, <1>3, <1>4, <1>5, <1>6, <1>7 DEF Next

\* writeTaskState reads a row and replaces it, and never loses its last success.
THEOREM SuccessStays == Prompt /\ DistinctNames /\ Spec => SuccessIsKept
<1> SUFFICES ASSUME Prompt, DistinctNames PROVE Spec => SuccessIsKept
  OBVIOUS
<1>1. RInv /\ [Next]_vars
        => [\A t \in TaskSet : state[t].succeeded => state'[t].succeeded]_vars
  BY StepKeepsSuccess
<1> QED
  BY InitRInv, RInvNext, <1>1, PTL DEF Spec, SuccessIsKept
=============================================================================
