---------------------------- MODULE UploadSession ----------------------------
(***************************************************************************)
(* Resumable multipart uploads of one file by one user: the browser's      *)
(* upload loop (apps/web: page.tsx, multipart-upload.ts), the API's upload *)
(* sessions (files.service.ts), the S3 multipart uploads they stand for,   *)
(* and the worker's cleanup of expired sessions.                           *)
(*                                                                         *)
(* A tab runs one attempt to upload the file; several tabs, or attempts,   *)
(* may work on one session.  The browser sends parts to S3 itself, with    *)
(* signed URLs, and reports each of them to the API, whose handler reads   *)
(* the session's row and writes it back.  Calls to S3 and to the database  *)
(* are steps of their own where one handler makes both.  A retry of a PUT  *)
(* is a stuttering step.                                                   *)
(***************************************************************************)
EXTENDS Naturals, FiniteSets

CONSTANTS
    Tabs,          \* attempts to upload the file
    Parts,         \* its part numbers
    Sessions,      \* rows of upload_sessions
    Concurrency,   \* parts a tab has under way
    MaxFailures,   \* calls that fail and tabs that are closed
    MaxAttempts,   \* attempts started, and aborts from the session list
    Null

ASSUME UploadAssumption ==
    /\ Parts \subseteq Nat /\ IsFiniteSet(Parts) /\ Parts # {}
    /\ IsFiniteSet(Sessions) /\ Null \notin Sessions
    /\ Concurrency \in Nat \ {0} /\ MaxFailures \in Nat
    /\ MaxAttempts \in Nat

VARIABLES
    row,       \* upload_sessions
    s3,        \* the multipart upload of each session
    object,    \* the parts the object was assembled from
    tab,       \* local state of each attempt
    found,     \* the batch of the running cleanup job
    failures,  \* how many calls failed so far
    attempts   \* how many attempts were started so far

vars == <<row, s3, object, tab, found, failures, attempts>>

NoRow    == [status |-> "NONE", recorded |-> {}, created |-> 0,
             expired |-> FALSE, abortFailed |-> FALSE]
NoUpload == [state |-> "none", parts |-> {}]
Discarded == [state |-> "aborted", parts |-> {}]
Quiet    == [p \in Parts |-> "idle"]
NoTab    == [pc |-> "idle", session |-> Null, have |-> {}, canceled |-> FALSE,
             abortFailed |-> FALSE, lane |-> Quiet, seen |-> [p \in Parts |-> {}]]

Init ==
    /\ row    = [s \in Sessions |-> NoRow]
    /\ s3     = [s \in Sessions |-> NoUpload]
    /\ object = Null
    /\ tab    = [t \in Tabs |-> NoTab]
    /\ found  = {}
    /\ failures = 0 /\ attempts = 0

\* Lanes of a record that occupy one of its workers; a failed lane's has stopped.
Busy(r) == {p \in Parts : r.lane[p] \in {"stored", "seen", "failed"}}
AtRest(r) == /\ r.pc = "idle"
             /\ \A p \in Parts : /\ r.lane[p] \notin {"stored", "seen"}
                                 /\ r.lane[p] = "todo" => Cardinality(Busy(r)) >= Concurrency

\* Nothing is kept of an attempt that is over, its last calls included.
Become(t, new) == tab' = [tab EXCEPT ![t] = IF AtRest(new) THEN NoTab ELSE new]
Goto(t, pc)    == Become(t, [tab[t] EXCEPT !.pc = pc])
Lane(t, p, st) == [tab[t].lane EXCEPT ![p] = st]

\* The attempt ends; calls that its parts have under way go on.
Ended(t) == [tab[t] EXCEPT !.pc = "idle", !.have = {}, !.canceled = FALSE,
                           !.abortFailed = FALSE]

\* The catch block: an attempt with a session asks the API to fail or abort it.
Caught(t) == IF tab[t].session = Null THEN Ended(t) ELSE [tab[t] EXCEPT !.pc = "stop"]

\* getUploadSessionForUser refuses an expired session unless it is settled.
Refused(s) == row[s].expired /\ row[s].status \notin {"COMPLETED", "ABORTED"}

-----------------------------------------------------------------------------
(* The upload loop *)

Start(t) ==
    /\ tab[t] = NoTab /\ attempts < MaxAttempts
    /\ Become(t, [NoTab EXCEPT !.pc = "recover"])
    /\ attempts' = attempts + 1
    /\ UNCHANGED <<row, s3, object, found, failures>>

Recoverable == {s \in Sessions : /\ row[s].status \in {"INITIATED", "IN_PROGRESS", "FAILED"}
                                 /\ ~row[s].expired}

\* findRecoverableSession: the newest row, whatever became of its S3 upload.
Recover(t) ==
    /\ tab[t].pc = "recover"
    /\ \/ /\ Recoverable = {}
          /\ Goto(t, "init")
       \/ \E s \in Recoverable :
            /\ \A r \in Recoverable : row[r].created <= row[s].created
            /\ Become(t, [tab[t] EXCEPT
                  !.session = s, !.have = row[s].recorded,
                  !.pc = IF row[s].recorded = Parts THEN "complete" ELSE "sign"])
    /\ UNCHANGED <<row, s3, object, found, failures, attempts>>

\* initMultipartSession: first S3, then the row.  (No slot left: the call fails.)
InitUpload(t) ==
    LET free == {s \in Sessions : s3[s].state = "none"} IN
    /\ tab[t].pc = "init"
    /\ IF free = {}
       THEN Become(t, Ended(t)) /\ UNCHANGED s3
       ELSE LET s == CHOOSE s \in free : TRUE IN
              /\ s3' = [s3 EXCEPT ![s].state = "open"]
              /\ Become(t, [tab[t] EXCEPT !.pc = "create", !.session = s])
    /\ UNCHANGED <<row, object, found, failures, attempts>>

CreateRow(t) ==
    /\ tab[t].pc = "create"
    /\ row' = [row EXCEPT ![tab[t].session] =
          [NoRow EXCEPT !.status = "INITIATED",
              !.created = 1 + Cardinality({s \in Sessions : row[s].status # "NONE"})]]
    /\ Goto(t, "sign")
    /\ UNCHANGED <<s3, object, found, failures, attempts>>

\* signMultipartParts of the missing parts; it does not look at the status.
SignParts(t) ==
    LET s == tab[t].session IN
    /\ tab[t].pc = "sign"
    /\ \/ /\ Refused(s)
          /\ Become(t, Caught(t))
          /\ UNCHANGED row
       \/ /\ ~Refused(s)
          /\ row' = [row EXCEPT ![s].status = "IN_PROGRESS", ![s].abortFailed = FALSE]
          /\ Become(t, [tab[t] EXCEPT !.pc = "upload",
                !.lane = [p \in Parts |-> IF p \in tab[t].have THEN "idle" ELSE "todo"]])
    /\ UNCHANGED <<s3, object, found, failures, attempts>>

-----------------------------------------------------------------------------
(* uploadPartsWithConcurrency: lanes that take the next part.  When one of  *)
(* them fails the attempt is over, but the others go on.                    *)

LaneFails(t, p) ==
    IF tab[t].pc = "upload"
    THEN [tab[t] EXCEPT !.lane = Lane(t, p, "failed"), !.pc = "stop"]
    ELSE [tab[t] EXCEPT !.lane = Lane(t, p, "failed")]

\* A mutant of PutPart: the part counts as stored whatever S3 answers.
PutPartUnchecked(t, p) ==
    /\ tab[t].lane[p] = "todo"
    /\ \A q \in Parts : tab[t].lane[q] = "todo" => p <= q
    /\ Cardinality(Busy(tab[t])) < Concurrency
    /\ \/ UNCHANGED s3
       \/ /\ s3[tab[t].session].state = "open"
          /\ s3' = [s3 EXCEPT ![tab[t].session].parts = @ \cup {p}]
    /\ Become(t, [tab[t] EXCEPT !.lane = Lane(t, p, "stored"), !.have = @ \cup {p}])
    /\ UNCHANGED <<row, object, found, failures, attempts>>

\* uploadPartWithRetry; S3 refuses parts of an upload that has ended.
PutPart(t, p) ==
    LET s == tab[t].session IN
    /\ tab[t].lane[p] = "todo"
    /\ \A q \in Parts : tab[t].lane[q] = "todo" => p <= q
    /\ Cardinality(Busy(tab[t])) < Concurrency
    /\ \/ /\ s3[s].state = "open"
          /\ s3' = [s3 EXCEPT ![s].parts = @ \cup {p}]
          /\ Become(t, [tab[t] EXCEPT !.lane = Lane(t, p, "stored"),
                !.have = IF tab[t].pc = "upload" THEN @ \cup {p} ELSE @])
       \/ /\ s3[s].state # "open"
          /\ Become(t, LaneFails(t, p))
          /\ UNCHANGED s3
    /\ UNCHANGED <<row, object, found, failures, attempts>>

\* recordMultipartPart reads the row ...
RecordRead(t, p) ==
    LET s == tab[t].session IN
    /\ tab[t].lane[p] = "stored"
    /\ \/ /\ Refused(s)
          /\ Become(t, LaneFails(t, p))
       \/ /\ ~Refused(s)
          /\ Become(t, [tab[t] EXCEPT !.lane = Lane(t, p, "seen"),
                                      !.seen[p] = row[s].recorded])
    /\ UNCHANGED <<row, s3, object, found, failures, attempts>>

\* ... and writes it back with the part added, IN_PROGRESS whatever it was.
RecordWrite(t, p) ==
    LET s == tab[t].session IN
    /\ tab[t].lane[p] = "seen"
    /\ row' = [row EXCEPT ![s].status = "IN_PROGRESS",
                          ![s].recorded = tab[t].seen[p] \cup {p}]
    /\ Become(t, [tab[t] EXCEPT !.lane = Lane(t, p, "done"), !.seen[p] = {}])
    /\ UNCHANGED <<s3, object, found, failures, attempts>>

\* A mutant of AllReported: the attempt does not wait for its lanes.
SomeReported(t) == \E p \in Parts : tab[t].lane[p] = "done"

AllReported(t) == \A p \in Parts : tab[t].lane[p] \in {"idle", "done"}

Uploaded(t) ==
    /\ tab[t].pc = "upload" /\ AllReported(t)
    /\ Goto(t, "complete")
    /\ UNCHANGED <<row, s3, object, found, failures, attempts>>

-----------------------------------------------------------------------------
(* completeMultipart: S3 assembles the listed parts, then the row follows *)

\* S3 has every part the request lists.
Assembles(t) ==
    LET upload == s3[tab[t].session] IN
    upload.state = "open" /\ tab[t].have \subseteq upload.parts

\* A mutant of CompleteUpload: an error of S3 is not passed on.
CompleteUnchecked(t) ==
    LET s == tab[t].session IN
    /\ tab[t].pc = "complete"
    /\ IF Assembles(t)
       THEN s3' = [s3 EXCEPT ![s].state = "completed"] /\ object' = tab[t].have
       ELSE UNCHANGED <<s3, object>>
    /\ Goto(t, "completed")
    /\ UNCHANGED <<row, found, failures, attempts>>

CompleteUpload(t) ==
    LET s == tab[t].session IN
    /\ tab[t].pc = "complete"
    /\ \/ /\ ~Refused(s) /\ Assembles(t)
          /\ s3' = [s3 EXCEPT ![s].state = "completed"]
          /\ object' = tab[t].have
          /\ Goto(t, "completed")
       \/ /\ Refused(s) \/ ~Assembles(t)
          /\ Become(t, Caught(t))
          /\ UNCHANGED <<s3, object>>
    /\ UNCHANGED <<row, found, failures, attempts>>

\* When the audit record fails after the row, the browser sees an error all the
\* same, and has the completed session failed.
CompleteRow(t) ==
    /\ tab[t].pc = "completed"
    /\ row' = [row EXCEPT ![tab[t].session].status = "COMPLETED",
                          ![tab[t].session].recorded = tab[t].have,
                          ![tab[t].session].abortFailed = FALSE]
    /\ \/ Become(t, Ended(t)) /\ UNCHANGED failures
       \/ /\ failures < MaxFailures /\ failures' = failures + 1
          /\ Become(t, Caught(t))
    /\ UNCHANGED <<s3, object, found, attempts>>

-----------------------------------------------------------------------------
(* abortMultipart and failMultipart *)

\* The user cancels the attempt: parts not yet sent are given up, calls to the
\* API go on.
Cancel(t) ==
    /\ tab[t].pc = "upload"
    /\ Become(t, [tab[t] EXCEPT !.pc = "stop", !.canceled = TRUE,
          !.lane = [p \in Parts |-> IF @[p] = "todo" THEN "failed" ELSE @[p]]])
    /\ UNCHANGED <<row, s3, object, found, failures, attempts>>

\* listMultipartSessions, as the page asks for it: expired ones are shown too.
Listed == {s \in Sessions : row[s].status \in {"INITIATED", "IN_PROGRESS", "FAILED"}}

\* The abort button of the list of unfinished sessions.
AbortListed(t, s) ==
    /\ tab[t] = NoTab /\ attempts < MaxAttempts
    /\ s \in Listed
    /\ Become(t, [NoTab EXCEPT !.pc = "stop", !.session = s, !.canceled = TRUE])
    /\ attempts' = attempts + 1
    /\ UNCHANGED <<row, s3, object, found, failures>>

\* abortMultipartUpload: S3 discards the upload and its parts.  It refuses the
\* call for an upload that has ended.
AbortUpload(s) == s3[s].state = "open" /\ s3' = [s3 EXCEPT ![s] = Discarded]

\* A mutant of StopUpload: the handler forgets that the abort failed.
StopUploadTrusting(t) ==
    LET s == tab[t].session IN
    /\ tab[t].pc = "stop" /\ ~Refused(s)
    /\ AbortUpload(s) \/ UNCHANGED s3
    /\ Goto(t, "stopped")
    /\ UNCHANGED <<row, object, found, failures, attempts>>

\* The S3 abort comes first; its error is noted and the handler goes on.
StopUpload(t) ==
    LET s == tab[t].session IN
    /\ tab[t].pc = "stop"
    /\ \/ /\ Refused(s)
          /\ Become(t, Ended(t))
          /\ UNCHANGED <<s3, failures>>
       \/ /\ ~Refused(s) /\ AbortUpload(s)
          /\ Goto(t, "stopped")
          /\ UNCHANGED failures
       \/ /\ ~Refused(s) /\ (s3[s].state # "open" \/ failures < MaxFailures)
          /\ failures' = IF s3[s].state = "open" THEN failures + 1 ELSE failures
          /\ Become(t, [tab[t] EXCEPT !.pc = "stopped", !.abortFailed = TRUE])
          /\ UNCHANGED s3
    /\ UNCHANGED <<row, object, found, attempts>>

\* The row of an aborted session keeps the error of the S3 abort, that of a failed
\* one the browser's message; both keep the parts that were recorded.
StopRow(t) ==
    /\ tab[t].pc = "stopped"
    /\ row' = [row EXCEPT ![tab[t].session].status =
                  IF tab[t].canceled THEN "ABORTED" ELSE "FAILED",
               ![tab[t].session].abortFailed = tab[t].canceled /\ tab[t].abortFailed]
    /\ Become(t, Ended(t))
    /\ UNCHANGED <<s3, object, found, failures, attempts>>

-----------------------------------------------------------------------------
(* What else happens *)

\* A call of the attempt fails before it has an effect, or the API dies between
\* S3 and the row: the browser sees an error.
CallFails(t) ==
    /\ failures < MaxFailures
    /\ \/ /\ tab[t].pc \in {"recover", "init", "create"}
          /\ Become(t, NoTab)
       \/ /\ tab[t].pc \in {"sign", "complete", "completed"}
          /\ Become(t, Caught(t))
       \/ /\ tab[t].pc \in {"stop", "stopped"}
          /\ Become(t, Ended(t))
    /\ failures' = failures + 1
    /\ UNCHANGED <<row, s3, object, found, attempts>>

\* All retries of a PUT fail, or the report of a part does.
LaneCallFails(t, p) ==
    /\ failures < MaxFailures
    /\ tab[t].lane[p] \in {"todo", "stored", "seen"}
    /\ Become(t, LaneFails(t, p))
    /\ failures' = failures + 1
    /\ UNCHANGED <<row, s3, object, found, attempts>>

\* The tab is closed: nothing is failed or aborted.
TabCloses(t) ==
    /\ failures < MaxFailures
    /\ tab[t] # NoTab
    /\ Become(t, NoTab)
    /\ failures' = failures + 1
    /\ UNCHANGED <<row, s3, object, found, attempts>>

\* The time UPLOAD_SESSION_TTL_HOURS is over.
Expire(s) ==
    /\ row[s].status # "NONE" /\ ~row[s].expired
    /\ row' = [row EXCEPT ![s].expired = TRUE]
    /\ UNCHANGED <<s3, object, tab, found, failures, attempts>>

Unfinished(s) == row[s].expired /\ row[s].status \in {"INITIATED", "IN_PROGRESS"}

\* executeUploadCleanup and cleanupExpiredMultipartSessions: one query, then an
\* update by id of each session found.  S3 is not told.
CleanupFind ==
    /\ found = {} /\ \E s \in Sessions : Unfinished(s)
    /\ found' = {s \in Sessions : Unfinished(s)}
    /\ UNCHANGED <<row, s3, object, tab, failures, attempts>>

CleanupItem(s) ==
    /\ s \in found
    /\ row' = [row EXCEPT ![s].status = "FAILED"]
    /\ found' = found \ {s}
    /\ UNCHANGED <<s3, object, tab, failures, attempts>>

-----------------------------------------------------------------------------
Step(t) ==
    \/ Recover(t) \/ InitUpload(t) \/ CreateRow(t) \/ SignParts(t) \/ Uploaded(t)
    \/ CompleteUpload(t) \/ CompleteRow(t) \/ StopUpload(t) \/ StopRow(t)
    \/ \E p \in Parts : PutPart(t, p) \/ RecordRead(t, p) \/ RecordWrite(t, p)
Cleanup == CleanupFind \/ \E s \in Sessions : CleanupItem(s)

Next ==
    \/ \E t \in Tabs : \/ Step(t) \/ Start(t) \/ Cancel(t)
                       \/ CallFails(t) \/ TabCloses(t)
                       \/ \E p \in Parts : LaneCallFails(t, p)
                       \/ \E s \in Sessions : AbortListed(t, s)
    \/ \E s \in Sessions : Expire(s)
    \/ Cleanup

Spec == Init /\ [][Next]_vars

(***************************************************************************)
(* Properties                                                              *)
(***************************************************************************)
RowStatuses == {"NONE", "INITIATED", "IN_PROGRESS", "COMPLETED", "ABORTED", "FAILED"}
TabPcs  == {"idle", "recover", "init", "create", "sign", "upload", "complete",
            "completed", "stop", "stopped"}
Lanes   == {"idle", "todo", "stored", "seen", "done", "failed"}

\* Types; a tab past the init call has a session.
TypeOK ==
    /\ row \in [Sessions -> [status: RowStatuses, recorded: SUBSET Parts, created: Nat,
                              expired: BOOLEAN, abortFailed: BOOLEAN]]
    /\ s3 \in [Sessions -> [state: {"none", "open", "completed", "aborted"},
                             parts: SUBSET Parts]]
    /\ object \in (SUBSET Parts) \cup {Null}
    /\ tab \in [Tabs -> [pc: TabPcs, session: Sessions \cup {Null}, have: SUBSET Parts,
                          canceled: BOOLEAN, abortFailed: BOOLEAN,
                          lane: [Parts -> Lanes], seen: [Parts -> SUBSET Parts]]]
    /\ \A t \in Tabs : tab[t].pc \notin {"idle", "recover", "init"}
                           => tab[t].session # Null
    /\ found \subseteq Sessions
    /\ failures \in 0..MaxFailures /\ attempts \in 0..MaxAttempts

\* The object is assembled from every part of the file, although reports of
\* parts overwrite each other and attempts resume from what was recorded.
ObjectIsWhole == object \in {Null, Parts}

\* Hidden from clients: attempts and their lanes, expiry, failures.
Lifecycle == INSTANCE UploadLifecycle WITH
    Session  <- Sessions,
    Whole    <- Parts,
    Nothing  <- Null,
    status   <- [s \in Sessions |-> row[s].status],
    recorded <- [s \in Sessions |-> row[s].recorded],
    upload   <- [s \in Sessions |-> s3[s].state],
    stored   <- [s \in Sessions |-> s3[s].parts]

\* Each call to S3 and each write of a row is a step of the life cycle, however
\* stale the reader: one row for an upload that exists, one end of each upload,
\* a whole object with it, and only true things said of it.
ImplementsUploadLifecycle == Lifecycle!Spec

\* The upload has the parts, unless an abort has discarded it.
Has(upload, parts) == upload.state # "aborted" => parts \subseteq upload.parts

\* As long as the session's upload has not been aborted, what the row says was
\* uploaded is in S3: whoever resumes the session does not send these parts again.
\* (Of an aborted upload nothing is left, and its row still tells of parts:
\* ResumedIsOpen is about that.)
RecordedIsStored == \A s \in Sessions : Has(s3[s], row[s].recorded)

\* A session is COMPLETED only when S3 has assembled the object.
CompletedIsAssembled ==
    \A s \in Sessions : row[s].status = "COMPLETED" => s3[s].state = "completed"

\* An attempt is at work on the session.
AtWork(s) == \E t \in Tabs : tab[t].session = s /\ tab[t].pc # "idle"

\* No multipart upload stays open unknown to everybody: an attempt works on it,
\* or the list of unfinished sessions shows it, or its row says that the abort
\* failed, or one failure each left it without a row.
OpenUploadsAreKnown ==
    LET unknown == {s \in Sessions : /\ s3[s].state = "open"
                                     /\ s \notin Listed /\ ~AtWork(s)}
        rowless == {s \in unknown : row[s].status = "NONE"} IN
    /\ \A s \in unknown \ rowless : row[s].abortFailed
    /\ Cardinality(rowless) <= failures

(***************************************************************************)
(* Stated by the repository, and not so                                    *)
(***************************************************************************)

\* A session that a lone attempt is about to resume can be resumed: its
\* multipart upload is open (stage3-plan.md: the frontend resumes the missing
\* parts of a matching session).  failMultipart aborts the upload and leaves a
\* FAILED row with the parts it had, which each later attempt finds again until
\* it expires.
ResumedIsOpen ==
    \A t \in Tabs : tab[t].pc = "sign" => s3[tab[t].session].state = "open"
=============================================================================
