------------------------------- MODULE FolderJobs -------------------------------
(***************************************************************************)
(* Renames and deletes of the objects of one folder (packages/s3,          *)
(* file-service.ts), as the jobs FOLDER_RENAME and FOLDER_DELETE and the   *)
(* files endpoints run them.  Of a folder: list the keys page by page,     *)
(* then copy and delete each with a few lanes, or delete each page; of one *)
(* file: the same of its key, without a list.  S3 calls are atomic, but a  *)
(* call may fail after it took effect.  Executions may overlap and may     *)
(* die; users write objects meanwhile.                                     *)
(*                                                                         *)
(* A key is a number, so that pages have an order; its content is the      *)
(* number of the write it comes from.                                      *)
(***************************************************************************)
EXTENDS Naturals, FiniteSets

CONSTANTS
    Runs,         \* executions under way at once
    Under,        \* keys under the folder's prefix
    Files,        \* those of them that are renamed and deleted singly, too
    Target,       \* the key each is renamed to
    PageSize,     \* keys of one ListObjectsV2 page
    Concurrency,  \* lanes of mapWithConcurrency
    MaxStarts, MaxWrites, MaxFailures   \* bounds

Keys == Under \cup {Target[k] : k \in Under}
None == 0

\* The two prefixes are apart: neither folder holds the other.
ASSUME FolderAssumption ==
    /\ Under \subseteq Nat \ {0} /\ IsFiniteSet(Under)
    /\ Target \in [Under -> Nat]
    /\ Files \subseteq Under
    /\ \A k \in Under : Target[k] \notin Under
    /\ \A k, l \in Under : Target[k] = Target[l] => k = l
    /\ {PageSize, Concurrency} \subseteq Nat \ {0}
    /\ {MaxStarts, MaxWrites, MaxFailures} \subseteq Nat

VARIABLES
    objects,   \* content of each key, None when there is no object
    latest,    \* what users last put at a key, None when they deleted it
    raced,     \* keys written while a run had copied and not yet deleted them
    written,   \* keys users wrote after the first state
    run,       \* local state of each execution
    starts, failures

vars == <<objects, latest, raced, written, run, starts, failures>>

Waiting == [k \in Under |-> "none"]
NoRun   == [pc |-> "idle", of |-> {}, token |-> 0, lane |-> Waiting, failed |-> {}]

Init ==
    /\ objects = [k \in Keys |-> IF k \in Under THEN 1 ELSE None]
    /\ latest  = [k \in Under |-> 1]
    /\ raced = {} /\ written = {}
    /\ run = [r \in Runs |-> NoRun]
    /\ starts = 0 /\ failures = 0

Lane(r, k, st) == run' = [run EXCEPT ![r].lane[k] = st]

-----------------------------------------------------------------------------
(* listObjectKeys and listAllKeys *)

After(token) == {k \in Under : objects[k] # None /\ token < k}

\* The next page: the least keys after the token, as many as fit, and the last
\* of them, the next token.
IsPage(page, token, last) ==
    /\ page \subseteq After(token)
    /\ last \in page \cup {token} /\ \A k \in page : k <= last
    /\ Cardinality(page) <= PageSize
    /\ Cardinality(page) < PageSize => page = After(token)
    /\ \A k \in page, l \in After(token) \ page : k < l

\* IsTruncated: there is a continuation token.
More(page, token) == After(token) # page

Start(r) ==
    /\ run[r].pc = "idle" /\ starts < MaxStarts
    /\ \E pc \in {"list", "delete", "probe"} :
          run' = [run EXCEPT ![r].pc = pc, ![r].of = Under]
    /\ starts' = starts + 1
    /\ UNCHANGED <<objects, latest, raced, written, failures>>

\* renameFileOrFolder and deleteFileOrFolder of one file of the folder.
StartFile(r, k) ==
    /\ run[r].pc = "idle" /\ starts < MaxStarts
    /\ \E pc \in {"rename", "last_page"} :
          run' = [run EXCEPT ![r].pc = pc, ![r].of = {k}, ![r].lane[k] = "todo"]
    /\ starts' = starts + 1
    /\ UNCHANGED <<objects, latest, raced, written, failures>>

\* deleteFileOrFolder of a file with the folder's name: whatever became of the
\* file itself, one listed key tells that the folder is to be deleted, too.
ProbeFolder(r) ==
    /\ run[r].pc = "probe"
    /\ run' = [run EXCEPT ![r].pc = IF After(0) # {} THEN "delete" ELSE "end"]
    /\ UNCHANGED <<objects, latest, raced, written, starts, failures>>

\* A mutant of ListPage: only the first page is listed.
ListFirstPage(r) ==
    /\ run[r].pc = "list"
    /\ \E page \in SUBSET Under, last \in Under \cup {0} :
          /\ IsPage(page, run[r].token, last)
          /\ run' = [run EXCEPT
                ![r].lane = [k \in Under |-> IF k \in page THEN "todo" ELSE @[k]],
                ![r].pc = "rename"]
    /\ UNCHANGED <<objects, latest, raced, written, starts, failures>>

\* renameFolder lists all keys before it renames one.
ListPage(r) ==
    /\ run[r].pc = "list"
    /\ \E page \in SUBSET Under, last \in Under \cup {0} :
          /\ IsPage(page, run[r].token, last)
          /\ run' = [run EXCEPT
                ![r].lane  = [k \in Under |-> IF k \in page THEN "todo" ELSE @[k]],
                ![r].token = last,
                ![r].pc    = IF More(page, run[r].token) THEN "list" ELSE "rename"]
    /\ UNCHANGED <<objects, latest, raced, written, starts, failures>>

-----------------------------------------------------------------------------
(* renameFolder and mapWithConcurrency *)

Free(r) == Cardinality({k \in Under : run[r].lane[k] = "copied"}) < Concurrency

\* The call fails, and may have taken effect all the same.
Fails == failures < MaxFailures /\ failures' = failures + 1

LaneFails(r, k) == run' = [run EXCEPT ![r].lane[k] = "failed", ![r].failed = @ \cup {k}]

\* A mutant of CopyKey: a failed copy does not end the lane.
CopyKeyGoingOn(r, k) ==
    /\ run[r].pc = "rename" /\ run[r].lane[k] = "todo" /\ Free(r)
    /\ \A l \in Under : run[r].lane[l] = "todo" => k <= l
    /\ \/ /\ objects[k] # None
          /\ objects' = [objects EXCEPT ![Target[k]] = objects[k]]
          /\ Lane(r, k, "copied") /\ UNCHANGED failures
       \/ /\ Fails /\ UNCHANGED objects
          /\ Lane(r, k, "copied")
       \/ /\ objects[k] = None
          /\ LaneFails(r, k) /\ UNCHANGED <<objects, failures>>
    /\ UNCHANGED <<latest, raced, written, starts>>

\* CopyObject of the next key; a key that is gone is a failure of its lane.
CopyKey(r, k) ==
    /\ run[r].pc = "rename" /\ run[r].lane[k] = "todo" /\ Free(r)
    /\ \A l \in Under : run[r].lane[l] = "todo" => k <= l
    /\ \/ /\ objects[k] # None
          /\ objects' = [objects EXCEPT ![Target[k]] = objects[k]]
          /\ Lane(r, k, "copied") /\ UNCHANGED failures
       \/ /\ objects[k] # None /\ Fails
          /\ objects' \in {objects, [objects EXCEPT ![Target[k]] = objects[k]]}
          /\ LaneFails(r, k)
       \/ /\ objects[k] = None
          /\ LaneFails(r, k) /\ UNCHANGED <<objects, failures>>
    /\ UNCHANGED <<latest, raced, written, starts>>

\* DeleteObject, which succeeds for a key that is gone.
DeleteKey(r, k) ==
    /\ run[r].pc = "rename" /\ run[r].lane[k] = "copied"
    /\ \/ /\ objects' = [objects EXCEPT ![k] = None]
          /\ Lane(r, k, "done") /\ UNCHANGED failures
       \/ /\ Fails
          /\ objects' \in {objects, [objects EXCEPT ![k] = None]}
          /\ LaneFails(r, k)
    /\ UNCHANGED <<latest, raced, written, starts>>

\* A mutant of AllRenamed: keys that failed are waited for.
AllRenamedWell(r) ==
    /\ run[r].pc = "rename"
    /\ \A k \in Under : run[r].lane[k] \in {"none", "done"}
    /\ run' = [run EXCEPT ![r].pc = "end"]
    /\ UNCHANGED <<objects, latest, raced, written, starts, failures>>

AllRenamed(r) ==
    /\ run[r].pc = "rename"
    /\ \A k \in Under : run[r].lane[k] \notin {"todo", "copied"}
    /\ run' = [run EXCEPT ![r].pc = "end"]
    /\ UNCHANGED <<objects, latest, raced, written, starts, failures>>

-----------------------------------------------------------------------------
(* deleteFolderByPrefix: list a page, delete it, list the next; a single file *)
(* is deleted as a page of one *)

DeleteList(r) ==
    /\ run[r].pc = "delete"
    /\ \E page \in SUBSET Under, last \in Under \cup {0} :
          /\ IsPage(page, run[r].token, last)
          /\ run' = [run EXCEPT
                ![r].lane  = [k \in Under |-> IF k \in page THEN "todo" ELSE "none"],
                ![r].token = last,
                ![r].pc    = IF More(page, run[r].token) THEN "page" ELSE "last_page"]
    /\ UNCHANGED <<objects, latest, raced, written, starts, failures>>

\* DeleteObjects reports the keys it could not delete; when the call throws,
\* each of its keys counts as failed, also those it deleted.
DeletePage(r) ==
    LET page == {k \in Under : run[r].lane[k] = "todo"} IN
    /\ run[r].pc \in {"page", "last_page"}
    /\ \E gone \in SUBSET page : \E failed \in {page, page \ gone} :
          /\ IF failed = {} THEN UNCHANGED failures ELSE Fails
          /\ objects' = [k \in Keys |-> IF k \in gone THEN None ELSE objects[k]]
          /\ latest'  = [k \in Under |-> IF k \in gone THEN None ELSE latest[k]]
          /\ run' = [run EXCEPT
                ![r].pc = IF @ = "page" THEN "delete" ELSE "end",
                ![r].lane = Waiting, ![r].failed = @ \cup failed]
    /\ UNCHANGED <<raced, written, starts>>

-----------------------------------------------------------------------------
\* The result is reported, with the failures it lists.
End(r) ==
    /\ run[r].pc = "end"
    /\ run' = [run EXCEPT ![r] = NoRun]
    /\ UNCHANGED <<objects, latest, raced, written, starts, failures>>

\* The process dies, or a listing throws; the job may be executed again.
Crash(r) ==
    /\ run[r].pc # "idle" /\ Fails
    /\ run' = [run EXCEPT ![r] = NoRun]
    /\ UNCHANGED <<objects, latest, raced, written, starts>>

\* A user uploads to a key of the folder.
Write(k) ==
    /\ Cardinality(written) < MaxWrites /\ k \notin written
    /\ objects' = [objects EXCEPT ![k] = 2]
    /\ latest'  = [latest EXCEPT ![k] = 2]
    /\ written' = written \cup {k}
    /\ raced' = IF \E r \in Runs : run[r].lane[k] = "copied" THEN raced \cup {k} ELSE raced
    /\ UNCHANGED <<run, starts, failures>>

Step(r) ==
    \/ ListPage(r) \/ AllRenamed(r)
    \/ ProbeFolder(r) \/ DeleteList(r) \/ DeletePage(r) \/ End(r)
    \/ \E k \in Under : CopyKey(r, k) \/ DeleteKey(r, k)

Next ==
    \/ \E r \in Runs : Start(r) \/ Step(r) \/ Crash(r)
    \/ \E k \in Under : Write(k)
    \/ \E r \in Runs, k \in Files : StartFile(r, k)

Spec == Init /\ [][Next]_vars

\* An execution that is not dead goes on.
FairSpec == Spec /\ \A r \in Runs : WF_vars(Step(r))

(***************************************************************************)
(* Properties                                                              *)
(***************************************************************************)
\* Types; only a rename has copies, and no more than it has lanes.
TypeOK ==
    /\ objects \in [Keys -> {None, 1, 2}] /\ latest \in [Under -> {None, 1, 2}]
    /\ raced \subseteq written /\ written \subseteq Under
    /\ run \in [Runs -> [pc: {"idle", "list", "rename", "probe", "delete", "page",
                                "last_page", "end"},
                          of: SUBSET Under, token: Under \cup {0},
                          lane: [Under -> {"none", "todo", "copied", "done", "failed"}],
                          failed: SUBSET Under]]
    /\ \A r \in Runs : LET copied == {k \in Under : run[r].lane[k] = "copied"} IN
          copied # {} => run[r].pc = "rename" /\ Cardinality(copied) <= Concurrency
    /\ starts \in 0..MaxStarts /\ failures \in 0..MaxFailures

\* What users last put at a key is there or at the key's target, whatever runs
\* overlap, fail or die, unless they wrote it between a run's copy and delete.
NothingLost ==
    \A k \in Under \ raced :
        latest[k] # None => latest[k] \in {objects[k], objects[Target[k]]}

\* When a run ends, each of its keys that was there at first and not written
\* since is gone or reported as failed: no page was missed and no failure swallowed.
DoneOrReported ==
    \A r \in Runs : run[r].pc = "end" =>
        \A k \in run[r].of \ written : objects[k] = None \/ k \in run[r].failed

\* A run that has begun ends, whatever other runs and users do to its keys.
EveryRunEnds == \A r \in Runs : run[r].pc # "idle" ~> run[r].pc = "idle"
=============================================================================
