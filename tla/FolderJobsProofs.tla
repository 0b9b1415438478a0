--------------------------- MODULE FolderJobsProofs ---------------------------
(***************************************************************************)
(* Overlapping, failing and dying renames and deletes lose no object       *)
(* that users did not write while it was being moved: FolderJobs's         *)
(* NothingLost, for any folder, page size and number of executions.  It is *)
(* not inductive by itself.  What makes it so: the object at a source key  *)
(* is the last one put there, and a run that has copied a key and is about *)
(* to delete it has left that object, or a deleted one, at the target.     *)
(***************************************************************************)
EXTENDS FolderJobs, FiniteSetTheorems, TLAPS

RunStates == [pc: {"idle", "list", "rename", "probe", "delete", "page", "last_page",
                   "end"},
              of: SUBSET Under, token: Nat,
              lane: [Under -> {"none", "todo", "copied", "done", "failed"}],
              failed: SUBSET Under]
Contents == {None, 1, 2}

Types == /\ objects \in [Keys -> Contents] /\ latest \in [Under -> Contents]
         /\ raced \subseteq Under
         /\ run \in [Runs -> RunStates]

SourceIsLatest == \A k \in Under : objects[k] \in {None, latest[k]}

CopyIsLatest ==
    \A r \in Runs : \A k \in Under \ raced :
        run[r].lane[k] = "copied" => latest[k] \in {None, objects[Target[k]]}

Inv == Types /\ SourceIsLatest /\ CopyIsLatest /\ NothingLost

LEMMA TargetFacts ==
    /\ Under \subseteq Keys
    /\ \A k \in Under : Target[k] \in Keys /\ Target[k] \notin Under
    /\ \A k, l \in Under : Target[k] = Target[l] => k = l
  BY FolderAssumption DEF Keys

LEMMA InitInv == Init => Inv
<1> SUFFICES ASSUME Init PROVE Inv
  OBVIOUS
<1>1. NoRun \in RunStates /\ \A k \in Under : NoRun.lane[k] = "none"
  BY DEF NoRun, RunStates, Waiting
<1>2. Types
  <2>1. objects \in [Keys -> Contents]
    BY DEF Init, Contents, None
  <2>2. latest \in [Under -> Contents]
    BY DEF Init, Contents, None
  <2>3. raced \subseteq Under /\ run \in [Runs -> RunStates]
    BY <1>1 DEF Init
  <2> QED
    BY <2>1, <2>2, <2>3 DEF Types
<1>3. \A k \in Under : objects[k] = 1 /\ latest[k] = 1
  BY TargetFacts DEF Init
<1>4. SourceIsLatest /\ NothingLost
  BY <1>3 DEF SourceIsLatest, NothingLost
<1>5. CopyIsLatest
  BY <1>1 DEF CopyIsLatest, Init
<1> QED
  BY <1>2, <1>4, <1>5 DEF Inv

\* A step that touches no object and begins no copy.
LEMMA QuietKeeps ==
  ASSUME Inv, UNCHANGED <<objects, latest, raced>>,
         NEW r \in Runs, NEW new \in RunStates, run' = [run EXCEPT ![r] = new],
         \A k \in Under : new.lane[k] = "copied" => run[r].lane[k] = "copied"
  PROVE  Inv'
<1>1. run' \in [Runs -> RunStates]
  BY DEF Inv, Types
<1>2. \A q \in Runs : \A k \in Under :
          run'[q].lane[k] = "copied" => run[q].lane[k] = "copied"
  BY DEF Inv, Types
<1>3. CopyIsLatest'
  BY <1>2 DEF Inv, CopyIsLatest
<1> QED
  BY <1>1, <1>3 DEF Inv, Types, SourceIsLatest, NothingLost

\* The run states that the quiet steps lead to.
LEMMA StartKeeps == ASSUME Inv, NEW r \in Runs, Start(r) PROVE Inv'
<1>1. PICK pc \in {"list", "delete", "probe"} :
        run' = [run EXCEPT ![r].pc = pc, ![r].of = Under]
  BY DEF Start
<1> DEFINE new == [run[r] EXCEPT !.pc = pc, !.of = Under]
<1>2. run[r] \in RunStates
  BY DEF Inv, Types
<1>3. new \in RunStates /\ new.lane = run[r].lane
  BY <1>2 DEF RunStates
<1>4. run' = [run EXCEPT ![r] = new] /\ UNCHANGED <<objects, latest, raced>>
  BY <1>1, <1>2 DEF Start, Inv, Types
<1> HIDE DEF new
<1> QED
  BY <1>3, <1>4, QuietKeeps

LEMMA StartFileKeeps ==
  ASSUME Inv, NEW r \in Runs, NEW k \in Under, StartFile(r, k) PROVE Inv'
<1>1. PICK pc \in {"rename", "last_page"} :
        run' = [run EXCEPT ![r].pc = pc, ![r].of = {k}, ![r].lane[k] = "todo"]
  BY DEF StartFile
<1> DEFINE lane == [run[r].lane EXCEPT ![k] = "todo"]
           new  == [run[r] EXCEPT !.pc = pc, !.of = {k}, !.lane = lane]
<1>2. run[r] \in RunStates /\ run \in [Runs -> RunStates]
  BY DEF Inv, Types
<1>3. run' = [run EXCEPT ![r] = new]
  BY <1>1, <1>2
<1>4. lane \in [Under -> {"none", "todo", "copied", "done", "failed"}]
      /\ \A l \in Under : lane[l] = "copied" => run[r].lane[l] = "copied"
  BY <1>2 DEF RunStates
<1> HIDE DEF lane
<1>5. new \in RunStates /\ new.lane = lane
  BY <1>2, <1>4 DEF RunStates
<1> HIDE DEF new
<1> QED
  BY <1>3, <1>4, <1>5, QuietKeeps DEF StartFile

LEMMA ProbeKeeps == ASSUME Inv, NEW r \in Runs, ProbeFolder(r) PROVE Inv'
<1> DEFINE pc  == IF After(0) # {} THEN "delete" ELSE "end"
           new == [run[r] EXCEPT !.pc = pc]
<1>1. run[r] \in RunStates /\ run \in [Runs -> RunStates]
  BY DEF Inv, Types
<1>2. pc \in {"delete", "end"}
  OBVIOUS
<1>3. run' = [run EXCEPT ![r] = new] /\ UNCHANGED <<objects, latest, raced>>
  BY <1>1 DEF ProbeFolder
<1> HIDE DEF pc
<1>4. new \in RunStates /\ new.lane = run[r].lane
  BY <1>1, <1>2 DEF RunStates
<1> HIDE DEF new
<1> QED
  BY <1>3, <1>4, QuietKeeps

LEMMA ListPageKeeps == ASSUME Inv, NEW r \in Runs, ListPage(r) PROVE Inv'
<1>1. PICK page \in SUBSET Under, last \in Under \cup {0} :
        /\ IsPage(page, run[r].token, last)
        /\ run' = [run EXCEPT
              ![r].lane  = [k \in Under |-> IF k \in page THEN "todo" ELSE @[k]],
              ![r].token = last,
              ![r].pc    = IF More(page, run[r].token) THEN "list" ELSE "rename"]
  BY DEF ListPage
<1>2. run[r] \in RunStates /\ last \in Nat /\ run \in [Runs -> RunStates]
  BY FolderAssumption DEF Inv, Types
<1> DEFINE lane == [k \in Under |-> IF k \in page THEN "todo" ELSE run[r].lane[k]]
           pc   == IF More(page, run[r].token) THEN "list" ELSE "rename"
           new  == [run[r] EXCEPT !.lane = lane, !.token = last, !.pc = pc]
<1>3. run' = [run EXCEPT ![r] = new]
  BY <1>1, <1>2
<1>4. lane \in [Under -> {"none", "todo", "copied", "done", "failed"}]
      /\ \A k \in Under : lane[k] = "copied" => run[r].lane[k] = "copied"
  BY <1>2 DEF RunStates
<1>5. pc \in {"list", "rename"}
  OBVIOUS
<1> HIDE DEF lane, pc
<1>6. new \in RunStates /\ new.lane = lane
  BY <1>2, <1>4, <1>5 DEF RunStates
<1> HIDE DEF new
<1> QED
  BY <1>3, <1>4, <1>6, QuietKeeps DEF ListPage

LEMMA AllRenamedKeeps == ASSUME Inv, NEW r \in Runs, AllRenamed(r) PROVE Inv'
<1> DEFINE new == [run[r] EXCEPT !.pc = "end"]
<1>1. run[r] \in RunStates /\ run \in [Runs -> RunStates]
  BY DEF Inv, Types
<1>2. new \in RunStates /\ new.lane = run[r].lane
  BY <1>1 DEF RunStates
<1>3. run' = [run EXCEPT ![r] = new] /\ UNCHANGED <<objects, latest, raced>>
  BY <1>1 DEF AllRenamed
<1> HIDE DEF new
<1> QED
  BY <1>2, <1>3, QuietKeeps

LEMMA DeleteListKeeps == ASSUME Inv, NEW r \in Runs, DeleteList(r) PROVE Inv'
<1>1. PICK page \in SUBSET Under, last \in Under \cup {0} :
        run' = [run EXCEPT
              ![r].lane  = [k \in Under |-> IF k \in page THEN "todo" ELSE "none"],
              ![r].token = last,
              ![r].pc    = IF More(page, run[r].token) THEN "page" ELSE "last_page"]
  BY DEF DeleteList
<1>2. run[r] \in RunStates /\ last \in Nat /\ run \in [Runs -> RunStates]
  BY FolderAssumption DEF Inv, Types
<1> DEFINE lane == [k \in Under |-> IF k \in page THEN "todo" ELSE "none"]
           pc   == IF More(page, run[r].token) THEN "page" ELSE "last_page"
           new  == [run[r] EXCEPT !.lane = lane, !.token = last, !.pc = pc]
<1>3. run' = [run EXCEPT ![r] = new]
  BY <1>1, <1>2
<1>4. lane \in [Under -> {"none", "todo", "copied", "done", "failed"}]
      /\ \A k \in Under : lane[k] # "copied"
  <2>1. \A k \in Under : lane[k] \in {"none", "todo"}
    OBVIOUS
  <2> QED
    BY <2>1
<1>5. pc \in {"page", "last_page"}
  OBVIOUS
<1> HIDE DEF lane, pc
<1>6. new \in RunStates /\ new.lane = lane
  BY <1>2, <1>4, <1>5 DEF RunStates
<1> HIDE DEF new
<1> QED
  <2>1. UNCHANGED <<objects, latest, raced>>
    BY DEF DeleteList
  <2>2. \A k \in Under : new.lane[k] = "copied" => run[r].lane[k] = "copied"
    BY <1>4, <1>6
  <2> QED
    BY <1>3, <1>6, <2>1, <2>2, QuietKeeps

LEMMA EndOrCrashKeeps == ASSUME Inv, NEW r \in Runs, End(r) \/ Crash(r) PROVE Inv'
<1>1. NoRun \in RunStates /\ \A k \in Under : NoRun.lane[k] = "none"
  BY DEF NoRun, RunStates, Waiting
<1>2. run' = [run EXCEPT ![r] = NoRun] /\ UNCHANGED <<objects, latest, raced>>
  BY DEF End, Crash
<1> QED
  BY <1>1, <1>2, QuietKeeps

LEMMA CopyKeyKeeps ==
  ASSUME Inv, NEW r \in Runs, NEW k \in Under, CopyKey(r, k) PROVE Inv'
<1>1. run[r] \in RunStates /\ run \in [Runs -> RunStates]
      /\ objects \in [Keys -> Contents] /\ latest \in [Under -> Contents]
  BY DEF Inv, Types
<1> DEFINE copied == [run[r] EXCEPT !.lane[k] = "copied"]
           failed == [run[r] EXCEPT !.lane[k] = "failed", !.failed = @ \cup {k}]
           moved  == [objects EXCEPT ![Target[k]] = objects[k]]
<1>2. copied \in RunStates /\ copied.lane = [run[r].lane EXCEPT ![k] = "copied"]
  BY <1>1 DEF RunStates
<1>3. failed \in RunStates /\ failed.lane = [run[r].lane EXCEPT ![k] = "failed"]
  BY <1>1 DEF RunStates
<1>4. UNCHANGED <<latest, raced>>
      /\ \/ objects[k] # None /\ objects' = moved /\ run' = [run EXCEPT ![r] = copied]
         \/ objects[k] # None /\ objects' \in {objects, moved}
            /\ run' = [run EXCEPT ![r] = failed]
         \/ objects' = objects /\ run' = [run EXCEPT ![r] = failed]
  BY <1>1 DEF CopyKey, Lane, LaneFails
<1> HIDE DEF copied, failed
<1>5. objects[k] # None \/ objects' = objects
  BY <1>4
<1>6. objects' \in {objects, moved}
  BY <1>4
<1>7. objects' \in [Keys -> Contents]
  BY <1>1, <1>6, TargetFacts
<1>8. run' \in [Runs -> RunStates]
  BY <1>1, <1>2, <1>3, <1>4
<1>9. \A l \in Under : objects'[l] = objects[l]
  BY <1>1, <1>6, TargetFacts
<1>10. SourceIsLatest'
  BY <1>4, <1>9 DEF Inv, SourceIsLatest
<1>11. \A l \in Under \ {k} : objects'[Target[l]] = objects[Target[l]]
  BY <1>1, <1>6, TargetFacts
<1>12. objects' = moved /\ objects[k] # None => objects'[Target[k]] = latest[k]
  BY <1>1, TargetFacts DEF Inv, SourceIsLatest
<1>13. ASSUME NEW l \in Under \ raced, latest[l] \in {None, objects[Target[l]]}
       PROVE  latest[l] \in {None, objects'[Target[l]]}
  BY <1>5, <1>6, <1>11, <1>12, <1>13
<1>14. CopyIsLatest'
  <2> SUFFICES ASSUME NEW q \in Runs, NEW l \in Under \ raced, run'[q].lane[l] = "copied"
               PROVE  latest[l] \in {None, objects'[Target[l]]}
    BY <1>4 DEF CopyIsLatest
  <2>1. CASE run[q].lane[l] = "copied"
    BY <2>1, <1>13 DEF Inv, CopyIsLatest
  <2>2. CASE run[q].lane[l] # "copied"
    <3>1. q = r /\ l = k /\ run' = [run EXCEPT ![r] = copied]
      BY <2>2, <1>1, <1>2, <1>3, <1>4 DEF RunStates
    <3>2. objects' = moved /\ objects[k] # None
      <4>1. copied.lane[k] = "copied" /\ failed.lane[k] = "failed"
        BY <1>1, <1>2, <1>3 DEF RunStates
      <4> QED
        BY <3>1, <4>1, <1>1, <1>4
    <3> QED
      BY <3>1, <3>2, <1>12
  <2> QED
    BY <2>1, <2>2
<1>15. NothingLost'
  <2> SUFFICES ASSUME NEW l \in Under \ raced, latest[l] # None
               PROVE  latest[l] \in {objects'[l], objects'[Target[l]]}
    BY <1>4 DEF NothingLost
  <2>1. latest[l] \in {objects[l], objects[Target[l]]}
    BY DEF Inv, NothingLost
  <2> QED
    BY <2>1, <1>9, <1>13
<1> QED
  BY <1>4, <1>7, <1>8, <1>10, <1>14, <1>15 DEF Inv, Types

LEMMA DeleteKeyKeeps ==
  ASSUME Inv, NEW r \in Runs, NEW k \in Under, DeleteKey(r, k) PROVE Inv'
<1>1. run[r] \in RunStates /\ run \in [Runs -> RunStates]
      /\ objects \in [Keys -> Contents] /\ latest \in [Under -> Contents]
      /\ run[r].lane[k] = "copied"
  BY DEF Inv, Types, DeleteKey
<1> DEFINE done   == [run[r] EXCEPT !.lane[k] = "done"]
           failed == [run[r] EXCEPT !.lane[k] = "failed", !.failed = @ \cup {k}]
<1>2. done \in RunStates /\ done.lane = [run[r].lane EXCEPT ![k] = "done"]
  BY <1>1 DEF RunStates
<1>3. failed \in RunStates /\ failed.lane = [run[r].lane EXCEPT ![k] = "failed"]
  BY <1>1 DEF RunStates
<1>4. UNCHANGED <<latest, raced>> /\ objects' \in {objects, [objects EXCEPT ![k] = None]}
      /\ \E new \in {done, failed} : run' = [run EXCEPT ![r] = new]
  BY <1>1 DEF DeleteKey, Lane, LaneFails
<1>5. \A new \in {done, failed} : \A l \in Under :
          new.lane[l] = "copied" => run[r].lane[l] = "copied"
  <2> HIDE DEF done, failed
  <2>1. \A l \in Under : done.lane[l] = "copied" => run[r].lane[l] = "copied"
    BY <1>1, <1>2 DEF RunStates
  <2>2. \A l \in Under : failed.lane[l] = "copied" => run[r].lane[l] = "copied"
    BY <1>1, <1>3 DEF RunStates
  <2> QED
    BY <2>1, <2>2
<1>6. run' \in [Runs -> RunStates]
      /\ \A q \in Runs : \A l \in Under :
             run'[q].lane[l] = "copied" => run[q].lane[l] = "copied"
  <2> HIDE DEF done, failed
  <2> QED
    BY <1>1, <1>2, <1>3, <1>4, <1>5
<1> HIDE DEF done, failed
<1>7. objects' \in [Keys -> Contents]
  BY <1>1, <1>4 DEF Contents
<1>8. \A l \in Under : /\ objects'[Target[l]] = objects[Target[l]]
                       /\ objects'[l] = objects[l] \/ (l = k /\ objects'[l] = None)
  <2>1. CASE objects' = objects
    BY <2>1
  <2>2. CASE objects' = [objects EXCEPT ![k] = None]
    BY <2>2, <1>1, TargetFacts
  <2> QED
    BY <2>1, <2>2, <1>4
<1>9. SourceIsLatest'
  BY <1>4, <1>8 DEF Inv, SourceIsLatest
<1>10. CopyIsLatest'
  <2>1. ASSUME NEW q \in Runs, NEW l \in Under \ raced, run'[q].lane[l] = "copied"
        PROVE  latest[l] \in {None, objects'[Target[l]]}
    <3>1. latest[l] \in {None, objects[Target[l]]}
      BY <2>1, <1>6 DEF Inv, CopyIsLatest
    <3> QED
      BY <3>1, <1>8
  <2> QED
    BY <2>1, <1>4 DEF CopyIsLatest
<1>11. NothingLost'
  <2> SUFFICES ASSUME NEW l \in Under \ raced, latest[l] # None
               PROVE  latest[l] \in {objects'[l], objects'[Target[l]]}
    BY <1>4 DEF NothingLost
  <2>1. CASE l = k
    <3>1. latest[k] = objects[Target[k]]
      BY <2>1, <1>1 DEF Inv, CopyIsLatest
    <3> QED
      BY <2>1, <3>1, <1>8
  <2>2. CASE l # k
    BY <2>2, <1>8 DEF Inv, NothingLost
  <2> QED
    BY <2>1, <2>2
<1> QED
  BY <1>4, <1>6, <1>7, <1>9, <1>10, <1>11 DEF Inv, Types

LEMMA DeletePageKeeps == ASSUME Inv, NEW r \in Runs, DeletePage(r) PROVE Inv'
<1>1. PICK gone \in SUBSET Under, failed \in SUBSET Under :
        /\ objects' = [k \in Keys |-> IF k \in gone THEN None ELSE objects[k]]
        /\ latest'  = [k \in Under |-> IF k \in gone THEN None ELSE latest[k]]
        /\ run' = [run EXCEPT ![r].pc = IF @ = "page" THEN "delete" ELSE "end",
                              ![r].lane = Waiting, ![r].failed = @ \cup failed]
        /\ UNCHANGED raced
  <2> DEFINE page == {k \in Under : run[r].lane[k] = "todo"}
  <2>1. PICK gone \in SUBSET page : \E failed \in {page, page \ gone} :
        /\ objects' = [k \in Keys |-> IF k \in gone THEN None ELSE objects[k]]
        /\ latest'  = [k \in Under |-> IF k \in gone THEN None ELSE latest[k]]
        /\ run' = [run EXCEPT ![r].pc = IF @ = "page" THEN "delete" ELSE "end",
                              ![r].lane = Waiting, ![r].failed = @ \cup failed]
        /\ UNCHANGED raced
    BY DEF DeletePage
  <2>2. page \in SUBSET Under
    OBVIOUS
  <2> HIDE DEF page
  <2>3. gone \in SUBSET Under /\ \A f \in {page, page \ gone} : f \in SUBSET Under
    BY <2>2
  <2> QED
    BY <2>1, <2>3
<1>2. run[r] \in RunStates /\ run \in [Runs -> RunStates]
      /\ objects \in [Keys -> Contents] /\ latest \in [Under -> Contents]
  BY DEF Inv, Types
<1> DEFINE pc  == IF run[r].pc = "page" THEN "delete" ELSE "end"
           new == [run[r] EXCEPT !.pc = pc, !.lane = Waiting, !.failed = @ \cup failed]
<1>3. pc \in {"delete", "end"}
  OBVIOUS
<1>4. run' = [run EXCEPT ![r] = new]
  BY <1>1, <1>2
<1> HIDE DEF pc
<1>5. Waiting \in [Under -> {"none", "todo", "copied", "done", "failed"}]
      /\ \A k \in Under : Waiting[k] = "none"
  BY DEF Waiting
<1>6. new \in RunStates /\ new.lane = Waiting
  BY <1>2, <1>3, <1>5 DEF RunStates
<1> HIDE DEF new
<1>7. run' \in [Runs -> RunStates]
      /\ \A q \in Runs : \A k \in Under :
             run'[q].lane[k] = "copied" => run[q].lane[k] = "copied"
  BY <1>2, <1>4, <1>5, <1>6
<1>8. objects' \in [Keys -> Contents] /\ latest' \in [Under -> Contents]
  BY <1>1, <1>2 DEF Contents
<1>9. \A k \in Under :
        /\ objects'[Target[k]] = objects[Target[k]]
        /\ \/ objects'[k] = None /\ latest'[k] = None
           \/ objects'[k] = objects[k] /\ latest'[k] = latest[k]
  BY <1>1, TargetFacts
<1>10. SourceIsLatest' /\ NothingLost'
  BY <1>1, <1>9 DEF Inv, SourceIsLatest, NothingLost
<1>11. CopyIsLatest'
  BY <1>1, <1>7, <1>9 DEF Inv, CopyIsLatest
<1> QED
  BY <1>1, <1>7, <1>8, <1>10, <1>11 DEF Inv, Types

LEMMA WriteKeeps == ASSUME Inv, NEW k \in Under, Write(k) PROVE Inv'
<1>1. objects \in [Keys -> Contents] /\ latest \in [Under -> Contents]
  BY DEF Inv, Types
<1>2. /\ objects' = [objects EXCEPT ![k] = 2] /\ latest' = [latest EXCEPT ![k] = 2]
      /\ raced' \in {raced, raced \cup {k}} /\ UNCHANGED run
      /\ \A r \in Runs : run[r].lane[k] = "copied" => k \in raced'
  BY DEF Write
<1>3. objects' \in [Keys -> Contents] /\ latest' \in [Under -> Contents]
  BY <1>1, <1>2 DEF Contents
<1>4. \A l \in Under :
        /\ objects'[Target[l]] = objects[Target[l]]
        /\ l # k => objects'[l] = objects[l] /\ latest'[l] = latest[l]
        /\ l = k => objects'[l] = 2 /\ latest'[l] = 2
  BY <1>1, <1>2, TargetFacts
<1>5. SourceIsLatest'
  BY <1>4 DEF Inv, SourceIsLatest
<1>6. NothingLost'
  BY <1>2, <1>4 DEF Inv, NothingLost
<1>7. CopyIsLatest'
  BY <1>2, <1>4 DEF Inv, CopyIsLatest
<1>8. raced' \subseteq Under
  BY <1>2 DEF Inv, Types
<1> QED
  BY <1>2, <1>3, <1>5, <1>6, <1>7, <1>8 DEF Inv, Types

LEMMA StepInv == Inv /\ [Next]_vars => Inv'
<1> SUFFICES ASSUME Inv, [Next]_vars PROVE Inv'
  OBVIOUS
<1>1. ASSUME NEW r \in Runs, Step(r) PROVE Inv'
  BY <1>1, ListPageKeeps, AllRenamedKeeps, ProbeKeeps, DeleteListKeeps,
     DeletePageKeeps, EndOrCrashKeeps, CopyKeyKeeps, DeleteKeyKeeps DEF Step
<1>2. ASSUME NEW r \in Runs, Start(r) \/ Crash(r) PROVE Inv'
  BY <1>2, StartKeeps, EndOrCrashKeeps
<1>3. ASSUME NEW k \in Under, Write(k) PROVE Inv'
  BY <1>3, WriteKeeps
<1>4. ASSUME NEW r \in Runs, NEW k \in Files, StartFile(r, k) PROVE Inv'
  BY <1>4, StartFileKeeps, FolderAssumption
<1>5. CASE UNCHANGED vars
  BY <1>5 DEF vars, Inv, Types, SourceIsLatest, CopyIsLatest, NothingLost
<1> QED
  BY <1>1, <1>2, <1>3, <1>4, <1>5 DEF Next

\* No object is lost to folder jobs: what users last put at a key of the folder
\* is there or at the target of the key, unless they wrote it while a run had
\* copied the key and not yet deleted it (renameFolder deletes by key alone).
THEOREM NothingIsLost == Spec => []NothingLost
<1>1. Inv => NothingLost
  BY DEF Inv
<1> QED
  BY InitInv, StepInv, <1>1, PTL DEF Spec

-----------------------------------------------------------------------------
(* No key is missed *)

\* What has become of key k of an execution in state l, when it is not waiting:
\* the object is gone, or the failure is listed.
Settled(l, k) == objects[k] = None \/ k \in l.failed

\* What an execution in state l can say of the key k that nobody has written.
KeySound(l, k) ==
    /\ l.pc = "idle" => k \notin l.of
    /\ l.pc = "probe" => l.token = 0
    /\ l.pc \in {"list", "page"} /\ k <= l.token => Settled(l, k) \/ l.lane[k] = "todo"
    /\ l.pc = "last_page" /\ k \in l.of => Settled(l, k) \/ l.lane[k] = "todo"
    /\ l.pc = "delete" /\ k <= l.token => Settled(l, k)
    /\ l.pc = "rename" /\ k \in l.of => Settled(l, k) \/ l.lane[k] \in {"todo", "copied"}
    /\ l.pc = "end" /\ k \in l.of => Settled(l, k)

FreshIdle == \A r \in Runs : run[r].pc = "idle" => run[r] = NoRun

KeysSound == \A r \in Runs : \A k \in Under \ written : KeySound(run[r], k)

MInv == Types /\ FreshIdle /\ KeysSound

LEMMA NoRunFacts ==
    /\ NoRun \in RunStates /\ NoRun.pc = "idle" /\ NoRun.of = {} /\ NoRun.token = 0
    /\ NoRun.failed = {} /\ \A k \in Under : NoRun.lane[k] = "none"
  BY DEF NoRun, RunStates, Waiting

LEMMA TypesInductive == Inv /\ [Next]_vars => Types'
  BY StepInv DEF Inv

\* A step of one execution: other executions know no less of their keys, since
\* an object that is gone stays so until somebody writes it.
LEMMA StepKeeps ==
    ASSUME MInv, Types', written' = written,
           \A k \in Under \ written : objects[k] = None => objects'[k] = None,
           NEW r \in Runs, NEW new \in RunStates, run' = [run EXCEPT ![r] = new],
           new.pc = "idle" => new = NoRun,
           \A k \in Under \ written : KeySound(new, k)'
    PROVE  MInv'
<1>1. run \in [Runs -> RunStates]
  BY DEF MInv, Types
<1>2. \A l \in RunStates : \A k \in Under \ written : KeySound(l, k) => KeySound(l, k)'
  BY DEF KeySound, Settled
<1>3. ASSUME NEW q \in Runs, NEW k \in Under \ written PROVE KeySound(run[q], k)'
  <2>1. CASE q = r
    <3>1. run'[q] = new
      BY <1>1, <2>1
    <3>2. KeySound(new, k)'
      OBVIOUS
    <3> QED
      BY <3>1, <3>2 DEF KeySound, Settled
  <2>2. CASE q # r
    <3>1. run'[q] = run[q] /\ run[q] \in RunStates
      BY <1>1, <2>2
    <3>2. PICK l \in RunStates : l = run[q] /\ l = run'[q]
      BY <3>1
    <3>3. KeySound(l, k)
      BY <3>2 DEF MInv, KeysSound
    <3>4. KeySound(l, k)'
      BY <1>2, <3>3
    <3> QED
      BY <3>2, <3>4 DEF KeySound, Settled
  <2> QED
    BY <2>1, <2>2
<1>4. KeysSound'
  BY <1>3 DEF KeysSound
<1>5. FreshIdle'
  BY <1>1 DEF MInv, FreshIdle
<1> QED
  BY <1>4, <1>5 DEF MInv

LEMMA RunTypes ==
    ASSUME MInv, NEW r \in Runs
    PROVE  /\ run \in [Runs -> RunStates] /\ run[r] \in RunStates
           /\ run[r].of \subseteq Under /\ run[r].token \in Nat
           /\ run[r].lane \in [Under -> {"none", "todo", "copied", "done", "failed"}]
           /\ run[r].failed \subseteq Under
           /\ \A k \in Under \ written : KeySound(run[r], k)
           /\ Under \subseteq Nat \ {0}
  BY FolderAssumption DEF MInv, Types, RunStates, KeysSound

LEMMA StartSound == ASSUME MInv, Types', NEW r \in Runs, Start(r) PROVE MInv'
<1>1. PICK pc \in {"list", "delete", "probe"} :
        run' = [run EXCEPT ![r].pc = pc, ![r].of = Under]
  BY DEF Start
<1>2. run[r] = NoRun /\ run[r] \in RunStates /\ run \in [Runs -> RunStates]
  BY RunTypes DEF Start, MInv, FreshIdle
<1>3. PICK new \in RunStates : new = [run[r] EXCEPT !.pc = pc, !.of = Under]
  BY <1>2 DEF RunStates
<1>4. run' = [run EXCEPT ![r] = new]
  BY <1>1, <1>2, <1>3
<1>5. new.pc = pc /\ new.token = 0
  BY <1>2, <1>3, NoRunFacts DEF RunStates
<1>6. \A k \in Under \ written : KeySound(new, k)'
  BY <1>5, RunTypes DEF KeySound
<1> QED
  BY <1>4, <1>5, <1>6, StepKeeps DEF Start

LEMMA StartFileSound ==
    ASSUME MInv, Types', NEW r \in Runs, NEW f \in Under, StartFile(r, f) PROVE MInv'
<1>1. PICK pc \in {"rename", "last_page"} :
        run' = [run EXCEPT ![r].pc = pc, ![r].of = {f}, ![r].lane[f] = "todo"]
  BY DEF StartFile
<1>2. run[r] \in RunStates /\ run \in [Runs -> RunStates]
  BY RunTypes
<1>3. PICK lane \in [Under -> {"none", "todo", "copied", "done", "failed"}] :
         lane = [run[r].lane EXCEPT ![f] = "todo"]
  BY RunTypes
<1>4. lane[f] = "todo"
  BY <1>3, RunTypes
<1>5. PICK new \in RunStates : new = [run[r] EXCEPT !.pc = pc, !.of = {f}, !.lane = lane]
  BY <1>2, <1>3 DEF RunStates
<1>6. run' = [run EXCEPT ![r] = new]
  <2>1. run' = [run EXCEPT ![r] = [run[r] EXCEPT !.pc = pc, !.of = {f},
                                     !.lane = [run[r].lane EXCEPT ![f] = "todo"]]]
    BY <1>1, <1>2
  <2> QED
    BY <1>3, <1>5, <2>1
<1>7. new.pc = pc /\ new.of = {f} /\ new.lane = lane
  BY <1>2, <1>5 DEF RunStates
<1>8. \A k \in Under \ written : KeySound(new, k)'
  BY <1>4, <1>7 DEF KeySound
<1> QED
  BY <1>6, <1>7, <1>8, StepKeeps DEF StartFile

LEMMA ProbeSound == ASSUME MInv, Types', NEW r \in Runs, ProbeFolder(r) PROVE MInv'
<1>1. run[r] \in RunStates /\ run \in [Runs -> RunStates]
  BY RunTypes
<1>2. PICK pc \in {"delete", "end"} : pc = IF After(0) # {} THEN "delete" ELSE "end"
  OBVIOUS
<1>3. PICK new \in RunStates : new = [run[r] EXCEPT !.pc = pc]
  BY <1>1 DEF RunStates
<1>4. run' = [run EXCEPT ![r] = new]
  BY <1>1, <1>2, <1>3 DEF ProbeFolder
<1>5. new.pc = pc /\ new.token = run[r].token /\ new.of = run[r].of
  BY <1>1, <1>3 DEF RunStates
<1>6. ASSUME NEW k \in Under \ written PROVE KeySound(new, k)'
  <2>1. run[r].token = 0 /\ k > 0 /\ k \in Nat
    BY RunTypes DEF KeySound, ProbeFolder
  <2>2. pc = "end" => objects[k] = None
    BY <1>2, <2>1 DEF After
  <2> QED
    BY <1>5, <2>1, <2>2 DEF KeySound, Settled, ProbeFolder
<1> QED
  BY <1>4, <1>5, <1>6, StepKeeps DEF ProbeFolder

\* A page leaves no key at or below its last that is there and not on it; when
\* it is the last page, no key at all.
LEMMA PageFacts ==
    ASSUME NEW page \in SUBSET Under, NEW last \in Under \cup {0}, NEW token \in Nat,
           IsPage(page, token, last), NEW k \in Under, objects[k] # None, k > token,
           k \notin page
    PROVE  k > last /\ More(page, token)
<1>1. k \in After(token) \ page /\ page \subseteq After(token)
  BY DEF After, IsPage
<1>2. \A l \in page : l < k
  BY <1>1 DEF IsPage
<1>3. last \in page \cup {token}
  BY DEF IsPage
<1> QED
  BY <1>1, <1>2, <1>3 DEF More

LEMMA ListPageSound == ASSUME MInv, Types', NEW r \in Runs, ListPage(r) PROVE MInv'
<1>1. PICK page \in SUBSET Under, last \in Under \cup {0} :
        /\ IsPage(page, run[r].token, last)
        /\ run' = [run EXCEPT
              ![r].lane  = [k \in Under |-> IF k \in page THEN "todo" ELSE @[k]],
              ![r].token = last,
              ![r].pc    = IF More(page, run[r].token) THEN "list" ELSE "rename"]
  BY DEF ListPage
<1>2. run[r] \in RunStates /\ run \in [Runs -> RunStates] /\ run[r].token \in Nat
      /\ last \in Nat
  BY RunTypes
<1>3. PICK pc \in {"list", "rename"} :
         pc = IF More(page, run[r].token) THEN "list" ELSE "rename"
  OBVIOUS
<1>4. PICK lane \in [Under -> {"none", "todo", "copied", "done", "failed"}] :
         lane = [k \in Under |-> IF k \in page THEN "todo" ELSE run[r].lane[k]]
  <2>1. [k \in Under |-> IF k \in page THEN "todo" ELSE run[r].lane[k]]
            \in [Under -> {"none", "todo", "copied", "done", "failed"}]
    BY RunTypes
  <2> QED
    BY <2>1
<1>5. PICK new \in RunStates : new = [run[r] EXCEPT !.lane = lane, !.token = last, !.pc = pc]
  BY <1>2, <1>4 DEF RunStates
<1>6. run' = [run EXCEPT ![r] = new]
  BY <1>1, <1>2, <1>3, <1>4, <1>5
<1>7. /\ new.pc = pc /\ new.token = last /\ new.lane = lane
      /\ new.failed = run[r].failed
  BY <1>2, <1>5 DEF RunStates
<1>8. ASSUME NEW k \in Under \ written PROVE KeySound(new, k)'
  <2>1. k \in Nat /\ lane[k] = (IF k \in page THEN "todo" ELSE run[r].lane[k])
    BY <1>4, RunTypes
  <2>2. k <= run[r].token => Settled(run[r], k) \/ run[r].lane[k] = "todo"
    BY RunTypes DEF KeySound, ListPage
  <2>3. k > run[r].token /\ k \notin page /\ objects[k] # None
           => k > last /\ More(page, run[r].token)
    BY <1>1, <1>2, PageFacts
  <2>4. k <= last \/ pc = "rename" => Settled(run[r], k) \/ lane[k] = "todo"
    BY <1>2, <1>3, <2>1, <2>2, <2>3 DEF Settled
  <2>5. Settled(run[r], k) => Settled(new, k)'
    BY <1>7 DEF Settled, ListPage
  <2> QED
    BY <1>7, <2>4, <2>5 DEF KeySound
<1> QED
  BY <1>6, <1>7, <1>8, StepKeeps DEF ListPage

LEMMA DeleteListSound == ASSUME MInv, Types', NEW r \in Runs, DeleteList(r) PROVE MInv'
<1>1. PICK page \in SUBSET Under, last \in Under \cup {0} :
        /\ IsPage(page, run[r].token, last)
        /\ run' = [run EXCEPT
              ![r].lane  = [k \in Under |-> IF k \in page THEN "todo" ELSE "none"],
              ![r].token = last,
              ![r].pc    = IF More(page, run[r].token) THEN "page" ELSE "last_page"]
  BY DEF DeleteList
<1>2. run[r] \in RunStates /\ run \in [Runs -> RunStates] /\ run[r].token \in Nat
      /\ last \in Nat
  BY RunTypes
<1>3. PICK pc \in {"page", "last_page"} :
         pc = IF More(page, run[r].token) THEN "page" ELSE "last_page"
  OBVIOUS
<1>4. PICK lane \in [Under -> {"none", "todo", "copied", "done", "failed"}] :
         lane = [k \in Under |-> IF k \in page THEN "todo" ELSE "none"]
  <2>1. [k \in Under |-> IF k \in page THEN "todo" ELSE "none"]
            \in [Under -> {"none", "todo", "copied", "done", "failed"}]
    <3>1. \A k \in Under : (IF k \in page THEN "todo" ELSE "none")
                              \in {"none", "todo", "copied", "done", "failed"}
      OBVIOUS
    <3> QED
      BY <3>1
  <2> QED
    BY <2>1
<1>5. PICK new \in RunStates : new = [run[r] EXCEPT !.lane = lane, !.token = last, !.pc = pc]
  BY <1>2, <1>4 DEF RunStates
<1>6. run' = [run EXCEPT ![r] = new]
  BY <1>1, <1>2, <1>3, <1>4, <1>5
<1>7. /\ new.pc = pc /\ new.token = last /\ new.lane = lane
      /\ new.failed = run[r].failed
  BY <1>2, <1>5 DEF RunStates
<1>8. ASSUME NEW k \in Under \ written PROVE KeySound(new, k)'
  <2>1. k \in Nat /\ (k \in page => lane[k] = "todo")
    BY <1>4, RunTypes
  <2>2. k <= run[r].token => Settled(run[r], k)
    BY RunTypes DEF KeySound, DeleteList
  <2>3. k > run[r].token /\ k \notin page /\ objects[k] # None
           => k > last /\ More(page, run[r].token)
    BY <1>1, <1>2, PageFacts
  <2>4. k <= last \/ pc = "last_page" => Settled(run[r], k) \/ lane[k] = "todo"
    BY <1>2, <1>3, <2>1, <2>2, <2>3 DEF Settled
  <2>5. Settled(run[r], k) => Settled(new, k)'
    BY <1>7 DEF Settled, DeleteList
  <2> QED
    BY <1>7, <2>4, <2>5 DEF KeySound
<1> QED
  BY <1>6, <1>7, <1>8, StepKeeps DEF DeleteList

LEMMA DeletePageSound == ASSUME MInv, Types', NEW r \in Runs, DeletePage(r) PROVE MInv'
<1> DEFINE page == {k \in Under : run[r].lane[k] = "todo"}
<1>1. PICK gone \in SUBSET page, failed \in SUBSET page :
        /\ page \subseteq gone \cup failed
        /\ objects' = [k \in Keys |-> IF k \in gone THEN None ELSE objects[k]]
        /\ run' = [run EXCEPT ![r].pc = IF @ = "page" THEN "delete" ELSE "end",
                              ![r].lane = Waiting, ![r].failed = @ \cup failed]
  <2>1. PICK gone \in SUBSET page : \E failed \in {page, page \ gone} :
        /\ objects' = [k \in Keys |-> IF k \in gone THEN None ELSE objects[k]]
        /\ run' = [run EXCEPT ![r].pc = IF @ = "page" THEN "delete" ELSE "end",
                              ![r].lane = Waiting, ![r].failed = @ \cup failed]
    BY DEF DeletePage
  <2> HIDE DEF page
  <2>2. \A f \in {page, page \ gone} : f \in SUBSET page /\ page \subseteq gone \cup f
    OBVIOUS
  <2> QED
    BY <2>1, <2>2
<1>2. page \subseteq Under /\ \A k \in Under : run[r].lane[k] = "todo" => k \in page
  OBVIOUS
<1> HIDE DEF page
<1>3. run[r] \in RunStates /\ run \in [Runs -> RunStates]
  BY RunTypes
<1>4. PICK pc \in {"delete", "end"} : pc = IF run[r].pc = "page" THEN "delete" ELSE "end"
  OBVIOUS
<1>5. Waiting \in [Under -> {"none", "todo", "copied", "done", "failed"}]
  BY DEF Waiting
<1>6. PICK new \in RunStates :
         new = [run[r] EXCEPT !.pc = pc, !.lane = Waiting, !.failed = @ \cup failed]
  BY <1>1, <1>2, <1>3, <1>5 DEF RunStates
<1>7. run' = [run EXCEPT ![r] = new]
  BY <1>1, <1>3, <1>4, <1>6
<1>8. /\ new.pc = pc /\ new.token = run[r].token /\ new.of = run[r].of
      /\ new.failed = run[r].failed \cup failed
  BY <1>3, <1>6 DEF RunStates
<1>9. \A k \in Under : /\ k \in Keys
                       /\ objects'[k] = (IF k \in gone THEN None ELSE objects[k])
  BY <1>1, TargetFacts
<1>10. ASSUME NEW k \in Under \ written PROVE KeySound(new, k)'
  <2>1. Settled(run[r], k) \/ run[r].lane[k] = "todo" => Settled(new, k)'
    BY <1>1, <1>2, <1>8, <1>9 DEF Settled
  <2>2. KeySound(run[r], k) /\ run[r].pc \in {"page", "last_page"}
    BY RunTypes DEF DeletePage
  <2>3. run[r].pc = "page" => pc = "delete"
    BY <1>4
  <2>4. run[r].pc = "last_page" => pc = "end"
    BY <1>4
  <2> QED
    BY <1>8, <2>1, <2>2, <2>3, <2>4 DEF KeySound
<1>11. \A k \in Under \ written : objects[k] = None => objects'[k] = None
  BY <1>9
<1>12. written' = written /\ new.pc # "idle"
  BY <1>8 DEF DeletePage
<1> QED
  BY <1>7, <1>10, <1>11, <1>12, StepKeeps

LEMMA AllRenamedSound == ASSUME MInv, Types', NEW r \in Runs, AllRenamed(r) PROVE MInv'
<1>1. run[r] \in RunStates /\ run \in [Runs -> RunStates]
  BY RunTypes
<1>2. PICK new \in RunStates : new = [run[r] EXCEPT !.pc = "end"]
  BY <1>1 DEF RunStates
<1>3. run' = [run EXCEPT ![r] = new]
  BY <1>1, <1>2 DEF AllRenamed
<1>4. new.pc = "end" /\ new.of = run[r].of /\ new.failed = run[r].failed
  BY <1>1, <1>2 DEF RunStates
<1>5. \A k \in Under \ written : KeySound(new, k)'
  BY <1>4, RunTypes DEF KeySound, Settled, AllRenamed
<1> QED
  BY <1>3, <1>4, <1>5, StepKeeps DEF AllRenamed

LEMMA EndOrCrashSound ==
    ASSUME MInv, Types', NEW r \in Runs, End(r) \/ Crash(r) PROVE MInv'
<1>1. run' = [run EXCEPT ![r] = NoRun] /\ UNCHANGED <<objects, written>>
  BY DEF End, Crash
<1>2. PICK new \in RunStates : new = NoRun
  BY NoRunFacts
<1>3. \A k \in Under \ written : KeySound(new, k)'
  BY <1>2, NoRunFacts DEF KeySound
<1> QED
  BY <1>1, <1>2, <1>3, StepKeeps

\* The lane of one key goes on.
LEMMA LaneSound ==
    ASSUME MInv, NEW r \in Runs, run[r].pc = "rename",
           NEW k \in Under, NEW new \in RunStates,
           new.pc = "rename", new.of = run[r].of, run[r].failed \subseteq new.failed,
           \A l \in Under \ {k} : new.lane[l] = run[r].lane[l],
           new.lane[k] = "copied" \/ k \in new.failed \/ objects'[k] = None,
           \A l \in Under \ written : objects[l] = None => objects'[l] = None
    PROVE  \A l \in Under \ written : KeySound(new, l)'
<1>1. ASSUME NEW l \in Under \ written PROVE KeySound(new, l)'
  <2>1. l \in run[r].of => Settled(run[r], l) \/ run[r].lane[l] \in {"todo", "copied"}
    BY RunTypes DEF KeySound
  <2>2. Settled(run[r], l) => Settled(new, l)'
    BY DEF Settled
  <2>3. l = k => Settled(new, l)' \/ new.lane[l] = "copied"
    BY DEF Settled
  <2> QED
    BY <2>1, <2>2, <2>3 DEF KeySound
<1> QED
  BY <1>1

LEMMA CopyOrDeleteSound ==
    ASSUME MInv, Types', NEW r \in Runs, NEW k \in Under, CopyKey(r, k) \/ DeleteKey(r, k)
    PROVE  MInv'
<1>1. run \in [Runs -> RunStates] /\ run[r] \in RunStates /\ objects \in [Keys -> Contents]
  BY RunTypes DEF MInv, Types
<1>2. run[r].pc = "rename" /\ written' = written
  BY DEF CopyKey, DeleteKey
<1>3. \A l \in Under : objects[l] = None => objects'[l] = None
  <2>1. objects' \in {objects, [objects EXCEPT ![Target[k]] = objects[k]],
                      [objects EXCEPT ![k] = None]}
    BY DEF CopyKey, DeleteKey
  <2> QED
    BY <2>1, <1>1, TargetFacts
<1>4. \/ \E st \in {"copied", "done"} :
            /\ run' = [run EXCEPT ![r].lane[k] = st]
            /\ st = "done" => objects' = [objects EXCEPT ![k] = None]
      \/ run' = [run EXCEPT ![r].lane[k] = "failed", ![r].failed = @ \cup {k}]
  BY DEF CopyKey, DeleteKey, Lane, LaneFails
<1>5. ASSUME NEW st \in {"copied", "done"}, run' = [run EXCEPT ![r].lane[k] = st],
             st = "done" => objects' = [objects EXCEPT ![k] = None]
      PROVE  MInv'
  <2>1. PICK new \in RunStates : new = [run[r] EXCEPT !.lane[k] = st]
    BY <1>1 DEF RunStates
  <2>2. run' = [run EXCEPT ![r] = new]
    BY <1>1, <1>5, <2>1
  <2>3. /\ new.pc = "rename" /\ new.of = run[r].of /\ new.failed = run[r].failed
        /\ new.lane = [run[r].lane EXCEPT ![k] = st]
    BY <1>1, <1>2, <2>1 DEF RunStates
  <2>4. new.lane[k] = st /\ \A l \in Under \ {k} : new.lane[l] = run[r].lane[l]
    BY <2>3, RunTypes
  <2>5. st = "done" => objects'[k] = None
    BY <1>1, <1>5, TargetFacts
  <2>6. run[r].failed \subseteq new.failed
    BY <2>3
  <2>7. new.lane[k] = "copied" \/ k \in new.failed \/ objects'[k] = None
    BY <2>4, <2>5
  <2>8. \A l \in Under \ {k} : new.lane[l] = run[r].lane[l]
    BY <2>4
  <2>9. \A l \in Under \ written : objects[l] = None => objects'[l] = None
    BY <1>3
  <2>10. new.pc = "rename" /\ new.of = run[r].of
    BY <2>3
  <2>11. \A l \in Under \ written : KeySound(new, l)'
    BY <1>2, <2>6, <2>7, <2>8, <2>9, <2>10, LaneSound
  <2> QED
    BY <1>2, <2>2, <2>9, <2>10, <2>11, StepKeeps
<1>6. ASSUME run' = [run EXCEPT ![r].lane[k] = "failed", ![r].failed = @ \cup {k}]
      PROVE  MInv'
  <2>1. PICK new \in RunStates :
           new = [run[r] EXCEPT !.lane[k] = "failed", !.failed = @ \cup {k}]
    BY <1>1 DEF RunStates
  <2>2. run' = [run EXCEPT ![r] = new]
    BY <1>1, <1>6, <2>1
  <2>3. /\ new.pc = "rename" /\ new.of = run[r].of /\ new.failed = run[r].failed \cup {k}
        /\ new.lane = [run[r].lane EXCEPT ![k] = "failed"]
    BY <1>1, <1>2, <2>1 DEF RunStates
  <2>4. \A l \in Under \ {k} : new.lane[l] = run[r].lane[l]
    BY <2>3, RunTypes
  <2>5. run[r].failed \subseteq new.failed /\ k \in new.failed
    BY <2>3
  <2>6. \A l \in Under \ written : objects[l] = None => objects'[l] = None
    BY <1>3
  <2>7. new.lane[k] = "copied" \/ k \in new.failed \/ objects'[k] = None
    BY <2>5
  <2>8. new.pc = "rename" /\ new.of = run[r].of
    BY <2>3
  <2>9. \A l \in Under \ written : KeySound(new, l)'
    BY <1>2, <2>4, <2>5, <2>6, <2>7, <2>8, LaneSound
  <2> QED
    BY <1>2, <2>2, <2>6, <2>8, <2>9, StepKeeps
<1> QED
  BY <1>4, <1>5, <1>6

LEMMA WriteSound == ASSUME MInv, Types', NEW k \in Under, Write(k) PROVE MInv'
<1>1. written' = written \cup {k} /\ UNCHANGED run
      /\ objects' = [objects EXCEPT ![k] = 2] /\ objects \in [Keys -> Contents]
  BY DEF Write, MInv, Types
<1>2. \A l \in Under \ written' : objects'[l] = objects[l]
  BY <1>1, TargetFacts
<1>3. KeysSound'
  BY <1>1, <1>2 DEF MInv, KeysSound, KeySound, Settled
<1> QED
  BY <1>1, <1>3 DEF MInv, FreshIdle

LEMMA InitMInv == Init => MInv
<1> SUFFICES ASSUME Init PROVE MInv
  OBVIOUS
<1>1. Types /\ \A r \in Runs : run[r] = NoRun
  BY InitInv DEF Inv, Init
<1>2. \A k \in Under : KeySound(NoRun, k)
  BY NoRunFacts DEF KeySound
<1> QED
  BY <1>1, <1>2 DEF MInv, FreshIdle, KeysSound

LEMMA MInvInductive == Inv /\ MInv /\ [Next]_vars => MInv'
<1> SUFFICES ASSUME Inv, MInv, [Next]_vars PROVE MInv'
  OBVIOUS
<1>1. Types'
  BY TypesInductive
<1>2. ASSUME NEW r \in Runs, Step(r) PROVE MInv'
  BY <1>1, <1>2, ListPageSound, AllRenamedSound, ProbeSound, DeleteListSound,
     DeletePageSound, EndOrCrashSound, CopyOrDeleteSound DEF Step
<1>3. ASSUME NEW r \in Runs, Start(r) \/ Crash(r) PROVE MInv'
  BY <1>1, <1>3, StartSound, EndOrCrashSound
<1>4. ASSUME NEW k \in Under, Write(k) PROVE MInv'
  BY <1>1, <1>4, WriteSound
<1>5. ASSUME NEW r \in Runs, NEW k \in Files, StartFile(r, k) PROVE MInv'
  BY <1>1, <1>5, StartFileSound, FolderAssumption
<1>6. CASE UNCHANGED vars
  BY <1>6 DEF vars, MInv, Types, FreshIdle, KeysSound, KeySound, Settled
<1> QED
  BY <1>2, <1>3, <1>4, <1>5, <1>6 DEF Next

\* No page is missed and no failure swallowed, for any number of keys, pages,
\* lanes and executions that overlap: when a run ends, each of its keys that
\* nobody has written is gone or among the failures it reports.
THEOREM NothingIsMissed == Spec => []DoneOrReported
<1>1. MInv => DoneOrReported
  BY DEF MInv, Types, RunStates, KeysSound, KeySound, Settled, DoneOrReported
<1>2. Init => Inv /\ MInv
  BY InitInv, InitMInv
<1>3. Inv /\ MInv /\ [Next]_vars => (Inv /\ MInv)'
  BY StepInv, MInvInductive
<1> QED
  BY <1>1, <1>2, <1>3, PTL DEF Spec

(***************************************************************************)
(* Why every execution comes to its end: a count that each of its steps    *)
(* lowers, whatever other executions and users do to the keys meanwhile.   *)
(* A folder may be filled as fast as it is emptied; the page token passes  *)
(* each key once all the same.                                             *)
(***************************************************************************)
Folder    == Cardinality(Under)
Beyond(t) == {k \in Under : t < k}
Ahead(t)  == Cardinality(Beyond(t))
LaneIn(l, S) == {k \in Under : l.lane[k] \in S}
\* A key that waits in a lane is to be copied and then deleted.
Pending(l) == Cardinality(LaneIn(l, {"todo"})) + Cardinality(LaneIn(l, {"todo", "copied"}))

\* The most steps an execution in state l has to go.
Left(l) ==
    CASE l.pc = "probe"     -> 2 * Folder + 4
      [] l.pc = "delete"    -> 2 * Ahead(l.token) + 3
      [] l.pc = "page"      -> 2 * Ahead(l.token) + 4
      [] l.pc = "list"      -> 2 * Folder + 3 + Ahead(l.token)
      [] l.pc = "rename"    -> Pending(l) + 2
      [] l.pc = "last_page" -> 2
      [] l.pc = "end"       -> 1
      [] OTHER              -> 0

Advances == \A r \in Runs : run[r].pc # "idle" =>
                UNCHANGED run[r] \/ Left(run'[r]) < Left(run[r])

LEMMA Counts ==
    /\ Folder \in Nat
    /\ \A S \in SUBSET Under : /\ IsFiniteSet(S) /\ Cardinality(S) \in Nat
                               /\ Cardinality(S) <= Folder
<1>1. ASSUME NEW S \in SUBSET Under
      PROVE  IsFiniteSet(S) /\ Cardinality(S) \in Nat /\ Cardinality(S) <= Folder
  <2>1. IsFiniteSet(S) /\ Cardinality(S) <= Cardinality(Under)
    BY FolderAssumption, FS_Subset
  <2>2. Cardinality(S) \in Nat
    BY <2>1, FS_CardinalityType
  <2> QED
    BY <2>1, <2>2 DEF Folder
<1>2. Folder \in Nat
  BY FolderAssumption, FS_CardinalityType DEF Folder
<1> QED
  BY <1>1, <1>2

\* Fewer keys, or strictly fewer.
LEMMA Fewer ==
    ASSUME NEW S \in SUBSET Under, NEW T \in SUBSET S
    PROVE  /\ Cardinality(T) \in Nat /\ Cardinality(S) \in Nat
           /\ Cardinality(T) <= Cardinality(S)
           /\ \A k \in S : k \notin T => Cardinality(T) < Cardinality(S)
<1>1. IsFiniteSet(S) /\ Cardinality(S) \in Nat /\ Cardinality(T) \in Nat
  BY Counts
<1>2. Cardinality(T) <= Cardinality(S) /\ (Cardinality(S) = Cardinality(T) => S = T)
  BY <1>1, FS_Subset
<1> QED
  BY <1>1, <1>2

LEMMA LeftCounts ==
    ASSUME NEW l \in RunStates
    PROVE  /\ Left(l) \in Nat /\ Left(l) <= 3 * Folder + 4
           /\ Ahead(l.token) \in Nat /\ Ahead(l.token) <= Folder
           /\ Pending(l) \in Nat /\ Pending(l) <= 2 * Folder
<1>1. Ahead(l.token) \in Nat /\ Ahead(l.token) <= Folder /\ Folder \in Nat
  BY Counts DEF Ahead, Beyond
<1>2. Pending(l) \in Nat /\ Pending(l) <= 2 * Folder
  <2> DEFINE A == Cardinality(LaneIn(l, {"todo"}))
             B == Cardinality(LaneIn(l, {"todo", "copied"}))
  <2>1. A \in Nat /\ A <= Folder /\ B \in Nat /\ B <= Folder
    BY Counts DEF LaneIn
  <2>2. Pending(l) = A + B
    BY DEF Pending
  <2> HIDE DEF A, B
  <2> QED
    BY <1>1, <2>1, <2>2
<1> QED
  BY <1>1, <1>2 DEF Left

\* A page that is not the last passes a key.
LEMMA PagePasses ==
    ASSUME NEW page \in SUBSET Under, NEW last \in Under \cup {0}, NEW token \in Nat,
           IsPage(page, token, last), More(page, token)
    PROVE  Ahead(last) \in Nat /\ Ahead(token) \in Nat /\ Ahead(last) < Ahead(token)
<1>1. Under \subseteq Nat \ {0} /\ PageSize \in Nat \ {0}
  BY FolderAssumption
<1>2. Cardinality(page) = PageSize
  <2>1. Cardinality(page) \in Nat
    BY Counts
  <2> QED
    BY <1>1, <2>1 DEF IsPage, More
<1>3. page # {}
  BY <1>1, <1>2, FS_EmptySet
<1>4. PICK k \in page : TRUE
  BY <1>3
<1>5. token < k /\ k <= last /\ last \in Under
  BY <1>1, <1>4 DEF IsPage, After
<1>6. last \in Nat /\ k \in Nat /\ token < last /\ ~(last < last)
  BY <1>1, <1>5
<1>7. \A l \in Under : last < l => token < l
  BY <1>1, <1>6
<1>8. last \in Beyond(token) /\ last \notin Beyond(last) /\ Beyond(last) \subseteq Beyond(token)
  BY <1>5, <1>6, <1>7 DEF Beyond
<1>9. Beyond(token) \in SUBSET Under
  BY DEF Beyond
<1> QED
  BY <1>8, <1>9, Fewer DEF Ahead

\* A lane moves on with one of its keys.
LEMMA LanePasses ==
    ASSUME NEW l \in RunStates, NEW new \in RunStates, NEW k \in Under,
           \/ l.lane[k] = "todo" /\ new.lane[k] # "todo"
           \/ l.lane[k] = "copied" /\ new.lane[k] \notin {"todo", "copied"},
           \A j \in Under : j # k => new.lane[j] = l.lane[j]
    PROVE  Pending(new) < Pending(l)
<1> DEFINE A(x) == LaneIn(x, {"todo"})
           B(x) == LaneIn(x, {"todo", "copied"})
<1>1. A(l) \in SUBSET Under /\ B(l) \in SUBSET Under
  BY DEF LaneIn
<1>2. A(new) \subseteq A(l) /\ B(new) \subseteq B(l)
  BY DEF LaneIn
<1>3. (k \in A(l) /\ k \notin A(new)) \/ (k \in B(l) /\ k \notin B(new))
  BY DEF LaneIn
<1>4. Pending(l) = Cardinality(A(l)) + Cardinality(B(l))
      /\ Pending(new) = Cardinality(A(new)) + Cardinality(B(new))
  BY DEF Pending
<1> HIDE DEF A, B
<1>5. /\ Cardinality(A(new)) \in Nat /\ Cardinality(A(l)) \in Nat
      /\ Cardinality(A(new)) <= Cardinality(A(l))
      /\ k \in A(l) /\ k \notin A(new) => Cardinality(A(new)) < Cardinality(A(l))
  BY <1>1, <1>2, Fewer
<1>6. /\ Cardinality(B(new)) \in Nat /\ Cardinality(B(l)) \in Nat
      /\ Cardinality(B(new)) <= Cardinality(B(l))
      /\ k \in B(l) /\ k \notin B(new) => Cardinality(B(new)) < Cardinality(B(l))
  BY <1>1, <1>2, Fewer
<1> QED
  BY <1>3, <1>4, <1>5, <1>6

LEMMA OneAdvances ==
    ASSUME run \in [Runs -> RunStates], NEW r \in Runs, NEW new,
           run' = [run EXCEPT ![r] = new], Left(new) < Left(run[r])
    PROVE  Advances
<1>1. run'[r] = new /\ \A q \in Runs \ {r} : run'[q] = run[q]
  OBVIOUS
<1>2. ASSUME NEW q \in Runs PROVE UNCHANGED run[q] \/ Left(run'[q]) < Left(run[q])
  <2>1. CASE q = r
    BY <1>1, <2>1
  <2>2. CASE q # r
    BY <1>1, <2>2
  <2> QED
    BY <2>1, <2>2
<1> QED
  BY <1>2 DEF Advances

LEMMA ListPageAdvances ==
    ASSUME run \in [Runs -> RunStates], NEW r \in Runs, ListPage(r) PROVE Advances
<1>1. PICK page \in SUBSET Under, last \in Under \cup {0} :
        /\ IsPage(page, run[r].token, last)
        /\ run' = [run EXCEPT
              ![r].lane  = [k \in Under |-> IF k \in page THEN "todo" ELSE @[k]],
              ![r].token = last,
              ![r].pc    = IF More(page, run[r].token) THEN "list" ELSE "rename"]
  BY DEF ListPage
<1>2. run[r] \in RunStates /\ last \in Nat /\ run[r].token \in Nat
  BY FolderAssumption DEF RunStates
<1>3. PICK lane \in [Under -> {"none", "todo", "copied", "done", "failed"}] :
         lane = [k \in Under |-> IF k \in page THEN "todo" ELSE run[r].lane[k]]
  BY <1>2 DEF RunStates
<1>4. PICK pc \in {"list", "rename"} :
         pc = IF More(page, run[r].token) THEN "list" ELSE "rename"
  OBVIOUS
<1>5. PICK new \in RunStates :
         new = [run[r] EXCEPT !.lane = lane, !.token = last, !.pc = pc]
  BY <1>2, <1>3, <1>4 DEF RunStates
<1>6. run' = [run EXCEPT ![r] = new]
  <2>1. run' = [run EXCEPT ![r] = [run[r] EXCEPT
            !.lane  = [k \in Under |-> IF k \in page THEN "todo" ELSE run[r].lane[k]],
            !.token = last,
            !.pc    = IF More(page, run[r].token) THEN "list" ELSE "rename"]]
    BY <1>1, <1>2
  <2> QED
    BY <1>3, <1>4, <1>5, <2>1
<1>7. run[r].pc = "list" /\ new.pc = pc /\ new.token = last
  BY <1>2, <1>5 DEF ListPage, RunStates
<1>8. pc = "list" => Ahead(new.token) < Ahead(run[r].token)
  BY <1>1, <1>2, <1>4, <1>7, PagePasses
<1>9. /\ Ahead(run[r].token) \in Nat /\ Ahead(new.token) \in Nat
      /\ Pending(new) \in Nat /\ Pending(new) <= 2 * Folder /\ Folder \in Nat
  BY <1>2, LeftCounts, Counts
<1>10. Left(new) < Left(run[r])
  <2>1. Left(run[r]) = 2 * Folder + 3 + Ahead(run[r].token)
    BY <1>7 DEF Left
  <2>2. CASE pc = "list"
    <3>1. Left(new) = 2 * Folder + 3 + Ahead(new.token)
      BY <1>7, <2>2 DEF Left
    <3> QED
      BY <1>8, <1>9, <2>1, <2>2, <3>1
  <2>3. CASE pc = "rename"
    <3>1. Left(new) = Pending(new) + 2
      BY <1>7, <2>3 DEF Left
    <3> QED
      BY <1>9, <2>1, <3>1
  <2> QED
    BY <2>2, <2>3
<1> QED
  BY <1>6, <1>10, OneAdvances

LEMMA DeleteListAdvances ==
    ASSUME run \in [Runs -> RunStates], NEW r \in Runs, DeleteList(r) PROVE Advances
<1>1. PICK page \in SUBSET Under, last \in Under \cup {0} :
        /\ IsPage(page, run[r].token, last)
        /\ run' = [run EXCEPT
              ![r].lane  = [k \in Under |-> IF k \in page THEN "todo" ELSE "none"],
              ![r].token = last,
              ![r].pc    = IF More(page, run[r].token) THEN "page" ELSE "last_page"]
  BY DEF DeleteList
<1>2. run[r] \in RunStates /\ last \in Nat /\ run[r].token \in Nat
  BY FolderAssumption DEF RunStates
<1>3. PICK lane \in [Under -> {"none", "todo", "copied", "done", "failed"}] :
         lane = [k \in Under |-> IF k \in page THEN "todo" ELSE "none"]
  OBVIOUS
<1>4. PICK pc \in {"page", "last_page"} :
         pc = IF More(page, run[r].token) THEN "page" ELSE "last_page"
  OBVIOUS
<1>5. PICK new \in RunStates :
         new = [run[r] EXCEPT !.lane = lane, !.token = last, !.pc = pc]
  BY <1>2, <1>3, <1>4 DEF RunStates
<1>6. run' = [run EXCEPT ![r] = new]
  <2>1. run' = [run EXCEPT ![r] = [run[r] EXCEPT
            !.lane  = [k \in Under |-> IF k \in page THEN "todo" ELSE "none"],
            !.token = last,
            !.pc    = IF More(page, run[r].token) THEN "page" ELSE "last_page"]]
    BY <1>1, <1>2
  <2> QED
    BY <1>3, <1>4, <1>5, <2>1
<1>7. run[r].pc = "delete" /\ new.pc = pc /\ new.token = last
  BY <1>2, <1>5 DEF DeleteList, RunStates
<1>8. pc = "page" => Ahead(new.token) < Ahead(run[r].token)
  BY <1>1, <1>2, <1>4, <1>7, PagePasses
<1>9. Ahead(run[r].token) \in Nat /\ Ahead(new.token) \in Nat
  BY <1>2, LeftCounts
<1>10. Left(new) < Left(run[r])
  <2>1. Left(run[r]) = 2 * Ahead(run[r].token) + 3
    BY <1>7 DEF Left
  <2>2. CASE pc = "page"
    <3>1. Left(new) = 2 * Ahead(new.token) + 4
      BY <1>7, <2>2 DEF Left
    <3> QED
      BY <1>8, <1>9, <2>1, <2>2, <3>1
  <2>3. CASE pc = "last_page"
    <3>1. Left(new) = 2
      BY <1>7, <2>3 DEF Left
    <3> QED
      BY <1>9, <2>1, <3>1
  <2> QED
    BY <2>2, <2>3
<1> QED
  BY <1>6, <1>10, OneAdvances

LEMMA DeletePageAdvances ==
    ASSUME run \in [Runs -> RunStates], NEW r \in Runs, DeletePage(r) PROVE Advances
<1>1. run[r] \in RunStates /\ run[r].pc \in {"page", "last_page"}
  BY DEF DeletePage
<1>2. PICK failed \in SUBSET Under :
        run' = [run EXCEPT
                ![r].pc = IF @ = "page" THEN "delete" ELSE "end",
                ![r].lane = Waiting, ![r].failed = @ \cup failed]
  BY DEF DeletePage
<1>3. PICK pc \in {"delete", "end"} : pc = IF run[r].pc = "page" THEN "delete" ELSE "end"
  OBVIOUS
<1>4. PICK new : new = [run[r] EXCEPT !.pc = pc, !.lane = Waiting, !.failed = @ \cup failed]
  OBVIOUS
<1>5. run' = [run EXCEPT ![r] = new]
  BY <1>1, <1>2, <1>3, <1>4
<1>6. new.pc = pc /\ new.token = run[r].token
  BY <1>1, <1>4 DEF RunStates
<1>7. Ahead(run[r].token) \in Nat
  BY <1>1, LeftCounts
<1>8. Left(new) < Left(run[r])
  <2>1. CASE run[r].pc = "page"
    <3>1. Left(run[r]) = 2 * Ahead(run[r].token) + 4
      BY <2>1 DEF Left
    <3>2. Left(new) = 2 * Ahead(run[r].token) + 3
      BY <1>3, <1>6, <2>1 DEF Left
    <3> QED
      BY <1>7, <3>1, <3>2
  <2>2. CASE run[r].pc = "last_page"
    <3>1. Left(run[r]) = 2 /\ Left(new) = 1
      BY <1>3, <1>6, <2>2 DEF Left
    <3> QED
      BY <3>1
  <2> QED
    BY <1>1, <2>1, <2>2
<1> QED
  BY <1>5, <1>8, OneAdvances

\* The steps that only change the state.
LEMMA SimpleAdvances ==
    ASSUME run \in [Runs -> RunStates], NEW r \in Runs,
           ProbeFolder(r) \/ AllRenamed(r) \/ End(r) \/ Crash(r)
    PROVE  Advances
<1>1. run[r] \in RunStates
  OBVIOUS
<1>2. /\ Folder \in Nat /\ Ahead(run[r].token) \in Nat /\ Ahead(run[r].token) <= Folder
      /\ Pending(run[r]) \in Nat
  BY <1>1, LeftCounts, Counts
<1>3. ASSUME ProbeFolder(r) PROVE Advances
  <2>1. PICK pc \in {"delete", "end"} : run' = [run EXCEPT ![r].pc = pc]
    BY <1>3 DEF ProbeFolder
  <2>2. PICK new : new = [run[r] EXCEPT !.pc = pc]
    OBVIOUS
  <2>3. new.pc = pc /\ new.token = run[r].token /\ run[r].pc = "probe"
    BY <1>1, <1>3, <2>2 DEF ProbeFolder, RunStates
  <2>4. Left(run[r]) = 2 * Folder + 4
    BY <2>3 DEF Left
  <2>5. Left(new) \in {2 * Ahead(run[r].token) + 3, 1}
    BY <2>1, <2>3 DEF Left
  <2>6. Left(new) < Left(run[r])
    BY <1>2, <2>4, <2>5
  <2>7. run' = [run EXCEPT ![r] = new]
    BY <2>1, <2>2
  <2> QED
    BY <2>6, <2>7, OneAdvances
<1>4. ASSUME AllRenamed(r) PROVE Advances
  <2>1. PICK new : new = [run[r] EXCEPT !.pc = "end"]
    OBVIOUS
  <2>2. new.pc = "end" /\ run[r].pc = "rename"
    BY <1>1, <1>4, <2>1 DEF AllRenamed, RunStates
  <2>3. Left(run[r]) = Pending(run[r]) + 2 /\ Left(new) = 1
    BY <2>2 DEF Left
  <2>4. Left(new) < Left(run[r])
    BY <1>2, <2>3
  <2>5. run' = [run EXCEPT ![r] = new]
    BY <1>4, <2>1 DEF AllRenamed
  <2> QED
    BY <2>4, <2>5, OneAdvances
<1>5. ASSUME End(r) \/ Crash(r) PROVE Advances
  <2>1. run' = [run EXCEPT ![r] = NoRun] /\ run[r].pc # "idle"
    BY <1>5 DEF End, Crash
  <2>2. Left(NoRun) = 0
    BY NoRunFacts DEF Left
  <2>3. Left(run[r]) > 0
    BY <1>1, <1>2, <2>1 DEF Left, RunStates
  <2> QED
    BY <2>1, <2>2, <2>3, OneAdvances
<1> QED
  BY <1>3, <1>4, <1>5

LEMMA LaneAdvances ==
    ASSUME run \in [Runs -> RunStates], NEW r \in Runs, NEW k \in Under,
           CopyKey(r, k) \/ DeleteKey(r, k)
    PROVE  Advances
<1>1. run[r] \in RunStates /\ run[r].pc = "rename"
      /\ run[r].lane \in [Under -> {"none", "todo", "copied", "done", "failed"}]
  BY DEF CopyKey, DeleteKey, RunStates
<1>2. PICK st \in {"copied", "done", "failed"}, failed \in SUBSET Under :
        /\ \/ run[r].lane[k] = "todo" /\ st # "todo"
           \/ run[r].lane[k] = "copied" /\ st \notin {"todo", "copied"}
        /\ run' = [run EXCEPT ![r].lane[k] = st, ![r].failed = failed]
  <2>1. run[r].failed \in SUBSET Under /\ run[r].failed \cup {k} \in SUBSET Under
    BY <1>1 DEF RunStates
  <2>2. ASSUME NEW st, Lane(r, k, st)
        PROVE  run' = [run EXCEPT ![r].lane[k] = st, ![r].failed = run[r].failed]
    BY <1>1, <2>2 DEF Lane, RunStates
  <2>3. ASSUME LaneFails(r, k)
        PROVE  run' = [run EXCEPT ![r].lane[k] = "failed", ![r].failed = run[r].failed \cup {k}]
    BY <2>3 DEF LaneFails
  <2>4. CASE CopyKey(r, k)
    <3>1. run[r].lane[k] = "todo" /\ (Lane(r, k, "copied") \/ LaneFails(r, k))
      BY <2>4 DEF CopyKey
    <3> QED
      BY <2>1, <2>2, <2>3, <3>1
  <2>5. CASE DeleteKey(r, k)
    <3>1. run[r].lane[k] = "copied" /\ (Lane(r, k, "done") \/ LaneFails(r, k))
      BY <2>5 DEF DeleteKey
    <3> QED
      BY <2>1, <2>2, <2>3, <3>1
  <2> QED
    BY <2>4, <2>5
<1>3. PICK lane \in [Under -> {"none", "todo", "copied", "done", "failed"}] :
         lane = [run[r].lane EXCEPT ![k] = st]
  BY <1>1
<1>4. PICK new \in RunStates : new = [run[r] EXCEPT !.lane = lane, !.failed = failed]
  BY <1>1, <1>3 DEF RunStates
<1>5. run' = [run EXCEPT ![r] = new]
  <2>1. run' = [run EXCEPT ![r] = [run[r] EXCEPT !.lane = [run[r].lane EXCEPT ![k] = st],
                                                 !.failed = failed]]
    BY <1>2
  <2> QED
    BY <1>3, <1>4, <2>1
<1>6. new.pc = "rename" /\ new.lane = lane
  BY <1>1, <1>4 DEF RunStates
<1>7. lane[k] = st /\ \A j \in Under : j # k => lane[j] = run[r].lane[j]
  BY <1>1, <1>3
<1>8. Pending(new) < Pending(run[r])
  BY <1>1, <1>2, <1>6, <1>7, LanePasses
<1>9. Pending(new) \in Nat /\ Pending(run[r]) \in Nat
  BY <1>1, LeftCounts
<1>10. Left(new) = Pending(new) + 2 /\ Left(run[r]) = Pending(run[r]) + 2
  BY <1>1, <1>6 DEF Left
<1>11. Left(new) < Left(run[r])
  BY <1>8, <1>9, <1>10
<1> QED
  BY <1>5, <1>11, OneAdvances

LEMMA StepAdvances == run \in [Runs -> RunStates] /\ [Next]_vars => Advances
<1> SUFFICES ASSUME run \in [Runs -> RunStates], [Next]_vars PROVE Advances
  OBVIOUS
<1>1. ASSUME NEW r \in Runs, Step(r) \/ Crash(r) PROVE Advances
  BY <1>1, ListPageAdvances, DeleteListAdvances, DeletePageAdvances, SimpleAdvances,
     LaneAdvances DEF Step
\* A start is of an idle execution.
<1>2. ASSUME NEW r \in Runs, Start(r) \/ \E k \in Files : StartFile(r, k) PROVE Advances
  <2>1. run[r].pc = "idle" /\ \A q \in Runs \ {r} : run'[q] = run[q]
    BY <1>2 DEF Start, StartFile
  <2> QED
    BY <2>1 DEF Advances
<1>3. CASE UNCHANGED run
  BY <1>3 DEF Advances
<1>4. ASSUME NEW k \in Under, Write(k) PROVE UNCHANGED run
  BY <1>4 DEF Write
<1> QED
  BY <1>1, <1>2, <1>3, <1>4 DEF Next, vars

\* An execution goes at most 3n + 4 steps in a folder of n keys, be it the only
\* one or not, and whatever users put back behind it.
THEOREM EveryRunIsBounded ==
    Spec => /\ [](\A r \in Runs : Left(run[r]) \in 0..(3 * Folder + 4))
            /\ [][Advances]_vars
<1>1. Inv => run \in [Runs -> RunStates]
  BY DEF Inv, Types
<1>2. Inv => \A r \in Runs : Left(run[r]) \in 0..(3 * Folder + 4)
  BY <1>1, LeftCounts, Counts
<1>3. Inv /\ [Next]_vars => [Advances]_vars
  BY <1>1, StepAdvances
<1>4. Init => Inv
  BY InitInv
<1>5. Inv /\ [Next]_vars => Inv'
  BY StepInv
<1> QED
  BY <1>2, <1>3, <1>4, <1>5, PTL DEF Spec

(***************************************************************************)
(* Types, and how many lanes a rename has at work.                         *)
(***************************************************************************)
Copied(l) == {k \in Under : l.lane[k] = "copied"}

LanesKept(l) == /\ l.token \in Under \cup {0}
                /\ Copied(l) # {} => l.pc = "rename" /\ Cardinality(Copied(l)) <= Concurrency

Bounded == /\ raced \subseteq written /\ written \subseteq Under
           /\ starts \in 0..MaxStarts /\ failures \in 0..MaxFailures

AllKept == Bounded /\ \A r \in Runs : LanesKept(run[r])

LEMMA BoundedKeeps == Bounded /\ [Next]_vars => Bounded'
<1> SUFFICES ASSUME Bounded, [Next]_vars PROVE Bounded'
  OBVIOUS
<1>1. {MaxStarts, MaxFailures} \subseteq Nat /\ Files \subseteq Under
  BY FolderAssumption
<1>2. ASSUME NEW r \in Runs, Step(r) \/ Crash(r) PROVE Bounded'
  <2>1. UNCHANGED <<raced, written, starts>>
    BY <1>2 DEF Step, Crash, ListPage, AllRenamed, ProbeFolder, DeleteList, DeletePage, End,
         CopyKey, DeleteKey
  <2>2. UNCHANGED failures \/ Fails
    BY <1>2 DEF Step, Crash, ListPage, AllRenamed, ProbeFolder, DeleteList, DeletePage, End,
         CopyKey, DeleteKey
  <2> QED
    BY <1>1, <2>1, <2>2 DEF Bounded, Fails
<1>3. ASSUME NEW r \in Runs, Start(r) \/ \E k \in Files : StartFile(r, k) PROVE Bounded'
  <2>1. /\ starts < MaxStarts /\ starts' = starts + 1
        /\ UNCHANGED <<raced, written, failures>>
    BY <1>3 DEF Start, StartFile
  <2> QED
    BY <1>1, <2>1 DEF Bounded
<1>4. ASSUME NEW k \in Under, Write(k) PROVE Bounded'
  BY <1>1, <1>4 DEF Bounded, Write
<1>5. CASE UNCHANGED vars
  BY <1>5 DEF Bounded, vars
<1> QED
  BY <1>2, <1>3, <1>4, <1>5 DEF Next

\* What a step makes of the lanes of its execution: nothing is copied when it
\* is not a rename, and a rename copies a key in a free lane only.
LEMMA LaneOrNone ==
    ASSUME run \in [Runs -> RunStates], NEW r \in Runs, LanesKept(run[r]),
           NEW k \in Under, CopyKey(r, k) \/ DeleteKey(r, k)
    PROVE  LanesKept(run'[r])
<1>1. /\ run[r] \in RunStates /\ run[r].pc = "rename"
      /\ run[r].lane \in [Under -> {"none", "todo", "copied", "done", "failed"}]
  BY DEF CopyKey, DeleteKey, RunStates
<1>2. PICK st \in {"copied", "done", "failed"} :
        /\ run'[r].lane = [run[r].lane EXCEPT ![k] = st]
        /\ run'[r].pc = run[r].pc /\ run'[r].token = run[r].token
        /\ st = "copied" => Free(r)
  <2>1. ASSUME NEW st, Lane(r, k, st)
        PROVE  /\ run'[r].lane = [run[r].lane EXCEPT ![k] = st]
               /\ run'[r].pc = run[r].pc /\ run'[r].token = run[r].token
    BY <1>1, <2>1 DEF Lane, RunStates
  <2>2. ASSUME LaneFails(r, k)
        PROVE  /\ run'[r].lane = [run[r].lane EXCEPT ![k] = "failed"]
               /\ run'[r].pc = run[r].pc /\ run'[r].token = run[r].token
    BY <1>1, <2>2 DEF LaneFails, RunStates
  <2>3. CASE CopyKey(r, k)
    <3>1. Free(r) /\ (Lane(r, k, "copied") \/ LaneFails(r, k))
      BY <2>3 DEF CopyKey
    <3> QED
      BY <2>1, <2>2, <3>1
  <2>4. CASE DeleteKey(r, k)
    <3>1. Lane(r, k, "done") \/ LaneFails(r, k)
      BY <2>4 DEF DeleteKey
    <3> QED
      BY <2>1, <2>2, <3>1
  <2> QED
    BY <2>3, <2>4
<1> DEFINE before == Copied(run[r])
           after  == Copied(run'[r])
<1>3. after \subseteq before \cup {k} /\ (st # "copied" => after \subseteq before)
  BY <1>1, <1>2 DEF Copied
<1>4. before \in SUBSET Under /\ after \in SUBSET Under
  BY DEF Copied
<1>5. before = {} \/ Cardinality(before) <= Concurrency
  BY DEF LanesKept
<1>6. Free(r) => Cardinality(before) < Concurrency
  BY DEF Free, Copied
<1> HIDE DEF before, after
<1>7. Cardinality(after) <= Concurrency
  <2>1. IsFiniteSet(before) /\ Cardinality(before) \in Nat /\ Cardinality(after) \in Nat
    BY <1>4, Counts
  <2>2. Concurrency \in Nat
    BY FolderAssumption
  <2>3. CASE st # "copied"
    <3>1. Cardinality(after) <= Cardinality(before)
      BY <1>3, <2>1, <2>3, FS_Subset
    <3>2. Cardinality(before) <= Concurrency
      BY <1>5, <2>2, FS_EmptySet
    <3> QED
      BY <2>1, <2>2, <3>1, <3>2
  <2>4. CASE st = "copied"
    <3>1. Cardinality(before) < Concurrency
      BY <1>2, <1>6, <2>4
    <3>2. IsFiniteSet(before \cup {k}) /\ Cardinality(before \cup {k}) <= Cardinality(before) + 1
      <4>1. IsFiniteSet(before \cup {k})
            /\ Cardinality(before \cup {k}) \in {Cardinality(before), Cardinality(before) + 1}
        BY <2>1, FS_AddElement, Zenon
      <4> QED
        BY <2>1, <4>1
    <3>3. Cardinality(after) <= Cardinality(before \cup {k})
      BY <1>3, <3>2, FS_Subset
    <3>4. Cardinality(before \cup {k}) \in Nat
      BY <3>2, FS_CardinalityType
    <3> QED
      BY <2>1, <2>2, <3>1, <3>2, <3>3, <3>4
  <2> QED
    BY <2>3, <2>4
<1> QED
  BY <1>1, <1>2, <1>7 DEF after, LanesKept

LEMMA KeptStep ==
    ASSUME run \in [Runs -> RunStates], NEW r \in Runs, LanesKept(run[r]),
           Step(r) \/ Crash(r) \/ Start(r) \/ \E k \in Files : StartFile(r, k)
    PROVE  LanesKept(run'[r])
<1>1. run[r] \in RunStates /\ run[r].token \in Under \cup {0}
      /\ (run[r].pc # "rename" => Copied(run[r]) = {})
      /\ run[r].lane \in [Under -> {"none", "todo", "copied", "done", "failed"}]
  BY DEF LanesKept, RunStates
<1>2. ASSUME run'[r].token \in Under \cup {0}, \A k \in Under : run'[r].lane[k] # "copied"
      PROVE  LanesKept(run'[r])
  BY <1>2 DEF LanesKept, Copied
<1>3. run[r].pc # "rename" => \A k \in Under : run[r].lane[k] # "copied"
  BY <1>1 DEF Copied
<1>4. CASE Start(r) \/ ProbeFolder(r)
  <2>1. run[r].pc # "rename" /\ run'[r].lane = run[r].lane /\ run'[r].token = run[r].token
    BY <1>1, <1>4 DEF Start, ProbeFolder, RunStates
  <2> QED
    BY <1>1, <1>2, <1>3, <2>1
<1>5. ASSUME NEW k \in Files, StartFile(r, k) PROVE LanesKept(run'[r])
  <2>1. PICK pc \in {"rename", "last_page"} :
          run' = [run EXCEPT ![r].pc = pc, ![r].of = {k}, ![r].lane[k] = "todo"]
    BY <1>5 DEF StartFile
  <2>2. PICK lane : lane = [run[r].lane EXCEPT ![k] = "todo"]
    OBVIOUS
  <2>3. run' = [run EXCEPT ![r] = [run[r] EXCEPT !.pc = pc, !.of = {k}, !.lane = lane]]
    BY <2>1, <2>2
  <2>4. run[r].pc # "rename" /\ run'[r].lane = lane /\ run'[r].token = run[r].token
    BY <1>1, <1>5, <2>3 DEF StartFile, RunStates
  <2>5. \A l \in Under : run'[r].lane[l] # "copied"
    BY <1>1, <1>3, <2>2, <2>4
  <2> QED
    BY <1>1, <1>2, <2>4, <2>5
<1>6. CASE ListPage(r)
  <2>1. PICK page \in SUBSET Under, last \in Under \cup {0} :
            run' = [run EXCEPT
                ![r].lane  = [k \in Under |-> IF k \in page THEN "todo" ELSE @[k]],
                ![r].token = last,
                ![r].pc    = IF More(page, run[r].token) THEN "list" ELSE "rename"]
    BY <1>6 DEF ListPage
  <2>2. run'[r].token = last
        /\ run'[r].lane = [k \in Under |-> IF k \in page THEN "todo" ELSE run[r].lane[k]]
    BY <1>1, <2>1 DEF RunStates
  <2>3. run[r].pc # "rename"
    BY <1>6 DEF ListPage
  <2>4. \A k \in Under : run'[r].lane[k] # "copied"
    BY <1>3, <2>2, <2>3
  <2> QED
    BY <1>2, <2>2, <2>4
<1>7. CASE DeleteList(r)
  <2>1. PICK page \in SUBSET Under, last \in Under \cup {0} :
            run' = [run EXCEPT
                ![r].lane  = [k \in Under |-> IF k \in page THEN "todo" ELSE "none"],
                ![r].token = last,
                ![r].pc    = IF More(page, run[r].token) THEN "page" ELSE "last_page"]
    BY <1>7 DEF DeleteList
  <2>2. run'[r].token = last
        /\ run'[r].lane = [k \in Under |-> IF k \in page THEN "todo" ELSE "none"]
    BY <1>1, <2>1 DEF RunStates
  <2>3. \A k \in Under : run'[r].lane[k] # "copied"
    BY <2>2
  <2> QED
    BY <1>2, <2>2, <2>3
<1>8. CASE DeletePage(r)
  <2>1. run'[r].lane = Waiting /\ run'[r].token = run[r].token
    BY <1>1, <1>8 DEF DeletePage, RunStates
  <2>2. \A k \in Under : run'[r].lane[k] # "copied"
    BY <2>1 DEF Waiting
  <2> QED
    BY <1>1, <1>2, <2>1, <2>2
<1>9. CASE AllRenamed(r)
  <2>1. run'[r].lane = run[r].lane /\ run'[r].token = run[r].token
    BY <1>1, <1>9 DEF AllRenamed, RunStates
  <2>2. \A k \in Under : run[r].lane[k] # "copied"
    BY <1>9 DEF AllRenamed
  <2> QED
    BY <1>1, <1>2, <2>1, <2>2
<1>10. CASE End(r) \/ Crash(r)
  <2>1. run'[r] = NoRun
    BY <1>10 DEF End, Crash
  <2> QED
    BY <1>2, <2>1, NoRunFacts
<1>11. ASSUME NEW k \in Under, CopyKey(r, k) \/ DeleteKey(r, k) PROVE LanesKept(run'[r])
  BY <1>11, LaneOrNone
<1> QED
  BY <1>4, <1>5, <1>6, <1>7, <1>8, <1>9, <1>10, <1>11 DEF Step

\* The others' lanes are theirs.
LEMMA OwnRun ==
    ASSUME run \in [Runs -> RunStates], NEW r \in Runs,
           Step(r) \/ Crash(r) \/ Start(r) \/ \E k \in Files : StartFile(r, k)
    PROVE  \A q \in Runs \ {r} : run'[q] = run[q]
<1>1. CASE Start(r) \/ \E k \in Files : StartFile(r, k)
  BY <1>1 DEF Start, StartFile
<1>2. CASE ListPage(r) \/ DeleteList(r) \/ DeletePage(r)
  BY <1>2 DEF ListPage, DeleteList, DeletePage
<1>3. CASE ProbeFolder(r) \/ AllRenamed(r) \/ End(r) \/ Crash(r)
  BY <1>3 DEF ProbeFolder, AllRenamed, End, Crash
<1>4. ASSUME NEW k \in Under, CopyKey(r, k) \/ DeleteKey(r, k)
      PROVE  \A q \in Runs \ {r} : run'[q] = run[q]
  <2>1. LaneFails(r, k) \/ \E st \in {"copied", "done"} : Lane(r, k, st)
    BY <1>4 DEF CopyKey, DeleteKey
  <2> QED
    BY <2>1 DEF LaneFails, Lane
<1> QED
  BY <1>1, <1>2, <1>3, <1>4 DEF Step

LEMMA AllKeptStep == run \in [Runs -> RunStates] /\ AllKept /\ [Next]_vars => AllKept'
<1> SUFFICES ASSUME run \in [Runs -> RunStates], AllKept, [Next]_vars PROVE AllKept'
  OBVIOUS
<1>1. Bounded'
  BY BoundedKeeps DEF AllKept
<1>2. ASSUME NEW q \in Runs PROVE LanesKept(run'[q])
  <2>1. ASSUME NEW r \in Runs,
               Step(r) \/ Crash(r) \/ Start(r) \/ \E k \in Files : StartFile(r, k)
        PROVE  LanesKept(run'[q])
    <3>1. LanesKept(run'[r])
      BY <2>1, KeptStep DEF AllKept
    <3>2. q # r => run'[q] = run[q]
      BY <2>1, OwnRun
    <3> QED
      BY <3>1, <3>2 DEF AllKept
  <2>2. CASE UNCHANGED run
    BY <2>2 DEF AllKept
  <2>3. ASSUME NEW k \in Under, Write(k) PROVE UNCHANGED run
    BY <2>3 DEF Write
  <2> QED
    BY <2>1, <2>2, <2>3 DEF Next, vars
<1>3. \A q \in Runs : LanesKept(run[q])'
  BY <1>2 DEF LanesKept, Copied
<1> QED
  BY <1>1, <1>3 DEF AllKept

\* Types; only a rename has copies, and no more than it has lanes, also when
\* other executions move or delete the same keys and calls fail.
THEOREM TypeCorrect == Spec => []TypeOK
<1>1. Init => Inv /\ AllKept
  <2> SUFFICES ASSUME Init PROVE AllKept
    BY InitInv
  <2>1. Bounded
    BY FolderAssumption DEF Init, Bounded
  <2>2. \A r \in Runs : run[r] = NoRun
    BY DEF Init
  <2>3. LanesKept(NoRun)
    BY NoRunFacts DEF LanesKept, Copied
  <2> QED
    BY <2>1, <2>2, <2>3 DEF AllKept
<1>2. Inv /\ AllKept /\ [Next]_vars => (Inv /\ AllKept)'
  BY StepInv, AllKeptStep DEF Inv, Types
<1>3. Inv /\ AllKept => TypeOK
  <2> SUFFICES ASSUME Inv, AllKept PROVE TypeOK
    OBVIOUS
  <2>1. run \in [Runs -> [pc: {"idle", "list", "rename", "probe", "delete", "page",
                               "last_page", "end"},
                         of: SUBSET Under, token: Under \cup {0},
                         lane: [Under -> {"none", "todo", "copied", "done", "failed"}],
                         failed: SUBSET Under]]
    <3>1. run \in [Runs -> RunStates] /\ \A r \in Runs : run[r].token \in Under \cup {0}
      BY DEF Inv, Types, AllKept, LanesKept
    <3> QED
      BY <3>1 DEF RunStates
  <2>2. \A r \in Runs : LET copied == {k \in Under : run[r].lane[k] = "copied"} IN
            copied # {} => run[r].pc = "rename" /\ Cardinality(copied) <= Concurrency
    BY DEF AllKept, LanesKept, Copied
  <2>3. Bounded /\ Types
    BY DEF AllKept, Inv
  <2> QED
    BY <2>1, <2>2, <2>3 DEF TypeOK, Bounded, Types, Contents
<1> QED
  BY <1>1, <1>2, <1>3, PTL DEF Spec
=============================================================================
