------------------------- MODULE UploadSessionProofs -------------------------
(***************************************************************************)
(* Proofs about UploadSession.  Parts only ever join an upload in S3 until *)
(* an abort discards it for good, and a completed upload stays so; hence   *)
(* what an attempt, a report under way or a row has learned of an upload   *)
(* remains true as long as it has not been aborted, however stale the      *)
(* reader, and no report that overwrites another can record too much.      *)
(* An attempt leaves out no part, and no open upload is left without a row *)
(* that shows it, but for a failure in between.                            *)
(***************************************************************************)
EXTENDS UploadSession, FiniteSetTheorems, TLAPS

Row    == [status: RowStatuses, recorded: SUBSET Parts, created: Nat,
           expired: BOOLEAN, abortFailed: BOOLEAN]
Upload == [state: {"none", "open", "completed", "aborted"}, parts: SUBSET Parts]
Tab    == [pc: TabPcs, session: Sessions \cup {Null}, have: SUBSET Parts,
           canceled: BOOLEAN, abortFailed: BOOLEAN,
           lane: [Parts -> Lanes], seen: [Parts -> SUBSET Parts]]

Types == /\ row \in [Sessions -> Row]
         /\ s3 \in [Sessions -> Upload]
         /\ tab \in [Tabs -> Tab]
         /\ found \subseteq Sessions

\* What the tab r holds and has read of its upload, among the uploads u, is so,
\* unless the upload has been aborted.
Sound(r, u) ==
    /\ r.pc \notin {"idle", "recover", "init"} => r.session \in Sessions
    /\ r.pc \in {"recover", "init"} => r.session \notin Sessions
    /\ r.session \notin Sessions =>
         r.have = {} /\ \A p \in Parts : r.lane[p] = "idle" /\ r.seen[p] = {}
    /\ r.session \in Sessions /\ u[r.session].state # "aborted" =>
         /\ r.have \subseteq u[r.session].parts
         /\ \A p \in Parts : /\ r.seen[p] \subseteq u[r.session].parts
                             /\ r.lane[p] \in {"stored", "seen"}
                                    => p \in u[r.session].parts
    /\ r.pc = "completed" => u[r.session].state = "completed"

UInv == /\ Types
        /\ \A t \in Tabs : Sound(tab[t], s3)
        /\ RecordedIsStored
        /\ CompletedIsAssembled

\* The uploads v are those of u, later.
Later(u, v) ==
    \A s \in Sessions : /\ v[s].state # "aborted" => /\ u[s].state # "aborted"
                                                     /\ u[s].parts \subseteq v[s].parts
                        /\ u[s].state = "completed" => v[s].state = "completed"

-----------------------------------------------------------------------------
LEMMA SoundLater ==
    ASSUME NEW r \in Tab, NEW u, NEW v, Sound(r, u), Later(u, v)
    PROVE  Sound(r, v)
<1>1. CASE r.session \notin Sessions
  BY <1>1 DEF Sound
<1>2. CASE r.session \in Sessions
  BY <1>2 DEF Sound, Later
<1> QED
  BY <1>1, <1>2

LEMMA NoTabSound ==
    ASSUME NEW u
    PROVE  NoTab \in Tab /\ Sound(NoTab, u)
<1>1. Null \notin Sessions
  BY UploadAssumption
<1> QED
  BY <1>1 DEF NoTab, Quiet, Tab, TabPcs, Lanes, Sound

\* A step that replaces one tab by a sound one and keeps the other parts of the
\* invariant keeps all of it.
LEMMA StepKeeps ==
    ASSUME UInv, NEW t \in Tabs, NEW new \in Tab, Sound(new, s3'), Become(t, new),
           row' \in [Sessions -> Row], s3' \in [Sessions -> Upload],
           found' \subseteq Sessions,
           Later(s3, s3'), RecordedIsStored', CompletedIsAssembled'
    PROVE  UInv'
<1>1. \A u \in Tabs : tab[u] \in Tab /\ Sound(tab[u], s3')
  BY SoundLater DEF UInv, Types
<1>2. PICK r \in Tab : Sound(r, s3') /\ tab' = [tab EXCEPT ![t] = r]
  BY NoTabSound DEF Become
<1>3. tab' \in [Tabs -> Tab] /\ \A u \in Tabs : Sound(tab'[u], s3')
  BY <1>1, <1>2 DEF UInv, Types
<1> QED
  BY <1>3 DEF UInv, Types

\* ... in particular a step that leaves rows and uploads alone,
LEMMA TabStepKeeps ==
    ASSUME UInv, NEW t \in Tabs, NEW new \in Tab, Sound(new, s3), Become(t, new),
           UNCHANGED <<row, s3, found>>
    PROVE  UInv'
<1>1. Later(s3, s3')
  BY DEF Later
<1> QED
  BY <1>1, StepKeeps DEF UInv, Types, RecordedIsStored, CompletedIsAssembled, Has

\* ... one that writes a row no more than is so,
LEMMA RowStepKeeps ==
    ASSUME UInv, NEW t \in Tabs, NEW new \in Tab, Sound(new, s3), Become(t, new),
           NEW s \in Sessions, NEW r \in Row, row' = [row EXCEPT ![s] = r],
           s3[s].state # "aborted" => r.recorded \subseteq s3[s].parts,
           r.status = "COMPLETED" => s3[s].state = "completed",
           UNCHANGED <<s3, found>>
    PROVE  UInv'
<1>1. Later(s3, s3')
  BY DEF Later
<1> QED
  BY <1>1, StepKeeps DEF UInv, Types, RecordedIsStored, CompletedIsAssembled, Has

\* ... and one that moves an upload on.
LEMMA UploadStepKeeps ==
    ASSUME UInv, NEW t \in Tabs, NEW new \in Tab, Sound(new, s3'), Become(t, new),
           NEW s \in Sessions, NEW u \in Upload, s3' = [s3 EXCEPT ![s] = u],
           u.state # "aborted" => s3[s].state # "aborted" /\ s3[s].parts \subseteq u.parts,
           s3[s].state = "completed" => u.state = "completed",
           UNCHANGED <<row, found>>
    PROVE  UInv'
<1>1. s3' \in [Sessions -> Upload] /\ Later(s3, s3')
  BY DEF Later, UInv, Types
<1> QED
  BY <1>1, StepKeeps DEF UInv, Types, RecordedIsStored, CompletedIsAssembled, Has, Later

-----------------------------------------------------------------------------
\* The records that the actions put in the place of a tab.
LEMMA EndedSound ==
    ASSUME NEW u, NEW t \in Tabs, tab[t] \in Tab, Sound(tab[t], u)
    PROVE  Ended(t) \in Tab /\ Sound(Ended(t), u)
BY DEF Ended, Tab, TabPcs, Sound

LEMMA GotoSound ==
    ASSUME NEW u, NEW t \in Tabs, tab[t] \in Tab, Sound(tab[t], u),
           tab[t].session \in Sessions, NEW pc \in TabPcs \ {"recover", "init", "completed"}
    PROVE  /\ [tab[t] EXCEPT !.pc = pc] \in Tab
           /\ Sound([tab[t] EXCEPT !.pc = pc], u)
BY DEF Tab, Sound

LEMMA CaughtSound ==
    ASSUME NEW u, NEW t \in Tabs, tab[t] \in Tab, Sound(tab[t], u)
    PROVE  Caught(t) \in Tab /\ Sound(Caught(t), u)
<1>1. CASE tab[t].session = Null
  BY <1>1, EndedSound DEF Caught
<1>2. CASE tab[t].session # Null
  BY <1>2, GotoSound DEF Caught, TabPcs, Tab
<1> QED
  BY <1>1, <1>2

\* A lane moves on; only a stored part counts as stored.
LEMMA LaneSound ==
    ASSUME NEW u, NEW t \in Tabs, tab[t] \in Tab, Sound(tab[t], u),
           tab[t].session \in Sessions, NEW p \in Parts, NEW st \in Lanes,
           st \in {"stored", "seen"} /\ u[tab[t].session].state # "aborted"
               => p \in u[tab[t].session].parts
    PROVE  /\ [tab[t] EXCEPT !.lane = Lane(t, p, st)] \in Tab
           /\ Sound([tab[t] EXCEPT !.lane = Lane(t, p, st)], u)
BY DEF Tab, Sound, Lane

LEMMA LaneFailsSound ==
    ASSUME NEW u, NEW t \in Tabs, tab[t] \in Tab, Sound(tab[t], u),
           NEW p \in Parts, tab[t].session \in Sessions
    PROVE  LaneFails(t, p) \in Tab /\ Sound(LaneFails(t, p), u)
BY DEF LaneFails, Lane, Lanes, Tab, TabPcs, Sound

-----------------------------------------------------------------------------
\* The actions.
LEMMA Facts ==
    ASSUME UInv
    PROVE  /\ \A t \in Tabs : tab[t] \in Tab /\ Sound(tab[t], s3)
           /\ \A s \in Sessions : /\ row[s] \in Row /\ s3[s] \in Upload
                                  /\ s3[s].state # "aborted"
                                         => row[s].recorded \subseteq s3[s].parts
                                  /\ row[s].status = "COMPLETED"
                                         => s3[s].state = "completed"
BY DEF UInv, Types, RecordedIsStored, CompletedIsAssembled, Has

LEMMA StartKeeps == ASSUME UInv, NEW t \in Tabs, Start(t) PROVE UInv'
<1> DEFINE new == [NoTab EXCEPT !.pc = "recover"]
<1>1. Null \notin Sessions
  BY UploadAssumption
<1>2. new \in Tab /\ Sound(new, s3)
  BY <1>1 DEF NoTab, Quiet, Tab, TabPcs, Lanes, Sound
<1> HIDE DEF new
<1>3. Become(t, new) /\ UNCHANGED <<row, s3, found>>
  BY DEF Start, new
<1> QED
  BY <1>2, <1>3, TabStepKeeps

LEMMA RecoverKeeps == ASSUME UInv, NEW t \in Tabs, Recover(t) PROVE UInv'
<1>1. tab[t] \in Tab /\ Sound(tab[t], s3) /\ UNCHANGED <<row, s3, found>>
      /\ tab[t].pc = "recover"
  BY Facts DEF Recover
<1>2. CASE Goto(t, "init")
  <2>1. /\ [tab[t] EXCEPT !.pc = "init"] \in Tab
        /\ Sound([tab[t] EXCEPT !.pc = "init"], s3)
    BY <1>1 DEF Tab, TabPcs, Sound
  <2> QED
    BY <1>1, <1>2, <2>1, TabStepKeeps DEF Goto
<1>3. ASSUME NEW s \in Recoverable,
             Become(t, [tab[t] EXCEPT
                  !.session = s, !.have = row[s].recorded,
                  !.pc = IF row[s].recorded = Parts THEN "complete" ELSE "sign"])
      PROVE  UInv'
  <2> DEFINE new == [tab[t] EXCEPT
                  !.session = s, !.have = row[s].recorded,
                  !.pc = IF row[s].recorded = Parts THEN "complete" ELSE "sign"]
  <2>1. /\ s \in Sessions /\ row[s] \in Row
        /\ s3[s].state # "aborted" => row[s].recorded \subseteq s3[s].parts
    BY Facts DEF Recoverable
  <2>2. new \in Tab
    BY <1>1, <2>1 DEF Tab, TabPcs, Row
  <2>3. Sound(new, s3)
    BY <1>1, <2>1 DEF Sound, Tab
  <2> HIDE DEF new
  <2>4. Become(t, new)
    BY <1>3 DEF new
  <2> QED
    BY <1>1, <2>2, <2>3, <2>4, TabStepKeeps
<1> QED
  BY <1>1, <1>2, <1>3 DEF Recover

LEMMA InitUploadKeeps == ASSUME UInv, NEW t \in Tabs, InitUpload(t) PROVE UInv'
<1> DEFINE free == {s \in Sessions : s3[s].state = "none"}
<1>1. tab[t] \in Tab /\ Sound(tab[t], s3) /\ UNCHANGED <<row, found>>
      /\ tab[t].pc = "init"
  BY Facts DEF InitUpload
<1>2. CASE free = {}
  <2>1. Become(t, Ended(t)) /\ UNCHANGED s3
    BY <1>2 DEF InitUpload
  <2>2. Ended(t) \in Tab /\ Sound(Ended(t), s3)
    BY <1>1, EndedSound
  <2> QED
    BY <1>1, <2>1, <2>2, TabStepKeeps
<1>3. CASE free # {}
  <2> DEFINE s == CHOOSE s \in free : TRUE
             new == [tab[t] EXCEPT !.pc = "create", !.session = s]
             up == [s3[s] EXCEPT !.state = "open"]
  <2>1. s \in Sessions /\ s3[s].state = "none" /\ s3[s] \in Upload
    BY <1>3, Facts
  <2>2. s3' = [s3 EXCEPT ![s].state = "open"] /\ Become(t, new)
    BY <1>3 DEF InitUpload
  <2> HIDE DEF s
  <2>3. up \in Upload /\ up.parts = s3[s].parts /\ s3' = [s3 EXCEPT ![s] = up]
    BY <2>1, <2>2 DEF Upload
  <2>4. new \in Tab
    BY <1>1, <2>1 DEF Tab, TabPcs
  <2>5. Sound(new, s3')
    BY <1>1, <2>1 DEF Sound, Tab
  <2> HIDE DEF new, up
  <2> QED
    BY <1>1, <2>1, <2>2, <2>3, <2>4, <2>5, UploadStepKeeps
<1> QED
  BY <1>2, <1>3

\* The row initMultipartSession writes, for any time of creation.
LEMMA FreshRow ==
  ASSUME NEW n \in Nat
  PROVE  LET r == [NoRow EXCEPT !.status = "INITIATED", !.created = n]
         IN  r \in Row /\ r.recorded = {} /\ r.status = "INITIATED"
<1> DEFINE r == [NoRow EXCEPT !.status = "INITIATED", !.created = n]
<1>1. NoRow \in Row
  BY DEF NoRow, Row, RowStatuses
<1>2. NoRow.recorded = {}
  BY DEF NoRow
<1>3. r \in Row
  BY <1>1 DEF Row, RowStatuses
<1>4. r.recorded = {} /\ r.status = "INITIATED"
  BY <1>1, <1>2 DEF Row
<1> QED
  BY <1>3, <1>4

LEMMA CreateRowKeeps == ASSUME UInv, NEW t \in Tabs, CreateRow(t) PROVE UInv'
<1> DEFINE s == tab[t].session
           r == [NoRow EXCEPT !.status = "INITIATED",
                   !.created = 1 + Cardinality({q \in Sessions : row[q].status # "NONE"})]
<1>1. tab[t] \in Tab /\ Sound(tab[t], s3) /\ tab[t].pc = "create" /\ s \in Sessions
  BY Facts DEF CreateRow, Sound
<1>2. Cardinality({q \in Sessions : row[q].status # "NONE"}) \in Nat
  <2> DEFINE Q == {q \in Sessions : row[q].status # "NONE"}
  <2>1. Q \in SUBSET Sessions /\ IsFiniteSet(Sessions)
    BY UploadAssumption
  <2> HIDE DEF Q
  <2>2. IsFiniteSet(Q)
    BY <2>1, FS_Subset
  <2>3. Cardinality(Q) \in Nat
    BY <2>2, FS_CardinalityType
  <2> QED
    BY <2>3 DEF Q
<1>3. r \in Row /\ r.recorded = {} /\ r.status = "INITIATED"
  <2>1. 1 + Cardinality({q \in Sessions : row[q].status # "NONE"}) \in Nat
    BY <1>2
  <2> QED
    BY <2>1, FreshRow
<1>4. /\ row' = [row EXCEPT ![s] = r]
      /\ Become(t, [tab[t] EXCEPT !.pc = "sign"])
      /\ UNCHANGED <<s3, found>>
  BY DEF CreateRow, Goto
<1>5. [tab[t] EXCEPT !.pc = "sign"] \in Tab /\ Sound([tab[t] EXCEPT !.pc = "sign"], s3)
  BY <1>1, GotoSound DEF TabPcs
<1> HIDE DEF s, r
<1> QED
  BY <1>1, <1>3, <1>4, <1>5, RowStepKeeps

LEMMA SignPartsKeeps == ASSUME UInv, NEW t \in Tabs, SignParts(t) PROVE UInv'
<1> DEFINE s == tab[t].session
<1>1. tab[t] \in Tab /\ Sound(tab[t], s3) /\ tab[t].pc = "sign" /\ s \in Sessions
      /\ UNCHANGED <<s3, found>>
  BY Facts DEF SignParts, Sound
<1>2. CASE Become(t, Caught(t)) /\ UNCHANGED row
  BY <1>1, <1>2, CaughtSound, TabStepKeeps
<1>3. CASE ~Refused(s) /\ ~(Become(t, Caught(t)) /\ UNCHANGED row)
  <2> DEFINE new == [tab[t] EXCEPT !.pc = "upload",
                !.lane = [p \in Parts |-> IF p \in tab[t].have THEN "idle" ELSE "todo"]]
             r == [row[s] EXCEPT !.status = "IN_PROGRESS", !.abortFailed = FALSE]
  <2>1. Become(t, new) /\ row' = [row EXCEPT ![s].status = "IN_PROGRESS", ![s].abortFailed = FALSE]
    BY <1>3 DEF SignParts
  <2>2. row[s] \in Row /\ (s3[s].state # "aborted" => row[s].recorded \subseteq s3[s].parts)
    BY <1>1, Facts
  <2>3. r \in Row /\ r.recorded = row[s].recorded /\ r.status = "IN_PROGRESS"
    BY <2>2 DEF Row, RowStatuses
  <2>4. row' = [row EXCEPT ![s] = r]
    BY <2>1
  <2>5. new \in Tab
    BY <1>1 DEF Tab, TabPcs, Lanes
  <2>6. Sound(new, s3)
    BY <1>1 DEF Sound, Tab
  <2> HIDE DEF new, r, s
  <2> QED
    BY <1>1, <2>1, <2>2, <2>3, <2>4, <2>5, <2>6, RowStepKeeps
<1> QED
  BY <1>2, <1>3 DEF SignParts

LEMMA PutPartKeeps ==
  ASSUME UInv, NEW t \in Tabs, NEW p \in Parts, PutPart(t, p) PROVE UInv'
<1> DEFINE s == tab[t].session
<1>1. tab[t] \in Tab /\ Sound(tab[t], s3) /\ s \in Sessions /\ s3[s] \in Upload
      /\ UNCHANGED <<row, found>>
  BY Facts DEF PutPart, Sound
<1>2. CASE s3[s].state # "open"
  <2>1. Become(t, LaneFails(t, p)) /\ UNCHANGED s3
    BY <1>2 DEF PutPart
  <2>2. LaneFails(t, p) \in Tab /\ Sound(LaneFails(t, p), s3)
    BY <1>1, LaneFailsSound
  <2> QED
    BY <1>1, <2>1, <2>2, TabStepKeeps
<1>3. CASE s3[s].state = "open"
  <2> DEFINE new == [tab[t] EXCEPT !.lane = Lane(t, p, "stored"),
                       !.have = IF tab[t].pc = "upload" THEN @ \cup {p} ELSE @]
             up == [s3[s] EXCEPT !.parts = @ \cup {p}]
  <2>1. s3' = [s3 EXCEPT ![s].parts = @ \cup {p}] /\ Become(t, new)
    BY <1>3 DEF PutPart
  <2>2. up \in Upload /\ up.parts = s3[s].parts \cup {p} /\ up.state = s3[s].state
    BY <1>1 DEF Upload
  <2>3. s3' = [s3 EXCEPT ![s] = up]
    BY <2>1
  <2> HIDE DEF up
  <2>4. s3'[s] = up
    BY <1>1, <2>3 DEF UInv, Types
  <2>5. new \in Tab
    BY <1>1 DEF Tab, Lanes, Lane
  <2>6. Sound(new, s3')
    BY <1>1, <1>3, <2>2, <2>4 DEF Sound, Tab, Lane
  <2> HIDE DEF new, s
  <2> QED
    BY <1>1, <2>1, <2>2, <2>3, <2>5, <2>6, UploadStepKeeps
<1> QED
  BY <1>2, <1>3

LEMMA RecordReadKeeps ==
  ASSUME UInv, NEW t \in Tabs, NEW p \in Parts, RecordRead(t, p) PROVE UInv'
<1> DEFINE s == tab[t].session
<1>1. /\ tab[t] \in Tab /\ Sound(tab[t], s3) /\ s \in Sessions /\ row[s] \in Row
      /\ tab[t].lane[p] = "stored"
      /\ s3[s].state # "aborted" => row[s].recorded \subseteq s3[s].parts
      /\ UNCHANGED <<row, s3, found>>
  BY Facts DEF RecordRead, Sound
<1>2. CASE Become(t, LaneFails(t, p))
  BY <1>1, <1>2, LaneFailsSound, TabStepKeeps
<1>3. CASE ~Become(t, LaneFails(t, p))
  <2> DEFINE new == [tab[t] EXCEPT !.lane = Lane(t, p, "seen"),
                                   !.seen[p] = row[s].recorded]
  <2>1. Become(t, new)
    BY <1>3 DEF RecordRead
  <2>2. new \in Tab
    BY <1>1 DEF Tab, Lanes, Lane, Row
  <2>3. Sound(new, s3)
    BY <1>1 DEF Sound, Tab, Lane
  <2> HIDE DEF new
  <2> QED
    BY <1>1, <2>1, <2>2, <2>3, TabStepKeeps
<1> QED
  BY <1>2, <1>3

LEMMA RecordWriteKeeps ==
  ASSUME UInv, NEW t \in Tabs, NEW p \in Parts, RecordWrite(t, p) PROVE UInv'
<1> DEFINE s == tab[t].session
           new == [tab[t] EXCEPT !.lane = Lane(t, p, "done"), !.seen[p] = {}]
           r == [row[s] EXCEPT !.status = "IN_PROGRESS", !.recorded = tab[t].seen[p] \cup {p}]
<1>1. tab[t] \in Tab /\ Sound(tab[t], s3) /\ s \in Sessions /\ row[s] \in Row
      /\ tab[t].lane[p] = "seen" /\ UNCHANGED <<s3, found>>
  BY Facts DEF RecordWrite, Sound
<1>2. /\ row' = [row EXCEPT ![s].status = "IN_PROGRESS", ![s].recorded = tab[t].seen[p] \cup {p}]
      /\ Become(t, new)
  BY DEF RecordWrite
<1>3. row' = [row EXCEPT ![s] = r]
  BY <1>2
<1>4. /\ r \in Row /\ r.status = "IN_PROGRESS"
      /\ s3[s].state # "aborted" => r.recorded \subseteq s3[s].parts
  BY <1>1 DEF Row, RowStatuses, Tab, Sound
<1>5. new \in Tab
  BY <1>1 DEF Tab, Lanes, Lane
<1>6. Sound(new, s3)
  BY <1>1 DEF Sound, Tab, Lane
<1> HIDE DEF new, r, s
<1> QED
  BY <1>1, <1>2, <1>3, <1>4, <1>5, <1>6, RowStepKeeps

LEMMA UploadedKeeps == ASSUME UInv, NEW t \in Tabs, Uploaded(t) PROVE UInv'
<1>1. tab[t] \in Tab /\ Sound(tab[t], s3) /\ tab[t].session \in Sessions
      /\ UNCHANGED <<row, s3, found>>
  BY Facts DEF Uploaded, Sound
<1>2. Become(t, [tab[t] EXCEPT !.pc = "complete"])
  BY DEF Uploaded, Goto
<1> QED
  BY <1>1, <1>2, GotoSound, TabStepKeeps DEF TabPcs

LEMMA CompleteUploadKeeps == ASSUME UInv, NEW t \in Tabs, CompleteUpload(t) PROVE UInv'
<1> DEFINE s == tab[t].session
<1>1. tab[t] \in Tab /\ Sound(tab[t], s3) /\ s \in Sessions /\ s3[s] \in Upload
      /\ UNCHANGED <<row, found>>
  BY Facts DEF CompleteUpload, Assembles, Sound
<1>2. CASE Become(t, Caught(t)) /\ UNCHANGED s3
  BY <1>1, <1>2, CaughtSound, TabStepKeeps
<1>3. CASE ~(Become(t, Caught(t)) /\ UNCHANGED s3)
  <2> DEFINE new == [tab[t] EXCEPT !.pc = "completed"]
             up == [s3[s] EXCEPT !.state = "completed"]
  <2>1. /\ s3' = [s3 EXCEPT ![s].state = "completed"] /\ Become(t, new)
        /\ s3[s].state = "open"
    BY <1>3 DEF CompleteUpload, Assembles, Goto
  <2>2. up \in Upload /\ up.parts = s3[s].parts /\ up.state = "completed"
    BY <1>1 DEF Upload
  <2>3. s3' = [s3 EXCEPT ![s] = up]
    BY <2>1
  <2> HIDE DEF up
  <2>4. s3'[s] = up
    BY <1>1, <2>3 DEF UInv, Types
  <2>5. new \in Tab
    BY <1>1 DEF Tab, TabPcs
  <2>6. Sound(new, s3')
    BY <1>1, <2>1, <2>2, <2>4 DEF Sound, Tab
  <2> HIDE DEF new, s
  <2> QED
    BY <1>1, <2>1, <2>2, <2>3, <2>5, <2>6, UploadStepKeeps
<1> QED
  BY <1>2, <1>3

LEMMA CompleteRowKeeps == ASSUME UInv, NEW t \in Tabs, CompleteRow(t) PROVE UInv'
<1> DEFINE s == tab[t].session
           r == [row[s] EXCEPT !.status = "COMPLETED", !.recorded = tab[t].have,
                               !.abortFailed = FALSE]
<1>1. tab[t] \in Tab /\ Sound(tab[t], s3) /\ s \in Sessions /\ row[s] \in Row
      /\ tab[t].pc = "completed" /\ UNCHANGED <<s3, found>>
  BY Facts DEF CompleteRow, Sound
<1>2. /\ row' = [row EXCEPT ![s].status = "COMPLETED", ![s].recorded = tab[t].have,
                            ![s].abortFailed = FALSE]
      /\ Become(t, Ended(t)) \/ Become(t, Caught(t))
  BY DEF CompleteRow
<1>3. row' = [row EXCEPT ![s] = r]
  BY <1>2
<1>4. r \in Row /\ r.recorded \subseteq s3[s].parts /\ s3[s].state = "completed"
  BY <1>1 DEF Row, RowStatuses, Tab, Sound
<1> HIDE DEF r, s
<1> QED
  BY <1>1, <1>2, <1>3, <1>4, EndedSound, CaughtSound, RowStepKeeps

LEMMA CancelKeeps == ASSUME UInv, NEW t \in Tabs, Cancel(t) PROVE UInv'
<1> DEFINE new == [tab[t] EXCEPT !.pc = "stop", !.canceled = TRUE,
             !.lane = [p \in Parts |-> IF @[p] = "todo" THEN "failed" ELSE @[p]]]
<1>1. tab[t] \in Tab /\ Sound(tab[t], s3) /\ tab[t].pc = "upload"
      /\ UNCHANGED <<row, s3, found>>
  BY Facts DEF Cancel
<1>2. Become(t, new)
  BY DEF Cancel
<1>3. new \in Tab
  BY <1>1 DEF Tab, TabPcs, Lanes
<1>4. Sound(new, s3)
  BY <1>1 DEF Sound, Tab
<1> HIDE DEF new
<1> QED
  BY <1>1, <1>2, <1>3, <1>4, TabStepKeeps

LEMMA AbortListedKeeps ==
  ASSUME UInv, NEW t \in Tabs, NEW s \in Sessions, AbortListed(t, s) PROVE UInv'
<1> DEFINE new == [NoTab EXCEPT !.pc = "stop", !.session = s, !.canceled = TRUE]
<1>1. Become(t, new) /\ UNCHANGED <<row, s3, found>>
  BY DEF AbortListed, Listed
<1>2. new \in Tab
  BY DEF NoTab, Quiet, Tab, TabPcs, Lanes
<1>3. Sound(new, s3)
  BY DEF NoTab, Quiet, Sound
<1> HIDE DEF new
<1> QED
  BY <1>1, <1>2, <1>3, TabStepKeeps

LEMMA StopUploadKeeps == ASSUME UInv, NEW t \in Tabs, StopUpload(t) PROVE UInv'
<1> DEFINE s == tab[t].session
<1>1. tab[t] \in Tab /\ Sound(tab[t], s3) /\ s \in Sessions /\ s3[s] \in Upload
      /\ UNCHANGED <<row, found>>
  BY Facts DEF StopUpload, AbortUpload, Sound
<1>2. CASE Become(t, Ended(t)) /\ UNCHANGED s3
  BY <1>1, <1>2, EndedSound, TabStepKeeps
<1>3. CASE s3[s].state = "open" /\ Goto(t, "stopped")
           /\ s3' = [s3 EXCEPT ![s] = Discarded]
  <2> DEFINE new == [tab[t] EXCEPT !.pc = "stopped"]
  <2>1. Discarded \in Upload /\ Discarded.state = "aborted"
    BY DEF Discarded, Upload
  <2>2. s3' \in [Sessions -> Upload] /\ Later(s3, s3')
    BY <1>1, <1>3, <2>1 DEF Later, UInv, Types
  <2>3. new \in Tab /\ Sound(new, s3)
    BY <1>1, GotoSound DEF TabPcs
  <2>4. Become(t, new)
    BY <1>3 DEF Goto
  <2> HIDE DEF new, s
  <2>5. Sound(new, s3')
    BY <2>2, <2>3, SoundLater
  <2> QED
    BY <1>1, <1>3, <2>1, <2>3, <2>4, <2>5, UploadStepKeeps
<1>4. CASE UNCHANGED s3
           /\ Become(t, [tab[t] EXCEPT !.pc = "stopped", !.abortFailed = TRUE])
  <2> DEFINE new == [tab[t] EXCEPT !.pc = "stopped", !.abortFailed = TRUE]
  <2>1. new \in Tab
    BY <1>1 DEF Tab, TabPcs
  <2>2. Sound(new, s3)
    BY <1>1 DEF Sound, Tab
  <2>3. Become(t, new)
    BY <1>4
  <2> HIDE DEF new
  <2> QED
    BY <1>1, <1>4, <2>1, <2>2, <2>3, TabStepKeeps
<1> QED
  BY <1>2, <1>3, <1>4 DEF StopUpload, AbortUpload

LEMMA StopRowKeeps == ASSUME UInv, NEW t \in Tabs, StopRow(t) PROVE UInv'
<1> DEFINE s == tab[t].session
           r == [row[s] EXCEPT !.status = IF tab[t].canceled THEN "ABORTED" ELSE "FAILED",
                               !.abortFailed = tab[t].canceled /\ tab[t].abortFailed]
<1>1. /\ tab[t] \in Tab /\ Sound(tab[t], s3) /\ s \in Sessions /\ row[s] \in Row
      /\ s3[s].state # "aborted" => row[s].recorded \subseteq s3[s].parts
      /\ UNCHANGED <<s3, found>>
  BY Facts DEF StopRow, Sound
<1>2. /\ row' = [row EXCEPT ![s].status = IF tab[t].canceled THEN "ABORTED" ELSE "FAILED",
                            ![s].abortFailed = tab[t].canceled /\ tab[t].abortFailed]
      /\ Become(t, Ended(t))
  BY DEF StopRow
<1>3. row' = [row EXCEPT ![s] = r]
  BY <1>2
<1>4. r \in Row /\ r.recorded = row[s].recorded /\ r.status # "COMPLETED"
  BY <1>1 DEF Row, RowStatuses, Tab
<1> HIDE DEF r, s
<1> QED
  BY <1>1, <1>2, <1>3, <1>4, EndedSound, RowStepKeeps

LEMMA CallFailsKeeps == ASSUME UInv, NEW t \in Tabs, CallFails(t) PROVE UInv'
<1>1. tab[t] \in Tab /\ Sound(tab[t], s3) /\ UNCHANGED <<row, s3, found>>
  BY Facts DEF CallFails
<1>2. Become(t, NoTab) \/ Become(t, Caught(t)) \/ Become(t, Ended(t))
  BY DEF CallFails
<1> QED
  BY <1>1, <1>2, NoTabSound, CaughtSound, EndedSound, TabStepKeeps

LEMMA LaneCallFailsKeeps ==
  ASSUME UInv, NEW t \in Tabs, NEW p \in Parts, LaneCallFails(t, p) PROVE UInv'
<1>1. tab[t] \in Tab /\ Sound(tab[t], s3) /\ UNCHANGED <<row, s3, found>>
      /\ tab[t].session \in Sessions /\ Become(t, LaneFails(t, p))
  BY Facts DEF LaneCallFails, Sound
<1> QED
  BY <1>1, LaneFailsSound, TabStepKeeps

LEMMA TabClosesKeeps == ASSUME UInv, NEW t \in Tabs, TabCloses(t) PROVE UInv'
BY NoTabSound, TabStepKeeps DEF TabCloses

\* Steps of no tab: time, and the cleanup job.
LEMMA OtherRowKeeps ==
    ASSUME UInv, UNCHANGED <<s3, tab>>, found' \subseteq Sessions,
           NEW s \in Sessions, NEW r \in Row, row' = [row EXCEPT ![s] = r],
           r.recorded = row[s].recorded,
           r.status = "COMPLETED" => row[s].status = "COMPLETED"
    PROVE  UInv'
BY DEF UInv, Types, RecordedIsStored, CompletedIsAssembled, Has

LEMMA ExpireKeeps == ASSUME UInv, NEW s \in Sessions, Expire(s) PROVE UInv'
<1> DEFINE r == [row[s] EXCEPT !.expired = TRUE]
<1>1. r \in Row /\ r.recorded = row[s].recorded /\ r.status = row[s].status
  BY Facts DEF Row
<1>2. row' = [row EXCEPT ![s] = r] /\ UNCHANGED <<s3, tab, found>>
  BY DEF Expire
<1> HIDE DEF r
<1> QED
  BY <1>1, <1>2, OtherRowKeeps DEF UInv, Types

LEMMA CleanupItemKeeps == ASSUME UInv, NEW s \in Sessions, CleanupItem(s) PROVE UInv'
<1> DEFINE r == [row[s] EXCEPT !.status = "FAILED"]
<1>1. r \in Row /\ r.recorded = row[s].recorded /\ r.status = "FAILED"
  BY Facts DEF Row, RowStatuses
<1>2. row' = [row EXCEPT ![s] = r] /\ UNCHANGED <<s3, tab>> /\ found' \subseteq Sessions
  BY DEF CleanupItem, UInv, Types
<1> HIDE DEF r
<1> QED
  BY <1>1, <1>2, OtherRowKeeps

LEMMA CleanupFindKeeps == ASSUME UInv, CleanupFind PROVE UInv'
BY DEF UInv, Types, CleanupFind, RecordedIsStored, CompletedIsAssembled, Has

-----------------------------------------------------------------------------
LEMMA InitUInv == Init => UInv
<1> SUFFICES ASSUME Init PROVE UInv
  OBVIOUS
<1>1. row \in [Sessions -> Row] /\ \A s \in Sessions : row[s].recorded = {}
                                                     /\ row[s].status = "NONE"
  BY DEF Init, NoRow, Row, RowStatuses
<1>2. s3 \in [Sessions -> Upload]
  BY DEF Init, NoUpload, Upload
<1>3. tab \in [Tabs -> Tab] /\ \A t \in Tabs : Sound(tab[t], s3)
  BY NoTabSound DEF Init
<1> QED
  BY <1>1, <1>2, <1>3 DEF Init, UInv, Types, RecordedIsStored, CompletedIsAssembled, Has

LEMMA StepUInv == UInv /\ [Next]_vars => UInv'
<1> SUFFICES ASSUME UInv, [Next]_vars PROVE UInv'
  OBVIOUS
<1>1. ASSUME NEW t \in Tabs, Step(t) PROVE UInv'
  BY <1>1, RecoverKeeps, InitUploadKeeps, CreateRowKeeps, SignPartsKeeps, UploadedKeeps,
     CompleteUploadKeeps, CompleteRowKeeps, StopUploadKeeps, StopRowKeeps,
     PutPartKeeps, RecordReadKeeps, RecordWriteKeeps DEF Step
<1>2. ASSUME NEW t \in Tabs,
             Start(t) \/ Cancel(t) \/ CallFails(t) \/ TabCloses(t)
      PROVE  UInv'
  BY <1>2, StartKeeps, CancelKeeps, CallFailsKeeps, TabClosesKeeps
<1>3. ASSUME NEW t \in Tabs, NEW p \in Parts, LaneCallFails(t, p) PROVE UInv'
  BY <1>3, LaneCallFailsKeeps
<1>4. ASSUME NEW t \in Tabs, NEW s \in Sessions, AbortListed(t, s) PROVE UInv'
  BY <1>4, AbortListedKeeps
<1>5. ASSUME NEW s \in Sessions, Expire(s) PROVE UInv'
  BY <1>5, ExpireKeeps
<1>6. CASE Cleanup
  BY <1>6, CleanupFindKeeps, CleanupItemKeeps DEF Cleanup
<1>7. CASE UNCHANGED vars
  BY <1>7 DEF vars, UInv, Types, RecordedIsStored, CompletedIsAssembled, Has
<1> QED
  BY <1>1, <1>2, <1>3, <1>4, <1>5, <1>6, <1>7 DEF Next

\* What a session's row records is stored in S3 until the session's upload is
\* aborted, in any interleaving of attempts, reports, failures and cleanups:
\* recordMultipartPart writes back a list it read earlier, which may forget parts
\* but never invents them.
THEOREM RecordedStored == Spec => []RecordedIsStored
<1>1. UInv => RecordedIsStored
  BY DEF UInv
<1> QED
  BY InitUInv, StepUInv, <1>1, PTL DEF Spec

\* A row is COMPLETED only when S3 has assembled the object (completeMultipart
\* updates the row after the call to S3 has returned).
THEOREM CompletedAssembled == Spec => []CompletedIsAssembled
<1>1. UInv => CompletedIsAssembled
  BY DEF UInv
<1> QED
  BY InitUInv, StepUInv, <1>1, PTL DEF Spec

-----------------------------------------------------------------------------
(* Every part is sent, and no open upload is forgotten *)

\* The attempt r has, or is about to send, every part.
Whole(r) ==
    /\ r.pc = "upload" => \A p \in Parts : p \in r.have \/ r.lane[p] = "todo"
    /\ r.pc \in {"complete", "completed"} => r.have = Parts

\* What the attempt r takes for granted, of the rows q and the uploads u.
Relies(r, q, u) ==
    /\ r.session \in Sessions => u[r.session].state # "none"
    /\ r.pc \notin {"idle", "recover", "init", "create"}
           => q[r.session].status # "NONE"
    /\ r.pc = "stopped" /\ ~r.abortFailed => u[r.session].state # "open"

\* What the row q tells of its upload u.
Tells(q, u) ==
    /\ q.status # "NONE" => u.state # "none"
    /\ q.status = "ABORTED" /\ u.state = "open" => q.abortFailed

Rowless == {s \in Sessions : s3[s].state = "open" /\ row[s].status = "NONE" /\ ~AtWork(s)}

VInv ==
    /\ failures \in Nat /\ object \in {Null, Parts}
    /\ \A t \in Tabs : Whole(tab[t]) /\ Relies(tab[t], row, s3)
    /\ \A s \in Sessions : Tells(row[s], s3[s])
    /\ \A s \in found : row[s].status # "NONE"
    /\ Cardinality(Rowless) <= failures

\* A step loses sight of an upload only when a call fails.
LEMMA RowlessBound ==
    ASSUME failures \in Nat, Cardinality(Rowless) <= failures, NEW lost,
           failures' \in {failures, failures + 1},
           \A s \in Rowless' : s \in Rowless \/ (s = lost /\ failures' = failures + 1)
    PROVE  failures' \in Nat /\ Cardinality(Rowless') <= failures'
<1>1. IsFiniteSet(Rowless) /\ IsFiniteSet(Rowless')
  <2>1. Rowless \in SUBSET Sessions /\ Rowless' \in SUBSET Sessions
    BY DEF Rowless
  <2> QED
    BY <2>1, UploadAssumption, FS_Subset
<1>2. Cardinality(Rowless) \in Nat /\ Cardinality(Rowless') \in Nat
  BY <1>1, FS_CardinalityType
<1>3. CASE Rowless' \subseteq Rowless
  <2>1. Cardinality(Rowless') <= Cardinality(Rowless)
    BY <1>1, <1>3, FS_Subset
  <2> QED
    BY <1>2, <2>1
<1>4. CASE failures' = failures + 1
  <2>1. /\ IsFiniteSet(Rowless \cup {lost})
        /\ Cardinality(Rowless \cup {lost}) \in {Cardinality(Rowless), Cardinality(Rowless) + 1}
    BY <1>1, FS_AddElement
  <2>2. Cardinality(Rowless') <= Cardinality(Rowless \cup {lost})
    BY <2>1, FS_Subset
  <2> QED
    BY <1>2, <1>4, <2>1, <2>2
<1> QED
  BY <1>3, <1>4

\* A step that replaces one tab by one whose assumptions hold, opens an upload
\* only for it, and takes no row away.
LEMMA VKeeps ==
    ASSUME UInv, VInv, NEW t \in Tabs, NEW new \in Tab, Become(t, new),
           Whole(new), Relies(new, row', s3'),
           \A s \in Sessions :
              /\ Tells(row'[s], s3'[s])
              /\ row[s].status # "NONE" => row'[s].status # "NONE"
              /\ s3[s].state # "none" => s3'[s].state # "none"
              /\ s3'[s].state = "open" =>
                    \/ s3[s].state = "open"
                    \/ s3[s].state = "none" /\ new.session = s /\ new.pc = "create",
           found' = found,
           object' = object \/ (tab[t].pc = "complete" /\ object' = tab[t].have),
           failures' \in {failures, failures + 1},
           tab[t].pc = "create" =>
              \/ failures' = failures + 1
              \/ row'[tab[t].session].status # "NONE"
              \/ new.pc = "create" /\ new.session = tab[t].session
    PROVE  VInv'
<1>1. PICK r : /\ r \in {new, NoTab} /\ (new.pc # "idle" => r = new)
               /\ tab' = [tab EXCEPT ![t] = r]
  BY DEF Become, AtRest
<1>2. /\ tab'[t] = r /\ \A u \in Tabs \ {t} : tab'[u] = tab[u]
      /\ \A u \in Tabs : tab[u] \in Tab /\ Sound(tab[u], s3)
                         /\ Whole(tab[u]) /\ Relies(tab[u], row, s3)
  BY <1>1 DEF UInv, Types, VInv
<1>3. Whole(r) /\ Relies(r, row', s3')
  <2>1. Whole(NoTab) /\ Relies(NoTab, row', s3')
    BY UploadAssumption DEF NoTab, Whole, Relies
  <2> QED
    BY <1>1, <2>1
<1>4. ASSUME NEW u \in Tabs \ {t} PROVE Relies(tab[u], row', s3')
  <2>1. tab[u].pc \notin {"idle", "recover", "init"} => tab[u].session \in Sessions
    BY <1>2 DEF Sound
  <2>2. Relies(tab[u], row, s3)
    BY <1>2
  <2> QED
    BY <2>1, <2>2 DEF Relies
<1>5. object' \in {Null, Parts}
  BY <1>2 DEF VInv, Whole
<1>6. ASSUME NEW s \in Rowless'
      PROVE  s \in Rowless \/ (s = tab[t].session /\ failures' = failures + 1)
  <2>1. /\ s \in Sessions /\ s3'[s].state = "open" /\ row'[s].status = "NONE"
        /\ \A u \in Tabs : tab'[u].session = s => tab'[u].pc = "idle"
    BY DEF Rowless, AtWork
  <2>2. row[s].status = "NONE"
    BY <2>1
  <2>3. s3[s].state = "open"
    BY <1>1, <1>2, <2>1
  <2>4. CASE ~AtWork(s)
    BY <2>1, <2>2, <2>3, <2>4 DEF Rowless
  <2>5. CASE AtWork(s)
    <3>1. tab[t].session = s /\ tab[t].pc # "idle"
      BY <1>2, <2>1, <2>5 DEF AtWork
    <3>2. tab[t].pc = "create"
      BY <1>2, <2>1, <2>2, <3>1 DEF Sound, Relies
    <3> QED
      BY <1>1, <1>2, <2>1, <3>1, <3>2
  <2> QED
    BY <2>4, <2>5
<1>7. failures' \in Nat /\ Cardinality(Rowless') <= failures'
  <2> DEFINE lost == tab[t].session
  <2>1. /\ failures \in Nat /\ Cardinality(Rowless) <= failures
        /\ failures' \in {failures, failures + 1}
    BY DEF VInv
  <2>2. \A s \in Rowless' : s \in Rowless \/ (s = lost /\ failures' = failures + 1)
    BY <1>6
  <2> HIDE DEF lost
  <2> QED
    BY <2>1, <2>2, RowlessBound
<1>8. \A s \in found' : row'[s].status # "NONE"
  BY DEF VInv, UInv, Types
<1> QED
  BY <1>2, <1>3, <1>4, <1>5, <1>7, <1>8 DEF VInv

\* ... in particular one that leaves rows and uploads alone,
LEMMA VTabStep ==
    ASSUME UInv, VInv, NEW t \in Tabs, NEW new \in Tab, Become(t, new),
           Whole(new), Relies(new, row, s3), UNCHANGED <<row, s3, object, found>>,
           failures' \in {failures, failures + 1},
           tab[t].pc = "create" =>
              \/ failures' = failures + 1
              \/ new.pc = "create" /\ new.session = tab[t].session
    PROVE  VInv'
<1>1. Relies(new, row', s3')
  BY DEF Relies
<1>2. \A s \in Sessions : Tells(row'[s], s3'[s])
  BY DEF VInv
<1> QED
  BY <1>1, <1>2, VKeeps

\* ... and one that writes the row of the attempt's session.
LEMMA VRowStep ==
    ASSUME UInv, VInv, NEW t \in Tabs, NEW new \in Tab, Become(t, new),
           Whole(new), tab[t].session \in Sessions, new.session = tab[t].session,
           new.pc = "stopped" => tab[t].pc = "stopped" /\ new.abortFailed = tab[t].abortFailed,
           NEW r \in Row, row' = [row EXCEPT ![tab[t].session] = r],
           r.status # "NONE",
           r.status = "ABORTED" => r.abortFailed \/ s3[tab[t].session].state # "open",
           UNCHANGED <<s3, object, found>>, failures' \in {failures, failures + 1}
    PROVE  VInv'
<1>1. /\ row'[tab[t].session] = r
      /\ \A s \in Sessions \ {tab[t].session} : row'[s] = row[s]
  BY DEF UInv, Types
<1>2. Relies(tab[t], row, s3) /\ \A s \in Sessions : Tells(row[s], s3[s])
  BY DEF VInv
<1>3. Relies(new, row', s3')
  BY <1>1, <1>2 DEF Relies
<1>4. \A s \in Sessions : Tells(row'[s], s3'[s])
  BY <1>1, <1>2 DEF Tells, Relies
<1>5. row'[tab[t].session].status # "NONE"
  BY <1>1
<1>6. \A s \in Sessions : row[s].status # "NONE" => row'[s].status # "NONE"
  BY <1>1
<1> QED
  BY <1>3, <1>4, <1>5, <1>6, VKeeps

-----------------------------------------------------------------------------
LEMMA VFacts ==
    ASSUME UInv, VInv
    PROVE  /\ \A t \in Tabs : /\ tab[t] \in Tab /\ Sound(tab[t], s3)
                              /\ Whole(tab[t]) /\ Relies(tab[t], row, s3)
           /\ \A s \in Sessions : /\ row[s] \in Row /\ s3[s] \in Upload
                                  /\ Tells(row[s], s3[s])
           /\ failures \in Nat
BY DEF UInv, Types, VInv

\* Records that say nothing of the attempt's parts.
LEMMA EndedRelies ==
    ASSUME NEW q, NEW u, NEW t \in Tabs, tab[t] \in Tab, Relies(tab[t], q, u)
    PROVE  /\ Ended(t) \in Tab /\ Whole(Ended(t)) /\ Relies(Ended(t), q, u)
           /\ Ended(t).session = tab[t].session /\ Ended(t).pc = "idle"
BY DEF Ended, Tab, TabPcs, Whole, Relies

LEMMA GotoRelies ==
    ASSUME NEW q, NEW u, NEW t \in Tabs, tab[t] \in Tab, Relies(tab[t], q, u),
           NEW pc \in TabPcs, pc \notin {"upload", "complete", "completed", "stopped"},
           pc \in {"idle", "recover", "init", "create"}
               \/ q[tab[t].session].status # "NONE"
    PROVE  LET new == [tab[t] EXCEPT !.pc = pc] IN
           /\ new \in Tab /\ Whole(new) /\ Relies(new, q, u)
           /\ new.session = tab[t].session /\ new.pc = pc
BY DEF Tab, Whole, Relies

LEMMA CaughtRelies ==
    ASSUME NEW q, NEW u, NEW t \in Tabs, tab[t] \in Tab, Relies(tab[t], q, u),
           tab[t].session \in Sessions => q[tab[t].session].status # "NONE"
    PROVE  /\ Caught(t) \in Tab /\ Whole(Caught(t)) /\ Relies(Caught(t), q, u)
           /\ Caught(t).session = tab[t].session /\ Caught(t).pc \in {"idle", "stop"}
<1>1. CASE tab[t].session = Null
  BY <1>1, EndedRelies DEF Caught
<1>2. CASE tab[t].session # Null
  <2>1. tab[t].session \in Sessions /\ q[tab[t].session].status # "NONE"
    BY <1>2 DEF Tab
  <2>2. Caught(t) = [tab[t] EXCEPT !.pc = "stop"] /\ "stop" \in TabPcs
    BY <1>2 DEF Caught, TabPcs
  <2> QED
    BY <2>1, <2>2, GotoRelies
<1> QED
  BY <1>1, <1>2

LEMMA NoTabRelies ==
    ASSUME NEW q, NEW u
    PROVE  Whole(NoTab) /\ Relies(NoTab, q, u) /\ NoTab.pc = "idle"
BY UploadAssumption DEF NoTab, Whole, Relies

LEMMA LaneFailsRelies ==
    ASSUME NEW q, NEW u, NEW t \in Tabs, tab[t] \in Tab, Relies(tab[t], q, u),
           Whole(tab[t]), NEW p \in Parts
    PROVE  LET new == LaneFails(t, p) IN
           /\ new \in Tab /\ Whole(new) /\ Relies(new, q, u)
           /\ new.session = tab[t].session
           /\ tab[t].pc = "create" => new.pc = "create"
<1>1. CASE tab[t].pc = "upload"
  BY <1>1 DEF LaneFails, Lane, Lanes, Tab, TabPcs, Whole, Relies
<1>2. CASE tab[t].pc # "upload"
  BY <1>2 DEF LaneFails, Lane, Lanes, Tab, TabPcs, Whole, Relies
<1> QED
  BY <1>1, <1>2

-----------------------------------------------------------------------------
LEMMA StartV == ASSUME UInv, VInv, NEW t \in Tabs, Start(t) PROVE VInv'
<1> DEFINE new == [NoTab EXCEPT !.pc = "recover"]
<1>1. new \in Tab /\ Whole(new) /\ Relies(new, row, s3)
  BY UploadAssumption DEF NoTab, Quiet, Tab, TabPcs, Lanes, Whole, Relies
<1> HIDE DEF new
<1>2. /\ Become(t, new) /\ UNCHANGED <<row, s3, object, found>> /\ failures' = failures
      /\ tab[t].pc = "idle"
  BY DEF Start, new, NoTab
<1> QED
  BY <1>1, <1>2, VTabStep

LEMMA RecoverV == ASSUME UInv, VInv, NEW t \in Tabs, Recover(t) PROVE VInv'
<1>1. /\ tab[t] \in Tab /\ Sound(tab[t], s3) /\ Relies(tab[t], row, s3)
      /\ tab[t].pc = "recover" /\ UNCHANGED <<row, s3, object, found>> /\ failures' = failures
  BY VFacts DEF Recover
<1>2. CASE Goto(t, "init")
  <2> DEFINE new == [tab[t] EXCEPT !.pc = "init"]
  <2>1. Become(t, new)
    BY <1>2 DEF Goto
  <2>2. new \in Tab /\ Whole(new) /\ Relies(new, row, s3)
    <3>1. "init" \in TabPcs
      BY DEF TabPcs
    <3>2. tab[t] \in Tab /\ Relies(tab[t], row, s3)
      BY <1>1
    <3> QED
      BY <3>1, <3>2, GotoRelies
  <2> HIDE DEF new
  <2> QED
    BY <1>1, <2>1, <2>2, VTabStep
<1>3. ASSUME NEW s \in Recoverable,
             Become(t, [tab[t] EXCEPT
                  !.session = s, !.have = row[s].recorded,
                  !.pc = IF row[s].recorded = Parts THEN "complete" ELSE "sign"])
      PROVE  VInv'
  <2> DEFINE new == [tab[t] EXCEPT
                  !.session = s, !.have = row[s].recorded,
                  !.pc = IF row[s].recorded = Parts THEN "complete" ELSE "sign"]
  <2>1. s \in Sessions /\ row[s] \in Row /\ Tells(row[s], s3[s]) /\ row[s].status # "NONE"
    BY VFacts DEF Recoverable
  <2>2. new \in Tab
    BY <1>1, <2>1 DEF Tab, TabPcs, Row
  <2>3. Whole(new) /\ Relies(new, row, s3)
    BY <1>1, <2>1 DEF Whole, Relies, Tells, Tab
  <2> HIDE DEF new
  <2>4. Become(t, new)
    BY <1>3 DEF new
  <2> QED
    BY <1>1, <2>2, <2>3, <2>4, VTabStep
<1> QED
  BY <1>1, <1>2, <1>3 DEF Recover

LEMMA InitUploadV == ASSUME UInv, VInv, NEW t \in Tabs, InitUpload(t) PROVE VInv'
<1> DEFINE free == {s \in Sessions : s3[s].state = "none"}
<1>1. /\ tab[t] \in Tab /\ Sound(tab[t], s3) /\ Relies(tab[t], row, s3)
      /\ tab[t].pc = "init" /\ UNCHANGED <<row, object, found>> /\ failures' = failures
  BY VFacts DEF InitUpload
<1>2. CASE free = {}
  <2>1. Become(t, Ended(t)) /\ UNCHANGED s3
    BY <1>2 DEF InitUpload
  <2> QED
    BY <1>1, <2>1, EndedRelies, VTabStep
<1>3. CASE free # {}
  <2> DEFINE s == CHOOSE s \in free : TRUE
             new == [tab[t] EXCEPT !.pc = "create", !.session = s]
  <2>1. s \in Sessions /\ s3[s].state = "none" /\ s3 \in [Sessions -> Upload]
    BY <1>3 DEF UInv, Types
  <2>2. s3' = [s3 EXCEPT ![s].state = "open"] /\ Become(t, new)
    BY <1>3 DEF InitUpload
  <2> HIDE DEF s
  <2>3. s3'[s].state = "open" /\ \A q \in Sessions \ {s} : s3'[q] = s3[q]
    BY <2>1, <2>2 DEF Upload
  <2>4. new \in Tab /\ new.pc = "create" /\ new.session = s
    BY <1>1, <2>1 DEF Tab, TabPcs
  <2> HIDE DEF new
  <2>5. Whole(new) /\ Relies(new, row', s3')
    BY <2>1, <2>3, <2>4 DEF Whole, Relies
  <2>6. \A q \in Sessions : Tells(row[q], s3[q])
    BY VFacts
  <2>7. \A q \in Sessions : Tells(row'[q], s3'[q])
    BY <1>1, <2>1, <2>3, <2>6 DEF Tells
  <2>8. \A q \in Sessions : s3'[q].state = "open" =>
           s3[q].state = "open" \/ (s3[q].state = "none" /\ new.session = q /\ new.pc = "create")
    BY <2>1, <2>3, <2>4
  <2>9. \A q \in Sessions : s3[q].state # "none" => s3'[q].state # "none"
    BY <2>1, <2>3
  <2> QED
    BY <1>1, <2>2, <2>4, <2>5, <2>7, <2>8, <2>9, VKeeps
<1> QED
  BY <1>2, <1>3

LEMMA CreateRowV == ASSUME UInv, VInv, NEW t \in Tabs, CreateRow(t) PROVE VInv'
<1> DEFINE s == tab[t].session
           n == 1 + Cardinality({q \in Sessions : row[q].status # "NONE"})
           r == [NoRow EXCEPT !.status = "INITIATED", !.created = n]
           new == [tab[t] EXCEPT !.pc = "sign"]
<1>1. tab[t] \in Tab /\ Sound(tab[t], s3) /\ tab[t].pc = "create" /\ s \in Sessions
  BY VFacts DEF CreateRow, Sound
<1>2. n \in Nat
  <2> DEFINE Q == {q \in Sessions : row[q].status # "NONE"}
  <2>1. Q \in SUBSET Sessions
    OBVIOUS
  <2> HIDE DEF Q
  <2>2. Cardinality(Q) \in Nat
    BY <2>1, UploadAssumption, FS_Subset, FS_CardinalityType
  <2> QED
    BY <2>2 DEF Q
<1>3. row' = [row EXCEPT ![s] = r] /\ Become(t, new) /\ UNCHANGED <<s3, object, found, failures>>
  BY DEF CreateRow, Goto
<1> HIDE DEF n
<1>4. r \in Row /\ r.status = "INITIATED"
  BY <1>2, FreshRow
<1>5. new \in Tab /\ Whole(new) /\ new.session = s /\ new.pc = "sign"
  BY <1>1 DEF Tab, TabPcs, Whole
<1>6. failures' \in {failures, failures + 1}
  BY <1>3
<1> HIDE DEF r, new
<1> QED
  BY <1>1, <1>3, <1>4, <1>5, <1>6, VRowStep

LEMMA SignPartsV == ASSUME UInv, VInv, NEW t \in Tabs, SignParts(t) PROVE VInv'
<1> DEFINE s == tab[t].session
<1>1. /\ tab[t] \in Tab /\ Sound(tab[t], s3) /\ Relies(tab[t], row, s3)
      /\ tab[t].pc = "sign" /\ s \in Sessions /\ row[s] \in Row
      /\ UNCHANGED <<s3, object, found>> /\ failures' = failures /\ row[s].status # "NONE"
  BY VFacts DEF SignParts, Sound, Relies
<1>2. CASE Become(t, Caught(t)) /\ UNCHANGED row
  BY <1>1, <1>2, CaughtRelies, VTabStep
<1>3. CASE ~(Become(t, Caught(t)) /\ UNCHANGED row)
  <2> DEFINE new == [tab[t] EXCEPT !.pc = "upload",
                !.lane = [p \in Parts |-> IF p \in tab[t].have THEN "idle" ELSE "todo"]]
             r == [row[s] EXCEPT !.status = "IN_PROGRESS", !.abortFailed = FALSE]
  <2>1. /\ Become(t, new)
        /\ row' = [row EXCEPT ![s].status = "IN_PROGRESS", ![s].abortFailed = FALSE]
    BY <1>3 DEF SignParts
  <2>2. row' = [row EXCEPT ![s] = r]
    BY <2>1
  <2>3. r \in Row /\ r.status = "IN_PROGRESS"
    BY <1>1 DEF Row, RowStatuses
  <2>4. new \in Tab /\ new.session = s /\ new.pc = "upload" /\ Whole(new)
    BY <1>1 DEF Tab, TabPcs, Lanes, Whole
  <2> HIDE DEF new, r
  <2> QED
    BY <1>1, <2>1, <2>2, <2>3, <2>4, VRowStep
<1> QED
  BY <1>2, <1>3

LEMMA PutPartV ==
    ASSUME UInv, VInv, NEW t \in Tabs, NEW p \in Parts, PutPart(t, p) PROVE VInv'
<1> DEFINE s == tab[t].session
<1>1. /\ tab[t] \in Tab /\ Sound(tab[t], s3) /\ Relies(tab[t], row, s3) /\ Whole(tab[t])
      /\ s \in Sessions /\ tab[t].lane[p] = "todo"
      /\ UNCHANGED <<row, object, found>> /\ failures' = failures
  BY VFacts DEF PutPart, Sound
<1>2. CASE Become(t, LaneFails(t, p)) /\ UNCHANGED s3
  BY <1>1, <1>2, LaneFailsRelies, VTabStep
<1>3. CASE ~(Become(t, LaneFails(t, p)) /\ UNCHANGED s3)
  <2> DEFINE new == [tab[t] EXCEPT !.lane = Lane(t, p, "stored"),
                       !.have = IF tab[t].pc = "upload" THEN @ \cup {p} ELSE @]
  <2>1. /\ s3' = [s3 EXCEPT ![s].parts = @ \cup {p}] /\ Become(t, new)
        /\ s3 \in [Sessions -> Upload]
    BY <1>3 DEF PutPart, UInv, Types
  <2>2. \A q \in Sessions : s3'[q].state = s3[q].state
    BY <2>1 DEF Upload
  <2>3. /\ new \in Tab /\ new.session = s /\ new.pc = tab[t].pc
        /\ new.abortFailed = tab[t].abortFailed
    BY <1>1 DEF Tab, Lanes, Lane
  <2>4. Whole(new)
    BY <1>1 DEF Tab, Lane, Whole
  <2> HIDE DEF new
  <2>5. Relies(new, row', s3')
    BY <1>1, <2>2, <2>3 DEF Relies, Sound
  <2>6. \A q \in Sessions : Tells(row[q], s3[q])
    BY VFacts
  <2>7. \A q \in Sessions : Tells(row'[q], s3'[q])
    BY <1>1, <2>2, <2>6 DEF Tells
  <2> QED
    BY <1>1, <2>1, <2>2, <2>3, <2>4, <2>5, <2>7, VKeeps
<1> QED
  BY <1>2, <1>3

LEMMA RecordReadV ==
    ASSUME UInv, VInv, NEW t \in Tabs, NEW p \in Parts, RecordRead(t, p) PROVE VInv'
<1> DEFINE s == tab[t].session
<1>1. /\ tab[t] \in Tab /\ Sound(tab[t], s3) /\ Relies(tab[t], row, s3) /\ Whole(tab[t])
      /\ s \in Sessions /\ row[s] \in Row /\ tab[t].lane[p] = "stored"
      /\ UNCHANGED <<row, s3, object, found>> /\ failures' = failures
  BY VFacts DEF RecordRead, Sound
<1>2. CASE Become(t, LaneFails(t, p))
  BY <1>1, <1>2, LaneFailsRelies, VTabStep
<1>3. CASE ~Become(t, LaneFails(t, p))
  <2> DEFINE new == [tab[t] EXCEPT !.lane = Lane(t, p, "seen"),
                                   !.seen[p] = row[s].recorded]
  <2>1. Become(t, new)
    BY <1>3 DEF RecordRead
  <2>2. /\ new \in Tab /\ new.session = s /\ new.pc = tab[t].pc
        /\ new.abortFailed = tab[t].abortFailed
    BY <1>1 DEF Tab, Lanes, Lane, Row
  <2>3. Whole(new)
    BY <1>1 DEF Tab, Lane, Whole
  <2> HIDE DEF new
  <2>4. Relies(new, row, s3)
    BY <1>1, <2>2 DEF Relies
  <2> QED
    BY <1>1, <2>1, <2>2, <2>3, <2>4, VTabStep
<1> QED
  BY <1>2, <1>3

LEMMA RecordWriteV ==
    ASSUME UInv, VInv, NEW t \in Tabs, NEW p \in Parts, RecordWrite(t, p) PROVE VInv'
<1> DEFINE s == tab[t].session
           new == [tab[t] EXCEPT !.lane = Lane(t, p, "done"), !.seen[p] = {}]
           r == [row[s] EXCEPT !.status = "IN_PROGRESS", !.recorded = tab[t].seen[p] \cup {p}]
<1>1. /\ tab[t] \in Tab /\ Sound(tab[t], s3) /\ Relies(tab[t], row, s3) /\ Whole(tab[t])
      /\ s \in Sessions /\ row[s] \in Row /\ tab[t].lane[p] = "seen"
      /\ UNCHANGED <<s3, object, found>> /\ failures' = failures
  BY VFacts DEF RecordWrite, Sound
<1>2. /\ row' = [row EXCEPT ![s].status = "IN_PROGRESS", ![s].recorded = tab[t].seen[p] \cup {p}]
      /\ Become(t, new)
  BY DEF RecordWrite
<1>3. row' = [row EXCEPT ![s] = r]
  BY <1>2
<1>4. r \in Row /\ r.status = "IN_PROGRESS"
  BY <1>1 DEF Row, RowStatuses, Tab
<1>5. /\ new \in Tab /\ new.session = s /\ new.pc = tab[t].pc
      /\ new.abortFailed = tab[t].abortFailed
  BY <1>1 DEF Tab, Lanes, Lane
<1>6. Whole(new)
  BY <1>1 DEF Tab, Lane, Whole
<1> HIDE DEF new, r
<1> QED
  BY <1>1, <1>2, <1>3, <1>4, <1>5, <1>6, VRowStep

LEMMA UploadedV == ASSUME UInv, VInv, NEW t \in Tabs, Uploaded(t) PROVE VInv'
<1> DEFINE new == [tab[t] EXCEPT !.pc = "complete"]
<1>1. /\ tab[t] \in Tab /\ Relies(tab[t], row, s3) /\ Whole(tab[t]) /\ AllReported(t)
      /\ tab[t].pc = "upload" /\ Become(t, new)
      /\ UNCHANGED <<row, s3, object, found>> /\ failures' = failures
  BY VFacts DEF Uploaded, Goto
<1>2. tab[t].have = Parts
  BY <1>1 DEF Whole, AllReported, Tab
<1>3. new \in Tab /\ Whole(new) /\ Relies(new, row, s3)
  BY <1>1, <1>2 DEF Tab, TabPcs, Whole, Relies
<1> HIDE DEF new
<1> QED
  BY <1>1, <1>3, VTabStep

\* An attempt that S3 lets complete its upload lists every part.
LEMMA CompleteUploadV == ASSUME UInv, VInv, NEW t \in Tabs, CompleteUpload(t) PROVE VInv'
<1> DEFINE s == tab[t].session
<1>1. /\ tab[t] \in Tab /\ Sound(tab[t], s3) /\ Relies(tab[t], row, s3) /\ Whole(tab[t])
      /\ tab[t].pc = "complete" /\ s \in Sessions /\ row[s].status # "NONE"
      /\ UNCHANGED <<row, found>> /\ failures' = failures
  BY VFacts DEF CompleteUpload, Sound, Relies
<1>2. CASE Become(t, Caught(t)) /\ UNCHANGED <<s3, object>>
  BY <1>1, <1>2, CaughtRelies, VTabStep
<1>3. CASE ~(Become(t, Caught(t)) /\ UNCHANGED <<s3, object>>)
  <2> DEFINE new == [tab[t] EXCEPT !.pc = "completed"]
  <2>1. /\ s3' = [s3 EXCEPT ![s].state = "completed"] /\ Become(t, new)
        /\ object' = tab[t].have /\ s3 \in [Sessions -> Upload]
    BY <1>3 DEF CompleteUpload, Goto, UInv, Types
  <2>2. s3'[s].state = "completed" /\ \A q \in Sessions \ {s} : s3'[q] = s3[q]
    BY <1>1, <2>1 DEF Upload
  <2>3. new \in Tab /\ new.session = s /\ new.pc = "completed" /\ new.have = Parts
    BY <1>1 DEF Tab, TabPcs, Whole
  <2> HIDE DEF new
  <2>4. Whole(new) /\ Relies(new, row', s3')
    BY <1>1, <2>2, <2>3 DEF Whole, Relies
  <2>5. \A q \in Sessions : Tells(row[q], s3[q])
    BY VFacts
  <2>6. \A q \in Sessions : Tells(row'[q], s3'[q])
    BY <1>1, <2>2, <2>5 DEF Tells
  <2>7. \A q \in Sessions : s3'[q].state = "open" => s3[q].state = "open"
    BY <2>2
  <2>8. \A q \in Sessions : s3[q].state # "none" => s3'[q].state # "none"
    BY <2>2
  <2> QED
    BY <1>1, <2>1, <2>3, <2>4, <2>6, <2>7, <2>8, VKeeps
<1> QED
  BY <1>2, <1>3

LEMMA CompleteRowV == ASSUME UInv, VInv, NEW t \in Tabs, CompleteRow(t) PROVE VInv'
<1> DEFINE s == tab[t].session
           r == [row[s] EXCEPT !.status = "COMPLETED", !.recorded = tab[t].have,
                               !.abortFailed = FALSE]
<1>1. /\ tab[t] \in Tab /\ Sound(tab[t], s3) /\ Relies(tab[t], row, s3)
      /\ s \in Sessions /\ row[s] \in Row /\ row[s].status # "NONE"
      /\ tab[t].pc = "completed" /\ UNCHANGED <<s3, object, found>>
  BY VFacts DEF CompleteRow, Sound, Relies
<1>2. /\ row' = [row EXCEPT ![s].status = "COMPLETED", ![s].recorded = tab[t].have,
                            ![s].abortFailed = FALSE]
      /\ Become(t, Ended(t)) \/ Become(t, Caught(t))
      /\ failures' \in {failures, failures + 1}
  BY DEF CompleteRow
<1>3. row' = [row EXCEPT ![s] = r]
  BY <1>2
<1>4. r \in Row /\ r.status = "COMPLETED"
  BY <1>1 DEF Row, RowStatuses, Tab
<1> HIDE DEF r
<1>5. PICK new \in {Ended(t), Caught(t)} : Become(t, new)
  BY <1>2
<1>6. new \in Tab /\ Whole(new) /\ new.session = s /\ new.pc \in {"idle", "stop"}
  BY <1>1, EndedRelies, CaughtRelies
<1> QED
  BY <1>1, <1>2, <1>3, <1>4, <1>5, <1>6, VRowStep

LEMMA CancelV == ASSUME UInv, VInv, NEW t \in Tabs, Cancel(t) PROVE VInv'
<1> DEFINE new == [tab[t] EXCEPT !.pc = "stop", !.canceled = TRUE,
             !.lane = [p \in Parts |-> IF @[p] = "todo" THEN "failed" ELSE @[p]]]
<1>1. /\ tab[t] \in Tab /\ Relies(tab[t], row, s3) /\ tab[t].pc = "upload"
      /\ UNCHANGED <<row, s3, object, found>> /\ failures' = failures
  BY VFacts DEF Cancel
<1>2. Become(t, new)
  BY DEF Cancel
<1>3. new \in Tab /\ new.pc = "stop" /\ new.session = tab[t].session
  BY <1>1 DEF Tab, TabPcs, Lanes
<1> HIDE DEF new
<1>4. Whole(new) /\ Relies(new, row, s3)
  BY <1>1, <1>3 DEF Whole, Relies
<1> QED
  BY <1>1, <1>2, <1>3, <1>4, VTabStep

LEMMA AbortListedV ==
    ASSUME UInv, VInv, NEW t \in Tabs, NEW s \in Sessions, AbortListed(t, s) PROVE VInv'
<1> DEFINE new == [NoTab EXCEPT !.pc = "stop", !.session = s, !.canceled = TRUE]
<1>1. /\ Become(t, new) /\ UNCHANGED <<row, s3, object, found>> /\ failures' = failures
      /\ row[s].status # "NONE" /\ tab[t].pc = "idle"
  BY DEF AbortListed, Listed, NoTab
<1>2. new \in Tab /\ new.pc = "stop" /\ new.session = s
  BY DEF NoTab, Quiet, Tab, TabPcs, Lanes
<1> HIDE DEF new
<1>3. Whole(new) /\ Relies(new, row, s3)
  BY <1>1, <1>2, VFacts DEF Whole, Relies, Tells
<1> QED
  BY <1>1, <1>2, <1>3, VTabStep

LEMMA StopUploadV == ASSUME UInv, VInv, NEW t \in Tabs, StopUpload(t) PROVE VInv'
<1> DEFINE s == tab[t].session
<1>1. /\ tab[t] \in Tab /\ Sound(tab[t], s3) /\ Relies(tab[t], row, s3)
      /\ tab[t].pc = "stop" /\ s \in Sessions /\ row[s].status # "NONE"
      /\ UNCHANGED <<row, object, found>> /\ failures' \in {failures, failures + 1}
  BY VFacts DEF StopUpload, Sound, Relies
<1>2. CASE Become(t, Ended(t)) /\ UNCHANGED s3
  BY <1>1, <1>2, EndedRelies, VTabStep
<1>3. CASE AbortUpload(s) /\ Goto(t, "stopped")
  <2> DEFINE new == [tab[t] EXCEPT !.pc = "stopped"]
  <2>1. /\ s3' = [s3 EXCEPT ![s] = Discarded] /\ Become(t, new)
        /\ s3 \in [Sessions -> Upload]
    BY <1>3 DEF AbortUpload, Goto, UInv, Types
  <2>2. s3'[s].state = "aborted" /\ \A q \in Sessions \ {s} : s3'[q] = s3[q]
    BY <1>1, <2>1 DEF Discarded
  <2>3. new \in Tab /\ new.session = s /\ new.pc = "stopped"
    BY <1>1 DEF Tab, TabPcs
  <2> HIDE DEF new
  <2>4. Whole(new) /\ Relies(new, row', s3')
    BY <1>1, <2>2, <2>3 DEF Whole, Relies
  <2>5. \A q \in Sessions : Tells(row[q], s3[q])
    BY VFacts
  <2>6. \A q \in Sessions : Tells(row'[q], s3'[q])
    BY <1>1, <2>2, <2>5 DEF Tells
  <2>7. \A q \in Sessions : s3'[q].state = "open" => s3[q].state = "open"
    BY <2>2
  <2>8. \A q \in Sessions : s3[q].state # "none" => s3'[q].state # "none"
    BY <2>2
  <2> QED
    BY <1>1, <2>1, <2>3, <2>4, <2>6, <2>7, <2>8, VKeeps
<1>4. CASE UNCHANGED s3
           /\ Become(t, [tab[t] EXCEPT !.pc = "stopped", !.abortFailed = TRUE])
  <2> DEFINE new == [tab[t] EXCEPT !.pc = "stopped", !.abortFailed = TRUE]
  <2>1. Become(t, new)
    BY <1>4
  <2>2. new \in Tab /\ new.pc = "stopped" /\ new.session = s /\ new.abortFailed
    BY <1>1 DEF Tab, TabPcs
  <2> HIDE DEF new
  <2>3. Whole(new) /\ Relies(new, row, s3)
    BY <1>1, <2>2 DEF Whole, Relies
  <2> QED
    BY <1>1, <1>4, <2>1, <2>2, <2>3, VTabStep
<1> QED
  BY <1>2, <1>3, <1>4 DEF StopUpload

\* An ABORTED row of an open upload says that the abort failed.
LEMMA StopRowV == ASSUME UInv, VInv, NEW t \in Tabs, StopRow(t) PROVE VInv'
<1> DEFINE s == tab[t].session
           r == [row[s] EXCEPT !.status = IF tab[t].canceled THEN "ABORTED" ELSE "FAILED",
                               !.abortFailed = tab[t].canceled /\ tab[t].abortFailed]
<1>1. /\ tab[t] \in Tab /\ Sound(tab[t], s3) /\ Relies(tab[t], row, s3)
      /\ s \in Sessions /\ row[s] \in Row /\ tab[t].pc = "stopped"
      /\ UNCHANGED <<s3, object, found>> /\ failures' = failures
  BY VFacts DEF StopRow, Sound
<1>2. /\ row' = [row EXCEPT ![s].status = IF tab[t].canceled THEN "ABORTED" ELSE "FAILED",
                            ![s].abortFailed = tab[t].canceled /\ tab[t].abortFailed]
      /\ Become(t, Ended(t))
  BY DEF StopRow
<1>3. row' = [row EXCEPT ![s] = r]
  BY <1>2
<1>4. /\ r \in Row /\ r.status # "NONE"
      /\ r.status = "ABORTED" => r.abortFailed = tab[t].abortFailed
  BY <1>1 DEF Row, RowStatuses, Tab
<1>5. r.status = "ABORTED" => r.abortFailed \/ s3[s].state # "open"
  BY <1>1, <1>4 DEF Relies
<1> HIDE DEF r
<1>6. Ended(t) \in Tab /\ Whole(Ended(t)) /\ Ended(t).session = s /\ Ended(t).pc = "idle"
  BY <1>1, EndedRelies
<1> QED
  BY <1>1, <1>2, <1>3, <1>4, <1>5, <1>6, VRowStep

LEMMA CallFailsV == ASSUME UInv, VInv, NEW t \in Tabs, CallFails(t) PROVE VInv'
<1>1. /\ tab[t] \in Tab /\ Sound(tab[t], s3) /\ Relies(tab[t], row, s3)
      /\ UNCHANGED <<row, s3, object, found>> /\ failures' = failures + 1
  BY VFacts DEF CallFails
<1>2. CASE Become(t, NoTab)
  BY <1>1, <1>2, NoTabSound, NoTabRelies, VTabStep
<1>3. CASE Become(t, Caught(t)) /\ tab[t].pc \in {"sign", "complete", "completed"}
  <2>1. row[tab[t].session].status # "NONE"
    BY <1>1, <1>3 DEF Relies
  <2> QED
    BY <1>1, <1>3, <2>1, CaughtRelies, VTabStep
<1>4. CASE Become(t, Ended(t))
  BY <1>1, <1>4, EndedRelies, VTabStep
<1> QED
  BY <1>2, <1>3, <1>4 DEF CallFails

LEMMA LaneCallFailsV ==
    ASSUME UInv, VInv, NEW t \in Tabs, NEW p \in Parts, LaneCallFails(t, p) PROVE VInv'
<1>1. /\ tab[t] \in Tab /\ Relies(tab[t], row, s3) /\ Whole(tab[t])
      /\ Become(t, LaneFails(t, p))
      /\ UNCHANGED <<row, s3, object, found>> /\ failures' = failures + 1
  BY VFacts DEF LaneCallFails
<1> QED
  BY <1>1, LaneFailsRelies, VTabStep

LEMMA TabClosesV == ASSUME UInv, VInv, NEW t \in Tabs, TabCloses(t) PROVE VInv'
BY NoTabSound, NoTabRelies, VTabStep DEF TabCloses

\* Steps of no tab: time, and the cleanup job.
LEMMA OtherV ==
    ASSUME UInv, VInv, UNCHANGED <<s3, tab, object, failures>>, found' \subseteq found,
           NEW s \in Sessions, NEW r \in Row, row' = [row EXCEPT ![s] = r],
           row[s].status # "NONE" => r.status # "NONE",
           Tells(r, s3[s])
    PROVE  VInv'
<1>1. row'[s] = r /\ \A q \in Sessions \ {s} : row'[q] = row[q]
  BY DEF UInv, Types
<1>2. ASSUME NEW t \in Tabs PROVE Whole(tab'[t]) /\ Relies(tab'[t], row', s3')
  <2>1. Whole(tab[t]) /\ Relies(tab[t], row, s3) /\ Sound(tab[t], s3) /\ tab'[t] = tab[t]
    BY VFacts
  <2> QED
    BY <1>1, <2>1 DEF Relies, Sound
<1>3. \A q \in Sessions : Tells(row'[q], s3'[q])
  BY <1>1, VFacts
<1>4. \A q \in Rowless' : q \in Rowless
  BY <1>1 DEF Rowless, AtWork
<1>5. failures' \in Nat /\ Cardinality(Rowless') <= failures'
  BY <1>4, RowlessBound DEF VInv
<1>6. \A q \in found' : row'[q].status # "NONE"
  BY <1>1 DEF VInv, UInv, Types
<1> QED
  BY <1>2, <1>3, <1>5, <1>6 DEF VInv

LEMMA ExpireV == ASSUME UInv, VInv, NEW s \in Sessions, Expire(s) PROVE VInv'
<1> DEFINE r == [row[s] EXCEPT !.expired = TRUE]
<1>1. /\ r \in Row /\ r.status = row[s].status /\ r.abortFailed = row[s].abortFailed
      /\ Tells(row[s], s3[s])
  BY VFacts DEF Row
<1>2. row' = [row EXCEPT ![s] = r] /\ UNCHANGED <<s3, tab, object, found, failures>>
  BY DEF Expire
<1> HIDE DEF r
<1>3. Tells(r, s3[s])
  BY <1>1 DEF Tells
<1> QED
  BY <1>1, <1>2, <1>3, OtherV

LEMMA CleanupItemV == ASSUME UInv, VInv, NEW s \in Sessions, CleanupItem(s) PROVE VInv'
<1> DEFINE r == [row[s] EXCEPT !.status = "FAILED"]
<1>1. /\ r \in Row /\ r.status = "FAILED"
      /\ Tells(row[s], s3[s]) /\ row[s].status # "NONE"
  BY VFacts DEF Row, RowStatuses, CleanupItem, VInv
<1>2. /\ row' = [row EXCEPT ![s] = r] /\ UNCHANGED <<s3, tab, object, failures>>
      /\ found' \subseteq found
  BY DEF CleanupItem
<1> HIDE DEF r
<1>3. Tells(r, s3[s])
  BY <1>1 DEF Tells
<1> QED
  BY <1>1, <1>2, <1>3, OtherV

LEMMA QuietV ==
    ASSUME VInv, UNCHANGED <<row, s3, tab, object, failures>>,
           \A s \in found' : row[s].status # "NONE"
    PROVE  VInv'
<1>1. Rowless' = Rowless /\ Cardinality(Rowless') = Cardinality(Rowless)
  BY DEF Rowless, AtWork
<1>2. \A t \in Tabs : Whole(tab'[t]) /\ Relies(tab'[t], row', s3')
  BY DEF VInv, Relies
<1>3. \A s \in Sessions : Tells(row'[s], s3'[s])
  BY DEF VInv
<1> QED
  BY <1>1, <1>2, <1>3 DEF VInv

-----------------------------------------------------------------------------
LEMMA InitVInv == Init => VInv
<1> SUFFICES ASSUME Init PROVE VInv
  OBVIOUS
<1>1. \A t \in Tabs : Whole(tab[t]) /\ Relies(tab[t], row, s3)
  BY NoTabRelies DEF Init
<1>2. \A s \in Sessions : row[s].status = "NONE" /\ s3[s].state = "none"
  BY DEF Init, NoRow, NoUpload
<1>3. Rowless = {}
  BY <1>2 DEF Rowless
<1>4. Cardinality(Rowless) = 0
  BY <1>3, FS_EmptySet
<1> QED
  BY <1>1, <1>2, <1>4 DEF Init, VInv, Tells

LEMMA StepVInv == UInv /\ VInv /\ [Next]_vars => VInv'
<1> SUFFICES ASSUME UInv, VInv, [Next]_vars PROVE VInv'
  OBVIOUS
<1>1. ASSUME NEW t \in Tabs, Step(t) PROVE VInv'
  BY <1>1, RecoverV, InitUploadV, CreateRowV, SignPartsV, UploadedV, CompleteUploadV,
     CompleteRowV, StopUploadV, StopRowV, PutPartV, RecordReadV, RecordWriteV DEF Step
<1>2. ASSUME NEW t \in Tabs, Start(t) \/ Cancel(t) \/ CallFails(t) \/ TabCloses(t)
      PROVE  VInv'
  BY <1>2, StartV, CancelV, CallFailsV, TabClosesV
<1>3. ASSUME NEW t \in Tabs, NEW p \in Parts, LaneCallFails(t, p) PROVE VInv'
  BY <1>3, LaneCallFailsV
<1>4. ASSUME NEW t \in Tabs, NEW s \in Sessions, AbortListed(t, s) PROVE VInv'
  BY <1>4, AbortListedV
<1>5. ASSUME NEW s \in Sessions, Expire(s) PROVE VInv'
  BY <1>5, ExpireV
<1>6. ASSUME NEW s \in Sessions, CleanupItem(s) PROVE VInv'
  BY <1>6, CleanupItemV
<1>7. CASE CleanupFind
  BY <1>7, QuietV DEF CleanupFind, Unfinished
<1>8. CASE UNCHANGED vars
  BY <1>8, QuietV DEF vars, VInv
<1> QED
  BY <1>1, <1>2, <1>3, <1>4, <1>5, <1>6, <1>7, <1>8 DEF Next, Cleanup

\* An object is assembled from every part of the file: reports that overwrite each
\* other may make an attempt send a part again, never leave one out.
THEOREM ObjectWhole == Spec => []ObjectIsWhole
<1>1. VInv => ObjectIsWhole
  BY DEF VInv, ObjectIsWhole
<1> QED
  BY InitUInv, StepUInv, InitVInv, StepVInv, <1>1, PTL DEF Spec

\* An open multipart upload is worked on, or listed, or its row says that its abort
\* failed, but for one upload per failure between S3 and the row.
THEOREM OpenUploadsKnown == Spec => []OpenUploadsAreKnown
<1>1. UInv /\ VInv => OpenUploadsAreKnown
  <2> SUFFICES ASSUME UInv, VInv PROVE OpenUploadsAreKnown
    OBVIOUS
  <2> DEFINE unknown == {s \in Sessions : /\ s3[s].state = "open"
                                          /\ s \notin Listed /\ ~AtWork(s)}
             rowless == {s \in unknown : row[s].status = "NONE"}
  <2>1. ASSUME NEW s \in unknown \ rowless PROVE row[s].abortFailed
    BY VFacts DEF Listed, Row, RowStatuses, Tells, UInv, CompletedIsAssembled
  <2>2. rowless = Rowless
    BY DEF Rowless, Listed
  <2>3. Cardinality(rowless) <= failures
    BY <2>2 DEF VInv
  <2> QED
    BY <2>1, <2>3 DEF OpenUploadsAreKnown
<1> QED
  BY InitUInv, StepUInv, InitVInv, StepVInv, <1>1, PTL DEF Spec

-----------------------------------------------------------------------------
(* The life cycle *)

\* An attempt whose parts are under way has a session with a row.
Working(r, q) == \A p \in Parts : r.lane[p] # "idle" => q[r.session].status # "NONE"

\* The attempt that is to write a row is alone with its session, which has none.
Registers ==
    /\ \A t \in Tabs : tab[t].pc = "create" =>
          /\ row[tab[t].session].status = "NONE"
          /\ \A u \in Tabs \ {t} : tab[u].session # tab[t].session
    /\ \A t \in Tabs : Working(tab[t], row)

LEMMA IdleTab == \A p \in Parts : NoTab.lane[p] = "idle"
BY DEF NoTab, Quiet

\* A step of the attempt t keeps this, when it takes up no session but one with a
\* row or one that S3 does not know yet, and gives a row only to its own.
LEMMA RegistersKeeps ==
    ASSUME UInv, VInv, Registers, NEW t \in Tabs, NEW new \in Tab, Become(t, new),
           new.pc = "create" =>
              \/ tab[t].pc = "create" /\ new.session = tab[t].session
              \/ s3[new.session].state = "none" /\ new.session \in Sessions,
           new.session \in Sessions =>
              \/ new.session = tab[t].session
              \/ row[new.session].status # "NONE" \/ s3[new.session].state = "none",
           \A s \in Sessions : row[s].status = "NONE" =>
              row'[s].status = "NONE" \/ (s = tab[t].session /\ new.pc # "create"),
           \A s \in Sessions : row[s].status # "NONE" => row'[s].status # "NONE",
           Working(new, row')
    PROVE  Registers'
<1> DEFINE r == IF AtRest(new) THEN NoTab ELSE new
<1>1. tab' = [tab EXCEPT ![t] = r] /\ tab \in [Tabs -> Tab]
  BY DEF Become, UInv, Types
<1>2. NoTab.pc = "idle" /\ NoTab.session = Null /\ Null \notin Sessions
  BY UploadAssumption DEF NoTab
<1>3. r = new \/ (r = NoTab /\ r.pc = "idle" /\ r.session \notin Sessions)
  BY <1>2
<1>4. tab'[t] = r /\ \A u \in Tabs \ {t} : tab'[u] = tab[u]
  BY <1>1
<1> HIDE DEF r
<1>5. ASSUME NEW v \in Tabs, v # t, tab[v].pc = "create"
      PROVE  /\ row'[tab[v].session].status = "NONE"
             /\ r.session # tab[v].session
             /\ \A u \in Tabs \ {t, v} : tab[u].session # tab[v].session
  <2>1. /\ tab[v].session \in Sessions /\ row[tab[v].session].status = "NONE"
        /\ \A u \in Tabs \ {v} : tab[u].session # tab[v].session
        /\ s3[tab[v].session].state # "none"
    BY <1>5, VFacts DEF Registers, Sound, Relies
  <2> QED
    BY <1>3, <1>5, <2>1
<1>6. ASSUME r.pc = "create"
      PROVE  /\ row'[r.session].status = "NONE"
             /\ \A u \in Tabs \ {t} : tab[u].session # r.session
  <2>1. r = new /\ new.pc = "create"
    BY <1>3, <1>6
  <2>2. CASE tab[t].pc = "create" /\ new.session = tab[t].session
    <3>1. tab[t].session \in Sessions
      BY <2>2, VFacts DEF Sound
    <3> QED
      BY <2>1, <2>2, <3>1 DEF Registers
  <2>3. CASE s3[new.session].state = "none" /\ new.session \in Sessions
    <3>1. row[new.session].status = "NONE"
      BY <2>3, VFacts DEF Tells
    <3>2. \A u \in Tabs : tab[u].session # new.session
      BY <2>3, VFacts DEF Relies
    <3> QED
      BY <2>1, <2>3, <3>1, <3>2
  <2> QED
    BY <2>1, <2>2, <2>3
<1>7. Working(r, row')
  BY <1>3, IdleTab DEF Working
<1>8. ASSUME NEW u \in Tabs \ {t} PROVE Working(tab[u], row')
  <2>1. Sound(tab[u], s3) /\ Working(tab[u], row)
    BY VFacts DEF Registers
  <2> QED
    BY <2>1 DEF Sound, Working
<1>9. \A u \in Tabs : Working(tab'[u], row')
  BY <1>4, <1>7, <1>8
<1> QED
  BY <1>4, <1>5, <1>6, <1>9 DEF Registers

\* A function of the sessions that changes at one of them.
LEMMA ChangesAt ==
    ASSUME NEW f, NEW g, NEW s \in Sessions, NEW x,
           f = [q \in Sessions |-> f[q]], g = [q \in Sessions |-> g[q]],
           g[s] = x, \A q \in Sessions \ {s} : g[q] = f[q]
    PROVE  g = [f EXCEPT ![s] = x]
OBVIOUS

\* The step of a row, and of an upload, as clients see it.
LEMMA RowSays ==
    ASSUME UInv, NEW s \in Sessions, NEW r \in Row, row' = [row EXCEPT ![s] = r],
           UNCHANGED <<s3, object>>
    PROVE  Lifecycle!Say(s, r.status, r.recorded)
<1>1. /\ row'[s] = r /\ \A q \in Sessions \ {s} : row'[q] = row[q]
  BY DEF UInv, Types
<1>2. [q \in Sessions |-> row'[q].status]
        = [[q \in Sessions |-> row[q].status] EXCEPT ![s] = r.status]
  <2> DEFINE f == [q \in Sessions |-> row[q].status]
             g == [q \in Sessions |-> row'[q].status]
  <2>1. /\ f = [q \in Sessions |-> f[q]] /\ g = [q \in Sessions |-> g[q]]
        /\ g[s] = r.status /\ \A q \in Sessions \ {s} : g[q] = f[q]
    BY <1>1
  <2> HIDE DEF f, g
  <2>2. g = [f EXCEPT ![s] = r.status]
    BY <2>1, ChangesAt
  <2> QED
    BY <2>2 DEF f, g
<1>3. [q \in Sessions |-> row'[q].recorded]
        = [[q \in Sessions |-> row[q].recorded] EXCEPT ![s] = r.recorded]
  <2> DEFINE f == [q \in Sessions |-> row[q].recorded]
             g == [q \in Sessions |-> row'[q].recorded]
  <2>1. /\ f = [q \in Sessions |-> f[q]] /\ g = [q \in Sessions |-> g[q]]
        /\ g[s] = r.recorded /\ \A q \in Sessions \ {s} : g[q] = f[q]
    BY <1>1
  <2> HIDE DEF f, g
  <2>2. g = [f EXCEPT ![s] = r.recorded]
    BY <2>1, ChangesAt
  <2> QED
    BY <2>2 DEF f, g
<1> QED
  BY <1>2, <1>3 DEF Lifecycle!Say

LEMMA UploadBecomes ==
    ASSUME UInv, NEW s \in Sessions, NEW u \in Upload, s3' = [s3 EXCEPT ![s] = u],
           UNCHANGED row
    PROVE  /\ Lifecycle!Move(s, s3[s].state, u.state)
           /\ [q \in Sessions |-> s3'[q].parts]
                 = [[q \in Sessions |-> s3[q].parts] EXCEPT ![s] = u.parts]
           /\ UNCHANGED <<[q \in Sessions |-> row[q].status],
                          [q \in Sessions |-> row[q].recorded]>>
<1>1. /\ s3'[s] = u /\ \A q \in Sessions \ {s} : s3'[q] = s3[q]
  BY DEF UInv, Types
<1>2. [q \in Sessions |-> s3'[q].state]
        = [[q \in Sessions |-> s3[q].state] EXCEPT ![s] = u.state]
  <2> DEFINE f == [q \in Sessions |-> s3[q].state]
             g == [q \in Sessions |-> s3'[q].state]
  <2>1. /\ f = [q \in Sessions |-> f[q]] /\ g = [q \in Sessions |-> g[q]]
        /\ g[s] = u.state /\ \A q \in Sessions \ {s} : g[q] = f[q]
    BY <1>1
  <2> HIDE DEF f, g
  <2>2. g = [f EXCEPT ![s] = u.state]
    BY <2>1, ChangesAt
  <2> QED
    BY <2>2 DEF f, g
<1>3. [q \in Sessions |-> s3'[q].parts]
        = [[q \in Sessions |-> s3[q].parts] EXCEPT ![s] = u.parts]
  <2> DEFINE f == [q \in Sessions |-> s3[q].parts]
             g == [q \in Sessions |-> s3'[q].parts]
  <2>1. /\ f = [q \in Sessions |-> f[q]] /\ g = [q \in Sessions |-> g[q]]
        /\ g[s] = u.parts /\ \A q \in Sessions \ {s} : g[q] = f[q]
    BY <1>1
  <2> HIDE DEF f, g
  <2>2. g = [f EXCEPT ![s] = u.parts]
    BY <2>1, ChangesAt
  <2> QED
    BY <2>2 DEF f, g
<1> QED
  BY <1>2, <1>3 DEF Lifecycle!Move

\* ... an upload that is opened or completed keeps its parts,
LEMMA UploadMoves ==
    ASSUME UInv, NEW s \in Sessions, NEW u \in Upload, s3' = [s3 EXCEPT ![s] = u],
           u.parts = s3[s].parts, UNCHANGED row
    PROVE  /\ Lifecycle!Move(s, s3[s].state, u.state)
           /\ UNCHANGED <<[q \in Sessions |-> row[q].status],
                          [q \in Sessions |-> row[q].recorded],
                          [q \in Sessions |-> s3[q].parts]>>
<1>1. /\ s3'[s] = u /\ \A q \in Sessions \ {s} : s3'[q] = s3[q]
  BY DEF UInv, Types
<1>2. [q \in Sessions |-> s3'[q].parts] = [q \in Sessions |-> s3[q].parts]
  BY <1>1
<1> QED
  BY <1>2, UploadBecomes

\* ... one that is aborted loses them.
LEMMA UploadStops ==
    ASSUME UInv, NEW s \in Sessions, s3[s].state = "open",
           s3' = [s3 EXCEPT ![s] = Discarded], UNCHANGED <<row, object>>
    PROVE  Lifecycle!Stop(s)
<1>1. PICK u \in Upload : u = Discarded
  BY DEF Discarded, Upload
<1>2. u.state = "aborted" /\ u.parts = {} /\ s3' = [s3 EXCEPT ![s] = u]
  BY <1>1 DEF Discarded
<1>3. /\ Lifecycle!Move(s, s3[s].state, u.state)
      /\ [q \in Sessions |-> s3'[q].parts]
            = [[q \in Sessions |-> s3[q].parts] EXCEPT ![s] = u.parts]
      /\ UNCHANGED <<[q \in Sessions |-> row[q].status],
                     [q \in Sessions |-> row[q].recorded]>>
  BY <1>2, UploadBecomes
<1>4. /\ Lifecycle!Move(s, "open", "aborted")
      /\ [q \in Sessions |-> s3'[q].parts]
            = [[q \in Sessions |-> s3[q].parts] EXCEPT ![s] = {}]
  BY <1>2, <1>3
<1> QED
  BY <1>3, <1>4 DEF Lifecycle!Stop

\* What clients see of a step: a step of the life cycle, or nothing.
Lives == [Lifecycle!Next]_(Lifecycle!lifecycleVars)

\* The attempt t may become new without a word to anybody.
Calm(t, new) ==
    /\ new \in Tab /\ Working(new, row)
    /\ new.pc = "create" => tab[t].pc = "create" /\ new.session = tab[t].session
    /\ new.session \in Sessions =>
          new.session = tab[t].session \/ row[new.session].status # "NONE"

\* Most steps of an attempt change neither rows nor uploads,
LEMMA TabLives ==
    ASSUME UInv, VInv, Registers, NEW t \in Tabs, NEW new, Calm(t, new), Become(t, new),
           UNCHANGED <<row, s3, object>>
    PROVE  Registers' /\ Lives
<1>1. Registers'
  <2>1. Working(new, row')
    BY DEF Calm
  <2> QED
    BY <2>1, RegistersKeeps DEF Calm
<1>2. UNCHANGED Lifecycle!lifecycleVars
  BY DEF Lifecycle!lifecycleVars
<1> QED
  BY <1>1, <1>2 DEF Lives

\* others write the row of their session, which has one already.
LEMMA RowLives ==
    ASSUME UInv, VInv, Registers, NEW t \in Tabs, NEW new \in Tab, Become(t, new),
           NEW s \in Sessions, s = tab[t].session, row[s].status # "NONE",
           new.session = s, new.pc # "create",
           NEW r \in Row, row' = [row EXCEPT ![s] = r], UNCHANGED <<s3, object>>,
           \/ /\ r.status = "IN_PROGRESS"
              /\ s3[s].state # "aborted" => r.recorded \subseteq s3[s].parts
           \/ r.status \in {"ABORTED", "FAILED"} /\ r.recorded = row[s].recorded
           \/ r.status = "COMPLETED" /\ r.recorded = Parts /\ s3[s].state = "completed"
    PROVE  Registers' /\ Lives
<1>1. \A q \in Sessions \ {s} : row'[q] = row[q]
  BY DEF UInv, Types
<1>2. Registers'
  <2>1. row'[s].status # "NONE"
    BY DEF UInv, Types
  <2>2. Working(new, row')
    BY <2>1 DEF Working
  <2> QED
    BY <1>1, <2>1, <2>2, RegistersKeeps
<1>3. Lifecycle!Say(s, r.status, r.recorded) /\ r.recorded \in SUBSET Parts
  BY RowSays DEF Row
<1>4. CASE /\ r.status = "IN_PROGRESS"
           /\ s3[s].state # "aborted" => r.recorded \subseteq s3[s].parts
  <2>1. Lifecycle!Report(s, r.recorded)
    BY <1>3, <1>4 DEF Lifecycle!Report
  <2> QED
    BY <1>2, <1>3, <2>1 DEF Lives, Lifecycle!Next
<1>5. CASE r.status \in {"ABORTED", "FAILED"} /\ r.recorded = row[s].recorded
  <2>1. Lifecycle!Settle(s, r.status)
    BY <1>3, <1>5 DEF Lifecycle!Settle, Lifecycle!Say
  <2> QED
    BY <1>2, <1>5, <2>1 DEF Lives, Lifecycle!Next
<1>6. CASE r.status = "COMPLETED" /\ r.recorded = Parts /\ s3[s].state = "completed"
  <2>1. Lifecycle!Confirm(s)
    BY <1>3, <1>6 DEF Lifecycle!Confirm
  <2> QED
    BY <1>2, <2>1 DEF Lives, Lifecycle!Next
<1> QED
  BY <1>4, <1>5, <1>6

\* Records that take up no other session.
LEMMA SameSession ==
    ASSUME UInv, VInv, Registers, NEW t \in Tabs
    PROVE  /\ Calm(t, Ended(t)) /\ Ended(t).session = tab[t].session /\ Ended(t).pc = "idle"
           /\ Calm(t, Caught(t)) /\ Caught(t).session = tab[t].session
           /\ Caught(t).pc \in {"idle", "stop"}
           /\ Calm(t, NoTab)
           /\ \A p \in Parts : tab[t].lane[p] # "idle" => Calm(t, LaneFails(t, p))
           /\ \A pc \in TabPcs \ {"create"} : Calm(t, [tab[t] EXCEPT !.pc = pc])
<1>1. tab[t] \in Tab /\ Working(tab[t], row)
  BY VFacts DEF Registers
<1>2. Calm(t, Ended(t)) /\ Ended(t).session = tab[t].session /\ Ended(t).pc = "idle"
  <2>1. /\ Ended(t) \in Tab /\ Ended(t).session = tab[t].session /\ Ended(t).pc = "idle"
        /\ Ended(t).lane = tab[t].lane
    BY <1>1 DEF Ended, Tab, TabPcs
  <2> QED
    BY <1>1, <2>1 DEF Calm, Working
<1>3. ASSUME NEW pc \in TabPcs \ {"create"} PROVE Calm(t, [tab[t] EXCEPT !.pc = pc])
  <2> DEFINE new == [tab[t] EXCEPT !.pc = pc]
  <2>1. new \in Tab /\ new.session = tab[t].session /\ new.lane = tab[t].lane /\ new.pc = pc
    BY <1>1 DEF Tab
  <2> HIDE DEF new
  <2>2. Calm(t, new)
    BY <1>1, <2>1 DEF Calm, Working
  <2> QED
    BY <2>2 DEF new
<1>4. /\ Calm(t, Caught(t)) /\ Caught(t).session = tab[t].session
      /\ Caught(t).pc \in {"idle", "stop"}
  <2>1. CASE tab[t].session = Null
    BY <1>2, <2>1 DEF Caught
  <2>2. CASE tab[t].session # Null
    <3>1. Caught(t) = [tab[t] EXCEPT !.pc = "stop"]
      BY <2>2 DEF Caught
    <3> QED
      BY <1>1, <1>3, <3>1 DEF Tab, TabPcs
  <2> QED
    BY <2>1, <2>2
<1>5. Calm(t, NoTab)
  <2>1. NoTab \in Tab /\ NoTab.session \notin Sessions /\ NoTab.pc = "idle"
    BY NoTabSound, UploadAssumption DEF NoTab
  <2> QED
    BY <2>1, IdleTab DEF Calm, Working
<1>6. ASSUME NEW p \in Parts, tab[t].lane[p] # "idle" PROVE Calm(t, LaneFails(t, p))
  <2> DEFINE new == LaneFails(t, p)
  <2>1. Lane(t, p, "failed") \in [Parts -> Lanes]
    BY <1>1 DEF Lane, Lanes, Tab
  <2>2. CASE tab[t].pc = "upload"
    <3>1. new = [tab[t] EXCEPT !.lane = Lane(t, p, "failed"), !.pc = "stop"]
      BY <2>2 DEF LaneFails
    <3>2. /\ new \in Tab /\ new.session = tab[t].session /\ new.pc = "stop"
          /\ row[tab[t].session].status # "NONE"
      BY <1>1, <1>6, <2>1, <3>1 DEF Tab, TabPcs, Working
    <3> HIDE DEF new
    <3>3. Calm(t, new)
      BY <3>2 DEF Calm, Working
    <3> QED
      BY <3>3 DEF new
  <2>3. CASE tab[t].pc # "upload"
    <3>1. new = [tab[t] EXCEPT !.lane = Lane(t, p, "failed")]
      BY <2>3 DEF LaneFails
    <3>2. /\ new \in Tab /\ new.session = tab[t].session /\ new.pc = tab[t].pc
          /\ row[tab[t].session].status # "NONE"
      BY <1>1, <1>6, <2>1, <3>1 DEF Tab, TabPcs, Working
    <3> HIDE DEF new
    <3>3. Calm(t, new)
      BY <3>2 DEF Calm, Working
    <3> QED
      BY <3>3 DEF new
  <2> QED
    BY <2>2, <2>3
<1> QED
  BY <1>2, <1>3, <1>4, <1>5, <1>6

-----------------------------------------------------------------------------
\* The actions, as clients see them.
LEMMA QuietLives ==
    ASSUME UInv, VInv, Registers, NEW t \in Tabs,
           \/ Start(t) \/ Recover(t) \/ Uploaded(t) \/ Cancel(t) \/ CallFails(t)
           \/ TabCloses(t)
           \/ \E p \in Parts : RecordRead(t, p) \/ LaneCallFails(t, p)
           \/ \E s \in Sessions : AbortListed(t, s)
    PROVE  Registers' /\ Lives
<1>1. /\ tab[t] \in Tab /\ Sound(tab[t], s3) /\ Working(tab[t], row)
      /\ UNCHANGED <<row, s3, object>>
  BY VFacts DEF Start, Recover, Uploaded, Cancel, CallFails, TabCloses, RecordRead,
     LaneCallFails, AbortListed, Registers
<1>2. ASSUME NEW new, Calm(t, new), Become(t, new) PROVE Registers' /\ Lives
  BY <1>1, <1>2, TabLives
<1>3. CASE Start(t)
  <2> DEFINE new == [NoTab EXCEPT !.pc = "recover"]
  <2>1. Become(t, new)
    BY <1>3 DEF Start
  <2>2. /\ new \in Tab /\ new.session \notin Sessions /\ new.pc = "recover"
        /\ new.lane = NoTab.lane
    <3>1. NoTab \in Tab /\ NoTab.session \notin Sessions
      BY NoTabSound, UploadAssumption DEF NoTab
    <3> QED
      BY <3>1 DEF Tab, TabPcs
  <2> HIDE DEF new
  <2>3. Calm(t, new)
    BY <2>2, IdleTab DEF Calm, Working
  <2> QED
    BY <1>2, <2>1, <2>3
<1>4. CASE Recover(t)
  <2>1. CASE Goto(t, "init")
    BY <1>2, <2>1, SameSession DEF Goto, TabPcs
  <2>2. ASSUME NEW s \in Recoverable,
               Become(t, [tab[t] EXCEPT
                  !.session = s, !.have = row[s].recorded,
                  !.pc = IF row[s].recorded = Parts THEN "complete" ELSE "sign"])
        PROVE  Registers' /\ Lives
    <3> DEFINE new == [tab[t] EXCEPT
                  !.session = s, !.have = row[s].recorded,
                  !.pc = IF row[s].recorded = Parts THEN "complete" ELSE "sign"]
    <3>1. s \in Sessions /\ row[s] \in Row /\ row[s].status # "NONE"
      BY VFacts DEF Recoverable
    <3>2. new \in Tab /\ new.session = s /\ new.pc # "create"
      BY <1>1, <3>1 DEF Tab, TabPcs, Row
    <3> HIDE DEF new
    <3>3. Calm(t, new)
      BY <3>1, <3>2 DEF Calm, Working
    <3>4. Become(t, new)
      BY <2>2 DEF new
    <3> QED
      BY <1>2, <3>3, <3>4
  <2> QED
    BY <1>4, <2>1, <2>2 DEF Recover
<1>5. CASE Uploaded(t)
  BY <1>2, <1>5, SameSession DEF Uploaded, Goto, TabPcs
<1>6. CASE Cancel(t)
  <2> DEFINE new == [tab[t] EXCEPT !.pc = "stop", !.canceled = TRUE,
          !.lane = [p \in Parts |-> IF @[p] = "todo" THEN "failed" ELSE @[p]]]
  <2>1. Become(t, new) /\ tab[t].pc = "upload"
    BY <1>6 DEF Cancel
  <2>2. new \in Tab /\ new.session = tab[t].session /\ new.pc = "stop"
    BY <1>1 DEF Tab, TabPcs, Lanes
  <2>3. row[tab[t].session].status # "NONE"
    BY <2>1, VFacts DEF Relies
  <2> HIDE DEF new
  <2>4. Calm(t, new)
    BY <2>2, <2>3 DEF Calm, Working
  <2> QED
    BY <1>2, <2>1, <2>4
<1>7. CASE CallFails(t)
  BY <1>2, <1>7, SameSession DEF CallFails
<1>8. CASE TabCloses(t)
  BY <1>2, <1>8, SameSession DEF TabCloses
<1>9. ASSUME NEW p \in Parts, LaneCallFails(t, p) PROVE Registers' /\ Lives
  <2>1. Become(t, LaneFails(t, p)) /\ tab[t].lane[p] # "idle"
    BY <1>9 DEF LaneCallFails
  <2>2. Calm(t, LaneFails(t, p))
    BY <2>1, SameSession
  <2> QED
    BY <1>2, <2>1, <2>2
<1>10. ASSUME NEW p \in Parts, RecordRead(t, p) PROVE Registers' /\ Lives
  <2> DEFINE s == tab[t].session
             new == [tab[t] EXCEPT !.lane = Lane(t, p, "seen"), !.seen[p] = row[s].recorded]
  <2>1. tab[t].lane[p] # "idle"
    BY <1>10 DEF RecordRead
  <2>2. CASE Become(t, LaneFails(t, p))
    <3>1. Calm(t, LaneFails(t, p))
      BY <2>1, SameSession
    <3> QED
      BY <1>2, <2>2, <3>1
  <2>3. CASE Become(t, new)
    <3>1. /\ s \in Sessions /\ row[s].recorded \in SUBSET Parts
          /\ row[s].status # "NONE"
      BY <1>1, <2>1, VFacts DEF Sound, Row, Working
    <3>2. new \in Tab /\ new.session = s /\ new.pc = tab[t].pc
      BY <1>1, <3>1 DEF Tab, Lane, Lanes
    <3> HIDE DEF new
    <3>3. Calm(t, new)
      BY <3>1, <3>2 DEF Calm, Working
    <3> QED
      BY <1>2, <2>3, <3>3
  <2> QED
    BY <1>10, <2>2, <2>3 DEF RecordRead
<1>11. ASSUME NEW s \in Sessions, AbortListed(t, s) PROVE Registers' /\ Lives
  <2> DEFINE new == [NoTab EXCEPT !.pc = "stop", !.session = s, !.canceled = TRUE]
  <2>1. Become(t, new) /\ row[s].status # "NONE"
    BY <1>11 DEF AbortListed, Listed
  <2>2. new \in Tab /\ new.session = s /\ new.pc = "stop"
    <3>1. NoTab \in Tab
      BY NoTabSound
    <3> QED
      BY <3>1 DEF Tab, TabPcs
  <2> HIDE DEF new
  <2>3. Calm(t, new)
    BY <2>1, <2>2 DEF Calm, Working
  <2> QED
    BY <1>2, <2>1, <2>3
<1> QED
  BY <1>3, <1>4, <1>5, <1>6, <1>7, <1>8, <1>9, <1>10, <1>11

LEMMA InitUploadLives ==
    ASSUME UInv, VInv, Registers, NEW t \in Tabs, InitUpload(t) PROVE Registers' /\ Lives
<1> DEFINE free == {s \in Sessions : s3[s].state = "none"}
<1>1. /\ tab[t] \in Tab /\ UNCHANGED <<row, object>>
      /\ \A p \in Parts : tab[t].lane[p] = "idle"
  BY VFacts DEF InitUpload, Sound
<1>2. CASE free = {}
  <2>1. Become(t, Ended(t)) /\ UNCHANGED s3
    BY <1>2 DEF InitUpload
  <2>2. Calm(t, Ended(t))
    BY SameSession
  <2> QED
    BY <1>1, <2>1, <2>2, TabLives
<1>3. CASE free # {}
  <2>1. PICK s \in free : /\ s3' = [s3 EXCEPT ![s].state = "open"]
                          /\ Become(t, [tab[t] EXCEPT !.pc = "create", !.session = s])
    BY <1>3 DEF InitUpload
  <2>2. s \in Sessions /\ s3[s].state = "none" /\ s3[s] \in Upload
    BY VFacts
  <2> DEFINE new == [tab[t] EXCEPT !.pc = "create", !.session = s]
  <2>3. PICK up \in Upload : up = [s3[s] EXCEPT !.state = "open"]
    BY <2>2 DEF Upload
  <2>4. /\ up.parts = s3[s].parts /\ up.state = "open" /\ s3' = [s3 EXCEPT ![s] = up]
    BY <2>1, <2>2, <2>3 DEF Upload
  <2>5. new \in Tab /\ new.pc = "create" /\ new.session = s /\ new.lane = tab[t].lane
    BY <1>1, <2>2 DEF Tab, TabPcs
  <2>6. Become(t, new)
    BY <2>1
  <2> HIDE DEF new
  <2>7. Registers'
    <3>1. Working(new, row')
      BY <1>1, <2>5 DEF Working
    <3> QED
      BY <1>1, <2>2, <2>5, <2>6, <3>1, RegistersKeeps
  <2>8. /\ Lifecycle!Move(s, s3[s].state, up.state)
        /\ UNCHANGED <<[q \in Sessions |-> row[q].status],
                       [q \in Sessions |-> row[q].recorded],
                       [q \in Sessions |-> s3[q].parts]>>
    BY <1>1, <2>2, <2>4, UploadMoves
  <2>9. Lifecycle!Move(s, "none", "open")
    BY <2>2, <2>4, <2>8 DEF Lifecycle!Move
  <2>10. Lifecycle!Open(s)
    BY <1>1, <2>8, <2>9 DEF Lifecycle!Open
  <2> QED
    BY <2>2, <2>7, <2>10 DEF Lives, Lifecycle!Next
<1> QED
  BY <1>2, <1>3

LEMMA CreateRowLives ==
    ASSUME UInv, VInv, Registers, NEW t \in Tabs, CreateRow(t) PROVE Registers' /\ Lives
<1> DEFINE n == 1 + Cardinality({q \in Sessions : row[q].status # "NONE"})
           new == [tab[t] EXCEPT !.pc = "sign"]
<1>1. PICK s \in Sessions : s = tab[t].session
  BY VFacts DEF CreateRow, Sound
<1>2. /\ tab[t] \in Tab /\ tab[t].pc = "create"
      /\ row[s].status = "NONE" /\ s3[s].state # "none"
  BY <1>1, VFacts DEF CreateRow, Relies, Registers
<1>3. n \in Nat
  <2> DEFINE Q == {q \in Sessions : row[q].status # "NONE"}
  <2>1. Q \in SUBSET Sessions
    OBVIOUS
  <2> HIDE DEF Q
  <2>2. Cardinality(Q) \in Nat
    BY <2>1, UploadAssumption, FS_Subset, FS_CardinalityType
  <2> QED
    BY <2>2 DEF Q
<1>4. /\ row' = [row EXCEPT ![s] = [NoRow EXCEPT !.status = "INITIATED", !.created = n]]
      /\ Become(t, new) /\ UNCHANGED <<s3, object>>
  BY <1>1 DEF CreateRow, Goto
<1> HIDE DEF n
<1>5. PICK r \in Row : r = [NoRow EXCEPT !.status = "INITIATED", !.created = n]
  BY <1>3, FreshRow
<1>6. r.status = "INITIATED" /\ r.recorded = {}
  BY <1>3, <1>5, FreshRow
<1>7. row' = [row EXCEPT ![s] = r]
  BY <1>4, <1>5
<1>8. new \in Tab /\ new.session = s /\ new.pc = "sign"
  BY <1>1, <1>2 DEF Tab, TabPcs
<1> HIDE DEF new
<1>9. row'[s] = r /\ \A q \in Sessions \ {s} : row'[q] = row[q]
  BY <1>7 DEF UInv, Types
<1>10. Registers'
  <2>1. Working(new, row')
    BY <1>6, <1>8, <1>9 DEF Working
  <2> QED
    BY <1>1, <1>4, <1>6, <1>8, <1>9, <2>1, RegistersKeeps
<1>11. Lifecycle!Say(s, r.status, r.recorded)
  BY <1>4, <1>7, RowSays
<1>12. Lifecycle!Say(s, "INITIATED", {})
  BY <1>6, <1>11 DEF Lifecycle!Say
<1>13. Lifecycle!Register(s)
  BY <1>2, <1>12 DEF Lifecycle!Register
<1> QED
  BY <1>10, <1>13 DEF Lives, Lifecycle!Next

LEMMA SignPartsLives ==
    ASSUME UInv, VInv, Registers, NEW t \in Tabs, SignParts(t) PROVE Registers' /\ Lives
<1>1. PICK s \in Sessions : s = tab[t].session
  BY VFacts DEF SignParts, Sound
<1>2. /\ tab[t] \in Tab /\ row[s] \in Row /\ row[s].status # "NONE"
      /\ s3[s].state # "aborted" => row[s].recorded \subseteq s3[s].parts
      /\ UNCHANGED <<s3, object>>
  BY <1>1, VFacts, Facts DEF SignParts, Relies
<1>3. CASE Become(t, Caught(t)) /\ UNCHANGED row
  <2>1. Calm(t, Caught(t))
    BY SameSession
  <2> QED
    BY <1>2, <1>3, <2>1, TabLives
<1>4. CASE ~(Become(t, Caught(t)) /\ UNCHANGED row)
  <2> DEFINE new == [tab[t] EXCEPT !.pc = "upload",
                !.lane = [p \in Parts |-> IF p \in tab[t].have THEN "idle" ELSE "todo"]]
  <2>1. /\ Become(t, new)
        /\ row' = [row EXCEPT ![s].status = "IN_PROGRESS", ![s].abortFailed = FALSE]
    BY <1>1, <1>4 DEF SignParts
  <2>2. new \in Tab /\ new.session = s /\ new.pc # "create"
    BY <1>1, <1>2 DEF Tab, TabPcs, Lanes
  <2> HIDE DEF new
  <2>3. PICK r \in Row : r = [row[s] EXCEPT !.status = "IN_PROGRESS", !.abortFailed = FALSE]
    BY <1>2 DEF Row, RowStatuses
  <2>4. /\ row' = [row EXCEPT ![s] = r] /\ r.status = "IN_PROGRESS"
        /\ s3[s].state # "aborted" => r.recorded \subseteq s3[s].parts
    BY <1>2, <2>1, <2>3 DEF Row
  <2>5. Become(t, new) /\ row[s].status # "NONE" /\ UNCHANGED <<s3, object>>
    BY <1>2, <2>1
  <2> QED
    BY <1>1, <2>2, <2>4, <2>5, RowLives
<1> QED
  BY <1>3, <1>4

\* A part that joins an upload.
LEMMA PartJoins ==
    ASSUME UInv, NEW s \in Sessions, NEW p \in Parts,
           s3' = [s3 EXCEPT ![s].parts = @ \cup {p}], s3[s].state = "open",
           UNCHANGED <<row, object>>
    PROVE  Lifecycle!Store(s, p)
<1>1. \A q \in Sessions : s3[q] \in Upload /\ s3'[q].state = s3[q].state
  BY DEF UInv, Types, Upload
<1>2. /\ s3'[s].parts = s3[s].parts \cup {p}
      /\ \A q \in Sessions \ {s} : s3'[q].parts = s3[q].parts
  BY <1>1 DEF UInv, Types, Upload
<1>3. [q \in Sessions |-> s3'[q].state] = [q \in Sessions |-> s3[q].state]
  BY <1>1
<1>4. [q \in Sessions |-> s3'[q].parts]
        = [[q \in Sessions |-> s3[q].parts] EXCEPT ![s] = s3[s].parts \cup {p}]
  <2> DEFINE f == [q \in Sessions |-> s3[q].parts]
             g == [q \in Sessions |-> s3'[q].parts]
  <2>1. /\ f = [q \in Sessions |-> f[q]] /\ g = [q \in Sessions |-> g[q]]
        /\ g[s] = s3[s].parts \cup {p} /\ \A q \in Sessions \ {s} : g[q] = f[q]
    BY <1>2
  <2> HIDE DEF f, g
  <2>2. g = [f EXCEPT ![s] = s3[s].parts \cup {p}]
    BY <2>1, ChangesAt
  <2> QED
    BY <2>2 DEF f, g
<1> QED
  BY <1>3, <1>4 DEF Lifecycle!Store

LEMMA PutPartLives ==
    ASSUME UInv, VInv, Registers, NEW t \in Tabs, NEW p \in Parts, PutPart(t, p)
    PROVE  Registers' /\ Lives
<1>1. PICK s \in Sessions : s = tab[t].session
  BY VFacts DEF PutPart, Sound
<1>2. /\ tab[t] \in Tab /\ tab[t].lane[p] = "todo" /\ Working(tab[t], row)
      /\ row[s].status # "NONE" /\ UNCHANGED <<row, object>>
  BY <1>1, VFacts DEF PutPart, Registers, Working
<1>3. CASE Become(t, LaneFails(t, p)) /\ UNCHANGED s3
  <2>1. Calm(t, LaneFails(t, p))
    BY <1>2, SameSession
  <2> QED
    BY <1>2, <1>3, <2>1, TabLives
<1>4. CASE ~(Become(t, LaneFails(t, p)) /\ UNCHANGED s3)
  <2> DEFINE new == [tab[t] EXCEPT !.lane = Lane(t, p, "stored"),
                       !.have = IF tab[t].pc = "upload" THEN @ \cup {p} ELSE @]
  <2>1. /\ s3' = [s3 EXCEPT ![s].parts = @ \cup {p}] /\ Become(t, new)
        /\ s3[s].state = "open"
    BY <1>1, <1>4 DEF PutPart
  <2>2. new \in Tab /\ new.session = s /\ new.pc = tab[t].pc
    BY <1>1, <1>2 DEF Tab, Lanes, Lane
  <2> HIDE DEF new
  <2>3. Registers'
    <3>1. Working(new, row')
      BY <1>2, <2>2 DEF Working
    <3> QED
      BY <1>1, <1>2, <2>1, <2>2, <3>1, RegistersKeeps
  <2>4. Lifecycle!Store(s, p)
    BY <1>2, <2>1, PartJoins
  <2> QED
    BY <2>3, <2>4 DEF Lives, Lifecycle!Next
<1> QED
  BY <1>3, <1>4

LEMMA RecordWriteLives ==
    ASSUME UInv, VInv, Registers, NEW t \in Tabs, NEW p \in Parts, RecordWrite(t, p)
    PROVE  Registers' /\ Lives
<1> DEFINE new == [tab[t] EXCEPT !.lane = Lane(t, p, "done"), !.seen[p] = {}]
<1>1. PICK s \in Sessions : s = tab[t].session
  BY VFacts DEF RecordWrite, Sound
<1>2. /\ tab[t] \in Tab /\ tab[t].lane[p] = "seen" /\ row[s] \in Row
      /\ row[s].status # "NONE" /\ UNCHANGED <<s3, object>>
      /\ s3[s].state # "aborted" => (tab[t].seen[p] \cup {p}) \subseteq s3[s].parts
  BY <1>1, VFacts DEF RecordWrite, Registers, Working, Sound
<1>3. tab[t].pc # "create"
  BY <1>1, <1>2 DEF Registers
<1>4. /\ row' = [row EXCEPT ![s].status = "IN_PROGRESS", ![s].recorded = tab[t].seen[p] \cup {p}]
      /\ Become(t, new)
  BY <1>1 DEF RecordWrite
<1>5. new \in Tab /\ new.session = s /\ new.pc # "create"
  BY <1>1, <1>2, <1>3 DEF Tab, Lanes, Lane
<1> HIDE DEF new
<1>6. PICK r \in Row :
         r = [row[s] EXCEPT !.status = "IN_PROGRESS", !.recorded = tab[t].seen[p] \cup {p}]
  BY <1>2 DEF Row, RowStatuses, Tab
<1>7. /\ row' = [row EXCEPT ![s] = r] /\ r.status = "IN_PROGRESS"
      /\ s3[s].state # "aborted" => r.recorded \subseteq s3[s].parts
  BY <1>2, <1>4, <1>6 DEF Row
<1>8. Become(t, new) /\ row[s].status # "NONE" /\ UNCHANGED <<s3, object>>
  BY <1>2, <1>4
<1> QED
  BY <1>1, <1>5, <1>7, <1>8, RowLives

LEMMA CompleteUploadLives ==
    ASSUME UInv, VInv, Registers, NEW t \in Tabs, CompleteUpload(t)
    PROVE  Registers' /\ Lives
<1>1. PICK s \in Sessions : s = tab[t].session
  BY VFacts DEF CompleteUpload, Sound
<1>2. /\ tab[t] \in Tab /\ tab[t].have = Parts /\ s3[s] \in Upload
      /\ row[s].status # "NONE" /\ UNCHANGED row
  BY <1>1, VFacts DEF CompleteUpload, Relies, Whole
<1>3. CASE Become(t, Caught(t)) /\ UNCHANGED <<s3, object>>
  <2>1. Calm(t, Caught(t))
    BY SameSession
  <2> QED
    BY <1>2, <1>3, <2>1, TabLives
<1>4. CASE ~(Become(t, Caught(t)) /\ UNCHANGED <<s3, object>>)
  <2> DEFINE new == [tab[t] EXCEPT !.pc = "completed"]
  <2>1. /\ Assembles(t) /\ s3' = [s3 EXCEPT ![s].state = "completed"]
        /\ object' = Parts /\ Become(t, new)
    BY <1>1, <1>2, <1>4 DEF CompleteUpload, Goto
  <2>2. s3[s].state = "open" /\ s3[s].parts = Parts
    <3>1. s3[s].state = "open" /\ Parts \subseteq s3[s].parts
      BY <1>1, <1>2, <2>1 DEF Assembles
    <3>2. s3[s].parts \subseteq Parts
      BY <1>2 DEF Upload
    <3> QED
      BY <3>1, <3>2
  <2>3. new \in Tab /\ new.session = s /\ new.pc = "completed"
    BY <1>1, <1>2 DEF Tab, TabPcs
  <2> HIDE DEF new
  <2>4. Registers'
    <3>1. Working(new, row')
      BY <1>2, <2>3 DEF Working
    <3> QED
      BY <1>1, <1>2, <2>1, <2>3, <3>1, RegistersKeeps
  <2>5. PICK up \in Upload : up = [s3[s] EXCEPT !.state = "completed"]
    BY <1>2 DEF Upload
  <2>6. /\ up.parts = s3[s].parts /\ up.state = "completed" /\ s3' = [s3 EXCEPT ![s] = up]
    BY <1>2, <2>1, <2>5 DEF Upload
  <2>7. /\ Lifecycle!Move(s, s3[s].state, up.state)
        /\ UNCHANGED <<[q \in Sessions |-> row[q].status],
                       [q \in Sessions |-> row[q].recorded],
                       [q \in Sessions |-> s3[q].parts]>>
    BY <1>2, <2>6, UploadMoves
  <2>8. Lifecycle!Move(s, "open", "completed")
    BY <2>2, <2>6, <2>7 DEF Lifecycle!Move
  <2>9. Lifecycle!Complete(s)
    BY <2>1, <2>2, <2>7, <2>8 DEF Lifecycle!Complete
  <2> QED
    BY <2>4, <2>9 DEF Lives, Lifecycle!Next
<1> QED
  BY <1>3, <1>4

LEMMA CompleteRowLives ==
    ASSUME UInv, VInv, Registers, NEW t \in Tabs, CompleteRow(t) PROVE Registers' /\ Lives
<1>1. PICK s \in Sessions : s = tab[t].session
  BY VFacts DEF CompleteRow, Sound
<1>2. /\ tab[t] \in Tab /\ tab[t].have = Parts /\ row[s] \in Row /\ row[s].status # "NONE"
      /\ s3[s].state = "completed" /\ UNCHANGED <<s3, object>>
  BY <1>1, VFacts DEF CompleteRow, Relies, Whole, Sound
<1>3. PICK new \in {Ended(t), Caught(t)} : Become(t, new)
  BY DEF CompleteRow
<1>4. new \in Tab /\ new.session = s /\ new.pc # "create"
  BY <1>1, <1>3, SameSession DEF Calm
<1>5. row' = [row EXCEPT ![s].status = "COMPLETED", ![s].recorded = Parts,
                         ![s].abortFailed = FALSE]
  BY <1>1, <1>2 DEF CompleteRow
<1>6. PICK r \in Row : r = [row[s] EXCEPT !.status = "COMPLETED", !.recorded = Parts,
                                          !.abortFailed = FALSE]
  BY <1>2 DEF Row, RowStatuses
<1>7. row' = [row EXCEPT ![s] = r] /\ r.status = "COMPLETED" /\ r.recorded = Parts
  BY <1>2, <1>5, <1>6 DEF Row
<1>8. Become(t, new) /\ row[s].status # "NONE" /\ UNCHANGED <<s3, object>>
  BY <1>2, <1>3
<1>9. s3[s].state = "completed"
  BY <1>2
<1> QED
  BY <1>1, <1>4, <1>7, <1>8, <1>9, RowLives

LEMMA StopUploadLives ==
    ASSUME UInv, VInv, Registers, NEW t \in Tabs, StopUpload(t) PROVE Registers' /\ Lives
<1>1. PICK s \in Sessions : s = tab[t].session
  BY VFacts DEF StopUpload, Sound
<1>2. /\ tab[t] \in Tab /\ s3[s] \in Upload /\ row[s].status # "NONE"
      /\ UNCHANGED <<row, object>>
  BY <1>1, VFacts DEF StopUpload, Relies
<1>3. CASE Become(t, Ended(t)) /\ UNCHANGED s3
  <2>1. Calm(t, Ended(t))
    BY SameSession
  <2> QED
    BY <1>2, <1>3, <2>1, TabLives
<1>4. CASE AbortUpload(s) /\ Goto(t, "stopped")
  <2> DEFINE new == [tab[t] EXCEPT !.pc = "stopped"]
  <2>1. /\ s3[s].state = "open" /\ s3' = [s3 EXCEPT ![s] = Discarded]
        /\ Become(t, new)
    BY <1>4 DEF AbortUpload, Goto
  <2>2. new \in Tab /\ new.session = s /\ new.pc = "stopped"
    BY <1>1, <1>2 DEF Tab, TabPcs
  <2> HIDE DEF new
  <2>3. Registers'
    <3>1. Working(new, row')
      BY <1>2, <2>2 DEF Working
    <3> QED
      BY <1>1, <1>2, <2>1, <2>2, <3>1, RegistersKeeps
  <2>4. Lifecycle!Stop(s)
    BY <1>2, <2>1, UploadStops
  <2> QED
    BY <2>3, <2>4 DEF Lives, Lifecycle!Next
<1>5. CASE Become(t, [tab[t] EXCEPT !.pc = "stopped", !.abortFailed = TRUE]) /\ UNCHANGED s3
  <2> DEFINE new == [tab[t] EXCEPT !.pc = "stopped", !.abortFailed = TRUE]
  <2>1. new \in Tab /\ new.session = s /\ new.pc = "stopped"
    BY <1>1, <1>2 DEF Tab, TabPcs
  <2>2. Become(t, new)
    BY <1>5
  <2> HIDE DEF new
  <2>3. Calm(t, new)
    BY <1>1, <1>2, <2>1 DEF Calm, Working
  <2> QED
    BY <1>2, <1>5, <2>2, <2>3, TabLives
<1> QED
  BY <1>1, <1>3, <1>4, <1>5 DEF StopUpload

LEMMA StopRowLives ==
    ASSUME UInv, VInv, Registers, NEW t \in Tabs, StopRow(t) PROVE Registers' /\ Lives
<1> DEFINE st == IF tab[t].canceled THEN "ABORTED" ELSE "FAILED"
           noted == tab[t].canceled /\ tab[t].abortFailed
<1>1. PICK s \in Sessions : s = tab[t].session
  BY VFacts DEF StopRow, Sound
<1>2. /\ tab[t] \in Tab /\ noted \in BOOLEAN
      /\ row[s] \in Row /\ row[s].status # "NONE"
      /\ Become(t, Ended(t)) /\ UNCHANGED <<s3, object>>
  BY <1>1, VFacts DEF StopRow, Relies, Tab
<1>3. Ended(t) \in Tab /\ Ended(t).session = s /\ Ended(t).pc # "create"
  BY <1>1, SameSession DEF Calm
<1>4. row' = [row EXCEPT ![s].status = st, ![s].abortFailed = noted]
  BY <1>1 DEF StopRow
<1>5. st \in {"ABORTED", "FAILED"}
  OBVIOUS
<1> HIDE DEF st, noted
<1>6. PICK r \in Row : r = [row[s] EXCEPT !.status = st, !.abortFailed = noted]
  BY <1>2, <1>5 DEF Row, RowStatuses
<1>7. /\ row' = [row EXCEPT ![s] = r] /\ r.status \in {"ABORTED", "FAILED"}
      /\ r.recorded = row[s].recorded
  BY <1>2, <1>4, <1>5, <1>6 DEF Row
<1>8. Become(t, Ended(t)) /\ row[s].status # "NONE" /\ UNCHANGED <<s3, object>>
  BY <1>2
<1> QED
  BY <1>1, <1>3, <1>7, <1>8, RowLives

\* A step of no attempt.
LEMMA OtherRegisters ==
    ASSUME UInv, Registers, UNCHANGED tab,
           \A s \in Sessions : (row[s].status = "NONE") <=> (row'[s].status = "NONE")
    PROVE  Registers'
<1>1. \A t \in Tabs : Sound(tab[t], s3)
  BY DEF UInv
<1>2. ASSUME NEW t \in Tabs PROVE Working(tab[t], row')
  BY <1>1 DEF Registers, Working, Sound
<1>3. \A t \in Tabs : tab[t].pc = "create" => row'[tab[t].session].status = "NONE"
  BY <1>1 DEF Registers, Sound
<1> QED
  BY <1>2, <1>3 DEF Registers

LEMMA ExpireLives ==
    ASSUME UInv, VInv, Registers, NEW s \in Sessions, Expire(s) PROVE Registers' /\ Lives
<1>1. \A q \in Sessions : row[q] \in Row
  BY VFacts
<1>2. \A q \in Sessions : /\ row'[q].status = row[q].status
                          /\ row'[q].recorded = row[q].recorded
  BY <1>1 DEF Expire, UInv, Types, Row
<1>3. Registers'
  BY <1>2, OtherRegisters DEF Expire
<1>4. UNCHANGED Lifecycle!lifecycleVars
  BY <1>2 DEF Expire, Lifecycle!lifecycleVars
<1> QED
  BY <1>3, <1>4 DEF Lives

LEMMA CleanupItemLives ==
    ASSUME UInv, VInv, Registers, NEW s \in Sessions, CleanupItem(s)
    PROVE  Registers' /\ Lives
<1>1. row[s] \in Row /\ row[s].status # "NONE" /\ UNCHANGED <<s3, object, tab>>
  BY VFacts DEF CleanupItem, VInv
<1>2. PICK r \in Row : r = [row[s] EXCEPT !.status = "FAILED"]
  BY <1>1 DEF Row, RowStatuses
<1>3. /\ row' = [row EXCEPT ![s] = r] /\ r.status = "FAILED" /\ r.recorded = row[s].recorded
  BY <1>1, <1>2 DEF Row, CleanupItem
<1>4. row'[s] = r /\ \A q \in Sessions \ {s} : row'[q] = row[q]
  BY <1>3 DEF UInv, Types
<1>5. Registers'
  BY <1>1, <1>3, <1>4, OtherRegisters
<1>6. Lifecycle!Say(s, r.status, r.recorded)
  BY <1>1, <1>3, RowSays
<1>7. Lifecycle!Settle(s, "FAILED")
  BY <1>1, <1>3, <1>6 DEF Lifecycle!Settle, Lifecycle!Say
<1> QED
  BY <1>5, <1>7 DEF Lives, Lifecycle!Next

LEMMA StillLives ==
    ASSUME UInv, Registers, UNCHANGED <<row, s3, object, tab>> PROVE Registers' /\ Lives
<1>1. Registers'
  BY OtherRegisters
<1>2. UNCHANGED Lifecycle!lifecycleVars
  BY DEF Lifecycle!lifecycleVars
<1> QED
  BY <1>1, <1>2 DEF Lives

-----------------------------------------------------------------------------
LEMMA InitLives == Init => Registers /\ Lifecycle!Init
<1> SUFFICES ASSUME Init PROVE Registers /\ Lifecycle!Init
  OBVIOUS
<1>1. NoTab.pc = "idle"
  BY DEF NoTab
<1>2. Registers
  BY <1>1, IdleTab DEF Init, Registers, Working
<1>3. Lifecycle!Init
  BY DEF Init, NoRow, NoUpload, Lifecycle!Init
<1> QED
  BY <1>2, <1>3

LEMMA StepLives == UInv /\ VInv /\ Registers /\ [Next]_vars => Registers' /\ Lives
<1> SUFFICES ASSUME UInv, VInv, Registers, [Next]_vars PROVE Registers' /\ Lives
  OBVIOUS
<1>1. ASSUME NEW t \in Tabs, Step(t) PROVE Registers' /\ Lives
  BY <1>1, QuietLives, InitUploadLives, CreateRowLives, SignPartsLives,
     CompleteUploadLives, CompleteRowLives, StopUploadLives, StopRowLives, PutPartLives,
     RecordWriteLives DEF Step
<1>2. ASSUME NEW t \in Tabs,
             \/ Start(t) \/ Cancel(t) \/ CallFails(t) \/ TabCloses(t)
             \/ \E p \in Parts : LaneCallFails(t, p)
             \/ \E s \in Sessions : AbortListed(t, s)
      PROVE  Registers' /\ Lives
  BY <1>2, QuietLives
<1>3. ASSUME NEW s \in Sessions, Expire(s) \/ CleanupItem(s) PROVE Registers' /\ Lives
  BY <1>3, ExpireLives, CleanupItemLives
<1>4. CASE CleanupFind \/ UNCHANGED vars
  BY <1>4, StillLives DEF CleanupFind, vars
<1> QED
  BY <1>1, <1>2, <1>3, <1>4 DEF Next, Cleanup

\* The upload sessions implement their life cycle: in any interleaving of attempts,
\* reports read before another one was written or an abort discarded the parts,
\* expiry, cleanup and failures, each call to S3 and each write of a row is one of its
\* steps or tells clients nothing.
THEOREM UploadImplementsLifecycle == Spec => ImplementsUploadLifecycle
<1>1. Init => Lifecycle!Init
  BY InitLives
<1>2. Init => Registers
  BY InitLives
<1>3. UInv /\ VInv /\ Registers /\ [Next]_vars => Registers'
  BY StepLives
<1>4. UInv /\ VInv /\ Registers /\ [Next]_vars
         => [Lifecycle!Next]_(Lifecycle!lifecycleVars)
  BY StepLives DEF Lives
<1> QED
  BY InitUInv, StepUInv, InitVInv, StepVInv, <1>1, <1>2, <1>3, <1>4, PTL
     DEF Spec, ImplementsUploadLifecycle, Lifecycle!Spec

-----------------------------------------------------------------------------
\* The bounds of what the model counts.
Counted == failures \in 0..MaxFailures /\ attempts \in 0..MaxAttempts

LEMMA CountedKeeps == Counted /\ [Next]_vars => Counted'
<1> SUFFICES ASSUME Counted, [Next]_vars PROVE Counted'
  OBVIOUS
<1>1. MaxFailures \in Nat /\ MaxAttempts \in Nat
  BY UploadAssumption
<1>2. ASSUME NEW t \in Tabs, Step(t) \/ Cancel(t)
      PROVE  attempts' = attempts
             /\ (failures' = failures \/ (failures < MaxFailures /\ failures' = failures + 1))
  <2>1. CASE Cancel(t) \/ Recover(t) \/ InitUpload(t) \/ CreateRow(t) \/ SignParts(t)
             \/ Uploaded(t) \/ CompleteUpload(t) \/ StopRow(t)
    BY <2>1 DEF Cancel, Recover, InitUpload, CreateRow, SignParts, Uploaded, CompleteUpload,
         StopRow
  <2>2. CASE \E p \in Parts : PutPart(t, p) \/ RecordRead(t, p) \/ RecordWrite(t, p)
    BY <2>2 DEF PutPart, RecordRead, RecordWrite
  <2>3. CASE CompleteRow(t)
    BY <2>3 DEF CompleteRow
  <2>4. CASE StopUpload(t)
    BY <2>4 DEF StopUpload
  <2> QED
    BY <1>2, <2>1, <2>2, <2>3, <2>4 DEF Step
<1>3. ASSUME NEW t \in Tabs,
             CallFails(t) \/ TabCloses(t) \/ \E p \in Parts : LaneCallFails(t, p)
      PROVE  attempts' = attempts /\ failures < MaxFailures /\ failures' = failures + 1
  BY <1>3 DEF CallFails, TabCloses, LaneCallFails
<1>4. ASSUME NEW t \in Tabs, Start(t) \/ \E s \in Sessions : AbortListed(t, s)
      PROVE  attempts < MaxAttempts /\ attempts' = attempts + 1 /\ failures' = failures
  BY <1>4 DEF Start, AbortListed
<1>5. ASSUME Cleanup \/ (\E s \in Sessions : Expire(s)) \/ UNCHANGED vars
      PROVE  attempts' = attempts /\ failures' = failures
  BY <1>5 DEF Cleanup, CleanupFind, CleanupItem, Expire, vars
<1>6. \/ attempts' = attempts
         /\ (failures' = failures \/ (failures < MaxFailures /\ failures' = failures + 1))
      \/ attempts < MaxAttempts /\ attempts' = attempts + 1 /\ failures' = failures
  BY <1>2, <1>3, <1>4, <1>5 DEF Next
<1> QED
  BY <1>1, <1>6 DEF Counted

\* Types; an attempt that has got as far as its session's row has a session.
THEOREM TypeCorrect == Spec => []TypeOK
<1>1. Init => UInv /\ VInv /\ Counted
  <2>1. Init => Counted
    BY UploadAssumption DEF Init, Counted
  <2> QED
    BY <2>1, InitUInv, InitVInv
<1>2. UInv /\ VInv /\ Counted /\ [Next]_vars => (UInv /\ VInv /\ Counted)'
  BY StepUInv, StepVInv, CountedKeeps
<1>3. UInv /\ VInv /\ Counted => TypeOK
  <2> SUFFICES ASSUME UInv, VInv, Counted PROVE TypeOK
    OBVIOUS
  <2>1. Types /\ Counted
    BY DEF UInv
  <2>2. \A t \in Tabs : tab[t].pc \notin {"idle", "recover", "init"} => tab[t].session # Null
    BY UploadAssumption DEF UInv, Sound
  <2>3. object \in (SUBSET Parts) \cup {Null}
    <3>1. object = Null \/ object = Parts
      BY DEF VInv, ObjectIsWhole
    <3> QED
      BY <3>1
  <2> QED
    BY <2>1, <2>2, <2>3 DEF TypeOK, Types, Counted, Row, Upload, Tab
<1> QED
  BY <1>1, <1>2, <1>3, PTL DEF Spec
=============================================================================
