--------------------------- MODULE RecordLifecycle ---------------------------
(***************************************************************************)
(* What retention promises to whoever reads the records.  A record is      *)
(* written once to its table and leaves it when it is old there, never to  *)
(* return.  Where records are archived it goes from the table into the     *)
(* archive in one step and is gone for good only when it is old for the    *)
(* archive, too.  A gone one may turn up in the archive again, for a       *)
(* while.  No runs, stages, batches or failures here.                      *)
(***************************************************************************)
CONSTANT Record

VARIABLES
    mode,      \* whether records are archived
    written,   \* the records there ever were
    live,      \* those in their table
    archived,  \* those in the archive
    old,       \* those whose table need not keep them any longer
    older      \* those nothing need keep any longer

recordVars == <<mode, written, live, archived, old, older>>

Init ==
    /\ mode \in {"archive_and_prune", "hard_delete"}
    /\ written = {} /\ live = {} /\ archived = {} /\ old = {} /\ older = {}

\* Records grow old, one perhaps as it is written.
Age == old \subseteq old' /\ older \subseteq older'

Wait == UNCHANGED <<mode, written, live, archived>> /\ Age

Write(x) ==
    /\ x \notin written
    /\ written' = written \cup {x} /\ live' = live \cup {x}
    /\ Age
    /\ UNCHANGED <<mode, archived>>

Archive(X) ==
    /\ mode = "archive_and_prune"
    /\ live' = live \ X /\ archived' = archived \cup X
    /\ X \subseteq old
    /\ UNCHANGED <<mode, written, old, older>>

Delete(X) ==
    /\ live' = live \ X
    /\ X \subseteq old /\ (mode = "archive_and_prune" => X \subseteq older)
    /\ UNCHANGED <<mode, written, archived, old, older>>

Purge(X) ==
    /\ archived' = archived \ X
    /\ X \subseteq older
    /\ UNCHANGED <<mode, written, live, old, older>>

Next ==
    \/ Wait
    \/ \E x \in Record : Write(x)
    \/ \E X \in SUBSET Record : Archive(X) \/ Delete(X) \/ Purge(X)

Spec == Init /\ [][Next]_recordVars
=============================================================================
