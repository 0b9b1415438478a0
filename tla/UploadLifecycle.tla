--------------------------- MODULE UploadLifecycle ---------------------------
(***************************************************************************)
(* What the upload sessions promise to whoever sees their rows, S3 and the *)
(* object.  A session's multipart upload is opened once and ends once; the *)
(* object appears when an upload that has every part is completed, and at  *)
(* no other time; a row is written once for an upload that exists, says    *)
(* COMPLETED only when S3 has assembled the object, and records only parts *)
(* that are stored, until the upload is aborted: that takes the parts away *)
(* and not what the row records.  No tabs, lanes, stale reads or failures. *)
(***************************************************************************)
CONSTANTS
    Session,     \* the sessions
    Whole,       \* the parts of the file
    Nothing      \* no object

VARIABLES
    status,      \* upload_sessions.status, "NONE" before the row is written
    recorded,    \* the parts of upload_sessions.uploaded_parts
    upload,      \* state of the multipart upload in S3
    stored,      \* its parts
    object       \* the parts the object was assembled from

lifecycleVars == <<status, recorded, upload, stored, object>>

Init ==
    /\ status = [s \in Session |-> "NONE"] /\ recorded = [s \in Session |-> {}]
    /\ upload = [s \in Session |-> "none"] /\ stored = [s \in Session |-> {}]
    /\ object = Nothing

Move(s, from, to) == upload[s] = from /\ upload' = [upload EXCEPT ![s] = to]

Open(s) == Move(s, "none", "open") /\ UNCHANGED <<status, recorded, stored, object>>

\* An upload that is stopped loses its parts.
Stop(s) ==
    /\ Move(s, "open", "aborted")
    /\ stored' = [stored EXCEPT ![s] = {}]
    /\ UNCHANGED <<status, recorded, object>>

Complete(s) ==
    /\ stored[s] = Whole
    /\ Move(s, "open", "completed")
    /\ object' = Whole
    /\ UNCHANGED <<status, recorded, stored>>

Store(s, p) ==
    /\ upload[s] = "open"
    /\ stored' = [stored EXCEPT ![s] = @ \cup {p}]
    /\ UNCHANGED <<status, recorded, upload, object>>

Say(s, st, parts) ==
    /\ status' = [status EXCEPT ![s] = st]
    /\ recorded' = [recorded EXCEPT ![s] = parts]
    /\ UNCHANGED <<upload, stored, object>>

Register(s) == status[s] = "NONE" /\ upload[s] # "none" /\ Say(s, "INITIATED", {})

\* A session that was settled may be taken up again, a completed one, too, and a
\* report may come after the upload was stopped.
Report(s, parts) ==
    /\ status[s] # "NONE"
    /\ upload[s] # "aborted" => parts \subseteq stored[s]
    /\ Say(s, "IN_PROGRESS", parts)

Confirm(s) ==
    /\ status[s] # "NONE" /\ upload[s] = "completed"
    /\ Say(s, "COMPLETED", Whole)

Settle(s, st) == status[s] # "NONE" /\ Say(s, st, recorded[s])

Next ==
    \E s \in Session :
        \/ Open(s) \/ Stop(s) \/ Complete(s) \/ Register(s) \/ Confirm(s)
        \/ \E p \in Whole : Store(s, p)
        \/ \E parts \in SUBSET Whole : Report(s, parts)
        \/ \E st \in {"ABORTED", "FAILED"} : Settle(s, st)

Spec == Init /\ [][Next]_lifecycleVars
=============================================================================
