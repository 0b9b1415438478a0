----------------------------- MODULE MCFolderJobs -----------------------------
(* Values of the constants of FolderJobs for TLC. *)
EXTENDS FolderJobs

MCTarget == [k \in Under |-> k + 10]
=============================================================================
