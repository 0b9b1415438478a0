----------------------------- MODULE MCJobQueue -----------------------------
(***************************************************************************)
(* Instances of JobQueue for TLC.  Times are in ticks: the lock TTL is one *)
(* tick, a retry waits one, and the cap of the backoff is two.             *)
(***************************************************************************)
EXTENDS JobQueue, TLC

MCMaxAttempts == [type \in RetryableTypes |-> 2]
MCBaseBackoff == [type \in RetryableTypes |-> 1]

\* The job mixes of the runs, oldest first.
OneSync           == <<"BUCKET_SYNC">>
OneDelete         == <<"FOLDER_DELETE">>
OneCleanup        == <<"UPLOAD_CLEANUP">>
DeleteThenSync    == <<"FOLDER_DELETE", "BUCKET_SYNC">>

WorkerSymmetry == Permutations(Workers)
=============================================================================
