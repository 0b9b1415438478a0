----------------------- MODULE MCMaintenanceScheduler -----------------------
(* Values of the constants of MaintenanceScheduler for TLC. *)
EXTENDS MaintenanceScheduler, TLC

\* Processes with names of their own, and two containers whose main process
\* has the same pid.
DistinctInstances == [r \in Runners |-> r]
SameInstances     == [r \in Runners |-> IF r \in Processes THEN "scheduler-1" ELSE r]

\* One task on the schedule, and one that is switched off but has an endpoint.
TwoTasks    == <<"bucket_sync", "upload_cleanup">>
TwoEnabled  == "bucket_sync" :> TRUE @@ "upload_cleanup" :> FALSE
TwoInterval == "bucket_sync" :> 1 @@ "upload_cleanup" :> 1
=============================================================================
