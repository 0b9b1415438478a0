CONSTANTS
  Processes = {api, worker}
  Requests = {admin}
  Instance <- DistinctInstances
  Tasks <- TwoTasks
  TaskEnabled <- TwoEnabled
  Interval <- TwoInterval
  LockTTL = 2
  MaxDelay = 1
  Horizon = 2
  ActiveCap = 2
  DirectTasks = {"upload_cleanup"}
  MaxFailures = 1
  MaxRequests = 1
  Null = Null
SPECIFICATION FairSpec
INVARIANTS SoleLeader OneActiveJob DueWhenEnqueued
PROPERTIES SuccessIsKept EveryTaskRecurs
