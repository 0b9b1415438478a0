CONSTANTS
  Processes = {api, worker}
  Requests = {admin}
  Instance <- SameInstances
  Tasks <- TwoTasks
  TaskEnabled <- TwoEnabled
  Interval <- TwoInterval
  LockTTL = 2
  MaxDelay = 1
  Horizon = 2
  ActiveCap = 2
  DirectTasks = {}
  MaxFailures = 0
  MaxRequests = 1
  Null = Null
SPECIFICATION Spec
INVARIANTS SoleLeader
