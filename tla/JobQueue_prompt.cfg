CONSTANTS
  NumJobs = 1
  JobType <- OneSync
  Workers = {w1, w2}
  Cancelers = {c1}
  Tokens = {t1, t2, t3, t4, t5, t6, t7, t8, t9}
  LockTTL = 2
  MaxDelay = 2
  Horizon = 5
  AttemptCap = 5
  LoopItems = 2
  RedisEnabled = FALSE
  MaxCrashes = 1
  MaxErrors = 1
  MaxLateErrors = 1
  MaxCancels = 1
  Null = Null
  MaxAttemptsOf <- MCMaxAttempts
  BaseBackoffOf <- MCBaseBackoff
  MaxBackoff = 2
SPECIFICATION Spec
SYMMETRY WorkerSymmetry
INVARIANTS SoleExecutor ExcessAttemptsNeedFaults ObservedCancelIsKept
