CONSTANTS
  NumJobs = 1
  JobType <- OneSync
  Workers = {w1, w2}
  Cancelers = {c1}
  Tokens = {t1, t2, t3, t4, t5, t6, t7, t8, t9}
  LockTTL = 1
  MaxDelay = 1
  Horizon = 3
  AttemptCap = 5
  LoopItems = 1
  RedisEnabled = TRUE
  MaxCrashes = 0
  MaxErrors = 0
  MaxLateErrors = 1
  MaxCancels = 0
  Null = Null
  MaxAttemptsOf <- MCMaxAttempts
  BaseBackoffOf <- MCBaseBackoff
  MaxBackoff = 2
SPECIFICATION Spec
INVARIANT OneTerminalEvent
