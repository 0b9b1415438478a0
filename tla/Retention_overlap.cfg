CONSTANTS
  Runs = {r1, r2}
  j1 = j1
  e1 = e1
  e2 = e2
  Jobs = {j1}
  Events = {e1, e2}
  JobOf <- MCJobOf
  Logs = {l1}
  SecurityLogs = {l1}
  EventDays = 1
  TerminalDays = 1
  FailedDays = 2
  LogDays = 1
  SecurityDays = 1
  ArchiveEventDays = 2
  ArchiveLogDays = 1
  ArchiveSecurityDays = 2
  BatchSize = 1
  Modes = {"archive_and_prune", "hard_delete"}
  MaxLag = 1
  LastBirth = 2
  Horizon = 5
  MaxFailures = 1
SPECIFICATION FairSpec
INVARIANTS HotLongEnough HistoryKept NeverBoth
PROPERTIES ImplementsRecordLifecycle EventuallyGone
