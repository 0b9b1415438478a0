CONSTANTS
  Tabs = {a}
  Parts = {1, 2}
  Sessions = {s1, s2}
  Concurrency = 2
  MaxFailures = 1
  MaxAttempts = 3
  Null = Null
SPECIFICATION Spec
INVARIANT ResumedIsOpen
CHECK_DEADLOCK FALSE
