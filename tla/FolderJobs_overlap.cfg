CONSTANTS
  Runs = {r1, r2}
  Under = {1, 2, 3}
  Files = {2}
  Target <- MCTarget
  PageSize = 2
  Concurrency = 2
  MaxStarts = 3
  MaxWrites = 1
  MaxFailures = 1
SPECIFICATION FairSpec
INVARIANTS NothingLost DoneOrReported
PROPERTIES EveryRunEnds
CHECK_DEADLOCK FALSE
