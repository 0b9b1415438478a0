CONSTANTS
  Tabs = {a, b}
  Parts = {1, 2}
  Sessions = {s1, s2}
  Concurrency = 2
  MaxFailures = 1
  MaxAttempts = 2
  Null = Null
SPECIFICATION Spec
SYMMETRY MCSymmetry
INVARIANTS RecordedIsStored CompletedIsAssembled OpenUploadsAreKnown
PROPERTIES ImplementsUploadLifecycle
CHECK_DEADLOCK FALSE
