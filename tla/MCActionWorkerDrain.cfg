SPECIFICATION Spec
CONSTANTS
  Concurrency = 1
  Resent = {}
  LateReads = {}
  MaxOrphans = 1
INVARIANT DrainTold
