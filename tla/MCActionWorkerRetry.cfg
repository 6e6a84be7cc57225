SPECIFICATION Spec
CONSTANTS
  Concurrency = 1
  Resent = {"register", "heartbeat"}
  LateReads = {}
  MaxOrphans = 1
INVARIANT NoGhost
