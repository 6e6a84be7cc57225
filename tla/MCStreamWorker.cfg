\* Batches of up to two over one handler slot, two heartbeats out at once; a
\* registration, start()'s or a heartbeat's, is resent, a heartbeat's read late.
SPECIFICATION FairSpec
CONSTANTS
  Concurrency = 1
  BatchSize = 2
  Records = {1, 2}
  Resent = {"register", "reregister"}
  LateReads = {"reregister"}
  MaxBeats = 2
  MaxOrphans = 1
INVARIANTS
  TypeOK
  HeldOnce
PROPERTIES
  GhostsAreLate
  LeavingEnds
