\* One handler slot; registrations and heartbeats resent, registrations read
\* late.
SPECIFICATION FairSpec
CONSTANTS
  Concurrency = 1
  Resent = {"register", "heartbeat"}
  LateReads = {"register"}
  MaxOrphans = 0
INVARIANTS
  TypeOK
PROPERTIES
  GhostsAreLate
  StopEnds
  DrainEnds
