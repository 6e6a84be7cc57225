\* Definitions whose steps have a version of their own.
SPECIFICATION SyncSpec
CONSTANTS
  Processes = {p1}
  Workflows = {w1}
  Versions = {1, 2}
  NestedFields = TRUE
  MaxFiles = 2
  MaxBoots = 2
INVARIANTS
  SyncedWhileCalled
\* Starts are used up.
CHECK_DEADLOCK FALSE
