\* One result, and a request of another sharer that the server cannot parse.
SPECIFICATION Spec
CONSTANTS
  Results = {r1}
  ResultSends = 3
  MaxAttempts = 2
  MaxGenerations = 2
  MaxCloses = 1
INVARIANTS
  RefusedByTheServer
CHECK_DEADLOCK FALSE
