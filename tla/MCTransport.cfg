\* Two callers, two requests, three dials and one close, with the timers'
\* fairness. No symmetry: some of the properties are temporal.
SPECIFICATION FairSpec
CONSTANTS
  Requests = {r1, r2}
  Callers = {c1, c2}
  MaxDials = 3
  MaxCloses = 1
INVARIANTS
  TypeOK
  InFlightIsAccounted
  OneSocket
  GenerationNamesOne
PROPERTIES
  LostOnlyWithItsSocket
  RedialDropsOnlySeen
  EveryCallSettles
  ConnectionSpec
\* A client at rest whose bounds are used up stops.
CHECK_DEADLOCK FALSE
