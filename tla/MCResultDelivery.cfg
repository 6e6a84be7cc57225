\* One result among the other sharers of its client, with every send and
\* resend the defaults of a small maxAttempts allow: three sends of up to two
\* tries, one connection more than sends, two closes by the owner.
SPECIFICATION FairSpec
CONSTANTS
  Results = {r1}
  ResultSends = 3
  MaxAttempts = 2
  MaxGenerations = 4
  MaxCloses = 2
INVARIANTS
  DeliveredWasTaken
  TakenAtMostSends
  NotGivenUpEarly
PROPERTIES
  DropsOnlyWhatFailed
  OwnerCloseEndsRedials
  LeavingEnds
  UsesConnection
\* The client may stay closed for good, every delivery ended.
CHECK_DEADLOCK FALSE
