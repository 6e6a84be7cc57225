\* Two calls of one client, of up to one, two or four tries each.
SPECIFICATION FairSpec
CONSTANTS
  Calls = {c1, c2}
  Configured <- MCConfigured
INVARIANTS
  AtMostOnce
  ResultIsTruth
  TriesBounded
PROPERTIES
  CallsEnd
  CallOnceSpec
\* Once every call has ended and nothing is on its way the client rests.
CHECK_DEADLOCK FALSE
