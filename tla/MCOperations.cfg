\* The wire at radix 4; up to four keys of up to three bytes, frames of eight;
\* four calls on a transaction; two processes and two workflows, three starts;
\* a task of fourteen ticks, with leases below, at and above the longest; a
\* request and answers under no id, two frames on the wire at once, one altered,
\* frames of up to nine cells in up to three chunks.
SPECIFICATION Spec
CONSTANTS
  RADIX = 4
  MAX_VALUE_SIZE = 110
  MAX_BLOCK_MS = 30
  AWAIT_BLOCK_MS = 9
  MAX_BODY = 6
  MAX_SHORT = 3
  MAX_COUNT = 2
  LongKeys = FALSE
  Tried <- Args
  Values <- SomeValues
  Bodies <- SomeBodies
  Refusals <- SomeRefusals
  MAX_MGET_KEYS = 4
  MAX_MGET_KEY = 3
  MAX_MGET_KEYS_BYTES = 8
  TxnCalls = {c1, c2, c3, c4}
  Processes = {p1, p2}
  Workflows = {w1, w2}
  Versions = {1, 2}
  NestedFields = FALSE
  MaxFiles = 2
  MaxBoots = 3
  Timeouts = {0, 3, 9, 12}
  ActionTimeout = 14
  MIN_TOUCH_INTERVAL = 2
  MAX_TOUCH_EXTEND = 9
  RequestTimeout = 3
  ThrowsAtCall = FALSE
  Requests = {1}
  NOBODY = 0
  Answers <- SomeAnswers
  STATUS_OK = 0
  MAGIC = 2
  VERSION = 1
  TABLE_HASH = 3
  crc <- Checksum
  MAX_ANSWER_BYTES = 9
  Cells = {1}
  Alterable = {1, 2, 3, 9}
  MaxComing = 2
  MaxAltered = 1
  MaxChunks = 3
SYMMETRY Alike
INVARIANTS
  RequestReadAsMeant
  HeldAsLongAsAsked
  AnswerReadAsSent
  RefusalReadAsSent
  EachKeyOnce
  EndsOnce
  SyncedWhileCalled
  LeaseKept
  FramesAsSent
PROPERTIES
  TouchesEnd
  GivesUpForAReason
  ImplementsFraming
\* Calls, starts and time are used up.
CHECK_DEADLOCK FALSE
