SPECIFICATION ExchangeSpec
CONSTANTS
  RADIX = 4
  MAX_VALUE_SIZE = 110
  MAX_BLOCK_MS = 30
  AWAIT_BLOCK_MS = 9
  MAX_BODY = 6
  MAX_SHORT = 3
  MAX_COUNT = 2
  LongKeys = TRUE
  Tried <- Args
  Values <- SomeValues
  Bodies <- SomeBodies
  Refusals <- SomeRefusals
CHECK_DEADLOCK FALSE
INVARIANTS
  RequestReadAsMeant
