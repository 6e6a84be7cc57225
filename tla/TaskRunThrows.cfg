\* A handler that may throw before it returns a promise.
SPECIFICATION TaskSpec
CONSTANTS
  Timeouts = {0, 9}
  ActionTimeout = 10
  MIN_TOUCH_INTERVAL = 2
  MAX_TOUCH_EXTEND = 9
  RequestTimeout = 3
  ThrowsAtCall = TRUE
PROPERTIES
  TouchesEnd
\* Time is used up.
CHECK_DEADLOCK FALSE
