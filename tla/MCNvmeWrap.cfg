CONSTANTS
  AdminSqLen = 2
  AdminCqLen = 8
  PageSqes = 4
  PageCqes = 16
  MQES = 3
  CapTO = 2
  PollLimit = 3
  MaxReads = 5
SPECIFICATION Spec
CHECK_DEADLOCK FALSE
INVARIANT CompletionVisible
