\* An I/O submission queue longer than its page.
SPECIFICATION Spec
CONSTANTS
  AdminSqLen = 2
  AdminCqLen = 8
  PageSqes = 2
  PageCqes = 8
  MQES = 15
  CapTO = 2
  PollLimit = 3
  MaxReads = 5
INVARIANT CompletionIsOwn
CHECK_DEADLOCK FALSE
