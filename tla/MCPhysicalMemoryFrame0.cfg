CONSTANTS
  Frames = {0, 1, 2, 3, 4}
  Root = 9
  STACK_SIZE = 2
SPECIFICATION Spec
CHECK_DEADLOCK FALSE
INVARIANT PanicOnlyWhenExhausted
