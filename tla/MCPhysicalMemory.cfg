CONSTANTS
  Frames = {1, 2, 3, 4, 5}
  Root = 9
  STACK_SIZE = 2
SPECIFICATION Spec
CHECK_DEADLOCK FALSE
INVARIANTS TypeOK ChainIntact NoSharedFrame PanicOnlyWhenExhausted
PROPERTIES LossOnlyByEmptiedStack GetReturns ImplementsPool
