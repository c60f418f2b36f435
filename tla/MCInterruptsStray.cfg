CONSTANTS
  Madt <- MCMadt
  Pins = {0, 2, 9}
  SCI = 9
  PitPin = 2
  Tables <- MCTables
  Leftover = {34, 112}
  SciTrigger = "level"
SPECIFICATION Spec
CHECK_DEADLOCK FALSE
INVARIANT NoUnhandledInterrupt
