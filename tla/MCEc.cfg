CONSTANTS
  LastRegister = 3
  Bytes = {0, 1}
  Bits = {8, 12, 16}
  Resources <- MCResources
  DataPort = 98
  CommandPort = 102
SPECIFICATION Spec
CHECK_DEADLOCK FALSE
INVARIANTS RequestExact QuietWhenIdle
PROPERTY RequestEnds
