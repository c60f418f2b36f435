CONSTANTS
  Topologies <- MCTopologies
  LastDevice = 1
  LastFunction = 1
  ManyHosts = FALSE
SPECIFICATION Spec
CHECK_DEADLOCK FALSE
INVARIANT WalkComplete
PROPERTY WalkEnds
