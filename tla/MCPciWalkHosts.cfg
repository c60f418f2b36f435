CONSTANTS
  Topologies <- MCTopologies
  LastDevice = 1
  LastFunction = 1
  ManyHosts = TRUE
SPECIFICATION Spec
CHECK_DEADLOCK FALSE
INVARIANT HostsWalked
