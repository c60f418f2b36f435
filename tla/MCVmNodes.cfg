\* The slab of vm nodes and the list they are linked into.
SPECIFICATION NodesSpec
CONSTANTS
  objects_per_slab = 6
  NULL = NULL
INVARIANTS
  FreeListExact
  IndexInBounds
  NodesWellFormed
  LinkedAreLive
CHECK_DEADLOCK FALSE
