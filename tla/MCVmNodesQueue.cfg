\* The list mm_slab_alloc takes its slab to be in, against the one it is in.
SPECIFICATION NodesSpec
CONSTANTS
  objects_per_slab = 6
  NULL = NULL
INVARIANT QueueIsList
CHECK_DEADLOCK FALSE
