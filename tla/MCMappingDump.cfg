\* Not a run: nodes that mm_virtual_dump calls free and that cannot be allocated.
SPECIFICATION MapSpec
CONSTANTS
  BootRanges <- MCBootRanges
  MaxPages = 2
  objects_per_slab = 12
  Frames = {f1, f2, f3, f4}
  Device = {101}
  PerTable = 2
  LastPage = 13
  None = None
SYMMETRY Symmetry
INVARIANT DumpedFreeIsFree
CHECK_DEADLOCK FALSE
