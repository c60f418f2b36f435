\* Address space, page tables, TLB and their users.
SPECIFICATION MapSpec
CONSTANTS
  BootRanges <- MCBootRanges
  MaxPages = 2
  objects_per_slab = 12
  Frames = {f1, f2, f3, f4}
  Device = {101}
  PerTable = 2
  LastPage = 13
  None = None
SYMMETRY Symmetry
INVARIANTS Tiling RegionsAreNodes FramesAccounted StaleOnlyLeftPresent
CHECK_DEADLOCK FALSE
