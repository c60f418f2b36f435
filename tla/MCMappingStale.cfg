\* A page whose owner reads through the entry ACPI left present.
SPECIFICATION MapSpec
CONSTANTS
  BootRanges <- MCBootRanges
  MaxPages = 2
  objects_per_slab = 12
  Frames = {f1, f2, f3, f4}
  Device = {101}
  PerTable = 2
  LastPage = 13
  None = None
SYMMETRY Symmetry
INVARIANT NoStaleTranslation
CHECK_DEADLOCK FALSE
