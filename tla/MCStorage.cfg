\* The partition scan on the NVMe driver.
SPECIFICATION StorageSpec
CONSTANTS
  Disks <- MCDisks
  BATCH = 2
  HEADER_BLOCKS = 3
  BTRFS_OFFSET = 3
  AdminSqLen = 2
  AdminCqLen = 8
  PageSqes = 8
  PageCqes = 32
  MQES = 7
  CapTO = 2
  PollLimit = 3
  MaxReads = 8
INVARIANTS CompletionIsOwn CompletionVisible ReadExact ScanExact
PROPERTIES ImplementsGpt ScanEnds
CHECK_DEADLOCK FALSE
