\* The heap, its callers and the other users of the address space.
SPECIFICATION Spec
CONSTANTS
  W = 512
  page_size = 16
  granularity = 32
  mmap_threshold = 40
  trim_threshold = 40
  MAX_RELEASE_CHECK_RATE = 2
  MIN_LARGE_SIZE = 10
  CALLOC_SMALL = 16
  Space = 224
  Requests <- MCRequests
  Resizes = {1, 20}
  Callocs <- MCCallocs
  Aligns <- MCAligns
  Independents <- MCIndependents
  Limits = {96}
  Pads = {0}
  Foreign = {32}
  MaxLive = 3
  MaxForeign = 1
  MaxCalls = 6
INVARIANTS
  RecordsHome
  TagsIntact
  BinsExact
  LiveExact
  MapsExact
  ChecksNeverFire
CHECK_DEADLOCK FALSE
