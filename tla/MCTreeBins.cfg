\* The tries of the large bins against queues by size.
SPECIFICATION Spec
CONSTANTS
  Chunk = {c1, c2, c3, c4, c5}
  NULL = NULL
  Size = {5, 8, 9, 10, 11, 14, 20, 40}
  Wanted = {2, 5, 9, 10, 12, 21, 100}
  NTREEBINS = 4
  TREEBIN_SHIFT = 2
  SIZE_T_BITSIZE = 7
  UINT_BITSIZE = 4
SYMMETRY Symmetry
INVARIANT TrieOK
PROPERTY ImplementsFreeBins
CHECK_DEADLOCK FALSE
