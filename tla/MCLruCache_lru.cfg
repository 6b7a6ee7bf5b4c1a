\* Three nodes at most, four keys: every put of the fourth key evicts.
CONSTANTS
  n1 = n1
  n2 = n2
  n3 = n3
  n4 = n4
  Nodes <- MCNodes
  NULL = NULL
  Keys = {0, 1, 2, 3}
  Values = {"old", "new"}
  Capacity = 3
  BinCount = 3
  HashOf <- MCHash
SPECIFICATION Spec
SYMMETRY NodeSymmetry
INVARIANTS CacheInv
PROPERTY LruRefined
CHECK_DEADLOCK TRUE
