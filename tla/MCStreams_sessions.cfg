CONSTANTS
  StreamIds = {"vocals", "drums"}
  Sessions = {"zero", "A", "B"}
  ZeroSession = "zero"
  None = "none"
  Refs = {"t1", "t2"}
  MaxBatch = 2
  MaxAccepted = 3
  MaxCrashes = 1
  BinCount = 2
  HashOf <- MCHash
SPECIFICATION Spec
INVARIANTS OneWriter BatchIndependent ListedOnce
