CONSTANTS
  Streams = {"vocals"}
  Ref <- MCRef
  Kinds = {"sound"}
  Audio <- MCAudio
  Bytes <- MCBytes
  TableSize = 2
  CacheSize = 2
  Units <- MCUnits
  Starts = {0, 2}
  Durations = {9}
  MaxBlocks = 3
  NoQuery = NoQuery
SPECIFICATION Spec
INVARIANT RangeComplete
CHECK_DEADLOCK FALSE
