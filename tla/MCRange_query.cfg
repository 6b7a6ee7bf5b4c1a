CONSTANTS
  Streams = {"vocals", "drums"}
  Ref <- MCRef
  Kinds = {"sound", "broken"}
  Audio <- MCAudio
  Bytes <- MCBytes
  TableSize = 2
  CacheSize = 2
  Units <- MCUnits
  Starts = {0, 1}
  Durations = {1, 9}
  MaxBlocks = 5
  NoQuery = NoQuery
SPECIFICATION Spec
INVARIANTS NoDuplicates CoveringComplete InOrder CacheCoherent
CHECK_DEADLOCK FALSE
