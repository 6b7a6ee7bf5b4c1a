\* Serving without crashes: one stream, raw and compressed frames, a memtable
\* of two blocks, two flush threads.
CONSTANTS
    Streams = {"a"}
    Kinds = {"s1", "z1"}
    StreamOf <- MCStreamOf
    RawOf <- MCRawOf
    Ref <- SpacedRef
    BlockSize = 2
    RecBytes = 3
    Rate = 1
    Capacity = 2
    SegMax = 10
    FsyncEvery = 2
    Flushers = {t1, t2}
    NoOp = NoOp
    MaxRecords = 6
    MaxCrashes = 0
SYMMETRY FlusherSymmetry
SPECIFICATION Spec
INVARIANTS
    TypeOK VisibleInOrder LogKept CheckpointCovered
PROPERTY StoreRefined
CHECK_DEADLOCK FALSE
