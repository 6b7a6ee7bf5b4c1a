\* The counterexample to RecoveryComplete.
CONSTANTS
    Streams = {"a"}
    Kinds = {"s1"}
    StreamOf <- MCStreamOf
    RawOf <- MCRawOf
    Ref <- SpacedRef
    BlockSize = 2
    RecBytes = 3
    Rate = 1
    Capacity = 2
    SegMax = 8
    FsyncEvery = 2
    Flushers = {t1}
    NoOp = NoOp
    MaxRecords = 2
    MaxCrashes = 1
SPECIFICATION Spec
INVARIANT RecoveryComplete
CHECK_DEADLOCK FALSE
