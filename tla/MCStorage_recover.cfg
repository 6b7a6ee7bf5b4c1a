\* A crash at any step, and the restart: offsets, replay, flushes started by the
\* replay itself, and appends after it.  Two streams with the same reference time:
\* two tables can start in the same millisecond, and share a temporary file.
CONSTANTS
    Streams = {"a", "b"}
    Kinds = {"s1", "s2"}
    StreamOf <- MCStreamOf
    RawOf <- MCRawOf
    Ref <- SameRef
    BlockSize = 2
    RecBytes = 3
    Rate = 1
    Capacity = 2
    SegMax = 8
    FsyncEvery = 2
    Flushers = {t1, t2}
    NoOp = NoOp
    MaxRecords = 5
    MaxCrashes = 1
SPECIFICATION Spec
INVARIANTS NamedFilesComplete FlushLsnReached MemoryInLogOrder
PROPERTIES StartupEnds FlushEnds
CHECK_DEADLOCK FALSE
