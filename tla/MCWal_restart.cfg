\* Two flush threads truncate under a rotating appender, with two crashes and
\* a power loss: a segment grows past its limit across a restart.
CONSTANTS
    Ops = {"small"}
    Size <- MCSize
    SegMax = 6
    FsyncEvery = 2
    Flushers = {t1, t2}
    NoOp = NoOp
    MaxRecords = 5
    MaxCrashes = 2
    MaxLosses = 1
SYMMETRY FlusherSymmetry
SPECIFICATION Spec
INVARIANTS SegmentLsnSorted ActiveIsNewest SessionFsync WalInv
PROPERTY RemovalSafe
CHECK_DEADLOCK FALSE
