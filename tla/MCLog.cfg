CONSTANTS
    t1 = t1  t2 = t2  t3 = t3
    b1 = b1  b2 = b2  b3 = b3
    Threads <- MCThreads
    DataBlocks <- MCDataBlocks
    LOG_MAX_SIZE = 2
    OP_MAX_NUM_BLOCKS = 1
    MaxOps = 3
    MaxCrashes = 1
SPECIFICATION Spec
INVARIANT TypeOK
INVARIANT CrashAtomicity
INVARIANT NoSyncPanic
INVARIANT OpWithinCommit
CHECK_DEADLOCK FALSE
