CONSTANTS
    t1 = t1
    t2 = t2
    r = r
    o1 = o1
    Threads = {t1, t2}
    Names <- MCNames
    INos <- MCINos
    ROOT_INODE_NO = 1
    InitDir <- MCInitDir
    RootObj = r
    Objs <- MCObjs
    NoObj = NoObj
    NoThread = NoThread
    MaxCalls = 4
    NDIRECT = 1
    NINDIRECT = 1
    NumBlocks = 8
    NumMeta = 3
SPECIFICATION Spec
INVARIANT TypeOK
INVARIANT RcExact
INVARIANT NoUseAfterFree
INVARIANT NoDanglingEntry
INVARIANT OrphanFreed
INVARIANT BlocksExact
PROPERTY CallsReturn
