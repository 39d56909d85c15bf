CONSTANTS
    t1 = t1  t2 = t2
    n1 = n1  n2 = n2  n3 = n3
    o1 = o1  o2 = o2  o3 = o3  o4 = o4  NoObj = NoObj
    Threads <- MCThreads2
    BlockNos <- MCBlockNos2
    Objs <- MCObjs
    EVICTION_THRESHOLD = 8
    MaxAcquires = 4
SPECIFICATION Spec
INVARIANT TypeOK
INVARIANT ObjectExclusion
INVARIANT ListConsistent
PROPERTY AcquireCompletes
