SPECIFICATION FairSpec
CONSTANTS
    Threads = {t1, t2, t3}
    Names = {n1, n2}
    Shared = {s1, s2}
    NoShared = NoShared
    MaxOps = 1
CHECK_DEADLOCK FALSE
INVARIANTS
    TypeOK
    RefCountIsExact
    NoUseAfterClose
PROPERTY LastCloseCloses
