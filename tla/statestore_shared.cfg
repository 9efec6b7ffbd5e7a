SPECIFICATION Spec
CONSTANTS
    Threads = {t1, t2, t3}
    Names = {n1}
    Shared = {s1, s2, s3}
    NoShared = NoShared
    MaxOps = 1
CHECK_DEADLOCK FALSE
INVARIANT BackendIsShared
