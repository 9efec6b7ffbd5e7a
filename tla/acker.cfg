SPECIFICATION FairSpec
CONSTANT MaxEvents = 6
CHECK_DEADLOCK FALSE
INVARIANTS
    NoPanic
    DataIsTracked
    NoEarlyReport
    CompletePrefix
    InOrderWithoutDrops
PROPERTY AllReported
