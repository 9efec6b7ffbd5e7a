SPECIFICATION Spec
CONSTANTS
    Units = {u1, u2}
    u1 = u1
    u2 = u2
    Runs = {r1, r2}
    NoUnit = NoUnit
    StreamCount <- MCStreamCount
    MaxChanges = 2
INVARIANTS
    RunnerIsKnown
    NoOrphan
    FollowsExpected
PROPERTIES
    StopIsReported
    StreamsEnd
