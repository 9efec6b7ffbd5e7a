SPECIFICATION Spec
CONSTANTS
    Inputs = {i1, i2}
    Resources = {r1, r2}
    NoResource = NoResource
    NoKey = NoKey
    Nobody = Nobody
    MaxPos = 3
    MaxEvents = 3
SYMMETRY Symmetry
INVARIANTS
    PendingIsExact
    UsedIsKept
    InMemoryIsLast
    SentIsDelivered
PROPERTY NeverBack
