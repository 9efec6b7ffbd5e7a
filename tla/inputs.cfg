SPECIFICATION Spec
CONSTANTS
    c = c
    s = s
    i1 = i1
    i2 = i2
    a = a
    b = b
    None = None
    Nobody = Nobody
    NoSource = NoSource
    Managers = {c, s}
    CursorManagers = {c}
    PluginLists <- MCPluginLists
    Inputs = {i1, i2}
    DefaultType = c
    SourcesOf <- MCSourcesOf
CHECK_DEADLOCK FALSE
INVARIANTS
    TypeOK
    CreatedHasStore
    LockIsHeld
PROPERTIES
    RunReturns
    StoreCloses
