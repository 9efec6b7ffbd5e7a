SPECIFICATION Spec
CONSTANTS
    Half = 4
    Keys = {k1, k2}
    Vals = {v1}
    NoVal = NoVal
    NoFile = NoFile
    Corrupt = Corrupt
    NoOp = NoOp
    None = None
    CheckpointLimit = 2
    IgnoreVersionCheck = FALSE
    Faults = {"remove", "power"}
SYMMETRY Symmetry
INVARIANTS
    RecoveryAgrees
PROPERTIES
    ImplementsDurableMap
