SPECIFICATION Spec
CONSTANTS
    Half = 3
    Keys = {k1}
    Vals = {v1}
    NoVal = NoVal
    NoFile = NoFile
    Corrupt = Corrupt
    NoOp = NoOp
    None = None
    CheckpointLimit = 2
    IgnoreVersionCheck = FALSE
    Faults = {"corrupt", "rename", "read", "remove"}
INVARIANTS
    CheckpointIsNew
    CheckpointRepairs
