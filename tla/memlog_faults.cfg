SPECIFICATION Spec
CONSTANTS
    Half = 3
    Keys = {k1}
    Vals = {v1, v2}
    NoVal = NoVal
    NoFile = NoFile
    Corrupt = Corrupt
    NoOp = NoOp
    None = None
    CheckpointLimit = 1
    IgnoreVersionCheck = FALSE
    Faults = {"meta", "open", "encode", "write", "checkpoint", "truncate", "remove", "sync", "power"}
SYMMETRY Symmetry
INVARIANTS
    TypeOK
    IInv
    AckedIsDurable
    LogReplays
    RecoveryAgrees
PROPERTIES
    NoOverwrite
    TornIsFinal
