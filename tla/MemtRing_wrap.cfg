SPECIFICATION Spec
CONSTANTS
    NumChunks = 3
    LeaseSlots = 1
    Threads <- OneThread
    Procs <- OneProc
    ProcOf <- OnlyQ
    PidOf <- PidQ
    StartOf <- StartQ
    InitProcs <- QUp
    Cap = 1
    RowLens = {1, 2}
    MaxStamp = 2
    RowStamps = {1}
    DrainSpins = 0
    PinTries = 2
    MaxGen = 2
    MaxBlocked = 1
    MaxFailures = 1
    MaxCrashes = 1
    CrashAlone = TRUE
INVARIANTS
    RingSound
    TsRangeCovers
PROPERTIES
    SealedFrozen
CHECK_DEADLOCK FALSE
