SPECIFICATION FairSpec
CONSTANTS
    NumChunks = 1
    LeaseSlots = 2
    Threads <- Readers
    Procs <- Processes
    ProcOf <- ThreadOf
    PidOf <- Pids
    StartOf <- Starts
    InitProcs <- AnyReaders
    Cap = 1
    RowLens = {1}
    MaxStamp = 2
    RowStamps = {1}
    DrainSpins = 1
    PinTries = 1
    MaxGen = 2
    MaxBlocked = 1
    MaxFailures = 1
    MaxCrashes = 0
    CrashAlone = TRUE
INVARIANTS
    TypeOK
    PinnedStable
    LeaseExact
PROPERTIES
    WriterReturns
    DeadReadersNeverBlock
CHECK_DEADLOCK FALSE
