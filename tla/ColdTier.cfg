SPECIFICATION FairSpec
CONSTANTS
    NumChunks = 2
    ChunkRows = 2
    MaxInst = 2
    LeaseSlots = 2
    TargetPages = 1
    MaxTotal = 1
    Budgets <- MCBudgets
INVARIANTS DrainSound PageWhole QueryExact
PROPERTY EventuallyDrained
CHECK_DEADLOCK FALSE
