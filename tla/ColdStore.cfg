SPECIFICATION StoreFairSpec
CONSTANTS
    p1 = p1
    p2 = p2
    Procs <- MCProcs
    Enforcers <- MCProcs
    MaxBytes = 3
    Ttl = 0
    MaxSegs = 3
    MaxSize = 2
    MaxClock = 1
    MaxDeaths = 1
INVARIANT RetentionSound
PROPERTY BudgetMet
CHECK_DEADLOCK FALSE
