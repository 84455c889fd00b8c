SPECIFICATION Spec
CONSTANTS
    t1 = t1
    t2 = t2
    Tables <- MCTables
    PayloadLens <- MCLens
    Stamps <- MCStamps
    MaxPages = 2
    MaxFails = 1
INVARIANTS FileSound ReadsBack
CHECK_DEADLOCK FALSE
