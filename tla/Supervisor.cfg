CONSTANTS
    k1 = k1
    k2 = k2
    Keys = {k1, k2}
    NoKey = NoKey
    TorchKey = k1
    MaxTasks = 4
    Plans <- MCPlans
SPECIFICATION LiveSpec
INVARIANTS SlotsSound StaysReachable
PROPERTY Settles
CHECK_DEADLOCK FALSE
