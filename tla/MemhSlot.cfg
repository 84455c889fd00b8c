SPECIFICATION FairSpec
CONSTANTS ProcOf <- Each StartOf <- OwnStart
PidOf <- OwnPid
Slots = {s1}
Threads = {1, 2, 3}
Procs = {1, 2, 3}
InitUp = {1, 2}
Kinds = {"inline"}
TryLimit = 1
SpinLimit = 0
MaxWrites = 2
MaxReads = 1
MaxCrashes = 2
INVARIANTS MutualExclusion SnapshotFresh RepairSound
PROPERTY ReadReturns
CHECK_DEADLOCK FALSE
