SPECIFICATION Spec
CONSTANTS
Keys = {1, 2, 3}
None = None
NumBuckets = 2
Home <- TwoHomes
Scalars = {10}
Strings = {20}
Readers = {r1}
ArenaCap = 9
RecLen <- Lengths
MaxOps = 6
MaxReads = 1
INVARIANTS TableSound IterComplete
PROPERTY MapSpec
CHECK_DEADLOCK FALSE
