SPECIFICATION Spec
CONSTANTS
r1 = r1
r2 = r2
HeaderSize = 1
Tables <- MCTables
Values <- TwoStrings
MinDedupLen = 0
Key <- Collide
Readers = {r1, r2}
MaxEntries = 2
MaxGen = 2
INVARIANTS BufferSound ReadsWritten
PROPERTY CommittedFixed
