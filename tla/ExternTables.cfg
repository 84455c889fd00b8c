SPECIFICATION Spec
CONSTANTS
a = a
b = b
Procs = {1, 2, 3}
Pids = {1, 2}
Names = {a, b}
Worlds <- MCWorlds
MaxRows = 1
SYMMETRY Symmetry
INVARIANTS LiveTableListed FilesOwned CleanupDeadOnly
CHECK_DEADLOCK FALSE
