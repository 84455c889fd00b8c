---------------------------- MODULE MCMemhProbe -----------------------------
(***************************************************************************)
(* Instances of MemhProbe for TLC.  Keys are small numbers.                *)
(***************************************************************************)
EXTENDS MemhProbe

\* Two keys collide, and their path wraps around the end of the table.
TwoHomes == [k \in Keys |-> IF k = 1 THEN 0 ELSE NumBuckets - 1]
Lengths == [PUT |-> 3, TOMBSTONE |-> 2, PUT_INLINE |-> 2]

=============================================================================
