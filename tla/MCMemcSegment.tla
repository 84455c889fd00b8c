--------------------------- MODULE MCMemcSegment ----------------------------
(* The segment file on small instances. *)
EXTENDS MemcSegment
CONSTANTS t1, t2
MCTables == {t1, t2}
MCLens == {1, 2}
MCStamps == {1, 2}
=============================================================================
