----------------------------- MODULE MCMemhSlot -----------------------------
(***************************************************************************)
(* Instances of MemhSlot for TLC.                                          *)
(***************************************************************************)
EXTENDS MemhSlot

\* A process per thread, with PIDs of their own.
Each == [t \in Threads |-> t]
OwnPid == [p \in Procs |-> p]
OwnStart == [p \in Procs |-> 10 + p]

=============================================================================
