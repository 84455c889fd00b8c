---------------------------- MODULE MCMemtDedup -----------------------------
(***************************************************************************)
(* Instances of MemtDedup for TLC.  Strings are short sequences of bytes   *)
(* that look like lengths, and all of them have the same hash.             *)
(***************************************************************************)
EXTENDS MemtDedup
CONSTANTS r1, r2

TwoStrings == {<<1>>, <<2, 1>>}
Collide(col, v) == 0

Table(cols, chunks, size, cached, first, forks) ==
    [cols |-> cols, chunks |-> chunks, size |-> size, cached |-> cached, first |-> first, forks |-> forks]

\* The writer alone, a cached reader, a reader that forks.
MCTables == {Table(2, 2, 9, FALSE, {}, {}), Table(1, 2, 7, TRUE, {r1}, {}),
             Table(1, 1, 7, FALSE, {r1}, {r2})}
=============================================================================
