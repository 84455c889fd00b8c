--------------------------- MODULE MCExternTables ---------------------------
(***************************************************************************)
(* The instance of ExternTables for TLC.  Processes are numbers.           *)
(***************************************************************************)
EXTENDS ExternTables, TLC

CONSTANTS a, b

World(pid, names, forks, files) ==
    [pid |-> pid, first |-> 1, names |-> names, forks |-> forks, files |-> files]

\* Two threads of one process; a process and a successor with its PID; a
\* process that forks; one with one table where its PID is used again.
MCWorlds ==
    {World(<<1>>, {a, b}, FALSE, 5), World(<<1, 1>>, {a, b}, FALSE, 3), World(<<1, 2>>, {a, b}, TRUE, 2)}
        \cup {World(<<1, 2, 1>>, {n}, TRUE, 2) : n \in Names}

\* The names differ in nothing: the settings and the properties treat them alike.
Symmetry == Permutations(Names)

=============================================================================
