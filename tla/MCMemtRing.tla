----------------------------- MODULE MCMemtRing -----------------------------
(***************************************************************************)
(* Instances of MemtRing for TLC: who reads the table.                     *)
(***************************************************************************)
EXTENDS MemtRing, TLC

\* P has two reader threads, Q and S have one each.  R, with one, succeeds P: it
\* gets the PID of P, and nobody knows its start time.
Readers   == {"p1", "p2", "q", "s", "r"}
Processes == {"P", "Q", "R", "S"}
ThreadOf  == "p1" :> "P" @@ "p2" :> "P" @@ "q" :> "Q" @@ "s" :> "S" @@ "r" :> "R"
Pids      == "P" :> 1 @@ "Q" :> 2 @@ "R" :> 1 @@ "S" :> 3
Starts    == "P" :> 10 @@ "Q" :> 20 @@ "R" :> 0 @@ "S" :> 30

\* Two threads of one process, and its successor; two processes.
Gone      == [p \in Processes |-> "dead"]
Successor == [Gone EXCEPT !["P"] = "up", !["R"] = "new"]
TwoOwners == [Gone EXCEPT !["Q"] = "up", !["S"] = "up"]
AnyReaders == {Successor, TwoOwners}

\* One thread.
OneThread == {"q"}
OneProc   == {"Q"}
OnlyQ     == "q" :> "Q"
PidQ      == "Q" :> 2
StartQ    == "Q" :> 20
QUp       == {"Q" :> "up"}
=============================================================================
