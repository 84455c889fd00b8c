---------------------------- MODULE MCSupervisor ----------------------------
(* Instances of Supervisor.  Every number of starts is finite, so behaviours *)
(* end.                                                                      *)
EXTENDS Supervisor
CONSTANTS k1, k2

Plan(n, fail, calls) == [requests |-> n, fail |-> fail, calls |-> calls]

\* Everything at once; two callers at a time, and tasks that fail; addresses asked
\* for again and again, with listeners that fail to bind.
MCPlans == {Plan(1, FALSE, {"report", "torch", "shutdown"}),
            Plan(1, TRUE, {"report", "torch"}), Plan(1, TRUE, {"torch", "shutdown"}),
            Plan(2, TRUE, {"report", "shutdown"}), Plan(4, TRUE, {})}
=============================================================================
