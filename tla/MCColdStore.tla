----------------------------- MODULE MCColdStore ----------------------------
(* Two processes that share a directory. *)
EXTENDS ColdStore
CONSTANTS p1, p2
MCProcs == {p1, p2}
=============================================================================
