----------------------------- MODULE MCColdTier -----------------------------
(* The two tiers on small instances. *)
EXTENDS ColdTier

Budget(r, a, t, c, n) == [rows |-> r, advances |-> a, tables |-> t, crashes |-> c, queries |-> n]

\* Deaths of the compactor, a replaced table, a query.
MCBudgets == {Budget(4, 3, 0, 2, 0), Budget(3, 2, 1, 1, 0), Budget(3, 2, 0, 0, 1), Budget(2, 1, 1, 0, 1)}
=============================================================================
