--------------------------- MODULE MCClusterView ---------------------------
(* Rank 0 on one host, ranks 1 (local0) and 2 on another.  A unit of time is *)
(* 2.5 seconds: the default base interval is 4, the stale time 10, so that  *)
(* the interval may grow to 5; the timeout of a request is 2.              *)
EXTENDS ClusterView

TwoHosts == 0 :> 0 @@ 1 :> 1 @@ 2 :> 1
Home == 0 :> "a0" @@ 1 :> "a1" @@ 2 :> "a2"

NoFaults == [k \in FaultKinds |-> 0]
MCFaults == {[NoFaults EXCEPT !["refuse"] = 1, !["crash"] = 1],
             [NoFaults EXCEPT !["loss"] = 1, !["rebind"] = 1],
             [NoFaults EXCEPT !["loss"] = 1, !["crash"] = 1],
             [NoFaults EXCEPT !["crash"] = 2]}

=============================================================================
