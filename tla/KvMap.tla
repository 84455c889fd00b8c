------------------------------- MODULE KvMap --------------------------------
(***************************************************************************)
(* What the MEMH table promises its users (memh/mod.rs, memh/table.rs): a  *)
(* map with atomic put and delete, and lookups that return a value the key *)
(* had at some moment of the call.                                         *)
(***************************************************************************)
CONSTANTS Keys, Values, None, Readers

VARIABLES
    map,            \* the value of every key, or None
    lookup          \* lookups: their key, the values it had meanwhile, the result

kvVars == <<map, lookup>>

Entry == Values \cup {None}

Resting == [pc |-> "idle", key |-> None, seen |-> {}, res |-> None]

Init ==
    /\ map = [k \in Keys |-> None]
    /\ lookup = [r \in Readers |-> Resting]

\* Every pending lookup of the key may return the new value.
Set(k, v) ==
    /\ map' = [map EXCEPT ![k] = v]
    /\ lookup' = [r \in Readers |->
                    IF lookup[r].pc = "pending" /\ lookup[r].key = k
                      THEN [lookup[r] EXCEPT !.seen = @ \cup {v}] ELSE lookup[r]]

Begin(r, k) ==
    /\ lookup[r].pc = "idle"
    /\ lookup' = [lookup EXCEPT ![r] = [pc |-> "pending", key |-> k,
                                        seen |-> {map[k]}, res |-> None]]
    /\ UNCHANGED map

End(r) ==
    /\ lookup[r].pc = "pending"
    /\ \E v \in lookup[r].seen : lookup' = [lookup EXCEPT ![r].pc = "done", ![r].res = v]
    /\ UNCHANGED map

Return(r) ==
    /\ lookup[r].pc = "done"
    /\ lookup' = [lookup EXCEPT ![r] = Resting]
    /\ UNCHANGED map

Next ==
    \/ \E k \in Keys, v \in Entry : Set(k, v)
    \/ \E r \in Readers : End(r) \/ Return(r) \/ \E k \in Keys : Begin(r, k)

Spec == Init /\ [][Next]_kvVars

=============================================================================
