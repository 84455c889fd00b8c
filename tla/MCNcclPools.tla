---------------------------- MODULE MCNcclPools ----------------------------
(* The plugin on small instances. *)
EXTENDS NcclPools

MCColls == {"c1", "c2", "c3"}
MCOps == {"o1", "o3"}
MCKchs == {"k1", "k2", "k3"}
Family == [o1 |-> "c1", o3 |-> "c1", k1 |-> "c1", k2 |-> "c2", k3 |-> "c1", s1 |-> "o1"]
MCParent == [x \in Ops \cup Kchs \cup Steps |-> Family[x]]

\* The hash of c2 selects the second shard, and so does the rank of o1.
TwoShards == [x \in Colls \cup Ops \cup Nets |-> IF x \in {"c2", "o1"} THEN 1 ELSE 0]
MCCap == [k \in Kinds |-> IF k = "op" THEN 2 ELSE 1]

Job(es, ls, lt, w, f, n) == [events |-> es, lateStart |-> ls, lateSteps |-> lt, watchdog |-> w,
                             finals |-> f, errors |-> n]

MCJobs == {
    \* Pools run out while children report inside their parents.
    Job({"c1", "c3", "o1", "k1", "k3", "s1", "n1"}, FALSE, FALSE, FALSE, 0, 0),
    \* Children start late, steps stop late.
    Job({"c1", "c2", "c3", "o1", "k1", "k3"}, TRUE, FALSE, FALSE, 0, 0),
    Job({"c1", "c3", "o1", "o3", "s1"}, FALSE, TRUE, FALSE, 0, 0),
    \* Buffers overflow; the watchdog and finalize drain them; writes fail.
    Job({"c1", "o1", "o3"}, TRUE, FALSE, TRUE, 1, 0),
    Job({"c1", "o1", "o3"}, FALSE, FALSE, TRUE, 0, 1),
    \* A collective hangs next to another.
    Job({"c1", "c2", "o1", "k2"}, FALSE, FALSE, TRUE, 0, 0)}
=============================================================================
