---------------------------- MODULE ClusterView ----------------------------
(***************************************************************************)
(* Membership of a torchrun job: the tree of node registries kept by the   *)
(* local0 rank of every host and by global rank 0, the heartbeats that feed *)
(* them, their expiry and the backoff of the heartbeat interval.           *)
(*                                                                         *)
(* A leaf rank reports itself to the local0 rank of its host.  A local0    *)
(* rank reads its own registry, and reports its leaves and itself to       *)
(* global rank 0; rank 0 reports to itself.  The registry that takes a     *)
(* report merges it, sweeps its stale entries and answers with a delta.    *)
(*                                                                         *)
(* Time is discrete.  A request takes no time, unless it is lost: then the *)
(* reporter notices after Timeout.  An entry holds its age instead of the  *)
(* time of its last update, cut off at AgeCap, past which the code makes   *)
(* no difference.  Versions are only ever compared with each other, and    *)
(* `current' keeps the outcome: whether a local0 has seen the newest       *)
(* version of rank 0's registry.                                           *)
(***************************************************************************)
EXTENDS Integers, FiniteSets, FiniteSetsExt, SequencesExt

CONSTANTS
    Ranks,         \* global ranks, 0 among them
    Local0,        \* [Ranks -> Ranks]: the local0 rank of a rank's host
    Addrs,         \* advertised host:port pairs, the keys of a registry
    NoAddr,        \* no such key
    FirstAddr,     \* [Ranks -> Addrs]: the address a rank binds at first
    Base,          \* base report interval
    Configured,    \* configured maximal interval
    Stale,         \* age past which an entry is dead
    Timeout,       \* time after which a request without an answer has failed
    StreakCap,     \* bound on the streak; the interval has its maximum by then
    FirstWait,     \* delays before a rank's first report
    MayCrash,      \* ranks that may crash
    MayRebind,     \* leaf ranks that may get another address
    Faults         \* bound: how many faults of each kind may happen, one way or another

FaultKinds == {"loss", "refuse", "crash", "rebind"}

ASSUME ClusterAssumption ==
    /\ Ranks \subseteq Nat /\ 0 \in Ranks /\ IsFiniteSet(Ranks)
    /\ Local0 \in [Ranks -> Ranks]
    /\ \A r \in Ranks : Local0[Local0[r]] = Local0[r]
    /\ Local0[0] = 0
    /\ NoAddr \notin Addrs /\ IsFiniteSet(Addrs)
    /\ FirstAddr \in [Ranks -> Addrs] /\ IsInjective(FirstAddr)
    /\ {Base, Configured, Stale, Timeout} \subseteq Nat \ {0}
    /\ FirstWait \subseteq Nat /\ StreakCap \in Nat
    /\ MayCrash \subseteq Ranks
    /\ MayRebind \subseteq {r \in Ranks : Local0[r] # r}
    /\ Faults \subseteq [FaultKinds -> Nat]

VARIABLES
    up,        \* the processes that run
    addr,      \* the address a process advertises
    nodes,     \* the entries of a registry, by address
    index,     \* rank_index of a registry
    current,   \* a local0's seen version is that of rank 0's registry
    pc,        \* where the report worker of a rank is
    wait,      \* time until the worker goes on
    streak,    \* stable reports in a row
    batch,     \* the entries of the report under way
    resp,      \* the answer to it
    left,      \* faults that may still happen
    lost       \* history: ranks of which a report or its answer was lost

vars == <<up, addr, nodes, index, current, pc, wait, streak, batch, resp, left, lost>>

-----------------------------------------------------------------------------
Heads == {r \in Ranks : Local0[r] = r}
Group(r) == {q \in Ranks : Local0[q] = Local0[r]}

\* report_parent_http: a leaf reports to its local0, a local0 to rank 0.
Parent(r) == IF r \in Heads THEN 0 ELSE Local0[r]

AgeCap == 2 * Stale + 1
NoEntry == [rank |-> -1, status |-> "absent", age |-> 0]
Entry == [rank : Ranks, status : {"running", "dead"}, age : 0..AgeCap]
Item == [addr : Addrs, rank : Ranks, status : {"running", "dead"}]

Present(ns, a) == ns[a] # NoEntry
NoResp == [nodes |-> <<>>, removed |-> {}, fresh |-> FALSE]

\* A registry, as a value: its entries and its rank index.
Reg(p) == [nodes |-> nodes[p], index |-> index[p]]
ItemOf(ns, a) == [addr |-> a, rank |-> ns[a].rank, status |-> ns[a].status]

-----------------------------------------------------------------------------
\* Cluster::put, by way of update_node, which stamps the entry with the
\* current time: an entry that changes its rank gives up the old rank's
\* index, and a rank that changes its address loses its old entry.

\* Mutant: the entry of the rank's previous address stays.
Put_retain(reg, item) ==
    LET a == item.addr
        was == reg.nodes[a].rank
        idx == IF Present(reg.nodes, a) /\ was # item.rank /\ reg.index[was] = a
               THEN [reg.index EXCEPT ![was] = NoAddr] ELSE reg.index
    IN [nodes |-> [reg.nodes EXCEPT
                     ![a] = [rank |-> item.rank, status |-> item.status, age |-> 0]],
        index |-> [idx EXCEPT ![item.rank] = a]]

Put(reg, item) ==
    LET a == item.addr
        was == reg.nodes[a].rank
        idx == IF Present(reg.nodes, a) /\ was # item.rank /\ reg.index[was] = a
               THEN [reg.index EXCEPT ![was] = NoAddr] ELSE reg.index
        prev == idx[item.rank]
    IN [nodes |-> [b \in Addrs |->
                     IF b = a THEN [rank |-> item.rank, status |-> item.status, age |-> 0]
                     ELSE IF b = prev THEN NoEntry ELSE reg.nodes[b]],
        index |-> [idx EXCEPT ![item.rank] = a]]

\* The items are put one after the other.
Puts(reg, items) ==
    LET put[n \in 0..Len(items)] ==
            IF n = 0 THEN reg ELSE Put(put[n - 1], items[n])
    IN put

PutAll(reg, items) == Puts(reg, items)[Len(items)]

\* Cluster::remove_by_addr, for each of the keys: an entry goes, and with it its
\* rank's index, whatever that points to.
RemoveByAddrs(reg, keys) ==
    [nodes |-> [a \in Addrs |-> IF a \in keys THEN NoEntry ELSE reg.nodes[a]],
     index |-> [r \in Ranks |->
                  IF \E a \in keys \intersect Addrs : reg.nodes[a].rank = r
                  THEN NoAddr ELSE reg.index[r]]]

\* sweep_stale_nodes: entries past the threshold become dead; entries dead
\* before, past twice the threshold, go away.
NewlyDead(ns) ==
    {a \in Addrs : ns[a].status = "running" /\ ns[a].age > Stale}

Expired(ns) ==
    {a \in Addrs : ns[a].status = "dead" /\ ns[a].age > 2 * Stale}

\* Mutant: entries are marked dead and never removed.
Sweep_keep(reg) ==
    [nodes |-> [a \in Addrs |->
                  IF a \in NewlyDead(reg.nodes)
                  THEN [reg.nodes[a] EXCEPT !.status = "dead"] ELSE reg.nodes[a]],
     index |-> reg.index]

Sweep(reg) ==
    [nodes |-> [a \in Addrs |->
                  IF a \in Expired(reg.nodes) THEN NoEntry
                  ELSE IF a \in NewlyDead(reg.nodes)
                       THEN [reg.nodes[a] EXCEPT !.status = "dead"]
                       ELSE reg.nodes[a]],
     index |-> [r \in Ranks |->
                  IF reg.index[r] \in Expired(reg.nodes)
                     /\ reg.nodes[reg.index[r]].rank = r
                  THEN NoAddr ELSE reg.index[r]]]

\* replaced_node_keys: addresses that the report takes a rank away from.
Replaced(reg, items) ==
    {reg.index[it.rank] : it \in {i \in ToSet(items) :
        reg.index[i.rank] \notin {NoAddr, i.addr}}}

\* apply_node_report: the registry after the report, and the answer.  The
\* reporter gets the delta only if it had seen the version before.
Merged(reg, items) == PutAll(reg, items)
AfterReport(reg, items) == Sweep(Merged(reg, items))

Answer(reg, items, seenCurrent) ==
    LET merged == Merged(reg, items)
        after  == Sweep(merged)
        stored(it) == IF Present(after.nodes, it.addr)
                      THEN ItemOf(after.nodes, it.addr) ELSE it
        died == SetToSeq({ItemOf(after.nodes, a) : a \in NewlyDead(merged.nodes)})
    IN [nodes |-> IF seenCurrent
                  THEN [i \in DOMAIN items |-> stored(items[i])] \o died ELSE <<>>,
        removed |-> Replaced(reg, items) \union Expired(merged.nodes),
        fresh |-> TRUE]

-----------------------------------------------------------------------------
\* max_report_interval_secs and ReportBackoff::sleep_duration.
Larger(m, n) == IF m < n THEN n ELSE m
Smaller(m, n) == IF m < n THEN m ELSE n
MaxInterval == Larger(Smaller(Configured, Larger(Stale \div 2, Base)), Base)

\* The base interval, doubled s times.
Doubled[s \in 0..StreakCap] == IF s = 0 THEN Base ELSE 2 * Doubled[s - 1]

\* Mutant: the interval is capped by the configured maximum alone.
SleepDuration_cap(s) == Larger(Smaller(Doubled[s], Configured), Base)

SleepDuration(s) == Larger(Smaller(Doubled[s], MaxInterval), Base)

\* classify_report_outcome: the alive entries of the answer are compared
\* with the size of the host's group and, for a local0, of the job.
AliveIn(items, ranks) ==
    Cardinality({i \in DOMAIN items :
                   items[i].rank \in ranks /\ items[i].status # "dead"})

Stable(r, answer) ==
    \/ AliveIn(answer.nodes, Group(r)) >= Cardinality(Group(r))
    \/ r \in Heads /\ AliveIn(answer.nodes, Ranks) >= Cardinality(Ranks)

\* nodes_for_upstream_report: a leaf reports itself; a local0 itself, then
\* the leaves of its group as its registry holds them, in order of rank.

Self(r) == [addr |-> addr[r], rank |-> r, status |-> "running"]

LeafItems(r) ==
    LET leaves == {ItemOf(nodes[r], a) :
                     a \in {b \in Addrs : nodes[r][b].rank \in Group(r) \ {r}}}
    IN {s \in [1..Cardinality(leaves) -> leaves] :
          \A i, j \in DOMAIN s : i < j => s[i].rank < s[j].rank}

\* Mutant: a local0 does not pass its leaves on.
Upstream_self(r) == {<<Self(r)>>}

\* Ranks differ, so there is one order.
Upstream(r) ==
    IF r \in Heads THEN {<<Self(r)>> \o items : items \in LeafItems(r)}
    ELSE {<<Self(r)>>}

-----------------------------------------------------------------------------
Init ==
    /\ up = Ranks
    /\ addr = FirstAddr
    /\ nodes = [p \in Heads |-> [a \in Addrs |-> NoEntry]]
    /\ index = [p \in Heads |-> [r \in Ranks |-> NoAddr]]
    /\ current = [p \in Heads |-> TRUE]
    /\ pc = [r \in Ranks |-> "setup"]
    /\ wait \in [Ranks -> FirstWait]
    /\ streak = [r \in Ranks |-> 0]
    /\ batch = [r \in Ranks |-> <<>>]
    /\ resp = [r \in Ranks |-> NoResp]
    /\ left \in Faults
    /\ lost = {}

\* torchrun_setup: the rank binds, publishes its address where it is a
\* local0 or rank 0, and starts its report worker.
Setup(r) ==
    /\ r \in up /\ pc[r] = "setup" /\ wait[r] = 0
    /\ pc' = [pc EXCEPT ![r] = "idle"]
    /\ UNCHANGED <<up, addr, nodes, index, current, wait, streak, batch, resp, left, lost>>

\* ensure_master_info and ensure_local0_parent: found once published.
Discovered(r) == \A p \in {0, Local0[r]} : pc[p] # "setup"

\* The worker records the outcome and sleeps.
Sleep(r, s) ==
    /\ streak' = [streak EXCEPT ![r] = s]
    /\ wait' = [wait EXCEPT ![r] = SleepDuration(s)]
    /\ pc' = [pc EXCEPT ![r] = "idle"]
    /\ batch' = [batch EXCEPT ![r] = <<>>]
    /\ resp' = [resp EXCEPT ![r] = NoResp]

Skip(r) ==
    /\ r \in up /\ pc[r] = "idle" /\ wait[r] = 0
    /\ ~Discovered(r)
    /\ Sleep(r, streak[r])
    /\ UNCHANGED <<up, addr, nodes, index, current, left, lost>>

Spend(kind) == left[kind] > 0 /\ left' = [left EXCEPT ![kind] = @ - 1]

\* report_once, up to the request.  A local0 that cannot read its own
\* registry reports itself alone.
Collect(r) ==
    /\ r \in up /\ pc[r] = "idle" /\ wait[r] = 0
    /\ Discovered(r)
    /\ \/ \E items \in Upstream(r) : batch' = [batch EXCEPT ![r] = items]
          /\ UNCHANGED left
       \/ r \in Heads /\ batch' = [batch EXCEPT ![r] = <<Self(r)>>] /\ Spend("refuse")
    /\ pc' = [pc EXCEPT ![r] = "put"]
    /\ UNCHANGED <<up, addr, nodes, index, current, wait, streak, resp, lost>>

\* put_node at the parent: the whole of apply_node_report.  It gives rank
\* 0's registry a version that no local0 has seen.
Apply(r, seenCurrent) ==
    LET p == Parent(r)
        after == AfterReport(Reg(p), batch[r])
        answers == [resp EXCEPT ![r] = Answer(Reg(p), batch[r], seenCurrent)]
    IN /\ nodes' = [nodes EXCEPT ![p] = after.nodes]
       /\ index' = [index EXCEPT ![p] = after.index]
       /\ IF p = 0
          THEN /\ current' = [q \in Heads |-> FALSE]
               /\ resp' = [q \in Ranks |-> IF q = r THEN answers[q]
                                           ELSE [resp[q] EXCEPT !.fresh = FALSE]]
          ELSE resp' = answers /\ UNCHANGED current

\* A leaf's seen version decides only whether the answer holds its own entry.
PutNode(r) ==
    /\ r \in up /\ pc[r] = "put" /\ Parent(r) \in up
    /\ \E seen \in (IF r \in Heads THEN {current[r]} ELSE BOOLEAN) : Apply(r, seen)
    /\ pc' = [pc EXCEPT ![r] = "reply"]
    /\ UNCHANGED <<up, addr, wait, streak, batch, left, lost>>

\* The request fails at once: the parent is gone, or refuses.
Refused(r) ==
    /\ r \in up /\ pc[r] = "put"
    /\ \/ Parent(r) \notin up /\ UNCHANGED left
       \/ Parent(r) \in up /\ Spend("refuse")
    /\ Sleep(r, 0)
    /\ UNCHANGED <<up, addr, nodes, index, current, lost>>

\* The request or its answer is lost.  The parent may still take the report
\* while the reporter waits for the answer.
Lose(r) ==
    /\ r \in up /\ pc[r] = "put" /\ Spend("loss")
    /\ pc' = [pc EXCEPT ![r] = "lost"]
    /\ wait' = [wait EXCEPT ![r] = Timeout]
    /\ lost' = lost \union {r}
    /\ UNCHANGED <<up, addr, nodes, index, current, streak, batch, resp>>

LatePut(r) ==
    /\ r \in up /\ pc[r] = "lost" /\ batch[r] # <<>> /\ Parent(r) \in up
    /\ \E seen \in (IF r \in Heads THEN {current[r]} ELSE BOOLEAN) : Apply(r, seen)
    /\ batch' = [batch EXCEPT ![r] = <<>>]
    /\ UNCHANGED <<up, addr, pc, wait, streak, left, lost>>

GiveUp(r) ==
    /\ r \in up /\ pc[r] = "lost" /\ wait[r] = 0
    /\ Sleep(r, 0)
    /\ UNCHANGED <<up, addr, nodes, index, current, left, lost>>

\* apply_global_snapshot at a local0 other than rank 0: the answer's entries
\* are put, stamped with the current time, and its keys removed.
Snapshot(reg, answer) ==
    RemoveByAddrs(PutAll(reg, answer.nodes), answer.removed)

\* report_once, from the answer on: the version is stored, whatever the
\* answer holds.
Reply(r) ==
    /\ r \in up /\ pc[r] = "reply"
    /\ IF r \in Heads \ {0}
       THEN LET after == Snapshot(Reg(r), resp[r])
            IN /\ nodes' = [nodes EXCEPT ![r] = after.nodes]
               /\ index' = [index EXCEPT ![r] = after.index]
       ELSE UNCHANGED <<nodes, index>>
    /\ current' = IF r \in Heads THEN [current EXCEPT ![r] = resp[r].fresh] ELSE current
    /\ Sleep(r, IF Stable(r, resp[r]) THEN Smaller(streak[r] + 1, StreakCap) ELSE 0)
    /\ UNCHANGED <<up, addr, left, lost>>

\* A process dies; what it has in flight is gone.
Crash(r) ==
    /\ r \in up \intersect MayCrash /\ Spend("crash")
    /\ up' = up \ {r}
    /\ pc' = [pc EXCEPT ![r] = IF @ = "setup" THEN @ ELSE "idle"]
    /\ wait' = [wait EXCEPT ![r] = Base]
    /\ streak' = [streak EXCEPT ![r] = 0]
    /\ batch' = [batch EXCEPT ![r] = <<>>]
    /\ resp' = [resp EXCEPT ![r] = NoResp]
    /\ UNCHANGED <<addr, nodes, index, current, lost>>

\* A leaf's listener is replaced, and its advertised address with it.
Rebind(r) ==
    /\ r \in up \intersect MayRebind /\ Spend("rebind")
    /\ \E a \in Addrs \ {addr[q] : q \in up} : addr' = [addr EXCEPT ![r] = a]
    /\ UNCHANGED <<up, nodes, index, current, pc, wait, streak, batch, resp, lost>>

\* Time passes when nobody has anything to do.
Tick ==
    /\ \A r \in up : pc[r] \in {"setup", "idle", "lost"} /\ wait[r] > 0
    /\ wait' = [r \in Ranks |-> IF r \in up THEN wait[r] - 1 ELSE wait[r]]
    /\ nodes' = [p \in Heads |-> [a \in Addrs |->
                   IF p \in up /\ Present(nodes[p], a)
                   THEN [nodes[p][a] EXCEPT !.age = Smaller(@ + 1, AgeCap)]
                   ELSE nodes[p][a]]]
    /\ UNCHANGED <<up, addr, index, current, pc, streak, batch, resp, left, lost>>

Work(r) == Setup(r) \/ Skip(r) \/ Collect(r) \/ PutNode(r) \/ Refused(r) \/ GiveUp(r) \/ Reply(r)
Fault(r) == Lose(r) \/ LatePut(r) \/ Crash(r) \/ Rebind(r)

Next == Tick \/ \E r \in Ranks : Work(r) \/ Fault(r)

Spec == Init /\ [][Next]_vars

\* Time goes on for ever: the runtime polls every worker that has work, and at
\* one instant there is only so much of it.
LiveSpec == Spec /\ []<><<Tick>>_vars

-----------------------------------------------------------------------------
TypeOK ==
    /\ up \subseteq Ranks
    /\ addr \in [Ranks -> Addrs]
    /\ nodes \in [Heads -> [Addrs -> Entry \union {NoEntry}]]
    /\ index \in [Heads -> [Ranks -> Addrs \union {NoAddr}]]
    /\ current \in [Heads -> BOOLEAN]
    /\ pc \in [Ranks -> {"setup", "idle", "put", "reply", "lost"}]
    /\ wait \in [Ranks -> Nat]
    /\ streak \in [Ranks -> 0..StreakCap]
    /\ \A r \in Ranks : batch[r] \in Seq(Item) /\ resp[r].nodes \in Seq(Item)
    /\ left \in [FaultKinds -> Nat] /\ lost \subseteq Ranks

\* Where a registry has an entry for a rank.
Listed(p, r) == {a \in Addrs : nodes[p][a].rank = r}
RunningAt(p, r) == \E a \in Listed(p, r) : nodes[p][a].status = "running"

\* Cluster: the rank index and the entries agree.  Every entry is the one its
\* rank's index names, so that a rank has at most one entry, and an index
\* names an entry of that rank.
IndexExact ==
    \A p \in Heads :
        /\ \A a \in Addrs : Present(nodes[p], a) => index[p][nodes[p][a].rank] = a
        /\ \A r \in Ranks : index[p][r] # NoAddr => nodes[p][index[p][r]].rank = r

\* The registry is well formed after every report, sweep and answer.
RegistrySound == TypeOK /\ IndexExact

HeldDead(p, r) == nodes[p][addr[r]].rank = r /\ nodes[p][addr[r]].status = "dead"

\* max_report_interval_secs: two heartbeats fit into the stale time, so neither
\* the registry a process reports to nor rank 0 holds it for dead, though a
\* report be refused.  (One that is lost, and noticed late, may be enough.)
LiveAtParent ==
    \A r \in up : {r, Local0[r]} \intersect lost = {} /\ {Local0[r], 0} \subseteq up =>
        \A p \in {Parent(r), 0} : ~HeldDead(p, r)

\* sweep_stale_nodes: when all of a host is gone, rank 0 ends up with no entry
\* of it, and stays without one.
LostHostExpires ==
    <>[](\A p \in Heads \ {0} :
            Group(p) \intersect up = {} => \A r \in Group(p) : Listed(0, r) = {})

\* report_once and apply_node_report: rank 0 gets and keeps a running entry of
\* every process that stays up, together with its local0 and rank 0.
AllListed == <>[](\A r \in Ranks : {r, Local0[r], 0} \subseteq up => RunningAt(0, r))
=============================================================================
