------------------------------ MODULE NcclPools ------------------------------
(***************************************************************************)
(* The NCCL profiler plugin (extensions/nccl-profiler): NCCL's threads     *)
(* start and stop events, every event takes a slot of a fixed pool, a      *)
(* collective stays in its slot until it is stopped and its last child is, *)
(* and the rows made under a shard's lock are written after its release.   *)
(* A watchdog and finalize drain the rows a collective has buffered.       *)
(*                                                                         *)
(* A callback holds its shard's lock from its first to its last access of  *)
(* the pools and is one step; writing its batch is a second one.  Names,   *)
(* sizes and times are left out: a row says which events it is made of.    *)
(***************************************************************************)
EXTENDS Integers, SequencesExt, FiniteSetsExt, Functions

CONSTANTS
    Colls, Ops, Kchs, Steps, Nets,  \* the events NCCL may report
    Parent,         \* the collective of an op or a kernel event, the op of a step
    Shards,         \* 0 .. pool_shard_count() - 1
    HomeShard,      \* the shard a collective's hash, or an op's or net event's rank, selects
    Cap,            \* capacity of a shard's pool, for each kind of event
    MaxPending,     \* MAX_PENDING_PER_COLL
    MaxKids,        \* u16::MAX, where live_children saturates
    Small,          \* collectives and rows below MIN_MSG_BYTES
    Jobs,           \* what a job may be like: the events it reports, whether a child
                    \* may start after the stop of its collective and a step stop
                    \* after its op, whether the watchdog's threshold is above 0, and
                    \* as bounds the communicators finalized and the writes that fail
    Invalid, Null, NoOne

Events == Colls \cup Ops \cup Kchs \cup Steps \cup Nets
Kinds == {"coll", "op", "kch", "step", "net"}
KindOf(e) == CASE e \in Colls -> "coll" [] e \in Ops -> "op" [] e \in Kchs -> "kch"
               [] e \in Steps -> "step" [] e \in Nets -> "net"

ASSUME NcclAssumption ==
    /\ Parent \in [Ops \cup Kchs \cup Steps -> Colls \cup Ops]
    /\ \A e \in Ops \cup Kchs : Parent[e] \in Colls
    /\ \A e \in Steps : Parent[e] \in Ops
    /\ Shards # {} /\ Shards = 0 .. Cardinality(Shards) - 1
    /\ HomeShard \in [Colls \cup Ops \cup Nets -> Shards]
    /\ Cap \in [Kinds -> Nat]
    /\ MaxPending \in Nat \ {0} /\ MaxKids \in Nat \ {0}
    /\ Jobs \subseteq [events : SUBSET Events, lateStart : BOOLEAN, lateSteps : BOOLEAN,
                        watchdog : BOOLEAN, finals : Nat, errors : Nat]

VARIABLES
    job,        \* the job of this behaviour
    ev,         \* NCCL's view of an event: "absent", "new", "open", "done"
    handle,     \* what startEvent returned for it
    pools,      \* Pools of every shard
    batch,      \* FlushBatch of a thread, rows not yet written
    wd,         \* the watchdog: the shards it has yet to visit, what it collected
    fin,        \* the same for finalize
    table,      \* rows written for each event, oldest first
    inflight,   \* events nccl.inflight_ops has a row for
    filtered,   \* rows of each event the size filter dropped
    exhausted,  \* events no slot was free for
    errors,     \* rows of each event that could not be written
    aged,       \* events older than the watchdog's threshold
    finals

vars == <<job, ev, handle, pools, batch, wd, fin, table, inflight, filtered, exhausted, errors, aged,
          finals>>
outVars == <<table, inflight, errors>>
quiet == <<job, aged, finals>>

Threads == {"host", "proxy"}
ThreadOf(e) == IF e \in Colls THEN "host" ELSE "proxy"

NewSlot(e, parent, ctx) ==
    [e |-> e, parent |-> parent, ctx |-> ctx, stopped |-> FALSE, kids |-> 0, pending |-> <<>>,
     seen |-> {}, noted |-> FALSE, dropped |-> 0]
Free == [e |-> NoOne]
Live(slot) == slot.e # NoOne

\* Kernel timing by the GPU timer beats the kernel window, that the proxy
\* window, and the enqueue window is the last resort.
TimingSource(seen) ==
    CASE \E x \in seen : x.kind = "kch" /\ x.noted -> "kernel_gpu"
      [] ~(\E x \in seen : x.kind = "kch" /\ x.noted) /\ \E x \in seen : x.kind = "kch" -> "kernel_ch"
      [] ~(\E x \in seen : x.kind = "kch") /\ seen # {} -> "proxy"
      [] seen = {} -> "enqueue"

Row(slot) == [e |-> slot.e, coll |-> slot.ctx, seen |-> slot.seen, dropped |-> slot.dropped,
              source |-> IF slot.e \in Colls THEN TimingSource(slot.seen) ELSE "none"]

NoWatch == [todo |-> <<>>, rows |-> <<>>, live |-> {}, busy |-> FALSE]

Init ==
    /\ job \in Jobs
    /\ ev = [e \in Events |-> IF e \in job.events THEN "new" ELSE "absent"]
    /\ handle = [e \in Events |-> Null]
    /\ pools = [s \in Shards |->
                  [slots |-> [k \in Kinds |-> [i \in 0 .. Cap[k] - 1 |-> Free]],
                   free |-> [k \in Kinds |-> [j \in 1 .. Cap[k] |-> Cap[k] - j]]]]
    /\ batch = [t \in Threads |-> <<>>]
    /\ wd = NoWatch /\ fin = NoWatch
    /\ table = [e \in Events |-> <<>>]
    /\ inflight = {}
    /\ filtered = [e \in Events |-> 0]
    /\ exhausted = {}
    /\ errors = [e \in Events |-> 0]
    /\ aged = {} /\ finals = 0
-----------------------------------------------------------------------------
\* Slot pools.

\* A handle points at a slot; it stands for whatever event the slot holds now.
\* The index written into the slot outlives the event.
IndexOf(p, s, h) ==
    IF h # Null /\ h.shard = s /\ Live(p.slots[h.kind][h.idx]) THEN h.idx ELSE Invalid

\* self_idx is read without the lock.  While a new owner is being put into the
\* slot it is INVALID_IDX, and the caller falls back to another shard.
ShardForHandle(h, e, fallback) ==
    IF h = Null THEN {fallback}
    ELSE IF pools[h.shard].slots[h.kind][h.idx].e \in {e, NoOne} THEN {h.shard}
    ELSE {h.shard, fallback}

Put(p, k, i, slot) == [p EXCEPT !.slots[k][i] = slot]

FreeIdx(p, k, i) == [p EXCEPT !.slots[k][i] = Free, !.free[k] = Append(@, i)]

\* Mutant: the drop is not noted in the collective.
NotePoolExhausted_silent(p, coll) == p

NotePoolExhausted(p, coll) ==
    IF coll = Invalid THEN p ELSE [p EXCEPT !.slots["coll"][coll].dropped = @ + 1]
AddChild(p, coll) ==
    IF coll = Invalid THEN p
    ELSE [p EXCEPT !.slots["coll"][coll].kids = IF @ = MaxKids THEN @ ELSE @ + 1]

\* Start e in shard s; coll is the slot of its collective in that shard.
StartIn(s, e, slot, coll) ==
    LET k == KindOf(e)
        p == pools[s]
    IN IF p.free[k] = <<>>
       THEN /\ pools' = [pools EXCEPT ![s] = NotePoolExhausted(p, coll)]
            /\ handle' = [handle EXCEPT ![e] = Null]
            /\ exhausted' = exhausted \cup {e}
       ELSE LET i == Last(p.free[k])
                q == Put([p EXCEPT !.free[k] = Front(@)], k, i, slot)
            IN /\ pools' = [pools EXCEPT ![s] = AddChild(q, coll)]
               /\ handle' = [handle EXCEPT ![e] = [shard |-> s, kind |-> k, idx |-> i]]
               /\ UNCHANGED exhausted
-----------------------------------------------------------------------------
\* startEvent.  NCCL (external) starts a child when its parent is known to it.

Begin(e) ==
    /\ ev[e] = "new" /\ batch[ThreadOf(e)] = <<>>
    /\ ev' = [ev EXCEPT ![e] = "open"]
    /\ UNCHANGED <<batch, wd, fin, filtered, quiet>> /\ UNCHANGED outVars

ParentKnown(e) ==
    \/ ev[Parent[e]] = "open"
    \/ ev[Parent[e]] = "done" /\ job.lateStart /\ Parent[e] \in Colls

StartColl(c) == Begin(c) /\ StartIn(HomeShard[c], c, NewSlot(c, Invalid, c), Invalid)

StartNet(n) == Begin(n) /\ StartIn(HomeShard[n], n, NewSlot(n, Invalid, NoOne), Invalid)

StartOp(o) ==
    LET h == handle[Parent[o]] IN
    /\ ParentKnown(o) /\ Begin(o)
    /\ \E s \in ShardForHandle(h, Parent[o], HomeShard[o]) :
         LET coll == IndexOf(pools[s], s, h)
             ctx == IF coll = Invalid THEN NoOne ELSE pools[s].slots["coll"][coll].e
         IN StartIn(s, o, NewSlot(o, coll, ctx), coll)

\* Without a parent there is nothing to attribute the kernel window to.
StartKch(k) ==
    LET h == handle[Parent[k]] IN
    /\ ParentKnown(k) /\ Begin(k)
    /\ \E s \in ShardForHandle(h, Parent[k], 0) :
         LET coll == IndexOf(pools[s], s, h)
         IN IF coll = Invalid THEN UNCHANGED <<handle, pools, exhausted>>
            ELSE StartIn(s, k, NewSlot(k, coll, NoOne), coll)

StartStep(st) ==
    LET h == handle[Parent[st]] IN
    /\ ParentKnown(st) /\ Begin(st)
    /\ \E s \in ShardForHandle(h, Parent[st], 0) :
         StartIn(s, st, NewSlot(st, IndexOf(pools[s], s, h), NoOne), Invalid)
-----------------------------------------------------------------------------
\* stopEvent.  w is the shard's pools, the batch and the filter's count as the
\* handler goes on.

AppendRows(w, rows) == [w EXCEPT !.rows = @ \o rows]
Filter(w, rows) == [w EXCEPT !.filtered = [e \in Events |-> @[e] + Len(SelectSeq(rows, LAMBDA r : r.e = e))]]

\* A full buffer is flushed early.
FlushProxyRow(w, coll, row) ==
    IF coll # Invalid
    THEN LET c == w.p.slots["coll"][coll]
             full == Len(c.pending) >= MaxPending
         IN IF c.e \in Small THEN Filter(w, <<row>>)
            ELSE AppendRows([w EXCEPT !.p.slots["coll"][coll].pending =
                                IF full THEN <<row>> ELSE Append(@, row)],
                            IF full THEN c.pending ELSE <<>>)
    ELSE IF row.e \in Small THEN Filter(w, <<row>>) ELSE AppendRows(w, <<row>>)

ChildStopped(w, coll, slot) ==
    IF coll = Invalid THEN w
    ELSE LET note == [e |-> slot.e, kind |-> KindOf(slot.e), noted |-> slot.noted]
         IN [w EXCEPT !.p.slots["coll"][coll].kids = IF @ = 0 THEN 0 ELSE @ - 1,
                      !.p.slots["coll"][coll].seen = @ \cup {note}]

MaybeCompleteColl(w, coll) ==
    IF coll = Invalid THEN w
    ELSE LET c == w.p.slots["coll"][coll]
             out == <<Row(c)>> \o c.pending
             v == IF c.e \in Small THEN Filter(w, out) ELSE AppendRows(w, out)
         IN IF c.stopped /\ c.kids = 0 THEN [v EXCEPT !.p = FreeIdx(@, "coll", coll)] ELSE w

StopColl(w, i) == MaybeCompleteColl([w EXCEPT !.p.slots["coll"][i].stopped = TRUE], i)

StopOp(w, i) ==
    LET slot == w.p.slots["op"][i]
        v == FlushProxyRow(w, slot.parent, Row(slot))
        u == MaybeCompleteColl(ChildStopped(v, slot.parent, slot), slot.parent)
    IN [u EXCEPT !.p = FreeIdx(@, "op", i)]

\* Mutant: the last kernel event does not complete its collective.
StopKch_left(w, i) ==
    LET slot == w.p.slots["kch"][i]
    IN [ChildStopped(w, slot.parent, slot) EXCEPT !.p = FreeIdx(@, "kch", i)]

StopKch(w, i) ==
    LET slot == w.p.slots["kch"][i]
        u == MaybeCompleteColl(ChildStopped(w, slot.parent, slot), slot.parent)
    IN [u EXCEPT !.p = FreeIdx(@, "kch", i)]

\* The step is folded into whatever op the slot it remembers holds now.
StopStep(w, i) ==
    LET slot == w.p.slots["step"][i]
        note == [e |-> slot.e, kind |-> "step", noted |-> slot.noted]
        live == slot.parent # Invalid /\ Live(w.p.slots["op"][slot.parent])
        v == IF live THEN [w EXCEPT !.p.slots["op"][slot.parent].seen = @ \cup {note}] ELSE w
    IN [v EXCEPT !.p = FreeIdx(@, "step", i)]

StopNet(w, i) ==
    [AppendRows(w, <<Row(w.p.slots["net"][i])>>) EXCEPT !.p = FreeIdx(@, "net", i)]

StopEvent(w, k, i) ==
    CASE k = "coll" -> StopColl(w, i) [] k = "op" -> StopOp(w, i) [] k = "kch" -> StopKch(w, i)
      [] k = "step" -> StopStep(w, i) [] k = "net" -> StopNet(w, i)

\* NCCL (external) stops an op after its steps, unless steps are late.
MayStop(e) == job.lateSteps \/ \A st \in Steps : Parent[st] = e => ev[st] # "open"

Stop(e) ==
    LET h == handle[e] IN
    /\ ev[e] = "open" /\ batch[ThreadOf(e)] = <<>> /\ MayStop(e)
    /\ ev' = [ev EXCEPT ![e] = "done"]
    /\ IF h = Null \/ IndexOf(pools[h.shard], h.shard, h) = Invalid
       THEN UNCHANGED <<pools, batch, filtered>>
       ELSE LET w == StopEvent([p |-> pools[h.shard], rows |-> <<>>, filtered |-> filtered], h.kind, h.idx)
            IN /\ pools' = [pools EXCEPT ![h.shard] = w.p]
               /\ batch' = [batch EXCEPT ![ThreadOf(e)] = w.rows]
               /\ filtered' = w.filtered
    /\ UNCHANGED <<handle, wd, fin, exhausted, quiet>> /\ UNCHANGED outVars

\* recordEventState: the GPU stop time of a kernel event, a step's bytes.
RecordState(e) ==
    LET h == handle[e] IN
    /\ ev[e] = "open" /\ batch["proxy"] = <<>> /\ e \in Kchs \cup Steps
    /\ h # Null /\ ~pools[h.shard].slots[h.kind][h.idx].noted
    /\ pools' = [pools EXCEPT ![h.shard].slots[h.kind][h.idx].noted = TRUE]
    /\ UNCHANGED <<ev, handle, batch, wd, fin, filtered, exhausted, quiet>> /\ UNCHANGED outVars
-----------------------------------------------------------------------------
\* Writing, after the lock is released.

\* Any of the tables may fail to open or to take its rows.
Write(rows, live) ==
    LET of(e) == SelectSeq(rows, LAMBDA r : r.e = e)
        used == {KindOf(r.e) : r \in Range(rows)} \cup {x \in {"inflight"} : live # {}}
    IN \E bad \in SUBSET used :
         /\ bad = {} \/ FoldFunction(+, 0, errors) < job.errors
         /\ table' = [e \in Events |-> IF KindOf(e) \in bad THEN table[e] ELSE table[e] \o of(e)]
         /\ errors' = [e \in Events |-> IF KindOf(e) \in bad THEN errors[e] + Len(of(e)) ELSE errors[e]]
         /\ inflight' = IF "inflight" \in bad THEN inflight ELSE inflight \cup live

Flush(t) ==
    /\ batch[t] # <<>>
    /\ Write(batch[t], {})
    /\ batch' = [batch EXCEPT ![t] = <<>>]
    /\ UNCHANGED <<ev, handle, pools, wd, fin, filtered, exhausted, quiet>>

\* The threshold passes for every event that has started.
Tick ==
    /\ job.watchdog /\ aged' = {e \in Colls \cup Ops : ev[e] \in {"open", "done"}} /\ aged' # aged
    /\ UNCHANGED <<ev, handle, pools, batch, wd, fin, filtered, exhausted, job, finals>> /\ UNCHANGED outVars

\* The shards in the order they are visited.
ShardSeq == [i \in 1 .. Cardinality(Shards) |-> i - 1]

\* Mutant: only collectives that were stopped are looked at.
OverAge_stopped(p, k) ==
    {i \in 0 .. Cap[k] - 1 : p.slots[k][i].e \in aged /\ p.slots[k][i].stopped}

OverAge(p, k) == {i \in 0 .. Cap[k] - 1 : p.slots[k][i].e \in aged}
\* The pending rows of the slots I, in the order of the pool, and the pools
\* without them.
PendingRows(p, I) == FlattenSeq([j \in 1 .. Cap["coll"] |->
                        IF j - 1 \in I THEN p.slots["coll"][j - 1].pending ELSE <<>>])

\* Mutant: pending_len is not reset.
Drained_kept(p, I) == p

Drained(p, I) == [p EXCEPT !.slots["coll"] =
                    [i \in DOMAIN @ |-> IF i \in I THEN [@[i] EXCEPT !.pending = <<>>] ELSE @[i]]]

WatchdogWakes ==
    /\ job.watchdog /\ ~wd.busy
    /\ wd' = [NoWatch EXCEPT !.todo = ShardSeq, !.busy = TRUE]
    /\ UNCHANGED <<ev, handle, pools, batch, fin, filtered, exhausted, quiet>> /\ UNCHANGED outVars

\* collect_inflight, if try_lock succeeds.
WatchdogCollects ==
    LET s == Head(wd.todo)
        p == pools[s]
        I == OverAge(p, "coll")
    IN /\ wd.todo # <<>>
       /\ wd' = [wd EXCEPT !.todo = Tail(@), !.rows = @ \o PendingRows(p, I),
                           !.live = @ \cup {p.slots["coll"][i].e : i \in I}
                                       \cup {p.slots["op"][i].e : i \in OverAge(p, "op")}]
       /\ pools' = [pools EXCEPT ![s] = Drained(p, I)]
       /\ UNCHANGED <<ev, handle, batch, fin, filtered, exhausted, quiet>> /\ UNCHANGED outVars

\* A callback holds the shard.
WatchdogSkips ==
    /\ wd.todo # <<>>
    /\ wd' = [wd EXCEPT !.todo = Tail(@)]
    /\ UNCHANGED <<ev, handle, pools, batch, fin, filtered, exhausted, quiet>>
    /\ UNCHANGED outVars

WatchdogWrites ==
    /\ wd.busy /\ wd.todo = <<>>
    /\ Write(wd.rows, wd.live)
    /\ wd' = NoWatch
    /\ UNCHANGED <<ev, handle, pools, batch, fin, filtered, exhausted, quiet>>

Finalize ==
    /\ ~fin.busy /\ finals < job.finals /\ finals' = finals + 1
    /\ fin' = [NoWatch EXCEPT !.todo = ShardSeq, !.busy = TRUE]
    /\ UNCHANGED <<ev, handle, pools, batch, wd, filtered, exhausted, job, aged>> /\ UNCHANGED outVars

FinalizeDrains ==
    LET s == Head(fin.todo)
        I == {i \in 0 .. Cap["coll"] - 1 : Live(pools[s].slots["coll"][i])}
    IN /\ fin.todo # <<>>
       /\ fin' = [fin EXCEPT !.todo = Tail(@), !.rows = @ \o PendingRows(pools[s], I)]
       /\ pools' = [pools EXCEPT ![s] = Drained(@, I)]
       /\ UNCHANGED <<ev, handle, batch, wd, filtered, exhausted, quiet>> /\ UNCHANGED outVars

FinalizeWrites ==
    /\ fin.busy /\ fin.todo = <<>> /\ Write(fin.rows, {})
    /\ fin' = NoWatch
    /\ UNCHANGED <<ev, handle, pools, batch, wd, filtered, exhausted, quiet>>

Next ==
    \/ \E c \in Colls : StartColl(c)
    \/ \E o \in Ops : StartOp(o)
    \/ \E k \in Kchs : StartKch(k)
    \/ \E st \in Steps : StartStep(st)
    \/ \E n \in Nets : StartNet(n)
    \/ \E e \in Events : Stop(e)
    \/ \E e \in Events : RecordState(e)
    \/ \E t \in Threads : Flush(t)
    \/ Tick
    \/ WatchdogWakes \/ WatchdogCollects \/ WatchdogSkips \/ WatchdogWrites
    \/ Finalize \/ FinalizeDrains \/ FinalizeWrites

Spec == Init /\ [][Next]_vars

\* A thread that has left the pools goes on to write its batch, time passes and
\* the watchdog never ends.  A callback holds a shard for a moment only, so a
\* watchdog that tries again and again finds it free in the end.  Nothing is
\* assumed of NCCL: a collective may hang.
FairSpec ==
    /\ Spec /\ WF_vars(Tick) /\ WF_vars(WatchdogWakes) /\ WF_vars(WatchdogWrites)
    /\ \A t \in Threads : WF_vars(Flush(t))
    /\ \A s \in Shards : SF_vars(WatchdogCollects /\ Head(wd.todo) = s)
-----------------------------------------------------------------------------
SlotOK(slot) ==
    \/ slot = Free
    \/ /\ slot.e \in Events /\ slot.parent \in Nat \cup {Invalid} /\ slot.ctx \in Colls \cup {NoOne}
       /\ slot.kids \in 0 .. MaxKids /\ Len(slot.pending) <= MaxPending
       /\ slot.stopped \in BOOLEAN /\ slot.noted \in BOOLEAN /\ slot.dropped \in Nat

\* The pools of state.rs and pool.rs: a slot is on the free list or it is live,
\* never both, and it holds an event of the pool's kind.
TypeOK ==
    /\ ev \in [Events -> {"absent", "new", "open", "done"}]
    /\ \A e \in Events : handle[e] # Null =>
         handle[e].shard \in Shards /\ handle[e].idx \in 0 .. Cap[KindOf(e)] - 1
    /\ \A s \in Shards, k \in Kinds :
         LET p == pools[s]
             live == {i \in DOMAIN p.slots[k] : Live(p.slots[k][i])}
         IN /\ \A i \in live : SlotOK(p.slots[k][i]) /\ KindOf(p.slots[k][i].e) = k
            /\ IsInjective(p.free[k]) /\ Range(p.free[k]) = DOMAIN p.slots[k] \ live
    /\ filtered \in [Events -> Nat] /\ errors \in [Events -> Nat]
    /\ exhausted \subseteq Events /\ inflight \subseteq Colls \cup Ops /\ aged \subseteq Colls \cup Ops

LiveAt(s, k) == {i \in DOMAIN pools[s].slots[k] : Live(pools[s].slots[k][i])}
Children(s, i) ==
    UNION {{<<k, j>> : j \in {j \in LiveAt(s, k) : pools[s].slots[k][j].parent = i}} : k \in {"op", "kch"}}

\* state.rs:10 counts children on start and on stop, through two pools that may
\* each be full, early returns and a parent found by a raw pointer.  A live
\* child never remembers a slot whose collective is gone, and the count of a
\* collective is the number of live children that remember it.
ChildrenPin ==
    \A s \in Shards :
        /\ \A k \in {"op", "kch"} : \A j \in LiveAt(s, k) :
             pools[s].slots[k][j].parent \in LiveAt(s, "coll") \cup {Invalid}
        /\ \A i \in LiveAt(s, "coll") : pools[s].slots["coll"][i].kids = Cardinality(Children(s, i))

Count(rows, e) == Len(SelectSeq(rows, LAMBDA r : r.e = e))
Holds(s, e) == \E i \in LiveAt(s, KindOf(e)) : pools[s].slots[KindOf(e)][i].e = e
Pending(e) == FoldFunction(+, 0, [s \in Shards |-> Count(PendingRows(pools[s], LiveAt(s, "coll")), e)])
Copies(e) ==
    Pending(e) + Count(batch["host"], e) + Count(batch["proxy"], e) + Count(wd.rows, e) + Count(fin.rows, e)
    + Len(table[e]) + filtered[e] + errors[e]

\* A completed op's row waits in its collective, and leaves with it, with an
\* overflowing buffer, with the watchdog or with finalize (state.rs:979, 1010,
\* 1160, 1177).  At any moment the row of an event that has left its slot is in
\* exactly one place, and an event still in its slot has none.
RowsOnce ==
    \A e \in Colls \cup Ops \cup Nets :
        Copies(e) = IF ev[e] = "done" /\ handle[e] # Null /\ (\A s \in Shards : ~Holds(s, e)) THEN 1 ELSE 0

\* Slots, free lists, child counts and rows agree after every callback.
PoolsSound == TypeOK /\ ChildrenPin /\ RowsOnce

Tracked(e) == {x \in Events \ (Colls \cup Nets) : Parent[x] = e /\ handle[x] # Null}
Rows(e) == Range(table[e])

\* While NCCL reports children inside their parents, a row is the whole truth:
\* every child that got a slot is folded in and finished, no other event is, the
\* timing source is the best one any of them offers, and the children that got
\* none are counted (events.rs:393).
RowsFaithful == job.lateStart \/ job.lateSteps \/
    /\ \A c \in Colls : \A r \in Rows(c) :
         /\ {x.e : x \in r.seen} = Tracked(c) /\ \A x \in Tracked(c) : ev[x] = "done"
         /\ r.dropped = Cardinality({x \in exhausted \ (Colls \cup Nets) : Parent[x] = c})
         /\ (\E x \in r.seen : x.e \in Kchs) <=> r.source \in {"kernel_gpu", "kernel_ch"}
         /\ (Tracked(c) = {}) <=> r.source = "enqueue"
    /\ \A o \in Ops : \A r \in Rows(o) :
         /\ r.coll = IF handle[Parent[o]] = Null THEN NoOne ELSE Parent[o]
         /\ {x.e : x \in r.seen} = Tracked(o)

Finished(c) ==
    /\ ~job.lateStart
    /\ ev[c] = "done" /\ handle[c] # Null
    /\ \A x \in Ops \cup Kchs : Parent[x] = c => ev[x] # "open"
\* Unless children start after its stop, the close of the last one publishes the
\* collective (state.rs:892, 918), whatever other collectives do: they may hang
\* for ever.
FinishedPublished == []<>(\A c \in Colls : Finished(c) =>
                            table[c] # <<>> \/ filtered[c] > 0 \/ errors[c] > 0)

\* A collective that never ends is seen: the watchdog reports it in
\* nccl.inflight_ops (state.rs:1104), although it skips busy shards, as long as
\* that table takes its rows.
HungReported == []<>(\A c \in Colls :
    job.watchdog /\ job.errors = 0 /\ ev[c] = "open" /\ handle[c] # Null => c \in inflight)
=============================================================================
