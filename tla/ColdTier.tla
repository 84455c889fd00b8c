------------------------------ MODULE ColdTier ------------------------------
(***************************************************************************)
(* The hot ring, the compactor that drains it into cold segments           *)
(* (memc/compactor.rs) and a query that unites the two tiers               *)
(* (core/memtable_sql.rs), each taking the steps the others can see: the   *)
(* writer of the ring hides, restores and recycles chunks, the compactor   *)
(* and the query test a state or a generation, pin, read, unpin and test   *)
(* the generation again.                                                   *)
(*                                                                         *)
(* MemtRing is about what a pin guarantees and MemcSegment about the bytes *)
(* of a segment; here a pin is one step and an appended page is one step.  *)
(***************************************************************************)
EXTENDS Integers, SequencesExt, FiniteSetsExt

CONSTANTS
    NumChunks,
    ChunkRows,      \* rows a chunk holds
    MaxInst,        \* bound: tables that take the name one after the other
    LeaseSlots,     \* readers a chunk has leases for
    TargetPages,    \* target_segment_bytes, in pages
    MaxTotal,       \* max_total_bytes, in pages
    Budgets         \* bound: the rows, advances of the ring, replacements of the table,
                    \* deaths of the compactor and queries a behaviour may have

ASSUME ColdAssumption ==
    /\ {NumChunks, ChunkRows, MaxInst, LeaseSlots, TargetPages, MaxTotal} \subseteq Nat \ {0}
    /\ Budgets \subseteq [rows : Nat, advances : Nat, tables : 0 .. MaxInst - 1,
                             crashes : Nat, queries : Nat]

VARIABLES
    hot,            \* the ring of each instance of the table
    cur,            \* the instance the name stands for
    cp,             \* Compactor and its loop
    segs,           \* the segment files, in the order of their creation; the pages
                    \* of one that is gone are history
    rd,             \* a chunk read under way, of the compactor and the query
    q,              \* the query
    left,           \* what is left of the budget
    sealed,         \* history: what each chunk held when it was sealed
    odd,            \* history: chunks the compactor read when they were hidden or
                    \* out of leases, or that were recycled after it tested their state
    must            \* history: rows that stayed in a tier since the query began

vars == <<hot, cur, cp, segs, rd, q, left, sealed, odd, must>>

Chunks == 0 .. NumChunks - 1
Insts == 1 .. MaxInst
Readers == {"compactor", "query"}
Key(i, c, g) == [inst |-> i, chunk |-> c, gen |-> g]
Page(k, n) == [key |-> k, n |-> n]
RowsOf(p) == {[key |-> p.key, i |-> j] : j \in 1 .. p.n}

\* A ring as it is created; the writer hides a chunk between hidden = its
\* former state and "none".
NewRing == [ch |-> [c \in Chunks |-> [state |-> IF c = 0 THEN "Writing" ELSE "Empty",
                                      gen |-> IF c = 0 THEN 1 ELSE 0, n |-> 0, pins |-> {}]],
            wc |-> 0, hidden |-> "none"]

NoMarks == [i \in Insts |-> [c \in Chunks |-> 0]]
NewCompactor(seed) ==
    [pc |-> "idle", src |-> 0, todo |-> <<>>, mark |-> [c \in Chunks |-> 0], seed |-> seed,
     open |-> 0, stop |-> FALSE, final |-> FALSE, saw |-> 0]
NoRows == [hot |-> {}, cold |-> {}]
NoRead == [gen |-> 0, n |-> 0]
IdleQuery == [pc |-> "idle", inst |-> 0, todo |-> <<>>, covered |-> {}, got |-> {}, dup |-> FALSE]

Init ==
    /\ hot = [i \in Insts |-> NewRing]
    /\ cur = 1
    /\ cp = NewCompactor(NoMarks)
    /\ segs = <<>>
    /\ rd = [r \in Readers |-> NoRead]
    /\ q = IdleQuery
    /\ left \in Budgets
    /\ sealed = {} /\ odd = {} /\ must = NoRows

(***************************************************************************)
(* The history of the query, which every action ends with: of the rows a   *)
(* reader could find when the query began, those it could find ever since  *)
(* in the same tier, a chunk that is not hidden or a segment.              *)
(***************************************************************************)
Present == {s \in DOMAIN segs : segs[s].state # "gone"}
HotRows(i) == UNION {RowsOf(Page(Key(i, c, hot[i].ch[c].gen), hot[i].ch[c].n)) :
                        c \in {c \in Chunks : hot[i].ch[c].state # "Empty"}}
ColdRows(i) == {r \in UNION {RowsOf(p) : p \in UNION {Range(segs[s].pages) : s \in Present}} :
                    r.key.inst = i}

Track == must' = IF q'.pc = "idle" THEN NoRows
                 ELSE IF q'.pc = "cold" /\ q.pc # "cold"
                   THEN [hot |-> HotRows(cur), cold |-> ColdRows(cur)]
                 ELSE [hot |-> must.hot \cap HotRows(q.inst)', cold |-> must.cold \cap ColdRows(q.inst)']

(***************************************************************************)
(* The writer of the current table.                                        *)
(***************************************************************************)
Ring == hot[cur]
NextChunk == (Ring.wc + 1) % NumChunks
WriterQuiet == UNCHANGED <<cp, segs, rd, q, odd>> /\ Track

Push ==
    /\ Ring.hidden = "none" /\ Ring.ch[Ring.wc].n < ChunkRows
    /\ left.rows > 0
    /\ left' = [left EXCEPT !.rows = @ - 1]
    /\ hot' = [hot EXCEPT ![cur].ch[Ring.wc].n = @ + 1]
    /\ UNCHANGED <<cur, sealed>> /\ WriterQuiet

\* The next chunk is hidden from new pins.
Hide ==
    /\ Ring.hidden = "none" /\ Ring.ch[Ring.wc].n > 0
    /\ left.advances > 0
    /\ hot' = [hot EXCEPT ![cur].hidden = Ring.ch[NextChunk].state,
                          ![cur].ch[NextChunk].state = "Empty"]
    /\ UNCHANGED <<cur, left, sealed>> /\ WriterQuiet

\* It is still pinned: the advance is given up.
Restore ==
    /\ Ring.hidden # "none" /\ Ring.ch[NextChunk].pins # {}
    /\ hot' = [hot EXCEPT ![cur].hidden = "none", ![cur].ch[NextChunk].state = Ring.hidden]
    /\ UNCHANGED <<cur, left, sealed>> /\ WriterQuiet

\* It is not: the current chunk is sealed and the next one starts afresh.
Recycle ==
    /\ Ring.hidden # "none" /\ Ring.ch[NextChunk].pins = {}
    /\ hot' = [hot EXCEPT ![cur] = [
                  ch |-> [Ring.ch EXCEPT ![Ring.wc].state = "Sealed",
                                         ![NextChunk] = [state |-> "Writing",
                                                         gen |-> Ring.ch[NextChunk].gen + 1,
                                                         n |-> 0, pins |-> {}]],
                  wc |-> NextChunk, hidden |-> "none"]]
    /\ left' = [left EXCEPT !.advances = @ - 1]
    /\ sealed' = sealed \cup {Page(Key(cur, Ring.wc, Ring.ch[Ring.wc].gen), Ring.ch[Ring.wc].n)}
    /\ UNCHANGED cur /\ WriterQuiet

\* A new table takes the name; its generations start again.
Replace ==
    /\ left.tables > 0 /\ Ring.hidden = "none"
    /\ left' = [left EXCEPT !.tables = @ - 1]
    /\ cur' = cur + 1
    /\ UNCHANGED <<hot, sealed>> /\ WriterQuiet

(***************************************************************************)
(* Reading one chunk, as transpose_chunk and chunk_to_recordbatch do it.   *)
(***************************************************************************)
\* chunks_logical: chunks with rows, by generation and index.
Older(i, a, b) == LET h == hot[i].ch IN h[a].gen < h[b].gen \/ (h[a].gen = h[b].gen /\ a < b)
WithRows(i) == {c \in Chunks : hot[i].ch[c].gen # 0 /\ hot[i].ch[c].n > 0}
Logical(i) ==
    {s \in SetToSeqs(WithRows(i)) : \A m, n \in DOMAIN s : m < n => Older(i, s[m], s[n])}

GenBefore(r, i, c) == rd' = [rd EXCEPT ![r] = [gen |-> hot[i].ch[c].gen, n |-> 0]]

\* rows: a hidden chunk, and one without a free lease, yields no rows.
Pinnable(i, c) == hot[i].ch[c].state # "Empty" /\ Cardinality(hot[i].ch[c].pins) < LeaseSlots
Pin(r, i, c) ==
    IF Pinnable(i, c)
      THEN /\ hot' = [hot EXCEPT ![i].ch[c].pins = @ \cup {r}]
           /\ rd' = [rd EXCEPT ![r].n = hot[i].ch[c].n]
      ELSE UNCHANGED <<hot, rd>>

Unpin(r, i, c) == hot' = [hot EXCEPT ![i].ch[c].pins = @ \ {r}]

SameGen(r, i, c) == hot[i].ch[c].gen = rd[r].gen

(***************************************************************************)
(* The compactor: drain_view chunk by chunk, rolling, retention, the loop  *)
(* of spawn, and prime_from_cold after a restart.                          *)
(***************************************************************************)
CompactorQuiet == UNCHANGED <<cur, q, left, sealed, odd>> /\ Track
Chunk == Head(cp.todo)
Skip == [cp EXCEPT !.pc = "state", !.todo = Tail(@), !.saw = 0]
\* The generation the state was tested in is history.
Go == [cp EXCEPT !.pc = "gen", !.saw = hot[cp.src].ch[Chunk].gen]

SeedOf(i) == cp.seed[i]

\* A pass over the source; one more of them follows the stop flag.
StartPass ==
    /\ cp.pc = "idle"
    /\ \E todo \in Logical(cur) :
          cp' = [cp EXCEPT !.pc = "state", !.todo = todo, !.final = cp.stop, !.src = cur,
                           !.mark = IF cp.src = cur THEN @ ELSE SeedOf(cur)]
    /\ UNCHANGED <<hot, segs, rd>> /\ CompactorQuiet

\* Mutant: the state of the chunk is not tested.
CheckState_any ==
    /\ cp.pc = "state" /\ cp.todo # <<>>
    /\ cp' = Go
    /\ UNCHANGED <<hot, segs, rd>> /\ CompactorQuiet

CheckState ==
    /\ cp.pc = "state" /\ cp.todo # <<>>
    /\ cp' = IF hot[cp.src].ch[Chunk].state = "Sealed" THEN Go ELSE Skip
    /\ UNCHANGED <<hot, segs, rd>> /\ CompactorQuiet

\* Mutant: the watermark is taken for the generation to come.
CheckGen_ahead ==
    /\ cp.pc = "gen"
    /\ LET g == hot[cp.src].ch[Chunk].gen IN
       cp' = IF g <= cp.mark[Chunk] + 1 THEN Skip ELSE [cp EXCEPT !.pc = "before"]
    /\ UNCHANGED <<hot, segs, rd>> /\ CompactorQuiet

CheckGen ==
    /\ cp.pc = "gen"
    /\ LET g == hot[cp.src].ch[Chunk].gen IN
       cp' = IF g = 0 \/ g <= cp.mark[Chunk] THEN Skip ELSE [cp EXCEPT !.pc = "before"]
    /\ UNCHANGED <<hot, segs, rd>> /\ CompactorQuiet

\* transpose_chunk
Before ==
    /\ cp.pc = "before"
    /\ GenBefore("compactor", cp.src, Chunk)
    /\ cp' = [cp EXCEPT !.pc = "pin"]
    /\ UNCHANGED <<hot, segs>> /\ CompactorQuiet

PinChunk ==
    /\ cp.pc = "pin"
    /\ Pin("compactor", cp.src, Chunk)
    /\ cp' = [cp EXCEPT !.pc = IF Pinnable(cp.src, Chunk) THEN "unpin" ELSE "after"]
    /\ odd' = IF Pinnable(cp.src, Chunk) /\ rd["compactor"].gen = cp.saw THEN odd
              ELSE odd \cup {Key(cp.src, Chunk, rd["compactor"].gen)}
    /\ UNCHANGED <<segs, cur, q, left, sealed>> /\ Track

UnpinChunk ==
    /\ cp.pc = "unpin"
    /\ Unpin("compactor", cp.src, Chunk)
    /\ cp' = [cp EXCEPT !.pc = "after"]
    /\ UNCHANGED <<segs, rd>> /\ CompactorQuiet

\* The page is dropped when the generation moved; no rows only move the
\* watermark.
CheckAfter ==
    /\ cp.pc = "after"
    /\ cp' = IF ~SameGen("compactor", cp.src, Chunk) THEN Skip
             ELSE IF rd["compactor"].n = 0 THEN [Skip EXCEPT !.mark[Chunk] = rd["compactor"].gen]
             ELSE [cp EXCEPT !.pc = "append"]
    /\ UNCHANGED <<hot, segs, rd>> /\ CompactorQuiet

\* ensure_segment, append_page_from and the watermark.
AppendPage ==
    /\ cp.pc = "append"
    /\ LET page == Page(Key(cp.src, Chunk, rd["compactor"].gen), rd["compactor"].n)
           at == IF cp.open # 0 THEN cp.open ELSE Len(segs) + 1
       IN  /\ segs' = IF cp.open # 0 THEN [segs EXCEPT ![at].pages = Append(@, page)]
                      ELSE Append(segs, [state |-> "open", pages |-> <<page>>])
           /\ cp' = [cp EXCEPT !.pc = "size", !.open = at, !.mark[Chunk] = rd["compactor"].gen]
    /\ UNCHANGED <<hot, rd>> /\ CompactorQuiet

\* roll: an open segment of the compactor always has a page.
Roll(next) ==
    /\ segs' = IF cp.open = 0 THEN segs ELSE [segs EXCEPT ![cp.open].state = "sealed"]
    /\ cp' = [next EXCEPT !.open = 0]

SizeRoll ==
    /\ cp.pc = "size"
    /\ IF Len(segs[cp.open].pages) >= TargetPages THEN Roll(Skip)
       ELSE cp' = Skip /\ UNCHANGED segs
    /\ UNCHANGED <<hot, rd>> /\ CompactorQuiet

\* The pass is over: the open segment may be old enough to roll, and the
\* final flush always rolls it.
AgeRoll ==
    /\ cp.pc = "state" /\ cp.todo = <<>>
    /\ \/ Roll([cp EXCEPT !.pc = "enforce"])
       \/ ~cp.final /\ cp' = [cp EXCEPT !.pc = "enforce"] /\ UNCHANGED segs
    /\ UNCHANGED <<hot, rd>> /\ CompactorQuiet

Pages(ss) == MapThenSumSet(LAMBDA s : Len(segs[s].pages), ss)
\* enforce_limits: oldest first, as long as the total is over the budget,
\* but neither the newest segment nor one that is not sealed.
Evicted ==
    LET can == {s \in Present \ {Max(Present)} : segs[s].state = "sealed"} IN
    {s \in can : Pages(Present) - Pages({t \in can : t < s}) > MaxTotal}

Enforce ==
    /\ cp.pc = "enforce"
    /\ segs' = [s \in DOMAIN segs |->
                  IF Present # {} /\ s \in Evicted THEN [segs[s] EXCEPT !.state = "gone"] ELSE segs[s]]
    /\ cp' = [cp EXCEPT !.pc = IF cp.final THEN "done" ELSE "idle"]
    /\ UNCHANGED <<hot, rd>> /\ CompactorQuiet

\* CompactorHandle::stop
Stop ==
    /\ cp.pc \notin {"down", "done"} /\ ~cp.stop
    /\ cp' = [cp EXCEPT !.stop = TRUE]
    /\ UNCHANGED <<hot, segs, rd>> /\ CompactorQuiet

\* The compactor's process dies; its leases are reclaimed.
Crash ==
    /\ cp.pc \notin {"down", "done"} /\ left.crashes > 0
    /\ left' = [left EXCEPT !.crashes = @ - 1]
    /\ cp' = [NewCompactor(NoMarks) EXCEPT !.pc = "down"]
    /\ hot' = [i \in Insts |-> [hot[i] EXCEPT !.ch =
                 [c \in Chunks |-> [hot[i].ch[c] EXCEPT !.pins = hot[i].ch[c].pins \ {"compactor"}]]]]
    /\ rd' = [rd EXCEPT !["compactor"] = NoRead]
    /\ UNCHANGED <<cur, segs, q, sealed, odd>> /\ Track

\* Mutant: only sealed segments are primed from.
Primed_sealed ==
    [i \in Insts |-> [c \in Chunks |->
        Max({0} \cup {p.key.gen : p \in {p \in UNION {Range(segs[s].pages) :
                                               s \in {s \in Present : segs[s].state = "sealed"}} :
                                            p.key.inst = i /\ p.key.chunk = c}})]]

\* prime_from_cold: the newest generation of each chunk in any segment.
Primed ==
    [i \in Insts |-> [c \in Chunks |->
        Max({0} \cup {p.key.gen : p \in {p \in UNION {Range(segs[s].pages) : s \in Present} :
                                            p.key.inst = i /\ p.key.chunk = c}})]]

Restart ==
    /\ cp.pc = "down"
    /\ cp' = NewCompactor(Primed)
    /\ UNCHANGED <<hot, segs, rd>> /\ CompactorQuiet

(***************************************************************************)
(* A query: HotColdTable::scan reads the cold segments one by one, then    *)
(* the chunks of the ring that are not covered by what it found.           *)
(***************************************************************************)
QueryQuiet == UNCHANGED <<cur, cp, segs, sealed, odd>> /\ Track
Collect(rows) == [q EXCEPT !.got = @ \cup rows, !.dup = @ \/ rows \cap q.got # {}]

\* read_dir lists the segments in any order.
QueryStart ==
    /\ q.pc \in {"idle", "done"} /\ left.queries > 0
    /\ left' = [left EXCEPT !.queries = @ - 1]
    /\ \E todo \in SetToSeqs(Present) :
          q' = [IdleQuery EXCEPT !.pc = "cold", !.inst = cur, !.todo = todo]
    /\ UNCHANGED <<hot, rd>> /\ QueryQuiet

\* cold_scan: a segment that is gone fails the query.
QueryCold ==
    /\ q.pc = "cold" /\ q.todo # <<>>
    /\ LET s == Head(q.todo)
           pages == Range(segs[s].pages)
       IN  q' = IF segs[s].state = "gone" THEN IdleQuery
                ELSE [Collect(UNION {RowsOf(p) : p \in pages}) EXCEPT
                        !.todo = Tail(@), !.covered = @ \cup {p.key : p \in pages}]
    /\ UNCHANGED <<hot, rd, left>> /\ QueryQuiet

QueryHot ==
    /\ q.pc = "cold" /\ q.todo = <<>>
    /\ \E todo \in Logical(q.inst) : q' = [q EXCEPT !.pc = "exclude", !.todo = todo]
    /\ UNCHANGED <<hot, rd, left>> /\ QueryQuiet

QChunk == Head(q.todo)
QSkip == [q EXCEPT !.pc = "exclude", !.todo = Tail(@)]

\* Mutant: chunks are matched without their generation.
Covered_nogen(k) == \E j \in q.covered : j.chunk = k.chunk /\ j.inst = k.inst

Covered(k) == k \in q.covered

QueryExclude ==
    /\ q.pc = "exclude" /\ q.todo # <<>>
    /\ q' = IF Covered(Key(q.inst, QChunk, hot[q.inst].ch[QChunk].gen)) THEN QSkip
            ELSE [q EXCEPT !.pc = "before"]
    /\ UNCHANGED <<hot, rd, left>> /\ QueryQuiet

\* chunk_to_recordbatch
QueryBefore ==
    /\ q.pc = "before"
    /\ GenBefore("query", q.inst, QChunk)
    /\ q' = [q EXCEPT !.pc = "pin"]
    /\ UNCHANGED <<hot, left>> /\ QueryQuiet

QueryPin ==
    /\ q.pc = "pin"
    /\ Pin("query", q.inst, QChunk)
    /\ q' = [q EXCEPT !.pc = IF Pinnable(q.inst, QChunk) THEN "unpin" ELSE "after"]
    /\ UNCHANGED left /\ QueryQuiet

QueryUnpin ==
    /\ q.pc = "unpin"
    /\ Unpin("query", q.inst, QChunk)
    /\ q' = [q EXCEPT !.pc = "after"]
    /\ UNCHANGED <<rd, left>> /\ QueryQuiet

QueryAfter ==
    /\ q.pc = "after"
    /\ LET page == Page(Key(q.inst, QChunk, rd["query"].gen), rd["query"].n) IN
       q' = IF ~SameGen("query", q.inst, QChunk) THEN QSkip
            ELSE [Collect(RowsOf(page)) EXCEPT !.pc = "exclude", !.todo = Tail(@)]
    /\ UNCHANGED <<hot, rd, left>> /\ QueryQuiet

QueryDone ==
    /\ q.pc = "exclude" /\ q.todo = <<>>
    /\ q' = [q EXCEPT !.pc = "done"]
    /\ UNCHANGED <<hot, rd, left>> /\ QueryQuiet

(***************************************************************************)
(* The specification.                                                      *)
(***************************************************************************)
Writer == Push \/ Hide \/ Restore \/ Recycle \/ Replace
Compact == \/ StartPass \/ CheckState \/ CheckGen \/ Before \/ PinChunk \/ UnpinChunk \/ CheckAfter
           \/ AppendPage \/ SizeRoll \/ AgeRoll \/ Enforce \/ Restart
Query == \/ QueryCold \/ QueryHot \/ QueryExclude \/ QueryBefore \/ QueryPin
         \/ QueryUnpin \/ QueryAfter \/ QueryDone

Next == Writer \/ Compact \/ Stop \/ Crash \/ QueryStart \/ Query

Spec == Init /\ [][Next]_vars

\* The compactor thread and a query keep running; nobody has to write, to
\* stop the compactor or to kill it, and its owner restarts it.
FairSpec == Spec /\ WF_vars(Compact) /\ WF_vars(Query)

(***************************************************************************)
(* Properties.                                                             *)
(***************************************************************************)
TypeOK ==
    /\ \A i \in Insts, c \in Chunks :
          /\ hot[i].ch[c].state \in {"Empty", "Writing", "Sealed"}
          /\ hot[i].ch[c].gen \in Nat /\ hot[i].ch[c].n \in 0 .. ChunkRows
          /\ Cardinality(hot[i].ch[c].pins) <= LeaseSlots
    /\ cp.open # 0 => segs[cp.open].state = "open"
    /\ \A s \in DOMAIN segs : segs[s].pages # <<>>

\* "Exactly-once across restarts": no chunk generation is in two cold pages,
\* whatever deaths, restarts and evictions there were.
ExactlyOnce ==
    \A s, t \in Present : \A i \in DOMAIN segs[s].pages, j \in DOMAIN segs[t].pages :
        segs[s].pages[i].key = segs[t].pages[j].key => s = t /\ i = j

\* A query never counts a row twice, though a drained chunk stays in the ring.
CountedOnce == ~q.dup

\* A page holds all the rows its chunk had when it was sealed: the compactor
\* "drains only Sealed chunks and re-checks the chunk generation".  (A chunk
\* that is recycled between the test of its state and that of its generation
\* has the same generation before and after the read, and goes in partly.)
PageWhole ==
    \A s \in Present : \A p \in Range(segs[s].pages) : p.key \notin odd => p \in sealed

\* A query returns every row that stayed in one of the tiers from its
\* beginning to its end, though a chunk it found in a segment is left out of
\* the hot tier.  (A row that moves to a segment behind the query's back and
\* then leaves the ring is in neither tier when the query looks.)
QueryComplete == q.pc = "done" =>
    {r \in must.hot \cup must.cold : r.key \notin odd} \subseteq q.got

\* The chunk generation was drained: it is in a segment, or in one that retention
\* has removed since.
Archived(k) == \E s \in DOMAIN segs : \E p \in Range(segs[s].pages) : p.key = k

\* "A chunk is re-drained only when its generation advances past" the
\* watermark, so a watermark that covers a sealed chunk with rows means that
\* the chunk was drained, whatever was evicted meanwhile.  (Unless the chunk
\* yielded no rows because it was hidden or out of leases when it was read.)
MarkSound ==
    cp.src # 0 => \A c \in Chunks : LET h == hot[cp.src].ch[c] IN
        h.state = "Sealed" /\ h.gen <= cp.mark[c] /\ Key(cp.src, c, h.gen) \notin odd =>
            Archived(Key(cp.src, c, h.gen))

\* Watermarks and segments tell the same story, for a compactor that runs and for
\* one that starts again from the segments (compactor.rs: drain_view, prime_from_cold).
DrainSound == TypeOK /\ ExactlyOnce /\ MarkSound

\* A query over both tiers returns a row once, and leaves out none that stays put (memtable_sql.rs: scan).
QueryExact == CountedOnce /\ QueryComplete

Drained ==
    \A c \in Chunks : LET k == Key(cur, c, Ring.ch[c].gen) IN
        Ring.ch[c].state = "Sealed" /\ k \notin odd => Archived(k)

\* Once the writer rests, every sealed chunk in the ring of the current table
\* reaches a segment, also when the compactor dies and a new one is primed from
\* what it finds, unless it is told to stop.
EventuallyDrained == <>[](Drained \/ cp.pc = "done")
=============================================================================
