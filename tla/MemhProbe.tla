----------------------------- MODULE MemhProbe ------------------------------
(***************************************************************************)
(* Open addressing in the MEMH table (memh/table.rs): linear probing over  *)
(* slots with tombstones, values in the slot or in an append-only arena.   *)
(* A slot is read and committed in one step, which MemhSlot is about; the  *)
(* writer appends a record and then commits a slot, and readers probe slot *)
(* by slot while it does.                                                  *)
(***************************************************************************)
EXTENDS Integers, FiniteSetsExt

CONSTANTS
    Keys, None,
    NumBuckets,
    Home,           \* the bucket a key's hash selects
    Scalars,        \* values stored in the slot
    Strings,        \* values stored in the arena
    Readers,
    ArenaCap,       \* arena capacity
    RecLen,         \* record length per flag: PUT, TOMBSTONE, PUT_INLINE
    MaxOps,         \* bound: operations of the writer
    MaxReads        \* bound: operations of the readers

ASSUME ProbeAssumption ==
    /\ NumBuckets \in Nat \ {0}
    /\ Home \in [Keys -> 0 .. NumBuckets - 1]
    /\ RecLen \in [{"PUT", "TOMBSTONE", "PUT_INLINE"} -> Nat \ {0}]
    /\ {ArenaCap, MaxOps, MaxReads} \subseteq Nat

VARIABLES
    table,          \* the slots: tag, key, head, inline value; the head is the
                    \* record itself, as a record of the arena never changes
    bump,           \* arena_bump
    wr,             \* the writer between its record and its slot
    rd,             \* locals of get and iter
    lookup,         \* history: the lookups as KvMap sees them
    ops, reads

vars == <<table, bump, wr, rd, lookup, ops, reads>>

Values == Scalars \cup Strings
Buckets == 0 .. NumBuckets - 1

\* u32::MAX as the head of a tombstone for which the arena had no room.
NoRecord == [flag |-> "NONE", idx |-> 0, key |-> None, val |-> None]
EmptySlot == [tag |-> "EMPTY", key |-> None, head |-> NoRecord, val |-> None]
Live(slot) == slot.tag \in {"OCCUPIED", "INLINE"}

\* The i-th bucket on the probe path of a key, and the positions a probe
\* reaches: it stops at the first EMPTY slot.
Probe(k, i) == (Home[k] + i) % NumBuckets
Path(tb, k) == {i \in Buckets : \A j \in 0 .. i - 1 : tb[Probe(k, j)].tag # "EMPTY"}
At(tb, k, tag) == {i \in Path(tb, k) : tb[Probe(k, i)].tag = tag}
Hits(tb, k) == {i \in Path(tb, k) : Live(tb[Probe(k, i)]) /\ tb[Probe(k, i)].key = k}

\* What get returns for a live slot of the key.
ValueOf(slot) == IF slot.tag = "INLINE" THEN slot.val ELSE slot.head.val

MapOf(tb) == [k \in Keys |-> IF Hits(tb, k) = {} THEN None
                             ELSE ValueOf(tb[Probe(k, Min(Hits(tb, k)))])]
Current == MapOf(table)

Resting == [pc |-> "idle", key |-> None, seen |-> {}, res |-> None]
IdleReader == [op |-> "none", i |-> 0, stable |-> {}, got |-> [k \in Keys |-> 0]]
IdleWriter == [pc |-> "idle", key |-> None, val |-> None, idx |-> 0, head |-> NoRecord]

Init ==
    /\ table = [b \in Buckets |-> EmptySlot]
    /\ bump = 0
    /\ wr = IdleWriter
    /\ rd = [r \in Readers |-> IdleReader]
    /\ lookup = [r \in Readers |-> Resting]
    /\ ops = 0 /\ reads = 0

(***************************************************************************)
(* insert and remove.  The probe of the writer is one step, for nobody     *)
(* else changes the slots.                                                 *)
(***************************************************************************)
\* Mutant: the first tombstone ends the search.
Target_tomb(tb, k) ==
    LET tombs == At(tb, k, "TOMBSTONE") IN
    IF tombs # {} THEN {Probe(k, Min(tombs))}
    ELSE {Probe(k, i) : i \in IF Hits(tb, k) # {} THEN {Min(Hits(tb, k))}
                              ELSE At(tb, k, "EMPTY")}

\* The bucket insert writes: the key's own, else the first tombstone of its
\* path, else the EMPTY slot that ends it; none when the table is full.
Target(tb, k) ==
    LET tombs == At(tb, k, "TOMBSTONE") IN
    {Probe(k, i) : i \in IF Hits(tb, k) # {} THEN {Min(Hits(tb, k))}
                         ELSE IF tombs # {} THEN {Min(tombs)}
                         ELSE At(tb, k, "EMPTY")}

Record(flag, idx, k, v) == [flag |-> flag, idx |-> idx, key |-> k, val |-> v]
Flag(v) == IF v \in Scalars THEN "PUT_INLINE" ELSE "PUT"
Fits(flag) == bump + RecLen[flag] <= ArenaCap

\* The record and then arena_bump are stored.
AppendRecord(rec) == bump' = bump + RecLen[rec.flag]

\* What a commit means to the lookups and iterations under way: the key's
\* new value may be returned from now on, and a key that is removed is no
\* longer one an iteration has to yield.
Notice(k) ==
    LET v == MapOf(table')[k] IN
    /\ lookup' = [r \in Readers |->
                    IF lookup[r].pc = "pending" /\ lookup[r].key = k
                      THEN [lookup[r] EXCEPT !.seen = @ \cup {v}] ELSE lookup[r]]
    /\ rd' = [r \in Readers |-> IF v = None THEN [rd[r] EXCEPT !.stable = @ \ {k}] ELSE rd[r]]

Quiet == UNCHANGED <<rd, lookup, reads>>

\* write_update, hot path: a scalar over a scalar needs no record.
UpdateInline(k, v) ==
    /\ wr.pc = "idle" /\ ops < MaxOps /\ v \in Scalars
    /\ \E idx \in Target(table, k) :
          /\ table[idx].tag = "INLINE" /\ table[idx].key = k
          /\ table' = [table EXCEPT ![idx].val = v]
    /\ ops' = ops + 1
    /\ UNCHANGED <<bump, wr, reads>> /\ Notice(k)

\* The record of write_new_entry and of write_update's other cases.  A full
\* table or a full arena is an error that changes nothing.
InsertRecord(k, v) ==
    /\ wr.pc = "idle" /\ ops < MaxOps /\ Fits(Flag(v))
    /\ \E idx \in Target(table, k) :
          /\ ~(table[idx].tag = "INLINE" /\ table[idx].key = k /\ v \in Scalars)
          /\ AppendRecord(Record(Flag(v), idx, k, v))
          /\ wr' = [pc |-> "put", key |-> k, val |-> v, idx |-> idx,
                    head |-> Record(Flag(v), idx, k, v)]
    /\ ops' = ops + 1
    /\ UNCHANGED table /\ Quiet

\* commit_slot for a new key or a scalar; commit_slot_head, which leaves the
\* inline value alone, where a string replaces a value of the same key.
CommitPut ==
    /\ wr.pc = "put"
    /\ LET old == table[wr.idx]
           tag == IF wr.val \in Scalars THEN "INLINE" ELSE "OCCUPIED" IN
       table' = [table EXCEPT ![wr.idx] =
                   [tag |-> tag, key |-> wr.key, head |-> wr.head,
                    val |-> IF tag = "INLINE" THEN wr.val
                            ELSE IF Live(old) THEN old.val ELSE None]]
    /\ wr' = IdleWriter
    /\ UNCHANGED <<bump, ops, reads>> /\ Notice(wr.key)

\* remove: the tombstone record, or none when the arena is full.
RemoveRecord(k) ==
    /\ wr.pc = "idle" /\ ops < MaxOps /\ Hits(table, k) # {}
    /\ LET idx == Probe(k, Min(Hits(table, k))) IN
       IF Fits("TOMBSTONE")
         THEN /\ AppendRecord(Record("TOMBSTONE", idx, k, None))
              /\ wr' = [IdleWriter EXCEPT !.pc = "remove", !.key = k, !.idx = idx,
                                          !.head = Record("TOMBSTONE", idx, k, None)]
         ELSE /\ wr' = [IdleWriter EXCEPT !.pc = "remove", !.key = k, !.idx = idx]
              /\ UNCHANGED bump
    /\ ops' = ops + 1
    /\ UNCHANGED table /\ Quiet

CommitRemove ==
    /\ wr.pc = "remove"
    /\ table' = [table EXCEPT ![wr.idx].tag = "TOMBSTONE", ![wr.idx].head = wr.head]
    /\ wr' = IdleWriter
    /\ UNCHANGED <<bump, ops, reads>> /\ Notice(wr.key)

\* The writer dies between the record and the slot; the record is lost room.
WriterDies ==
    /\ wr.pc # "idle"
    /\ wr' = IdleWriter
    /\ UNCHANGED <<table, bump, ops>> /\ Quiet

Writer ==
    \/ \E k \in Keys : RemoveRecord(k)
    \/ \E k \in Keys, v \in Values : UpdateInline(k, v) \/ InsertRecord(k, v)
    \/ CommitPut \/ CommitRemove \/ WriterDies

(***************************************************************************)
(* MemhView::get                                                           *)
(***************************************************************************)
Still == UNCHANGED <<table, bump, wr, ops>>

Get(r, k) ==
    /\ rd[r].op = "none" /\ lookup[r].pc = "idle" /\ reads < MaxReads
    /\ rd' = [rd EXCEPT ![r].op = "get", ![r].i = 0]
    /\ lookup' = [lookup EXCEPT ![r] = [pc |-> "pending", key |-> k,
                                        seen |-> {Current[k]}, res |-> None]]
    /\ reads' = reads + 1
    /\ Still

Finish(r, v) ==
    /\ rd' = [rd EXCEPT ![r] = IdleReader]
    /\ lookup' = [lookup EXCEPT ![r].pc = "done", ![r].res = v]

\* Mutant: a tombstone ends the search.
GetStep_tomb(r) ==
    /\ rd[r].op = "get"
    /\ LET k == lookup[r].key
           slot == table[Probe(k, rd[r].i)] IN
       IF ~Live(slot) THEN Finish(r, None)
       ELSE IF slot.head.key = k THEN Finish(r, ValueOf(slot))
       ELSE IF rd[r].i + 1 = NumBuckets THEN Finish(r, None)
       ELSE rd' = [rd EXCEPT ![r].i = @ + 1] /\ UNCHANGED lookup
    /\ UNCHANGED reads /\ Still

\* One slot of the path.
GetStep(r) ==
    /\ rd[r].op = "get"
    /\ LET k == lookup[r].key
           slot == table[Probe(k, rd[r].i)] IN
       IF slot.tag = "EMPTY" THEN Finish(r, None)
       ELSE IF Live(slot) /\ slot.head.key = k THEN Finish(r, ValueOf(slot))
       ELSE IF rd[r].i + 1 = NumBuckets THEN Finish(r, None)
       ELSE rd' = [rd EXCEPT ![r].i = @ + 1] /\ UNCHANGED lookup
    /\ UNCHANGED reads /\ Still

GetReturn(r) ==
    /\ lookup[r].pc = "done"
    /\ lookup' = [lookup EXCEPT ![r] = Resting]
    /\ UNCHANGED <<rd, reads>> /\ Still

(***************************************************************************)
(* MemhView::iter, one slot per step.                                      *)
(***************************************************************************)
Iter(r) ==
    /\ rd[r].op = "none" /\ lookup[r].pc = "idle" /\ reads < MaxReads
    /\ rd' = [rd EXCEPT ![r] = [IdleReader EXCEPT !.op = "iter",
                                    !.stable = {k \in Keys : Current[k] # None}]]
    /\ reads' = reads + 1
    /\ UNCHANGED lookup /\ Still

\* A slot is yielded when it is live and its record is its own and of its kind.
Yields(idx) ==
    LET slot == table[idx] IN
    /\ Live(slot)
    /\ slot.head.idx = idx
    /\ slot.head.flag = IF slot.tag = "INLINE" THEN "PUT_INLINE" ELSE "PUT"

\* The keys yielded so far, and what the slot adds to them.
Tally(got, idx) ==
    IF Yields(idx) THEN [got EXCEPT ![table[idx].head.key] = @ + 1] ELSE got

\* compact: what iter yields is inserted into a fresh table, in slot order.
Inserted(tb, k, v) ==
    LET idx == CHOOSE b \in Target(tb, k) : TRUE IN
    [tb EXCEPT ![idx] = [tag |-> IF v \in Scalars THEN "INLINE" ELSE "OCCUPIED",
                         key |-> k, head |-> Record(Flag(v), idx, k, v),
                         val |-> IF v \in Scalars THEN v ELSE None]]

\* The copy after the first n slots.
Copied[n \in 0 .. NumBuckets] ==
    IF n = 0 THEN [b \in Buckets |-> EmptySlot]
    ELSE IF Yields(n - 1)
      THEN Inserted(Copied[n - 1], table[n - 1].head.key, ValueOf(table[n - 1]))
      ELSE Copied[n - 1]

Compacted == Copied[NumBuckets]

\* Mutant: the slot after one that is not yielded is skipped with it.
IterStep_skip(r) ==
    /\ rd[r].op = "iter" /\ rd[r].i < NumBuckets
    /\ rd' = [rd EXCEPT ![r].i = IF Yields(@) THEN @ + 1 ELSE Min({@ + 2, NumBuckets}),
                        ![r].got = Tally(@, rd[r].i)]
    /\ UNCHANGED <<lookup, reads>> /\ Still

IterStep(r) ==
    /\ rd[r].op = "iter" /\ rd[r].i < NumBuckets
    /\ rd' = [rd EXCEPT ![r].i = @ + 1,
                        ![r].got = Tally(@, rd[r].i)]
    /\ UNCHANGED <<lookup, reads>> /\ Still

IterEnd(r) ==
    /\ rd[r].op = "iter" /\ rd[r].i = NumBuckets
    /\ rd' = [rd EXCEPT ![r] = IdleReader]
    /\ UNCHANGED <<lookup, reads>> /\ Still

Reader(r) ==
    \/ \E k \in Keys : Get(r, k)
    \/ GetStep(r) \/ GetReturn(r) \/ Iter(r) \/ IterStep(r) \/ IterEnd(r)

Next == Writer \/ \E r \in Readers : Reader(r)

Spec == Init /\ [][Next]_vars

(***************************************************************************)
(* Properties                                                              *)
(***************************************************************************)
\* insert and remove: a key has at most one live slot, and the probe from its
\* home bucket reaches it, whatever was removed in between.
OneSlot ==
    /\ \A b, c \in Buckets :
          Live(table[b]) /\ Live(table[c]) /\ table[b].key = table[c].key => b = c
    /\ \A b \in Buckets : Live(table[b]) =>
          \E i \in Path(table, table[b].key) : Probe(table[b].key, i) = b

\* validate_memh: at every moment a process that opens the table accepts it.
Validates ==
    /\ bump <= ArenaCap
    /\ \A b \in Buckets :
          \/ table[b].tag = "EMPTY"
          \/ table[b].tag = "TOMBSTONE" /\ table[b].head = NoRecord
          \/ table[b].head.idx = b /\ table[b].head.key = table[b].key

\* iter: a key that is there from beginning to end is yielded exactly once,
\* although other keys come and go.
IterComplete ==
    \A r \in Readers : rd[r].op = "iter" /\ rd[r].i = NumBuckets =>
        \A k \in rd[r].stable : rd[r].got[k] = 1

\* compact: the copy has the same value for every key, whatever the order in
\* which collisions are inserted again.
CompactKeeps == MapOf(Compacted) = Current

\* Whatever was inserted, removed and compacted, and with the arena full: a key has
\* one slot, opening the table accepts it, and a compacted copy has the same keys
\* and values (table.rs: insert, remove, compact, validate).
TableSound == OneSlot /\ Validates /\ CompactKeeps

\* The table implements the map: get returns a value its key had during the
\* call, and a crash of the writer changes no value.
Map == INSTANCE KvMap WITH map <- Current
MapSpec == Map!Spec

=============================================================================
