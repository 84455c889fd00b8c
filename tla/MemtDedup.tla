----------------------------- MODULE MemtDedup ------------------------------
(***************************************************************************)
(* The contents of a MEMT chunk: the two row writers with per-chunk string *)
(* deduplication (writer.rs, dedup.rs, memtable.rs), the iterator and the  *)
(* cursors that read rows back, plain or through the reference cache       *)
(* (row.rs, cache.rs), and the pins a forked child inherits.               *)
(*                                                                         *)
(* A chunk is an array of cells.  A 32-bit word (row length, length prefix *)
(* or back-reference) and a byte of a string take one cell each, so bytes  *)
(* that are read at a wrong offset are misread the way they would be.      *)
(* MemtRing models how a chunk is recycled and pinned access by access;    *)
(* here both are single steps and a pinned chunk is never recycled.        *)
(***************************************************************************)
EXTENDS Integers, SequencesExt

CONSTANTS
    HeaderSize,     \* cells of a ChunkHeader
    Tables,         \* the tables there may be: columns (all of them Str), chunks in
                    \* the ring, cells of a chunk (the header included), whether
                    \* columns are read through a CachedReader, the readers that run
                    \* from the beginning and those that may be forked from them
    Values,         \* the strings that are written
    MinDedupLen,    \* DedupState::min_dedup_len
    Key(_, _),      \* the hash of a column and a string; it may collide
    Readers,        \* reader processes
    MaxEntries,     \* CachedReader::max_entries
    MaxGen          \* bound: generations of a chunk

ASSUME DedupAssumption ==
    /\ {HeaderSize, MaxEntries, MaxGen} \subseteq Nat \ {0}
    /\ \A t \in Tables : /\ {t.cols, t.chunks} \subseteq Nat \ {0} /\ t.size \in Nat /\ t.size > HeaderSize
                         /\ t.cached \in BOOLEAN /\ t.first \cup t.forks \subseteq Readers
    /\ Values \subseteq Seq(Nat) /\ MinDedupLen \in Nat
    /\ Readers \cap {"none", "invalid"} = {}

VARIABLES
    table,                  \* the table's schema and how it is read
    mem, used, gen, wc,     \* the shared buffer
    seen, pending,          \* DedupState: hash -> offset in the write chunk
    row,                    \* the open RowWriter
    rows,                   \* history: the rows committed to each chunk
    rd,                     \* a reader's iterator and cursor
    cache                   \* its CachedReader

vars == <<table, mem, used, gen, wc, seen, pending, row, rows, rd, cache>>

NumCols == table.cols
NumChunks == table.chunks
ChunkSize == table.size
Cached == table.cached

Chunks == 0 .. NumChunks - 1
Cells == HeaderSize .. ChunkSize - 1
Cols == 1 .. NumCols
NoRow == [open |-> FALSE, start |-> 0, pos |-> 0, overflow |-> FALSE, vals |-> <<>>]
Idle == [phase |-> "idle", chunk |-> 0, gen |-> 0, end |-> 0, pos |-> 0, owner |-> "none",
         cur |-> 0, rend |-> 0, out |-> <<>>, want |-> <<>>]
NoKey == <<0, 0, 0>>
EmptyCache == [last |-> NoKey, range |-> <<0, 0>>, map |-> <<>>, order |-> <<>>, wpos |-> 1]

Init ==
    /\ table \in Tables
    /\ mem = [c \in Chunks |-> [o \in Cells |-> 0]]
    /\ used = [c \in Chunks |-> 0]
    /\ gen = [c \in Chunks |-> IF c = 0 THEN 1 ELSE 0]
    /\ wc = 0
    /\ seen = <<>> /\ pending = <<>>
    /\ row = NoRow
    /\ rows = [c \in Chunks |-> <<>>]
    /\ rd = [r \in Readers |-> [Idle EXCEPT !.phase = IF r \in table.first THEN "idle" ELSE "none"]]
    /\ cache = [r \in Readers |-> EmptyCache]

ReaderFrame == UNCHANGED <<rd, cache>>
WriterFrame == UNCHANGED <<mem, used, gen, wc, seen, pending, row, rows>>

----------------------------------------------------------------------------
\* The cells of m from offset a up to b, and m with s stored at offset a.
Slice(m, a, b) == [i \in 1 .. b - a |-> m[a + i - 1]]
Store(m, a, s) == [o \in Cells |-> IF o \in a .. a + Len(s) - 1 THEN s[o - a + 1] ELSE m[o]]

\* The string is known in this column and still stands at the offset.
Lookup(col, v) ==
    /\ Len(v) >= MinDedupLen
    /\ Key(col, v) \in DOMAIN seen
    /\ LET o == seen[Key(col, v)]
       IN /\ mem[wc][o] = Len(v)
          /\ o + Len(v) < ChunkSize
          /\ Slice(mem[wc], o + 1, o + 1 + Len(v)) = v

Ref(col, v) == <<-seen[Key(col, v)]>>
Inline(v) == <<Len(v)>> \o v

\* The entries of a row go into the dictionary in column order, so of two with one
\* key the later one stays.
Learn(dict, entries) ==
    LET of(k) == {i \in DOMAIN entries : entries[i][1] = k}
    IN [k \in DOMAIN dict \cup {entries[i][1] : i \in DOMAIN entries} |->
           IF of(k) = {} THEN dict[k]
           ELSE entries[CHOOSE i \in of(k) : \A j \in of(k) : j <= i][2]]

Entry(col, v, o) == IF Len(v) >= MinDedupLen THEN <<<<Key(col, v), o>>>> ELSE <<>>

----------------------------------------------------------------------------
(***************************************************************************)
(* The streaming writer.  Its exclusive borrow of the table keeps the      *)
(* other operations out while a row is open, but not the readers.          *)
(***************************************************************************)
BeginRow ==
    /\ ~row.open
    /\ LET start == HeaderSize + used[wc]
       IN row' = [NoRow EXCEPT !.open = TRUE, !.start = start, !.pos = start + 1]
    /\ pending' = <<>>
    /\ UNCHANGED <<mem, used, gen, wc, seen, rows>> /\ ReaderFrame

CanWrite(n) == ~row.overflow /\ row.pos + n <= ChunkSize

\* Mutant: the entry is published at once.
PutStr_now(v) ==
    /\ row.open /\ Len(row.vals) < NumCols
    /\ LET col == Len(row.vals) + 1
           dup == ~row.overflow /\ Lookup(col, v)
           cells == IF dup THEN Ref(col, v) ELSE Inline(v)
       IN IF CanWrite(Len(cells))
          THEN /\ mem' = [mem EXCEPT ![wc] = Store(@, row.pos, cells)]
               /\ seen' = IF dup THEN seen ELSE Learn(seen, Entry(col, v, row.pos))
               /\ row' = [row EXCEPT !.pos = @ + Len(cells), !.vals = Append(@, v)]
          ELSE /\ row' = [row EXCEPT !.overflow = TRUE, !.vals = Append(@, v)]
               /\ UNCHANGED <<mem, seen>>
    /\ UNCHANGED <<used, gen, wc, pending, rows>> /\ ReaderFrame

PutStr(v) ==
    /\ row.open /\ Len(row.vals) < NumCols
    /\ LET col == Len(row.vals) + 1
           dup == ~row.overflow /\ Lookup(col, v)
           cells == IF dup THEN Ref(col, v) ELSE Inline(v)
       IN IF CanWrite(Len(cells))
          THEN /\ mem' = [mem EXCEPT ![wc] = Store(@, row.pos, cells)]
               /\ pending' = IF dup THEN pending ELSE pending \o Entry(col, v, row.pos)
               /\ row' = [row EXCEPT !.pos = @ + Len(cells), !.vals = Append(@, v)]
          ELSE /\ row' = [row EXCEPT !.overflow = TRUE, !.vals = Append(@, v)]
               /\ UNCHANGED <<mem, pending>>
    /\ UNCHANGED <<used, gen, wc, seen, rows>> /\ ReaderFrame

\* finish(), after every column of the schema.  A row that overflowed commits
\* nothing.
Finish ==
    /\ row.open /\ Len(row.vals) = NumCols
    /\ row' = NoRow
    /\ pending' = <<>>
    /\ IF row.overflow
       THEN UNCHANGED <<mem, used, seen, rows>>
       ELSE /\ mem' = [mem EXCEPT ![wc][row.start] = row.pos - row.start - 1]
            /\ used' = [used EXCEPT ![wc] = row.pos - HeaderSize]
            /\ seen' = Learn(seen, pending)
            /\ rows' = [rows EXCEPT ![wc] = Append(@, row.vals)]
    /\ UNCHANGED <<gen, wc>> /\ ReaderFrame

\* Drop of a RowWriter that was not finished.
DropRow ==
    /\ row.open
    /\ row' = NoRow /\ pending' = <<>>
    /\ UNCHANGED <<mem, used, gen, wc, seen, rows>> /\ ReaderFrame

----------------------------------------------------------------------------
(***************************************************************************)
(* The batch writer: push_row, append_row and advance_chunk.               *)
(***************************************************************************)
\* The cells of a row's first n columns, the first one at offset o, and the entries
\* they add.  All lookups come before the first insertion; in a fresh chunk there
\* are none.
Encoding(vals, o, fresh) ==
    LET enc[n \in 0 .. NumCols] ==
            IF n = 0 THEN [cells |-> <<>>, entries |-> <<>>]
            ELSE LET done == enc[n - 1]
                     v == vals[n]
                 IN IF ~fresh /\ Lookup(n, v)
                    THEN [cells |-> done.cells \o Ref(n, v), entries |-> done.entries]
                    ELSE [cells |-> done.cells \o Inline(v),
                          entries |-> done.entries \o Entry(n, v, o + Len(done.cells))]
    IN enc

Encode(vals, o, fresh) == Encoding(vals, o, fresh)[NumCols]

\* Row vals in chunk c from `from' on, with the dictionary dict and the
\* encoding enc.
Commit(c, from, vals, enc, dict) ==
    /\ mem' = [mem EXCEPT ![c] = Store(@, HeaderSize + from, <<Len(enc.cells)>> \o enc.cells)]
    /\ used' = [used EXCEPT ![c] = from + 1 + Len(enc.cells)]
    /\ seen' = Learn(dict, enc.entries)

Fits(from, enc) == HeaderSize + from + 1 + Len(enc.cells) <= ChunkSize

AppendRow(vals) ==
    /\ ~row.open
    /\ LET enc == Encode(vals, HeaderSize + used[wc] + 1, FALSE)
       IN Fits(used[wc], enc) /\ Commit(wc, used[wc], vals, enc, seen)
    /\ rows' = [rows EXCEPT ![wc] = Append(@, vals)]
    /\ UNCHANGED <<gen, wc, pending, row>> /\ ReaderFrame

Holds(r, c) == rd[r].phase \notin {"none", "idle"} /\ rd[r].chunk = c /\ rd[r].owner = r

\* A chunk some process holds a lease on is left alone (ReadersPinned).
Recyclable(c) == gen[c] < MaxGen /\ \A r \in Readers : ~Holds(r, c)

NextChunk == (wc + 1) % NumChunks

\* DedupState::clear
Forgotten == <<>>

\* Mutant: the generation stays.
AdvanceChunk_gen ==
    /\ ~row.open /\ Recyclable(NextChunk)
    /\ wc' = NextChunk
    /\ used' = [used EXCEPT ![NextChunk] = 0]
    /\ rows' = [rows EXCEPT ![NextChunk] = <<>>]
    /\ seen' = Forgotten /\ pending' = <<>>
    /\ UNCHANGED <<mem, row, gen>> /\ ReaderFrame

AdvanceChunk ==
    /\ ~row.open /\ Recyclable(NextChunk)
    /\ wc' = NextChunk
    /\ gen' = [gen EXCEPT ![NextChunk] = @ + 1]
    /\ used' = [used EXCEPT ![NextChunk] = 0]
    /\ rows' = [rows EXCEPT ![NextChunk] = <<>>]
    /\ seen' = Forgotten /\ pending' = <<>>
    /\ UNCHANGED <<mem, row>> /\ ReaderFrame

\* push_row of a row that does not fit: the next chunk is taken, and the row
\* is written there, all inline, unless it is too large for any chunk.
PushRow(vals) ==
    /\ ~row.open /\ Recyclable(NextChunk)
    /\ ~Fits(used[wc], Encode(vals, HeaderSize + used[wc] + 1, FALSE))
    /\ wc' = NextChunk
    /\ gen' = [gen EXCEPT ![NextChunk] = @ + 1]
    /\ LET enc == Encode(vals, HeaderSize + 1, TRUE)
       IN IF Fits(0, enc)
          THEN /\ Commit(NextChunk, 0, vals, enc, Forgotten)
               /\ rows' = [rows EXCEPT ![NextChunk] = <<vals>>]
          ELSE /\ used' = [used EXCEPT ![NextChunk] = 0]
               /\ rows' = [rows EXCEPT ![NextChunk] = <<>>]
               /\ seen' = Forgotten
               /\ UNCHANGED mem
    /\ pending' = <<>>
    /\ UNCHANGED row /\ ReaderFrame

----------------------------------------------------------------------------
(***************************************************************************)
(* Validation, which every open of a buffer runs.                          *)
(***************************************************************************)
\* The column behind the one at offset o: the walk goes past a string by its length
\* and past a reference by one word.
After(m, o) == IF m[o] < 0 THEN o + 1 ELSE o + 1 + m[o]

\* The row behind the one at offset o; no row has a negative length.
Behind(m, o) == IF m[o] < 0 THEN ChunkSize + 1 ELSE o + 1 + m[o]

\* The offsets from `first' to `end' or over it, each the successor nxt of the one
\* before, after n = 0 .. max hops.
Hops(nxt, first, end, max) ==
    LET offs[n \in 0 .. max] ==
            IF n = 0 THEN <<first>>
            ELSE LET done == offs[n - 1]
                 IN IF Last(done) < end THEN Append(done, nxt[Last(done)]) ELSE done
    IN offs

\* Where the rows of a chunk start, and the end of the last one.
RowStarts(c) ==
    Hops([o \in Cells |-> Behind(mem[c], o)], HeaderSize, HeaderSize + used[c], ChunkSize)[ChunkSize]

\* Where the columns of the row at `start' do, and its end.
ColStarts(m, start) ==
    Hops([o \in Cells |-> After(m, o)], start + 1, start + 1 + m[start], NumCols)[NumCols]

\* validate_chunk_rows
ValidChunk(c) ==
    LET m == mem[c]
        starts == RowStarts(c)
        at == {starts[i] : i \in 1 .. Len(starts) - 1}
    IN /\ Last(starts) = HeaderSize + used[c]
       /\ \A o \in at : \A p \in Range(ColStarts(m, o)) :
             p < o + 1 + m[o] /\ m[p] < 0 => -m[p] \in HeaderSize .. HeaderSize + used[c] - 1

\* The writer goes away, in the middle of a row perhaps, and the next one opens
\* the buffer with an empty dictionary.
Reopen ==
    /\ \A c \in Chunks : ValidChunk(c)
    /\ row' = NoRow /\ pending' = <<>> /\ seen' = <<>>
    /\ UNCHANGED <<mem, used, gen, wc, rows>> /\ ReaderFrame

----------------------------------------------------------------------------
(***************************************************************************)
(* Readers.                                                                *)
(***************************************************************************)
Reading(r) == rd[r].phase \in {"rows", "cols"}

PinChunk(r, c) ==
    /\ rd[r].phase = "idle"
    /\ rd' = [rd EXCEPT ![r] = [Idle EXCEPT !.phase = "rows", !.chunk = c, !.gen = gen[c],
                                  !.pos = HeaderSize, !.end = HeaderSize + used[c],
                                  !.owner = r, !.want = rows[c]]]
    /\ UNCHANGED cache /\ WriterFrame

\* The iterator at the next row, or told by its length that the bytes are not a row.
Entered(r) ==
    LET len == mem[rd[r].chunk][rd[r].pos]
        rend == rd[r].pos + 1 + len
    IN IF len < 0 \/ rend > rd[r].end THEN [rd[r] EXCEPT !.phase = "stale"]
       ELSE [rd[r] EXCEPT !.phase = "cols", !.cur = rd[r].pos + 1, !.rend = rend,
                          !.pos = rend, !.out = Append(@, <<>>)]

\* RowIter::next
NextRow(r) ==
    /\ rd[r].phase = "rows" /\ rd[r].owner = r /\ rd[r].pos < rd[r].end
    /\ rd' = [rd EXCEPT ![r] = Entered(r)]
    /\ UNCHANGED cache /\ WriterFrame

\* A cursor that has returned v and stands at cur.
Returned(r, v, cur) ==
    LET out == [rd[r].out EXCEPT ![Len(rd[r].out)] = Append(@, v)]
    IN [rd[r] EXCEPT !.out = out, !.cur = cur,
                     !.phase = IF Len(Last(out)) = NumCols THEN "rows" ELSE "cols"]

\* Mutant: the generation is not part of the key.
CacheKey_offset(r, o) == <<rd[r].chunk, o, 0>>

CacheKey(r, o) == <<rd[r].chunk, o, rd[r].gen>>

Evict(k, old, map) == [x \in DOMAIN map \ {old} |-> map[x]]

\* resolve_slow: the range is cached, in place of the oldest one when full.
Remember(k, range, ca) ==
    LET full == Len(ca.order) = MaxEntries
        kept == IF full THEN Evict(k, ca.order[ca.wpos], ca.map) ELSE ca.map
    IN [last |-> k, range |-> range,
        map |-> [x \in DOMAIN kept \cup {k} |-> IF x = k THEN range ELSE kept[x]],
        order |-> IF full THEN [ca.order EXCEPT ![ca.wpos] = k] ELSE Append(ca.order, k),
        wpos |-> IF full THEN (ca.wpos % MaxEntries) + 1 ELSE ca.wpos]

\* resolve_range: the range of the string whose prefix is at o.
Resolve(r, o) ==
    LET k == CacheKey(r, o)
        ca == cache[r]
    IN IF k = ca.last THEN ca
       ELSE IF k \in DOMAIN ca.map THEN [ca EXCEPT !.last = k, !.range = ca.map[k]]
       ELSE Remember(k, <<o + 1, o + 1 + mem[rd[r].chunk][o]>>, ca)

\* The bounds a cursor checks before it reads: the string at prefix o ends
\* within `limit'.
Within(m, o, limit) == o \in HeaderSize .. limit - 1 /\ m[o] >= 0 /\ o + 1 + m[o] <= limit

\* read_lp and read_lp_cached.  A plain cursor asks for the process's own lease
\* first; a cached one does not.
ReadCol(r) ==
    /\ rd[r].phase = "cols" /\ (Cached \/ rd[r].owner = r)
    /\ LET m == mem[rd[r].chunk]
           cur == rd[r].cur
           o == IF m[cur] < 0 THEN -m[cur] ELSE cur
           stale == \/ cur >= rd[r].rend
                    \/ ~Within(m, o, IF m[cur] < 0 THEN ChunkSize ELSE rd[r].rend)
       IN \/ /\ stale
             /\ rd' = [rd EXCEPT ![r].phase = "stale"]
             /\ UNCHANGED cache
          \/ /\ ~stale /\ (m[cur] >= 0 \/ ~Cached)
             /\ rd' = [rd EXCEPT ![r] = Returned(r, Slice(m, o + 1, o + 1 + m[o]), After(m, cur))]
             /\ UNCHANGED cache
          \/ /\ ~stale /\ m[cur] < 0 /\ Cached
             /\ cache' = [cache EXCEPT ![r] = Resolve(r, o)]
             /\ LET range == cache'[r].range
                IN rd' = [rd EXCEPT ![r] = Returned(r, Slice(m, range[1], range[2]), cur + 1)]
    /\ WriterFrame

\* Iterator, row and cursor are dropped; the lease goes with them if it is the
\* process's own.
Unpin(r) ==
    /\ rd[r].phase \in {"rows", "cols", "stale"}
    /\ rd' = [rd EXCEPT ![r] = Idle]
    /\ UNCHANGED cache /\ WriterFrame

\* fork while rows are borrowed: the child has the reader's memory and no lease.
Fork(p, q) ==
    /\ Reading(p) /\ q \in table.forks /\ rd[q].phase = "none"
    /\ rd' = [rd EXCEPT ![q] = rd[p]]
    /\ cache' = [cache EXCEPT ![q] = cache[p]]
    /\ WriterFrame

Adoptable(r) == gen[rd[r].chunk] = rd[r].gen

\* ensure_current_process in a child: a lease of its own, if the chunk is still
\* the one the parent pinned.  The chunk may be hidden, or have no slot left.
Adopt(r) ==
    /\ Reading(r) /\ rd[r].owner \notin {r, "invalid"}
    /\ \/ Adoptable(r) /\ rd' = [rd EXCEPT ![r].owner = r]
       \/ rd' = [rd EXCEPT ![r].owner = "invalid", ![r].phase = "stale"]
    /\ UNCHANGED cache /\ WriterFrame

----------------------------------------------------------------------------
Write ==
    \/ BeginRow \/ (\E v \in Values : PutStr(v)) \/ Finish \/ DropRow
    \/ \E vals \in [Cols -> Values] : AppendRow(vals) \/ PushRow(vals)
    \/ AdvanceChunk \/ Reopen

Read(r) ==
    \/ \E c \in Chunks : PinChunk(r, c)
    \/ NextRow(r) \/ ReadCol(r) \/ Unpin(r)

Next ==
    /\ \/ Write
       \/ \E r \in Readers : Read(r) \/ Adopt(r)
       \/ \E p, q \in Readers : Fork(p, q)
    /\ UNCHANGED table

Spec == Init /\ [][Next]_vars

----------------------------------------------------------------------------
\* The types of the shared buffer, the dictionary and the readers.
TypeOK ==
    /\ mem \in [Chunks -> [Cells -> Int]]
    /\ used \in [Chunks -> 0 .. ChunkSize - HeaderSize]
    /\ gen \in [Chunks -> 0 .. MaxGen] /\ wc \in Chunks
    /\ \A k \in DOMAIN seen : seen[k] \in Cells
    /\ \A i \in DOMAIN pending : pending[i][2] \in Cells
    /\ row.open => row.pos \in HeaderSize + 1 .. ChunkSize + 1
    /\ \A r \in Readers : rd[r].phase \in {"none", "idle", "rows", "cols", "stale"}

\* What stands in a chunk decodes to the rows that were committed to it, in
\* order: a reference resolves to the string that was written, whatever rows
\* were dropped, overflowed, were left open by a crash or recycled before
\* (dedup.rs: lookup; writer.rs: finish, drop).
RowsDecode ==
    \A c \in Chunks :
        LET m == mem[c]
            starts == RowStarts(c)
            decode(p) == LET o == IF m[p] < 0 THEN -m[p] ELSE p
                         IN Slice(m, o + 1, o + 1 + m[o])
            decoded(s) == LET offs == ColStarts(m, s)
                         IN [j \in 1 .. Len(offs) - 1 |-> decode(offs[j])]
        IN rows[c] = [i \in 1 .. Len(starts) - 1 |-> decoded(starts[i])]

\* Every buffer the writer leaves behind can be opened again, by a reader in
\* the middle of a row or by the next writer after a crash (validate_buf).
Reopenable == \A c \in Chunks : ValidChunk(c)

\* Bytes below `used' never change while the generation stays the same, which
\* is what lets readers borrow them (row.rs: ChunkReadPin).
CommittedFixed ==
    [][\A c \in Chunks : gen'[c] = gen[c] =>
          /\ used'[c] >= used[c]
          /\ \A o \in HeaderSize .. HeaderSize + used[c] - 1 : mem'[c][o] = mem[c][o]]_vars

\* A reader gets the strings that were written and all the rows that were there
\* when it pinned the chunk, and is told that they are gone only if it never
\* held the lease itself (row.rs: ensure_current_process; cache.rs: resolve_range).
\* (A forked child that goes on with a cached cursor reads without a lease until
\* it comes to the next row.)
ReadsWritten ==
    \A r \in Readers :
        /\ rd[r].phase = "stale" => rd[r].owner # r
        /\ Reading(r) /\ rd[r].owner = r =>
             LET out == rd[r].out
                 want == rd[r].want
             IN /\ Len(out) <= Len(want)
                /\ \A i \in DOMAIN out : out[i] = SubSeq(want[i], 1, Len(out[i]))
                /\ (rd[r].phase = "rows" /\ rd[r].pos >= rd[r].end) => Len(out) = Len(want)

\* The queue of the reference cache holds each cached key once, and never more
\* than the cap: eviction takes out of the map what it takes out of the queue
\* (cache.rs: resolve_slow).
CacheFifo ==
    \A r \in Readers :
        LET ca == cache[r]
        IN /\ Len(ca.order) <= MaxEntries
           /\ IsInjective(ca.order)
           /\ Range(ca.order) = DOMAIN ca.map

\* The shared bytes are right between any two steps, and so is a reader's cache.
BufferSound == TypeOK /\ RowsDecode /\ Reopenable /\ CacheFifo

=============================================================================
