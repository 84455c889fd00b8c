---------------------------- MODULE MemcSegment -----------------------------
(***************************************************************************)
(* One MEMC segment file (memc/writer.rs, memc/reader.rs): the writer      *)
(* appends table and page blocks, each one a header, a payload and zero    *)
(* padding, and seals the file with a footer and a rewritten header.  A    *)
(* reader may open the file at any moment, and the writer may die or have  *)
(* a write fail at any cell; what opening the file yields is a function of *)
(* the bytes, so the properties are about every state.                     *)
(*                                                                         *)
(* A cell is 32 bytes: segment and block headers take two, the footer one  *)
(* (16 bytes, short of a block header) and two for each page entry.        *)
(***************************************************************************)
EXTENDS Integers, SequencesExt, FiniteSetsExt

CONSTANTS
    Tables,         \* table names
    PayloadLens,    \* payload lengths in cells
    Stamps,         \* timestamps of a page
    MaxPages,       \* bound: pages appended
    MaxFails        \* bound: writes that fail (a full disk)

ASSUME SegmentAssumption ==
    /\ PayloadLens \subseteq Nat \ {0} /\ Stamps \subseteq Nat
    /\ MaxPages \in Nat /\ MaxFails \in Nat

VARIABLES
    file,           \* the cells on disk
    wr,             \* SegmentWriter
    op,             \* the call under way, and what it has left to write
    acked,          \* history: the pages whose append returned Ok
    fails

vars == <<file, wr, op, acked, fails>>

HeaderCells == 2
NoBound == -1       \* TS_MIN_INIT and TS_MAX_INIT: an empty range
Err == [ok |-> FALSE]

\* The bytes of each structure.  Every header carries a checksum of its own,
\* so two cells of different structures never decode as one.
Cells(what, rec, n) == [i \in 1 .. n |-> [what |-> what, rec |-> rec, i |-> i]]
SegmentHeader(h) == Cells("seg", h, HeaderCells)
Payload(b) == Cells("payload", b, b.len)
Align64(n) == n + (n % 2)
BlockLen(b) == Align64(HeaderCells + b.len)
Padding(b) == Cells("pad", "zero", BlockLen(b) - HeaderCells - b.len)
BlockBytes(b) == Cells("block", b, HeaderCells) \o Payload(b) \o Padding(b)
Footer(pages) == Cells("footer", pages, 1 + 2 * Len(pages))

Unsealed == [sealed |-> FALSE, foff |-> 0, n |-> 0, tmin |-> NoBound, tmax |-> NoBound]
TableBlock(id, t) == [kind |-> "MCTB", id |-> id, name |-> t, len |-> 1, ts |-> NoBound, src |-> 0]
PageBlock(id, len, ts, src) ==
    [kind |-> "MCPG", id |-> id, name |-> "", len |-> len, ts |-> ts, src |-> src]

Idle == [pc |-> "idle", todo |-> <<>>, block |-> <<>>]

Init ==
    /\ file = <<>>
    /\ wr = [alive |-> TRUE, offset |-> 0, ids |-> <<>>, next_id |-> 1, pages |-> <<>>,
             tmin |-> NoBound, tmax |-> NoBound]
    /\ op = [pc |-> "create", todo |-> SegmentHeader(Unsealed), block |-> <<>>]
    /\ acked = <<>>
    /\ fails = 0

(***************************************************************************)
(* The writer.  A call first determines the bytes and then writes them;    *)
(* its bookkeeping follows the last byte.                                  *)
(***************************************************************************)
\* write_all advances by a cell; all writes but the last one of seal append.
WriteCell ==
    /\ wr.alive /\ op.todo # <<>>
    /\ file' = Append(file, Head(op.todo))
    /\ op' = [op EXCEPT !.todo = Tail(@)]
    /\ UNCHANGED <<wr, acked, fails>>

Created ==
    /\ wr.alive /\ op.pc = "create" /\ op.todo = <<>>
    /\ wr' = [wr EXCEPT !.offset = HeaderCells]
    /\ op' = Idle
    /\ UNCHANGED <<file, acked, fails>>

\* register_table takes an id before it writes; the compactor registers a
\* table once per segment, and again when that failed.
RegisterTable(t) ==
    /\ wr.alive /\ op.pc = "idle"
    /\ \A id \in DOMAIN wr.ids : wr.ids[id] # t
    /\ LET b == TableBlock(wr.next_id, t) IN
       op' = [pc |-> "block", todo |-> BlockBytes(b), block |-> b]
    /\ wr' = [wr EXCEPT !.next_id = @ + 1, !.ids = Append(@, "failed")]
    /\ UNCHANGED <<file, acked, fails>>

AppendPage(id, len, ts) ==
    /\ wr.alive /\ op.pc = "idle" /\ Len(acked) < MaxPages
    /\ id \in DOMAIN wr.ids /\ wr.ids[id] \in Tables
    /\ LET b == PageBlock(id, len, ts, Len(acked) + 1) IN
       op' = [pc |-> "block", todo |-> BlockBytes(b), block |-> b]
    /\ UNCHANGED <<file, wr, acked, fails>>

\* Mutant: the offset is not moved past the padding.
Advance_unpadded(b) ==
    LET dir == [id |-> b.id, ts |-> b.ts, src |-> b.src, off |-> wr.offset, len |-> BlockLen(b)] IN
    [wr EXCEPT !.offset = @ + HeaderCells + b.len, !.pages = Append(@, dir)]

\* What the writer records of a complete page block: its directory entry
\* and, if the page is stamped, the range of the segment.
Advance(b) ==
    LET dir == [id |-> b.id, ts |-> b.ts, src |-> b.src, off |-> wr.offset, len |-> BlockLen(b)]
        stamped == b.ts # NoBound
    IN  [wr EXCEPT !.offset = @ + BlockLen(b),
                   !.pages = Append(@, dir),
                   !.tmin = IF stamped /\ (@ = NoBound \/ b.ts < @) THEN b.ts ELSE @,
                   !.tmax = IF stamped /\ b.ts > @ THEN b.ts ELSE @]

\* write_block returns Ok and the caller records the table or the page.
BlockDone ==
    /\ wr.alive /\ op.pc = "block" /\ op.todo = <<>>
    /\ IF op.block.kind = "MCTB"
         THEN /\ wr' = [wr EXCEPT !.offset = @ + BlockLen(op.block), !.ids[op.block.id] = op.block.name]
              /\ UNCHANGED acked
         ELSE /\ wr' = Advance(op.block)
              /\ acked' = Append(acked, op.block)
    /\ op' = Idle
    /\ UNCHANGED <<file, fails>>

\* seal writes the footer behind the last block ...
SealFooter ==
    /\ wr.alive /\ op.pc = "idle"
    /\ op' = [pc |-> "seal", todo |-> Footer(wr.pages), block |-> <<>>]
    /\ UNCHANGED <<file, wr, acked, fails>>

SealedHeader == [sealed |-> TRUE, foff |-> wr.offset, n |-> Len(wr.pages),
                 tmin |-> wr.tmin, tmax |-> wr.tmax]

\* ... and then the sealed header over the old one, 64 bytes in one write.
SealHeader ==
    /\ wr.alive /\ op.pc = "seal" /\ op.todo = <<>>
    /\ file' = SegmentHeader(SealedHeader) \o SubSeq(file, HeaderCells + 1, Len(file))
    /\ wr' = [wr EXCEPT !.alive = FALSE]
    /\ op' = Idle
    /\ UNCHANGED <<acked, fails>>

\* A write fails after some of its cells: the call returns the error with
\* the writer's fields as they were.  A failed create or seal drops the
\* writer; after a failed block the compactor keeps using it.
WriteFails ==
    /\ wr.alive /\ op.todo # <<>> /\ fails < MaxFails
    /\ fails' = fails + 1
    /\ op' = Idle
    /\ wr' = [wr EXCEPT !.alive = op.pc = "block"]
    /\ UNCHANGED <<file, acked>>

\* The process dies, or drops the writer without sealing.
Crash ==
    /\ wr.alive
    /\ wr' = [wr EXCEPT !.alive = FALSE]
    /\ UNCHANGED <<file, op, acked, fails>>

Next ==
    \/ WriteCell \/ Created \/ BlockDone \/ SealFooter \/ SealHeader \/ WriteFails \/ Crash
    \/ \E t \in Tables : RegisterTable(t)
    \/ \E id \in 1 .. wr.next_id, len \in PayloadLens, ts \in Stamps \cup {NoBound} :
          AppendPage(id, len, ts)

Spec == Init /\ [][Next]_vars

(***************************************************************************)
(* The reader, as a function of the file.                                  *)
(***************************************************************************)
At(f, off, cells) == /\ off + Len(cells) <= Len(f)
                     /\ SubSeq(f, off + 1, off + Len(cells)) = cells

\* SegmentHeader::decode and BlockHeader::decode: the blocks, of those the
\* cell names, whose header is intact at off.
HeadersAt(f, off, what) ==
    {r \in {f[off + 1].rec} : At(f, off, Cells(what, r, HeaderCells))}

\* Mutant: the checksum is not verified.
PayloadOk_skip(f, off, b) == TRUE

\* The payload behind a block header matches the header's checksum.
PayloadOk(f, off, b) == At(f, off + HeaderCells, Payload(b))

\* The payload and the padded block end within the limit.
FitsIn(off, b, limit) ==
    /\ off + HeaderCells + b.len <= limit
    /\ off + BlockLen(b) <= limit

\* The scan ends at off: only an unsealed file may have bytes behind it.
Stop(off, limit, sealed) == IF sealed /\ off # limit THEN Err ELSE [ok |-> TRUE, blocks |-> <<>>]

\* scan_blocks: tables and pages from off on, or an error.  A header that
\* does not decode or a payload that fails its checksum is an error; a block
\* that ends behind the limit ends the scan of an unsealed file.
ScanBlocks(f, limit, sealed) ==
    LET scan[off \in 0 .. limit] ==
            IF off + HeaderCells > limit THEN Stop(off, limit, sealed)
            ELSE IF HeadersAt(f, off, "block") = {} THEN Err
            ELSE LET b == f[off + 1].rec IN
                 IF ~FitsIn(off, b, limit) THEN Stop(off, limit, sealed)
                 ELSE IF ~PayloadOk(f, off, b) THEN Err
                 ELSE LET rest == scan[off + BlockLen(b)] IN
                      IF rest.ok
                        THEN [ok |-> TRUE, blocks |-> <<[off |-> off, block |-> b]>> \o rest.blocks]
                        ELSE Err
    IN  scan[HeaderCells]

DirEntry(e) == [id |-> e.block.id, ts |-> e.block.ts, src |-> e.block.src,
                off |-> e.off, len |-> BlockLen(e.block)]
OfKind(blocks, k) == SelectSeq(blocks, LAMBDA e : e.block.kind = k)

\* load_footer: the page directory the header points to, verified.
FooterOk(f, h) ==
    /\ h.foff > 0 /\ h.foff < Len(f)
    /\ f[h.foff + 1].what = "footer"
    /\ LET pages == f[h.foff + 1].rec IN
       /\ Len(pages) = h.n /\ At(f, h.foff, Footer(pages))
       /\ \A i \in DOMAIN pages : pages[i].off >= HeaderCells /\ pages[i].off + pages[i].len <= h.foff

\* SegmentReader::open: the segment's range, table ids and page directory.
Open(f) ==
    IF Len(f) < HeaderCells \/ HeadersAt(f, 0, "seg") = {} THEN Err
    ELSE LET h == f[1].rec
             limit == IF h.foff # 0 THEN h.foff ELSE Len(f)
             scan == ScanBlocks(f, limit, h.sealed)
         IN  IF (h.sealed /\ ~FooterOk(f, h)) \/ ~scan.ok THEN Err
             ELSE [ok |-> TRUE, sealed |-> h.sealed, tmin |-> h.tmin, tmax |-> h.tmax,
                   ids |-> {e.block.id : e \in Range(OfKind(scan.blocks, "MCTB"))},
                   pages |-> IF h.sealed THEN f[h.foff + 1].rec
                             ELSE [i \in DOMAIN OfKind(scan.blocks, "MCPG") |->
                                     DirEntry(OfKind(scan.blocks, "MCPG")[i])]]

\* read_page: the block the directory entry points to, if it is the page.
ReadPage(f, p) ==
    {b \in HeadersAt(f, p.off, "block") :
        /\ b.kind = "MCPG" /\ b.id = p.id /\ BlockLen(b) = p.len
        /\ At(f, p.off + HeaderCells, Payload(b))}

(***************************************************************************)
(* Properties.                                                             *)
(***************************************************************************)
TypeOK ==
    /\ \A i \in DOMAIN file : file[i].what \in {"seg", "block", "payload", "pad", "footer"}
    /\ wr.alive \in BOOLEAN /\ wr.offset \in Nat /\ wr.next_id = Len(wr.ids) + 1
    /\ op.pc \in {"idle", "create", "block", "seal"}
    /\ \A i \in DOMAIN acked : acked[i].kind = "MCPG"
    /\ fails \in 0 .. MaxFails

\* The pages of an open result, as the blocks they decode to.
Contents(f, o) == [i \in DOMAIN o.pages |-> ReadPage(f, o.pages[i])]

\* The pages whose append returned Ok, in order, and at most the one under
\* way besides, each of a table the reader knows.
HoldsAcked(o) ==
    /\ Len(o.pages) \in {Len(acked), Len(acked) + 1}
    /\ \A i \in DOMAIN acked : ReadPage(file, o.pages[i]) = {acked[i]}
    /\ \A i \in DOMAIN o.pages : ReadPage(file, o.pages[i]) # {} /\ o.pages[i].id \in o.ids

\* Blocks are on disk before append_page returns, so any reader that opens the
\* file outside of seal, also after the writer died, reads back every page
\* whose append succeeded.  (Behind a footer whose header was never rewritten,
\* and behind the fragment of a write that failed, a file does not open.)
Acknowledged ==
    LET footer == \E i \in DOMAIN file : file[i].what = "footer" IN
    Len(file) >= HeaderCells /\ ~footer /\ fails = 0 => Open(file).ok /\ HoldsAcked(Open(file))

\* A reader never takes torn bytes for data, even when a write failed midway
\* and the writer went on behind the fragment: a file that opens at all opens
\* to the acknowledged pages.
NeverGarbage == LET o == Open(file) IN o.ok => HoldsAcked(o)

\* A file whose header says it is sealed opens, unless a write failed on the
\* way; its directory is exactly the acknowledged pages, and every entry of it
\* reads back.
SealedFaithful ==
    LET o == Open(file) IN
    (file # <<>> /\ file[1].what = "seg" /\ file[1].rec.sealed) /\ fails = 0 =>
        /\ o.ok /\ o.sealed
        /\ Contents(file, o) = [i \in DOMAIN acked |-> {acked[i]}]
        /\ \A i \in DOMAIN o.pages : o.pages[i].id \in o.ids

\* A query that skips a whole segment because its range lies outside the
\* bounds skips no page with a timestamp inside them (memtable_sql.rs cold_scan).
SegmentPruneSound ==
    LET o == Open(file) IN
    o.ok /\ o.sealed /\ o.tmin <= o.tmax /\ o.tmin # NoBound =>
        \A i \in DOMAIN o.pages : o.pages[i].ts # NoBound =>
            o.tmin <= o.pages[i].ts /\ o.pages[i].ts <= o.tmax

\* What a file that opens yields, at any moment of its writer's life and after it:
\* no garbage, and no page that a query would wrongly skip (reader.rs: open, scan).
FileSound == TypeOK /\ NeverGarbage /\ SegmentPruneSound

\* Everything acknowledged is in it, before the seal and after it (writer.rs:
\* append_page, seal).
ReadsBack == Acknowledged /\ SealedFaithful
=============================================================================
