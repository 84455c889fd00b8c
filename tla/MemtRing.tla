------------------------------ MODULE MemtRing ------------------------------
(***************************************************************************)
(* The MEMT ring buffer of probing-memtable: one writer appends rows to a  *)
(* ring of chunks and recycles the oldest chunk when it needs room, while  *)
(* threads of several processes pin chunks through reader leases in the    *)
(* shared header (raw.rs, row.rs, memtable.rs).                            *)
(*                                                                         *)
(* One action is one atomic access to the shared header, so every          *)
(* interleaving of the writer with the readers is a behaviour.  Row bytes  *)
(* are abstracted to their length and timestamp: the writer only writes at *)
(* offset `used', so the bytes a reader borrows are intact as long as the  *)
(* generation is the one it pinned and `used' has not moved back.          *)
(***************************************************************************)
EXTENDS Integers, FiniteSets

CONSTANTS
    NumChunks,      \* chunks in the ring
    LeaseSlots,     \* reader-lease slots per chunk
    Threads,        \* reader threads
    Procs,          \* reader processes (instances: a reused PID is two of them)
    ProcOf,         \* the process of a thread
    PidOf,          \* the PID of a process
    StartOf,        \* its kernel start time, 0 where the platform gives none
    InitProcs,      \* what the processes may be at the beginning: started, new or gone
    Cap,            \* payload capacity of a chunk
    RowLens,        \* lengths of the rows offered to the writer
    MaxStamp,       \* 0..MaxStamp stands for the i64 range of timestamps
    RowStamps,      \* timestamps of the rows offered to the writer
    DrainSpins,     \* PIN_DRAIN_SPINS
    PinTries,       \* attempts of pin_chunk
    MaxGen,         \* bound: generations of a chunk
    MaxBlocked,     \* bound: deferred recycles
    MaxFailures,    \* bound: pins refused for want of a lease slot
    MaxCrashes,     \* bound: crashes of the writer
    CrashAlone      \* bound: TRUE: it crashes only when no reader runs any more

ASSUME RingAssumption ==
    /\ NumChunks \in Nat \ {0}
    /\ LeaseSlots \in Nat \ {0}
    /\ Cap \in Nat \ {0}
    /\ RowLens \subseteq Nat \ {0}
    /\ MaxStamp \in Nat
    /\ RowStamps \subseteq 0 .. MaxStamp
    /\ DrainSpins \in Nat
    /\ PinTries \in Nat \ {0}

ASSUME BoundAssumption ==
    {MaxGen, MaxBlocked, MaxFailures, MaxCrashes} \subseteq Nat /\ CrashAlone \in BOOLEAN

\* A PID is never 0 (0 marks a free slot) and a start time separates two
\* processes that have the same PID, where the platform reports it.
ASSUME ProcessAssumption ==
    /\ IsFiniteSet(Threads)
    /\ ProcOf \in [Threads -> Procs]
    /\ PidOf \in [Procs -> Nat \ {0}]
    /\ StartOf \in [Procs -> Nat]
    /\ InitProcs \subseteq [Procs -> {"new", "up", "dead"}]
    /\ \A i \in InitProcs : \A p, q \in Procs :
           i[p] = "up" /\ i[q] = "up" /\ PidOf[p] = PidOf[q] => p = q

VARIABLES
    ch,             \* ChunkHeader of every chunk; ch[c].visible is a history
                    \* field, the timestamps of the rows below `used'
    lease,          \* ReaderLease.state of every chunk and slot
    leaseStart,     \* ReaderLease.owner_start_time
    wc,             \* Header.write_chunk
    recycled, overwritten, blocked, failures,   \* Header's counters
    committed,      \* history: rows ever committed
    proc,           \* reader processes: not started, running or dead
    rd,             \* program counter and locals of pin_chunk, per thread
    wr,             \* program counter and locals of the writer
    crashes         \* crashes of the writer so far

counters == <<recycled, overwritten, blocked, failures, committed>>
vars == <<ch, lease, leaseStart, wc, counters, proc, rd, wr, crashes>>

Chunks == 0 .. NumChunks - 1
Slots  == 0 .. LeaseSlots - 1
Stamps == 0 .. MaxStamp
Row    == [len : RowLens, ts : RowStamps]
Pid(t) == PidOf[ProcOf[t]]
Start(t) == StartOf[ProcOf[t]]

\* A lease word packs the owner's PID and its reference count; refs = 0 with
\* an owner is the short claim state.
Word(owner, refs) == [owner |-> owner, refs |-> refs]
Words == [owner : Nat, refs : Nat]
Free == Word(0, 0)

\* TS_MIN_INIT and TS_MAX_INIT: i64::MAX and i64::MIN.
TsMinInit == MaxStamp
TsMaxInit == 0

\* The chunk the next advance recycles.
Tgt == (wc + 1) % NumChunks

(***************************************************************************)
(* Processes, as kill(pid, 0) and the kernel's start time show them.       *)
(***************************************************************************)
Up(pid) == {p \in Procs : proc[p] = "up" /\ PidOf[p] = pid}

process_exists(pid) == Up(pid) # {}

\* A start time of 0, recorded or actual, means "unknown": take it as alive.
process_instance_alive(pid, expected) ==
    \E p \in Up(pid) : expected = 0 \/ StartOf[p] \in {0, expected}

\* Mutant: a claim is never judged, so that of a dead process stays.
owner_alive_claim(word, start) ==
    word.refs = 0 \/ process_instance_alive(word.owner, start)

owner_alive(word, start) ==
    IF word.refs = 0 THEN process_exists(word.owner)
                     ELSE process_instance_alive(word.owner, start)

IdleReader == [pc |-> "idle", chunk |-> 0, slot |-> 0, word |-> Free, st |-> "Empty",
               gen |-> 0, start |-> 0, used |-> 0, tries |-> 0]
OffReader == [IdleReader EXCEPT !.pc = "off"]

NoRow == [len |-> 0, ts |-> 0]
IdleWriter == [pc |-> "idle", op |-> "none", row |-> NoRow, prev |-> "Empty",
               pass |-> 0, slot |-> 0, word |-> Free, start |-> 0, live |-> FALSE]

\* init_buf: chunk 0 is being written in generation 1, the others are empty.
Fresh(st, g) == [state |-> st, gen |-> g, used |-> 0, rows |-> 0,
                 min |-> TsMinInit, max |-> TsMaxInit, visible |-> {}]

Init ==
    /\ ch = [c \in Chunks |-> IF c = 0 THEN Fresh("Writing", 1) ELSE Fresh("Empty", 0)]
    /\ lease = [c \in Chunks |-> [s \in Slots |-> Free]]
    /\ leaseStart = [c \in Chunks |-> [s \in Slots |-> 0]]
    /\ wc = 0
    /\ recycled = 0 /\ overwritten = 0 /\ blocked = 0 /\ failures = 0 /\ committed = 0
    /\ proc \in InitProcs
    /\ rd = [t \in Threads |-> IF proc[ProcOf[t]] = "up" THEN IdleReader ELSE OffReader]
    /\ wr = IdleWriter
    /\ crashes = 0

(***************************************************************************)
(* Reader processes start and die at any point.  A PID is given to one     *)
(* running process at a time.                                              *)
(***************************************************************************)
Spawn(p) ==
    /\ proc[p] = "new" /\ Up(PidOf[p]) = {}
    /\ proc' = [proc EXCEPT ![p] = "up"]
    /\ rd' = [t \in Threads |-> IF ProcOf[t] = p THEN IdleReader ELSE rd[t]]
    /\ UNCHANGED <<ch, lease, leaseStart, wc, counters, wr, crashes>>

Die(p) ==
    /\ proc[p] = "up"
    /\ proc' = [proc EXCEPT ![p] = "dead"]
    /\ rd' = [t \in Threads |-> IF ProcOf[t] = p THEN OffReader ELSE rd[t]]
    /\ UNCHANGED <<ch, lease, leaseStart, wc, counters, wr, crashes>>

(***************************************************************************)
(* pin_chunk: load state and generation, take a lease, load them again.    *)
(***************************************************************************)
\* What a reader step leaves alone unless it says otherwise.
ReaderFrame == UNCHANGED <<ch, wc, recycled, overwritten, blocked, committed,
                           proc, wr, crashes>>
LocalStep == ReaderFrame /\ UNCHANGED <<lease, leaseStart, failures>>

Move(t, r) == rd' = [rd EXCEPT ![t] = r]
MoveTo(t, pc) == Move(t, [rd[t] EXCEPT !.pc = pc])

\* The lease slot a thread works on, and its compare_exchange.
Slot(t) == lease[rd[t].chunk][rd[t].slot]
StoreSlot(t, word) == lease' = [lease EXCEPT ![rd[t].chunk][rd[t].slot] = word]

\* Where the loop over the slots goes on: the same slot again (`continue'), the
\* next one (`break'), or out of it with a lease.
Again(r)  == [r EXCEPT !.pc = "slot", !.word = Free, !.start = 0]
Skip(r)   == [r EXCEPT !.pc = "slot", !.word = Free, !.start = 0, !.slot = @ + 1]
Leased(r) == [r EXCEPT !.pc = "recheck", !.word = Free]

\* state_before; an Empty chunk has no rows to read and the call returns.
PinBegin(t, c) ==
    /\ rd[t].pc = "idle" /\ failures < MaxFailures
    /\ ch[c].state # "Empty"
    /\ Move(t, [rd[t] EXCEPT !.pc = "gen", !.chunk = c, !.st = ch[c].state, !.tries = 1])
    /\ LocalStep

\* The next attempt of the same call.
PinRetry(t) ==
    /\ rd[t].pc = "retry"
    /\ Move(t, IF ch[rd[t].chunk].state = "Empty" THEN IdleReader
               ELSE [rd[t] EXCEPT !.pc = "gen", !.st = ch[rd[t].chunk].state,
                                  !.tries = @ + 1])
    /\ LocalStep

LoadGen(t) ==
    /\ rd[t].pc = "gen"
    /\ Move(t, [rd[t] EXCEPT !.pc = "slot", !.gen = ch[rd[t].chunk].gen, !.slot = 0])
    /\ LocalStep

\* Every slot is taken by another live owner: ReaderLeaseExhausted, counted
\* by try_rows.
Exhausted(t) ==
    /\ rd[t].pc = "slot" /\ rd[t].slot = LeaseSlots
    /\ Move(t, IdleReader)
    /\ failures' = failures + 1
    /\ ReaderFrame /\ UNCHANGED <<lease, leaseStart>>

LoadSlot(t) ==
    /\ rd[t].pc = "slot" /\ rd[t].slot < LeaseSlots
    /\ Move(t, [rd[t] EXCEPT !.word = Slot(t),
                             !.pc = IF Slot(t).owner = Pid(t) /\ Slot(t).refs > 0 THEN "own"
                                    ELSE IF Slot(t) = Free THEN "claim"
                                    ELSE IF Slot(t).refs = 0 THEN "verdict"
                                    ELSE "judge"])
    /\ LocalStep

\* The slot is recorded under our PID.  A different known start time says it
\* is an earlier process's; an unknown one is left alone.
OwnStart(t) ==
    /\ rd[t].pc = "own"
    /\ LET recorded == leaseStart[rd[t].chunk][rd[t].slot] IN
       IF recorded = Start(t) THEN MoveTo(t, "join")
       ELSE IF recorded # 0 /\ Start(t) # 0 THEN MoveTo(t, "clear")
       ELSE Move(t, Skip(rd[t]))
    /\ LocalStep

Join(t) ==
    /\ rd[t].pc = "join"
    /\ IF Slot(t) = rd[t].word
         THEN /\ StoreSlot(t, Word(Pid(t), rd[t].word.refs + 1))
              /\ Move(t, Leased(rd[t]))
         ELSE /\ Move(t, Again(rd[t]))
              /\ UNCHANGED lease
    /\ ReaderFrame /\ UNCHANGED <<leaseStart, failures>>

Claim(t) ==
    /\ rd[t].pc = "claim"
    /\ IF Slot(t) = Free
         THEN /\ StoreSlot(t, Word(Pid(t), 0))
              /\ MoveTo(t, "stamp")
         ELSE /\ Move(t, Again(rd[t]))
              /\ UNCHANGED lease
    /\ ReaderFrame /\ UNCHANGED <<leaseStart, failures>>

StampStart(t) ==
    /\ rd[t].pc = "stamp"
    /\ leaseStart' = [leaseStart EXCEPT ![rd[t].chunk][rd[t].slot] = Start(t)]
    /\ MoveTo(t, "confirm")
    /\ ReaderFrame /\ UNCHANGED <<lease, failures>>

Confirm(t) ==
    /\ rd[t].pc = "confirm"
    /\ IF Slot(t) = Word(Pid(t), 0)
         THEN /\ StoreSlot(t, Word(Pid(t), 1))
              /\ Move(t, Leased(rd[t]))
         ELSE /\ Move(t, Skip(rd[t]))
              /\ UNCHANGED lease
    /\ ReaderFrame /\ UNCHANGED <<leaseStart, failures>>

\* Somebody else's slot: is its owner still alive?
Judge(t) ==
    /\ rd[t].pc = "judge"
    /\ Move(t, [rd[t] EXCEPT !.pc = "verdict",
                             !.start = leaseStart[rd[t].chunk][rd[t].slot]])
    /\ LocalStep

Verdict(t) ==
    /\ rd[t].pc = "verdict"
    /\ Move(t, IF owner_alive(rd[t].word, rd[t].start) THEN Skip(rd[t])
               ELSE [rd[t] EXCEPT !.pc = "clear", !.start = 0])
    /\ LocalStep

\* compare_exchange(state, 0), whose result is ignored.
Clear(t) ==
    /\ rd[t].pc = "clear"
    /\ IF Slot(t) = rd[t].word THEN StoreSlot(t, Free) ELSE UNCHANGED lease
    /\ Move(t, Again(rd[t]))
    /\ ReaderFrame /\ UNCHANGED <<leaseStart, failures>>

\* Mutant: the state is not loaded again after the lease is taken.
Recheck_skip(t) ==
    /\ rd[t].pc = "recheck"
    /\ MoveTo(t, "regen")
    /\ LocalStep

\* state_after, then generation_after, then the published extent.
Recheck(t) ==
    /\ rd[t].pc = "recheck"
    /\ MoveTo(t, IF ch[rd[t].chunk].state = rd[t].st THEN "regen" ELSE "release")
    /\ LocalStep

Regen(t) ==
    /\ rd[t].pc = "regen"
    /\ MoveTo(t, IF ch[rd[t].chunk].gen = rd[t].gen THEN "extent" ELSE "release")
    /\ LocalStep

Extent(t) ==
    /\ rd[t].pc = "extent"
    /\ IF ch[rd[t].chunk].used <= Cap
         THEN Move(t, [rd[t] EXCEPT !.pc = "pinned", !.used = ch[rd[t].chunk].used])
         ELSE MoveTo(t, "release")
    /\ LocalStep

\* The last row borrowed from the pin is dropped; no attempt follows.
Unpin(t) ==
    /\ rd[t].pc = "pinned"
    /\ Move(t, [rd[t] EXCEPT !.pc = "release", !.tries = PinTries])
    /\ LocalStep

\* release_process_lease: load the word, then decrement it.
Released(r) == IF r.tries < PinTries
                 THEN [IdleReader EXCEPT !.pc = "retry", !.chunk = r.chunk, !.tries = r.tries]
                 ELSE IdleReader

ReleaseLoad(t) ==
    /\ rd[t].pc = "release"
    /\ Move(t, IF Slot(t).owner # Pid(t) \/ Slot(t).refs = 0 THEN Released(rd[t])
               ELSE [rd[t] EXCEPT !.pc = "dec", !.word = Slot(t)])
    /\ LocalStep

\* Mutant: the drop frees the slot although other threads share it.
ReleaseDec_free(t) ==
    /\ rd[t].pc = "dec"
    /\ IF Slot(t) = rd[t].word
         THEN /\ StoreSlot(t, Free)
              /\ Move(t, Released(rd[t]))
         ELSE /\ Move(t, [rd[t] EXCEPT !.pc = "release", !.word = Free])
              /\ UNCHANGED lease
    /\ ReaderFrame /\ UNCHANGED <<leaseStart, failures>>

ReleaseDec(t) ==
    /\ rd[t].pc = "dec"
    /\ IF Slot(t) = rd[t].word
         THEN /\ StoreSlot(t, IF rd[t].word.refs = 1 THEN Free
                              ELSE Word(Pid(t), rd[t].word.refs - 1))
              /\ Move(t, Released(rd[t]))
         ELSE /\ Move(t, [rd[t] EXCEPT !.pc = "release", !.word = Free])
              /\ UNCHANGED lease
    /\ ReaderFrame /\ UNCHANGED <<leaseStart, failures>>

Acquire(t) ==
    \/ Exhausted(t) \/ LoadSlot(t) \/ OwnStart(t) \/ Join(t) \/ Claim(t) \/ StampStart(t)
    \/ Confirm(t) \/ Judge(t) \/ Verdict(t) \/ Clear(t)

Reader(t) ==
    \/ \E c \in Chunks : PinBegin(t, c)
    \/ PinRetry(t) \/ LoadGen(t) \/ Acquire(t)
    \/ Recheck(t) \/ Regen(t) \/ Extent(t) \/ Unpin(t)
    \/ ReleaseLoad(t) \/ ReleaseDec(t)
(***************************************************************************)
(* The writer.  It is single: the table's exclusive borrow, or the file    *)
(* lock across processes, serialises its operations.                       *)
(***************************************************************************)
WriterFrame == UNCHANGED <<proc, rd, failures>>
Goto(pc) == wr' = [wr EXCEPT !.pc = pc]
Put(c, h) == ch' = [ch EXCEPT ![c] = h]
OnChunks == UNCHANGED <<lease, leaseStart, wc, recycled, overwritten, blocked,
                        committed, crashes>> /\ WriterFrame
LocalWrite == OnChunks /\ UNCHANGED ch

\* Bounds of the exploration, tested where an operation starts.
RoomToRun == ch[Tgt].gen < MaxGen /\ blocked < MaxBlocked

\* push_row: write, and on a full chunk advance and write again.
Push(row) ==
    /\ wr.pc = "idle" /\ RoomToRun
    /\ wr' = [IdleWriter EXCEPT !.pc = "write", !.op = "push", !.row = row]
    /\ LocalWrite

\* append_row: write, and report a full chunk.
Append(row) ==
    /\ wr.pc = "idle" /\ RoomToRun
    /\ wr' = [IdleWriter EXCEPT !.pc = "write", !.op = "append", !.row = row]
    /\ LocalWrite

\* advance_chunk
Advance ==
    /\ wr.pc = "idle" /\ RoomToRun
    /\ wr' = [IdleWriter EXCEPT !.pc = "block", !.op = "advance"]
    /\ LocalWrite

\* Mutant: off by one.
Fits_off == ch[wc].used + wr.row.len <= Cap + 1

\* The room test of write_row_bytes.  A row that does not fit even the fresh
\* chunk is RowTooLarge.
Fits == ch[wc].used + wr.row.len <= Cap

WriteTest ==
    /\ wr.pc = "write"
    /\ wr' = IF Fits THEN [wr EXCEPT !.pc = "note"]
             ELSE IF wr.op = "push" THEN [wr EXCEPT !.pc = "block"]
             ELSE IdleWriter
    /\ LocalWrite

\* Mutant: `else if', so the first row of a chunk sets only one bound.
NoteTs_else ==
    /\ wr.pc = "note"
    /\ Put(wc, [ch[wc] EXCEPT !.min = IF wr.row.ts < @ THEN wr.row.ts ELSE @,
                              !.max = IF wr.row.ts >= ch[wc].min /\ wr.row.ts > @
                                        THEN wr.row.ts ELSE @])
    /\ Goto("publish") /\ OnChunks

\* note_row_ts: both bounds are stored before the row is published.
NoteTs ==
    /\ wr.pc = "note"
    /\ Put(wc, [ch[wc] EXCEPT !.min = IF wr.row.ts < @ THEN wr.row.ts ELSE @,
                              !.max = IF wr.row.ts > @ THEN wr.row.ts ELSE @])
    /\ Goto("publish") /\ OnChunks

Publish ==
    /\ wr.pc = "publish"
    /\ Put(wc, [ch[wc] EXCEPT !.used = @ + wr.row.len, !.visible = @ \cup {wr.row.ts}])
    /\ Goto("count") /\ OnChunks

CountRow ==
    /\ wr.pc = "count"
    /\ Put(wc, [ch[wc] EXCEPT !.rows = @ + 1])
    /\ committed' = committed + 1
    /\ wr' = IdleWriter
    /\ UNCHANGED <<lease, leaseStart, wc, recycled, overwritten, blocked, crashes>>
    /\ WriterFrame

(***************************************************************************)
(* advance_chunk_raw_detailed: hide the chunk from new pins, give the      *)
(* existing ones DrainSpins passes to drain, test once more, recycle.      *)
(* The pass numbered DrainSpins is the final test.                         *)
(***************************************************************************)
BlockPins ==
    /\ wr.pc = "block"
    /\ Put(Tgt, [ch[Tgt] EXCEPT !.state = "Empty"])
    /\ wr' = [wr EXCEPT !.pc = "scan", !.prev = ch[Tgt].state,
                        !.pass = 0, !.slot = 0, !.live = FALSE]
    /\ OnChunks

\* chunk_has_live_leases over the slots of the chunk
ScanSlot ==
    /\ wr.pc = "scan" /\ wr.slot < LeaseSlots
    /\ LET word == lease[Tgt][wr.slot] IN
       wr' = IF word = Free THEN [wr EXCEPT !.slot = @ + 1]
             ELSE [wr EXCEPT !.pc = "judge", !.word = word]
    /\ LocalWrite

WriterJudge ==
    /\ wr.pc = "judge"
    /\ wr' = [wr EXCEPT !.pc = "verdict", !.start = leaseStart[Tgt][wr.slot]]
    /\ LocalWrite

WriterVerdict ==
    /\ wr.pc = "verdict"
    /\ wr' = IF owner_alive(wr.word, wr.start)
               THEN [wr EXCEPT !.pc = "scan", !.slot = @ + 1, !.live = TRUE,
                               !.word = Free, !.start = 0]
               ELSE [wr EXCEPT !.pc = "clear"]
    /\ LocalWrite

WriterClear ==
    /\ wr.pc = "clear"
    /\ IF lease[Tgt][wr.slot] = wr.word
         THEN /\ lease' = [lease EXCEPT ![Tgt][wr.slot] = Free]
              /\ wr' = [wr EXCEPT !.pc = "scan", !.slot = @ + 1,
                                  !.word = Free, !.start = 0]
         ELSE /\ wr' = [wr EXCEPT !.pc = "scan", !.word = Free, !.start = 0]
              /\ UNCHANGED lease
    /\ UNCHANGED <<ch, leaseStart, wc, recycled, overwritten, blocked, committed, crashes>>
    /\ WriterFrame

\* Mutant: the drain waits for the readers without a limit.
NextPass_wait == IF wr.live THEN wr.pass ELSE DrainSpins

NextPass == IF wr.live THEN wr.pass + 1 ELSE DrainSpins

ScanEnd ==
    /\ wr.pc = "scan" /\ wr.slot = LeaseSlots
    /\ wr' = IF wr.pass < DrainSpins
               THEN [wr EXCEPT !.pass = NextPass, !.slot = 0, !.live = FALSE]
             ELSE IF wr.live THEN [wr EXCEPT !.pc = "defer"]
             ELSE [wr EXCEPT !.pc = "seal"]
    /\ LocalWrite

\* ReadersPinned: show the chunk again and give up.
Defer ==
    /\ wr.pc = "defer"
    /\ Put(Tgt, [ch[Tgt] EXCEPT !.state = wr.prev])
    /\ blocked' = blocked + 1
    /\ wr' = IdleWriter
    /\ UNCHANGED <<lease, leaseStart, wc, recycled, overwritten, committed, crashes>>
    /\ WriterFrame

Seal ==
    /\ wr.pc = "seal"
    /\ Put(wc, [ch[wc] EXCEPT !.state = IF wc # Tgt THEN "Sealed" ELSE @])
    /\ Goto("lost") /\ OnChunks

CountLost ==
    /\ wr.pc = "lost"
    /\ recycled' = recycled + (IF ch[Tgt].rows > 0 THEN 1 ELSE 0)
    /\ overwritten' = overwritten + ch[Tgt].rows
    /\ Goto("bump")
    /\ UNCHANGED <<ch, lease, leaseStart, wc, blocked, committed, crashes>>
    /\ WriterFrame

BumpGeneration ==
    /\ wr.pc = "bump"
    /\ Put(Tgt, [ch[Tgt] EXCEPT !.gen = @ + 1])
    /\ Goto("wipe") /\ OnChunks

ResetUsed ==
    /\ wr.pc = "wipe"
    /\ Put(Tgt, [ch[Tgt] EXCEPT !.used = 0, !.visible = {}])
    /\ Goto("zero") /\ OnChunks

\* Mutant: the row count survives the recycle.
ResetRowCount_kept ==
    /\ wr.pc = "zero"
    /\ Goto("unrange") /\ LocalWrite

ResetRowCount ==
    /\ wr.pc = "zero"
    /\ Put(Tgt, [ch[Tgt] EXCEPT !.rows = 0])
    /\ Goto("unrange") /\ OnChunks

ResetTs ==
    /\ wr.pc = "unrange"
    /\ Put(Tgt, [ch[Tgt] EXCEPT !.min = TsMinInit, !.max = TsMaxInit])
    /\ Goto("open") /\ OnChunks

OpenChunk ==
    /\ wr.pc = "open"
    /\ Put(Tgt, [ch[Tgt] EXCEPT !.state = "Writing"])
    /\ Goto("turn") /\ OnChunks

\* Mutant: only a push moves the write chunk.
Turn_push ==
    /\ wr.pc = "turn"
    /\ wc' = IF wr.op = "push" THEN Tgt ELSE wc
    /\ wr' = IF wr.op = "push" THEN [IdleWriter EXCEPT !.pc = "write", !.op = "again",
                                                     !.row = wr.row]
             ELSE IdleWriter
    /\ UNCHANGED <<ch, lease, leaseStart, recycled, overwritten, blocked, committed, crashes>>
    /\ WriterFrame

\* The new write chunk is named last; a push then writes its row again.
Turn ==
    /\ wr.pc = "turn"
    /\ wc' = Tgt
    /\ wr' = IF wr.op = "push" THEN [IdleWriter EXCEPT !.pc = "write", !.op = "again",
                                                     !.row = wr.row]
             ELSE IdleWriter
    /\ UNCHANGED <<ch, lease, leaseStart, recycled, overwritten, blocked, committed, crashes>>
    /\ WriterFrame

\* A table in a file outlives its writer: open_file takes the lock over,
\* validates the buffer and goes on from write_chunk.
WriterCrash ==
    /\ wr.pc \notin {"idle", "down"} /\ crashes < MaxCrashes
    /\ CrashAlone => \A p \in Procs : proc[p] # "up"
    /\ wr' = [IdleWriter EXCEPT !.pc = "down"]
    /\ crashes' = crashes + 1
    /\ UNCHANGED <<ch, lease, leaseStart, wc, recycled, overwritten, blocked, committed>>
    /\ WriterFrame

Reopen ==
    /\ wr.pc = "down"
    /\ wr' = IdleWriter
    /\ LocalWrite

Drain == ScanSlot \/ WriterJudge \/ WriterVerdict \/ WriterClear \/ ScanEnd
Recycle == Seal \/ CountLost \/ BumpGeneration \/ ResetUsed \/ ResetRowCount
           \/ ResetTs \/ OpenChunk \/ Turn

\* The writer goes on with the operation it is in.
WriterStep ==
    \/ WriteTest \/ NoteTs \/ Publish \/ CountRow
    \/ BlockPins \/ Drain \/ Defer \/ Recycle

WriterCall == \/ \E row \in Row : Push(row) \/ Append(row)
              \/ Advance

Next ==
    \/ \E p \in Procs : Spawn(p) \/ Die(p)
    \/ \E t \in Threads : Reader(t)
    \/ WriterCall \/ WriterStep \/ WriterCrash \/ Reopen

Spec == Init /\ [][Next]_vars

\* An operation the program started runs on: the writer never waits for a lock
\* or for a reader.  Nothing is assumed of readers, processes or new calls.
FairSpec == Spec /\ WF_vars(WriterStep)
(***************************************************************************)
(* Properties.                                                             *)
(***************************************************************************)
States == {"Empty", "Writing", "Sealed"}
ReaderPcs == {"off", "idle", "retry", "gen", "slot", "own", "join", "claim", "stamp", "confirm",
              "judge", "verdict", "clear", "recheck", "regen", "extent", "pinned",
              "release", "dec"}
WriterPcs == {"idle", "down", "write", "note", "publish", "count", "block", "scan", "judge",
              "verdict", "clear", "defer", "seal", "lost", "bump", "wipe", "zero", "unrange",
              "open", "turn"}

ChunkHeaders == [state : States, gen : Nat, used : 0 .. Cap, rows : Nat,
                 min : Stamps, max : Stamps, visible : SUBSET Stamps]
ReaderLocals == [pc : ReaderPcs, chunk : Chunks, slot : 0 .. LeaseSlots, word : Words,
                 st : States, gen : Nat, start : Nat, used : 0 .. Cap, tries : 0 .. PinTries]
WriterLocals == [pc : WriterPcs, op : {"none", "push", "again", "append", "advance"},
                 row : Row \cup {NoRow}, prev : States, pass : 0 .. DrainSpins,
                 slot : 0 .. LeaseSlots, word : Words, start : Nat, live : BOOLEAN]

\* Every header word, lease word and local variable keeps its type; in
\* particular no chunk's `used' exceeds the payload capacity of the chunk.
TypeOK ==
    /\ ch \in [Chunks -> ChunkHeaders]
    /\ lease \in [Chunks -> [Slots -> Words]]
    /\ leaseStart \in [Chunks -> [Slots -> Nat]]
    /\ wc \in Chunks
    /\ recycled \in Nat /\ overwritten \in Nat /\ blocked \in Nat
    /\ failures \in Nat /\ committed \in Nat /\ crashes \in Nat
    /\ proc \in [Procs -> {"new", "up", "dead"}]
    /\ rd \in [Threads -> ReaderLocals]
    /\ wr \in WriterLocals

\* lib.rs promises that borrowed slices cannot race with overwrite: while a
\* reader keeps a pin, its chunk stays in the generation it pinned and the
\* published extent it iterates is not cut back.  (With two readers at a time:
\* three, two of them in one process, can make a verdict on a lease combine the
\* word of one owner with the start time of another, and a live lease is cleared.)
PinnedStable ==
    \A t \in Threads : rd[t].pc = "pinned" =>
        /\ ch[rd[t].chunk].gen = rd[t].gen
        /\ rd[t].used <= ch[rd[t].chunk].used

\* A thread holds a reference of its slot from the successful join or confirm
\* until its decrement.
Holding(t) == rd[t].pc \in {"recheck", "regen", "extent", "pinned", "release", "dec"}
Holders(c, s) == {t \in Threads : Holding(t) /\ rd[t].chunk = c /\ rd[t].slot = s}

\* The reference count of a slot owned by a running process is the number of
\* its threads that hold the chunk: acquire, failed validation, drop and
\* reclaim never lose a reference and never leak one.
LeaseExact ==
    \A c \in Chunks, s \in Slots :
        (\E p \in Up(lease[c][s].owner) : StartOf[p] = leaseStart[c][s])
            => lease[c][s].refs = Cardinality(Holders(c, s))

\* note_row_ts: a reader that sees a row published through `used' also sees a
\* [min_ts, max_ts] range that covers it, so pruning by time never drops it.
TsRangeCovers ==
    \A c \in Chunks : \A ts \in ch[c].visible : ch[c].min <= ts /\ ts <= ch[c].max

\* chunks_logical lists the written, non-empty chunks by (generation, index).
Listed(c) == ch[c].gen # 0 /\ ch[c].rows # 0
SortsBefore(c, d) == \/ ch[c].gen < ch[d].gen
                     \/ ch[c].gen = ch[d].gen /\ c < d

\* The number of advances since a chunk was last the write chunk, reversed: 0
\* is the oldest, NumChunks - 1 the write chunk.
Youth(c) == (c - wc - 1) % NumChunks

\* Sorting by (generation, index) recovers write order at every wrap position:
\* between two operations the oldest listed chunk sorts first.  A crash between
\* the generation bump and the store of write_chunk breaks this for good.
LogicalOrder ==
    wr.pc = "idle" /\ crashes = 0 =>
        \A c, d \in Chunks : Listed(c) /\ Listed(d) /\ Youth(c) < Youth(d) => SortsBefore(c, d)

\* The rows of the chunks before n, for every n, and those of the whole ring.
RowsBefore(rows) ==
    LET before[n \in 0 .. NumChunks] ==
            IF n = 0 THEN 0 ELSE before[n - 1] + rows[n - 1]
    IN before

Kept == RowsBefore([c \in Chunks |-> ch[c].rows])[NumChunks]

\* Every committed row is in a chunk or counted by rows_overwritten: between
\* two operations no row disappears and none is counted twice, whatever recycles
\* were deferred.  A recycle that is repeated after a crash counts its rows again.
Accounting ==
    wr.pc = "idle" /\ crashes = 0 =>
        committed = overwritten + Kept

\* A writer that dies at any point of a recycle hides rows from readers in one
\* chunk at most, and that is the one the next advance recycles
\* (advance_chunk_raw_detailed hides the chunk and may not come to restore it).
OnlyNextHidden == \A c \in Chunks : Listed(c) /\ ch[c].state = "Empty" => c = Tgt

\* What advances, deferred recycles and rows that fit nowhere leave behind between
\* two operations (memtable.rs: chunks_logical, push_row).
RingSound == LogicalOrder /\ Accounting /\ OnlyNextHidden

\* A sealed chunk is frozen, which is what lets the compactor copy it once per
\* generation: no step changes the rows, the extent or the generation of a
\* chunk it leaves visible as Sealed; the recycle hides it first.  After a crash
\* the write chunk is left out, and only it: a crash just before the store of
\* write_chunk leaves it Sealed, and the next writer appends to it all the same.
SealedFrozen ==
    [][\A c \in Chunks :
         ch[c].state = "Sealed" /\ (crashes = 0 \/ c # wc) =>
             /\ ch'[c].used = ch[c].used
             /\ ch'[c].rows = ch[c].rows
             /\ ch'[c].gen = ch[c].gen]_vars

\* No running process has a lease of the chunk, and none has a dead one's PID.
Deserted(c) ==
    /\ \A s \in Slots : ~process_exists(lease[c][s].owner)
    /\ \A p, q \in Procs : proc[p] = "dead" /\ proc[q] = "up" => PidOf[p] # PidOf[q]

\* Readers that died with a pin or in the middle of a claim never hold the
\* writer up: whatever they left in the slots of a chunk, and whoever reads
\* elsewhere, a recycle is deferred only if a running process had a lease of
\* the chunk since it began (chunk_has_live_leases reclaims the others).
DeadReadersNeverBlock ==
    \A c \in Chunks :
        [](wr.pc = "idle" /\ []Deserted(c) => [](Tgt = c => wr.pc # "defer"))

\* push_row, append_row and advance_chunk return, even if a reader keeps its
\* pin forever or its threads keep contending for the lease words.
WriterReturns == wr.pc \notin {"idle", "down"} ~> wr.pc \in {"idle", "down"}
=============================================================================
