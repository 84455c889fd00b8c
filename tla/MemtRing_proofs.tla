--------------------------- MODULE MemtRing_proofs ---------------------------
(***************************************************************************)
(* Proofs about the MEMT ring, its readers and its writer, for every       *)
(* number of chunks, lease slots, threads and processes: the timestamp     *)
(* range of a chunk covers its rows, the ring keeps its order and loses no *)
(* row unseen, reference counts are exact, a recycle never meets a pin,    *)
(* readers that died defer none, and a sealed chunk is frozen.             *)
(***************************************************************************)
EXTENDS MemtRing, FiniteSetTheorems, WellFoundedInduction, TLAPS

\* The ring has a chunk 0 and its chunk numbers are naturals.
LEMMA ChunksOK == 0 \in Chunks /\ Chunks \subseteq Nat
  BY RingAssumption DEF Chunks

\* The chunk after the write chunk is a chunk of the ring.
LEMMA TgtOK == ASSUME wc \in Chunks PROVE Tgt \in Chunks
  BY RingAssumption DEF Chunks, Tgt

\* Where a thread works on a lease slot.
Slotted == {"own", "join", "claim", "stamp", "confirm", "judge", "verdict", "clear",
            "recheck", "regen", "extent", "pinned", "release", "dec"}

\* What types alone do not say: the slot index is below the number of slots
\* wherever it is used, a decrement meets a positive count, and the row being
\* written fits.
Ranges ==
    /\ \A t \in Threads : /\ rd[t].pc \in Slotted => rd[t].slot < LeaseSlots
                          /\ rd[t].pc = "retry" => rd[t].tries < PinTries
                          /\ rd[t].pc = "dec" => rd[t].word.refs > 0
    /\ wr.pc \in {"judge", "verdict", "clear"} => wr.slot < LeaseSlots
    /\ wr.pc \in {"note", "publish"} => ch[wc].used + wr.row.len <= Cap

TypeInv == TypeOK /\ Ranges

\* init_buf establishes the types and the ranges.
LEMMA InitType == Init => TypeInv
  <1> SUFFICES ASSUME Init PROVE TypeInv
    OBVIOUS
  <1>1. Fresh("Writing", 1) \in ChunkHeaders /\ Fresh("Empty", 0) \in ChunkHeaders
    BY RingAssumption DEF Fresh, ChunkHeaders, States, Stamps, TsMinInit, TsMaxInit
  <1>2. IdleReader \in ReaderLocals /\ OffReader \in ReaderLocals
    BY RingAssumption, ChunksOK DEF IdleReader, OffReader, ReaderLocals, ReaderPcs, States, Words, Free, Word
  <1>3. IdleWriter \in WriterLocals
    BY RingAssumption DEF IdleWriter, WriterLocals, WriterPcs, States, Words, Free, Word
  <1>4. TypeOK
    BY <1>1, <1>2, <1>3, ChunksOK, ProcessAssumption DEF Init, TypeOK, Words, Free, Word
  <1>5. Ranges
    BY DEF Init, Ranges, IdleReader, OffReader, IdleWriter, Slotted
  <1> QED
    BY <1>4, <1>5 DEF TypeInv

(***************************************************************************)
(* Readers: a step gives the thread a new record of locals.                *)
(***************************************************************************)
ReaderRange(r) == /\ r.pc \in Slotted => r.slot < LeaseSlots
                  /\ r.pc = "retry" => r.tries < PinTries
                  /\ r.pc = "dec" => r.word.refs > 0

\* A reader step that gives its thread well-typed locals keeps the types.
LEMMA MoveType ==
  ASSUME TypeInv, NEW t \in Threads, NEW r, r \in ReaderLocals, ReaderRange(r),
         Move(t, r), ReaderFrame,
         lease' \in [Chunks -> [Slots -> Words]],
         leaseStart' \in [Chunks -> [Slots -> Nat]], failures' \in Nat
  PROVE  TypeInv'
  <1>1. rd' \in [Threads -> ReaderLocals]
    BY DEF TypeInv, TypeOK, Move
  <1>2. TypeOK'
    BY <1>1 DEF TypeInv, TypeOK, ReaderFrame
  <1>3. \A u \in Threads : ReaderRange(rd'[u])
    BY DEF TypeInv, TypeOK, Ranges, Move, ReaderRange
  <1>4. Ranges'
    BY <1>3 DEF TypeInv, Ranges, ReaderFrame, ReaderRange
  <1> QED
    BY <1>2, <1>4 DEF TypeInv

\* The same for a reader step that touches no lease.
LEMMA LocalMoveType ==
  ASSUME TypeInv, NEW t \in Threads, NEW r, r \in ReaderLocals, ReaderRange(r),
         Move(t, r), LocalStep
  PROVE  TypeInv'
  BY MoveType DEF LocalStep, TypeInv, TypeOK

\* What the invariant says of one thread, its chunk and its lease slot.
LEMMA ReaderHere ==
  ASSUME TypeInv, NEW t \in Threads
  PROVE  /\ rd[t] \in ReaderLocals /\ ReaderRange(rd[t])
         /\ ch[rd[t].chunk] \in ChunkHeaders
         /\ Pid(t) \in Nat \ {0} /\ Start(t) \in Nat
         /\ rd[t].slot < LeaseSlots => rd[t].slot \in Slots /\ Slot(t) \in Words
                                       /\ leaseStart[rd[t].chunk][rd[t].slot] \in Nat
  <1>1. rd[t] \in ReaderLocals /\ ReaderRange(rd[t])
    BY DEF TypeInv, TypeOK, Ranges, ReaderRange
  <1>2. rd[t].chunk \in Chunks /\ rd[t].slot \in 0 .. LeaseSlots
    BY <1>1 DEF ReaderLocals
  <1>3. rd[t].slot < LeaseSlots => rd[t].slot \in Slots
    BY <1>2, RingAssumption DEF Slots
  <1> QED
    BY <1>1, <1>2, <1>3, ProcessAssumption DEF TypeInv, TypeOK, Slot, Pid, Start

\* A store to the lease slot of a thread keeps the type of the leases.
LEMMA StoreSlotType ==
  ASSUME TypeInv, NEW t \in Threads, NEW w \in Words, rd[t].slot < LeaseSlots,
         StoreSlot(t, w)
  PROVE  lease' \in [Chunks -> [Slots -> Words]]
  <1>1. rd[t].chunk \in Chunks /\ rd[t].slot \in Slots
    BY ReaderHere DEF ReaderLocals
  <1> QED
    BY <1>1 DEF TypeInv, TypeOK, StoreSlot

\* The locals of a thread outside pin_chunk are well typed.
LEMMA IdleReaderType == IdleReader \in ReaderLocals /\ ReaderRange(IdleReader)
  BY RingAssumption, ChunksOK
     DEF IdleReader, ReaderLocals, ReaderPcs, States, Words, Free, Word, ReaderRange, Slotted

\* The four ways out of a lease slot keep the locals well typed.
LEMMA LoopType ==
  ASSUME NEW r \in ReaderLocals, r.slot < LeaseSlots
  PROVE  /\ Again(r) \in ReaderLocals /\ ReaderRange(Again(r))
         /\ Skip(r) \in ReaderLocals /\ ReaderRange(Skip(r))
         /\ Leased(r) \in ReaderLocals /\ ReaderRange(Leased(r))
         /\ Released(r) \in ReaderLocals /\ ReaderRange(Released(r))
  <1> USE RingAssumption
  <1>1. Again(r) \in ReaderLocals /\ ReaderRange(Again(r))
    BY DEF Again, ReaderLocals, ReaderPcs, Words, Free, Word, ReaderRange, Slotted
  <1>2. Skip(r) \in ReaderLocals /\ ReaderRange(Skip(r))
    <2>1. r.slot + 1 \in 0 .. LeaseSlots
      BY DEF ReaderLocals
    <2> QED
      BY <2>1 DEF Skip, ReaderLocals, ReaderPcs, Words, Free, Word, ReaderRange, Slotted
  <1>3. Leased(r) \in ReaderLocals /\ ReaderRange(Leased(r))
    BY DEF Leased, ReaderLocals, ReaderPcs, Words, Free, Word, ReaderRange, Slotted
  <1>4. Released(r) \in ReaderLocals /\ ReaderRange(Released(r))
    <2>1. CASE r.tries < PinTries
      <3> DEFINE q == [IdleReader EXCEPT !.pc = "retry", !.chunk = r.chunk, !.tries = r.tries]
      <3>1. q \in ReaderLocals /\ q.pc = "retry" /\ q.tries = r.tries
        BY IdleReaderType DEF ReaderLocals, ReaderPcs
      <3> QED
        BY <2>1, <3>1 DEF Released, ReaderRange, Slotted
    <2>2. CASE ~(r.tries < PinTries)
      BY <2>2, IdleReaderType DEF Released
    <2> QED
      BY <2>1, <2>2
  <1> QED
    BY <1>1, <1>2, <1>3, <1>4

\* So does a plain jump that stays on the slot.
LEMMA JumpType ==
  ASSUME NEW r \in ReaderLocals, r.slot < LeaseSlots, NEW pc \in Slotted \ {"dec"}
  PROVE  [r EXCEPT !.pc = pc] \in ReaderLocals /\ ReaderRange([r EXCEPT !.pc = pc])
  BY DEF ReaderLocals, ReaderPcs, ReaderRange, Slotted

\* Every step of pin_chunk and of the drop keeps types and ranges.
LEMMA ReaderType ==
  ASSUME TypeInv, NEW t \in Threads, Reader(t)
  PROVE  TypeInv'
  <1>0. rd[t] \in ReaderLocals /\ ReaderRange(rd[t]) /\ ch[rd[t].chunk] \in ChunkHeaders
    BY ReaderHere
  <1>a. rd[t].slot < LeaseSlots => Slot(t) \in Words /\ leaseStart[rd[t].chunk][rd[t].slot] \in Nat
    BY ReaderHere
  <1>b. lease \in [Chunks -> [Slots -> Words]] /\ leaseStart \in [Chunks -> [Slots -> Nat]]
        /\ failures \in Nat
    BY DEF TypeInv, TypeOK
  <1>c. Pid(t) \in Nat \ {0} /\ Start(t) \in Nat
    BY ReaderHere
  <1>1. ASSUME NEW c \in Chunks, PinBegin(t, c) PROVE TypeInv'
    <2> DEFINE q == [rd[t] EXCEPT !.pc = "gen", !.chunk = c, !.st = ch[c].state, !.tries = 1]
    <2>1. ch[c].state \in States /\ 1 \in 0 .. PinTries
      BY RingAssumption DEF TypeInv, TypeOK, ChunkHeaders
    <2>2. q \in ReaderLocals /\ q.pc = "gen"
      BY <1>0, <2>1 DEF ReaderLocals, ReaderPcs
    <2>3. ReaderRange(q)
      BY <2>2 DEF ReaderRange, Slotted
    <2> QED
      BY <1>1, <2>2, <2>3, LocalMoveType DEF PinBegin
  <1>2. CASE PinRetry(t)
    <2> DEFINE q == [rd[t] EXCEPT !.pc = "gen", !.st = ch[rd[t].chunk].state, !.tries = @ + 1]
    <2>1. rd[t].tries + 1 \in 0 .. PinTries /\ ch[rd[t].chunk].state \in States
      BY <1>0, <1>2, RingAssumption DEF PinRetry, ReaderLocals, ReaderRange, ChunkHeaders
    <2>2. q \in ReaderLocals /\ q.pc = "gen"
      BY <1>0, <2>1 DEF ReaderLocals, ReaderPcs
    <2>3. ReaderRange(q)
      BY <2>2 DEF ReaderRange, Slotted
    <2> QED
      BY <1>2, <2>2, <2>3, IdleReaderType, LocalMoveType DEF PinRetry
  <1>3. CASE LoadGen(t)
    <2> DEFINE q == [rd[t] EXCEPT !.pc = "slot", !.gen = ch[rd[t].chunk].gen, !.slot = 0]
    <2>1. ch[rd[t].chunk].gen \in Nat /\ 0 \in 0 .. LeaseSlots
      BY <1>0, RingAssumption DEF ChunkHeaders
    <2>2. q \in ReaderLocals /\ q.pc = "slot"
      BY <1>0, <2>1 DEF ReaderLocals, ReaderPcs
    <2>3. ReaderRange(q)
      BY <2>2 DEF ReaderRange, Slotted
    <2> QED
      BY <1>3, <2>2, <2>3, LocalMoveType DEF LoadGen
  <1>4. CASE Exhausted(t)
    BY <1>4, <1>b, IdleReaderType, MoveType DEF Exhausted
  <1>5. CASE LoadSlot(t)
    <2> DEFINE pc == IF Slot(t).owner = Pid(t) /\ Slot(t).refs > 0 THEN "own"
                     ELSE IF Slot(t) = Free THEN "claim"
                     ELSE IF Slot(t).refs = 0 THEN "verdict"
                     ELSE "judge"
    <2> DEFINE q == [rd[t] EXCEPT !.word = Slot(t), !.pc = pc]
    <2>1. rd[t].slot < LeaseSlots /\ pc \in Slotted \ {"dec"}
      BY <1>5 DEF LoadSlot, Slotted
    <2>2. Move(t, q) /\ LocalStep
      BY <1>5 DEF LoadSlot
    <2> HIDE DEF pc
    <2>3. q \in ReaderLocals /\ ReaderRange(q)
      BY <1>0, <1>a, <2>1 DEF ReaderLocals, ReaderPcs, ReaderRange, Slotted
    <2> QED
      BY <2>2, <2>3, LocalMoveType
  <1>6. CASE OwnStart(t)
    <2>1. rd[t].slot < LeaseSlots
      BY <1>0, <1>6 DEF OwnStart, ReaderRange, Slotted
    <2> QED
      BY <1>6, <1>0, <2>1, JumpType, LoopType, LocalMoveType DEF OwnStart, MoveTo, Slotted
  <1>7. CASE Join(t)
    <2>1. rd[t].slot < LeaseSlots /\ Word(Pid(t), rd[t].word.refs + 1) \in Words
      BY <1>0, <1>7, <1>c DEF Join, ReaderRange, Slotted, ReaderLocals, Words, Word
    <2> QED
      BY <1>7, <1>0, <1>b, <2>1, LoopType, StoreSlotType, MoveType DEF Join
  <1>8. CASE Claim(t)
    <2>1. rd[t].slot < LeaseSlots /\ Word(Pid(t), 0) \in Words
      BY <1>0, <1>8, <1>c DEF Claim, ReaderRange, Slotted, Words, Word
    <2> QED
      BY <1>8, <1>0, <1>b, <2>1, LoopType, JumpType, StoreSlotType, MoveType
         DEF Claim, MoveTo, Slotted
  <1>9. CASE StampStart(t)
    <2>1. rd[t].slot < LeaseSlots
      BY <1>0, <1>9 DEF StampStart, ReaderRange, Slotted
    <2>2. leaseStart' \in [Chunks -> [Slots -> Nat]]
      BY <1>9, <1>b, <1>c DEF StampStart
    <2> QED
      BY <1>9, <1>0, <1>b, <2>1, <2>2, JumpType, MoveType DEF StampStart, MoveTo, Slotted
  <1>10. CASE Confirm(t)
    <2>1. rd[t].slot < LeaseSlots /\ Word(Pid(t), 1) \in Words
      BY <1>0, <1>10, <1>c DEF Confirm, ReaderRange, Slotted, Words, Word
    <2> QED
      BY <1>10, <1>0, <1>b, <2>1, LoopType, StoreSlotType, MoveType DEF Confirm
  <1>11. CASE Judge(t)
    <2> DEFINE q == [rd[t] EXCEPT !.pc = "verdict",
                                  !.start = leaseStart[rd[t].chunk][rd[t].slot]]
    <2>1. rd[t].slot < LeaseSlots
      BY <1>0, <1>11 DEF Judge, ReaderRange, Slotted
    <2>2. q \in ReaderLocals /\ ReaderRange(q)
      BY <1>0, <1>a, <2>1 DEF ReaderLocals, ReaderPcs, ReaderRange, Slotted
    <2> QED
      BY <1>11, <2>2, LocalMoveType DEF Judge
  <1>12. CASE Verdict(t)
    <2> DEFINE q == [rd[t] EXCEPT !.pc = "clear", !.start = 0]
    <2>1. rd[t].slot < LeaseSlots
      BY <1>0, <1>12 DEF Verdict, ReaderRange, Slotted
    <2>2. q \in ReaderLocals /\ ReaderRange(q)
      BY <1>0, <2>1 DEF ReaderLocals, ReaderPcs, ReaderRange, Slotted
    <2> QED
      BY <1>12, <1>0, <2>1, <2>2, LoopType, LocalMoveType DEF Verdict
  <1>13. CASE Clear(t)
    <2>1. rd[t].slot < LeaseSlots /\ Free \in Words
      BY <1>0, <1>13 DEF Clear, ReaderRange, Slotted, Words, Word, Free
    <2> QED
      BY <1>13, <1>0, <1>b, <2>1, LoopType, StoreSlotType, MoveType DEF Clear
  <1>14. CASE Recheck(t)
    <2>1. rd[t].slot < LeaseSlots
      BY <1>0, <1>14 DEF Recheck, ReaderRange, Slotted
    <2> QED
      BY <1>14, <1>0, <2>1, JumpType, LocalMoveType DEF Recheck, MoveTo, Slotted
  <1>15. CASE Regen(t)
    <2>1. rd[t].slot < LeaseSlots
      BY <1>0, <1>15 DEF Regen, ReaderRange, Slotted
    <2> QED
      BY <1>15, <1>0, <2>1, JumpType, LocalMoveType DEF Regen, MoveTo, Slotted
  <1>16. CASE Extent(t)
    <2> DEFINE q == [rd[t] EXCEPT !.pc = "pinned", !.used = ch[rd[t].chunk].used]
    <2>1. rd[t].slot < LeaseSlots /\ ch[rd[t].chunk].used \in 0 .. Cap
      BY <1>0, <1>16 DEF Extent, ReaderRange, Slotted, ChunkHeaders
    <2>2. q \in ReaderLocals /\ ReaderRange(q)
      BY <1>0, <2>1 DEF ReaderLocals, ReaderPcs, ReaderRange, Slotted
    <2> QED
      BY <1>16, <1>0, <2>1, <2>2, JumpType, LocalMoveType DEF Extent, MoveTo, Slotted
  <1>17. CASE Unpin(t)
    <2> DEFINE q == [rd[t] EXCEPT !.pc = "release", !.tries = PinTries]
    <2>1. rd[t].slot < LeaseSlots /\ PinTries \in 0 .. PinTries
      BY <1>0, <1>17, RingAssumption DEF Unpin, ReaderRange, Slotted
    <2>2. q \in ReaderLocals /\ ReaderRange(q)
      BY <1>0, <2>1 DEF ReaderLocals, ReaderPcs, ReaderRange, Slotted
    <2> QED
      BY <1>17, <2>2, LocalMoveType DEF Unpin
  <1>18. CASE ReleaseLoad(t)
    <2> DEFINE q == [rd[t] EXCEPT !.pc = "dec", !.word = Slot(t)]
    <2>1. rd[t].slot < LeaseSlots
      BY <1>0, <1>18 DEF ReleaseLoad, ReaderRange, Slotted
    <2>2. CASE Slot(t).owner # Pid(t) \/ Slot(t).refs = 0
      BY <1>18, <1>0, <2>1, <2>2, LoopType, LocalMoveType DEF ReleaseLoad
    <2>3. CASE ~(Slot(t).owner # Pid(t) \/ Slot(t).refs = 0)
      <3>1. Slot(t).refs > 0
        BY <1>a, <2>1, <2>3 DEF Words
      <3>2. q \in ReaderLocals /\ ReaderRange(q)
        BY <1>0, <1>a, <2>1, <3>1 DEF ReaderLocals, ReaderPcs, ReaderRange, Slotted
      <3> QED
        BY <1>18, <2>3, <3>2, LocalMoveType DEF ReleaseLoad
    <2> QED
      BY <2>2, <2>3
  <1>19. CASE ReleaseDec(t)
    <2> DEFINE q == [rd[t] EXCEPT !.pc = "release", !.word = Free]
    <2> DEFINE w == IF rd[t].word.refs = 1 THEN Free ELSE Word(Pid(t), rd[t].word.refs - 1)
    <2>1. rd[t].slot < LeaseSlots
      BY <1>0, <1>19 DEF ReleaseDec, ReaderRange, Slotted
    <2>2. q \in ReaderLocals /\ ReaderRange(q)
      BY <1>0, <2>1 DEF ReaderLocals, ReaderPcs, ReaderRange, Slotted, Words, Word, Free
    <2>3. w \in Words
      BY <1>0, <1>c, <1>19 DEF ReleaseDec, ReaderRange, ReaderLocals, Words, Word, Free
    <2> QED
      BY <1>19, <1>0, <1>b, <2>1, <2>2, <2>3, LoopType, StoreSlotType, MoveType DEF ReleaseDec
  <1> QED
    BY <1>1, <1>2, <1>3, <1>4, <1>5, <1>6, <1>7, <1>8, <1>9, <1>10, <1>11, <1>12, <1>13,
       <1>14, <1>15, <1>16, <1>17, <1>18, <1>19 DEF Reader, Acquire

(***************************************************************************)
(* Processes and the writer.                                               *)
(***************************************************************************)
\* So does the start or the death of a reader process.
LEMMA ProcType ==
  ASSUME TypeInv, NEW p \in Procs, Spawn(p) \/ Die(p)
  PROVE  TypeInv'
  <1>1. OffReader \in ReaderLocals /\ ReaderRange(OffReader)
    BY RingAssumption, ChunksOK
       DEF IdleReader, OffReader, ReaderLocals, ReaderPcs, States, Words, Free, Word,
           ReaderRange, Slotted
  <1>2. rd' \in [Threads -> ReaderLocals] /\ \A t \in Threads : ReaderRange(rd'[t])
    BY <1>1, IdleReaderType DEF Spawn, Die, TypeInv, TypeOK, Ranges, ReaderRange
  <1>3. TypeOK'
    BY <1>2 DEF Spawn, Die, TypeInv, TypeOK, counters
  <1>4. Ranges'
    BY <1>2 DEF Spawn, Die, TypeInv, Ranges, ReaderRange
  <1> QED
    BY <1>3, <1>4 DEF TypeInv

WriterRange(w) == w.pc \in {"judge", "verdict", "clear"} => w.slot < LeaseSlots

\* A writer step changes its own locals, at most one chunk header, lease words
\* and counters.
LEMMA WriteType ==
  ASSUME TypeInv, wr' \in WriterLocals, WriterRange(wr'),
         ch' \in [Chunks -> ChunkHeaders], wc' \in Chunks,
         wr'.pc \in {"note", "publish"} => ch'[wc'].used + wr'.row.len <= Cap,
         lease' \in [Chunks -> [Slots -> Words]], UNCHANGED leaseStart, WriterFrame,
         recycled' \in Nat, overwritten' \in Nat, blocked' \in Nat, committed' \in Nat,
         crashes' \in Nat
  PROVE  TypeInv'
  <1>1. TypeOK'
    BY DEF TypeInv, TypeOK, WriterFrame
  <1>2. Ranges'
    BY DEF TypeInv, Ranges, WriterFrame, WriterRange
  <1> QED
    BY <1>1, <1>2 DEF TypeInv

\* The locals of a writer between two operations are well typed.
LEMMA IdleWriterType == IdleWriter \in WriterLocals /\ IdleWriter.pc = "idle"
  BY RingAssumption DEF IdleWriter, WriterLocals, WriterPcs, States, Words, Free, Word

\* A step that leaves the shared memory alone.
LEMMA LocalWriteType ==
  ASSUME TypeInv, LocalWrite, wr' \in WriterLocals, WriterRange(wr'),
         wr'.pc \in {"note", "publish"} => ch[wc].used + wr'.row.len <= Cap
  PROVE  TypeInv'
  BY WriteType DEF LocalWrite, OnChunks, TypeInv, TypeOK

\* A step that replaces one chunk header.
LEMMA PutType ==
  ASSUME TypeInv, OnChunks, NEW c \in Chunks, NEW h \in ChunkHeaders, Put(c, h),
         wr' \in WriterLocals, WriterRange(wr'),
         wr'.pc \in {"note", "publish"} => ch'[wc].used + wr'.row.len <= Cap
  PROVE  TypeInv'
  <1>1. ch' \in [Chunks -> ChunkHeaders]
    BY DEF Put, TypeInv, TypeOK
  <1> QED
    BY <1>1, WriteType DEF OnChunks, TypeInv, TypeOK

\* What the invariant says of the writer, its chunk and the chunk to recycle.
LEMMA WriterHere ==
  ASSUME TypeInv
  PROVE  /\ wr \in WriterLocals /\ WriterRange(wr) /\ wc \in Chunks /\ Tgt \in Chunks
         /\ ch[wc] \in ChunkHeaders /\ ch[Tgt] \in ChunkHeaders
         /\ wr.slot < LeaseSlots => wr.slot \in Slots
         /\ wr.row.len \in Nat /\ wr.row.ts \in Stamps
  <1>1. wr \in WriterLocals /\ WriterRange(wr) /\ wc \in Chunks
    BY DEF TypeInv, TypeOK, Ranges, WriterRange
  <1>2. Tgt \in Chunks
    BY <1>1, TgtOK
  <1>3. wr.slot \in 0 .. LeaseSlots /\ wr.row \in Row \cup {NoRow}
    BY <1>1 DEF WriterLocals
  <1>4. wr.row.len \in Nat /\ wr.row.ts \in Stamps
    <2>1. CASE wr.row \in Row
      BY <2>1, RingAssumption DEF Row, Stamps
    <2>2. CASE wr.row = NoRow
      BY <2>2, RingAssumption DEF NoRow, Stamps
    <2> QED
      BY <1>3, <2>1, <2>2
  <1> QED
    BY <1>1, <1>2, <1>3, <1>4, RingAssumption DEF TypeInv, TypeOK, Slots

\* A jump of the writer outside the lease scan keeps its locals well typed.
LEMMA GotoType ==
  ASSUME TypeInv, NEW pc \in WriterPcs \ {"judge", "verdict", "clear"}, Goto(pc)
  PROVE  wr' \in WriterLocals /\ wr'.pc = pc /\ wr'.row = wr.row /\ WriterRange(wr')
  <1>1. wr \in WriterLocals
    BY WriterHere
  <1>2. wr' \in WriterLocals /\ wr'.pc = pc /\ wr'.row = wr.row
    BY <1>1 DEF Goto, WriterLocals
  <1> QED
    BY <1>2 DEF WriterRange

\* The start of an operation keeps types and ranges.
LEMMA CallType ==
  ASSUME TypeInv, WriterCall
  PROVE  TypeInv'
  <1>1. ASSUME NEW row \in Row, Push(row) PROVE TypeInv'
    <2>1. wr' \in WriterLocals /\ wr'.pc = "write"
      BY <1>1, IdleWriterType DEF Push, WriterLocals, WriterPcs
    <2> QED
      BY <1>1, <2>1, LocalWriteType DEF Push, WriterRange
  <1>2. ASSUME NEW row \in Row, Append(row) PROVE TypeInv'
    <2>1. wr' \in WriterLocals /\ wr'.pc = "write"
      BY <1>2, IdleWriterType DEF Append, WriterLocals, WriterPcs
    <2> QED
      BY <1>2, <2>1, LocalWriteType DEF Append, WriterRange
  <1>3. CASE Advance
    <2>1. wr' \in WriterLocals /\ wr'.pc = "block"
      BY <1>3, IdleWriterType DEF Advance, WriterLocals, WriterPcs
    <2> QED
      BY <1>3, <2>1, LocalWriteType DEF Advance, WriterRange
  <1> QED
    BY <1>1, <1>2, <1>3 DEF WriterCall

\* So does every step of the writer; a row is published only where the room
\* test of write_row_bytes, one or two steps earlier, still holds.
LEMMA WriterStepType ==
  ASSUME TypeInv, WriterStep
  PROVE  TypeInv'
  <1>0. /\ wr \in WriterLocals /\ WriterRange(wr) /\ wc \in Chunks /\ Tgt \in Chunks
        /\ ch[wc] \in ChunkHeaders /\ ch[Tgt] \in ChunkHeaders
        /\ wr.row.len \in Nat /\ wr.row.ts \in Stamps
    BY WriterHere
  <1>a. wr.pc \in {"note", "publish"} => ch[wc].used + wr.row.len <= Cap
    BY DEF TypeInv, Ranges
  <1>b. IdleWriter \in WriterLocals /\ WriterRange(IdleWriter) /\ IdleWriter.pc = "idle"
    BY IdleWriterType DEF WriterRange
  <1>c. Free \in Words
    BY DEF Free, Word, Words
  <1>1. CASE WriteTest
    <2>1. CASE Fits
      <3>1. Goto("note")
        BY <1>1, <2>1 DEF WriteTest, Goto
      <3>2. wr' \in WriterLocals /\ WriterRange(wr') /\ wr'.row = wr.row
        BY <3>1, GotoType DEF WriterPcs
      <3> QED
        BY <1>1, <2>1, <3>2, LocalWriteType DEF WriteTest, Fits
    <2>2. CASE ~Fits /\ wr.op = "push"
      <3>1. Goto("block")
        BY <1>1, <2>2 DEF WriteTest, Goto
      <3>2. wr' \in WriterLocals /\ WriterRange(wr') /\ wr'.pc = "block"
        BY <3>1, GotoType DEF WriterPcs
      <3> QED
        BY <1>1, <3>2, LocalWriteType DEF WriteTest
    <2>3. CASE ~Fits /\ wr.op # "push"
      BY <1>1, <1>b, <2>3, LocalWriteType DEF WriteTest
    <2> QED
      BY <2>1, <2>2, <2>3
  <1>2. CASE NoteTs
    <2> DEFINE h == [ch[wc] EXCEPT !.min = IF wr.row.ts < @ THEN wr.row.ts ELSE @,
                                   !.max = IF wr.row.ts > @ THEN wr.row.ts ELSE @]
    <2>1. h \in ChunkHeaders /\ h.used = ch[wc].used
      BY <1>0 DEF ChunkHeaders
    <2>2. Put(wc, h) /\ OnChunks /\ Goto("publish") /\ wr.pc = "note"
      BY <1>2 DEF NoteTs
    <2> HIDE DEF h
    <2>3. wr' \in WriterLocals /\ WriterRange(wr') /\ wr'.row = wr.row
      BY <2>2, GotoType DEF WriterPcs
    <2>4. ch'[wc].used = ch[wc].used
      BY <1>0, <2>1, <2>2 DEF Put, TypeInv, TypeOK
    <2> QED
      BY <1>0, <1>a, <2>1, <2>2, <2>3, <2>4, PutType
  <1>3. CASE Publish
    <2> DEFINE h == [ch[wc] EXCEPT !.used = @ + wr.row.len, !.visible = @ \cup {wr.row.ts}]
    <2>1. ch[wc].used + wr.row.len \in 0 .. Cap
      BY <1>0, <1>3, <1>a DEF Publish, ChunkHeaders
    <2>2. h \in ChunkHeaders
      BY <1>0, <2>1 DEF ChunkHeaders
    <2>3. wr' \in WriterLocals /\ WriterRange(wr') /\ wr'.pc = "count"
      BY <1>3, GotoType DEF Publish, WriterPcs
    <2> QED
      BY <1>0, <1>3, <2>2, <2>3, PutType DEF Publish
  <1>4. CASE CountRow
    <2> DEFINE h == [ch[wc] EXCEPT !.rows = @ + 1]
    <2>1. h \in ChunkHeaders
      BY <1>0 DEF ChunkHeaders
    <2>2. ch' \in [Chunks -> ChunkHeaders]
      BY <1>0, <1>4, <2>1 DEF CountRow, Put, TypeInv, TypeOK
    <2> QED
      BY <1>4, <1>b, <2>2, WriteType DEF CountRow, TypeInv, TypeOK
  <1>5. CASE BlockPins
    <2> DEFINE h == [ch[Tgt] EXCEPT !.state = "Empty"]
    <2>1. h \in ChunkHeaders
      BY <1>0 DEF ChunkHeaders, States
    <2>2. ch[Tgt].state \in States /\ 0 \in 0 .. DrainSpins /\ 0 \in 0 .. LeaseSlots
      BY <1>0, RingAssumption DEF ChunkHeaders
    <2>3. wr' \in WriterLocals /\ wr'.pc = "scan"
      BY <1>0, <1>5, <2>2 DEF BlockPins, WriterLocals, WriterPcs
    <2> QED
      BY <1>0, <1>5, <2>1, <2>3, PutType DEF BlockPins, WriterRange
  <1>6. CASE Drain
    <2>1. CASE ScanSlot
      <3>1. wr.slot + 1 \in 0 .. LeaseSlots /\ wr.pc = "scan" /\ wr.slot < LeaseSlots
        BY <1>0, <2>1, RingAssumption DEF ScanSlot, WriterLocals
      <3>a. lease[Tgt][wr.slot] \in Words
        BY <1>0, <3>1, WriterHere DEF TypeInv, TypeOK
      <3>2. wr' \in WriterLocals /\ wr'.pc \in {"scan", "judge"}
            /\ (wr'.pc = "judge" => wr'.slot < LeaseSlots)
        <4>1. CASE lease[Tgt][wr.slot] = Free
          <5>1. wr' = [wr EXCEPT !.slot = @ + 1]
            BY <2>1, <4>1 DEF ScanSlot
          <5> QED
            BY <1>0, <3>1, <5>1 DEF WriterLocals
        <4>2. CASE lease[Tgt][wr.slot] # Free
          <5>1. wr' = [wr EXCEPT !.pc = "judge", !.word = lease[Tgt][wr.slot]]
            BY <2>1, <4>2 DEF ScanSlot
          <5> QED
            BY <1>0, <3>1, <3>a, <5>1 DEF WriterLocals, WriterPcs
        <4> QED
          BY <4>1, <4>2
      <3> QED
        BY <2>1, <3>2, LocalWriteType DEF ScanSlot, WriterRange
    <2>2. CASE WriterJudge
      <3>1. leaseStart[Tgt][wr.slot] \in Nat /\ wr.slot < LeaseSlots
        BY <1>0, <2>2, WriterHere DEF WriterJudge, TypeInv, TypeOK, WriterRange
      <3>2. wr' \in WriterLocals /\ wr'.pc = "verdict" /\ wr'.slot < LeaseSlots
        BY <1>0, <2>2, <3>1 DEF WriterJudge, WriterLocals, WriterPcs
      <3> QED
        BY <2>2, <3>2, LocalWriteType DEF WriterJudge, WriterRange
    <2>3. CASE WriterVerdict
      <3>1. wr.slot < LeaseSlots /\ wr.slot + 1 \in 0 .. LeaseSlots
        BY <1>0, <2>3, RingAssumption DEF WriterVerdict, WriterRange, WriterLocals
      <3>2. wr' \in WriterLocals /\ wr'.pc \in {"scan", "clear"}
            /\ (wr'.pc = "clear" => wr'.slot < LeaseSlots)
        <4>1. CASE owner_alive(wr.word, wr.start)
          <5>1. wr' = [wr EXCEPT !.pc = "scan", !.slot = @ + 1, !.live = TRUE,
                                 !.word = Free, !.start = 0]
            BY <2>3, <4>1 DEF WriterVerdict
          <5> QED
            BY <1>0, <1>c, <3>1, <5>1 DEF WriterLocals, WriterPcs
        <4>2. CASE ~owner_alive(wr.word, wr.start)
          <5>1. wr' = [wr EXCEPT !.pc = "clear"]
            BY <2>3, <4>2 DEF WriterVerdict
          <5> QED
            BY <1>0, <3>1, <5>1 DEF WriterLocals, WriterPcs
        <4> QED
          BY <4>1, <4>2
      <3> QED
        BY <2>3, <3>2, LocalWriteType DEF WriterVerdict, WriterRange
    <2>4. CASE WriterClear
      <3>0. wr.slot < LeaseSlots
        BY <1>0, <2>4 DEF WriterClear, WriterRange
      <3>1. wr.slot \in Slots /\ wr.slot + 1 \in 0 .. LeaseSlots
        BY <1>0, <3>0, RingAssumption DEF WriterLocals, Slots
      <3>2. wr' \in WriterLocals /\ wr'.pc = "scan"
        <4>1. CASE lease[Tgt][wr.slot] = wr.word
          <5>1. wr' = [wr EXCEPT !.pc = "scan", !.slot = @ + 1, !.word = Free, !.start = 0]
            BY <2>4, <4>1 DEF WriterClear
          <5> QED
            BY <1>0, <1>c, <3>1, <5>1 DEF WriterLocals, WriterPcs
        <4>2. CASE lease[Tgt][wr.slot] # wr.word
          <5>1. wr' = [wr EXCEPT !.pc = "scan", !.word = Free, !.start = 0]
            BY <2>4, <4>2 DEF WriterClear
          <5> QED
            BY <1>0, <1>c, <5>1 DEF WriterLocals, WriterPcs
        <4> QED
          BY <4>1, <4>2
      <3>3. lease' \in [Chunks -> [Slots -> Words]]
        <4>1. lease \in [Chunks -> [Slots -> Words]]
          BY DEF TypeInv, TypeOK
        <4>2. lease' = [lease EXCEPT ![Tgt][wr.slot] = Free] \/ lease' = lease
          BY <2>4 DEF WriterClear
        <4> QED
          BY <1>0, <1>c, <3>1, <4>1, <4>2
      <3> QED
        BY <2>4, <3>2, <3>3, WriteType DEF WriterClear, WriterRange, TypeInv, TypeOK
    <2>5. CASE ScanEnd
      <3>1. wr.pass < DrainSpins => NextPass \in 0 .. DrainSpins
        BY <1>0, RingAssumption DEF NextPass, WriterLocals
      <3>a. 0 \in 0 .. LeaseSlots /\ wr.pc = "scan"
        BY <2>5, RingAssumption DEF ScanEnd
      <3>2. wr' \in WriterLocals /\ wr'.pc \in {"scan", "defer", "seal"}
        <4>1. CASE wr.pass < DrainSpins
          <5>1. wr' = [wr EXCEPT !.pass = NextPass, !.slot = 0, !.live = FALSE]
            BY <2>5, <4>1 DEF ScanEnd
          <5> QED
            BY <1>0, <3>1, <3>a, <4>1, <5>1 DEF WriterLocals
        <4>2. CASE ~(wr.pass < DrainSpins)
          <5>1. Goto("defer") \/ Goto("seal")
            BY <2>5, <4>2 DEF ScanEnd, Goto
          <5> QED
            BY <5>1, GotoType DEF WriterPcs
        <4> QED
          BY <4>1, <4>2
      <3> QED
        BY <2>5, <3>2, LocalWriteType DEF ScanEnd, WriterRange
    <2> QED
      BY <1>6, <2>1, <2>2, <2>3, <2>4, <2>5 DEF Drain
  <1>7. CASE Defer
    <2> DEFINE h == [ch[Tgt] EXCEPT !.state = wr.prev]
    <2>1. h \in ChunkHeaders
      BY <1>0 DEF ChunkHeaders, WriterLocals
    <2>2. ch' \in [Chunks -> ChunkHeaders]
      BY <1>0, <1>7, <2>1 DEF Defer, Put, TypeInv, TypeOK
    <2> QED
      BY <1>7, <1>b, <2>2, WriteType DEF Defer, TypeInv, TypeOK
  <1>8. CASE Recycle
    <2>1. CASE Seal
      <3> DEFINE h == [ch[wc] EXCEPT !.state = IF wc # Tgt THEN "Sealed" ELSE @]
      <3>1. h \in ChunkHeaders
        BY <1>0 DEF ChunkHeaders, States
      <3>2. wr' \in WriterLocals /\ WriterRange(wr') /\ wr'.pc = "lost"
        BY <2>1, GotoType DEF Seal, WriterPcs
      <3> QED
        BY <1>0, <2>1, <3>1, <3>2, PutType DEF Seal
    <2>2. CASE CountLost
      <3>1. wr' \in WriterLocals /\ WriterRange(wr') /\ wr'.pc = "bump"
        BY <2>2, GotoType DEF CountLost, WriterPcs
      <3>2. recycled' \in Nat /\ overwritten' \in Nat
        BY <1>0, <2>2 DEF CountLost, TypeInv, TypeOK, ChunkHeaders
      <3> QED
        BY <2>2, <3>1, <3>2, WriteType DEF CountLost, TypeInv, TypeOK
    <2>3. CASE BumpGeneration
      <3> DEFINE h == [ch[Tgt] EXCEPT !.gen = @ + 1]
      <3>1. h \in ChunkHeaders
        BY <1>0 DEF ChunkHeaders
      <3>2. wr' \in WriterLocals /\ WriterRange(wr') /\ wr'.pc = "wipe"
        BY <2>3, GotoType DEF BumpGeneration, WriterPcs
      <3> QED
        BY <1>0, <2>3, <3>1, <3>2, PutType DEF BumpGeneration
    <2>4. CASE ResetUsed
      <3> DEFINE h == [ch[Tgt] EXCEPT !.used = 0, !.visible = {}]
      <3>1. h \in ChunkHeaders
        <4>1. 0 \in 0 .. Cap /\ {} \in SUBSET Stamps
          BY RingAssumption
        <4> QED
          BY <1>0, <4>1 DEF ChunkHeaders
      <3>2. wr' \in WriterLocals /\ WriterRange(wr') /\ wr'.pc = "zero"
        BY <2>4, GotoType DEF ResetUsed, WriterPcs
      <3> QED
        BY <1>0, <2>4, <3>1, <3>2, PutType DEF ResetUsed
    <2>5. CASE ResetRowCount
      <3> DEFINE h == [ch[Tgt] EXCEPT !.rows = 0]
      <3>1. h \in ChunkHeaders
        BY <1>0 DEF ChunkHeaders
      <3>2. wr' \in WriterLocals /\ WriterRange(wr') /\ wr'.pc = "unrange"
        BY <2>5, GotoType DEF ResetRowCount, WriterPcs
      <3> QED
        BY <1>0, <2>5, <3>1, <3>2, PutType DEF ResetRowCount
    <2>6. CASE ResetTs
      <3> DEFINE h == [ch[Tgt] EXCEPT !.min = TsMinInit, !.max = TsMaxInit]
      <3>1. h \in ChunkHeaders
        <4>1. TsMinInit \in Stamps /\ TsMaxInit \in Stamps
          BY RingAssumption DEF TsMinInit, TsMaxInit, Stamps
        <4> QED
          BY <1>0, <4>1 DEF ChunkHeaders
      <3>2. wr' \in WriterLocals /\ WriterRange(wr') /\ wr'.pc = "open"
        BY <2>6, GotoType DEF ResetTs, WriterPcs
      <3> QED
        BY <1>0, <2>6, <3>1, <3>2, PutType DEF ResetTs
    <2>7. CASE OpenChunk
      <3> DEFINE h == [ch[Tgt] EXCEPT !.state = "Writing"]
      <3>1. h \in ChunkHeaders
        BY <1>0 DEF ChunkHeaders, States
      <3>2. wr' \in WriterLocals /\ WriterRange(wr') /\ wr'.pc = "turn"
        BY <2>7, GotoType DEF OpenChunk, WriterPcs
      <3> QED
        BY <1>0, <2>7, <3>1, <3>2, PutType DEF OpenChunk
    <2>8. CASE Turn
      <3>1. wr.row \in Row \cup {NoRow}
        BY <1>0 DEF WriterLocals
      <3>2. wr' \in WriterLocals /\ wr'.pc \in {"write", "idle"}
        <4>1. CASE wr.op = "push"
          <5>1. wr' = [IdleWriter EXCEPT !.pc = "write", !.op = "again", !.row = wr.row]
            BY <2>8, <4>1 DEF Turn
          <5> QED
            BY <1>b, <3>1, <5>1 DEF WriterLocals, WriterPcs
        <4>2. CASE wr.op # "push"
          BY <1>b, <2>8, <4>2 DEF Turn
        <4> QED
          BY <4>1, <4>2
      <3> QED
        BY <1>0, <2>8, <3>2, WriteType DEF Turn, WriterRange, TypeInv, TypeOK
    <2> QED
      BY <1>8, <2>1, <2>2, <2>3, <2>4, <2>5, <2>6, <2>7, <2>8 DEF Recycle
  <1> QED
    BY <1>1, <1>2, <1>3, <1>4, <1>5, <1>6, <1>7, <1>8 DEF WriterStep

\* Types and ranges are inductive.
LEMMA NextType == TypeInv /\ [Next]_vars => TypeInv'
  <1> SUFFICES ASSUME TypeInv, [Next]_vars PROVE TypeInv'
    OBVIOUS
  <1>1. CASE WriterCrash
    <2>1. wr' \in WriterLocals /\ wr'.pc = "down"
      BY <1>1, IdleWriterType DEF WriterCrash, WriterLocals, WriterPcs
    <2> QED
      BY <1>1, <2>1, WriteType DEF WriterCrash, WriterRange, TypeInv, TypeOK
  <1>2. CASE Reopen
    BY <1>2, IdleWriterType, LocalWriteType DEF Reopen, WriterRange
  <1>3. CASE UNCHANGED vars
    BY <1>3 DEF vars, counters, TypeInv, TypeOK, Ranges
  <1> QED
    BY <1>1, <1>2, <1>3, ProcType, ReaderType, CallType, WriterStepType DEF Next

\* Every header word, lease word and local keeps its type whatever the number
\* of chunks, slots, readers and processes; a chunk's `used' never passes its
\* payload capacity.
THEOREM TypeCorrect == Spec => []TypeOK
  <1>1. Spec => []TypeInv
    BY InitType, NextType, PTL DEF Spec
  <1>2. TypeInv => TypeOK
    BY DEF TypeInv
  <1> QED
    BY <1>1, <1>2, PTL
(***************************************************************************)
(* The timestamp range of a chunk.  TsRangeCovers alone is not inductive:  *)
(* Publish relies on NoteTs having widened the range for the very row, and *)
(* ResetTs on ResetUsed having hidden every row.                           *)
(***************************************************************************)
Noted == wr.pc = "publish" => ch[wc].min <= wr.row.ts /\ wr.row.ts <= ch[wc].max
Wiped == wr.pc \in {"zero", "unrange"} => ch[Tgt].visible = {}
TsInv == TypeInv /\ TsRangeCovers /\ Noted /\ Wiped

Covers(h) == \A ts \in h.visible : h.min <= ts /\ ts <= h.max

\* A step that replaces one header keeps every range that covers.
LEMMA PutCovers ==
  ASSUME TypeInv, TsRangeCovers, NEW c \in Chunks, NEW h, Put(c, h), Covers(h)
  PROVE  TsRangeCovers' /\ ch'[c] = h
  <1>1. ch \in [Chunks -> ChunkHeaders]
    BY DEF TypeInv, TypeOK
  <1>2. \A d \in Chunks : ch'[d] = IF d = c THEN h ELSE ch[d]
    BY <1>1 DEF Put
  <1> QED
    BY <1>2 DEF TsRangeCovers, Covers

\* Steps that change no header and do not come to publish, zero or unrange.
LEMMA StillCovers ==
  ASSUME TsInv, UNCHANGED ch, wr'.pc \notin {"publish", "zero", "unrange"}
  PROVE  TsRangeCovers' /\ Noted' /\ Wiped'
  BY DEF TsInv, TsRangeCovers, Noted, Wiped

\* Steps of readers and processes leave the writer and the headers alone.
LEMMA ElsewhereCovers ==
  ASSUME TsInv, UNCHANGED <<ch, wc, wr>>
  PROVE  TsRangeCovers' /\ Noted' /\ Wiped'
  BY DEF TsInv, TsRangeCovers, Noted, Wiped, Tgt

\* The program counter a Goto leads to.
LEMMA GotoPc ==
  ASSUME TypeInv, NEW pc, Goto(pc)
  PROVE  wr'.pc = pc /\ wr'.row = wr.row
  BY WriterHere DEF Goto, WriterLocals

\* Every step of the writer keeps the ranges.
LEMMA WriterCovers ==
  ASSUME TsInv, WriterStep
  PROVE  TsRangeCovers' /\ Noted' /\ Wiped'
  <1>0. /\ TypeInv /\ wc \in Chunks /\ Tgt \in Chunks /\ wr \in WriterLocals
        /\ ch[wc] \in ChunkHeaders /\ ch[Tgt] \in ChunkHeaders /\ wr.row.ts \in Stamps
    BY WriterHere DEF TsInv
  <1>a. Covers(ch[wc]) /\ Covers(ch[Tgt]) /\ TsRangeCovers
    BY <1>0 DEF TsInv, TsRangeCovers, Covers
  <1>b. IdleWriter.pc = "idle"
    BY DEF IdleWriter
  <1>1. CASE WriteTest
    <2>1. wr'.pc \in {"note", "block", "idle"}
      BY <1>0, <1>1, <1>b DEF WriteTest, WriterLocals
    <2> QED
      BY <1>1, <2>1, StillCovers DEF WriteTest, LocalWrite
  <1>2. CASE NoteTs
    <2> DEFINE h == [ch[wc] EXCEPT !.min = IF wr.row.ts < @ THEN wr.row.ts ELSE @,
                                   !.max = IF wr.row.ts > @ THEN wr.row.ts ELSE @]
    <2>1. Put(wc, h) /\ Goto("publish") /\ wc' = wc
      BY <1>2 DEF NoteTs, OnChunks
    <2>2. /\ h.visible = ch[wc].visible
          /\ h.min = IF wr.row.ts < ch[wc].min THEN wr.row.ts ELSE ch[wc].min
          /\ h.max = IF wr.row.ts > ch[wc].max THEN wr.row.ts ELSE ch[wc].max
      BY <1>0 DEF ChunkHeaders
    <2> HIDE DEF h
    <2>3. ch[wc].min \in Nat /\ ch[wc].max \in Nat /\ wr.row.ts \in Nat
          /\ ch[wc].visible \subseteq Nat
      BY <1>0, RingAssumption DEF ChunkHeaders, Stamps
    <2>4. Covers(h) /\ h.min <= wr.row.ts /\ wr.row.ts <= h.max
      BY <1>a, <2>2, <2>3 DEF Covers
    <2>5. wr'.pc = "publish" /\ wr'.row = wr.row
      BY <1>0, <2>1, GotoPc
    <2>6. TsRangeCovers' /\ ch'[wc] = h
      BY <1>0, <1>a, <2>1, <2>4, PutCovers
    <2> QED
      BY <2>1, <2>4, <2>5, <2>6 DEF Noted, Wiped
  <1>3. CASE Publish
    <2> DEFINE h == [ch[wc] EXCEPT !.used = @ + wr.row.len, !.visible = @ \cup {wr.row.ts}]
    <2>1. Put(wc, h) /\ wr'.pc = "count" /\ wr.pc = "publish"
      BY <1>0, <1>3, GotoPc DEF Publish
    <2>2. h.min = ch[wc].min /\ h.max = ch[wc].max /\ h.visible = ch[wc].visible \cup {wr.row.ts}
      BY <1>0 DEF ChunkHeaders
    <2> HIDE DEF h
    <2>3. Covers(h)
      BY <1>a, <2>1, <2>2 DEF TsInv, Noted, Covers
    <2> QED
      BY <1>0, <1>a, <2>1, <2>3, PutCovers DEF Noted, Wiped
  <1>4. CASE CountRow
    <2> DEFINE h == [ch[wc] EXCEPT !.rows = @ + 1]
    <2>1. Put(wc, h) /\ wr'.pc = "idle"
      BY <1>b, <1>4 DEF CountRow
    <2>2. h.min = ch[wc].min /\ h.max = ch[wc].max /\ h.visible = ch[wc].visible
      BY <1>0 DEF ChunkHeaders
    <2> HIDE DEF h
    <2> QED
      BY <1>0, <1>a, <2>1, <2>2, PutCovers DEF Covers, Noted, Wiped
  <1>5. CASE BlockPins
    <2> DEFINE h == [ch[Tgt] EXCEPT !.state = "Empty"]
    <2>1. Put(Tgt, h) /\ wr'.pc = "scan"
      BY <1>0, <1>5 DEF BlockPins, WriterLocals
    <2>2. h.min = ch[Tgt].min /\ h.max = ch[Tgt].max /\ h.visible = ch[Tgt].visible
      BY <1>0 DEF ChunkHeaders
    <2> HIDE DEF h
    <2> QED
      BY <1>0, <1>a, <2>1, <2>2, PutCovers DEF Covers, Noted, Wiped
  <1>6. CASE Drain
    <2>1. UNCHANGED ch
      BY <1>6 DEF Drain, ScanSlot, WriterJudge, WriterVerdict, WriterClear, ScanEnd, LocalWrite
    <2>2. CASE ScanSlot
      BY <1>0, <2>1, <2>2, StillCovers DEF ScanSlot, WriterLocals
    <2>3. CASE WriterJudge
      BY <1>0, <2>1, <2>3, StillCovers DEF WriterJudge, WriterLocals
    <2>4. CASE WriterVerdict
      BY <1>0, <2>1, <2>4, StillCovers DEF WriterVerdict, WriterLocals
    <2>5. CASE WriterClear
      BY <1>0, <2>1, <2>5, StillCovers DEF WriterClear, WriterLocals
    <2>6. CASE ScanEnd
      BY <1>0, <2>1, <2>6, StillCovers DEF ScanEnd, WriterLocals
    <2> QED
      BY <1>6, <2>2, <2>3, <2>4, <2>5, <2>6 DEF Drain
  <1>7. CASE Defer
    <2> DEFINE h == [ch[Tgt] EXCEPT !.state = wr.prev]
    <2>1. Put(Tgt, h) /\ wr'.pc = "idle"
      BY <1>b, <1>7 DEF Defer
    <2>2. h.min = ch[Tgt].min /\ h.max = ch[Tgt].max /\ h.visible = ch[Tgt].visible
      BY <1>0 DEF ChunkHeaders
    <2> HIDE DEF h
    <2> QED
      BY <1>0, <1>a, <2>1, <2>2, PutCovers DEF Covers, Noted, Wiped
  <1>8. CASE Recycle
    <2>1. CASE Seal
      <3> DEFINE h == [ch[wc] EXCEPT !.state = IF wc # Tgt THEN "Sealed" ELSE @]
      <3>1. Put(wc, h) /\ wr'.pc = "lost"
        BY <1>0, <2>1, GotoPc DEF Seal
      <3>2. h.min = ch[wc].min /\ h.max = ch[wc].max /\ h.visible = ch[wc].visible
        BY <1>0 DEF ChunkHeaders
      <3> HIDE DEF h
      <3> QED
        BY <1>0, <1>a, <3>1, <3>2, PutCovers DEF Covers, Noted, Wiped
    <2>2. CASE CountLost
      <3>1. wr'.pc = "bump"
        BY <1>0, <2>2, GotoPc DEF CountLost
      <3> QED
        BY <2>2, <3>1, StillCovers DEF CountLost
    <2>3. CASE BumpGeneration
      <3> DEFINE h == [ch[Tgt] EXCEPT !.gen = @ + 1]
      <3>1. Put(Tgt, h) /\ wr'.pc = "wipe"
        BY <1>0, <2>3, GotoPc DEF BumpGeneration
      <3>2. h.min = ch[Tgt].min /\ h.max = ch[Tgt].max /\ h.visible = ch[Tgt].visible
        BY <1>0 DEF ChunkHeaders
      <3> HIDE DEF h
      <3> QED
        BY <1>0, <1>a, <3>1, <3>2, PutCovers DEF Covers, Noted, Wiped
    <2>4. CASE ResetUsed
      <3> DEFINE h == [ch[Tgt] EXCEPT !.used = 0, !.visible = {}]
      <3>1. Put(Tgt, h) /\ wr'.pc = "zero" /\ Tgt' = Tgt
        BY <1>0, <2>4, GotoPc DEF ResetUsed, OnChunks, Tgt
      <3>2. h.visible = {}
        BY <1>0 DEF ChunkHeaders
      <3> HIDE DEF h
      <3>3. TsRangeCovers' /\ ch'[Tgt] = h
        BY <1>0, <1>a, <3>1, <3>2, PutCovers DEF Covers
      <3> QED
        BY <3>1, <3>2, <3>3 DEF Noted, Wiped
    <2>5. CASE ResetRowCount
      <3> DEFINE h == [ch[Tgt] EXCEPT !.rows = 0]
      <3>1. Put(Tgt, h) /\ wr'.pc = "unrange" /\ Tgt' = Tgt
        BY <1>0, <2>5, GotoPc DEF ResetRowCount, OnChunks, Tgt
      <3>2. h.visible = {}
        BY <1>0, <2>5 DEF ChunkHeaders, TsInv, Wiped, ResetRowCount
      <3> HIDE DEF h
      <3>3. TsRangeCovers' /\ ch'[Tgt] = h
        BY <1>0, <1>a, <3>1, <3>2, PutCovers DEF Covers
      <3> QED
        BY <3>1, <3>2, <3>3 DEF Noted, Wiped
    <2>6. CASE ResetTs
      <3> DEFINE h == [ch[Tgt] EXCEPT !.min = TsMinInit, !.max = TsMaxInit]
      <3>1. Put(Tgt, h) /\ wr'.pc = "open"
        BY <1>0, <2>6, GotoPc DEF ResetTs
      <3>2. h.visible = {}
        BY <1>0, <2>6 DEF ChunkHeaders, TsInv, Wiped, ResetTs
      <3> HIDE DEF h
      <3> QED
        BY <1>0, <1>a, <3>1, <3>2, PutCovers DEF Covers, Noted, Wiped
    <2>7. CASE OpenChunk
      <3> DEFINE h == [ch[Tgt] EXCEPT !.state = "Writing"]
      <3>1. Put(Tgt, h) /\ wr'.pc = "turn"
        BY <1>0, <2>7, GotoPc DEF OpenChunk
      <3>2. h.min = ch[Tgt].min /\ h.max = ch[Tgt].max /\ h.visible = ch[Tgt].visible
        BY <1>0 DEF ChunkHeaders
      <3> HIDE DEF h
      <3> QED
        BY <1>0, <1>a, <3>1, <3>2, PutCovers DEF Covers, Noted, Wiped
    <2>8. CASE Turn
      <3>1. wr'.pc \in {"write", "idle"}
        BY <1>b, <2>8 DEF Turn, IdleWriter
      <3> QED
        BY <2>8, <3>1, StillCovers DEF Turn
    <2> QED
      BY <1>8, <2>1, <2>2, <2>3, <2>4, <2>5, <2>6, <2>7, <2>8 DEF Recycle
  <1> QED
    BY <1>1, <1>2, <1>3, <1>4, <1>5, <1>6, <1>7, <1>8 DEF WriterStep

\* The strengthened invariant holds initially and is kept by every step.
LEMMA InitTs == Init => TsInv
  <1> SUFFICES ASSUME Init PROVE TsInv
    OBVIOUS
  <1>1. TsRangeCovers
    BY DEF Init, TsRangeCovers, Fresh
  <1>2. wr.pc = "idle"
    BY DEF Init, IdleWriter
  <1> QED
    BY <1>1, <1>2, InitType DEF TsInv, Noted, Wiped

\* Every step of Next keeps the strengthened range invariant.
LEMMA NextTs == TsInv /\ [Next]_vars => TsInv'
  <1> SUFFICES ASSUME TsInv, [Next]_vars PROVE TsInv'
    OBVIOUS
  <1>0. TypeInv'
    BY NextType DEF TsInv
  <1>1. ASSUME NEW p \in Procs, Spawn(p) \/ Die(p) PROVE TsRangeCovers' /\ Noted' /\ Wiped'
    BY <1>1, ElsewhereCovers DEF Spawn, Die
  <1>2. ASSUME NEW t \in Threads, Reader(t) PROVE TsRangeCovers' /\ Noted' /\ Wiped'
    <2>1. ReaderFrame
      BY <1>2 DEF Reader, Acquire, PinBegin, PinRetry, LoadGen, Exhausted, LoadSlot, OwnStart,
         Join, Claim, StampStart, Confirm, Judge, Verdict, Clear, Recheck, Regen, Extent,
         Unpin, ReleaseLoad, ReleaseDec, LocalStep
    <2> QED
      BY <2>1, ElsewhereCovers DEF ReaderFrame
  <1>3. CASE WriterCall
    <2>1. UNCHANGED ch /\ wr'.pc \in {"write", "block"}
      BY <1>3, IdleWriterType DEF WriterCall, Push, Append, Advance, LocalWrite, WriterLocals
    <2> QED
      BY <1>0, <2>1, StillCovers DEF TsInv
  <1>4. CASE WriterCrash \/ Reopen
    <2>1. UNCHANGED ch /\ wr'.pc \in {"down", "idle"}
      BY <1>4, IdleWriterType DEF WriterCrash, Reopen, LocalWrite, WriterLocals
    <2> QED
      BY <1>0, <2>1, StillCovers DEF TsInv
  <1>5. CASE UNCHANGED vars
    BY <1>0, <1>5, ElsewhereCovers DEF vars, counters, TsInv
  <1> QED
    BY <1>0, <1>1, <1>2, <1>3, <1>4, <1>5, WriterCovers DEF Next, TsInv

\* Pruning by time range is sound: in every reachable state, crashes of the
\* writer and deferred recycles included, the range a chunk publishes covers
\* every row a reader can see below `used'.
THEOREM TsRangeSound == Spec => []TsRangeCovers
  <1>1. Spec => []TsInv
    BY InitTs, NextTs, PTL DEF Spec
  <1>2. TsInv => TsRangeCovers
    BY DEF TsInv
  <1> QED
    BY <1>1, <1>2, PTL
(***************************************************************************)
(* Sums over the chunks.                                                   *)
(***************************************************************************)
\* A set of naturals that is not empty has a least element: of the sets of its
\* elements up to one of them, some is minimal.
LEMMA Least ==
  ASSUME NEW S \in SUBSET Nat, S # {}
  PROVE \E m \in S : \A x \in S : m <= x
  <1> DEFINE Upto(x) == {y \in S : y <= x}
             T == {Upto(x) : x \in S}
             R == StrictSubsetOrdering(S)
  <1>1. \A x \in S : Upto(x) \in FiniteSubsetsOf(S)
    <2> SUFFICES ASSUME NEW x \in S PROVE Upto(x) \in FiniteSubsetsOf(S)
      OBVIOUS
    <2>1. Upto(x) \in SUBSET Nat /\ x \in Nat /\ \A y \in Upto(x) : y <= x
      OBVIOUS
    <2>2. IsFiniteSet(Upto(x))
      BY <2>1, FS_BoundedSetOfNaturals
    <2> QED
      BY <2>2 DEF FiniteSubsetsOf
  <1>2. T \subseteq FiniteSubsetsOf(S) /\ T # {}
    BY <1>1
  <1>3. IsWellFoundedOn(R, FiniteSubsetsOf(S))
    BY FS_StrictSubsetOrderingWellFounded
  <1> HIDE DEF R, T
  <1>4. \E A \in T : \A B \in T : ~ (<<B, A>> \in R)
    BY <1>2, <1>3, WFMin
  <1> USE DEF R, T
  <1>5. PICK m \in S : \A x \in S : ~ (<<Upto(x), Upto(m)>> \in R)
    BY <1>4
  <1>6. ASSUME NEW x \in S, ~(m <= x) PROVE FALSE
    <2>0. x \in Nat /\ m \in Nat /\ x < m /\ \A y \in S : y \in Nat
      BY <1>6
    <2>a. Upto(x) \subseteq Upto(m)
      <3> SUFFICES ASSUME NEW y \in S, y <= x PROVE y <= m
        OBVIOUS
      <3> y \in Nat
        OBVIOUS
      <3> QED
        BY <2>0
    <2>b. m \in Upto(m) /\ m \notin Upto(x)
      BY <2>0
    <2>1. Upto(x) \subseteq Upto(m) /\ m \in Upto(m) /\ m \notin Upto(x) /\ Upto(m) \subseteq S
      BY <2>a, <2>b
    <2>2. <<Upto(x), Upto(m)>> \in R
      BY <2>1 DEF StrictSubsetOrdering
    <2> QED
      BY <1>5, <2>2
  <1> QED
    BY <1>6

\* The sum over no chunk is 0 and each chunk adds its own: the recursion has a
\* solution, built one chunk at a time.
LEMMA SumSteps ==
  ASSUME NEW rows, NumChunks \in Nat
  PROVE  /\ RowsBefore(rows)[0] = 0
         /\ \A n \in 1 .. NumChunks : RowsBefore(rows)[n] = RowsBefore(rows)[n - 1] + rows[n - 1]
  <1> DEFINE Upto(f, n) == /\ DOMAIN f = 0 .. n /\ f[0] = 0
                           /\ \A k \in 1 .. n : f[k] = f[k - 1] + rows[k - 1]
             S == {n \in 0 .. NumChunks : ~ \E f : Upto(f, n)}
  <1>1. S = {}
    <2> SUFFICES ASSUME S # {} PROVE FALSE
      OBVIOUS
    <2>1. S \in SUBSET Nat
      OBVIOUS
    <2>2. PICK n \in S : \A x \in S : n <= x
      BY <2>1, Least
    <2>3. n \in Nat /\ n <= NumChunks
      BY <2>2
    <2>4. CASE n = 0
      <3> DEFINE f == [k \in 0 .. 0 |-> 0]
      <3>1. Upto(f, 0)
        OBVIOUS
      <3> QED
        BY <2>2, <2>4, <3>1
    <2>5. CASE n # 0
      <3>1. n - 1 \in 0 .. NumChunks /\ n - 1 < n
        BY <2>3, <2>5
      <3>2. n - 1 \notin S
        BY <2>2, <2>3, <3>1
      <3>3. PICK f : Upto(f, n - 1)
        BY <3>1, <3>2
      <3> DEFINE g == [k \in 0 .. n |-> IF k < n THEN f[k] ELSE f[n - 1] + rows[n - 1]]
      <3>4. DOMAIN g = 0 .. n /\ g[0] = 0
        BY <2>3, <2>5, <3>3
      <3>5. ASSUME NEW k \in 1 .. n PROVE g[k] = g[k - 1] + rows[k - 1]
        <4>1. k \in Nat /\ k - 1 \in 0 .. n /\ k \in 0 .. n /\ k - 1 < n
          BY <2>3
        <4>2. g[k - 1] = f[k - 1]
          BY <4>1
        <4>3. CASE k < n
          <5>1. k \in 1 .. n - 1 /\ g[k] = f[k]
            BY <2>3, <4>1, <4>3
          <5> QED
            BY <3>3, <4>2, <5>1
        <4>4. CASE k = n
          <5>1. g[k] = f[n - 1] + rows[n - 1]
            BY <2>3, <4>1, <4>4
          <5> QED
            BY <4>2, <4>4, <5>1
        <4> QED
          BY <2>3, <4>1, <4>3, <4>4
      <3> HIDE DEF g
      <3>6. Upto(g, n)
        BY <3>4, <3>5
      <3> QED
        BY <2>2, <3>6
    <2> QED
      BY <2>4, <2>5
  <1>2. PICK f : Upto(f, NumChunks)
    BY <1>1
  <1> DEFINE body(h, n) == IF n = 0 THEN 0 ELSE h[n - 1] + rows[n - 1]
  <1>4. \E h : h = [n \in 0 .. NumChunks |-> body(h, n)]
    <2> DEFINE h == [n \in 0 .. NumChunks |-> f[n]]
    <2>1. ASSUME NEW n \in 0 .. NumChunks PROVE h[n] = body(h, n)
      <3>1. CASE n = 0
        BY <1>2, <3>1
      <3>2. CASE n # 0
        <4>1. n \in 1 .. NumChunks /\ n - 1 \in 0 .. NumChunks
          BY <3>2
        <4>2. h[n] = f[n] /\ h[n - 1] = f[n - 1]
          BY <4>1
        <4> HIDE DEF h
        <4> QED
          BY <1>2, <3>2, <4>1, <4>2
      <3> QED
        BY <3>1, <3>2
    <2>2. DOMAIN h = 0 .. NumChunks /\ h = [n \in 0 .. NumChunks |-> h[n]]
      OBVIOUS
    <2> HIDE DEF h
    <2>3. h = [n \in 0 .. NumChunks |-> body(h, n)]
      BY <2>1, <2>2
    <2> QED
      BY <2>3
  <1> DEFINE t == RowsBefore(rows)
  <1>5. t = [n \in 0 .. NumChunks |-> body(t, n)]
    BY <1>4, Zenon DEF RowsBefore
  <1> HIDE DEF t
  <1>6. ASSUME NEW n \in 0 .. NumChunks PROVE t[n] = body(t, n)
    BY <1>5
  <1>7. t[0] = 0
    BY <1>6
  <1>8. ASSUME NEW n \in 1 .. NumChunks PROVE t[n] = t[n - 1] + rows[n - 1]
    <2>1. n \in 0 .. NumChunks /\ n # 0
      OBVIOUS
    <2> QED
      BY <1>6, <2>1
  <1> QED
    BY <1>7, <1>8 DEF t

\* Adding k to one chunk adds k to the sums that reach it.
LEMMA SumMoved ==
  ASSUME NEW rows \in [Chunks -> Nat], NEW c \in Chunks, NEW k \in Int,
         NEW more \in [Chunks -> Nat],
         \A d \in Chunks : more[d] = IF d = c THEN rows[d] + k ELSE rows[d]
  PROVE  /\ RowsBefore(rows)[NumChunks] \in Nat
         /\ RowsBefore(more)[NumChunks] = RowsBefore(rows)[NumChunks] + k
  <1> DEFINE f == RowsBefore(rows)
             g == RowsBefore(more)
             Good(n) == f[n] \in Nat /\ g[n] = IF n > c THEN f[n] + k ELSE f[n]
             S == {n \in 0 .. NumChunks : ~ Good(n)}
  <1>1. NumChunks \in Nat /\ NumChunks > 0 /\ c \in Nat /\ c < NumChunks
    BY RingAssumption DEF Chunks
  <1>2. f[0] = 0 /\ \A n \in 1 .. NumChunks : f[n] = f[n - 1] + rows[n - 1]
    BY <1>1, SumSteps
  <1>3. g[0] = 0 /\ \A n \in 1 .. NumChunks : g[n] = g[n - 1] + more[n - 1]
    BY <1>1, SumSteps
  <1> HIDE DEF f, g
  <1>4. S = {}
    <2> SUFFICES ASSUME S # {} PROVE FALSE
      OBVIOUS
    <2>1. S \in SUBSET Nat
      OBVIOUS
    <2>2. PICK n \in S : \A x \in S : n <= x
      BY <2>1, Least
    <2>3. n # 0
      BY <1>1, <1>2, <1>3, <2>2
    <2>4. n \in 1 .. NumChunks /\ n - 1 \in 0 .. NumChunks /\ n - 1 \in Chunks /\ n - 1 < n
      BY <1>1, <2>2, <2>3 DEF Chunks
    <2>5. Good(n - 1)
      BY <2>2, <2>4
    <2>6. f[n] = f[n - 1] + rows[n - 1] /\ g[n] = g[n - 1] + more[n - 1]
      BY <1>2, <1>3, <2>4
    <2>7. rows[n - 1] \in Nat
      BY <2>4
    <2>8. more[n - 1] = IF n - 1 = c THEN rows[n - 1] + k ELSE rows[n - 1]
      BY <2>4
    <2> QED
      BY <1>1, <2>2, <2>4, <2>5, <2>6, <2>7, <2>8
  <1>5. Good(NumChunks)
    BY <1>1, <1>4
  <1> QED
    BY <1>1, <1>5 DEF f, g

(***************************************************************************)
(* The ring.  Between two operations the generations tell how often each   *)
(* chunk was turned to; inside a recycle the chunk being recycled is ahead *)
(* by one as soon as its generation is, and its rows count as lost before  *)
(* they are gone.                                                          *)
(***************************************************************************)
BumpPcs == {"wipe", "zero", "unrange", "open", "turn"}
LostPcs == {"bump", "wipe", "zero"}

\* The last chunk of the lap the writer is in.
Front == IF wr.pc \in BumpPcs THEN Tgt ELSE wc

\* The chunks up to the front are in the generation of the front, those behind it
\* still in the one before.
Laps == crashes = 0 =>
    \A c \in Chunks : ch[c].gen = IF c <= Front THEN ch[Front].gen ELSE ch[Front].gen - 1

\* Rows of the chunk being recycled that are counted as overwritten already.
Twice == IF wr.pc \in LostPcs THEN ch[Tgt].rows ELSE 0

Balance == crashes = 0 => committed + Twice = overwritten + Kept

\* The write chunk is hidden in a ring of one chunk only, and the chunk to turn to is open.
WriteShown == /\ wc # Tgt => ch[wc].state # "Empty"
              /\ wr.pc = "turn" => ch[Tgt].state = "Writing"

RingInv == TypeInv /\ Laps /\ Balance /\ OnlyNextHidden /\ WriteShown

\* The chunk after the write chunk, as a number.
LEMMA TgtIs == ASSUME wc \in Chunks
               PROVE  Tgt = IF wc = NumChunks - 1 THEN 0 ELSE wc + 1
  <1>1. NumChunks \in Nat /\ NumChunks > 0 /\ wc \in 0 .. NumChunks - 1
    BY RingAssumption DEF Chunks
  <1>2. CASE wc = NumChunks - 1
    BY <1>1, <1>2 DEF Tgt
  <1>3. CASE wc # NumChunks - 1
    BY <1>1, <1>3 DEF Tgt
  <1> QED
    BY <1>2, <1>3

\* The rows of the ring when no chunk's change.
LEMMA KeptStill ==
  ASSUME \A d \in Chunks : ch'[d].rows = ch[d].rows
  PROVE  Kept' = Kept
  <1>1. [c \in Chunks |-> ch'[c].rows] = [c \in Chunks |-> ch[c].rows]
    OBVIOUS
  <1> QED
    BY <1>1, Zenon DEF Kept, Chunks

\* The rows of the ring when one chunk's do.
LEMMA KeptMoved ==
  ASSUME TypeInv, TypeInv', NEW c \in Chunks, NEW k \in Int,
         \A d \in Chunks : ch'[d].rows = IF d = c THEN ch[d].rows + k ELSE ch[d].rows
  PROVE  Kept' = Kept + k
  <1> DEFINE rows == [d \in Chunks |-> ch[d].rows]
             more == [d \in Chunks |-> ch'[d].rows]
  <1>1. rows \in [Chunks -> Nat] /\ more \in [Chunks -> Nat]
    BY DEF TypeInv, TypeOK, ChunkHeaders
  <1>2. \A d \in Chunks : more[d] = IF d = c THEN rows[d] + k ELSE rows[d]
    OBVIOUS
  <1>3. Kept = RowsBefore(rows)[NumChunks] /\ Kept' = RowsBefore(more)[NumChunks]
    BY DEF Kept, Chunks
  <1> HIDE DEF rows, more
  <1> QED
    BY <1>1, <1>2, <1>3, SumMoved

\* It is a number.
LEMMA KeptNat ==
  ASSUME TypeInv
  PROVE  Kept \in Nat
  <1> DEFINE rows == [d \in Chunks |-> ch[d].rows]
  <1>1. rows \in [Chunks -> Nat]
    BY DEF TypeInv, TypeOK, ChunkHeaders
  <1>2. \A d \in Chunks : rows[d] = IF d = 0 THEN rows[d] + 0 ELSE rows[d]
    BY <1>1
  <1>3. Kept = RowsBefore(rows)[NumChunks]
    BY DEF Kept
  <1> HIDE DEF rows
  <1> QED
    BY <1>1, <1>2, <1>3, SumMoved, ChunksOK

\* A store to one chunk header.
LEMMA PutFacts ==
  ASSUME TypeInv, NEW c \in Chunks, NEW h, Put(c, h)
  PROVE  ch'[c] = h /\ \A d \in Chunks : d # c => ch'[d] = ch[d]
  BY DEF Put, TypeInv, TypeOK

\* Steps that change no generation, no row count and no write chunk, show what is shown,
\* and neither begin nor end what the counters are ahead of.
LEMMA QuietRing ==
  ASSUME RingInv, TypeInv', UNCHANGED <<wc, overwritten, committed>>,
         crashes' = crashes \/ crashes' # 0,
         \A d \in Chunks : /\ ch'[d].gen = ch[d].gen /\ ch'[d].rows = ch[d].rows
                           /\ d # Tgt => ch'[d].state = ch[d].state \/ ch'[d].state # "Empty",
         wr'.pc = "turn" => ch'[Tgt].state = "Writing",
         crashes' = 0 => /\ wr'.pc \in BumpPcs <=> wr.pc \in BumpPcs
                         /\ wr'.pc \in LostPcs <=> wr.pc \in LostPcs
  PROVE  RingInv'
  <1>0. wc \in Chunks /\ Tgt \in Chunks /\ Tgt' = Tgt /\ Kept' = Kept
    BY WriterHere, KeptStill DEF RingInv, Tgt
  <1>1. Laps'
    <2> SUFFICES ASSUME crashes' = 0, NEW c \in Chunks
                 PROVE ch'[c].gen = IF c <= Front' THEN ch'[Front'].gen ELSE ch'[Front'].gen - 1
      BY DEF Laps
    <2>1. Front' = Front /\ Front \in Chunks
      BY <1>0 DEF Front
    <2>2. ch[c].gen = IF c <= Front THEN ch[Front].gen ELSE ch[Front].gen - 1
      BY DEF RingInv, Laps
    <2> QED
      BY <2>1, <2>2
  <1>2. Balance'
    BY <1>0 DEF RingInv, Balance, Twice
  <1>3. OnlyNextHidden'
    BY <1>0 DEF RingInv, OnlyNextHidden, Listed
  <1>4. WriteShown'
    BY <1>0 DEF RingInv, WriteShown
  <1> QED
    BY <1>1, <1>2, <1>3, <1>4 DEF RingInv

\* A store to one header that keeps its generation and its rows.
LEMMA PutQuiet ==
  ASSUME RingInv, TypeInv', NEW c \in Chunks, NEW h, Put(c, h),
         UNCHANGED <<wc, overwritten, committed, crashes>>,
         h.gen = ch[c].gen, h.rows = ch[c].rows,
         c = Tgt \/ h.state = ch[c].state \/ h.state # "Empty",
         wr'.pc = "turn" => c = Tgt /\ h.state = "Writing",
         wr'.pc \in BumpPcs <=> wr.pc \in BumpPcs,
         wr'.pc \in LostPcs <=> wr.pc \in LostPcs
  PROVE  RingInv'
  <1>1. ch'[c] = h /\ \A d \in Chunks : d # c => ch'[d] = ch[d]
    BY PutFacts DEF RingInv
  <1>2. \A d \in Chunks : /\ ch'[d].gen = ch[d].gen /\ ch'[d].rows = ch[d].rows
                          /\ d # Tgt => ch'[d].state = ch[d].state \/ ch'[d].state # "Empty"
    BY <1>1
  <1>3. wr'.pc = "turn" => ch'[Tgt].state = "Writing"
    BY <1>1
  <1> QED
    BY <1>2, <1>3, QuietRing

\* A step that stores to no header.
LEMMA SameQuiet ==
  ASSUME RingInv, TypeInv', UNCHANGED <<ch, wc, overwritten, committed>>,
         crashes' = crashes \/ crashes' # 0, wr'.pc = "turn" => wr.pc = "turn",
         crashes' = 0 => /\ wr'.pc \in BumpPcs <=> wr.pc \in BumpPcs
                         /\ wr'.pc \in LostPcs <=> wr.pc \in LostPcs
  PROVE  RingInv'
  <1>1. \A d \in Chunks : /\ ch'[d].gen = ch[d].gen /\ ch'[d].rows = ch[d].rows
                          /\ d # Tgt => ch'[d].state = ch[d].state \/ ch'[d].state # "Empty"
    OBVIOUS
  <1>2. wr'.pc = "turn" => ch'[Tgt].state = "Writing"
    BY DEF RingInv, WriteShown
  <1> QED
    BY <1>1, <1>2, QuietRing

\* A row is counted in its chunk and as committed.
LEMMA CountRing ==
  ASSUME RingInv, TypeInv', CountRow
  PROVE  RingInv'
  <1> DEFINE h == [ch[wc] EXCEPT !.rows = @ + 1]
  <1>0. /\ TypeInv /\ wc \in Chunks /\ Tgt \in Chunks /\ Tgt' = Tgt /\ ch[wc] \in ChunkHeaders
        /\ committed \in Nat /\ overwritten \in Nat
    BY WriterHere DEF RingInv, TypeInv, TypeOK, CountRow, Tgt
  <1>1. /\ Put(wc, h) /\ wr.pc = "count" /\ wr'.pc = "idle" /\ wc' = wc /\ crashes' = crashes
        /\ committed' = committed + 1 /\ overwritten' = overwritten
    BY DEF CountRow, IdleWriter
  <1>2. h.gen = ch[wc].gen /\ h.rows = ch[wc].rows + 1 /\ h.state = ch[wc].state
    BY <1>0 DEF ChunkHeaders
  <1> HIDE DEF h
  <1>3. ch'[wc] = h /\ \A d \in Chunks : d # wc => ch'[d] = ch[d]
    BY <1>0, <1>1, PutFacts
  <1>4. \A d \in Chunks : /\ ch'[d].gen = ch[d].gen /\ ch'[d].state = ch[d].state
                          /\ ch'[d].rows = IF d = wc THEN ch[d].rows + 1 ELSE ch[d].rows
    BY <1>2, <1>3
  <1>5. Kept' = Kept + 1 /\ Kept \in Nat
    BY <1>0, <1>4, KeptMoved, KeptNat
  <1>6. Laps'
    <2> SUFFICES ASSUME crashes = 0, NEW c \in Chunks
                 PROVE ch'[c].gen = IF c <= Front' THEN ch'[Front'].gen ELSE ch'[Front'].gen - 1
      BY <1>1 DEF Laps
    <2>1. Front' = wc /\ Front = wc
      BY <1>1 DEF Front, BumpPcs
    <2>2. ch[c].gen = IF c <= Front THEN ch[Front].gen ELSE ch[Front].gen - 1
      BY DEF RingInv, Laps
    <2> QED
      BY <1>0, <1>4, <2>1, <2>2
  <1>7. Balance'
    <2>1. Twice = 0 /\ Twice' = 0
      BY <1>1 DEF Twice, LostPcs
    <2> QED
      BY <1>0, <1>1, <1>5, <2>1 DEF RingInv, Balance
  <1>8. OnlyNextHidden'
    BY <1>0, <1>4 DEF RingInv, OnlyNextHidden, WriteShown, Listed
  <1>9. WriteShown'
    BY <1>0, <1>1, <1>4 DEF RingInv, WriteShown
  <1> QED
    BY <1>6, <1>7, <1>8, <1>9 DEF RingInv

\* The rows about to be lost are counted.
LEMMA LostRing ==
  ASSUME RingInv, TypeInv', CountLost
  PROVE  RingInv'
  <1>0. /\ TypeInv /\ Tgt \in Chunks /\ Tgt' = Tgt /\ ch[Tgt].rows \in Nat
        /\ committed \in Nat /\ overwritten \in Nat /\ Kept \in Nat
    BY WriterHere, KeptNat DEF RingInv, TypeInv, TypeOK, CountLost, Tgt, ChunkHeaders
  <1>1. wr.pc = "lost" /\ wr'.pc = "bump"
    BY <1>0, GotoPc DEF CountLost
  <1>2. /\ UNCHANGED <<ch, wc, committed, crashes>> /\ overwritten' = overwritten + ch[Tgt].rows
    BY DEF CountLost
  <1>3. Kept' = Kept
    BY <1>2, KeptStill
  <1>4. Laps'
    BY <1>0, <1>1, <1>2 DEF RingInv, Laps, Front, BumpPcs
  <1>5. Balance'
    <2>1. Twice = 0 /\ Twice' = ch[Tgt].rows
      BY <1>0, <1>1, <1>2 DEF Twice, LostPcs
    <2> QED
      BY <1>0, <1>2, <1>3, <2>1 DEF RingInv, Balance
  <1>6. OnlyNextHidden' /\ WriteShown'
    BY <1>0, <1>1, <1>2 DEF RingInv, OnlyNextHidden, Listed, WriteShown
  <1> QED
    BY <1>4, <1>5, <1>6 DEF RingInv

\* The generation of the chunk being recycled joins the lap.
LEMMA BumpRing ==
  ASSUME RingInv, TypeInv', BumpGeneration
  PROVE  RingInv'
  <1> DEFINE h == [ch[Tgt] EXCEPT !.gen = @ + 1]
  <1>0. /\ TypeInv /\ wc \in Chunks /\ Tgt \in Chunks /\ Tgt' = Tgt /\ ch[Tgt] \in ChunkHeaders
    BY WriterHere DEF RingInv, BumpGeneration, OnChunks, Tgt
  <1>1. /\ Put(Tgt, h) /\ wr.pc = "bump" /\ wr'.pc = "wipe"
        /\ UNCHANGED <<wc, crashes, committed, overwritten>>
    BY <1>0, GotoPc DEF BumpGeneration, OnChunks
  <1>2. h.gen = ch[Tgt].gen + 1 /\ h.rows = ch[Tgt].rows /\ h.state = ch[Tgt].state
    BY <1>0 DEF ChunkHeaders
  <1> HIDE DEF h
  <1>3. ch'[Tgt] = h /\ \A d \in Chunks : d # Tgt => ch'[d] = ch[d]
    BY <1>0, <1>1, PutFacts
  <1>4. \A d \in Chunks : /\ ch'[d].rows = ch[d].rows /\ ch'[d].state = ch[d].state
                          /\ ch'[d].gen = IF d = Tgt THEN ch[d].gen + 1 ELSE ch[d].gen
    BY <1>2, <1>3
  <1>5. Kept' = Kept
    BY <1>4, KeptStill
  <1>6. Laps'
    <2> SUFFICES ASSUME crashes = 0, NEW c \in Chunks
                 PROVE ch'[c].gen = IF c <= Front' THEN ch'[Front'].gen ELSE ch'[Front'].gen - 1
      BY <1>1 DEF Laps
    <2>1. Front' = Tgt /\ Front = wc
      BY <1>0, <1>1 DEF Front, BumpPcs
    <2>2. \A d \in Chunks : ch[d].gen = IF d <= wc THEN ch[wc].gen ELSE ch[wc].gen - 1
      BY <2>1 DEF RingInv, Laps
    <2>3. PICK g, G \in Nat : g = ch[wc].gen /\ G = ch[Tgt].gen
      BY <1>0 DEF TypeInv, TypeOK, ChunkHeaders
    <2>4. /\ c \in 0 .. NumChunks - 1 /\ wc \in 0 .. NumChunks - 1 /\ NumChunks \in Nat
          /\ Tgt = IF wc = NumChunks - 1 THEN 0 ELSE wc + 1
      BY <1>0, TgtIs, RingAssumption DEF Chunks
    <2>5. G = IF Tgt <= wc THEN g ELSE g - 1
      BY <1>0, <2>2, <2>3
    <2>6. ch[c].gen = IF c <= wc THEN g ELSE g - 1
      BY <2>2, <2>3
    <2>7. ch'[Tgt].gen = G + 1 /\ ch'[c].gen = IF c = Tgt THEN G + 1 ELSE ch[c].gen
      BY <1>0, <1>4, <2>3
    <2>8. ch'[c].gen = IF c <= Tgt THEN G + 1 ELSE G
      BY <2>3, <2>4, <2>5, <2>6, <2>7
    <2> QED
      BY <2>1, <2>3, <2>7, <2>8
  <1>7. Balance'
    <2>1. Twice' = Twice
      BY <1>0, <1>1, <1>4 DEF Twice, LostPcs
    <2> QED
      BY <1>1, <1>5, <2>1 DEF RingInv, Balance
  <1>8. OnlyNextHidden'
    BY <1>0, <1>3 DEF RingInv, OnlyNextHidden, Listed
  <1>9. WriteShown'
    BY <1>0, <1>1, <1>4 DEF RingInv, WriteShown
  <1> QED
    BY <1>6, <1>7, <1>8, <1>9 DEF RingInv

\* The rows counted as overwritten are gone.
LEMMA ZeroRing ==
  ASSUME RingInv, TypeInv', ResetRowCount
  PROVE  RingInv'
  <1> DEFINE h == [ch[Tgt] EXCEPT !.rows = 0]
  <1>0. /\ TypeInv /\ wc \in Chunks /\ Tgt \in Chunks /\ Tgt' = Tgt /\ ch[Tgt] \in ChunkHeaders
        /\ committed \in Nat /\ overwritten \in Nat /\ Kept \in Nat
    BY WriterHere, KeptNat DEF RingInv, TypeInv, TypeOK, ResetRowCount, OnChunks, Tgt
  <1>1. /\ Put(Tgt, h) /\ wr.pc = "zero" /\ wr'.pc = "unrange"
        /\ UNCHANGED <<wc, crashes, committed, overwritten>>
    BY <1>0, GotoPc DEF ResetRowCount, OnChunks
  <1>2. h.gen = ch[Tgt].gen /\ h.rows = 0 /\ h.state = ch[Tgt].state
    BY <1>0 DEF ChunkHeaders
  <1> HIDE DEF h
  <1>3. ch'[Tgt] = h /\ \A d \in Chunks : d # Tgt => ch'[d] = ch[d]
    BY <1>0, <1>1, PutFacts
  <1>4. PICK k \in Nat : k = ch[Tgt].rows
    BY <1>0 DEF ChunkHeaders
  <1>5. \A d \in Chunks : /\ ch'[d].gen = ch[d].gen /\ ch'[d].state = ch[d].state
                          /\ ch'[d].rows = IF d = Tgt THEN ch[d].rows + (-k) ELSE ch[d].rows
    BY <1>2, <1>3, <1>4
  <1>6. Kept' = Kept + (-k)
    BY <1>0, <1>5, KeptMoved
  <1>7. Laps'
    <2> SUFFICES ASSUME crashes = 0, NEW c \in Chunks
                 PROVE ch'[c].gen = IF c <= Front' THEN ch'[Front'].gen ELSE ch'[Front'].gen - 1
      BY <1>1 DEF Laps
    <2>1. Front' = Front /\ Front \in Chunks
      BY <1>0, <1>1 DEF Front, BumpPcs
    <2>2. ch[c].gen = IF c <= Front THEN ch[Front].gen ELSE ch[Front].gen - 1
      BY DEF RingInv, Laps
    <2> QED
      BY <1>5, <2>1, <2>2
  <1>8. Balance'
    <2>1. Twice = k /\ Twice' = 0
      BY <1>1, <1>4 DEF Twice, LostPcs
    <2> QED
      BY <1>0, <1>1, <1>4, <1>6, <2>1 DEF RingInv, Balance
  <1>9. OnlyNextHidden' /\ WriteShown'
    BY <1>0, <1>1, <1>3, <1>5 DEF RingInv, OnlyNextHidden, Listed, WriteShown
  <1> QED
    BY <1>7, <1>8, <1>9 DEF RingInv

\* The write chunk turns: what was hidden was the chunk opened just now.
LEMMA TurnRing ==
  ASSUME RingInv, TypeInv', Turn
  PROVE  RingInv'
  <1>0. /\ TypeInv /\ wc \in Chunks /\ Tgt \in Chunks
    BY WriterHere DEF RingInv
  <1>1. /\ wr.pc = "turn" /\ wr'.pc \in {"write", "idle"} /\ wc' = Tgt
        /\ UNCHANGED <<ch, crashes, committed, overwritten>>
    BY DEF Turn, IdleWriter
  <1>2. Kept' = Kept
    BY <1>1, KeptStill
  <1>3. Front = Tgt /\ Front' = Tgt
    BY <1>1 DEF Front, BumpPcs
  <1>4. Laps'
    BY <1>1, <1>3 DEF RingInv, Laps
  <1>5. Balance'
    BY <1>1, <1>2 DEF RingInv, Balance, Twice, LostPcs
  <1>6. OnlyNextHidden' /\ WriteShown'
    BY <1>0, <1>1 DEF RingInv, OnlyNextHidden, Listed, WriteShown
  <1> QED
    BY <1>4, <1>5, <1>6 DEF RingInv

\* Every step of the writer keeps the ring.
LEMMA WriterRing ==
  ASSUME RingInv, TypeInv', WriterStep
  PROVE  RingInv'
  <1>0. /\ TypeInv /\ wc \in Chunks /\ Tgt \in Chunks /\ wr \in WriterLocals
        /\ ch[wc] \in ChunkHeaders /\ ch[Tgt] \in ChunkHeaders
    BY WriterHere DEF RingInv
  <1>a. IdleWriter.pc = "idle"
    BY DEF IdleWriter
  <1>b. ASSUME NEW from, NEW to, from \notin BumpPcs \cup LostPcs, to \notin BumpPcs \cup LostPcs,
               wr.pc = from, wr'.pc = to
        PROVE /\ wr'.pc \in BumpPcs <=> wr.pc \in BumpPcs
              /\ wr'.pc \in LostPcs <=> wr.pc \in LostPcs
              /\ wr'.pc # "turn"
    BY <1>b DEF BumpPcs
  <1>1. CASE WriteTest
    <2>1. wr.pc = "write" /\ wr'.pc \in {"note", "block", "idle"}
      BY <1>0, <1>1, <1>a DEF WriteTest, WriterLocals
    <2>2. UNCHANGED <<ch, wc, overwritten, committed, crashes>>
      BY <1>1 DEF WriteTest, LocalWrite, OnChunks
    <2> QED
      BY <2>1, <2>2, SameQuiet DEF BumpPcs, LostPcs
  <1>2. CASE NoteTs
    <2> DEFINE h == [ch[wc] EXCEPT !.min = IF wr.row.ts < @ THEN wr.row.ts ELSE @,
                                   !.max = IF wr.row.ts > @ THEN wr.row.ts ELSE @]
    <2>1. /\ Put(wc, h) /\ wr.pc = "note" /\ wr'.pc = "publish"
          /\ UNCHANGED <<wc, overwritten, committed, crashes>>
      BY <1>0, <1>2, GotoPc DEF NoteTs, OnChunks
    <2>2. h.gen = ch[wc].gen /\ h.rows = ch[wc].rows /\ h.state = ch[wc].state
      BY <1>0 DEF ChunkHeaders
    <2> HIDE DEF h
    <2> QED
      BY <1>0, <2>1, <2>2, PutQuiet DEF BumpPcs, LostPcs
  <1>3. CASE Publish
    <2> DEFINE h == [ch[wc] EXCEPT !.used = @ + wr.row.len, !.visible = @ \cup {wr.row.ts}]
    <2>1. /\ Put(wc, h) /\ wr.pc = "publish" /\ wr'.pc = "count"
          /\ UNCHANGED <<wc, overwritten, committed, crashes>>
      BY <1>0, <1>3, GotoPc DEF Publish, OnChunks
    <2>2. h.gen = ch[wc].gen /\ h.rows = ch[wc].rows /\ h.state = ch[wc].state
      BY <1>0 DEF ChunkHeaders
    <2> HIDE DEF h
    <2> QED
      BY <1>0, <2>1, <2>2, PutQuiet DEF BumpPcs, LostPcs
  <1>4. CASE BlockPins
    <2> DEFINE h == [ch[Tgt] EXCEPT !.state = "Empty"]
    <2>1. /\ Put(Tgt, h) /\ wr.pc = "block" /\ wr'.pc = "scan"
          /\ UNCHANGED <<wc, overwritten, committed, crashes>>
      BY <1>0, <1>4 DEF BlockPins, OnChunks, WriterLocals
    <2>2. h.gen = ch[Tgt].gen /\ h.rows = ch[Tgt].rows
      BY <1>0 DEF ChunkHeaders
    <2> HIDE DEF h
    <2> QED
      BY <1>0, <2>1, <2>2, PutQuiet DEF BumpPcs, LostPcs
  <1>5. CASE Drain
    <2>1. /\ wr.pc \in {"scan", "judge", "verdict", "clear"}
          /\ wr'.pc \in {"scan", "judge", "verdict", "clear", "defer", "seal"}
      BY <1>0, <1>5 DEF Drain, ScanSlot, WriterJudge, WriterVerdict, WriterClear, ScanEnd, WriterLocals
    <2>2. UNCHANGED <<ch, wc, overwritten, committed, crashes>>
      BY <1>5 DEF Drain, ScanSlot, WriterJudge, WriterVerdict, WriterClear, ScanEnd, LocalWrite, OnChunks
    <2> QED
      BY <2>1, <2>2, SameQuiet DEF BumpPcs, LostPcs
  <1>6. CASE Defer
    <2> DEFINE h == [ch[Tgt] EXCEPT !.state = wr.prev]
    <2>1. /\ Put(Tgt, h) /\ wr.pc = "defer" /\ wr'.pc = "idle"
          /\ UNCHANGED <<wc, overwritten, committed, crashes>>
      BY <1>6, <1>a DEF Defer
    <2>2. h.gen = ch[Tgt].gen /\ h.rows = ch[Tgt].rows
      BY <1>0 DEF ChunkHeaders
    <2> HIDE DEF h
    <2> QED
      BY <1>0, <2>1, <2>2, PutQuiet DEF BumpPcs, LostPcs
  <1>7. CASE Seal
    <2> DEFINE h == [ch[wc] EXCEPT !.state = IF wc # Tgt THEN "Sealed" ELSE @]
    <2>1. /\ Put(wc, h) /\ wr.pc = "seal" /\ wr'.pc = "lost"
          /\ UNCHANGED <<wc, overwritten, committed, crashes>>
      BY <1>0, <1>7, GotoPc DEF Seal, OnChunks
    <2>2. /\ h.gen = ch[wc].gen /\ h.rows = ch[wc].rows
          /\ h.state = "Sealed" \/ wc = Tgt
      BY <1>0 DEF ChunkHeaders
    <2> HIDE DEF h
    <2> QED
      BY <1>0, <2>1, <2>2, PutQuiet DEF BumpPcs, LostPcs
  <1>8. CASE ResetUsed
    <2> DEFINE h == [ch[Tgt] EXCEPT !.used = 0, !.visible = {}]
    <2>1. /\ Put(Tgt, h) /\ wr.pc = "wipe" /\ wr'.pc = "zero"
          /\ UNCHANGED <<wc, overwritten, committed, crashes>>
      BY <1>0, <1>8, GotoPc DEF ResetUsed, OnChunks
    <2>2. h.gen = ch[Tgt].gen /\ h.rows = ch[Tgt].rows
      BY <1>0 DEF ChunkHeaders
    <2> HIDE DEF h
    <2> QED
      BY <1>0, <2>1, <2>2, PutQuiet DEF BumpPcs, LostPcs
  <1>9. CASE ResetTs
    <2> DEFINE h == [ch[Tgt] EXCEPT !.min = TsMinInit, !.max = TsMaxInit]
    <2>1. /\ Put(Tgt, h) /\ wr.pc = "unrange" /\ wr'.pc = "open"
          /\ UNCHANGED <<wc, overwritten, committed, crashes>>
      BY <1>0, <1>9, GotoPc DEF ResetTs, OnChunks
    <2>2. h.gen = ch[Tgt].gen /\ h.rows = ch[Tgt].rows
      BY <1>0 DEF ChunkHeaders
    <2> HIDE DEF h
    <2> QED
      BY <1>0, <2>1, <2>2, PutQuiet DEF BumpPcs, LostPcs
  <1>10. CASE OpenChunk
    <2> DEFINE h == [ch[Tgt] EXCEPT !.state = "Writing"]
    <2>1. /\ Put(Tgt, h) /\ wr.pc = "open" /\ wr'.pc = "turn"
          /\ UNCHANGED <<wc, overwritten, committed, crashes>>
      BY <1>0, <1>10, GotoPc DEF OpenChunk, OnChunks
    <2>2. h.gen = ch[Tgt].gen /\ h.rows = ch[Tgt].rows /\ h.state = "Writing"
      BY <1>0 DEF ChunkHeaders
    <2> HIDE DEF h
    <2> QED
      BY <1>0, <2>1, <2>2, PutQuiet DEF BumpPcs, LostPcs
  <1> QED
    BY <1>1, <1>2, <1>3, <1>4, <1>5, <1>6, <1>7, <1>8, <1>9, <1>10, CountRing, LostRing,
       BumpRing, ZeroRing, TurnRing DEF WriterStep, Recycle

\* Chunks without rows have none together.
LEMMA SumNothing ==
  ASSUME NEW rows, \A d \in Chunks : rows[d] = 0
  PROVE  RowsBefore(rows)[NumChunks] = 0
  <1> DEFINE f == RowsBefore(rows)
             S == {n \in 0 .. NumChunks : f[n] # 0}
  <1>1. NumChunks \in Nat
    BY RingAssumption
  <1>2. f[0] = 0 /\ \A n \in 1 .. NumChunks : f[n] = f[n - 1] + rows[n - 1]
    BY <1>1, SumSteps
  <1> HIDE DEF f
  <1>3. ASSUME S # {} PROVE FALSE
    <2>1. S \in SUBSET Nat
      OBVIOUS
    <2>2. PICK n \in S : \A x \in S : n <= x
      BY <1>3, <2>1, Least
    <2>3. n \in 1 .. NumChunks /\ n - 1 \in 0 .. NumChunks /\ n - 1 \in Chunks /\ n - 1 < n
      BY <1>1, <1>2, <2>2 DEF Chunks
    <2> QED
      BY <1>2, <2>2, <2>3
  <1> QED
    BY <1>1, <1>3 DEF f

\* init_buf: chunk 0 alone is in generation 1, and no row is anywhere.
LEMMA InitRing == Init => RingInv
  <1> SUFFICES ASSUME Init PROVE RingInv
    OBVIOUS
  <1>1. TypeInv /\ wr.pc = "idle" /\ wc = 0 /\ committed = 0 /\ overwritten = 0
    BY InitType DEF Init, IdleWriter
  <1>2. \A c \in Chunks : /\ ch[c].gen = IF c = 0 THEN 1 ELSE 0
                          /\ ch[c].rows = 0
                          /\ ch[c].state = IF c = 0 THEN "Writing" ELSE "Empty"
    BY DEF Init, Fresh
  <1>3. Laps
    BY <1>1, <1>2, ChunksOK DEF Laps, Front, BumpPcs
  <1>4. Balance
    <2> DEFINE rows == [d \in Chunks |-> ch[d].rows]
    <2>1. rows \in [Chunks -> Nat]
      BY <1>2
    <2>2. \A d \in Chunks : rows[d] = IF d = 0 THEN rows[d] + 0 ELSE rows[d]
      BY <2>1
    <2>3. \A d \in Chunks : rows[d] = 0
      BY <1>2
    <2>4. Kept = RowsBefore(rows)[NumChunks]
      BY DEF Kept
    <2> HIDE DEF rows
    <2>5. RowsBefore(rows)[NumChunks] = 0
      BY <2>1, <2>3, SumNothing
    <2> QED
      BY <1>1, <2>4, <2>5 DEF Balance, Twice, LostPcs
  <1>5. OnlyNextHidden /\ WriteShown
    BY <1>1, <1>2, ChunksOK DEF OnlyNextHidden, Listed, WriteShown
  <1> QED
    BY <1>1, <1>3, <1>4, <1>5 DEF RingInv

\* Every step of Next keeps the ring.
LEMMA NextRing == RingInv /\ [Next]_vars => RingInv'
  <1> SUFFICES ASSUME RingInv, [Next]_vars PROVE RingInv'
    OBVIOUS
  <1>0. TypeInv' /\ wr \in WriterLocals /\ crashes \in Nat
    BY NextType, WriterHere DEF RingInv, TypeInv, TypeOK
  <1>1. ASSUME UNCHANGED <<ch, wc, wr, overwritten, committed, crashes>> PROVE RingInv'
    BY <1>0, <1>1, SameQuiet
  <1>2. ASSUME NEW p \in Procs, Spawn(p) \/ Die(p) PROVE RingInv'
    BY <1>1, <1>2 DEF Spawn, Die, counters
  <1>3. ASSUME NEW t \in Threads, Reader(t) PROVE RingInv'
    <2>1. ReaderFrame
      BY <1>3 DEF Reader, Acquire, PinBegin, PinRetry, LoadGen, Exhausted, LoadSlot, OwnStart,
         Join, Claim, StampStart, Confirm, Judge, Verdict, Clear, Recheck, Regen, Extent,
         Unpin, ReleaseLoad, ReleaseDec, LocalStep
    <2> QED
      BY <1>1, <2>1 DEF ReaderFrame
  <1>4. CASE WriterCall
    <2>1. /\ UNCHANGED <<ch, wc, overwritten, committed, crashes>>
          /\ wr.pc = "idle" /\ wr'.pc \in {"write", "block"}
      BY <1>4, IdleWriterType DEF WriterCall, Push, Append, Advance, LocalWrite, OnChunks, WriterLocals
    <2> QED
      BY <1>0, <2>1, SameQuiet DEF BumpPcs, LostPcs
  <1>5. CASE WriterCrash
    <2>1. /\ UNCHANGED <<ch, wc, overwritten, committed>>
          /\ crashes' # 0 /\ wr'.pc = "down"
      BY <1>0, <1>5, IdleWriterType DEF WriterCrash, WriterLocals
    <2> QED
      BY <1>0, <2>1, SameQuiet
  <1>6. CASE Reopen
    <2>1. /\ UNCHANGED <<ch, wc, overwritten, committed, crashes>>
          /\ wr.pc = "down" /\ wr'.pc = "idle"
      BY <1>6, IdleWriterType DEF Reopen, LocalWrite, OnChunks
    <2> QED
      BY <1>0, <2>1, SameQuiet DEF BumpPcs, LostPcs
  <1>7. CASE UNCHANGED vars
    BY <1>1, <1>7 DEF vars, counters
  <1> QED
    BY <1>0, <1>2, <1>3, <1>4, <1>5, <1>6, <1>7, WriterRing DEF Next

\* How far a chunk is from being the next to go, as a number.
LEMMA YouthIs ==
  ASSUME wc \in Chunks, NEW c \in Chunks
  PROVE  Youth(c) = IF c > wc THEN c - wc - 1 ELSE c - wc - 1 + NumChunks
  <1>1. NumChunks \in Nat /\ NumChunks > 0 /\ wc \in 0 .. NumChunks - 1 /\ c \in 0 .. NumChunks - 1
    BY RingAssumption DEF Chunks
  <1>2. PICK k \in Int : k = c - wc - 1
    BY <1>1
  <1>3. Youth(c) = k % NumChunks
    BY <1>2 DEF Youth
  <1>4. CASE c > wc
    <2>1. k \in 0 .. NumChunks - 1
      BY <1>1, <1>2, <1>4
    <2>2. k % NumChunks = k
      BY <1>1, <2>1
    <2> QED
      BY <1>2, <1>3, <1>4, <2>2
  <1>5. CASE c <= wc
    <2>1. k + NumChunks \in 0 .. NumChunks - 1
      BY <1>1, <1>2, <1>5
    <2>2. k % NumChunks = k + NumChunks
      BY <1>1, <2>1
    <2> QED
      BY <1>1, <1>2, <1>3, <1>5, <2>2
  <1> QED
    BY <1>1, <1>4, <1>5

\* Between two operations the laps sort the chunks by age.
LEMMA SoundFromInv == RingInv => RingSound
  <1> SUFFICES ASSUME RingInv PROVE RingSound
    OBVIOUS
  <1>0. wc \in Chunks /\ TypeInv
    BY WriterHere DEF RingInv
  <1>1. LogicalOrder
    <2> SUFFICES ASSUME wr.pc = "idle", crashes = 0, NEW c \in Chunks, NEW d \in Chunks,
                        Youth(c) < Youth(d)
                 PROVE  SortsBefore(c, d)
      BY DEF LogicalOrder
    <2>1. Front = wc
      BY DEF Front, BumpPcs
    <2>2. PICK g \in Nat : g = ch[wc].gen
      BY <1>0 DEF TypeInv, TypeOK, ChunkHeaders
    <2>3. /\ ch[c].gen = IF c <= wc THEN g ELSE g - 1
          /\ ch[d].gen = IF d <= wc THEN g ELSE g - 1
      BY <2>1, <2>2 DEF RingInv, Laps
    <2>4. /\ Youth(c) = IF c > wc THEN c - wc - 1 ELSE c - wc - 1 + NumChunks
          /\ Youth(d) = IF d > wc THEN d - wc - 1 ELSE d - wc - 1 + NumChunks
      BY <1>0, YouthIs
    <2>5. /\ NumChunks \in Nat /\ wc \in 0 .. NumChunks - 1
          /\ c \in 0 .. NumChunks - 1 /\ d \in 0 .. NumChunks - 1
      BY <1>0, RingAssumption DEF Chunks
    <2> QED
      BY <2>2, <2>3, <2>4, <2>5 DEF SortsBefore
  <1>2. Accounting
    <2> SUFFICES ASSUME wr.pc = "idle", crashes = 0 PROVE committed = overwritten + Kept
      BY DEF Accounting
    <2>1. Twice = 0 /\ committed \in Nat
      BY <1>0 DEF Twice, LostPcs, TypeInv, TypeOK
    <2> QED
      BY <2>1 DEF RingInv, Balance
  <1> QED
    BY <1>1, <1>2 DEF RingSound, RingInv

\* Whatever advances were deferred and whatever rows fit nowhere: between two operations
\* the generations sort the chunks in write order, every committed row is in a chunk or
\* counted as overwritten, and at every point, crashes of the writer included, the only
\* chunk whose rows may be hidden from readers is the one the next advance recycles
\* (chunks_logical, advance_chunk_raw_detailed, push_row).
THEOREM RingIsSound == Spec => []RingSound
  <1>1. Spec => []RingInv
    BY InitRing, NextRing, PTL DEF Spec
  <1> QED
    BY <1>1, SoundFromInv, PTL

(***************************************************************************)
(* The leases: who holds a slot, and how many references it counts.        *)
(***************************************************************************)
\* A process has got the PID of one that ran before it.
PidReused ==
    \E p, q \in Procs : /\ p # q /\ PidOf[p] = PidOf[q]
                        /\ proc[p] # "new" /\ proc[q] # "new"

\* A verdict on a lease combines two loads, the word and the start time, and another
\* owner may stamp the slot between them: then a live owner may be taken for dead.  It
\* does not happen where the start time is unknown or one of a process with that PID.
Starts(owner) ==
    {0} \cup {StartOf[p] : p \in {q \in Procs : PidOf[q] = owner /\ proc[q] # "new"}}

PairedLoads ==
    /\ \A t \in Threads :
          /\ OwnStart(t) => leaseStart[rd[t].chunk][rd[t].slot] \in Starts(Pid(t))
          /\ Verdict(t) /\ rd[t].word.refs # 0 => rd[t].start \in Starts(rd[t].word.owner)
    /\ WriterVerdict /\ wr.word.refs # 0 => wr.start \in Starts(wr.word.owner)

\* The PIDs of processes that have run, and the start times that may be stamped.
Seen  == {PidOf[p] : p \in {q \in Procs : proc[q] # "new"}} \cup {0}
Known == {StartOf[p] : p \in Procs} \cup {0}

\* Running threads belong to running processes, and words name ones that have run.
Alive ==
    /\ \A t \in Threads : /\ rd[t].pc # "off" => proc[ProcOf[t]] = "up"
                          /\ rd[t].word.owner \in Seen /\ rd[t].start \in Known
    /\ \A c \in Chunks, s \in Slots : lease[c][s].owner \in Seen /\ leaseStart[c][s] \in Known
    /\ wr.word.owner \in Seen /\ wr.start \in Known

\* Whoever is about to clear a lease has found its owner dead, and rightly so.
Verdicts ==
    /\ \A t \in Threads : rd[t].pc = "clear" => Up(rd[t].word.owner) = {}
    /\ wr.pc = "clear" => Up(wr.word.owner) = {}

\* Between the claim of a free slot and its first reference.
Claiming(t) == rd[t].pc \in {"stamp", "confirm"}
SamePlace(t, u) == rd[t].chunk = rd[u].chunk /\ rd[t].slot = rd[u].slot

Claims ==
    /\ \A t \in Threads : Claiming(t) => Slot(t) = Word(Pid(t), 0)
    /\ \A t, u \in Threads : Claiming(t) /\ Claiming(u) /\ SamePlace(t, u) => t = u

\* The references of a running owner are its threads that hold the slot; the word a
\* thread expects to find is one of its own process.
Counts ==
    /\ \A t \in Threads : rd[t].pc \in {"own", "join", "dec"} =>
          rd[t].word.owner = Pid(t) /\ rd[t].word.refs > 0
    /\ \A t \in Threads : Holding(t) => Slot(t).owner = Pid(t)
    /\ \A c \in Chunks, s \in Slots :
          Up(lease[c][s].owner) # {} => lease[c][s].refs = Cardinality(Holders(c, s))

LeaseInv == Alive /\ Claims /\ Counts

\* A thread that has seen its chunk visible after it took the lease.
Valid(t) == rd[t].pc \in {"regen", "extent", "pinned"}

\* From hiding the oldest chunk until it is shown again.
Scanning  == wr.pc \in {"scan", "judge", "verdict", "clear"}
Recycling == wr.pc \in {"seal", "lost", "bump", "wipe", "zero", "unrange", "open"}

\* Whoever is past the first load saw the chunk visible.
Shown == \A t \in Threads : rd[t].pc \notin {"off", "idle", "retry"} => rd[t].st # "Empty"

\* The chunk stays hidden until the recycle is given up or done.
Hidden == Scanning \/ wr.pc = "defer" \/ Recycling => ch[Tgt].state = "Empty"

\* Behind the writer's scan nobody has a valid lease on the chunk, and in a recycle
\* nobody has one anywhere on it.
Drained ==
    /\ Scanning /\ ~wr.live =>
          \A t \in Threads : Valid(t) /\ rd[t].chunk = Tgt => wr.slot <= rd[t].slot
    /\ Recycling => \A t \in Threads : Valid(t) => rd[t].chunk # Tgt

\* From the second load of the generation on, the chunk is in the one of the first.
SameGen ==
    \A t \in Threads : rd[t].pc \in {"extent", "pinned"} => ch[rd[t].chunk].gen = rd[t].gen

PinInv == Shown /\ Hidden /\ Drained /\ SameGen /\ PinnedStable

(***************************************************************************)
(* What the parts say of one thread, one place, one PID.                   *)
(***************************************************************************)
HoldPcs  == {"recheck", "regen", "extent", "pinned", "release", "dec"}
ClaimPcs == {"stamp", "confirm"}

\* The store of new locals for one thread.
LEMMA MoveFacts ==
  ASSUME TypeInv, NEW t \in Threads, NEW r, Move(t, r)
  PROVE  rd'[t] = r /\ \A u \in Threads : u # t => rd'[u] = rd[u]
  BY DEF Move, TypeInv, TypeOK

\* The store of a lease word.
LEMMA StoreFacts ==
  ASSUME TypeInv, NEW t \in Threads, rd[t].slot < LeaseSlots, NEW w, StoreSlot(t, w)
  PROVE  /\ lease'[rd[t].chunk][rd[t].slot] = w
         /\ \A c \in Chunks, s \in Slots :
               ~(c = rd[t].chunk /\ s = rd[t].slot) => lease'[c][s] = lease[c][s]
  <1>1. rd[t].chunk \in Chunks /\ rd[t].slot \in Slots
    BY ReaderHere DEF ReaderLocals
  <1> QED
    BY <1>1 DEF StoreSlot, TypeInv, TypeOK

\* Where a thread claims or holds, there is a slot.
LEMMA PlaceOK ==
  ASSUME TypeInv, NEW t \in Threads, Claiming(t) \/ Holding(t)
  PROVE  rd[t].slot < LeaseSlots /\ rd[t].chunk \in Chunks /\ rd[t].slot \in Slots
  BY ReaderHere DEF ReaderRange, Slotted, Claiming, Holding, ReaderLocals

\* No process has PID 0, so nobody owns a free slot.
LEMMA NobodyZero == Up(0) = {}
  BY ProcessAssumption DEF Up

\* A thread inside pin_chunk, or with a pin, belongs to a running process.
LEMMA RunningUp ==
  ASSUME Alive, NEW t \in Threads, rd[t].pc # "off"
  PROVE  Up(Pid(t)) # {}
  BY ProcessAssumption DEF Alive, Up, Pid

\* Where the recorded owner does not run, nobody claims and nobody holds.
LEMMA NobodyThere ==
  ASSUME TypeInv, Alive, Claims, Counts, NEW c \in Chunks, NEW s \in Slots,
         Up(lease[c][s].owner) = {}
  PROVE  /\ Holders(c, s) = {}
         /\ \A u \in Threads : Claiming(u) => ~(rd[u].chunk = c /\ rd[u].slot = s)
  <1>1. ASSUME NEW u \in Threads, Holding(u), rd[u].chunk = c, rd[u].slot = s PROVE FALSE
    <2>1. lease[c][s].owner = Pid(u) /\ rd[u].pc # "off"
      BY <1>1 DEF Counts, Slot, Holding
    <2> QED
      BY <2>1, RunningUp
  <1>2. ASSUME NEW u \in Threads, Claiming(u), rd[u].chunk = c, rd[u].slot = s PROVE FALSE
    <2>1. lease[c][s] = Word(Pid(u), 0)
      BY <1>2 DEF Claims, Slot
    <2>2. lease[c][s].owner = Pid(u) /\ rd[u].pc # "off"
      BY <1>2, <2>1 DEF Claiming, Word
    <2> QED
      BY <2>2, RunningUp
  <1> QED
    BY <1>1, <1>2 DEF Holders

\* The holders of a slot are finitely many threads.
LEMMA HoldersFinite ==
  ASSUME NEW c, NEW s
  PROVE  IsFiniteSet(Holders(c, s))
  BY ProcessAssumption, FS_Subset DEF Holders

\* What the locals of a thread say of the word it expects to find.
OwnWord(t, r) == r.pc \in {"own", "join", "dec"} => r.word.owner = Pid(t) /\ r.word.refs > 0

(***************************************************************************)
(* Claims and counts under the steps of a reader.                          *)
(***************************************************************************)
\* A step that stores no word and neither takes nor drops a reference or a claim.
LEMMA QuietKeeps ==
  ASSUME TypeInv, Claims, Counts, NEW t \in Threads, NEW r, Move(t, r),
         UNCHANGED <<lease, proc>>, OwnWord(t, r),
         r.pc \in HoldPcs <=> Holding(t), r.pc \in ClaimPcs => Claiming(t),
         r.pc \in HoldPcs \cup ClaimPcs => r.chunk = rd[t].chunk /\ r.slot = rd[t].slot
  PROVE  Claims' /\ Counts'
  <1>1. rd'[t] = r /\ \A u \in Threads : u # t => rd'[u] = rd[u]
    BY MoveFacts
  <1>2. \A u \in Threads :
           /\ rd'[u].pc \in HoldPcs <=> Holding(u)
           /\ rd'[u].pc \in ClaimPcs => Claiming(u)
           /\ rd'[u].pc \in HoldPcs \cup ClaimPcs =>
                 rd'[u].chunk = rd[u].chunk /\ rd'[u].slot = rd[u].slot
           /\ OwnWord(u, rd'[u])
    <2> TAKE u \in Threads
    <2>1. CASE u = t
      BY <1>1, <2>1
    <2>2. CASE u # t
      BY <1>1, <2>2 DEF Holding, Claiming, HoldPcs, ClaimPcs, OwnWord, Counts
    <2> QED
      BY <2>1, <2>2
  <1>3. Claims'
    <2>1. ASSUME NEW u \in Threads, rd'[u].pc \in ClaimPcs
          PROVE  lease'[rd'[u].chunk][rd'[u].slot] = Word(Pid(u), 0)
      BY <1>2, <2>1 DEF Claims, Slot
    <2>2. ASSUME NEW u \in Threads, NEW v \in Threads, rd'[u].pc \in ClaimPcs,
                 rd'[v].pc \in ClaimPcs, rd'[u].chunk = rd'[v].chunk, rd'[u].slot = rd'[v].slot
          PROVE  u = v
      BY <1>2, <2>2 DEF Claims, SamePlace
    <2> QED
      BY <2>1, <2>2 DEF Claims, Claiming, ClaimPcs, Slot, SamePlace
  <1>4. \A c \in Chunks, s \in Slots : Holders(c, s)' = Holders(c, s)
    <2>1. \A u \in Threads : rd'[u].pc \in HoldPcs <=> rd[u].pc \in HoldPcs
      BY <1>2 DEF Holding, HoldPcs
    <2>2. \A u \in Threads : rd'[u].pc \in HoldPcs =>
             rd'[u].chunk = rd[u].chunk /\ rd'[u].slot = rd[u].slot
      BY <1>2
    <2> QED
      BY <2>1, <2>2 DEF Holders, Holding, HoldPcs
  <1>5. Counts'
    <2>1. \A u \in Threads : rd'[u].pc \in HoldPcs =>
             lease'[rd'[u].chunk][rd'[u].slot].owner = Pid(u)
      BY <1>2 DEF Counts, Slot
    <2>2. \A c \in Chunks, s \in Slots :
             Up(lease[c][s].owner)' # {} => lease'[c][s].refs = Cardinality(Holders(c, s)')
      BY <1>4 DEF Counts, Up
    <2> QED
      BY <1>2, <2>1, <2>2 DEF Counts, Holding, HoldPcs, OwnWord, Slot
  <1> QED
    BY <1>3, <1>5

\* A step that stores a word into the slot of its thread.
LEMMA StoreKeeps ==
  ASSUME TypeInv, Claims, Counts, NEW t \in Threads, NEW r, Move(t, r),
         rd[t].slot < LeaseSlots, NEW w, StoreSlot(t, w), UNCHANGED proc, OwnWord(t, r),
         r.pc \in HoldPcs \cup ClaimPcs => /\ r.chunk = rd[t].chunk /\ r.slot = rd[t].slot
                                           /\ w.owner = Pid(t),
         r.pc \in ClaimPcs => w = Word(Pid(t), 0),
         \A u \in Threads : u # t /\ SamePlace(u, t) => /\ ~Claiming(u)
                                                        /\ Holding(u) => w.owner = Pid(u),
         Up(w.owner) # {} =>
            w.refs = Cardinality(IF r.pc \in HoldPcs
                                   THEN Holders(rd[t].chunk, rd[t].slot) \cup {t}
                                   ELSE Holders(rd[t].chunk, rd[t].slot) \ {t})
  PROVE  Claims' /\ Counts'
  <1> DEFINE c0 == rd[t].chunk
             s0 == rd[t].slot
  <1>0. c0 \in Chunks /\ s0 \in Slots
    BY ReaderHere DEF ReaderLocals
  <1>1. rd'[t] = r /\ \A u \in Threads : u # t => rd'[u] = rd[u]
    BY MoveFacts
  <1>2. /\ lease'[c0][s0] = w
        /\ \A c \in Chunks, s \in Slots : ~(c = c0 /\ s = s0) => lease'[c][s] = lease[c][s]
    BY StoreFacts
  <1>3. ASSUME NEW u \in Threads, u # t, Claiming(u)
        PROVE  lease'[rd[u].chunk][rd[u].slot] = Word(Pid(u), 0) /\ ~SamePlace(u, t)
    <2>1. rd[u].chunk \in Chunks /\ rd[u].slot \in Slots
      BY <1>3, PlaceOK
    <2> QED
      BY <1>2, <1>3, <2>1 DEF Claims, Slot, SamePlace
  <1>4. Claims'
    <2>1. \A u \in Threads : rd'[u].pc \in ClaimPcs =>
             lease'[rd'[u].chunk][rd'[u].slot] = Word(Pid(u), 0)
      BY <1>1, <1>2, <1>3 DEF Claiming, ClaimPcs
    <2>2. \A u, v \in Threads :
             /\ rd'[u].pc \in ClaimPcs /\ rd'[v].pc \in ClaimPcs
             /\ rd'[u].chunk = rd'[v].chunk /\ rd'[u].slot = rd'[v].slot
             => u = v
      BY <1>1, <1>3 DEF Claims, Claiming, ClaimPcs, SamePlace
    <2> QED
      BY <2>1, <2>2 DEF Claims, Claiming, ClaimPcs, Slot, SamePlace
  <1>5. \A u \in Threads : rd'[u].pc \in HoldPcs =>
           lease'[rd'[u].chunk][rd'[u].slot].owner = Pid(u)
    <2> SUFFICES ASSUME NEW u \in Threads, rd'[u].pc \in HoldPcs
                 PROVE  lease'[rd'[u].chunk][rd'[u].slot].owner = Pid(u)
      OBVIOUS
    <2>1. CASE u = t
      BY <1>1, <1>2, <2>1
    <2>2. CASE u # t
      <3>1. Holding(u) /\ rd'[u] = rd[u]
        BY <1>1, <2>2 DEF Holding, HoldPcs
      <3>2. rd[u].chunk \in Chunks /\ rd[u].slot \in Slots
        BY <3>1, PlaceOK
      <3> QED
        BY <1>2, <2>2, <3>1, <3>2 DEF Counts, Slot, SamePlace
    <2> QED
      BY <2>1, <2>2
  <1>6. ASSUME NEW c \in Chunks, NEW s \in Slots, Up(lease'[c][s].owner) # {}
        PROVE  lease'[c][s].refs = Cardinality(Holders(c, s)')
    <2>1. CASE c = c0 /\ s = s0
      <3>1. Holders(c, s)' = IF r.pc \in HoldPcs THEN Holders(c0, s0) \cup {t}
                                                 ELSE Holders(c0, s0) \ {t}
        BY <1>1, <2>1 DEF Holders, Holding, HoldPcs
      <3> QED
        BY <1>2, <1>6, <2>1, <3>1
    <2>2. CASE ~(c = c0 /\ s = s0)
      <3>1. Holders(c, s)' = Holders(c, s)
        BY <1>1, <2>2 DEF Holders, Holding, HoldPcs
      <3> QED
        BY <1>2, <1>6, <2>2, <3>1 DEF Counts
    <2> QED
      BY <2>1, <2>2
  <1>7. Counts'
    <2>1. \A u \in Threads : OwnWord(u, rd'[u])
      BY <1>1 DEF OwnWord, Counts
    <2>2. \A pid : Up(pid)' = Up(pid)
      BY DEF Up
    <2> QED
      BY <1>5, <1>6, <2>1, <2>2 DEF Counts, Holding, HoldPcs, OwnWord, Slot
  <1> QED
    BY <1>4, <1>7

\* Where the loop over the slots, and a release, lead to.
LEMMA LoopFacts ==
  ASSUME NEW r \in ReaderLocals
  PROVE  /\ Again(r).pc = "slot" /\ Skip(r).pc = "slot"
         /\ Leased(r).pc = "recheck" /\ Leased(r).chunk = r.chunk /\ Leased(r).slot = r.slot
         /\ Released(r).pc \in {"idle", "retry"}
  <1>1. /\ Again(r).pc = "slot" /\ Skip(r).pc = "slot"
        /\ Leased(r).pc = "recheck" /\ Leased(r).chunk = r.chunk /\ Leased(r).slot = r.slot
    BY DEF Again, Skip, Leased, ReaderLocals
  <1>2. Released(r).pc \in {"idle", "retry"}
    BY IdleReaderType DEF Released, IdleReader, ReaderLocals
  <1> QED
    BY <1>1, <1>2

\* A step that leads out of pin_chunk or on in its loop drops no reference: it comes
\* from a state without one.
LEMMA LeaveKeeps ==
  ASSUME TypeInv, Claims, Counts, NEW t \in Threads, NEW r, Move(t, r),
         UNCHANGED <<lease, proc>>, ~Holding(t),
         r.pc \in {"idle", "retry", "gen", "slot", "claim", "judge", "verdict", "clear"}
  PROVE  Claims' /\ Counts'
  BY QuietKeeps DEF OwnWord, HoldPcs, ClaimPcs

\* A step along the states of a lease that is held.
LEMMA HoldKeeps ==
  ASSUME TypeInv, Claims, Counts, NEW t \in Threads, NEW r, Move(t, r),
         UNCHANGED <<lease, proc>>, Holding(t),
         r.pc \in HoldPcs, r.pc = "dec" => r.word.owner = Pid(t) /\ r.word.refs > 0,
         r.chunk = rd[t].chunk, r.slot = rd[t].slot
  PROVE  Claims' /\ Counts'
  BY QuietKeeps DEF OwnWord, HoldPcs, ClaimPcs

\* One more thread of the process shares its slot.
LEMMA JoinKeeps ==
  ASSUME TypeInv, Alive, Claims, Counts, NEW t \in Threads, Join(t)
  PROVE  Claims' /\ Counts'
  <1>0. /\ rd[t] \in ReaderLocals /\ rd[t].pc = "join" /\ UNCHANGED proc /\ ~Holding(t)
        /\ rd[t].slot < LeaseSlots /\ rd[t].chunk \in Chunks /\ rd[t].slot \in Slots
    BY ReaderHere DEF Join, ReaderFrame, Holding, ReaderRange, Slotted, ReaderLocals
  <1>1. CASE Slot(t) # rd[t].word
    BY <1>0, <1>1, LoopFacts, LeaveKeeps DEF Join
  <1>2. CASE Slot(t) = rd[t].word
    <2> DEFINE w == Word(Pid(t), rd[t].word.refs + 1)
    <2>1. /\ StoreSlot(t, w) /\ Move(t, Leased(rd[t]))
          /\ w.owner = Pid(t) /\ w.refs = rd[t].word.refs + 1
      BY <1>2 DEF Join, Word
    <2> HIDE DEF w
    <2>2. rd[t].word.owner = Pid(t) /\ rd[t].word.refs > 0 /\ rd[t].word.refs \in Nat
      BY <1>0 DEF Counts, ReaderLocals, Words
    <2>3. rd[t].word.refs = Cardinality(Holders(rd[t].chunk, rd[t].slot))
      <3>1. Up(Slot(t).owner) # {}
        BY <1>0, <1>2, <2>2, RunningUp
      <3> QED
        BY <1>0, <1>2, <3>1 DEF Counts, Slot
    <2>4. w.refs = Cardinality(Holders(rd[t].chunk, rd[t].slot) \cup {t})
      <3>1. t \notin Holders(rd[t].chunk, rd[t].slot)
        BY <1>0 DEF Holders
      <3> QED
        BY <2>1, <2>3, <3>1, HoldersFinite, FS_AddElement
    <2>5. ASSUME NEW u \in Threads, u # t, SamePlace(u, t)
          PROVE  ~Claiming(u) /\ (Holding(u) => w.owner = Pid(u))
      <3>1. Slot(u) = rd[t].word
        BY <1>2, <2>5 DEF Slot, SamePlace
      <3>2. Claiming(u) => Slot(u).refs = 0
        BY DEF Claims, Word
      <3> QED
        BY <2>1, <2>2, <3>1, <3>2 DEF Counts
    <2>6. /\ Leased(rd[t]).pc = "recheck" /\ Leased(rd[t]).chunk = rd[t].chunk
          /\ Leased(rd[t]).slot = rd[t].slot
      BY <1>0, LoopFacts
    <2> DEFINE r == Leased(rd[t])
    <2> HIDE DEF r
    <2>7. Move(t, r) /\ r.pc = "recheck" /\ r.chunk = rd[t].chunk /\ r.slot = rd[t].slot
      BY <2>1, <2>6 DEF r
    <2>8. OwnWord(t, r) /\ r.pc \in HoldPcs /\ r.pc \notin ClaimPcs
      BY <2>7 DEF OwnWord, HoldPcs, ClaimPcs
    <2> QED
      BY <1>0, <2>1, <2>4, <2>5, <2>7, <2>8, StoreKeeps
  <1> QED
    BY <1>1, <1>2

\* A free slot is claimed.
LEMMA ClaimKeeps ==
  ASSUME TypeInv, Alive, Claims, Counts, NEW t \in Threads, Claim(t)
  PROVE  Claims' /\ Counts'
  <1>0. /\ rd[t] \in ReaderLocals /\ rd[t].pc = "claim" /\ UNCHANGED proc /\ ~Holding(t)
        /\ rd[t].slot < LeaseSlots /\ rd[t].chunk \in Chunks /\ rd[t].slot \in Slots
    BY ReaderHere DEF Claim, ReaderFrame, Holding, ReaderRange, Slotted, ReaderLocals
  <1>1. CASE Slot(t) # Free
    BY <1>0, <1>1, LoopFacts, LeaveKeeps DEF Claim
  <1>2. CASE Slot(t) = Free
    <2> DEFINE w == Word(Pid(t), 0)
               r == [rd[t] EXCEPT !.pc = "stamp"]
    <2>1. /\ StoreSlot(t, w) /\ Move(t, r) /\ w.owner = Pid(t) /\ w.refs = 0
          /\ w = Word(Pid(t), 0)
      BY <1>2 DEF Claim, MoveTo, Word
    <2>2. r.pc = "stamp" /\ r.chunk = rd[t].chunk /\ r.slot = rd[t].slot
      BY <1>0 DEF ReaderLocals
    <2> HIDE DEF w, r
    <2>3. /\ Holders(rd[t].chunk, rd[t].slot) = {}
          /\ \A u \in Threads : Claiming(u) => ~SamePlace(u, t)
      <3>1. Up(lease[rd[t].chunk][rd[t].slot].owner) = {}
        BY <1>2, NobodyZero DEF Slot, Free, Word
      <3> QED
        BY <1>0, <3>1, NobodyThere DEF SamePlace
    <2>4. \A u \in Threads : u # t /\ SamePlace(u, t) =>
             ~Claiming(u) /\ (Holding(u) => w.owner = Pid(u))
      BY <2>3 DEF Holders, SamePlace
    <2>5. w.refs = Cardinality(Holders(rd[t].chunk, rd[t].slot) \ {t})
      BY <2>1, <2>3, FS_EmptySet
    <2>6. OwnWord(t, r) /\ r.pc \notin HoldPcs
      BY <2>2 DEF OwnWord, HoldPcs
    <2> QED
      BY <1>0, <2>1, <2>2, <2>4, <2>5, <2>6, StoreKeeps
  <1> QED
    BY <1>1, <1>2

\* A claim is turned into the first reference; the compare_exchange never fails.
LEMMA ConfirmKeeps ==
  ASSUME TypeInv, Alive, Claims, Counts, NEW t \in Threads, Confirm(t)
  PROVE  Claims' /\ Counts'
  <1>0. /\ rd[t] \in ReaderLocals /\ rd[t].pc = "confirm" /\ UNCHANGED proc /\ Claiming(t)
        /\ rd[t].slot < LeaseSlots /\ rd[t].chunk \in Chunks /\ rd[t].slot \in Slots
    BY ReaderHere DEF Confirm, ReaderFrame, Claiming, ReaderRange, Slotted, ReaderLocals
  <1>1. Slot(t) = Word(Pid(t), 0)
    BY <1>0 DEF Claims
  <1> DEFINE w == Word(Pid(t), 1)
             r == Leased(rd[t])
  <1>2. /\ StoreSlot(t, w) /\ Move(t, r) /\ w.owner = Pid(t) /\ w.refs = 1
    BY <1>1 DEF Confirm, Word
  <1>3. r.pc = "recheck" /\ r.chunk = rd[t].chunk /\ r.slot = rd[t].slot
    BY <1>0, LoopFacts
  <1> HIDE DEF w, r
  <1>4. Holders(rd[t].chunk, rd[t].slot) = {}
    <2>1. Slot(t).owner = Pid(t) /\ Slot(t).refs = 0
      BY <1>1 DEF Word
    <2>2. Up(Slot(t).owner) # {}
      BY <1>0, <2>1, RunningUp
    <2>3. Cardinality(Holders(rd[t].chunk, rd[t].slot)) = 0
      BY <1>0, <2>1, <2>2 DEF Counts, Slot
    <2> QED
      BY <2>3, HoldersFinite, FS_EmptySet
  <1>5. \A u \in Threads : u # t /\ SamePlace(u, t) =>
           ~Claiming(u) /\ (Holding(u) => w.owner = Pid(u))
    BY <1>0, <1>4 DEF Holders, SamePlace, Claims
  <1>6. w.refs = Cardinality(Holders(rd[t].chunk, rd[t].slot) \cup {t})
    <2>1. Holders(rd[t].chunk, rd[t].slot) \cup {t} = {t}
      BY <1>4
    <2> QED
      BY <1>2, <2>1, FS_Singleton
  <1>7. OwnWord(t, r) /\ r.pc \in HoldPcs /\ r.pc \notin ClaimPcs
    BY <1>3 DEF OwnWord, HoldPcs, ClaimPcs
  <1> QED
    BY <1>0, <1>2, <1>3, <1>5, <1>6, <1>7, StoreKeeps

\* The slot of an owner that does not run is freed.
LEMMA ClearKeeps ==
  ASSUME TypeInv, Alive, Claims, Counts, Verdicts, NEW t \in Threads, Clear(t)
  PROVE  Claims' /\ Counts'
  <1>0. /\ rd[t] \in ReaderLocals /\ rd[t].pc = "clear" /\ UNCHANGED proc /\ ~Holding(t)
        /\ rd[t].slot < LeaseSlots /\ rd[t].chunk \in Chunks /\ rd[t].slot \in Slots
    BY ReaderHere DEF Clear, ReaderFrame, Holding, ReaderRange, Slotted, ReaderLocals
  <1> DEFINE r == Again(rd[t])
  <1>1. Move(t, r) /\ r.pc = "slot"
    BY <1>0, LoopFacts DEF Clear
  <1> HIDE DEF r
  <1>2. CASE Slot(t) # rd[t].word
    BY <1>0, <1>1, <1>2, LeaveKeeps DEF Clear
  <1>3. CASE Slot(t) = rd[t].word
    <2>1. Up(lease[rd[t].chunk][rd[t].slot].owner) = {}
      BY <1>0, <1>3 DEF Verdicts, Slot
    <2>2. /\ Holders(rd[t].chunk, rd[t].slot) = {}
          /\ \A u \in Threads : Claiming(u) => ~SamePlace(u, t)
      BY <1>0, <2>1, NobodyThere DEF SamePlace
    <2>3. \A u \in Threads : u # t /\ SamePlace(u, t) =>
             ~Claiming(u) /\ (Holding(u) => Free.owner = Pid(u))
      BY <2>2 DEF Holders, SamePlace
    <2>4. StoreSlot(t, Free) /\ Up(Free.owner) = {}
      BY <1>3, NobodyZero DEF Clear, Free, Word
    <2>5. OwnWord(t, r) /\ r.pc \notin HoldPcs /\ r.pc \notin ClaimPcs
      BY <1>1 DEF OwnWord, HoldPcs, ClaimPcs
    <2> QED
      BY <1>0, <1>1, <2>3, <2>4, <2>5, StoreKeeps
  <1> QED
    BY <1>2, <1>3

\* A reference is given back, the last one with the slot.
LEMMA ReleaseKeeps ==
  ASSUME TypeInv, Alive, Claims, Counts, NEW t \in Threads, ReleaseDec(t)
  PROVE  Claims' /\ Counts'
  <1>0. /\ rd[t] \in ReaderLocals /\ rd[t].pc = "dec" /\ UNCHANGED proc /\ Holding(t)
        /\ rd[t].slot < LeaseSlots /\ rd[t].chunk \in Chunks /\ rd[t].slot \in Slots
    BY ReaderHere DEF ReleaseDec, ReaderFrame, Holding, ReaderRange, Slotted, ReaderLocals
  <1>1. CASE Slot(t) # rd[t].word
    <2> DEFINE r == [rd[t] EXCEPT !.pc = "release", !.word = Free]
    <2>1. Move(t, r) /\ UNCHANGED lease
      BY <1>1 DEF ReleaseDec
    <2>2. r.pc = "release" /\ r.chunk = rd[t].chunk /\ r.slot = rd[t].slot
      BY <1>0 DEF ReaderLocals
    <2> HIDE DEF r
    <2> QED
      BY <1>0, <2>1, <2>2, HoldKeeps DEF HoldPcs
  <1>2. CASE Slot(t) = rd[t].word
    <2> DEFINE w == IF rd[t].word.refs = 1 THEN Free ELSE Word(Pid(t), rd[t].word.refs - 1)
               r == Released(rd[t])
               H == Holders(rd[t].chunk, rd[t].slot)
    <2>1. StoreSlot(t, w) /\ Move(t, r) /\ r.pc \in {"idle", "retry"}
      BY <1>0, <1>2, LoopFacts DEF ReleaseDec
    <2>2. rd[t].word.owner = Pid(t) /\ rd[t].word.refs > 0 /\ rd[t].word.refs \in Nat
      BY <1>0 DEF Counts, ReaderLocals, Words
    <2>3. rd[t].word.refs = Cardinality(H)
      <3>1. Up(Slot(t).owner) # {}
        BY <1>0, <1>2, <2>2, RunningUp
      <3> QED
        BY <1>0, <1>2, <3>1 DEF Counts, Slot
    <2>4. t \in H /\ IsFiniteSet(H)
      <3>1. t \in H
        BY <1>0 DEF Holders
      <3> QED
        BY <3>1, HoldersFinite
    <2>5. Cardinality(H \ {t}) = rd[t].word.refs - 1 /\ IsFiniteSet(H \ {t})
      BY <2>3, <2>4, FS_RemoveElement
    <2>6. rd[t].word.refs = 1 => H \ {t} = {}
      BY <2>2, <2>5, FS_EmptySet
    <2>7. ASSUME NEW u \in Threads, u # t, SamePlace(u, t)
          PROVE  ~Claiming(u) /\ (Holding(u) => w.owner = Pid(u))
      <3>1. Slot(u) = rd[t].word
        BY <1>2, <2>7 DEF Slot, SamePlace
      <3>2. ~Claiming(u)
        <4>1. Claiming(u) => Slot(u).refs = 0
          BY DEF Claims, Word
        <4> QED
          BY <2>2, <3>1, <4>1
      <3>3. Holding(u) => rd[t].word.refs # 1 /\ Pid(u) = Pid(t)
        BY <2>2, <2>6, <2>7, <3>1 DEF Holders, SamePlace, Counts
      <3>4. rd[t].word.refs # 1 => w.owner = Pid(t)
        BY DEF Word
      <3> QED
        BY <3>2, <3>3, <3>4
    <2>8. Up(w.owner) # {} => w.refs = Cardinality(H \ {t})
      <3>1. CASE rd[t].word.refs = 1
        BY <3>1, NobodyZero DEF Free, Word
      <3>2. CASE rd[t].word.refs # 1
        BY <2>5, <3>2 DEF Word
      <3> QED
        BY <3>1, <3>2
    <2> HIDE DEF w, r
    <2>9. OwnWord(t, r) /\ r.pc \notin HoldPcs /\ r.pc \notin ClaimPcs
      BY <2>1 DEF OwnWord, HoldPcs, ClaimPcs
    <2> QED
      BY <1>0, <2>1, <2>7, <2>8, <2>9, StoreKeeps
  <1> QED
    BY <1>1, <1>2

\* Every step of a reader keeps claims and counts, given that its verdicts are right.
LEMMA ReaderKeeps ==
  ASSUME TypeInv, LeaseInv, Verdicts, NEW t \in Threads, Reader(t)
  PROVE  Claims' /\ Counts'
  <1>0. rd[t] \in ReaderLocals /\ Alive /\ Claims /\ Counts
    BY ReaderHere DEF LeaseInv
  <1>1. ASSUME NEW c \in Chunks, PinBegin(t, c) PROVE Claims' /\ Counts'
    <2> DEFINE r == [rd[t] EXCEPT !.pc = "gen", !.chunk = c, !.st = ch[c].state, !.tries = 1]
    <2>1. Move(t, r) /\ r.pc = "gen" /\ ~Holding(t) /\ UNCHANGED <<lease, proc>>
      BY <1>0, <1>1 DEF PinBegin, LocalStep, ReaderFrame, Holding, ReaderLocals
    <2> QED
      BY <1>0, <2>1, LeaveKeeps
  <1>2. CASE PinRetry(t)
    <2> DEFINE r == IF ch[rd[t].chunk].state = "Empty" THEN IdleReader
                    ELSE [rd[t] EXCEPT !.pc = "gen", !.st = ch[rd[t].chunk].state,
                                       !.tries = @ + 1]
    <2>1. Move(t, r) /\ ~Holding(t) /\ UNCHANGED <<lease, proc>>
      BY <1>2 DEF PinRetry, LocalStep, ReaderFrame, Holding
    <2>2. r.pc \in {"gen", "idle"}
      BY <1>0 DEF ReaderLocals, IdleReader
    <2> HIDE DEF r
    <2> QED
      BY <1>0, <2>1, <2>2, LeaveKeeps
  <1>3. CASE LoadGen(t)
    <2> DEFINE r == [rd[t] EXCEPT !.pc = "slot", !.gen = ch[rd[t].chunk].gen, !.slot = 0]
    <2>1. Move(t, r) /\ r.pc = "slot" /\ ~Holding(t) /\ UNCHANGED <<lease, proc>>
      BY <1>0, <1>3 DEF LoadGen, LocalStep, ReaderFrame, Holding, ReaderLocals
    <2> QED
      BY <1>0, <2>1, LeaveKeeps
  <1>4. CASE Exhausted(t)
    <2>1. Move(t, IdleReader) /\ IdleReader.pc = "idle" /\ ~Holding(t) /\ UNCHANGED <<lease, proc>>
      BY <1>4 DEF Exhausted, ReaderFrame, Holding, IdleReader
    <2> QED
      BY <1>0, <2>1, LeaveKeeps
  <1>5. CASE LoadSlot(t)
    <2> DEFINE pc == IF Slot(t).owner = Pid(t) /\ Slot(t).refs > 0 THEN "own"
                     ELSE IF Slot(t) = Free THEN "claim"
                     ELSE IF Slot(t).refs = 0 THEN "verdict"
                     ELSE "judge"
    <2> DEFINE r == [rd[t] EXCEPT !.word = Slot(t), !.pc = pc]
    <2>1. Move(t, r) /\ ~Holding(t) /\ UNCHANGED <<lease, proc>>
      BY <1>5 DEF LoadSlot, LocalStep, ReaderFrame, Holding
    <2>2. r.pc = pc /\ r.word = Slot(t)
      BY <1>0 DEF ReaderLocals
    <2>3. pc \in {"own", "claim", "judge", "verdict"}
          /\ (pc = "own" => Slot(t).owner = Pid(t) /\ Slot(t).refs > 0)
      OBVIOUS
    <2> HIDE DEF r, pc
    <2>4. OwnWord(t, r) /\ r.pc \notin HoldPcs /\ r.pc \notin ClaimPcs
      BY <2>2, <2>3 DEF OwnWord, HoldPcs, ClaimPcs
    <2> QED
      BY <1>0, <2>1, <2>4, QuietKeeps
  <1>6. CASE OwnStart(t)
    <2>0. rd[t].pc = "own" /\ ~Holding(t) /\ UNCHANGED <<lease, proc>>
      BY <1>6 DEF OwnStart, LocalStep, ReaderFrame, Holding
    <2> DEFINE join == [rd[t] EXCEPT !.pc = "join"]
               clear == [rd[t] EXCEPT !.pc = "clear"]
    <2>1. Move(t, join) \/ Move(t, clear) \/ Move(t, Skip(rd[t]))
      BY <1>6 DEF OwnStart, MoveTo
    <2>2. join.pc = "join" /\ join.word = rd[t].word /\ clear.pc = "clear"
      BY <1>0 DEF ReaderLocals
    <2> HIDE DEF join, clear
    <2>3. CASE Move(t, join)
      <3>1. OwnWord(t, join) /\ join.pc \notin HoldPcs /\ join.pc \notin ClaimPcs
        BY <1>0, <2>0, <2>2 DEF OwnWord, HoldPcs, ClaimPcs, Counts
      <3> QED
        BY <1>0, <2>0, <2>3, <3>1, QuietKeeps
    <2>4. CASE Move(t, clear)
      BY <1>0, <2>0, <2>2, <2>4, LeaveKeeps
    <2>5. CASE Move(t, Skip(rd[t]))
      BY <1>0, <2>0, <2>5, LoopFacts, LeaveKeeps
    <2> QED
      BY <2>1, <2>3, <2>4, <2>5
  <1>7. CASE StampStart(t)
    <2> DEFINE r == [rd[t] EXCEPT !.pc = "confirm"]
    <2>1. Move(t, r) /\ UNCHANGED <<lease, proc>> /\ rd[t].pc = "stamp"
      BY <1>7 DEF StampStart, MoveTo, ReaderFrame
    <2>2. r.pc = "confirm" /\ r.chunk = rd[t].chunk /\ r.slot = rd[t].slot
      BY <1>0 DEF ReaderLocals
    <2> HIDE DEF r
    <2>3. OwnWord(t, r) /\ r.pc \notin HoldPcs /\ ~Holding(t) /\ Claiming(t)
      BY <2>1, <2>2 DEF OwnWord, HoldPcs, Holding, Claiming
    <2> QED
      BY <1>0, <2>1, <2>2, <2>3, QuietKeeps
  <1>8. CASE Judge(t)
    <2> DEFINE r == [rd[t] EXCEPT !.pc = "verdict",
                                  !.start = leaseStart[rd[t].chunk][rd[t].slot]]
    <2>1. Move(t, r) /\ r.pc = "verdict" /\ ~Holding(t) /\ UNCHANGED <<lease, proc>>
      BY <1>0, <1>8 DEF Judge, LocalStep, ReaderFrame, Holding, ReaderLocals
    <2> QED
      BY <1>0, <2>1, LeaveKeeps
  <1>9. CASE Verdict(t)
    <2> DEFINE r == [rd[t] EXCEPT !.pc = "clear", !.start = 0]
    <2>1. Move(t, r) \/ Move(t, Skip(rd[t]))
      BY <1>9 DEF Verdict
    <2>2. ~Holding(t) /\ UNCHANGED <<lease, proc>>
      BY <1>9 DEF Verdict, LocalStep, ReaderFrame, Holding
    <2>3. r.pc = "clear"
      BY <1>0 DEF ReaderLocals
    <2> HIDE DEF r
    <2> QED
      BY <1>0, <2>1, <2>2, <2>3, LoopFacts, LeaveKeeps
  <1>10. CASE Recheck(t) \/ Regen(t) \/ Unpin(t)
    <2> DEFINE q(pc) == [rd[t] EXCEPT !.pc = pc]
               z == [rd[t] EXCEPT !.pc = "release", !.tries = PinTries]
    <2>1. Holding(t) /\ UNCHANGED <<lease, proc>>
      BY <1>10 DEF Recheck, Regen, Unpin, LocalStep, ReaderFrame, Holding
    <2>2. \E r : /\ Move(t, r) /\ r.pc \in {"regen", "extent", "release"}
                 /\ r.chunk = rd[t].chunk /\ r.slot = rd[t].slot
      <3>1. Move(t, q("regen")) \/ Move(t, q("extent")) \/ Move(t, q("release")) \/ Move(t, z)
        BY <1>10 DEF Recheck, Regen, Unpin, MoveTo
      <3>2. \A pc : q(pc).pc = pc /\ q(pc).chunk = rd[t].chunk /\ q(pc).slot = rd[t].slot
        BY <1>0 DEF ReaderLocals
      <3>3. z.pc = "release" /\ z.chunk = rd[t].chunk /\ z.slot = rd[t].slot
        BY <1>0 DEF ReaderLocals
      <3> HIDE DEF q, z
      <3> QED
        BY <3>1, <3>2, <3>3
    <2> QED
      BY <1>0, <2>1, <2>2, HoldKeeps DEF HoldPcs
  <1>11. CASE Extent(t)
    <2> DEFINE q == [rd[t] EXCEPT !.pc = "release"]
               z == [rd[t] EXCEPT !.pc = "pinned", !.used = ch[rd[t].chunk].used]
    <2>1. Holding(t) /\ UNCHANGED <<lease, proc>> /\ (Move(t, q) \/ Move(t, z))
      BY <1>11 DEF Extent, LocalStep, ReaderFrame, Holding, MoveTo
    <2>2. /\ q.pc = "release" /\ q.chunk = rd[t].chunk /\ q.slot = rd[t].slot
          /\ z.pc = "pinned" /\ z.chunk = rd[t].chunk /\ z.slot = rd[t].slot
      BY <1>0 DEF ReaderLocals
    <2> HIDE DEF q, z
    <2> QED
      BY <1>0, <2>1, <2>2, HoldKeeps DEF HoldPcs
  <1>12. CASE ReleaseLoad(t)
    <2> DEFINE r == [rd[t] EXCEPT !.pc = "dec", !.word = Slot(t)]
    <2>1. Holding(t) /\ UNCHANGED <<lease, proc>> /\ rd[t].pc # "off"
      BY <1>12 DEF ReleaseLoad, LocalStep, ReaderFrame, Holding
    <2>2. Slot(t).owner = Pid(t) /\ Slot(t) \in Words
      <3>1. rd[t].slot < LeaseSlots
        BY <2>1, PlaceOK
      <3> QED
        BY <1>0, <2>1, <3>1, ReaderHere DEF Counts
    <2>3. Slot(t).refs > 0
      <3>1. rd[t].chunk \in Chunks /\ rd[t].slot \in Slots
        BY <2>1, PlaceOK
      <3>2. Slot(t).refs = Cardinality(Holders(rd[t].chunk, rd[t].slot))
        BY <1>0, <2>1, <2>2, <3>1, RunningUp DEF Counts, Slot
      <3>3. t \in Holders(rd[t].chunk, rd[t].slot)
        BY <2>1 DEF Holders
      <3>4. Cardinality(Holders(rd[t].chunk, rd[t].slot)) # 0
        BY <3>3, HoldersFinite, FS_EmptySet
      <3> QED
        BY <2>2, <3>2, <3>4 DEF Words
    <2>4. Move(t, r)
      BY <1>12, <2>2, <2>3 DEF ReleaseLoad
    <2>5. r.pc = "dec" /\ r.word = Slot(t) /\ r.chunk = rd[t].chunk /\ r.slot = rd[t].slot
      BY <1>0 DEF ReaderLocals
    <2> HIDE DEF r
    <2> QED
      BY <1>0, <2>1, <2>2, <2>3, <2>4, <2>5, HoldKeeps DEF HoldPcs
  <1> QED
    BY <1>0, <1>1, <1>2, <1>3, <1>4, <1>5, <1>6, <1>7, <1>8, <1>9, <1>10, <1>11, <1>12,
       JoinKeeps, ClaimKeeps, ConfirmKeeps, ClearKeeps, ReleaseKeeps DEF Reader, Acquire

(***************************************************************************)
(* Words and start times are those of processes that have run.             *)
(***************************************************************************)
\* What the parts say of the words in reach of a thread.
LEMMA AliveHere ==
  ASSUME TypeInv, Alive, NEW t \in Threads, rd[t].pc # "off"
  PROVE  /\ 0 \in Seen /\ 0 \in Known /\ Pid(t) \in Seen /\ Start(t) \in Known
         /\ rd[t].word.owner \in Seen /\ rd[t].start \in Known
         /\ rd[t].slot < LeaseSlots => /\ Slot(t).owner \in Seen
                                       /\ leaseStart[rd[t].chunk][rd[t].slot] \in Known
  <1>1. 0 \in Seen /\ 0 \in Known /\ Start(t) \in Known
    BY ProcessAssumption DEF Seen, Known, Start
  <1>2. Pid(t) \in Seen
    BY ProcessAssumption DEF Seen, Pid, Alive
  <1>3. rd[t].slot < LeaseSlots => rd[t].slot \in Slots /\ rd[t].chunk \in Chunks
    BY ReaderHere DEF ReaderLocals
  <1> QED
    BY <1>1, <1>2, <1>3 DEF Alive, Slot

\* The locals a step gives its thread name processes that have run.
LEMMA ReaderWords ==
  ASSUME TypeInv, Alive, NEW t \in Threads, Reader(t)
  PROVE  /\ rd[t].pc # "off" /\ rd'[t].pc # "off"
         /\ rd'[t].word.owner \in Seen /\ rd'[t].start \in Known
         /\ \A u \in Threads : u # t => rd'[u] = rd[u]
  <1>0. rd[t] \in ReaderLocals /\ ReaderRange(rd[t]) /\ rd[t].pc # "off"
    BY ReaderHere
       DEF Reader, Acquire, PinBegin, PinRetry, LoadGen, Exhausted, LoadSlot, OwnStart, Join,
           Claim, StampStart, Confirm, Judge, Verdict, Clear, Recheck, Regen, Extent, Unpin,
           ReleaseLoad, ReleaseDec
  <1>a. /\ 0 \in Seen /\ 0 \in Known /\ rd[t].word.owner \in Seen /\ rd[t].start \in Known
        /\ rd[t].slot < LeaseSlots => /\ Slot(t).owner \in Seen
                                      /\ leaseStart[rd[t].chunk][rd[t].slot] \in Known
    BY <1>0, AliveHere
  <1> DEFINE Good(r) == r.pc # "off" /\ r.word.owner \in Seen /\ r.start \in Known
  <1>b. Good(IdleReader)
    BY <1>a DEF IdleReader, Free, Word
  <1>c. Good(Again(rd[t])) /\ Good(Skip(rd[t])) /\ Good(Leased(rd[t]))
    BY <1>0, <1>a DEF Again, Skip, Leased, ReaderLocals, Free, Word
  <1>d. Good(Released(rd[t]))
    <2> DEFINE q == [IdleReader EXCEPT !.pc = "retry", !.chunk = rd[t].chunk,
                                       !.tries = rd[t].tries]
    <2>1. q.pc = "retry" /\ q.word = Free /\ q.start = 0
      BY DEF IdleReader
    <2>2. Good(q)
      BY <1>a, <2>1 DEF Free, Word
    <2> QED
      BY <1>b, <2>2 DEF Released
  <1> HIDE DEF Good
  <1>1. ASSUME NEW pc, pc # "off" PROVE Good([rd[t] EXCEPT !.pc = pc])
    BY <1>0, <1>a, <1>1 DEF Good, ReaderLocals
  <1>2. \E r : Move(t, r) /\ Good(r)
    <2>1. ASSUME NEW c \in Chunks, PinBegin(t, c) PROVE \E r : Move(t, r) /\ Good(r)
      <3> DEFINE r == [rd[t] EXCEPT !.pc = "gen", !.chunk = c, !.st = ch[c].state, !.tries = 1]
      <3>1. Move(t, r) /\ Good(r)
        BY <1>0, <1>a, <2>1 DEF PinBegin, Good, ReaderLocals
      <3> QED
        BY <3>1
    <2>2. CASE PinRetry(t)
      <3> DEFINE r == [rd[t] EXCEPT !.pc = "gen", !.st = ch[rd[t].chunk].state, !.tries = @ + 1]
      <3>1. Good(r)
        BY <1>0, <1>a DEF Good, ReaderLocals
      <3> QED
        BY <1>b, <2>2, <3>1 DEF PinRetry
    <2>3. CASE LoadGen(t)
      <3> DEFINE r == [rd[t] EXCEPT !.pc = "slot", !.gen = ch[rd[t].chunk].gen, !.slot = 0]
      <3>1. Good(r)
        BY <1>0, <1>a DEF Good, ReaderLocals
      <3> QED
        BY <2>3, <3>1 DEF LoadGen
    <2>4. CASE Exhausted(t)
      BY <1>b, <2>4 DEF Exhausted
    <2>5. CASE LoadSlot(t)
      <3> DEFINE pc == IF Slot(t).owner = Pid(t) /\ Slot(t).refs > 0 THEN "own"
                       ELSE IF Slot(t) = Free THEN "claim"
                       ELSE IF Slot(t).refs = 0 THEN "verdict"
                       ELSE "judge"
                 r == [rd[t] EXCEPT !.word = Slot(t), !.pc = pc]
      <3>1. Move(t, r) /\ pc # "off" /\ rd[t].slot < LeaseSlots
        BY <2>5 DEF LoadSlot
      <3> HIDE DEF pc
      <3>2. Good(r)
        BY <1>0, <1>a, <3>1 DEF Good, ReaderLocals
      <3> QED
        BY <3>1, <3>2
    <2>6. CASE OwnStart(t)
      BY <1>c, <1>1, <2>6 DEF OwnStart, MoveTo
    <2>7. CASE Join(t) \/ Claim(t) \/ StampStart(t) \/ Confirm(t) \/ Clear(t)
      BY <1>c, <1>1, <2>7 DEF Join, Claim, StampStart, Confirm, Clear, MoveTo
    <2>8. CASE Judge(t)
      <3> DEFINE r == [rd[t] EXCEPT !.pc = "verdict",
                                    !.start = leaseStart[rd[t].chunk][rd[t].slot]]
      <3>1. Move(t, r) /\ rd[t].slot < LeaseSlots
        BY <1>0, <2>8 DEF Judge, ReaderRange, Slotted
      <3>2. Good(r)
        BY <1>0, <1>a, <3>1 DEF Good, ReaderLocals
      <3> QED
        BY <3>1, <3>2
    <2>9. CASE Verdict(t)
      <3> DEFINE r == [rd[t] EXCEPT !.pc = "clear", !.start = 0]
      <3>1. Good(r)
        BY <1>0, <1>a DEF Good, ReaderLocals
      <3> QED
        BY <1>c, <2>9, <3>1 DEF Verdict
    <2>10. CASE Recheck(t)
      BY <1>1, <2>10 DEF Recheck, MoveTo
    <2>11. CASE Regen(t)
      BY <1>1, <2>11 DEF Regen, MoveTo
    <2>12. CASE Extent(t)
      <3> DEFINE r == [rd[t] EXCEPT !.pc = "pinned", !.used = ch[rd[t].chunk].used]
      <3>1. Good(r)
        BY <1>0, <1>a DEF Good, ReaderLocals
      <3> QED
        BY <1>1, <2>12, <3>1 DEF Extent, MoveTo
    <2>13. CASE Unpin(t)
      <3> DEFINE r == [rd[t] EXCEPT !.pc = "release", !.tries = PinTries]
      <3>1. Good(r)
        BY <1>0, <1>a DEF Good, ReaderLocals
      <3> QED
        BY <2>13, <3>1 DEF Unpin
    <2>14. CASE ReleaseLoad(t)
      <3> DEFINE r == [rd[t] EXCEPT !.pc = "dec", !.word = Slot(t)]
      <3>1. rd[t].slot < LeaseSlots
        BY <1>0, <2>14 DEF ReleaseLoad, ReaderRange, Slotted
      <3>2. Good(r)
        BY <1>0, <1>a, <3>1 DEF Good, ReaderLocals
      <3> QED
        BY <1>d, <2>14, <3>2 DEF ReleaseLoad
    <2>15. CASE ReleaseDec(t)
      <3> DEFINE r == [rd[t] EXCEPT !.pc = "release", !.word = Free]
      <3>1. Good(r)
        BY <1>0, <1>a DEF Good, ReaderLocals, Free, Word
      <3> QED
        BY <1>d, <2>15, <3>1 DEF ReleaseDec
    <2> QED
      BY <2>1, <2>2, <2>3, <2>4, <2>5, <2>6, <2>7, <2>8, <2>9, <2>10, <2>11, <2>12, <2>13,
         <2>14, <2>15 DEF Reader, Acquire
  <1> QED
    BY <1>0, <1>2, MoveFacts DEF Good

\* The words a reader stores are its own or free, the start time its own.
LEMMA ReaderStores ==
  ASSUME TypeInv, NEW t \in Threads, Reader(t)
  PROVE  /\ ReaderFrame
         /\ UNCHANGED lease \/ \E w : StoreSlot(t, w) /\ w.owner \in {0, Pid(t)}
                                      /\ rd[t].slot < LeaseSlots
         /\ UNCHANGED leaseStart
            \/ leaseStart' = [leaseStart EXCEPT ![rd[t].chunk][rd[t].slot] = Start(t)]
  <1>1. CASE Join(t) \/ Claim(t) \/ Confirm(t) \/ Clear(t) \/ ReleaseDec(t)
    <2>1. rd[t].slot < LeaseSlots
      BY <1>1, ReaderHere
         DEF Join, Claim, Confirm, Clear, ReleaseDec, ReaderRange, Slotted
    <2>2. ReaderFrame /\ UNCHANGED leaseStart
      BY <1>1 DEF Join, Claim, Confirm, Clear, ReleaseDec
    <2>3. Free.owner = 0 /\ \A n : Word(Pid(t), n).owner = Pid(t)
      BY DEF Free, Word
    <2>4. UNCHANGED lease \/ StoreSlot(t, Free) \/ \E n : StoreSlot(t, Word(Pid(t), n))
      BY <1>1 DEF Join, Claim, Confirm, Clear, ReleaseDec
    <2> QED
      BY <2>1, <2>2, <2>3, <2>4
  <1>2. CASE StampStart(t)
    BY <1>2 DEF StampStart
  <1>3. CASE ~(Join(t) \/ Claim(t) \/ Confirm(t) \/ Clear(t) \/ ReleaseDec(t) \/ StampStart(t))
    BY <1>3 DEF Reader, Acquire, PinBegin, PinRetry, LoadGen, Exhausted, LoadSlot, OwnStart,
       Judge, Verdict, Recheck, Regen, Extent, Unpin, ReleaseLoad, LocalStep
  <1> QED
    BY <1>1, <1>2, <1>3

\* Every step of a reader keeps the words to those of processes that have run.
LEMMA ReaderAlive ==
  ASSUME TypeInv, Alive, NEW t \in Threads, Reader(t)
  PROVE  Alive'
  <1>1. /\ rd[t].pc # "off" /\ rd'[t].pc # "off"
        /\ rd'[t].word.owner \in Seen /\ rd'[t].start \in Known
        /\ \A u \in Threads : u # t => rd'[u] = rd[u]
    BY ReaderWords
  <1>2. Pid(t) \in Seen /\ Start(t) \in Known /\ 0 \in Seen
    BY <1>1, AliveHere
  <1>3. UNCHANGED <<proc, wr>> /\ Seen' = Seen
    BY ReaderStores DEF ReaderFrame, Seen
  <1>4. \A c \in Chunks, s \in Slots : lease'[c][s].owner \in Seen
    <2>1. CASE UNCHANGED lease
      BY <2>1 DEF Alive
    <2>2. ASSUME NEW w, StoreSlot(t, w), w.owner \in {0, Pid(t)}, rd[t].slot < LeaseSlots
          PROVE  \A c \in Chunks, s \in Slots : lease'[c][s].owner \in Seen
      BY <1>2, <2>2, StoreFacts DEF Alive
    <2> QED
      BY <2>1, <2>2, ReaderStores
  <1>5. \A c \in Chunks, s \in Slots : leaseStart'[c][s] \in Known
    <2>1. CASE UNCHANGED leaseStart
      BY <2>1 DEF Alive
    <2>2. CASE leaseStart' = [leaseStart EXCEPT ![rd[t].chunk][rd[t].slot] = Start(t)]
      <3>1. \A c \in Chunks, s \in Slots : leaseStart'[c][s] \in {leaseStart[c][s], Start(t)}
        BY <2>2 DEF TypeInv, TypeOK
      <3> QED
        BY <1>2, <3>1 DEF Alive
    <2> QED
      BY <2>1, <2>2, ReaderStores
  <1>6. \A u \in Threads : /\ rd'[u].pc # "off" => proc[ProcOf[u]] = "up"
                           /\ rd'[u].word.owner \in Seen /\ rd'[u].start \in Known
    BY <1>1 DEF Alive
  <1> HIDE DEF Seen, Known
  <1> QED
    BY <1>3, <1>4, <1>5, <1>6 DEF Alive, Known

(***************************************************************************)
(* Processes.                                                              *)
(***************************************************************************)
\* A process starts: its threads did nothing before, and its PID is a new one.
LEMMA SpawnKeeps ==
  ASSUME TypeInv, LeaseInv, NEW p \in Procs, Spawn(p), ~PidReused'
  PROVE  LeaseInv' /\ (Verdicts => Verdicts')
  <1>0. /\ proc[p] = "new" /\ proc' = [proc EXCEPT ![p] = "up"]
        /\ rd' = [t \in Threads |-> IF ProcOf[t] = p THEN IdleReader ELSE rd[t]]
        /\ UNCHANGED <<lease, leaseStart, wr>> /\ proc \in [Procs -> {"new", "up", "dead"}]
    BY DEF Spawn, TypeInv, TypeOK
  <1>1. /\ proc'[p] = "up" /\ \A q \in Procs : q # p => proc'[q] = proc[q]
    BY <1>0
  <1>2. PidOf[p] \notin Seen
    <2>1. ASSUME NEW q \in Procs, proc[q] # "new", PidOf[q] = PidOf[p] PROVE FALSE
      BY <1>0, <1>1, <2>1 DEF PidReused
    <2> QED
      BY <2>1, ProcessAssumption DEF Seen
  <1>3. \A o \in Seen : Up(o)' = Up(o)
    BY <1>0, <1>1, <1>2 DEF Up
  <1>4. /\ IdleReader.pc = "idle" /\ IdleReader.word.owner = 0 /\ IdleReader.start = 0
    BY DEF IdleReader, Free, Word
  <1>5. \A t \in Threads : \/ rd'[t] = rd[t]
                           \/ ProcOf[t] = p /\ rd'[t] = IdleReader /\ rd[t].pc = "off"
    BY <1>0 DEF LeaseInv, Alive
  <1>6. 0 \in Seen /\ 0 \in Known /\ \A o \in Seen : o \in Seen'
    BY <1>0, <1>1 DEF Seen, Known
  <1>7. Alive'
    <2>1. \A t \in Threads : rd'[t].pc # "off" => proc'[ProcOf[t]] = "up"
      BY <1>0, <1>1, <1>5, ProcessAssumption DEF LeaseInv, Alive
    <2>2. \A t \in Threads : rd'[t].word.owner \in Seen' /\ rd'[t].start \in Known
      BY <1>4, <1>5, <1>6 DEF LeaseInv, Alive
    <2>3. \A c \in Chunks, s \in Slots : lease'[c][s].owner \in Seen'
      BY <1>0, <1>6 DEF LeaseInv, Alive
    <2>4. wr'.word.owner \in Seen'
      BY <1>0, <1>6 DEF LeaseInv, Alive
    <2> HIDE DEF Seen
    <2> QED
      BY <1>0, <2>1, <2>2, <2>3, <2>4 DEF LeaseInv, Alive, Known
  <1>8. \A t \in Threads :
           /\ rd'[t].pc \in HoldPcs \cup ClaimPcs \cup {"own", "join", "clear"} => rd'[t] = rd[t]
           /\ rd[t].pc \in HoldPcs => rd'[t] = rd[t]
    BY <1>4, <1>5 DEF HoldPcs, ClaimPcs
  <1>9. Claims'
    BY <1>0, <1>8 DEF LeaseInv, Claims, Claiming, ClaimPcs, SamePlace, Slot
  <1>10. Counts'
    <2>1. \A c \in Chunks, s \in Slots : Holders(c, s)' = Holders(c, s)
      BY <1>8 DEF Holders, Holding, HoldPcs
    <2>2. \A c \in Chunks, s \in Slots : Up(lease[c][s].owner)' = Up(lease[c][s].owner)
      BY <1>3, <1>0 DEF LeaseInv, Alive, Up
    <2>3. \A c \in Chunks, s \in Slots :
             Up(lease[c][s].owner)' # {} => lease'[c][s].refs = Cardinality(Holders(c, s)')
      BY <1>0, <2>1, <2>2 DEF LeaseInv, Counts
    <2>4. \A t \in Threads : rd'[t].pc \in {"own", "join", "dec"} =>
             rd'[t].word.owner = Pid(t) /\ rd'[t].word.refs > 0
      BY <1>8 DEF LeaseInv, Counts, HoldPcs
    <2>5. \A t \in Threads : rd'[t].pc \in HoldPcs =>
             lease'[rd'[t].chunk][rd'[t].slot].owner = Pid(t)
      BY <1>0, <1>8 DEF LeaseInv, Counts, Holding, HoldPcs, Slot
    <2> QED
      BY <1>0, <2>3, <2>4, <2>5 DEF Counts, Holding, HoldPcs, Slot
  <1>11. Verdicts => Verdicts'
    <2>1. \A t \in Threads : rd'[t].pc = "clear" => rd'[t] = rd[t] /\ rd[t].word.owner \in Seen
      BY <1>8 DEF LeaseInv, Alive
    <2>2. wr.word.owner \in Seen
      BY DEF LeaseInv, Alive
    <2> QED
      BY <1>0, <1>3, <2>1, <2>2 DEF Verdicts
  <1> QED
    BY <1>7, <1>9, <1>10, <1>11 DEF LeaseInv

\* A process dies: the references it held are those of an owner that does not run.
LEMMA DieKeeps ==
  ASSUME TypeInv, LeaseInv, NEW p \in Procs, Die(p), ~PidReused'
  PROVE  LeaseInv' /\ (Verdicts => Verdicts')
  <1>0. /\ proc[p] = "up" /\ proc' = [proc EXCEPT ![p] = "dead"]
        /\ rd' = [t \in Threads |-> IF ProcOf[t] = p THEN OffReader ELSE rd[t]]
        /\ UNCHANGED <<lease, leaseStart, wr>> /\ proc \in [Procs -> {"new", "up", "dead"}]
    BY DEF Die, TypeInv, TypeOK
  <1>1. /\ proc'[p] = "dead" /\ \A q \in Procs : q # p => proc'[q] = proc[q]
    BY <1>0
  <1>2. \A o : Up(o)' \subseteq Up(o) \ {p}
    BY <1>0, <1>1 DEF Up
  <1>3. \A q \in Procs : q # p /\ proc[q] = "up" => PidOf[q] # PidOf[p]
    BY <1>1 DEF PidReused
  <1>4. /\ OffReader.pc = "off" /\ OffReader.word.owner = 0 /\ OffReader.start = 0
    BY DEF OffReader, IdleReader, Free, Word
  <1>5. \A t \in Threads : /\ ProcOf[t] # p => rd'[t] = rd[t]
                           /\ ProcOf[t] = p => rd'[t] = OffReader
    BY <1>0
  <1>6. 0 \in Seen /\ 0 \in Known /\ Seen' = Seen
    BY <1>0, <1>1 DEF Seen, Known
  <1>7. Alive'
    <2>1. \A t \in Threads : rd'[t].pc # "off" => proc'[ProcOf[t]] = "up"
      BY <1>1, <1>4, <1>5, ProcessAssumption DEF LeaseInv, Alive
    <2>2. \A t \in Threads : rd'[t].word.owner \in Seen /\ rd'[t].start \in Known
      BY <1>4, <1>5, <1>6 DEF LeaseInv, Alive
    <2> HIDE DEF Seen
    <2> QED
      BY <1>0, <1>6, <2>1, <2>2 DEF LeaseInv, Alive, Known
  <1>8. \A t \in Threads : rd'[t].pc # "off" => rd'[t] = rd[t]
    BY <1>4, <1>5
  <1>9. Claims'
    <2>1. \A t \in Threads : rd'[t].pc \in ClaimPcs => rd'[t] = rd[t]
      BY <1>8 DEF ClaimPcs
    <2> QED
      BY <1>0, <2>1 DEF LeaseInv, Claims, Claiming, ClaimPcs, SamePlace, Slot
  <1>10. Counts'
    <2>1. \A t \in Threads : rd'[t].pc \in HoldPcs => rd'[t] = rd[t]
      BY <1>8 DEF HoldPcs
    <2>2. ASSUME NEW c \in Chunks, NEW s \in Slots, Up(lease[c][s].owner)' # {}
          PROVE  lease'[c][s].refs = Cardinality(Holders(c, s)')
      <3>1. PICK q \in Procs : q # p /\ proc[q] = "up" /\ PidOf[q] = lease[c][s].owner
        BY <1>0, <1>1, <2>2 DEF Up
      <3>2. lease[c][s].owner # PidOf[p]
        BY <1>3, <3>1
      <3>3. \A t \in Threads : Holding(t) /\ rd[t].chunk = c /\ rd[t].slot = s => ProcOf[t] # p
        BY <3>2 DEF LeaseInv, Counts, Slot, Pid
      <3>4. Holders(c, s)' = Holders(c, s)
        BY <1>5, <2>1, <3>3 DEF Holders, Holding, HoldPcs
      <3>5. Up(lease[c][s].owner) # {}
        BY <3>1 DEF Up
      <3> QED
        BY <1>0, <3>4, <3>5 DEF LeaseInv, Counts
    <2>3. \A t \in Threads : rd'[t].pc \in {"own", "join", "dec"} =>
             rd'[t].word.owner = Pid(t) /\ rd'[t].word.refs > 0
      BY <1>8 DEF LeaseInv, Counts
    <2>4. \A t \in Threads : rd'[t].pc \in HoldPcs =>
             lease'[rd'[t].chunk][rd'[t].slot].owner = Pid(t)
      BY <1>0, <2>1 DEF LeaseInv, Counts, Holding, HoldPcs, Slot
    <2>5. \A c \in Chunks, s \in Slots :
             Up(lease[c][s].owner)' # {} => lease'[c][s].refs = Cardinality(Holders(c, s)')
      BY <2>2
    <2> QED
      BY <1>0, <2>3, <2>4, <2>5 DEF Counts, Holding, HoldPcs, Slot
  <1>11. Verdicts => Verdicts'
    BY <1>0, <1>2, <1>8 DEF Verdicts
  <1> QED
    BY <1>7, <1>9, <1>10, <1>11 DEF LeaseInv

(***************************************************************************)
(* The writer.                                                             *)
(***************************************************************************)
Writer == WriterCall \/ WriterStep \/ WriterCrash \/ Reopen

\* What a writer step does to the leases and to its own lease locals.
LEMMA WriterLeases ==
  ASSUME TypeInv, Alive, Writer
  PROVE  /\ UNCHANGED <<leaseStart, proc, rd, failures>>
         /\ \/ UNCHANGED lease
            \/ /\ wr.pc = "clear" /\ lease[Tgt][wr.slot] = wr.word /\ wr.slot \in Slots
               /\ lease' = [lease EXCEPT ![Tgt][wr.slot] = Free]
         /\ wr'.word.owner \in Seen /\ wr'.start \in Known
  <1>0. /\ wr \in WriterLocals /\ WriterRange(wr) /\ Tgt \in Chunks
        /\ wr.slot < LeaseSlots => wr.slot \in Slots
    BY WriterHere
  <1>a. /\ wr.word.owner \in Seen /\ wr.start \in Known /\ 0 \in Seen /\ 0 \in Known
        /\ \A c \in Chunks, s \in Slots : lease[c][s].owner \in Seen /\ leaseStart[c][s] \in Known
    BY DEF Alive, Seen, Known
  <1> DEFINE Good(w) == w.word.owner \in Seen /\ w.start \in Known
  <1>c. Good(IdleWriter) /\ Good([IdleWriter EXCEPT !.pc = "down"])
    BY <1>a DEF IdleWriter, Free, Word
  <1>d. \A pc : Good([wr EXCEPT !.pc = pc])
    BY <1>0, <1>a DEF WriterLocals
  <1> HIDE DEF Good
  <1>1. CASE WriterCall
    <2>1. Good(wr')
      <3>1. ASSUME NEW row \in Row, Push(row) PROVE Good(wr')
        BY <3>1, <1>a DEF Push, IdleWriter, Free, Word, Good
      <3>2. ASSUME NEW row \in Row, Append(row) PROVE Good(wr')
        BY <3>2, <1>a DEF Append, IdleWriter, Free, Word, Good
      <3>3. CASE Advance
        BY <3>3, <1>a DEF Advance, IdleWriter, Free, Word, Good
      <3> QED
        BY <1>1, <3>1, <3>2, <3>3 DEF WriterCall
    <2> QED
      BY <1>1, <2>1 DEF WriterCall, Push, Append, Advance, LocalWrite, OnChunks, WriterFrame, Good
  <1>2. CASE WriterCrash \/ Reopen
    <2>1. Good(wr')
      BY <1>2, <1>c DEF WriterCrash, Reopen
    <2> QED
      BY <1>2, <2>1 DEF WriterCrash, Reopen, LocalWrite, OnChunks, WriterFrame, Good
  <1>3. CASE WriteTest \/ NoteTs \/ Publish \/ CountRow \/ Defer
    <2>1. Good(wr')
      BY <1>3, <1>c, <1>d DEF WriteTest, NoteTs, Publish, CountRow, Defer, Goto
    <2> QED
      BY <1>3, <2>1 DEF WriteTest, NoteTs, Publish, CountRow, Defer, LocalWrite, OnChunks,
         WriterFrame, Good
  <1>4. CASE BlockPins
    <2>1. Good(wr')
      BY <1>0, <1>4, <1>a DEF BlockPins, WriterLocals, Good
    <2> QED
      BY <1>4, <2>1 DEF BlockPins, OnChunks, WriterFrame, Good
  <1>5. CASE ScanSlot \/ ScanEnd
    <2>1. wr.slot < LeaseSlots => wr.slot \in Slots
      BY <1>0
    <2>2. CASE ScanSlot
      <3>1. wr'.word \in {wr.word, lease[Tgt][wr.slot]} /\ wr'.start = wr.start
        BY <1>0, <2>2 DEF ScanSlot, WriterLocals
      <3>2. wr.slot \in Slots
        BY <1>0, <2>2 DEF ScanSlot
      <3>3. Good(wr')
        BY <1>0, <1>a, <3>1, <3>2 DEF Good
      <3> QED
        BY <2>2, <3>3 DEF ScanSlot, LocalWrite, OnChunks, WriterFrame, Good
    <2>3. CASE ScanEnd
      <3>1. wr'.word = wr.word /\ wr'.start = wr.start
        BY <1>0, <2>3 DEF ScanEnd, WriterLocals
      <3> QED
        BY <1>a, <2>3, <3>1 DEF ScanEnd, LocalWrite, OnChunks, WriterFrame
    <2> QED
      BY <1>5, <2>2, <2>3
  <1>6. CASE WriterJudge \/ WriterVerdict
    <2>1. wr.slot \in Slots
      BY <1>0, <1>6 DEF WriterJudge, WriterVerdict, WriterRange
    <2>2. CASE WriterJudge
      <3>1. wr'.word = wr.word /\ wr'.start = leaseStart[Tgt][wr.slot]
        BY <1>0, <2>2 DEF WriterJudge, WriterLocals
      <3> QED
        BY <1>0, <1>a, <2>1, <2>2, <3>1 DEF WriterJudge, LocalWrite, OnChunks, WriterFrame
    <2>3. CASE WriterVerdict
      <3>1. wr'.word \in {wr.word, Free} /\ wr'.start \in {wr.start, 0}
        BY <1>0, <2>3 DEF WriterVerdict, WriterLocals
      <3> QED
        BY <1>a, <2>3, <3>1 DEF WriterVerdict, LocalWrite, OnChunks, WriterFrame, Free, Word
    <2> QED
      BY <1>6, <2>2, <2>3
  <1>7. CASE WriterClear
    <2>1. wr.slot \in Slots /\ wr.pc = "clear"
      BY <1>0, <1>7 DEF WriterClear, WriterRange
    <2>2. wr'.word = Free /\ wr'.start = 0
      BY <1>0, <1>7 DEF WriterClear, WriterLocals
    <2> QED
      BY <1>a, <1>7, <2>1, <2>2 DEF WriterClear, WriterFrame, Free, Word
  <1>8. CASE Recycle
    <2>1. Good(wr')
      <3>1. CASE Turn
        <4>1. Good([IdleWriter EXCEPT !.pc = "write", !.op = "again", !.row = wr.row])
          BY <1>a DEF IdleWriter, Free, Word, Good
        <4> QED
          BY <1>c, <3>1, <4>1 DEF Turn
      <3>2. CASE ~Turn
        BY <1>8, <1>d, <3>2 DEF Recycle, Seal, CountLost, BumpGeneration, ResetUsed,
           ResetRowCount, ResetTs, OpenChunk, Goto
      <3> QED
        BY <3>1, <3>2
    <2> QED
      BY <1>8, <2>1 DEF Recycle, Seal, CountLost, BumpGeneration, ResetUsed, ResetRowCount,
         ResetTs, OpenChunk, Turn, OnChunks, WriterFrame, Good
  <1> QED
    BY <1>1, <1>2, <1>3, <1>4, <1>5, <1>6, <1>7, <1>8 DEF Writer, WriterStep, Drain

\* Every step of the writer keeps claims and counts, given that its verdicts are right.
LEMMA WriterKeeps ==
  ASSUME TypeInv, LeaseInv, Verdicts, Writer
  PROVE  LeaseInv'
  <1>0. /\ TypeInv /\ Alive /\ Claims /\ Counts
    BY DEF LeaseInv
  <1>1. /\ UNCHANGED <<leaseStart, proc, rd>>
        /\ wr'.word.owner \in Seen /\ wr'.start \in Known
        /\ UNCHANGED lease \/ /\ wr.pc = "clear" /\ lease[Tgt][wr.slot] = wr.word
                              /\ wr.slot \in Slots
                              /\ lease' = [lease EXCEPT ![Tgt][wr.slot] = Free]
    BY <1>0, WriterLeases
  <1>2. Seen' = Seen /\ \A o : Up(o)' = Up(o)
    BY <1>1 DEF Seen, Up
  <1>3. \A c \in Chunks, s \in Slots : Holders(c, s)' = Holders(c, s)
    BY <1>1 DEF Holders, Holding
  <1>4. CASE UNCHANGED lease
    <2>1. Alive'
      BY <1>0, <1>1, <1>2, <1>4 DEF Alive, Known
    <2>2. Claims'
      BY <1>0, <1>1, <1>4 DEF Claims, Claiming, SamePlace, Slot
    <2>3. Counts'
      <3>1. \A c \in Chunks, s \in Slots :
               Up(lease[c][s].owner)' # {} => lease'[c][s].refs = Cardinality(Holders(c, s)')
        BY <1>0, <1>2, <1>3, <1>4 DEF Counts
      <3> QED
        BY <1>0, <1>1, <1>4, <3>1 DEF Counts, Holding, Slot
    <2> QED
      BY <2>1, <2>2, <2>3 DEF LeaseInv
  <1>5. CASE /\ wr.pc = "clear" /\ lease[Tgt][wr.slot] = wr.word /\ wr.slot \in Slots
             /\ lease' = [lease EXCEPT ![Tgt][wr.slot] = Free]
    <2> DEFINE c0 == Tgt
               s0 == wr.slot
    <2>0. c0 \in Chunks /\ s0 \in Slots
      BY <1>5, WriterHere
    <2>1. Up(lease[c0][s0].owner) = {}
      BY <1>5 DEF Verdicts
    <2>2. /\ Holders(c0, s0) = {}
          /\ \A u \in Threads : Claiming(u) => ~(rd[u].chunk = c0 /\ rd[u].slot = s0)
      BY <1>0, <2>0, <2>1, NobodyThere
    <2>3. /\ lease'[c0][s0] = Free
          /\ \A c \in Chunks, s \in Slots : ~(c = c0 /\ s = s0) => lease'[c][s] = lease[c][s]
      BY <1>5, <2>0 DEF TypeInv, TypeOK
    <2> HIDE DEF c0, s0
    <2>4. Free.owner = 0 /\ 0 \in Seen
      BY DEF Free, Word, Seen
    <2>5. \A c \in Chunks, s \in Slots : lease'[c][s].owner \in Seen
      BY <1>0, <2>3, <2>4 DEF Alive
    <2>6. Alive'
      <3> HIDE DEF Seen, Known
      <3> QED
        BY <1>0, <1>1, <1>2, <2>5 DEF Alive, Known
    <2>7. \A t \in Threads : Claiming(t) \/ Holding(t) =>
             lease'[rd[t].chunk][rd[t].slot] = lease[rd[t].chunk][rd[t].slot]
      <3> SUFFICES ASSUME NEW t \in Threads, Claiming(t) \/ Holding(t)
                   PROVE  lease'[rd[t].chunk][rd[t].slot] = lease[rd[t].chunk][rd[t].slot]
        OBVIOUS
      <3>1. rd[t].chunk \in Chunks /\ rd[t].slot \in Slots
        BY PlaceOK
      <3>2. ~(rd[t].chunk = c0 /\ rd[t].slot = s0)
        BY <2>2 DEF Holders
      <3> QED
        BY <2>3, <3>1, <3>2
    <2>8. Claims'
      BY <1>0, <1>1, <2>7 DEF Claims, Claiming, SamePlace, Slot
    <2>9. Counts'
      <3>1. \A c \in Chunks, s \in Slots :
               Up(lease'[c][s].owner) # {} => lease'[c][s].refs = Cardinality(Holders(c, s))
        BY <1>0, <2>3, <2>4, NobodyZero DEF Counts
      <3>2. \A t \in Threads : Holding(t) => lease'[rd[t].chunk][rd[t].slot].owner = Pid(t)
        BY <1>0, <2>7 DEF Counts, Slot
      <3> QED
        BY <1>0, <1>1, <1>2, <1>3, <3>1, <3>2 DEF Counts, Holding, Slot
    <2> QED
      BY <2>6, <2>8, <2>9 DEF LeaseInv
  <1> QED
    BY <1>1, <1>4, <1>5

(***************************************************************************)
(* Verdicts.  They are right where word and start time are of one owner:   *)
(* then only a process whose PID is reused could be taken for another.     *)
(***************************************************************************)
\* A word and a start time of one owner name a dead process only if no process with
\* that PID runs.
LEMMA DeadIsDead ==
  ASSUME ~PidReused, NEW word, NEW start, word.refs # 0 => start \in Starts(word.owner),
         ~owner_alive(word, start)
  PROVE  Up(word.owner) = {}
  <1>1. CASE word.refs = 0
    BY <1>1 DEF owner_alive, process_exists
  <1>2. CASE word.refs # 0
    <2> SUFFICES ASSUME NEW p \in Up(word.owner) PROVE FALSE
      OBVIOUS
    <2>1. start # 0 /\ StartOf[p] # start
      BY <1>2 DEF owner_alive, process_instance_alive
    <2>2. PICK q \in Procs : StartOf[q] = start /\ PidOf[q] = word.owner /\ proc[q] # "new"
      BY <1>2, <2>1 DEF Starts
    <2>3. p \in Procs /\ PidOf[p] = word.owner /\ proc[p] # "new" /\ p # q
      BY <2>1, <2>2 DEF Up
    <2> QED
      BY <2>2, <2>3 DEF PidReused
  <1> QED
    BY <1>1, <1>2

\* The verdicts of readers are right.
LEMMA ReaderVerdicts ==
  ASSUME TypeInv, ~PidReused, PairedLoads, Alive, Verdicts, NEW t \in Threads, Reader(t)
  PROVE  Verdicts'
  <1>0. rd[t] \in ReaderLocals /\ ReaderRange(rd[t])
    BY ReaderHere
  <1>1. UNCHANGED <<proc, wr>> /\ \A u \in Threads : u # t => rd'[u] = rd[u]
    BY ReaderStores, ReaderWords DEF ReaderFrame
  <1>2. \A o : Up(o)' = Up(o)
    BY <1>1 DEF Up
  <1>a. /\ Again(rd[t]).pc # "clear" /\ Skip(rd[t]).pc # "clear" /\ Leased(rd[t]).pc # "clear"
        /\ Released(rd[t]).pc # "clear" /\ IdleReader.pc # "clear"
    BY <1>0, LoopFacts DEF IdleReader
  <1>b. \A pc : [rd[t] EXCEPT !.pc = pc].pc = pc
    BY <1>0 DEF ReaderLocals
  <1>3. rd'[t].pc = "clear" => Up(rd'[t].word.owner) = {}
    <2>1. CASE OwnStart(t)
      <3>1. rd[t].slot < LeaseSlots /\ rd[t].pc # "off"
        BY <1>0, <2>1 DEF OwnStart, ReaderRange, Slotted
      <3>2. leaseStart[rd[t].chunk][rd[t].slot] \in Starts(Pid(t)) /\ proc[ProcOf[t]] = "up"
        BY <2>1, <3>1 DEF PairedLoads, Alive
      <3>3. ASSUME leaseStart[rd[t].chunk][rd[t].slot] # 0
            PROVE  leaseStart[rd[t].chunk][rd[t].slot] = Start(t)
        <4>1. PICK q \in Procs : /\ StartOf[q] = leaseStart[rd[t].chunk][rd[t].slot]
                                 /\ PidOf[q] = Pid(t) /\ proc[q] # "new"
          BY <3>2, <3>3 DEF Starts
        <4>2. q = ProcOf[t]
          BY <3>2, <4>1, ProcessAssumption DEF PidReused, Pid
        <4> QED
          BY <4>1, <4>2 DEF Start
      <3>4. MoveTo(t, "join") \/ Move(t, Skip(rd[t]))
        BY <2>1, <3>3 DEF OwnStart
      <3> QED
        BY <1>a, <1>b, <3>4, MoveFacts DEF MoveTo
    <2>2. CASE Verdict(t)
      <3>1. CASE owner_alive(rd[t].word, rd[t].start)
        BY <1>a, <2>2, <3>1, MoveFacts DEF Verdict
      <3>2. CASE ~owner_alive(rd[t].word, rd[t].start)
        <4> DEFINE r == [rd[t] EXCEPT !.pc = "clear", !.start = 0]
        <4>1. rd'[t] = r /\ r.word = rd[t].word
          BY <1>0, <2>2, <3>2, MoveFacts DEF Verdict, ReaderLocals
        <4> QED
          BY <2>2, <3>2, <4>1, DeadIsDead DEF PairedLoads
      <3> QED
        BY <3>1, <3>2
    <2>3. CASE ~OwnStart(t) /\ ~Verdict(t)
      <3>1. rd'[t].pc # "clear"
        <4>1. ASSUME NEW c \in Chunks, PinBegin(t, c) PROVE rd'[t].pc # "clear"
          <5> DEFINE r == [rd[t] EXCEPT !.pc = "gen", !.chunk = c, !.st = ch[c].state,
                                        !.tries = 1]
          <5>1. Move(t, r) /\ r.pc = "gen"
            BY <1>0, <4>1 DEF PinBegin, ReaderLocals
          <5> QED
            BY <5>1, MoveFacts
        <4>2. CASE PinRetry(t)
          <5> DEFINE r == [rd[t] EXCEPT !.pc = "gen", !.st = ch[rd[t].chunk].state,
                                        !.tries = @ + 1]
          <5>1. r.pc = "gen" /\ (rd'[t] = r \/ rd'[t] = IdleReader)
            BY <1>0, <4>2, MoveFacts DEF PinRetry, ReaderLocals
          <5> QED
            BY <1>a, <5>1
        <4>3. CASE LoadGen(t)
          <5> DEFINE r == [rd[t] EXCEPT !.pc = "slot", !.gen = ch[rd[t].chunk].gen, !.slot = 0]
          <5>1. r.pc = "slot" /\ rd'[t] = r
            BY <1>0, <4>3, MoveFacts DEF LoadGen, ReaderLocals
          <5> QED
            BY <5>1
        <4>4. CASE LoadSlot(t)
          <5> DEFINE pc == IF Slot(t).owner = Pid(t) /\ Slot(t).refs > 0 THEN "own"
                           ELSE IF Slot(t) = Free THEN "claim"
                           ELSE IF Slot(t).refs = 0 THEN "verdict"
                           ELSE "judge"
                     r == [rd[t] EXCEPT !.word = Slot(t), !.pc = pc]
          <5>1. r.pc = pc /\ rd'[t] = r
            BY <1>0, <4>4, MoveFacts DEF LoadSlot, ReaderLocals
          <5>2. pc # "clear"
            OBVIOUS
          <5> QED
            BY <5>1, <5>2
        <4>5. CASE Exhausted(t) \/ Join(t) \/ Claim(t) \/ StampStart(t) \/ Confirm(t) \/ Clear(t)
          <5> DEFINE q == [rd[t] EXCEPT !.pc = "stamp"]
                     r == [rd[t] EXCEPT !.pc = "confirm"]
          <5>1. q.pc = "stamp" /\ r.pc = "confirm"
            BY <1>0 DEF ReaderLocals
          <5>2. rd'[t] \in {q, r, IdleReader, Again(rd[t]), Skip(rd[t]), Leased(rd[t])}
            BY <4>5, MoveFacts DEF Exhausted, Join, Claim, StampStart, Confirm, Clear, MoveTo
          <5> QED
            BY <1>a, <5>1, <5>2
        <4>6. CASE Judge(t)
          <5> DEFINE r == [rd[t] EXCEPT !.pc = "verdict",
                                        !.start = leaseStart[rd[t].chunk][rd[t].slot]]
          <5>1. r.pc = "verdict" /\ rd'[t] = r
            BY <1>0, <4>6, MoveFacts DEF Judge, ReaderLocals
          <5> QED
            BY <5>1
        <4>7. CASE Recheck(t) \/ Regen(t)
          <5> DEFINE q(pc) == [rd[t] EXCEPT !.pc = pc]
          <5>1. /\ q("regen").pc = "regen" /\ q("extent").pc = "extent"
                /\ q("release").pc = "release"
            BY <1>0 DEF ReaderLocals
          <5>2. rd'[t] \in {q("regen"), q("extent"), q("release")}
            BY <4>7, MoveFacts DEF Recheck, Regen, MoveTo
          <5> QED
            BY <5>1, <5>2
        <4>8. CASE Extent(t) \/ Unpin(t)
          <5> DEFINE q == [rd[t] EXCEPT !.pc = "release"]
                     r == [rd[t] EXCEPT !.pc = "pinned", !.used = ch[rd[t].chunk].used]
                     z == [rd[t] EXCEPT !.pc = "release", !.tries = PinTries]
          <5>1. q.pc = "release" /\ r.pc = "pinned" /\ z.pc = "release"
            BY <1>0 DEF ReaderLocals
          <5>2. rd'[t] = q \/ rd'[t] = r \/ rd'[t] = z
            BY <4>8, MoveFacts DEF Extent, Unpin, MoveTo
          <5> QED
            BY <5>1, <5>2
        <4>9. CASE ReleaseLoad(t) \/ ReleaseDec(t)
          <5> DEFINE q == [rd[t] EXCEPT !.pc = "dec", !.word = Slot(t)]
                     r == [rd[t] EXCEPT !.pc = "release", !.word = Free]
          <5>1. q.pc = "dec" /\ r.pc = "release"
            BY <1>0 DEF ReaderLocals
          <5>2. rd'[t] = q \/ rd'[t] = r \/ rd'[t] = Released(rd[t])
            BY <4>9, MoveFacts DEF ReleaseLoad, ReleaseDec
          <5> QED
            BY <1>a, <5>1, <5>2
        <4> QED
          BY <2>3, <4>1, <4>2, <4>3, <4>4, <4>5, <4>6, <4>7, <4>8, <4>9 DEF Reader, Acquire
      <3> QED
        BY <3>1
    <2> QED
      BY <2>1, <2>2, <2>3
  <1> QED
    BY <1>1, <1>2, <1>3 DEF Verdicts

\* The verdicts of the writer are right.
LEMMA WriterVerdicts ==
  ASSUME TypeInv, ~PidReused, PairedLoads, Alive, Verdicts, Writer
  PROVE  Verdicts'
  <1>0. wr \in WriterLocals
    BY WriterHere
  <1>1. UNCHANGED <<proc, rd>>
    BY WriterLeases
  <1>2. \A o : Up(o)' = Up(o)
    BY <1>1 DEF Up
  <1>a. IdleWriter.pc = "idle"
    BY DEF IdleWriter
  <1>3. wr'.pc = "clear" => Up(wr'.word.owner) = {}
    <2>1. CASE WriterVerdict
      <3>1. CASE owner_alive(wr.word, wr.start)
        <4>1. wr'.pc = "scan"
          BY <1>0, <2>1, <3>1 DEF WriterVerdict, WriterLocals
        <4> QED
          BY <4>1
      <3>2. CASE ~owner_alive(wr.word, wr.start)
        <4>1. wr'.word = wr.word
          BY <1>0, <2>1, <3>2 DEF WriterVerdict, WriterLocals
        <4> QED
          BY <2>1, <3>2, <4>1, DeadIsDead DEF PairedLoads
      <3> QED
        BY <3>1, <3>2
    <2>2. CASE WriterCall \/ WriterCrash \/ Reopen
      <3>1. wr'.pc \in {"write", "block", "down", "idle"}
        BY <2>2, IdleWriterType
           DEF WriterCall, Push, Append, Advance, WriterCrash, Reopen, WriterLocals
      <3> QED
        BY <3>1
    <2>3. CASE WriteTest \/ NoteTs \/ Publish \/ CountRow \/ Defer \/ BlockPins
      <3>1. wr'.pc \in {"note", "block", "idle", "publish", "count", "scan"}
        BY <1>0, <1>a, <2>3
           DEF WriteTest, NoteTs, Publish, CountRow, Defer, BlockPins, Goto, WriterLocals
      <3> QED
        BY <3>1
    <2>4. CASE ScanSlot \/ WriterJudge \/ WriterClear \/ ScanEnd
      <3>1. wr'.pc # "clear"
        BY <1>0, <2>4 DEF ScanSlot, WriterJudge, WriterClear, ScanEnd, WriterLocals
      <3> QED
        BY <3>1
    <2>5. CASE Recycle
      <3>1. wr'.pc # "clear"
        <4>1. CASE Turn
          BY <1>a, <4>1 DEF Turn, IdleWriter
        <4>2. CASE ~Turn
          BY <1>0, <2>5, <4>2 DEF Recycle, Seal, CountLost, BumpGeneration, ResetUsed,
             ResetRowCount, ResetTs, OpenChunk, Goto, WriterLocals
        <4> QED
          BY <4>1, <4>2
      <3> QED
        BY <3>1
    <2> QED
      BY <2>1, <2>2, <2>3, <2>4, <2>5 DEF Writer, WriterStep, Drain
  <1> QED
    BY <1>1, <1>2, <1>3 DEF Verdicts

\* Nothing has been claimed or judged yet.
LEMMA InitLease == Init => LeaseInv /\ Verdicts
  <1> SUFFICES ASSUME Init PROVE LeaseInv /\ Verdicts
    OBVIOUS
  <1>1. /\ IdleReader.pc = "idle" /\ OffReader.pc = "off"
        /\ IdleReader.word = Free /\ OffReader.word = Free
        /\ IdleReader.start = 0 /\ OffReader.start = 0
        /\ IdleWriter.pc = "idle" /\ IdleWriter.word = Free /\ IdleWriter.start = 0
        /\ Free.owner = 0
    BY DEF IdleReader, OffReader, IdleWriter, Free, Word
  <1>2. \A t \in Threads : /\ rd[t] = IdleReader \/ rd[t] = OffReader
                           /\ rd[t].pc # "off" => proc[ProcOf[t]] = "up"
    BY <1>1 DEF Init
  <1>3. \A t \in Threads : rd[t].word = Free /\ rd[t].start = 0 /\ rd[t].pc \in {"idle", "off"}
    BY <1>1, <1>2
  <1>4. \A c \in Chunks, s \in Slots : lease[c][s] = Free /\ leaseStart[c][s] = 0
    BY DEF Init
  <1>5. wr = IdleWriter
    BY DEF Init
  <1>6. Alive
    BY <1>1, <1>2, <1>3, <1>4, <1>5 DEF Alive, Seen, Known
  <1>7. Verdicts /\ Claims
    BY <1>1, <1>3, <1>5 DEF Verdicts, Claims, Claiming
  <1>8. Counts
    <2>1. \A c \in Chunks, s \in Slots : Up(lease[c][s].owner) = {}
      BY <1>1, <1>4, NobodyZero
    <2> QED
      BY <1>3, <2>1 DEF Counts, Holding
  <1> QED
    BY <1>6, <1>7, <1>8 DEF LeaseInv

\* As long as verdicts are right and no PID is reused, every step keeps the leases exact.
LEMMA NextLease ==
  ASSUME TypeInv, LeaseInv, Verdicts, ~PidReused', [Next]_vars
  PROVE  LeaseInv'
  <1>1. ASSUME NEW t \in Threads, Reader(t) PROVE LeaseInv'
    BY <1>1, ReaderKeeps, ReaderAlive DEF LeaseInv
  <1>2. CASE UNCHANGED vars
    <2>1. /\ Seen' = Seen /\ (\A o : Up(o)' = Up(o))
          /\ \A c \in Chunks, s \in Slots : Holders(c, s)' = Holders(c, s)
      BY <1>2 DEF vars, Seen, Up, Holders, Holding
    <2>2. Alive' /\ Claims'
      BY <1>2, <2>1 DEF vars, LeaseInv, Alive, Known, Claims, Claiming, SamePlace, Slot
    <2>3. Counts'
      <3>1. \A c \in Chunks, s \in Slots :
               Up(lease[c][s].owner)' # {} => lease'[c][s].refs = Cardinality(Holders(c, s)')
        BY <1>2, <2>1 DEF vars, LeaseInv, Counts
      <3> QED
        BY <1>2, <3>1 DEF vars, LeaseInv, Counts, Holding, Slot
    <2> QED
      BY <2>2, <2>3 DEF LeaseInv
  <1> QED
    BY <1>1, <1>2, SpawnKeeps, DieKeeps, WriterKeeps DEF Next, Writer

\* Where its loads are of one owner, every step keeps verdicts right.
LEMMA NextVerdicts ==
  ASSUME TypeInv, LeaseInv, Verdicts, ~PidReused, ~PidReused', [Next]_vars,
         [PairedLoads]_vars
  PROVE  Verdicts'
  <1>1. CASE UNCHANGED vars
    <2>1. \A o : Up(o)' = Up(o)
      BY <1>1 DEF vars, Up
    <2> QED
      BY <1>1, <2>1 DEF vars, Verdicts
  <1> QED
    BY <1>1, SpawnKeeps, DieKeeps, ReaderVerdicts, WriterVerdicts DEF Next, Writer, LeaseInv

\* A PID once reused stays reused.
LEMMA ReusedForGood ==
  ASSUME TypeInv, [Next]_vars, PidReused
  PROVE  PidReused'
  <1>1. \A p \in Procs : proc[p] # "new" => proc'[p] # "new"
    <2>1. ASSUME NEW p \in Procs, Spawn(p) \/ Die(p)
          PROVE  \A q \in Procs : proc[q] # "new" => proc'[q] # "new"
      BY <2>1 DEF Spawn, Die, TypeInv, TypeOK
    <2>2. ASSUME NEW t \in Threads, Reader(t) PROVE UNCHANGED proc
      BY <2>2, ReaderStores DEF ReaderFrame
    <2>3. CASE Writer
      <3>1. UNCHANGED proc
        BY <2>3 DEF Writer, WriterCall, WriterStep, WriterCrash, Reopen, Push, Append, Advance,
           WriteTest, NoteTs, Publish, CountRow, BlockPins, Drain, Defer, Recycle, ScanSlot,
           WriterJudge, WriterVerdict, WriterClear, ScanEnd, Seal, CountLost, BumpGeneration,
           ResetUsed, ResetRowCount, ResetTs, OpenChunk, Turn, LocalWrite, OnChunks, WriterFrame
      <3> QED
        BY <3>1
    <2>4. CASE UNCHANGED vars
      BY <2>4 DEF vars
    <2> QED
      BY <2>1, <2>2, <2>3, <2>4 DEF Next, Writer
  <1> QED
    BY <1>1 DEF PidReused

\* Exact counts in the terms of the property.
LEMMA ExactFromInv == LeaseInv => LeaseExact
  BY DEF LeaseInv, Counts, LeaseExact

(***************************************************************************)
(* Pins.                                                                   *)
(***************************************************************************)
ValidPcs  == {"regen", "extent", "pinned"}
Outside   == {"off", "idle", "retry"}
ScanPcs   == {"scan", "judge", "verdict", "clear"}
RecycPcs  == {"seal", "lost", "bump", "wipe", "zero", "unrange", "open"}

\* The ways a reader step may take its thread, as far as a pin is concerned.
SameLease(t, r) == /\ r.chunk = rd[t].chunk /\ r.slot = rd[t].slot
                   /\ r.gen = rd[t].gen /\ r.st = rd[t].st

Path(t, r) ==
    \/ r.pc \in {"idle", "retry"}
    \/ r.pc \notin ValidPcs /\ ((r.st = rd[t].st /\ rd[t].pc \notin Outside) \/ r.st # "Empty")
    \/ r.pc = "regen" /\ rd[t].pc = "recheck" /\ SameLease(t, r)
       /\ ch[rd[t].chunk].state = rd[t].st
    \/ r.pc = "extent" /\ rd[t].pc = "regen" /\ SameLease(t, r)
       /\ ch[rd[t].chunk].gen = rd[t].gen
    \/ r.pc = "pinned" /\ rd[t].pc = "extent" /\ SameLease(t, r)
       /\ r.used = ch[rd[t].chunk].used

\* Every step of a reader is one of them.
LEMMA ReaderPath ==
  ASSUME TypeInv, NEW t \in Threads, Reader(t)
  PROVE  Path(t, rd'[t])
  <1>0. rd[t] \in ReaderLocals
    BY ReaderHere
  <1>a. /\ Again(rd[t]).pc = "slot" /\ Again(rd[t]).st = rd[t].st
        /\ Skip(rd[t]).pc = "slot" /\ Skip(rd[t]).st = rd[t].st
        /\ Leased(rd[t]).pc = "recheck" /\ Leased(rd[t]).st = rd[t].st
        /\ Released(rd[t]).pc \in {"idle", "retry"} /\ IdleReader.pc = "idle"
    BY <1>0, LoopFacts DEF Again, Skip, Leased, ReaderLocals, IdleReader
  <1>1. ASSUME NEW c \in Chunks, PinBegin(t, c) PROVE Path(t, rd'[t])
    <2> DEFINE r == [rd[t] EXCEPT !.pc = "gen", !.chunk = c, !.st = ch[c].state, !.tries = 1]
    <2>1. rd'[t] = r /\ r.pc = "gen" /\ r.st = ch[c].state /\ ch[c].state # "Empty"
      BY <1>0, <1>1, MoveFacts DEF PinBegin, ReaderLocals
    <2> QED
      BY <2>1 DEF Path, ValidPcs
  <1>2. CASE PinRetry(t)
    <2> DEFINE r == [rd[t] EXCEPT !.pc = "gen", !.st = ch[rd[t].chunk].state, !.tries = @ + 1]
    <2>1. r.pc = "gen" /\ r.st = ch[rd[t].chunk].state
      BY <1>0 DEF ReaderLocals
    <2>2. rd'[t] = IdleReader \/ (rd'[t] = r /\ ch[rd[t].chunk].state # "Empty")
      BY <1>2, MoveFacts DEF PinRetry
    <2> HIDE DEF r
    <2> QED
      BY <1>a, <2>1, <2>2 DEF Path, ValidPcs
  <1>3. CASE LoadGen(t)
    <2> DEFINE r == [rd[t] EXCEPT !.pc = "slot", !.gen = ch[rd[t].chunk].gen, !.slot = 0]
    <2>1. rd'[t] = r /\ r.pc = "slot" /\ r.st = rd[t].st /\ rd[t].pc = "gen"
      BY <1>0, <1>3, MoveFacts DEF LoadGen, ReaderLocals
    <2> QED
      BY <2>1 DEF Path, ValidPcs, Outside
  <1>4. CASE Exhausted(t)
    BY <1>a, <1>4, MoveFacts DEF Exhausted, Path
  <1>5. CASE LoadSlot(t)
    <2> DEFINE pc == IF Slot(t).owner = Pid(t) /\ Slot(t).refs > 0 THEN "own"
                     ELSE IF Slot(t) = Free THEN "claim"
                     ELSE IF Slot(t).refs = 0 THEN "verdict"
                     ELSE "judge"
               r == [rd[t] EXCEPT !.word = Slot(t), !.pc = pc]
    <2>1. rd'[t] = r /\ r.pc = pc /\ r.st = rd[t].st /\ rd[t].pc = "slot"
      BY <1>0, <1>5, MoveFacts DEF LoadSlot, ReaderLocals
    <2>2. pc \in {"own", "claim", "verdict", "judge"}
      OBVIOUS
    <2> HIDE DEF pc, r
    <2> QED
      BY <2>1, <2>2 DEF Path, ValidPcs, Outside
  <1>6. CASE OwnStart(t) \/ Join(t) \/ Claim(t) \/ StampStart(t) \/ Confirm(t) \/ Clear(t)
    <2> DEFINE q(pc) == [rd[t] EXCEPT !.pc = pc]
    <2>1. \A pc : q(pc).pc = pc /\ q(pc).st = rd[t].st
      BY <1>0 DEF ReaderLocals
    <2>2. rd[t].pc \in {"own", "join", "claim", "stamp", "confirm", "clear"}
      BY <1>6 DEF OwnStart, Join, Claim, StampStart, Confirm, Clear
    <2>3. rd'[t] \in {q("join"), q("clear"), q("stamp"), q("confirm"),
                      Again(rd[t]), Skip(rd[t]), Leased(rd[t])}
      BY <1>6, MoveFacts DEF OwnStart, Join, Claim, StampStart, Confirm, Clear, MoveTo
    <2> HIDE DEF q
    <2> QED
      BY <1>a, <2>1, <2>2, <2>3 DEF Path, ValidPcs, Outside
  <1>7. CASE Judge(t) \/ Verdict(t)
    <2> DEFINE q == [rd[t] EXCEPT !.pc = "verdict",
                                  !.start = leaseStart[rd[t].chunk][rd[t].slot]]
               r == [rd[t] EXCEPT !.pc = "clear", !.start = 0]
    <2>1. q.pc = "verdict" /\ q.st = rd[t].st /\ r.pc = "clear" /\ r.st = rd[t].st
      BY <1>0 DEF ReaderLocals
    <2>2. rd[t].pc \in {"judge", "verdict"} /\ rd'[t] \in {q, r, Skip(rd[t])}
      BY <1>7, MoveFacts DEF Judge, Verdict
    <2> HIDE DEF q, r
    <2> QED
      BY <1>a, <2>1, <2>2 DEF Path, ValidPcs, Outside
  <1>8. CASE Recheck(t)
    <2> DEFINE q(pc) == [rd[t] EXCEPT !.pc = pc]
    <2>1. \A pc : q(pc).pc = pc /\ SameLease(t, q(pc))
      BY <1>0 DEF ReaderLocals, SameLease
    <2>2. /\ rd[t].pc = "recheck"
          /\ \/ rd'[t] = q("regen") /\ ch[rd[t].chunk].state = rd[t].st
             \/ rd'[t] = q("release")
      BY <1>8, MoveFacts DEF Recheck, MoveTo
    <2> HIDE DEF q
    <2> QED
      BY <2>1, <2>2 DEF Path, ValidPcs, Outside, SameLease
  <1>9. CASE Regen(t)
    <2> DEFINE q(pc) == [rd[t] EXCEPT !.pc = pc]
    <2>1. \A pc : q(pc).pc = pc /\ SameLease(t, q(pc))
      BY <1>0 DEF ReaderLocals, SameLease
    <2>2. /\ rd[t].pc = "regen"
          /\ \/ rd'[t] = q("extent") /\ ch[rd[t].chunk].gen = rd[t].gen
             \/ rd'[t] = q("release")
      BY <1>9, MoveFacts DEF Regen, MoveTo
    <2> HIDE DEF q
    <2> QED
      BY <2>1, <2>2 DEF Path, ValidPcs, Outside, SameLease
  <1>10. CASE Extent(t)
    <2> DEFINE q == [rd[t] EXCEPT !.pc = "release"]
               r == [rd[t] EXCEPT !.pc = "pinned", !.used = ch[rd[t].chunk].used]
    <2>1. /\ q.pc = "release" /\ q.st = rd[t].st
          /\ r.pc = "pinned" /\ SameLease(t, r) /\ r.used = ch[rd[t].chunk].used
      BY <1>0 DEF ReaderLocals, SameLease
    <2>2. rd[t].pc = "extent" /\ rd'[t] \in {q, r}
      BY <1>10, MoveFacts DEF Extent, MoveTo
    <2> HIDE DEF q, r
    <2> QED
      BY <2>1, <2>2 DEF Path, ValidPcs, Outside
  <1>11. CASE Unpin(t) \/ ReleaseLoad(t) \/ ReleaseDec(t)
    <2> DEFINE q == [rd[t] EXCEPT !.pc = "release", !.tries = PinTries]
               r == [rd[t] EXCEPT !.pc = "dec", !.word = Slot(t)]
               z == [rd[t] EXCEPT !.pc = "release", !.word = Free]
    <2>1. /\ q.pc = "release" /\ q.st = rd[t].st
          /\ r.pc = "dec" /\ r.st = rd[t].st
          /\ z.pc = "release" /\ z.st = rd[t].st
      BY <1>0 DEF ReaderLocals
    <2>2. /\ rd[t].pc \in {"pinned", "release", "dec"}
          /\ rd'[t] \in {q, r, z, Released(rd[t])}
      BY <1>11, MoveFacts DEF Unpin, ReleaseLoad, ReleaseDec
    <2> HIDE DEF q, r, z
    <2> QED
      BY <1>a, <2>1, <2>2 DEF Path, ValidPcs, Outside
  <1> QED
    BY <1>1, <1>2, <1>3, <1>4, <1>5, <1>6, <1>7, <1>8, <1>9, <1>10, <1>11 DEF Reader, Acquire

\* A reader step validates a lease only on a chunk the writer has not hidden.
LEMMA ReaderPins ==
  ASSUME TypeInv, PinInv, NEW t \in Threads, Reader(t), \A u \in Threads : u # t => rd'[u] = rd[u]
  PROVE  PinInv'
  <1>0. /\ Shown /\ Hidden /\ Drained /\ SameGen /\ PinnedStable /\ Path(t, rd'[t])
        /\ UNCHANGED <<ch, wc, wr>> /\ Tgt' = Tgt /\ rd[t] \in ReaderLocals
        /\ ch[rd[t].chunk] \in ChunkHeaders
    BY ReaderPath, ReaderStores, ReaderHere DEF PinInv, ReaderFrame, Tgt
  <1>1. Shown'
    <2>1. rd'[t].pc \notin Outside => rd'[t].st # "Empty"
      BY <1>0 DEF Path, Shown, Outside, SameLease
    <2> QED
      BY <1>0, <2>1 DEF Shown, Outside
  <1>2. Hidden'
    BY <1>0 DEF Hidden, Scanning, Recycling
  <1>3. rd'[t].pc \in ValidPcs =>
           /\ rd'[t].chunk = rd[t].chunk /\ rd'[t].slot = rd[t].slot
           /\ rd[t].pc \in ValidPcs \/ ch[rd[t].chunk].state # "Empty"
    BY <1>0 DEF Path, SameLease, Shown, ValidPcs
  <1>4. Drained'
    <2>1. ASSUME Scanning, ~wr.live, NEW u \in Threads, rd'[u].pc \in ValidPcs,
                 rd'[u].chunk = Tgt
          PROVE  wr.slot <= rd'[u].slot
      BY <1>0, <1>3, <2>1 DEF Drained, Valid, ValidPcs, Hidden
    <2>2. ASSUME Recycling, NEW u \in Threads, rd'[u].pc \in ValidPcs
          PROVE  rd'[u].chunk # Tgt
      BY <1>0, <1>3, <2>2 DEF Drained, Valid, ValidPcs, Hidden
    <2> QED
      BY <1>0, <2>1, <2>2 DEF Drained, Scanning, Recycling, Valid, ValidPcs
  <1>5. SameGen'
    <2>1. rd'[t].pc \in {"extent", "pinned"} => ch[rd'[t].chunk].gen = rd'[t].gen
      BY <1>0 DEF Path, SameLease, SameGen, ValidPcs
    <2> QED
      BY <1>0, <2>1 DEF SameGen
  <1>6. PinnedStable'
    <2>1. rd'[t].pc = "pinned" => /\ ch[rd'[t].chunk].gen = rd'[t].gen
                                  /\ rd'[t].used <= ch[rd'[t].chunk].used
      <3>1. rd'[t].pc = "pinned" => /\ rd'[t].used = ch[rd'[t].chunk].used
                                    /\ ch[rd'[t].chunk].used \in Nat
        BY <1>0, RingAssumption DEF Path, SameLease, ValidPcs, ChunkHeaders
      <3> QED
        BY <1>5, <1>0, <3>1 DEF SameGen
    <2> QED
      BY <1>0, <2>1 DEF PinnedStable
  <1> QED
    BY <1>1, <1>2, <1>4, <1>5, <1>6 DEF PinInv

\* The ways a writer step may take the writer, as far as a pin is concerned: out of the
\* advance, into the scan, along the scan, from the scan on, along the recycle.
WriterPath ==
    \/ /\ wr'.pc \notin ScanPcs \cup RecycPcs \cup {"defer"}
    \/ /\ wr.pc = "block" /\ wr'.pc = "scan" /\ wr'.slot = 0 /\ ch'[Tgt].state = "Empty"
       /\ wc' = wc
    \/ /\ wr.pc \in ScanPcs /\ wr'.pc \in ScanPcs /\ UNCHANGED <<ch, wc>>
       /\ \/ wr'.slot = wr.slot /\ wr'.live = wr.live
          \/ wr'.slot = 0
          \/ wr'.live = TRUE
          \/ /\ wr'.slot = wr.slot + 1 /\ wr'.live = wr.live /\ wr.slot \in Slots
             /\ \/ lease[Tgt][wr.slot] = Free
                \/ wr.pc = "clear" /\ lease[Tgt][wr.slot] = wr.word
    \/ /\ wr.pc = "scan" /\ wr.slot = LeaseSlots /\ UNCHANGED <<ch, wc>>
       /\ wr'.pc = "defer" \/ (wr'.pc = "seal" /\ ~wr.live)
    \/ /\ wr.pc \in RecycPcs /\ wr'.pc \in RecycPcs /\ wc' = wc
       /\ ch'[Tgt].state = ch[Tgt].state

\* A chunk that is not the one being recycled keeps its generation and its rows; so does
\* that one outside two of the steps.
Frozen ==
    \A c \in Chunks :
        /\ c # Tgt \/ wr.pc # "bump" => ch'[c].gen = ch[c].gen
        /\ c # Tgt \/ wr.pc # "wipe" => ch[c].used <= ch'[c].used

\* A store that keeps the generation and the extent of its chunk.
LEMMA PutFrozen ==
  ASSUME TypeInv, NEW c \in Chunks, NEW h, Put(c, h), h.gen = ch[c].gen,
         ch[c].used <= h.used
  PROVE  Frozen
  <1>1. \A d \in Chunks : ch[d].used \in Nat
    BY RingAssumption DEF TypeInv, TypeOK, ChunkHeaders
  <1> QED
    BY <1>1, PutFacts DEF Frozen

\* A step that stores to no header.
LEMMA SameFrozen ==
  ASSUME TypeInv, UNCHANGED ch
  PROVE  Frozen
  <1>1. \A d \in Chunks : ch[d].used \in Nat
    BY RingAssumption DEF TypeInv, TypeOK, ChunkHeaders
  <1> QED
    BY <1>1 DEF Frozen

\* Along the scan the writer passes free slots and cleared ones without a mark.
LEMMA ScanPath ==
  ASSUME TypeInv, Drain
  PROVE  WriterPath /\ Frozen
  <1>0. /\ wr \in WriterLocals /\ WriterRange(wr) /\ Tgt \in Chunks
        /\ wr.slot < LeaseSlots => wr.slot \in Slots
        /\ lease \in [Chunks -> [Slots -> Words]]
    BY WriterHere DEF TypeInv, TypeOK
  <1>1. UNCHANGED <<ch, wc>>
    BY DEF Drain, ScanSlot, WriterJudge, WriterVerdict, WriterClear, ScanEnd, LocalWrite, OnChunks
  <1>2. Frozen
    BY <1>1, SameFrozen
  <1>3. CASE ScanSlot
    <2>1. CASE lease[Tgt][wr.slot] = Free
      <3>1. /\ wr.pc = "scan" /\ wr'.pc = "scan" /\ wr'.slot = wr.slot + 1 /\ wr'.live = wr.live
            /\ wr.slot \in Slots
        BY <1>0, <1>3, <2>1 DEF ScanSlot, WriterLocals
      <3> QED
        BY <1>1, <1>2, <2>1, <3>1 DEF WriterPath, ScanPcs
    <2>2. CASE lease[Tgt][wr.slot] # Free
      <3>1. wr.pc = "scan" /\ wr'.pc = "judge" /\ wr'.slot = wr.slot /\ wr'.live = wr.live
        BY <1>0, <1>3, <2>2 DEF ScanSlot, WriterLocals
      <3> QED
        BY <1>1, <1>2, <3>1 DEF WriterPath, ScanPcs
    <2> QED
      BY <2>1, <2>2
  <1>4. CASE WriterJudge
    <2>1. wr.pc = "judge" /\ wr'.pc = "verdict" /\ wr'.slot = wr.slot /\ wr'.live = wr.live
      BY <1>0, <1>4 DEF WriterJudge, WriterLocals
    <2> QED
      BY <1>1, <1>2, <2>1 DEF WriterPath, ScanPcs
  <1>5. CASE WriterVerdict
    <2>1. /\ wr.pc = "verdict"
          /\ \/ wr'.pc = "scan" /\ wr'.live = TRUE
             \/ wr'.pc = "clear" /\ wr'.slot = wr.slot /\ wr'.live = wr.live
      BY <1>0, <1>5 DEF WriterVerdict, WriterLocals
    <2> QED
      BY <1>1, <1>2, <2>1 DEF WriterPath, ScanPcs
  <1>6. CASE WriterClear
    <2>1. wr.pc = "clear" /\ wr'.pc = "scan" /\ wr'.live = wr.live /\ wr.slot \in Slots
      BY <1>0, <1>6 DEF WriterClear, WriterLocals, WriterRange
    <2>2. CASE lease[Tgt][wr.slot] = wr.word
      <3>1. wr'.slot = wr.slot + 1
        BY <1>0, <1>6, <2>2 DEF WriterClear, WriterLocals
      <3> QED
        BY <1>1, <1>2, <2>1, <2>2, <3>1 DEF WriterPath, ScanPcs
    <2>3. CASE lease[Tgt][wr.slot] # wr.word
      <3>1. wr'.slot = wr.slot
        BY <1>0, <1>6, <2>3 DEF WriterClear, WriterLocals
      <3> QED
        BY <1>1, <1>2, <2>1, <3>1 DEF WriterPath, ScanPcs
    <2> QED
      BY <2>2, <2>3
  <1>7. CASE ScanEnd
    <2>0. wr.pc = "scan" /\ wr.slot = LeaseSlots
      BY <1>7 DEF ScanEnd
    <2> DEFINE again == [wr EXCEPT !.pass = NextPass, !.slot = 0, !.live = FALSE]
               defer == [wr EXCEPT !.pc = "defer"]
               seal  == [wr EXCEPT !.pc = "seal"]
    <2>1. wr' = again \/ wr' = defer \/ (wr' = seal /\ ~wr.live)
      BY <1>7 DEF ScanEnd
    <2>2. again.pc = wr.pc /\ again.slot = 0 /\ defer.pc = "defer" /\ seal.pc = "seal"
      BY <1>0 DEF WriterLocals
    <2> HIDE DEF again, defer, seal
    <2> QED
      BY <1>1, <1>2, <2>0, <2>1, <2>2 DEF WriterPath, ScanPcs
  <1> QED
    BY <1>3, <1>4, <1>5, <1>6, <1>7 DEF Drain

\* Along the recycle the chunk stays hidden; only two steps touch generation and extent.
LEMMA RecyclePath ==
  ASSUME TypeInv, Hidden, Recycle
  PROVE  WriterPath /\ Frozen
  <1>0. /\ wr \in WriterLocals /\ wc \in Chunks /\ Tgt \in Chunks
        /\ ch[wc] \in ChunkHeaders /\ ch[Tgt] \in ChunkHeaders
        /\ ch[Tgt].used \in Nat /\ ch[Tgt].used <= ch[Tgt].used
        /\ ch[wc].used \in Nat /\ ch[wc].used <= ch[wc].used
    BY WriterHere, RingAssumption DEF ChunkHeaders
  <1>a. IdleWriter.pc = "idle" /\ \A d \in Chunks : ch[d].used \in Nat
    BY RingAssumption DEF IdleWriter, TypeInv, TypeOK, ChunkHeaders
  <1>1. CASE Seal
    <2> DEFINE h == [ch[wc] EXCEPT !.state = IF wc # Tgt THEN "Sealed" ELSE @]
    <2>1. Put(wc, h) /\ wr.pc = "seal" /\ wr'.pc = "lost" /\ wc' = wc
      BY <1>0, <1>1, GotoPc DEF Seal, OnChunks
    <2>2. h.gen = ch[wc].gen /\ h.used = ch[wc].used /\ (wc = Tgt => h.state = ch[Tgt].state)
      BY <1>0 DEF ChunkHeaders
    <2> HIDE DEF h
    <2>3. ch'[Tgt].state = ch[Tgt].state
      BY <1>0, <2>1, <2>2, PutFacts
    <2> QED
      BY <1>0, <2>1, <2>2, <2>3, PutFrozen DEF WriterPath, RecycPcs
  <1>2. CASE CountLost
    <2>1. wr.pc = "lost" /\ wr'.pc = "bump" /\ UNCHANGED <<ch, wc>>
      BY <1>0, <1>2, GotoPc DEF CountLost
    <2> QED
      BY <2>1, SameFrozen DEF WriterPath, RecycPcs
  <1>3. CASE BumpGeneration
    <2> DEFINE h == [ch[Tgt] EXCEPT !.gen = @ + 1]
    <2>1. Put(Tgt, h) /\ wr.pc = "bump" /\ wr'.pc = "wipe" /\ wc' = wc
      BY <1>0, <1>3, GotoPc DEF BumpGeneration, OnChunks
    <2>2. h.used = ch[Tgt].used /\ h.state = ch[Tgt].state
      BY <1>0 DEF ChunkHeaders
    <2> HIDE DEF h
    <2>3. ch'[Tgt] = h /\ \A d \in Chunks : d # Tgt => ch'[d] = ch[d]
      BY <1>0, <2>1, PutFacts
    <2> QED
      BY <1>0, <1>a, <2>1, <2>2, <2>3 DEF WriterPath, RecycPcs, Frozen
  <1>4. CASE ResetUsed
    <2> DEFINE h == [ch[Tgt] EXCEPT !.used = 0, !.visible = {}]
    <2>1. Put(Tgt, h) /\ wr.pc = "wipe" /\ wr'.pc = "zero" /\ wc' = wc
      BY <1>0, <1>4, GotoPc DEF ResetUsed, OnChunks
    <2>2. h.gen = ch[Tgt].gen /\ h.state = ch[Tgt].state
      BY <1>0 DEF ChunkHeaders
    <2> HIDE DEF h
    <2>3. ch'[Tgt] = h /\ \A d \in Chunks : d # Tgt => ch'[d] = ch[d]
      BY <1>0, <2>1, PutFacts
    <2> QED
      BY <1>0, <1>a, <2>1, <2>2, <2>3 DEF WriterPath, RecycPcs, Frozen
  <1>5. CASE ResetRowCount
    <2> DEFINE h == [ch[Tgt] EXCEPT !.rows = 0]
    <2>1. Put(Tgt, h) /\ wr.pc = "zero" /\ wr'.pc = "unrange" /\ wc' = wc
      BY <1>0, <1>5, GotoPc DEF ResetRowCount, OnChunks
    <2>2. h.gen = ch[Tgt].gen /\ h.used = ch[Tgt].used /\ h.state = ch[Tgt].state
      BY <1>0 DEF ChunkHeaders
    <2> HIDE DEF h
    <2> QED
      BY <1>0, <2>1, <2>2, PutFacts, PutFrozen DEF WriterPath, RecycPcs
  <1>6. CASE ResetTs
    <2> DEFINE h == [ch[Tgt] EXCEPT !.min = TsMinInit, !.max = TsMaxInit]
    <2>1. Put(Tgt, h) /\ wr.pc = "unrange" /\ wr'.pc = "open" /\ wc' = wc
      BY <1>0, <1>6, GotoPc DEF ResetTs, OnChunks
    <2>2. h.gen = ch[Tgt].gen /\ h.used = ch[Tgt].used /\ h.state = ch[Tgt].state
      BY <1>0 DEF ChunkHeaders
    <2> HIDE DEF h
    <2> QED
      BY <1>0, <2>1, <2>2, PutFacts, PutFrozen DEF WriterPath, RecycPcs
  <1>7. CASE OpenChunk
    <2> DEFINE h == [ch[Tgt] EXCEPT !.state = "Writing"]
    <2>1. Put(Tgt, h) /\ wr'.pc = "turn"
      BY <1>0, <1>7, GotoPc DEF OpenChunk
    <2>2. h.gen = ch[Tgt].gen /\ h.used = ch[Tgt].used
      BY <1>0 DEF ChunkHeaders
    <2> HIDE DEF h
    <2> QED
      BY <1>0, <2>1, <2>2, PutFrozen DEF WriterPath, RecycPcs, ScanPcs
  <1>8. CASE Turn
    <2>1. UNCHANGED ch /\ wr'.pc \in {"write", "idle"}
      BY <1>a, <1>8 DEF Turn, IdleWriter
    <2> QED
      BY <2>1, SameFrozen DEF WriterPath, RecycPcs, ScanPcs
  <1> QED
    BY <1>1, <1>2, <1>3, <1>4, <1>5, <1>6, <1>7, <1>8 DEF Recycle

\* Every step of the writer takes one of the paths.
LEMMA AnyWriterPath ==
  ASSUME TypeInv, Hidden, Writer
  PROVE  WriterPath /\ Frozen
  <1>0. /\ wr \in WriterLocals /\ wc \in Chunks /\ Tgt \in Chunks
        /\ ch[wc] \in ChunkHeaders /\ ch[Tgt] \in ChunkHeaders
        /\ ch[Tgt].used \in Nat /\ ch[wc].used \in Nat /\ wr.row.len \in Nat
    BY WriterHere, RingAssumption DEF ChunkHeaders
  <1>a. IdleWriter.pc = "idle"
    BY DEF IdleWriter
  <1> DEFINE Calm == {"idle", "down", "write", "note", "publish", "count", "block"}
  <1>b. wr'.pc \in Calm => WriterPath
    BY DEF WriterPath, ScanPcs, RecycPcs
  <1>1. CASE WriterCall \/ WriterCrash \/ Reopen
    <2>1. UNCHANGED ch /\ wr'.pc \in Calm
      BY <1>1, IdleWriterType
         DEF WriterCall, Push, Append, Advance, WriterCrash, Reopen, LocalWrite, WriterLocals
    <2> QED
      BY <1>b, <2>1, SameFrozen
  <1>2. CASE WriteTest
    <2>1. UNCHANGED ch /\ wr'.pc \in Calm
      BY <1>0, <1>a, <1>2 DEF WriteTest, LocalWrite, WriterLocals
    <2> QED
      BY <1>b, <2>1, SameFrozen
  <1>3. CASE NoteTs
    <2> DEFINE h == [ch[wc] EXCEPT !.min = IF wr.row.ts < @ THEN wr.row.ts ELSE @,
                                   !.max = IF wr.row.ts > @ THEN wr.row.ts ELSE @]
    <2>1. Put(wc, h) /\ wr'.pc \in Calm
      BY <1>0, <1>3, GotoPc DEF NoteTs
    <2>2. h.gen = ch[wc].gen /\ h.used = ch[wc].used
      BY <1>0 DEF ChunkHeaders
    <2> HIDE DEF h
    <2> QED
      BY <1>0, <1>b, <2>1, <2>2, PutFrozen
  <1>4. CASE Publish
    <2> DEFINE h == [ch[wc] EXCEPT !.used = @ + wr.row.len, !.visible = @ \cup {wr.row.ts}]
    <2>1. Put(wc, h) /\ wr'.pc \in Calm
      BY <1>0, <1>4, GotoPc DEF Publish
    <2>2. h.gen = ch[wc].gen /\ h.used = ch[wc].used + wr.row.len
      BY <1>0 DEF ChunkHeaders
    <2> HIDE DEF h
    <2>3. ch[wc].used <= h.used
      BY <1>0, <2>2
    <2> QED
      BY <1>0, <1>b, <2>1, <2>2, <2>3, PutFrozen
  <1>5. CASE CountRow
    <2> DEFINE h == [ch[wc] EXCEPT !.rows = @ + 1]
    <2>1. Put(wc, h) /\ wr'.pc \in Calm
      BY <1>a, <1>5 DEF CountRow
    <2>2. h.gen = ch[wc].gen /\ h.used = ch[wc].used
      BY <1>0 DEF ChunkHeaders
    <2> HIDE DEF h
    <2> QED
      BY <1>0, <1>b, <2>1, <2>2, PutFrozen
  <1>6. CASE BlockPins
    <2> DEFINE h == [ch[Tgt] EXCEPT !.state = "Empty"]
    <2>1. /\ Put(Tgt, h) /\ wr.pc = "block" /\ wr'.pc = "scan" /\ wr'.slot = 0 /\ wc' = wc
      BY <1>0, <1>6 DEF BlockPins, WriterLocals, OnChunks
    <2>2. h.gen = ch[Tgt].gen /\ h.used = ch[Tgt].used /\ h.state = "Empty"
      BY <1>0 DEF ChunkHeaders
    <2> HIDE DEF h
    <2> QED
      BY <1>0, <2>1, <2>2, PutFacts, PutFrozen DEF WriterPath
  <1>7. CASE Defer
    <2> DEFINE h == [ch[Tgt] EXCEPT !.state = wr.prev]
    <2>1. Put(Tgt, h) /\ wr'.pc \in Calm
      BY <1>a, <1>7 DEF Defer
    <2>2. h.gen = ch[Tgt].gen /\ h.used = ch[Tgt].used
      BY <1>0 DEF ChunkHeaders
    <2> HIDE DEF h
    <2> QED
      BY <1>0, <1>b, <2>1, <2>2, PutFrozen
  <1> QED
    BY <1>1, <1>2, <1>3, <1>4, <1>5, <1>6, <1>7, ScanPath, RecyclePath DEF Writer, WriterStep

\* A writer step moves nothing under a valid lease.
LEMMA WriterPins ==
  ASSUME TypeInv, LeaseInv, Verdicts, PinInv, Writer
  PROVE  PinInv'
  <1>0. /\ Shown /\ Hidden /\ Drained /\ SameGen /\ PinnedStable
        /\ Alive /\ Claims /\ Counts
    BY DEF PinInv, LeaseInv
  <1>1. WriterPath /\ Frozen /\ UNCHANGED rd
    BY <1>0, AnyWriterPath, WriterLeases
  <1>2. Shown'
    BY <1>0, <1>1 DEF Shown
  <1>3. wc' = wc => Tgt' = Tgt
    BY DEF Tgt
  <1>4. Hidden'
    BY <1>0, <1>1, <1>3 DEF WriterPath, Hidden, Scanning, Recycling, ScanPcs, RecycPcs
  <1>5. \A t \in Threads : Valid(t) =>
           rd[t].chunk \in Chunks /\ rd[t].slot \in Slots /\ rd[t].slot \in Nat /\ Holding(t)
    <2> SUFFICES ASSUME NEW t \in Threads, Valid(t)
                 PROVE  /\ rd[t].chunk \in Chunks /\ rd[t].slot \in Slots /\ rd[t].slot \in Nat
                        /\ Holding(t)
      OBVIOUS
    <2>1. Holding(t)
      BY DEF Valid, Holding
    <2> QED
      BY <2>1, PlaceOK DEF Slots
  <1>6. Drained'
    <2>1. ASSUME wr'.pc \in ScanPcs, ~wr'.live, NEW t \in Threads, Valid(t),
                 rd[t].chunk = Tgt, wc' = wc
          PROVE  wr'.slot <= rd[t].slot
      <3>0. rd[t].slot \in Nat /\ wr.slot \in Nat
        BY <1>5, <2>1, WriterHere, RingAssumption DEF WriterLocals
      <3>1. CASE wr'.slot = 0
        BY <3>0, <3>1
      <3>2. CASE wr.pc \in ScanPcs /\ wr'.slot = wr.slot /\ wr'.live = wr.live
        BY <1>0, <2>1, <3>2 DEF Drained, Scanning, ScanPcs
      <3>3. CASE /\ wr.pc \in ScanPcs /\ wr'.slot = wr.slot + 1 /\ wr'.live = wr.live
                 /\ wr.slot \in Slots
                 /\ \/ lease[Tgt][wr.slot] = Free
                    \/ wr.pc = "clear" /\ lease[Tgt][wr.slot] = wr.word
        <4>0. Up(lease[Tgt][wr.slot].owner) = {}
          BY <3>3, NobodyZero DEF Verdicts, Free, Word
        <4>1. wr.slot <= rd[t].slot
          BY <1>0, <2>1, <3>3 DEF Drained, Scanning, ScanPcs
        <4>2. Holders(Tgt, wr.slot) = {}
          BY <1>0, <3>3, <4>0, WriterHere, NobodyThere
        <4>3. rd[t].slot # wr.slot
          BY <1>5, <2>1, <4>2 DEF Holders
        <4> QED
          BY <3>0, <3>3, <4>1, <4>3
      <3> QED
        BY <1>1, <2>1, <3>1, <3>2, <3>3 DEF WriterPath, ScanPcs, RecycPcs
    <2>2. ASSUME wr'.pc \in RecycPcs, NEW t \in Threads, Valid(t) PROVE rd[t].chunk # Tgt
      <3>1. CASE wr.pc \in RecycPcs
        BY <1>0, <2>2, <3>1 DEF Drained, Recycling, RecycPcs
      <3>2. CASE wr.pc = "scan" /\ wr.slot = LeaseSlots /\ ~wr.live
        <4>1. rd[t].chunk = Tgt => LeaseSlots <= rd[t].slot
          BY <1>0, <2>2, <3>2 DEF Drained, Scanning
        <4>2. rd[t].slot < LeaseSlots /\ rd[t].slot \in Nat
          BY <1>5, <2>2, PlaceOK
        <4> QED
          BY <4>1, <4>2, RingAssumption
      <3> QED
        BY <1>1, <2>2, <3>1, <3>2 DEF WriterPath, ScanPcs, RecycPcs
    <2>3. wr'.pc \in ScanPcs \cup RecycPcs => wc' = wc
      BY <1>1 DEF WriterPath, ScanPcs, RecycPcs
    <2> QED
      BY <1>1, <1>3, <2>1, <2>2, <2>3
         DEF Drained, Scanning, Recycling, ScanPcs, RecycPcs, Valid
  <1>7. \A t \in Threads : Valid(t) => /\ ch'[rd[t].chunk].gen = ch[rd[t].chunk].gen
                                       /\ ch[rd[t].chunk].used <= ch'[rd[t].chunk].used
    <2>1. \A t \in Threads : Valid(t) /\ wr.pc \in {"bump", "wipe"} => rd[t].chunk # Tgt
      BY <1>0 DEF Drained, Recycling
    <2> QED
      BY <1>1, <1>5, <2>1 DEF Frozen
  <1>8. SameGen'
    BY <1>0, <1>1, <1>7 DEF SameGen, Valid
  <1>9. PinnedStable'
    <2> SUFFICES ASSUME NEW t \in Threads, rd[t].pc = "pinned"
                 PROVE  /\ ch'[rd[t].chunk].gen = rd[t].gen
                        /\ rd[t].used <= ch'[rd[t].chunk].used
      BY <1>1 DEF PinnedStable
    <2>1. Valid(t) /\ ch[rd[t].chunk].gen = rd[t].gen /\ rd[t].used <= ch[rd[t].chunk].used
      BY <1>0 DEF Valid, PinnedStable
    <2>2. rd[t].used \in Nat /\ ch[rd[t].chunk].used \in Nat /\ ch'[rd[t].chunk].used \in Nat
      <3>1. TypeInv'
        BY NextType DEF Next, Writer
      <3>2. rd[t] \in ReaderLocals /\ rd[t].chunk \in Chunks
        BY ReaderHere DEF ReaderLocals
      <3>3. ch[rd[t].chunk] \in ChunkHeaders /\ ch'[rd[t].chunk] \in ChunkHeaders
        BY <3>1, <3>2 DEF TypeInv, TypeOK
      <3> QED
        BY <3>2, <3>3, RingAssumption DEF ReaderLocals, ChunkHeaders
    <2> QED
      BY <1>7, <2>1, <2>2
  <1> QED
    BY <1>2, <1>4, <1>6, <1>8, <1>9 DEF PinInv

\* No thread has a pin yet.
LEMMA InitPins == Init => PinInv
  <1> SUFFICES ASSUME Init PROVE PinInv
    OBVIOUS
  <1>1. /\ \A t \in Threads : rd[t].pc \in {"idle", "off"}
        /\ wr.pc = "idle"
    BY DEF Init, IdleReader, OffReader, IdleWriter
  <1> QED
    BY <1>1 DEF PinInv, Shown, Hidden, Drained, SameGen, PinnedStable, Scanning, Recycling, Valid

\* Every step keeps pins stable, given that verdicts are right.
LEMMA NextPins ==
  ASSUME TypeInv, LeaseInv, Verdicts, PinInv, [Next]_vars
  PROVE  PinInv'
  <1>1. ASSUME NEW p \in Procs, Spawn(p) \/ Die(p) PROVE PinInv'
    <2>1. UNCHANGED <<ch, wc, wr>> /\ Tgt' = Tgt
      BY <1>1 DEF Spawn, Die, Tgt
    <2>2. \A t \in Threads : rd'[t] = rd[t] \/ rd'[t].pc \in {"idle", "off"}
      BY <1>1 DEF Spawn, Die, IdleReader, OffReader
    <2> QED
      BY <2>1, <2>2 DEF PinInv, Shown, Hidden, Drained, SameGen, PinnedStable, Scanning,
         Recycling, Valid
  <1>2. ASSUME NEW t \in Threads, Reader(t) PROVE PinInv'
    <2>1. \A u \in Threads : u # t => rd'[u] = rd[u]
      BY <1>2, ReaderWords DEF LeaseInv
    <2> QED
      BY <1>2, <2>1, ReaderPins
  <1>3. CASE UNCHANGED vars
    BY <1>3 DEF vars, PinInv, Shown, Hidden, Drained, SameGen, PinnedStable, Scanning,
       Recycling, Valid, Tgt
  <1> QED
    BY <1>1, <1>2, <1>3, WriterPins DEF Next, Writer

(***************************************************************************)
(* Sealed chunks.  What protects one is that the writer puts rows only     *)
(* into its write chunk, which is not sealed until a recycle is decided,   *)
(* and resets only a chunk it has hidden.                                  *)
(***************************************************************************)
\* From the store of `Sealed' to that of write_chunk.
SealPcs == {"lost", "bump", "wipe", "zero", "unrange", "open", "turn"}

\* The write chunk of a writer that never crashed, and what a deferred recycle restores.
OpenWrite ==
    crashes = 0 =>
        /\ wr.pc \notin SealPcs => ch[wc].state # "Sealed"
        /\ wr.pc \in ScanPcs \cup {"defer"} /\ Tgt = wc => wr.prev # "Sealed"

SealInv == Hidden /\ OpenWrite /\ (wr.pc = "turn" => ch[Tgt].state = "Writing")

\* What a writer step does to the rows of a chunk: appends to the write chunk, resets a
\* hidden one.
SealedHere ==
    \A c \in Chunks : ch[c].state = "Sealed" /\ (crashes = 0 \/ c # wc) =>
        ch'[c].used = ch[c].used /\ ch'[c].rows = ch[c].rows /\ ch'[c].gen = ch[c].gen

\* A store that keeps the rows, the extent and the generation of its chunk.
LEMMA PutSealed ==
  ASSUME TypeInv, NEW c \in Chunks, NEW h, Put(c, h),
         ch[c].state = "Sealed" /\ (crashes = 0 \/ c # wc) =>
            h.gen = ch[c].gen /\ h.used = ch[c].used /\ h.rows = ch[c].rows
  PROVE  SealedHere
  BY PutFacts DEF SealedHere

\* The steps of an append keep the write chunk open.
LEMMA AppendSealed ==
  ASSUME TypeInv, SealInv, NoteTs \/ Publish \/ CountRow
  PROVE  SealInv' /\ SealedHere
  <1>0. /\ wr \in WriterLocals /\ wc \in Chunks /\ ch[wc] \in ChunkHeaders
    BY WriterHere
  <1>a. wr.pc \in {"note", "publish", "count"} /\ UNCHANGED <<wc, crashes>>
    BY DEF NoteTs, Publish, CountRow, OnChunks
  <1>b. IdleWriter.pc = "idle"
    BY DEF IdleWriter
  <1>1. crashes = 0 => ch[wc].state # "Sealed"
    BY <1>a DEF SealInv, OpenWrite, SealPcs
  <1> DEFINE h1 == [ch[wc] EXCEPT !.min = IF wr.row.ts < @ THEN wr.row.ts ELSE @,
                                  !.max = IF wr.row.ts > @ THEN wr.row.ts ELSE @]
             h2 == [ch[wc] EXCEPT !.used = @ + wr.row.len, !.visible = @ \cup {wr.row.ts}]
             h3 == [ch[wc] EXCEPT !.rows = @ + 1]
  <1>2. h1.state = ch[wc].state /\ h2.state = ch[wc].state /\ h3.state = ch[wc].state
    BY <1>0 DEF ChunkHeaders
  <1>3. Put(wc, h1) \/ Put(wc, h2) \/ Put(wc, h3)
    BY DEF NoteTs, Publish, CountRow
  <1>4. wr'.pc \in {"publish", "count", "idle"}
    BY <1>0, <1>b, GotoPc DEF NoteTs, Publish, CountRow
  <1> HIDE DEF h1, h2, h3
  <1>5. PICK h : Put(wc, h) /\ h.state = ch[wc].state
    BY <1>2, <1>3
  <1>6. ch'[wc].state = ch[wc].state
    BY <1>0, <1>5, PutFacts
  <1>7. SealedHere
    BY <1>0, <1>1, <1>5, PutSealed
  <1>8. SealInv'
    BY <1>1, <1>4, <1>6, <1>a
       DEF SealInv, Hidden, Scanning, Recycling, OpenWrite, ScanPcs, SealPcs
  <1> QED
    BY <1>7, <1>8

\* Hiding the chunk and giving up restore what was there.
LEMMA HideSealed ==
  ASSUME TypeInv, SealInv, BlockPins \/ Defer
  PROVE  SealInv' /\ SealedHere
  <1>0. /\ wr \in WriterLocals /\ wc \in Chunks /\ Tgt \in Chunks /\ ch[Tgt] \in ChunkHeaders
    BY WriterHere
  <1>a. UNCHANGED <<wc, crashes>> /\ Tgt' = Tgt
    BY DEF BlockPins, Defer, OnChunks, Tgt
  <1>b. IdleWriter.pc = "idle"
    BY DEF IdleWriter
  <1>1. CASE BlockPins
    <2> DEFINE h == [ch[Tgt] EXCEPT !.state = "Empty"]
    <2>1. /\ Put(Tgt, h) /\ wr.pc = "block" /\ wr'.pc = "scan" /\ wr'.prev = ch[Tgt].state
      BY <1>0, <1>1 DEF BlockPins, WriterLocals
    <2>2. h.state = "Empty" /\ h.gen = ch[Tgt].gen /\ h.used = ch[Tgt].used /\ h.rows = ch[Tgt].rows
      BY <1>0 DEF ChunkHeaders
    <2> HIDE DEF h
    <2>3. ch'[Tgt].state = "Empty" /\ \A d \in Chunks : d # Tgt => ch'[d] = ch[d]
      BY <1>0, <2>1, <2>2, PutFacts
    <2>4. SealedHere
      BY <1>0, <2>1, <2>2, PutSealed
    <2>5. crashes = 0 => ch[wc].state # "Sealed"
      BY <2>1 DEF SealInv, OpenWrite, SealPcs
    <2>6. OpenWrite'
      BY <1>0, <1>a, <2>1, <2>3, <2>5 DEF OpenWrite
    <2> QED
      BY <1>a, <2>1, <2>3, <2>4, <2>6 DEF SealInv, Hidden
  <1>2. CASE Defer
    <2> DEFINE h == [ch[Tgt] EXCEPT !.state = wr.prev]
    <2>1. Put(Tgt, h) /\ wr.pc = "defer" /\ wr'.pc = "idle"
      BY <1>b, <1>2 DEF Defer
    <2>2. h.state = wr.prev /\ h.gen = ch[Tgt].gen /\ h.used = ch[Tgt].used /\ h.rows = ch[Tgt].rows
      BY <1>0 DEF ChunkHeaders
    <2> HIDE DEF h
    <2>3. ch'[Tgt].state = wr.prev /\ \A d \in Chunks : d # Tgt => ch'[d] = ch[d]
      BY <1>0, <2>1, <2>2, PutFacts
    <2>4. SealedHere
      BY <1>0, <2>1, <2>2, PutSealed
    <2>5. crashes = 0 => ch'[wc].state # "Sealed"
      BY <1>0, <2>1, <2>3 DEF SealInv, OpenWrite, SealPcs, ScanPcs
    <2> QED
      BY <1>a, <2>1, <2>4, <2>5 DEF SealInv, Hidden, Scanning, Recycling, OpenWrite, ScanPcs
  <1> QED
    BY <1>1, <1>2

\* Steps that store to no header and stay where the write chunk is open.
LEMMA StillSealed ==
  ASSUME TypeInv, SealInv, UNCHANGED <<ch, wc>>, crashes' # 0 \/ crashes' = crashes,
         \/ wr.pc \notin SealPcs /\ wr'.pc \notin SealPcs \cup ScanPcs \cup {"defer", "seal"}
         \/ crashes' # 0 /\ wr'.pc = "down"
         \/ wr.pc \in ScanPcs /\ wr'.pc \in ScanPcs \cup {"defer", "seal"} /\ wr'.prev = wr.prev
         \/ wr.pc = "lost" /\ wr'.pc = "bump"
  PROVE  SealInv' /\ SealedHere
  <1>1. SealedHere /\ Tgt' = Tgt
    BY DEF SealedHere, Tgt
  <1>2. Hidden' /\ (wr'.pc = "turn" => ch'[Tgt'].state = "Writing")
    BY <1>1 DEF SealInv, Hidden, Scanning, Recycling, SealPcs, ScanPcs
  <1>3. OpenWrite'
    BY <1>1 DEF SealInv, OpenWrite, SealPcs, ScanPcs
  <1> QED
    BY <1>1, <1>2, <1>3 DEF SealInv

\* The scan for leases stores to no header.
LEMMA DrainSealed ==
  ASSUME TypeInv, SealInv, Drain
  PROVE  SealInv' /\ SealedHere
  <1>0. wr \in WriterLocals
    BY WriterHere
  <1>1. UNCHANGED <<ch, wc, crashes>> /\ wr.pc \in ScanPcs
    BY DEF Drain, ScanSlot, WriterJudge, WriterVerdict, WriterClear, ScanEnd, LocalWrite,
       OnChunks, ScanPcs
  <1>2. wr'.pc \in ScanPcs \cup {"defer", "seal"} /\ wr'.prev = wr.prev
    <2>1. CASE ScanSlot \/ WriterJudge \/ WriterVerdict \/ WriterClear
      BY <1>0, <2>1 DEF ScanSlot, WriterJudge, WriterVerdict, WriterClear, WriterLocals, ScanPcs
    <2>2. CASE ScanEnd
      <3> DEFINE again == [wr EXCEPT !.pass = NextPass, !.slot = 0, !.live = FALSE]
                 defer == [wr EXCEPT !.pc = "defer"]
                 seal  == [wr EXCEPT !.pc = "seal"]
      <3>1. wr' = again \/ wr' = defer \/ wr' = seal
        BY <2>2 DEF ScanEnd
      <3>2. /\ again.pc = wr.pc /\ again.prev = wr.prev /\ defer.pc = "defer"
            /\ defer.prev = wr.prev /\ seal.pc = "seal" /\ seal.prev = wr.prev
        BY <1>0 DEF WriterLocals
      <3> HIDE DEF again, defer, seal
      <3> QED
        BY <1>1, <3>1, <3>2
    <2> QED
      BY <2>1, <2>2 DEF Drain
  <1> QED
    BY <1>1, <1>2, StillSealed

\* The recycle seals the write chunk and resets the hidden one.
LEMMA RecycleSealed ==
  ASSUME TypeInv, SealInv, Recycle
  PROVE  SealInv' /\ SealedHere
  <1>0. /\ wr \in WriterLocals /\ wc \in Chunks /\ Tgt \in Chunks
        /\ ch[wc] \in ChunkHeaders /\ ch[Tgt] \in ChunkHeaders
    BY WriterHere
  <1>a. IdleWriter.pc = "idle" /\ (wc' = wc => Tgt' = Tgt)
    BY DEF IdleWriter, Tgt
  <1>1. CASE Seal
    <2> DEFINE h == [ch[wc] EXCEPT !.state = IF wc # Tgt THEN "Sealed" ELSE @]
    <2>1. Put(wc, h) /\ wr.pc = "seal" /\ wr'.pc = "lost" /\ UNCHANGED <<wc, crashes>>
      BY <1>0, <1>1, GotoPc DEF Seal, OnChunks
    <2>2. /\ h.gen = ch[wc].gen /\ h.used = ch[wc].used /\ h.rows = ch[wc].rows
          /\ wc = Tgt => h.state = ch[Tgt].state
      BY <1>0 DEF ChunkHeaders
    <2> HIDE DEF h
    <2>3. ch'[Tgt].state = ch[Tgt].state
      BY <1>0, <2>1, <2>2, PutFacts
    <2>4. SealedHere
      BY <1>0, <2>1, <2>2, PutSealed
    <2> QED
      BY <1>a, <2>1, <2>3, <2>4
         DEF SealInv, Hidden, Scanning, Recycling, OpenWrite, SealPcs, ScanPcs
  <1>2. CASE CountLost
    <2>1. wr.pc = "lost" /\ wr'.pc = "bump" /\ UNCHANGED <<ch, wc, crashes>>
      BY <1>0, <1>2, GotoPc DEF CountLost
    <2> QED
      BY <2>1, StillSealed
  <1>3. CASE BumpGeneration \/ ResetUsed \/ ResetRowCount \/ ResetTs
    <2> DEFINE h1 == [ch[Tgt] EXCEPT !.gen = @ + 1]
               h2 == [ch[Tgt] EXCEPT !.used = 0, !.visible = {}]
               h3 == [ch[Tgt] EXCEPT !.rows = 0]
               h4 == [ch[Tgt] EXCEPT !.min = TsMinInit, !.max = TsMaxInit]
    <2>1. /\ h1.state = ch[Tgt].state /\ h2.state = ch[Tgt].state
          /\ h3.state = ch[Tgt].state /\ h4.state = ch[Tgt].state
      BY <1>0 DEF ChunkHeaders
    <2>2. Put(Tgt, h1) \/ Put(Tgt, h2) \/ Put(Tgt, h3) \/ Put(Tgt, h4)
      BY <1>3 DEF BumpGeneration, ResetUsed, ResetRowCount, ResetTs
    <2>3. /\ wr.pc \in {"bump", "wipe", "zero", "unrange"} /\ UNCHANGED <<wc, crashes>>
          /\ wr'.pc \in {"wipe", "zero", "unrange", "open"}
      BY <1>0, <1>3, GotoPc DEF BumpGeneration, ResetUsed, ResetRowCount, ResetTs, OnChunks
    <2> HIDE DEF h1, h2, h3, h4
    <2>4. PICK h : Put(Tgt, h) /\ h.state = ch[Tgt].state
      BY <2>1, <2>2
    <2>5. ch'[Tgt].state = ch[Tgt].state /\ ch[Tgt].state = "Empty"
      BY <1>0, <2>3, <2>4, PutFacts DEF SealInv, Hidden, Recycling
    <2>6. SealedHere
      BY <1>0, <2>4, <2>5, PutSealed
    <2> QED
      BY <1>a, <2>3, <2>5, <2>6
         DEF SealInv, Hidden, Scanning, Recycling, OpenWrite, SealPcs, ScanPcs
  <1>4. CASE OpenChunk
    <2> DEFINE h == [ch[Tgt] EXCEPT !.state = "Writing"]
    <2>1. Put(Tgt, h) /\ wr'.pc = "turn" /\ UNCHANGED <<wc, crashes>>
      BY <1>0, <1>4, GotoPc DEF OpenChunk, OnChunks
    <2>2. /\ h.state = "Writing"
          /\ h.gen = ch[Tgt].gen /\ h.used = ch[Tgt].used /\ h.rows = ch[Tgt].rows
      BY <1>0 DEF ChunkHeaders
    <2> HIDE DEF h
    <2>3. ch'[Tgt].state = "Writing" /\ SealedHere
      BY <1>0, <2>1, <2>2, PutFacts, PutSealed
    <2> QED
      BY <1>a, <2>1, <2>3
         DEF SealInv, Hidden, Scanning, Recycling, OpenWrite, SealPcs, ScanPcs
  <1>5. CASE Turn
    <2>1. /\ UNCHANGED <<ch, crashes>> /\ wr'.pc \in {"write", "idle"} /\ wc' = Tgt
          /\ ch[Tgt].state = "Writing"
      BY <1>a, <1>5 DEF Turn, IdleWriter, SealInv
    <2>2. SealedHere
      BY <2>1 DEF SealedHere
    <2>3. ch'[wc'].state # "Sealed"
      BY <2>1
    <2> QED
      BY <2>1, <2>2, <2>3 DEF SealInv, Hidden, Scanning, Recycling, OpenWrite, ScanPcs
  <1> QED
    BY <1>1, <1>2, <1>3, <1>4, <1>5 DEF Recycle

\* Every step leaves sealed chunks as they are.
LEMMA NextSealed ==
  ASSUME TypeInv, SealInv, [Next]_vars
  PROVE  SealInv' /\ SealedHere
  <1>0. wr \in WriterLocals /\ IdleWriter.pc = "idle" /\ crashes \in Nat
    BY WriterHere DEF IdleWriter, TypeInv, TypeOK
  <1>1. ASSUME UNCHANGED <<ch, wc, wr, crashes>> PROVE SealInv' /\ SealedHere
    <2>1. Tgt' = Tgt
      BY <1>1 DEF Tgt
    <2> QED
      BY <1>1, <2>1 DEF SealInv, Hidden, Scanning, Recycling, OpenWrite, SealedHere
  <1>2. ASSUME NEW p \in Procs, Spawn(p) \/ Die(p) PROVE SealInv' /\ SealedHere
    BY <1>1, <1>2 DEF Spawn, Die
  <1>3. ASSUME NEW t \in Threads, Reader(t) PROVE SealInv' /\ SealedHere
    BY <1>1, <1>3, ReaderStores DEF ReaderFrame
  <1>4. CASE WriterCall
    <2>1. UNCHANGED <<ch, wc, crashes>> /\ wr.pc = "idle" /\ wr'.pc \in {"write", "block"}
      BY <1>4, IdleWriterType
         DEF WriterCall, Push, Append, Advance, LocalWrite, OnChunks, WriterLocals
    <2> QED
      BY <2>1, StillSealed DEF SealPcs, ScanPcs
  <1>5. CASE WriteTest
    <2>1. UNCHANGED <<ch, wc, crashes>> /\ wr.pc = "write" /\ wr'.pc \in {"note", "block", "idle"}
      BY <1>0, <1>5 DEF WriteTest, LocalWrite, OnChunks, WriterLocals
    <2> QED
      BY <2>1, StillSealed DEF SealPcs, ScanPcs
  <1>6. CASE WriterCrash
    <2>1. UNCHANGED <<ch, wc>> /\ crashes' # 0 /\ wr'.pc = "down"
      BY <1>0, <1>6, IdleWriterType DEF WriterCrash, WriterLocals
    <2> QED
      BY <2>1, StillSealed
  <1>7. CASE Reopen
    <2>1. UNCHANGED <<ch, wc, crashes>> /\ wr.pc = "down" /\ wr'.pc = "idle"
      BY <1>0, <1>7 DEF Reopen, LocalWrite, OnChunks
    <2> QED
      BY <2>1, StillSealed DEF SealPcs, ScanPcs
  <1>8. CASE UNCHANGED vars
    BY <1>1, <1>8 DEF vars
  <1> QED
    BY <1>2, <1>3, <1>4, <1>5, <1>6, <1>7, <1>8, AppendSealed, HideSealed, DrainSealed,
       RecycleSealed DEF Next, WriterStep

\* The write chunk starts open.
LEMMA InitSealed == Init => SealInv
  <1> SUFFICES ASSUME Init PROVE SealInv
    OBVIOUS
  <1>1. wr.pc = "idle" /\ ch[wc].state = "Writing"
    BY ChunksOK DEF Init, IdleWriter, Fresh
  <1> QED
    BY <1>1 DEF SealInv, Hidden, Scanning, Recycling, OpenWrite, ScanPcs

(***************************************************************************)
(* Dead readers.                                                           *)
(***************************************************************************)
\* The writer has found no live lease on the chunk, and judges none.
Unblocked(c) ==
    Tgt = c => /\ wr.pc # "defer"
               /\ wr.pc \in ScanPcs => ~wr.live
               /\ wr.pc \in {"judge", "verdict"} => Up(wr.word.owner) = {}

\* Every step names only processes that have run.
LEMMA NextAlive ==
  ASSUME TypeInv, Alive, [Next]_vars
  PROVE  Alive'
  <1>1. ASSUME NEW p \in Procs, Spawn(p) \/ Die(p) PROVE Alive'
    <2>0. /\ proc[p] # "dead" /\ proc' = [proc EXCEPT ![p] = IF @ = "new" THEN "up" ELSE "dead"]
          /\ \A t \in Threads : \/ rd'[t] = IdleReader /\ ProcOf[t] = p /\ proc'[p] = "up"
                                \/ rd'[t] = OffReader
                                \/ rd'[t] = rd[t] /\ (ProcOf[t] = p => proc'[p] = "up")
          /\ UNCHANGED <<lease, leaseStart, wr>> /\ proc \in [Procs -> {"new", "up", "dead"}]
      BY <1>1 DEF Spawn, Die, TypeInv, TypeOK
    <2>1. /\ \A q \in Procs : q # p => proc'[q] = proc[q]
          /\ proc'[p] # "new"
      BY <2>0
    <2>2. 0 \in Seen' /\ 0 \in Known /\ \A o \in Seen : o \in Seen'
      BY <2>0, <2>1 DEF Seen, Known
    <2>3. /\ IdleReader.word.owner = 0 /\ IdleReader.start = 0
          /\ OffReader.pc = "off" /\ OffReader.word.owner = 0 /\ OffReader.start = 0
      BY DEF OffReader, IdleReader, Free, Word
    <2>4. \A t \in Threads : rd'[t].pc # "off" => proc'[ProcOf[t]] = "up"
      BY <2>0, <2>1, <2>3, ProcessAssumption DEF Alive
    <2> HIDE DEF Seen
    <2>5. \A t \in Threads : rd'[t].word.owner \in Seen' /\ rd'[t].start \in Known
      BY <2>0, <2>2, <2>3 DEF Alive
    <2> QED
      BY <2>0, <2>2, <2>4, <2>5 DEF Alive, Known
  <1>2. ASSUME NEW t \in Threads, Reader(t) PROVE Alive'
    BY <1>2, ReaderAlive
  <1>3. CASE Writer
    <2>1. /\ UNCHANGED <<leaseStart, proc, rd>> /\ Free.owner = 0
          /\ wr'.word.owner \in Seen /\ wr'.start \in Known
      BY <1>3, WriterLeases DEF Free, Word
    <2>2. Seen' = Seen /\ 0 \in Seen
      BY <2>1 DEF Seen
    <2>3. \A c \in Chunks, s \in Slots : lease'[c][s] \in {lease[c][s], Free}
      <3>1. CASE UNCHANGED lease
        BY <3>1
      <3>2. CASE lease' = [lease EXCEPT ![Tgt][wr.slot] = Free]
        BY <3>2 DEF TypeInv, TypeOK
      <3> QED
        BY <1>3, <3>1, <3>2, WriterLeases
    <2> HIDE DEF Seen
    <2> QED
      BY <2>1, <2>2, <2>3 DEF Alive, Known
  <1>4. CASE UNCHANGED vars
    <2>1. Seen' = Seen
      BY <1>4 DEF vars, Seen
    <2> QED
      BY <1>4, <2>1 DEF vars, Alive, Known
  <1> QED
    BY <1>1, <1>2, <1>3, <1>4 DEF Next, Writer

\* While no running process has a lease of the chunk, its scan finds none alive.
LEMMA NextUnblocked ==
  ASSUME TypeInv, Alive, NEW c \in Chunks, Deserted(c), Deserted(c)', Unblocked(c), [Next]_vars
  PROVE  Unblocked(c)'
  <1>0. wr \in WriterLocals /\ IdleWriter.pc = "idle"
    BY WriterHere DEF IdleWriter
  <1>1. ASSUME UNCHANGED <<proc, wr, wc>> PROVE Unblocked(c)'
    <2>1. Tgt' = Tgt /\ \A o : Up(o)' = Up(o)
      BY <1>1 DEF Tgt, Up
    <2> QED
      BY <1>1, <2>1 DEF Unblocked
  <1>2. ASSUME NEW p \in Procs, Spawn(p) \/ Die(p) PROVE Unblocked(c)'
    <2>1. /\ UNCHANGED <<wr, wc>> /\ proc[p] # "dead"
          /\ proc' = [proc EXCEPT ![p] = IF @ = "new" THEN "up" ELSE "dead"]
          /\ proc \in [Procs -> {"new", "up", "dead"}]
      BY <1>2 DEF Spawn, Die, TypeInv, TypeOK
    <2>2. Tgt' = Tgt
      BY <2>1 DEF Tgt
    <2>3. ASSUME Up(wr.word.owner) = {} PROVE Up(wr.word.owner)' = {}
      <3> SUFFICES ASSUME NEW r \in Procs, proc'[r] = "up", PidOf[r] = wr.word.owner
                   PROVE  FALSE
        BY <2>1 DEF Up
      <3>1. proc[r] # "up" /\ r = p
        BY <2>1, <2>3 DEF Up
      <3>2. wr.word.owner # 0 /\ wr.word.owner \in Seen
        BY ProcessAssumption DEF Alive
      <3>3. PICK q \in Procs : PidOf[q] = wr.word.owner /\ proc[q] # "new"
        BY <3>2 DEF Seen
      <3>4. proc[q] = "dead"
        BY <2>1, <2>3, <3>3 DEF Up
      <3>5. proc'[q] = "dead"
        BY <2>1, <3>4
      <3> QED
        BY <3>3, <3>5 DEF Deserted
    <2> QED
      BY <2>1, <2>2, <2>3 DEF Unblocked
  <1>3. ASSUME NEW t \in Threads, Reader(t) PROVE Unblocked(c)'
    BY <1>1, <1>3, ReaderStores DEF ReaderFrame
  <1>4. ASSUME wr'.pc \notin ScanPcs \cup {"defer"} PROVE Unblocked(c)'
    BY <1>4 DEF Unblocked, ScanPcs
  <1>5. CASE WriterCall \/ WriterCrash \/ Reopen
    <2>1. wr'.pc \in {"write", "block", "down", "idle"}
      BY <1>5, IdleWriterType
         DEF WriterCall, Push, Append, Advance, WriterCrash, Reopen, WriterLocals
    <2> QED
      BY <1>4, <2>1 DEF ScanPcs
  <1>6. CASE WriteTest \/ NoteTs \/ Publish \/ CountRow \/ Defer
    <2>1. wr'.pc \in {"note", "block", "idle", "publish", "count"}
      BY <1>0, <1>6, GotoPc DEF WriteTest, NoteTs, Publish, CountRow, Defer, WriterLocals
    <2> QED
      BY <1>4, <2>1 DEF ScanPcs
  <1>7. CASE BlockPins
    <2>1. wr'.pc = "scan" /\ ~wr'.live
      BY <1>0, <1>7 DEF BlockPins, WriterLocals
    <2> QED
      BY <2>1 DEF Unblocked
  <1>8. CASE Drain
    <2>0. UNCHANGED <<proc, wc>> /\ wr.pc \in ScanPcs
      BY <1>8 DEF Drain, ScanSlot, WriterJudge, WriterVerdict, WriterClear, ScanEnd, LocalWrite,
         OnChunks, WriterFrame, ScanPcs
    <2>1. Tgt' = Tgt /\ \A o : Up(o)' = Up(o)
      BY <2>0 DEF Tgt, Up
    <2> SUFFICES ASSUME Tgt = c
                 PROVE  /\ wr'.pc # "defer"
                        /\ wr'.pc \in ScanPcs => ~wr'.live
                        /\ wr'.pc \in {"judge", "verdict"} => Up(wr'.word.owner) = {}
      BY <2>1 DEF Unblocked
    <2>2. ~wr.live
      BY <2>0 DEF Unblocked
    <2>3. CASE ScanSlot
      <3>1. wr.slot \in Slots
        BY <2>3, WriterHere DEF ScanSlot
      <3>2. Up(lease[Tgt][wr.slot].owner) = {}
        BY <3>1 DEF Deserted, process_exists
      <3> QED
        BY <1>0, <2>2, <2>3, <3>2 DEF ScanSlot, WriterLocals
    <2>4. CASE WriterJudge \/ WriterClear
      BY <1>0, <2>2, <2>4 DEF WriterJudge, WriterClear, Unblocked, WriterLocals
    <2>5. CASE WriterVerdict
      <3>1. ~owner_alive(wr.word, wr.start)
        BY <2>5 DEF WriterVerdict, owner_alive, process_exists, process_instance_alive, Unblocked
      <3> QED
        BY <1>0, <2>2, <2>5, <3>1 DEF WriterVerdict, WriterLocals
    <2>6. CASE ScanEnd
      <3> DEFINE again == [wr EXCEPT !.pass = NextPass, !.slot = 0, !.live = FALSE]
                 seal  == [wr EXCEPT !.pc = "seal"]
      <3>1. (wr' = again \/ wr' = seal) /\ wr.pc = "scan"
        BY <2>2, <2>6 DEF ScanEnd
      <3>2. again.pc = wr.pc /\ again.live = FALSE /\ seal.pc = "seal"
        BY <1>0 DEF WriterLocals
      <3> HIDE DEF again, seal
      <3> QED
        BY <3>1, <3>2 DEF ScanPcs
    <2> QED
      BY <1>8, <2>3, <2>4, <2>5, <2>6 DEF Drain
  <1>9. CASE Recycle
    <2>1. wr'.pc \in SealPcs \cup {"write", "idle"}
      <3>1. CASE Turn
        BY <1>0, <3>1 DEF Turn, IdleWriter
      <3>2. CASE ~Turn
        BY <1>9, <3>2, GotoPc DEF Recycle, Seal, CountLost, BumpGeneration, ResetUsed,
           ResetRowCount, ResetTs, OpenChunk, SealPcs
      <3> QED
        BY <3>1, <3>2
    <2> QED
      BY <1>4, <2>1 DEF SealPcs, ScanPcs
  <1>10. CASE UNCHANGED vars
    BY <1>1, <1>10 DEF vars
  <1> QED
    BY <1>2, <1>3, <1>5, <1>6, <1>7, <1>8, <1>9, <1>10 DEF Next, WriterStep

(***************************************************************************)
(* Theorems.                                                               *)
(***************************************************************************)
\* Leases are exact and pins are stable as long as no verdict is wrong: the reference
\* counts of the shared words, whatever the interleaving of acquires, releases, deaths
\* and reclaims, can be upset only by a judge who takes a running owner for dead.
THEOREM LeasesHoldWithVerdicts ==
  Spec /\ [](~PidReused /\ Verdicts) => [](LeaseExact /\ PinnedStable)
  <1>1. Spec => []TypeInv
    BY InitType, NextType, PTL DEF Spec
  <1> DEFINE Good == ~PidReused /\ Verdicts
             Inv  == LeaseInv /\ PinInv
  <1>2. Init => Inv
    BY InitLease, InitPins
  <1>3. TypeInv /\ Inv /\ Good /\ Good' /\ [Next]_vars => Inv'
    BY NextLease, NextPins
  <1>4. Inv => LeaseExact /\ PinnedStable
    BY ExactFromInv DEF PinInv
  <1>5. Spec /\ []Good => []Inv
    <2> HIDE DEF Good, Inv
    <2> QED
      BY <1>1, <1>2, <1>3, PTL DEF Spec
  <1> QED
    BY <1>4, <1>5, PTL

\* With loads that are of one owner no verdict is wrong, until a PID is reused.
LEMMA VerdictsRight ==
  Spec /\ [][PairedLoads]_vars => [](~PidReused => LeaseInv /\ PinInv /\ Verdicts)
  <1>1. Spec => []TypeInv
    BY InitType, NextType, PTL DEF Spec
  <1> DEFINE Inv == ~PidReused => LeaseInv /\ PinInv /\ Verdicts
  <1>2. Init => Inv
    BY InitLease, InitPins
  <1>3. TypeInv /\ Inv /\ [Next]_vars /\ [PairedLoads]_vars => Inv'
    <2> SUFFICES ASSUME TypeInv, Inv, [Next]_vars, [PairedLoads]_vars, ~PidReused'
                 PROVE  (LeaseInv /\ PinInv /\ Verdicts)'
      OBVIOUS
    <2>1. ~PidReused /\ LeaseInv /\ PinInv /\ Verdicts
      BY ReusedForGood
    <2> QED
      BY <2>1, NextLease, NextPins, NextVerdicts
  <1> HIDE DEF Inv
  <1> QED
    BY <1>1, <1>2, <1>3, PTL DEF Spec, Inv

\* As long as each judge's loads are of one owner and no PID is reused, the reference
\* count of a slot that a running process owns is the number of its threads that hold
\* it, for any number of threads, processes, start times, slots and chunks.
THEOREM LeasesExact ==
  Spec /\ [][PairedLoads]_vars => [](~PidReused => LeaseExact)
  <1>1. ASSUME LeaseInv PROVE LeaseExact
    BY <1>1, ExactFromInv
  <1>2. (~PidReused => LeaseInv /\ PinInv /\ Verdicts) => (~PidReused => LeaseExact)
    BY <1>1
  <1> QED
    BY <1>2, VerdictsRight, PTL

\* Until then, a chunk keeps its generation and its rows while a reader has it pinned.
THEOREM PinsStable ==
  Spec /\ [][PairedLoads]_vars => [](~PidReused => PinnedStable)
  <1>1. (~PidReused => LeaseInv /\ PinInv /\ Verdicts) => (~PidReused => PinnedStable)
    BY DEF PinInv
  <1> QED
    BY <1>1, VerdictsRight, PTL

\* No step changes the rows, the extent or the generation of a chunk that is visible as
\* sealed; once a mapper has crashed the write chunk is left out, which may be sealed then.
\* The writer appends to its write chunk only and resets only what it has hidden.
THEOREM SealedIsFrozen == Spec => SealedFrozen
  <1>1. Spec => []TypeInv
    BY InitType, NextType, PTL DEF Spec
  <1>2. TypeInv /\ SealInv /\ [Next]_vars => SealInv'
    BY NextSealed
  <1>3. Spec => []SealInv
    BY <1>1, <1>2, InitSealed, PTL DEF Spec
  <1>4. TypeInv /\ SealInv /\ [Next]_vars =>
           [\A c \in Chunks :
              ch[c].state = "Sealed" /\ (crashes = 0 \/ c # wc) =>
                  /\ ch'[c].used = ch[c].used
                  /\ ch'[c].rows = ch[c].rows
                  /\ ch'[c].gen = ch[c].gen]_vars
    BY NextSealed DEF SealedHere
  <1> QED
    BY <1>1, <1>3, <1>4, PTL DEF Spec, SealedFrozen

\* Readers that died with a pin or in the middle of a claim hold no recycle up, whoever
\* else reads: from a point between two operations on, none of a chunk is deferred while
\* no running process has a lease of that chunk or the PID of a dead one.
THEOREM DeadReadersDeferNone == Spec => DeadReadersNeverBlock
  <1>1. Spec => [](TypeInv /\ Alive)
    <2>1. Init => Alive
      BY InitLease DEF LeaseInv
    <2> QED
      BY <2>1, InitType, NextType, NextAlive, PTL DEF Spec
  <1>2. ASSUME NEW c \in Chunks
        PROVE  Spec => [](wr.pc = "idle" /\ []Deserted(c) => [](Tgt = c => wr.pc # "defer"))
    <2>1. wr.pc = "idle" => Unblocked(c)
      BY DEF Unblocked, ScanPcs
    <2>2. TypeInv /\ Alive /\ Deserted(c) /\ Deserted(c)' /\ Unblocked(c) /\ [Next]_vars
             => Unblocked(c)'
      BY NextUnblocked
    <2>3. Unblocked(c) => (Tgt = c => wr.pc # "defer")
      BY DEF Unblocked
    <2> QED
      BY <1>1, <2>1, <2>2, <2>3, PTL DEF Spec
  <1> QED
    BY <1>2 DEF DeadReadersNeverBlock
=============================================================================
