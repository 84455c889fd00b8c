--------------------------- MODULE MemhSlot_proofs ---------------------------
(***************************************************************************)
(* Proofs about the slot protocol of the MEMH hash table, for every number *)
(* of slots, threads and processes.                                        *)
(***************************************************************************)
EXTENDS MemhSlot, SequenceTheorems, TLAPS

(***************************************************************************)
(* Types.                                                                  *)
(***************************************************************************)
Control  == [head : Nat, gen : Nat]
Images   == {f \in [SlotWords -> Nat \cup Control] :
                f[2] \in Control /\ \A w \in SlotWords \ {2} : f[w] \in Nat}
Versions == Nat \X Nat \X Nat \X Nat
Journals == [state : {0, 1}, off : Slots, words : Images]
Locals   == [pc : PCs, op : {"none", "write", "read"}, s : Slots, kind : Kinds \cup {"none"},
             v : Nat, i : 0 .. 3, word : Pids, start : Nat, tries : 0 .. TryLimit - 1,
             spins : Nat, snap : Images, from : Nat]

\* Where a writer is at work on its slot.
Writing == {"journal", "joff", "jon", "odd", "store", "finish", "jdone"}

\* What the program counter says of the other locals.
InRange(r) ==
    /\ r.op = "write" => r.kind \in Kinds
    /\ r.pc \in Writing => r.op = "write"
    /\ r.pc = "store" => r.i \in 1 .. Len(Stores(r.kind))
    /\ r.pc = "load" => r.i \in {0, 1, 3}

TypeInv ==
    /\ slot \in [Slots -> Images]
    /\ jr \in Journals
    /\ claim \in Pids /\ owner \in Pids /\ ownerStart \in Nat
    /\ proc \in [Procs -> {"new", "up", "dead"}]
    /\ th \in [Threads -> Locals]
    /\ \A t \in Threads : InRange(th[t])
    /\ hist \in [Slots -> Seq(Versions)] /\ \A s \in Slots : hist[s] # <<>>
    /\ begun \in Nat /\ reads \in Nat /\ crashes \in Nat
    /\ mended \in {"none", "some", "torn"}

\* The type invariant the runs check is a consequence.
LEMMA TypeInvOK == TypeInv => TypeOK
  BY DEF TypeInv, TypeOK, Journals, Locals

\* The image of a fresh slot, its version, and the locals of a thread between calls.
LEMMA ImageType == ASSUME NEW v \in Nat, NEW g \in Nat PROVE Image(v, g) \in Images
  BY DEF Image, Images, SlotWords, Control

LEMMA VersionType == ASSUME NEW words \in Images PROVE Version(words) \in Versions
  BY DEF Version, Versions, Images, SlotWords, Control

LEMMA SomeSlotType == SomeSlot \in Slots
  BY SlotAssumption, Zenon DEF SomeSlot

LEMMA IdleType ==
  /\ IdleThread \in Locals /\ InRange(IdleThread)
  /\ OffThread \in Locals /\ InRange(OffThread)
  <1>1. SomeSlot \in Slots /\ Image(0, 0) \in Images
    BY ImageType, SomeSlotType
  <1>2. 0 \in Pids /\ 0 \in 0 .. TryLimit - 1
    BY SlotAssumption DEF Pids
  <1> QED
    BY <1>1, <1>2 DEF IdleThread, OffThread, Locals, PCs, InRange, Writing

\* A word of a slot, and a store to one.
LEMMA WordType ==
  ASSUME NEW f \in Images, NEW g \in Images, NEW w \in 0 .. 3
  PROVE  /\ f[2] \in Control /\ f[w] \in Nat \cup Control
         /\ [f EXCEPT ![w] = g[w]] \in Images
  BY DEF Images, SlotWords

LEMMA StoreWordType ==
  ASSUME NEW f \in Images, NEW w \in {0, 1, 3}, NEW v \in Nat
  PROVE  [f EXCEPT ![w] = v] \in Images
  BY DEF Images, SlotWords

LEMMA StoreControlType ==
  ASSUME NEW f \in Images, NEW c \in Control
  PROVE  [f EXCEPT ![2] = c] \in Images
  BY DEF Images, SlotWords, Control

\* The words an update stores are data words of the slot.
LEMMA StoresType ==
  ASSUME NEW kind \in {"commit", "head", "inline"}
  PROVE  /\ Len(Stores(kind)) \in 1 .. 3
         /\ \A i \in 1 .. Len(Stores(kind)) : Stores(kind)[i] \in {0, 1, 3}
  <1>1. CASE kind = "commit"
    <2>1. Stores(kind) = <<0, 1, 3>>
      BY <1>1 DEF Stores
    <2> QED
      BY <2>1
  <1>2. CASE kind = "head"
    <2>1. Stores(kind) = <<0>>
      BY <1>2 DEF Stores
    <2> QED
      BY <2>1
  <1>3. CASE kind = "inline"
    <2>1. Stores(kind) = <<0, 3>>
      BY <1>3 DEF Stores
    <2> QED
      BY <2>1
  <1> QED
    BY <1>1, <1>2, <1>3

\* An update makes a version of a version.
LEMMA UpdatedType ==
  ASSUME NEW kind, NEW old \in Versions, NEW v \in Nat
  PROVE  Updated(kind, old, v) \in Versions
  <1>1. old[2] \in Nat /\ old[3] \in Nat /\ old[4] \in Nat
    BY DEF Versions
  <1> QED
    BY <1>1 DEF Updated, Versions

\* The header and its first contents are well typed.
LEMMA InitType == Init => TypeInv
  <1> SUFFICES ASSUME Init PROVE TypeInv
    OBVIOUS
  <1>1. Image(0, 0) \in Images /\ Version(Image(0, 0)) \in Versions
    BY ImageType, VersionType
  <1>2. hist \in [Slots -> Seq(Versions)] /\ \A s \in Slots : hist[s] # <<>>
    BY <1>1 DEF Init
  <1>3. jr \in Journals
    BY <1>1, SomeSlotType DEF Init, Journals
  <1>4. th \in [Threads -> Locals] /\ \A t \in Threads : InRange(th[t])
    BY IdleType DEF Init
  <1>5. 0 \in Pids
    BY DEF Pids
  <1> QED
    BY <1>1, <1>2, <1>3, <1>4, <1>5, SlotAssumption DEF Init, TypeInv
(***************************************************************************)
(* Every step keeps the types.                                             *)
(***************************************************************************)
\* A step that gives one thread well-typed locals and stores well-typed words.
LEMMA GoType ==
  ASSUME TypeInv, NEW t \in Threads, NEW r \in Locals, InRange(r), Go(t, r), proc' = proc,
         slot' \in [Slots -> Images], jr' \in Journals, claim' \in Pids, owner' \in Pids,
         ownerStart' \in Nat,
         hist' \in [Slots -> Seq(Versions)], \A s \in Slots : hist'[s] # <<>>,
         begun' \in Nat, reads' \in Nat, crashes' \in Nat,
         mended' \in {"none", "some", "torn"}
  PROVE  TypeInv'
  BY DEF TypeInv, Go

\* The same for a step that stores to the thread's locals only.
LEMMA LocalType ==
  ASSUME TypeInv, NEW t \in Threads, NEW r \in Locals, InRange(r), Go(t, r), Local
  PROVE  TypeInv'
  BY GoType DEF TypeInv, Local, Bounds, Header, Data

\* What the invariant says of one thread.
LEMMA Here ==
  ASSUME TypeInv, NEW t \in Threads
  PROVE  /\ th[t] \in Locals /\ InRange(th[t]) /\ Pid(t) \in Pids \ {0} /\ Start(t) \in Nat
         /\ th[t].s \in Slots /\ slot[th[t].s] \in Images
         /\ jr.off \in Slots /\ slot[jr.off] \in Images /\ jr.words \in Images
  BY SlotAssumption DEF TypeInv, Pid, Start, Pids, Locals, Journals

\* A jump keeps the locals well typed.
LEMMA JumpType ==
  ASSUME NEW r \in Locals, InRange(r), NEW pc \in PCs \ {"store", "load"},
         pc \in Writing => r.op = "write"
  PROVE  [r EXCEPT !.pc = pc] \in Locals /\ InRange([r EXCEPT !.pc = pc])
  BY DEF Locals, InRange

\* So does the way out of acquire_writer, with the ownership, without it, or into
\* another attempt.
LEMMA ReturnType ==
  ASSUME NEW r \in Locals, InRange(r)
  PROVE  /\ Failed(r) \in Locals /\ InRange(Failed(r))
         /\ Acquired(r) \in Locals /\ InRange(Acquired(r))
         /\ TryAgain(r) \in Locals /\ InRange(TryAgain(r))
  <1>0. 0 \in Pids /\ 0 \in 0 .. TryLimit - 1 /\ 0 \in 0 .. 3
    BY SlotAssumption DEF Pids
  <1>1. Failed(r) \in Locals /\ InRange(Failed(r))
    <2> DEFINE q == [r EXCEPT !.pc = "before", !.word = 0, !.start = 0, !.tries = 0]
    <2>1. q \in Locals
      BY <1>0 DEF Locals, PCs
    <2>2. q.pc = "before" /\ q.op = r.op /\ q.kind = r.kind
      BY DEF Locals
    <2>3. InRange(q)
      BY <2>2 DEF InRange, Writing
    <2> QED
      BY <2>1, <2>3, IdleType DEF Failed
  <1>2. Acquired(r) \in Locals /\ InRange(Acquired(r))
    <2> DEFINE pc == IF r.op = "write" THEN "journal" ELSE "dropStart"
    <2> DEFINE q == [r EXCEPT !.pc = pc, !.i = 0, !.word = 0, !.start = 0, !.tries = 0]
    <2>0. pc \in PCs /\ pc # "load" /\ pc # "store" /\ (pc \in Writing => r.op = "write")
      BY DEF PCs, Writing
    <2> HIDE DEF pc
    <2>1. q \in Locals
      BY <1>0, <2>0 DEF Locals
    <2>2. q.pc = pc /\ q.op = r.op /\ q.kind = r.kind
      BY DEF Locals
    <2>3. InRange(q)
      BY <2>0, <2>2 DEF InRange
    <2> QED
      BY <2>1, <2>3 DEF Acquired, pc
  <1>3. TryAgain(r) \in Locals /\ InRange(TryAgain(r))
    <2> DEFINE q == [r EXCEPT !.pc = "claimant", !.word = 0, !.tries = @ + 1]
    <2>1. CASE r.tries + 1 = TryLimit
      BY <2>1, <1>1 DEF TryAgain
    <2>2. CASE r.tries + 1 # TryLimit
      <3>1. r.tries + 1 \in 0 .. TryLimit - 1
        BY <2>2, SlotAssumption DEF Locals
      <3>2. q \in Locals
        BY <1>0, <3>1 DEF Locals, PCs
      <3>3. q.pc = "claimant" /\ q.op = r.op /\ q.kind = r.kind
        BY DEF Locals
      <3>4. InRange(q)
        BY <3>3 DEF InRange, Writing
      <3> QED
        BY <2>2, <3>2, <3>4 DEF TryAgain
    <2> QED
      BY <2>1, <2>2
  <1> QED
    BY <1>1, <1>2, <1>3

\* acquire_writer.
LEMMA AcquireType == ASSUME TypeInv, NEW t \in Threads, Acquire(t) PROVE TypeInv'
  <1>0. /\ th[t] \in Locals /\ InRange(th[t]) /\ Pid(t) \in Pids /\ Start(t) \in Nat
        /\ 0 \in Pids
    BY Here DEF Pids
  <1>a. /\ claim \in Pids /\ owner \in Pids /\ ownerStart \in Nat /\ slot \in [Slots -> Images]
        /\ jr \in Journals /\ hist \in [Slots -> Seq(Versions)]
        /\ (\A s \in Slots : hist[s] # <<>>)
        /\ begun \in Nat /\ reads \in Nat /\ crashes \in Nat
        /\ mended \in {"none", "some", "torn"}
    BY DEF TypeInv
  <1>b. /\ Failed(th[t]) \in Locals /\ InRange(Failed(th[t]))
        /\ TryAgain(th[t]) \in Locals /\ InRange(TryAgain(th[t]))
    BY <1>0, ReturnType
  <1>c. \A pc \in PCs \ (Writing \cup {"load"}) :
          [th[t] EXCEPT !.pc = pc] \in Locals /\ InRange([th[t] EXCEPT !.pc = pc])
    BY <1>0, JumpType DEF Writing
  <1>d. \A pc \in PCs \ (Writing \cup {"load"}), w \in Pids :
          [th[t] EXCEPT !.pc = pc, !.word = w] \in Locals
          /\ InRange([th[t] EXCEPT !.pc = pc, !.word = w])
    BY <1>0 DEF Locals, InRange, Writing
  <1>1. CASE LoadClaim(t)
    <2>1. CASE claim = 0
      BY <1>1, <2>1, <1>a, <1>d, LocalType DEF LoadClaim, PCs, Writing
    <2>2. CASE claim # 0
      BY <1>1, <2>2, <1>a, <1>d, LocalType DEF LoadClaim, PCs, Writing
    <2> QED
      BY <2>1, <2>2
  <1>2. CASE JudgeClaim(t)
    <2>1. CASE process_exists(th[t].word)
      BY <1>2, <2>1, <1>b, LocalType DEF JudgeClaim
    <2>2. CASE ~process_exists(th[t].word)
      BY <1>2, <2>2, <1>c, LocalType DEF JudgeClaim, PCs, Writing
    <2> QED
      BY <2>1, <2>2
  <1>3. CASE Unstick(t)
    <2>1. claim' \in Pids
      BY <1>3, <1>0, <1>a DEF Unstick
    <2> QED
      BY <1>3, <2>1, <1>a, <1>b, GoType DEF Unstick, Bounds, Data
  <1>4. CASE Cas(t)
    <2>1. CASE claim = 0
      BY <1>4, <2>1, <1>0, <1>a, <1>c, GoType DEF Cas, GoTo, Bounds, Data, PCs, Writing
    <2>2. CASE claim # 0
      BY <1>4, <2>2, <1>a, <1>b, GoType DEF Cas, Bounds, Data
    <2> QED
      BY <2>1, <2>2
  <1>5. CASE LoadOwner(t)
    <2>1. CASE owner = 0
      BY <1>5, <2>1, <1>a, <1>d, LocalType DEF LoadOwner, PCs, Writing
    <2>2. CASE owner # 0
      BY <1>5, <2>2, <1>a, <1>d, LocalType DEF LoadOwner, PCs, Writing
    <2> QED
      BY <2>1, <2>2
  <1>6. CASE LoadOwnerStart(t)
    <2> DEFINE r == [th[t] EXCEPT !.pc = "judge", !.start = ownerStart]
    <2>1. r \in Locals /\ InRange(r)
      BY <1>0, <1>a DEF Locals, InRange, PCs, Writing
    <2> QED
      BY <1>6, <2>1, LocalType DEF LoadOwnerStart
  <1>7. CASE JudgeOwner(t)
    <2>1. CASE process_instance_alive(th[t].word, th[t].start)
      BY <1>7, <2>1, <1>c, LocalType DEF JudgeOwner, GoTo, PCs, Writing
    <2>2. CASE ~process_instance_alive(th[t].word, th[t].start)
      BY <1>7, <2>2, <1>c, LocalType DEF JudgeOwner, GoTo, PCs, Writing
    <2> QED
      BY <2>1, <2>2
  <1>8. CASE GiveUp(t)
    BY <1>8, <1>0, <1>a, <1>b, GoType DEF GiveUp, Bounds, Data
  <1>9. CASE SetStart(t)
    BY <1>9, <1>0, <1>a, <1>c, GoType DEF SetStart, GoTo, Bounds, Data, PCs, Writing
  <1>10. CASE SetOwner(t)
    BY <1>10, <1>0, <1>a, <1>c, GoType DEF SetOwner, GoTo, Bounds, Data, PCs, Writing
  <1>11. CASE FreeClaim(t)
    BY <1>11, <1>0, <1>a, <1>c, GoType DEF FreeClaim, GoTo, Bounds, Data, PCs, Writing
  <1> QED
    BY <1>1, <1>2, <1>3, <1>4, <1>5, <1>6, <1>7, <1>8, <1>9, <1>10, <1>11 DEF Acquire

\* recover_slot_journal.
LEMMA RecoverType == ASSUME TypeInv, NEW t \in Threads, Recover(t) PROVE TypeInv'
  <1>0. /\ th[t] \in Locals /\ InRange(th[t]) /\ jr.off \in Slots
        /\ slot[jr.off] \in Images /\ jr.words \in Images
    BY Here
  <1>a. /\ claim \in Pids /\ owner \in Pids /\ ownerStart \in Nat /\ slot \in [Slots -> Images]
        /\ jr \in Journals /\ hist \in [Slots -> Seq(Versions)]
        /\ (\A s \in Slots : hist[s] # <<>>)
        /\ begun \in Nat /\ reads \in Nat /\ crashes \in Nat
        /\ mended \in {"none", "some", "torn"}
    BY DEF TypeInv
  <1>b. Acquired(th[t]) \in Locals /\ InRange(Acquired(th[t]))
    BY <1>0, ReturnType
  <1>c. ASSUME NEW pc \in {"restore", "jclear"}
        PROVE  [th[t] EXCEPT !.pc = pc, !.i = 0] \in Locals
               /\ InRange([th[t] EXCEPT !.pc = pc, !.i = 0])
    <2>1. pc \in PCs /\ 0 \in 0 .. 3
      BY DEF PCs
    <2>2. [th[t] EXCEPT !.pc = pc, !.i = 0] \in Locals
      BY <1>0, <2>1 DEF Locals
    <2> QED
      BY <1>0, <2>2 DEF Locals, InRange, Writing
  <1>1. CASE LoadJournal(t)
    <2>1. CASE jr.state = 0
      BY <1>1, <2>1, <1>b, LocalType DEF LoadJournal
    <2>2. CASE jr.state # 0
      <3>1. [th[t] EXCEPT !.pc = "jgen"] \in Locals /\ InRange([th[t] EXCEPT !.pc = "jgen"])
        BY <1>0, JumpType DEF PCs, Writing
      <3> QED
        BY <1>1, <2>2, <3>1, LocalType DEF LoadJournal
    <2> QED
      BY <2>1, <2>2
  <1>2. CASE JudgeSlot(t)
    <2>1. CASE slot[jr.off][2].gen % 2 = 1
      BY <1>2, <2>1, <1>c, LocalType DEF JudgeSlot
    <2>2. CASE slot[jr.off][2].gen % 2 # 1
      BY <1>2, <2>2, <1>c, LocalType DEF JudgeSlot
    <2> QED
      BY <2>1, <2>2
  <1>3. CASE Restore(t)
    <2> DEFINE r == IF th[t].i = 3 THEN [th[t] EXCEPT !.pc = "jclear", !.i = 0]
                    ELSE [th[t] EXCEPT !.i = @ + 1]
    <2>1. r \in Locals /\ InRange(r)
      <3>1. CASE th[t].i = 3
        BY <3>1, <1>c
      <3>2. CASE th[t].i # 3
        <4>1. th[t].i + 1 \in 0 .. 3 /\ th[t].pc = "restore"
          BY <3>2, <1>0, <1>3 DEF Locals, Restore
        <4> QED
          BY <3>2, <4>1, <1>0 DEF Locals, InRange, Writing
      <3> QED
        BY <3>1, <3>2
    <2>2. th[t].i \in 0 .. 3
      BY <1>0 DEF Locals
    <2>3. slot' \in [Slots -> Images]
      BY <1>3, <2>2, <1>0, <1>a, WordType DEF Restore
    <2> QED
      BY <1>3, <2>1, <2>3, <1>a, GoType DEF Restore, Header
  <1>4. CASE ClearJournal(t)
    <2>1. jr' \in Journals
      BY <1>4, <1>a DEF ClearJournal, Journals
    <2> QED
      BY <1>4, <2>1, <1>a, <1>b, GoType DEF ClearJournal, Bounds, Header
  <1> QED
    BY <1>1, <1>2, <1>3, <1>4 DEF Recover

\* begin_slot_write, the stores, finish_slot_write and the drop of the guard.
LEMMA UpdateType == ASSUME TypeInv, NEW t \in Threads, Update(t) PROVE TypeInv'
  <1>0. /\ th[t] \in Locals /\ InRange(th[t]) /\ th[t].s \in Slots
        /\ slot[th[t].s] \in Images /\ jr.words \in Images
    BY Here
  <1>a. /\ claim \in Pids /\ owner \in Pids /\ ownerStart \in Nat /\ slot \in [Slots -> Images]
        /\ jr \in Journals /\ hist \in [Slots -> Seq(Versions)]
        /\ (\A s \in Slots : hist[s] # <<>>) /\ 0 \in Pids
        /\ begun \in Nat /\ reads \in Nat /\ crashes \in Nat
        /\ mended \in {"none", "some", "torn"}
    BY DEF TypeInv, Pids
  <1>b. /\ th[t].pc \in Writing => th[t].op = "write" /\ th[t].kind \in Kinds
        /\ th[t].i \in 0 .. 3 /\ th[t].v \in Nat /\ 0 \in 0 .. 3 /\ 1 \in 0 .. 3
    BY <1>0 DEF InRange, Locals
  <1>c. ASSUME NEW pc \in {"joff", "jon", "odd", "finish", "jdone"}, th[t].pc \in Writing
        PROVE  /\ [th[t] EXCEPT !.pc = pc] \in Locals /\ InRange([th[t] EXCEPT !.pc = pc])
               /\ [th[t] EXCEPT !.pc = pc, !.i = 0] \in Locals
               /\ InRange([th[t] EXCEPT !.pc = pc, !.i = 0])
    <2>1. pc \in PCs
      BY DEF PCs
    <2>2. [th[t] EXCEPT !.pc = pc] \in Locals /\ [th[t] EXCEPT !.pc = pc, !.i = 0] \in Locals
      BY <1>0, <1>b, <2>1 DEF Locals
    <2> QED
      BY <1>0, <1>b, <1>c, <2>2 DEF Locals, InRange
  <1>1. CASE Journal(t)
    <2>1. jr' \in Journals
      BY <1>1, <1>0, <1>a, <1>b, WordType DEF Journal, Journals
    <2>2. CASE th[t].i = 3
      <3>1. th[t].pc \in Writing
        BY <1>1 DEF Journal, Writing
      <3> QED
        BY <1>1, <2>1, <2>2, <3>1, <1>a, <1>c, GoType DEF Journal, Bounds, Header
    <2>3. CASE th[t].i # 3
      <3> DEFINE r == [th[t] EXCEPT !.i = @ + 1]
      <3>1. th[t].i + 1 \in 0 .. 3 /\ th[t].pc = "journal"
        BY <1>1, <1>b, <2>3 DEF Journal
      <3>2. r \in Locals /\ InRange(r)
        BY <1>0, <3>1 DEF Locals, InRange
      <3> QED
        BY <1>1, <2>1, <2>3, <3>2, <1>a, GoType DEF Journal, Bounds, Header
    <2> QED
      BY <2>2, <2>3
  <1>2. CASE JournalOff(t)
    <2>1. jr' \in Journals /\ th[t].pc \in Writing
      BY <1>2, <1>0, <1>a DEF JournalOff, Journals, Writing
    <2> QED
      BY <1>2, <2>1, <1>a, <1>c, GoType DEF JournalOff, GoTo, Bounds, Header
  <1>3. CASE JournalOn(t)
    <2>1. jr' \in Journals /\ th[t].pc \in Writing
      BY <1>3, <1>a DEF JournalOn, Journals, Writing
    <2> QED
      BY <1>3, <2>1, <1>a, <1>c, GoType DEF JournalOn, GoTo, Bounds, Header
  <1>4. CASE BeginSlot(t)
    <2> DEFINE c == slot[th[t].s][2]
    <2> DEFINE d == [c EXCEPT !.gen = Odd(@)]
    <2>1. c \in Control /\ d \in Control
      BY <1>0 DEF Images, Control, Odd
    <2>2. [slot[th[t].s] EXCEPT ![2] = d] \in Images
      BY <1>0, <2>1, StoreControlType
    <2>3. slot' \in [Slots -> Images]
      <3>1. slot' = [slot EXCEPT ![th[t].s] = [slot[th[t].s] EXCEPT ![2] = d]]
        BY <1>4 DEF BeginSlot
      <3> QED
        BY <1>a, <2>2, <3>1
    <2> DEFINE r == [th[t] EXCEPT !.pc = "store", !.i = 1]
    <2>4. th[t].op = "write" /\ th[t].kind \in Kinds
      BY <1>4, <1>b DEF BeginSlot, Writing
    <2>5. r \in Locals
      BY <1>0, <1>b DEF Locals, PCs
    <2>6. InRange(r)
      <3>1. Len(Stores(th[t].kind)) \in 1 .. 3
        BY <2>4, StoresType, SlotAssumption
      <3>2. r.op = "write" /\ r.kind = th[t].kind /\ r.i = 1 /\ r.pc = "store"
        BY <2>4, <1>0 DEF Locals
      <3>3. 1 \in 1 .. Len(Stores(th[t].kind))
        BY <3>1
      <3> HIDE DEF r
      <3> QED
        BY <2>4, <3>2, <3>3 DEF InRange
    <2> QED
      BY <1>4, <2>3, <2>5, <2>6, <1>a, GoType DEF BeginSlot, Bounds, Header
  <1>5. CASE StoreWord(t)
    <2>0. /\ th[t].op = "write" /\ th[t].kind \in Kinds /\ th[t].pc \in Writing
          /\ th[t].i \in 1 .. Len(Stores(th[t].kind))
      BY <1>5, <1>0, <1>b DEF StoreWord, Writing, InRange
    <2>1. Stores(th[t].kind)[th[t].i] \in {0, 1, 3} /\ Len(Stores(th[t].kind)) \in 1 .. 3
      BY <2>0, StoresType, SlotAssumption
    <2>2. slot' \in [Slots -> Images]
      <3> DEFINE w == Stores(th[t].kind)[th[t].i]
      <3>1. slot' = [slot EXCEPT ![th[t].s] = [slot[th[t].s] EXCEPT ![w] = th[t].v]]
        BY <1>5 DEF StoreWord
      <3>2. [slot[th[t].s] EXCEPT ![w] = th[t].v] \in Images
        BY <1>0, <1>b, <2>1, StoreWordType
      <3> QED
        BY <1>a, <3>1, <3>2
    <2>3. CASE th[t].i = Len(Stores(th[t].kind))
      BY <1>5, <2>0, <2>2, <2>3, <1>a, <1>c, GoType DEF StoreWord, Bounds, Header
    <2>4. CASE th[t].i # Len(Stores(th[t].kind))
      <3> DEFINE r == [th[t] EXCEPT !.i = @ + 1]
      <3>1. th[t].i + 1 \in 0 .. 3 /\ th[t].i + 1 \in 1 .. Len(Stores(th[t].kind))
        <4>1. \A n \in 1 .. 3 : \A i \in 1 .. n : i # n => i + 1 \in 0 .. 3 /\ i + 1 \in 1 .. n
          OBVIOUS
        <4> QED
          BY <2>0, <2>1, <2>4, <4>1
      <3>2. r \in Locals
        BY <1>0, <3>1 DEF Locals
      <3>3. r.op = "write" /\ r.kind = th[t].kind /\ r.i = th[t].i + 1 /\ r.pc = "store"
        BY <1>5, <2>0, <1>0 DEF Locals, StoreWord
      <3>4. InRange(r)
        BY <2>0, <3>1, <3>3 DEF InRange
      <3> QED
        BY <1>5, <2>2, <2>4, <3>2, <3>4, <1>a, GoType DEF StoreWord, Bounds, Header
    <2> QED
      BY <2>3, <2>4
  <1>6. CASE FinishSlot(t)
    <2> DEFINE c == slot[th[t].s][2]
    <2> DEFINE d == [head |-> IF th[t].kind = "inline" THEN c.head ELSE th[t].v,
                     gen |-> c.gen + 1]
    <2>1. c \in Control /\ d \in Control
      BY <1>0, <1>b DEF Images, Control
    <2>2. slot' = [slot EXCEPT ![th[t].s] = [slot[th[t].s] EXCEPT ![2] = d]]
      BY <1>6 DEF FinishSlot
    <2>3. slot' \in [Slots -> Images]
      BY <1>a, <1>0, <2>1, <2>2, StoreControlType
    <2> DEFINE h == hist[th[t].s]
    <2> DEFINE new == Updated(th[t].kind, h[Len(h)], th[t].v)
    <2>4. new \in Versions
      <3>1. h \in Seq(Versions) /\ h # <<>>
        BY <1>a, <1>0
      <3>2. h[Len(h)] \in Versions
        BY <3>1
      <3> QED
        BY <1>b, <3>2, UpdatedType
    <2>5. hist' \in [Slots -> Seq(Versions)] /\ \A s \in Slots : hist'[s] # <<>>
      <3>1. hist' = [hist EXCEPT ![th[t].s] = Append(h, new)]
        BY <1>6 DEF FinishSlot
      <3>2. Append(h, new) \in Seq(Versions) /\ Append(h, new) # <<>>
        <4>1. h \in Seq(Versions)
          BY <1>a, <1>0
        <4> HIDE DEF h, new
        <4> QED
          BY <2>4, <4>1, AppendProperties
      <3> QED
        BY <3>1, <3>2, <1>a, <1>0
    <2>6. th[t].pc \in Writing
      BY <1>6 DEF FinishSlot, Writing
    <2> QED
      BY <1>6, <2>3, <2>5, <2>6, <1>a, <1>c, GoType DEF FinishSlot, GoTo, Bounds, Header
  <1>7. CASE JournalDone(t)
    <2>1. jr' \in Journals
      BY <1>7, <1>a DEF JournalDone, Journals
    <2>2. [th[t] EXCEPT !.pc = "dropStart"] \in Locals /\ InRange([th[t] EXCEPT !.pc = "dropStart"])
      BY <1>0, JumpType DEF PCs, Writing
    <2> QED
      BY <1>7, <2>1, <2>2, <1>a, GoType DEF JournalDone, GoTo, Bounds, Header
  <1>8. CASE DropStart(t)
    <2>1. [th[t] EXCEPT !.pc = "dropOwner"] \in Locals /\ InRange([th[t] EXCEPT !.pc = "dropOwner"])
      BY <1>0, JumpType DEF PCs, Writing
    <2> QED
      BY <1>8, <2>1, <1>a, GoType DEF DropStart, GoTo, Bounds, Data
  <1>9. CASE DropOwner(t)
    <2>1. [th[t] EXCEPT !.pc = "before"] \in Locals /\ InRange([th[t] EXCEPT !.pc = "before"])
      BY <1>0, JumpType DEF PCs, Writing
    <2>2. IdleThread \in Locals /\ InRange(IdleThread)
      BY IdleType
    <2> QED
      BY <1>9, <2>1, <2>2, <1>a, GoType DEF DropOwner, Bounds, Data
  <1> QED
    BY <1>1, <1>2, <1>3, <1>4, <1>5, <1>6, <1>7, <1>8, <1>9 DEF Update

\* read_slot.
LEMMA FetchType == ASSUME TypeInv, NEW t \in Threads, Fetch(t) PROVE TypeInv'
  <1>0. /\ th[t] \in Locals /\ InRange(th[t]) /\ slot[th[t].s] \in Images
        /\ th[t].snap \in Images /\ th[t].i \in 0 .. 3 /\ th[t].spins \in Nat
    BY Here DEF Locals
  <1>1. CASE LoadBefore(t)
    <2> DEFINE control == slot[th[t].s][2]
    <2> DEFINE q == [th[t] EXCEPT !.pc = "load", !.i = 0, !.snap[2] = control]
    <2>1. q \in Locals /\ InRange(q)
      <3>1. control \in Control
        BY <1>0 DEF Images
      <3>2. [th[t].snap EXCEPT ![2] = control] \in Images
        BY <1>0, <3>1, StoreControlType
      <3>3. q = [th[t] EXCEPT !.pc = "load", !.i = 0, !.snap = [th[t].snap EXCEPT ![2] = control]]
        BY <1>0 DEF Locals
      <3>4. 0 \in 0 .. 3 /\ "load" \in PCs
        BY DEF PCs
      <3>5. q \in Locals
        BY <1>0, <3>2, <3>3, <3>4 DEF Locals
      <3> QED
        BY <1>0, <3>3, <3>5 DEF Locals, InRange, Writing
    <2>2. [th[t] EXCEPT !.spins = @ + 1] \in Locals /\ InRange([th[t] EXCEPT !.spins = @ + 1])
      BY <1>0 DEF Locals, InRange
    <2>3. /\ [th[t] EXCEPT !.pc = "claimant", !.spins = 0] \in Locals
          /\ InRange([th[t] EXCEPT !.pc = "claimant", !.spins = 0])
      BY <1>0 DEF Locals, InRange, PCs, Writing
    <2>4. CASE control.gen % 2 = 0
      BY <1>1, <2>1, <2>4, LocalType DEF LoadBefore
    <2>5. CASE control.gen % 2 # 0 /\ th[t].spins < SpinLimit
      BY <1>1, <2>2, <2>5, LocalType DEF LoadBefore
    <2>6. CASE control.gen % 2 # 0 /\ ~(th[t].spins < SpinLimit)
      BY <1>1, <2>3, <2>6, LocalType DEF LoadBefore
    <2> QED
      BY <2>4, <2>5, <2>6
  <1>2. CASE LoadWord(t)
    <2> DEFINE snap == [th[t].snap EXCEPT ![th[t].i] = slot[th[t].s][th[t].i]]
    <2> DEFINE pc == IF th[t].i = 3 THEN "after" ELSE "load"
    <2> DEFINE i == CASE th[t].i = 0 -> 1 [] th[t].i = 1 -> 3 [] OTHER -> 0
    <2>1. snap \in Images
      BY <1>0, WordType
    <2>2. th[t].i \in {0, 1, 3} /\ i \in {0, 1, 3} /\ pc \in {"after", "load"}
      BY <1>2, <1>0 DEF LoadWord, InRange
    <2>3. Go(t, [th[t] EXCEPT !.snap = snap, !.pc = pc, !.i = i]) /\ Local
      BY <1>2, <1>0 DEF LoadWord, Go, Locals
    <2> HIDE DEF snap, pc, i
    <2> DEFINE q == [th[t] EXCEPT !.snap = snap, !.pc = pc, !.i = i]
    <2>4. q \in Locals
      <3>1. i \in 0 .. 3 /\ pc \in PCs
        BY <2>2 DEF PCs
      <3> QED
        BY <1>0, <2>1, <3>1 DEF Locals
    <2>5. InRange(q)
      <3>1. q.op = th[t].op /\ q.kind = th[t].kind /\ q.i = i /\ q.pc = pc
        BY <1>0 DEF Locals
      <3> QED
        BY <1>0, <2>2, <3>1 DEF InRange, Writing
    <2> QED
      BY <2>3, <2>4, <2>5, LocalType
  <1>3. CASE LoadAfter(t)
    <2>1. \A pc \in {"got", "before"} :
            [th[t] EXCEPT !.pc = pc] \in Locals /\ InRange([th[t] EXCEPT !.pc = pc])
      BY <1>0, JumpType DEF PCs, Writing
    <2> QED
      BY <1>3, <2>1, LocalType DEF LoadAfter, GoTo
  <1>4. CASE Return(t)
    BY <1>4, IdleType, LocalType DEF Return
  <1> QED
    BY <1>1, <1>2, <1>3, <1>4 DEF Fetch

\* The calls, and processes that start and die.
LEMMA CallType ==
  ASSUME TypeInv, NEW t \in Threads, NEW s \in Slots,
         Read(t, s) \/ \E kind \in Kinds : Write(t, s, kind)
  PROVE  TypeInv'
  <1>a. /\ claim \in Pids /\ owner \in Pids /\ ownerStart \in Nat /\ slot \in [Slots -> Images]
        /\ jr \in Journals /\ hist \in [Slots -> Seq(Versions)]
        /\ (\A x \in Slots : hist[x] # <<>>)
        /\ begun \in Nat /\ reads \in Nat /\ crashes \in Nat
        /\ mended \in {"none", "some", "torn"}
    BY DEF TypeInv
  <1>1. CASE Read(t, s)
    <2> DEFINE r == [IdleThread EXCEPT !.pc = "before", !.op = "read", !.s = s,
                                       !.from = Len(hist[s])]
    <2>1. Len(hist[s]) \in Nat
      BY <1>a
    <2>2. r \in Locals /\ InRange(r)
      BY <2>1, IdleType DEF Locals, InRange, PCs, Writing
    <2> QED
      BY <1>1, <2>2, <1>a, GoType DEF Read, Header, Data
  <1>2. ASSUME NEW kind \in Kinds, Write(t, s, kind) PROVE TypeInv'
    <2> DEFINE r == [IdleThread EXCEPT !.pc = "claimant", !.op = "write", !.s = s,
                                       !.kind = kind, !.v = begun + 1]
    <2>1. begun + 1 \in Nat
      BY <1>a
    <2>2. r \in Locals
      BY <2>1, IdleType DEF Locals, PCs
    <2>3. r.kind = kind /\ r.pc = "claimant"
      BY IdleType DEF Locals
    <2>4. InRange(r)
      BY <2>3 DEF InRange, Writing
    <2> QED
      BY <1>2, <2>1, <2>2, <2>4, <1>a, GoType DEF Write, Header, Data
  <1> QED
    BY <1>1, <1>2

LEMMA ProcType == ASSUME TypeInv, NEW p \in Procs, Spawn(p) \/ Die(p) PROVE TypeInv'
  <1>1. th' \in [Threads -> Locals] /\ \A t \in Threads : InRange(th'[t])
    BY IdleType DEF TypeInv, Spawn, Die
  <1>2. /\ proc' \in [Procs -> {"new", "up", "dead"}] /\ crashes' \in Nat
        /\ mended' \in {"none", "some", "torn"}
    <2>1. /\ proc \in [Procs -> {"new", "up", "dead"}] /\ crashes \in Nat
          /\ mended \in {"none", "some", "torn"}
      BY DEF TypeInv
    <2>2. CASE Spawn(p)
      BY <2>1, <2>2 DEF Spawn
    <2>3. CASE Die(p)
      <3>1. /\ proc' = [proc EXCEPT ![p] = "dead"] /\ crashes' = crashes + 1
            /\ mended' \in {mended, "torn"}
        BY <2>3 DEF Die
      <3> QED
        BY <2>1, <3>1
    <2> QED
      BY <2>2, <2>3
  <1>3. UNCHANGED <<slot, jr, claim, owner, ownerStart, hist, begun, reads>>
    BY DEF Spawn, Die
  <1> QED
    BY <1>1, <1>2, <1>3 DEF TypeInv

\* Every step keeps the types.
LEMMA NextType == TypeInv /\ [Next]_vars => TypeInv'
  <1> SUFFICES ASSUME TypeInv, [Next]_vars PROVE TypeInv'
    OBVIOUS
  <1>1. ASSUME NEW p \in Procs, Spawn(p) \/ Die(p) PROVE TypeInv'
    BY <1>1, ProcType
  <1>2. ASSUME NEW t \in Threads, NEW s \in Slots,
               Read(t, s) \/ \E kind \in Kinds : Write(t, s, kind)
        PROVE  TypeInv'
    BY <1>2, CallType
  <1>3. ASSUME NEW t \in Threads, Step(t) PROVE TypeInv'
    BY <1>3, AcquireType, RecoverType, UpdateType, FetchType DEF Step
  <1>4. CASE UNCHANGED vars
    BY <1>4 DEF TypeInv, vars
  <1> QED
    BY <1>1, <1>2, <1>3, <1>4 DEF Next

\* Header words, journal, slots and locals keep their types (memh/layout.rs).
THEOREM TypeCorrect == Spec => []TypeInv
  BY InitType, NextType, PTL DEF Spec

(***************************************************************************)
(* Mutual exclusion.  A thread that holds writer_claim is the only one to  *)
(* judge the owner and to name itself; the one it judges cannot be mistaken *)
(* for another, because only the claim's holder replaces it.               *)
(***************************************************************************)
\* A PID has been given to a second process.
PidReused ==
    \E p, q \in Procs : /\ p # q /\ PidOf[p] = PidOf[q]
                        /\ proc[p] # "new" /\ proc[q] # "new"

\* Between winning the compare_exchange of writer_claim and storing 0 there.
Claims(t) == th[t].pc \in {"owner", "ownerStart", "judge", "giveUp", "setStart", "setOwner",
                           "unclaim"}

\* The PIDs of processes that have run.
Seen == {PidOf[p] : p \in {q \in Procs : proc[q] # "new"}} \cup {0}

\* Running threads belong to running processes, and header and locals name
\* processes that have run.
Alive ==
    /\ \A t \in Threads : th[t].pc # "off" => proc[ProcOf[t]] = "up"
    /\ claim \in Seen /\ owner \in Seen
    /\ \A t \in Threads : th[t].word \in Seen

\* The claim is its holder's; one that is about to be cleared is a dead process's.
ClaimSound ==
    /\ \A t \in Threads : Claims(t) => claim = Pid(t)
    /\ \A t, u \in Threads : Claims(t) /\ Claims(u) => t = u
    /\ \A t \in Threads : th[t].pc = "unstick" => Up(th[t].word) = {}

\* The ownership is its holder's, and the holder of the claim that has found
\* nobody, or a dead owner, has found the truth.
OwnerSound ==
    /\ \A t \in Threads : Owns(t) => owner = Pid(t) /\ ownerStart \in {0, Start(t)}
    /\ \A t \in Threads : th[t].pc = "setOwner" => ownerStart = Start(t)
    /\ \A t, u \in Threads : Owns(t) =>
          /\ th[u].pc \notin {"setStart", "setOwner"}
          /\ th[u].pc \in {"ownerStart", "judge"} => th[u].word = Pid(t)
          /\ th[u].pc = "judge" => th[u].start \in {0, Start(t)}

MutexInv == Alive /\ ClaimSound /\ OwnerSound /\ MutualExclusion

\* In the beginning nobody has the claim or the ownership.
LEMMA InitMutex == Init => MutexInv
  <1> SUFFICES ASSUME Init PROVE MutexInv
    OBVIOUS
  <1>1. \A t \in Threads : /\ th[t].pc \in {"idle", "off"} /\ th[t].word = 0
                           /\ th[t].pc # "off" => proc[ProcOf[t]] = "up"
    BY SlotAssumption DEF Init, IdleThread, OffThread
  <1>2. claim \in Seen /\ owner \in Seen /\ 0 \in Seen
    BY DEF Init, Seen
  <1> QED
    BY <1>1, <1>2 DEF MutexInv, Alive, ClaimSound, OwnerSound, MutualExclusion, Claims, Owns

\* A step of one thread that leaves the header alone and wins neither the claim nor
\* the ownership, when what it has found out is true.
LEMMA QuietStep ==
  ASSUME TypeInv, MutexInv, NEW t \in Threads, NEW r \in Locals, Go(t, r), proc' = proc, Header,
         th[t].pc # "off", r.word \in Seen,
         Claims(t)' => Claims(t), Owns(t)' => Owns(t),
         r.pc = "unstick" => Up(r.word) = {},
         r.pc # "setOwner",
         r.pc = "setStart" => \A u \in Threads : ~Owns(u),
         r.pc \in {"ownerStart", "judge"} => \A u \in Threads : Owns(u) => r.word = Pid(u),
         r.pc = "judge" => \A u \in Threads : Owns(u) => r.start \in {0, Start(u)}
  PROVE  MutexInv'
  <1>1. th'[t] = r /\ \A u \in Threads : u # t => th'[u] = th[u]
    BY DEF TypeInv, Go
  <1>2. \A u \in Threads : /\ Claims(u)' => Claims(u)
                           /\ Owns(u)' => Owns(u)
    BY <1>1 DEF Claims, Owns
  <1>3. Alive'
    BY <1>1 DEF MutexInv, Alive, Seen, Header
  <1>4. ClaimSound'
    BY <1>1, <1>2 DEF MutexInv, ClaimSound, Header, Up, Pid
  <1>5. OwnerSound'
    BY <1>1, <1>2 DEF MutexInv, OwnerSound, Header, Pid, Start
  <1>6. MutualExclusion'
    BY <1>2 DEF MutexInv, MutualExclusion
  <1> QED
    BY <1>3, <1>4, <1>5, <1>6 DEF MutexInv

\* Where acquire_writer returns to, as the program counter and the locals say.
LEMMA ReturnTo ==
  ASSUME NEW r \in Locals
  PROVE  /\ Failed(r).pc \in {"idle", "before"} /\ Failed(r).word = 0
         /\ TryAgain(r).pc \in {"idle", "before", "claimant"} /\ TryAgain(r).word = 0
         /\ Acquired(r).pc \in {"journal", "dropStart"} /\ Acquired(r).word = 0
  BY DEF Failed, TryAgain, Acquired, IdleThread, Locals

\* acquire_writer: the steps that load or judge.
LEMMA JudgeMutex ==
  ASSUME TypeInv, MutexInv, NEW t \in Threads,
         LoadClaim(t) \/ JudgeClaim(t) \/ LoadOwner(t) \/ LoadOwnerStart(t) \/ JudgeOwner(t)
  PROVE  MutexInv'
  <1>0. /\ th[t] \in Locals /\ InRange(th[t]) /\ th'[t] \in Locals /\ proc' = proc /\ Header
        /\ Go(t, th'[t]) /\ 0 \in Seen /\ th[t].word \in Seen
    <2>1. th'[t] \in Locals
      BY AcquireType DEF Acquire, TypeInv
    <2> QED
      BY <2>1, Here DEF TypeInv, LoadClaim, JudgeClaim, LoadOwner, LoadOwnerStart, JudgeOwner,
           Local, Bounds, Go, GoTo, Seen, MutexInv, Alive
  <1>a. \A u \in Threads : /\ Owns(u) => owner = Pid(u) /\ ownerStart \in {0, Start(u)}
                           /\ Owns(u) => proc[ProcOf[u]] = "up" /\ Pid(u) # 0
    BY Here DEF MutexInv, OwnerSound, Alive, Owns
  <1>1. CASE LoadClaim(t)
    <2>1. th'[t].pc \in {"cas", "exists"} /\ th'[t].word \in Seen
      BY <1>0, <1>1 DEF LoadClaim, Go, TypeInv, Locals, MutexInv, Alive
    <2> QED
      BY <1>0, <1>1, <2>1, QuietStep DEF LoadClaim, Claims, Owns
  <1>2. CASE JudgeClaim(t)
    <2>1. CASE process_exists(th[t].word)
      <3>1. th'[t] = Failed(th[t])
        BY <1>2, <2>1 DEF JudgeClaim, Go, TypeInv
      <3> QED
        BY <1>0, <1>2, <3>1, ReturnTo, QuietStep DEF JudgeClaim, Claims, Owns
    <2>2. CASE ~process_exists(th[t].word)
      <3>1. th'[t].pc = "unstick" /\ th'[t].word = th[t].word
        BY <1>0, <1>2, <2>2 DEF JudgeClaim, Go, TypeInv, Locals
      <3> QED
        BY <1>0, <1>2, <2>2, <3>1, QuietStep DEF JudgeClaim, Claims, Owns, process_exists
    <2> QED
      BY <2>1, <2>2
  <1>3. CASE LoadOwner(t)
    <2>1. CASE owner = 0
      <3>1. th'[t].pc = "setStart" /\ th'[t].word = 0
        BY <1>0, <1>3, <2>1 DEF LoadOwner, Go, TypeInv, Locals
      <3> QED
        BY <1>0, <1>3, <1>a, <2>1, <3>1, QuietStep DEF LoadOwner, Claims, Owns
    <2>2. CASE owner # 0
      <3>1. th'[t].pc = "ownerStart" /\ th'[t].word = owner /\ owner \in Seen
        BY <1>0, <1>3, <2>2 DEF LoadOwner, Go, TypeInv, Locals, MutexInv, Alive
      <3> QED
        BY <1>0, <1>3, <1>a, <3>1, QuietStep DEF LoadOwner, Claims, Owns
    <2> QED
      BY <2>1, <2>2
  <1>4. CASE LoadOwnerStart(t)
    <2>1. th'[t].pc = "judge" /\ th'[t].word = th[t].word /\ th'[t].start = ownerStart
      BY <1>0, <1>4 DEF LoadOwnerStart, Go, TypeInv, Locals
    <2>2. \A u \in Threads : Owns(u) => th[t].word = Pid(u)
      BY <1>4 DEF LoadOwnerStart, MutexInv, OwnerSound
    <2> QED
      BY <1>0, <1>4, <1>a, <2>1, <2>2, QuietStep DEF LoadOwnerStart, Claims, Owns
  <1>5. CASE JudgeOwner(t)
    <2>1. CASE process_instance_alive(th[t].word, th[t].start)
      <3>1. th'[t].pc = "giveUp" /\ th'[t].word = th[t].word
        BY <1>0, <1>5, <2>1 DEF JudgeOwner, GoTo, Go, TypeInv, Locals
      <3> QED
        BY <1>0, <1>5, <3>1, QuietStep DEF JudgeOwner, Claims, Owns
    <2>2. CASE ~process_instance_alive(th[t].word, th[t].start)
      <3>1. th'[t].pc = "setStart" /\ th'[t].word = th[t].word
        BY <1>0, <1>5, <2>2 DEF JudgeOwner, GoTo, Go, TypeInv, Locals
      <3>2. ASSUME NEW u \in Threads, Owns(u) PROVE FALSE
        <4>1. th[t].word = Pid(u) /\ th[t].start \in {0, Start(u)}
          BY <1>5, <3>2 DEF JudgeOwner, MutexInv, OwnerSound
        <4>2. ProcOf[u] \in Up(th[t].word)
          BY <1>a, <3>2, <4>1, SlotAssumption DEF Up, Pid
        <4> QED
          BY <2>2, <4>1, <4>2 DEF process_instance_alive, Start
      <3> QED
        BY <1>0, <1>5, <3>1, <3>2, QuietStep DEF JudgeOwner, Claims, Owns
    <2> QED
      BY <2>1, <2>2
  <1> QED
    BY <1>1, <1>2, <1>3, <1>4, <1>5

\* A thread that is at work is not stopped, and what it stores names its process.
LEMMA WorkerUp ==
  ASSUME TypeInv, MutexInv, NEW t \in Threads, th[t].pc # "off"
  PROVE  /\ proc[ProcOf[t]] = "up" /\ Pid(t) # 0 /\ Pid(t) \in Seen
         /\ ProcOf[t] \in Up(Pid(t))
  BY SlotAssumption DEF TypeInv, MutexInv, Alive, Pid, Seen, Up

\* acquire_writer: the steps that store to the claim or the ownership.
LEMMA ClaimMutex ==
  ASSUME TypeInv, MutexInv, NEW t \in Threads,
         Unstick(t) \/ Cas(t) \/ GiveUp(t) \/ SetStart(t) \/ SetOwner(t) \/ FreeClaim(t)
  PROVE  MutexInv'
  <1>0. /\ th[t] \in Locals /\ InRange(th[t]) /\ th'[t] \in Locals /\ proc' = proc
        /\ Go(t, th'[t]) /\ 0 \in Seen /\ th[t].word \in Seen
        /\ \A u \in Threads : u # t => th'[u] = th[u]
    <2>1. th'[t] \in Locals
      BY AcquireType DEF Acquire, TypeInv
    <2> QED
      BY <2>1, Here DEF TypeInv, Unstick, Cas, GiveUp, SetStart, SetOwner, FreeClaim,
           Bounds, Go, GoTo, Seen, MutexInv, Alive
  <1>w. /\ proc[ProcOf[t]] = "up" /\ Pid(t) # 0 /\ Pid(t) \in Seen
    <2>1. th[t].pc # "off"
      BY DEF Unstick, Cas, GiveUp, SetStart, SetOwner, FreeClaim
    <2> QED
      BY <2>1, WorkerUp
  <1>1. CASE Unstick(t)
    <2>1. /\ th'[t].pc \in {"idle", "before", "claimant"} /\ th'[t].word = 0
          /\ claim' \in {claim, 0} /\ owner' = owner /\ ownerStart' = ownerStart
      BY <1>0, <1>1, ReturnTo DEF Unstick, Go, TypeInv
    <2>2. ASSUME NEW u \in Threads, Claims(u) PROVE claim' = claim
      <3>1. claim = Pid(u) /\ Up(Pid(u)) # {}
        BY <2>2, WorkerUp DEF MutexInv, ClaimSound, Claims
      <3>2. Up(th[t].word) = {}
        BY <1>1 DEF Unstick, MutexInv, ClaimSound
      <3> QED
        BY <1>1, <3>1, <3>2 DEF Unstick
    <2>3. /\ (\A u \in Threads : (Claims(u)' <=> u # t /\ Claims(u)))
          /\ (\A u \in Threads : (Owns(u)' <=> u # t /\ Owns(u)))
      BY <1>0, <1>1, <2>1 DEF Claims, Owns, Unstick
    <2>4. Alive'
      BY <1>0, <1>w, <2>1 DEF MutexInv, Alive, Seen
    <2>5. ClaimSound'
      BY <1>0, <2>1, <2>2, <2>3 DEF MutexInv, ClaimSound, Up, Pid
    <2>6. OwnerSound' /\ MutualExclusion'
      BY <1>0, <2>1, <2>3 DEF MutexInv, OwnerSound, MutualExclusion, Pid, Start
    <2> QED
      BY <2>4, <2>5, <2>6 DEF MutexInv
  <1>2. CASE Cas(t)
    <2>1. CASE claim = 0
      <3>1. /\ th'[t].pc = "owner" /\ th'[t].word = th[t].word
            /\ claim' = Pid(t) /\ owner' = owner /\ ownerStart' = ownerStart
        BY <1>0, <1>2, <2>1 DEF Cas, GoTo, Go, TypeInv, Locals
      <3>2. \A u \in Threads : ~Claims(u)
        <4>1. \A u \in Threads : Claims(u) => claim = Pid(u) /\ Pid(u) # 0
          BY WorkerUp DEF MutexInv, ClaimSound, Claims
        <4> QED
          BY <2>1, <4>1
      <3>3. /\ (\A u \in Threads : (Claims(u)' <=> u = t))
            /\ (\A u \in Threads : (Owns(u)' <=> u # t /\ Owns(u)))
        BY <1>0, <1>2, <3>1, <3>2 DEF Claims, Owns, Cas
      <3>4. Alive'
        BY <1>0, <1>w, <3>1 DEF MutexInv, Alive, Seen
      <3>5. ClaimSound'
        BY <1>0, <3>1, <3>3 DEF MutexInv, ClaimSound, Up, Pid
      <3>6. OwnerSound' /\ MutualExclusion'
        BY <1>0, <3>1, <3>3 DEF MutexInv, OwnerSound, MutualExclusion, Pid, Start
      <3> QED
        BY <3>4, <3>5, <3>6 DEF MutexInv
    <2>2. CASE claim # 0
      <3>1. th'[t] = TryAgain(th[t]) /\ Header
        BY <1>2, <2>2 DEF Cas, Go, TypeInv, Header
      <3> QED
        BY <1>0, <1>2, <3>1, ReturnTo, QuietStep DEF Cas, Claims, Owns
    <2> QED
      BY <2>1, <2>2
  <1>3. CASE GiveUp(t)
    <2>1. /\ th'[t].pc \in {"idle", "before"} /\ th'[t].word = 0
          /\ claim' = 0 /\ owner' = owner /\ ownerStart' = ownerStart
      BY <1>0, <1>3, ReturnTo DEF GiveUp, Go, TypeInv
    <2>2. /\ (\A u \in Threads : ~Claims(u)')
          /\ (\A u \in Threads : (Owns(u)' <=> u # t /\ Owns(u)))
      BY <1>0, <1>3, <2>1 DEF Claims, Owns, GiveUp, MutexInv, ClaimSound
    <2>3. Alive'
      BY <1>0, <1>w, <2>1 DEF MutexInv, Alive, Seen
    <2>4. ClaimSound'
      BY <1>0, <2>1, <2>2 DEF MutexInv, ClaimSound, Up, Pid
    <2>5. OwnerSound' /\ MutualExclusion'
      BY <1>0, <2>1, <2>2 DEF MutexInv, OwnerSound, MutualExclusion, Pid, Start
    <2> QED
      BY <2>3, <2>4, <2>5 DEF MutexInv
  <1>4. CASE SetStart(t)
    <2>1. /\ th'[t].pc = "setOwner" /\ th'[t].word = th[t].word
          /\ claim' = claim /\ owner' = owner /\ ownerStart' = Start(t)
      BY <1>0, <1>4 DEF SetStart, GoTo, Go, TypeInv, Locals
    <2>2. /\ (\A u \in Threads : (Claims(u)' <=> Claims(u)))
          /\ (\A u \in Threads : ~Owns(u) /\ ~Owns(u)')
      BY <1>0, <1>4, <2>1 DEF Claims, Owns, SetStart, MutexInv, OwnerSound
    <2>3. Alive'
      BY <1>0, <1>w, <2>1 DEF MutexInv, Alive, Seen
    <2>4. ClaimSound'
      BY <1>0, <2>1, <2>2 DEF MutexInv, ClaimSound, Up, Pid
    <2>5. \A u \in Threads : th'[u].pc = "setOwner" => u = t
      BY <1>0, <1>4 DEF SetStart, MutexInv, ClaimSound, Claims
    <2>6. OwnerSound' /\ MutualExclusion'
      BY <1>0, <2>1, <2>2, <2>5 DEF MutexInv, OwnerSound, MutualExclusion, Pid, Start
    <2> QED
      BY <2>3, <2>4, <2>6 DEF MutexInv
  <1>5. CASE SetOwner(t)
    <2>1. /\ th'[t].pc = "unclaim" /\ th'[t].word = th[t].word
          /\ claim' = claim /\ owner' = Pid(t) /\ ownerStart' = ownerStart
          /\ ownerStart = Start(t)
      BY <1>0, <1>5 DEF SetOwner, GoTo, Go, TypeInv, Locals, MutexInv, OwnerSound
    <2>2. /\ (\A u \in Threads : (Claims(u)' <=> Claims(u)))
          /\ (\A u \in Threads : (Owns(u)' <=> u = t))
      BY <1>0, <1>5, <2>1 DEF Claims, Owns, SetOwner, MutexInv, OwnerSound
    <2>3. Alive'
      BY <1>0, <1>w, <2>1 DEF MutexInv, Alive, Seen
    <2>4. ClaimSound'
      BY <1>0, <2>1, <2>2 DEF MutexInv, ClaimSound, Up, Pid
    <2>5. \A u \in Threads :
            th'[u].pc \notin {"setStart", "setOwner", "ownerStart", "judge"}
      BY <1>0, <1>5, <2>1 DEF SetOwner, MutexInv, ClaimSound, Claims
    <2>6. OwnerSound' /\ MutualExclusion'
      BY <1>0, <2>1, <2>2, <2>5 DEF MutexInv, OwnerSound, MutualExclusion, Pid, Start
    <2> QED
      BY <2>3, <2>4, <2>6 DEF MutexInv
  <1>6. CASE FreeClaim(t)
    <2>1. /\ th'[t].pc = "jstate" /\ th'[t].word = th[t].word
          /\ claim' = 0 /\ owner' = owner /\ ownerStart' = ownerStart
      BY <1>0, <1>6 DEF FreeClaim, GoTo, Go, TypeInv, Locals
    <2>2. /\ (\A u \in Threads : ~Claims(u)')
          /\ (\A u \in Threads : (Owns(u)' <=> Owns(u)))
      BY <1>0, <1>6, <2>1 DEF Claims, Owns, FreeClaim, MutexInv, ClaimSound
    <2>3. Alive'
      BY <1>0, <1>w, <2>1 DEF MutexInv, Alive, Seen
    <2>4. ClaimSound'
      BY <1>0, <2>1, <2>2 DEF MutexInv, ClaimSound, Up, Pid
    <2>5. OwnerSound' /\ MutualExclusion'
      BY <1>0, <2>1, <2>2 DEF MutexInv, OwnerSound, MutualExclusion, Pid, Start
    <2> QED
      BY <2>3, <2>4, <2>5 DEF MutexInv
  <1> QED
    BY <1>1, <1>2, <1>3, <1>4, <1>5, <1>6

\* recover_slot_journal, the update under the journal and read_slot load and store
\* nothing of the header.
LEMMA DataMutex ==
  ASSUME TypeInv, MutexInv, NEW t \in Threads,
         \/ Recover(t) \/ Fetch(t) \/ Journal(t) \/ JournalOff(t) \/ JournalOn(t)
         \/ BeginSlot(t) \/ StoreWord(t) \/ FinishSlot(t) \/ JournalDone(t)
  PROVE  MutexInv'
  <1>0. /\ th[t] \in Locals /\ th'[t] \in Locals /\ proc' = proc /\ Header
        /\ Go(t, th'[t]) /\ 0 \in Seen /\ th[t].word \in Seen
    <2>1. th'[t] \in Locals
      BY RecoverType, FetchType, UpdateType DEF Update, TypeInv
    <2> QED
      BY <2>1, Here DEF TypeInv, Seen, MutexInv, Alive, Go, GoTo, Local, Bounds, Header,
           Recover, LoadJournal, JudgeSlot, Restore, ClearJournal,
           Fetch, LoadBefore, LoadWord, LoadAfter, Return,
           Journal, JournalOff, JournalOn, BeginSlot, StoreWord, FinishSlot, JournalDone
  <1>1. CASE Recover(t)
    <2>1. th[t].pc \in {"jstate", "jgen", "restore", "jclear"}
      BY <1>1 DEF Recover, LoadJournal, JudgeSlot, Restore, ClearJournal
    <2>2. /\ th'[t].pc \in {"jgen", "restore", "jclear", "journal", "dropStart"}
          /\ th'[t].word \in {0, th[t].word}
      <3>1. CASE LoadJournal(t)
        <4>1. th'[t] = IF jr.state = 0 THEN Acquired(th[t]) ELSE [th[t] EXCEPT !.pc = "jgen"]
          BY <3>1 DEF LoadJournal, Go, TypeInv
        <4>2. [th[t] EXCEPT !.pc = "jgen"].pc = "jgen" /\ [th[t] EXCEPT !.pc = "jgen"].word = th[t].word
          BY <1>0 DEF Locals
        <4> QED
          BY <1>0, <4>1, <4>2, ReturnTo
      <3>2. CASE JudgeSlot(t)
        BY <1>0, <3>2 DEF JudgeSlot, Go, TypeInv, Locals
      <3>3. CASE Restore(t)
        BY <1>0, <3>3 DEF Restore, Go, TypeInv, Locals
      <3>4. CASE ClearJournal(t)
        BY <1>0, <3>4, ReturnTo DEF ClearJournal, Go, TypeInv
      <3> QED
        BY <1>1, <3>1, <3>2, <3>3, <3>4 DEF Recover
    <2> QED
      BY <1>0, <2>1, <2>2, QuietStep DEF Claims, Owns
  <1>2. CASE Fetch(t)
    <2>1. th[t].pc \in {"before", "load", "after", "got"}
      BY <1>2 DEF Fetch, LoadBefore, LoadWord, LoadAfter, Return
    <2>2. /\ th'[t].pc \in {"idle", "claimant", "before", "load", "after", "got"}
          /\ th'[t].word \in {0, th[t].word}
      <3>1. CASE LoadBefore(t)
        BY <1>0, <3>1 DEF LoadBefore, Go, TypeInv, Locals
      <3>2. CASE LoadWord(t)
        BY <1>0, <3>2 DEF LoadWord, Go, TypeInv, Locals
      <3>3. CASE LoadAfter(t)
        BY <1>0, <3>3 DEF LoadAfter, GoTo, Go, TypeInv, Locals
      <3>4. CASE Return(t)
        BY <1>0, <3>4 DEF Return, Go, TypeInv, Locals, IdleThread
      <3> QED
        BY <1>2, <3>1, <3>2, <3>3, <3>4 DEF Fetch
    <2> QED
      BY <1>0, <2>1, <2>2, QuietStep DEF Claims, Owns
  <1>3. CASE \/ Journal(t) \/ JournalOff(t) \/ JournalOn(t)
             \/ BeginSlot(t) \/ StoreWord(t) \/ FinishSlot(t) \/ JournalDone(t)
    <2> DEFINE Before == th[t].pc \in {"journal", "joff", "jon", "odd", "store", "finish", "jdone"}
    <2> DEFINE After == /\ th'[t].pc \in {"journal", "joff", "jon", "odd", "store", "finish",
                                          "jdone", "dropStart"}
                       /\ th'[t].word = th[t].word
    <2>1. ASSUME Journal(t) PROVE Before /\ After
      BY <1>0, <2>1 DEF Journal, Go, GoTo, TypeInv, Locals
    <2>2. ASSUME JournalOff(t) PROVE Before /\ After
      BY <1>0, <2>2 DEF JournalOff, Go, GoTo, TypeInv, Locals
    <2>3. ASSUME JournalOn(t) PROVE Before /\ After
      BY <1>0, <2>3 DEF JournalOn, Go, GoTo, TypeInv, Locals
    <2>4. ASSUME BeginSlot(t) PROVE Before /\ After
      BY <1>0, <2>4 DEF BeginSlot, Go, GoTo, TypeInv, Locals
    <2>5. ASSUME StoreWord(t) PROVE Before /\ After
      BY <1>0, <2>5 DEF StoreWord, Go, GoTo, TypeInv, Locals
    <2>6. ASSUME FinishSlot(t) PROVE Before /\ After
      BY <1>0, <2>6 DEF FinishSlot, Go, GoTo, TypeInv, Locals
    <2>7. ASSUME JournalDone(t) PROVE Before /\ After
      BY <1>0, <2>7 DEF JournalDone, Go, GoTo, TypeInv, Locals
    <2>8. Before /\ After
      BY <1>3, <2>1, <2>2, <2>3, <2>4, <2>5, <2>6, <2>7
    <2> QED
      BY <1>0, <2>8, QuietStep DEF Claims, Owns
  <1> QED
    BY <1>1, <1>2, <1>3

\* The drop of the guard: the start time first, so that whoever loads it with this
\* PID still finds a running process.
LEMMA DropMutex ==
  ASSUME TypeInv, MutexInv, NEW t \in Threads, DropStart(t) \/ DropOwner(t)
  PROVE  MutexInv'
  <1>0. /\ th[t] \in Locals /\ th'[t] \in Locals /\ proc' = proc
        /\ 0 \in Seen /\ th[t].word \in Seen /\ Owns(t) /\ claim' = claim
        /\ \A u \in Threads : u # t => th'[u] = th[u]
        /\ proc[ProcOf[t]] = "up"
    <2>1. th'[t] \in Locals
      BY UpdateType DEF Update, TypeInv
    <2> QED
      BY <2>1, Here, WorkerUp DEF TypeInv, DropStart, DropOwner, Bounds, Go, GoTo, Seen, MutexInv,
           Alive, Owns
  <1>1. CASE DropStart(t)
    <2>1. /\ th'[t].pc = "dropOwner" /\ th'[t].word = th[t].word
          /\ owner' = owner /\ ownerStart' = 0
      BY <1>0, <1>1 DEF DropStart, GoTo, Go, TypeInv, Locals
    <2>2. /\ (\A u \in Threads : (Claims(u)' <=> Claims(u)))
          /\ (\A u \in Threads : (Owns(u)' <=> Owns(u)))
      BY <1>0, <1>1, <2>1 DEF Claims, Owns, DropStart
    <2>3. Alive'
      BY <1>0, <2>1 DEF MutexInv, Alive, Seen
    <2>4. ClaimSound'
      BY <1>0, <2>1, <2>2 DEF MutexInv, ClaimSound, Up, Pid
    <2>5. OwnerSound' /\ MutualExclusion'
      BY <1>0, <2>1, <2>2 DEF MutexInv, OwnerSound, MutualExclusion, Pid, Start
    <2> QED
      BY <2>3, <2>4, <2>5 DEF MutexInv
  <1>2. CASE DropOwner(t)
    <2>1. /\ th'[t].pc \in {"idle", "before"} /\ th'[t].word \in {0, th[t].word}
          /\ owner' = 0 /\ ownerStart' = ownerStart
      BY <1>0, <1>2 DEF DropOwner, Go, TypeInv, Locals, IdleThread
    <2>2. /\ (\A u \in Threads : (Claims(u)' <=> u # t /\ Claims(u)))
          /\ (\A u \in Threads : ~Owns(u)')
      BY <1>0, <1>2, <2>1 DEF Claims, Owns, DropOwner, MutexInv, MutualExclusion
    <2>3. Alive'
      BY <1>0, <2>1 DEF MutexInv, Alive, Seen
    <2>4. ClaimSound'
      BY <1>0, <2>1, <2>2 DEF MutexInv, ClaimSound, Up, Pid
    <2>5. OwnerSound' /\ MutualExclusion'
      <3>1. \A u \in Threads : th'[u].pc # "setOwner"
        BY <1>0, <2>1 DEF MutexInv, OwnerSound
      <3> QED
        BY <2>1, <2>2, <3>1 DEF OwnerSound, MutualExclusion, Pid, Start
    <2> QED
      BY <2>3, <2>4, <2>5 DEF MutexInv
  <1> QED
    BY <1>1, <1>2

\* The calls.
LEMMA CallMutex ==
  ASSUME TypeInv, MutexInv, NEW t \in Threads, NEW s \in Slots,
         Read(t, s) \/ \E kind \in Kinds : Write(t, s, kind)
  PROVE  MutexInv'
  <1>1. th'[t] \in Locals
    BY CallType DEF TypeInv
  <1> DEFINE Begins == /\ proc' = proc /\ Header /\ Go(t, th'[t]) /\ th[t].pc = "idle"
                       /\ th'[t].pc \in {"before", "claimant"} /\ th'[t].word = 0 /\ 0 \in Seen
  <1>2. Begins
    <2>0. IdleThread \in Locals /\ IdleThread.word = 0 /\ 0 \in Seen
      BY IdleType DEF IdleThread, Seen
    <2>1. CASE Read(t, s)
      BY <2>0, <2>1 DEF TypeInv, Read, Go, Locals
    <2>2. ASSUME NEW kind \in Kinds, Write(t, s, kind) PROVE Begins
      BY <2>0, <2>2 DEF TypeInv, Write, Go, Locals
    <2> QED
      BY <2>1, <2>2
  <1> QED
    BY <1>1, <1>2, QuietStep DEF Claims, Owns

\* A process that starts brings no work, and one that dies takes its work along:
\* what others have found out stays true as long as no PID is given again.
LEMMA ProcMutex ==
  ASSUME TypeInv, MutexInv, ~PidReused', NEW p \in Procs, Spawn(p) \/ Die(p)
  PROVE  MutexInv'
  <1>0. Header /\ IdleThread.pc = "idle" /\ OffThread.pc = "off" /\ 0 \in Seen
        /\ IdleThread.word = 0 /\ OffThread.word = 0
    BY DEF Spawn, Die, Header, IdleThread, OffThread, Seen
  <1>1. CASE Spawn(p)
    <2>1. /\ \A t \in Threads : th'[t] = IF ProcOf[t] = p THEN IdleThread ELSE th[t]
          /\ proc' = [proc EXCEPT ![p] = "up"] /\ proc[p] = "new"
      BY <1>1 DEF Spawn
    <2>2. Seen \subseteq Seen' /\ 0 \in Seen'
      BY <2>1 DEF TypeInv, Seen
    <2>3. PidOf[p] \notin Seen
      <3>1. PidOf[p] # 0
        BY SlotAssumption
      <3>2. ASSUME NEW q \in Procs, proc[q] # "new", PidOf[q] = PidOf[p] PROVE FALSE
        BY <2>1, <3>2 DEF PidReused, TypeInv
      <3> QED
        BY <3>1, <3>2 DEF Seen
    <2>4. \A w \in Seen : Up(w)' = Up(w)
      BY <2>1, <2>3 DEF TypeInv, Up
    <2>5. /\ \A t \in Threads : Claims(t)' => Claims(t) /\ th'[t] = th[t]
          /\ \A t \in Threads : Owns(t)' => Owns(t) /\ th'[t] = th[t]
      BY <1>0, <2>1 DEF Claims, Owns
    <2>6. Alive'
      <3>1. ASSUME NEW t \in Threads, th'[t].pc # "off" PROVE proc'[ProcOf[t]] = "up"
        <4>1. ProcOf[t] \in Procs /\ (ProcOf[t] = p \/ th'[t] = th[t])
          BY <2>1, SlotAssumption
        <4>2. th'[t] = th[t] => proc[ProcOf[t]] = "up"
          BY <3>1 DEF MutexInv, Alive
        <4> QED
          BY <2>1, <4>1, <4>2 DEF TypeInv
      <3>2. \A t \in Threads : th'[t].word \in Seen'
        BY <1>0, <2>1, <2>2 DEF MutexInv, Alive
      <3> QED
        BY <1>0, <2>2, <3>1, <3>2 DEF MutexInv, Alive, Header
    <2>7. ClaimSound'
      BY <1>0, <2>1, <2>4, <2>5 DEF MutexInv, ClaimSound, Alive, Header, Pid
    <2>8. OwnerSound' /\ MutualExclusion'
      BY <1>0, <2>1, <2>5 DEF MutexInv, OwnerSound, MutualExclusion, Header, Pid, Start
    <2> QED
      BY <2>6, <2>7, <2>8 DEF MutexInv
  <1>2. CASE Die(p)
    <2>1. /\ \A t \in Threads : th'[t] = IF ProcOf[t] = p THEN OffThread ELSE th[t]
          /\ proc' = [proc EXCEPT ![p] = "dead"] /\ proc[p] = "up"
      BY <1>2 DEF Die
    <2>2. Seen' = Seen /\ \A w \in Pids : Up(w)' \subseteq Up(w)
      BY <2>1 DEF TypeInv, Seen, Up
    <2>3. /\ \A t \in Threads : Claims(t)' => Claims(t) /\ th'[t] = th[t]
          /\ \A t \in Threads : Owns(t)' => Owns(t) /\ th'[t] = th[t]
      BY <1>0, <2>1 DEF Claims, Owns
    <2>4. Alive'
      BY <1>0, <2>1, <2>2, SlotAssumption DEF MutexInv, Alive, Header, TypeInv
    <2>5. ClaimSound'
      <3>1. \A t \in Threads : th[t].word \in Pids
        BY DEF TypeInv, Locals
      <3> QED
        BY <1>0, <2>1, <2>2, <2>3, <3>1 DEF MutexInv, ClaimSound, Header, Pid
    <2>6. OwnerSound' /\ MutualExclusion'
      BY <1>0, <2>1, <2>3 DEF MutexInv, OwnerSound, MutualExclusion, Header, Pid, Start
    <2> QED
      BY <2>4, <2>5, <2>6 DEF MutexInv
  <1> QED
    BY <1>1, <1>2

\* A step of a thread is about no other thread, and starts and stops nobody.
LEMMA StepQuiet ==
  ASSUME TypeInv, NEW t \in Threads, Step(t)
  PROVE  /\ proc' = proc /\ (Restore(t) \/ mended' = mended)
         /\ \A u \in Threads \ {t} : th'[u] = th[u]
  <1>1. proc' = proc /\ (Restore(t) \/ mended' = mended) /\ \E r : Go(t, r)
    <2>1. CASE Acquire(t)
      BY <2>1 DEF Acquire, Bounds, Local, GoTo, LoadClaim, JudgeClaim, Unstick, Cas, LoadOwner,
           LoadOwnerStart, JudgeOwner, GiveUp, SetStart, SetOwner, FreeClaim
    <2>2. CASE Recover(t)
      BY <2>2 DEF Recover, Bounds, Local, LoadJournal, JudgeSlot, Restore, ClearJournal
    <2>3. CASE Update(t)
      BY <2>3 DEF Update, Bounds, GoTo, Journal, JournalOff, JournalOn, BeginSlot, StoreWord,
           FinishSlot, JournalDone, DropStart, DropOwner
    <2>4. CASE Fetch(t)
      BY <2>4 DEF Fetch, Bounds, Local, GoTo, LoadBefore, LoadWord, LoadAfter, Return
    <2> QED
      BY <2>1, <2>2, <2>3, <2>4 DEF Step
  <1> QED
    BY <1>1 DEF Go, TypeInv

\* A PID that has been given twice has been given twice for ever.
LEMMA ReusedStays == TypeInv /\ PidReused /\ [Next]_vars => PidReused'
  <1> SUFFICES ASSUME TypeInv, PidReused, [Next]_vars PROVE PidReused'
    OBVIOUS
  <1>1. \A p \in Procs : proc[p] # "new" => proc'[p] # "new"
    <2>1. CASE \E p \in Procs : Spawn(p) \/ Die(p)
      BY <2>1 DEF TypeInv, Spawn, Die
    <2>2. CASE proc' = proc
      BY <2>2
    <2>3. ASSUME NEW t \in Threads, NEW s \in Slots,
                 Read(t, s) \/ \E kind \in Kinds : Write(t, s, kind)
          PROVE  proc' = proc
      <3>1. ASSUME NEW kind \in Kinds, Write(t, s, kind) PROVE proc' = proc
        BY <3>1 DEF Write
      <3> QED
        BY <2>3, <3>1 DEF Read
    <2>4. ASSUME NEW t \in Threads, Step(t) PROVE proc' = proc
      BY <2>4, StepQuiet
    <2> QED
      BY <2>1, <2>2, <2>3, <2>4 DEF Next, vars
  <1> QED
    BY <1>1 DEF PidReused

\* Every step keeps the ownership exclusive, unless it gives a PID out again.
LEMMA NextMutex == TypeInv /\ MutexInv /\ ~PidReused' /\ [Next]_vars => MutexInv'
  <1> SUFFICES ASSUME TypeInv, MutexInv, ~PidReused', [Next]_vars PROVE MutexInv'
    OBVIOUS
  <1>1. ASSUME NEW p \in Procs, Spawn(p) \/ Die(p) PROVE MutexInv'
    BY <1>1, ProcMutex
  <1>2. ASSUME NEW t \in Threads, NEW s \in Slots,
               Read(t, s) \/ \E kind \in Kinds : Write(t, s, kind)
        PROVE  MutexInv'
    BY <1>2, CallMutex
  <1>3. ASSUME NEW t \in Threads, Step(t) PROVE MutexInv'
    BY <1>3, JudgeMutex, ClaimMutex, DataMutex, DropMutex DEF Step, Acquire, Update
  <1>4. CASE UNCHANGED vars
    BY <1>4 DEF vars, MutexInv, Alive, ClaimSound, OwnerSound, MutualExclusion, Claims, Owns,
         Seen, Up, Pid, Start
  <1> QED
    BY <1>1, <1>2, <1>3, <1>4 DEF Next

\* acquire_writer: as long as the system has given no PID out twice, at most one thread
\* of all processes touches the journal and the slots, whoever died with the claim or
\* the ownership.  A PID that comes back is the one thing that may break it: the
\* claim carries no start time.
THEOREM OwnershipExclusive == Spec => [](~PidReused => MutualExclusion)
  <1> DEFINE Inv == TypeInv /\ (~PidReused => MutexInv)
  <1>1. Init => Inv
    BY InitType, InitMutex
  <1>2. Inv /\ [Next]_vars => Inv'
    BY NextType, NextMutex, ReusedStays
  <1>3. Inv => (~PidReused => MutualExclusion)
    BY DEF MutexInv
  <1> QED
    BY <1>1, <1>2, <1>3, PTL DEF Spec

\* Among processes with PIDs of their own the ownership is exclusive without more.
THEOREM OwnershipExclusiveAlone ==
  (\A p, q \in Procs : PidOf[p] = PidOf[q] => p = q) => (Spec => []MutualExclusion)
  <1> SUFFICES ASSUME \A p, q \in Procs : PidOf[p] = PidOf[q] => p = q
               PROVE  Spec => []MutualExclusion
    OBVIOUS
  <1>1. ~PidReused
    BY DEF PidReused
  <1>2. Init => TypeInv /\ MutexInv
    BY InitType, InitMutex
  <1>3. TypeInv /\ MutexInv /\ [Next]_vars => (TypeInv /\ MutexInv)'
    <2>1. ~PidReused'
      BY DEF PidReused
    <2> QED
      BY <2>1, NextType, NextMutex
  <1>4. TypeInv /\ MutexInv => MutualExclusion
    BY DEF MutexInv
  <1> QED
    BY <1>2, <1>3, <1>4, PTL DEF Spec

(***************************************************************************)
(* The journal.  The words a slot should have are its last committed       *)
(* version; while they are not in the slot they are in the journal.        *)
(***************************************************************************)
Last(s)  == hist[s][Len(hist[s])]
Even(f)  == f[2].gen % 2 = 0
Clean(s) == Even(slot[s]) /\ Version(slot[s]) = Last(s)
AllClean == \A s \in Slots : Clean(s)

\* The journal holds the last version of its slot, and no other slot needs it.
Saved == /\ jr.state = 1
         /\ Even(jr.words) /\ Version(jr.words) = Last(jr.off)
         /\ \A s \in Slots \ {jr.off} : Clean(s)

\* What is left by a thread that died with the ownership.
Recoverable == AllClean \/ (Saved /\ ~Even(slot[jr.off]))

\* The first n stores of the update of thread t are done.
Stored(t, n) ==
    \A w \in {0, 1, 3} :
        slot[th[t].s][w] = IF \E j \in 1 .. n : Stores(th[t].kind)[j] = w
                           THEN th[t].v ELSE jr.words[w]

Halfway(t, n) ==
    /\ Saved /\ jr.off = th[t].s /\ ~Even(slot[th[t].s])
    /\ slot[th[t].s][2].head = jr.words[2].head
    /\ Stored(t, n)

\* What the owner has done so far.
Phase(t) ==
    /\ th[t].pc \in {"unclaim", "jstate"} => Recoverable
    /\ th[t].pc = "jgen" => Recoverable /\ jr.state = 1
    /\ th[t].pc = "restore" =>
          /\ Saved /\ (th[t].i = 3 => mended # "none")
          /\ th[t].i < 3 => ~Even(slot[jr.off])
          /\ \A w \in SlotWords : w < th[t].i => slot[jr.off][w] = jr.words[w]
    /\ th[t].pc \in {"jclear", "jdone"} => AllClean
    /\ th[t].pc \in {"journal", "joff", "jon", "dropStart", "dropOwner"} =>
          AllClean /\ jr.state = 0
    /\ th[t].pc = "journal" =>
          \A w \in SlotWords : w < th[t].i => jr.words[w] = slot[th[t].s][w]
    /\ th[t].pc \in {"joff", "jon", "odd"} =>
          \A w \in SlotWords : jr.words[w] = slot[th[t].s][w]
    /\ th[t].pc \in {"jon", "odd"} => jr.off = th[t].s
    /\ th[t].pc = "odd" => Saved /\ AllClean
    /\ th[t].pc = "store" => Halfway(t, th[t].i - 1)
    /\ th[t].pc = "finish" => Halfway(t, Len(Stores(th[t].kind)))

JournalInv ==
    mended # "torn" =>
        /\ (\A t \in Threads : ~Owns(t)) => Recoverable
        /\ \A t \in Threads : Owns(t) => Phase(t)

\* Which words the stores of an update reach.
LEMMA StoresAt ==
  ASSUME NEW kind \in Kinds, NEW w \in {0, 1, 3}
  PROVE  (\E j \in 1 .. Len(Stores(kind)) : Stores(kind)[j] = w)
         <=> w = 0 \/ (w = 1 /\ kind = "commit") \/ (w = 3 /\ kind # "head")
  <1>0. kind \in {"commit", "head", "inline"}
    BY SlotAssumption
  <1>1. CASE kind = "commit"
    <2>1. Stores(kind) = <<0, 1, 3>>
      BY <1>1 DEF Stores
    <2> QED
      BY <1>1, <2>1
  <1>2. CASE kind = "head"
    <2>1. Stores(kind) = <<0>>
      BY <1>2 DEF Stores
    <2> QED
      BY <1>2, <2>1
  <1>3. CASE kind = "inline"
    <2>1. Stores(kind) = <<0, 3>>
      BY <1>3 DEF Stores
    <2> QED
      BY <1>3, <2>1
  <1> QED
    BY <1>0, <1>1, <1>2, <1>3

\* A slot that is equal to the journal's copy of a clean one is clean, and the other way
\* round.
LEMMA SameWords ==
  ASSUME NEW f \in Images, NEW g \in Images, \A w \in SlotWords : f[w] = g[w]
  PROVE  (Even(f) <=> Even(g)) /\ Version(f) = Version(g)
  BY DEF Even, Version, SlotWords

\* An odd generation is followed by an even one, and an even one by an odd one.
LEMMA NextGen ==
  ASSUME NEW g \in Nat
  PROVE  /\ Odd(g) \in Nat /\ Odd(g) > g /\ Odd(g) % 2 # 0
         /\ g % 2 # 0 => (g + 1) % 2 = 0
  BY DEF Odd

\* With the owner's phase known there is nothing else to know.
LEMMA OwnerJournal ==
  ASSUME MutexInv', NEW t \in Threads, Owns(t)', mended' # "torn" => Phase(t)'
  PROVE  JournalInv'
  BY DEF JournalInv, MutexInv, MutualExclusion

\* A step outside the ownership that leaves slots and journal alone.
LEMMA OutsideJournal ==
  ASSUME TypeInv, JournalInv, NEW t \in Threads, ~Owns(t), ~Owns(t)', Data, mended' = mended,
         \A u \in Threads : u # t => th'[u] = th[u]
  PROVE  JournalInv'
  <1>1. \A u \in Threads : Owns(u)' <=> Owns(u)
    BY DEF Owns
  <1>2. \A u \in Threads : Owns(u) => th'[u] = th[u]
    OBVIOUS
  <1>3. Recoverable' <=> Recoverable
    BY DEF Data, Recoverable, AllClean, Clean, Saved, Even, Version, Last
  <1>4. (AllClean' <=> AllClean) /\ (Saved' <=> Saved)
    BY DEF Data, AllClean, Clean, Saved, Even, Version, Last
  <1>5. ASSUME NEW u \in Threads, Owns(u), Phase(u) PROVE Phase(u)'
    <2>1. /\ th'[u] = th[u] /\ slot' = slot /\ jr' = jr
          /\ Even(slot'[jr'.off]) <=> Even(slot[jr.off])
          /\ Even(slot'[th'[u].s]) <=> Even(slot[th[u].s])
      BY <1>2, <1>5 DEF Data, Even
    <2>2. \A n : Halfway(u, n)' <=> Halfway(u, n)
      BY <1>4, <2>1 DEF Halfway, Stored, Even
    <2> QED
      BY <1>3, <1>4, <1>5, <2>1, <2>2 DEF Phase, Even
  <1> QED
    BY <1>1, <1>3, <1>5 DEF JournalInv

\* In the beginning every slot is its first version.
LEMMA InitJournal == Init => JournalInv
  <1> SUFFICES ASSUME Init PROVE JournalInv
    OBVIOUS
  <1>1. AllClean
    <2>1. \A s \in Slots : slot[s] = Image(0, 0) /\ Last(s) = Version(Image(0, 0))
      BY DEF Init, Last
    <2>2. Even(Image(0, 0))
      BY DEF Even, Image, SlotWords
    <2> QED
      BY <2>1, <2>2 DEF AllClean, Clean
  <1>2. \A t \in Threads : ~Owns(t)
    BY DEF Init, IdleThread, OffThread, Owns
  <1> QED
    BY <1>1, <1>2 DEF Init, JournalInv, Recoverable

\* Taking and giving up the ownership.
LEMMA AcquireJournal ==
  ASSUME TypeInv, MutexInv, MutexInv', JournalInv, NEW t \in Threads, Acquire(t)
  PROVE  JournalInv'
  <1>0. /\ Data /\ mended' = mended /\ \A u \in Threads : u # t => th'[u] = th[u]
        /\ th[t] \in Locals
    BY Here DEF TypeInv, Acquire, LoadClaim, JudgeClaim, Unstick, Cas, LoadOwner, LoadOwnerStart,
         JudgeOwner, GiveUp, SetStart, SetOwner, FreeClaim, Local, Bounds, Go, GoTo
  <1>a. Recoverable' <=> Recoverable
    BY <1>0 DEF Data, Recoverable, AllClean, Clean, Saved, Even, Version, Last
  <1>1. CASE SetOwner(t)
    <2>1. th'[t].pc = "unclaim" /\ \A u \in Threads : ~Owns(u)
      BY <1>0, <1>1 DEF SetOwner, GoTo, Go, TypeInv, Locals, MutexInv, OwnerSound
    <2>2. mended' # "torn" => Phase(t)'
      BY <1>0, <1>a, <2>1 DEF JournalInv, Phase
    <2> QED
      BY <1>0, <2>1, <2>2, OwnerJournal DEF Owns
  <1>2. CASE FreeClaim(t)
    <2>1. th'[t].pc = "jstate" /\ th[t].pc = "unclaim"
      BY <1>0, <1>2 DEF FreeClaim, GoTo, Go, TypeInv, Locals
    <2>2. mended' # "torn" => Phase(t)'
      BY <1>0, <1>a, <2>1 DEF JournalInv, Phase, Owns
    <2> QED
      BY <1>0, <2>1, <2>2, OwnerJournal DEF Owns
  <1>3. CASE ~SetOwner(t) /\ ~FreeClaim(t)
    <2>1. /\ th[t].pc \in {"claimant", "exists", "unstick", "cas", "owner", "ownerStart", "judge",
                           "giveUp", "setStart"}
          /\ th'[t].pc \in {"idle", "before", "claimant", "exists", "unstick", "cas", "owner",
                            "ownerStart", "judge", "giveUp", "setStart", "setOwner"}
      <3>1. CASE LoadClaim(t)
        BY <1>0, <3>1 DEF LoadClaim, Go, TypeInv, Locals
      <3>2. CASE JudgeClaim(t)
        <4>1. th'[t] = IF process_exists(th[t].word) THEN Failed(th[t])
                       ELSE [th[t] EXCEPT !.pc = "unstick"]
          BY <3>2 DEF JudgeClaim, Go, TypeInv
        <4>2. [th[t] EXCEPT !.pc = "unstick"].pc = "unstick"
          BY <1>0 DEF Locals
        <4> QED
          BY <1>0, <3>2, <4>1, <4>2, ReturnTo DEF JudgeClaim
      <3>3. CASE Unstick(t)
        BY <1>0, <3>3, ReturnTo DEF Unstick, Go, TypeInv
      <3>4. CASE Cas(t)
        <4>1. th'[t] \in {[th[t] EXCEPT !.pc = "owner"], TryAgain(th[t])}
          BY <3>4 DEF Cas, GoTo, Go, TypeInv
        <4>2. [th[t] EXCEPT !.pc = "owner"].pc = "owner"
          BY <1>0 DEF Locals
        <4> QED
          BY <1>0, <3>4, <4>1, <4>2, ReturnTo DEF Cas
      <3>5. CASE LoadOwner(t)
        BY <1>0, <3>5 DEF LoadOwner, Go, TypeInv, Locals
      <3>6. CASE LoadOwnerStart(t)
        BY <1>0, <3>6 DEF LoadOwnerStart, Go, TypeInv, Locals
      <3>7. CASE JudgeOwner(t)
        BY <1>0, <3>7 DEF JudgeOwner, GoTo, Go, TypeInv, Locals
      <3>8. CASE GiveUp(t)
        BY <1>0, <3>8, ReturnTo DEF GiveUp, Go, TypeInv
      <3>9. CASE SetStart(t)
        BY <1>0, <3>9 DEF SetStart, GoTo, Go, TypeInv, Locals
      <3> QED
        BY <1>3, <3>1, <3>2, <3>3, <3>4, <3>5, <3>6, <3>7, <3>8, <3>9 DEF Acquire
    <2> QED
      BY <1>0, <2>1, OutsideJournal DEF Owns
  <1> QED
    BY <1>1, <1>2, <1>3

\* recover_slot_journal.
LEMMA RecoverJournal ==
  ASSUME TypeInv, TypeInv', MutexInv, MutexInv', JournalInv, NEW t \in Threads, Recover(t)
  PROVE  JournalInv'
  <1>0. /\ th[t] \in Locals /\ Header /\ hist' = hist
        /\ (mended' = "torn") <=> (mended = "torn")
        /\ slot \in [Slots -> Images] /\ slot' \in [Slots -> Images]
        /\ jr \in Journals /\ jr.off \in Slots /\ jr.words \in Images /\ jr.state \in {0, 1}
    BY Here DEF TypeInv, Recover, LoadJournal, JudgeSlot, Restore, ClearJournal, Local, Bounds,
         Data, Journals
  <1> SUFFICES ASSUME mended # "torn" PROVE Owns(t)' /\ Phase(t)'
    BY <1>0, OwnerJournal DEF JournalInv
  <1>p. Owns(t) /\ Phase(t)
    BY DEF Recover, LoadJournal, JudgeSlot, Restore, ClearJournal, Owns, JournalInv
  <1>1. CASE LoadJournal(t)
    <2>1. slot' = slot /\ jr' = jr
      BY <1>1 DEF LoadJournal, Local, Data
    <2>2. /\ Recoverable' <=> Recoverable
          /\ AllClean' <=> AllClean
      BY <1>0, <2>1 DEF Recoverable, AllClean, Clean, Saved, Even, Version, Last
    <2>3. Recoverable
      BY <1>1, <1>p DEF LoadJournal, Phase
    <2>4. CASE jr.state = 0
      <3>1. th'[t].pc \in {"journal", "dropStart"} /\ th'[t].i = 0
        <4>1. th'[t] = Acquired(th[t])
          BY <1>1, <2>4 DEF LoadJournal, Go, TypeInv
        <4> QED
          BY <1>0, <4>1 DEF Acquired, Locals
      <3>2. AllClean
        BY <2>3, <2>4 DEF Recoverable, Saved
      <3> QED
        BY <2>1, <2>2, <2>4, <3>1, <3>2 DEF Owns, Phase, SlotWords
    <2>5. CASE jr.state # 0
      <3>1. th'[t].pc = "jgen"
        BY <1>0, <1>1, <2>5 DEF LoadJournal, Go, TypeInv, Locals
      <3> QED
        BY <1>0, <2>1, <2>2, <2>3, <2>5, <3>1 DEF Owns, Phase
    <2> QED
      BY <2>4, <2>5
  <1>2. CASE JudgeSlot(t)
    <2>1. slot' = slot /\ jr' = jr
      BY <1>2 DEF JudgeSlot, Local, Data
    <2>2. AllClean' <=> AllClean
      BY <1>0, <2>1 DEF AllClean, Clean, Even, Version, Last
    <2>3. Recoverable /\ jr.state = 1
      BY <1>2, <1>p DEF JudgeSlot, Phase
    <2>4. CASE slot[jr.off][2].gen % 2 = 1
      <3>1. th'[t].pc = "restore" /\ th'[t].i = 0
        BY <1>0, <1>2, <2>4 DEF JudgeSlot, Go, TypeInv, Locals
      <3>2. ~Even(slot[jr.off]) /\ Saved
        BY <1>0, <2>3, <2>4 DEF Even, Recoverable, AllClean, Clean
      <3>3. ~Even(slot'[jr'.off]) /\ Saved'
        <4>1. Saved' <=> Saved
          BY <1>0, <2>1 DEF Even, Saved, Clean, Version, Last
        <4> QED
          BY <1>0, <2>1, <3>2, <4>1
      <3> QED
        BY <3>1, <3>3 DEF Owns, Phase, SlotWords, Even
    <2>5. CASE slot[jr.off][2].gen % 2 # 1
      <3>1. th'[t].pc = "jclear"
        BY <1>0, <1>2, <2>5 DEF JudgeSlot, Go, TypeInv, Locals
      <3>2. slot[jr.off][2].gen \in Nat
        BY <1>0 DEF Images, Control
      <3>3. Even(slot[jr.off])
        BY <2>5, <3>2 DEF Even
      <3>4. AllClean
        BY <2>3, <3>3 DEF Recoverable
      <3> QED
        BY <2>2, <3>1, <3>4 DEF Owns, Phase
    <2> QED
      BY <2>4, <2>5
  <1>3. CASE Restore(t)
    <2> DEFINE i == th[t].i
    <2>1. jr' = jr /\ i \in 0 .. 3 /\ th[t].pc = "restore"
      BY <1>0, <1>3 DEF Restore, Locals
    <2>2. /\ slot'[jr.off] = [slot[jr.off] EXCEPT ![i] = jr.words[i]]
          /\ \A x \in Slots \ {jr.off} : slot'[x] = slot[x]
      BY <1>0, <1>3 DEF Restore
    <2>3. /\ Saved
          /\ i < 3 => ~Even(slot[jr.off])
          /\ \A w \in SlotWords : w < i => slot[jr.off][w] = jr.words[w]
      BY <1>p, <2>1 DEF Phase
    <2>4. Saved'
      BY <1>0, <2>1, <2>2, <2>3 DEF Saved, Clean, Even, Version, Last
    <2>5. /\ slot'[jr.off] \in Images /\ slot[jr.off] \in Images
          /\ \A w \in SlotWords : w <= i => slot'[jr.off][w] = jr.words[w]
      <3>1. slot[jr.off] \in Images /\ slot'[jr.off] \in Images
        BY <1>0
      <3> QED
        BY <2>1, <2>2, <2>3, <3>1 DEF Images, SlotWords
    <2>6. CASE i = 3
      <3>1. th'[t].pc = "jclear"
        BY <1>0, <1>3, <2>6 DEF Restore, Go, TypeInv, Locals
      <3>2. Clean(jr.off)'
        <4>1. Even(jr.words) /\ Version(jr.words) = Last(jr.off)
          BY <2>3 DEF Saved
        <4>2. (Even(slot'[jr.off]) <=> Even(jr.words)) /\ Version(slot'[jr.off]) = Version(jr.words)
          <5>1. \A w \in SlotWords : slot'[jr.off][w] = jr.words[w]
            BY <2>5, <2>6 DEF SlotWords
          <5> QED
            BY <1>0, <2>5, <5>1, SameWords
        <4>3. Last(jr.off)' = Last(jr.off)
          BY <1>0, <2>1 DEF Last
        <4> QED
          BY <2>1, <4>1, <4>2, <4>3 DEF Clean, Even, Version
      <3>3. AllClean'
        BY <2>1, <2>4, <3>2 DEF AllClean, Saved
      <3> QED
        BY <3>1, <3>3 DEF Owns, Phase
    <2>7. CASE i # 3
      <3>1. th'[t].pc = "restore" /\ th'[t].i = i + 1
        BY <1>0, <1>3, <2>1, <2>7 DEF Restore, Go, TypeInv, Locals
      <3>2. i + 1 < 3 => ~Even(slot'[jr.off])
        <4>1. ASSUME i + 1 < 3 PROVE slot'[jr.off][2] = slot[jr.off][2]
          BY <2>1, <2>2, <2>5, <4>1 DEF Images, SlotWords
        <4> QED
          BY <2>1, <2>3, <4>1 DEF Even
      <3>3. \A w \in SlotWords : w < i + 1 => slot'[jr.off][w] = jr.words[w]
        BY <2>1, <2>5 DEF SlotWords
      <3>4. i = 2 => mended' # "none"
        BY <1>3 DEF Restore
      <3> QED
        BY <1>0, <2>1, <2>3, <2>4, <3>1, <3>2, <3>3, <3>4 DEF Owns, Phase, Even
    <2> QED
      BY <2>6, <2>7
  <1>4. CASE ClearJournal(t)
    <2>1. th'[t].pc \in {"journal", "dropStart"} /\ th'[t].i = 0
      <3>1. th'[t] = Acquired(th[t])
        BY <1>4 DEF ClearJournal, Go, TypeInv
      <3> QED
        BY <1>0, <3>1 DEF Acquired, Locals
    <2>2. slot' = slot /\ jr'.state = 0
      BY <1>0, <1>4 DEF ClearJournal, Journals
    <2>3. AllClean'
      BY <1>0, <1>4, <1>p, <2>2 DEF ClearJournal, Phase, AllClean, Clean, Even, Version, Last
    <2> QED
      BY <2>1, <2>2, <2>3 DEF Owns, Phase, SlotWords
  <1> QED
    BY <1>1, <1>2, <1>3, <1>4 DEF Recover

\* What the owner's phase needs of a step that leaves slots and journal alone.
LEMMA SameData ==
  ASSUME Data
  PROVE  (AllClean' <=> AllClean) /\ (Saved' <=> Saved)
  BY DEF Data, AllClean, Clean, Saved, Even, Version, Last

\* begin_slot_write: the copy to the journal, then the journal, then the odd generation.
LEMMA BeginJournal ==
  ASSUME TypeInv, TypeInv', MutexInv', JournalInv, NEW t \in Threads,
         Journal(t) \/ JournalOff(t) \/ JournalOn(t) \/ BeginSlot(t)
  PROVE  JournalInv'
  <1>0. /\ th[t] \in Locals /\ mended' = mended /\ hist' = hist
        /\ slot \in [Slots -> Images] /\ slot' \in [Slots -> Images]
        /\ jr \in Journals /\ jr.words \in Images /\ th[t].s \in Slots /\ th[t].i \in 0 .. 3
    BY Here DEF TypeInv, Journal, JournalOff, JournalOn, BeginSlot, Bounds, Locals
  <1> SUFFICES ASSUME mended # "torn" PROVE Owns(t)' /\ Phase(t)'
    BY <1>0, OwnerJournal DEF JournalInv
  <1>p. Phase(t)
    BY DEF Journal, JournalOff, JournalOn, BeginSlot, Owns, JournalInv
  <1>1. CASE Journal(t)
    <2> DEFINE i == th[t].i
    <2>1. /\ slot' = slot /\ jr'.state = jr.state
          /\ jr'.words = [jr.words EXCEPT ![i] = slot[th[t].s][i]]
      BY <1>0, <1>1 DEF Journal, Journals
    <2>2. AllClean' /\ jr'.state = 0
      BY <1>0, <1>1, <1>p, <2>1 DEF Journal, Phase, AllClean, Clean, Even, Version, Last
    <2>3. \A w \in SlotWords : w <= i => jr'.words[w] = slot'[th[t].s][w]
      <3>1. \A w \in SlotWords : w < i => jr.words[w] = slot[th[t].s][w]
        BY <1>1, <1>p DEF Journal, Phase
      <3> QED
        BY <1>0, <2>1, <3>1 DEF Images, SlotWords
    <2>4. /\ th'[t].s = th[t].s
          /\ IF i = 3 THEN th'[t].pc = "joff" ELSE th'[t].pc = "journal" /\ th'[t].i = i + 1
      BY <1>0, <1>1 DEF Journal, Go, TypeInv, Locals
    <2>5. CASE i = 3
      BY <2>2, <2>3, <2>4, <2>5 DEF Owns, Phase, SlotWords
    <2>6. CASE i # 3
      BY <1>0, <2>2, <2>3, <2>4, <2>6 DEF Owns, Phase, SlotWords
    <2> QED
      BY <2>5, <2>6
  <1>2. CASE JournalOff(t)
    <2>1. /\ slot' = slot /\ jr'.state = jr.state /\ jr'.words = jr.words /\ jr'.off = th[t].s
          /\ th'[t].pc = "jon" /\ th'[t].s = th[t].s
      BY <1>0, <1>2 DEF JournalOff, GoTo, Go, TypeInv, Locals, Journals
    <2>2. AllClean' /\ jr'.state = 0
      BY <1>0, <1>2, <1>p, <2>1 DEF JournalOff, Phase, AllClean, Clean, Even, Version, Last
    <2> QED
      BY <1>2, <1>p, <2>1, <2>2 DEF JournalOff, Owns, Phase
  <1>3. CASE JournalOn(t)
    <2>1. /\ slot' = slot /\ jr'.state = 1 /\ jr'.words = jr.words /\ jr'.off = jr.off
          /\ th'[t].pc = "odd" /\ th'[t].s = th[t].s
      BY <1>0, <1>3 DEF JournalOn, GoTo, Go, TypeInv, Locals, Journals
    <2>2. /\ AllClean /\ jr.off = th[t].s
          /\ \A w \in SlotWords : jr.words[w] = slot[th[t].s][w]
      BY <1>3, <1>p DEF JournalOn, Phase
    <2>3. AllClean'
      BY <1>0, <2>1, <2>2 DEF AllClean, Clean, Even, Version, Last
    <2>4. (Even(jr.words) <=> Even(slot[jr.off])) /\ Version(jr.words) = Version(slot[jr.off])
      BY <1>0, <2>2, SameWords
    <2>5. Even(jr.words) /\ Version(jr.words) = Last(jr.off)
      BY <1>0, <2>2, <2>4 DEF AllClean, Clean
    <2>6. Saved'
      BY <1>0, <2>1, <2>3, <2>5 DEF Saved, AllClean, Even, Version, Last
    <2> QED
      BY <2>1, <2>2, <2>3, <2>6 DEF Owns, Phase
  <1>4. CASE BeginSlot(t)
    <2> DEFINE s == th[t].s
    <2>1. /\ jr' = jr /\ th'[t].pc = "store" /\ th'[t].s = s /\ th'[t].i = 1
          /\ th'[t].kind = th[t].kind /\ th'[t].v = th[t].v
      BY <1>0, <1>4 DEF BeginSlot, Go, TypeInv, Locals
    <2>2. /\ \A x \in Slots \ {s} : slot'[x] = slot[x]
          /\ \A w \in {0, 1, 3} : slot'[s][w] = slot[s][w]
          /\ slot'[s][2].head = slot[s][2].head
          /\ slot'[s][2].gen = Odd(slot[s][2].gen)
      <3>1. slot[s] \in Images /\ slot[s][2] \in Control
        BY <1>0 DEF Images
      <3> DEFINE d == [slot[s][2] EXCEPT !.gen = Odd(slot[s][2].gen)]
      <3>2. slot' = [slot EXCEPT ![s] = [slot[s] EXCEPT ![2] = d]]
        BY <1>4 DEF BeginSlot
      <3>3. d.head = slot[s][2].head /\ d.gen = Odd(slot[s][2].gen)
        BY <3>1 DEF Control
      <3> HIDE DEF d
      <3>4. slot'[s][2] = d /\ \A w \in {0, 1, 3} : slot'[s][w] = slot[s][w]
        BY <1>0, <3>1, <3>2 DEF Images, SlotWords
      <3> QED
        BY <1>0, <3>2, <3>3, <3>4
    <2>3. /\ Saved /\ jr.off = s
          /\ \A w \in SlotWords : jr.words[w] = slot[s][w]
      BY <1>4, <1>p DEF BeginSlot, Phase
    <2>4. ~Even(slot'[s])
      <3>1. slot[s][2].gen \in Nat
        BY <1>0 DEF Images, Control
      <3> QED
        BY <2>2, <3>1, NextGen DEF Even
    <2>5. Saved'
      BY <1>0, <2>1, <2>2, <2>3 DEF Saved, Clean, Even, Version, Last
    <2>6. \A w \in {0, 1, 2, 3} : w \in SlotWords
      BY DEF SlotWords
    <2>7. Stored(t, 0)'
      <3>1. \A w \in {0, 1, 3} : slot'[s][w] = jr'.words[w]
        BY <2>1, <2>2, <2>3, <2>6
      <3>2. 1 .. 0 = {}
        OBVIOUS
      <3> QED
        BY <2>1, <3>1, <3>2 DEF Stored
    <2>8. Halfway(t, 0)'
      BY <2>1, <2>2, <2>3, <2>4, <2>5, <2>6, <2>7 DEF Halfway, Even
    <2>9. Halfway(t, th[t].i - 1)'
      BY <2>1, <2>8 DEF Halfway, Stored
    <2> QED
      BY <2>1, <2>9 DEF Owns, Phase
  <1> QED
    BY <1>1, <1>2, <1>3, <1>4

\* The stores of the update, finish_slot_write, and the journal switched off.
LEMMA StoreJournal ==
  ASSUME TypeInv, TypeInv', MutexInv', JournalInv, NEW t \in Threads,
         StoreWord(t) \/ FinishSlot(t) \/ JournalDone(t) \/ DropStart(t)
  PROVE  JournalInv'
  <1>0. /\ th[t] \in Locals /\ InRange(th[t]) /\ mended' = mended
        /\ slot \in [Slots -> Images] /\ slot' \in [Slots -> Images]
        /\ jr \in Journals /\ jr.words \in Images /\ th[t].s \in Slots
        /\ th[t].pc \in Writing => th[t].kind \in Kinds
        /\ hist \in [Slots -> Seq(Versions)] /\ (\A s \in Slots : hist[s] # <<>>)
    BY Here DEF TypeInv, StoreWord, FinishSlot, JournalDone, DropStart, Bounds, InRange
  <1> SUFFICES ASSUME mended # "torn" PROVE Owns(t)' /\ Phase(t)'
    BY <1>0, OwnerJournal DEF JournalInv
  <1>p. Phase(t)
    BY DEF StoreWord, FinishSlot, JournalDone, DropStart, Owns, JournalInv
  <1>s. PICK s \in Slots : s = th[t].s
    BY <1>0
  <1>1. CASE StoreWord(t)
    <2>i. PICK i : i = th[t].i
      OBVIOUS
    <2>k. PICK kind, v : kind = th[t].kind /\ v = th[t].v
      OBVIOUS
    <2> DEFINE x == Stores(kind)[i]
    <2> DEFINE n == Len(Stores(kind))
    <2>0. /\ kind \in Kinds /\ i \in 1 .. n /\ n \in 1 .. 3 /\ x \in {0, 1, 3}
          /\ th[t].pc = "store"
      <3>1. kind \in Kinds /\ i \in 1 .. n
        BY <1>0, <1>1, <2>i, <2>k DEF StoreWord, InRange, Writing
      <3> QED
        BY <1>1, <3>1, StoresType, SlotAssumption DEF StoreWord
    <2>1. /\ jr' = jr /\ hist' = hist /\ th'[t].s = s
          /\ th'[t].kind = kind /\ th'[t].v = v
          /\ IF i = n THEN th'[t].pc = "finish" ELSE th'[t].pc = "store" /\ th'[t].i = i + 1
      BY <1>0, <1>1, <1>s, <2>i, <2>k DEF StoreWord, Go, TypeInv, Locals
    <2>2. /\ \A y \in Slots \ {s} : slot'[y] = slot[y]
          /\ slot'[s] = [slot[s] EXCEPT ![x] = v]
      BY <1>0, <1>1, <1>s, <2>i, <2>k DEF StoreWord
    <2>3. Halfway(t, i - 1)
      BY <1>p, <2>0, <2>i DEF Phase
    <2> HIDE DEF x, n
    <2>4. /\ slot'[s][2] = slot[s][2] /\ slot'[s][x] = v
          /\ \A w \in {0, 1, 3} \ {x} : slot'[s][w] = slot[s][w]
      <3>1. slot[s] \in Images /\ slot'[s] \in Images
        BY <1>0
      <3> QED
        BY <2>0, <2>2, <3>1 DEF Images, SlotWords
    <2>5. Saved'
      BY <1>0, <1>s, <2>1, <2>2, <2>3 DEF Halfway, Saved, Clean, Even, Version, Last
    <2>6. Stored(t, i)'
      <3>1. ASSUME NEW w \in {0, 1, 3}
            PROVE  (\E j \in 1 .. i : Stores(kind)[j] = w)
                   <=> (\E j \in 1 .. i - 1 : Stores(kind)[j] = w) \/ w = x
        <4>1. i \in Nat \ {0}
          BY <2>0
        <4>2. \A j : j \in 1 .. i <=> j \in 1 .. i - 1 \/ j = i
          BY <4>1
        <4> QED
          BY <4>2 DEF x
      <3>2. \A w \in {0, 1, 3} :
              slot[s][w] = IF \E j \in 1 .. i - 1 : Stores(kind)[j] = w
                           THEN v ELSE jr.words[w]
        BY <1>s, <2>3, <2>k DEF Halfway, Stored
      <3>3. \A w \in {0, 1, 3} :
              slot'[s][w] = IF \E j \in 1 .. i : Stores(kind)[j] = w
                            THEN v ELSE jr.words[w]
        BY <2>4, <3>1, <3>2
      <3> QED
        BY <2>1, <3>3 DEF Stored
    <2>7. /\ jr'.off = th'[t].s /\ ~Even(slot'[th'[t].s])
          /\ slot'[th'[t].s][2].head = jr'.words[2].head
      BY <1>s, <2>1, <2>3, <2>4 DEF Halfway, Even
    <2>8. Halfway(t, i)'
      BY <2>5, <2>6, <2>7 DEF Halfway, Stored, Even
    <2>9. CASE i = n
      <3>1. Halfway(t, Len(Stores(th[t].kind)))'
        BY <2>1, <2>8, <2>9 DEF Halfway, Stored, n
      <3> QED
        BY <2>1, <2>9, <3>1 DEF Owns, Phase
    <2>10. CASE i # n
      <3>1. th'[t].i - 1 = i
        BY <2>0, <2>1, <2>10
      <3>2. Halfway(t, th[t].i - 1)'
        BY <2>8, <3>1, Zenon DEF Halfway, Stored
      <3> QED
        BY <2>1, <2>10, <3>2 DEF Owns, Phase
    <2> QED
      BY <2>9, <2>10
  <1>2. CASE FinishSlot(t)
    <2>k. PICK kind, v : kind = th[t].kind /\ v = th[t].v
      OBVIOUS
    <2>c. PICK c : c = slot[s][2]
      OBVIOUS
    <2> DEFINE d == [head |-> IF kind = "inline" THEN c.head ELSE v,
                     gen |-> c.gen + 1]
    <2>o. PICK old : old = Last(s)
      OBVIOUS
    <2> DEFINE new == Updated(kind, old, v)
    <2>1. /\ jr' = jr /\ th'[t].pc = "jdone" /\ th[t].pc = "finish" /\ kind \in Kinds
      BY <1>0, <1>2, <2>k DEF FinishSlot, GoTo, Go, TypeInv, Locals, Writing
    <2>2. /\ \A y \in Slots \ {s} : slot'[y] = slot[y] /\ hist'[y] = hist[y]
          /\ slot'[s] = [slot[s] EXCEPT ![2] = d]
          /\ hist'[s] = Append(hist[s], new)
      BY <1>0, <1>2, <1>s, <2>k, <2>c, <2>o DEF FinishSlot, Last
    <2>3. Halfway(t, Len(Stores(th[t].kind)))
      BY <1>p, <2>1 DEF Phase
    <2>4. slot[s] \in Images /\ slot'[s] \in Images /\ c \in Control /\ d.gen = c.gen + 1
      BY <1>0, <2>c DEF Images
    <2>5. /\ slot'[s][2] = d
          /\ \A w \in {0, 1, 3} : slot'[s][w] = slot[s][w]
      <3> HIDE DEF d
      <3> QED
        BY <2>2, <2>4 DEF Images, SlotWords
    <2>6. Even(slot'[s])
      <3>1. c.gen \in Nat /\ c.gen % 2 # 0
        BY <1>s, <2>c, <2>3, <2>4 DEF Halfway, Even, Control
      <3> QED
        BY <2>4, <2>5, <3>1, NextGen DEF Even
    <2>7. Last(s)' = new
      <3>1. hist[s] \in Seq(Versions)
        BY <1>0
      <3>2. Len(hist'[s]) = Len(hist[s]) + 1 /\ hist'[s][Len(hist[s]) + 1] = new
        BY <2>2, <3>1
      <3> QED
        BY <3>2 DEF Last
    <2>8. Version(slot'[s]) = new
      <3>1. /\ old[2] = jr.words[1] /\ old[3] = jr.words[2].head
            /\ old[4] = jr.words[3]
        BY <1>s, <2>o, <2>3 DEF Halfway, Saved, Version
      <3>2. /\ slot[s][0] = v
            /\ slot[s][1] = IF kind = "commit" THEN v ELSE jr.words[1]
            /\ slot[s][3] = IF kind # "head" THEN v ELSE jr.words[3]
        <4>1. \A w \in {0, 1, 3} :
                slot[s][w] = IF w = 0 \/ (w = 1 /\ kind = "commit") \/ (w = 3 /\ kind # "head")
                             THEN v ELSE jr.words[w]
          BY <1>s, <2>k, <2>1, <2>3, StoresAt DEF Halfway, Stored
        <4> QED
          BY <4>1
      <3>3. d.head = IF kind = "inline" THEN jr.words[2].head ELSE v
        BY <1>s, <2>c, <2>3 DEF Halfway
      <3> HIDE DEF d
      <3>4. Version(slot'[s]) = <<slot[s][0], slot[s][1], d.head, slot[s][3]>>
        BY <2>5 DEF Version
      <3> QED
        BY <3>1, <3>2, <3>3, <3>4 DEF Updated
    <2>9. ASSUME NEW y \in Slots PROVE Clean(y)'
      <3>1. CASE y = s
        <4>1. Clean(s)'
          BY <2>6, <2>7, <2>8 DEF Clean, Even, Version
        <4> QED
          BY <3>1, <4>1
      <3>2. CASE y # s
        BY <1>s, <2>2, <2>3, <3>2 DEF Halfway, Saved, Clean, Even, Version, Last
      <3> QED
        BY <3>1, <3>2
    <2>10. AllClean'
      BY <2>9 DEF AllClean
    <2> QED
      BY <2>1, <2>10 DEF Owns, Phase
  <1>3. CASE JournalDone(t)
    <2>1. /\ jr'.state = 0 /\ slot' = slot /\ hist' = hist /\ th'[t].pc = "dropStart"
      BY <1>0, <1>3 DEF JournalDone, GoTo, Go, TypeInv, Locals, Journals
    <2>2. AllClean'
      BY <1>3, <1>p, <2>1 DEF JournalDone, Phase, AllClean, Clean, Even, Version, Last
    <2> QED
      BY <2>1, <2>2 DEF Owns, Phase
  <1>4. CASE DropStart(t)
    <2>1. Data /\ th'[t].pc = "dropOwner" /\ jr' = jr
      BY <1>0, <1>4 DEF DropStart, GoTo, Go, TypeInv, Locals, Data
    <2>2. AllClean' /\ jr'.state = 0
      BY <1>4, <1>p, <2>1, SameData DEF DropStart, Phase
    <2> QED
      BY <2>1, <2>2 DEF Owns, Phase
  <1> QED
    BY <1>1, <1>2, <1>3, <1>4

\* The drop of the guard leaves every slot clean.
LEMMA DropJournal ==
  ASSUME TypeInv, MutexInv, JournalInv, NEW t \in Threads, DropOwner(t)
  PROVE  JournalInv'
  <1>1. /\ Data /\ jr' = jr /\ mended' = mended /\ th[t].pc = "dropOwner"
    BY DEF DropOwner, Data, Bounds
  <1>2. /\ \A u \in Threads \ {t} : th'[u] = th[u]
        /\ th'[t].pc \in {"idle", "before"}
    BY Here DEF DropOwner, Go, TypeInv, Locals, IdleThread
  <1>3. \A u \in Threads : ~Owns(u)'
    BY <1>1, <1>2 DEF MutexInv, MutualExclusion, Owns
  <1>4. mended # "torn" => AllClean /\ jr.state = 0
    BY <1>1 DEF JournalInv, Owns, Phase
  <1>5. mended # "torn" => Recoverable'
    BY <1>1, <1>4, SameData DEF Recoverable
  <1> QED
    BY <1>1, <1>3, <1>5 DEF JournalInv

\* read_slot and the calls store nothing.
LEMMA FetchJournal ==
  ASSUME TypeInv, JournalInv, NEW t \in Threads, NEW s \in Slots,
         Fetch(t) \/ Read(t, s) \/ \E kind \in Kinds : Write(t, s, kind)
  PROVE  JournalInv'
  <1>0. th[t] \in Locals /\ IdleThread \in Locals
    BY Here, IdleType
  <1> DEFINE Done == /\ Data /\ mended' = mended
                     /\ \A u \in Threads : u # t => th'[u] = th[u]
                     /\ th[t].pc \in {"idle", "before", "load", "after", "got"}
                     /\ th'[t].pc \in {"idle", "claimant", "before", "load", "after", "got"}
  <1>1. ASSUME LoadBefore(t) PROVE Done
    BY <1>0, <1>1 DEF LoadBefore, Local, Bounds, Go, TypeInv, Locals
  <1>2. ASSUME LoadWord(t) PROVE Done
    BY <1>0, <1>2 DEF LoadWord, Local, Bounds, Go, TypeInv, Locals
  <1>3. ASSUME LoadAfter(t) PROVE Done
    BY <1>0, <1>3 DEF LoadAfter, Local, Bounds, GoTo, Go, TypeInv, Locals
  <1>4. ASSUME Return(t) PROVE Done
    BY <1>0, <1>4 DEF Return, Local, Bounds, Go, TypeInv, IdleThread
  <1>5. ASSUME Read(t, s) PROVE Done
    BY <1>0, <1>5 DEF Read, Go, TypeInv, Locals
  <1>6. ASSUME NEW kind \in Kinds, Write(t, s, kind) PROVE Done
    BY <1>0, <1>6 DEF Write, Go, TypeInv, Locals
  <1>7. Done
    BY <1>1, <1>2, <1>3, <1>4, <1>5, <1>6 DEF Fetch
  <1> QED
    BY <1>7, OutsideJournal DEF Owns

\* A process that starts has no part in it; one that dies leaves what the next owner
\* can repair, unless it was a repair that it left.
LEMMA ProcJournal ==
  ASSUME TypeInv, MutexInv, JournalInv, NEW p \in Procs, Spawn(p) \/ Die(p)
  PROVE  JournalInv'
  <1>0. /\ Data /\ mended' \in {mended, "torn"}
        /\ \A t \in Threads : th'[t] = th[t] \/ th'[t].pc \in {"idle", "off"}
    BY DEF TypeInv, Spawn, Die, Data, IdleThread, OffThread
  <1>a. \A t \in Threads : Owns(t)' => Owns(t) /\ th'[t] = th[t]
    BY <1>0 DEF Owns
  <1> SUFFICES ASSUME mended' # "torn"
               PROVE  /\ (\A t \in Threads : ~Owns(t)') => Recoverable'
                      /\ \A t \in Threads : Owns(t)' => Phase(t)'
    BY DEF JournalInv
  <1>b. mended' = mended /\ mended # "torn"
    BY <1>0
  <1>1. ASSUME Recoverable PROVE Recoverable'
    BY <1>0, <1>1, SameData DEF Recoverable, Data, Even
  <1>2. ASSUME NEW u \in Threads, Phase(u), Owns(u)' PROVE Phase(u)'
    <2>1. th'[u] = th[u] /\ slot' = slot /\ jr' = jr
      BY <1>0, <1>2, <1>a DEF Data
    <2>2. \A n : Halfway(u, n)' <=> Halfway(u, n)
      BY <1>0, <2>1, SameData DEF Halfway, Stored, Even
    <2> QED
      BY <1>0, <1>1, <1>2, <1>b, <2>1, <2>2, SameData DEF Phase, Even
  <1>3. ASSUME NEW u \in Threads, Owns(u), ~Owns(u)', Phase(u) PROVE Recoverable'
    <2>1. th[u].pc = "restore" => th[u].i \in 0 .. 2
      <3>1. proc[ProcOf[u]] = "up" /\ th[u].i \in 0 .. 3
        BY <1>3, Here DEF MutexInv, Alive, Owns, Locals
      <3>2. ASSUME Spawn(p) PROVE th'[u] = th[u]
        BY <3>1, <3>2 DEF Spawn
      <3>3. ProcOf[u] = p /\ Die(p)
        BY <1>3, <3>2 DEF Die, Owns
      <3>4. ~(th[u].pc = "restore" /\ th[u].i = 3)
        BY <3>3 DEF Die
      <3> QED
        BY <3>1, <3>4
    <2>2. AllClean \/ (Saved /\ ~Even(slot[jr.off]))
      BY <1>3, <2>1 DEF Phase, Recoverable, Halfway, Owns
    <2> QED
      BY <1>0, <2>2, SameData DEF Recoverable, Data, Even
  <1>4. ASSUME \A u \in Threads : ~Owns(u)' PROVE Recoverable'
    <2>1. CASE \E u \in Threads : Owns(u)
      BY <1>3, <1>4, <1>b, <2>1 DEF JournalInv
    <2>2. CASE \A u \in Threads : ~Owns(u)
      BY <1>1, <1>b, <2>2 DEF JournalInv
    <2> QED
      BY <2>1, <2>2
  <1>5. ASSUME NEW u \in Threads, Owns(u)' PROVE Phase(u)'
    BY <1>2, <1>5, <1>a, <1>b DEF JournalInv
  <1> QED
    BY <1>4, <1>5

LEMMA NextJournal ==
  TypeInv /\ TypeInv' /\ MutexInv /\ MutexInv' /\ JournalInv /\ [Next]_vars => JournalInv'
  <1> SUFFICES ASSUME TypeInv, TypeInv', MutexInv, MutexInv', JournalInv, [Next]_vars
               PROVE  JournalInv'
    OBVIOUS
  <1>1. ASSUME NEW p \in Procs, Spawn(p) \/ Die(p) PROVE JournalInv'
    BY <1>1, ProcJournal
  <1>2. ASSUME NEW t \in Threads, NEW s \in Slots,
               Read(t, s) \/ \E kind \in Kinds : Write(t, s, kind)
        PROVE  JournalInv'
    BY <1>2, FetchJournal
  <1>3. ASSUME NEW t \in Threads, Step(t) PROVE JournalInv'
    <2>1. CASE Fetch(t)
      BY <2>1, SomeSlotType, FetchJournal
    <2>2. CASE Acquire(t) \/ Recover(t)
      BY <2>2, AcquireJournal, RecoverJournal
    <2>3. CASE Update(t)
      BY <2>3, BeginJournal, StoreJournal, DropJournal DEF Update
    <2> QED
      BY <1>3, <2>1, <2>2, <2>3 DEF Step
  <1>4. CASE UNCHANGED vars
    <2>1. Data /\ mended' = mended /\ th' = th
      BY <1>4 DEF vars, Data
    <2>2. Recoverable' <=> Recoverable
      BY <2>1, SameData DEF Recoverable, Data, Even
    <2>3. ASSUME NEW u \in Threads, Phase(u) PROVE Phase(u)'
      <3>1. /\ th'[u] = th[u] /\ slot' = slot /\ jr' = jr
        BY <2>1 DEF Data
      <3>2. \A n : Halfway(u, n)' <=> Halfway(u, n)
        BY <2>1, <3>1, SameData DEF Halfway, Stored, Even
      <3> QED
        BY <2>1, <2>2, <2>3, <3>1, <3>2, SameData DEF Phase, Even
    <2> QED
      BY <2>1, <2>2, <2>3 DEF JournalInv, Owns
  <1> QED
    BY <1>1, <1>2, <1>3, <1>4 DEF Next

\* recover_slot_journal: with nobody at work and the journal empty every slot is its last
\* committed version, however many writers and repairers died in the middle, as long as
\* none of them died between restoring the control word and restoring word 3, and as
\* the system has given no PID out twice.
THEOREM RepairsRollBack == Spec => [](~PidReused => RepairSound)
  <1> DEFINE Inv == TypeInv /\ (~PidReused => MutexInv /\ JournalInv)
  <1>1. Init => Inv
    BY InitType, InitMutex, InitJournal
  <1>2. Inv /\ [Next]_vars => Inv'
    BY NextType, NextMutex, ReusedStays, NextJournal
  <1>3. Inv => (~PidReused => RepairSound)
    <2>1. ASSUME TypeInv, JournalInv PROVE RolledBack
      <3>1. jr.state = 0 /\ mended # "torn" /\ (\A t \in Threads : ~Owns(t)) => AllClean
        BY <2>1 DEF JournalInv, Recoverable, Saved
      <3>2. AllClean => \A s \in Slots : /\ slot[s][2].gen % 2 = 0
                                        /\ Version(slot[s]) = hist[s][Len(hist[s])]
        BY Zenon DEF AllClean, Clean, Even, Last
      <3> QED
        BY <3>1, <3>2 DEF RolledBack
    <2> QED
      BY <2>1, TypeInvOK DEF RepairSound
  <1> QED
    BY <1>1, <1>2, <1>3, PTL DEF Spec

(***************************************************************************)
(* The reader.                                                             *)
(***************************************************************************)
\* Before a repair a slot with an even generation is its last version.
LEMMA EvenClean ==
  ASSUME TypeInv, MutexInv, JournalInv, mended = "none", NEW s \in Slots, Even(slot[s])
  PROVE  Clean(s)
  <1>0. jr.off \in Slots
    BY Here DEF TypeInv, Journals
  <1>1. CASE \A t \in Threads : ~Owns(t)
    BY <1>1 DEF JournalInv, Recoverable, Saved, AllClean
  <1>2. ASSUME NEW t \in Threads, Owns(t) PROVE Clean(s)
    <2>1. Phase(t)
      BY <1>2 DEF JournalInv
    <2>2. CASE th[t].pc \in {"store", "finish"}
      BY <2>1, <2>2 DEF Phase, Halfway, Saved
    <2>3. CASE th[t].pc = "restore"
      <3>1. Saved /\ th[t].i \in 0 .. 3 /\ th[t].i # 3
        BY <1>2, <2>1, <2>3, Here DEF Phase, Locals
      <3>2. ~Even(slot[jr.off])
        BY <2>1, <2>3, <3>1 DEF Phase
      <3> QED
        BY <3>1, <3>2 DEF Saved
    <2>4. CASE th[t].pc \notin {"store", "finish", "restore"}
      BY <1>2, <2>1, <2>4 DEF Phase, Recoverable, Saved, AllClean, Owns
    <2> QED
      BY <2>2, <2>3, <2>4
  <1> QED
    BY <1>1, <1>2

\* A repair is not undone.
LEMMA MendedStays ==
  ASSUME TypeInv, [Next]_vars, mended' = "none"
  PROVE  mended = "none"
  <1>1. ASSUME NEW p \in Procs, Spawn(p) \/ Die(p) PROVE mended' \in {mended, "torn"}
    BY <1>1 DEF Spawn, Die
  <1>2. ASSUME NEW t \in Threads, NEW s \in Slots,
               Read(t, s) \/ \E kind \in Kinds : Write(t, s, kind)
        PROVE  mended' = mended
    <2>1. ASSUME NEW kind \in Kinds, Write(t, s, kind) PROVE mended' = mended
      BY <2>1 DEF Write
    <2> QED
      BY <1>2, <2>1 DEF Read
  <1>3. ASSUME NEW t \in Threads, Step(t) PROVE mended' \in {mended, "some"}
    <2>1. CASE Restore(t)
      BY <2>1 DEF Restore
    <2> QED
      BY <1>3, <2>1, StepQuiet
  <1>4. CASE UNCHANGED vars
    BY <1>4 DEF vars
  <1> QED
    BY <1>1, <1>2, <1>3, <1>4 DEF Next

\* The generation of a slot never falls before a repair.  A step that leaves it alone
\* changes the slot only while it is odd, and no reader has an odd one.
Ripens(s) ==
    /\ slot'[s][2].gen >= slot[s][2].gen
    /\ slot'[s][2].gen = slot[s][2].gen /\ Even(slot[s]) => slot'[s] = slot[s]
    /\ Len(hist'[s]) >= Len(hist[s])
    /\ \A n \in 1 .. Len(hist[s]) : hist'[s][n] = hist[s][n]

LEMMA Ripening ==
  ASSUME TypeInv, TypeInv', MutexInv, JournalInv, [Next]_vars, mended' = "none", NEW s \in Slots
  PROVE  Ripens(s)
  <1>0. /\ slot[s] \in Images /\ slot'[s] \in Images /\ hist[s] \in Seq(Versions)
        /\ slot[s][2].gen \in Nat /\ slot'[s][2].gen \in Nat
    BY DEF TypeInv, Images, Control
  <1>z. mended = "none"
    BY MendedStays
  <1>1. ASSUME slot'[s] = slot[s], hist'[s] = hist[s] PROVE Ripens(s)
    BY <1>0, <1>1 DEF Ripens
  <1>2. ASSUME NEW p \in Procs, Spawn(p) \/ Die(p) PROVE Ripens(s)
    BY <1>1, <1>2 DEF Spawn, Die
  <1>3. ASSUME NEW t \in Threads, NEW x \in Slots,
               Read(t, x) \/ \E kind \in Kinds : Write(t, x, kind)
        PROVE  Ripens(s)
    <2>1. ASSUME NEW kind \in Kinds, Write(t, x, kind) PROVE Ripens(s)
      BY <1>1, <2>1 DEF Write, Data
    <2> QED
      BY <1>1, <1>3, <2>1 DEF Read, Data
  <1>4. ASSUME NEW t \in Threads, Step(t) PROVE Ripens(s)
    <2>0. /\ th[t] \in Locals /\ th[t].s \in Slots /\ slot \in [Slots -> Images]
          /\ hist \in [Slots -> Seq(Versions)] /\ InRange(th[t])
      BY Here DEF TypeInv
    <2>1. CASE Acquire(t) \/ Fetch(t)
      BY <1>1, <2>1 DEF Acquire, Fetch, LoadClaim, JudgeClaim, Unstick, Cas, LoadOwner,
           LoadOwnerStart, JudgeOwner, GiveUp, SetStart, SetOwner, FreeClaim,
           LoadBefore, LoadWord, LoadAfter, Return, Local, Data
    <2>2. CASE Recover(t)
      <3>1. CASE ~Restore(t)
        BY <1>1, <2>2, <3>1 DEF Recover, LoadJournal, JudgeSlot, ClearJournal, Local, Data
      <3>2. CASE Restore(t)
        <4>1. PICK x \in Slots, i \in {0, 1} : x = jr.off /\ i = th[t].i
          <5>1. Phase(t) /\ th[t].i \in 0 .. 3 /\ th[t].i # 2 /\ jr.off \in Slots
            BY <1>z, <2>0, <3>2 DEF Restore, JournalInv, Owns, Locals, TypeInv, Journals
          <5>2. th[t].i # 3
            BY <1>z, <3>2, <5>1 DEF Restore, Phase
          <5> QED
            BY <5>1, <5>2
        <4>2. ~Even(slot[x])
          BY <1>z, <3>2, <4>1 DEF Restore, JournalInv, Owns, Phase
        <4>3. slot' = [slot EXCEPT ![x] = [slot[x] EXCEPT ![i] = jr.words[i]]] /\ hist' = hist
          BY <3>2, <4>1 DEF Restore
        <4>4. CASE x = s
          <5>1. slot'[s][2] = slot[s][2]
            <6>1. slot'[s] = [slot[s] EXCEPT ![i] = jr.words[i]]
              BY <2>0, <4>3, <4>4
            <6>2. 2 \in DOMAIN slot[s] /\ i # 2
              BY <1>0 DEF Images, SlotWords
            <6> QED
              BY <1>0, <6>1, <6>2 DEF Images
          <5>2. hist' = hist /\ ~Even(slot[s])
            BY <4>2, <4>3, <4>4
          <5> QED
            BY <1>0, <5>1, <5>2 DEF Ripens
        <4>5. CASE x # s
          BY <1>1, <2>0, <4>3, <4>5
        <4> QED
          BY <4>4, <4>5
      <3> QED
        BY <3>1, <3>2
    <2>3. CASE \/ Journal(t) \/ JournalOff(t) \/ JournalOn(t) \/ JournalDone(t)
               \/ DropStart(t) \/ DropOwner(t)
      BY <1>1, <2>3 DEF Journal, JournalOff, JournalOn, JournalDone, DropStart, DropOwner, Data
    <2>4. CASE BeginSlot(t)
      <3>1. CASE th[t].s = s
        <4>1. slot'[s][2].gen = Odd(slot[s][2].gen) /\ hist' = hist
          <5> DEFINE d == [slot[s][2] EXCEPT !.gen = Odd(slot[s][2].gen)]
          <5>1. slot' = [slot EXCEPT ![s] = [slot[s] EXCEPT ![2] = d]] /\ hist' = hist
            BY <2>4, <3>1 DEF BeginSlot
          <5>2. d.gen = Odd(slot[s][2].gen)
            BY <1>0 DEF Images, Control
          <5> HIDE DEF d
          <5>3. slot'[s][2] = d
            BY <1>0, <2>0, <5>1 DEF Images, SlotWords
          <5> QED
            BY <5>1, <5>2, <5>3
        <4>2. Odd(slot[s][2].gen) > slot[s][2].gen /\ Odd(slot[s][2].gen) \in Nat
          BY <1>0, NextGen
        <4> QED
          BY <1>0, <4>1, <4>2 DEF Ripens
      <3>2. CASE th[t].s # s
        BY <1>1, <2>0, <2>4, <3>2 DEF BeginSlot
      <3> QED
        BY <3>1, <3>2
    <2>5. CASE StoreWord(t)
      <3>1. CASE th[t].s = s
        <4>1. Stores(th[t].kind)[th[t].i] \in {0, 1, 3}
          <5>1. th[t].kind \in Kinds /\ th[t].i \in 1 .. Len(Stores(th[t].kind))
            BY <2>0, <2>5 DEF StoreWord, InRange, Writing
          <5> QED
            BY <5>1, StoresType, SlotAssumption
        <4> DEFINE x == Stores(th[t].kind)[th[t].i]
        <4>2. slot' = [slot EXCEPT ![s] = [slot[s] EXCEPT ![x] = th[t].v]] /\ hist' = hist
          BY <2>5, <3>1 DEF StoreWord
        <4>3. x \in {0, 1, 3}
          BY <4>1
        <4> HIDE DEF x
        <4>4. slot'[s][2] = slot[s][2]
          BY <1>0, <2>0, <4>2, <4>3 DEF Images, SlotWords
        <4>5. ~Even(slot[s])
          BY <1>z, <2>5, <3>1 DEF StoreWord, JournalInv, Phase, Owns, Halfway
        <4> QED
          BY <1>0, <4>2, <4>4, <4>5 DEF Ripens
      <3>2. CASE th[t].s # s
        BY <1>1, <2>0, <2>5, <3>2 DEF StoreWord
      <3> QED
        BY <3>1, <3>2
    <2>6. CASE FinishSlot(t)
      <3>1. CASE th[t].s = s
        <4>1. slot'[s][2].gen = slot[s][2].gen + 1
          <5> DEFINE d == [head |-> IF th[t].kind = "inline" THEN slot[s][2].head ELSE th[t].v,
                           gen |-> slot[s][2].gen + 1]
          <5>1. slot' = [slot EXCEPT ![s] = [slot[s] EXCEPT ![2] = d]]
            BY <2>6, <3>1 DEF FinishSlot
          <5>2. d.gen = slot[s][2].gen + 1
            OBVIOUS
          <5> HIDE DEF d
          <5>3. slot'[s][2] = d
            BY <1>0, <2>0, <5>1 DEF Images, SlotWords
          <5> QED
            BY <5>2, <5>3
        <4>2. \E new : hist'[s] = Append(hist[s], new)
          BY <2>0, <2>6, <3>1 DEF FinishSlot
        <4>3. /\ Len(hist'[s]) >= Len(hist[s])
              /\ \A n \in 1 .. Len(hist[s]) : hist'[s][n] = hist[s][n]
          BY <1>0, <4>2
        <4> QED
          BY <1>0, <4>1, <4>3 DEF Ripens
      <3>2. CASE th[t].s # s
        BY <1>1, <2>0, <2>6, <3>2 DEF FinishSlot
      <3> QED
        BY <3>1, <3>2
    <2> QED
      BY <1>4, <2>1, <2>2, <2>3, <2>4, <2>5, <2>6 DEF Step, Update
  <1>5. CASE UNCHANGED vars
    BY <1>1, <1>5 DEF vars
  <1> QED
    BY <1>2, <1>3, <1>4, <1>5 DEF Next

\* The words a reader has loaded belong to the control word it has loaded, as long as
\* the slot still has that one; what it returns is a version no older than its call.
Loaded(r) == IF r.pc = "after" THEN {0, 1, 3} ELSE {w \in {0, 1, 3} : w < r.i}
Snapshot(t) ==
    /\ th[t].from <= Len(hist[th[t].s])
    /\ th[t].pc \in {"load", "after"} =>
          /\ Even(th[t].snap) /\ th[t].snap[2].gen <= slot[th[t].s][2].gen
          /\ th[t].snap[2].gen = slot[th[t].s][2].gen =>
                /\ th[t].snap[2] = slot[th[t].s][2]
                /\ \A w \in Loaded(th[t]) : th[t].snap[w] = slot[th[t].s][w]
    /\ th[t].pc = "got" =>
          \E n \in th[t].from .. Len(hist[th[t].s]) :
              n >= 1 /\ Version(th[t].snap) = hist[th[t].s][n]

ReaderInv == mended = "none" => \A t \in Threads : Snapshot(t)

\* What a slot grows to keeps a snapshot that was good.
LEMMA SnapshotKept ==
  ASSUME TypeInv, TypeInv', NEW t \in Threads, Snapshot(t), th'[t] = th[t],
         \A s \in Slots : Ripens(s)
  PROVE  Snapshot(t)'
  <1>s. PICK s \in Slots : s = th[t].s
    BY Here
  <1>r. PICK r \in Locals : r = th[t]
    BY Here
  <1>0. /\ slot[s] \in Images /\ slot'[s] \in Images /\ r.snap \in Images /\ r.from \in Nat
        /\ slot[s][2].gen \in Nat /\ slot'[s][2].gen \in Nat /\ r.snap[2].gen \in Nat
        /\ hist[s] \in Seq(Versions) /\ hist'[s] \in Seq(Versions) /\ r.s = s
    BY <1>s, <1>r DEF TypeInv, Images, Control, Locals
  <1>1. /\ slot'[s][2].gen >= slot[s][2].gen
        /\ slot'[s][2].gen = slot[s][2].gen /\ Even(slot[s]) => slot'[s] = slot[s]
        /\ Len(hist'[s]) >= Len(hist[s])
        /\ \A n \in 1 .. Len(hist[s]) : hist'[s][n] = hist[s][n]
    BY DEF Ripens
  <1>2. r.from <= Len(hist'[s])
    BY <1>0, <1>1, <1>s, <1>r DEF Snapshot
  <1>3. ASSUME r.pc \in {"load", "after"}
        PROVE  /\ Even(r.snap) /\ r.snap[2].gen <= slot'[s][2].gen
               /\ r.snap[2].gen = slot'[s][2].gen =>
                     /\ r.snap[2] = slot'[s][2]
                     /\ \A w \in Loaded(r) : r.snap[w] = slot'[s][w]
    <2>1. /\ Even(r.snap) /\ r.snap[2].gen <= slot[s][2].gen
          /\ r.snap[2].gen = slot[s][2].gen =>
                /\ r.snap[2] = slot[s][2]
                /\ \A w \in Loaded(r) : r.snap[w] = slot[s][w]
      BY <1>3, <1>s, <1>r DEF Snapshot
    <2>2. r.snap[2].gen = slot'[s][2].gen =>
            slot[s][2].gen = r.snap[2].gen /\ slot'[s][2].gen = slot[s][2].gen
      BY <1>0, <1>1, <2>1
    <2>3. r.snap[2].gen = slot[s][2].gen => Even(slot[s])
      BY <2>1 DEF Even
    <2> QED
      BY <1>0, <1>1, <2>1, <2>2, <2>3
  <1>4. ASSUME r.pc = "got"
        PROVE  \E n \in r.from .. Len(hist'[s]) : n >= 1 /\ Version(r.snap) = hist'[s][n]
    <2>1. PICK n \in r.from .. Len(hist[s]) : n >= 1 /\ Version(r.snap) = hist[s][n]
      BY <1>4, <1>s, <1>r DEF Snapshot
    <2>2. n \in 1 .. Len(hist[s]) /\ n \in r.from .. Len(hist'[s])
      BY <1>0, <1>1, <2>1
    <2> QED
      BY <1>1, <2>1, <2>2
  <1> QED
    BY <1>s, <1>r, <1>2, <1>3, <1>4 DEF Snapshot, Even, Version

\* A thread that leaves read_slot, or is elsewhere, has no snapshot to answer for.
LEMMA NoSnapshot ==
  ASSUME TypeInv, TypeInv', NEW t \in Threads, Snapshot(t), \A s \in Slots : Ripens(s),
         th'[t].pc \notin {"load", "after", "got"},
         th'[t].from = 0 \/ (th'[t].from = th[t].from /\ th'[t].s = th[t].s)
  PROVE  Snapshot(t)'
  <1>1. /\ th[t].s \in Slots /\ th'[t].s \in Slots /\ th[t].from \in Nat
        /\ \A s \in Slots : /\ Len(hist[s]) \in Nat /\ Len(hist'[s]) \in Nat
                            /\ Len(hist'[s]) >= Len(hist[s])
    <2>1. th[t] \in Locals /\ th'[t] \in Locals
      BY DEF TypeInv
    <2>2. \A s \in Slots : hist[s] \in Seq(Versions) /\ hist'[s] \in Seq(Versions)
      BY DEF TypeInv
    <2>3. \A s \in Slots : Len(hist'[s]) >= Len(hist[s])
      BY DEF Ripens
    <2>4. th[t].s \in Slots /\ th'[t].s \in Slots /\ th[t].from \in Nat
      BY <2>1 DEF Locals
    <2>5. \A s \in Slots : Len(hist[s]) \in Nat /\ Len(hist'[s]) \in Nat
      BY <2>2, LenProperties
    <2> QED
      BY <2>3, <2>4, <2>5
  <1>2. th'[t].from <= Len(hist'[th'[t].s])
    BY <1>1 DEF Snapshot
  <1> QED
    BY <1>2 DEF Snapshot

\* Every step outside read_slot.
LEMMA OtherSteps ==
  ASSUME TypeInv, NEW t \in Threads, Acquire(t) \/ Recover(t) \/ Update(t)
  PROVE  /\ th'[t].pc \notin {"load", "after", "got"}
         /\ th'[t].from = 0 \/ (th'[t].from = th[t].from /\ th'[t].s = th[t].s)
  <1>0. th[t] \in Locals /\ IdleThread \in Locals /\ IdleThread.pc = "idle" /\ IdleThread.from = 0
    BY Here, IdleType DEF IdleThread
  <1> DEFINE Same(r) == /\ r.pc \notin {"load", "after", "got"}
                        /\ r.from = 0 \/ (r.from = th[t].from /\ r.s = th[t].s)
  <1>1. Same(Failed(th[t])) /\ Same(Acquired(th[t])) /\ Same(TryAgain(th[t]))
    <2>1. Same(IdleThread)
      BY <1>0
    <2>2. Same([th[t] EXCEPT !.pc = "before", !.word = 0, !.start = 0, !.tries = 0])
      BY <1>0 DEF Locals
    <2>3. Same([th[t] EXCEPT !.pc = "claimant", !.word = 0, !.tries = @ + 1])
      BY <1>0 DEF Locals
    <2>4. Same(Acquired(th[t]))
      <3> DEFINE pc == IF th[t].op = "write" THEN "journal" ELSE "dropStart"
      <3>1. pc \notin {"load", "after", "got"}
        OBVIOUS
      <3> HIDE DEF pc
      <3>2. Same([th[t] EXCEPT !.pc = pc, !.i = 0, !.word = 0, !.start = 0, !.tries = 0])
        BY <1>0, <3>1 DEF Locals
      <3> QED
        BY <3>2 DEF Acquired, pc
    <2>5. Failed(th[t]) \in {IdleThread, [th[t] EXCEPT !.pc = "before", !.word = 0, !.start = 0,
                                                       !.tries = 0]}
      BY DEF Failed
    <2>6. TryAgain(th[t]) \in {Failed(th[t]), [th[t] EXCEPT !.pc = "claimant", !.word = 0,
                                                            !.tries = @ + 1]}
      BY DEF TryAgain
    <2>7. Same(Failed(th[t]))
      BY <2>1, <2>2, <2>5
    <2> QED
      BY <2>3, <2>4, <2>6, <2>7
  <1>2. \A pc \in PCs \ {"load", "after", "got"} : Same([th[t] EXCEPT !.pc = pc])
    BY <1>0 DEF Locals
  <1>3. ASSUME Acquire(t) PROVE Same(th'[t])
    <2>1. CASE LoadClaim(t)
      BY <1>0, <2>1 DEF LoadClaim, Go, TypeInv, Locals
    <2>2. CASE JudgeClaim(t)
      <3>1. th'[t] = IF process_exists(th[t].word) THEN Failed(th[t])
                     ELSE [th[t] EXCEPT !.pc = "unstick"]
        BY <2>2 DEF JudgeClaim, Go, TypeInv
      <3> QED
        BY <1>1, <1>2, <3>1 DEF PCs
    <2>3. CASE Unstick(t)
      <3>1. th'[t] = TryAgain(th[t])
        BY <2>3 DEF Unstick, Go, TypeInv
      <3> QED
        BY <1>1, <3>1
    <2>4. CASE Cas(t)
      <3>1. CASE claim = 0
        BY <1>0, <2>4, <3>1 DEF Cas, GoTo, Go, TypeInv, Locals
      <3>2. CASE claim # 0
        <4>1. th'[t] = TryAgain(th[t])
          BY <2>4, <3>2 DEF Cas, Go, TypeInv
        <4> QED
          BY <1>1, <4>1
      <3> QED
        BY <3>1, <3>2
    <2>5. CASE LoadOwner(t)
      BY <1>0, <2>5 DEF LoadOwner, Go, TypeInv, Locals
    <2>6. CASE LoadOwnerStart(t)
      BY <1>0, <2>6 DEF LoadOwnerStart, Go, TypeInv, Locals
    <2>7. CASE JudgeOwner(t)
      BY <1>0, <2>7 DEF JudgeOwner, GoTo, Go, TypeInv, Locals
    <2>8. CASE GiveUp(t)
      <3>1. th'[t] = Failed(th[t])
        BY <2>8 DEF GiveUp, Go, TypeInv
      <3> QED
        BY <1>1, <3>1
    <2>9. CASE SetStart(t)
      BY <1>0, <2>9 DEF SetStart, GoTo, Go, TypeInv, Locals
    <2>10. CASE SetOwner(t)
      BY <1>0, <2>10 DEF SetOwner, GoTo, Go, TypeInv, Locals
    <2>11. CASE FreeClaim(t)
      BY <1>0, <2>11 DEF FreeClaim, GoTo, Go, TypeInv, Locals
    <2> QED
      BY <1>3, <2>1, <2>2, <2>3, <2>4, <2>5, <2>6, <2>7, <2>8, <2>9, <2>10, <2>11 DEF Acquire
  <1>4. ASSUME Recover(t) PROVE Same(th'[t])
    <2>1. CASE LoadJournal(t)
      <3>1. th'[t] = IF jr.state = 0 THEN Acquired(th[t]) ELSE [th[t] EXCEPT !.pc = "jgen"]
        BY <2>1 DEF LoadJournal, Go, TypeInv
      <3> QED
        BY <1>1, <1>2, <3>1 DEF PCs
    <2>2. CASE JudgeSlot(t)
      BY <1>0, <2>2 DEF JudgeSlot, Go, TypeInv, Locals
    <2>3. CASE Restore(t)
      BY <1>0, <2>3 DEF Restore, Go, TypeInv, Locals
    <2>4. CASE ClearJournal(t)
      <3>1. th'[t] = Acquired(th[t])
        BY <2>4 DEF ClearJournal, Go, TypeInv
      <3> QED
        BY <1>1, <3>1
    <2> QED
      BY <1>4, <2>1, <2>2, <2>3, <2>4 DEF Recover
  <1>5. ASSUME Update(t) PROVE Same(th'[t])
    <2>1. CASE Journal(t)
      BY <1>0, <2>1 DEF Journal, Go, TypeInv, Locals
    <2>2. CASE JournalOff(t) \/ JournalOn(t)
      BY <1>0, <2>2 DEF JournalOff, JournalOn, GoTo, Go, TypeInv, Locals
    <2>3. CASE BeginSlot(t)
      BY <1>0, <2>3 DEF BeginSlot, Go, TypeInv, Locals
    <2>4. CASE StoreWord(t)
      BY <1>0, <2>4 DEF StoreWord, Go, TypeInv, Locals
    <2>5. CASE FinishSlot(t)
      BY <1>0, <2>5 DEF FinishSlot, GoTo, Go, TypeInv, Locals
    <2>6. CASE JournalDone(t)
      BY <1>0, <2>6 DEF JournalDone, GoTo, Go, TypeInv, Locals
    <2>7. CASE DropStart(t)
      BY <1>0, <2>7 DEF DropStart, GoTo, Go, TypeInv, Locals
    <2>8. CASE DropOwner(t)
      BY <1>0, <2>8 DEF DropOwner, Go, TypeInv, Locals
    <2> QED
      BY <1>5, <2>1, <2>2, <2>3, <2>4, <2>5, <2>6, <2>7, <2>8 DEF Update
  <1> QED
    BY <1>3, <1>4, <1>5

\* read_slot.
LEMMA FetchSnapshot ==
  ASSUME TypeInv, TypeInv', MutexInv, JournalInv, NEW t \in Threads, Fetch(t), mended = "none",
         Snapshot(t)
  PROVE  Snapshot(t)'
  <1>s. PICK s \in Slots : s = th[t].s
    BY Here
  <1>0. /\ th[t] \in Locals /\ slot[s] \in Images /\ th[t].snap \in Images
        /\ th[t].i \in 0 .. 3 /\ th[t].from \in Nat /\ slot[s][2].gen \in Nat
        /\ hist[s] \in Seq(Versions) /\ hist[s] # <<>> /\ InRange(th[t])
    BY <1>s, Here DEF TypeInv, Locals, Images, Control
  <1>1. slot' = slot /\ hist' = hist
    BY DEF Fetch, LoadBefore, LoadWord, LoadAfter, Return, Local, Data
  <1>2. th[t].from <= Len(hist[s])
    BY <1>s DEF Snapshot
  <1> DEFINE Elsewhere == /\ th'[t].pc \notin {"load", "after", "got"}
                          /\ \/ th'[t].from = 0
                             \/ th'[t].from = th[t].from /\ th'[t].s = s
  <1>3. ASSUME Elsewhere PROVE Snapshot(t)'
    <2>1. th'[t].s \in Slots /\ \A x \in Slots : Len(hist[x]) \in Nat
      <3>1. th'[t] \in Locals /\ \A x \in Slots : hist[x] \in Seq(Versions)
        BY DEF TypeInv
      <3> QED
        BY <3>1 DEF Locals
    <2>2. th'[t].from <= Len(hist'[th'[t].s])
      BY <1>1, <1>2, <1>3, <2>1
    <2> QED
      BY <1>3, <2>2 DEF Snapshot
  <1>4. CASE LoadBefore(t)
    <2>1. CASE slot[s][2].gen % 2 = 0
      <3> DEFINE c == slot[s][2]
      <3>1. /\ th'[t].pc = "load" /\ th'[t].i = 0 /\ th'[t].s = s /\ th'[t].from = th[t].from
            /\ th'[t].snap = [th[t].snap EXCEPT ![2] = c]
        BY <1>0, <1>4, <1>s, <2>1 DEF LoadBefore, Go, TypeInv, Locals
      <3>2. th'[t].snap[2] = slot'[s][2]
        BY <1>0, <1>1, <3>1 DEF Images, SlotWords
      <3>3. Even(th'[t].snap)
        BY <1>1, <2>1, <3>2 DEF Even
      <3>4. Loaded(th'[t]) = {}
        BY <3>1 DEF Loaded
      <3> QED
        BY <1>0, <1>1, <1>2, <3>1, <3>2, <3>3, <3>4 DEF Snapshot, Even
    <2>2. CASE slot[s][2].gen % 2 # 0
      <3>1. Elsewhere
        <4>1. CASE th[t].spins < SpinLimit
          BY <1>0, <1>4, <1>s, <2>2, <4>1 DEF LoadBefore, Go, TypeInv, Locals
        <4>2. CASE ~(th[t].spins < SpinLimit)
          BY <1>0, <1>4, <1>s, <2>2, <4>2 DEF LoadBefore, Go, TypeInv, Locals
        <4> QED
          BY <4>1, <4>2
      <3> QED
        BY <1>3, <3>1
    <2> QED
      BY <2>1, <2>2
  <1>5. CASE LoadWord(t)
    <2>i. PICK i \in {0, 1, 3} : i = th[t].i
      BY <1>0, <1>5 DEF LoadWord, InRange
    <2>1. /\ th'[t].snap = [th[t].snap EXCEPT ![i] = slot[s][i]] /\ th'[t].s = s
          /\ th'[t].from = th[t].from
          /\ i = 3 => th'[t].pc = "after"
          /\ i = 0 => th'[t].pc = "load" /\ th'[t].i = 1
          /\ i = 1 => th'[t].pc = "load" /\ th'[t].i = 3
      <3> DEFINE j == CASE i = 0 -> 1 [] i = 1 -> 3 [] OTHER -> 0
      <3>1. th'[t] = [th[t] EXCEPT !.snap[i] = slot[s][i],
                                   !.pc = IF i = 3 THEN "after" ELSE "load", !.i = j]
        BY <1>0, <1>5, <1>s, <2>i DEF LoadWord, Go, TypeInv
      <3>2. (i = 0 => j = 1) /\ (i = 1 => j = 3)
        OBVIOUS
      <3> HIDE DEF j
      <3> QED
        BY <1>0, <1>s, <3>1, <3>2 DEF Locals
    <2>2. /\ th'[t].snap[2] = th[t].snap[2] /\ th'[t].snap[i] = slot[s][i]
          /\ \A w \in {0, 1, 3} \ {i} : th'[t].snap[w] = th[t].snap[w]
      BY <1>0, <2>1 DEF Images, SlotWords
    <2>3. /\ Even(th[t].snap) /\ th[t].snap[2].gen <= slot[s][2].gen
          /\ th[t].snap[2].gen = slot[s][2].gen =>
                /\ th[t].snap[2] = slot[s][2]
                /\ \A w \in {0, 1, 3} : w < i => th[t].snap[w] = slot[s][w]
      BY <1>5, <1>s, <2>i DEF LoadWord, Snapshot, Loaded
    <2>4. \A w \in Loaded(th'[t]) : w \in {0, 1, 3} /\ (w < i \/ w = i)
      BY <2>1 DEF Loaded
    <2>5. th'[t].pc \in {"load", "after"} /\ Even(th'[t].snap)
      BY <2>1, <2>2, <2>3 DEF Even
    <2>6. th'[t].snap[2].gen = slot'[s][2].gen =>
                /\ th'[t].snap[2] = slot'[s][2]
                /\ \A w \in Loaded(th'[t]) : th'[t].snap[w] = slot'[s][w]
      BY <1>1, <2>2, <2>3, <2>4
    <2> QED
      BY <1>1, <1>2, <2>1, <2>2, <2>3, <2>5, <2>6 DEF Snapshot, Even
  <1>6. CASE LoadAfter(t)
    <2>1. th'[t].snap = th[t].snap /\ th'[t].s = s /\ th'[t].from = th[t].from
      BY <1>0, <1>6, <1>s DEF LoadAfter, GoTo, Go, TypeInv, Locals
    <2>2. CASE slot[s][2] = th[t].snap[2]
      <3>1. th'[t].pc = "got" /\ th[t].pc = "after"
        BY <1>0, <1>6, <1>s, <2>2 DEF LoadAfter, GoTo, Go, TypeInv, Locals
      <3>2. /\ Even(th[t].snap)
            /\ \A w \in {0, 1, 3} : th[t].snap[w] = slot[s][w]
        BY <1>s, <2>2, <3>1 DEF Snapshot, Loaded
      <3>3. Clean(s)
        BY <2>2, <3>2, EvenClean DEF Even
      <3>4. Version(th[t].snap) = Version(slot[s])
        BY <2>2, <3>2 DEF Version
      <3>5. /\ Len(hist[s]) \in th[t].from .. Len(hist[s]) /\ Len(hist[s]) >= 1
        BY <1>0, <1>2
      <3>6. Version(th'[t].snap) = hist'[s][Len(hist[s])]
        BY <1>1, <2>1, <3>3, <3>4 DEF Clean, Last
      <3> QED
        BY <1>1, <1>2, <2>1, <3>1, <3>5, <3>6 DEF Snapshot, Version
    <2>3. CASE slot[s][2] # th[t].snap[2]
      <3>1. th'[t].pc = "before"
        BY <1>0, <1>6, <1>s, <2>3 DEF LoadAfter, GoTo, Go, TypeInv, Locals
      <3> QED
        BY <1>3, <2>1, <3>1
    <2> QED
      BY <2>2, <2>3
  <1>7. CASE Return(t)
    <2>1. th'[t].pc = "idle" /\ th'[t].from = 0
      BY <1>7 DEF Return, Go, TypeInv, IdleThread
    <2> QED
      BY <1>3, <2>1
  <1> QED
    BY <1>4, <1>5, <1>6, <1>7 DEF Fetch

LEMMA InitReader == Init => ReaderInv
  <1> SUFFICES ASSUME Init PROVE ReaderInv
    OBVIOUS
  <1>1. \A t \in Threads : th[t].pc \in {"idle", "off"} /\ th[t].from = 0 /\ th[t].s \in Slots
    BY SomeSlotType DEF Init, IdleThread, OffThread
  <1>2. \A s \in Slots : Len(hist[s]) = 1
    BY DEF Init
  <1> QED
    BY <1>1, <1>2 DEF ReaderInv, Snapshot

LEMMA NextReader ==
  TypeInv /\ TypeInv' /\ MutexInv /\ JournalInv /\ ReaderInv /\ [Next]_vars => ReaderInv'
  <1> SUFFICES ASSUME TypeInv, TypeInv', MutexInv, JournalInv, ReaderInv, [Next]_vars,
                      mended' = "none", NEW t \in Threads
               PROVE  Snapshot(t)'
    BY DEF ReaderInv
  <1>0. mended = "none" /\ Snapshot(t) /\ \A s \in Slots : Ripens(s)
    BY MendedStays, Ripening DEF ReaderInv
  <1>1. CASE th'[t] = th[t]
    BY <1>0, <1>1, SnapshotKept
  <1>2. ASSUME NEW p \in Procs, Spawn(p) \/ Die(p) PROVE Snapshot(t)'
    <2>1. th'[t] \in {th[t], IdleThread, OffThread}
      BY <1>2 DEF Spawn, Die
    <2>2. \A r \in {IdleThread, OffThread} : r.pc \in {"idle", "off"} /\ r.from = 0
      BY DEF IdleThread, OffThread
    <2> QED
      BY <1>0, <1>1, <2>1, <2>2, NoSnapshot
  <1>3. ASSUME NEW u \in Threads, NEW s \in Slots,
               Read(u, s) \/ \E kind \in Kinds : Write(u, s, kind)
        PROVE  Snapshot(t)'
    <2>0. IdleThread \in Locals /\ IdleThread.from = 0
      BY IdleType DEF IdleThread
    <2>1. CASE u # t
      <3>1. th'[t] = th[t]
        <4>1. ASSUME NEW kind \in Kinds, Write(u, s, kind) PROVE th'[t] = th[t]
          BY <2>1, <4>1 DEF Write, Go, TypeInv
        <4> QED
          BY <1>3, <2>1, <4>1 DEF Read, Go, TypeInv
      <3> QED
        BY <1>1, <3>1
    <2>2. CASE u = t /\ Read(t, s)
      <3>1. /\ th'[t].pc = "before" /\ th'[t].s = s /\ th'[t].from = Len(hist[s])
            /\ hist' = hist
        BY <2>0, <2>2 DEF Read, Data, Go, TypeInv, Locals
      <3>2. Len(hist[s]) \in Nat
        BY DEF TypeInv
      <3> QED
        BY <3>1, <3>2 DEF Snapshot
    <2>3. ASSUME NEW kind \in Kinds, Write(t, s, kind) PROVE Snapshot(t)'
      <3>1. th'[t].pc = "claimant" /\ th'[t].from = 0
        BY <2>0, <2>3 DEF Write, Go, TypeInv, Locals
      <3> QED
        BY <1>0, <3>1, NoSnapshot
    <2> QED
      BY <1>3, <2>1, <2>2, <2>3
  <1>4. ASSUME NEW u \in Threads, Step(u) PROVE Snapshot(t)'
    <2>1. CASE u # t
      <3>1. th'[t] = th[t]
        BY <1>4, <2>1, StepQuiet
      <3> QED
        BY <1>1, <3>1
    <2>2. CASE u = t /\ Fetch(t)
      BY <1>0, <2>2, FetchSnapshot
    <2>3. CASE u = t /\ ~Fetch(t)
      BY <1>0, <1>4, <2>3, OtherSteps, NoSnapshot DEF Step
    <2> QED
      BY <2>1, <2>2, <2>3
  <1>5. CASE UNCHANGED vars
    BY <1>1, <1>5 DEF vars
  <1> QED
    BY <1>2, <1>3, <1>4, <1>5 DEF Next

\* read_slot: until a repair stores a control word, and as long as the system has given no
\* PID out twice, the words it returns are one committed version of its slot, and one that
\* was current at some moment of the call, whoever dies.  After such a repair it is false:
\* the control word has a generation a reader may have seen, and word 3 comes after it.
THEOREM SnapshotsFresh == Spec => [](~PidReused => SnapshotFresh)
  <1> DEFINE Inv == TypeInv /\ (~PidReused => MutexInv /\ JournalInv /\ ReaderInv)
  <1>1. Init => Inv
    BY InitType, InitMutex, InitJournal, InitReader
  <1>2. Inv /\ [Next]_vars => Inv'
    BY NextType, NextMutex, ReusedStays, NextJournal, NextReader
  <1>3. Inv => (~PidReused => SnapshotFresh)
    BY DEF ReaderInv, Snapshot, SnapshotFresh
  <1> QED
    BY <1>1, <1>2, <1>3, PTL DEF Spec
=============================================================================
