------------------------------ MODULE MemhSlot ------------------------------
(***************************************************************************)
(* The slot protocol of the MEMH hash table (memh/layout.rs).  A slot is   *)
(* four atomic words, of which word 2 carries a seqlock generation.  A     *)
(* writer takes the cross-process ownership, copies the slot into the      *)
(* header's journal, makes the generation odd, stores the words and makes  *)
(* it even again.  A thread that meets an odd generation whose owner is    *)
(* dead takes the ownership and restores the journal.                      *)
(*                                                                         *)
(* One action is one atomic access.  The content of a word is the number   *)
(* of the write that stored it: all a reader may ask of a snapshot is that *)
(* its words belong together.                                              *)
(***************************************************************************)
EXTENDS Integers, Sequences

CONSTANTS
    Slots,          \* slots of the table
    Threads, Procs, \* threads, and the processes (instances) they run in
    ProcOf,         \* the process of a thread
    PidOf, StartOf, \* PID and kernel start time of a process
    InitUp,         \* processes that run from the beginning
    Kinds,          \* kinds of slot update in use
    TryLimit,       \* attempts of acquire_writer (64 in the code)
    SpinLimit,      \* busy reads before a reader tries to take over
    MaxWrites,      \* bound: writes begun
    MaxReads,       \* bound: reads begun
    MaxCrashes      \* bound: processes that die

ASSUME SlotAssumption ==
    /\ Slots # {}
    /\ ProcOf \in [Threads -> Procs]
    /\ PidOf \in [Procs -> Nat \ {0}]
    /\ StartOf \in [Procs -> Nat]
    /\ InitUp \subseteq Procs
    /\ Kinds \subseteq {"commit", "head", "inline"}
    /\ TryLimit \in Nat \ {0}
    /\ {SpinLimit, MaxWrites, MaxReads, MaxCrashes} \subseteq Nat

VARIABLES
    slot,           \* the four words of every slot; word 2 is [head, gen]
    jr,             \* journal_state, journal_slot_off, journal_words
    claim,          \* writer_claim
    owner,          \* writer_pid
    ownerStart,     \* writer_start_time
    proc,           \* processes: not started, running or dead
    th,             \* program counter and locals of every thread
    hist,           \* history: the committed versions of every slot
    mended,         \* history: no repair has stored a control word, or some has, or
                    \* one was left by a death between that store and the next
    begun, reads, crashes   \* writes and reads begun, processes dead

vars == <<slot, jr, claim, owner, ownerStart, proc, th, hist, mended, begun, reads,
          crashes>>

Pid(t) == PidOf[ProcOf[t]]
Start(t) == StartOf[ProcOf[t]]

\* SLOT_WORDS
SlotWords == 0 .. 3
Image(v, g) == [w \in SlotWords |-> IF w = 2 THEN [head |-> v, gen |-> g] ELSE v]

\* What a version of a slot is: everything but the generation.
Version(words) == <<words[0], words[1], words[2].head, words[3]>>

\* The words commit_slot, commit_slot_head and update_slot_inline_value store
\* between the odd and the even generation, in their order.
Stores(kind) == CASE kind = "commit" -> <<0, 1, 3>>
                  [] kind = "head"   -> <<0>>
                  [] kind = "inline" -> <<0, 3>>

\* Processes, as kill(pid, 0) and the kernel's start time show them.
Up(pid) == {p \in Procs : proc[p] = "up" /\ PidOf[p] = pid}
process_exists(pid) == Up(pid) # {}
process_instance_alive(pid, expected) ==
    \E p \in Up(pid) : expected = 0 \/ StartOf[p] \in {0, expected}

\* What an offset of zero names, before a slot is given.
SomeSlot == CHOOSE s \in Slots : TRUE

IdleThread == [pc |-> "idle", op |-> "none", s |-> SomeSlot,
               kind |-> "none", v |-> 0, i |-> 0, word |-> 0, start |-> 0,
               tries |-> 0, spins |-> 0, snap |-> Image(0, 0), from |-> 0]
OffThread == [IdleThread EXCEPT !.pc = "off"]

Init ==
    /\ slot = [s \in Slots |-> Image(0, 0)]
    /\ jr = [state |-> 0, off |-> SomeSlot, words |-> Image(0, 0)]
    /\ claim = 0 /\ owner = 0 /\ ownerStart = 0
    /\ proc = [p \in Procs |-> IF p \in InitUp THEN "up" ELSE "new"]
    /\ th = [t \in Threads |-> IF ProcOf[t] \in InitUp THEN IdleThread ELSE OffThread]
    /\ hist = [s \in Slots |-> <<Version(Image(0, 0))>>]
    /\ mended = "none" /\ begun = 0 /\ reads = 0 /\ crashes = 0

(***************************************************************************)
(* Processes start and die.  A PID is given to one running process.        *)
(***************************************************************************)
Spawn(p) ==
    /\ proc[p] = "new" /\ Up(PidOf[p]) = {}
    /\ proc' = [proc EXCEPT ![p] = "up"]
    /\ th' = [t \in Threads |-> IF ProcOf[t] = p THEN IdleThread ELSE th[t]]
    /\ UNCHANGED <<slot, jr, claim, owner, ownerStart, hist, mended, begun, reads, crashes>>

Die(p) ==
    /\ proc[p] = "up" /\ crashes < MaxCrashes
    /\ proc' = [proc EXCEPT ![p] = "dead"]
    /\ th' = [t \in Threads |-> IF ProcOf[t] = p THEN OffThread ELSE th[t]]
    /\ crashes' = crashes + 1
    /\ mended' = IF \E t \in Threads : ProcOf[t] = p /\ th[t].pc = "restore" /\ th[t].i = 3
                 THEN "torn" ELSE mended
    /\ UNCHANGED <<slot, jr, claim, owner, ownerStart, hist, begun, reads>>

Bounds == UNCHANGED <<proc, mended, begun, reads, crashes>>
Header == UNCHANGED <<claim, owner, ownerStart>>
Data   == UNCHANGED <<slot, jr, hist>>
Local  == Bounds /\ Header /\ Data

Go(t, r) == th' = [th EXCEPT ![t] = r]
GoTo(t, pc) == Go(t, [th[t] EXCEPT !.pc = pc])

(***************************************************************************)
(* The two operations: an update of a slot, and read_slot.                 *)
(***************************************************************************)
Write(t, s, kind) ==
    /\ th[t].pc = "idle" /\ begun < MaxWrites
    /\ begun' = begun + 1
    /\ Go(t, [IdleThread EXCEPT !.pc = "claimant", !.op = "write", !.s = s,
                                !.kind = kind, !.v = begun + 1])
    /\ Header /\ Data /\ UNCHANGED <<proc, mended, reads, crashes>>

Read(t, s) ==
    /\ th[t].pc = "idle" /\ reads < MaxReads
    /\ reads' = reads + 1
    /\ Go(t, [IdleThread EXCEPT !.pc = "before", !.op = "read", !.s = s,
                                !.from = Len(hist[s])])
    /\ Header /\ Data /\ UNCHANGED <<proc, mended, begun, crashes>>

\* Where acquire_writer returns to: None makes a writer report WriterBusy and
\* lets a reader spin on.
Failed(r) == IF r.op = "write" THEN IdleThread
             ELSE [r EXCEPT !.pc = "before", !.word = 0, !.start = 0, !.tries = 0]
Acquired(r) == [r EXCEPT !.pc = IF r.op = "write" THEN "journal" ELSE "dropStart",
                         !.i = 0, !.word = 0, !.start = 0, !.tries = 0]

(***************************************************************************)
(* acquire_writer                                                          *)
(***************************************************************************)
TryAgain(r) == IF r.tries + 1 = TryLimit THEN Failed(r)
               ELSE [r EXCEPT !.pc = "claimant", !.word = 0, !.tries = @ + 1]

LoadClaim(t) ==
    /\ th[t].pc = "claimant"
    /\ Go(t, [th[t] EXCEPT !.pc = IF claim = 0 THEN "cas" ELSE "exists", !.word = claim])
    /\ Local

\* Mutant: a claim is taken over whoever holds it.
JudgeClaim_steal(t) ==
    /\ th[t].pc = "exists"
    /\ GoTo(t, "unstick")
    /\ Local

JudgeClaim(t) ==
    /\ th[t].pc = "exists"
    /\ Go(t, IF process_exists(th[t].word) THEN Failed(th[t])
             ELSE [th[t] EXCEPT !.pc = "unstick"])
    /\ Local

\* Mutant: the claim of a dead process stays.
Unstick_not(t) ==
    /\ th[t].pc = "unstick"
    /\ Go(t, TryAgain(th[t]))
    /\ Local

Unstick(t) ==
    /\ th[t].pc = "unstick"
    /\ claim' = IF claim = th[t].word THEN 0 ELSE claim
    /\ Go(t, TryAgain(th[t]))
    /\ Bounds /\ Data /\ UNCHANGED <<owner, ownerStart>>

Cas(t) ==
    /\ th[t].pc = "cas"
    /\ IF claim = 0 THEN claim' = Pid(t) /\ GoTo(t, "owner")
                    ELSE UNCHANGED claim /\ Go(t, TryAgain(th[t]))
    /\ Bounds /\ Data /\ UNCHANGED <<owner, ownerStart>>

LoadOwner(t) ==
    /\ th[t].pc = "owner"
    /\ Go(t, [th[t] EXCEPT !.pc = IF owner = 0 THEN "setStart" ELSE "ownerStart",
                           !.word = owner])
    /\ Local

LoadOwnerStart(t) ==
    /\ th[t].pc = "ownerStart"
    /\ Go(t, [th[t] EXCEPT !.pc = "judge", !.start = ownerStart])
    /\ Local

JudgeOwner(t) ==
    /\ th[t].pc = "judge"
    /\ GoTo(t, IF process_instance_alive(th[t].word, th[t].start) THEN "giveUp" ELSE "setStart")
    /\ Local

GiveUp(t) ==
    /\ th[t].pc = "giveUp"
    /\ claim' = 0 /\ Go(t, Failed(th[t]))
    /\ Bounds /\ Data /\ UNCHANGED <<owner, ownerStart>>

SetStart(t) ==
    /\ th[t].pc = "setStart"
    /\ ownerStart' = Start(t) /\ GoTo(t, "setOwner")
    /\ Bounds /\ Data /\ UNCHANGED <<claim, owner>>

SetOwner(t) ==
    /\ th[t].pc = "setOwner"
    /\ owner' = Pid(t) /\ GoTo(t, "unclaim")
    /\ Bounds /\ Data /\ UNCHANGED <<claim, ownerStart>>

FreeClaim(t) ==
    /\ th[t].pc = "unclaim"
    /\ claim' = 0 /\ GoTo(t, "jstate")
    /\ Bounds /\ Data /\ UNCHANGED <<owner, ownerStart>>

Acquire(t) ==
    \/ LoadClaim(t) \/ JudgeClaim(t) \/ Unstick(t) \/ Cas(t) \/ LoadOwner(t)
    \/ LoadOwnerStart(t) \/ JudgeOwner(t) \/ GiveUp(t) \/ SetStart(t) \/ SetOwner(t)
    \/ FreeClaim(t)

(***************************************************************************)
(* recover_slot_journal.  journal_slot_off is a slot's offset whenever the *)
(* journal is valid, so its range test never fails.                        *)
(***************************************************************************)
LoadJournal(t) ==
    /\ th[t].pc = "jstate"
    /\ Go(t, IF jr.state = 0 THEN Acquired(th[t]) ELSE [th[t] EXCEPT !.pc = "jgen"])
    /\ Local

JudgeSlot(t) ==
    /\ th[t].pc = "jgen"
    /\ Go(t, [th[t] EXCEPT !.pc = IF slot[jr.off][2].gen % 2 = 1 THEN "restore" ELSE "jclear",
                           !.i = 0])
    /\ Local

Restore(t) ==
    /\ th[t].pc = "restore"
    /\ slot' = [slot EXCEPT ![jr.off][th[t].i] = jr.words[th[t].i]]
    /\ Go(t, IF th[t].i = 3 THEN [th[t] EXCEPT !.pc = "jclear", !.i = 0]
             ELSE [th[t] EXCEPT !.i = @ + 1])
    /\ mended' = IF th[t].i = 2 /\ mended = "none" THEN "some" ELSE mended
    /\ Header /\ UNCHANGED <<jr, hist, proc, begun, reads, crashes>>

ClearJournal(t) ==
    /\ th[t].pc = "jclear"
    /\ jr' = [jr EXCEPT !.state = 0] /\ Go(t, Acquired(th[t]))
    /\ Bounds /\ Header /\ UNCHANGED <<slot, hist>>

Recover(t) == LoadJournal(t) \/ JudgeSlot(t) \/ Restore(t) \/ ClearJournal(t)

(***************************************************************************)
(* begin_slot_write, the stores of the update, finish_slot_write.          *)
(***************************************************************************)
Journal(t) ==
    /\ th[t].pc = "journal"
    /\ jr' = [jr EXCEPT !.words[th[t].i] = slot[th[t].s][th[t].i]]
    /\ Go(t, IF th[t].i = 3 THEN [th[t] EXCEPT !.pc = "joff", !.i = 0]
             ELSE [th[t] EXCEPT !.i = @ + 1])
    /\ Bounds /\ Header /\ UNCHANGED <<slot, hist>>

JournalOff(t) ==
    /\ th[t].pc = "joff"
    /\ jr' = [jr EXCEPT !.off = th[t].s] /\ GoTo(t, "jon")
    /\ Bounds /\ Header /\ UNCHANGED <<slot, hist>>

\* Mutant: the journal is never made valid.
JournalOn_not(t) ==
    /\ th[t].pc = "jon"
    /\ GoTo(t, "odd")
    /\ Local

JournalOn(t) ==
    /\ th[t].pc = "jon"
    /\ jr' = [jr EXCEPT !.state = 1] /\ GoTo(t, "odd")
    /\ Bounds /\ Header /\ UNCHANGED <<slot, hist>>

\* generation.wrapping_add(1) | 1
Odd(g) == IF g % 2 = 0 THEN g + 1 ELSE g + 2

BeginSlot(t) ==
    /\ th[t].pc = "odd"
    /\ slot' = [slot EXCEPT ![th[t].s][2].gen = Odd(@)]
    /\ Go(t, [th[t] EXCEPT !.pc = "store", !.i = 1])
    /\ Bounds /\ Header /\ UNCHANGED <<jr, hist>>

StoreWord(t) ==
    /\ th[t].pc = "store"
    /\ slot' = [slot EXCEPT ![th[t].s][Stores(th[t].kind)[th[t].i]] = th[t].v]
    /\ Go(t, IF th[t].i = Len(Stores(th[t].kind)) THEN [th[t] EXCEPT !.pc = "finish", !.i = 0]
             ELSE [th[t] EXCEPT !.i = @ + 1])
    /\ Bounds /\ Header /\ UNCHANGED <<jr, hist>>

\* The version an update makes of the last committed one.
Updated(kind, old, v) ==
    <<v, IF kind = "commit" THEN v ELSE old[2],
      IF kind = "inline" THEN old[3] ELSE v, IF kind = "head" THEN old[4] ELSE v>>

\* The even generation commits: from here on the version can be read.
FinishSlot(t) ==
    /\ th[t].pc = "finish"
    /\ slot' = [slot EXCEPT ![th[t].s][2] =
                  [head |-> IF th[t].kind = "inline" THEN @.head ELSE th[t].v,
                   gen |-> @.gen + 1]]
    /\ hist' = [hist EXCEPT ![th[t].s] = Append(@, Updated(th[t].kind, @[Len(@)], th[t].v))]
    /\ GoTo(t, "jdone")
    /\ Bounds /\ Header /\ UNCHANGED jr

JournalDone(t) ==
    /\ th[t].pc = "jdone"
    /\ jr' = [jr EXCEPT !.state = 0] /\ GoTo(t, "dropStart")
    /\ Bounds /\ Header /\ UNCHANGED <<slot, hist>>

\* Drop of MemhWriteGuard.
DropStart(t) ==
    /\ th[t].pc = "dropStart"
    /\ ownerStart' = 0 /\ GoTo(t, "dropOwner")
    /\ Bounds /\ Data /\ UNCHANGED <<claim, owner>>

DropOwner(t) ==
    /\ th[t].pc = "dropOwner"
    /\ owner' = 0
    /\ Go(t, IF th[t].op = "write" THEN IdleThread ELSE [th[t] EXCEPT !.pc = "before"])
    /\ Bounds /\ Data /\ UNCHANGED <<claim, ownerStart>>

Update(t) ==
    \/ Journal(t) \/ JournalOff(t) \/ JournalOn(t) \/ BeginSlot(t) \/ StoreWord(t)
    \/ FinishSlot(t) \/ JournalDone(t) \/ DropStart(t) \/ DropOwner(t)

(***************************************************************************)
(* read_slot: control word, words 0, 1 and 3, control word again.          *)
(***************************************************************************)
LoadBefore(t) ==
    /\ th[t].pc = "before"
    /\ LET control == slot[th[t].s][2] IN
       Go(t, IF control.gen % 2 = 0
               THEN [th[t] EXCEPT !.pc = "load", !.i = 0, !.snap[2] = control]
             ELSE IF th[t].spins < SpinLimit THEN [th[t] EXCEPT !.spins = @ + 1]
             ELSE [th[t] EXCEPT !.pc = "claimant", !.spins = 0])
    /\ Local

LoadWord(t) ==
    /\ th[t].pc = "load"
    /\ Go(t, [th[t] EXCEPT !.snap[th[t].i] = slot[th[t].s][th[t].i],
                           !.pc = IF th[t].i = 3 THEN "after" ELSE "load",
                           !.i = CASE @ = 0 -> 1 [] @ = 1 -> 3 [] OTHER -> 0])
    /\ Local

\* Mutant: only the parity of the second load is tested.
LoadAfter_parity(t) ==
    /\ th[t].pc = "after"
    /\ GoTo(t, IF slot[th[t].s][2].gen % 2 = 0 THEN "got" ELSE "before")
    /\ Local

LoadAfter(t) ==
    /\ th[t].pc = "after"
    /\ GoTo(t, IF slot[th[t].s][2] = th[t].snap[2] THEN "got" ELSE "before")
    /\ Local

Return(t) ==
    /\ th[t].pc = "got"
    /\ Go(t, IdleThread)
    /\ Local

Fetch(t) == LoadBefore(t) \/ LoadWord(t) \/ LoadAfter(t) \/ Return(t)

Step(t) == Acquire(t) \/ Recover(t) \/ Update(t) \/ Fetch(t)

Next ==
    \/ \E p \in Procs : Spawn(p) \/ Die(p)
    \/ \E t \in Threads, s \in Slots :
          Read(t, s) \/ \E kind \in Kinds : Write(t, s, kind)
    \/ \E t \in Threads : Step(t)

Spec == Init /\ [][Next]_vars

\* An operation that has begun goes on for as long as its process lives: it
\* spins or yields, and waits on no lock.
FairSpec == Spec /\ \A t \in Threads : WF_vars(Step(t))

(***************************************************************************)
(* Properties                                                              *)
(***************************************************************************)
PCs == {"idle", "off", "claimant", "exists", "unstick", "cas", "owner", "ownerStart",
        "judge", "giveUp", "setStart", "setOwner", "unclaim", "jstate", "jgen", "restore",
        "jclear", "journal", "joff", "jon", "odd", "store", "finish", "jdone",
        "dropStart", "dropOwner", "before", "load", "after", "got"}
Pids == {PidOf[p] : p \in Procs} \cup {0}

\* Types of the shared header and of the locals that index it.
TypeOK ==
    /\ claim \in Pids /\ owner \in Pids
    /\ proc \in [Procs -> {"new", "up", "dead"}]
    /\ \A t \in Threads : /\ th[t].pc \in PCs /\ th[t].word \in Pids
                          /\ th[t].s \in Slots /\ th[t].tries \in 0 .. TryLimit - 1
    /\ jr.off \in Slots /\ jr.state \in {0, 1} /\ mended \in {"none", "some", "torn"}

\* Between claiming the ownership and giving it up.
Owns(t) == th[t].pc \in {"unclaim", "jstate", "jgen", "restore", "jclear", "journal", "joff",
                         "jon", "odd", "store", "finish", "jdone", "dropStart", "dropOwner"}

\* acquire_writer: at most one thread of all processes may touch the journal
\* and the slots, whoever died with the claim or the ownership.
MutualExclusion == \A t, u \in Threads : Owns(t) /\ Owns(u) => t = u

\* read_slot: the words it returns are one version of the slot, and one that
\* was current at some moment of the call, also beside a writer that dies and one
\* that starts to repair what it left.  Until a repair stores a control word only:
\* it has the generation a reader may have seen, and word 3 comes after it.
SnapshotFresh ==
    \A t \in Threads : th[t].pc = "got" /\ mended = "none" =>
        \E n \in th[t].from .. Len(hist[th[t].s]) : Version(th[t].snap) = hist[th[t].s][n]

\* recover_slot_journal: with nobody at work and the journal empty, every slot
\* is its last committed version, whichever of its writers and repairers died,
\* and at which word.  Only a repairer that dies between the control word and
\* word 3 is too much: the slot has an even generation already, and the next
\* one clears the journal.
RolledBack ==
    (jr.state = 0 /\ mended # "torn" /\ \A t \in Threads : ~Owns(t)) =>
        \A s \in Slots : /\ slot[s][2].gen % 2 = 0
                         /\ Version(slot[s]) = hist[s][Len(hist[s])]

\* What repairs leave behind, and the words they leave it in.
RepairSound == TypeOK /\ RolledBack

\* read_slot: a read comes to an end although the writer of its slot, and
\* whoever repaired it, may have died.
ReadReturns ==
    \A t \in Threads : (th[t].op = "read") ~> (th[t].op = "none")

=============================================================================
