----------------------------- MODULE ColdStore ------------------------------
(***************************************************************************)
(* Retention in a directory of MEMC segments (memc/store.rs) that several  *)
(* processes share.  Each process has one compactor thread, which writes   *)
(* its own segment and between writes enforces the byte budget and the TTL *)
(* over everybody's segments, one system call after the other.             *)
(*                                                                         *)
(* Names that ColdTier has too begin with Store here: the proofs about the *)
(* cold tier extend both modules.                                          *)
(***************************************************************************)
EXTENDS Integers, SequencesExt, FiniteSetsExt

CONSTANTS
    Procs,
    Enforcers,      \* the processes with a budget configured
    MaxBytes,       \* max_total_bytes
    Ttl,            \* ttl, in ticks of the clock
    MaxSegs,        \* bound: segments created
    MaxSize,        \* bound: size of a segment
    MaxClock,       \* bound: time
    MaxDeaths       \* bound: processes that die

ASSUME StoreAssumption ==
    /\ Enforcers \subseteq Procs
    /\ {MaxBytes, Ttl, MaxSegs, MaxSize, MaxClock, MaxDeaths} \subseteq Nat

VARIABLES
    dir,            \* the segments, in the order of their creation
    writing,        \* the segment a process writes, or 0
    en,             \* locals of enforce_limits_checked
    clock, deaths,
    crossed,        \* history: a segment was removed during another process's pass
    excess          \* history: before that, one was that the limits do not ask for

storeVars == <<dir, writing, en, clock, deaths, crossed, excess>>

Ids == DOMAIN dir
Remaining == {s \in Ids : dir[s].state # "gone"}
Idle == [pc |-> "idle", paths |-> <<>>, i |-> 1, protected |-> {}, total |-> 0]
Down == [Idle EXCEPT !.pc = "down"]

StoreInit ==
    /\ dir = <<>>
    /\ writing = [p \in Procs |-> 0]
    /\ en = [p \in Procs |-> Idle]
    /\ clock = 0 /\ deaths = 0 /\ crossed = FALSE /\ excess = FALSE

(***************************************************************************)
(* The writer of a process.                                                *)
(***************************************************************************)
Tick == /\ clock < MaxClock /\ clock' = clock + 1
        /\ UNCHANGED <<dir, writing, en, deaths, crossed, excess>>

\* create_segment: create_new makes the file, the header follows.
Create(p) ==
    /\ en[p].pc = "idle" /\ writing[p] = 0 /\ Len(dir) < MaxSegs
    /\ dir' = Append(dir, [state |-> "stub", size |-> 0, mtime |-> clock])
    /\ writing' = [writing EXCEPT ![p] = Len(dir) + 1]
    /\ UNCHANGED <<en, clock, deaths, crossed, excess>>

\* Header, blocks and seal: each write grows the file and moves its mtime.
Write(p, from, to) ==
    /\ en[p].pc = "idle" /\ writing[p] # 0
    /\ dir[writing[p]].state = from /\ dir[writing[p]].size < MaxSize
    /\ dir' = [dir EXCEPT ![writing[p]] = [state |-> to, size |-> @.size + 1, mtime |-> clock]]
    /\ writing' = [writing EXCEPT ![p] = IF to = "sealed" THEN 0 ELSE @]
    /\ UNCHANGED <<en, clock, deaths, crossed, excess>>

Die(p) ==
    /\ en[p].pc # "down" /\ deaths < MaxDeaths
    /\ deaths' = deaths + 1
    /\ en' = [en EXCEPT ![p] = Down] /\ writing' = [writing EXCEPT ![p] = 0]
    /\ UNCHANGED <<dir, clock, crossed, excess>>

(***************************************************************************)
(* enforce_limits_checked.                                                 *)
(***************************************************************************)
Local(p, e) == en' = [en EXCEPT ![p] = e]
Path(p) == en[p].paths[en[p].i]
More(p) == en[p].i <= Len(en[p].paths)

\* The sizes of some segments, added up.
BytesBefore(ss) ==
    LET bytes[n \in 0 .. Len(dir)] ==
            IF n = 0 THEN 0 ELSE bytes[n - 1] + IF n \in ss THEN dir[n].size ELSE 0
    IN bytes
Bytes(ss) == BytesBefore(ss)[Len(dir)]

\* segment_paths_checked, by modification time; equal times keep the order
\* of the directory, here that of creation.
Earlier(a, b) == dir[a].mtime < dir[b].mtime \/ (dir[a].mtime = dir[b].mtime /\ a < b)
Sorted == {paths \in [1 .. Cardinality(Remaining) -> Remaining] :
              \A i, j \in DOMAIN paths : i < j => Earlier(paths[i], paths[j])}
List(p) ==
    /\ p \in Enforcers /\ en[p].pc = "idle" /\ Cardinality(Remaining) > 1
    /\ writing[p] # 0 => dir[writing[p]].state # "stub"
    /\ \E paths \in Sorted : Local(p, [Idle EXCEPT !.pc = "validate", !.paths = paths])
    /\ UNCHANGED <<dir, writing, clock, deaths, crossed, excess>>

\* The segments a pass may remove.
Unprotected == {"sealed"}

\* Each segment is opened.  One that does not open (without a header, or
\* removed meanwhile) fails the pass; one that is not sealed is protected.
Validate(p) ==
    /\ en[p].pc = "validate" /\ More(p)
    /\ LET s == Path(p) IN
       Local(p, IF dir[s].state \in {"stub", "gone"} THEN Idle
                ELSE [en[p] EXCEPT !.i = @ + 1,
                        !.protected = IF dir[s].state \in Unprotected THEN @ ELSE @ \cup {s}])
    /\ UNCHANGED <<dir, writing, clock, deaths, crossed, excess>>

Newest(p) == {Last(en[p].paths)}

\* The newest is protected too, and the sizes are added up; a file removed
\* meanwhile fails the pass.
Measure(p) ==
    /\ en[p].pc = "validate" /\ ~More(p)
    /\ Local(p, IF ~(Range(en[p].paths) \subseteq Remaining) THEN Idle
                ELSE [en[p] EXCEPT !.pc = "evict", !.i = 1, !.protected = @ \cup Newest(p),
                                   !.total = Bytes(Range(en[p].paths))])
    /\ UNCHANGED <<dir, writing, clock, deaths, crossed, excess>>

TooOld(s) == clock - dir[s].mtime > Ttl

\* Mutant: the total is not reduced by what is removed.
Left_all(p, s) == en[p].total

Left(p, s) == en[p].total - dir[s].size

\* Mutant: a protected segment ends the pass.
Evict_stop(p) ==
    /\ en[p].pc = "evict" /\ More(p)
    /\ LET s == Path(p) IN
       IF s \in en[p].protected \/ s \notin Remaining
         THEN Local(p, Idle) /\ UNCHANGED <<dir, crossed, excess>>
       ELSE IF ~TooOld(s) /\ en[p].total <= MaxBytes
         THEN Local(p, Idle) /\ UNCHANGED <<dir, crossed, excess>>
       ELSE /\ dir' = [dir EXCEPT ![s].state = "gone", ![s].size = 0]
            /\ Local(p, [en[p] EXCEPT !.i = @ + 1, !.total = Left(p, s)])
            /\ crossed' = (crossed \/ \E o \in Procs \ {p} : en[o].pc \in {"validate", "evict"})
            /\ excess' = (excess \/ (~crossed' /\ ~TooOld(s) /\ Bytes(Remaining) <= MaxBytes))
    /\ UNCHANGED <<writing, clock, deaths>>

\* One path of the eviction loop: protected and vanished files are passed
\* over, the first that neither limit asks for ends the pass.
Evict(p) ==
    /\ en[p].pc = "evict" /\ More(p)
    /\ LET s == Path(p) IN
       IF s \in en[p].protected \/ s \notin Remaining
         THEN Local(p, [en[p] EXCEPT !.i = @ + 1]) /\ UNCHANGED <<dir, crossed, excess>>
       ELSE IF ~TooOld(s) /\ en[p].total <= MaxBytes
         THEN Local(p, Idle) /\ UNCHANGED <<dir, crossed, excess>>
       ELSE /\ dir' = [dir EXCEPT ![s].state = "gone", ![s].size = 0]
            /\ Local(p, [en[p] EXCEPT !.i = @ + 1, !.total = Left(p, s)])
            /\ crossed' = (crossed \/ \E o \in Procs \ {p} : en[o].pc \in {"validate", "evict"})
            /\ excess' = (excess \/ (~crossed' /\ ~TooOld(s) /\ Bytes(Remaining) <= MaxBytes))
    /\ UNCHANGED <<writing, clock, deaths>>

EvictEnd(p) ==
    /\ en[p].pc = "evict" /\ ~More(p)
    /\ Local(p, Idle)
    /\ UNCHANGED <<dir, writing, clock, deaths, crossed, excess>>

EnforceLimits(p) == List(p) \/ Validate(p) \/ Measure(p) \/ Evict(p) \/ EvictEnd(p)

StoreNext ==
    \/ Tick
    \/ \E p \in Procs : \/ Create(p) \/ Die(p) \/ EnforceLimits(p)
                        \/ Write(p, "stub", "open") \/ Write(p, "open", "open")
                        \/ Write(p, "open", "sealed")

StoreSpec == StoreInit /\ [][StoreNext]_storeVars

\* A compactor thread that lives goes on with its writes and its passes.
StoreFairSpec ==
    /\ StoreSpec
    /\ \A p \in Procs : /\ WF_storeVars(EnforceLimits(p))
                        /\ WF_storeVars(Write(p, "stub", "open"))

(***************************************************************************)
(* Properties.                                                             *)
(***************************************************************************)
StoreTypeOK ==
    /\ \A s \in Ids : /\ dir[s].state \in {"stub", "open", "sealed", "gone"}
                      /\ dir[s].size \in 0 .. MaxSize /\ dir[s].mtime \in 0 .. clock
    /\ \A p \in Procs : /\ en[p].protected \subseteq Ids /\ writing[p] \in Ids \cup {0}
                        /\ en[p].total \in 0 .. MaxSegs * MaxSize

\* No process loses the segment it writes, whoever enforces: the verdict
\* "sealed" is about a file that never opens again.
WriterKeepsSegment == \A p \in Procs : writing[p] # 0 => writing[p] \in Remaining

\* "The newest segment is also retained": passes that do not overlap never
\* empty the directory.  (Two that do may each take another one for the newest.)
SomethingKept == dir # <<>> /\ ~crossed => Remaining # {}

\* Segments are evicted "until under max_bytes and within ttl": nothing is
\* removed from a directory that is within the budget, unless it is too old.
\* (Two passes that overlap count each other's segments as still there.)
EvictsOnlyExcess == ~excess

\* A pass removes what it must and nothing that is needed (store.rs: enforce_limits).
RetentionSound == StoreTypeOK /\ WriterKeepsSegment /\ SomethingKept /\ EvictsOnlyExcess

\* A file without a header whose creator died or gave it up.
Abandoned == \E s \in Ids : dir[s].state = "stub" /\ \A p \in Procs : writing[p] # s

\* Retention is never stuck, unless it meets such a file: with time standing
\* still and nobody writing, the directory ends up within its budget, or with
\* nothing but the newest and unsealed segments.
Settled ==
    \/ Bytes(Remaining) <= MaxBytes
    \/ Cardinality({s \in Remaining : dir[s].state = "sealed"}) <= 1
BudgetMet == [](~Abandoned) /\ (\E p \in Enforcers : <>[](en[p].pc # "down")) => []<>Settled
=============================================================================
