# A verification development for probing

probing is a diagnostic runtime that is injected into (mostly Python, mostly
distributed training) processes. Its data plane is `probing-memtable`: tables
in shared memory or in files that the probed process writes and that any
number of other processes read without locks. Around it are an SQL engine, a
server with a cluster view, and collectors (NCCL, HCCL, CPU, GPU, Python) that
push rows. This directory models the parts whose correctness rests on
interleavings, crashes and ordering: the ring everything else is built on, the
rows in it, the hash table and the cold store beside it, the files all of them
live in, and outside the data plane the NCCL profiler, the cluster view and the
server's supervisor.

All source paths below are relative to the repository root (`src/` here).

## 1. Inventory

| Component | State | Operations | What is hard | What makes it correct |
|---|---|---|---|---|
| MEMT ring (`probing/memtable/src/{raw,memtable,layout}.rs`) | header: write chunk, counters; per chunk: state, generation, used, row count, timestamp range | push, append, advance, list, reopen | readers of other processes at every step; the writer dies anywhere | borrowed rows are never overwritten; rows are counted once; chunks list in write order; time pruning is sound |
| MEMT reader leases (`row.rs`) | per chunk a few slots: packed (PID, references), owner's start time | pin, join, claim, reclaim, release | dead owners, PID reuse, two loads that belong together, slot exhaustion | a slot in use is not cleared; a reference is neither lost nor leaked; dead readers never block |
| Row writer, dedup, cached reader (`writer.rs`, `dedup.rs`, `cache.rs`) | staged dictionary, chunk-relative references | put, finish, drop, lookup | rollback of a half-written row, chunk change between lookup and commit | a reference points to committed bytes of the same generation |
| MEMC cold store (`memc/*`) | segments, blocks, footer; per chunk drained generation | drain, roll, seal, prime, enforce limits | crash between footer and header; a chunk that is hidden while it is drained | every sealed chunk is copied exactly once or lost to the ring, never skipped; a crashed segment is readable up to its tail |
| MEMH hash table (`memh/*`) | slots of four words, journal, writer owner and claim, arena | insert, remove, get, iterate, compact | seqlock readers against a writer that dies; recovery that dies | a snapshot is one version of a slot; one writer at a time; a key has one live slot |
| Table files (`discover.rs`, `memtable.rs`, `extensions/python/.../exttbls.rs`) | one directory per PID, one file per table | create, replace, drop, clean up | threads that share a directory, fork, PID reuse between judging and deleting | a live process's tables are found and not removed; one writer each |
| Cluster view (`core/src/core/cluster.rs`, `server/src/{torchrun_cluster,cluster_report_backoff}.rs`) | nodes by address and rank, version | report, sweep, delta | concurrent reports, late heartbeats | a live rank is not evicted; a child that keeps the version has the nodes |
| Supervisor (`server/src/supervisor.rs`) | active and candidate task with generations | start, promote, finish | late completions, overlapping requests | at most one active listener; the state names the task that runs |
| Federation (`core/src/core/federation/*`) | query plans, peers | rewrite, fan out, merge | peers that are lost or late; partial aggregates | the merged result is the aggregate over the peers that answered |
| NCCL profiler (`extensions/nccl-profiler`) | slot pools, parents, pending rows | start, state, stop, watchdog, finalize | slots reused while children live; pool exhaustion | one row per completed operation, on the right parent |
| Everything else (engine, CLI, web, Python package, HCCL shim, collectors, skills) | | | I/O, foreign interfaces, sequential code | left out; reasons in `PROJECT.json` |

Components meet at three places: processes share MEMT and MEMH bytes through
mappings (no lock, only atomics); the compactor reads the ring as one more
reader and trusts `Sealed` and the generation; collectors and the engine use
the writer and reader interfaces of the tables. The hazards behind the
properties, each at its line, are listed in `PROJECT.json`.

## 2. Modules

| Module | Models | State and steps |
|---|---|---|
| `MemtRing` | `raw.rs`, `row.rs`, `memtable.rs`: the ring, its writer, its readers' leases | one action per atomic access |
| `MemtDedup` | `writer.rs`, `dedup.rs`, `cache.rs`, `row.rs`: what is in a chunk and how it is read | chunks as arrays of cells; one action per column or call |
| `MemhSlot` | `memh/layout.rs`: seqlock, journal, ownership, repair | one action per atomic access |
| `MemhProbe`, `KvMap` | `memh/table.rs`: probing, tombstones, arena, compaction; the map it promises | a slot is read and committed in one step, a probe is a step |
| `MemcSegment` | `memc/writer.rs`, `memc/reader.rs`: a segment file | 32-byte cells; one action per cell written, reading is a function of the file |
| `ColdTier` | `memc/compactor.rs`, `core/memtable_sql.rs`: ring, compactor and query together | one action per state test, pin, read, generation test, page |
| `ColdStore` | `memc/store.rs`: retention by several processes | one action per system call |
| `NcclPools` | `nccl-profiler/src/{state,pool,shard,events,plugin,writer}.rs` | a callback under its shard's lock is a step, writing its batch another |
| `ClusterView` | `core/cluster.rs`, `proto/.../cluster.rs`, `server/{torchrun_cluster,cluster_report_backoff}.rs` | discrete time; a read of a registry, a report and the use of its answer are steps |
| `Supervisor` | `server/{supervisor,report,extensions}.rs`, `server/server/listener.rs` | a method is a step, a task takes a step per await |
| `ExternTables` | `memtable.rs` (create, drop), `exttbls.rs`, `discover.rs` (cleanup) | one action per system call |
| `MC*` | | the instances for TLC |
| `*_proofs` | | theorems about the module before the underscore; `ColdTier_proofs` also about `ColdStore` |

The modules meet at these places. `MemtRing` shows what a pin is worth; in
`MemtDedup` and `ColdTier` a pin is then one step, and a pinned chunk is not
recycled. `MemhSlot` shows that a slot is read and written whole; `MemhProbe`
builds on whole slots. `MemcSegment` is about the bytes of one segment, `ColdTier`
about which pages there are and `ColdStore` about which files stay. `ColdTier`
composes the three parties that touch a row: writer, compactor and query.

Operators named `X_variant` under a comment "Mutant" are deliberately wrong forms
of an action, kept to show that the properties can fail; no specification uses them.

### MemtRing

| Model | Code |
|---|---|
| `ch[c]` | `ChunkHeader`: state, generation, used, row_count, min_ts, max_ts |
| `lease[c][s]`, `leaseStart[c][s]` | `ReaderLease.state` (unpacked) and `owner_start_time` |
| `wc`, `recycled`, `overwritten`, `blocked`, `failures` | `Header.write_chunk` and its counters |
| `PinBegin`, `PinRetry`, `LoadGen`, `Recheck`, `Regen`, `Extent` | `pin_chunk` |
| `LoadSlot` ... `Clear`, `Exhausted` | `acquire_process_lease`, its error in `try_rows` |
| `Unpin`, `ReleaseLoad`, `ReleaseDec` | drop of the pin, `release_process_lease` |
| `Push`, `Append`, `WriteTest`, `NoteTs`, `Publish`, `CountRow` | `push_plain_row_detailed`, `append_row`, `write_row_bytes`, `note_row_ts` |
| `Advance`, `BlockPins`, `ScanSlot` ... `ScanEnd`, `Defer`, `Seal` ... `Turn` | `advance_chunk_raw_detailed`, `chunk_has_live_leases` |
| `WriterCrash`, `Reopen` | the process dies between any two accesses; `open_file` |
| `Spawn`, `Die`, `Up`, `process_exists`, `process_instance_alive` | processes as the kernel shows them |

`committed` and `ch[c].visible` (the timestamps of the rows below `used`) are
history. Abstracted:

- Row bytes are a length and a timestamp: the writer writes only at offset
  `used` of the write chunk, so the bytes a reader borrows are intact exactly
  as long as its chunk keeps the generation and `used` has not moved back.
- Memory is sequentially consistent. The lease protocol uses `SeqCst`
  throughout; the row publication relies on release and acquire in a direction
  that sequential consistency also gives. Weaker orderings are not examined.
- Four pairs of accesses nobody else orders against are one action each: the
  two timestamp bounds (when noted and when reset), the two loss counters, and
  in `Verdict` the two system calls of a liveness test.
- A start time is constant and, where it is known, distinguishes processes of
  the same PID. A PID belongs to one running process at a time.
- Counters do not wrap (`rows_overwritten` is a u32), and the reference count of
  a slot is unbounded.
- Tables have a timestamp column; `open_file`'s validation succeeds here (it is in
  `MemtDedup`); the kernel releases the writer lock of a dead process.

Properties: `PinnedStable` (what is borrowed stays), `LeaseExact` (references are
neither lost nor leaked), `TsRangeCovers` (time pruning is sound), `SealedFrozen`
(what the compactor relies on; after a crash without the write chunk),
`WriterReturns`, `DeadReadersNeverBlock` (of a chunk that no living process has a
lease of, whatever the dead left in it, no recycle is deferred), and
`RingSound`: write order (`LogicalOrder`), every row in the ring or counted as
lost (`Accounting`), at most the next chunk hidden by a crash (`OnlyNextHidden`).

### MemtDedup

A length, a row length or a back-reference takes one cell and a string byte takes
one, so a wrong offset is read as what stands there. The streaming writer
(`BeginRow`, `PutStr`, `Finish`, `DropRow`) and the batch writer (`AppendRow`,
`PushRow`) share the dictionary `seen`; the first stages its entries in `pending`.
`Key` is the hash and may collide; in the instance all strings collide.
`RowIter`, `RowCursor` and `CachedCursor` are `NextRow` and `ReadCol`, the cache is
`Resolve` and `Remember`, `ChunkReadPin::ensure_current_process` is `Adopt`.
`BufferSound`: what stands in a chunk decodes to the rows committed to it, every
open accepts it, and the cache's map and queue agree. `ReadsWritten`: a reader
that holds the lease gets these rows. `CommittedFixed`: published bytes never
change within a generation. All columns are strings.

### MemhSlot, MemhProbe and KvMap

`MemhSlot`: `Acquire` is `acquire_writer` with claim, owner and start time,
`Recover` is `recover_slot_journal`, `Update` a journaled slot update, `Fetch` is
`read_slot`. A word's content is the number of the write that stored it.
`MutualExclusion`: one owner of journal and slots. `SnapshotFresh`: a read returns
one version, current during the call. `RepairSound`: a slot whose writer died is
its last committed version. `ReadReturns`. The history variable `mended` tells
whether a repair has stored a control word, up to which `SnapshotFresh` holds, and
whether a repairer died right after it, up to which `RepairSound` holds
(disagreement 5); deaths alone end neither.

`MemhProbe`: the writer appends a record and commits a slot in two steps and may
die between them; lookups and iterations go slot by slot. `TableSound`: one slot
per key, every open accepts the table, compaction keeps keys and values.
`IterComplete`: an iteration yields what stays, once. `MapSpec` is the refinement
`INSTANCE KvMap WITH map <- MapOf(table)`: a map with atomic put and delete, whose
lookups return a value the key had during the call.

### MemcSegment, ColdTier and ColdStore

`MemcSegment`: `create`, `register_table`, `append_page`, `seal` and a death or a
failed write at every cell; `Open`, `ScanBlocks` and `ReadPage` are the reader.
`FileSound`: a file that opens, opens to the acknowledged pages, and a query skips
none of them wrongly. `ReadsBack`: it does open, before the seal and after it.

`ColdTier`: `StartPass` ... `AppendPage` is `drain_view`, `Primed` is
`prime_from_cold`, `SizeRoll`, `AgeRoll` and `Enforce` the rest of the loop;
`QueryStart` ... `QueryDone` the scan of both tiers. `DrainSound`: no chunk
generation is in two pages, and a watermark means that the chunk was persisted: it is
in a segment or was in one that retention removed, whose pages the model remembers.
`PageWhole`, `QueryExact`, and `EventuallyDrained`: every sealed chunk reaches a
segment. `odd` remembers the chunks of disagreements 8 and 9, which the properties
leave out.

`ColdStore`: `List`, `Validate`, `Measure`, `Evict` are `enforce_limits_checked`
(which reads the clock once per pass; the model does for each file).
`RetentionSound`: nobody loses the segment it writes, passes that do not overlap
remove only excess and never everything. `BudgetMet`: the budget is met in the end.

### NcclPools

Events start and stop from two threads (`host`, `proxy`); a handle is shard and
slot index, as the raw pointer is in the code. `StopEvent` with
`MaybeCompleteColl`, `FlushProxyRow` and `ChildStopped` are the stop handlers.
`PoolsSound`: free lists, child counts and rows agree, and the row of an event is
in exactly one place. `RowsFaithful`: a published row is made of all its tracked
children and no others. `FinishedPublished`, `HungReported`: finished collectives
are published and hanging ones reported.

### ClusterView

A registry is `nodes` by address and `index` by rank (`Put`, `RemoveByAddrs`,
`Sweep`); `AfterReport` and `Answer` are `apply_node_report`; `Collect`, `PutNode`,
`Reply` are a round of the report worker and `SleepDuration` its backoff.
`apply_node_report` takes the lock for each entry it puts, the model for all.
`RegistrySound`: index and entries agree. `LiveAtParent`: the living are not taken
for dead. `LostHostExpires`, `AllListed`.

### Supervisor

Tasks are numbered by generation; an aborted task goes on until its next await.
`StartRemote`, `Promote`, `RemoteFinished`, `StartComponent`, `StopComponent` are
methods; `Bind` ... `ServeEnds` is `run_supervised_remote_server`; the calls
`report`, `torch` and `shutdown` are their callers' steps. `SlotsSound`: a running
task is in its slot, and states are true. `StaysReachable`, `Settles`.

### ExternTables

`Register`, `AppendRow`, `Replace`, `DropTable` are `ExternBacking` and
`ExternalTable`; `Mkdir`, `Open`, `InitBuf` are `shared_in`; `Unlink`, `Rmdir` the
drop of a `MemTable`; `CleanRead` ... `CleanDir` are `cleanup_in`. `LiveTableListed`:
a live table stays under its path, unless a table of its name was open across a fork;
`FilesOwned`; `CleanupDeadOnly`. The first and the last leave out reused PIDs. Exit
leaves the files: the tables are in a static that is never dropped. Nothing in the
repository calls `cleanup_in` yet.

## 3. Runs

| Run | Instance | Distinct states |
|---|---|---|
| `ring_readers` | one chunk, two slots; two threads of a process and then a successor with its PID and no known start time, or two processes | 406,812 |
| `ring_wrap` | three chunks, one reader, rows larger than a chunk, one crash of the writer | 1,807,180 |
| `memt_dedup` | two chunks, colliding strings; the writers alone, a cached reader, a reader that forks | 755,979 |
| `memh_slot` | three processes, two writes, a read each, two deaths | 322,291 |
| `memh_map` | three keys in two buckets, an arena that fills up, six operations, a reader | 107,625 |
| `memc_segment` | two tables, two pages, a failed write | 1,330,569 |
| `cold_tier` | two chunks of two rows; two deaths, a replaced table, or a query | 752,768 |
| `cold_store` | two processes, three segments, a death, a clock of one tick | 259,764 |
| `nccl_pools` | six kinds of job on pools of one or two slots and two shards | 155,813 |
| `cluster_view` | three ranks on two hosts; refused or lost reports, deaths, a new address | 1,252,563 |
| `supervisor` | four tasks, two addresses; five plans, from all callers at once to four requests for an address | 424,778 |
| `extern_tables` | two threads; a reused PID; fork; fork and a reused PID | 1,484,485 |

Several settings share a run by way of a constant that holds a set of them
(`InitProcs`, `Tables`, `Budgets`, `Jobs`, `Faults`, `Plans`, `Worlds`) and a
variable that is chosen from it in `Init` and stays.

Bounds. They cut behaviours where an operation would start, never in the middle of
one. A ring of one chunk is the hardest case for the pins, since the write chunk
is the one recycled; order needs three. Two lease slots are one more than a pin
needs, so that a claim falls over to the next. `DrainSpins`, `PinTries`, `TryLimit`
and `SpinLimit` are 0 to 2 where the code has 64 or more: a further attempt starts
from a state the first one starts from too. Two generations per chunk give a
recycle of used and of unused chunks. Two colliding strings of different length
suffice to misplace every byte. Three keys in two buckets fill the table, and the
path of two of them wraps. Two pages give a directory with a first and a last
entry. Three segments are the newest, one in use and one to remove. A unit of time in
`cluster_view` is 2.5 s: base interval 4 (10 s), stale time 10 (25 s), request timeout
2 (5 s), and the backoff raises the interval to 5 (12 s in the code, 12.5 here). So a
lost report can make an entry 5 + 2 + 4 = 11 old, which is why `LiveAtParent` needs
its premise (disagreement 13). In that run a rank may get a new address but not
another rank's, which `RegistriesAreSound` covers. The two table names of
`extern_tables` are interchangeable, hence its symmetry set. Deadlock is checked in
`memt_dedup` and `cluster_view`; elsewhere the bounds stop the system, or everybody
may be dead.

Fairness. `MemtRing`: an operation of the writer, once started, goes on; nothing is
assumed of readers. `MemhSlot`: a thread in an operation goes on while its process
lives, since it spins or yields and waits on no lock. `ColdTier`: the compactor
thread loops and is restarted after a death, a query runs to its end. `ColdStore`:
a compactor thread that lives goes on. `NcclPools`: a thread writes the batch it
has, the watchdog thread runs, and since a callback holds a shard for a moment
only, its `try_lock` succeeds on one of infinitely many visits (strong fairness).
`ClusterView`: time passes. `Supervisor`: the runtime polls what can go on. No
fairness is assumed of new calls, of failures or of NCCL.

## 4. Disagreements found

Cases in which a doc, a comment or a test says one thing and the code another. The
properties of the runs leave them out through a premise their comments name, or the
instance does; each was met as a counterexample of TLC when the premise was dropped
or the instance changed as stated at the end of its item.

1. *A live lease can be cleared* (`memtable/src/row.rs:308`). The lease word and the
   owner's start time are two loads. Q loads P's word; the slot changes hands before
   it loads the start time; P is judged dead, takes the slot again with the same
   word, and the compare-and-exchange clears it. The writer then recycles the chunk
   under a pin. `lib.rs:18`: "borrowed strings and byte slices cannot race with
   overwrite". — `PinnedStable` with one slot and P (two threads) and Q up.
2. *A reopened ring can list its chunks out of order* (`raw.rs:351`): the generation
   is bumped before `write_chunk` is stored, and bumped again after a crash between
   the two. `memtable.rs:187`: sorting "recovers temporal order". — `LogicalOrder`
   without `crashes = 0`; `Accounting` breaks there as well, and `SealedFrozen` for the
   write chunk (without `c # wc`).
3. *A cached cursor inherited through fork reads without a lease* (`cache.rs:146`).
   `row.rs:159`: the generation is checked "before any inherited Row byte is
   read". — `ReadsWritten` without `owner = r`, a cached table that forks.
4. *Empty strings are deduplicated* (`dedup.rs:50`); the test at `dedup.rs:217` says
   "both inline", which it cannot tell since both forms take 8 bytes.
5. *A slot repair can be read torn* (`memh/layout.rs:272`): the control word is
   restored before word 3, with a generation readers have seen. `table.rs:347`: every
   pair "is internally consistent". — `SnapshotFresh` without `mended = "none"`.
   *And it can stay half done* (`layout.rs:270`): if the repairer dies between the two
   words, the next one finds an even generation. — `RolledBack` without
   `mended # "torn"`.
6. *A live writer claim can be stolen* (`layout.rs:307`): the claim is a PID without a
   start time. `layout.rs:296`: "only from a process instance proven dead". —
   `MutualExclusion` with `PidOf` giving process 3 the PID of 1.
7. *A crash between footer and sealed header makes a segment unreadable*
   (`memc/writer.rs:302`); `memc/mod.rs:37` says the scan "drops the torn tail". *So
   does a write that fails midway* (`writer.rs:334`). — `Acknowledged` without
   `~footer`, or without `fails = 0`.
8. *A chunk recycled between the state test and the first generation load goes in
   partly* (`compactor.rs:273`); `compactor.rs:36`: it "drains only `Sealed` chunks". —
   `PageWhole` without `odd`.
9. *A hidden chunk, or one without a free lease, is marked as drained*
   (`compactor.rs:278`); `compactor.rs:491` promises a retry. — `MarkSound` without `odd`.
10. *A query misses a chunk that moves to a segment and leaves the ring between its
    two halves* (`memtable_sql.rs:776`); line 511: "counts each row exactly once". —
    `QueryComplete` with `must` as the rows stored in either tier throughout.
11. *Overlapping retention passes remove too much* (`store.rs:265`), *or everything*
    (`store.rs:248`); `store.rs:202`: "The newest segment is also retained". *A
    file without a header ends retention for good* (`store.rs:235`); `store.rs:229`
    means to "retain" it. — `EvictsOnlyExcess` and `SomethingKept` without `crossed`,
    `BudgetMet` without `Abandoned`.
12. *A stale handle resolves to the collective that took its slot* (`pool.rs:67`);
    `pool.rs:53`: such pointers "return `None`". *A collective whose children start
    after its stop is published without them* (`state.rs:919`), *and a late step is
    added to the op that has the slot by then* (`state.rs:857`);
    `nccl-profiler.md:35,59` say otherwise. — `RowsFaithful` without its premises. The
    same page says that skipped watchdog visits are counted; no counter exists.
13. *One lost report can evict a live rank* (`cluster_report_backoff.rs:80`): 12 + 5 +
    10 s exceed 25 s. Line 74: capping "lets one report be delayed or lost". —
    `LiveAtParent` without `lost`.
14. *A local0 marks itself dead in its own registry* (`core/cluster.rs:234`), since its
    entry is refreshed by answers only. — `LiveAtParent` over all registries.
15. *Dead leaves never expire at rank 0* (`torchrun_cluster.rs:372`): their entries are
    reported again with a fresh time. `distributed.md:52`: "One stale TTL marks a
    member dead". — `LostHostExpires` for single ranks.
16. *A leaf never backs off* (`cluster_report_backoff.rs:175`), *an older reading can
    replace a newer address* (`proto/.../cluster.rs:104`), *and nobody does the full
    sync* of `proto/.../cluster.rs:46` (`torchrun_cluster.rs:461`). `distributed.md:53`
    also gives a cap of about 18 s where the code has 12 s.
17. *The server can end up on an address that is no longer asked for*
    (`supervisor.rs:189`), *`server.address` can name a listener that was discarded*
    (`listener.rs:92`), *an aborted listener can publish its address last*
    (`listener.rs:97`), *and the flat report worker can run beside the hierarchy*
    (`report.rs:38` against `torchrun_cluster.rs:519`). — In `Supervisor`: the running
    listener's key against `address`, `config` and `published` once everything has
    settled, and both components running.
18. *Cleanup removes the directory of a live process with a reused PID*
    (`discover.rs:451`): it judges by whichever header comes first, and before it
    removes. — `CleanupDeadOnly` without `PidReused`.
19. *A forked child unlinks its parent's tables* (`exttbls.rs:366`) *and writes to them*
    (`exttbls.rs:406`); `data-layer.md:25,101`: "Correct under fork-heavy workloads",
    "single-writer". — `LiveTableListed` without `ForkedOpen`, `SingleWriter` without
    `shared`. A table mutex held at the fork stays locked in the child.
20. *A failed replacement leaves a table without columns that takes rows*
    (`exttbls.rs:367`); line 364 calls the replacement "non-destructive". — In
    `ExternTables`: `fixed` with `dtypes = "none"`, reached in the world of two threads.

## 5. Proofs

The theorems hold for every value of the constants under the named assumptions of
the modules (`RingAssumption`, `SlotAssumption`, ...), which TLC evaluates on every
run. Each rests on an inductive invariant that TLC has checked on the run's instance
first (for `MemtDedup`, what TLC can evaluate of it): the lemma `Init...` starts it, a lemma per action keeps it, and the theorem
draws the property from it.

### MemtRing (`MemtRing_proofs`)

- `TypeCorrect`. `TypeOK` is not inductive: a slot index may be `LeaseSlots` at the
  end of a scan, and `Publish` adds the row length without testing it. `Ranges` adds
  that the index is below `LeaseSlots` wherever a slot is accessed, that a decrement
  meets a positive count, and that between the room test and the publication the row
  still fits.
- `TsRangeSound`: `TsRangeCovers` with `Noted` (before `Publish` the range covers the
  row about to appear) and `Wiped` (between `ResetUsed` and `ResetTs` no row is
  visible, so the range may be reset).
- `LeasesExact` and `PinsStable`: `LeaseExact` and `PinnedStable`, the core of the
  reader protocol. `LeaseInv` counts: the references in a word of a running owner are
  the threads between the increment and the decrement (`Counts`), and a thread that
  claims a slot is alone on it (`Claims`). `PinInv` goes from there to the bytes: who
  is past the second test saw the chunk visible after it had its lease (`Shown`); from
  hiding the chunk to showing it again it stays hidden (`Hidden`); behind the
  writer's scan nobody has a valid lease (`Drained`), so a recycle meets none.
- Two hypotheses are needed, and TLC has a counterexample without each. `~PidReused`:
  no PID is given to a second process; with an unknown start time the successor takes
  its predecessor's references for its own. `[][PairedLoads]_vars`: where a judge acts
  on a slot, the word and the start time it loaded are of one owner; a verdict on the
  word of one and the start time of another clears a live lease (disagreement 1). The
  code does not ensure it. It holds by itself on a platform that reports no start time,
  and where the readers of a slot are threads of one process. That verdicts on paired
  loads are right is part of the proof (`Verdicts`); `LeasesHoldWithVerdicts` is the
  step before it, from right verdicts to exact leases and stable pins.
- `SealedIsFrozen`: `SealedFrozen`, an action property, with no hypothesis on the
  behaviour. Its own premise says what crashes leave of it: until one every sealed chunk
  is frozen, afterwards every one but the write chunk (`SealInv`: between two recycles
  only the write chunk is written).
- `DeadReadersDeferNone`: `DeadReadersNeverBlock`, with no hypothesis: while no running
  process has a lease of a chunk, whoever reads the others, the writer's scan of that
  chunk meets no lease it keeps (`Unblocked`).
- `RingIsSound`: `RingSound`. `Laps` replaces the order of any two chunks by where a
  chunk is: until a crash the chunks up to the newest written one (`Front`: the write
  chunk, or the next one once a recycle has raised its generation) are at its generation, the
  others one behind, from which the write order at every wrap position follows by
  arithmetic. `Balance` is `Accounting` at every step of an operation: rows already
  counted as overwritten whose chunk still has its row count are counted twice
  (`Twice`); the counting, the reset of the row count and the publication each move
  one side as much as the other. That a step
  which changes one chunk changes the sum over the ring by that chunk's difference is
  proved for the recursive function `RowsBefore` by a least counterexample.
  `OnlyNextHidden` needs `WriteShown`: the write chunk stays visible until the chunk
  to turn to is open.

### MemhSlot (`MemhSlot_proofs`)

- `TypeCorrect`.
- `OwnershipExclusive`: `MutualExclusion` unless a PID was reused (disagreement 6), and
  `OwnershipExclusiveAlone` without a condition on the behaviour where all PIDs differ.
  `MutexInv`: the claim is its holder's, and a claim about to be cleared is that of a
  dead process (`ClaimSound`); who holds the claim and found nobody, or a dead owner,
  has found the truth (`OwnerSound`).
- `RepairsRollBack`: `RepairSound`. `JournalInv` says of every phase of an update which
  words are new, and that the journal has the old ones until the update is committed. It
  stands through any number of deaths of writers and repairers until one dies between
  restoring the control word and word 3 (disagreement 5), as the property does.
- `SnapshotsFresh`: `SnapshotFresh`, until a repair stores a control word; deaths before
  that change nothing. `ReaderInv` says what a reader's snapshot owes to
  the version its generation names; a slot grows only (`Ripens`).

### MemhProbe (`MemhProbe_proofs`)

- `TableImplementsMap`: `Spec => MapSpec`, the refinement of `KvMap`: initial states
  map to initial states, every step to one of the map or to a stutter. `Formed` says
  what a slot of each tag holds, `Reached` that a key has one live slot, on its probe
  path; `Aimed` that the slot the writer picked before it wrote the record is still
  the right one; `Reading` that a lookup under way has seen a moment without the key
  or has its slot still ahead.
- `IterationComplete`: `IterComplete`, with `Counted`: the keys that stayed have been
  yielded once, up to where the iteration is.
- `TableStaysSound`: `TableSound`, compaction included. `Copied` is a recursive
  function; what it computes is shown with the least bucket at which the claim
  fails (`Least`, from the well-foundedness of finite sets). The copy finds a free
  bucket since fewer keys are copied than there are buckets (`RoomLeft`).

### ColdTier and ColdStore (`ColdTier_proofs`)

- `DrainIsSound` and `PagesAreWhole`: `DrainSound` and `PageWhole`, for any number of
  chunks, tables, deaths, restarts and evictions. `HotInv` says of the ring that a chunk
  that is sealed, hidden or not (`Closed`), holds all its rows and changes only with its
  generation, and that generations only grow (`HotStep`). `SegsInv` has one page per
  chunk generation; it stays so since every stored key is at or below a watermark
  (`Marked`) and a page is appended only above it. `MarksOk` is the other direction: what
  a watermark names is or was in a segment (`Archived`), or is one of the chunks of
  disagreements 8 and 9 (`Accounted`), of the source and of the marks seeded for tables to
  come. `PassInv` carries a chunk from the test of its state to its page: the tested
  generation is closed as long as it is the current one, and a read that agrees with the
  generation before and after it read all (`Whole`).
- `CountsOnce` and `QueriesAreExact`: `CountedOnce`, and `QueryExact` where
  `LeaseSlots >= 2` (the code has 16): with one lease a query that meets the compactor's
  pin gets no rows of that chunk, and `QueryComplete` fails. `QueryInv` has a part
  for each phase of the scan. In `ColdPhase`, no segment still to be read holds a covered
  key: a page comes into it only above the watermarks, and what is covered is not.
  In `HotPhase` no chunk still to be visited has been counted, and what stayed put is
  in the result or still ahead (`Awaited`).

### MemtDedup (`MemtDedup_proofs`)

- `BytesStay`: `CommittedFixed`. `WriterInv` (theorem `RowsStand`) says how a chunk is
  laid out: there are offsets such that the rows follow one another from the header to
  `used` (`Contents`, `Filled`), the columns of a row likewise (`Laid`), and each is the
  string or a reference to a place where it stands (`Stands`). `DictOk` says of every
  dictionary entry that a whole string stands at its offset, below `used`; which string
  is no part of it, since keys may collide and a lookup compares the bytes. `RowOk` says
  that the open row is laid out behind `used` and its staged entries lie in it, which is
  why they may be learnt when it is finished and not before.
- `BufferIsSound`: `BufferSound`. From the layout to the recursive walk of the code: the
  offsets that `Hops` computes are those of the layout, which is shown with the least
  step at which they would differ (`HopsAll`, by `Least`).
- `ReadsFaithful`: `ReadsWritten`, with `ReaderInv` (theorem `ReadersStand`). While the
  generation a reader remembers is the chunk's, it stands between two rows or in a row,
  at the offset of the next column (`Stood`), and whoever owns the lease is in such a
  chunk because a chunk that is held is not recycled (`Spared`). A cached range is right
  while the generation of its key is the chunk's (`RangeRight`), however long the entry
  outlives its chunk. `Owned` says that the lease a forked child inherited is another
  living process's, so that it is never taken for its own.
- TLC checked both invariants without the existential offsets, which it cannot
  enumerate; `RowsDecode` is their checkable form.

### Supervisor and ExternTables (`Supervisor_proofs`, `ExternTables_proofs`)

- `SlotsAndTasksAgree` and `ServerStaysReachable`: `SlotsSound` and `StaysReachable`.
  Needed besides: steps fit the kind of a task (`Kinds`), whoever a slot names is of
  its kind and not aborted (`SlotKinds`), and while no listener breaks down there is
  an active one from the first promotion on (`Serving`).
- `FilesAreOwned`, `LiveTablesListed`, `CleanupSparesLiving`: `FilesOwned`,
  `LiveTableListed`, `CleanupDeadOnly`. A path leads to one file, in a directory named
  for its creator's PID (`PathSound`); a handle remembers that path (`HandleSound`);
  once the cleanup has judged a directory, a process under its PID is not the only
  one that ever had it (`CleanSound`). The exclusions are in the properties: a table
  whose name was open across a fork (`ForkedOpen`) and reused PIDs (`PidReused`).

### ClusterView (`ClusterView_proofs`)

- `RegistriesAreSound`: `RegistrySound`, for any finite set of addresses, any
  intervals and any number of faults. The work is in the operators: `PutSound` (an
  item may bring a new rank to a known address, a new address to a known rank, or
  both at once), `PutAllSound` (by a least counterexample over the items put),
  `RemoveSound` (a removal drops the index of the entry's rank without testing it, and
  is right only because index and entries agreed) and `SweepSound`. None of them asks
  where the items come from, so late, repeated and reordered reports are covered.
  `RegInv` adds to `RegistrySound` that reports and answers under way are sequences of
  items (`Carried`), for which the backoff must be a number (`SleepType`) and the
  leaves of a host finite in number (`UpstreamType`).

### Not proved

With TLC for good: liveness under fairness (`WriterReturns`, `ReadReturns`,
`EventuallyDrained`, `BudgetMet`, `FinishedPublished`, `HungReported`,
`LostHostExpires`, `AllListed`, `Settles`), which the prover has no rules for. Only
model-checked so far: `FileSound` and `ReadsBack` (what a scan of the file's cells
returns), `PoolsSound`, `RowsFaithful`, and `LiveAtParent`, which is an argument about
durations that holds for a bounded number of faults. Worth proving next: `PoolsSound`.

## 6. Not modelled

The reasons are with each component in `PROJECT.json`. By size, most of the
repository has nothing to model-check: the generated interpreter bindings (a third of
all lines), the web interface, the Python package, the command line, the HCCL shim
and the collectors are data types, rendering, foreign calls and sequential I/O. The
SQL planning is DataFusion's. So the share of all lines that the map covers stays
small, while the files with protocols between threads, processes or hosts are covered
nearly whole. Within those, left out are: the byte codec of MEMC pages, the table
reference count, the flat report worker, heads that change their address, the local
listener (it has the slot of any other component), the runtime bridge (`block_on`
from worker threads can block a runtime that has no thread left; the workers are
tokio's), weak memory orderings, and the wrap of statistics counters.
