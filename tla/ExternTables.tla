---------------------------- MODULE ExternTables ----------------------------
(***************************************************************************)
(* The tables a process exposes as files <data_dir>/<pid>/<name>: creation *)
(* and removal of the file, system call by system call (memtable.rs:       *)
(* shared_in, drop), the tables of the Python extension, which replace an  *)
(* empty placeholder on the first row (exttbls.rs), fork, exit, PID reuse, *)
(* and the cleanup of dead processes' directories (discover.rs).           *)
(*                                                                         *)
(* Operations on one table are serialised by its mutex; operations on two  *)
(* tables of a process run on two threads and interleave.                  *)
(***************************************************************************)
EXTENDS Integers, Sequences, FiniteSets

CONSTANTS
    Procs,          \* process instances: a reused PID is two of them
    Pids,           \* process identifiers
    Names,          \* table names
    Worlds,         \* the settings a behaviour may start in, see WorldType
    MaxRows         \* bound: rows appended to a file

\* The PIDs of the instances there are; the first to run; the names they use;
\* whether they fork; how many files they create at most.
WorldType ==
    [pid : UNION {[P -> Pids] : P \in SUBSET Procs}, first : Procs,
     names : SUBSET Names, forks : BOOLEAN, files : Nat]

ASSUME ExternAssumption ==
    /\ Pids \subseteq Nat /\ MaxRows \in Nat
    /\ \A w \in Worlds : w \in WorldType /\ w.first \in DOMAIN w.pid

VARIABLES
    world,          \* the setting, which stays
    up, ever,       \* instances that run, and that have run
    dirs,           \* PIDs whose directory exists
    path,           \* the file under a PID and a name, 0 for none
    file,           \* the files ever created, linked or not
    tab,            \* ExternBacking of every process and name, and its call
    cl              \* a call of cleanup_in

vars == <<world, up, ever, dirs, path, file, tab, cl>>

NoTable == [there |-> FALSE, h |-> 0, at |-> 0, dtypes |-> "none", fixed |-> FALSE,
            pc |-> "idle", next |-> "none"]
IdleCleaner == [pc |-> "idle", pid |-> 0, by |-> {}]

\* In a file, `shared' says that a child was forked while its creator had it open,
\* `cleaned' that cleanup removed it while its creator ran.
NewFile(p, n) ==
    [by |-> p, name |-> n, ready |-> FALSE, rows |-> 0, writers |-> {}, shared |-> FALSE,
     cleaned |-> FALSE]

Init ==
    /\ world \in Worlds
    /\ up = {world.first} /\ ever = {world.first}
    /\ dirs = {}
    /\ path = [x \in Pids \X Names |-> 0]
    /\ file = <<>>
    /\ tab = [p \in Procs |-> [n \in Names |-> NoTable]]
    /\ cl = IdleCleaner

PidOf(p) == world.pid[p]
Set(p, n, t) == tab' = [tab EXCEPT ![p][n] = t]
FilesFrame == UNCHANGED <<dirs, path, file>>
ProcFrame == UNCHANGED <<world, up, ever>>
Linked(pid) == {n \in Names : path[<<pid, n>>] # 0}

----------------------------------------------------------------------------
(***************************************************************************)
(* ExternBacking.                                                          *)
(***************************************************************************)
\* A new table is created under the lock of EXTERN_TABLES, which a child forked
\* at that moment finds locked for ever.
MapLocked(p) == \E n \in Names : ~tab[p][n].there /\ tab[p][n].pc \in {"mkdir", "open", "init", "locked"}

\* get_or_create of a new name: ensure_registered makes a placeholder whose
\* types are guessed from the column names.
Register(p, n) ==
    /\ p \in up /\ ~tab[p][n].there /\ tab[p][n].pc = "idle" /\ ~MapLocked(p)
    /\ Set(p, n, [NoTable EXCEPT !.pc = "mkdir", !.next = "guess"])
    /\ UNCHANGED cl /\ FilesFrame /\ ProcFrame

\* push_row.  A row has one value for each known type, so a table without
\* types takes rows without values.
PushTo(p, h) == file' = [file EXCEPT ![h].rows = @ + 1, ![h].writers = @ \cup {p}]

\* append of a row whose types are `row': the schema is fixed already, or the
\* placeholder has it.
AppendRow(p, n, row) ==
    LET t == tab[p][n] IN
    /\ p \in up /\ t.there /\ t.pc = "idle" /\ t.h # 0
    /\ t.fixed \/ t.dtypes = row
    /\ file[t.h].rows < MaxRows
    /\ PushTo(p, t.h)
    /\ Set(p, n, [t EXCEPT !.fixed = TRUE])
    /\ UNCHANGED <<dirs, path, cl>> /\ ProcFrame

\* The types of the first row, paired with the ones guessed so far: none if
\* there are none.
Zipped(row, dtypes) == IF dtypes = "none" THEN "none" ELSE row

\* append otherwise: ensure_table drops the placeholder, clears the types and
\* creates the table again.
Replace(p, n, row) ==
    LET t == tab[p][n] IN
    /\ p \in up /\ t.there /\ t.pc = "idle" /\ ~t.fixed
    /\ ~(t.h # 0 /\ t.dtypes = row)
    /\ Set(p, n, [t EXCEPT !.pc = IF t.h # 0 THEN "unlink" ELSE "mkdir",
                           !.dtypes = "none", !.next = Zipped(row, t.dtypes)])
    /\ UNCHANGED cl /\ FilesFrame /\ ProcFrame

\* ExternalTable.drop, with the last handle to the table.
DropTable(p, n) ==
    LET t == tab[p][n] IN
    /\ p \in up /\ t.there /\ t.pc = "idle"
    /\ Set(p, n, IF t.h = 0 THEN NoTable
                 ELSE [NoTable EXCEPT !.h = t.h, !.at = t.at, !.pc = "unlink"])
    /\ UNCHANGED cl /\ FilesFrame /\ ProcFrame

----------------------------------------------------------------------------
(***************************************************************************)
(* MemTable: drop removes the file and the directory if it is empty;       *)
(* shared_in makes the directory, the file and the header.                 *)
(***************************************************************************)
Unlink(p, n) ==
    LET t == tab[p][n] IN
    /\ p \in up /\ t.pc = "unlink"
    /\ path' = [path EXCEPT ![<<t.at, n>>] = 0]
    /\ Set(p, n, [t EXCEPT !.pc = "rmdir"])
    /\ UNCHANGED <<dirs, file, cl>> /\ ProcFrame

\* Mutant: the directory goes with the files in it.
Rmdir_all(p, n) ==
    LET t == tab[p][n] IN
    /\ p \in up /\ t.pc = "rmdir"
    /\ dirs' = dirs \ {t.at}
    /\ path' = [x \in DOMAIN path |-> IF x[1] = t.at THEN 0 ELSE path[x]]
    /\ Set(p, n, IF t.there THEN [t EXCEPT !.pc = "mkdir", !.h = 0, !.at = 0] ELSE NoTable)
    /\ UNCHANGED <<file, cl>> /\ ProcFrame

Rmdir(p, n) ==
    LET t == tab[p][n] IN
    /\ p \in up /\ t.pc = "rmdir"
    /\ dirs' = IF Linked(t.at) = {} THEN dirs \ {t.at} ELSE dirs
    /\ Set(p, n, IF t.there THEN [t EXCEPT !.pc = "mkdir", !.h = 0, !.at = 0] ELSE NoTable)
    /\ UNCHANGED <<path, file, cl>> /\ ProcFrame

\* Mutant: the PID is that of the process that started it all.
Dir_cached(p) == PidOf(world.first)

\* base_dir/<pid>
Dir(p) == PidOf(p)

Mkdir(p, n) ==
    /\ p \in up /\ tab[p][n].pc = "mkdir"
    /\ dirs' = dirs \cup {Dir(p)}
    /\ Set(p, n, [tab[p][n] EXCEPT !.pc = "open"])
    /\ UNCHANGED <<path, file, cl>> /\ ProcFrame

\* create_new: the directory exists and the name is free.
Openable(p, n) == Dir(p) \in dirs /\ path[<<Dir(p), n>>] = 0

\* Mutant: a file that exists is opened.
Open_existing(p, n) ==
    LET old == path[<<Dir(p), n>>]
        h == IF old = 0 THEN Len(file) + 1 ELSE old
    IN
    /\ p \in up /\ tab[p][n].pc = "open" /\ Dir(p) \in dirs /\ h <= world.files
    /\ file' = IF old # 0 THEN file ELSE Append(file, NewFile(p, n))
    /\ path' = [path EXCEPT ![<<Dir(p), n>>] = h]
    /\ Set(p, n, [tab[p][n] EXCEPT !.pc = "init", !.h = h, !.at = Dir(p)])
    /\ UNCHANGED <<dirs, cl>> /\ ProcFrame

\* The new file is empty: it has no header yet.
Open(p, n) ==
    /\ p \in up /\ tab[p][n].pc = "open"
    /\ Openable(p, n) /\ Len(file) < world.files
    /\ file' = Append(file, NewFile(p, n))
    /\ path' = [path EXCEPT ![<<Dir(p), n>>] = Len(file')]
    /\ Set(p, n, [tab[p][n] EXCEPT !.pc = "init", !.h = Len(file'), !.at = Dir(p)])
    /\ UNCHANGED <<dirs, cl>> /\ ProcFrame

\* The error goes to the caller.  A backing that was being registered is dropped;
\* one whose placeholder was replaced stays, without table and types.
OpenFails(p, n) ==
    LET t == tab[p][n] IN
    /\ p \in up /\ t.pc = "open" /\ ~Openable(p, n)
    /\ Set(p, n, IF t.there THEN [NoTable EXCEPT !.there = TRUE] ELSE NoTable)
    /\ UNCHANGED cl /\ FilesFrame /\ ProcFrame

\* init_buf; an append then fixes the schema and pushes its row.
InitBuf(p, n) ==
    LET t == tab[p][n] IN
    /\ p \in up /\ t.pc = "init"
    /\ file' = [file EXCEPT ![t.h].ready = TRUE,
                            ![t.h].rows = IF t.there THEN @ + 1 ELSE @,
                            ![t.h].writers = @ \cup {p}]
    /\ Set(p, n, [t EXCEPT !.there = TRUE, !.fixed = t.there, !.dtypes = t.next,
                           !.pc = "idle", !.next = "none"])
    /\ UNCHANGED <<dirs, path, cl>> /\ ProcFrame

----------------------------------------------------------------------------
(***************************************************************************)
(* Processes.  The tables live in a static, which exit does not drop: the  *)
(* files stay, as they do after a crash.                                   *)
(***************************************************************************)
PidFree(p) == p \in DOMAIN world.pid \ ever /\ \A q \in up : PidOf(q) # PidOf(p)

Start(p) ==
    /\ PidFree(p)
    /\ up' = up \cup {p} /\ ever' = ever \cup {p}
    /\ UNCHANGED <<world, tab, cl>> /\ FilesFrame

\* A table another thread is at work on has its mutex locked, for ever, in the
\* child; one that is being dropped is no longer in the map.
Inherited(t) ==
    IF t.pc = "idle" THEN t
    ELSE IF t.pc \in {"unlink", "rmdir"} /\ ~t.there THEN NoTable
    ELSE [NoTable EXCEPT !.pc = "locked", !.there = t.there]

\* The child has its parent's tables.
Fork(p, q) ==
    /\ world.forks /\ p \in up /\ PidFree(q)
    /\ up' = up \cup {q} /\ ever' = ever \cup {q}
    /\ tab' = [tab EXCEPT ![q] = [n \in Names |-> Inherited(tab[p][n])]]
    /\ LET open == {tab'[q][n].h : n \in Names}
       IN file' = [i \in DOMAIN file |-> [file[i] EXCEPT !.shared = @ \/ i \in open]]
    /\ UNCHANGED <<world, dirs, path, cl>>

Exit(p) ==
    /\ p \in up /\ up' = up \ {p}
    /\ tab' = [tab EXCEPT ![p] = [n \in Names |-> NoTable]]
    /\ UNCHANGED <<world, ever, cl>> /\ FilesFrame

----------------------------------------------------------------------------
(***************************************************************************)
(* cleanup_in, one directory after the other.                              *)
(***************************************************************************)
\* read_any_start_time: the start time in whichever header comes first; a file
\* without header is passed over.
CleanRead(pid) ==
    /\ cl.pc = "idle" /\ pid \in dirs
    /\ LET ready == {n \in Linked(pid) : file[path[<<pid, n>>]].ready}
       IN \/ \E n \in ready : cl' = [pc |-> "judge", pid |-> pid, by |-> {file[path[<<pid, n>>]].by}]
          \/ ready = {} /\ cl' = [pc |-> "judge", pid |-> pid, by |-> {}]
    /\ UNCHANGED tab /\ FilesFrame /\ ProcFrame

\* is_creator_alive: the PID exists and, if a start time was found, it is that
\* of the process that wrote it.
CreatorAlive(pid, by) == \E p \in up : PidOf(p) = pid /\ by \subseteq {p}

CleanJudge ==
    /\ cl.pc = "judge"
    /\ cl' = IF CreatorAlive(cl.pid, cl.by) THEN IdleCleaner ELSE [cl EXCEPT !.pc = "remove"]
    /\ UNCHANGED tab /\ FilesFrame /\ ProcFrame

\* remove_dir_all: the files one by one, then the directory.
CleanFile(n) ==
    /\ cl.pc = "remove" /\ n \in Linked(cl.pid)
    /\ file' = [file EXCEPT ![path[<<cl.pid, n>>]].cleaned = file[path[<<cl.pid, n>>]].by \in up]
    /\ path' = [path EXCEPT ![<<cl.pid, n>>] = 0]
    /\ UNCHANGED <<dirs, tab, cl>> /\ ProcFrame

\* A file made since the directory was listed keeps it.
CleanDir ==
    /\ cl.pc = "remove"
    /\ dirs' = IF Linked(cl.pid) = {} THEN dirs \ {cl.pid} ELSE dirs
    /\ cl' = IdleCleaner
    /\ UNCHANGED <<path, file, tab>> /\ ProcFrame

----------------------------------------------------------------------------
\* Row types: as guessed from the column names, or not.
Rows == {"guess", "other"}

Table(p, n) ==
    \/ Register(p, n) \/ DropTable(p, n)
    \/ \E row \in Rows : AppendRow(p, n, row) \/ Replace(p, n, row)
    \/ Unlink(p, n) \/ Rmdir(p, n) \/ Mkdir(p, n)
    \/ Open(p, n) \/ OpenFails(p, n) \/ InitBuf(p, n)

Clean ==
    \/ \E pid \in Pids : CleanRead(pid)
    \/ CleanJudge \/ (\E n \in Names : CleanFile(n)) \/ CleanDir

Next ==
    \/ \E p \in Procs, n \in world.names : Table(p, n)
    \/ \E p \in Procs : Start(p) \/ Exit(p)
    \/ \E p, q \in Procs : Fork(p, q)
    \/ Clean

Spec == Init /\ [][Next]_vars

----------------------------------------------------------------------------
\* The types; a file is linked at most once.
TypeOK ==
    /\ up \subseteq ever /\ ever \subseteq Procs /\ dirs \subseteq Pids
    /\ path \in [Pids \X Names -> 0 .. Len(file)]
    /\ \A x, y \in DOMAIN path : path[x] = path[y] /\ path[x] # 0 => x = y
    /\ \A x \in DOMAIN path : path[x] # 0 => x[1] \in dirs
    /\ \A p \in Procs, n \in Names : tab[p][n].h \in 0 .. Len(file)

\* The PID of the process is also that of another that ran.
PidReused(p) == \E q \in ever \ {p} : PidOf(q) = PidOf(p)

\* The process forked while it had a table of that name open.
ForkedOpen(p, n) == \E i \in DOMAIN file : file[i].by = p /\ file[i].name = n /\ file[i].shared

\* A table a running process has created and not dropped can be found under its
\* path, whatever its other threads, the cleanup and other processes do
\* (memtable.rs: drop; discover.rs: cleanup_in).  Not so for the name of a table
\* that was open across a fork: the child unlinks its path when it drops its handle.
\* And not so where a dead process with the same PID has left its files.
LiveTableListed ==
    \A p \in up, n \in Names :
        LET t == tab[p][n]
        IN t.there /\ t.pc = "idle" /\ t.h # 0 /\ file[t.h].by = p
              /\ ~ForkedOpen(p, n) /\ ~PidReused(p)
           => path[<<t.at, n>>] = t.h

\* Only the process that created a table writes to it, also when a PID and with
\* it a path is used again (memtable.rs: "MEMT is single-writer"; shared_in); not
\* so for a table a forked child has too, which appends to it.
SingleWriter == \A i \in DOMAIN file : file[i].shared \/ file[i].writers \subseteq {file[i].by}

\* The file system as the writers leave it: no file outside a directory, none under
\* two names, and one writer each (memtable.rs: shared_in, drop).
FilesOwned == TypeOK /\ SingleWriter

\* Cleanup removes no file of a running process, whatever was forked from whom
\* (discover.rs, cleanup_in: "Remove stale entries (dead processes)").  Not so for
\* a reused PID: the start time is that of any file in the directory, and is read
\* before the files are removed.
CleanupDeadOnly == \A i \in DOMAIN file : file[i].cleaned => PidReused(file[i].by)

=============================================================================
