------------------------- MODULE ExternTables_proofs -------------------------
(***************************************************************************)
(* Proofs about the tables a process exposes as files, for every set of    *)
(* processes, PIDs and names and every setting of them.                    *)
(***************************************************************************)
EXTENDS ExternTables, TLAPS

RowTypes == Rows \cup {"none"}
TablePcs == {"idle", "mkdir", "open", "init", "unlink", "rmdir", "locked"}

Tables ==
    [there : BOOLEAN, h : Nat, at : Pids \cup {0}, dtypes : RowTypes, fixed : BOOLEAN,
     pc : TablePcs, next : RowTypes]
Files ==
    [by : Procs, name : Names, ready : BOOLEAN, rows : Nat, writers : SUBSET Procs,
     shared : BOOLEAN, cleaned : BOOLEAN]
Cleaners == [pc : {"idle", "judge", "remove"}, pid : Pids \cup {0}, by : SUBSET Procs]

Shape ==
    /\ world \in Worlds
    /\ up \subseteq ever /\ ever \subseteq DOMAIN world.pid /\ dirs \subseteq Pids
    /\ path \in [Pids \X Names -> Nat]
    /\ file \in Seq(Files)
    /\ tab \in [Procs -> [Names -> Tables]]
    /\ cl \in Cleaners

\* A path leads to one file, in a directory that exists, of a process with the
\* PID the directory is named for.
PathSound ==
    /\ \A pid \in Pids, n \in Names :
         path[<<pid, n>>] # 0 =>
            /\ path[<<pid, n>>] \in DOMAIN file /\ pid \in dirs
            /\ PidOf(file[path[<<pid, n>>]].by) = pid
    /\ \A pid, qid \in Pids, m, n \in Names :
         path[<<pid, m>>] = path[<<qid, n>>] /\ path[<<pid, m>>] # 0 => pid = qid /\ m = n

\* An open file was created by the process that has it open or is shared, and the
\* path its table remembers is under the PID of its creator and its name; only an open file is
\* unlinked.
Handle(p, n, t) ==
    /\ t.pc = "unlink" => t.h # 0
    /\ t.h # 0 => /\ t.h \in DOMAIN file
                  /\ t.at = PidOf(file[t.h].by)
                  /\ file[t.h].name = n
                  /\ file[t.h].by = p \/ file[t.h].shared
HandleSound == \A p \in Procs, n \in Names : Handle(p, n, tab[p][n])

\* A directory is that of a process that ran; so are the files.
Origin ==
    /\ \A d \in dirs : \E q \in ever : PidOf(q) = d
    /\ \A i \in DOMAIN file : file[i].by \in ever

\* Where a table holds a file it has not unlinked.
Holding == {"idle", "init", "unlink"}
Linkable(p, n, t) ==
    t.h # 0 /\ t.pc \in Holding /\ file[t.h].by = p /\ ~ForkedOpen(p, n) /\ ~PidReused(p)
Listed == \A p \in up, n \in Names : Linkable(p, n, tab[p][n]) => path[<<tab[p][n].at, n>>] = tab[p][n].h

\* What the cleanup knows of the PID it looks at: some process had it, the
\* creators it read about did, and once it has judged them dead whoever runs
\* under the PID is not the only one that ever did.
CleanSound ==
    /\ cl.pc # "idle" =>
         /\ cl.pid \in Pids /\ \E q \in ever : PidOf(q) = cl.pid
         /\ \A b \in cl.by : b \in ever /\ PidOf(b) = cl.pid
    /\ cl.pc = "remove" => \A p \in up : PidOf(p) = cl.pid => PidReused(p)

Inv == /\ Shape /\ PathSound /\ HandleSound /\ Origin /\ SingleWriter
       /\ Listed /\ CleanSound /\ CleanupDeadOnly

----------------------------------------------------------------------------
\* The PIDs of the instances of a setting.
LEMMA PidType ==
  ASSUME world \in Worlds
  PROVE /\ \A p \in DOMAIN world.pid : p \in Procs /\ PidOf(p) \in Pids
        /\ world.first \in DOMAIN world.pid /\ world.names \subseteq Names
  <1>1. world \in WorldType /\ world.first \in DOMAIN world.pid
    BY ExternAssumption
  <1>2. PICK P \in SUBSET Procs : world.pid \in [P -> Pids]
    BY <1>1 DEF WorldType
  <1> QED
    BY <1>1, <1>2 DEF WorldType, PidOf

\* The invariant says what the runs check.
LEMMA InvImplies == Inv => FilesOwned /\ CleanupDeadOnly /\ LiveTableListed
  <1> SUFFICES ASSUME Inv PROVE FilesOwned /\ LiveTableListed
    BY DEF Inv
  <1>1. /\ Len(file) \in Nat /\ DOMAIN file = 1 .. Len(file)
        /\ \A pid \in Pids, n \in Names : path[<<pid, n>>] \in Nat
    BY DEF Inv, Shape
  <1>2. \A x \in Pids \X Names : x[1] \in Pids /\ x[2] \in Names /\ x = <<x[1], x[2]>>
    OBVIOUS
  <1>3. DOMAIN path = Pids \X Names
    BY DEF Inv, Shape
  <1>4. \A x \in DOMAIN path : path[x] # 0 => path[x] \in DOMAIN file /\ x[1] \in dirs
    BY <1>2, <1>3 DEF Inv, PathSound
  <1>5. \A x, y \in DOMAIN path : path[x] = path[y] /\ path[x] # 0 => x = y
    <2> SUFFICES ASSUME NEW x \in Pids \X Names, NEW y \in Pids \X Names,
                        path[x] = path[y], path[x] # 0
                 PROVE x = y
      BY <1>3
    <2>1. x = <<x[1], x[2]>> /\ y = <<y[1], y[2]>>
      BY <1>2
    <2>2. x[1] = y[1] /\ x[2] = y[2]
      BY <1>2, <2>1 DEF Inv, PathSound
    <2> QED
      BY <2>1, <2>2
  <1>6. path \in [Pids \X Names -> 0 .. Len(file)]
    <2>1. \A x \in Pids \X Names : path[x] \in 0 .. Len(file)
      BY <1>1, <1>3, <1>4 DEF Inv, Shape
    <2> QED
      BY <2>1, <1>3 DEF Inv, Shape
  <1>7. \A p \in Procs, n \in Names : tab[p][n].h \in 0 .. Len(file)
    <2> SUFFICES ASSUME NEW p \in Procs, NEW n \in Names PROVE tab[p][n].h \in 0 .. Len(file)
      OBVIOUS
    <2>1. tab[p][n] \in Tables /\ Handle(p, n, tab[p][n])
      BY DEF Inv, Shape, HandleSound
    <2> QED
      BY <2>1, <1>1 DEF Tables, Handle
  <1>8. TypeOK
    BY <1>3, <1>4, <1>5, <1>6, <1>7, PidType DEF Inv, Shape, TypeOK
  <1>9. LiveTableListed
    BY DEF Inv, Listed, Linkable, Holding, LiveTableListed
  <1> QED
    BY <1>8, <1>9 DEF Inv, FilesOwned

LEMMA InitInv == Init => Inv
  <1> SUFFICES ASSUME Init PROVE Inv
    OBVIOUS
  <1>1. NoTable \in Tables /\ IdleCleaner \in Cleaners /\ NoTable.h = 0
    BY DEF NoTable, IdleCleaner, Tables, Cleaners, TablePcs, RowTypes, Rows
  <1>2. Shape
    BY <1>1, PidType DEF Init, Shape
  <1>3. \A pid \in Pids, n \in Names : path[<<pid, n>>] = 0
    BY DEF Init
  <1>4. file = <<>> /\ DOMAIN file = {} /\ dirs = {}
    BY DEF Init
  <1>5. PathSound /\ Origin /\ SingleWriter /\ CleanupDeadOnly
    BY <1>3, <1>4 DEF PathSound, Origin, SingleWriter, CleanupDeadOnly
  <1>6. \A p \in Procs, n \in Names : tab[p][n].h = 0 /\ tab[p][n].pc # "unlink"
    BY <1>1 DEF Init, NoTable
  <1>7. HandleSound /\ Listed
    BY <1>2, <1>6, PidType DEF HandleSound, Handle, Listed, Linkable, Shape
  <1>8. CleanSound
    BY DEF Init, CleanSound, IdleCleaner
  <1> QED
    BY <1>2, <1>5, <1>7, <1>8 DEF Inv

----------------------------------------------------------------------------
(***************************************************************************)
(* Steps on one table.                                                     *)
(***************************************************************************)
\* What Set does to the tables.
LEMMA SetFacts ==
  ASSUME tab \in [Procs -> [Names -> Tables]], NEW p \in Procs, NEW n \in Names,
         NEW t \in Tables, Set(p, n, t)
  PROVE /\ tab' \in [Procs -> [Names -> Tables]] /\ tab'[p][n] = t
        /\ \A q \in Procs, m \in Names : q # p \/ m # n => tab'[q][m] = tab[q][m]
  BY DEF Set

\* Where the processes and the files stay, so do their PIDs and histories.
LEMMA SameProcs ==
  ASSUME ProcFrame
  PROVE /\ \A p : PidOf(p)' = PidOf(p)
        /\ \A p : PidReused(p)' <=> PidReused(p)
  BY DEF ProcFrame, PidOf, PidReused

\* A step on a table that leaves the files alone: it forgets the file it has, or
\* goes on with it.
Forgets(t) == t.h = 0 /\ t.pc # "unlink"
GoesOn(s, t) ==
    /\ t.h = s.h /\ t.at = s.at /\ (t.pc \in Holding => s.pc \in Holding)
    /\ t.pc = "unlink" => s.h # 0
FileFrame == UNCHANGED <<path, file>>
LEMMA TableKeeps ==
  ASSUME Inv, ProcFrame, FileFrame,
         NEW p \in Procs, NEW n \in Names, NEW t \in Tables, Set(p, n, t),
         Forgets(t) \/ GoesOn(tab[p][n], t)
  PROVE tab' \in [Procs -> [Names -> Tables]] /\ HandleSound' /\ Listed'
  <1>1. /\ tab' \in [Procs -> [Names -> Tables]] /\ tab'[p][n] = t
        /\ \A q \in Procs, m \in Names : q # p \/ m # n => tab'[q][m] = tab[q][m]
    BY SetFacts DEF Inv, Shape
  <1>2. HandleSound'
    <2> SUFFICES ASSUME NEW q \in Procs, NEW m \in Names PROVE Handle(q, m, tab[q][m])'
      BY DEF HandleSound
    <2>1. Handle(q, m, tab[q][m])
      BY DEF Inv, HandleSound
    <2>2. CASE q = p /\ m = n
      BY <1>1, <2>1, <2>2 DEF Handle, Forgets, GoesOn, PidOf, ProcFrame, FileFrame
    <2>3. CASE q # p \/ m # n
      BY <1>1, <2>1, <2>3 DEF Handle, PidOf, ProcFrame, FileFrame
    <2> QED
      BY <2>2, <2>3
  <1>3. Listed'
    <2> SUFFICES ASSUME NEW q \in up, NEW m \in Names, Linkable(q, m, tab[q][m])'
                 PROVE path'[<<tab'[q][m].at, m>>] = tab'[q][m].h
      BY DEF Listed, ProcFrame
    <2>0. q \in Procs
      BY PidType DEF Inv, Shape
    <2>1. CASE q = p /\ m = n
      <3>1. Linkable(p, n, tab[p][n]) /\ GoesOn(tab[p][n], t)
        BY <1>1, <2>1 DEF Linkable, Forgets, GoesOn, ForkedOpen, PidReused, PidOf, ProcFrame, FileFrame
      <3> QED
        BY <1>1, <2>1, <3>1 DEF Inv, Listed, GoesOn, FileFrame
    <2>2. CASE q # p \/ m # n
      <3>1. Linkable(q, m, tab[q][m])
        BY <1>1, <2>0, <2>2 DEF Linkable, ForkedOpen, PidReused, PidOf, ProcFrame, FileFrame
      <3> QED
        BY <1>1, <2>0, <2>2, <3>1 DEF Inv, Listed, FileFrame
    <2> QED
      BY <2>1, <2>2
  <1> QED
    BY <1>1, <1>2, <1>3

LEMMA TableStep ==
  ASSUME Inv, ProcFrame, FilesFrame, UNCHANGED cl,
         NEW p \in Procs, NEW n \in Names, NEW t \in Tables, Set(p, n, t),
         Forgets(t) \/ GoesOn(tab[p][n], t)
  PROVE Inv'
  <1>1. FileFrame
    BY DEF FilesFrame, FileFrame
  <1>2. tab' \in [Procs -> [Names -> Tables]] /\ HandleSound' /\ Listed'
    BY <1>1, TableKeeps
  <1>3. Shape'
    BY <1>2 DEF Inv, Shape, ProcFrame, FilesFrame
  <1>4. PathSound' /\ Origin' /\ SingleWriter' /\ CleanSound' /\ CleanupDeadOnly'
    BY DEF Inv, PathSound, Origin, SingleWriter, CleanSound, CleanupDeadOnly, PidReused, PidOf,
           ProcFrame, FilesFrame
  <1> QED
    BY <1>2, <1>3, <1>4 DEF Inv

LEMMA RegisterInv ==
  ASSUME Inv, NEW p \in Procs, NEW n \in Names, Register(p, n)
  PROVE Inv'
  <1> DEFINE t == [NoTable EXCEPT !.pc = "mkdir", !.next = "guess"]
  <1>1. t \in Tables /\ Forgets(t)
    BY DEF NoTable, Tables, TablePcs, RowTypes, Rows, Forgets
  <1> HIDE DEF t
  <1>2. ProcFrame /\ FilesFrame /\ UNCHANGED cl /\ Set(p, n, t)
    BY DEF Register, t
  <1> QED
    BY <1>1, <1>2, TableStep

LEMMA DropTableInv ==
  ASSUME Inv, NEW p \in Procs, NEW n \in Names, DropTable(p, n)
  PROVE Inv'
  <1> DEFINE s == tab[p][n]
             t == [NoTable EXCEPT !.h = s.h, !.at = s.at, !.pc = "unlink"]
  <1>1. s \in Tables /\ s.pc = "idle"
    BY DEF Inv, Shape, DropTable
  <1>6. s.h # 0 => t \in Tables /\ GoesOn(s, t)
    BY <1>1 DEF NoTable, Tables, TablePcs, RowTypes, Rows, GoesOn, Holding
  <1>2. ProcFrame /\ FilesFrame /\ UNCHANGED cl
    BY DEF DropTable
  <1>3. NoTable \in Tables /\ Forgets(NoTable)
    BY DEF NoTable, Tables, TablePcs, RowTypes, Rows, Forgets
  <1>5. Set(p, n, NoTable) \/ (s.h # 0 /\ Set(p, n, t))
    BY DEF DropTable
  <1> HIDE DEF t
  <1> QED
    BY <1>2, <1>3, <1>5, <1>6, TableStep

LEMMA ReplaceInv ==
  ASSUME Inv, NEW p \in Procs, NEW n \in Names, NEW row \in Rows, Replace(p, n, row)
  PROVE Inv'
  <1> DEFINE s == tab[p][n]
             t == [s EXCEPT !.pc = IF s.h # 0 THEN "unlink" ELSE "mkdir",
                            !.dtypes = "none", !.next = Zipped(row, s.dtypes)]
  <1>1. s \in Tables /\ s.pc = "idle"
    BY DEF Inv, Shape, Replace
  <1>2. ProcFrame /\ FilesFrame /\ UNCHANGED cl /\ Set(p, n, t)
    BY DEF Replace
  <1>3. Zipped(row, s.dtypes) \in RowTypes
    BY DEF Zipped, RowTypes
  <1>4. t \in Tables
    BY <1>1, <1>3 DEF Tables, TablePcs, RowTypes
  <1>5. GoesOn(s, t)
    BY <1>1 DEF GoesOn, Holding, Tables
  <1> HIDE DEF t
  <1> QED
    BY <1>2, <1>4, <1>5, TableStep

LEMMA OpenFailsInv ==
  ASSUME Inv, NEW p \in Procs, NEW n \in Names, OpenFails(p, n)
  PROVE Inv'
  <1> DEFINE t == [NoTable EXCEPT !.there = TRUE]
  <1>1. t \in Tables /\ Forgets(t) /\ NoTable \in Tables /\ Forgets(NoTable)
    BY DEF NoTable, Tables, TablePcs, RowTypes, Rows, Forgets
  <1>2. ProcFrame /\ FilesFrame /\ UNCHANGED cl /\ (Set(p, n, t) \/ Set(p, n, NoTable))
    BY DEF OpenFails
  <1> HIDE DEF t
  <1> QED
    BY <1>1, <1>2, TableStep

(***************************************************************************)
(* Rows: the process writes to the file it has open.                       *)
(***************************************************************************)
\* The files after one of them is replaced by f.
LEMMA WriteStep ==
  ASSUME Inv, ProcFrame, UNCHANGED <<dirs, path, cl>>,
         NEW p \in Procs, NEW n \in Names, NEW t \in Tables, Set(p, n, t), GoesOn(tab[p][n], t),
         NEW f \in Files, tab[p][n].h # 0,
         file' = [file EXCEPT ![tab[p][n].h] = f],
         f.by = file[tab[p][n].h].by, f.name = file[tab[p][n].h].name,
         f.shared = file[tab[p][n].h].shared,
         f.cleaned = file[tab[p][n].h].cleaned,
         f.writers \subseteq file[tab[p][n].h].writers \cup {p}
  PROVE Inv'
  <1> DEFINE h == tab[p][n].h
  <1>1. /\ tab' \in [Procs -> [Names -> Tables]] /\ tab'[p][n] = t
        /\ \A q \in Procs, m \in Names : q # p \/ m # n => tab'[q][m] = tab[q][m]
    BY SetFacts DEF Inv, Shape
  <1>2. Handle(p, n, tab[p][n])
    BY DEF Inv, HandleSound
  <1>3. h \in DOMAIN file /\ (file[h].by = p \/ file[h].shared)
    BY <1>2 DEF Handle
  <1>4. /\ file' \in Seq(Files) /\ DOMAIN file' = DOMAIN file /\ file'[h] = f
        /\ \A i \in DOMAIN file : i # h => file'[i] = file[i]
    BY <1>3 DEF Inv, Shape
  <1>5. \A i \in DOMAIN file : /\ file'[i].by = file[i].by /\ file'[i].shared = file[i].shared
                               /\ file'[i].cleaned = file[i].cleaned /\ file'[i].name = file[i].name
    BY <1>4
  <1> HIDE DEF h
  <1>6. Shape'
    BY <1>1, <1>4 DEF Inv, Shape, ProcFrame
  <1>7. PathSound' /\ Origin' /\ CleanupDeadOnly' /\ CleanSound'
    <2>1. \A i \in DOMAIN file : file'[i].by = file[i].by /\ file'[i].cleaned = file[i].cleaned
      BY <1>5
    <2>2. PathSound' /\ Origin'
      BY <1>4, <2>1 DEF Inv, PathSound, Origin, PidOf, ProcFrame
    <2>3. CleanupDeadOnly' /\ CleanSound'
      BY <1>4, <2>1 DEF Inv, CleanupDeadOnly, CleanSound, PidReused, PidOf, ProcFrame
    <2> QED
      BY <2>2, <2>3
  <1>8. SingleWriter'
    <2> SUFFICES ASSUME NEW i \in DOMAIN file, ~file[i].shared PROVE file'[i].writers \subseteq {file[i].by}
      BY <1>4, <1>5 DEF SingleWriter
    <2>1. file[i].writers \subseteq {file[i].by}
      BY DEF Inv, SingleWriter
    <2> QED
      BY <1>3, <1>4, <2>1 DEF h
  <1>9. HandleSound'
    <2> SUFFICES ASSUME NEW q \in Procs, NEW m \in Names PROVE Handle(q, m, tab[q][m])'
      BY DEF HandleSound
    <2>1. Handle(q, m, tab[q][m])
      BY DEF Inv, HandleSound
    <2>2. /\ tab'[q][m].h = tab[q][m].h /\ tab'[q][m].at = tab[q][m].at
          /\ tab'[q][m].pc = "unlink" => tab[q][m].h # 0
      BY <1>1, <2>1 DEF GoesOn, Handle
    <2> QED
      BY <1>4, <1>5, <2>1, <2>2 DEF Handle, PidOf, ProcFrame
  <1>10. Listed'
    <2> SUFFICES ASSUME NEW q \in up, NEW m \in Names, Linkable(q, m, tab[q][m])'
                 PROVE path'[<<tab'[q][m].at, m>>] = tab'[q][m].h
      BY DEF Listed, ProcFrame
    <2>0. q \in Procs
      BY PidType DEF Inv, Shape
    <2>1. /\ tab'[q][m].h = tab[q][m].h /\ tab'[q][m].at = tab[q][m].at
          /\ tab'[q][m].pc \in Holding => tab[q][m].pc \in Holding
      BY <1>1, <2>0 DEF GoesOn
    <2>2. Handle(q, m, tab[q][m])
      BY <2>0 DEF Inv, HandleSound
    <2>3. tab[q][m].h # 0 /\ tab[q][m].pc \in Holding /\ ~PidReused(q)
      BY <2>1 DEF Linkable, PidReused, PidOf, ProcFrame
    <2>4. file[tab[q][m].h].by = q
      BY <1>5, <2>1, <2>2, <2>3 DEF Linkable, Handle
    <2>5. ~ForkedOpen(q, m)
      BY <1>4, <1>5 DEF Linkable, ForkedOpen
    <2> QED
      BY <2>1, <2>3, <2>4, <2>5 DEF Inv, Listed, Linkable
  <1> QED
    BY <1>6, <1>7, <1>8, <1>9, <1>10 DEF Inv

\* A file record after a row is pushed.
LEMMA PushedFile ==
  ASSUME NEW g \in Files, NEW p \in Procs
  PROVE LET f == [g EXCEPT !.rows = @ + 1, !.writers = @ \cup {p}]
        IN /\ f \in Files /\ f.by = g.by /\ f.name = g.name /\ f.shared = g.shared /\ f.cleaned = g.cleaned
           /\ f.writers = g.writers \cup {p}
  <1> DEFINE writers == g.writers \cup {p}
  <1>1. g.rows + 1 \in Nat /\ writers \in SUBSET Procs
    BY DEF Files
  <1> HIDE DEF writers
  <1>2. [g EXCEPT !.rows = g.rows + 1, !.writers = writers] \in Files
    BY <1>1 DEF Files
  <1> QED
    BY <1>2 DEF writers, Files

\* A file record after its header is written.
LEMMA ReadyFile ==
  ASSUME NEW g \in Files, NEW p \in Procs, NEW k \in Nat
  PROVE LET e == [g EXCEPT !.ready = TRUE, !.rows = k, !.writers = @ \cup {p}]
        IN /\ e \in Files /\ e.by = g.by /\ e.name = g.name /\ e.shared = g.shared /\ e.cleaned = g.cleaned
           /\ e.writers = g.writers \cup {p}
  <1> DEFINE writers == g.writers \cup {p}
  <1>1. writers \in SUBSET Procs
    BY DEF Files
  <1> HIDE DEF writers
  <1>2. [g EXCEPT !.ready = TRUE, !.rows = k, !.writers = writers] \in Files
    BY <1>1 DEF Files
  <1> QED
    BY <1>2 DEF writers, Files

LEMMA AppendRowInv ==
  ASSUME Inv, NEW p \in Procs, NEW n \in Names, NEW row \in Rows, AppendRow(p, n, row)
  PROVE Inv'
  <1> DEFINE s == tab[p][n]
             t == [s EXCEPT !.fixed = TRUE]
             g == file[s.h]
             f == [g EXCEPT !.rows = @ + 1, !.writers = @ \cup {p}]
  <1>1. s \in Tables /\ s.h # 0 /\ s.h \in DOMAIN file
    BY DEF Inv, Shape, AppendRow, HandleSound, Handle
  <1>2. g \in Files
    BY <1>1 DEF Inv, Shape
  <1>3. t \in Tables /\ GoesOn(s, t)
    BY <1>1 DEF Tables, GoesOn, Holding
  <1>4. f \in Files /\ f.by = g.by /\ f.name = g.name /\ f.shared = g.shared /\ f.cleaned = g.cleaned
           /\ f.writers = g.writers \cup {p}
    BY <1>2, PushedFile
  <1>5. /\ ProcFrame /\ UNCHANGED <<dirs, path, cl>> /\ Set(p, n, t)
        /\ file' = [file EXCEPT ![s.h] = f]
    BY DEF AppendRow, PushTo
  <1> HIDE DEF f, t
  <1> QED
    BY <1>1, <1>3, <1>4, <1>5, WriteStep

LEMMA InitBufInv ==
  ASSUME Inv, NEW p \in Procs, NEW n \in Names, InitBuf(p, n)
  PROVE Inv'
  <1> DEFINE s == tab[p][n]
             t == [s EXCEPT !.there = TRUE, !.fixed = s.there, !.dtypes = s.next,
                            !.pc = "idle", !.next = "none"]
             g == file[s.h]
             f == [g EXCEPT !.ready = TRUE, !.rows = IF s.there THEN @ + 1 ELSE @,
                            !.writers = @ \cup {p}]
  <1>1. s \in Tables /\ s.pc = "init" /\ Handle(p, n, s)
    BY DEF Inv, Shape, InitBuf, HandleSound
  <1>2. t \in Tables /\ GoesOn(s, t)
    BY <1>1 DEF Tables, GoesOn, Holding, TablePcs, RowTypes
  <1>3. /\ ProcFrame /\ UNCHANGED <<dirs, path, cl>> /\ Set(p, n, t)
        /\ file' = [file EXCEPT ![s.h] = f]
    BY DEF InitBuf
  <1>4. CASE s.h = 0
    <2>1. 0 \notin DOMAIN file
      BY DEF Inv, Shape
    <2>2. file' = file
      BY <1>3, <1>4, <2>1 DEF Inv, Shape
    <2> HIDE DEF t
    <2> QED
      BY <1>2, <1>3, <2>2, TableStep DEF FilesFrame
  <1>5. CASE s.h # 0
    <2>1. g \in Files
      BY <1>1, <1>5 DEF Handle, Inv, Shape
    <2> DEFINE k == IF s.there THEN g.rows + 1 ELSE g.rows
               e == [g EXCEPT !.ready = TRUE, !.rows = k, !.writers = @ \cup {p}]
    <2>2. e \in Files /\ e.by = g.by /\ e.name = g.name /\ e.shared = g.shared /\ e.cleaned = g.cleaned
             /\ e.writers = g.writers \cup {p}
      <3>1. k \in Nat
        BY <2>1 DEF Files
      <3> HIDE DEF k, g
      <3> QED
        BY ONLY p \in Procs, <2>1, <3>1, ReadyFile
    <2>3. f = e
      OBVIOUS
    <2> HIDE DEF e
    <2> HIDE DEF f, t
    <2> QED
      BY <1>2, <1>3, <1>5, <2>2, <2>3, WriteStep
  <1> QED
    BY <1>4, <1>5

----------------------------------------------------------------------------
(***************************************************************************)
(* The directories and the paths.                                          *)
(***************************************************************************)
\* A directory goes when no path leads through it, and comes for a process that
\* ran: what is known of files and paths holds on.
LEMMA DirKeeps ==
  ASSUME Inv, ProcFrame, FileFrame, dirs' \subseteq Pids,
         \A d \in dirs : d \in dirs' \/ Linked(d) = {},
         \A d \in dirs' : d \in dirs \/ \E q \in ever : PidOf(q) = d
  PROVE PathSound' /\ Origin' /\ SingleWriter' /\ CleanupDeadOnly'
  <1>1. PathSound'
    <2>1. \A pid \in Pids, n \in Names : path[<<pid, n>>] # 0 => pid \in dirs'
      BY DEF Inv, PathSound, Linked
    <2> QED
      BY <2>1 DEF Inv, PathSound, PidOf, ProcFrame, FileFrame
  <1>2. Origin'
    BY DEF Inv, Origin, PidOf, ProcFrame, FileFrame
  <1>3. SingleWriter' /\ CleanupDeadOnly'
    BY DEF Inv, SingleWriter, CleanupDeadOnly, PidReused, PidOf, ProcFrame, FileFrame
  <1> QED
    BY <1>1, <1>2, <1>3

LEMMA RmdirInv ==
  ASSUME Inv, NEW p \in Procs, NEW n \in Names, Rmdir(p, n)
  PROVE Inv'
  <1> DEFINE s == tab[p][n]
             t == [s EXCEPT !.pc = "mkdir", !.h = 0, !.at = 0]
  <1>1. s \in Tables
    BY DEF Inv, Shape
  <1>2. NoTable \in Tables /\ Forgets(NoTable) /\ t \in Tables /\ Forgets(t)
    BY <1>1 DEF NoTable, Tables, TablePcs, RowTypes, Rows, Forgets
  <1>3. /\ ProcFrame /\ FileFrame /\ UNCHANGED cl
        /\ Set(p, n, t) \/ Set(p, n, NoTable)
        /\ dirs' = IF Linked(s.at) = {} THEN dirs \ {s.at} ELSE dirs
    BY DEF Rmdir, FileFrame
  <1> HIDE DEF t
  <1>4. tab' \in [Procs -> [Names -> Tables]] /\ HandleSound' /\ Listed'
    BY <1>2, <1>3, TableKeeps
  <1>5. dirs' \subseteq dirs /\ \A d \in dirs : d \in dirs' \/ Linked(d) = {}
    BY <1>3
  <1>6. PathSound' /\ Origin' /\ SingleWriter' /\ CleanupDeadOnly'
    BY <1>3, <1>5, DirKeeps DEF Inv, Shape
  <1>7. Shape' /\ CleanSound'
    BY <1>3, <1>4, <1>5 DEF Inv, Shape, CleanSound, PidReused, PidOf, ProcFrame, FileFrame
  <1> QED
    BY <1>4, <1>6, <1>7 DEF Inv

LEMMA MkdirInv ==
  ASSUME Inv, NEW p \in Procs, NEW n \in Names, Mkdir(p, n)
  PROVE Inv'
  <1> DEFINE t == [tab[p][n] EXCEPT !.pc = "open"]
  <1>0. tab[p][n] \in Tables
    BY DEF Inv, Shape
  <1>1. t \in Tables /\ GoesOn(tab[p][n], t)
    BY <1>0 DEF Tables, TablePcs, GoesOn, Holding
  <1>2. /\ ProcFrame /\ FileFrame /\ UNCHANGED cl /\ Set(p, n, t)
        /\ dirs' = dirs \cup {PidOf(p)} /\ p \in ever /\ PidOf(p) \in Pids
    BY PidType DEF Mkdir, FileFrame, Dir, Inv, Shape
  <1> HIDE DEF t
  <1>3. tab' \in [Procs -> [Names -> Tables]] /\ HandleSound' /\ Listed'
    BY <1>1, <1>2, TableKeeps
  <1>4. PathSound' /\ Origin' /\ SingleWriter' /\ CleanupDeadOnly'
    BY <1>2, DirKeeps DEF Inv, Shape
  <1>5. Shape' /\ CleanSound'
    BY <1>2, <1>3 DEF Inv, Shape, CleanSound, PidReused, PidOf, ProcFrame, FileFrame
  <1> QED
    BY <1>3, <1>4, <1>5 DEF Inv

\* A path that is removed.
LEMMA PathGone ==
  ASSUME Inv, NEW d, NEW n \in Names, path' = [path EXCEPT ![<<d, n>>] = 0]
  PROVE /\ path' \in [Pids \X Names -> Nat]
        /\ \A pid \in Pids, m \in Names :
             \/ path'[<<pid, m>>] = path[<<pid, m>>]
             \/ path'[<<pid, m>>] = 0 /\ pid = d /\ m = n
  <1>1. path \in [Pids \X Names -> Nat]
    BY DEF Inv, Shape
  <1>2. \A pid \in Pids, m \in Names : <<pid, m>> = <<d, n>> <=> pid = d /\ m = n
    OBVIOUS
  <1> QED
    BY <1>1, <1>2

LEMMA UnlinkInv ==
  ASSUME Inv, NEW p \in Procs, NEW n \in Names, Unlink(p, n)
  PROVE Inv'
  <1> DEFINE s == tab[p][n]
             t == [s EXCEPT !.pc = "rmdir"]
  <1>1. s \in Tables /\ s.pc = "unlink" /\ Handle(p, n, s)
    BY DEF Inv, Shape, Unlink, HandleSound
  <1>2. t \in Tables /\ t.h = s.h /\ t.at = s.at /\ t.pc = "rmdir"
    BY <1>1 DEF Tables, TablePcs
  <1>3. ProcFrame /\ UNCHANGED <<dirs, file, cl>> /\ Set(p, n, t)
    BY DEF Unlink
  <1> HIDE DEF t
  <1>4. /\ tab' \in [Procs -> [Names -> Tables]] /\ tab'[p][n] = t
        /\ \A q \in Procs, m \in Names : q # p \/ m # n => tab'[q][m] = tab[q][m]
    BY <1>2, <1>3, SetFacts DEF Inv, Shape
  <1>5. /\ path' \in [Pids \X Names -> Nat]
        /\ \A pid \in Pids, m \in Names :
             \/ path'[<<pid, m>>] = path[<<pid, m>>]
             \/ path'[<<pid, m>>] = 0 /\ pid = s.at /\ m = n
    BY PathGone DEF Unlink
  <1>6. Shape'
    BY <1>3, <1>4, <1>5 DEF Inv, Shape, ProcFrame
  <1>7. PathSound'
    <2>1. \A pid \in Pids, m \in Names : path'[<<pid, m>>] \in {path[<<pid, m>>], 0}
      BY <1>5
    <2> QED
      BY <1>3, <2>1 DEF Inv, PathSound, PidOf, ProcFrame
  <1>8. Origin' /\ SingleWriter' /\ CleanSound' /\ CleanupDeadOnly'
    BY <1>3 DEF Inv, Origin, SingleWriter, CleanSound, CleanupDeadOnly, PidReused, PidOf, ProcFrame
  <1>9. HandleSound'
    <2> SUFFICES ASSUME NEW q \in Procs, NEW m \in Names PROVE Handle(q, m, tab[q][m])'
      BY DEF HandleSound
    <2>1. Handle(q, m, tab[q][m])
      BY DEF Inv, HandleSound
    <2> QED
      BY <1>1, <1>2, <1>3, <1>4, <2>1 DEF Handle, PidOf, ProcFrame
  <1>10. Listed'
    <2> SUFFICES ASSUME NEW q \in up, NEW m \in Names, Linkable(q, m, tab[q][m])'
                 PROVE path'[<<tab'[q][m].at, m>>] = tab'[q][m].h
      BY <1>3 DEF Listed, ProcFrame
    <2>0. q \in Procs /\ q \in ever
      BY PidType DEF Inv, Shape
    <2>1. q # p \/ m # n
      BY <1>2, <1>4 DEF Linkable, Holding
    <2>2. tab'[q][m] = tab[q][m]
      BY <1>4, <2>0, <2>1
    <2>3. Linkable(q, m, tab[q][m])
      BY <1>3, <2>2 DEF Linkable, ForkedOpen, PidReused, PidOf, ProcFrame
    <2>4. path[<<tab[q][m].at, m>>] = tab[q][m].h
      BY <2>3 DEF Inv, Listed
    <2>5. Handle(q, m, tab[q][m]) /\ tab[q][m].h # 0 /\ file[tab[q][m].h].by = q
      BY <2>0, <2>3 DEF Inv, HandleSound, Linkable
    <2>6. tab[q][m].at = PidOf(q) /\ PidOf(q) \in Pids
      BY <2>5, PidType DEF Handle, Inv, Shape
    <2>7. CASE path'[<<PidOf(q), m>>] = path[<<PidOf(q), m>>]
      BY <2>2, <2>4, <2>6, <2>7
    <2>8. CASE PidOf(q) = s.at /\ m = n
      <3>1. /\ s.h \in DOMAIN file /\ PidOf(file[s.h].by) = PidOf(q) /\ file[s.h].name = n
              /\ (file[s.h].by = p \/ file[s.h].shared)
        BY <1>1, <2>8 DEF Handle
      <3>2. file[s.h].by \in ever
        BY <3>1 DEF Inv, Origin
      <3>3. file[s.h].by = q
        BY <2>3, <3>1, <3>2 DEF Linkable, PidReused
      <3>4. q # p
        BY <2>1, <2>8
      <3> QED
        BY <2>3, <2>8, <3>1, <3>3, <3>4 DEF Linkable, ForkedOpen
    <2> QED
      BY <1>5, <2>6, <2>7, <2>8
  <1> QED
    BY <1>6, <1>7, <1>8, <1>9, <1>10 DEF Inv

\* The file made under the PID of its process, and the path to it.
LEMMA OpenInv ==
  ASSUME Inv, NEW p \in Procs, NEW n \in Names, Open(p, n)
  PROVE Inv'
  <1> DEFINE L == Len(file) + 1
             d == PidOf(p)
             f == NewFile(p, n)
             t == [tab[p][n] EXCEPT !.pc = "init", !.h = L, !.at = d]
  <1>1. p \in ever /\ p \in up /\ d \in Pids /\ d \in dirs /\ path[<<d, n>>] = 0
    BY PidType DEF Open, Openable, Dir, Inv, Shape
  <1>2. f \in Files /\ f.by = p /\ f.name = n /\ f.writers = {} /\ f.shared = FALSE
        /\ f.cleaned = FALSE
    BY DEF NewFile, Files
  <1>3. /\ file' = Append(file, f) /\ path' = [path EXCEPT ![<<d, n>>] = Len(file')]
        /\ UNCHANGED <<dirs, cl>> /\ ProcFrame
    BY DEF Open, Dir
  <1> HIDE DEF f
  <1>4. /\ L \in Nat /\ L # 0 /\ L \notin DOMAIN file
        /\ file' \in Seq(Files) /\ Len(file') = L /\ DOMAIN file' = DOMAIN file \cup {L}
        /\ file'[L] = f /\ \A i \in DOMAIN file : file'[i] = file[i]
    BY <1>2, <1>3 DEF Inv, Shape
  <1>5. Set(p, n, t)
    BY <1>4 DEF Open, Dir
  <1>6. t \in Tables /\ t.h = L /\ t.at = d /\ t.pc = "init"
    <2>1. tab[p][n] \in Tables
      BY DEF Inv, Shape
    <2> HIDE DEF L, d
    <2> QED
      BY <1>1, <1>4, <2>1 DEF Tables, TablePcs
  <1> HIDE DEF t, L
  <1>7. /\ tab' \in [Procs -> [Names -> Tables]] /\ tab'[p][n] = t
        /\ \A q \in Procs, m \in Names : q # p \/ m # n => tab'[q][m] = tab[q][m]
    BY <1>5, <1>6, SetFacts DEF Inv, Shape
  <1>8. /\ path' \in [Pids \X Names -> Nat] /\ path'[<<d, n>>] = L
        /\ \A pid \in Pids, m \in Names : pid # d \/ m # n => path'[<<pid, m>>] = path[<<pid, m>>]
    <2>1. \A pid \in Pids, m \in Names : <<pid, m>> = <<d, n>> <=> pid = d /\ m = n
      OBVIOUS
    <2> QED
      BY <1>1, <1>3, <1>4, <2>1 DEF Inv, Shape
  <1> HIDE DEF d
  <1>9. Shape'
    BY <1>3, <1>4, <1>7, <1>8 DEF Inv, Shape, ProcFrame
  <1>10. PathSound'
    <2>1. \A pid \in Pids, m \in Names : path[<<pid, m>>] # L
      BY <1>4 DEF Inv, PathSound
    <2>2. ASSUME NEW pid \in Pids, NEW m \in Names, path'[<<pid, m>>] # 0
          PROVE path'[<<pid, m>>] \in DOMAIN file' /\ pid \in dirs'
                   /\ PidOf(file[path[<<pid, m>>]].by)' = pid
      <3>1. CASE pid = d /\ m = n
        BY <1>1, <1>2, <1>3, <1>4, <1>8, <3>1 DEF PidOf, ProcFrame, d
      <3>2. CASE pid # d \/ m # n
        BY <1>3, <1>4, <1>8, <2>2, <3>2 DEF Inv, PathSound, PidOf, ProcFrame
      <3> QED
        BY <3>1, <3>2
    <2>3. ASSUME NEW pid \in Pids, NEW qid \in Pids, NEW m \in Names, NEW k \in Names,
                 path'[<<pid, m>>] = path'[<<qid, k>>], path'[<<pid, m>>] # 0
          PROVE pid = qid /\ m = k
      BY <1>8, <2>1, <2>3 DEF Inv, PathSound
    <2> QED
      BY <2>2, <2>3 DEF PathSound
  <1>11. Origin' /\ SingleWriter' /\ CleanSound' /\ CleanupDeadOnly'
    BY <1>1, <1>2, <1>3, <1>4
       DEF Inv, Origin, SingleWriter, CleanSound, CleanupDeadOnly, PidReused, PidOf, ProcFrame
  <1>12. HandleSound'
    <2> SUFFICES ASSUME NEW q \in Procs, NEW m \in Names PROVE Handle(q, m, tab[q][m])'
      BY DEF HandleSound
    <2>1. Handle(q, m, tab[q][m])
      BY DEF Inv, HandleSound
    <2>2. CASE q = p /\ m = n
      BY <1>2, <1>3, <1>4, <1>6, <1>7, <2>2 DEF Handle, PidOf, ProcFrame, d
    <2>3. CASE q # p \/ m # n
      BY <1>3, <1>4, <1>7, <2>1, <2>3 DEF Handle, PidOf, ProcFrame
    <2> QED
      BY <2>2, <2>3
  <1>13. Listed'
    <2> SUFFICES ASSUME NEW q \in up, NEW m \in Names, Linkable(q, m, tab[q][m])'
                 PROVE path'[<<tab'[q][m].at, m>>] = tab'[q][m].h
      BY <1>3 DEF Listed, ProcFrame
    <2>0. q \in Procs /\ q \in ever
      BY PidType DEF Inv, Shape
    <2>1. CASE q = p /\ m = n
      BY <1>6, <1>7, <1>8, <2>1
    <2>2. CASE q # p \/ m # n
      <3>1. tab'[q][m] = tab[q][m] /\ tab[q][m].h # 0
        BY <1>7, <2>0, <2>2 DEF Linkable
      <3>2. Handle(q, m, tab[q][m])
        BY <2>0 DEF Inv, HandleSound
      <3>3. tab[q][m].h \in DOMAIN file /\ file[tab[q][m].h].by = q
        BY <1>4, <3>1, <3>2 DEF Handle, Linkable
      <3>4. Linkable(q, m, tab[q][m])
        BY <1>3, <1>4, <3>1, <3>3 DEF Linkable, ForkedOpen, PidReused, PidOf, ProcFrame
      <3>5. path[<<tab[q][m].at, m>>] = tab[q][m].h
        BY <3>4 DEF Inv, Listed
      <3>6. tab[q][m].at \in Pids
        BY <2>0, <3>1, <3>2, <3>3, PidType DEF Handle, Inv, Shape
      <3> QED
        BY <1>1, <1>8, <3>1, <3>5, <3>6
    <2> QED
      BY <2>1, <2>2
  <1> QED
    BY <1>9, <1>10, <1>11, <1>12, <1>13 DEF Inv

----------------------------------------------------------------------------
(***************************************************************************)
(* Processes.                                                              *)
(***************************************************************************)
\* A process that starts, or is forked, is new, though its PID may not be.
Birth(p) ==
    /\ PidFree(p) /\ up' = up \cup {p} /\ ever' = ever \cup {p}
    /\ UNCHANGED <<world, dirs, path, cl>>

\* What a birth leaves true of PIDs, directories and the cleanup.
LEMMA BirthFacts ==
  ASSUME Inv, NEW p, Birth(p)
  PROVE /\ p \in Procs /\ p \notin ever /\ p \in DOMAIN world.pid
        /\ \A q : PidOf(q)' = PidOf(q)
        /\ \A q : PidReused(q) => PidReused(q)'
        /\ CleanSound'
        /\ up' \subseteq ever' /\ ever' \subseteq DOMAIN world'.pid
        /\ \A d \in dirs' : \E q \in ever' : PidOf(q)' = d
  <1>1. p \in Procs /\ p \notin ever /\ p \in DOMAIN world.pid
    BY PidType DEF Birth, PidFree, Inv, Shape
  <1>2. \A q : PidOf(q)' = PidOf(q)
    BY DEF Birth, PidOf
  <1>3. \A q : PidReused(q) => PidReused(q)'
    BY <1>2 DEF Birth, PidReused
  <1>4. CleanSound'
    <2>1. cl.pc # "idle" =>
            /\ cl.pid \in Pids /\ \E q \in ever' : PidOf(q)' = cl.pid
            /\ \A b \in cl.by : b \in ever' /\ PidOf(b)' = cl.pid
      BY <1>2 DEF Birth, Inv, CleanSound
    <2>2. ASSUME cl.pc = "remove", NEW q \in up', PidOf(q)' = cl.pid
          PROVE PidReused(q)'
      <3>1. CASE q \in up
        BY <1>2, <1>3, <2>2, <3>1 DEF Inv, CleanSound
      <3>2. CASE q = p
        <4>1. PICK r \in ever : PidOf(r) = cl.pid
          BY <2>2 DEF Inv, CleanSound
        <4> QED
          BY <1>1, <1>2, <2>2, <3>2, <4>1 DEF PidReused, Birth
      <3> QED
        BY <2>2, <3>1, <3>2 DEF Birth
    <2> QED
      BY <2>1, <2>2 DEF CleanSound, Birth
  <1>5. /\ up' \subseteq ever' /\ ever' \subseteq DOMAIN world'.pid
        /\ \A d \in dirs' : \E q \in ever' : PidOf(q)' = d
    BY <1>1, <1>2 DEF Birth, Inv, Shape, Origin
  <1> QED
    BY <1>1, <1>2, <1>3, <1>4, <1>5

LEMMA StartInv ==
  ASSUME Inv, NEW p \in Procs, Start(p)
  PROVE Inv'
  <1>0. Birth(p) /\ UNCHANGED <<tab, file>>
    BY DEF Start, Birth, FilesFrame
  <1>1. /\ p \notin ever /\ CleanSound'
        /\ \A q : PidOf(q)' = PidOf(q)
        /\ \A q : PidReused(q) => PidReused(q)'
        /\ up' \subseteq ever' /\ ever' \subseteq DOMAIN world'.pid
        /\ \A d \in dirs' : \E q \in ever' : PidOf(q)' = d
    BY <1>0, BirthFacts
  <1>2. Shape'
    BY <1>0, <1>1 DEF Inv, Shape, Birth
  <1>3. PathSound' /\ HandleSound' /\ SingleWriter' /\ CleanupDeadOnly' /\ Origin'
    BY <1>0, <1>1 DEF Inv, PathSound, HandleSound, Handle, SingleWriter, CleanupDeadOnly, Origin, Birth
  <1>4. Listed'
    <2> SUFFICES ASSUME NEW q \in up', NEW m \in Names, Linkable(q, m, tab[q][m])'
                 PROVE path'[<<tab'[q][m].at, m>>] = tab'[q][m].h
      BY DEF Listed
    <2>1. q \in Procs
      BY <1>2, <1>0, PidType DEF Shape, Birth
    <2>2. tab[q][m].h # 0 /\ Handle(q, m, tab[q][m]) /\ file[tab[q][m].h].by = q
      BY <1>0, <2>1 DEF Inv, HandleSound, Linkable
    <2>3. q \in ever
      BY <2>2 DEF Handle, Inv, Origin
    <2>4. q \in up
      BY <1>0, <1>1, <2>3 DEF Birth
    <2>5. Linkable(q, m, tab[q][m])
      BY <1>0, <1>1 DEF Linkable, ForkedOpen
    <2> QED
      BY <1>0, <2>4, <2>5 DEF Inv, Listed, Birth
  <1> QED
    BY <1>1, <1>2, <1>3, <1>4 DEF Inv

\* What a child has of its parent's table.
LEMMA InheritedFacts ==
  ASSUME NEW t \in Tables
  PROVE /\ Inherited(t) \in Tables
        /\ Inherited(t).h # 0 => Inherited(t) = t /\ t.pc = "idle"
        /\ Inherited(t).pc # "unlink"
  <1>1. NoTable \in Tables /\ NoTable.h = 0 /\ NoTable.pc = "idle"
    BY DEF NoTable, Tables, TablePcs, RowTypes, Rows
  <1>2. /\ [NoTable EXCEPT !.pc = "locked", !.there = t.there] \in Tables
        /\ [NoTable EXCEPT !.pc = "locked", !.there = t.there].h = 0
        /\ [NoTable EXCEPT !.pc = "locked", !.there = t.there].pc = "locked"
    BY DEF NoTable, Tables, TablePcs, RowTypes, Rows
  <1>3. CASE t.pc = "idle"
    BY <1>3 DEF Inherited
  <1>4. CASE t.pc # "idle" /\ t.pc \in {"unlink", "rmdir"} /\ ~t.there
    BY <1>1, <1>4 DEF Inherited
  <1>5. CASE t.pc # "idle" /\ ~(t.pc \in {"unlink", "rmdir"} /\ ~t.there)
    BY <1>2, <1>5 DEF Inherited
  <1> QED
    BY <1>3, <1>4, <1>5

LEMMA ForkInv ==
  ASSUME Inv, NEW p \in Procs, NEW q \in Procs, Fork(p, q)
  PROVE Inv'
  <1> DEFINE open == {tab'[q][n].h : n \in Names}
  <1>0. Birth(q) /\ p \in up
    BY DEF Fork, Birth
  <1>1. /\ q \notin ever /\ CleanSound'
        /\ \A r : PidOf(r)' = PidOf(r)
        /\ \A r : PidReused(r) => PidReused(r)'
        /\ up' \subseteq ever' /\ ever' \subseteq DOMAIN world'.pid
        /\ \A d \in dirs' : \E r \in ever' : PidOf(r)' = d
    BY <1>0, BirthFacts
  <1>2. /\ tab' \in [Procs -> [Names -> Tables]]
        /\ \A n \in Names : tab'[q][n] = Inherited(tab[p][n])
        /\ \A r \in Procs, n \in Names : r # q => tab'[r][n] = tab[r][n]
    <2>1. \A n \in Names : tab[p][n] \in Tables /\ Inherited(tab[p][n]) \in Tables
      BY InheritedFacts DEF Inv, Shape
    <2> DEFINE child == [n \in Names |-> Inherited(tab[p][n])]
    <2>2. child \in [Names -> Tables] /\ \A n \in Names : child[n] = Inherited(tab[p][n])
      BY <2>1
    <2>3. tab' = [tab EXCEPT ![q] = child]
      BY DEF Fork
    <2> HIDE DEF child
    <2> QED
      BY <2>2, <2>3 DEF Inv, Shape
  <1>3. file' = [i \in DOMAIN file |-> [file[i] EXCEPT !.shared = @ \/ i \in open]]
    BY DEF Fork
  <1> HIDE DEF open
  <1>4. \A i \in DOMAIN file :
           LET f == [file[i] EXCEPT !.shared = @ \/ i \in open]
           IN /\ f \in Files /\ f.by = file[i].by /\ f.writers = file[i].writers
              /\ f.cleaned = file[i].cleaned /\ f.name = file[i].name
              /\ (file[i].shared \/ i \in open => f.shared)
    <2> SUFFICES ASSUME NEW i \in DOMAIN file
                 PROVE LET f == [file[i] EXCEPT !.shared = @ \/ i \in open]
                       IN /\ f \in Files /\ f.by = file[i].by /\ f.writers = file[i].writers
                          /\ f.cleaned = file[i].cleaned /\ f.name = file[i].name
              /\ (file[i].shared \/ i \in open => f.shared)
      OBVIOUS
    <2>1. file[i] \in Files
      BY DEF Inv, Shape
    <2> DEFINE b == file[i].shared \/ i \in open
    <2>2. b \in BOOLEAN /\ (file[i].shared \/ i \in open => b)
      OBVIOUS
    <2>3. [file[i] EXCEPT !.shared = @ \/ i \in open] = [file[i] EXCEPT !.shared = b]
      OBVIOUS
    <2> HIDE DEF b
    <2> QED
      BY <2>1, <2>2, <2>3 DEF Files
  <1>5. /\ file' \in Seq(Files) /\ DOMAIN file' = DOMAIN file
        /\ \A i \in DOMAIN file : /\ file'[i].by = file[i].by /\ file'[i].writers = file[i].writers
                                  /\ file'[i].cleaned = file[i].cleaned /\ file'[i].name = file[i].name
                                  /\ file[i].shared \/ i \in open => file'[i].shared
    <2>1. DOMAIN file = 1 .. Len(file) /\ Len(file) \in Nat
      BY DEF Inv, Shape
    <2>2. DOMAIN file' = DOMAIN file /\ \A i \in DOMAIN file : file'[i] \in Files
      BY <1>3, <1>4
    <2>3. file' \in [1 .. Len(file) -> Files]
      BY <1>3, <2>1, <2>2
    <2>4. file' \in Seq(Files)
      BY <2>1, <2>3
    <2> QED
      BY <1>3, <1>4, <2>2, <2>4
  <1>6. Shape'
    BY <1>0, <1>1, <1>2, <1>5 DEF Inv, Shape, Birth
  <1>7. PathSound' /\ SingleWriter' /\ CleanupDeadOnly' /\ Origin'
    BY <1>0, <1>1, <1>5 DEF Inv, PathSound, SingleWriter, CleanupDeadOnly, Origin, Birth
  <1>8. HandleSound'
    <2> SUFFICES ASSUME NEW r \in Procs, NEW m \in Names PROVE Handle(r, m, tab[r][m])'
      BY DEF HandleSound
    <2>1. CASE r = q
      <3>1. tab[p][m] \in Tables /\ Handle(p, m, tab[p][m])
        BY DEF Inv, Shape, HandleSound
      <3>2. tab'[q][m].pc # "unlink"
        BY <1>2, <3>1, InheritedFacts
      <3>3. tab'[q][m].h # 0 => tab'[q][m] = tab[p][m]
        BY <1>2, <3>1, InheritedFacts
      <3>4. tab'[q][m].h \in open
        BY DEF open
      <3> QED
        BY <1>1, <1>5, <2>1, <3>1, <3>2, <3>3, <3>4 DEF Handle
    <2>2. CASE r # q
      <3>1. Handle(r, m, tab[r][m])
        BY DEF Inv, HandleSound
      <3> QED
        BY <1>1, <1>2, <1>5, <2>2, <3>1 DEF Handle
    <2> QED
      BY <2>1, <2>2
  <1>9. Listed'
    <2> SUFFICES ASSUME NEW r \in up', NEW m \in Names, Linkable(r, m, tab[r][m])'
                 PROVE path'[<<tab'[r][m].at, m>>] = tab'[r][m].h
      BY DEF Listed
    <2>1. r \in Procs
      BY <1>0, <1>6, PidType DEF Shape, Birth
    <2>2. tab'[r][m].h # 0 /\ tab'[r][m].h \in DOMAIN file' /\ file'[tab'[r][m].h].by = r
      BY <1>8, <2>1 DEF HandleSound, Handle, Linkable
    <2>3. r \in ever
      BY <1>5, <2>2 DEF Inv, Origin
    <2>4. r \in up /\ r # q
      BY <1>0, <1>1, <2>3 DEF Birth
    <2>5. tab'[r][m] = tab[r][m]
      BY <1>2, <2>1, <2>4
    <2>6. ~ForkedOpen(r, m)
      BY <1>5 DEF Linkable, ForkedOpen
    <2>7. Linkable(r, m, tab[r][m])
      BY <1>1, <1>5, <2>2, <2>5, <2>6 DEF Linkable
    <2> QED
      BY <1>0, <2>4, <2>5, <2>7 DEF Inv, Listed, Birth
  <1> QED
    BY <1>1, <1>6, <1>7, <1>8, <1>9 DEF Inv

LEMMA ExitInv ==
  ASSUME Inv, NEW p \in Procs, Exit(p)
  PROVE Inv'
  <1>1. NoTable \in Tables /\ NoTable.h = 0 /\ NoTable.pc = "idle"
    BY DEF NoTable, Tables, TablePcs, RowTypes, Rows
  <1>2. /\ up' = up \ {p} /\ UNCHANGED <<world, ever, cl, dirs, path, file>>
        /\ tab' = [tab EXCEPT ![p] = [n \in Names |-> NoTable]]
    BY DEF Exit, FilesFrame
  <1>3. /\ tab' \in [Procs -> [Names -> Tables]]
        /\ \A n \in Names : tab'[p][n] = NoTable
        /\ \A r \in Procs, n \in Names : r # p => tab'[r][n] = tab[r][n]
    BY <1>1, <1>2 DEF Inv, Shape
  <1>4. Shape'
    BY <1>2, <1>3 DEF Inv, Shape
  <1>5. PathSound' /\ SingleWriter' /\ CleanupDeadOnly' /\ Origin' /\ CleanSound'
    BY <1>2 DEF Inv, PathSound, SingleWriter, CleanupDeadOnly, Origin, CleanSound, PidReused, PidOf
  <1>6. HandleSound'
    <2> SUFFICES ASSUME NEW r \in Procs, NEW m \in Names PROVE Handle(r, m, tab[r][m])'
      BY DEF HandleSound
    <2>1. Handle(r, m, tab[r][m])
      BY DEF Inv, HandleSound
    <2> QED
      BY <1>1, <1>2, <1>3, <2>1 DEF Handle, PidOf
  <1>7. Listed'
    <2> SUFFICES ASSUME NEW r \in up', NEW m \in Names, Linkable(r, m, tab[r][m])'
                 PROVE path'[<<tab'[r][m].at, m>>] = tab'[r][m].h
      BY DEF Listed
    <2>1. r \in Procs /\ r \in up /\ r # p
      BY <1>2, PidType DEF Inv, Shape
    <2>2. tab'[r][m] = tab[r][m]
      BY <1>3, <2>1
    <2>3. Linkable(r, m, tab[r][m])
      BY <1>2, <2>2 DEF Linkable, ForkedOpen, PidReused, PidOf
    <2> QED
      BY <1>2, <2>1, <2>2, <2>3 DEF Inv, Listed
  <1> QED
    BY <1>4, <1>5, <1>6, <1>7 DEF Inv

----------------------------------------------------------------------------
(***************************************************************************)
(* Cleanup.                                                                *)
(***************************************************************************)
\* A step of the cleanup that leaves the files and the directories.
LEMMA CleanerStep ==
  ASSUME Inv, UNCHANGED tab, FilesFrame, ProcFrame, cl' \in Cleaners, CleanSound'
  PROVE Inv'
  BY DEF Inv, Shape, PathSound, HandleSound, Handle, Origin, SingleWriter, Listed, Linkable,
         ForkedOpen, CleanupDeadOnly, PidReused, PidOf, FilesFrame, ProcFrame

LEMMA CleanReadInv ==
  ASSUME Inv, NEW pid \in Pids, CleanRead(pid)
  PROVE Inv'
  <1>1. PICK by \in SUBSET Procs :
          /\ cl' = [pc |-> "judge", pid |-> pid, by |-> by]
          /\ \A b \in by : b \in ever /\ PidOf(b) = pid
    <2>1. CASE cl' = [pc |-> "judge", pid |-> pid, by |-> {}]
      BY <2>1
    <2>2. CASE \E n \in Names : /\ path[<<pid, n>>] # 0
                                /\ cl' = [pc |-> "judge", pid |-> pid,
                                          by |-> {file[path[<<pid, n>>]].by}]
      <3>1. PICK n \in Names : /\ path[<<pid, n>>] # 0
                               /\ cl' = [pc |-> "judge", pid |-> pid,
                                         by |-> {file[path[<<pid, n>>]].by}]
        BY <2>2
      <3>2. path[<<pid, n>>] \in DOMAIN file /\ PidOf(file[path[<<pid, n>>]].by) = pid
        BY <3>1 DEF Inv, PathSound
      <3>3. file[path[<<pid, n>>]].by \in ever
        BY <3>2 DEF Inv, Origin
      <3>4. file[path[<<pid, n>>]].by \in Procs
        BY <3>3, PidType DEF Inv, Shape
      <3> QED
        BY <3>1, <3>2, <3>3, <3>4
    <2> QED
      BY <2>1, <2>2 DEF CleanRead, Linked
  <1>2. /\ UNCHANGED tab /\ FilesFrame /\ ProcFrame /\ \E q \in ever : PidOf(q) = pid
    BY DEF CleanRead, Inv, Origin
  <1>3. cl' \in Cleaners
    BY <1>1 DEF Cleaners
  <1>4. CleanSound'
    BY <1>1, <1>2 DEF CleanSound, PidReused, PidOf, ProcFrame
  <1> QED
    BY <1>2, <1>3, <1>4, CleanerStep

LEMMA CleanJudgeInv == ASSUME Inv, CleanJudge PROVE Inv'
  <1>1. cl \in Cleaners /\ cl.pc = "judge" /\ UNCHANGED tab /\ FilesFrame /\ ProcFrame
    BY DEF CleanJudge, Inv, Shape
  <1>2. CASE CreatorAlive(cl.pid, cl.by)
    <2>1. cl' = IdleCleaner
      BY <1>2 DEF CleanJudge
    <2>2. cl' \in Cleaners /\ CleanSound'
      BY <2>1 DEF IdleCleaner, Cleaners, CleanSound
    <2> QED
      BY <1>1, <2>2, CleanerStep
  <1>3. CASE ~CreatorAlive(cl.pid, cl.by)
    <2>1. cl' = [cl EXCEPT !.pc = "remove"]
      BY <1>3 DEF CleanJudge
    <2>2. cl' \in Cleaners /\ cl'.pid = cl.pid /\ cl'.by = cl.by
      BY <1>1, <2>1 DEF Cleaners
    <2>3. ASSUME NEW p \in up, PidOf(p) = cl.pid PROVE PidReused(p)
      <3>1. PICK b \in cl.by : b # p
        BY <1>3, <2>3 DEF CreatorAlive
      <3>2. b \in ever /\ PidOf(b) = cl.pid
        BY <1>1, <3>1 DEF Inv, CleanSound
      <3> QED
        BY <2>3, <3>1, <3>2 DEF PidReused
    <2>4. CleanSound'
      BY <1>1, <2>2, <2>3 DEF Inv, CleanSound, PidReused, PidOf, ProcFrame
    <2> QED
      BY <1>1, <2>2, <2>4, CleanerStep
  <1> QED
    BY <1>2, <1>3

LEMMA CleanDirInv == ASSUME Inv, CleanDir PROVE Inv'
  <1>1. /\ ProcFrame /\ FileFrame /\ UNCHANGED tab /\ cl' = IdleCleaner
        /\ dirs' = IF Linked(cl.pid) = {} THEN dirs \ {cl.pid} ELSE dirs
    BY DEF CleanDir, FileFrame
  <1>2. dirs' \subseteq dirs /\ \A d \in dirs : d \in dirs' \/ Linked(d) = {}
    BY <1>1
  <1>3. PathSound' /\ Origin' /\ SingleWriter' /\ CleanupDeadOnly'
    BY <1>1, <1>2, DirKeeps DEF Inv, Shape
  <1>4. Shape' /\ CleanSound'
    BY <1>1, <1>2 DEF Inv, Shape, CleanSound, IdleCleaner, Cleaners, ProcFrame, FileFrame
  <1>5. HandleSound' /\ Listed'
    BY <1>1 DEF Inv, HandleSound, Handle, Listed, Linkable, ForkedOpen, PidReused, PidOf,
                ProcFrame, FileFrame
  <1> QED
    BY <1>3, <1>4, <1>5 DEF Inv

LEMMA CleanFileInv == ASSUME Inv, NEW n \in Names, CleanFile(n) PROVE Inv'
  <1> DEFINE i == path[<<cl.pid, n>>]
             f == [file[i] EXCEPT !.cleaned = file[i].by \in up]
  <1>1. cl.pc = "remove" /\ cl.pid \in Pids /\ i # 0
    BY DEF CleanFile, Linked, Inv, CleanSound
  <1>2. i \in DOMAIN file /\ PidOf(file[i].by) = cl.pid /\ file[i] \in Files
    BY <1>1 DEF Inv, PathSound, Shape
  <1>3. /\ file' = [file EXCEPT ![i] = f] /\ path' = [path EXCEPT ![<<cl.pid, n>>] = 0]
        /\ UNCHANGED <<dirs, tab, cl>> /\ ProcFrame
    BY DEF CleanFile
  <1>4. /\ f \in Files /\ f.by = file[i].by /\ f.name = file[i].name /\ f.shared = file[i].shared
        /\ f.writers = file[i].writers /\ (f.cleaned <=> file[i].by \in up)
    <2> DEFINE c == file[i].by \in up
    <2>1. c \in BOOLEAN
      OBVIOUS
    <2> HIDE DEF c, i
    <2>2. /\ [file[i] EXCEPT !.cleaned = c] \in Files
          /\ [file[i] EXCEPT !.cleaned = c].by = file[i].by
          /\ [file[i] EXCEPT !.cleaned = c].name = file[i].name
          /\ [file[i] EXCEPT !.cleaned = c].shared = file[i].shared
          /\ [file[i] EXCEPT !.cleaned = c].writers = file[i].writers
          /\ [file[i] EXCEPT !.cleaned = c].cleaned = c
      BY <1>2, <2>1 DEF Files
    <2> QED
      BY <2>2 DEF c
  <1> HIDE DEF f
  <1>5. /\ path' \in [Pids \X Names -> Nat]
        /\ \A pid \in Pids, m \in Names :
             \/ path'[<<pid, m>>] = path[<<pid, m>>]
             \/ path'[<<pid, m>>] = 0 /\ pid = cl.pid /\ m = n
    BY <1>3, PathGone
  <1> HIDE DEF i
  <1>6. /\ file' \in Seq(Files) /\ DOMAIN file' = DOMAIN file /\ file'[i] = f
        /\ \A k \in DOMAIN file : k # i => file'[k] = file[k]
    BY <1>2, <1>3, <1>4 DEF Inv, Shape
  <1>7. \A k \in DOMAIN file : /\ file'[k].by = file[k].by /\ file'[k].shared = file[k].shared
                               /\ file'[k].writers = file[k].writers /\ file'[k].name = file[k].name
    BY <1>4, <1>6
  <1>8. Shape'
    BY <1>3, <1>5, <1>6 DEF Inv, Shape, ProcFrame
  <1>9. PathSound'
    <2>1. \A pid \in Pids, m \in Names : path'[<<pid, m>>] \in {path[<<pid, m>>], 0}
      BY <1>5
    <2> QED
      BY <1>3, <1>6, <1>7, <2>1 DEF Inv, PathSound, PidOf, ProcFrame
  <1>10. Origin' /\ SingleWriter' /\ CleanSound'
    BY <1>3, <1>6, <1>7 DEF Inv, Origin, SingleWriter, CleanSound, PidReused, PidOf, ProcFrame
  <1>11. CleanupDeadOnly'
    <2> SUFFICES ASSUME NEW k \in DOMAIN file, file'[k].cleaned PROVE PidReused(file[k].by)
      BY <1>3, <1>6, <1>7 DEF CleanupDeadOnly, PidReused, PidOf, ProcFrame
    <2>1. CASE k = i
      BY <1>1, <1>2, <1>4, <1>6, <2>1 DEF Inv, CleanSound
    <2>2. CASE k # i
      BY <1>6, <2>2 DEF Inv, CleanupDeadOnly
    <2> QED
      BY <2>1, <2>2
  <1>12. HandleSound'
    <2> SUFFICES ASSUME NEW q \in Procs, NEW m \in Names PROVE Handle(q, m, tab[q][m])'
      BY DEF HandleSound
    <2>1. Handle(q, m, tab[q][m])
      BY DEF Inv, HandleSound
    <2> QED
      BY <1>3, <1>6, <1>7, <2>1 DEF Handle, PidOf, ProcFrame
  <1>13. Listed'
    <2> SUFFICES ASSUME NEW q \in up, NEW m \in Names, Linkable(q, m, tab[q][m])'
                 PROVE path'[<<tab[q][m].at, m>>] = tab[q][m].h
      BY <1>3 DEF Listed, ProcFrame
    <2>0. q \in Procs /\ q \in ever
      BY PidType DEF Inv, Shape
    <2>1. Handle(q, m, tab[q][m]) /\ tab[q][m].h # 0
      BY <1>3, <2>0 DEF Inv, HandleSound, Linkable
    <2>2. file[tab[q][m].h].by = q
      BY <1>3, <1>7, <2>1 DEF Handle, Linkable
    <2>3. Linkable(q, m, tab[q][m])
      BY <1>3, <1>6, <1>7, <2>2 DEF Linkable, ForkedOpen, PidReused, PidOf, ProcFrame
    <2>4. path[<<tab[q][m].at, m>>] = tab[q][m].h /\ tab[q][m].at = PidOf(q) /\ PidOf(q) \in Pids
      BY <2>0, <2>1, <2>2, <2>3, PidType DEF Inv, Listed, Handle, Shape
    <2>5. PidOf(q) # cl.pid
      BY <1>1, <2>3 DEF Inv, CleanSound, Linkable
    <2> QED
      BY <1>5, <2>4, <2>5
  <1> QED
    BY <1>8, <1>9, <1>10, <1>11, <1>12, <1>13 DEF Inv

----------------------------------------------------------------------------
\* Every step keeps the invariant.
LEMMA NextInv == Inv /\ [Next]_vars => Inv'
  <1> SUFFICES ASSUME Inv, [Next]_vars PROVE Inv'
    OBVIOUS
  <1>1. ASSUME NEW p \in Procs, NEW n \in world.names, Table(p, n) PROVE Inv'
    <2>1. n \in Names
      BY PidType DEF Inv, Shape
    <2>2. CASE Register(p, n)
      BY <2>1, <2>2, RegisterInv
    <2>3. CASE DropTable(p, n)
      BY <2>1, <2>3, DropTableInv
    <2>4. ASSUME NEW row \in Rows, AppendRow(p, n, row) PROVE Inv'
      BY <2>1, <2>4, AppendRowInv
    <2>5. ASSUME NEW row \in Rows, Replace(p, n, row) PROVE Inv'
      BY <2>1, <2>5, ReplaceInv
    <2>6. CASE Unlink(p, n)
      BY <2>1, <2>6, UnlinkInv
    <2>7. CASE Rmdir(p, n)
      BY <2>1, <2>7, RmdirInv
    <2>8. CASE Mkdir(p, n)
      BY <2>1, <2>8, MkdirInv
    <2>9. CASE Open(p, n)
      BY <2>1, <2>9, OpenInv
    <2>10. CASE OpenFails(p, n)
      BY <2>1, <2>10, OpenFailsInv
    <2>11. CASE InitBuf(p, n)
      BY <2>1, <2>11, InitBufInv
    <2> QED
      BY <1>1, <2>2, <2>3, <2>4, <2>5, <2>6, <2>7, <2>8, <2>9, <2>10, <2>11 DEF Table
  <1>2. ASSUME NEW p \in Procs, Start(p) \/ Exit(p) PROVE Inv'
    BY <1>2, StartInv, ExitInv
  <1>3. ASSUME NEW p \in Procs, NEW q \in Procs, Fork(p, q) PROVE Inv'
    BY <1>3, ForkInv
  <1>4. CASE Clean
    BY <1>4, CleanReadInv, CleanJudgeInv, CleanFileInv, CleanDirInv DEF Clean
  <1>5. CASE UNCHANGED vars
    BY <1>5, CleanerStep
       DEF vars, Inv, Shape, CleanSound, PidReused, PidOf, FilesFrame, ProcFrame
  <1> QED
    BY <1>1, <1>2, <1>3, <1>4, <1>5 DEF Next

\* The invariant holds in every reachable state.
LEMMA Invariant == Spec => []Inv
  BY InitInv, NextInv, PTL DEF Spec

(***************************************************************************)
(* memtable.rs, shared_in and drop: whatever the threads, the forks, the   *)
(* PIDs used again and the cleanup do, a file is linked once and in a      *)
(* directory that exists, and unless a child was forked with the table     *)
(* open only its creator has written to it.                                *)
(***************************************************************************)
THEOREM FilesAreOwned == Spec => []FilesOwned
  <1> HIDE DEF FilesOwned, Inv
  <1> QED
    BY Invariant, InvImplies, PTL

(***************************************************************************)
(* memtable.rs, drop, and discover.rs, cleanup_in: the table a running     *)
(* process holds stays under its path, unless a table of that name was     *)
(* open across a fork, or another process has had the same PID.            *)
(***************************************************************************)
THEOREM LiveTablesListed == Spec => []LiveTableListed
  <1> HIDE DEF LiveTableListed, Inv
  <1> QED
    BY Invariant, InvImplies, PTL

(***************************************************************************)
(* discover.rs, cleanup_in: a file of a process that still runs is removed *)
(* only where the PID of the process is also that of another that ran.     *)
(***************************************************************************)
THEOREM CleanupSparesLiving == Spec => []CleanupDeadOnly
  <1> HIDE DEF CleanupDeadOnly, Inv
  <1> QED
    BY Invariant, InvImplies, PTL
=============================================================================
