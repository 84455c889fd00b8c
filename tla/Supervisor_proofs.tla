-------------------------- MODULE Supervisor_proofs --------------------------
(***************************************************************************)
(* Proofs about the supervisor, for every set of addresses, every number   *)
(* of tasks and every plan of calls.                                       *)
(***************************************************************************)
EXTENDS Supervisor, FiniteSetTheorems, TLAPS

TaskTypes ==
    [kind : Components \union {"remote"}, key : Keys \union {NoKey},
     pc : PCs, aborted : BOOLEAN, failed : {"no", "bind", "serve"}]
StateTypes(n) == [kind : {"Stopped", "Starting", "Running", "Failed"}, gen : 0 .. n]
Remotes(n) == [active : 0 .. n, candidate : 0 .. n, state : StateTypes(n)]
Slots(n) == [Components -> [active : 0 .. n, state : StateTypes(n)]]
CallPcs == {"none", "idle", "stop", "start", "bind", "report", "torch", "done"}

\* TypeOK, with the number of tasks named.
Typed(n) ==
    /\ n \in Nat /\ n <= MaxTasks
    /\ task \in [1 .. n -> TaskTypes]
    /\ remote \in Remotes(n)
    /\ slot \in Slots(n)
TypedRest ==
    /\ {address, config, published, listen} \subseteq Keys \union {NoKey}
    /\ call \in [Calls -> CallPcs]
    /\ left \in Nat /\ mayFail \in BOOLEAN

\* The steps a task of either kind goes through; one that failed is about to end.
RemotePcs == {"bind", "config", "promote", "publish", "listen", "serve", "finish", "gone"}
WorkerPcs == {"mark", "run", "finish", "gone"}
Promoted == {"publish", "listen", "serve"}
PcFits(t) ==
    /\ IF t.kind = "remote" THEN t.pc \in RemotePcs ELSE t.pc \in WorkerPcs
    /\ t.failed # "no" => t.pc \in {"finish", "gone"}
Kinds == \A g \in Tasks : PcFits(task[g])

\* Whoever a slot names is of its kind, and neither listener is aborted.  The
\* active one is past its promotion, so that it ends only if it breaks down.
Up(t) == /\ t.kind = "remote" /\ ~t.aborted
         /\ t.pc \in Promoted \/ (t.pc = "finish" /\ t.failed = "serve")
SlotKinds ==
    /\ remote.candidate # NoTask =>
         task[remote.candidate].kind = "remote" /\ ~task[remote.candidate].aborted
    /\ remote.active # NoTask => Up(task[remote.active]) /\ remote.candidate # remote.active
    /\ \A c \in Components : slot[c].active # NoTask => task[slot[c].active].kind = c

\* While no listener breaks down and nobody shuts down, there is an active one
\* from the first promotion on.
Calm == call["shutdown"] \in {"idle", "none"} /\ \A g \in Tasks : task[g].failed # "serve"
Reached == published # NoKey \/ \E g \in Tasks : task[g].pc \in Promoted
Serving == Calm /\ Reached => remote.active # NoTask

Core == NoOrphan /\ StateHonest /\ Kinds /\ SlotKinds /\ Serving
Inv == (\E n \in Nat : Typed(n)) /\ TypedRest /\ Core

----------------------------------------------------------------------------
\* The number of tasks.
LEMMA TaskCount ==
  ASSUME NEW n \in Nat, Typed(n)
  PROVE Tasks = 1 .. n /\ Cardinality(Tasks) = n /\ NextGen = n + 1
  <1>1. Tasks = 1 .. n
    BY DEF Typed, Tasks
  <1>2. Cardinality(1 .. n) = n
    BY FS_Interval
  <1> QED
    BY <1>1, <1>2 DEF NextGen

\* The invariant says what the runs check.
LEMMA InvImplies == Inv => SlotsSound /\ StaysReachable
  <1> SUFFICES ASSUME Inv PROVE SlotsSound /\ StaysReachable
    OBVIOUS
  <1>1. PICK n \in Nat : Typed(n)
    BY DEF Inv
  <1>2. Tasks = 1 .. n /\ Cardinality(Tasks) = n
    BY <1>1, TaskCount
  <1>3. TypeOK
    <2>1. 0 .. n = (1 .. n) \union {NoTask}
      BY DEF NoTask
    <2>2. StateTypes(n) = States
      BY <1>2, <2>1 DEF StateTypes, States
    <2> QED
      BY <1>1, <1>2, <2>1, <2>2 DEF Typed, TypedRest, TypeOK, Inv, Remotes, Slots, TaskTypes
  <1>4. StaysReachable
    <2> SUFFICES ASSUME published # NoKey, Calm PROVE \E g \in Tasks : Holds(g) /\ ~task[g].aborted
      BY DEF StaysReachable, Calm
    <2>1. remote.active # NoTask
      BY DEF Inv, Core, Serving, Reached
    <2>2. remote.active \in Tasks
      BY <1>1, <1>2, <2>1 DEF Typed, Remotes, NoTask
    <2>3. Up(task[remote.active])
      BY <2>1 DEF Inv, Core, SlotKinds
    <2>4. task[remote.active].failed # "serve"
      BY <2>2 DEF Calm
    <2> QED
      BY <2>2, <2>3, <2>4 DEF Up, Holds, Promoted
  <1> QED
    BY <1>3, <1>4 DEF SlotsSound, Inv, Core

LEMMA InitInv == Init => Inv
  <1> SUFFICES ASSUME Init PROVE Inv
    OBVIOUS
  <1>1. Stopped \in StateTypes(0) /\ Stopped.kind = "Stopped"
    BY DEF Stopped, State, StateTypes, NoTask
  <1>2. Typed(0)
    <2>1. remote \in Remotes(0) /\ slot \in Slots(0)
      BY <1>1 DEF Init, Remotes, Slots, NoTask
    <2>2. task \in [1 .. 0 -> TaskTypes]
      BY DEF Init
    <2> QED
      BY <2>1, <2>2, SupervisorAssumption DEF Typed
  <1>3. TypedRest
    <2>1. PICK plan \in Plans :
             /\ call = [c \in Calls |-> IF c \in plan.calls THEN "idle" ELSE "none"]
             /\ left = plan.requests /\ mayFail = plan.fail
      BY DEF Init
    <2>2. left \in Nat /\ mayFail \in BOOLEAN
      BY <2>1, SupervisorAssumption
    <2>3. call \in [Calls -> CallPcs]
      BY <2>1 DEF CallPcs
    <2> QED
      BY <2>2, <2>3 DEF Init, TypedRest
  <1>4. Tasks = {}
    BY DEF Init, Tasks
  <1>5. Core
    BY <1>1, <1>4 DEF Init, Core, NoOrphan, StateHonest, Kinds, SlotKinds, Serving, Reached, NoTask
  <1> QED
    BY <1>2, <1>3, <1>5 DEF Inv

----------------------------------------------------------------------------
(***************************************************************************)
(* The tasks: abort, spawn, and a step of one of them.                     *)
(***************************************************************************)
LEMMA AbortFacts ==
  ASSUME NEW n \in Nat, NEW ts \in [1 .. n -> TaskTypes], NEW gs
  PROVE /\ Abort(ts, gs) \in [1 .. n -> TaskTypes]
        /\ \A g \in 1 .. n :
             /\ Abort(ts, gs)[g].kind = ts[g].kind /\ Abort(ts, gs)[g].pc = ts[g].pc
             /\ Abort(ts, gs)[g].failed = ts[g].failed
             /\ ts[g].aborted => Abort(ts, gs)[g].aborted
             /\ g \in gs => Abort(ts, gs)[g].aborted
             /\ g \notin gs => Abort(ts, gs)[g] = ts[g]
  <1>1. \A t \in TaskTypes : /\ [t EXCEPT !.aborted = TRUE] \in TaskTypes
                             /\ [t EXCEPT !.aborted = TRUE].kind = t.kind
                             /\ [t EXCEPT !.aborted = TRUE].pc = t.pc
                             /\ [t EXCEPT !.aborted = TRUE].failed = t.failed
                             /\ [t EXCEPT !.aborted = TRUE].aborted = TRUE
    BY DEF TaskTypes
  <1>2. \A g \in 1 .. n : Abort(ts, gs)[g] = IF g \in gs THEN [ts[g] EXCEPT !.aborted = TRUE] ELSE ts[g]
    BY DEF Abort
  <1>3. \A g \in 1 .. n : ts[g] \in TaskTypes
    OBVIOUS
  <1>4. \A g \in 1 .. n : Abort(ts, gs)[g] \in TaskTypes
    BY <1>1, <1>2, <1>3
  <1>5. Abort(ts, gs) \in [1 .. n -> TaskTypes]
    BY <1>4 DEF Abort
  <1> QED
    BY <1>1, <1>2, <1>3, <1>5

LEMMA SpawnFacts ==
  ASSUME NEW n \in Nat, NEW ts \in [1 .. n -> TaskTypes], NEW t \in TaskTypes
  PROVE /\ Spawn(ts, t) \in [1 .. (n + 1) -> TaskTypes]
        /\ Spawn(ts, t)[n + 1] = t
        /\ \A g \in 1 .. n : Spawn(ts, t)[g] = ts[g]
  <1>1. Cardinality(DOMAIN ts) = n /\ DOMAIN ts = 1 .. n
    BY FS_Interval
  <1>2. Spawn(ts, t) = [g \in 1 .. (n + 1) |-> IF g \in 1 .. n THEN ts[g] ELSE t]
    BY <1>1 DEF Spawn
  <1> QED
    BY <1>2

\* One task gets the record q; the slots stay.
Replaced(n, g, q) ==
    /\ g \in 1 .. n /\ q \in TaskTypes /\ task' = [task EXCEPT ![g] = q]
    /\ q.kind = task[g].kind /\ q.aborted = task[g].aborted
    /\ PcFits(q)
    /\ task[g].pc = "finish" => q.pc = "gone"
    /\ task[g].pc = "gone" => q.pc = "gone"
    /\ task[g].failed = "serve" => q.failed = "serve"
LEMMA ReplacedFacts ==
  ASSUME NEW n \in Nat, Typed(n), NEW g, NEW q, Replaced(n, g, q)
  PROVE /\ task' \in [1 .. n -> TaskTypes] /\ task'[g] = q
        /\ \A h \in 1 .. n : h # g => task'[h] = task[h]
        /\ Tasks = 1 .. n /\ Tasks' = 1 .. n
  BY DEF Replaced, Typed, Tasks

LEMMA TaskMove ==
  ASSUME NEW n \in Nat, Typed(n), Core, NEW g, NEW q, Replaced(n, g, q),
         UNCHANGED <<remote, slot>>, call'["shutdown"] = call["shutdown"],
         published' # NoKey => Reached,
         q.pc \in Promoted => task[g].pc \in Promoted,
         remote.active = g => Up(q)
  PROVE Typed(n)' /\ Core'
  <1>1. /\ task' \in [1 .. n -> TaskTypes] /\ task'[g] = q
        /\ \A h \in 1 .. n : h # g => task'[h] = task[h]
        /\ Tasks = 1 .. n /\ Tasks' = 1 .. n /\ g \in 1 .. n
    BY ReplacedFacts DEF Replaced
  <1>2. Typed(n)'
    BY <1>1 DEF Typed
  <1>3. NoOrphan'
    <2> SUFFICES ASSUME NEW h \in 1 .. n
                 PROVE \/ task'[h].aborted \/ task'[h].pc \in {"finish", "gone"}
                       \/ h \in {remote.active, remote.candidate}
                       \/ \E c \in Components : slot[c].active = h
      BY <1>1 DEF NoOrphan
    <2>1. \/ task[h].aborted \/ task[h].pc \in {"finish", "gone"}
          \/ h \in {remote.active, remote.candidate}
          \/ \E c \in Components : slot[c].active = h
      BY <1>1 DEF Core, NoOrphan
    <2>2. CASE h = g
      BY <1>1, <2>1, <2>2 DEF Replaced
    <2>3. CASE h # g
      BY <1>1, <2>1, <2>3
    <2> QED
      BY <2>2, <2>3
  <1>4. StateHonest'
    BY DEF Core, StateHonest
  <1>5. Kinds'
    <2>1. \A h \in 1 .. n : PcFits(task'[h])
      BY <1>1 DEF Core, Kinds, Replaced
    <2> QED
      BY <1>1, <2>1 DEF Kinds, PcFits
  <1>6. SlotKinds'
    <2>1. \A h \in 1 .. n : task'[h].kind = task[h].kind /\ task'[h].aborted = task[h].aborted
      BY <1>1 DEF Replaced
    <2>2. /\ remote.active \in 0 .. n /\ remote.candidate \in 0 .. n
          /\ \A c \in Components : slot[c].active \in 0 .. n
      BY DEF Typed, Remotes, Slots
    <2>3. remote.active # NoTask => Up(task'[remote.active])
      BY <1>1, <2>2 DEF Core, SlotKinds, NoTask
    <2> QED
      BY <2>1, <2>2, <2>3 DEF Core, SlotKinds, NoTask, Up
  <1>7. Serving'
    <2>1. Calm' => Calm
      BY <1>1 DEF Calm, Replaced
    <2>2. Reached' => Reached
      BY <1>1 DEF Reached
    <2> QED
      BY <2>1, <2>2 DEF Core, Serving
  <1> QED
    BY <1>2, <1>3, <1>4, <1>5, <1>6, <1>7 DEF Core

\* A task goes to its next step, or fails.
LEMMA GotoFacts ==
  ASSUME NEW n \in Nat, Typed(n), NEW g \in 1 .. n, NEW pc \in PCs, Goto(g, pc),
         task[g].kind = "remote" => pc \in RemotePcs,
         task[g].kind # "remote" => pc \in WorkerPcs,
         task[g].pc \in {"finish", "gone"} => pc = "gone", PcFits(task[g])
  PROVE \E q : /\ Replaced(n, g, q) /\ q.pc = pc /\ q.failed = task[g].failed
               /\ q.kind = task[g].kind /\ q.aborted = task[g].aborted
  <1> DEFINE q == [task[g] EXCEPT !.pc = pc]
  <1>1. task[g] \in TaskTypes
    BY DEF Typed
  <1>2. /\ q \in TaskTypes /\ q.pc = pc /\ q.failed = task[g].failed
        /\ q.kind = task[g].kind /\ q.aborted = task[g].aborted
    BY <1>1 DEF TaskTypes
  <1>3. task' = [task EXCEPT ![g] = q]
    BY DEF Goto
  <1> HIDE DEF q
  <1>4. Replaced(n, g, q)
    BY <1>2, <1>3 DEF Replaced, PcFits
  <1> QED
    BY <1>2, <1>4

LEMMA FailsFacts ==
  ASSUME NEW n \in Nat, Typed(n), NEW g \in 1 .. n, NEW where \in {"bind", "serve"},
         Fails(g, where), task[g].pc \notin {"finish", "gone"},
         task[g].failed = "serve" => where = "serve"
  PROVE \E q : /\ Replaced(n, g, q) /\ q.pc = "finish" /\ q.failed = where
               /\ q.kind = task[g].kind /\ q.aborted = task[g].aborted
  <1> DEFINE q == [task[g] EXCEPT !.pc = "finish", !.failed = where]
  <1>1. task[g] \in TaskTypes
    BY DEF Typed
  <1>2. /\ q \in TaskTypes /\ q.pc = "finish" /\ q.failed = where
        /\ q.kind = task[g].kind /\ q.aborted = task[g].aborted
    BY <1>1 DEF TaskTypes, PCs
  <1>3. task' = [task EXCEPT ![g] = q]
    BY DEF Fails
  <1> HIDE DEF q
  <1>4. Replaced(n, g, q)
    BY <1>2, <1>3 DEF Replaced, PcFits, RemotePcs, WorkerPcs
  <1> QED
    BY <1>2, <1>4

\* A task at a step of listeners is a listener; the active one is up.
LEMMA KindFacts ==
  ASSUME Core, NEW n \in Nat, Typed(n), NEW g \in 1 .. n
  PROVE /\ PcFits(task[g]) /\ task[g] \in TaskTypes
        /\ remote.active = g => Up(task[g]) /\ remote.candidate # g
  BY TaskCount DEF Core, Kinds, SlotKinds, Typed, NoTask

LEMMA BindInv ==
  ASSUME Inv, NEW g \in Tasks, Bind(g)
  PROVE Inv'
  <1>1. PICK n \in Nat : Typed(n)
    BY DEF Inv
  <1>2. g \in 1 .. n /\ task[g].pc = "bind"
    BY <1>1, TaskCount DEF Bind
  <1>3. PcFits(task[g]) /\ (remote.active = g => Up(task[g]))
    BY <1>1, <1>2, KindFacts DEF Inv
  <1>4. task[g].kind = "remote" /\ remote.active # g /\ task[g].failed = "no"
    BY <1>2, <1>3 DEF PcFits, WorkerPcs, Up, Promoted
  <1>5. \E q : Replaced(n, g, q) /\ q.pc \notin Promoted
    <2>1. CASE Goto(g, "config")
      BY <1>1, <1>2, <1>3, <1>4, <2>1, GotoFacts DEF PCs, RemotePcs, Promoted
    <2>2. CASE Fails(g, "bind")
      BY <1>1, <1>2, <1>4, <2>2, FailsFacts DEF Promoted
    <2> QED
      BY <2>1, <2>2 DEF Bind
  <1>6. UNCHANGED <<remote, slot, addresses, call, left, mayFail>>
    BY DEF Bind
  <1>7. Typed(n)' /\ Core'
    BY <1>1, <1>4, <1>5, <1>6, TaskMove DEF Inv, addresses, Reached
  <1> QED
    BY <1>6, <1>7 DEF Inv, TypedRest, addresses

\* The steps of a listener between its bind and its end.
LEMMA ListenerInv ==
  ASSUME Inv, NEW g \in Tasks, WriteConfig(g) \/ Publish(g) \/ PublishListen(g)
  PROVE Inv'
  <1>1. PICK n \in Nat : Typed(n)
    BY DEF Inv
  <1>2. g \in 1 .. n /\ task[g].pc \in {"config", "publish", "listen"}
    BY <1>1, TaskCount DEF WriteConfig, Publish, PublishListen
  <1>3. PcFits(task[g]) /\ task[g] \in TaskTypes /\ (remote.active = g => Up(task[g]))
    BY <1>1, <1>2, KindFacts DEF Inv
  <1>4. task[g].kind = "remote" /\ task[g].key \in Keys \union {NoKey}
    BY <1>2, <1>3 DEF PcFits, WorkerPcs, TaskTypes
  <1>5. /\ UNCHANGED <<remote, slot, call, left, mayFail, address>>
        /\ {config', published', listen'} \subseteq {config, published, listen, task[g].key}
        /\ published' # published => task[g].pc = "publish"
    BY DEF WriteConfig, Publish, PublishListen
  <1>6. \E q : /\ Replaced(n, g, q) /\ (q.pc \in Promoted => task[g].pc \in Promoted)
               /\ (remote.active = g => Up(q))
    <2>1. CASE WriteConfig(g)
      <3>1. task[g].pc = "config" /\ remote.active # g /\ Goto(g, "promote")
        BY <1>3, <2>1 DEF WriteConfig, Up, Promoted
      <3> QED
        BY <1>1, <1>2, <1>3, <1>4, <3>1, GotoFacts DEF PCs, RemotePcs, Promoted
    <2>2. CASE Publish(g)
      <3>1. task[g].pc = "publish" /\ Goto(g, "listen")
        BY <2>2 DEF Publish
      <3>2. PICK q : /\ Replaced(n, g, q) /\ q.pc = "listen" /\ q.kind = task[g].kind
                     /\ q.aborted = task[g].aborted
        BY <1>1, <1>2, <1>3, <1>4, <3>1, GotoFacts DEF PCs, RemotePcs
      <3> QED
        BY <1>3, <3>1, <3>2 DEF Up, Promoted
    <2>3. CASE PublishListen(g)
      <3>1. task[g].pc = "listen" /\ Goto(g, "serve")
        BY <2>3 DEF PublishListen
      <3>2. PICK q : /\ Replaced(n, g, q) /\ q.pc = "serve" /\ q.kind = task[g].kind
                     /\ q.aborted = task[g].aborted
        BY <1>1, <1>2, <1>3, <1>4, <3>1, GotoFacts DEF PCs, RemotePcs
      <3> QED
        BY <1>3, <3>1, <3>2 DEF Up, Promoted
    <2> QED
      BY <2>1, <2>2, <2>3
  <1>7. published' # NoKey => Reached
    BY <1>5 DEF Reached, Promoted
  <1>8. Typed(n)' /\ Core'
    BY <1>1, <1>5, <1>6, <1>7, TaskMove DEF Inv
  <1> QED
    BY <1>4, <1>5, <1>8 DEF Inv, TypedRest

\* A task that served fails by itself.
LEMMA EndsInv ==
  ASSUME Inv, NEW g \in Tasks, ServeEnds(g) \/ RunEnds(g)
  PROVE Inv'
  <1>1. PICK n \in Nat : Typed(n)
    BY DEF Inv
  <1>2. g \in 1 .. n /\ task[g].pc \in {"serve", "run"} /\ Fails(g, "serve")
    BY <1>1, TaskCount DEF ServeEnds, RunEnds
  <1>3. remote.active = g => Up(task[g])
    BY <1>1, <1>2, KindFacts DEF Inv
  <1>4. PICK q : /\ Replaced(n, g, q) /\ q.pc = "finish" /\ q.failed = "serve"
                 /\ q.kind = task[g].kind /\ q.aborted = task[g].aborted
    BY <1>1, <1>2, FailsFacts
  <1>5. remote.active = g => Up(q)
    BY <1>3, <1>4 DEF Up
  <1>6. UNCHANGED <<remote, slot, addresses, call, left, mayFail>>
    BY DEF ServeEnds, RunEnds
  <1>7. Typed(n)' /\ Core'
    BY <1>1, <1>4, <1>5, <1>6, TaskMove DEF Inv, addresses, Reached, Promoted
  <1> QED
    BY <1>6, <1>7 DEF Inv, TypedRest, addresses

\* The active listener is never an aborted task.
LEMMA CancelInv ==
  ASSUME Inv, NEW g \in Tasks, Cancel(g)
  PROVE Inv'
  <1>1. PICK n \in Nat : Typed(n)
    BY DEF Inv
  <1>2. g \in 1 .. n /\ task[g].aborted /\ Goto(g, "gone")
    BY <1>1, TaskCount DEF Cancel
  <1>3. remote.active # g /\ PcFits(task[g])
    BY <1>1, <1>2, KindFacts DEF Inv, Up
  <1>4. PICK q : Replaced(n, g, q) /\ q.pc = "gone"
    BY <1>1, <1>2, <1>3, GotoFacts DEF PCs, RemotePcs, WorkerPcs
  <1>5. UNCHANGED <<remote, slot, addresses, call, left, mayFail>>
    BY DEF Cancel
  <1>6. Typed(n)' /\ Core'
    BY <1>1, <1>3, <1>4, <1>5, TaskMove DEF Inv, addresses, Reached, Promoted
  <1> QED
    BY <1>5, <1>6 DEF Inv, TypedRest, addresses

----------------------------------------------------------------------------
(***************************************************************************)
(* The supervisor's methods.                                               *)
(***************************************************************************)
\* The tasks after those in gs are aborted and up to one is spawned.
Aborted(n, gs) ==
    /\ DOMAIN task' \in {1 .. n, 1 .. (n + 1)}
    /\ \A g \in 1 .. n :
         /\ task'[g].kind = task[g].kind /\ task'[g].pc = task[g].pc
         /\ task'[g].failed = task[g].failed
         /\ task[g].aborted => task'[g].aborted
         /\ g \in gs => task'[g].aborted
         /\ g \notin gs => task'[g] = task[g]

\* What an abort leaves true: the tasks fit their steps, and nobody is reached
\* or calm that was not.
LEMMA AbortedKeeps ==
  ASSUME NEW n \in Nat, Typed(n), Core, NEW gs, Aborted(n, gs),
         DOMAIN task' # 1 .. n =>
            PcFits(task[n + 1])' /\ task'[n + 1].pc \notin Promoted /\ task'[n + 1].failed = "no",
         UNCHANGED published, call'["shutdown"] \in {"idle", "none"} => UNCHANGED call["shutdown"]
  PROVE Kinds' /\ (Calm' => Calm) /\ (Reached' => Reached)
  <1>1. Tasks = 1 .. n /\ Tasks' \in {1 .. n, 1 .. (n + 1)}
    BY TaskCount DEF Aborted, Tasks
  <1>2. \A g \in Tasks' : g \in 1 .. n \/ (g = n + 1 /\ DOMAIN task' # 1 .. n)
    BY <1>1 DEF Tasks
  <1>3. \A g \in 1 .. n : PcFits(task[g])'
    BY <1>1 DEF Core, Kinds, PcFits, Aborted
  <1>4. Kinds'
    BY <1>2, <1>3 DEF Kinds
  <1>5. Calm' => Calm
    <2>1. 1 .. n \subseteq Tasks'
      BY <1>1
    <2> QED
      BY <1>1, <2>1 DEF Calm, Aborted
  <1>6. Reached' => Reached
    BY <1>1, <1>2 DEF Reached, Aborted
  <1> QED
    BY <1>4, <1>5, <1>6

LEMMA StopComponentKeeps ==
  ASSUME NEW n \in Nat, Typed(n), Core, NEW c \in Components, StopComponent(c),
         UNCHANGED <<remote, published>>,
         call'["shutdown"] \in {"idle", "none"} => UNCHANGED call["shutdown"]
  PROVE Typed(n)' /\ Core'
  <1> DEFINE gs == {slot[c].active}
             e == [active |-> NoTask, state |-> Stopped]
  <1>1. task' = Abort(task, gs) /\ slot' = [slot EXCEPT ![c] = e]
    BY DEF StopComponent
  <1>2. e \in [active : 0 .. n, state : StateTypes(n)] /\ e.active = NoTask /\ e.state.kind = "Stopped"
    BY DEF Stopped, State, StateTypes, NoTask
  <1> HIDE DEF e
  <1>3. /\ slot' \in Slots(n) /\ slot'[c] = e
        /\ \A d \in Components : d # c => slot'[d] = slot[d]
    BY <1>1, <1>2 DEF Typed, Slots
  <1>4. task' \in [1 .. n -> TaskTypes] /\ Aborted(n, gs)
    BY <1>1, AbortFacts DEF Typed, Aborted
  <1>5. Typed(n)'
    BY <1>3, <1>4 DEF Typed
  <1>6. Kinds' /\ (Calm' => Calm) /\ (Reached' => Reached)
    BY <1>4, AbortedKeeps
  <1>7. Tasks = 1 .. n /\ Tasks' = 1 .. n
    BY <1>4, TaskCount DEF Tasks
  <1>8. NoOrphan'
    BY <1>3, <1>4, <1>7 DEF Core, NoOrphan, Aborted
  <1>9. StateHonest'
    BY <1>2, <1>3 DEF Core, StateHonest
  <1>10. SlotKinds'
    <2>1. /\ remote.active \in 0 .. n /\ remote.candidate \in 0 .. n
          /\ \A d \in Components : slot[d].active \in 0 .. n
      BY DEF Typed, Remotes, Slots
    <2>2. remote.active # NoTask => remote.active \notin gs
      BY DEF Core, SlotKinds, Up, Components
    <2>3. remote.active # NoTask => task'[remote.active] = task[remote.active]
      BY <1>4, <2>1, <2>2 DEF Aborted, NoTask
    <2>4. \A d \in Components : slot'[d].active # NoTask => task'[slot'[d].active].kind = d
      BY <1>2, <1>3, <1>4, <2>1 DEF Core, SlotKinds, Aborted, NoTask
    <2>5. remote.candidate # NoTask =>
             task'[remote.candidate].kind = "remote" /\ ~task'[remote.candidate].aborted
      BY <1>4, <2>1 DEF Core, SlotKinds, Aborted, NoTask, Components
    <2> QED
      BY <2>3, <2>4, <2>5 DEF Core, SlotKinds, Up
  <1>11. Serving'
    BY <1>6 DEF Core, Serving
  <1> QED
    BY <1>5, <1>6, <1>8, <1>9, <1>10, <1>11 DEF Core

\* A spawn after an abort.
LEMMA SpawnKeeps ==
  ASSUME NEW n \in Nat, Typed(n), NEW gs, NEW t \in TaskTypes, task' = Spawn(Abort(task, gs), t)
  PROVE /\ task' \in [1 .. (n + 1) -> TaskTypes] /\ task'[n + 1] = t /\ Aborted(n, gs)
        /\ Tasks' = 1 .. (n + 1)
  <1> DEFINE ts == Abort(task, gs)
  <1>1. /\ ts \in [1 .. n -> TaskTypes]
        /\ \A g \in 1 .. n :
             /\ ts[g].kind = task[g].kind /\ ts[g].pc = task[g].pc /\ ts[g].failed = task[g].failed
             /\ task[g].aborted => ts[g].aborted
             /\ g \in gs => ts[g].aborted
             /\ g \notin gs => ts[g] = task[g]
    BY AbortFacts DEF Typed
  <1> HIDE DEF ts
  <1>2. task' = Spawn(ts, t)
    BY DEF ts
  <1>3. /\ Spawn(ts, t) \in [1 .. (n + 1) -> TaskTypes] /\ Spawn(ts, t)[n + 1] = t
        /\ \A g \in 1 .. n : Spawn(ts, t)[g] = ts[g]
    <2>1. ts \in [1 .. n -> TaskTypes]
      BY <1>1
    <2> QED
      BY <2>1, SpawnFacts
  <1>4. /\ task' \in [1 .. (n + 1) -> TaskTypes] /\ task'[n + 1] = t
        /\ \A g \in 1 .. n : task'[g] = ts[g]
    BY <1>2, <1>3
  <1> QED
    BY <1>1, <1>4 DEF Aborted, Tasks

LEMMA NewTaskFacts ==
  ASSUME NEW kind \in Components \union {"remote"}, NEW k \in Keys \union {NoKey}, NEW pc \in PCs
  PROVE LET t == NewTask(kind, k, pc)
        IN t \in TaskTypes /\ t.kind = kind /\ t.pc = pc /\ t.failed = "no" /\ ~t.aborted
  BY DEF NewTask, TaskTypes

LEMMA StartComponentKeeps ==
  ASSUME NEW n \in Nat, Typed(n), Core, NEW c \in Components, StartComponent(c, NoKey),
         UNCHANGED <<remote, published>>, UNCHANGED call["shutdown"]
  PROVE Core' /\ \E m \in Nat : Typed(m)'
  <1>1. CASE UNCHANGED <<task, slot>>
    <2>1. Typed(n)'
      BY <1>1 DEF Typed
    <2>2. Core'
      BY <1>1 DEF Core, NoOrphan, StateHonest, Kinds, SlotKinds, Serving, Calm, Reached, Tasks
    <2> QED
      BY <2>1, <2>2
  <1>2. CASE /\ Room /\ task' = Spawn(Abort(task, {slot[c].active}), NewTask(c, NoKey, "mark"))
             /\ slot' = [slot EXCEPT ![c] = [active |-> NextGen, state |-> State("Starting", NextGen)]]
    <2> DEFINE gs == {slot[c].active}
               t == NewTask(c, NoKey, "mark")
               e == [active |-> n + 1, state |-> State("Starting", n + 1)]
    <2>1. t \in TaskTypes /\ t.kind = c /\ t.pc = "mark" /\ t.failed = "no" /\ ~t.aborted
      BY NewTaskFacts DEF PCs
    <2> HIDE DEF t
    <2>0. Cardinality(Tasks) = n /\ NextGen = n + 1 /\ n + 1 <= MaxTasks
      <3>1. Cardinality(Tasks) = n /\ NextGen = n + 1
        BY TaskCount
      <3> QED
        BY <1>2, <3>1, SupervisorAssumption DEF Room
    <2>2. task' = Spawn(Abort(task, gs), t) /\ slot' = [slot EXCEPT ![c] = e]
      BY <1>2, <2>0 DEF t
    <2>3. /\ task' \in [1 .. (n + 1) -> TaskTypes] /\ task'[n + 1] = t /\ Aborted(n, gs)
          /\ Tasks' = 1 .. (n + 1) /\ Tasks = 1 .. n
      BY <2>1, <2>2, SpawnKeeps, TaskCount
    <2>4. /\ e \in [active : 0 .. (n + 1), state : StateTypes(n + 1)] /\ e.active = n + 1
          /\ e.state.kind = "Starting" /\ e.state.gen = n + 1
      BY DEF State, StateTypes
    <2> HIDE DEF e
    <2>5. remote \in Remotes(n + 1) /\ slot \in Slots(n + 1)
      <3>1. 0 .. n \subseteq 0 .. (n + 1)
        OBVIOUS
      <3>2. StateTypes(n) \subseteq StateTypes(n + 1)
        BY <3>1 DEF StateTypes
      <3> QED
        BY <3>1, <3>2 DEF Typed, Remotes, Slots
    <2>6. /\ slot' \in Slots(n + 1) /\ slot'[c] = e
          /\ \A d \in Components : d # c => slot'[d] = slot[d]
      BY <2>2, <2>4, <2>5 DEF Slots
    <2>7. Typed(n + 1)'
      BY <2>0, <2>3, <2>5, <2>6 DEF Typed
    <2>8. Kinds' /\ (Calm' => Calm) /\ (Reached' => Reached)
      <3>1. PcFits(task[n + 1])' /\ task'[n + 1].pc \notin Promoted /\ task'[n + 1].failed = "no"
        BY <2>1, <2>3 DEF PcFits, Components, WorkerPcs, Promoted
      <3> QED
        BY <2>3, <3>1, AbortedKeeps
    <2>9. NoOrphan'
      <3> SUFFICES ASSUME NEW g \in Tasks'
                   PROVE \/ task'[g].aborted \/ task'[g].pc \in {"finish", "gone"}
                         \/ g \in {remote.active, remote.candidate}
                         \/ \E d \in Components : slot'[d].active = g
        BY DEF NoOrphan
      <3>1. CASE g = n + 1
        BY <2>4, <2>6, <3>1
      <3>2. CASE g \in 1 .. n
        <4>1. \/ task[g].aborted \/ task[g].pc \in {"finish", "gone"}
              \/ g \in {remote.active, remote.candidate}
              \/ \E d \in Components : slot[d].active = g
          BY <2>3, <3>2 DEF Core, NoOrphan
        <4> QED
          BY <2>3, <2>6, <3>2, <4>1 DEF Aborted
      <3> QED
        BY <2>3, <3>1, <3>2
    <2>10. StateHonest'
      BY <2>4, <2>6 DEF Core, StateHonest
    <2>11. SlotKinds'
      <3>1. /\ remote.active \in 0 .. n /\ remote.candidate \in 0 .. n
            /\ \A d \in Components : slot[d].active \in 0 .. n
        BY DEF Typed, Remotes, Slots
      <3>2. remote.active # NoTask => remote.active \notin gs
        BY DEF Core, SlotKinds, Up, Components
      <3>3. remote.active # NoTask => task'[remote.active] = task[remote.active]
        BY <2>3, <3>1, <3>2 DEF Aborted, NoTask
      <3>4. \A d \in Components : slot'[d].active # NoTask => task'[slot'[d].active].kind = d
        BY <2>1, <2>3, <2>4, <2>6, <3>1 DEF Core, SlotKinds, Aborted, NoTask
      <3>5. remote.candidate # NoTask =>
               task'[remote.candidate].kind = "remote" /\ ~task'[remote.candidate].aborted
        BY <2>3, <3>1 DEF Core, SlotKinds, Aborted, NoTask, Components
      <3> QED
        BY <3>3, <3>4, <3>5 DEF Core, SlotKinds, Up
    <2>12. Serving'
      BY <2>8 DEF Core, Serving
    <2> QED
      BY <2>7, <2>8, <2>9, <2>10, <2>11, <2>12 DEF Core
  <1> QED
    BY <1>1, <1>2 DEF StartComponent

\* The candidate gives way, the active listener does not.
LEMMA StartRemoteKeeps ==
  ASSUME NEW n \in Nat, Typed(n), Core, NEW k \in Keys, StartRemote(k),
         UNCHANGED <<slot, published>>, UNCHANGED call["shutdown"]
  PROVE Core' /\ \E m \in Nat : Typed(m)'
  <1>1. CASE UNCHANGED <<task, remote>>
    <2>1. Typed(n)'
      BY <1>1 DEF Typed
    <2>2. Core'
      BY <1>1 DEF Core, NoOrphan, StateHonest, Kinds, SlotKinds, Serving, Calm, Reached, Tasks
    <2> QED
      BY <2>1, <2>2
  <1>2. CASE /\ Room /\ task' = Spawn(Abort(task, {remote.candidate}), NewTask("remote", k, "bind"))
             /\ remote' = [remote EXCEPT !.candidate = NextGen, !.state = State("Starting", NextGen)]
    <2> DEFINE gs == {remote.candidate}
               t == NewTask("remote", k, "bind")
               s == State("Starting", n + 1)
    <2>1. t \in TaskTypes /\ t.kind = "remote" /\ t.pc = "bind" /\ t.failed = "no" /\ ~t.aborted
      BY NewTaskFacts DEF PCs
    <2> HIDE DEF t
    <2>0. Cardinality(Tasks) = n /\ NextGen = n + 1 /\ n + 1 <= MaxTasks
      <3>1. Cardinality(Tasks) = n /\ NextGen = n + 1
        BY TaskCount
      <3> QED
        BY <1>2, <3>1, SupervisorAssumption DEF Room
    <2>2. /\ task' = Spawn(Abort(task, gs), t)
          /\ remote' = [remote EXCEPT !.candidate = n + 1, !.state = s]
      BY <1>2, <2>0 DEF t
    <2>3. /\ task' \in [1 .. (n + 1) -> TaskTypes] /\ task'[n + 1] = t /\ Aborted(n, gs)
          /\ Tasks' = 1 .. (n + 1) /\ Tasks = 1 .. n
      BY <2>1, <2>2, SpawnKeeps, TaskCount
    <2>4. s \in StateTypes(n + 1) /\ s.kind = "Starting" /\ s.gen = n + 1
      BY DEF State, StateTypes
    <2> HIDE DEF s
    <2>5. remote \in Remotes(n + 1) /\ slot \in Slots(n + 1)
      <3>1. 0 .. n \subseteq 0 .. (n + 1)
        OBVIOUS
      <3>2. StateTypes(n) \subseteq StateTypes(n + 1)
        BY <3>1 DEF StateTypes
      <3> QED
        BY <3>1, <3>2 DEF Typed, Remotes, Slots
    <2> HIDE DEF gs
    <2>6. /\ remote' \in Remotes(n + 1) /\ remote'.active = remote.active
          /\ remote'.candidate = n + 1 /\ remote'.state = s
      <3>1. remote' = [remote EXCEPT !.candidate = n + 1, !.state = s]
        BY <2>2
      <3>2. n + 1 \in 0 .. (n + 1)
        OBVIOUS
      <3>3. remote \in [active : 0 .. (n + 1), candidate : 0 .. (n + 1), state : StateTypes(n + 1)]
        BY <2>5 DEF Remotes
      <3> QED
        BY <2>4, <3>1, <3>2, <3>3 DEF Remotes
    <2>7. Typed(n + 1)'
      BY <2>0, <2>3, <2>5, <2>6 DEF Typed
    <2>8. Kinds' /\ (Calm' => Calm) /\ (Reached' => Reached)
      <3>1. PcFits(task[n + 1])' /\ task'[n + 1].pc \notin Promoted /\ task'[n + 1].failed = "no"
        BY <2>1, <2>3 DEF PcFits, RemotePcs, Promoted
      <3> QED
        BY <2>3, <3>1, AbortedKeeps
    <2>9. NoOrphan'
      <3> SUFFICES ASSUME NEW g \in Tasks'
                   PROVE \/ task'[g].aborted \/ task'[g].pc \in {"finish", "gone"}
                         \/ g \in {remote'.active, remote'.candidate}
                         \/ \E d \in Components : slot[d].active = g
        BY DEF NoOrphan
      <3>1. CASE g = n + 1
        BY <2>6, <3>1
      <3>2. CASE g \in 1 .. n
        <4>1. \/ task[g].aborted \/ task[g].pc \in {"finish", "gone"}
              \/ g \in {remote.active, remote.candidate}
              \/ \E d \in Components : slot[d].active = g
          BY <2>3, <3>2 DEF Core, NoOrphan
        <4> QED
          BY <2>3, <2>6, <3>2, <4>1 DEF Aborted, gs
      <3> QED
        BY <2>3, <3>1, <3>2
    <2>10. StateHonest'
      BY <2>4, <2>6 DEF Core, StateHonest, NoTask
    <2>11. SlotKinds'
      <3>1. /\ remote.active \in 0 .. n
            /\ \A d \in Components : slot[d].active \in 0 .. n
        BY DEF Typed, Remotes, Slots
      <3>2. remote.active # NoTask => remote.active \notin gs
        BY DEF Core, SlotKinds, gs
      <3>3. remote.active # NoTask => task'[remote.active] = task[remote.active]
        BY <2>3, <3>1, <3>2 DEF Aborted, NoTask
      <3>4. \A d \in Components : slot[d].active # NoTask => task'[slot[d].active].kind = d
        BY <2>3, <3>1 DEF Core, SlotKinds, Aborted, NoTask
      <3> QED
        BY <2>1, <2>3, <2>6, <3>1, <3>3, <3>4 DEF Core, SlotKinds, Up, NoTask
    <2>12. Serving'
      BY <2>6, <2>8 DEF Core, Serving
    <2> QED
      BY <2>7, <2>8, <2>9, <2>10, <2>11, <2>12 DEF Core
  <1> QED
    BY <1>1, <1>2 DEF StartRemote

\* The calls: every step of a caller moves only its own program counter.
LEMMA StepFacts ==
  ASSUME TypedRest, NEW c \in Calls, NEW pc \in CallPcs, Step(c, pc)
  PROVE /\ call' \in [Calls -> CallPcs] /\ call'[c] = pc
        /\ c # "shutdown" => call'["shutdown"] = call["shutdown"]
  BY DEF TypedRest, Step, Calls

LEMMA CheckInv == ASSUME Inv, ReportCheck \/ TorchCheck PROVE Inv'
  <1>1. UNCHANGED <<task, remote, slot, addresses, left, mayFail>>
    BY DEF ReportCheck, TorchCheck
  <1>2. call' \in [Calls -> CallPcs] /\ call'["shutdown"] = call["shutdown"]
    <2>1. \E c \in Components, pc \in {"stop", "start", "done"} : Step(c, pc)
      BY DEF ReportCheck, TorchCheck, Components
    <2> QED
      BY <2>1, StepFacts DEF Inv, Calls, Components, CallPcs
  <1>3. \A n \in Nat : Typed(n) => Typed(n)'
    BY <1>1 DEF Typed
  <1>4. Core'
    BY <1>1, <1>2 DEF Inv, Core, NoOrphan, StateHonest, Kinds, SlotKinds, Serving, Calm, Reached,
                      Tasks, addresses
  <1> QED
    BY <1>1, <1>2, <1>3, <1>4 DEF Inv, TypedRest, addresses

LEMMA StopInv ==
  ASSUME Inv, ReportStop \/ TorchStop \/ \E c \in Components : ShutComponent(c)
  PROVE Inv'
  <1>1. PICK n \in Nat : Typed(n)
    BY DEF Inv
  <1>2. UNCHANGED <<remote, addresses, left, mayFail>>
    BY DEF ReportStop, TorchStop, ShutComponent
  <1>3. \E c \in Components : StopComponent(c)
    BY DEF ReportStop, TorchStop, ShutComponent, Components
  <1>4. /\ call' \in [Calls -> CallPcs]
        /\ call'["shutdown"] \in {"idle", "none"} => UNCHANGED call["shutdown"]
    <2>1. CASE \E c \in Components, pc \in {"done", "bind"} : Step(c, pc)
      BY <2>1, StepFacts DEF Inv, Calls, Components, CallPcs
    <2>2. CASE \E pc \in {"torch", "done"} : Step("shutdown", pc)
      BY <2>2, StepFacts DEF Inv, Calls, Components, CallPcs
    <2> QED
      BY <2>1, <2>2 DEF ReportStop, TorchStop, ShutComponent, Components
  <1>5. Typed(n)' /\ Core'
    BY <1>1, <1>2, <1>3, <1>4, StopComponentKeeps DEF Inv, addresses
  <1> QED
    BY <1>2, <1>4, <1>5 DEF Inv, TypedRest, addresses

LEMMA StartInv == ASSUME Inv, ReportStart \/ TorchStart PROVE Inv'
  <1>1. PICK n \in Nat : Typed(n)
    BY DEF Inv
  <1>2. UNCHANGED <<remote, addresses, left, mayFail>>
    BY DEF ReportStart, TorchStart
  <1>3. \E c \in Components : StartComponent(c, NoKey) /\ Step(c, "done")
    BY DEF ReportStart, TorchStart, Components
  <1>4. call' \in [Calls -> CallPcs] /\ call'["shutdown"] = call["shutdown"]
    BY <1>3, StepFacts DEF Inv, Calls, Components, CallPcs
  <1>5. Core' /\ \E m \in Nat : Typed(m)'
    BY <1>1, <1>2, <1>3, <1>4, StartComponentKeeps DEF Inv, addresses
  <1> QED
    BY <1>2, <1>4, <1>5 DEF Inv, TypedRest, addresses

LEMMA SetAddressInv == ASSUME Inv, NEW k \in Keys, SetAddress(k) PROVE Inv'
  <1>1. PICK n \in Nat : Typed(n)
    BY DEF Inv
  <1>2. /\ UNCHANGED <<slot, config, published, listen, call, mayFail>>
        /\ StartRemote(k) /\ address' = k /\ left' \in Nat
    BY DEF SetAddress, Inv, TypedRest
  <1>3. Core' /\ \E m \in Nat : Typed(m)'
    BY <1>1, <1>2, StartRemoteKeeps DEF Inv
  <1> QED
    BY <1>2, <1>3 DEF Inv, TypedRest

LEMMA TorchBindInv == ASSUME Inv, TorchBind PROVE Inv'
  <1>1. PICK n \in Nat : Typed(n)
    BY DEF Inv
  <1>2. /\ UNCHANGED <<slot, addresses, left, mayFail>> /\ StartRemote(TorchKey)
        /\ Step("torch", "start") /\ TorchKey \in Keys
    BY SupervisorAssumption DEF TorchBind
  <1>3. call' \in [Calls -> CallPcs] /\ call'["shutdown"] = call["shutdown"]
    BY <1>2, StepFacts DEF Inv, Calls, Components, CallPcs
  <1>4. Core' /\ \E m \in Nat : Typed(m)'
    BY <1>1, <1>2, <1>3, StartRemoteKeeps DEF Inv, addresses
  <1> QED
    BY <1>2, <1>3, <1>4 DEF Inv, TypedRest, addresses

\* A shutdown aborts both listeners.
LEMMA ShutRemoteInv == ASSUME Inv, ShutRemote PROVE Inv'
  <1> DEFINE gs == {remote.active, remote.candidate}
             r == [active |-> NoTask, candidate |-> NoTask, state |-> Stopped]
  <1>1. PICK n \in Nat : Typed(n)
    BY DEF Inv
  <1>2. /\ task' = Abort(task, gs) /\ remote' = r /\ UNCHANGED <<slot, addresses, left, mayFail>>
        /\ Step("shutdown", "report")
    BY DEF ShutRemote
  <1>3. /\ r \in Remotes(n) /\ r.active = NoTask /\ r.candidate = NoTask /\ r.state.kind = "Stopped"
    BY DEF Stopped, State, StateTypes, Remotes, NoTask
  <1> HIDE DEF r
  <1>4. call' \in [Calls -> CallPcs] /\ call'["shutdown"] = "report"
    BY <1>2, StepFacts DEF Inv, Calls, Components, CallPcs
  <1>5. task' \in [1 .. n -> TaskTypes] /\ Aborted(n, gs)
    BY <1>1, <1>2, AbortFacts DEF Typed, Aborted
  <1>6. Typed(n)'
    BY <1>1, <1>2, <1>3, <1>5 DEF Typed
  <1>7. Kinds' /\ ~Calm'
    BY <1>1, <1>2, <1>4, <1>5, AbortedKeeps DEF Inv, Calm, addresses
  <1>8. Tasks = 1 .. n /\ Tasks' = 1 .. n
    BY <1>1, <1>5, TaskCount DEF Tasks
  <1>9. NoOrphan'
    BY <1>2, <1>5, <1>8 DEF Inv, Core, NoOrphan, Aborted
  <1>10. StateHonest'
    BY <1>2, <1>3 DEF Inv, Core, StateHonest
  <1>11. SlotKinds'
    <2>1. \A c \in Components : slot[c].active \in 0 .. n
      BY <1>1 DEF Typed, Slots
    <2>2. \A c \in Components : slot[c].active # NoTask => task'[slot[c].active].kind = c
      BY <1>5, <2>1 DEF Inv, Core, SlotKinds, Aborted, NoTask
    <2> QED
      BY <1>2, <1>3, <2>2 DEF SlotKinds
  <1> QED
    BY <1>2, <1>4, <1>6, <1>7, <1>9, <1>10, <1>11 DEF Inv, Core, Serving, TypedRest, addresses

----------------------------------------------------------------------------
(***************************************************************************)
(* The steps of tasks that change a slot.                                  *)
(***************************************************************************)
\* The state a component is left in is one of a component that does not run.
LEMMA CompletionFacts ==
  ASSUME NEW n \in Nat, NEW g \in 0 .. n, NEW failed
  PROVE /\ CompletionState(g, failed) \in StateTypes(n)
        /\ CompletionState(g, failed).kind \in {"Stopped", "Failed"}
  BY DEF CompletionState, Stopped, State, StateTypes, NoTask

\* A worker's task goes on, and the slot it is named in changes.
LEMMA SlotMove ==
  ASSUME NEW n \in Nat, Typed(n), Core, NEW g, NEW q, Replaced(n, g, q), q.kind \in Components,
         q.failed = task[g].failed,
         NEW c \in Components, slot[c].active = g,
         NEW e \in [active : 0 .. n, state : StateTypes(n)], slot' = [slot EXCEPT ![c] = e],
         e = [active |-> g, state |-> State("Running", g)]
           \/ (e.active = NoTask /\ e.state.kind \in {"Stopped", "Failed"} /\ q.pc = "gone"),
         UNCHANGED <<remote, published>>, UNCHANGED call["shutdown"]
  PROVE Typed(n)' /\ Core'
  <1>1. /\ task' \in [1 .. n -> TaskTypes] /\ task'[g] = q
        /\ \A h \in 1 .. n : h # g => task'[h] = task[h]
        /\ Tasks = 1 .. n /\ Tasks' = 1 .. n /\ g \in 1 .. n /\ q.kind = task[g].kind
    BY ReplacedFacts DEF Replaced
  <1>2. /\ slot' \in Slots(n) /\ slot'[c] = e
        /\ \A d \in Components : d # c => slot'[d] = slot[d]
    BY DEF Typed, Slots
  <1>3. Typed(n)'
    BY <1>1, <1>2 DEF Typed
  <1>4. e.active \in {g, NoTask} /\ (e.active = NoTask => q.pc = "gone")
    BY <1>1 DEF NoTask
  <1>5. NoOrphan'
    <2> SUFFICES ASSUME NEW h \in 1 .. n
                 PROVE \/ task'[h].aborted \/ task'[h].pc \in {"finish", "gone"}
                       \/ h \in {remote.active, remote.candidate}
                       \/ \E d \in Components : slot'[d].active = h
      BY <1>1 DEF NoOrphan
    <2>1. CASE h = g
      BY <1>1, <1>2, <1>4, <2>1
    <2>2. CASE h # g
      <3>1. \/ task[h].aborted \/ task[h].pc \in {"finish", "gone"}
            \/ h \in {remote.active, remote.candidate}
            \/ \E d \in Components : slot[d].active = h
        BY <1>1 DEF Core, NoOrphan
      <3> QED
        BY <1>1, <1>2, <2>2, <3>1
    <2> QED
      BY <2>1, <2>2
  <1>6. StateHonest'
    <2>1. \A d \in Components :
            IF slot'[d].state.kind \in {"Starting", "Running"}
            THEN slot'[d].active = slot'[d].state.gen ELSE slot'[d].active = NoTask
      <3>1. CASE e = [active |-> g, state |-> State("Running", g)]
        BY <1>2, <3>1 DEF Core, StateHonest, State
      <3>2. CASE e.active = NoTask /\ e.state.kind \in {"Stopped", "Failed"}
        BY <1>2, <3>2 DEF Core, StateHonest
      <3> QED
        BY <3>1, <3>2
    <2> QED
      BY <2>1 DEF Core, StateHonest
  <1>7. Kinds'
    <2>1. \A h \in 1 .. n : PcFits(task'[h])
      BY <1>1 DEF Core, Kinds, Replaced
    <2> QED
      BY <1>1, <2>1 DEF Kinds, PcFits
  <1>8. SlotKinds'
    <2>1. /\ remote.active \in 0 .. n /\ remote.candidate \in 0 .. n
          /\ \A d \in Components : slot[d].active \in 0 .. n
      BY DEF Typed, Remotes, Slots
    <2>2. \A h \in 1 .. n : task'[h].kind = task[h].kind /\ task'[h].aborted = task[h].aborted
      BY <1>1 DEF Replaced
    <2>3. remote.active # g
      BY <1>1 DEF Core, SlotKinds, Up, Components, NoTask
    <2>4. remote.active # NoTask => Up(task'[remote.active]) /\ remote.candidate # remote.active
      BY <1>1, <2>1, <2>3 DEF Core, SlotKinds, NoTask
    <2>5. \A d \in Components : slot'[d].active # NoTask => task'[slot'[d].active].kind = d
      BY <1>1, <1>2, <1>4, <2>1, <2>2 DEF Core, SlotKinds, NoTask
    <2>6. remote.candidate # NoTask =>
             task'[remote.candidate].kind = "remote" /\ ~task'[remote.candidate].aborted
      BY <2>1, <2>2 DEF Core, SlotKinds, NoTask
    <2> QED
      BY <2>4, <2>5, <2>6 DEF SlotKinds, Up
  <1>9. Serving'
    <2>1. q.pc \notin Promoted
      <3>1. PcFits(q)
        BY DEF Replaced
      <3> QED
        BY <3>1 DEF PcFits, Components, WorkerPcs, Promoted
    <2>2. Calm' => Calm
      BY <1>1 DEF Calm
    <2>3. Reached' => Reached
      BY <1>1, <2>1 DEF Reached
    <2> QED
      BY <2>2, <2>3 DEF Core, Serving
  <1> QED
    BY <1>3, <1>5, <1>6, <1>7, <1>8, <1>9 DEF Core

LEMMA MarkRunningInv ==
  ASSUME Inv, NEW g \in Tasks, MarkRunning(g)
  PROVE Inv'
  <1>1. PICK n \in Nat : Typed(n)
    BY DEF Inv
  <1>2. g \in 1 .. n /\ task[g].pc = "mark" /\ Goto(g, "run")
    BY <1>1, TaskCount DEF MarkRunning
  <1>3. PcFits(task[g]) /\ task[g] \in TaskTypes /\ (remote.active = g => Up(task[g]))
    BY <1>1, <1>2, KindFacts DEF Inv
  <1>4. task[g].kind \in Components /\ task[g].kind # "remote" /\ remote.active # g
    BY <1>2, <1>3 DEF PcFits, RemotePcs, TaskTypes, Components, Up
  <1>5. PICK q : Replaced(n, g, q) /\ q.pc = "run" /\ q.kind = task[g].kind /\ q.failed = task[g].failed
    BY <1>1, <1>2, <1>3, <1>4, GotoFacts DEF PCs, WorkerPcs
  <1>6. UNCHANGED <<remote, addresses, call, left, mayFail>>
    BY DEF MarkRunning
  <1>7. Typed(n)' /\ Core'
    <2> DEFINE c == task[g].kind
               e == [active |-> g, state |-> State("Running", g)]
    <2>1. CASE slot[c].active = g
      <3>1. e \in [active : 0 .. n, state : StateTypes(n)]
        BY <1>2 DEF State, StateTypes
      <3>2. slot[c] \in [active : 0 .. n, state : StateTypes(n)]
        BY <1>1, <1>4 DEF Typed, Slots
      <3>3. [slot[c] EXCEPT !.state = State("Running", g)] = e
        BY <2>1, <3>2
      <3>4. slot' = [slot EXCEPT ![c] = e]
        BY <2>1, <3>3 DEF MarkRunning
      <3> HIDE DEF c
      <3>5. c \in Components /\ q.kind \in Components /\ UNCHANGED <<remote, published>>
               /\ UNCHANGED call["shutdown"]
        BY <1>4, <1>5, <1>6 DEF c, addresses
      <3> QED
        BY <1>1, <1>5, <2>1, <3>1, <3>4, <3>5, SlotMove DEF Inv
    <2>2. CASE slot[c].active # g
      <3>1. slot' = slot
        BY <2>2 DEF MarkRunning
      <3> QED
        BY <1>1, <1>4, <1>5, <1>6, <3>1, TaskMove DEF Inv, addresses, Reached, Promoted
    <2> QED
      BY <2>1, <2>2
  <1> QED
    BY <1>6, <1>7 DEF Inv, TypedRest, addresses

LEMMA ComponentFinishedInv ==
  ASSUME Inv, NEW g \in Tasks, ComponentFinished(g)
  PROVE Inv'
  <1>1. PICK n \in Nat : Typed(n)
    BY DEF Inv
  <1>2. g \in 1 .. n /\ task[g].pc = "finish" /\ Goto(g, "gone") /\ task[g].kind \in Components
    BY <1>1, TaskCount DEF ComponentFinished
  <1>3. PcFits(task[g]) /\ (remote.active = g => Up(task[g]))
    BY <1>1, <1>2, KindFacts DEF Inv
  <1>4. task[g].kind # "remote" /\ remote.active # g
    BY <1>2, <1>3 DEF Components, Up
  <1>5. PICK q : Replaced(n, g, q) /\ q.pc = "gone" /\ q.kind = task[g].kind /\ q.failed = task[g].failed
    BY <1>1, <1>2, <1>3, <1>4, GotoFacts DEF PCs, WorkerPcs
  <1>6. UNCHANGED <<remote, addresses, call, left, mayFail>>
    BY DEF ComponentFinished
  <1>7. Typed(n)' /\ Core'
    <2> DEFINE c == task[g].kind
               e == [active |-> NoTask, state |-> CompletionState(g, task[g].failed)]
    <2>1. CASE slot[c].active = g
      <3>1. CompletionState(g, task[g].failed) \in StateTypes(n)
               /\ CompletionState(g, task[g].failed).kind \in {"Stopped", "Failed"}
        BY <1>2, CompletionFacts
      <3>2. /\ e \in [active : 0 .. n, state : StateTypes(n)]
            /\ e.active = NoTask /\ e.state.kind \in {"Stopped", "Failed"}
        BY <3>1 DEF NoTask
      <3>4. slot' = [slot EXCEPT ![c] = e]
        BY <2>1 DEF ComponentFinished
      <3> HIDE DEF c, e
      <3>5. c \in Components /\ q.kind \in Components /\ UNCHANGED <<remote, published>>
               /\ UNCHANGED call["shutdown"]
        BY <1>2, <1>5, <1>6 DEF c, addresses
      <3> QED
        BY <1>1, <1>5, <2>1, <3>2, <3>4, <3>5, SlotMove DEF Inv
    <2>2. CASE slot[c].active # g
      <3>1. slot' = slot
        BY <2>2 DEF ComponentFinished
      <3> QED
        BY <1>1, <1>4, <1>5, <1>6, <3>1, TaskMove DEF Inv, addresses, Reached, Promoted
    <2> QED
      BY <2>1, <2>2
  <1> QED
    BY <1>6, <1>7 DEF Inv, TypedRest, addresses

\* The candidate takes over: the listener it replaces is aborted.
LEMMA PromoteInv ==
  ASSUME Inv, NEW g \in Tasks, Promote(g)
  PROVE Inv'
  <1>1. PICK n \in Nat : Typed(n)
    BY DEF Inv
  <1>2. g \in 1 .. n /\ task[g].pc = "promote"
    BY <1>1, TaskCount DEF Promote
  <1>3. PcFits(task[g]) /\ (remote.active = g => Up(task[g])) /\ task[g] \in TaskTypes
    BY <1>1, <1>2, KindFacts DEF Inv
  <1>4. task[g].kind = "remote" /\ remote.active # g /\ task[g].failed = "no"
    BY <1>2, <1>3 DEF PcFits, WorkerPcs, Up, Promoted
  <1>5. UNCHANGED <<slot, addresses, call, left, mayFail>>
    BY DEF Promote
  <1>6. CASE remote.candidate # g
    <2>1. Goto(g, "finish") /\ UNCHANGED remote
      BY <1>6 DEF Promote
    <2>2. PICK q : Replaced(n, g, q) /\ q.pc = "finish"
      BY <1>1, <1>2, <1>3, <1>4, <2>1, GotoFacts DEF PCs, RemotePcs
    <2>3. Typed(n)' /\ Core'
      BY <1>1, <1>4, <1>5, <2>1, <2>2, TaskMove DEF Inv, addresses, Reached, Promoted
    <2> QED
      BY <1>5, <2>3 DEF Inv, TypedRest, addresses
  <1>7. CASE remote.candidate = g
    <2> DEFINE gs == {remote.active}
               ts == Abort(task, gs)
               q == [ts[g] EXCEPT !.pc = "publish"]
               r == [active |-> g, candidate |-> NoTask, state |-> State("Running", g)]
    <2>1. /\ ts \in [1 .. n -> TaskTypes] /\ ts[g] = task[g]
          /\ \A h \in 1 .. n :
               /\ ts[h].kind = task[h].kind /\ ts[h].pc = task[h].pc /\ ts[h].failed = task[h].failed
               /\ task[h].aborted => ts[h].aborted
               /\ h \in gs => ts[h].aborted
               /\ h \notin gs => ts[h] = task[h]
      BY <1>1, <1>2, <1>4, AbortFacts DEF Typed
    <2>2. task' = [ts EXCEPT ![g] = q] /\ remote' = r
      BY <1>7 DEF Promote
    <2>3. ~task[g].aborted
      BY <1>2, <1>7 DEF Inv, Core, SlotKinds, NoTask
    <2>4. /\ q \in TaskTypes /\ q.kind = "remote" /\ q.pc = "publish" /\ ~q.aborted
          /\ q.failed = "no"
      <3> HIDE DEF ts
      <3> QED
        BY <1>3, <1>4, <2>1, <2>3 DEF TaskTypes, PCs
    <2> HIDE DEF q, ts
    <2>5. /\ task' \in [1 .. n -> TaskTypes] /\ task'[g] = q
          /\ \A h \in 1 .. n : h # g => task'[h] = ts[h]
          /\ Tasks = 1 .. n /\ Tasks' = 1 .. n
      BY <1>1, <1>2, <2>1, <2>2, <2>4, TaskCount DEF Tasks
    <2>6. /\ r \in Remotes(n) /\ r.active = g /\ r.candidate = NoTask
          /\ r.state = State("Running", g) /\ r.state.kind = "Running" /\ r.state.gen = g
      BY <1>2 DEF State, StateTypes, Remotes, NoTask
    <2> HIDE DEF r
    <2>7. Typed(n)'
      BY <1>1, <1>5, <2>2, <2>5, <2>6 DEF Typed
    <2>8. NoOrphan'
      <3> SUFFICES ASSUME NEW h \in 1 .. n
                   PROVE \/ task'[h].aborted \/ task'[h].pc \in {"finish", "gone"}
                         \/ h \in {remote'.active, remote'.candidate}
                         \/ \E d \in Components : slot[d].active = h
        BY <1>5, <2>5 DEF NoOrphan
      <3>1. CASE h = g
        BY <2>2, <2>6, <3>1
      <3>2. CASE h # g
        <4>1. \/ task[h].aborted \/ task[h].pc \in {"finish", "gone"}
              \/ h \in {remote.active, remote.candidate}
              \/ \E d \in Components : slot[d].active = h
          BY <2>5 DEF Inv, Core, NoOrphan
        <4> QED
          BY <1>7, <2>1, <2>5, <3>2, <4>1
      <3> QED
        BY <3>1, <3>2
    <2>9. StateHonest'
      BY <1>5, <2>2, <2>6 DEF Inv, Core, StateHonest
    <2>10. Kinds'
      <3>1. \A h \in 1 .. n : PcFits(task[h])
        BY <2>5 DEF Inv, Core, Kinds
      <3>2. \A h \in 1 .. n : PcFits(task[h])'
        BY <2>1, <2>4, <2>5, <3>1 DEF PcFits, RemotePcs
      <3> QED
        BY <2>5, <3>2 DEF Kinds
    <2>11. SlotKinds'
      <3>1. Up(task'[g]) /\ g # NoTask
        BY <1>2, <2>4, <2>5 DEF Up, Promoted, NoTask
      <3>2. \A c \in Components : slot[c].active \in 0 .. n
        BY <1>1 DEF Typed, Slots
      <3>3. \A h \in 1 .. n : task'[h].kind = task[h].kind
        BY <1>4, <2>1, <2>4, <2>5
      <3>4. \A c \in Components : slot[c].active # NoTask => task'[slot[c].active].kind = c
        BY <3>2, <3>3 DEF Inv, Core, SlotKinds, NoTask
      <3> QED
        BY <1>5, <2>2, <2>6, <3>1, <3>4 DEF SlotKinds, Up
    <2>12. Serving'
      BY <1>2, <2>2, <2>6 DEF Serving, NoTask
    <2> QED
      BY <1>5, <2>7, <2>8, <2>9, <2>10, <2>11, <2>12 DEF Inv, Core, TypedRest, addresses
  <1> QED
    BY <1>6, <1>7

\* A listener that ends leaves the slot it is named in to the other one.
LEMMA RemoteFinishedInv ==
  ASSUME Inv, NEW g \in Tasks, RemoteFinished(g)
  PROVE Inv'
  <1>1. PICK n \in Nat : Typed(n)
    BY DEF Inv
  <1>2. g \in 1 .. n /\ task[g].kind = "remote" /\ task[g].pc = "finish" /\ Goto(g, "gone")
    BY <1>1, TaskCount DEF RemoteFinished
  <1>3. PcFits(task[g])
    BY <1>1, <1>2, KindFacts DEF Inv
  <1>4. PICK q : /\ Replaced(n, g, q) /\ q.pc = "gone" /\ q.failed = task[g].failed
                 /\ q.kind = task[g].kind /\ q.aborted = task[g].aborted
    BY <1>1, <1>2, <1>3, GotoFacts DEF PCs, RemotePcs
  <1>5. UNCHANGED <<slot, addresses, call, left, mayFail>>
    BY DEF RemoteFinished
  <1>6. CASE g \notin {remote.candidate, remote.active}
    <2>1. UNCHANGED remote
      BY <1>6 DEF RemoteFinished
    <2>2. Typed(n)' /\ Core'
      BY <1>1, <1>4, <1>5, <1>6, <2>1, TaskMove DEF Inv, addresses, Reached, Promoted
    <2> QED
      BY <1>5, <2>2 DEF Inv, TypedRest, addresses
  <1>7. CASE g \in {remote.candidate, remote.active}
    <2>0. /\ remote.active \in 0 .. n /\ remote.candidate \in 0 .. n /\ remote.state \in StateTypes(n)
          /\ remote \in Remotes(n)
          /\ \A c \in Components : slot[c].active \in 0 .. n
      BY <1>1 DEF Typed, Remotes, Slots
    <2>1. /\ task' \in [1 .. n -> TaskTypes] /\ task'[g] = q
          /\ \A h \in 1 .. n : h # g => task'[h] = task[h]
          /\ Tasks = 1 .. n /\ Tasks' = 1 .. n
      BY <1>1, <1>4, ReplacedFacts
    <2>2. PICK s \in StateTypes(n) :
            \/ /\ remote.candidate = g
               /\ remote' = [remote EXCEPT !.candidate = NoTask, !.state = s]
               /\ IF remote.active # NoTask THEN s = State("Running", remote.active)
                                            ELSE s.kind \in {"Stopped", "Failed"}
            \/ /\ remote.candidate # g /\ remote.active = g
               /\ remote' = [remote EXCEPT !.active = NoTask, !.state = s]
               /\ s.kind \in {"Stopped", "Failed"}
      <3> DEFINE z == CompletionState(g, task[g].failed)
      <3>1. z \in StateTypes(n) /\ z.kind \in {"Stopped", "Failed"}
        BY <1>2, CompletionFacts
      <3> HIDE DEF z
      <3>2. State("Running", remote.active) \in StateTypes(n)
        BY <2>0 DEF State, StateTypes
      <3>3. CASE /\ remote.candidate = g /\ remote.active # NoTask
        <4>1. remote' = [remote EXCEPT !.candidate = NoTask, !.state = State("Running", remote.active)]
          BY <1>7, <3>3 DEF RemoteFinished
        <4> QED
          BY <3>2, <3>3, <4>1
      <3>4. CASE /\ remote.candidate = g /\ remote.active = NoTask
        <4>1. remote' = [remote EXCEPT !.candidate = NoTask, !.state = z]
          BY <1>7, <3>4 DEF RemoteFinished, z
        <4> QED
          BY <3>1, <3>4, <4>1
      <3>5. CASE remote.candidate # g /\ remote.active = g
        <4>1. remote' = [remote EXCEPT !.active = NoTask, !.state = z]
          BY <1>7, <3>5 DEF RemoteFinished, z
        <4> QED
          BY <3>1, <3>5, <4>1
      <3> QED
        BY <1>7, <3>3, <3>4, <3>5
    <2>3. /\ remote' \in Remotes(n) /\ remote'.state = s
          /\ \/ /\ remote.candidate = g /\ remote'.candidate = NoTask /\ remote'.active = remote.active
                /\ IF remote.active # NoTask THEN s = State("Running", remote.active)
                                             ELSE s.kind \in {"Stopped", "Failed"}
             \/ /\ remote.active = g /\ remote'.active = NoTask
                /\ remote'.candidate = remote.candidate /\ s.kind \in {"Stopped", "Failed"}
      <3>1. NoTask \in 0 .. n
        BY DEF NoTask
      <3>2. remote \in [active : 0 .. n, candidate : 0 .. n, state : StateTypes(n)]
        BY <2>0 DEF Remotes
      <3> QED
        BY <2>2, <3>1, <3>2 DEF Remotes
    <2>4. Typed(n)'
      BY <1>1, <1>5, <2>1, <2>3 DEF Typed
    <2>5. NoOrphan'
      <3> SUFFICES ASSUME NEW h \in 1 .. n
                   PROVE \/ task'[h].aborted \/ task'[h].pc \in {"finish", "gone"}
                         \/ h \in {remote'.active, remote'.candidate}
                         \/ \E d \in Components : slot[d].active = h
        BY <1>5, <2>1 DEF NoOrphan
      <3>1. CASE h = g
        BY <1>4, <2>1, <3>1
      <3>2. CASE h # g
        <4>1. \/ task[h].aborted \/ task[h].pc \in {"finish", "gone"}
              \/ h \in {remote.active, remote.candidate}
              \/ \E d \in Components : slot[d].active = h
          BY <2>1 DEF Inv, Core, NoOrphan
        <4> QED
          BY <2>1, <2>3, <3>2, <4>1
      <3> QED
        BY <3>1, <3>2
    <2>6. StateHonest'
      BY <1>5, <2>3 DEF Inv, Core, StateHonest, State
    <2>7. Kinds'
      <3>1. \A h \in 1 .. n : PcFits(task'[h])
        BY <1>4, <2>1 DEF Inv, Core, Kinds, Replaced
      <3> QED
        BY <2>1, <3>1 DEF Kinds, PcFits
    <2>8. SlotKinds'
      <3>1. \A h \in 1 .. n : task'[h].kind = task[h].kind /\ task'[h].aborted = task[h].aborted
        BY <1>4, <2>1
      <3>2. \A c \in Components : slot[c].active # NoTask => task'[slot[c].active].kind = c
        BY <2>0, <3>1 DEF Inv, Core, SlotKinds, NoTask
      <3>3. remote.active # NoTask /\ remote.active # g => Up(task'[remote.active])
        BY <2>0, <2>1 DEF Inv, Core, SlotKinds, NoTask
      <3>4. remote.candidate # NoTask =>
              task'[remote.candidate].kind = "remote" /\ ~task'[remote.candidate].aborted
        BY <2>0, <3>1 DEF Inv, Core, SlotKinds, NoTask
      <3>5. remote.active # NoTask => remote.candidate # remote.active
        BY DEF Inv, Core, SlotKinds
      <3>6. remote'.active # NoTask => /\ remote'.active = remote.active /\ remote.active # g
                                       /\ remote'.candidate = NoTask
        BY <2>3, <3>5
      <3> QED
        BY <1>5, <2>3, <3>2, <3>3, <3>4, <3>6 DEF SlotKinds, Up
    <2>9. Serving'
      <3>1. Calm' => Calm /\ task[g].failed # "serve"
        BY <1>2, <1>4, <1>5, <2>1 DEF Calm
      <3>2. Reached' => Reached
        BY <1>2, <1>4, <1>5, <2>1 DEF Reached, addresses, Promoted
      <3>3. remote.active = g => task[g].failed = "serve"
        BY <1>2 DEF Inv, Core, SlotKinds, Up, Promoted, NoTask
      <3> QED
        BY <2>3, <3>1, <3>2, <3>3 DEF Inv, Core, Serving
    <2> QED
      BY <1>5, <2>4, <2>5, <2>6, <2>7, <2>8, <2>9 DEF Inv, Core, TypedRest, addresses
  <1> QED
    BY <1>6, <1>7

----------------------------------------------------------------------------
\* Every step keeps the invariant.
LEMMA NextInv == Inv /\ [Next]_vars => Inv'
  <1> SUFFICES ASSUME Inv, [Next]_vars PROVE Inv'
    OBVIOUS
  <1>1. ASSUME NEW g \in Tasks, TaskStep(g) \/ ServeEnds(g) \/ RunEnds(g) PROVE Inv'
    BY <1>1, BindInv, ListenerInv, PromoteInv, RemoteFinishedInv, MarkRunningInv,
       ComponentFinishedInv, CancelInv, EndsInv DEF TaskStep
  <1>2. CASE CallStep
    BY <1>2, CheckInv, StopInv, StartInv, TorchBindInv DEF CallStep
  <1>3. CASE \E k \in Keys : SetAddress(k)
    BY <1>3, SetAddressInv
  <1>4. CASE ShutRemote
    BY <1>4, ShutRemoteInv
  <1>5. CASE UNCHANGED vars
    BY <1>5 DEF vars, Inv, Typed, TypedRest, Core, NoOrphan, StateHonest, Kinds, SlotKinds, Serving,
                Calm, Reached, Tasks
  <1> QED
    BY <1>1, <1>2, <1>3, <1>4, <1>5 DEF Next

\* The invariant holds in every reachable state.
LEMMA Invariant == Spec => []Inv
  BY InitInv, NextInv, PTL DEF Spec

(***************************************************************************)
(* server/supervisor.rs: however late a task stops or reports its end, a   *)
(* task that is neither aborted nor over is named by its slot, and the     *)
(* state a component reports is that of the task its slot names.           *)
(***************************************************************************)
THEOREM SlotsAndTasksAgree == Spec => []SlotsSound
  <1> HIDE DEF SlotsSound, Inv
  <1> QED
    BY Invariant, InvImplies, PTL

(***************************************************************************)
(* start_remote_listener: while nobody shuts down and no listener breaks   *)
(* down that served, a server that was once reachable has a listener that  *)
(* holds its socket and is not aborted, whatever becomes of candidates.    *)
(***************************************************************************)
THEOREM ServerStaysReachable == Spec => []StaysReachable
  <1> HIDE DEF StaysReachable, Inv
  <1> QED
    BY Invariant, InvImplies, PTL
=============================================================================
