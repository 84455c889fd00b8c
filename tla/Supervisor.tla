----------------------------- MODULE Supervisor -----------------------------
(***************************************************************************)
(* The supervisor of the server's long-running components: the remote HTTP *)
(* listener, which is replaced by way of a candidate, and the components   *)
(* that are simply restarted, here the flat report worker and the torchrun *)
(* cluster worker.                                                         *)
(*                                                                         *)
(* Every start spawns a task.  An aborted task does not stop at once: it    *)
(* goes on to its next await.  The slots are guarded by mutexes, so each    *)
(* method of the supervisor is one step; a caller of several methods takes *)
(* several steps.  A task's number stands for its generation, and a        *)
(* listener's key for the address it binds.                                *)
(***************************************************************************)
EXTENDS Naturals, FiniteSets, TLC

CONSTANTS
    Keys,         \* addresses a listener can be asked to bind
    NoKey,        \* no address
    TorchKey,     \* the address torchrun's start binds
    MaxTasks,     \* bound on the tasks ever spawned
    Plans         \* bound: how often the address option is set, whether tasks may fail
                  \* by themselves, and which of the other calls are made

ASSUME SupervisorAssumption ==
    /\ NoKey \notin Keys /\ TorchKey \in Keys
    /\ MaxTasks \in Nat
    /\ Plans \subseteq [requests : Nat, fail : BOOLEAN, calls : SUBSET {"report", "torch", "shutdown"}]

VARIABLES
    task,        \* the tasks spawned so far
    remote,      \* the slot of the remote listener
    slot,        \* the slots of the other components
    address,     \* the address option of the server extension
    config,      \* server.address in the configuration store
    published,   \* PROBING_ADDRESS
    listen,      \* LOCAL_LISTEN_ADDRS
    call,        \* where each caller is; "none" is a call that is never made
    left,        \* sets of the address option still to come
    mayFail      \* tasks may fail by themselves

vars == <<task, remote, slot, address, config, published, listen, call, left, mayFail>>

Components == {"report", "torch"}
Calls == Components \union {"shutdown"}
Tasks == DOMAIN task
NoTask == 0

\* States of a component.  The error of a failed one is left out.
State(kind, g) == [kind |-> kind, gen |-> g]
Stopped == State("Stopped", NoTask)

CompletionState(g, failed) == IF failed # "no" THEN State("Failed", g) ELSE Stopped

Alive(g) == g # NoTask /\ task[g].pc # "gone"
RunsFor(g, k) == Alive(g) /\ task[g].key = k

\* JoinHandle::abort
Abort(ts, gs) == [g \in DOMAIN ts |-> IF g \in gs THEN [ts[g] EXCEPT !.aborted = TRUE] ELSE ts[g]]

NewTask(kind, k, pc) == [kind |-> kind, key |-> k, pc |-> pc, aborted |-> FALSE, failed |-> "no"]
Spawn(ts, t) == [g \in 1 .. Cardinality(DOMAIN ts) + 1 |-> IF g \in DOMAIN ts THEN ts[g] ELSE t]
NextGen == Cardinality(Tasks) + 1
Room == Cardinality(Tasks) < MaxTasks

Init ==
    /\ task = << >>
    /\ remote = [active |-> NoTask, candidate |-> NoTask, state |-> Stopped]
    /\ slot = [c \in Components |-> [active |-> NoTask, state |-> Stopped]]
    /\ address = NoKey
    /\ config = NoKey
    /\ published = NoKey
    /\ listen = NoKey
    /\ \E plan \in Plans :
          /\ call = [c \in Calls |-> IF c \in plan.calls THEN "idle" ELSE "none"]
          /\ left = plan.requests /\ mayFail = plan.fail

addresses == <<address, config, published, listen>>

-----------------------------------------------------------------------------
\* start_remote_listener: nothing to do while a task for the same key is
\* active or starting; else the candidate gives way to a new one and the
\* active listener stays.

\* Mutant: the active listener is stopped when the candidate starts.
StartRemote_stop(k) ==
    IF RunsFor(remote.active, k) \/ RunsFor(remote.candidate, k)
    THEN UNCHANGED <<task, remote>>
    ELSE /\ Room
         /\ task' = Spawn(Abort(task, {remote.candidate, remote.active}),
                          NewTask("remote", k, "bind"))
         /\ remote' = [remote EXCEPT !.active = NoTask, !.candidate = NextGen,
                                     !.state = State("Starting", NextGen)]

StartRemote(k) ==
    IF RunsFor(remote.active, k) \/ RunsFor(remote.candidate, k)
    THEN UNCHANGED <<task, remote>>
    ELSE /\ Room
         /\ task' = Spawn(Abort(task, {remote.candidate}), NewTask("remote", k, "bind"))
         /\ remote' = [remote EXCEPT !.candidate = NextGen,
                                     !.state = State("Starting", NextGen)]

\* start_component: the active task gives way at once.
StartComponent(c, k) ==
    IF RunsFor(slot[c].active, k)
    THEN UNCHANGED <<task, slot>>
    ELSE /\ Room
         /\ task' = Spawn(Abort(task, {slot[c].active}), NewTask(c, k, "mark"))
         /\ slot' = [slot EXCEPT ![c] = [active |-> NextGen,
                                         state |-> State("Starting", NextGen)]]

StopComponent(c) ==
    /\ task' = Abort(task, {slot[c].active})
    /\ slot' = [slot EXCEPT ![c] = [active |-> NoTask, state |-> Stopped]]

TorchrunActive == slot["torch"].state.kind \in {"Starting", "Running"}

-----------------------------------------------------------------------------
\* The steps of a remote listener's task, run_supervised_remote_server.
Holds(g) == task[g].kind = "remote" /\ task[g].pc \in {"config", "promote", "publish", "listen", "serve"}
Goto(g, pc) == task' = [task EXCEPT ![g].pc = pc]
\* Where the task fails makes no difference to the code.
Fails(g, where) == task' = [task EXCEPT ![g].pc = "finish", ![g].failed = where]

Bind(g) ==
    /\ task[g].pc = "bind"
    /\ \/ /\ ~\E h \in Tasks : Holds(h) /\ task[h].key = task[g].key
          /\ Goto(g, "config")
       \/ /\ mayFail \/ \E h \in Tasks : Holds(h) /\ task[h].key = task[g].key
          /\ Fails(g, "bind")
    /\ UNCHANGED <<remote, slot, addresses, call, left, mayFail>>

WriteConfig(g) ==
    /\ task[g].pc = "config"
    /\ config' = task[g].key
    /\ Goto(g, "promote")
    /\ UNCHANGED <<remote, slot, address, published, listen, call, left, mayFail>>

\* promote_remote_listener, and the return of a candidate that is stale.
Promote(g) ==
    /\ task[g].pc = "promote"
    /\ IF remote.candidate = g
       THEN /\ task' = [Abort(task, {remote.active}) EXCEPT ![g].pc = "publish"]
            /\ remote' = [active |-> g, candidate |-> NoTask, state |-> State("Running", g)]
       ELSE Goto(g, "finish") /\ UNCHANGED remote
    /\ UNCHANGED <<slot, addresses, call, left, mayFail>>

\* publish_remote_address: two variables, one after the other.
Publish(g) ==
    /\ task[g].pc = "publish"
    /\ published' = task[g].key
    /\ Goto(g, "listen")
    /\ UNCHANGED <<remote, slot, address, config, listen, call, left, mayFail>>

PublishListen(g) ==
    /\ task[g].pc = "listen"
    /\ listen' = task[g].key
    /\ Goto(g, "serve")
    /\ UNCHANGED <<remote, slot, address, config, published, call, left, mayFail>>

ServeEnds(g) ==
    /\ task[g].pc = "serve" /\ mayFail
    /\ Fails(g, "serve")
    /\ UNCHANGED <<remote, slot, addresses, call, left, mayFail>>

\* remote_listener_finished
\* Mutant: the state is that of the finished candidate, whoever is active.
RemoteFinished_state(g) ==
    /\ task[g].kind = "remote" /\ task[g].pc = "finish"
    /\ Goto(g, "gone")
    /\ \/ /\ remote.candidate = g
          /\ remote' = [remote EXCEPT !.candidate = NoTask,
                                      !.state = CompletionState(g, task[g].failed)]
       \/ /\ remote.candidate # g /\ remote.active = g
          /\ remote' = [remote EXCEPT !.active = NoTask,
                                      !.state = CompletionState(g, task[g].failed)]
       \/ g \notin {remote.candidate, remote.active} /\ UNCHANGED remote
    /\ UNCHANGED <<slot, addresses, call, left, mayFail>>

RemoteFinished(g) ==
    /\ task[g].kind = "remote" /\ task[g].pc = "finish"
    /\ Goto(g, "gone")
    /\ \/ /\ remote.candidate = g
          /\ remote' = [remote EXCEPT !.candidate = NoTask,
                           !.state = IF remote.active # NoTask THEN State("Running", remote.active)
                                     ELSE CompletionState(g, task[g].failed)]
       \/ /\ remote.candidate # g /\ remote.active = g
          /\ remote' = [remote EXCEPT !.active = NoTask,
                                      !.state = CompletionState(g, task[g].failed)]
       \/ g \notin {remote.candidate, remote.active} /\ UNCHANGED remote
    /\ UNCHANGED <<slot, addresses, call, left, mayFail>>

-----------------------------------------------------------------------------
\* The steps of another component's task.
MarkRunning(g) ==
    LET c == task[g].kind
    IN /\ task[g].pc = "mark"
       /\ slot' = IF slot[c].active = g
                  THEN [slot EXCEPT ![c].state = State("Running", g)] ELSE slot
       /\ Goto(g, "run")
       /\ UNCHANGED <<remote, addresses, call, left, mayFail>>

\* torchrun_setup gives up; the report worker goes on for good.
RunEnds(g) ==
    /\ task[g].kind = "torch" /\ task[g].pc = "run" /\ mayFail
    /\ Fails(g, "serve")
    /\ UNCHANGED <<remote, slot, addresses, call, left, mayFail>>

\* component_finished
ComponentFinished(g) ==
    LET c == task[g].kind
    IN /\ c \in Components /\ task[g].pc = "finish"
       /\ Goto(g, "gone")
       /\ slot' = IF slot[c].active = g
                  THEN [slot EXCEPT ![c] = [active |-> NoTask,
                                            state |-> CompletionState(g, task[g].failed)]]
                  ELSE slot
       /\ UNCHANGED <<remote, addresses, call, left, mayFail>>

\* An aborted task ends where it waits.
\* Mutant: abort reaches a task only before its first poll.
Cancel_early(g) ==
    /\ task[g].aborted /\ task[g].pc \in {"bind", "mark"}
    /\ Goto(g, "gone")
    /\ UNCHANGED <<remote, slot, addresses, call, left, mayFail>>

Cancel(g) ==
    /\ task[g].aborted /\ task[g].pc \in {"bind", "config", "serve", "mark", "run"}
    /\ Goto(g, "gone")
    /\ UNCHANGED <<remote, slot, addresses, call, left, mayFail>>

TaskStep(g) ==
    \/ Bind(g) \/ WriteConfig(g) \/ Promote(g) \/ Publish(g) \/ PublishListen(g)
    \/ RemoteFinished(g) \/ MarkRunning(g) \/ ComponentFinished(g) \/ Cancel(g)

-----------------------------------------------------------------------------
\* set_address, under the lock of the extension.
SetAddress(k) ==
    /\ left > 0 /\ left' = left - 1
    /\ address' = k
    /\ StartRemote(k)
    /\ UNCHANGED <<slot, config, published, listen, call, mayFail>>

At(c, pc) == call[c] = pc
Step(c, pc) == call' = [call EXCEPT ![c] = pc]

\* start_report_worker: the check and the start are two steps.
ReportCheck ==
    /\ At("report", "idle")
    /\ Step("report", IF TorchrunActive THEN "stop" ELSE "start")
    /\ UNCHANGED <<task, remote, slot, addresses, left, mayFail>>

ReportStop ==
    /\ At("report", "stop")
    /\ StopComponent("report")
    /\ Step("report", "done")
    /\ UNCHANGED <<remote, addresses, left, mayFail>>

ReportStart ==
    /\ At("report", "start")
    /\ StartComponent("report", NoKey)
    /\ Step("report", "done")
    /\ UNCHANGED <<remote, addresses, left, mayFail>>

\* maybe_start_torchrun_cluster
TorchCheck ==
    /\ At("torch", "idle")
    /\ Step("torch", IF TorchrunActive THEN "done" ELSE "stop")
    /\ UNCHANGED <<task, remote, slot, addresses, left, mayFail>>

TorchStop ==
    /\ At("torch", "stop")
    /\ StopComponent("report")
    /\ Step("torch", "bind")
    /\ UNCHANGED <<remote, addresses, left, mayFail>>

TorchBind ==
    /\ At("torch", "bind")
    /\ StartRemote(TorchKey)
    /\ Step("torch", "start")
    /\ UNCHANGED <<slot, addresses, left, mayFail>>

TorchStart ==
    /\ At("torch", "start")
    /\ StartComponent("torch", NoKey)
    /\ Step("torch", "done")
    /\ UNCHANGED <<remote, addresses, left, mayFail>>

\* shutdown: one slot after the other.
ShutRemote ==
    /\ At("shutdown", "idle")
    /\ task' = Abort(task, {remote.active, remote.candidate})
    /\ remote' = [active |-> NoTask, candidate |-> NoTask, state |-> Stopped]
    /\ Step("shutdown", "report")
    /\ UNCHANGED <<slot, addresses, left, mayFail>>

ShutComponent(c) ==
    /\ At("shutdown", c)
    /\ StopComponent(c)
    /\ Step("shutdown", IF c = "report" THEN "torch" ELSE "done")
    /\ UNCHANGED <<remote, addresses, left, mayFail>>

CallStep ==
    \/ ReportCheck \/ ReportStop \/ ReportStart
    \/ TorchCheck \/ TorchStop \/ TorchBind \/ TorchStart
    \/ \E c \in Components : ShutComponent(c)

Next ==
    \/ \E k \in Keys : SetAddress(k)
    \/ CallStep
    \/ ShutRemote
    \/ \E g \in Tasks : TaskStep(g) \/ ServeEnds(g) \/ RunEnds(g)

Spec == Init /\ [][Next]_vars

\* The runtime polls every task that can go on, and calls return.
LiveSpec == Spec /\ WF_vars(CallStep) /\ \A g \in 1 .. MaxTasks : WF_vars(g \in Tasks /\ TaskStep(g))

-----------------------------------------------------------------------------
PCs == {"bind", "config", "promote", "publish", "listen", "serve", "mark", "run", "finish", "gone"}
States == [kind : {"Stopped", "Starting", "Running", "Failed"}, gen : Tasks \union {NoTask}]

TypeOK ==
    /\ Tasks = 1 .. Cardinality(Tasks) /\ Cardinality(Tasks) <= MaxTasks
    /\ \A g \in Tasks :
         task[g] \in [kind : Components \union {"remote"}, key : Keys \union {NoKey},
                      pc : PCs, aborted : BOOLEAN, failed : {"no", "bind", "serve"}]
    /\ remote \in [active : Tasks \union {NoTask}, candidate : Tasks \union {NoTask}, state : States]
    /\ slot \in [Components -> [active : Tasks \union {NoTask}, state : States]]
    /\ {address, config, published, listen} \subseteq Keys \union {NoKey}
    /\ left \in Nat /\ mayFail \in BOOLEAN

\* Ownership: a task that is neither aborted nor over is the one its slot
\* names, so that a stop or a shutdown reaches it.
NoOrphan ==
    \A g \in Tasks :
        task[g].aborted \/ task[g].pc \in {"finish", "gone"}
           \/ g \in {remote.active, remote.candidate}
           \/ \E c \in Components : slot[c].active = g

\* The component state tells the truth: what starts is the candidate, what
\* runs is the active task, and with no candidate an active listener is
\* reported running.
StateHonest ==
    /\ remote.state.kind = "Starting" => remote.candidate = remote.state.gen
    /\ remote.state.kind = "Running" => remote.active = remote.state.gen
    /\ remote.active # NoTask /\ remote.candidate = NoTask
          => remote.state = State("Running", remote.active)
    /\ \A c \in Components :
          IF slot[c].state.kind \in {"Starting", "Running"}
          THEN slot[c].active = slot[c].state.gen ELSE slot[c].active = NoTask

\* Slots, states and tasks agree, however late a task stops or reports its end.
SlotsSound == TypeOK /\ NoOrphan /\ StateHonest

\* start_remote_listener: while no listener breaks down that served and nobody
\* shuts down, a server that was reachable once stays so: some listener that is
\* not aborted holds a socket whenever an address has been published, though
\* candidates fail to bind or are replaced.
StaysReachable ==
    published # NoKey /\ call["shutdown"] \in {"idle", "none"}
      /\ (\A g \in Tasks : task[g].failed # "serve") => \E g \in Tasks : Holds(g) /\ ~task[g].aborted

\* Every start comes to an end, and nothing aborted lingers.
Settles ==
    <>[](/\ remote.state.kind # "Starting" /\ remote.candidate = NoTask
         /\ \A g \in Tasks : task[g].aborted => task[g].pc = "gone")
=============================================================================
