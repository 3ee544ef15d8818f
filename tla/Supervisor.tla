----------------------------- MODULE Supervisor -----------------------------
(***************************************************************************)
(* The life of the daemon process (supervisor.rs, run_supervisor; main.rs, *)
(* serve): from config.json to a running set of tasks, and out again by    *)
(* ctrl-c, by the exit of a critical task, by a failing start or by a      *)
(* kill; then the process manager starts it again.  Beside it, setups      *)
(* change config.json, from outside or through the daemon's socket, and    *)
(* tasks report failures to the operator's hooks.                          *)
(*                                                                         *)
(* What the tasks do is the subject of WakeDelivery, ServerManager,        *)
(* GatewayClient and SendRouter.  Here a task is up or has ended; it ends  *)
(* of itself (any error or panic), or because it has read the shutdown     *)
(* broadcast, and nothing makes it read it.                                *)
(***************************************************************************)
EXTENDS Config, HardFailure, Outbound

CONSTANTS Fragile,      \* the tasks that may end of themselves
          Noisy         \* the tasks that report failures of their own

Gateway == <<"gateway">>
WakeQueue == <<"wake_queue">>
Ipc == <<"ipc">>
Manager(c) == <<"subspace", c>>

Core == {Gateway, WakeQueue, Ipc}
Managers == {Manager(c) : c \in Servers}
Tasks == Core \cup Managers
Sup == <<"supervisor">>

\* critical_task_exit for each task, a manager being named by its server key,
\* db_sink_ready_failed, and what a task reports.
TaskExit(t) ==
    <<"critical_task_exit", IF t \in Core THEN t ELSE <<"subspace", ServerKey(t[2])>>>>
StoreNotReady == <<"db_sink_ready_failed">>
Noise(t) == <<"runtime", t>>

ASSUME SupervisorAssumption ==
    /\ Fragile \subseteq Tasks /\ Noisy \subseteq Tasks
    /\ Firers = Noisy \cup {Sup} /\ Sup \notin Noisy
    /\ {TaskExit(t) : t \in Tasks} \cup {Noise(t) : t \in Tasks} \cup {StoreNotReady}
          \subseteq Events

VARIABLES
    pc,         \* where serve and run_supervisor are
    conf,       \* the Config that was loaded; config.json may have changed since
    next,       \* the server of the configuration whose manager comes next
    task,       \* "none" | "up" | "ended"
    unread,     \* the tasks that hold an unread shutdown message
    managers,   \* server_tasks, in the order they were pushed
    waiting,    \* the tasks that ctrl-c still waits for
    socket,     \* does daemon.sock exist?
    listening,  \* has the ipc task bound it?
    joining,    \* the server a live setup has saved and is not done with, or NoUrl
    stage,      \* what that setup does next: "spawn", "insert" or "push"
    handles,    \* the managers in server_handles
    orphans,    \* managers that a setup left running without a handle
    strays,     \* managers that a setup left with a handle and outside server_tasks
    report      \* what the supervisor has reported, or NoEvent

joinVars == <<joining, stage, handles, orphans, strays>>
lifeVars == <<pc, conf, next, task, unread, managers, waiting, listening, joinVars, report>>
vars == <<configVars, hookVars, lifeVars, socket>>

Pcs == {"off", "store", "gateway", "spawn", "select", "waitCore", "waitServers", "report"}

LifeTypeOK ==
    /\ pc \in Pcs
    /\ conf \in Files
    /\ next \in Nat \ {0}
    /\ task \in [Tasks -> {"none", "up", "ended"}]
    /\ unread \subseteq Tasks
    /\ managers \in Seq(Managers)
    /\ waiting \in Seq(Tasks)
    /\ socket \in BOOLEAN /\ listening \in BOOLEAN
    /\ joining \in Servers \cup {NoUrl} /\ stage \in {"spawn", "insert", "push"}
    /\ handles \subseteq Managers /\ orphans \subseteq Managers /\ strays \subseteq Managers
    /\ report \in Events \cup {NoEvent}

TypeOK == ConfigTypeOK /\ HookTypeOK /\ LifeTypeOK

Init ==
    /\ ConfigInit
    /\ pc = "off" /\ next = 1 /\ report = NoEvent
    /\ task = [t \in Tasks |-> "none"]
    /\ unread = {} /\ managers = <<>> /\ waiting = <<>>
    /\ listening = FALSE /\ joining = NoUrl /\ stage = "spawn"
    /\ handles = {} /\ orphans = {} /\ strays = {}
    /\ HooksInit
    /\ conf = stored
    /\ socket = FALSE

-----------------------------------------------------------------------------
(* Starting. *)

Hooks(f) ==
    [i \in DOMAIN f.hooks |->
        [key |-> HookKey(f, i), throttled |-> f.hooks[i].throttled,
         enabled |-> f.hooks[i].enabled]]

\* Config::load and the state lock.  A file that is not accepted, or a lock that a
\* setup holds, ends the process before it has done anything.
Serve ==
    /\ pc = "off" /\ stored.present /\ Accepted(stored)
    /\ pc' = "store" /\ conf' = stored
    /\ HooksNew(Hooks(stored))
    /\ UNCHANGED <<configVars, next, task, unread, managers, waiting, socket, listening,
                   joinVars, report>>

\* The supervisor reports e; run_supervisor returns after the hooks have run.
Report(e) ==
    /\ FireBegins(Sup, e)
    /\ report' = e

\* ensure_ready of the delivery store, if there is a db sink.
StoreReady ==
    /\ pc = "store"
    /\ pc' = "gateway"
    /\ UNCHANGED <<configVars, hookVars, conf, next, task, unread, managers, waiting,
                   socket, listening, joinVars, report>>

StoreFails ==
    /\ pc = "store" /\ HasDbSink(conf)
    /\ pc' = "report" /\ Report(StoreNotReady)
    /\ UNCHANGED <<configVars, conf, next, task, unread, managers, waiting, socket,
                   listening, joinVars>>

StartGateway ==
    /\ pc = "gateway"
    /\ task' = [task EXCEPT ![Gateway] = "up"]
    /\ pc' = "spawn"
    /\ UNCHANGED <<configVars, hookVars, conf, next, unread, managers, waiting, socket,
                   listening, joinVars, report>>

\* The next server of the configuration: spawn_server_manager, if it is enabled.
SpawnManager ==
    LET entry == conf.servers[next]
        t == Manager(Canonicalize(entry.url))
    IN  /\ pc = "spawn" /\ next <= Len(conf.servers)
        /\ IF entry.enabled
           THEN /\ task' = [task EXCEPT ![t] = "up"]
                /\ handles' = handles \cup {t}
                /\ managers' = Append(managers, t)
           ELSE UNCHANGED <<task, handles, managers>>
        /\ next' = next + 1
        /\ UNCHANGED <<configVars, hookVars, pc, conf, unread, waiting, socket, listening,
                       joining, stage, orphans, strays, report>>

StartTasks ==
    /\ pc = "spawn" /\ next > Len(conf.servers)
    /\ task' = [task EXCEPT ![WakeQueue] = "up", ![Ipc] = "up"]
    /\ pc' = "select"
    /\ UNCHANGED <<configVars, hookVars, conf, next, unread, managers, waiting, socket,
                   listening, joinVars, report>>

-----------------------------------------------------------------------------
(* The tasks. *)

Up == {t \in Tasks : task[t] = "up"}
MayEnd(t) == task[t] = "up" /\ (t \in Noisy => Idle(t))

TaskEnds(t) ==
    /\ t \in Fragile /\ MayEnd(t)
    /\ task' = [task EXCEPT ![t] = "ended"]
    /\ UNCHANGED <<configVars, hookVars, pc, conf, next, unread, managers, waiting, socket,
                   listening, joinVars, report>>

\* The task reads the shutdown message and returns.
TaskStops(t) ==
    /\ t \in unread /\ MayEnd(t)
    /\ task' = [task EXCEPT ![t] = "ended"]
    /\ unread' = unread \ {t}
    /\ UNCHANGED <<configVars, hookVars, pc, conf, next, managers, waiting, socket,
                   listening, joinVars, report>>

\* The gateway's connect_once reads the message and makes a reconnect of it.
GatewayMisreads ==
    /\ Gateway \in unread /\ MayEnd(Gateway)
    /\ unread' = unread \ {Gateway}
    /\ UNCHANGED <<configVars, hookVars, pc, conf, next, task, managers, waiting, socket,
                   listening, joinVars, report>>

\* run_ipc_server removes what is at the socket's path and binds it.
IpcBinds ==
    /\ task[Ipc] = "up" /\ ~listening
    /\ socket' = TRUE /\ listening' = TRUE
    /\ UNCHANGED <<configVars, hookVars, pc, conf, next, task, unread, managers, waiting,
                   joinVars, report>>

TaskReports(t) ==
    /\ t \in Noisy /\ (task[t] = "up" \/ t \in orphans) /\ Idle(t)
    /\ FireBegins(t, Noise(t))
    /\ UNCHANGED <<configVars, lifeVars, socket>>

HookStep ==
    /\ \/ \E f \in Firers : FireStep(f) \/ HookWrites(f) \/ ChildExits(f)
       \/ \E t \in Noisy : FireReturns(t)
       \/ \E p \in lastSent : WindowPasses(p)
    /\ UNCHANGED <<configVars, lifeVars, socket>>

-----------------------------------------------------------------------------
(* Setups. *)

\* `setup` on its own, while no daemon holds the state lock.
SetupAlone(raw) ==
    /\ pc = "off"
    /\ SetupSaves(raw)
    /\ UNCHANGED <<hookVars, lifeVars, socket>>

\* `setup` through the socket, up to the save; ensure_server_manager then looks for a
\* handle.  Its connection is a task of its own, which outlives the ipc task, and it
\* holds the mutation lock until it is done.
SetupLive(raw) ==
    /\ listening /\ task[Ipc] = "up" /\ joining = NoUrl
    /\ SetupSaves(raw)
    /\ joining' = IF Manager(Canonicalize(raw)) \in handles THEN NoUrl ELSE Canonicalize(raw)
    /\ UNCHANGED <<hookVars, pc, conf, next, task, unread, managers, waiting, socket,
                   listening, stage, handles, orphans, strays, report>>

\* start_server_manager.  The new manager subscribes to the broadcast now: it does not
\* hear of a shutdown that is under way.
SetupSpawns ==
    /\ joining # NoUrl /\ stage = "spawn"
    /\ task' = [task EXCEPT ![Manager(joining)] = "up"]
    /\ stage' = "insert"
    /\ UNCHANGED <<configVars, hookVars, pc, conf, next, unread, managers, waiting, socket,
                   listening, joining, handles, orphans, strays, report>>

SetupInserts ==
    /\ joining # NoUrl /\ stage = "insert"
    /\ handles' = handles \cup {Manager(joining)}
    /\ stage' = "push"
    /\ UNCHANGED <<configVars, hookVars, pc, conf, next, task, unread, managers, waiting,
                   socket, listening, joining, orphans, strays, report>>

\* The supervisor holds server_tasks while it waits for the managers, and while it
\* reports the exit of one; it does not read the list again after that.
ListLocked == pc = "waitServers" \/ (pc = "report" /\ \E t \in Managers : report = TaskExit(t))

SetupPushes ==
    /\ joining # NoUrl /\ stage = "push" /\ ~ListLocked
    /\ managers' = Append(managers, Manager(joining))
    /\ joining' = NoUrl /\ stage' = "spawn"
    /\ UNCHANGED <<configVars, hookVars, pc, conf, next, task, unread, waiting, socket,
                   listening, handles, orphans, strays, report>>

\* The attention layer or the manager cannot be made, which comes as an error after the
\* save, or the client goes away before there is a manager.
SetupFails ==
    /\ joining # NoUrl /\ stage = "spawn"
    /\ joining' = NoUrl
    /\ UNCHANGED <<configVars, hookVars, pc, conf, next, task, unread, managers, waiting,
                   socket, listening, stage, handles, orphans, strays, report>>

\* The client goes away while its setup waits for one of the two lists (Setup,
\* SetupCancelled): the manager runs on, without a handle and unknown to the daemon, or
\* with one and unknown to the supervisor.
SetupCancelled ==
    LET t == Manager(joining) IN
    /\ joining # NoUrl /\ stage # "spawn"
    /\ IF stage = "insert"
         THEN /\ task' = [task EXCEPT ![t] = "none"] /\ unread' = unread \ {t}
              /\ orphans' = orphans \cup {t}
              /\ UNCHANGED strays
         ELSE /\ strays' = strays \cup {t}
              /\ UNCHANGED <<task, unread, orphans>>
    /\ joining' = NoUrl /\ stage' = "spawn"
    /\ UNCHANGED <<configVars, hookVars, pc, conf, next, managers, waiting, socket, listening,
                   handles, report>>

\* A manager without a command channel returns once it is live; nobody waits for it.
OrphanReturns(t) ==
    /\ t \in orphans /\ (t \in Noisy => Idle(t))
    /\ orphans' = orphans \ {t}
    /\ UNCHANGED <<configVars, hookVars, pc, conf, next, task, unread, managers, waiting,
                   socket, listening, joining, stage, handles, strays, report>>

-----------------------------------------------------------------------------
(* Ending. *)

\* The process is gone and its tasks with it.
Ends ==
    /\ pc' = "off" /\ next' = 1 /\ report' = NoEvent
    /\ task' = [t \in Tasks |-> "none"]
    /\ unread' = {} /\ managers' = <<>> /\ waiting' = <<>>
    /\ listening' = FALSE /\ joining' = NoUrl /\ stage' = "spawn"
    /\ handles' = {} /\ orphans' = {} /\ strays' = {}
    /\ HooksLost
    /\ UNCHANGED <<configVars, conf>>

\* A start that fails with ? reports nothing and leaves the socket as it is; so does a
\* signal other than ctrl-c.
Dies ==
    /\ pc # "off"
    /\ Ends /\ UNCHANGED socket

Broadcast == unread' = Up

CtrlC ==
    /\ pc = "select"
    /\ Broadcast
    /\ waiting' = <<WakeQueue, Gateway, Ipc>>
    /\ pc' = "waitCore"
    /\ UNCHANGED <<configVars, hookVars, conf, next, task, managers, socket, listening,
                   joinVars, report>>

\* Mutant of WaitOver: the supervisor waits for each task, without the five seconds.
WaitForEver ==
    /\ pc \in {"waitCore", "waitServers"} /\ waiting # <<>>
    /\ task[Head(waiting)] = "ended"
    /\ waiting' = Tail(waiting)
    /\ UNCHANGED <<configVars, hookVars, pc, conf, next, task, unread, managers, socket,
                   listening, joinVars, report>>

\* The task waited for has ended, or five seconds are over.
WaitOver ==
    /\ pc \in {"waitCore", "waitServers"} /\ waiting # <<>>
    /\ waiting' = Tail(waiting)
    /\ UNCHANGED <<configVars, hookVars, pc, conf, next, task, unread, managers, socket,
                   listening, joinVars, report>>

\* On to the managers, whose list is locked from now on.
WaitForManagers ==
    /\ pc = "waitCore" /\ waiting = <<>>
    /\ pc' = "waitServers" /\ waiting' = managers
    /\ UNCHANGED <<configVars, hookVars, conf, next, task, unread, managers, socket,
                   listening, joinVars, report>>

StopDone ==
    /\ pc = "waitServers" /\ waiting = <<>>
    /\ Ends /\ socket' = FALSE

\* The gateway, the wake router or the ipc server has ended: the shutdown is broadcast
\* and the socket removed before the hooks run.
CoreExit(t) ==
    /\ pc = "select" /\ task[t] = "ended"
    /\ Broadcast /\ socket' = FALSE
    /\ pc' = "report" /\ Report(TaskExit(t))
    /\ UNCHANGED <<configVars, conf, next, task, managers, waiting, listening, joinVars>>

\* check_server_exit, each 100 ms: the first manager in the list that has ended.  The
\* hooks run before the broadcast.
ManagerExit ==
    \E i \in DOMAIN managers :
        /\ pc = "select" /\ task[managers[i]] = "ended"
        /\ \A j \in 1..i-1 : task[managers[j]] # "ended"
        /\ pc' = "report" /\ Report(TaskExit(managers[i]))
        /\ UNCHANGED <<configVars, conf, next, task, unread, managers, waiting, socket,
                       listening, joinVars>>

\* The hooks have run, and run_supervisor returns the error.  For a manager's exit, the
\* broadcast and the removal of the socket come only now.
ReportDone ==
    /\ pc = "report" /\ at[Sup] > Len(hooks)
    /\ Ends
    /\ socket' = IF \E t \in Managers : report = TaskExit(t) THEN FALSE ELSE socket

-----------------------------------------------------------------------------
\* What run_supervisor does of itself once it has to end.
EndStep ==
    \/ WaitOver \/ WaitForManagers \/ StopDone \/ ReportDone \/ ManagerExit
    \/ \E t \in Core : CoreExit(t)

Next ==
    \/ Serve \/ StoreReady \/ StoreFails \/ StartGateway \/ SpawnManager \/ StartTasks
    \/ \E t \in Tasks : TaskEnds(t) \/ TaskStops(t) \/ TaskReports(t)
    \/ GatewayMisreads \/ IpcBinds \/ HookStep
    \/ \E raw \in Raws : SetupAlone(raw) \/ SetupLive(raw)
    \/ SetupSpawns \/ SetupInserts \/ SetupPushes \/ SetupFails \/ SetupCancelled
    \/ \E t \in Managers : OrphanReturns(t)
    \/ Dies \/ CtrlC \/ EndStep

Spec == Init /\ [][Next]_vars

\* The supervisor's own steps and its hooks' timers; nothing is asked of the tasks, of
\* the children or of the servers that setups talk to.
LiveSpec ==
    /\ Spec
    /\ WF_vars(EndStep)
    /\ WF_vars(FireStep(Sup) /\ UNCHANGED <<configVars, lifeVars, socket>>)

-----------------------------------------------------------------------------
(* Properties. *)

\* After ctrl-c the process ends, whatever its tasks do: a gateway that made a reconnect
\* of the shutdown message, a manager that a setup spawned too late to hear it and a
\* task that is busy with a hook cost five seconds each.
StopEnds == pc \in {"waitCore", "waitServers"} ~> pc = "off"

\* The managers whose end run_supervisor cannot notice: those that a setup whose client
\* went away has left outside server_tasks, and the one that a setup has still to push.
Unwatched == strays \cup (IF joining = NoUrl THEN {} ELSE {Manager(joining)})

Failed == \E t \in Tasks \ Unwatched : task[t] = "ended"

\* A daemon one of whose tasks has ended does not linger without it, be it a manager that
\* a setup has added since: it ends, for the process manager to start it again, if the
\* operator's hooks take what is written to them, and whatever else they do.
FailureEnds ==
    []<>(child[Sup] # "writing") => ((pc = "select" /\ Failed) ~> pc = "off")

\* When the supervisor returns an error of a critical task or of the store, each enabled
\* hook has been run with it: no throttle holds the first report of an event back,
\* however many other events the tasks have reported, and no hook hides another.
ReportReachesHooks ==
    pc = "report" =>
        \A i \in 1..Len(hooks) : hooks[i].enabled /\ i < at[Sup] => <<i, report>> \in tried

\* The embeddings of any message follow the request of its sender, with the backends of
\* whatever configuration the daemon has started with and whatever plugins fail
\* (compose_outbound_embeddings, merge_outbound_embeddings).  conf stays as it is until
\* the next start, so that one place on the way is enough.
OutboundFollowsRequest ==
    pc = "gateway" =>
        \A req \in Requests : \A failing \in SUBSET Spaces :
            Valid(req) => FollowsRequest(req, Clients(conf.backends), failing)
=============================================================================
