------------------------------- MODULE Setup -------------------------------
(***************************************************************************)
(* Who may change the set of servers (src/src/setup.rs, main.rs,           *)
(* state_lock.rs): `setup` commands that run on their own under the state  *)
(* lock when no daemon holds it, or inside the daemon under its mutation   *)
(* lock, and a daemon that reads config.json, takes the state lock and     *)
(* spawns one manager per server.  Each setup is a process of its own;     *)
(* either side may die at any step.                                        *)
(*                                                                         *)
(* A server's entry in config.json is its being there.  Legacy sessions    *)
(* are the subject of ServerManager.                                       *)
(***************************************************************************)
EXTENDS Integers, FiniteSets

CONSTANTS Servers,
          Setups      \* setup commands, each run once

VARIABLES
    config,     \* the servers in config.json
    session,    \* the token in each server's subspace-session.json
    lock,       \* who holds the state lock
    daemon,     \* where the daemon is in serve and run_supervisor
    loaded,     \* the servers of the configuration it has read
    status,     \* subspace_state of each server in DaemonStatus
    managers,   \* how many managers with a command channel run for each server
    orphans,    \* the setups whose manager runs without a command channel
    handles,    \* the servers in server_handles
    mutex,      \* who holds mutation_lock
    pc,         \* where each setup is
    target,     \* the server it is about
    live,       \* does it run inside the daemon?
    stored      \* its copy of the configuration

setupVars == <<pc, target, live, stored>>
fileVars == <<config, session>>
daemonVars == <<daemon, loaded, status, managers, orphans, handles>>
vars == <<fileVars, lock, daemonVars, mutex, setupVars>>

Free == "free"

ASSUME SetupAssumption ==
    /\ Free \notin Setups /\ "daemon" \notin Setups
    /\ IsFiniteSet(Setups)

Holders == Setups \cup {Free, "daemon"}
Pcs == {"idle", "busy", "wait", "read", "register", "save", "ensure", "insert", "push",
        "ok", "error", "gone"}

TypeOK ==
    /\ config \subseteq Servers
    /\ session \in [Servers -> {"none", "expired", "valid"}]
    /\ lock \in Holders /\ mutex \in Holders
    /\ daemon \in {"off", "loaded", "starting", "running"}
    /\ loaded \subseteq Servers
    /\ status \in [Servers -> {"absent", "down", "live"}]
    /\ managers \in [Servers -> Nat]
    /\ handles \subseteq Servers /\ orphans \subseteq Setups
    /\ pc \in [Setups -> Pcs]
    /\ target \in [Setups -> Servers]
    /\ live \in [Setups -> BOOLEAN]
    /\ stored \in [Setups -> SUBSET Servers]

\* A configured server has been set up once; its token may have expired since.
Init ==
    /\ config \in SUBSET Servers
    /\ session \in [Servers -> {"none", "expired"}]
    /\ \A s \in config : session[s] # "none"
    /\ lock = Free /\ mutex = Free
    /\ daemon = "off" /\ loaded = {} /\ handles = {} /\ orphans = {}
    /\ status = [s \in Servers |-> "absent"]
    /\ managers = [s \in Servers |-> 0]
    /\ pc = [c \in Setups |-> "idle"]
    /\ target \in [Setups -> Servers]
    /\ live = [c \in Setups |-> FALSE]
    /\ stored = [c \in Setups |-> {}]

-----------------------------------------------------------------------------
(* The daemon. *)

ServeLoads ==
    /\ daemon = "off"
    /\ daemon' = "loaded" /\ loaded' = config
    /\ UNCHANGED <<fileVars, lock, status, managers, orphans, handles, mutex, setupVars>>

ServeLocks ==
    /\ daemon = "loaded" /\ lock = Free
    /\ lock' = "daemon" /\ daemon' = "starting"
    /\ status' = [s \in Servers |-> IF s \in loaded THEN "down" ELSE "absent"]
    /\ UNCHANGED <<fileVars, loaded, managers, orphans, handles, mutex, setupVars>>

ServeRefused ==
    /\ daemon = "loaded" /\ lock # Free
    /\ daemon' = "off"
    /\ UNCHANGED <<fileVars, lock, loaded, status, managers, orphans, handles, mutex, setupVars>>

\* spawn_server_manager for a configured server, before anyone can ask.
SpawnConfigured(s) ==
    /\ daemon = "starting" /\ s \in loaded \ handles
    /\ managers' = [managers EXCEPT ![s] = @ + 1]
    /\ handles' = handles \cup {s}
    /\ UNCHANGED <<fileVars, lock, daemon, loaded, status, orphans, mutex, setupVars>>

\* Mutant of ServeReady: the socket listens before the managers are there.
ServeReadyEarly ==
    /\ daemon = "starting"
    /\ daemon' = "running"
    /\ UNCHANGED <<fileVars, lock, loaded, status, managers, orphans, handles, mutex, setupVars>>

\* The socket is listening.
ServeReady ==
    /\ daemon = "starting" /\ loaded \subseteq handles
    /\ daemon' = "running"
    /\ UNCHANGED <<fileVars, lock, loaded, status, managers, orphans, handles, mutex, setupVars>>

ManagerReports(s, state) ==
    /\ managers[s] > 0 \/ \E c \in orphans : target[c] = s
    /\ state # status[s]
    /\ status' = [status EXCEPT ![s] = state]
    /\ UNCHANGED <<fileVars, lock, daemon, loaded, managers, orphans, handles, mutex, setupVars>>

Running(c) == pc[c] \notin {"idle", "ok", "error", "gone"}

\* The daemon ends, with every setup that runs inside it.
DaemonEnds ==
    /\ daemon # "off"
    /\ daemon' = "off" /\ loaded' = {} /\ handles' = {} /\ orphans' = {}
    /\ status' = [s \in Servers |-> "absent"]
    /\ managers' = [s \in Servers |-> 0]
    /\ mutex' = Free
    /\ lock' = IF lock = "daemon" THEN Free ELSE lock
    /\ pc' = [c \in Setups |-> IF live[c] /\ Running(c) THEN "error" ELSE pc[c]]
    /\ live' = [c \in Setups |-> FALSE]
    /\ UNCHANGED <<fileVars, target, stored>>

-----------------------------------------------------------------------------
(* A setup. *)

At(c, here, next) ==
    /\ pc[c] = here
    /\ pc' = [pc EXCEPT ![c] = next]
    /\ UNCHANGED target

\* StateLock::try_acquire succeeds.
SetupLocks(c) ==
    /\ At(c, "idle", "read")
    /\ lock = Free
    /\ lock' = c
    /\ UNCHANGED <<fileVars, daemonVars, mutex, live, stored>>

SetupFindsLocked(c) ==
    /\ At(c, "idle", "busy")
    /\ lock # Free
    /\ UNCHANGED <<fileVars, lock, daemonVars, mutex, live, stored>>

\* setup_via_socket: the request reaches a daemon that listens, or fails.
SetupForwards(c) ==
    /\ At(c, "busy", "wait")
    /\ daemon = "running"
    /\ live' = [live EXCEPT ![c] = TRUE]
    /\ UNCHANGED <<fileVars, lock, daemonVars, mutex, stored>>

SetupFindsNoSocket(c) ==
    /\ At(c, "busy", "error")
    /\ daemon # "running"
    /\ UNCHANGED <<fileVars, lock, daemonVars, mutex, live, stored>>

\* Mutant of SetupEnters: perform_setup does not take the mutation lock.
SetupEntersAnyway(c) ==
    /\ At(c, "wait", "read")
    /\ UNCHANGED <<fileVars, lock, daemonVars, mutex, live, stored>>

SetupEnters(c) ==
    /\ At(c, "wait", "read")
    /\ mutex = Free
    /\ mutex' = c
    /\ UNCHANGED <<fileVars, lock, daemonVars, live, stored>>

SetupReads(c) ==
    /\ At(c, "read", "register")
    /\ stored' = [stored EXCEPT ![c] = config]
    /\ UNCHANGED <<fileVars, lock, daemonVars, mutex, live>>

\* A server without a session is registered with, and the session persisted; a
\* session that exists is taken as it is.
SetupRegisters(c) ==
    /\ At(c, "register", "save")
    /\ session' = IF session[target[c]] = "none"
                    THEN [session EXCEPT ![target[c]] = "valid"] ELSE session
    /\ UNCHANGED <<config, lock, daemonVars, mutex, live, stored>>

\* The guards of a setup are released when it returns.
Release(c) ==
    /\ lock' = IF lock = c THEN Free ELSE lock
    /\ mutex' = IF mutex = c THEN Free ELSE mutex

Keep == UNCHANGED <<lock, mutex>>

\* Mutant of SetupSaves: the entry is not added to the configuration read before.
SetupSavesAlone(c) ==
    /\ At(c, "save", IF live[c] THEN "ensure" ELSE "ok")
    /\ config' = {target[c]}
    /\ IF live[c] THEN Keep ELSE Release(c)
    /\ UNCHANGED <<session, daemonVars, live, stored>>

\* upsert_server and save; a setup outside the daemon is then done.
SetupSaves(c) ==
    /\ At(c, "save", IF live[c] THEN "ensure" ELSE "ok")
    /\ config' = stored[c] \cup {target[c]}
    /\ IF live[c] THEN Keep ELSE Release(c)
    /\ UNCHANGED <<session, daemonVars, live, stored>>

\* ensure_server_manager: a server with a handle is left alone.
SetupFindsHandle(c) ==
    /\ At(c, "ensure", "ok")
    /\ target[c] \in handles
    /\ Release(c)
    /\ UNCHANGED <<fileVars, daemonVars, live, stored>>

\* spawn_server_manager: once the attention layer is built, it is reported and
\* the manager started without an await between them.
SetupEnsures(c) ==
    /\ At(c, "ensure", "insert")
    /\ target[c] \notin handles
    /\ status' = IF status[target[c]] = "absent"
                   THEN [status EXCEPT ![target[c]] = "down"] ELSE status
    /\ managers' = [managers EXCEPT ![target[c]] = @ + 1]
    /\ UNCHANGED <<fileVars, lock, daemon, loaded, orphans, handles, mutex, live, stored>>

\* Mutant of SetupInserts: the handle is dropped.
SetupInsertsNothing(c) ==
    /\ At(c, "insert", "push")
    /\ UNCHANGED <<fileVars, lock, daemonVars, mutex, live, stored>>

SetupInserts(c) ==
    /\ At(c, "insert", "push")
    /\ handles' = handles \cup {target[c]}
    /\ UNCHANGED <<fileVars, lock, daemon, loaded, status, managers, orphans, mutex, live, stored>>

\* The task is added to server_tasks, which is Supervisor's; the setup is answered.
SetupPushes(c) ==
    /\ At(c, "push", "ok")
    /\ Release(c)
    /\ UNCHANGED <<fileVars, daemonVars, live, stored>>

\* A step fails (a bad request, an I/O error, no answer to the registration), or
\* the process of a setup outside the daemon dies.
SetupFails(c) ==
    /\ pc[c] \in {"read", "register", "save", "ensure"}
    /\ pc' = [pc EXCEPT ![c] = "error"]
    /\ Release(c)
    /\ UNCHANGED <<fileVars, daemonVars, target, live, stored>>

\* The client of a setup inside the daemon goes away: hyper drops handle_request
\* where it awaits.  A manager whose handle was not yet inserted loses it; one whose
\* handle is there stays, although nobody waits for its end (Supervisor).
SetupCancelled(c) ==
    /\ live[c] /\ pc[c] \in {"wait", "register", "ensure", "insert", "push"}
    /\ pc' = [pc EXCEPT ![c] = "gone"]
    /\ IF pc[c] = "insert"
         THEN /\ managers' = [managers EXCEPT ![target[c]] = @ - 1]
              /\ orphans' = orphans \cup {c}
         ELSE UNCHANGED <<managers, orphans>>
    /\ Release(c)
    /\ UNCHANGED <<fileVars, daemon, loaded, status, handles, target, live, stored>>

\* A manager without a command channel returns as soon as it is live; the
\* supervisor does not know of it, and its last status stays.
OrphanReturns(c) ==
    /\ c \in orphans
    /\ orphans' = orphans \ {c}
    /\ UNCHANGED <<fileVars, lock, daemon, loaded, status, managers, handles, mutex, setupVars>>

SetupNext ==
    \/ ServeLoads \/ ServeLocks \/ ServeRefused \/ ServeReady \/ DaemonEnds
    \/ \E s \in Servers :
        \/ SpawnConfigured(s)
        \/ \E state \in {"down", "live"} : ManagerReports(s, state)
    \/ \E c \in Setups :
        \/ SetupLocks(c) \/ SetupFindsLocked(c) \/ SetupForwards(c) \/ SetupFindsNoSocket(c)
        \/ SetupEnters(c) \/ SetupReads(c) \/ SetupRegisters(c) \/ SetupSaves(c)
        \/ SetupFindsHandle(c) \/ SetupEnsures(c) \/ SetupInserts(c) \/ SetupPushes(c)
        \/ SetupFails(c) \/ SetupCancelled(c) \/ OrphanReturns(c)

SetupSpec == Init /\ [][SetupNext]_vars

-----------------------------------------------------------------------------
(* Properties. *)

\* A server is in config.json only with a session for its manager to load, also
\* after a setup that died half-way (perform_setup persists before it saves).
ConfiguredHasSession == \A s \in config : session[s] # "none"

\* Two managers of one server share runtime.json and wake twice for every message.
\* Check and insertion in ensure_server_manager are not atomic, and only the two
\* locks keep setups apart: at most one manager of a server can be asked to send, and
\* every other one that runs is the doing of a setup of its own whose client went
\* away before its handle was inserted.
OneManagerPerServer ==
    \A s \in Servers :
        /\ managers[s] <= 1
        /\ managers[s] + Cardinality({c \in orphans : target[c] = s})
              <= 1 + Cardinality({c \in Setups : pc[c] = "gone" /\ target[c] = s})

\* No setup undoes another: a server that a setup has reported as added stays in
\* config.json, whatever setups read the file before it and save it after it.
SetupIsRemembered == \A c \in Setups : pc[c] = "ok" => target[c] \in config

\* "applies the targeted server live": when a setup inside the daemon has
\* succeeded, the daemon serves the server and can be asked to send to it.
LiveSetupIsServed ==
    \A c \in Setups : pc[c] = "ok" /\ live[c] =>
        target[c] \in handles /\ managers[target[c]] > 0

\* What the setups do to config.json and the sessions, seen as a registry.
Registered == {s \in Servers : session[s] # "none"}
Answer == [c \in Setups |-> IF pc[c] \in {"ok", "error"} THEN pc[c] ELSE "none"]

List == INSTANCE Registry WITH entries <- config, sessions <- Registered, answer <- Answer

\* Setups at the same time, inside and outside the daemon, and daemons and setups that
\* die at any step implement the registry: config.json never loses a server, never
\* names one without a session, and no answer is taken back.
KeepsRegistry == List!Spec

\* What the README says of setup for a server that exists: it refreshes the
\* session token.
SetupRefreshesToken == \A c \in Setups : pc[c] = "ok" => session[target[c]] # "expired"

-----------------------------------------------------------------------------
(***************************************************************************)
(* The inductive invariant behind the safety properties: who is inside     *)
(* perform_setup holds the lock that is its to hold, what it has read is   *)
(* still what the file says, and the managers are those of the handles, of *)
(* the setup that is about to insert one and of setups whose client left.  *)
(***************************************************************************)
InsidePcs == {"read", "register", "save", "ensure", "insert", "push"}

LockInv ==
    /\ lock = "daemon" <=> daemon \in {"starting", "running"}
    /\ \A c \in Setups :
        /\ live[c] /\ Running(c) => daemon = "running"
        /\ pc[c] \in {"wait", "ensure", "insert", "push"} => live[c]
        /\ pc[c] \in {"idle", "busy"} => ~live[c]
        /\ pc[c] \in InsidePcs => IF live[c] THEN mutex = c ELSE lock = c

FileInv ==
    /\ ConfiguredHasSession
    /\ \A c \in Setups :
        /\ pc[c] \in {"register", "save"} => stored[c] = config
        /\ pc[c] = "save" => session[target[c]] # "none"
        /\ pc[c] \in {"ensure", "insert", "push", "ok"} => target[c] \in config

Inserting(s) == \E c \in Setups : pc[c] = "insert" /\ target[c] = s

ManagerInv ==
    /\ daemon \in {"off", "loaded"} => handles = {}
    /\ \A c \in Setups :
        /\ pc[c] = "insert" => target[c] \notin handles
        /\ pc[c] = "push" \/ (pc[c] = "ok" /\ live[c]) => target[c] \in handles
        /\ c \in orphans => pc[c] = "gone"
    /\ \A s \in Servers :
        managers[s] = IF s \in handles \/ Inserting(s) THEN 1 ELSE 0

Inv == TypeOK /\ LockInv /\ FileInv /\ ManagerInv
=============================================================================
