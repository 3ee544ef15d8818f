# A TLA+ model of subspace-daemon

`subspace-daemon` keeps websocket connections to a set of Subspace servers. What
the servers push is judged by receptors, recorded, and turned into wakes of agent
sessions at an OpenClaw gateway; what local callers want to say is posted to the
servers over a Unix socket. This directory models the parts of the daemon that
carry state through concurrency, failure and restarts, checks them with TLC on
small instances, and proves the central safety properties with TLAPS for every
value of the constants.

Source references are to the Rust files under `src/src/`. `PROJECT.json` maps each
definition to its lines, lists the runs with their mutants, the hazards of the
code, the findings and the theorems.

## 1. Inventory

| component | state it keeps | operations | what makes it correct |
|---|---|---|---|
| runtime store (`runtime_store.rs`) | per server: recent ids (a window), pending ids, the storm guard; `runtime.json` | `should_enqueue`, `mark_failed`, `mark_processed`, `flush`, `record_reconnect_failure`, `clear_reconnect_storm` | an id on disk is settled; pending ids are exactly what is in flight; a cooldown outlives a restart |
| delivery store (`storage.rs`) | six SQLite tables, one statement per commit | upserts of decision, event, index, matches, targets, deliveries | rows agree with what the gateway took; a delivered row is final; one event per message |
| wake router (`supervisor.rs`, `process_wake_queue`) | the queue, the message and sink in hand, the drain's deadline | take, evaluate, record, reconcile, deliver with retry, record as processed | at least once to each sink; everything is processed in the end; a drain ends |
| supervisor (`supervisor.rs`, `run_supervisor`) | tasks, `DaemonStatus`, the state lock | start, ctrl-c, a task's exit | one process per state directory; a daemon that is stopped, or has lost a task it watches, ends |
| server manager (`subspace/client.rs`) | position in the reconnect loop, backoff, session, command channel, posts on the wire | cooldown, authenticate, connect, join, live loop, refresh | no attempt in a cooldown; one true answer per send; comes back |
| storm guard (`runtime_store.rs`, `retry.rs`) | failure count, window, cooldown | count, double, cap, jitter, clear, load | bounded, and consistent on disk |
| sessions and identities (`subspace/identity.rs`, `auth.rs`) | `subspace-session.json`, named identities | register, reauthenticate, persist, migrate | what was migrated stays migrated |
| attention layer (`attention/`) | receptors, their vectors, degraded flags | build from packs and backend, evaluate | nothing is delivered that the documented policy keeps back; vetoes fail closed |
| gateway client (`gateway/client.rs`) | position in its loop, stored device token, pending requests | handshake, pairing, `chat.send` | success is true; no caller is forgotten; pairing completes |
| setup and state lock (`setup.rs`, `state_lock.rs`, `main.rs`) | `config.json`, session files, the two locks, handles | setup offline or through the socket | no lost update; one manager per server, clients that go away apart |
| send router (`ipc.rs`) | one request: snapshots, targets, results | check, route, post, respond | a response with results says who has the message; one without means nobody has |
| configuration (`config.rs`) | `config.json` | canonical URLs, server keys, validation, `upsert_server` | what setup writes can be loaded; one entry changes; each server has its own state |
| hard failure hooks (`hard_failure.rs`) | what was sent when, the running children | `fire`, throttle, run, time out | the last report is sent; no hook that reads its payload holds up the end |
| outbound embeddings (`attention/mod.rs`, `ipc.rs`) | none | validate, choose clients, compose, merge | the message carries what its sender asked for |
| protocol frames, logging, launchd | see section 7 | | |

How they interact. A server manager and the wake router share the server's
`RuntimeStore` behind a mutex, and the bounded wake queue (`try_send`; when it is
full the manager forgets the pending id and drops the connection, so that the
server replays). The router calls the attention layer, the delivery store and,
through a command channel, the gateway client. The send router reads
`DaemonStatus` and the map of handles, and talks to the managers through their
command channels. A setup inside the daemon takes the mutation lock, writes the
session and the configuration and starts a manager; a setup outside takes the
state lock. A broadcast channel carries the shutdown to every task. Every task may
report a failure to the operator's hooks, which share one throttle; the
supervisor reports the exit of a task before it returns.

What is hard: the process may die between any two SQL statements or file writes;
servers replay; the gateway's answer may come after the caller has given up; a
channel closes with requests in it; snapshots are stale when used; timers
(backoff, cooldown, drain) race with everything. The list under "hazards" in
`PROJECT.json` names each with its line and the properties that guard it.

## 2. Modules

```
WakeDelivery    extends RuntimeStore (extends Queues), DeliveryStore; implements Inbox
ServerManager   extends StormGuard, Queues; implements Requests
GatewayClient   extends Queues; implements Requests
SendRouter      extends Setup, which implements Registry
Supervisor      extends Config, HardFailure, Outbound
Attention       stands alone
MCx             an instance of x for TLC
xProofs         the theorems about x; QueueFacts for those about Queues,
                and SendRouterProofs also extends SetupProofs
```

* **Queues**, **QueueFacts**: `Elems(q)`, and the facts about `Append` and `Tail`
  that the proofs use.
* **RuntimeStore**: the methods of `RuntimeStore` on the dedupe window as
  operators. `recent_ids_order` and `recent_ids_set` are one sequence.
* **DeliveryStore**: the tables as functions (an event's id is its index in
  `event`), and each SQL statement as an operator. `storage.rs` begins no
  transaction, so each statement is a step of its own for the caller.
* **WakeDelivery**: the inbound path. `ReceiveMessage`, `OfferAccepted` and
  `OfferRefused` are the manager's part (`should_enqueue` to `try_send`); the
  router's program counter `pc` walks through `process_wake_queue` statement by
  statement; `Start`, `Crash`, `CtrlC` and `SupervisorReturns` are the process.
  `GatewayAccepts` is external. `verdict` and `woken` only observe.
* **StormGuard**: the reconnect storm state and its transitions. Absolute times are
  distances from now; `u32::MAX`, where the counter saturates, is `FailureCap`.
* **ServerManager**: `run_server_manager` and `connect_once` for one server, with
  the callers of `send_message` and one setup that migrates the session file.
* **Attention**: `AttentionLayer::new` step by step with all of its failures, then
  one action per way `evaluate_with_embeddings` returns.
* **GatewayClient**: `run_gateway_task` and `connect_once`, its callers, an operator
  who approves the device, a gateway that may revoke tokens.
* **Setup**: setups as processes, the daemon's start and end, both locks.
* **SendRouter**: extends Setup with one `POST /v1/messages`.
* **Requests**: what a caller of `send_message` or of `send_chat` may rely on, without
  channels, connections or crashes: a request is answered at most once, success
  means the other side took it, and everything else is a failure that says nothing.
  ServerManager and GatewayClient both implement it (`KeepsContract`).
* **Inbox**: what the inbound path promises, without queue, tables or processes: a
  message is judged, its sinks are woken and noted, and it is recorded once nothing
  is left to do; what is recorded is left alone. WakeDelivery implements it
  (`KeepsPromise`) with the delivered rows as `noted` and `runtime.json` as
  `recorded`.
* **Registry**: what `setup` promises, without locks, processes or crashes: a list of
  servers that only grows, each with a session, and answers that are given once and
  not before the server is in the list. Setup implements it (`KeepsRegistry`) with
  `config.json` as the list.
* **Config**: server URLs, the server key, which files `Config::from_stored` accepts,
  and a setup as one step on `config.json` and `servers/<server_key>/`.
* **HardFailure**: `HardFailureHooks::fire` for several tasks, with the shared
  throttle and one child process per task.
* **Outbound**: `compose_outbound_embeddings` and what it calls, as operators, and the
  promise of the README about the result, space by space (`FollowsRequest`).
* **Supervisor**: `serve` and `run_supervisor`, composed with the three above: the
  start, the tasks as up or ended, the broadcast and who has read it, ctrl-c with
  its waits, the exit of a task, setups from outside and through the socket,
  restarts.

Definitions named as mutants in a comment are small variations of the definition
that follows, each a plausible mistake; they are used by no specification. Putting
one in the place of its original makes TLC refute the property that
`PROJECT.json` pairs it with, which shows that the property depends on that code.

### Abstractions worth knowing

* WakeDelivery. The columns nobody reads back and `ingress_source` are left out.
  Only the first enabled db sink is delivered to, as in the code. The
  configuration is the same across restarts; a sink removed earlier is in
  `RemovedSinks`. SELECTs are merged with the statement that follows, the
  `receptor_match` rows of an evaluation are one step, wake sinks come in any
  order. The gateway's taking of a request whose caller was told of an error
  happens before that error. `Crash` also stands for the exit of any critical
  task. `SupervisorReturns` may happen at any time while stopping, which covers
  its own timeouts. Hard failure hooks change no state.
* ServerManager. The failure window is tumbling, as in the code: it starts at the
  first failure and a restart starts a new one. Tokens are "none", "expiring"
  (within the refresh margin) or "fresh". Time advances in ticks.
* Attention. The interest classes are treated alike by the code and are one. A
  score is the set of receptors whose threshold it reaches; a vector of another
  length scores 0, below every threshold one would write. A path that does not
  exist is skipped; an unreadable or invalid pack fails the whole load. `Policy` is
  stated over the configuration, as the documentation does, and not over the code's
  branches.
* GatewayClient. A wrong shared token is refused with a mismatch, a wrong password
  with another error. "Token under another role" counts as not stored.
* Setup. A client that goes away makes hyper drop the handler at an await
  (`SetupCancelled`). Before the insert of the handle (`setup.rs:246`) the manager
  then runs as an orphan until it is live once; between the insert and the push to
  `server_tasks` (`setup.rs:250`) it keeps its handle and serves sends, and nobody
  waits for its end. `orphans` is a set of setups, as each leaves one at most.
* SendRouter. A code is what a client can see: a partial failure is the same 503
  `subspace_unavailable` as a server that is not live, with results.
* Config. A URL is its parts. The words of a host or a path segment are its runs of
  letters and digits, all that the server key keeps; `loose` stands for blanks,
  capitals and trailing slashes, `bad` for what does not parse or may not be there.
  A setup is one step here: its locks, its crashes and its failures on the way are in
  Setup. Settings that are only defaulted and handed on are left out.
* HardFailure. An event is what the throttle tells apart. `lastSent` holds the keys
  whose window has not passed. A disabled hook is passed over instead of being
  filtered out at the start. A child takes its payload or does not: `HookWrites` is
  asked of nobody, and the timeout begins only after it, as in `run_hook`.
* Supervisor. A task that has an unread shutdown message may end at any time and need
  not. Nothing makes a task fail or report except the constants `Fragile` and `Noisy`.
  Of a setup through the socket, the save and the look for a handle are one step, the
  start of the manager, the insert of its handle and the push of its task one each,
  and the client may go away between them; the push waits while the supervisor holds
  the list. A manager without a handle is in `orphans`, one outside `server_tasks` in
  `strays`. A vector in Outbound is who made it; the plugin's failures are any set of spaces.

## 3. Runs

| run | instance | shows |
|---|---|---|
| `WakeDelivery_store` | db sink, 2 wake sinks, disabled and removed sink, 2 messages, window and queue of 1, 2 starts; 1.4 M states | at-least-once (`RecordedIsSettled`), `PendingIsInFlight`, `OneEnvelopePerMessage`, `OrphansAreBounded`, `AuditMatchesWakes`, `TargetsMatchConfig`, and the refinement `KeepsPromise` |
| `WakeDelivery_live` | no store, 2 servers, 3 messages above the floor, queue of 1; 68 k states | `EverythingIsProcessed`; `DrainEnds` |
| `WakeDelivery_duplicate` | as the first, one message | **violated**: `OneEventPerMessage` |
| `ServerManager_loop` | 2 sends, channel of 1, threshold 2, jitter 50 %, cooldown 1 doubling into its cap of 2 | `StormGuarded`, `CooldownHonoured`, `WaitingIsHeld`, `LiveIsConnected`, the refinement `KeepsContract`; `SendsEnd`, `ComesBack` |
| `ServerManager_migration` | no sends | **violated**: `MigrationStays` |
| `Attention_policy` | 3 receptors, 2 packs, everything about them arbitrary; 127 k states | `DeliverPassesGate`, `VetoFailClosed`, `HealthIsHonest`, `DeliveryIsPolicy` |
| `GatewayClient_calls` | 2 calls, channel of 1, every secret and token; 32 k states | `WaitingIsHeld`, `LiveIsConnected`, `RefusalIsPaced`, the refinement `KeepsContract`; `PairingCompletes`, `CallsReturn` |
| `SendRouter_results` | 2 servers, 2 setups, 1 request; 1.7 M states | `OneManagerPerServer`, `LiveSetupIsServed`, `OkMeansTaken`, `TakenIsReported`, `RefusedMeansUnsent`, `UnknownMeansUnloaded`, and the refinement `KeepsRegistry` |
| `Supervisor_lifecycle` | 4 files to start from, 2 servers typed in 3 ways and a bad URL, an enabled and a disabled hook, 2 tasks that fail and one that reports beside the supervisor, 546 requests for embeddings, any number of restarts; 231 k states | `ReportReachesHooks`, `OutboundFollowsRequest`, `SetupKeepsLoadable`, `SetupAddsOne`; `StopEnds`, `FailureEnds` |
| `Config_keys`, `SendRouter_unknown`, `Setup_token` | the smallest with the case | **violated**: `SetUpIsRegistered`, `UnknownMeansUnconfigured`, `SetupRefreshesToken` |

The type invariant is evaluated in `WakeDelivery_store`, where it bounds the wake queue,
and proved for every module; the bound of the dedupe window is part of `FlightInv`.

Bounds. `MaxStarts` counts starts of the process: two let a crash at every step be
followed by a full replay; a third adds no new state of the disk, since what a
start finds is one of the states that a crash leaves. `WakeCap` caps the count of
wakes at two, enough to tell none, one and repeated. A queue and a channel of one
are full with one element, so that the refused case happens with two or three
messages. A dedupe window of one is exceeded by the second message. `FailureCap`
is the threshold, so that the counter saturates while the cooldown still doubles. `SpinCap`
counts refusals without a pause up to the two the property is about. Three
receptors let one of each class meet in one layer and three of a class as well;
two packs let one fail beside one that loads. The four files of
`Supervisor_lifecycle` are none at all, one that is accepted with everything in it,
and two that are refused, for a repeated server and for a hook whose name is the
default name of another; two embeddings and two wanted spaces let a space be
brought twice, brought and wanted, padded, overridden and missing. A server of that
file is disabled, so that setups start its manager, and one is enabled, whose manager
every start spawns. One running hook is enough for the throttle to be shared by two
tasks; several running hooks, and one without a throttle, are left to the proofs.
Deadlock is not checked where the
system may rest: a daemon that has stopped, callers that have been answered.
Symmetry is used for sets whose members no action tells apart, and in no run with
a liveness property.

Fairness. *WakeDelivery*: weak fairness of the tasks' own steps, because tokio
schedules ready tasks; strong fairness of `StopManager`, because `select!` picks
among ready branches at random. What progress needs of the outside is an
antecedent of `EverythingIsProcessed`, not part of the specification: servers
replay what was not processed, the gateway answers now and then, the supervisor
returns once its router has ended. `DrainEnds` uses none of these. *ServerManager*
and *GatewayClient*: weak fairness of the loops and timers; strong fairness of
the outcomes in which a server, a gateway or the file system that is tried again
and again lets an attempt through; an operator who approves. None of them requires
a crash, a disconnect or a failure to stop happening. *Supervisor*: weak fairness of
what `run_supervisor` does once it has to end (its waits are bounded by timers, its
100 ms tick finds an ended manager) and of the hooks that it runs itself, whose
timeout bounds them once the payload is written; nothing is asked of the tasks, of the
hooks' processes or of a setup under way. That a hook does not leave its payload unread
for ever is an antecedent of `FailureEnds`, since nothing in `run_hook` bounds that write.

## 4. Findings

1. **A second `daemon_event` after a crash** (`storage.rs:552`). The event row and
   its index row are two statements without a transaction. The runbook and the
   sink skill promise exactly one event. Proved of it: the orphan stays empty and n
   starts leave at most n of them (`OrphansStayEmptyAndFew`), and there is none
   that matters before the first restart (`OneEventInFirstRun`).
2. **A migration undone** (`subspace/client.rs:455`). The running manager holds the
   legacy record and writes it back with its next renewed token. Once it has loaded
   the migrated file, at a reconnect or a restart, the migration is final
   (`MigrationIsFinal`).
3. **A setup refreshes nothing** (`setup.rs:98`). For a session in the current
   format no token is renewed, although the README recommends setup for that.
4. **404 for a configured server** (`main.rs:141`). `serve` reads the configuration
   before it takes the lock, so a setup in between is not seen. Of the
   configuration that was loaded, the 404 is true (`NotFoundIsNotLoaded`).
5. **Two servers, one key** (`config.rs:705`). `https://team.space.io` and
   `https://team-space.io` are two entries of `config.json` with one
   directory: the setup of the second takes the first one's session for its own,
   registers nothing and reports success. `runtime.json` and the idempotency keys
   are shared from then on. Servers that differ in scheme or port only are safe
   (`OneHostIsSafe`), and with distinct keys the promise holds
   (`DistinctKeysRegister`).

Five more differences between documentation and code that have no run: a
server is reported as "reconnecting" after its first failed connect, while
README.md:391 says it was live before (`subspace/client.rs:308`); a wildcard
receptor accepts nothing when no embedding backend is usable
(`attention/mod.rs:160`), as README.md:475 says of every receptor, while README.md:608
has it deliver unless a veto cannot be evaluated or matches, and README.md:627 has only
interests fail closed (`DeliveryIsPolicy` states the second and names the exception); a
partial failure of a broadcast is a 503 `subspace_unavailable` too (`ipc.rs:334`), for
which README.md:248 says "no targeted server is live" (`TakenIsReported` and
`RefusedMeansUnsent` go by the results, not by the code); a broadcast is posted to the servers that
are live, not to "all configured servers" (`ipc.rs:237`, README.md:190), and the
response does not name the others; and the `ipc.socket_path` of the runbook's sample
(docs/subspace-daemon-runbook.md:129) is read by nobody (`config.rs:315`).

Five behaviours are modelled as the code has them and promised otherwise by
nobody: a shutdown that the gateway client's live loop or handshake reads is
consumed there and leads to a reconnect, and the task never ends by itself
(`ShutdownHeardOnce`; the supervisor's timeout ends the process: `StopEnds`); a wrong shared token makes the gateway loop retry without a pause
(`RefusalIsPaced` names the exception); a broadcast that meets a server whose
handle is missing answers 404 and drops the results it has (`LosesTarget`,
`RefusedMeansUnsent` names the exception); a setup whose client goes away at the wrong
moment leaves a manager without a handle, beside which the next setup starts another
(`OneManagerPerServer` counts it), or a manager whose end the supervisor does not notice
(`Unwatched`); and a hook that does not read its payload holds up the end of the process
without a timeout (`FailureEnds` names the condition).

## 5. Proofs

TLAPS checks `QueueFacts`, `WakeDeliveryProofs`, `ServerManagerProofs`,
`AttentionProofs`, `GatewayClientProofs`, `SetupProofs`, `SendRouterProofs` and
`SupervisorProofs`. The
theorems hold for any servers, ids, sinks, sends, setups, receptors, packs and
bounds that satisfy the named assumptions: capacities are positive, windows,
backoffs and cooldowns natural numbers, and the values for "none" (`NoId`, `NoSink`,
`Free`), the daemon as a lock holder and the broadcast target `All` are outside the
sets they are told apart from. In every module `Inv` is the inductive invariant,
written beside the component so that TLC can evaluate it, and `Invariance` is the
theorem that it holds (`RouterInv` and `RouterInvariance` in SendRouter; the one of
Supervisor is in its proof module).

**WakeDelivery.** Neither at-least-once delivery nor any of the others is inductive
as it stands: whether `mark_processed` is justified depends on what the router has
done since it took the message. `Inv` adds, per program point, what is known of
the message and the sink in hand:

* `RouterInv` where the counter can be with which message and sink;
* `IndexInv` how `event`, `idem` and the event in hand fit together: between the
  two INSERTs the index has no row, afterwards it is the one in hand;
* `AuditInv` decision, matches and delivery row exist before a send;
* `ProgressInv` every sink that is no longer to do has been reached, and at
  `finish` the message is settled;
* `FlightInv` where each pending id is, and that file and memory agree while the
  router runs;
* `TargetInv` which targets are reconciled so far;
* `SettledInv` what the window or the file holds is settled.

Each part has its own step lemma, one case per action. `ReachedStable` (a sink that
was reached stays reached) carries `ProgressInv` and `SettledInv`.
`Invariance` combines them, and `TypeCorrect`, `AtLeastOnce`, `NoLeakedPendingId`,
`EnvelopesAreUnique`, `AuditBeforeWake`, `TargetsReconciled` and `DeliveredIsFinal`
follow. Counting the orphans needs `OrphanInv`: a run of the daemon that is between
the two INSERTs, or has ended there, has used up its one orphan, and any other has it
still to its credit; `InsertsAndOrphans` says which statements change the set, and the
cardinality facts of FiniteSetTheorems do the rest (`OrphansStayEmptyAndFew`). With
`FirstRunInv`, that in the first run an orphan's message has no index row, follows
`OneEventInFirstRun`. `ImplementsInbox` is the refinement: every action
either leaves verdict, wakes, delivered rows and file alone or is the step of Inbox
of its kind. A start, a crash and a failed flush stutter; a flush is `Record`, which
needs `SettledInv`; a wake and a note need that the message in hand is not in the
file, which `FlightInv` gives.

**ServerManager.** `StormInv` says that memory and disk agree while the process
runs, that each is guarded, and that a manager about to load its session has no
cooldown left on disk; `FailureGuarded` shows that every outcome of
`record_reconnect_failure`, whatever the jitter, is guarded. `SendInv` is
`WaitingIsHeld` together with the truth of each `ok`. From them `StormGuardSound`,
`CooldownNeverBypassed`, `NoCallerForgotten`, and `ImplementsRequests`: each step is
a request, a taking, one success or the failure of a set of waiting requests. A lost
connection, a shutdown and a crash are all such failures. `HealthFollowsLink` is
inductive with the program counter. `MigrationIsFinal` rests on `SessionInv`: a manager
that authenticates or connects holds the session of a file, and what the server renews
or revokes never changes the format of a record.

**Attention.** `DeliveryIsPolicy` compares the eight ways of returning with one
formula over the configuration, taken from the documentation, so the proof needs to know what start-up left
behind. `StartInv` says, for each point of `AttentionLayer::new`, what has been
computed of what was loaded. `ReadyInv` says that a layer which is ready is either
sound, and then holds exactly the loaded receptors and a vector for each that is
not a wildcard, or not usable in the sense of the policy. `SoundLayer` draws the
consequences, `EvaluateDecides` takes the eight cases and shows that they come to
`Decision`, and `DecisionIsPolicy` compares that with the policy: they differ for a
wildcard in a layer that is not usable, and there health says so. `DecidesByPolicy`,
`DeliveryIsJustified`, `VetoesFailClosed` and `HealthNeverFlatters` follow.

**GatewayClient.** `CallInv` adds to `WaitingIsHeld` that nothing is queued twice
and that requests are pending only in the live loop; `StatusInv` that an unread
shutdown was sent; `PaceInv` that between a refusal and the next pause no device
token is left that could be refused again. From them `NoCallerForgotten`,
`SuccessIsTrue`, `ImplementsRequests`, `HealthFollowsLink`, `RetriesArePaced` and
`ShutdownHeardOnce`.

**Setup and SendRouter.** `LockInv` says that whoever is inside `perform_setup`
holds the lock of its kind, from which at most one is inside at any time. Hence
`FileInv`, that what a setup has read is still what is in the file, and
`ManagerInv`, that a server's managers are its handle and the one about to be
inserted, and that an orphan belongs to a setup whose client is gone. They give `SessionsPrecedeEntries`, `NoSecondManager`, `NoLostUpdate` and
`SetupTakesEffect`. `ImplementsRegistry` is the refinement: a registration, a save and
an answer are the steps of Registry of their kind (a save outside the daemon enters
and answers at once), the end of the daemon fails every setup inside it, and all else
stutters; that a save only adds needs `FileInv`. `RouterKeepsSetup` shows that the composition with a request
implements Setup's own specification, so all of this carries over. `RouterInv` says
that every target is still to do, waited for, or in the results, and that the targets of
a named server have a handle; `SuccessIsTrue`, `ResultsAreComplete` and `RefusalIsSafe`,
with its exception for a broadcast, follow. `NotFoundIsNotLoaded` needs `SeenInv`:
the snapshots of a request hold at least what the daemon had loaded, since it listens
only after every configured manager is in the map, and nothing leaves the map.

**Supervisor.** That setups keep a file loadable rests on `Canonicalize` being
idempotent: `upsert_server` compares canonical forms, writes one, and so the forms of
the entries stay distinct (`SetupIsSafe`, `SetupIsLocal`). For `LastReportIsSent` the
invariant says that an accepted configuration gives its hooks distinct keys
(`HooksDistinct`), that what the throttle remembers of an event has been run for that
very hook (`SentIsTried`), and where the supervisor is in its list: a hook that the
throttle holds back has thus been run with the same event before, and any other is
run. `OutboundIsFaithful` needs no invariant beyond the type: it is a fact about
the operators, for any backends, requests and failing plugins.

The server key is a concatenation over the segments of a path, a recursive function.
`PathWordsType` proves what it returns by induction in the form the provers can use, on
a set of numbers instead of a predicate (`LeastNat`, `UpTo`); `KeysOfOneHost` concludes
that two servers on one host and path have different keys, and `KeyInv`, that a
directory holds the session of a registered server with that key, gives `OneHostIsSafe`
and `DistinctKeysRegister`.

`WatchInv` says of each manager what the two lists know of it (`Listed`): it has been
started if and only if it has a handle, but for the one that a setup is adding, and one
with a handle is in `server_tasks`, but for that one and those of cancelled setups
(`strays`); and how far the setup under way is. `TwinInv` says that while the configured
managers are spawned the list holds those of the first entries. They give
`NoTwinManagers`, with the injectivity that `from_stored` checks, and the safety half of
the two liveness properties: in `EndIsPossible` the step that fairness asks for is always
there (stated through the guards, since ENABLED is out of reach), and in `EndComesNearer`
it lowers a measure, the stage and the number of tasks still to wait for or the steps left
of the hooks, which no other step raises. Both speak of the tasks that are not
`Unwatched`; that a setup, cancelled or not, never makes a watched task an unwatched one
needs that every such manager has a handle.

Only model-checked: the liveness properties themselves (`DrainEnds`,
`EverythingIsProcessed`, `SendsEnd`, `ComesBack`, `PairingCompletes`, `CallsReturn`,
`StopEnds`, `FailureEnds`), since fairness and ENABLED are out of the prover's reach.
The library's induction theorems take an operator as a parameter, which the provers
cannot instantiate; what is needed of induction is done with `LeastNat` and `UpTo`. No
module uses a RECURSIVE operator.

## 6. Plan

1. Inbound path, delivery store, runtime store: done, proved.
2. Server manager and storm guard: done, proved.
3. Attention, gateway client, setup, send router: done, proved.
4. Refinements: WakeDelivery implements Inbox, ServerManager and GatewayClient
   implement Requests, Setup implements Registry: done, proved.
5. Configuration, outbound embeddings, hard failure hooks, supervisor: done; safety
   proved, liveness model-checked.
6. What does hold where a run refutes a promise: done for four of the five findings;
   of the refreshed token nothing is left to say, since setup never touches one.
7. Left to prove: the measure behind `DrainEnds`, as for the supervisor.
8. Left to model: sinks that change between restarts of WakeDelivery; more than one
   live request at the send router; the exchange of a plugin with its subprocess.

## 7. Not modelled

Frame layout, JSON,
signatures and key generation are conversions and cryptography without state; their
results are outcomes here. Logging, launchd files, build info, the report commands
of the command line and the `subspace-send` script are pure I/O.
