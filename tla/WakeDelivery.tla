---------------------------- MODULE WakeDelivery ----------------------------
(***************************************************************************)
(* The inbound path of the daemon: a message that a Subspace server pushes *)
(* to the daemon ends as delivered to every configured sink, or rejected   *)
(* by the attention layer, and is then recorded in that server's           *)
(* runtime.json so that a replay of it is ignored.                         *)
(*                                                                         *)
(* Tasks, each interleaved with the others:                                *)
(*   - one server manager per server (subspace/client.rs): connects,       *)
(*     receives new_message and replay_message frames, and offers          *)
(*     accepted ones to the wake queue with try_send;                      *)
(*   - the wake router (supervisor.rs, process_wake_queue): one message at *)
(*     a time through attention, delivery store, gateway, runtime store;   *)
(*   - the supervisor (run_supervisor): ctrl-c, critical task exits;       *)
(*   - the gateway, which accepts or loses a chat.send and its answer.     *)
(* The process may be killed at any step and started again; what is on     *)
(* disk survives.                                                          *)
(***************************************************************************)
EXTENDS RuntimeStore, DeliveryStore, FiniteSets

CONSTANTS
    QueueCap,      \* capacity of the wake queue (1000 in run_supervisor)
    BelowFloor,    \* messages older than replay.discard_before_ts
    MaxStarts,     \* bound: how many times the process is started
    NoId, NoMsg

WakeCap == 2       \* bound: wakes of one message and sink, counted up to 2

ASSUME WakeAssumption ==
    /\ QueueCap \in Nat \ {0}
    /\ MaxStarts \in Nat
    /\ BelowFloor \subseteq Msgs
    /\ NoId \notin Ids
    /\ NoMsg \notin Msgs

VARIABLES
    \* the process
    phase,      \* "down" | "running" | "stopping" (shutdown broadcast sent)
    starts,     \* how often the process was started
    \* per server: runtime.json, the in-memory RuntimeStore, the manager task
    file, recent, pending,
    link,       \* "down" | "live" | "stopped"
    offering,   \* id accepted by should_enqueue and not yet offered to the queue
    \* the wake queue and the wake router
    queue, pc, cur,
    todo,       \* sinks the current loop over sinks has still to visit
    sink,       \* the sink in hand
    ev,         \* the daemon_event id in hand
    wire,       \* the chat.send in flight: "none" | "sent" | "accepted"
    deadline,   \* "none" | "armed" (draining) | "passed"
    \* observations
    verdict,    \* the most recent attention verdict of each message
    woken       \* chat.send requests the gateway accepted, up to WakeCap

procVars == <<phase, starts>>
runtimeVars == <<file, recent, pending>>
managerVars == <<link, offering>>
routerVars == <<pc, cur, todo, sink, ev, wire, deadline>>
obsVars == <<verdict, woken>>
vars == <<procVars, runtimeVars, managerVars, queue, routerVars, obsVars, storeVars>>

\* The statements of the wake router that touch the delivery store.
StorePcs == {"decide", "reconcile", "reconcileDisabled", "lookup", "insertEvent",
             "insertIdempotency", "matches", "target", "queueDelivery",
             "dbDelivered", "markDelivered", "markFailed"}
Pcs == StorePcs \cup {"idle", "evaluate", "attempt", "sending", "backoff",
                      "finish", "exited"}

TypeOK ==
    /\ StoreTypeOK
    /\ phase \in {"down", "running", "stopping"}
    /\ starts \in 0..MaxStarts
    /\ file \in [Servers -> Seq(Ids)]
    /\ recent \in [Servers -> Seq(Ids)]
    /\ pending \in [Servers -> SUBSET Ids]
    /\ link \in [Servers -> {"down", "live", "stopped"}]
    /\ offering \in [Servers -> Ids \cup {NoId}]
    /\ queue \in Seq(Msgs) /\ Len(queue) <= QueueCap
    /\ pc \in Pcs
    /\ cur \in Msgs \cup {NoMsg}
    /\ todo \subseteq ConfiguredSinks
    /\ sink \in ConfiguredSinks \cup {NoSink}
    /\ ev \in 0..Len(event)
    /\ wire \in {"none", "sent", "accepted"}
    /\ deadline \in {"none", "armed", "passed"}
    /\ verdict \in [Msgs -> Verdicts \cup {"none"}]
    /\ woken \in [Msgs -> [WakeSinks -> 0..WakeCap]]

-----------------------------------------------------------------------------
(* The process. *)

Init ==
    /\ StoreInit
    /\ phase = "down" /\ starts = 0
    /\ file = [s \in Servers |-> <<>>]
    /\ verdict = [m \in Msgs |-> "none"]
    /\ woken = [m \in Msgs |-> [k \in WakeSinks |-> 0]]
    /\ recent = [s \in Servers |-> <<>>]
    /\ pending = [s \in Servers |-> {}]
    /\ link = [s \in Servers |-> "down"]
    /\ offering = [s \in Servers |-> NoId]
    /\ queue = <<>>
    /\ pc = "idle" /\ cur = NoMsg /\ todo = {} /\ sink = NoSink
    /\ ev = 0 /\ wire = "none" /\ deadline = "none"

\* run_supervisor up to its select loop: every manager loads its RuntimeStore;
\* pending ids are not persisted.
Start ==
    /\ phase = "down" /\ starts < MaxStarts
    /\ phase' = "running" /\ starts' = starts + 1
    /\ recent' = [s \in Servers |-> LoadRecent(file[s])]
    /\ UNCHANGED <<file, pending, managerVars, queue, routerVars, obsVars, storeVars>>

\* The process ends: what it held in memory is gone, the files stay.
Down ==
    /\ phase' = "down"
    /\ recent' = [s \in Servers |-> <<>>]
    /\ pending' = [s \in Servers |-> {}]
    /\ link' = [s \in Servers |-> "down"]
    /\ offering' = [s \in Servers |-> NoId]
    /\ queue' = <<>>
    /\ pc' = "idle" /\ cur' = NoMsg /\ todo' = {} /\ sink' = NoSink
    /\ ev' = 0 /\ wire' = "none" /\ deadline' = "none"
    /\ UNCHANGED <<starts, file, obsVars, storeVars>>

\* The process is killed, or the machine stops.
Crash == phase # "down" /\ starts < MaxStarts /\ Down

\* Ctrl-c: the supervisor broadcasts the shutdown.
CtrlC ==
    /\ phase = "running"
    /\ phase' = "stopping"
    /\ UNCHANGED <<starts, runtimeVars, managerVars, queue, routerVars, obsVars,
                   storeVars>>

\* run_supervisor returns: after ctrl-c once the wake task has ended or its five
\* seconds are over, and at any time when the wake task has ended by itself.
SupervisorReturns == (phase = "stopping" \/ (phase = "running" /\ pc = "exited")) /\ Down

-----------------------------------------------------------------------------
(* The server managers. *)

\* RuntimeStore::flush by the manager.
Flush(s) == file' = [file EXCEPT ![s] = recent[s]]

\* connect_once up to the live loop, ending in clear_reconnect_storm and flush.  An
\* attempt that fails flushes too, with no effect on this module that a Connect and
\* a Disconnect do not have.
Connect(s) ==
    /\ phase # "down" /\ link[s] = "down"
    /\ link' = [link EXCEPT ![s] = "live"]
    /\ Flush(s)
    /\ UNCHANGED <<procVars, recent, pending, offering, queue, routerVars,
                   obsVars, storeVars>>

\* The websocket closes or a send on it fails: record_reconnect_failure flushes.
Disconnect(s) ==
    /\ link[s] = "live" /\ offering[s] = NoId
    /\ link' = [link EXCEPT ![s] = "down"]
    /\ Flush(s)
    /\ UNCHANGED <<procVars, recent, pending, offering, queue, routerVars,
                   obsVars, storeVars>>

\* A refreshed session reconnects, which is not recorded as a failure.
SessionRefreshed(s) ==
    /\ link[s] = "live" /\ offering[s] = NoId
    /\ link' = [link EXCEPT ![s] = "down"]
    /\ UNCHANGED <<procVars, runtimeVars, offering, queue, routerVars, obsVars,
                   storeVars>>

\* The manager sees the shutdown broadcast and returns.
StopManager(s) ==
    /\ phase = "stopping" \/ (phase = "running" /\ pc = "exited")
    /\ link[s] # "stopped" /\ offering[s] = NoId
    /\ link' = [link EXCEPT ![s] = "stopped"]
    /\ UNCHANGED <<procVars, runtimeVars, offering, queue, routerVars, obsVars,
                   storeVars>>

\* A new_message or replay_message frame that should_enqueue lets through; any
\* other frame changes nothing.
ReceiveMessage(s, id) ==
    /\ link[s] = "live" /\ offering[s] = NoId
    /\ <<s, id>> \notin BelowFloor
    /\ IsNew(recent[s], pending[s], id)
    /\ pending' = [pending EXCEPT ![s] = @ \cup {id}]
    /\ offering' = [offering EXCEPT ![s] = id]
    /\ UNCHANGED <<procVars, file, recent, link, queue, routerVars, obsVars,
                   storeVars>>

\* Mutant of OfferAccepted: an unbounded wake queue.
OfferUnbounded(s) ==
    /\ offering[s] # NoId
    /\ pc # "exited"
    /\ queue' = Append(queue, <<s, offering[s]>>)
    /\ offering' = [offering EXCEPT ![s] = NoId]
    /\ UNCHANGED <<procVars, runtimeVars, link, routerVars, obsVars, storeVars>>

\* wake_tx.try_send of the envelope succeeds.
OfferAccepted(s) ==
    /\ offering[s] # NoId
    /\ pc # "exited" /\ Len(queue) < QueueCap
    /\ queue' = Append(queue, <<s, offering[s]>>)
    /\ offering' = [offering EXCEPT ![s] = NoId]
    /\ UNCHANGED <<procVars, runtimeVars, link, routerVars, obsVars, storeVars>>

\* Mutant of OfferRefused: mark_failed is forgotten.
OfferForgotten(s) ==
    /\ offering[s] # NoId
    /\ pc = "exited" \/ Len(queue) = QueueCap
    /\ offering' = [offering EXCEPT ![s] = NoId]
    /\ link' = [link EXCEPT ![s] = "down"]
    /\ Flush(s)
    /\ UNCHANGED <<procVars, recent, pending, queue, routerVars, obsVars, storeVars>>

\* try_send finds the queue full, or closed because the router has returned:
\* mark_failed forgets the id, and the bail drops the connection (as Disconnect), so
\* that the server replays the message on the next join.
OfferRefused(s) ==
    /\ offering[s] # NoId
    /\ pc = "exited" \/ Len(queue) = QueueCap
    /\ pending' = [pending EXCEPT ![s] = @ \ {offering[s]}]
    /\ offering' = [offering EXCEPT ![s] = NoId]
    /\ link' = [link EXCEPT ![s] = "down"]
    /\ Flush(s)
    /\ UNCHANGED <<procVars, recent, queue, routerVars, obsVars, storeVars>>

-----------------------------------------------------------------------------
(* The wake router: process_wake_queue, statement by statement. *)

aroundVars == <<procVars, managerVars>>

\* The loop over the wake sinks: on to the next one, or to mark_processed.
NextWakeSink(rest) ==
    \/ /\ rest = {}
       /\ pc' = "finish" /\ sink' = NoSink /\ todo' = {} /\ ev' = 0
    \/ \E k \in rest :
       /\ pc' = IF HasStore THEN "lookup" ELSE "attempt"
       /\ sink' = k /\ todo' = rest \ {k} /\ ev' = 0

\* recv, or try_recv while draining.
TakeNext ==
    /\ phase # "down" /\ pc = "idle" /\ queue # <<>>
    /\ cur' = Head(queue) /\ queue' = Tail(queue)
    /\ pc' = "evaluate"
    /\ UNCHANGED <<aroundVars, runtimeVars, todo, sink, ev, wire, deadline,
                   obsVars, storeVars>>

\* The shutdown broadcast is seen only between two messages.
NoticeShutdown ==
    /\ phase = "stopping" /\ pc = "idle" /\ deadline = "none"
    /\ deadline' = "armed"
    /\ UNCHANGED <<aroundVars, runtimeVars, queue, pc, cur, todo, sink, ev, wire,
                   obsVars, storeVars>>

DeadlinePasses ==
    /\ deadline = "armed"
    /\ deadline' = "passed"
    /\ UNCHANGED <<aroundVars, runtimeVars, queue, pc, cur, todo, sink, ev, wire,
                   obsVars, storeVars>>

DrainDone ==
    /\ pc = "idle" /\ deadline # "none" /\ queue = <<>>
    /\ pc' = "exited"
    /\ UNCHANGED <<aroundVars, runtimeVars, queue, cur, todo, sink, ev, wire,
                   deadline, obsVars, storeVars>>

\* After the verdict (and its audit row): to mark_processed when the message is
\* not to be delivered or no sink is enabled, else to the sinks.
AfterVerdict(v) ==
    IF v = "reject" \/ Sinks = {}
    THEN pc' = "finish" /\ UNCHANGED <<todo, sink, ev>>
    ELSE IF HasStore
    THEN pc' = "reconcile" /\ todo' = ConfiguredSinks /\ UNCHANGED <<sink, ev>>
    ELSE NextWakeSink(WakeSinks)

Evaluate(v) ==
    /\ pc = "evaluate"
    /\ verdict' = [verdict EXCEPT ![cur] = v]
    /\ IF HasStore THEN pc' = "decide" /\ UNCHANGED <<todo, sink, ev>> ELSE AfterVerdict(v)
    /\ UNCHANGED <<aroundVars, runtimeVars, queue, cur, wire, deadline, woken,
                   storeVars>>

RecordAttentionDecision ==
    /\ pc = "decide"
    /\ UpsertDecision(cur, verdict[cur])
    /\ AfterVerdict(verdict[cur])
    /\ UNCHANGED <<aroundVars, runtimeVars, queue, cur, wire, deadline, obsVars>>

\* Mutant of ReconcileTarget: disabled sinks are left enabled.
ReconcileAsEnabled(k) ==
    /\ pc = "reconcile" /\ k \in todo
    /\ SetTargets({k}, "enabled")
    /\ todo' = todo \ {k}
    /\ UNCHANGED <<aroundVars, runtimeVars, queue, pc, cur, sink, ev, wire,
                   deadline, obsVars>>

\* reconcile_sink_targets: the upsert enables the row of every configured sink;
\* a second statement disables the row of a disabled one.
ReconcileTarget(k) ==
    /\ pc = "reconcile" /\ k \in todo
    /\ SetTargets({k}, "enabled")
    /\ IF k \in DisabledSinks
       THEN pc' = "reconcileDisabled" /\ sink' = k /\ UNCHANGED todo
       ELSE todo' = todo \ {k} /\ UNCHANGED <<pc, sink>>
    /\ UNCHANGED <<aroundVars, runtimeVars, queue, cur, ev, wire, deadline, obsVars>>

ReconcileDisabledTarget ==
    /\ pc = "reconcileDisabled"
    /\ SetTargets({sink}, "disabled")
    /\ pc' = "reconcile" /\ todo' = todo \ {sink} /\ sink' = NoSink
    /\ UNCHANGED <<aroundVars, runtimeVars, queue, cur, ev, wire, deadline, obsVars>>

\* soft_disable_missing_sink_targets, and on to the db sink.
ReconcileRemoved ==
    /\ pc = "reconcile" /\ todo = {}
    /\ SetTargets(RemovedSinks, "disabled")
    /\ pc' = "lookup" /\ sink' = DbSink /\ todo' = WakeSinks
    /\ UNCHANGED <<aroundVars, runtimeVars, queue, cur, ev, wire, deadline, obsVars>>

\* Mutant of LookupEvent: an event that exists is taken to have its matches.
LookupAssumingMatches ==
    /\ pc = "lookup"
    /\ ev' = idem[cur]
    /\ pc' = IF idem[cur] # 0 THEN "target" ELSE "insertEvent"
    /\ UNCHANGED <<aroundVars, runtimeVars, queue, cur, todo, sink, wire,
                   deadline, obsVars, storeVars>>

\* upsert_canonical_event: lookup_existing_event.
LookupEvent ==
    /\ pc = "lookup"
    /\ ev' = idem[cur]
    /\ pc' = IF idem[cur] # 0 THEN "matches" ELSE "insertEvent"
    /\ UNCHANGED <<aroundVars, runtimeVars, queue, cur, todo, sink, wire,
                   deadline, obsVars, storeVars>>

\* Mutant of InsertDaemonEvent: the idempotency row is left to later.
InsertEventUnindexed ==
    /\ pc = "insertEvent"
    /\ InsertEvent(cur)
    /\ ev' = Len(event) + 1
    /\ pc' = "matches"
    /\ UNCHANGED <<aroundVars, runtimeVars, queue, cur, todo, sink, wire,
                   deadline, obsVars>>

InsertDaemonEvent ==
    /\ pc = "insertEvent"
    /\ InsertEvent(cur)
    /\ ev' = Len(event) + 1
    /\ pc' = "insertIdempotency"
    /\ UNCHANGED <<aroundVars, runtimeVars, queue, cur, todo, sink, wire,
                   deadline, obsVars>>

InsertEventIdempotency ==
    /\ pc = "insertIdempotency"
    /\ InsertIdempotency(cur, ev)
    /\ pc' = "matches"
    /\ UNCHANGED <<aroundVars, runtimeVars, queue, cur, todo, sink, ev, wire,
                   deadline, obsVars>>

RecordReceptorMatches ==
    /\ pc = "matches"
    /\ UpsertReceptorMatches(ev)
    /\ pc' = "target"
    /\ UNCHANGED <<aroundVars, runtimeVars, queue, cur, todo, sink, ev, wire,
                   deadline, obsVars>>

UpsertSinkTarget ==
    /\ pc = "target"
    /\ SetTargets({sink}, "enabled")
    /\ pc' = "queueDelivery"
    /\ UNCHANGED <<aroundVars, runtimeVars, queue, cur, todo, sink, ev, wire,
                   deadline, obsVars>>

\* upsert_sink_delivery and the ticket: the db sink is marked delivered next, a
\* wake sink whose row is delivered is skipped, another one is attempted.
QueueSinkDelivery ==
    /\ pc = "queueDelivery"
    /\ UpsertSinkDelivery(ev, sink)
    /\ \/ /\ sink = DbSink
          /\ pc' = "dbDelivered" /\ UNCHANGED <<todo, sink, ev>>
       \/ /\ sink # DbSink /\ AlreadyDelivered(ev, sink)
          /\ NextWakeSink(todo)
       \/ /\ sink # DbSink /\ ~AlreadyDelivered(ev, sink)
          /\ pc' = "attempt" /\ UNCHANGED <<todo, sink, ev>>
    /\ UNCHANGED <<aroundVars, runtimeVars, queue, cur, wire, deadline, obsVars>>

MarkDbDelivered ==
    /\ pc = "dbDelivered"
    /\ MarkDeliveryDelivered(ev, sink)
    /\ NextWakeSink(todo)
    /\ UNCHANGED <<aroundVars, runtimeVars, queue, cur, wire, deadline, obsVars>>

\* The head of the retry loop: mark_delivery_attempted, then gateway.send_chat
\* unless the shutdown deadline has passed.
Attempt ==
    /\ pc = "attempt"
    /\ IF HasStore THEN MarkDeliveryAttempted(ev, sink) ELSE UNCHANGED storeVars
    /\ IF deadline = "passed"
       THEN pc' = "exited" /\ UNCHANGED wire
       ELSE pc' = "sending" /\ wire' = "sent"
    /\ UNCHANGED <<aroundVars, runtimeVars, queue, cur, todo, sink, ev, deadline,
                   obsVars>>

\* The gateway takes the chat.send; the daemon does not know yet.
GatewayAccepts ==
    /\ pc = "sending" /\ wire = "sent"
    /\ wire' = "accepted"
    /\ woken' = [woken EXCEPT ![cur][sink] = IF @ < WakeCap THEN @ + 1 ELSE @]
    /\ UNCHANGED <<aroundVars, runtimeVars, queue, pc, cur, todo, sink, ev,
                   deadline, verdict, storeVars>>

SendSucceeds ==
    /\ pc = "sending" /\ wire = "accepted"
    /\ wire' = "none"
    /\ IF HasStore THEN pc' = "markDelivered" /\ UNCHANGED <<todo, sink, ev>>
                   ELSE NextWakeSink(todo)
    /\ UNCHANGED <<aroundVars, runtimeVars, queue, cur, deadline, obsVars, storeVars>>

\* The gateway refuses the request, or the transport is lost before or after it
\* took it: send_chat returns an error.
SendFails ==
    /\ pc = "sending"
    /\ wire' = "none"
    /\ pc' = IF HasStore THEN "markFailed" ELSE "backoff"
    /\ UNCHANGED <<aroundVars, runtimeVars, queue, cur, todo, sink, ev, deadline,
                   obsVars, storeVars>>

\* Mutant of SendTimesOut: no timeout around send_chat.
SendNeverTimesOut == FALSE

\* tokio::time::timeout around send_chat while draining.
SendTimesOut ==
    /\ pc = "sending" /\ deadline = "passed"
    /\ pc' = "exited" /\ wire' = "none"
    /\ UNCHANGED <<aroundVars, runtimeVars, queue, cur, todo, sink, ev, deadline,
                   obsVars, storeVars>>

MarkDelivered ==
    /\ pc = "markDelivered"
    /\ MarkDeliveryDelivered(ev, sink)
    /\ NextWakeSink(todo)
    /\ UNCHANGED <<aroundVars, runtimeVars, queue, cur, wire, deadline, obsVars>>

\* Mutant of MarkFailed: the failed sink is skipped instead of retried.
SkipFailedSink ==
    /\ pc = "markFailed"
    /\ MarkDeliveryFailed(ev, sink)
    /\ NextWakeSink(todo)
    /\ UNCHANGED <<aroundVars, runtimeVars, queue, cur, wire, deadline, obsVars>>

MarkFailed ==
    /\ pc = "markFailed"
    /\ MarkDeliveryFailed(ev, sink)
    /\ pc' = "backoff"
    /\ UNCHANGED <<aroundVars, runtimeVars, queue, cur, todo, sink, ev, wire,
                   deadline, obsVars>>

\* The jittered sleep between two attempts; there is no limit on the attempts.
Backoff ==
    /\ pc = "backoff"
    /\ pc' = IF deadline = "passed" THEN "exited" ELSE "attempt"
    /\ UNCHANGED <<aroundVars, runtimeVars, queue, cur, todo, sink, ev, wire,
                   deadline, obsVars, storeVars>>

\* mark_processed in memory, then flush, under one lock.
MarkProcessed ==
    LET s == cur[1] IN
    /\ pending' = [pending EXCEPT ![s] = @ \ {cur[2]}]
    /\ recent' = [recent EXCEPT ![s] = InsertRecent(@, cur[2])]

Finish ==
    /\ pc = "finish"
    /\ MarkProcessed
    /\ file' = [file EXCEPT ![cur[1]] = recent'[cur[1]]]
    /\ pc' = "idle" /\ cur' = NoMsg
    /\ UNCHANGED <<aroundVars, queue, todo, sink, ev, wire, deadline, obsVars,
                   storeVars>>

\* write_json_atomic fails: the ? returns from the router.
FlushFails ==
    /\ pc = "finish"
    /\ MarkProcessed
    /\ pc' = "exited" /\ cur' = NoMsg
    /\ UNCHANGED <<aroundVars, file, queue, todo, sink, ev, wire, deadline,
                   obsVars, storeVars>>

\* A statement of the delivery store fails: the router returns the error.
StoreFails ==
    /\ HasStore /\ pc \in StorePcs \cup {"attempt"}
    /\ pc' = "exited"
    /\ UNCHANGED <<aroundVars, runtimeVars, queue, cur, todo, sink, ev, wire,
                   deadline, obsVars, storeVars>>

-----------------------------------------------------------------------------
ManagerNext(s) ==
    \/ Connect(s) \/ Disconnect(s) \/ SessionRefreshed(s) \/ StopManager(s)
    \/ \E id \in Ids : ReceiveMessage(s, id)
    \/ OfferAccepted(s) \/ OfferRefused(s)

\* What the router does on its own, without the gateway and without failing.
RouterStep ==
    \/ TakeNext \/ NoticeShutdown \/ DrainDone
    \/ \E v \in Verdicts : Evaluate(v)
    \/ RecordAttentionDecision
    \/ \E k \in ConfiguredSinks : ReconcileTarget(k)
    \/ ReconcileDisabledTarget \/ ReconcileRemoved
    \/ LookupEvent \/ InsertDaemonEvent \/ InsertEventIdempotency
    \/ RecordReceptorMatches \/ UpsertSinkTarget \/ QueueSinkDelivery
    \/ MarkDbDelivered \/ Attempt \/ MarkDelivered \/ MarkFailed
    \/ Backoff \/ SendTimesOut \/ Finish

Next ==
    \/ Start \/ Crash \/ CtrlC \/ SupervisorReturns
    \/ \E s \in Servers : ManagerNext(s)
    \/ RouterStep \/ DeadlinePasses
    \/ GatewayAccepts \/ SendSucceeds \/ SendFails
    \/ FlushFails \/ StoreFails

Spec == Init /\ [][Next]_vars

(***************************************************************************)
(* Fairness.  The runtime schedules every ready task: the router's own     *)
(* steps, the managers' connect and offer, the drain's timer.              *)
(* tokio::select! picks among its ready branches at random, so a manager   *)
(* busy with frames still sees the shutdown in the end (strong fairness of *)
(* StopManager).  Nothing is required of the gateway and the servers, and  *)
(* crashes, disconnects, failing statements and ctrl-c never have to       *)
(* happen.                                                                 *)
(***************************************************************************)
LiveSpec ==
    /\ Spec
    /\ WF_vars(RouterStep) /\ WF_vars(DeadlinePasses)
    /\ \A s \in Servers :
        /\ WF_vars(Connect(s)) /\ SF_vars(StopManager(s))
        /\ WF_vars(OfferAccepted(s) \/ OfferRefused(s))

\* What progress needs of the surroundings: the servers replay what they hold
\* after each join, so a message that is not yet processed is received again and
\* again, and the gateway is up often enough that a repeated chat.send is taken
\* and answered in the end; a supervisor whose router has ended returns.
ReplayFairness == \A s \in Servers : \A id \in Ids : SF_vars(ReceiveMessage(s, id))

GatewayFairness == SF_vars(GatewayAccepts) /\ SF_vars(SendSucceeds)

SupervisorFairness == WF_vars(SupervisorReturns)

-----------------------------------------------------------------------------
(* Properties. *)

\* The row that says sink k has had message m.
Delivered(m, k) == idem[m] # 0 /\ delivery[idem[m]][k] = "delivered"

\* Sink k has had m: the gateway took the wake and, with a store, the row says so.
Reached(m, k) ==
    /\ k \in WakeSinks => woken[m][k] > 0
    /\ HasStore => Delivered(m, k)

\* Nothing is left to do for m after its most recent evaluation.
Settled(m) ==
    \/ verdict[m] = "reject"
    \/ verdict[m] = "deliver" /\ \A k \in Sinks : Reached(m, k)

\* At-least-once delivery across crashes: an id that runtime.json holds, and that
\* a replay therefore skips, was rejected or has reached every sink.
\* (mark_processed and flush come last in process_wake_queue.)
RecordedIsSettled ==
    \A s \in Servers : \A id \in Elems(file[s]) : Settled(<<s, id>>)

\* Envelopes between should_enqueue and mark_processed or mark_failed.
InFlight(s, id) ==
    \/ offering[s] = id
    \/ <<s, id>> \in Elems(queue)
    \/ cur = <<s, id>>

\* pending_ids holds exactly the ids that are on their way through the manager,
\* the queue and the router: a leaked id would be ignored until a restart, a
\* missing one would be processed twice at a time.
PendingIsInFlight ==
    phase # "down" /\ pc # "exited" =>
        \A s \in Servers : pending[s] = {id \in Ids : InFlight(s, id)}

\* No two envelopes of one message exist at a time, and none of a message that
\* the dedupe window holds.
OneEnvelopePerMessage ==
    pc # "exited" =>
        /\ \A i, j \in 1..Len(queue) : queue[i] = queue[j] => i = j
        /\ cur \notin Elems(queue)
        /\ \A s \in Servers :
            /\ offering[s] # NoId => <<s, offering[s]>> \notin Elems(queue) \cup {cur}
            /\ pending[s] \cap Elems(recent[s]) = {}

\* A crash between the two INSERTs of upsert_canonical_event leaves a daemon_event
\* without event_idempotency row.  Such a row never gets matches or deliveries:
\* the delivery state of a message is always on the one indexed row.
DeliveriesOnIndexedEvents ==
    \A e \in 1..Len(event) :
        e \in matched \/ (\E k \in Sinks : delivery[e][k] # "none")
            => idem[event[e]] = e

\* The rows such crashes and failing statements leave behind.
Orphans == {e \in 1..Len(event) : idem[event[e]] # e}

\* Deliveries stay off the orphans, and a run of the daemon leaves at most one:
\* after n starts no more than n rows are duplicates.
OrphansAreBounded == DeliveriesOnIndexedEvents /\ Cardinality(Orphans) <= starts

\* With a store, no message reaches an agent session before its attention
\* decision, its event, its matches and its sink_delivery row are on disk, and
\* a row says delivered only when the gateway took the message.
AuditMatchesWakes ==
    HasStore =>
        \A m \in Msgs : \A k \in WakeSinks :
            /\ woken[m][k] > 0 =>
                  /\ decision[m] # "none" /\ idem[m] # 0
                  /\ idem[m] \in matched
                  /\ delivery[idem[m]][k] # "none"
            /\ Delivered(m, k) => woken[m][k] > 0

\* The sink_target row of k says what the configuration says.
TargetAgrees(k) == target[k] = IF k \in Sinks THEN "enabled" ELSE "disabled"

\* sink_target agrees with the configuration whenever deliveries are queued.
TargetsMatchConfig ==
    pc \in {"queueDelivery", "dbDelivered", "attempt", "sending"} /\ HasStore =>
        \A k \in Targets : TargetAgrees(k)

\* What skill/sink-config/SKILL.md promises of the db sink: one daemon_event per
\* message, "not duplicated on replay".
OneEventPerMessage ==
    \A d, e \in 1..Len(event) : event[d] = event[e] => d = e

\* With a store, a delivered row is final and the session is not woken again by
\* that sink, however often the process dies before mark_processed and the server
\* replays the message (already_delivered in process_wake_queue).
NoWakeAfterDelivered ==
    [][HasStore =>
        \A m \in Msgs : \A k \in WakeSinks :
            Delivered(m, k) => Delivered(m, k)' /\ woken'[m][k] = woken[m][k]]_vars

\* What process_wake_queue and the managers do to the verdicts, the wakes, the
\* sink_delivery rows and runtime.json, seen as an inbox.
Noted == {p \in Msgs \X Sinks : Delivered(p[1], p[2])}
Recorded == {m \in Msgs : m[2] \in Elems(file[m[1]])}

Promise == INSTANCE Inbox
    WITH Notes <- HasStore, Cap <- WakeCap, noted <- Noted, recorded <- Recorded

\* The inbound path implements the inbox, crashes, replays and failing statements
\* included: in particular, a message that runtime.json holds is neither evaluated
\* nor sent to an agent session again as long as it is held.
KeepsPromise == Promise!Spec

\* A daemon that stays up processes every message that its servers keep
\* replaying, with a gateway that answers now and then: neither a full queue nor
\* a failed send loses one for good.
EverythingIsProcessed ==
    /\ ReplayFairness /\ GatewayFairness /\ SupervisorFairness
    /\ <>[](phase = "running")
    =>
        \A s \in Servers : \A id \in Ids :
            <<s, id>> \notin BelowFloor => <>(id \in Elems(file[s]))

\* A drain ends, whatever the gateway does: five seconds after the router saw the
\* shutdown, the next attempt, answer or sleep makes it return.
DrainEnds == deadline # "none" ~> (pc = "exited" \/ phase = "down")

-----------------------------------------------------------------------------
(***************************************************************************)
(* The inductive invariant behind the safety properties: what the router   *)
(* knows at each statement about the message and the sink in hand, how the *)
(* index and the event rows fit together, and where every pending id is.   *)
(***************************************************************************)
SendPcs == {"attempt", "sending", "markDelivered", "markFailed", "backoff"}
IndexedPcs == SendPcs \cup {"matches", "target", "queueDelivery", "dbDelivered"}
SinkPcs == IndexedPcs \cup {"lookup", "insertEvent", "insertIdempotency"}
ReconcilePcs == {"reconcile", "reconcileDisabled"}

RouterInv ==
    /\ pc \notin {"idle", "exited"} => cur \in Msgs
    /\ pc = "idle" => cur = NoMsg
    /\ pc \in StorePcs => HasStore
    /\ pc = "reconcileDisabled" => sink \in DisabledSinks
    /\ pc \in SinkPcs => sink \in Sinks /\ todo \subseteq WakeSinks
    /\ pc \in SendPcs => sink \in WakeSinks
    /\ pc = "dbDelivered" => sink = DbSink
    /\ HasStore /\ pc \in IndexedPcs \cup {"insertIdempotency"} => ev # 0
    /\ wire # "none" => pc = "sending"
    /\ pc = "decide" => verdict[cur] \in Verdicts
    /\ pc \in ReconcilePcs \cup SinkPcs => verdict[cur] = "deliver"

IndexInv ==
    /\ \A m \in Msgs : idem[m] # 0 => event[idem[m]] = m
    /\ pc \in {"insertEvent", "insertIdempotency"} => idem[cur] = 0
    /\ pc = "insertIdempotency" => event[ev] = cur
    /\ HasStore /\ pc \in IndexedPcs => ev = idem[cur]
    /\ DeliveriesOnIndexedEvents

\* The current run of the daemon has left no orphan and holds no unindexed event.
Tidy == phase # "down" /\ pc \notin {"insertIdempotency", "exited"}

\* Every run before it has left at most one.
OrphanInv == Cardinality(Orphans) + (IF Tidy THEN 1 ELSE 0) <= starts

AuditInv ==
    /\ AuditMatchesWakes
    /\ HasStore /\ pc \in ReconcilePcs \cup SinkPcs => decision[cur] # "none"
    /\ HasStore /\ pc \in IndexedPcs \ {"matches"} => ev \in matched
    /\ HasStore /\ pc \in SendPcs =>
          delivery[ev][sink] \in {"queued", "attempted", "failed"}
    /\ pc = "markDelivered" \/ wire = "accepted" => woken[cur][sink] > 0

ProgressInv ==
    /\ pc \in SinkPcs => \A k \in Sinks \ (todo \cup {sink}) : Reached(cur, k)
    /\ pc = "finish" => Settled(cur)

FlightInv ==
    /\ PendingIsInFlight
    /\ OneEnvelopePerMessage
    /\ phase = "down" =>
          /\ pc = "idle" /\ queue = <<>> /\ deadline = "none"
          /\ \A s \in Servers : /\ pending[s] = {} /\ offering[s] = NoId
                                /\ link[s] = "down" /\ recent[s] = <<>>
    /\ phase # "down" /\ pc # "exited" => file = recent
    /\ \A s \in Servers : Len(file[s]) <= DedupeWindow /\ Len(recent[s]) <= DedupeWindow

TargetInv ==
    HasStore =>
        /\ \A k \in RemovedSinks : target[k] # "absent"
        /\ pc \in ReconcilePcs => \A k \in ConfiguredSinks \ todo : TargetAgrees(k)
        /\ pc = "reconcileDisabled" => sink \in todo /\ target[sink] = "enabled"
        /\ pc \in SinkPcs => \A k \in Targets : TargetAgrees(k)

SettledInv ==
    \A s \in Servers : \A id \in Elems(file[s]) \cup Elems(recent[s]) : Settled(<<s, id>>)

Inv ==
    /\ TypeOK /\ RouterInv /\ IndexInv /\ AuditInv /\ ProgressInv /\ FlightInv
    /\ TargetInv /\ SettledInv
=============================================================================
