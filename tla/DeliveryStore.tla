---------------------------- MODULE DeliveryStore ----------------------------
(***************************************************************************)
(* The SQLite delivery store of src/src/storage.rs.                        *)
(*                                                                         *)
(* with_connection opens a connection for each call and no call begins a   *)
(* transaction, so every SQL statement commits by itself: the operators    *)
(* below are single statements, and the caller's program counter says      *)
(* which one runs next.  A process that dies between two of them leaves    *)
(* the tables as the last one left them.                                   *)
(*                                                                         *)
(* Tables: attention_decision (decision), daemon_event (event; a row's id  *)
(* is its index), the receptor_match and sink_delivery rows that reference *)
(* an event (matched, delivery), event_idempotency (idem; 0 = no row) and  *)
(* sink_target (target).  ingress_source holds one row per server, which   *)
(* is inserted before any row that references it and never removed; it is  *)
(* left out, as are the columns nothing reads back (timestamps, payloads,  *)
(* snapshots).                                                             *)
(***************************************************************************)
EXTENDS Naturals, Sequences

CONSTANTS
    Servers,        \* configured servers (server_key)
    Ids,            \* message ids
    WakeSinks,      \* enabled agent_session_wake sinks
    DbSink,         \* the first enabled db sink, or NoSink
    NoSink,
    DisabledSinks,  \* sinks the config lists with enabled = false
    RemovedSinks    \* sinks of an earlier config that still have a sink_target

Msgs == Servers \X Ids

\* run_supervisor opens a DeliveryStore only when a db sink is enabled.
HasStore == DbSink # NoSink

\* The sinks a receptor-accepted message goes to.
Sinks == WakeSinks \cup (IF HasStore THEN {DbSink} ELSE {})

ConfiguredSinks == Sinks \cup DisabledSinks
Targets == ConfiguredSinks \cup RemovedSinks

ASSUME SinkAssumption ==
    /\ NoSink \notin WakeSinks \cup DisabledSinks \cup RemovedSinks
    /\ DbSink \notin WakeSinks \cup DisabledSinks \cup RemovedSinks
    /\ DisabledSinks \cap WakeSinks = {}
    /\ RemovedSinks \cap (WakeSinks \cup DisabledSinks) = {}

VARIABLES
    decision,   \* attention_decision: [Msgs -> verdict or "none"]
    event,      \* daemon_event: the message of each row, in id order
    matched,    \* receptor_match: the events that have rows
    delivery,   \* sink_delivery: per event and sink its status, "none" = no row
    idem,       \* event_idempotency: [Msgs -> daemon_event id, 0 = no row]
    target      \* sink_target: [Targets -> "absent" | "enabled" | "disabled"]

storeVars == <<decision, event, matched, delivery, idem, target>>

Verdicts == {"deliver", "reject"}
Status == {"none", "queued", "attempted", "failed", "delivered"}

StoreTypeOK ==
    /\ decision \in [Msgs -> Verdicts \cup {"none"}]
    /\ event \in Seq(Msgs)
    /\ matched \subseteq 1..Len(event)
    /\ delivery \in Seq([Sinks -> Status]) /\ Len(delivery) = Len(event)
    /\ idem \in [Msgs -> 0..Len(event)]
    /\ target \in [Targets -> {"absent", "enabled", "disabled"}]

StoreInit ==
    /\ decision = [m \in Msgs |-> "none"]
    /\ event = <<>> /\ matched = {} /\ delivery = <<>>
    /\ idem = [m \in Msgs |-> 0]
    /\ target = [k \in Targets |-> IF k \in RemovedSinks THEN "enabled" ELSE "absent"]

\* The upsert of record_attention_decision.
UpsertDecision(m, v) ==
    /\ decision' = [decision EXCEPT ![m] = v]
    /\ UNCHANGED <<event, matched, delivery, idem, target>>

\* upsert_canonical_event, the INSERT INTO daemon_event.
InsertEvent(m) ==
    /\ event' = Append(event, m)
    /\ delivery' = Append(delivery, [k \in Sinks |-> "none"])
    /\ UNCHANGED <<decision, matched, idem, target>>

\* upsert_canonical_event, the INSERT INTO event_idempotency.
InsertIdempotency(m, e) ==
    /\ idem' = [idem EXCEPT ![m] = e]
    /\ UNCHANGED <<decision, event, matched, delivery, target>>

\* upsert_receptor_matches: the rows of one evaluation.
UpsertReceptorMatches(e) ==
    /\ matched' = matched \cup {e}
    /\ UNCHANGED <<decision, event, delivery, idem, target>>

\* upsert_sink_target also re-enables the row; soft_disable_sink_target and
\* soft_disable_missing_sink_targets disable it.
SetTargets(ks, state) ==
    /\ target' = [k \in Targets |->
                    IF k \in ks /\ ~(state = "disabled" /\ target[k] = "absent")
                    THEN state ELSE target[k]]
    /\ UNCHANGED <<decision, event, matched, delivery, idem>>

SetDelivery(e, k, status) ==
    /\ delivery' = [delivery EXCEPT ![e][k] = status]
    /\ UNCHANGED <<decision, event, matched, idem, target>>

\* upsert_sink_delivery: a delivered row stays delivered, any other is queued.
UpsertSinkDelivery(e, k) ==
    SetDelivery(e, k, IF delivery[e][k] = "delivered" THEN "delivered" ELSE "queued")

MarkDeliveryAttempted(e, k) == SetDelivery(e, k, "attempted")
MarkDeliveryFailed(e, k) == SetDelivery(e, k, "failed")
MarkDeliveryDelivered(e, k) == SetDelivery(e, k, "delivered")

\* The ticket's already_delivered.
AlreadyDelivered(e, k) == delivery[e][k] = "delivered"
=============================================================================
