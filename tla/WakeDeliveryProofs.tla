------------------------- MODULE WakeDeliveryProofs -------------------------
(***************************************************************************)
(* Proofs about WakeDelivery, for every value of its constants.            *)
(*                                                                         *)
(* The invariant Inv is proved inductive one conjunct at a time, in the    *)
(* order in which the conjuncts rest on each other: types and the router's *)
(* local knowledge, then the index of events, the audit rows, the progress *)
(* through the sinks, the messages in flight, the sink targets, and last   *)
(* the recorded messages.  In each step lemma the first cases are the      *)
(* reasons why a step is harmless (it leaves alone what the conjunct is    *)
(* about); the cases after them are the actions, citing those reasons or   *)
(* arguing the change.                                                     *)
(***************************************************************************)
EXTENDS WakeDelivery, QueueFacts, FiniteSetTheorems, TLAPS

-----------------------------------------------------------------------------
(* The runtime store. *)

\* insert_recent's trimming loop leaves a sequence within the window, drops ids
\* without adding any, and leaves a sequence alone that is within the window.
LEMMA TrimRecentFacts ==
    ASSUME NEW q \in Seq(Ids)
    PROVE  /\ TrimRecent(q) \in Seq(Ids)
           /\ Len(TrimRecent(q)) <= DedupeWindow
           /\ Elems(TrimRecent(q)) \subseteq Elems(q)
           /\ Len(q) <= DedupeWindow => TrimRecent(q) = q
<1> USE WindowAssumption
<1>1. CASE Len(q) <= DedupeWindow
  BY <1>1 DEF TrimRecent, Elems
<1>2. CASE Len(q) > DedupeWindow
  <2> DEFINE lo == Len(q) - DedupeWindow + 1
             r == SubSeq(q, lo, Len(q))
  <2>1. lo \in 1..Len(q)+1 /\ Len(q) \in Nat
    BY <1>2
  <2>2. /\ r \in Seq(Ids)
        /\ Len(r) = DedupeWindow
        /\ \A i \in 1..Len(r) : r[i] = q[lo + i - 1] /\ lo + i - 1 \in 1..Len(q)
    BY <1>2, <2>1
  <2>3. TrimRecent(q) = r
    BY <1>2, <2>1 DEF TrimRecent
  <2> HIDE DEF r, lo
  <2>4. Elems(r) \subseteq Elems(q)
    BY <2>2 DEF Elems
  <2> QED
    BY <1>2, <2>1, <2>2, <2>3, <2>4
<1> QED
  BY <1>1, <1>2

\* What mark_processed does to recent_ids: it adds at most the processed id, and
\* the window bounds the result.
LEMMA InsertRecentFacts ==
    ASSUME NEW q \in Seq(Ids), NEW id \in Ids
    PROVE  /\ InsertRecent(q, id) \in Seq(Ids)
           /\ Len(InsertRecent(q, id)) <= DedupeWindow
           /\ Elems(InsertRecent(q, id)) \subseteq Elems(q) \cup {id}
<1> DEFINE p == IF id \in Elems(q) THEN q ELSE Append(q, id)
<1>1. p \in Seq(Ids) /\ Elems(p) \subseteq Elems(q) \cup {id}
  BY DEF Elems
<1>2. InsertRecent(q, id) = TrimRecent(p)
  BY DEF InsertRecent
<1> HIDE DEF p
<1> QED
  BY <1>1, <1>2, TrimRecentFacts

-----------------------------------------------------------------------------
(* Types. *)

\* Writing one sink_delivery row keeps the tables well typed and adds no event.
LEMMA SetDeliveryType ==
    ASSUME StoreTypeOK, NEW e \in 1..Len(event), NEW k \in Sinks, NEW status \in Status,
           SetDelivery(e, k, status)
    PROVE  StoreTypeOK' /\ event' = event
<1>1. [delivery[e] EXCEPT ![k] = status] \in [Sinks -> Status]
  BY DEF StoreTypeOK
<1>2. delivery' \in Seq([Sinks -> Status]) /\ Len(delivery') = Len(delivery)
  BY <1>1 DEF SetDelivery, StoreTypeOK
<1> QED
  BY <1>2 DEF SetDelivery, StoreTypeOK

\* Moving on in the loop over the wake sinks keeps the router well typed.
LEMMA NextWakeSinkType ==
    ASSUME NEW rest \in SUBSET WakeSinks, NextWakeSink(rest)
    PROVE  /\ pc' \in Pcs /\ ev' = 0
           /\ sink' \in ConfiguredSinks \cup {NoSink}
           /\ todo' \subseteq ConfiguredSinks
BY DEF NextWakeSink, Pcs, StorePcs, ConfiguredSinks, Sinks

\* The branch that process_wake_queue takes after the verdict is well typed.
LEMMA AfterVerdictType ==
    ASSUME NEW v, AfterVerdict(v), TypeOK
    PROVE  /\ pc' \in Pcs /\ (ev' = 0 \/ ev' = ev)
           /\ sink' \in ConfiguredSinks \cup {NoSink}
           /\ todo' \subseteq ConfiguredSinks
<1>1. CASE v = "reject" \/ Sinks = {}
  BY <1>1 DEF AfterVerdict, TypeOK, Pcs
<1>2. CASE ~(v = "reject" \/ Sinks = {}) /\ HasStore
  BY <1>2 DEF AfterVerdict, TypeOK, Pcs, StorePcs
<1>3. CASE ~(v = "reject" \/ Sinks = {}) /\ ~HasStore
  BY <1>3, NextWakeSinkType DEF AfterVerdict
<1> QED
  BY <1>1, <1>2, <1>3

\* Every step of the daemon keeps the types.
LEMMA TypeStep == TypeOK /\ RouterInv /\ [Next]_vars => TypeOK'
<1> SUFFICES ASSUME TypeOK, RouterInv, [Next]_vars PROVE TypeOK'
  OBVIOUS
<1> USE WakeAssumption DEF TypeOK, StoreTypeOK, Verdicts, Status
<1> USE DEF aroundVars, procVars, runtimeVars, managerVars, routerVars, obsVars,
      storeVars
<1>1. CASE Start
  BY <1>1, TrimRecentFacts DEF Start, LoadRecent
<1>2. CASE Crash
  BY <1>2 DEF Crash, Down, Pcs
<1>3. CASE CtrlC
  BY <1>3 DEF CtrlC
<1>4. CASE SupervisorReturns
  BY <1>4 DEF SupervisorReturns, Down, Pcs
<1>5. ASSUME NEW s \in Servers, Connect(s) PROVE TypeOK'
  BY <1>5 DEF Connect, Flush
<1>6. ASSUME NEW s \in Servers, Disconnect(s) PROVE TypeOK'
  BY <1>6 DEF Disconnect, Flush
<1>7. ASSUME NEW s \in Servers, SessionRefreshed(s) \/ StopManager(s) PROVE TypeOK'
  BY <1>7 DEF SessionRefreshed, StopManager
<1>8. ASSUME NEW s \in Servers, NEW id \in Ids, ReceiveMessage(s, id) PROVE TypeOK'
  BY <1>8 DEF ReceiveMessage, IsNew
<1>9. ASSUME NEW s \in Servers, OfferAccepted(s) PROVE TypeOK'
  <2>1. offering[s] \in Ids /\ <<s, offering[s]>> \in Msgs
    BY <1>9 DEF OfferAccepted, Msgs
  <2>2. queue' \in Seq(Msgs) /\ Len(queue') = Len(queue) + 1
    BY <1>9, <2>1 DEF OfferAccepted
  <2> QED
    BY <1>9, <2>2 DEF OfferAccepted
<1>10. ASSUME NEW s \in Servers, OfferRefused(s) PROVE TypeOK'
  BY <1>10 DEF OfferRefused, Flush
<1>11. CASE TakeNext
  BY <1>11 DEF TakeNext, Pcs
<1>12. CASE NoticeShutdown
  BY <1>12 DEF NoticeShutdown
<1>13. CASE DrainDone
  BY <1>13 DEF DrainDone, Pcs
<1>14. ASSUME NEW v \in Verdicts, Evaluate(v) PROVE TypeOK'
  <2>1. /\ pc' \in Pcs /\ (ev' = 0 \/ ev' = ev)
        /\ sink' \in ConfiguredSinks \cup {NoSink}
        /\ todo' \subseteq ConfiguredSinks
    BY <1>14, AfterVerdictType DEF Evaluate, Pcs, StorePcs
  <2>2. verdict' \in [Msgs -> Verdicts \cup {"none"}]
    BY <1>14 DEF Evaluate
  <2> QED
    BY <1>14, <2>1, <2>2 DEF Evaluate
<1>15. CASE RecordAttentionDecision
  <2>1. /\ pc' \in Pcs /\ (ev' = 0 \/ ev' = ev)
        /\ sink' \in ConfiguredSinks \cup {NoSink}
        /\ todo' \subseteq ConfiguredSinks
    BY <1>15, AfterVerdictType DEF RecordAttentionDecision
  <2>2. decision' \in [Msgs -> Verdicts \cup {"none"}]
    BY <1>15 DEF RecordAttentionDecision, UpsertDecision, RouterInv
  <2> QED
    BY <1>15, <2>1, <2>2 DEF RecordAttentionDecision, UpsertDecision
<1>16. ASSUME NEW k \in ConfiguredSinks, ReconcileTarget(k) PROVE TypeOK'
  BY <1>16 DEF ReconcileTarget, SetTargets, Targets, Pcs, StorePcs
<1>17. CASE ReconcileDisabledTarget
  BY <1>17 DEF ReconcileDisabledTarget, SetTargets, Pcs, StorePcs
<1>18. CASE ReconcileRemoved
  <2>1. target' \in [Targets -> {"absent", "enabled", "disabled"}]
    BY <1>18 DEF ReconcileRemoved, SetTargets
  <2>2. DbSink \in ConfiguredSinks \cup {NoSink} /\ WakeSinks \subseteq ConfiguredSinks
    BY DEF ConfiguredSinks, Sinks, HasStore
  <2> QED
    BY <1>18, <2>1, <2>2 DEF ReconcileRemoved, SetTargets, Pcs, StorePcs
<1>19. CASE LookupEvent
  <2>1. cur \in Msgs
    BY <1>19 DEF LookupEvent, RouterInv
  <2>2. ev' \in 0..Len(event)
    BY <1>19, <2>1 DEF LookupEvent
  <2> QED
    BY <1>19, <2>2 DEF LookupEvent, Pcs, StorePcs
<1>20. CASE InsertDaemonEvent
  <2>1. cur \in Msgs
    BY <1>20 DEF InsertDaemonEvent, RouterInv
  <2>2. event' \in Seq(Msgs) /\ Len(event') = Len(event) + 1
    BY <1>20, <2>1 DEF InsertDaemonEvent, InsertEvent
  <2>3. delivery' \in Seq([Sinks -> Status]) /\ Len(delivery') = Len(delivery) + 1
    BY <1>20 DEF InsertDaemonEvent, InsertEvent
  <2> QED
    BY <1>20, <2>2, <2>3 DEF InsertDaemonEvent, InsertEvent, Pcs, StorePcs
<1>21. CASE InsertEventIdempotency
  BY <1>21 DEF InsertEventIdempotency, InsertIdempotency, RouterInv, Pcs, StorePcs
<1>22. CASE RecordReceptorMatches
  BY <1>22 DEF RecordReceptorMatches, UpsertReceptorMatches, Pcs, StorePcs, RouterInv,
     IndexedPcs
<1>23. CASE UpsertSinkTarget
  BY <1>23 DEF UpsertSinkTarget, SetTargets, Targets, Pcs, StorePcs
<1>24. CASE QueueSinkDelivery
  <2>1. sink \in Sinks /\ todo \subseteq WakeSinks /\ ev \in 1..Len(event)
    BY <1>24 DEF QueueSinkDelivery, RouterInv, SinkPcs, IndexedPcs, StorePcs
  <2>2. StoreTypeOK' /\ event' = event
    BY <1>24, <2>1, SetDeliveryType DEF QueueSinkDelivery, UpsertSinkDelivery
  <2>3. /\ pc' \in Pcs /\ (ev' = 0 \/ ev' = ev)
        /\ sink' \in ConfiguredSinks \cup {NoSink}
        /\ todo' \subseteq ConfiguredSinks
    BY <1>24, <2>1, NextWakeSinkType DEF QueueSinkDelivery, Pcs, StorePcs
  <2> QED
    BY <1>24, <2>2, <2>3 DEF QueueSinkDelivery
<1>25. CASE MarkDbDelivered
  <2>1. sink \in Sinks /\ todo \subseteq WakeSinks /\ ev \in 1..Len(event)
    BY <1>25 DEF MarkDbDelivered, RouterInv, SinkPcs, IndexedPcs, SendPcs, StorePcs
  <2>2. StoreTypeOK' /\ event' = event
    BY <1>25, <2>1, SetDeliveryType DEF MarkDbDelivered, MarkDeliveryDelivered
  <2>3. /\ pc' \in Pcs /\ ev' = 0
        /\ sink' \in ConfiguredSinks \cup {NoSink}
        /\ todo' \subseteq ConfiguredSinks
    BY <1>25, <2>1, NextWakeSinkType DEF MarkDbDelivered
  <2> QED
    BY <1>25, <2>2, <2>3 DEF MarkDbDelivered
<1>26. CASE Attempt
  <2>1. sink \in Sinks /\ (HasStore => ev \in 1..Len(event))
    BY <1>26 DEF Attempt, RouterInv, SinkPcs, IndexedPcs, SendPcs, StorePcs
  <2>2. StoreTypeOK' /\ event' = event
    BY <1>26, <2>1, SetDeliveryType DEF Attempt, MarkDeliveryAttempted
  <2> QED
    BY <1>26, <2>2 DEF Attempt, Pcs
<1>27. CASE MarkDelivered
  <2>1. sink \in Sinks /\ todo \subseteq WakeSinks /\ ev \in 1..Len(event)
    BY <1>27 DEF MarkDelivered, RouterInv, SinkPcs, IndexedPcs, SendPcs, StorePcs
  <2>2. StoreTypeOK' /\ event' = event
    BY <1>27, <2>1, SetDeliveryType DEF MarkDelivered, MarkDeliveryDelivered
  <2>3. /\ pc' \in Pcs /\ ev' = 0
        /\ sink' \in ConfiguredSinks \cup {NoSink}
        /\ todo' \subseteq ConfiguredSinks
    BY <1>27, <2>1, NextWakeSinkType DEF MarkDelivered
  <2> QED
    BY <1>27, <2>2, <2>3 DEF MarkDelivered
<1>28. CASE MarkFailed
  <2>1. sink \in Sinks /\ ev \in 1..Len(event)
    BY <1>28 DEF MarkFailed, RouterInv, SinkPcs, IndexedPcs, SendPcs, StorePcs
  <2>2. StoreTypeOK' /\ event' = event
    BY <1>28, <2>1, SetDeliveryType DEF MarkFailed, MarkDeliveryFailed
  <2> QED
    BY <1>28, <2>2 DEF MarkFailed, Pcs
<1>29. CASE Backoff
  BY <1>29 DEF Backoff, Pcs
<1>30. CASE SendTimesOut
  BY <1>30 DEF SendTimesOut, Pcs
<1>31. CASE Finish
  <2>1. cur[1] \in Servers /\ cur[2] \in Ids
    BY <1>31 DEF Finish, RouterInv, Msgs
  <2>2. recent' \in [Servers -> Seq(Ids)]
    BY <1>31, <2>1, InsertRecentFacts DEF Finish, MarkProcessed
  <2>3. pending' \in [Servers -> SUBSET Ids]
    BY <1>31, <2>1 DEF Finish, MarkProcessed
  <2> QED
    BY <1>31, <2>1, <2>2, <2>3 DEF Finish, Pcs
<1>32. CASE DeadlinePasses
  BY <1>32 DEF DeadlinePasses
<1>33. CASE GatewayAccepts
  <2>1. cur \in Msgs /\ sink \in WakeSinks
    BY <1>33 DEF GatewayAccepts, RouterInv, SendPcs
  <2>2. (IF woken[cur][sink] < WakeCap THEN woken[cur][sink] + 1 ELSE woken[cur][sink])
            \in 0..WakeCap
    BY <2>1 DEF WakeCap
  <2>3. woken' \in [Msgs -> [WakeSinks -> 0..WakeCap]]
    BY <1>33, <2>1, <2>2 DEF GatewayAccepts
  <2> QED
    BY <1>33, <2>3 DEF GatewayAccepts
<1>34. CASE SendSucceeds
  <2>1. todo \subseteq WakeSinks
    BY <1>34 DEF SendSucceeds, RouterInv, SinkPcs, IndexedPcs, SendPcs, StorePcs
  <2>2. /\ pc' \in Pcs /\ (ev' = 0 \/ ev' = ev)
        /\ sink' \in ConfiguredSinks \cup {NoSink}
        /\ todo' \subseteq ConfiguredSinks
    <3>1. CASE HasStore
      BY <1>34, <3>1 DEF SendSucceeds, Pcs, StorePcs
    <3>2. CASE ~HasStore
      BY <1>34, <2>1, <3>2, NextWakeSinkType DEF SendSucceeds
    <3> QED
      BY <3>1, <3>2
  <2> QED
    BY <1>34, <2>2 DEF SendSucceeds
<1>35. CASE SendFails
  BY <1>35 DEF SendFails, Pcs, StorePcs
<1>36. CASE FlushFails
  <2>1. cur[1] \in Servers /\ cur[2] \in Ids
    BY <1>36 DEF FlushFails, RouterInv, Msgs
  <2>2. recent' \in [Servers -> Seq(Ids)]
    BY <1>36, <2>1, InsertRecentFacts DEF FlushFails, MarkProcessed
  <2>3. pending' \in [Servers -> SUBSET Ids]
    BY <1>36, <2>1 DEF FlushFails, MarkProcessed
  <2> QED
    BY <1>36, <2>1, <2>2, <2>3 DEF FlushFails, Pcs
<1>37. CASE StoreFails
  BY <1>37 DEF StoreFails, Pcs
<1>38. CASE UNCHANGED vars
  BY <1>38 DEF vars
<1> QED
  BY <1>1, <1>2, <1>3, <1>4, <1>5, <1>6, <1>7, <1>8, <1>9, <1>10, <1>11, <1>12, <1>13,
     <1>14, <1>15, <1>16, <1>17, <1>18, <1>19, <1>20, <1>21, <1>22, <1>23, <1>24,
     <1>25, <1>26, <1>27, <1>28, <1>29, <1>30, <1>31, <1>32, <1>33, <1>34, <1>35,
     <1>36, <1>37, <1>38 DEF Next, ManagerNext, RouterStep

-----------------------------------------------------------------------------
(* The router. *)

\* Every step keeps what each statement of process_wake_queue knows about the
\* message, the sink and the event in hand.
LEMMA RouterInvStep == TypeOK /\ RouterInv /\ [Next]_vars => RouterInv'
<1> SUFFICES ASSUME TypeOK, RouterInv, [Next]_vars PROVE RouterInv'
  OBVIOUS
<1> USE DEF RouterInv, SendPcs, IndexedPcs, SinkPcs, ReconcilePcs, StorePcs, Verdicts,
      obsVars, storeVars
<1>1. CASE UNCHANGED <<routerVars, verdict>>
  BY <1>1 DEF routerVars
<1>2. CASE Crash
  BY <1>2 DEF Crash, Down
<1>3. CASE SupervisorReturns
  BY <1>3 DEF SupervisorReturns, Down
<1>4. CASE TakeNext
  BY <1>4, WakeAssumption DEF TakeNext, TypeOK
<1>5. CASE NoticeShutdown
  BY <1>5 DEF NoticeShutdown
<1>6. CASE DrainDone
  BY <1>6 DEF DrainDone
<1>7. ASSUME NEW v \in Verdicts, Evaluate(v) PROVE RouterInv'
  BY <1>7 DEF Evaluate, AfterVerdict, NextWakeSink, TypeOK, Sinks
<1>8. CASE RecordAttentionDecision
  BY <1>8 DEF RecordAttentionDecision, AfterVerdict, NextWakeSink, Sinks
<1>9. ASSUME NEW k \in ConfiguredSinks, ReconcileTarget(k) PROVE RouterInv'
  BY <1>9 DEF ReconcileTarget
<1>10. CASE ReconcileDisabledTarget
  BY <1>10 DEF ReconcileDisabledTarget
<1>11. CASE ReconcileRemoved
  BY <1>11, SinkAssumption DEF ReconcileRemoved, Sinks
<1>12. CASE LookupEvent
  BY <1>12 DEF LookupEvent, TypeOK, StoreTypeOK
<1>13. CASE InsertDaemonEvent
  BY <1>13 DEF InsertDaemonEvent, TypeOK, StoreTypeOK
<1>14. CASE InsertEventIdempotency
  BY <1>14 DEF InsertEventIdempotency
<1>15. CASE RecordReceptorMatches
  BY <1>15 DEF RecordReceptorMatches
<1>16. CASE UpsertSinkTarget
  BY <1>16 DEF UpsertSinkTarget
<1>17. CASE QueueSinkDelivery
  BY <1>17 DEF QueueSinkDelivery, NextWakeSink, Sinks
<1>18. CASE MarkDbDelivered
  BY <1>18 DEF MarkDbDelivered, NextWakeSink, Sinks
<1>19. CASE Attempt
  BY <1>19 DEF Attempt
<1>20. CASE MarkDelivered
  BY <1>20 DEF MarkDelivered, NextWakeSink, Sinks
<1>21. CASE MarkFailed
  BY <1>21 DEF MarkFailed
<1>22. CASE Backoff
  BY <1>22 DEF Backoff
<1>23. CASE SendTimesOut
  BY <1>23 DEF SendTimesOut
<1>24. CASE Finish
  BY <1>24 DEF Finish, MarkProcessed
<1>25. CASE DeadlinePasses
  BY <1>25 DEF DeadlinePasses
<1>26. CASE GatewayAccepts
  BY <1>26 DEF GatewayAccepts
<1>27. CASE SendSucceeds
  BY <1>27 DEF SendSucceeds, NextWakeSink, Sinks
<1>28. CASE SendFails
  BY <1>28 DEF SendFails
<1>29. CASE FlushFails
  BY <1>29 DEF FlushFails, MarkProcessed
<1>30. CASE StoreFails
  BY <1>30 DEF StoreFails
<1> QED
  BY <1>1, <1>2, <1>3, <1>4, <1>5, <1>6, <1>7, <1>8, <1>9, <1>10, <1>11, <1>12, <1>13,
     <1>14, <1>15, <1>16, <1>17, <1>18, <1>19, <1>20, <1>21, <1>22, <1>23, <1>24,
     <1>25, <1>26, <1>27, <1>28, <1>29, <1>30
  DEF Next, ManagerNext, RouterStep, vars, Start, CtrlC, Connect, Disconnect,
     SessionRefreshed, StopManager, ReceiveMessage, OfferAccepted, OfferRefused, obsVars

-----------------------------------------------------------------------------
(* The index of events. *)

\* Writing a sink_delivery row of an indexed event keeps deliveries on indexed
\* events.
LEMMA SetDeliveryIndexed ==
    ASSUME StoreTypeOK, DeliveriesOnIndexedEvents,
           NEW e \in 1..Len(event), NEW k \in Sinks, NEW status \in Status,
           idem[event[e]] = e, SetDelivery(e, k, status)
    PROVE  DeliveriesOnIndexedEvents'
<1>1. \A d \in 1..Len(event) : d # e => delivery'[d] = delivery[d]
  BY DEF SetDelivery, StoreTypeOK
<1>2. event' = event /\ idem' = idem /\ matched' = matched
  BY DEF SetDelivery
<1> QED
  BY <1>1, <1>2 DEF DeliveriesOnIndexedEvents

\* Every step keeps event_idempotency and daemon_event consistent: the index points
\* to an event of its own message, and the event in hand is the indexed one from
\* upsert_canonical_event on.
LEMMA IndexInvStep == TypeOK /\ RouterInv /\ IndexInv /\ [Next]_vars => IndexInv'
<1> SUFFICES ASSUME TypeOK, RouterInv, IndexInv, [Next]_vars PROVE IndexInv'
  OBVIOUS
<1> DEFINE indexVars == <<event, matched, delivery, idem>>
<1> USE DEF SendPcs, IndexedPcs, SinkPcs, ReconcilePcs, StorePcs
<1>1. CASE UNCHANGED <<indexVars, pc, cur, ev>>
  BY <1>1 DEF IndexInv, DeliveriesOnIndexedEvents
<1>2. CASE UNCHANGED indexVars /\ pc' \notin {"insertEvent", "insertIdempotency"} \cup IndexedPcs
  BY <1>2 DEF IndexInv, DeliveriesOnIndexedEvents
<1>3. CASE UNCHANGED indexVars /\ ~HasStore /\ pc' \notin StorePcs
  BY <1>3 DEF IndexInv, DeliveriesOnIndexedEvents
<1>4. CASE UNCHANGED <<indexVars, cur, ev>> /\ pc \in IndexedPcs /\ pc' \in IndexedPcs
  BY <1>4 DEF IndexInv, DeliveriesOnIndexedEvents
<1>5. CASE LookupEvent
  BY <1>5 DEF LookupEvent, IndexInv, DeliveriesOnIndexedEvents, storeVars
<1>6. CASE InsertDaemonEvent
  <2>1. cur \in Msgs /\ idem[cur] = 0
    BY <1>6 DEF InsertDaemonEvent, RouterInv, IndexInv
  <2>2. /\ Len(event') = Len(event) + 1
        /\ event'[Len(event) + 1] = cur
        /\ delivery'[Len(event) + 1] = [k \in Sinks |-> "none"]
        /\ \A e \in 1..Len(event) : event'[e] = event[e] /\ delivery'[e] = delivery[e]
    BY <1>6, <2>1 DEF InsertDaemonEvent, InsertEvent, TypeOK, StoreTypeOK
  <2>3. /\ UNCHANGED <<matched, idem, cur>>
        /\ ev' = Len(event) + 1 /\ pc' = "insertIdempotency"
    BY <1>6 DEF InsertDaemonEvent, InsertEvent
  <2>4. \A m \in Msgs : idem[m] \in 0..Len(event)
    BY DEF TypeOK, StoreTypeOK
  <2>5. matched \subseteq 1..Len(event) /\ Len(event) \in Nat
    BY DEF TypeOK, StoreTypeOK
  <2>6. DeliveriesOnIndexedEvents'
    BY <2>2, <2>3, <2>5 DEF IndexInv, DeliveriesOnIndexedEvents
  <2> QED
    BY <2>1, <2>2, <2>3, <2>4, <2>5, <2>6 DEF IndexInv
<1>7. CASE InsertEventIdempotency
  <2>1. cur \in Msgs /\ idem[cur] = 0 /\ event[ev] = cur
    BY <1>7 DEF InsertEventIdempotency, RouterInv, IndexInv
  <2>2. /\ idem' = [idem EXCEPT ![cur] = ev] /\ pc' = "matches"
        /\ UNCHANGED <<event, matched, delivery, cur, ev>>
    BY <1>7 DEF InsertEventIdempotency, InsertIdempotency
  <2>3. DeliveriesOnIndexedEvents'
    BY <2>1, <2>2 DEF IndexInv, DeliveriesOnIndexedEvents, TypeOK, StoreTypeOK
  <2> QED
    BY <2>1, <2>2, <2>3 DEF IndexInv, TypeOK, StoreTypeOK
<1>8. CASE RecordReceptorMatches
  <2>1. cur \in Msgs /\ HasStore
    BY <1>8 DEF RecordReceptorMatches, RouterInv
  <2>2. idem[event[ev]] = ev
    BY <1>8, <2>1 DEF RecordReceptorMatches, RouterInv, IndexInv
  <2>3. /\ matched' = matched \cup {ev} /\ pc' = "target"
        /\ UNCHANGED <<event, delivery, idem, cur, ev>>
    BY <1>8 DEF RecordReceptorMatches, UpsertReceptorMatches
  <2>4. DeliveriesOnIndexedEvents'
    BY <2>2, <2>3 DEF IndexInv, DeliveriesOnIndexedEvents
  <2> QED
    BY <1>8, <2>3, <2>4 DEF RecordReceptorMatches, IndexInv
<1>9. ASSUME pc \in IndexedPcs, HasStore, NEW status \in Status,
             SetDelivery(ev, sink, status), cur' = cur,
             \/ ev' = ev /\ pc' \in IndexedPcs
             \/ pc' \notin {"insertEvent", "insertIdempotency"} \cup IndexedPcs
      PROVE  IndexInv'
  <2>0. cur \in Msgs /\ sink \in Sinks /\ ev \in 1..Len(event)
    BY <1>9 DEF RouterInv, TypeOK
  <2>1. idem[event[ev]] = ev
    BY <1>9, <2>0 DEF IndexInv
  <2>2. DeliveriesOnIndexedEvents'
    BY <1>9, <2>0, <2>1, SetDeliveryIndexed DEF TypeOK, IndexInv
  <2>3. event' = event /\ idem' = idem
    BY <1>9 DEF SetDelivery
  <2> QED
    BY <1>9, <2>2, <2>3 DEF IndexInv
<1>10. CASE QueueSinkDelivery
  BY <1>9, <1>10 DEF QueueSinkDelivery, UpsertSinkDelivery, NextWakeSink, RouterInv,
     Status
<1>11. CASE MarkDbDelivered
  BY <1>9, <1>11 DEF MarkDbDelivered, MarkDeliveryDelivered, NextWakeSink, RouterInv,
     Status
<1>12. CASE MarkDelivered
  BY <1>9, <1>12 DEF MarkDelivered, MarkDeliveryDelivered, NextWakeSink, RouterInv,
     Status
<1>13. CASE MarkFailed
  BY <1>9, <1>13 DEF MarkFailed, MarkDeliveryFailed, RouterInv, Status
<1>14. CASE Attempt
  <2>1. CASE HasStore
    BY <1>9, <1>14, <2>1 DEF Attempt, MarkDeliveryAttempted, Status
  <2>2. CASE ~HasStore
    BY <1>3, <1>14, <2>2 DEF Attempt, storeVars
  <2> QED
    BY <2>1, <2>2
<1>15. ASSUME NEW v \in Verdicts, Evaluate(v) PROVE IndexInv'
  BY <1>2, <1>3, <1>15 DEF Evaluate, AfterVerdict, NextWakeSink, storeVars
<1>16. CASE RecordAttentionDecision
  BY <1>2, <1>16 DEF RecordAttentionDecision, UpsertDecision, AfterVerdict,
     NextWakeSink, RouterInv
<1>17. ASSUME NEW k \in ConfiguredSinks, ReconcileTarget(k) PROVE IndexInv'
  BY <1>2, <1>17 DEF ReconcileTarget, SetTargets
<1>18. CASE ReconcileDisabledTarget \/ ReconcileRemoved
  BY <1>2, <1>18 DEF ReconcileDisabledTarget, ReconcileRemoved, SetTargets
<1>19. CASE UpsertSinkTarget
  BY <1>4, <1>19 DEF UpsertSinkTarget, SetTargets
<1>20. CASE SendSucceeds
  BY <1>2, <1>3, <1>4, <1>20 DEF SendSucceeds, NextWakeSink, storeVars
<1>21. CASE SendFails \/ Backoff
  BY <1>2, <1>4, <1>21 DEF SendFails, Backoff, storeVars
<1>22. CASE \/ Crash \/ SupervisorReturns \/ TakeNext \/ DrainDone
            \/ SendTimesOut \/ Finish \/ FlushFails \/ StoreFails
  BY <1>2, <1>22 DEF Crash, SupervisorReturns, Down, TakeNext, DrainDone, SendTimesOut,
     Finish, FlushFails, StoreFails, storeVars
<1>23. CASE Start \/ CtrlC \/ NoticeShutdown \/ DeadlinePasses \/ GatewayAccepts \/ UNCHANGED vars
  BY <1>1, <1>23 DEF Start, CtrlC, NoticeShutdown, DeadlinePasses, GatewayAccepts,
     vars, routerVars, storeVars
<1>24. ASSUME NEW s \in Servers, ManagerNext(s) PROVE IndexInv'
  BY <1>1, <1>24 DEF ManagerNext, Connect, Disconnect, SessionRefreshed, StopManager,
     ReceiveMessage, OfferAccepted, OfferRefused, routerVars, storeVars
<1> QED
  BY <1>5, <1>6, <1>7, <1>8, <1>10, <1>11, <1>12, <1>13, <1>14, <1>15, <1>16, <1>17,
     <1>18, <1>19, <1>20, <1>21, <1>22, <1>23, <1>24
  DEF Next, RouterStep

-----------------------------------------------------------------------------
(* The audit rows. *)

\* A write to sink_delivery changes that row and no other.
LEMMA SetDeliveryRows ==
    ASSUME StoreTypeOK, NEW e \in 1..Len(event), NEW k \in Sinks, NEW status \in Status,
           SetDelivery(e, k, status)
    PROVE  /\ UNCHANGED <<decision, event, matched, idem, target>>
           /\ delivery'[e][k] = status
           /\ \A d \in 1..Len(event) : \A j \in Sinks :
                 d # e \/ j # k => delivery'[d][j] = delivery[d][j]
BY DEF SetDelivery, StoreTypeOK

\* Writing the row in hand keeps the audit property, provided that delivered is
\* written only for a wake the gateway took.
LEMMA SetDeliveryAudit ==
    ASSUME TypeOK, RouterInv, IndexInv, AuditInv, HasStore,
    pc \in IndexedPcs \ {"matches"},
           NEW status \in Status \ {"none"}, SetDelivery(ev, sink, status),
           woken' = woken,
           status = "delivered" /\ sink \in WakeSinks =>
               delivery[ev][sink] = "delivered" \/ woken[cur][sink] > 0
    PROVE  AuditMatchesWakes'
<1>1. cur \in Msgs /\ sink \in Sinks /\ ev \in 1..Len(event) /\ ev = idem[cur]
  BY DEF RouterInv, IndexInv, TypeOK, IndexedPcs, SendPcs, SinkPcs
<1>2. /\ UNCHANGED <<decision, event, matched, idem, target>>
      /\ delivery'[ev][sink] = status
      /\ \A d \in 1..Len(event) : \A j \in Sinks :
            d # ev \/ j # sink => delivery'[d][j] = delivery[d][j]
  BY <1>1, SetDeliveryRows DEF TypeOK
<1>3. SUFFICES ASSUME NEW m \in Msgs, NEW k \in WakeSinks
               PROVE  /\ woken[m][k] > 0 =>
                            /\ decision[m] # "none" /\ idem[m] # 0
                            /\ idem[m] \in matched
                            /\ delivery'[idem[m]][k] # "none"
                      /\ (idem[m] # 0 /\ delivery'[idem[m]][k] = "delivered") => woken[m][k] > 0
  BY <1>2 DEF AuditMatchesWakes, Delivered
<1>4. k \in Sinks /\ idem[m] \in 0..Len(event)
  BY DEF Sinks, TypeOK, StoreTypeOK
<1>5. /\ woken[m][k] > 0 => /\ decision[m] # "none" /\ idem[m] # 0
                            /\ idem[m] \in matched /\ delivery[idem[m]][k] # "none"
      /\ (idem[m] # 0 /\ delivery[idem[m]][k] = "delivered") => woken[m][k] > 0
  BY DEF AuditInv, AuditMatchesWakes, Delivered
<1>6. CASE idem[m] = ev /\ k = sink
  <2>1. idem[m] # 0 /\ idem[cur] # 0
    BY <1>1, <1>6
  <2>2. m = cur
    BY <1>1, <1>6, <2>1 DEF IndexInv
  <2> QED
    BY <1>1, <1>2, <1>5, <1>6, <2>2
<1>7. CASE idem[m] # ev \/ k # sink
  BY <1>1, <1>2, <1>4, <1>5, <1>7
<1> QED
  BY <1>6, <1>7

\* Every step keeps the audit rows ahead of the wakes.
LEMMA AuditInvStep == TypeOK /\ RouterInv /\ IndexInv /\ AuditInv /\ [Next]_vars => AuditInv'
<1> SUFFICES ASSUME TypeOK, RouterInv, IndexInv, AuditInv, [Next]_vars PROVE AuditInv'
  OBVIOUS
<1> DEFINE auditVars == <<decision, matched, delivery, idem, woken>>
<1> USE DEF SendPcs, IndexedPcs, SinkPcs, ReconcilePcs, StorePcs
<1>1. CASE UNCHANGED <<auditVars, pc, cur, sink, ev, wire>>
  BY <1>1 DEF AuditInv, AuditMatchesWakes, Delivered
<1>2. CASE UNCHANGED auditVars /\ pc' \notin ReconcilePcs \cup SinkPcs /\ wire' # "accepted"
  BY <1>2 DEF AuditInv, AuditMatchesWakes, Delivered
<1>3. CASE /\ UNCHANGED <<auditVars, cur>> /\ HasStore /\ wire' # "accepted"
           /\ pc \in ReconcilePcs \cup SinkPcs
           /\ pc' \in ReconcilePcs \cup {"lookup", "insertEvent", "insertIdempotency", "matches"}
  BY <1>3 DEF AuditInv, AuditMatchesWakes, Delivered
<1>4. CASE UNCHANGED auditVars /\ ~HasStore /\ pc' \notin StorePcs /\ wire' # "accepted"
  BY <1>4 DEF AuditInv, AuditMatchesWakes, Delivered
<1>5. CASE /\ UNCHANGED <<auditVars, cur, sink, ev>> /\ wire' # "accepted"
           /\ pc \in SendPcs /\ pc' \in SendPcs \ {"markDelivered"}
  BY <1>5 DEF AuditInv, AuditMatchesWakes, Delivered
<1>6. ASSUME NEW v \in Verdicts, Evaluate(v) PROVE AuditInv'
  BY <1>2, <1>4, <1>6 DEF Evaluate, AfterVerdict, NextWakeSink, storeVars, RouterInv
<1>7. CASE RecordAttentionDecision
  <2>1. cur \in Msgs /\ HasStore /\ verdict[cur] # "none" /\ wire = "none"
    BY <1>7 DEF RecordAttentionDecision, RouterInv, Verdicts
  <2>2. /\ decision' = [decision EXCEPT ![cur] = verdict[cur]]
        /\ UNCHANGED <<matched, delivery, idem, woken, wire, cur>>
        /\ pc' \in {"finish", "reconcile"}
    BY <1>7, <2>1 DEF RecordAttentionDecision, UpsertDecision, AfterVerdict, obsVars
  <2>3. decision'[cur] = verdict[cur] /\ \A m \in Msgs : m # cur => decision'[m] = decision[m]
    BY <2>1, <2>2 DEF TypeOK, StoreTypeOK
  <2>4. AuditMatchesWakes'
    BY <2>1, <2>2, <2>3 DEF AuditInv, AuditMatchesWakes, Delivered
  <2> QED
    BY <2>1, <2>2, <2>3, <2>4 DEF AuditInv
<1>8. ASSUME NEW k \in ConfiguredSinks, ReconcileTarget(k) PROVE AuditInv'
  BY <1>3, <1>8 DEF ReconcileTarget, SetTargets, RouterInv, obsVars
<1>9. CASE ReconcileDisabledTarget \/ ReconcileRemoved \/ LookupEvent
  BY <1>3, <1>9 DEF ReconcileDisabledTarget, ReconcileRemoved, LookupEvent,
     SetTargets, RouterInv, obsVars, storeVars
<1>10. CASE InsertDaemonEvent
  <2>1. /\ UNCHANGED <<decision, matched, idem, woken, wire, cur>> /\ pc' = "insertIdempotency"
        /\ pc = "insertEvent"
    BY <1>10 DEF InsertDaemonEvent, InsertEvent, obsVars
  <2>2. \A e \in 1..Len(event) : delivery'[e] = delivery[e]
    BY <1>10 DEF InsertDaemonEvent, InsertEvent, TypeOK, StoreTypeOK
  <2>3. \A m \in Msgs : idem[m] \in 0..Len(event)
    BY DEF TypeOK, StoreTypeOK
  <2>4. \A m \in Msgs : idem[m] # 0 => delivery'[idem[m]] = delivery[idem[m]]
    BY <2>2, <2>3
  <2>5. AuditMatchesWakes'
    BY <2>1, <2>4 DEF AuditInv, AuditMatchesWakes, Delivered
  <2> QED
    BY <2>1, <2>5 DEF AuditInv, RouterInv
<1>11. CASE InsertEventIdempotency
  <2>1. /\ cur \in Msgs /\ HasStore /\ idem[cur] = 0 /\ event[ev] = cur
        /\ ev \in 1..Len(event) /\ wire = "none"
    BY <1>11 DEF InsertEventIdempotency, RouterInv, IndexInv, TypeOK
  <2>2. /\ idem' = [idem EXCEPT ![cur] = ev] /\ pc' = "matches"
        /\ UNCHANGED <<decision, matched, delivery, woken, wire, cur>>
    BY <1>11 DEF InsertEventIdempotency, InsertIdempotency, obsVars
  <2>3. \A m \in Msgs : m # cur => idem'[m] = idem[m]
    BY <2>2 DEF TypeOK, StoreTypeOK
  <2>4. idem'[cur] = ev
    BY <2>1, <2>2 DEF TypeOK, StoreTypeOK
  <2>5. \A k \in WakeSinks : delivery[ev][k] = "none"
    BY <2>1 DEF IndexInv, DeliveriesOnIndexedEvents, Sinks
  <2>6. \A k \in WakeSinks : ~(woken[cur][k] > 0)
    BY <2>1 DEF AuditInv, AuditMatchesWakes
  <2>7. AuditMatchesWakes'
    BY <2>1, <2>2, <2>3, <2>4, <2>5, <2>6 DEF AuditInv, AuditMatchesWakes, Delivered
  <2> QED
    BY <1>11, <2>1, <2>2, <2>7 DEF AuditInv, InsertEventIdempotency
<1>12. CASE RecordReceptorMatches
  <2>1. /\ matched' = matched \cup {ev} /\ pc' = "target" /\ pc = "matches"
        /\ UNCHANGED <<decision, delivery, idem, woken, wire, cur, ev>>
    BY <1>12 DEF RecordReceptorMatches, UpsertReceptorMatches, obsVars
  <2>2. AuditMatchesWakes'
    BY <2>1 DEF AuditInv, AuditMatchesWakes, Delivered
  <2> QED
    BY <2>1, <2>2 DEF AuditInv, RouterInv
<1>13. CASE UpsertSinkTarget
  <2>1. UNCHANGED <<auditVars, cur, sink, ev, wire>> /\ pc = "target" /\ pc' = "queueDelivery"
    BY <1>13 DEF UpsertSinkTarget, SetTargets, obsVars
  <2> QED
    BY <2>1 DEF AuditInv, AuditMatchesWakes, Delivered, RouterInv
<1>14. ASSUME HasStore, pc \in IndexedPcs \ {"matches"}, NEW status \in Status \ {"none"},
              SetDelivery(ev, sink, status), UNCHANGED <<woken, cur>>,
              wire' # "accepted",
              status = "delivered" /\ sink \in WakeSinks =>
                  delivery[ev][sink] = "delivered" \/ woken[cur][sink] > 0,
              \/ pc' \in {"lookup", "finish", "exited"}
              \/ pc' = "dbDelivered" /\ ev' = ev
              \/ /\ pc' \in SendPcs \ {"markDelivered"} /\ ev' = ev /\ sink' = sink
                 /\ status # "delivered"
       PROVE  AuditInv'
  <2>1. AuditMatchesWakes'
    BY <1>14, SetDeliveryAudit
  <2>2. sink \in Sinks /\ ev \in 1..Len(event)
    BY <1>14 DEF RouterInv, TypeOK
  <2>3. UNCHANGED <<decision, matched>> /\ delivery'[ev][sink] = status
    BY <1>14, <2>2, SetDeliveryRows DEF TypeOK
  <2> QED
    BY <1>14, <2>1, <2>3 DEF AuditInv, Status
<1>15. CASE QueueSinkDelivery
  BY <1>14, <1>15 DEF QueueSinkDelivery, UpsertSinkDelivery, AlreadyDelivered,
     NextWakeSink,
     RouterInv, Status, obsVars
<1>16. CASE MarkDbDelivered
  BY <1>14, <1>16, SinkAssumption DEF MarkDbDelivered, MarkDeliveryDelivered,
     NextWakeSink,
     RouterInv, Status, obsVars
<1>17. CASE MarkDelivered
  BY <1>14, <1>17 DEF MarkDelivered, MarkDeliveryDelivered, NextWakeSink, RouterInv,
     AuditInv, Status, obsVars
<1>18. CASE MarkFailed
  BY <1>14, <1>18 DEF MarkFailed, MarkDeliveryFailed, RouterInv, Status, obsVars
<1>19. CASE Attempt
  <2>1. CASE HasStore
    BY <1>14, <1>19, <2>1 DEF Attempt, MarkDeliveryAttempted, RouterInv, Status, obsVars
  <2>2. CASE ~HasStore
    BY <1>4, <1>19, <2>2 DEF Attempt, RouterInv, obsVars, storeVars
  <2> QED
    BY <2>1, <2>2
<1>20. CASE GatewayAccepts
  <2>1. cur \in Msgs /\ sink \in WakeSinks /\ woken[cur][sink] \in Nat
    BY <1>20 DEF GatewayAccepts, RouterInv, TypeOK
  <2>2. /\ woken'[cur][sink] > 0
        /\ \A m \in Msgs : \A k \in WakeSinks :
              m # cur \/ k # sink => woken'[m][k] = woken[m][k]
    BY <1>20, <2>1 DEF GatewayAccepts, TypeOK, WakeCap
  <2>3. UNCHANGED <<decision, matched, delivery, idem, pc, cur, sink, ev>> /\ pc = "sending"
    BY <1>20 DEF GatewayAccepts, storeVars
  <2>4. AuditMatchesWakes'
    BY <2>1, <2>2, <2>3 DEF AuditInv, AuditMatchesWakes, Delivered, IndexInv, RouterInv
  <2> QED
    BY <2>2, <2>3, <2>4 DEF AuditInv
<1>21. CASE SendSucceeds
  <2>1. CASE HasStore
    BY <1>21, <2>1 DEF SendSucceeds, AuditInv, AuditMatchesWakes, Delivered, obsVars,
       storeVars
  <2>2. CASE ~HasStore
    BY <1>4, <1>21, <2>2 DEF SendSucceeds, NextWakeSink, obsVars, storeVars
  <2> QED
    BY <2>1, <2>2
<1>22. CASE SendFails \/ Backoff
  BY <1>2, <1>5, <1>22 DEF SendFails, Backoff, RouterInv, obsVars, storeVars
<1>23. CASE \/ Crash \/ SupervisorReturns \/ TakeNext \/ DrainDone
            \/ SendTimesOut \/ Finish \/ FlushFails \/ StoreFails
  BY <1>2, <1>23 DEF Crash, SupervisorReturns, Down, TakeNext, DrainDone, SendTimesOut,
     Finish, FlushFails, StoreFails, RouterInv, obsVars, storeVars
<1>24. CASE Start \/ CtrlC \/ NoticeShutdown \/ DeadlinePasses \/ UNCHANGED vars
  BY <1>1, <1>24 DEF Start, CtrlC, NoticeShutdown, DeadlinePasses, vars, routerVars,
     obsVars, storeVars
<1>25. ASSUME NEW s \in Servers, ManagerNext(s) PROVE AuditInv'
  BY <1>1, <1>25 DEF ManagerNext, Connect, Disconnect, SessionRefreshed, StopManager,
     ReceiveMessage, OfferAccepted, OfferRefused, routerVars, obsVars, storeVars
<1> QED
  BY <1>6, <1>7, <1>8, <1>9, <1>10, <1>11, <1>12, <1>13, <1>15, <1>16, <1>17, <1>18,
     <1>19, <1>20, <1>21, <1>22, <1>23, <1>24, <1>25
  DEF Next, RouterStep

-----------------------------------------------------------------------------
(* Progress through the sinks. *)

\* No step takes back a delivered row or a wake, and none wakes a session by a sink
\* whose row is already delivered.
LEMMA ReachedStable ==
    ASSUME TypeOK, RouterInv, IndexInv, AuditInv, [Next]_vars, NEW m \in Msgs,
    NEW k \in Sinks
    PROVE  /\ Delivered(m, k) => Delivered(m, k)'
           /\ k \in WakeSinks /\ woken[m][k] > 0 => woken'[m][k] > 0
           /\ HasStore /\ k \in WakeSinks /\ Delivered(m, k) => woken'[m][k] = woken[m][k]
<1> DEFINE Goal == /\ Delivered(m, k) => Delivered(m, k)'
                   /\ k \in WakeSinks /\ woken[m][k] > 0 => woken'[m][k] > 0
                   /\ HasStore /\ k \in WakeSinks /\ Delivered(m, k) => woken'[m][k] = woken[m][k]
<1> USE DEF SendPcs, IndexedPcs, SinkPcs, StorePcs
<1>0. idem[m] \in 0..Len(event)
  BY DEF TypeOK, StoreTypeOK
<1>1. CASE UNCHANGED <<idem, delivery, woken>>
  BY <1>1 DEF Delivered
<1>2. CASE InsertDaemonEvent
  <2>1. UNCHANGED <<idem, woken>>
    BY <1>2 DEF InsertDaemonEvent, InsertEvent, obsVars
  <2>2. \A e \in 1..Len(event) : delivery'[e] = delivery[e]
    BY <1>2 DEF InsertDaemonEvent, InsertEvent, TypeOK, StoreTypeOK
  <2> QED
    BY <1>0, <2>1, <2>2 DEF Delivered
<1>3. CASE InsertEventIdempotency
  <2>1. idem[cur] = 0 /\ cur \in Msgs
    BY <1>3 DEF InsertEventIdempotency, IndexInv, RouterInv
  <2>2. UNCHANGED <<delivery, woken>> /\ (m # cur => idem'[m] = idem[m])
    BY <1>3 DEF InsertEventIdempotency, InsertIdempotency, obsVars, TypeOK, StoreTypeOK
  <2> QED
    BY <2>1, <2>2 DEF Delivered
<1>4. ASSUME HasStore, pc \in IndexedPcs, NEW status \in Status, SetDelivery(ev, sink, status),
             woken' = woken, delivery[ev][sink] = "delivered" => status = "delivered"
      PROVE  Goal
  <2>1. sink \in Sinks /\ ev \in 1..Len(event)
    BY <1>4 DEF RouterInv, TypeOK
  <2>2. /\ UNCHANGED <<decision, event, matched, idem, target>>
        /\ delivery'[ev][sink] = status
        /\ \A d \in 1..Len(event) : \A j \in Sinks :
              d # ev \/ j # sink => delivery'[d][j] = delivery[d][j]
    BY <1>4, <2>1, SetDeliveryRows DEF TypeOK
  <2> QED
    BY <1>0, <1>4, <2>2 DEF Delivered
<1>5. CASE QueueSinkDelivery
  BY <1>4, <1>5 DEF QueueSinkDelivery, UpsertSinkDelivery, RouterInv, Status, obsVars
<1>6. CASE MarkDbDelivered \/ MarkDelivered
  BY <1>4, <1>6 DEF MarkDbDelivered, MarkDelivered, MarkDeliveryDelivered, RouterInv,
     Status, obsVars
<1>7. CASE MarkFailed
  BY <1>4, <1>7 DEF MarkFailed, MarkDeliveryFailed, RouterInv, AuditInv, Status, obsVars
<1>8. CASE Attempt
  <2>1. CASE HasStore
    BY <1>4, <1>8, <2>1 DEF Attempt, MarkDeliveryAttempted, AuditInv, Status, obsVars
  <2>2. CASE ~HasStore
    BY <1>1, <1>8, <2>2 DEF Attempt, storeVars, obsVars
  <2> QED
    BY <2>1, <2>2
<1>9. CASE GatewayAccepts
  <2>1. cur \in Msgs /\ sink \in WakeSinks /\ woken[cur][sink] \in Nat
    BY <1>9 DEF GatewayAccepts, RouterInv, TypeOK
  <2>2. /\ woken'[cur][sink] > 0
        /\ k \in WakeSinks /\ (m # cur \/ k # sink) => woken'[m][k] = woken[m][k]
    BY <1>9, <2>1 DEF GatewayAccepts, TypeOK, WakeCap
  <2>3. HasStore => ~Delivered(cur, sink)
    BY <1>9 DEF GatewayAccepts, Delivered, AuditInv, IndexInv
  <2>4. UNCHANGED <<idem, delivery>>
    BY <1>9 DEF GatewayAccepts, storeVars
  <2> QED
    BY <2>2, <2>3, <2>4 DEF Delivered
<1>10. CASE \/ RecordAttentionDecision \/ (\E j \in ConfiguredSinks : ReconcileTarget(j))
            \/ ReconcileDisabledTarget \/ ReconcileRemoved
            \/ RecordReceptorMatches \/ UpsertSinkTarget
  BY <1>1, <1>10 DEF RecordAttentionDecision, UpsertDecision, ReconcileTarget,
     ReconcileDisabledTarget, ReconcileRemoved, SetTargets, RecordReceptorMatches,
     UpsertReceptorMatches, UpsertSinkTarget, obsVars
<1>11. CASE \/ Start \/ Crash \/ CtrlC \/ SupervisorReturns \/ DeadlinePasses
            \/ (\E s \in Servers : ManagerNext(s)) \/ UNCHANGED vars
  BY <1>1, <1>11 DEF Start, Crash, CtrlC, SupervisorReturns, Down, DeadlinePasses, vars,
     ManagerNext, Connect, Disconnect, SessionRefreshed, StopManager, ReceiveMessage, OfferAccepted,
     OfferRefused, storeVars, obsVars
<1>12. CASE \/ TakeNext \/ NoticeShutdown \/ DrainDone \/ (\E v \in Verdicts : Evaluate(v))
            \/ LookupEvent \/ Backoff \/ SendTimesOut \/ SendSucceeds \/ SendFails
            \/ Finish \/ FlushFails \/ StoreFails
  BY <1>1, <1>12 DEF TakeNext, NoticeShutdown, DrainDone, Evaluate, LookupEvent,
     Backoff,
     SendTimesOut, SendSucceeds, SendFails, Finish, FlushFails, StoreFails, storeVars,
     obsVars
<1> QED
  BY <1>2, <1>3, <1>5, <1>6, <1>7, <1>8, <1>9, <1>10, <1>11, <1>12 DEF Next, RouterStep

\* Leaving a sink that has been reached, the loop over the sinks has reached all it
\* has visited, and the message is settled when no sink is left.
LEMMA NextWakeSinkProgress ==
    ASSUME NEW m, NextWakeSink(todo), cur' = m, verdict'[m] = "deliver",
           \A k \in Sinks \ todo : Reached(m, k)'
    PROVE  ProgressInv'
<1>1. CASE todo = {}
  BY <1>1 DEF NextWakeSink, ProgressInv, Settled, SinkPcs, IndexedPcs, SendPcs
<1>2. CASE todo # {}
  BY <1>2 DEF NextWakeSink, ProgressInv
<1> QED
  BY <1>1, <1>2

\* Every step keeps the loop over the sinks exact: the sinks already visited have
\* been reached, and only a settled message gets to mark_processed.
LEMMA ProgressInvStep ==
    TypeOK /\ RouterInv /\ IndexInv /\ AuditInv /\ ProgressInv /\ [Next]_vars => ProgressInv'
<1> SUFFICES ASSUME TypeOK, RouterInv, IndexInv, AuditInv, ProgressInv, [Next]_vars
             PROVE  ProgressInv'
  OBVIOUS
<1> USE DEF SendPcs, IndexedPcs, SinkPcs, StorePcs
<1>1. \A m \in Msgs : \A k \in Sinks : Reached(m, k) => Reached(m, k)'
  BY ReachedStable DEF Reached
<1>2. pc \in SinkPcs => cur \in Msgs /\ verdict[cur] = "deliver" /\ sink \in Sinks
  BY DEF RouterInv
<1>3. CASE pc' \notin SinkPcs \cup {"finish"}
  BY <1>3 DEF ProgressInv
<1>4. CASE /\ pc \in SinkPcs /\ pc' \in SinkPcs
           /\ UNCHANGED <<cur, todo, sink>>
  BY <1>1, <1>2, <1>4 DEF ProgressInv
<1>5. CASE UNCHANGED <<pc, cur, todo, sink, verdict>>
  <2>1. CASE pc = "finish"
    <3>1. cur \in Msgs /\ Settled(cur)
      BY <2>1 DEF RouterInv, ProgressInv
    <3>2. \A k \in Sinks : Reached(cur, k) => Reached(cur, k)'
      BY <1>1, <1>5, <3>1
    <3>3. Settled(cur)'
      BY <1>5, <3>1, <3>2 DEF Settled
    <3> QED
      BY <1>5, <2>1, <3>3 DEF ProgressInv
  <2>2. CASE pc # "finish"
    BY <1>3, <1>4, <1>5, <2>2
  <2> QED
    BY <2>1, <2>2
<1>6. ASSUME NEW m, NEW j, m = cur, j = sink,
             pc \in SinkPcs, NextWakeSink(todo), UNCHANGED <<cur, verdict>>, Reached(m, j)'
      PROVE  ProgressInv'
  <2>1. m \in Msgs /\ \A k \in Sinks \ (todo \cup {j}) : Reached(m, k)
    BY <1>2, <1>6 DEF ProgressInv
  <2>2. \A k \in Sinks \ todo : Reached(m, k)'
    BY <1>1, <1>6, <2>1
  <2>3. cur' = m /\ verdict'[m] = "deliver"
    BY <1>2, <1>6
  <2> QED
    BY <1>6, <2>2, <2>3, NextWakeSinkProgress
<1>7. ASSUME NEW v \in Verdicts, Evaluate(v) PROVE ProgressInv'
  <2>1. cur \in Msgs /\ verdict'[cur] = v /\ cur' = cur
    BY <1>7 DEF Evaluate, RouterInv, TypeOK
  <2>2. CASE HasStore
    BY <1>3, <1>7, <2>2 DEF Evaluate
  <2>3. CASE ~HasStore /\ (v = "reject" \/ Sinks = {})
    <3>1. Settled(cur)'
      BY <2>1, <2>3 DEF Settled, Verdicts
    <3> QED
      BY <1>7, <2>1, <2>3, <3>1 DEF Evaluate, AfterVerdict, ProgressInv
  <2>4. CASE ~HasStore /\ ~(v = "reject" \/ Sinks = {})
    <3>1. WakeSinks = Sinks /\ WakeSinks # {} /\ NextWakeSink(WakeSinks)
      BY <1>7, <2>4 DEF Evaluate, AfterVerdict, Sinks
    <3> QED
      BY <3>1 DEF NextWakeSink, ProgressInv
  <2> QED
    BY <2>2, <2>3, <2>4
<1>8. CASE RecordAttentionDecision
  <2>1. HasStore /\ verdict[cur] \in Verdicts /\ UNCHANGED <<cur, verdict>>
    BY <1>8 DEF RecordAttentionDecision, RouterInv, obsVars
  <2>2. CASE verdict[cur] = "reject" \/ Sinks = {}
    <3>1. Settled(cur)'
      BY <2>1, <2>2 DEF Settled, Verdicts
    <3> QED
      BY <1>8, <2>1, <2>2, <3>1 DEF RecordAttentionDecision, AfterVerdict, ProgressInv
  <2>3. CASE ~(verdict[cur] = "reject" \/ Sinks = {})
    BY <1>3, <1>8, <2>1, <2>3 DEF RecordAttentionDecision, AfterVerdict
  <2> QED
    BY <2>2, <2>3
<1>9. CASE (\E k \in ConfiguredSinks : ReconcileTarget(k)) \/ ReconcileDisabledTarget
  BY <1>3, <1>9 DEF ReconcileTarget, ReconcileDisabledTarget
<1>10. CASE ReconcileRemoved
  BY <1>10 DEF ReconcileRemoved, ProgressInv, Sinks
<1>11. CASE \/ LookupEvent \/ InsertDaemonEvent \/ InsertEventIdempotency
            \/ RecordReceptorMatches \/ UpsertSinkTarget
  BY <1>4, <1>11 DEF LookupEvent, InsertDaemonEvent, InsertEventIdempotency,
     RecordReceptorMatches, UpsertSinkTarget
<1>12. ASSUME NEW m, NEW j, m = cur, j = sink, SetDelivery(ev, sink, "delivered"),
              HasStore, pc \in IndexedPcs
       PROVE  Delivered(m, j)'
  <2>1. ev = idem[m] /\ ev \in 1..Len(event) /\ j \in Sinks
    BY <1>12 DEF IndexInv, RouterInv, TypeOK
  <2>2. idem' = idem /\ delivery'[ev][j] = "delivered"
    BY <1>12, <2>1, SetDeliveryRows DEF TypeOK, Status
  <2> QED
    BY <2>1, <2>2 DEF Delivered
<1>13. CASE QueueSinkDelivery
  <2>1. CASE sink = DbSink \/ ~AlreadyDelivered(ev, sink)
    BY <1>4, <1>13, <2>1 DEF QueueSinkDelivery
  <2>2. CASE sink # DbSink /\ AlreadyDelivered(ev, sink)
    <3>1. HasStore /\ pc \in SinkPcs /\ UNCHANGED <<cur, verdict, woken>> /\ NextWakeSink(todo)
      BY <1>13, <2>2 DEF QueueSinkDelivery, RouterInv, obsVars
    <3>2. sink \in WakeSinks /\ cur \in Msgs
      BY <1>2, <2>2, <3>1 DEF Sinks
    <3>3. Delivered(cur, sink)
      BY <1>13, <2>2, <3>1 DEF QueueSinkDelivery, AlreadyDelivered, Delivered,
         IndexInv, RouterInv
    <3>4. Reached(cur, sink)
      BY <3>1, <3>2, <3>3 DEF Reached, AuditInv, AuditMatchesWakes
    <3>5. PICK m \in Msgs, j \in Sinks : m = cur /\ j = sink
      BY <1>2, <3>1
    <3>6. Reached(m, j)'
      BY <1>1, <3>4, <3>5
    <3> QED
      BY <1>6, <3>1, <3>5, <3>6
  <2> QED
    BY <2>1, <2>2
<1>14. CASE MarkDbDelivered
  <2>1. /\ HasStore /\ pc \in IndexedPcs /\ sink = DbSink /\ UNCHANGED <<cur, verdict>>
        /\ NextWakeSink(todo)
    BY <1>14 DEF MarkDbDelivered, RouterInv, obsVars
  <2>2. PICK m \in Msgs, j \in Sinks : m = cur /\ j = sink
    BY <1>2, <2>1
  <2>3. Delivered(m, j)'
    BY <1>12, <1>14, <2>1, <2>2 DEF MarkDbDelivered, MarkDeliveryDelivered
  <2>4. Reached(m, j)'
    BY <2>1, <2>2, <2>3, SinkAssumption DEF Reached
  <2> QED
    BY <1>6, <2>1, <2>2, <2>4
<1>15. CASE MarkDelivered
  <2>1. /\ HasStore /\ pc \in IndexedPcs /\ UNCHANGED <<cur, verdict, woken>>
        /\ NextWakeSink(todo) /\ woken[cur][sink] > 0
    BY <1>15 DEF MarkDelivered, RouterInv, AuditInv, obsVars
  <2>2. PICK m \in Msgs, j \in Sinks : m = cur /\ j = sink
    BY <1>2, <2>1
  <2>3. Delivered(m, j)'
    BY <1>12, <1>15, <2>1, <2>2 DEF MarkDelivered, MarkDeliveryDelivered
  <2>4. Reached(m, j)'
    BY <2>1, <2>2, <2>3 DEF Reached
  <2> QED
    BY <1>6, <2>1, <2>2, <2>4
<1>16. CASE SendSucceeds
  <2>1. CASE HasStore
    BY <1>4, <1>16, <2>1 DEF SendSucceeds
  <2>2. CASE ~HasStore
    <3>1. /\ pc \in SinkPcs /\ UNCHANGED <<cur, verdict, woken>>
          /\ NextWakeSink(todo) /\ woken[cur][sink] > 0
      BY <1>16, <2>2 DEF SendSucceeds, AuditInv, obsVars
    <3>2. PICK m \in Msgs, j \in Sinks : m = cur /\ j = sink
      BY <1>2, <3>1
    <3>3. Reached(m, j)'
      BY <2>2, <3>1, <3>2 DEF Reached
    <3> QED
      BY <1>6, <3>1, <3>2, <3>3
  <2> QED
    BY <2>1, <2>2
<1>17. CASE Attempt \/ SendFails \/ MarkFailed \/ Backoff
  BY <1>3, <1>4, <1>17 DEF Attempt, SendFails, MarkFailed, Backoff
<1>18. CASE \/ Crash \/ SupervisorReturns \/ TakeNext \/ DrainDone
            \/ SendTimesOut \/ Finish \/ FlushFails \/ StoreFails
  BY <1>3, <1>18 DEF Crash, SupervisorReturns, Down, TakeNext, DrainDone, SendTimesOut,
     Finish, FlushFails, StoreFails
<1>19. CASE \/ Start \/ CtrlC \/ NoticeShutdown \/ DeadlinePasses \/ GatewayAccepts
            \/ UNCHANGED vars
  BY <1>5, <1>19 DEF Start, CtrlC, NoticeShutdown, DeadlinePasses, GatewayAccepts, vars,
     routerVars, obsVars
<1>20. ASSUME NEW s \in Servers, ManagerNext(s) PROVE ProgressInv'
  BY <1>5, <1>20 DEF ManagerNext, Connect, Disconnect, SessionRefreshed, StopManager,
     ReceiveMessage, OfferAccepted, OfferRefused, routerVars, obsVars
<1> QED
  BY <1>7, <1>8, <1>9, <1>10, <1>11, <1>13, <1>14, <1>15, <1>16, <1>17, <1>18, <1>19,
     <1>20
  DEF Next, RouterStep

-----------------------------------------------------------------------------
(* Messages in flight. *)

\* Every step keeps pending_ids, the wake queue, the offer of each manager and the
\* message in hand in agreement, and runtime.json equal to recent_ids.
LEMMA FlightInvStep ==
    TypeOK /\ RouterInv /\ FlightInv /\ [Next]_vars => FlightInv'
<1> SUFFICES ASSUME TypeOK, RouterInv, FlightInv, [Next]_vars PROVE FlightInv'
  OBVIOUS
<1> DEFINE flightVars == <<phase, pending, offering, queue, cur, file, recent, link>>
<1>1. CASE /\ UNCHANGED flightVars
           /\ phase = "down" => UNCHANGED <<pc, deadline>>
           /\ pc = "exited" => pc' = "exited"
  BY <1>1 DEF FlightInv, PendingIsInFlight, OneEnvelopePerMessage, InFlight
<1>2. CASE Start
  <2>1. /\ pc = "idle" /\ queue = <<>> /\ cur = NoMsg
        /\ \A s \in Servers : pending[s] = {} /\ offering[s] = NoId
    BY <1>2 DEF Start, FlightInv, RouterInv
  <2>2. /\ UNCHANGED <<file, pending, offering, queue, cur, pc>> /\ phase' = "running"
        /\ recent' = [s \in Servers |-> LoadRecent(file[s])]
    BY <1>2 DEF Start, managerVars, routerVars
  <2>3. \A s \in Servers : LoadRecent(file[s]) = file[s]
    BY TrimRecentFacts DEF FlightInv, TypeOK, LoadRecent
  <2>4. recent' = file
    BY <2>2, <2>3 DEF TypeOK
  <2>5. Elems(queue) = {} /\ \A i \in 1..Len(queue) : FALSE
    BY <2>1 DEF Elems
  <2>6. PendingIsInFlight'
    BY <2>1, <2>2, <2>5, WakeAssumption DEF PendingIsInFlight, InFlight, Msgs
  <2>7. OneEnvelopePerMessage'
    BY <2>1, <2>2, <2>5 DEF OneEnvelopePerMessage
  <2> QED
    BY <2>2, <2>4, <2>6, <2>7 DEF FlightInv
<1>3. CASE Crash \/ SupervisorReturns
  <2>1. Down
    BY <1>3 DEF Crash, SupervisorReturns
  <2>2. Len(<<>>) <= DedupeWindow /\ Len(<<>>) = 0
    BY WindowAssumption
  <2>3. Elems(queue') = {} /\ \A i \in 1..Len(queue') : FALSE
    BY <2>1 DEF Down, Elems
  <2>4. PendingIsInFlight' /\ OneEnvelopePerMessage'
    BY <2>1, <2>3 DEF Down, PendingIsInFlight, OneEnvelopePerMessage
  <2> QED
    BY <2>1, <2>2, <2>4 DEF Down, FlightInv
<1>4. ASSUME NEW s \in Servers, Connect(s) \/ Disconnect(s) PROVE FlightInv'
  <2>1. UNCHANGED <<phase, pending, offering, queue, cur, recent, pc>> /\ phase # "down"
    BY <1>4 DEF Connect, Disconnect, procVars, routerVars, FlightInv
  <2>2. /\ file' = [file EXCEPT ![s] = recent[s]]
        /\ file = recent => file' = file
    BY <1>4 DEF Connect, Disconnect, Flush, TypeOK
  <2>3. PendingIsInFlight' /\ OneEnvelopePerMessage'
    BY <2>1 DEF FlightInv, PendingIsInFlight, OneEnvelopePerMessage, InFlight
  <2> QED
    BY <2>1, <2>2, <2>3 DEF FlightInv, TypeOK
<1>5. ASSUME NEW s \in Servers, SessionRefreshed(s) \/ StopManager(s) PROVE FlightInv'
  <2>1. /\ UNCHANGED <<phase, pending, offering, queue, cur, file, recent, pc>>
        /\ phase # "down"
    BY <1>5 DEF SessionRefreshed, StopManager, procVars, runtimeVars, routerVars, FlightInv
  <2> QED
    BY <2>1 DEF FlightInv, PendingIsInFlight, OneEnvelopePerMessage, InFlight
<1>6. ASSUME NEW s \in Servers, NEW id \in Ids, ReceiveMessage(s, id) PROVE FlightInv'
  <2>1. /\ UNCHANGED <<phase, file, recent, link, queue, cur, pc>> /\ phase # "down"
        /\ pending' = [pending EXCEPT ![s] = @ \cup {id}]
        /\ offering' = [offering EXCEPT ![s] = id] /\ offering[s] = NoId
        /\ id \notin Elems(recent[s]) /\ id \notin pending[s]
    BY <1>6 DEF ReceiveMessage, IsNew, procVars, routerVars, FlightInv
  <2>2. /\ pending'[s] = pending[s] \cup {id} /\ offering'[s] = id
        /\ \A r \in Servers \ {s} : pending'[r] = pending[r] /\ offering'[r] = offering[r]
    BY <2>1 DEF TypeOK
  <2>3. CASE pc # "exited"
    <3>1. <<s, id>> \notin Elems(queue) \cup {cur}
      BY <2>1, <2>3 DEF FlightInv, PendingIsInFlight, InFlight
    <3>2. \A i \in Ids : NoId # i
      BY WakeAssumption
    <3>3. pending'[s] = {i \in Ids : InFlight(s, i)'}
      BY <2>1, <2>2, <2>3, <3>2 DEF FlightInv, PendingIsInFlight, InFlight
    <3>4. PendingIsInFlight'
      BY <2>1, <2>2, <2>3, <3>3 DEF FlightInv, PendingIsInFlight, InFlight
    <3>5. OneEnvelopePerMessage'
      <4>1. /\ \A i, j \in 1..Len(queue') : queue'[i] = queue'[j] => i = j
            /\ cur' \notin Elems(queue')
        BY <2>1, <2>3 DEF FlightInv, OneEnvelopePerMessage
      <4>2. ASSUME NEW r \in Servers
            PROVE  /\ offering'[r] # NoId
                      => <<r, offering'[r]>> \notin Elems(queue') \cup {cur'}
                   /\ pending'[r] \cap Elems(recent'[r]) = {}
        <5>1. CASE r = s
          BY <2>1, <2>2, <2>3, <3>1, <5>1 DEF FlightInv, OneEnvelopePerMessage
        <5>2. CASE r # s
          BY <2>1, <2>2, <2>3, <5>2 DEF FlightInv, OneEnvelopePerMessage
        <5> QED
          BY <5>1, <5>2
      <4> QED
        BY <4>1, <4>2 DEF OneEnvelopePerMessage
    <3> QED
      BY <2>1, <3>4, <3>5 DEF FlightInv
  <2>4. CASE pc = "exited"
    BY <2>1, <2>4 DEF FlightInv, PendingIsInFlight, OneEnvelopePerMessage
  <2> QED
    BY <2>3, <2>4
<1>7. ASSUME NEW s \in Servers, OfferAccepted(s) PROVE FlightInv'
  <2>1. /\ UNCHANGED <<phase, pending, file, recent, link, cur, pc>>
        /\ offering[s] \in Ids /\ phase # "down" /\ pc # "exited"
        /\ queue' = Append(queue, <<s, offering[s]>>)
        /\ offering' = [offering EXCEPT ![s] = NoId]
    BY <1>7 DEF OfferAccepted, procVars, runtimeVars, routerVars, FlightInv, TypeOK
  <2>2. <<s, offering[s]>> \in Msgs /\ queue \in Seq(Msgs)
    BY <2>1 DEF Msgs, TypeOK
  <2>3. /\ <<s, offering[s]>> \notin Elems(queue) \cup {cur}
        /\ \A i, j \in 1..Len(queue) : queue[i] = queue[j] => i = j
    BY <2>1, WakeAssumption DEF FlightInv, OneEnvelopePerMessage
  <2>4. /\ Elems(queue') = Elems(queue) \cup {<<s, offering[s]>>}
        /\ \A i, j \in 1..Len(queue') : queue'[i] = queue'[j] => i = j
    <3> DEFINE m == <<s, offering[s]>>
    <3>1. m \in Msgs /\ queue' = Append(queue, m) /\ m \notin Elems(queue)
      BY <2>1, <2>2, <2>3
    <3> HIDE DEF m
    <3>2. /\ Elems(queue') = Elems(queue) \cup {m}
          /\ \A i, j \in 1..Len(queue') : queue'[i] = queue'[j] => i = j
      BY <2>2, <2>3, <3>1, AppendFacts
    <3> QED
      BY <3>2 DEF m
  <2>5. /\ offering'[s] = NoId
        /\ \A r \in Servers \ {s} : offering'[r] = offering[r]
    BY <2>1 DEF TypeOK
  <2>6. \A r \in Servers : \A i \in Ids : InFlight(r, i)' <=> InFlight(r, i)
    BY <2>1, <2>4, <2>5, WakeAssumption DEF InFlight
  <2>7. PendingIsInFlight'
    BY <2>1, <2>6 DEF FlightInv, PendingIsInFlight
  <2>8. OneEnvelopePerMessage'
    BY <2>1, <2>3, <2>4, <2>5 DEF FlightInv, OneEnvelopePerMessage
  <2> QED
    BY <2>1, <2>7, <2>8 DEF FlightInv
<1>8. ASSUME NEW s \in Servers, OfferRefused(s) PROVE FlightInv'
  <2>1. /\ UNCHANGED <<phase, recent, queue, cur, pc>>
        /\ offering[s] \in Ids /\ phase # "down"
        /\ pending' = [pending EXCEPT ![s] = @ \ {offering[s]}]
        /\ offering' = [offering EXCEPT ![s] = NoId]
    BY <1>8 DEF OfferRefused, procVars, routerVars, FlightInv, TypeOK
  <2>2. /\ offering'[s] = NoId /\ pending'[s] = pending[s] \ {offering[s]}
        /\ \A r \in Servers \ {s} : pending'[r] = pending[r] /\ offering'[r] = offering[r]
    BY <2>1 DEF TypeOK
  <2>3. /\ file' = [file EXCEPT ![s] = recent[s]]
        /\ file = recent => file' = file
    BY <1>8 DEF OfferRefused, Flush, TypeOK
  <2>4. CASE pc # "exited"
    <3>1. <<s, offering[s]>> \notin Elems(queue) \cup {cur} /\ \A i \in Ids : NoId # i
      BY <2>1, <2>4, WakeAssumption DEF FlightInv, OneEnvelopePerMessage
    <3>2. pending'[s] = {i \in Ids : InFlight(s, i)'}
      BY <2>1, <2>2, <2>4, <3>1 DEF FlightInv, PendingIsInFlight, InFlight
    <3>3. PendingIsInFlight'
      BY <2>1, <2>2, <2>4, <3>2 DEF FlightInv, PendingIsInFlight, InFlight
    <3>4. OneEnvelopePerMessage'
      BY <2>1, <2>2, <2>4 DEF FlightInv, OneEnvelopePerMessage
    <3> QED
      BY <2>1, <2>3, <3>3, <3>4 DEF FlightInv, TypeOK
  <2>5. CASE pc = "exited"
    BY <2>1, <2>3, <2>5 DEF FlightInv, PendingIsInFlight, OneEnvelopePerMessage, TypeOK
  <2> QED
    BY <2>4, <2>5
<1>9. CASE TakeNext
  <2>1. /\ UNCHANGED <<phase, pending, offering, file, recent, link>>
        /\ phase # "down" /\ pc = "idle" /\ pc' = "evaluate" /\ cur = NoMsg
        /\ queue # <<>> /\ queue \in Seq(Msgs)
        /\ cur' = Head(queue) /\ queue' = Tail(queue)
    BY <1>9 DEF TakeNext, aroundVars, procVars, runtimeVars, managerVars, RouterInv,
       TypeOK
  <2>2. \A i, j \in 1..Len(queue) : queue[i] = queue[j] => i = j
    BY <2>1 DEF FlightInv, OneEnvelopePerMessage
  <2>3. /\ Elems(queue) = {cur'} \cup Elems(queue') /\ cur' \notin Elems(queue')
        /\ \A i, j \in 1..Len(queue') : queue'[i] = queue'[j] => i = j
    BY <2>1, <2>2, TailFacts
  <2>4. \A r \in Servers : \A i \in Ids : InFlight(r, i)' <=> InFlight(r, i)
    BY <2>1, <2>3, WakeAssumption DEF InFlight, Msgs
  <2>5. PendingIsInFlight'
    BY <2>1, <2>4 DEF FlightInv, PendingIsInFlight
  <2>6. OneEnvelopePerMessage'
    BY <2>1, <2>3 DEF FlightInv, OneEnvelopePerMessage
  <2> QED
    BY <2>1, <2>5, <2>6 DEF FlightInv
<1>10. CASE Finish
  <2>1. PICK s \in Servers, id \in Ids : cur = <<s, id>>
    BY <1>10 DEF Finish, RouterInv, Msgs
  <2>2. /\ UNCHANGED <<phase, offering, queue, link>>
        /\ phase # "down" /\ pc = "finish" /\ pc' = "idle" /\ cur' = NoMsg
        /\ pending' = [pending EXCEPT ![s] = @ \ {id}]
        /\ recent' = [recent EXCEPT ![s] = InsertRecent(@, id)]
        /\ file' = [file EXCEPT ![s] = recent'[s]]
    BY <1>10, <2>1 DEF Finish, MarkProcessed, aroundVars, procVars, managerVars,
       FlightInv
  <2>3. /\ InsertRecent(recent[s], id) \in Seq(Ids)
        /\ Len(InsertRecent(recent[s], id)) <= DedupeWindow
        /\ Elems(InsertRecent(recent[s], id)) \subseteq Elems(recent[s]) \cup {id}
    BY InsertRecentFacts DEF TypeOK
  <2>4. /\ pending'[s] = pending[s] \ {id} /\ recent'[s] = InsertRecent(recent[s], id)
        /\ \A r \in Servers \ {s} : pending'[r] = pending[r] /\ recent'[r] = recent[r]
    BY <2>2 DEF TypeOK
  <2>5. file' = recent'
    BY <2>2 DEF FlightInv, TypeOK
  <2>6. <<s, id>> \notin Elems(queue) /\ offering[s] # id /\ \A m \in Msgs : NoMsg # m
    BY <2>1, <2>2, WakeAssumption DEF FlightInv, OneEnvelopePerMessage
  <2>7. PendingIsInFlight'
    <3>1. \A r \in Servers : \A i \in Ids :
             InFlight(r, i)' <=> InFlight(r, i) /\ <<r, i>> # <<s, id>>
      BY <2>1, <2>2, <2>6 DEF InFlight, Msgs
    <3>2. \A r \in Servers : pending[r] = {i \in Ids : InFlight(r, i)}
      BY <2>2 DEF FlightInv, PendingIsInFlight
    <3>3. \A r \in Servers : pending'[r] = {i \in Ids : InFlight(r, i)'}
      BY <2>4, <3>1, <3>2
    <3> QED
      BY <3>3 DEF PendingIsInFlight
  <2>8. OneEnvelopePerMessage'
    <3>1. NoMsg \notin Elems(queue)
      BY WakeAssumption DEF Elems, TypeOK
    <3>2. \A r \in Servers : pending'[r] \cap Elems(recent'[r]) = {}
      BY <2>2, <2>3, <2>4 DEF FlightInv, OneEnvelopePerMessage
    <3>3. \A r \in Servers : offering[r] # NoId => <<r, offering[r]>> # NoMsg
      BY WakeAssumption DEF TypeOK, Msgs
    <3> QED
      BY <2>2, <3>1, <3>2, <3>3 DEF FlightInv, OneEnvelopePerMessage
  <2> QED
    BY <2>2, <2>3, <2>4, <2>5, <2>7, <2>8 DEF FlightInv
<1>11. CASE FlushFails
  <2>1. PICK s \in Servers, id \in Ids : cur = <<s, id>>
    BY <1>11 DEF FlushFails, RouterInv, Msgs
  <2>2. /\ UNCHANGED <<phase, file>> /\ phase # "down" /\ pc' = "exited"
        /\ recent' = [recent EXCEPT ![s] = InsertRecent(@, id)]
    BY <1>11, <2>1 DEF FlushFails, MarkProcessed, aroundVars, procVars, FlightInv
  <2>3. Len(InsertRecent(recent[s], id)) <= DedupeWindow
    BY InsertRecentFacts DEF TypeOK
  <2> QED
    BY <2>2, <2>3 DEF FlightInv, PendingIsInFlight, OneEnvelopePerMessage, TypeOK
<1>12. CASE CtrlC
  <2>1. UNCHANGED <<pending, offering, queue, cur, file, recent, link, pc>>
        /\ phase # "down" /\ phase' # "down"
    BY <1>12 DEF CtrlC, runtimeVars, managerVars, routerVars
  <2> QED
    BY <2>1 DEF FlightInv, PendingIsInFlight, OneEnvelopePerMessage, InFlight
<1>13. CASE DrainDone
  <2>1. UNCHANGED flightVars /\ pc' = "exited" /\ phase # "down"
    BY <1>13 DEF DrainDone, FlightInv, aroundVars, procVars, runtimeVars, managerVars
  <2> QED
    BY <2>1 DEF FlightInv, PendingIsInFlight, OneEnvelopePerMessage
<1>14. CASE NoticeShutdown \/ DeadlinePasses \/ UNCHANGED vars
  BY <1>1, <1>14 DEF NoticeShutdown, DeadlinePasses, FlightInv, vars, aroundVars,
     procVars, runtimeVars, managerVars, routerVars
<1>15. CASE \/ (\E v \in Verdicts : Evaluate(v)) \/ RecordAttentionDecision
            \/ (\E k \in ConfiguredSinks : ReconcileTarget(k))
            \/ ReconcileDisabledTarget \/ ReconcileRemoved
  BY <1>1, <1>15 DEF FlightInv, Evaluate, RecordAttentionDecision, ReconcileTarget,
     ReconcileDisabledTarget, ReconcileRemoved, aroundVars, procVars, runtimeVars,
     managerVars
<1>16. CASE \/ LookupEvent \/ InsertDaemonEvent \/ InsertEventIdempotency
            \/ RecordReceptorMatches \/ UpsertSinkTarget \/ QueueSinkDelivery
            \/ MarkDbDelivered
  BY <1>1, <1>16 DEF FlightInv, LookupEvent, InsertDaemonEvent, InsertEventIdempotency,
     RecordReceptorMatches, UpsertSinkTarget, QueueSinkDelivery, MarkDbDelivered,
     aroundVars, procVars, runtimeVars, managerVars
<1>17. CASE \/ Attempt \/ MarkDelivered \/ MarkFailed \/ Backoff \/ SendTimesOut
            \/ GatewayAccepts \/ SendSucceeds \/ SendFails \/ StoreFails
  BY <1>1, <1>17 DEF FlightInv, Attempt, MarkDelivered, MarkFailed, Backoff,
     SendTimesOut, GatewayAccepts, SendSucceeds, SendFails, StoreFails, StorePcs,
     aroundVars, procVars, runtimeVars, managerVars
<1> QED
  BY <1>2, <1>3, <1>4, <1>5, <1>6, <1>7, <1>8, <1>9, <1>10, <1>11, <1>12, <1>13, <1>14,
     <1>15, <1>16, <1>17
  DEF Next, ManagerNext, RouterStep

-----------------------------------------------------------------------------
(* Sink targets. *)

\* Every step keeps the sink_target rows that reconcile_sink_targets has visited in
\* agreement with the configuration.
LEMMA TargetInvStep == TypeOK /\ RouterInv /\ TargetInv /\ [Next]_vars => TargetInv'
<1> SUFFICES ASSUME TypeOK, RouterInv, TargetInv, [Next]_vars, HasStore PROVE TargetInv'
  BY DEF TargetInv
<1> USE DEF SendPcs, IndexedPcs, SinkPcs, ReconcilePcs, StorePcs
<1>1. CASE UNCHANGED <<target, pc, todo, sink>>
  BY <1>1 DEF TargetInv, TargetAgrees
<1>2. CASE target' = target /\ pc' \notin ReconcilePcs \cup SinkPcs
  BY <1>2 DEF TargetInv
<1>3. CASE target' = target /\ pc \in SinkPcs /\ pc' \in SinkPcs
  BY <1>3 DEF TargetInv, TargetAgrees
<1>4. CASE RecordAttentionDecision
  BY <1>4 DEF RecordAttentionDecision, UpsertDecision, AfterVerdict, TargetInv,
     TargetAgrees
<1>5. ASSUME NEW k \in ConfiguredSinks, ReconcileTarget(k) PROVE TargetInv'
  <2>1. /\ pc = "reconcile" /\ k \in todo /\ k \in Targets
        /\ target'[k] = "enabled" /\ \A j \in Targets \ {k} : target'[j] = target[j]
    BY <1>5 DEF ReconcileTarget, SetTargets, Targets
  <2>2. \A j \in Targets : target[j] # "absent" => target'[j] # "absent"
    BY <2>1
  <2>3. CASE k \in DisabledSinks
    BY <1>5, <2>1, <2>2, <2>3 DEF ReconcileTarget, TargetInv, TargetAgrees, Targets
  <2>4. CASE k \notin DisabledSinks
    BY <1>5, <2>1, <2>2, <2>4 DEF ReconcileTarget, TargetInv, TargetAgrees, Targets,
       ConfiguredSinks
  <2> QED
    BY <2>3, <2>4
<1>6. CASE ReconcileDisabledTarget
  <2>1. /\ pc = "reconcileDisabled" /\ sink \in DisabledSinks /\ sink \notin Sinks
        /\ sink \in Targets /\ target[sink] = "enabled"
        /\ pc' = "reconcile" /\ todo' = todo \ {sink}
    BY <1>6, SinkAssumption DEF ReconcileDisabledTarget, RouterInv, TargetInv, Sinks,
       ConfiguredSinks, Targets
  <2>2. target'[sink] = "disabled" /\ \A j \in Targets \ {sink} : target'[j] = target[j]
    BY <1>6, <2>1 DEF ReconcileDisabledTarget, SetTargets
  <2> QED
    BY <2>1, <2>2 DEF TargetInv, TargetAgrees, Targets, ConfiguredSinks
<1>7. CASE ReconcileRemoved
  <2>1. pc = "reconcile" /\ todo = {} /\ pc' = "lookup"
    BY <1>7 DEF ReconcileRemoved
  <2>2. /\ \A j \in RemovedSinks : target'[j] = "disabled"
        /\ \A j \in Targets \ RemovedSinks : target'[j] = target[j]
    BY <1>7 DEF ReconcileRemoved, SetTargets, TargetInv, Targets
  <2>3. \A j \in RemovedSinks : j \notin Sinks
    BY SinkAssumption DEF Sinks
  <2> QED
    BY <2>1, <2>2, <2>3 DEF TargetInv, TargetAgrees, Targets
<1>8. CASE UpsertSinkTarget
  <2>1. sink \in Sinks /\ sink \in Targets /\ pc = "target" /\ pc' = "queueDelivery"
    BY <1>8 DEF UpsertSinkTarget, RouterInv, Targets, ConfiguredSinks
  <2>2. target'[sink] = "enabled" /\ \A j \in Targets \ {sink} : target'[j] = target[j]
    BY <1>8, <2>1 DEF UpsertSinkTarget, SetTargets
  <2> QED
    BY <2>1, <2>2 DEF TargetInv, TargetAgrees, Targets
<1>9. CASE \/ LookupEvent \/ InsertDaemonEvent \/ InsertEventIdempotency \/ RecordReceptorMatches
  BY <1>3, <1>9 DEF LookupEvent, InsertDaemonEvent, InsertEvent, InsertEventIdempotency,
     InsertIdempotency, RecordReceptorMatches, UpsertReceptorMatches, storeVars
<1>10. CASE QueueSinkDelivery \/ MarkDbDelivered \/ Attempt \/ MarkDelivered \/ MarkFailed
  BY <1>2, <1>3, <1>10 DEF QueueSinkDelivery, UpsertSinkDelivery, MarkDbDelivered,
     Attempt,
     MarkDelivered, MarkFailed, MarkDeliveryDelivered, MarkDeliveryAttempted,
     MarkDeliveryFailed, SetDelivery, NextWakeSink, storeVars
<1>11. CASE SendSucceeds \/ SendFails \/ Backoff
  BY <1>2, <1>3, <1>11 DEF SendSucceeds, SendFails, Backoff, NextWakeSink, storeVars
<1>12. CASE \/ Crash \/ SupervisorReturns \/ TakeNext \/ DrainDone \/ SendTimesOut
            \/ Finish \/ FlushFails \/ StoreFails \/ (\E v \in Verdicts : Evaluate(v))
  BY <1>2, <1>12 DEF Crash, SupervisorReturns, Down, TakeNext, DrainDone, SendTimesOut,
     Finish, FlushFails, StoreFails, Evaluate, storeVars
<1>13. CASE \/ Start \/ CtrlC \/ NoticeShutdown \/ DeadlinePasses \/ GatewayAccepts
            \/ UNCHANGED vars
  BY <1>1, <1>13 DEF Start, CtrlC, NoticeShutdown, DeadlinePasses, GatewayAccepts, vars,
     routerVars, storeVars
<1>14. ASSUME NEW s \in Servers, ManagerNext(s) PROVE TargetInv'
  BY <1>1, <1>14 DEF ManagerNext, Connect, Disconnect, SessionRefreshed, StopManager,
     ReceiveMessage, OfferAccepted, OfferRefused, routerVars, storeVars
<1> QED
  BY <1>4, <1>5, <1>6, <1>7, <1>8, <1>9, <1>10, <1>11, <1>12, <1>13, <1>14
  DEF Next, RouterStep

-----------------------------------------------------------------------------
(* Recorded messages. *)

\* Every step keeps the recorded ids settled.  The hard case is Evaluate, which
\* replaces the verdict of the message in hand: that message is pending, hence not
\* recorded.
LEMMA SettledInvStep ==
    /\ TypeOK /\ RouterInv /\ IndexInv /\ AuditInv /\ ProgressInv /\ FlightInv /\ SettledInv
    /\ [Next]_vars
    => SettledInv'
<1> SUFFICES ASSUME TypeOK, RouterInv, IndexInv, AuditInv, ProgressInv, FlightInv,
                    SettledInv, [Next]_vars
             PROVE  SettledInv'
  OBVIOUS
<1>1. \A m \in Msgs : \A k \in Sinks : Reached(m, k) => Reached(m, k)'
  BY ReachedStable DEF Reached
<1>2. ASSUME NEW m \in Msgs, Settled(m), verdict'[m] = verdict[m] PROVE Settled(m)'
  BY <1>1, <1>2 DEF Settled
<1>3. \A s \in Servers : Elems(file[s]) \cup Elems(recent[s]) \subseteq Ids
  BY DEF TypeOK, Elems
<1>4. ASSUME verdict' = verdict,
             \A s \in Servers : Elems(file'[s]) \cup Elems(recent'[s])
                                    \subseteq Elems(file[s]) \cup Elems(recent[s])
      PROVE  SettledInv'
  BY <1>2, <1>3, <1>4 DEF SettledInv, Msgs
<1>5. CASE Start
  <2>1. \A s \in Servers : Elems(recent'[s]) \subseteq Elems(file[s])
    BY <1>5, TrimRecentFacts DEF Start, LoadRecent, TypeOK
  <2> QED
    BY <1>4, <1>5, <2>1 DEF Start, obsVars
<1>6. CASE Crash \/ SupervisorReturns
  <2>1. Elems(<<>>) = {}
    BY DEF Elems
  <2> QED
    BY <1>4, <1>6, <2>1 DEF Crash, SupervisorReturns, Down, obsVars
<1>7. ASSUME NEW s \in Servers, Connect(s) \/ Disconnect(s) \/ OfferRefused(s)
      PROVE  SettledInv'
  <2>1. /\ file'[s] = recent[s] /\ \A r \in Servers \ {s} : file'[r] = file[r]
        /\ UNCHANGED <<recent, verdict>>
    BY <1>7 DEF Connect, Disconnect, OfferRefused, Flush, TypeOK, obsVars
  <2> QED
    BY <1>4, <2>1
<1>8. ASSUME NEW v \in Verdicts, Evaluate(v) PROVE SettledInv'
  <2>1. PICK s \in Servers, id \in Ids : cur = <<s, id>>
    BY <1>8 DEF Evaluate, RouterInv, Msgs
  <2>2. id \in pending[s] /\ file = recent
    BY <1>8, <2>1 DEF Evaluate, FlightInv, PendingIsInFlight, InFlight
  <2>3. id \notin Elems(file[s]) \cup Elems(recent[s])
    BY <1>8, <2>2 DEF Evaluate, FlightInv, OneEnvelopePerMessage
  <2>4. UNCHANGED <<file, recent>> /\ \A m \in Msgs : m # cur => verdict'[m] = verdict[m]
    BY <1>8 DEF Evaluate, runtimeVars, TypeOK
  <2>5. ASSUME NEW r \in Servers, NEW i \in Elems(file[r]) \cup Elems(recent[r])
        PROVE  Settled(<<r, i>>)'
    <3>1. <<r, i>> \in Msgs /\ <<r, i>> # cur /\ Settled(<<r, i>>)
      BY <1>3, <2>1, <2>3 DEF Msgs, SettledInv
    <3> QED
      BY <1>2, <2>4, <3>1
  <2> QED
    BY <2>4, <2>5 DEF SettledInv
<1>9. CASE Finish \/ FlushFails
  <2>1. PICK s \in Servers, id \in Ids : cur = <<s, id>>
    BY <1>9 DEF Finish, FlushFails, RouterInv, Msgs
  <2>2. /\ recent' = [recent EXCEPT ![s] = InsertRecent(@, id)] /\ verdict' = verdict
        /\ file' = file \/ file' = [file EXCEPT ![s] = recent'[s]]
    BY <1>9, <2>1 DEF Finish, FlushFails, MarkProcessed, obsVars
  <2>3. Settled(<<s, id>>)
    BY <1>9, <2>1 DEF Finish, FlushFails, ProgressInv
  <2>4. Elems(InsertRecent(recent[s], id)) \subseteq Elems(recent[s]) \cup {id}
    BY InsertRecentFacts DEF TypeOK
  <2>5. \A r \in Servers : \A i \in Elems(file'[r]) \cup Elems(recent'[r]) :
           <<r, i>> = <<s, id>> \/ i \in Elems(file[r]) \cup Elems(recent[r])
    BY <2>2, <2>4 DEF TypeOK
  <2>6. ASSUME NEW r \in Servers, NEW i \in Elems(file'[r]) \cup Elems(recent'[r])
        PROVE  Settled(<<r, i>>)'
    <3>1. <<r, i>> \in Msgs /\ Settled(<<r, i>>)
      BY <1>3, <2>3, <2>5 DEF Msgs, SettledInv
    <3> QED
      BY <1>2, <2>2, <3>1
  <2> QED
    BY <2>6 DEF SettledInv
<1>10. CASE UNCHANGED <<file, recent, verdict>>
  BY <1>4, <1>10
<1>11. CASE \/ CtrlC \/ DeadlinePasses \/ UNCHANGED vars
            \/ (\E s \in Servers : SessionRefreshed(s) \/ StopManager(s) \/ OfferAccepted(s)
                   \/ \E id \in Ids : ReceiveMessage(s, id))
  BY <1>10, <1>11 DEF CtrlC, DeadlinePasses, vars, SessionRefreshed, StopManager,
     OfferAccepted, ReceiveMessage, runtimeVars, obsVars
<1>12. CASE \/ TakeNext \/ NoticeShutdown \/ DrainDone \/ RecordAttentionDecision
            \/ (\E k \in ConfiguredSinks : ReconcileTarget(k))
            \/ ReconcileDisabledTarget \/ ReconcileRemoved
            \/ LookupEvent \/ InsertDaemonEvent \/ InsertEventIdempotency
            \/ RecordReceptorMatches \/ UpsertSinkTarget \/ QueueSinkDelivery
  BY <1>10, <1>12 DEF TakeNext, NoticeShutdown, DrainDone, RecordAttentionDecision,
     ReconcileTarget, ReconcileDisabledTarget, ReconcileRemoved, LookupEvent,
     InsertDaemonEvent, InsertEventIdempotency, RecordReceptorMatches, UpsertSinkTarget,
     QueueSinkDelivery, runtimeVars, obsVars
<1>13. CASE \/ MarkDbDelivered \/ Attempt \/ MarkDelivered \/ MarkFailed \/ Backoff
            \/ SendTimesOut \/ GatewayAccepts \/ SendSucceeds \/ SendFails \/ StoreFails
  BY <1>10, <1>13 DEF MarkDbDelivered, Attempt, MarkDelivered, MarkFailed, Backoff,
     SendTimesOut, GatewayAccepts, SendSucceeds, SendFails, StoreFails, runtimeVars,
     obsVars
<1> QED
  BY <1>5, <1>6, <1>7, <1>8, <1>9, <1>11, <1>12, <1>13 DEF Next, ManagerNext, RouterStep

-----------------------------------------------------------------------------
(* The theorems. *)

\* A fresh installation satisfies the inductive invariant.
LEMMA InitInv == Init => Inv
<1> SUFFICES ASSUME Init PROVE Inv
  OBVIOUS
<1> USE WakeAssumption, WindowAssumption DEF Init, StoreInit
<1>1. TypeOK
  <2>1. StoreTypeOK
    BY DEF StoreTypeOK
  <2> QED
    BY <2>1 DEF TypeOK, Pcs, WakeCap
<1>2. RouterInv
  BY DEF RouterInv, StorePcs, SinkPcs, IndexedPcs, SendPcs, ReconcilePcs
<1>3. Elems(<<>>) = {} /\ Len(<<>>) = 0
  BY DEF Elems
<1>4. IndexInv
  BY <1>3 DEF IndexInv, IndexedPcs, SendPcs, DeliveriesOnIndexedEvents
<1>5. AuditInv
  BY DEF AuditInv, AuditMatchesWakes, Delivered, SinkPcs, IndexedPcs, SendPcs,
     ReconcilePcs
<1>6. ProgressInv
  BY DEF ProgressInv, SinkPcs, IndexedPcs, SendPcs
<1>7. FlightInv
  BY <1>3 DEF FlightInv, PendingIsInFlight, OneEnvelopePerMessage
<1>8. TargetInv
  BY DEF TargetInv, ReconcilePcs, SinkPcs, IndexedPcs, SendPcs, Targets
<1>9. SettledInv
  BY <1>3 DEF SettledInv
<1> QED
  BY <1>1, <1>2, <1>4, <1>5, <1>6, <1>7, <1>8, <1>9 DEF Inv

\* The inductive invariant is inductive.
LEMMA StepInv == Inv /\ [Next]_vars => Inv'
BY TypeStep, RouterInvStep, IndexInvStep, AuditInvStep, ProgressInvStep, FlightInvStep,
   TargetInvStep, SettledInvStep DEF Inv

\* The inductive invariant holds in every reachable state, for all servers, ids,
\* sinks, queue capacities and window sizes.
THEOREM Invariance == Spec => []Inv
<1>1. Init => Inv
  BY InitInv
<1>2. Inv /\ [Next]_vars => Inv'
  BY StepInv
<1> QED
  BY <1>1, <1>2, PTL DEF Spec

\* Type correctness of the whole inbound path, the queue bound of 1000 included.
THEOREM TypeCorrect == Spec => []TypeOK
<1>1. Inv => TypeOK
  BY DEF Inv
<1> QED
  BY <1>1, Invariance, PTL

\* At-least-once delivery across crashes: process_wake_queue records an id in
\* runtime.json only when the message is rejected or has reached every sink.
THEOREM AtLeastOnce == Spec => []RecordedIsSettled
<1>1. Inv => RecordedIsSettled
  BY DEF Inv, SettledInv, RecordedIsSettled
<1> QED
  BY <1>1, Invariance, PTL

\* should_enqueue, mark_failed and mark_processed keep pending_ids exact while the
\* router runs.
THEOREM NoLeakedPendingId == Spec => []PendingIsInFlight
<1>1. Inv => PendingIsInFlight
  BY DEF Inv, FlightInv
<1> QED
  BY <1>1, Invariance, PTL

\* should_enqueue lets no second envelope of a message in.
THEOREM EnvelopesAreUnique == Spec => []OneEnvelopePerMessage
<1>1. Inv => OneEnvelopePerMessage
  BY DEF Inv, FlightInv
<1> QED
  BY <1>1, Invariance, PTL

\* The orphaned rows can be counted.
LEMMA OrphansFinite ==
    ASSUME TypeOK
    PROVE  IsFiniteSet(Orphans) /\ Cardinality(Orphans) \in Nat
<1>1. Len(event) \in Nat
  BY DEF TypeOK, StoreTypeOK
<1>2. IsFiniteSet(1..Len(event))
  BY <1>1, FS_Interval
<1>3. Orphans \in SUBSET (1..Len(event))
  BY DEF Orphans
<1>4. IsFiniteSet(Orphans)
  BY <1>2, <1>3, FS_Subset
<1> QED
  BY <1>4, FS_CardinalityType

\* The first INSERT of upsert_canonical_event adds one orphan, until the second one
\* takes it back.
LEMMA InsertsAndOrphans ==
    ASSUME Inv
    PROVE  /\ InsertDaemonEvent => Orphans' = Orphans \cup {Len(event) + 1}
           /\ InsertEventIdempotency => ev \in Orphans /\ Orphans' = Orphans \ {ev}
<1> USE DEF Inv, SinkPcs, StorePcs
<1>0. /\ \A m \in Msgs : idem[m] \in 0..Len(event)
      /\ \A e \in 1..Len(event) : event[e] \in Msgs
      /\ Len(event) \in Nat
  BY DEF TypeOK, StoreTypeOK
<1>1. ASSUME InsertDaemonEvent PROVE Orphans' = Orphans \cup {Len(event) + 1}
  <2>1. cur \in Msgs /\ idem[cur] = 0
    BY <1>1 DEF InsertDaemonEvent, RouterInv, IndexInv
  <2>2. /\ Len(event') = Len(event) + 1 /\ event'[Len(event) + 1] = cur
        /\ \A e \in 1..Len(event) : event'[e] = event[e]
        /\ idem' = idem
    BY <1>1, <2>1 DEF InsertDaemonEvent, InsertEvent, TypeOK, StoreTypeOK
  <2>3. \A e \in 1..Len(event') : e \in 1..Len(event) \/ e = Len(event) + 1
    BY <1>0, <2>2
  <2>4. \A e : e \in Orphans' <=> e \in Orphans \/ e = Len(event) + 1
    BY <1>0, <2>1, <2>2, <2>3 DEF Orphans
  <2> QED
    BY <2>4
<1>2. ASSUME InsertEventIdempotency PROVE ev \in Orphans /\ Orphans' = Orphans \ {ev}
  <2>1. cur \in Msgs /\ idem[cur] = 0 /\ event[ev] = cur /\ ev \in 1..Len(event)
    BY <1>2 DEF InsertEventIdempotency, RouterInv, IndexInv, TypeOK
  <2>2. idem' = [idem EXCEPT ![cur] = ev] /\ event' = event
    BY <1>2 DEF InsertEventIdempotency, InsertIdempotency
  <2>3. idem'[cur] = ev /\ \A m \in Msgs \ {cur} : idem'[m] = idem[m]
    BY <2>1, <2>2 DEF TypeOK, StoreTypeOK
  <2>4. \A e : e \in Orphans' <=> e \in Orphans /\ e # ev
    BY <1>0, <2>1, <2>2, <2>3 DEF Orphans
  <2>5. ev \in Orphans
    BY <2>1 DEF Orphans
  <2> QED
    BY <2>4, <2>5
<1> QED
  BY <1>1, <1>2

\* There is no orphan at first.
LEMMA InitOrphans == Init => OrphanInv
<1> SUFFICES ASSUME Init PROVE OrphanInv
  OBVIOUS
<1>1. Orphans = {} /\ starts = 0 /\ ~Tidy
  BY DEF Init, StoreInit, Orphans, Tidy
<1> QED
  BY <1>1, FS_EmptySet DEF OrphanInv

\* A run of the daemon that leaves an orphan inserts no further event: the bound on
\* the orphans is kept by every step.
LEMMA OrphanStep == Inv /\ OrphanInv /\ [Next]_vars => OrphanInv'
<1> SUFFICES ASSUME Inv, OrphanInv, [Next]_vars PROVE OrphanInv'
  OBVIOUS
<1> USE DEF StorePcs
<1>0. /\ IsFiniteSet(Orphans) /\ Cardinality(Orphans) \in Nat /\ starts \in Nat
      /\ Cardinality(Orphans) + (IF Tidy THEN 1 ELSE 0) <= starts
  BY OrphansFinite, WakeAssumption DEF Inv, TypeOK, OrphanInv
<1>1. ASSUME UNCHANGED <<event, idem, starts>>, Tidy' => Tidy PROVE OrphanInv'
  <2>1. Orphans' = Orphans
    BY <1>1 DEF Orphans
  <2> QED
    BY <1>0, <1>1, <2>1 DEF OrphanInv
<1>2. CASE Start
  <2>1. Orphans' = Orphans /\ starts' = starts + 1
    BY <1>2 DEF Start, storeVars, Orphans
  <2> QED
    BY <1>0, <2>1 DEF OrphanInv
<1>3. CASE InsertDaemonEvent
  <2>1. Tidy /\ ~Tidy' /\ starts' = starts
    BY <1>3 DEF InsertDaemonEvent, Tidy, Inv, FlightInv, aroundVars, procVars
  <2>2. /\ Cardinality(Orphans') =
              IF Len(event) + 1 \in Orphans THEN Cardinality(Orphans) ELSE Cardinality(Orphans) + 1
    BY <1>0, <1>3, InsertsAndOrphans, FS_AddElement
  <2> QED
    BY <1>0, <2>1, <2>2 DEF OrphanInv
<1>4. CASE InsertEventIdempotency
  <2>1. ~Tidy /\ starts' = starts
    BY <1>4 DEF InsertEventIdempotency, Tidy, aroundVars, procVars
  <2>2. Cardinality(Orphans') = Cardinality(Orphans) - 1
    BY <1>0, <1>4, InsertsAndOrphans, FS_RemoveElement
  <2> QED
    BY <1>0, <2>1, <2>2 DEF OrphanInv
<1>5. CASE Crash \/ SupervisorReturns
  BY <1>1, <1>5 DEF Crash, SupervisorReturns, Down, Tidy, storeVars
<1>6. CASE CtrlC
  BY <1>1, <1>6 DEF CtrlC, Tidy, storeVars, routerVars
<1>7. ASSUME NEW s \in Servers, ManagerNext(s) PROVE OrphanInv'
  BY <1>1, <1>7 DEF ManagerNext, Connect, Disconnect, SessionRefreshed, StopManager,
     ReceiveMessage, OfferAccepted, OfferRefused, routerVars, storeVars, procVars, Tidy
<1>8. ASSUME UNCHANGED <<event, idem, procVars>>, pc \notin {"insertIdempotency", "exited"}
      PROVE  OrphanInv'
  BY <1>1, <1>8 DEF Tidy, procVars
<1>9. CASE \/ TakeNext \/ DrainDone \/ (\E v \in Verdicts : Evaluate(v))
           \/ LookupEvent \/ GatewayAccepts \/ SendSucceeds \/ SendFails \/ SendTimesOut
           \/ Backoff \/ Finish \/ FlushFails
  BY <1>8, <1>9 DEF TakeNext, DrainDone, Evaluate, LookupEvent, GatewayAccepts,
     SendSucceeds, SendFails, SendTimesOut, Backoff, Finish, FlushFails, aroundVars,
     storeVars
<1>10. CASE \/ RecordAttentionDecision \/ (\E k \in ConfiguredSinks : ReconcileTarget(k))
            \/ ReconcileDisabledTarget \/ ReconcileRemoved \/ RecordReceptorMatches
            \/ UpsertSinkTarget
  BY <1>8, <1>10 DEF RecordAttentionDecision, UpsertDecision, ReconcileTarget,
     ReconcileDisabledTarget, ReconcileRemoved, SetTargets, RecordReceptorMatches,
     UpsertReceptorMatches, UpsertSinkTarget, aroundVars
<1>11. CASE QueueSinkDelivery \/ MarkDbDelivered \/ MarkDelivered \/ MarkFailed \/ Attempt
  BY <1>8, <1>11 DEF QueueSinkDelivery, MarkDbDelivered, MarkDelivered, MarkFailed, Attempt,
     UpsertSinkDelivery, MarkDeliveryDelivered, MarkDeliveryFailed, MarkDeliveryAttempted,
     SetDelivery, aroundVars, storeVars
<1>12. CASE NoticeShutdown \/ DeadlinePasses \/ StoreFails \/ UNCHANGED vars
  BY <1>1, <1>12 DEF NoticeShutdown, DeadlinePasses, StoreFails, vars, aroundVars, procVars,
     routerVars, storeVars, Tidy
<1> QED
  BY <1>2, <1>3, <1>4, <1>5, <1>6, <1>7, <1>9, <1>10, <1>11, <1>12 DEF Next, RouterStep

\* A daemon_event orphaned by a crash or a failing statement inside
\* upsert_canonical_event never gets matches or deliveries, and a run of the daemon
\* leaves at most one of them.
THEOREM OrphansStayEmptyAndFew == Spec => []OrphansAreBounded
<1>1. Init => OrphanInv
  BY InitOrphans
<1>2. Inv /\ OrphanInv /\ [Next]_vars => OrphanInv'
  BY OrphanStep
<1>3. Inv /\ OrphanInv => OrphansAreBounded
  <2> SUFFICES ASSUME Inv, OrphanInv PROVE OrphansAreBounded
    OBVIOUS
  <2>1. starts \in Nat /\ Cardinality(Orphans) \in Nat
    BY OrphansFinite, WakeAssumption DEF Inv, TypeOK
  <2> QED
    BY <2>1 DEF OrphanInv, OrphansAreBounded, Inv, IndexInv
<1> QED
  BY <1>1, <1>2, <1>3, Invariance, PTL DEF Spec

\* Only the two INSERTs of upsert_canonical_event touch the events and their index,
\* and only a start of the process counts as one.
LEMMA EventsStep ==
    ASSUME [Next]_vars
    PROVE  \/ Start /\ UNCHANGED <<event, idem>>
           \/ UNCHANGED <<event, idem, starts>>
           \/ (InsertDaemonEvent \/ InsertEventIdempotency) /\ starts' = starts
<1> USE DEF aroundVars, procVars, storeVars
<1>1. CASE Start \/ Crash \/ CtrlC \/ SupervisorReturns \/ UNCHANGED vars
  BY <1>1 DEF Start, Crash, CtrlC, SupervisorReturns, Down, vars
<1>2. ASSUME NEW s \in Servers, ManagerNext(s) PROVE UNCHANGED <<event, idem, starts>>
  BY <1>2 DEF ManagerNext, Connect, Disconnect, SessionRefreshed, StopManager,
     ReceiveMessage, OfferAccepted, OfferRefused
<1>3. CASE \/ TakeNext \/ NoticeShutdown \/ DeadlinePasses \/ DrainDone
           \/ (\E v \in Verdicts : Evaluate(v)) \/ LookupEvent \/ GatewayAccepts
           \/ SendSucceeds \/ SendFails \/ SendTimesOut \/ Backoff \/ Finish \/ FlushFails
           \/ StoreFails
  BY <1>3 DEF TakeNext, NoticeShutdown, DeadlinePasses, DrainDone, Evaluate, LookupEvent,
     GatewayAccepts, SendSucceeds, SendFails, SendTimesOut, Backoff, Finish, FlushFails,
     StoreFails
<1>4. CASE \/ RecordAttentionDecision \/ (\E k \in ConfiguredSinks : ReconcileTarget(k))
           \/ ReconcileDisabledTarget \/ ReconcileRemoved \/ RecordReceptorMatches
           \/ UpsertSinkTarget
  BY <1>4 DEF RecordAttentionDecision, UpsertDecision, ReconcileTarget,
     ReconcileDisabledTarget, ReconcileRemoved, SetTargets, RecordReceptorMatches,
     UpsertReceptorMatches, UpsertSinkTarget
<1>5. CASE QueueSinkDelivery \/ MarkDbDelivered \/ MarkDelivered \/ MarkFailed \/ Attempt
  BY <1>5 DEF QueueSinkDelivery, MarkDbDelivered, MarkDelivered, MarkFailed, Attempt,
     UpsertSinkDelivery, MarkDeliveryDelivered, MarkDeliveryFailed, MarkDeliveryAttempted,
     SetDelivery
<1>6. CASE InsertDaemonEvent \/ InsertEventIdempotency
  BY <1>6 DEF InsertDaemonEvent, InsertEventIdempotency
<1> QED
  BY <1>1, <1>2, <1>3, <1>4, <1>5, <1>6 DEF Next, RouterStep

\* Two orphans at once need two starts.
LEMMA FirstRunOrphan ==
    ASSUME TypeOK, OrphanInv, starts <= 1, NEW d \in Orphans, NEW e \in Orphans
    PROVE  d = e
<1>1. /\ starts \in Nat /\ IsFiniteSet(Orphans) /\ Cardinality(Orphans) \in Nat
  BY OrphansFinite, WakeAssumption DEF TypeOK
<1>2. Cardinality(Orphans) <= 1
  BY <1>1 DEF OrphanInv
<1>3. Cardinality(Orphans) # 0
  BY <1>1, FS_EmptySet
<1>4. \E x : Orphans = {x}
  BY <1>1, <1>2, <1>3, FS_Singleton
<1> QED
  BY <1>4

\* During the first run of the daemon the message of an orphan has no index row:
\* nothing looks that message up again before a restart.
FirstRunInv == starts <= 1 => \A e \in Orphans : idem[event[e]] = 0

\* Every step keeps it: the second INSERT indexes the only orphan there is.
LEMMA FirstRunStep == Inv /\ OrphanInv /\ FirstRunInv /\ [Next]_vars => FirstRunInv'
<1> SUFFICES ASSUME Inv, OrphanInv, FirstRunInv, [Next]_vars, starts' <= 1,
                    NEW e \in Orphans'
             PROVE  (idem[event[e]] = 0)'
  BY DEF FirstRunInv
<1>0. starts \in Nat /\ TypeOK
  BY WakeAssumption DEF Inv, TypeOK
<1>1. CASE Start /\ UNCHANGED <<event, idem>>
  <2>1. starts <= 1 /\ Orphans' = Orphans
    BY <1>0, <1>1 DEF Start, Orphans
  <2> QED
    BY <1>1, <2>1 DEF FirstRunInv
<1>2. CASE UNCHANGED <<event, idem, starts>>
  <2>1. Orphans' = Orphans
    BY <1>2 DEF Orphans
  <2> QED
    BY <1>2, <2>1 DEF FirstRunInv
<1>3. CASE InsertDaemonEvent /\ starts' = starts
  <2>1. e \in Orphans \/ e = Len(event) + 1
    BY <1>3, InsertsAndOrphans
  <2>2. cur \in Msgs /\ idem[cur] = 0
    BY <1>3 DEF InsertDaemonEvent, Inv, RouterInv, IndexInv, StorePcs
  <2>3. /\ event'[Len(event) + 1] = cur /\ idem' = idem
        /\ \A d \in 1..Len(event) : event'[d] = event[d]
    BY <1>3, <2>2 DEF InsertDaemonEvent, InsertEvent, Inv, TypeOK, StoreTypeOK
  <2>4. Orphans \subseteq 1..Len(event)
    BY DEF Orphans
  <2> QED
    BY <1>3, <2>1, <2>2, <2>3, <2>4 DEF FirstRunInv
<1>4. CASE InsertEventIdempotency /\ starts' = starts
  <2>1. ev \in Orphans /\ e \in Orphans /\ e # ev
    BY <1>4, InsertsAndOrphans
  <2> QED
    BY <1>0, <1>4, <2>1, FirstRunOrphan
<1> QED
  BY <1>1, <1>2, <1>3, <1>4, EventsStep

\* The db sink's promise of one daemon_event per message holds throughout the first
\* run of the daemon: upsert_canonical_event duplicates a row only after a restart.
THEOREM OneEventInFirstRun == Spec => [](starts <= 1 => OneEventPerMessage)
<1>1. Init => OrphanInv /\ FirstRunInv
  <2> SUFFICES ASSUME Init PROVE OrphanInv /\ FirstRunInv
    OBVIOUS
  <2>1. Orphans = {}
    BY DEF Init, StoreInit, Orphans
  <2> QED
    BY <2>1, InitOrphans DEF FirstRunInv
<1>2. Inv /\ (OrphanInv /\ FirstRunInv) /\ [Next]_vars => (OrphanInv /\ FirstRunInv)'
  BY OrphanStep, FirstRunStep
<1>3. Inv /\ (OrphanInv /\ FirstRunInv) => (starts <= 1 => OneEventPerMessage)
  <2> SUFFICES ASSUME Inv, OrphanInv, FirstRunInv, starts <= 1,
                      NEW d \in 1..Len(event), NEW e \in 1..Len(event), event[d] = event[e]
               PROVE  d = e
    BY DEF OneEventPerMessage
  <2>1. CASE d \notin Orphans /\ e \notin Orphans
    BY <2>1 DEF Orphans
  <2>2. CASE d \in Orphans \/ e \in Orphans
    <3>1. d \in Orphans /\ e \in Orphans
      BY <2>2 DEF FirstRunInv, Orphans
    <3> QED
      BY <3>1, FirstRunOrphan DEF Inv
  <2> QED
    BY <2>1, <2>2
<1> QED
  BY <1>1, <1>2, <1>3, Invariance, PTL DEF Spec

\* No session is woken before the audit rows of process_wake_queue are on disk, and
\* no row says delivered without a wake.
THEOREM AuditBeforeWake == Spec => []AuditMatchesWakes
<1>1. Inv => AuditMatchesWakes
  BY DEF Inv, AuditInv
<1> QED
  BY <1>1, Invariance, PTL

\* reconcile_sink_targets has done its work when deliveries are queued.
THEOREM TargetsReconciled == Spec => []TargetsMatchConfig
<1>1. Inv => TargetsMatchConfig
  BY DEF Inv, TargetInv, TargetsMatchConfig, SinkPcs, IndexedPcs, SendPcs
<1> QED
  BY <1>1, Invariance, PTL

\* A row marked delivered stays so and its session is not woken again by that sink,
\* whatever crashes and replays follow.
THEOREM DeliveredIsFinal == Spec => NoWakeAfterDelivered
<1> DEFINE Step == HasStore =>
                     \A m \in Msgs : \A k \in WakeSinks :
                        Delivered(m, k) => Delivered(m, k)' /\ woken'[m][k] = woken[m][k]
<1>1. Inv /\ [Next]_vars => [Step]_vars
  <2> SUFFICES ASSUME Inv, [Next]_vars PROVE Step
    OBVIOUS
  <2>1. WakeSinks \subseteq Sinks
    BY DEF Sinks
  <2> QED
    BY <2>1, ReachedStable DEF Inv
<1> QED
  BY <1>1, Invariance, PTL DEF Spec, NoWakeAfterDelivered

-----------------------------------------------------------------------------
(* The inbox. *)

\* The message in hand is pending, hence not in runtime.json.
LEMMA InHandNotRecorded ==
    ASSUME Inv, pc \notin {"idle", "exited"}
    PROVE  cur \in Msgs /\ cur \notin Recorded
<1>1. PICK s \in Servers, id \in Ids : cur = <<s, id>>
  BY DEF Inv, RouterInv, Msgs
<1>2. phase # "down"
  BY DEF Inv, FlightInv
<1>3. id \in pending[s] /\ file = recent
  BY <1>1, <1>2 DEF Inv, FlightInv, PendingIsInFlight, InFlight
<1>4. id \notin Elems(file[s])
  BY <1>3 DEF Inv, FlightInv, OneEnvelopePerMessage
<1> QED
  BY <1>1, <1>4 DEF Recorded, Msgs

\* Noted holds the delivered rows.
LEMMA NotedIsDelivered ==
    ASSUME NEW m \in Msgs, NEW k \in Sinks
    PROVE  /\ <<m, k>> \in Noted <=> Delivered(m, k)
           /\ <<m, k>> \in Noted' <=> Delivered(m, k)'
BY DEF Noted

\* A step that delivers no row leaves Noted alone.
LEMMA NotedSame ==
    ASSUME \A m \in Msgs : \A k \in Sinks : Delivered(m, k)' <=> Delivered(m, k)
    PROVE  Noted' = Noted
BY DEF Noted

\* Only the two statements that mark a row delivered change what is noted, and they
\* add the message and the sink in hand.
LEMMA NotedStep ==
    ASSUME Inv, [Next]_vars
    PROVE  \/ Noted' = Noted
           \/ (MarkDelivered \/ MarkDbDelivered) /\ Noted' = Noted \cup {<<cur, sink>>}
<1> USE DEF Inv, SendPcs, IndexedPcs, SinkPcs, StorePcs
<1>0. \A m \in Msgs : idem[m] \in 0..Len(event)
  BY DEF TypeOK, StoreTypeOK
<1>1. CASE UNCHANGED <<idem, delivery>>
  BY <1>1, NotedSame DEF Delivered
<1>2. CASE InsertDaemonEvent
  <2>1. idem' = idem
    BY <1>2 DEF InsertDaemonEvent, InsertEvent
  <2>2. \A e \in 1..Len(event) : delivery'[e] = delivery[e]
    BY <1>2 DEF InsertDaemonEvent, InsertEvent, TypeOK, StoreTypeOK
  <2> QED
    BY <1>0, <2>1, <2>2, NotedSame DEF Delivered
<1>3. CASE InsertEventIdempotency
  <2>1. /\ idem[cur] = 0 /\ cur \in Msgs /\ ev \in 1..Len(event) /\ event[ev] = cur
        /\ idem' = [idem EXCEPT ![cur] = ev] /\ delivery' = delivery
    BY <1>3 DEF InsertEventIdempotency, InsertIdempotency, IndexInv, RouterInv, TypeOK
  <2>2. \A k \in Sinks : delivery[ev][k] = "none"
    BY <2>1 DEF IndexInv, DeliveriesOnIndexedEvents
  <2>3. ASSUME NEW m \in Msgs, NEW k \in Sinks PROVE Delivered(m, k)' <=> Delivered(m, k)
    BY <2>1, <2>2 DEF Delivered, TypeOK, StoreTypeOK
  <2> QED
    BY <2>3, NotedSame
<1>4. ASSUME HasStore, pc \in IndexedPcs, NEW status \in Status, SetDelivery(ev, sink, status)
      PROVE  /\ cur \in Msgs /\ sink \in Sinks /\ ev = idem[cur] /\ ev # 0
             /\ idem' = idem /\ delivery'[ev][sink] = status
             /\ \A m \in Msgs : \A k \in Sinks :
                   m # cur \/ k # sink => (Delivered(m, k)' <=> Delivered(m, k))
  <2>1. sink \in Sinks /\ ev \in 1..Len(event) /\ ev = idem[cur] /\ cur \in Msgs
    BY <1>4 DEF RouterInv, IndexInv, TypeOK
  <2>2. /\ UNCHANGED <<decision, event, matched, idem, target>>
        /\ delivery'[ev][sink] = status
        /\ \A d \in 1..Len(event) : \A j \in Sinks :
              d # ev \/ j # sink => delivery'[d][j] = delivery[d][j]
    BY <1>4, <2>1, SetDeliveryRows DEF TypeOK
  <2>3. ASSUME NEW m \in Msgs, NEW k \in Sinks, m # cur \/ k # sink
        PROVE  Delivered(m, k)' <=> Delivered(m, k)
    <3>1. idem[m] # 0 => idem[m] # ev \/ k # sink
      BY <2>1, <2>3 DEF IndexInv
    <3> QED
      BY <1>0, <2>2, <3>1 DEF Delivered
  <2> QED
    BY <2>1, <2>2, <2>3
<1>5. ASSUME HasStore, pc \in IndexedPcs, NEW status \in Status, SetDelivery(ev, sink, status),
             delivery[ev][sink] = "delivered" <=> status = "delivered"
      PROVE  Noted' = Noted
  <2>1. /\ cur \in Msgs /\ sink \in Sinks /\ ev = idem[cur] /\ ev # 0
        /\ idem' = idem /\ delivery'[ev][sink] = status
        /\ \A m \in Msgs : \A k \in Sinks :
              m # cur \/ k # sink => (Delivered(m, k)' <=> Delivered(m, k))
    BY <1>4, <1>5
  <2>2. \A m \in Msgs : \A k \in Sinks :
           m = cur /\ k = sink => (Delivered(m, k)' <=> Delivered(m, k))
    BY <1>5, <2>1 DEF Delivered
  <2> QED
    BY <2>1, <2>2, NotedSame
<1>6. CASE QueueSinkDelivery
  BY <1>5, <1>6 DEF QueueSinkDelivery, UpsertSinkDelivery, RouterInv, Status
<1>7. CASE MarkFailed
  BY <1>5, <1>7 DEF MarkFailed, MarkDeliveryFailed, RouterInv, AuditInv, Status
<1>8. CASE Attempt
  <2>1. CASE HasStore
    BY <1>5, <1>8, <2>1 DEF Attempt, MarkDeliveryAttempted, AuditInv, Status
  <2>2. CASE ~HasStore
    BY <1>1, <1>8, <2>2 DEF Attempt, storeVars
  <2> QED
    BY <2>1, <2>2
<1>9. CASE MarkDbDelivered \/ MarkDelivered
  <2>1. HasStore /\ pc \in IndexedPcs /\ SetDelivery(ev, sink, "delivered")
    BY <1>9 DEF MarkDbDelivered, MarkDelivered, MarkDeliveryDelivered, RouterInv
  <2>2. "delivered" \in Status
    BY DEF Status
  <2>3. /\ cur \in Msgs /\ sink \in Sinks /\ ev = idem[cur] /\ ev # 0
        /\ idem' = idem /\ delivery'[ev][sink] = "delivered"
        /\ \A m \in Msgs : \A k \in Sinks :
              m # cur \/ k # sink => (Delivered(m, k)' <=> Delivered(m, k))
    BY <1>4, <2>1, <2>2
  <2>4. \A m \in Msgs : \A k \in Sinks : m = cur /\ k = sink => Delivered(m, k)'
    BY <2>3 DEF Delivered
  <2>5. \A p \in Msgs \X Sinks : p = <<p[1], p[2]>> /\ p[1] \in Msgs /\ p[2] \in Sinks
    OBVIOUS
  <2>6. <<cur, sink>> \in Msgs \X Sinks
    BY <2>3
  <2>7. \A p \in Msgs \X Sinks : p \in Noted' <=> (p \in Noted \/ p = <<cur, sink>>)
    BY <2>3, <2>4, <2>5 DEF Noted
  <2>8. Noted \subseteq Msgs \X Sinks /\ Noted' \subseteq Msgs \X Sinks
    BY DEF Noted
  <2>9. Noted' = Noted \cup {<<cur, sink>>}
    BY <2>6, <2>7, <2>8
  <2> QED
    BY <1>9, <2>9
<1>10. CASE \/ RecordAttentionDecision \/ (\E j \in ConfiguredSinks : ReconcileTarget(j))
            \/ ReconcileDisabledTarget \/ ReconcileRemoved
            \/ RecordReceptorMatches \/ UpsertSinkTarget
  BY <1>1, <1>10 DEF RecordAttentionDecision, UpsertDecision, ReconcileTarget,
     ReconcileDisabledTarget, ReconcileRemoved, SetTargets, RecordReceptorMatches,
     UpsertReceptorMatches, UpsertSinkTarget
<1>11. CASE \/ Start \/ Crash \/ CtrlC \/ SupervisorReturns \/ TakeNext \/ NoticeShutdown
            \/ DeadlinePasses \/ DrainDone \/ (\E v \in Verdicts : Evaluate(v))
            \/ LookupEvent \/ Backoff \/ SendTimesOut \/ Finish \/ GatewayAccepts
            \/ SendSucceeds \/ SendFails \/ FlushFails \/ StoreFails \/ UNCHANGED vars
  BY <1>1, <1>11 DEF Start, Crash, CtrlC, SupervisorReturns, Down, TakeNext,
     NoticeShutdown, DeadlinePasses, DrainDone, Evaluate, LookupEvent, Backoff,
     SendTimesOut, Finish, GatewayAccepts, SendSucceeds, SendFails, FlushFails, StoreFails,
     vars, storeVars
<1>12. ASSUME NEW s \in Servers, ManagerNext(s) PROVE Noted' = Noted
  <2>1. UNCHANGED storeVars
    BY <1>12 DEF ManagerNext, Connect, Disconnect, SessionRefreshed, StopManager,
       ReceiveMessage, OfferAccepted, OfferRefused
  <2>2. \A m \in Msgs : \A k \in Sinks : Delivered(m, k)' <=> Delivered(m, k)
    BY <2>1 DEF storeVars, Delivered
  <2> QED
    BY <2>2, NotedSame
<1> QED
  BY <1>2, <1>3, <1>6, <1>7, <1>8, <1>9, <1>10, <1>11, <1>12 DEF Next, RouterStep

\* Evaluate judges the message in hand.
LEMMA EvaluateJudges ==
    ASSUME Inv, NEW v \in Verdicts, Evaluate(v), Noted' = Noted
    PROVE  cur \in Msgs /\ Promise!Judge(cur, v)
<1>1. cur \in Msgs /\ cur \notin Recorded
  BY InHandNotRecorded DEF Evaluate
<1>2. Recorded' = Recorded
  BY DEF Evaluate, runtimeVars, Recorded
<1> QED
  BY <1>1, <1>2 DEF Evaluate, Promise!Judge

\* The gateway takes a chat.send only for a wanted message and an unmarked sink.
LEMMA AcceptWakes ==
    ASSUME Inv, GatewayAccepts, Noted' = Noted
    PROVE  cur \in Msgs /\ sink \in WakeSinks /\ Promise!Wake(cur, sink)
<1> USE DEF SendPcs, IndexedPcs, SinkPcs
<1>1. cur \in Msgs /\ cur \notin Recorded
  BY InHandNotRecorded DEF GatewayAccepts
<1>2. sink \in WakeSinks /\ sink \in Sinks /\ verdict[cur] = "deliver"
  BY DEF GatewayAccepts, Inv, RouterInv
<1>3. HasStore => ~Delivered(cur, sink)
  BY DEF GatewayAccepts, Inv, Delivered, AuditInv, IndexInv
<1>4. Recorded' = Recorded
  BY DEF GatewayAccepts, runtimeVars, Recorded
<1> QED
  BY <1>1, <1>2, <1>3, <1>4, NotedIsDelivered DEF GatewayAccepts, Promise!Wake, Promise!Wanted

\* A row is marked delivered only for a wanted message, after its wake.
LEMMA MarkNotes ==
    ASSUME Inv, MarkDelivered \/ MarkDbDelivered, Noted' = Noted \cup {<<cur, sink>>}
    PROVE  cur \in Msgs /\ sink \in Sinks /\ Promise!Note(cur, sink)
<1> USE DEF SendPcs, IndexedPcs, SinkPcs, StorePcs
<1>1. cur \in Msgs /\ cur \notin Recorded
  BY InHandNotRecorded DEF MarkDelivered, MarkDbDelivered
<1>2. HasStore /\ sink \in Sinks /\ verdict[cur] = "deliver"
  BY DEF MarkDelivered, MarkDbDelivered, Inv, RouterInv
<1>3. sink \in WakeSinks => woken[cur][sink] > 0
  <2>1. CASE MarkDelivered
    BY <2>1 DEF MarkDelivered, Inv, AuditInv
  <2>2. CASE MarkDbDelivered
    BY <2>2, SinkAssumption DEF MarkDbDelivered, Inv, RouterInv
  <2> QED
    BY <2>1, <2>2
<1>4. Recorded' = Recorded /\ UNCHANGED <<verdict, woken>>
  BY DEF MarkDelivered, MarkDbDelivered, runtimeVars, obsVars, Recorded
<1> QED
  BY <1>1, <1>2, <1>3, <1>4 DEF Promise!Note, Promise!Wanted

\* A step that changes no verdict, no wake and no row changes at most the record,
\* and records settled messages only.
LEMMA OtherRecords ==
    ASSUME Inv, Inv', Noted' = Noted, UNCHANGED <<verdict, woken>>
    PROVE  Promise!Record
<1>1. ASSUME NEW m \in Msgs, Settled(m)' PROVE Promise!Settled(m)
  <2>1. \A k \in Sinks : Reached(m, k)' => Promise!Had(m, k)
    BY NotedIsDelivered DEF Reached, Promise!Had
  <2> QED
    BY <1>1, <2>1 DEF Settled, Promise!Settled
<1>2. \A m \in Recorded' : m \in Msgs /\ Settled(m)'
  BY DEF Recorded, Inv, SettledInv, Msgs
<1> QED
  BY <1>1, <1>2 DEF Promise!Record

\* Every step of the daemon is a step of the inbox or leaves it alone.
LEMMA PromiseStep ==
    ASSUME Inv, [Next]_vars
    PROVE  Promise!Next
<1>1. Inv'
  BY StepInv
<1>2. CASE Noted' = Noted /\ UNCHANGED <<verdict, woken>>
  BY <1>1, <1>2, OtherRecords DEF Promise!Next
<1>3. CASE Noted' # Noted
  <2>1. (MarkDelivered \/ MarkDbDelivered) /\ Noted' = Noted \cup {<<cur, sink>>}
    BY <1>3, NotedStep
  <2> QED
    BY <2>1, MarkNotes DEF Promise!Next
<1>4. CASE Noted' = Noted /\ \E v \in Verdicts : Evaluate(v)
  BY <1>4, EvaluateJudges DEF Promise!Next, Verdicts
<1>5. CASE Noted' = Noted /\ GatewayAccepts
  BY <1>5, AcceptWakes DEF Promise!Next
<1>6. \/ UNCHANGED <<verdict, woken>> \/ GatewayAccepts \/ \E v \in Verdicts : Evaluate(v)
  BY DEF Next, ManagerNext, RouterStep, vars, obsVars, Start, Crash, CtrlC,
     SupervisorReturns, Down, Connect, Disconnect, SessionRefreshed, StopManager,
     ReceiveMessage, OfferAccepted, OfferRefused, TakeNext, NoticeShutdown,
     DeadlinePasses, DrainDone, RecordAttentionDecision, ReconcileTarget,
     ReconcileDisabledTarget, ReconcileRemoved, LookupEvent, InsertDaemonEvent,
     InsertEventIdempotency, RecordReceptorMatches, UpsertSinkTarget, QueueSinkDelivery,
     MarkDbDelivered, Attempt, MarkDelivered, MarkFailed, Backoff, SendTimesOut, Finish,
     SendSucceeds, SendFails, FlushFails, StoreFails
<1> QED
  BY <1>2, <1>3, <1>4, <1>5, <1>6

\* The inbound path implements the inbox: whatever crashes, replays and failing
\* statements happen, process_wake_queue judges and sends only messages that
\* runtime.json does not hold, and records only settled ones.
THEOREM ImplementsInbox == Spec => KeepsPromise
<1>1. Init => Promise!Init
  <2> SUFFICES ASSUME Init PROVE Promise!Init
    OBVIOUS
  <2>1. Noted = {}
    BY DEF Init, StoreInit, Noted, Delivered
  <2>2. Recorded = {}
    BY DEF Init, Recorded, Elems, Msgs
  <2> QED
    BY <2>1, <2>2 DEF Init, Promise!Init
<1>2. Inv /\ [Next]_vars => [Promise!Next]_(Promise!vars)
  BY PromiseStep
<1> QED
  BY <1>1, <1>2, Invariance, PTL DEF Spec, KeepsPromise, Promise!Spec
=============================================================================
