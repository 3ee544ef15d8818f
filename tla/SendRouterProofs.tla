-------------------------- MODULE SendRouterProofs --------------------------
(***************************************************************************)
(* What a response to POST /v1/messages says is true, for any servers and  *)
(* any setups beside it.                                                   *)
(***************************************************************************)
EXTENDS SendRouter, SetupProofs

USE RouterAssumption DEF All

\* A request leaves the setups and the daemon alone: the router's behaviours are
\* behaviours of Setup, and what holds of the one holds of the other.
THEOREM RouterKeepsSetup == Spec => SetupSpec
<1>1. RouterInit => Init
  BY DEF RouterInit
<1>2. [Next]_routerVars => [SetupNext]_vars
  BY DEF Next, routerVars, Lost, SetupNext, Reject, SnapStatus, SnapHandles, Route,
         Respond, LosesTarget, Post, ServerTakes, PostSucceeds, PostFails
<1> QED
  BY <1>1, <1>2, PTL DEF Spec, SetupSpec

\* The registry is kept beside a request as well.
THEOREM RouterKeepsRegistry == Spec => KeepsRegistry
BY RouterKeepsSetup, ImplementsRegistry, PTL

\* The types of the request.
LEMMA RouterTypeStep ==
    RouterTypeOK /\ TypeOK' /\ [Next]_routerVars => RouterTypeOK'
<1> SUFFICES ASSUME RouterTypeOK, TypeOK', [Next]_routerVars PROVE RouterTypeOK'
  OBVIOUS
<1> USE DEF RouterTypeOK, Codes
<1>1. CASE UNCHANGED routerVars
  BY <1>1 DEF routerVars, reqVars
<1>2. CASE SetupNext /\ (daemon' = "off" => stage \in {"idle", "done"}) /\ UNCHANGED reqVars
  BY <1>2 DEF reqVars
<1>3. CASE Lost
  BY <1>3 DEF Lost, Refuse
<1>4. CASE Reject \/ SnapStatus \/ SnapHandles \/ Respond
  BY <1>4 DEF Reject, SnapStatus, SnapHandles, Respond, Refuse, TypeOK, vars, daemonVars
<1>5. CASE Route
  BY <1>5 DEF Route, Refuse, Live
<1>6. ASSUME NEW s \in Servers,
             \/ LosesTarget(s) \/ Post(s) \/ ServerTakes(s)
             \/ PostSucceeds(s) \/ PostFails(s)
      PROVE  RouterTypeOK'
  BY <1>6 DEF LosesTarget, Post, ServerTakes, PostSucceeds, PostFails, Refuse
<1> QED
  BY <1>1, <1>2, <1>3, <1>4, <1>5, <1>6 DEF Next

\* What the request has collected accounts for its targets and for the servers
\* that have taken the message, step by step.
LEMMA RouterInvStep == RouterTypeOK /\ RouterInv /\ [Next]_routerVars => RouterInv'
<1> SUFFICES ASSUME RouterTypeOK, RouterInv, [Next]_routerVars PROVE RouterInv'
  OBVIOUS
<1> USE DEF RouterTypeOK, RouterInv, IsTarget, Codes, OkMeansTaken, TakenIsReported,
            RefusedMeansUnsent, Answered, HasResults, Live
<1>1. CASE UNCHANGED routerVars
  BY <1>1 DEF routerVars, reqVars
<1>2. CASE SetupNext /\ (daemon' = "off" => stage \in {"idle", "done"}) /\ UNCHANGED reqVars
  BY <1>2 DEF reqVars
<1>3. CASE Lost
  BY <1>3 DEF Lost, Refuse
<1>4. CASE Reject
  BY <1>4 DEF Reject, Refuse
<1>5. CASE SnapStatus \/ SnapHandles
  BY <1>5 DEF SnapStatus, SnapHandles
<1>6. CASE Route
  BY <1>6 DEF Route, Refuse
<1>7. ASSUME NEW s \in Servers, LosesTarget(s) PROVE RouterInv'
  BY <1>7 DEF LosesTarget, Refuse
<1>8. ASSUME NEW s \in Servers, Post(s) PROVE RouterInv'
  BY <1>8 DEF Post
<1>9. ASSUME NEW s \in Servers, ServerTakes(s) PROVE RouterInv'
  BY <1>9 DEF ServerTakes
<1>10. ASSUME NEW s \in Servers, PostSucceeds(s) \/ PostFails(s) PROVE RouterInv'
  BY <1>10 DEF PostSucceeds, PostFails
<1>11. CASE Respond
  <2>1. \A s \in taken : results[s] # "none" /\ s \in Servers
    BY <1>11 DEF Respond
  <2>2. /\ TakenIsReported'
        /\ taken # {} => HasResults'
    BY <1>11, <2>1 DEF Respond
  <2>3. OkMeansTaken'
    BY <1>11 DEF Respond
  <2> QED
    BY <1>11, <2>2, <2>3 DEF Respond
<1> QED
  BY <1>1, <1>2, <1>3, <1>4, <1>5, <1>6, <1>7, <1>8, <1>9, <1>10, <1>11 DEF Next

\* The invariant of the request holds in every state.
THEOREM RouterInvariance == Spec => [](RouterTypeOK /\ RouterInv)
<1>1. RouterInit /\ Inv => RouterTypeOK /\ RouterInv
  BY DEF RouterInit, RouterTypeOK, RouterInv, Codes, Inv, OkMeansTaken, TakenIsReported,
         RefusedMeansUnsent, Answered
<1>2. RouterTypeOK /\ RouterInv /\ Inv' /\ [Next]_routerVars => (RouterTypeOK /\ RouterInv)'
  BY RouterTypeStep, RouterInvStep DEF Inv
<1> QED
  BY <1>1, <1>2, RouterKeepsSetup, Invariance, PTL DEF Spec

\* The types of the whole composition: setups, daemon and request.
THEOREM RouterTypeCorrect == Spec => []RouterTypeOK
BY RouterInvariance, PTL

\* A response of 200 is true of the server it names and of every server that was
\* live when the request came in (SendRouter::send).
THEOREM SuccessIsTrue == Spec => []OkMeansTaken
<1>1. RouterInv => OkMeansTaken
  BY DEF RouterInv
<1> QED
  BY RouterInvariance, <1>1, PTL

\* No server that took the message is missing from a response with results, the 503 of
\* a partial failure included.
THEOREM ResultsAreComplete == Spec => []TakenIsReported
<1>1. RouterInv => TakenIsReported
  BY DEF RouterInv
<1> QED
  BY RouterInvariance, <1>1, PTL

\* A request that was answered without results has reached nobody, unless it went to
\* all and met a live server without a handle (SendRouter::send).
THEOREM RefusalIsSafe == Spec => []RefusedMeansUnsent
<1>1. RouterInv => RefusedMeansUnsent
  BY DEF RouterInv
<1> QED
  BY RouterInvariance, <1>1, PTL

-----------------------------------------------------------------------------
(* The 404s. *)

\* While the daemon is up, the servers that it has started with stay the same, and no
\* handle is ever removed.
LEMMA RunningStep ==
    ASSUME [SetupNext]_vars
    PROVE  /\ daemon = "running" /\ daemon' # "off" =>
                 daemon' = "running" /\ loaded' = loaded /\ handles \subseteq handles'
           /\ daemon' = "running" /\ daemon # "running" => loaded' \subseteq handles'
<1> USE DEF daemonVars
<1>1. CASE \/ UNCHANGED vars \/ ServeLoads \/ ServeLocks \/ ServeRefused \/ ServeReady
           \/ DaemonEnds
  BY <1>1 DEF vars, ServeLoads, ServeLocks, ServeRefused, ServeReady, DaemonEnds
<1>2. CASE \E s \in Servers :
             \/ SpawnConfigured(s)
             \/ \E state \in {"down", "live"} : ManagerReports(s, state)
  BY <1>2 DEF SpawnConfigured, ManagerReports
<1>3. CASE \E c \in Setups :
             \/ SetupLocks(c) \/ SetupFindsLocked(c) \/ SetupForwards(c)
             \/ SetupFindsNoSocket(c) \/ SetupEnters(c) \/ SetupReads(c)
             \/ SetupRegisters(c) \/ SetupSaves(c) \/ SetupFindsHandle(c)
             \/ SetupEnsures(c) \/ SetupInserts(c) \/ SetupPushes(c) \/ SetupFails(c)
             \/ SetupCancelled(c) \/ OrphanReturns(c)
  BY <1>3 DEF SetupLocks, SetupFindsLocked, SetupForwards, SetupFindsNoSocket, SetupEnters,
     SetupReads, SetupRegisters, SetupSaves, SetupFindsHandle, SetupEnsures, SetupInserts,
     SetupPushes, SetupFails, SetupCancelled, OrphanReturns
<1> QED
  BY <1>1, <1>2, <1>3 DEF SetupNext

\* What a request has seen stays enough, step by step.
LEMMA SeenStep == RouterTypeOK /\ SeenInv /\ [Next]_routerVars => SeenInv'
<1> SUFFICES ASSUME RouterTypeOK, SeenInv, [Next]_routerVars PROVE SeenInv'
  OBVIOUS
<1> USE DEF SeenInv
<1>1. CASE UNCHANGED routerVars
  BY <1>1 DEF routerVars, reqVars, vars, daemonVars
<1>2. CASE SetupNext /\ (daemon' = "off" => stage \in {"idle", "done"}) /\ UNCHANGED reqVars
  BY <1>2, RunningStep DEF reqVars
<1>3. CASE Lost
  BY <1>3 DEF Lost, DaemonEnds, Refuse
<1>4. CASE Reject \/ SnapStatus \/ SnapHandles \/ Respond
  BY <1>4 DEF Reject, SnapStatus, SnapHandles, Respond, Refuse, vars, daemonVars
<1>5. CASE Route
  BY <1>5 DEF Route, Refuse, vars, daemonVars
<1>6. ASSUME NEW s \in Servers,
             \/ LosesTarget(s) \/ Post(s) \/ ServerTakes(s)
             \/ PostSucceeds(s) \/ PostFails(s)
      PROVE  SeenInv'
  BY <1>6 DEF LosesTarget, Post, ServerTakes, PostSucceeds, PostFails, Refuse, vars, daemonVars
<1> QED
  BY <1>1, <1>2, <1>3, <1>4, <1>5, <1>6 DEF Next

\* A 404 never names a server that the daemon has started with, and a request to all
\* gets one only when a server was live that the daemon has not started with: the
\* manager of a setup that is not over (handle_request, SendRouter::send).
THEOREM NotFoundIsNotLoaded == Spec => UnknownMeansUnloaded
<1> DEFINE A == response' = "unknown_server" /\ response = "none" =>
                   IF to = All THEN Live \ loaded # {} ELSE to \notin loaded
<1>1. RouterInit => SeenInv
  BY DEF RouterInit, Init, SeenInv
<1>2. RouterTypeOK /\ SeenInv /\ [Next]_routerVars => SeenInv'
  BY SeenStep
<1>3. RouterTypeOK /\ RouterInv /\ SeenInv /\ [Next]_routerVars => [A]_routerVars
  <2> SUFFICES ASSUME RouterTypeOK, RouterInv, SeenInv, [Next]_routerVars,
                      response' = "unknown_server", response = "none"
               PROVE  IF to = All THEN Live \ loaded # {} ELSE to \notin loaded
    OBVIOUS
  <2>1. Route \/ \E s \in Servers : LosesTarget(s)
    BY DEF Next, routerVars, reqVars, Lost, Refuse, Reject, SnapStatus, SnapHandles, Respond,
           Post, ServerTakes, PostSucceeds, PostFails
  <2>2. CASE Route
    BY <2>2 DEF Route, Refuse, SeenInv
  <2>3. ASSUME NEW s \in Servers, LosesTarget(s)
        PROVE  IF to = All THEN Live \ loaded # {} ELSE to \notin loaded
    <3>1. stage = "sending" /\ s \in todo /\ s \notin known
      BY <2>3 DEF LosesTarget
    <3>2. to = All
      BY <3>1 DEF RouterInv
    <3> QED
      BY <3>1, <3>2 DEF SeenInv, RouterInv
  <2> QED
    BY <2>1, <2>2, <2>3
<1> QED
  BY <1>1, <1>2, <1>3, RouterInvariance, PTL DEF Spec, UnknownMeansUnloaded
=============================================================================
