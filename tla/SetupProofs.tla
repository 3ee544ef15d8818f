---------------------------- MODULE SetupProofs ----------------------------
(***************************************************************************)
(* The safety of concurrent setups, for any servers and setups.            *)
(***************************************************************************)
EXTENDS Setup, FiniteSetTheorems, TLAPS

USE SetupAssumption DEF Free

\* At most one setup is inside perform_setup, be it in the daemon under the
\* mutation lock or on its own under the state lock.
LEMMA Exclusive ==
    ASSUME TypeOK, LockInv, NEW c \in Setups, NEW d \in Setups,
           pc[c] \in InsidePcs, pc[d] \in InsidePcs
    PROVE  c = d
BY DEF LockInv, InsidePcs, Running, TypeOK

\* The types, action by action.
LEMMA TypeStep == TypeOK /\ LockInv /\ ManagerInv /\ [SetupNext]_vars => TypeOK'
<1> SUFFICES ASSUME TypeOK, LockInv, ManagerInv, [SetupNext]_vars PROVE TypeOK'
  OBVIOUS
<1> USE DEF TypeOK, Holders, Pcs, At, Release, Keep, fileVars, daemonVars, setupVars
<1>1. CASE UNCHANGED vars
  BY <1>1 DEF vars
<1>2. CASE ServeLoads \/ ServeLocks \/ ServeRefused \/ ServeReady
  BY <1>2 DEF ServeLoads, ServeLocks, ServeRefused, ServeReady
<1>3. CASE DaemonEnds
  BY <1>3 DEF DaemonEnds
<1>4. ASSUME NEW s \in Servers,
             SpawnConfigured(s) \/ \E state \in {"down", "live"} : ManagerReports(s, state)
      PROVE  TypeOK'
  BY <1>4 DEF SpawnConfigured, ManagerReports
<1>5. ASSUME NEW c \in Setups,
             \/ SetupLocks(c) \/ SetupFindsLocked(c) \/ SetupForwards(c)
             \/ SetupFindsNoSocket(c) \/ SetupEnters(c) \/ SetupReads(c)
      PROVE  TypeOK'
  BY <1>5 DEF SetupLocks, SetupFindsLocked, SetupForwards, SetupFindsNoSocket,
              SetupEnters, SetupReads
<1>6. ASSUME NEW c \in Setups,
             \/ SetupRegisters(c) \/ SetupSaves(c) \/ SetupFindsHandle(c)
             \/ SetupEnsures(c) \/ SetupInserts(c) \/ SetupPushes(c) \/ SetupFails(c)
             \/ OrphanReturns(c)
      PROVE  TypeOK'
  BY <1>6 DEF SetupRegisters, SetupSaves, SetupFindsHandle, SetupEnsures,
              SetupInserts, SetupPushes, SetupFails, OrphanReturns
<1>7. ASSUME NEW c \in Setups, SetupCancelled(c) PROVE TypeOK'
  <2>1. CASE pc[c] = "insert"
    <3>1. managers[target[c]] = 1
      BY <2>1 DEF ManagerInv, Inserting
    <3> QED BY <1>7, <2>1, <3>1 DEF SetupCancelled
  <2>2. CASE pc[c] # "insert"
    BY <1>7, <2>2 DEF SetupCancelled
  <2> QED BY <2>1, <2>2
<1> QED
  BY <1>1, <1>2, <1>3, <1>4, <1>5, <1>6, <1>7 DEF SetupNext

\* Nobody enters perform_setup past a lock, and nobody inside loses one.
LEMMA LockStep == TypeOK /\ LockInv /\ [SetupNext]_vars => LockInv'
<1> SUFFICES ASSUME TypeOK, LockInv, [SetupNext]_vars PROVE LockInv'
  OBVIOUS
<1> USE DEF TypeOK, LockInv, InsidePcs, Running, At, fileVars, daemonVars, setupVars
<1>1. CASE UNCHANGED vars
  BY <1>1 DEF vars
<1>2. CASE ServeLoads \/ ServeLocks \/ ServeRefused \/ ServeReady
  BY <1>2 DEF ServeLoads, ServeLocks, ServeRefused, ServeReady
<1>3. CASE DaemonEnds
  BY <1>3 DEF DaemonEnds
<1>4. ASSUME NEW s \in Servers,
             SpawnConfigured(s) \/ \E state \in {"down", "live"} : ManagerReports(s, state)
      PROVE  LockInv'
  BY <1>4 DEF SpawnConfigured, ManagerReports
<1>5. ASSUME NEW c \in Setups, SetupLocks(c) PROVE LockInv'
  BY <1>5 DEF SetupLocks
<1>6. ASSUME NEW c \in Setups,
             \/ SetupFindsLocked(c) \/ SetupForwards(c) \/ SetupFindsNoSocket(c)
      PROVE  LockInv'
  BY <1>6 DEF SetupFindsLocked, SetupForwards, SetupFindsNoSocket
<1>7. ASSUME NEW c \in Setups, SetupEnters(c) PROVE LockInv'
  BY <1>7 DEF SetupEnters
<1>8. ASSUME NEW c \in Setups,
             \/ SetupReads(c) \/ SetupRegisters(c) \/ SetupEnsures(c) \/ SetupInserts(c)
             \/ OrphanReturns(c)
      PROVE  LockInv'
  BY <1>8 DEF SetupReads, SetupRegisters, SetupEnsures, SetupInserts, OrphanReturns
<1>9. ASSUME NEW c \in Setups, SetupSaves(c) PROVE LockInv'
  BY <1>9, Exclusive DEF SetupSaves, Release, Keep
<1>10. ASSUME NEW c \in Setups, SetupFindsHandle(c) \/ SetupPushes(c) PROVE LockInv'
  BY <1>10, Exclusive DEF SetupFindsHandle, SetupPushes, Release
<1>11. ASSUME NEW c \in Setups, SetupFails(c) \/ SetupCancelled(c) PROVE LockInv'
  BY <1>11, Exclusive DEF SetupFails, SetupCancelled, Release
<1> QED
  BY <1>1, <1>2, <1>3, <1>4, <1>5, <1>6, <1>7, <1>8, <1>9, <1>10, <1>11 DEF SetupNext

\* What a setup has read stays what the file says until it saves, so that a save
\* only adds to the configuration; and the session is there before the entry.
LEMMA FileStep == TypeOK /\ LockInv /\ FileInv /\ [SetupNext]_vars => FileInv'
<1> SUFFICES ASSUME TypeOK, LockInv, FileInv, [SetupNext]_vars PROVE FileInv'
  OBVIOUS
<1> USE DEF TypeOK, FileInv, ConfiguredHasSession, At, fileVars, daemonVars, setupVars
<1>1. CASE UNCHANGED vars
  BY <1>1 DEF vars
<1>2. CASE ServeLoads \/ ServeLocks \/ ServeRefused \/ ServeReady
  BY <1>2 DEF ServeLoads, ServeLocks, ServeRefused, ServeReady
<1>3. CASE DaemonEnds
  BY <1>3 DEF DaemonEnds
<1>4. ASSUME NEW s \in Servers,
             SpawnConfigured(s) \/ \E state \in {"down", "live"} : ManagerReports(s, state)
      PROVE  FileInv'
  BY <1>4 DEF SpawnConfigured, ManagerReports
<1>5. ASSUME NEW c \in Setups,
             \/ SetupLocks(c) \/ SetupFindsLocked(c) \/ SetupForwards(c)
             \/ SetupFindsNoSocket(c) \/ SetupEnters(c)
      PROVE  FileInv'
  BY <1>5 DEF SetupLocks, SetupFindsLocked, SetupForwards, SetupFindsNoSocket, SetupEnters
<1>6. ASSUME NEW c \in Setups, SetupReads(c) PROVE FileInv'
  BY <1>6 DEF SetupReads
<1>7. ASSUME NEW c \in Setups, SetupRegisters(c) PROVE FileInv'
  BY <1>7 DEF SetupRegisters
<1>8. ASSUME NEW c \in Setups, SetupSaves(c) PROVE FileInv'
  <2>1. \A d \in Setups \ {c} : pc[d] \notin InsidePcs
    BY <1>8, Exclusive DEF SetupSaves, InsidePcs
  <2>2. config' = config \cup {target[c]}
    BY <1>8 DEF SetupSaves
  <2> QED BY <1>8, <2>1, <2>2 DEF SetupSaves, InsidePcs
<1>9. ASSUME NEW c \in Setups,
             \/ SetupFindsHandle(c) \/ SetupEnsures(c) \/ SetupInserts(c) \/ SetupPushes(c)
             \/ OrphanReturns(c)
      PROVE  FileInv'
  BY <1>9 DEF SetupFindsHandle, SetupEnsures, SetupInserts, SetupPushes, OrphanReturns
<1>10. ASSUME NEW c \in Setups, SetupFails(c) \/ SetupCancelled(c) PROVE FileInv'
  BY <1>10 DEF SetupFails, SetupCancelled
<1> QED
  BY <1>1, <1>2, <1>3, <1>4, <1>5, <1>6, <1>7, <1>8, <1>9, <1>10 DEF SetupNext

\* Every manager belongs to a handle, to the one setup that is about to insert its
\* handle, or to a setup that is gone: check and insertion cannot interleave with
\* another setup's.
LEMMA ManagerStep ==
    TypeOK /\ LockInv /\ ManagerInv /\ [SetupNext]_vars => ManagerInv'
<1> SUFFICES ASSUME TypeOK, LockInv, ManagerInv, [SetupNext]_vars PROVE ManagerInv'
  OBVIOUS
<1> USE DEF TypeOK, ManagerInv, Inserting, At, fileVars, daemonVars, setupVars
<1>0. ASSUME NEW c \in Setups, pc[c] = "insert" PROVE daemon = "running"
  BY <1>0 DEF LockInv, Running
<1>1. CASE UNCHANGED vars
  BY <1>1 DEF vars
<1>2. CASE ServeLoads \/ ServeLocks \/ ServeRefused \/ ServeReady
  BY <1>2 DEF ServeLoads, ServeLocks, ServeRefused, ServeReady
<1>3. CASE DaemonEnds
  <2>1. \A c \in Setups : pc'[c] \notin {"insert", "push"}
    BY <1>3 DEF DaemonEnds, LockInv, Running
  <2> QED BY <1>3, <2>1 DEF DaemonEnds
<1>4. ASSUME NEW s \in Servers, SpawnConfigured(s) PROVE ManagerInv'
  <2>1. \A c \in Setups : pc[c] # "insert"
    BY <1>4, <1>0 DEF SpawnConfigured
  <2>2. managers[s] = 0
    BY <1>4, <2>1 DEF SpawnConfigured
  <2> QED BY <1>4, <2>1, <2>2 DEF SpawnConfigured
<1>5. ASSUME NEW s \in Servers,
             \E state \in {"down", "live"} : ManagerReports(s, state)
      PROVE  ManagerInv'
  BY <1>5 DEF ManagerReports
<1>6. ASSUME NEW c \in Setups,
             \/ SetupLocks(c) \/ SetupFindsLocked(c) \/ SetupForwards(c)
             \/ SetupFindsNoSocket(c) \/ SetupEnters(c) \/ SetupReads(c)
             \/ SetupRegisters(c) \/ SetupPushes(c) \/ SetupFails(c) \/ OrphanReturns(c)
      PROVE  ManagerInv'
  BY <1>6 DEF SetupLocks, SetupFindsLocked, SetupForwards, SetupFindsNoSocket,
              SetupEnters, SetupReads, SetupRegisters, SetupPushes, SetupFails,
              OrphanReturns
<1>7. ASSUME NEW c \in Setups, SetupSaves(c) PROVE ManagerInv'
  BY <1>7 DEF SetupSaves
<1>8. ASSUME NEW c \in Setups, SetupFindsHandle(c) PROVE ManagerInv'
  BY <1>8 DEF SetupFindsHandle
<1>9. ASSUME NEW c \in Setups, SetupEnsures(c) PROVE ManagerInv'
  <2>1. \A d \in Setups \ {c} : pc[d] # "insert"
    BY <1>9, Exclusive DEF SetupEnsures, InsidePcs
  <2>2. daemon = "running"
    BY <1>9 DEF SetupEnsures, LockInv, Running
  <2>3. managers[target[c]] = 0
    BY <1>9, <2>1 DEF SetupEnsures
  <2> QED BY <1>9, <2>1, <2>2, <2>3 DEF SetupEnsures
<1>10. ASSUME NEW c \in Setups, SetupInserts(c) PROVE ManagerInv'
  <2>1. \A d \in Setups \ {c} : pc[d] # "insert"
    BY <1>10, Exclusive DEF SetupInserts, InsidePcs
  <2>2. daemon = "running"
    BY <1>10, <1>0 DEF SetupInserts
  <2> QED BY <1>10, <2>1, <2>2 DEF SetupInserts
<1>11. ASSUME NEW c \in Setups, SetupCancelled(c) PROVE ManagerInv'
  <2>1. CASE pc[c] = "insert"
    <3>1. \A d \in Setups \ {c} : pc[d] # "insert"
      BY <2>1, Exclusive DEF InsidePcs
    <3>2. target[c] \notin handles /\ managers[target[c]] = 1
      BY <2>1
    <3> QED BY <1>11, <2>1, <3>1, <3>2 DEF SetupCancelled
  <2>2. CASE pc[c] # "insert"
    BY <1>11, <2>2 DEF SetupCancelled
  <2> QED BY <2>1, <2>2
<1> QED
  BY <1>1, <1>2, <1>3, <1>4, <1>5, <1>6, <1>7, <1>8, <1>9, <1>10, <1>11 DEF SetupNext

LEMMA InitInv == Init => Inv
BY DEF Init, Inv, TypeOK, LockInv, FileInv, ManagerInv, ConfiguredHasSession, Inserting,
       Holders, Pcs, Running, InsidePcs

\* The inductive invariant of Setup holds in every state.
THEOREM Invariance == SetupSpec => []Inv
<1>1. Inv /\ [SetupNext]_vars => Inv'
  BY TypeStep, LockStep, FileStep, ManagerStep DEF Inv
<1> QED
  BY InitInv, <1>1, PTL DEF SetupSpec

\* config.json never names a server without a session for its manager to load,
\* whichever setup dies after whichever step (perform_setup).
THEOREM SessionsPrecedeEntries == SetupSpec => []ConfiguredHasSession
<1>1. Inv => ConfiguredHasSession
  BY DEF Inv, FileInv
<1> QED
  BY Invariance, <1>1, PTL

\* ensure_server_manager never starts a second manager for a server that has one with
\* a command channel, although its check and its insertion are steps apart; managers
\* without one are no more than the setups whose clients went away.
THEOREM NoSecondManager == SetupSpec => []OneManagerPerServer
<1>1. ASSUME Inv PROVE OneManagerPerServer
  <2> SUFFICES ASSUME NEW s \in Servers
               PROVE  /\ managers[s] <= 1
                      /\ managers[s] + Cardinality({c \in orphans : target[c] = s})
                            <= 1 + Cardinality({c \in Setups : pc[c] = "gone" /\ target[c] = s})
    BY DEF OneManagerPerServer
  <2> DEFINE Left == {c \in orphans : target[c] = s}
             Gone == {c \in Setups : pc[c] = "gone" /\ target[c] = s}
  <2>1. managers[s] \in 0..1
    BY <1>1 DEF Inv, ManagerInv
  <2>2. IsFiniteSet(Gone)
    BY FS_Subset
  <2>3. Left \subseteq Gone
    BY <1>1 DEF Inv, ManagerInv, TypeOK
  <2>4. /\ Cardinality(Left) <= Cardinality(Gone)
        /\ Cardinality(Left) \in Nat /\ Cardinality(Gone) \in Nat
    BY <2>2, <2>3, FS_Subset, FS_CardinalityType
  <2> QED
    BY <2>1, <2>4
<1> QED
  BY Invariance, <1>1, PTL

\* No setup that was reported as successful is undone by another one's save.
THEOREM NoLostUpdate == SetupSpec => []SetupIsRemembered
<1>1. Inv => SetupIsRemembered
  BY DEF Inv, FileInv, SetupIsRemembered
<1> QED
  BY Invariance, <1>1, PTL

\* A setup that succeeded inside the daemon left it with a manager and its handle.
THEOREM SetupTakesEffect == SetupSpec => []LiveSetupIsServed
<1>1. Inv => LiveSetupIsServed
  BY DEF Inv, TypeOK, ManagerInv, LiveSetupIsServed
<1> QED
  BY Invariance, <1>1, PTL

-----------------------------------------------------------------------------
(* The registry. *)

\* A step that ends no setup leaves the answers alone.
LEMMA AnswerSame ==
    ASSUME TypeOK, NEW c \in Setups, NEW next \in Pcs \ {"ok", "error"}, pc[c] \notin {"ok", "error"},
           pc' = [pc EXCEPT ![c] = next]
    PROVE  Answer' = Answer
BY DEF Answer, TypeOK

\* A step that ends one answers for that one.
LEMMA AnswerGiven ==
    ASSUME TypeOK, NEW c \in Setups, NEW last \in {"ok", "error"}, pc[c] \notin {"ok", "error"},
           pc' = [pc EXCEPT ![c] = last]
    PROVE  List!Open(c) /\ Answer' = [Answer EXCEPT ![c] = last]
BY DEF Answer, TypeOK, List!Open

\* A setup that fails without touching the files.
LEMMA FailsAlone ==
    ASSUME TypeOK, NEW c \in Setups, pc[c] \notin {"ok", "error"},
           pc' = [pc EXCEPT ![c] = "error"], UNCHANGED <<fileVars, target>>
    PROVE  List!Next
<1>1. List!Open(c) /\ Answer' = [Answer EXCEPT ![c] = "error"]
  BY AnswerGiven
<1>2. Answer' = [d \in Setups |-> IF d \in {c} THEN "error" ELSE Answer[d]]
  BY <1>1 DEF Answer
<1>3. List!Fail({c})
  BY <1>1, <1>2 DEF List!Fail, fileVars, Registered
<1> QED
  BY <1>3 DEF List!Next

\* Every step is a step of the registry or leaves it alone.
LEMMA RegistryStep ==
    ASSUME Inv, [SetupNext]_vars
    PROVE  [List!Next]_(List!vars)
<1> USE DEF Inv
<1>0. ASSUME UNCHANGED <<fileVars, target>>, Answer' = Answer PROVE UNCHANGED List!vars
  BY <1>0 DEF List!vars, fileVars, Registered
<1>1. ASSUME UNCHANGED <<fileVars, setupVars>> PROVE UNCHANGED List!vars
  BY <1>0, <1>1 DEF setupVars, Answer
<1>2. CASE \/ UNCHANGED vars \/ ServeLoads \/ ServeLocks \/ ServeRefused \/ ServeReady
           \/ \E s \in Servers :
                \/ SpawnConfigured(s)
                \/ \E state \in {"down", "live"} : ManagerReports(s, state)
           \/ \E c \in Setups : OrphanReturns(c)
  BY <1>1, <1>2 DEF vars, ServeLoads, ServeLocks, ServeRefused, ServeReady, SpawnConfigured,
                    OrphanReturns, ManagerReports
<1>3. CASE DaemonEnds
  <2> DEFINE failing == {c \in Setups : live[c] /\ Running(c)}
  <2>1. \A c \in failing : List!Open(c)
    BY DEF Running, Answer, List!Open
  <2>2. Answer' = [c \in Setups |-> IF c \in failing THEN "error" ELSE Answer[c]]
    BY <1>3 DEF DaemonEnds, Answer, TypeOK
  <2>3. List!Fail(failing)
    BY <1>3, <2>1, <2>2 DEF DaemonEnds, List!Fail, fileVars, Registered
  <2> QED
    BY <2>3 DEF List!Next
<1>4. ASSUME NEW c \in Setups,
             \/ SetupLocks(c) \/ SetupFindsLocked(c) \/ SetupForwards(c) \/ SetupEnters(c)
             \/ SetupReads(c) \/ SetupEnsures(c) \/ SetupInserts(c) \/ SetupCancelled(c)
      PROVE  UNCHANGED List!vars
  <2>1. PICK next \in {"read", "busy", "wait", "register", "insert", "push", "gone"} :
          /\ pc[c] \notin {"ok", "error"} /\ pc' = [pc EXCEPT ![c] = next]
          /\ UNCHANGED <<fileVars, target>>
    BY <1>4 DEF SetupLocks, SetupFindsLocked, SetupForwards, SetupEnters, SetupReads,
                SetupEnsures, SetupInserts, SetupCancelled, At
  <2>2. next \in Pcs \ {"ok", "error"}
    BY DEF Pcs
  <2> QED
    BY <1>0, <2>1, <2>2, AnswerSame
<1>5. ASSUME NEW c \in Setups, SetupFindsNoSocket(c) \/ SetupFails(c)
      PROVE  List!Next
  BY <1>5, FailsAlone DEF SetupFindsNoSocket, SetupFails, At
<1>6. ASSUME NEW c \in Setups, SetupFindsHandle(c) \/ SetupPushes(c) PROVE List!Next
  <2>1. /\ pc[c] \in {"ensure", "push"} /\ pc' = [pc EXCEPT ![c] = "ok"]
        /\ UNCHANGED <<fileVars, target>>
    BY <1>6 DEF SetupFindsHandle, SetupPushes, At
  <2>2. List!Open(c) /\ Answer' = [Answer EXCEPT ![c] = "ok"]
    BY <2>1, AnswerGiven
  <2>3. target[c] \in config
    BY <2>1 DEF FileInv
  <2>4. List!Succeed(c)
    BY <2>1, <2>2, <2>3 DEF List!Succeed, fileVars, Registered
  <2> QED
    BY <2>4 DEF List!Next
<1>7. ASSUME NEW c \in Setups, SetupRegisters(c) PROVE [List!Next]_(List!vars)
  <2>1. /\ pc[c] = "register" /\ pc' = [pc EXCEPT ![c] = "save"] /\ UNCHANGED <<config, target>>
        /\ session' = IF session[target[c]] = "none"
                        THEN [session EXCEPT ![target[c]] = "valid"] ELSE session
    BY <1>7 DEF SetupRegisters, At
  <2>2. "save" \in Pcs \ {"ok", "error"}
    BY DEF Pcs
  <2>3. Answer' = Answer
    BY <2>1, <2>2, AnswerSame
  <2>4. List!Open(c)
    BY <2>1 DEF List!Open, Answer
  <2>5. Registered' = Registered \cup {target[c]}
    BY <2>1 DEF Registered, TypeOK
  <2>6. List!Register(c)
    BY <2>1, <2>3, <2>4, <2>5 DEF List!Register
  <2> QED
    BY <2>6 DEF List!Next
<1>8. ASSUME NEW c \in Setups, SetupSaves(c) PROVE List!Next
  <2>1. /\ pc[c] = "save" /\ UNCHANGED <<session, target>>
        /\ pc' = [pc EXCEPT ![c] = IF live[c] THEN "ensure" ELSE "ok"]
        /\ config' = stored[c] \cup {target[c]}
    BY <1>8 DEF SetupSaves, At
  <2>2. config' = config \cup {target[c]} /\ target[c] \in Registered
    BY <2>1 DEF FileInv, Registered, TypeOK
  <2>3. List!Open(c)
    BY <2>1 DEF List!Open, Answer
  <2>4. Answer' \in {Answer, [Answer EXCEPT ![c] = "ok"]}
    <3>1. CASE live[c]
      <4>1. "ensure" \in Pcs \ {"ok", "error"}
        BY DEF Pcs
      <4> QED
        BY <2>1, <3>1, <4>1, AnswerSame
    <3>2. CASE ~live[c]
      BY <2>1, <3>2, AnswerGiven
    <3> QED
      BY <3>1, <3>2
  <2>5. List!Enter(c)
    BY <2>1, <2>2, <2>3, <2>4 DEF List!Enter, Registered
  <2> QED
    BY <2>5 DEF List!Next
<1> QED
  BY <1>2, <1>3, <1>4, <1>5, <1>6, <1>7, <1>8 DEF SetupNext

\* Concurrent setups implement the registry, whatever dies at whichever step: the one
\* save of perform_setup is the step at which its server is entered, and the two locks
\* make it add to what is there.
THEOREM ImplementsRegistry == SetupSpec => KeepsRegistry
<1>1. Init => List!Init
  <2> SUFFICES ASSUME Init PROVE List!Init
    OBVIOUS
  <2>1. config \in SUBSET Registered /\ Registered \in SUBSET Servers
    BY DEF Init, Registered
  <2>2. Answer = [c \in Setups |-> "none"]
    BY DEF Init, Answer
  <2> QED
    BY <2>1, <2>2 DEF Init, List!Init
<1>2. Inv /\ [SetupNext]_vars => [List!Next]_(List!vars)
  BY RegistryStep
<1> QED
  BY <1>1, <1>2, Invariance, PTL DEF SetupSpec, KeepsRegistry, List!Spec
=============================================================================
