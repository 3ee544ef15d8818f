------------------------ MODULE ServerManagerProofs ------------------------
(***************************************************************************)
(* Proofs about ServerManager, for every configuration of the storm guard, *)
(* every capacity of the command channel and every set of sends.           *)
(***************************************************************************)
EXTENDS ServerManager, QueueFacts, TLAPS

-----------------------------------------------------------------------------
(* The storm guard. *)

\* jitter of retry.rs returns a natural number for every base.
LEMMA JitterNat == ASSUME NEW base \in Nat PROVE Jitter(base) \subseteq Nat
<1>1. base * JitterPct \in Nat
  BY StormAssumption
<1> DEFINE spread == (base * JitterPct + 50) \div 100
<1>2. spread \in Int
  BY <1>1
<1> HIDE DEF spread
<1>3. {d \in 0..(base + spread) : d >= base - spread} \subseteq Nat
  BY <1>2
<1> QED
  BY <1>3 DEF Jitter, spread

\* What the storm guard of one server satisfies at all times.
Guarded(s) ==
    /\ s \in Storms
    /\ s.failures >= FailureThreshold /\ s.failures > 0 <=> s.cooldown # NoCooldown
    /\ s.cooldown = NoCooldown => s.until = 0

\* record_reconnect_failure keeps the storm guard consistent: the cooldown begins
\* exactly at the threshold, stays within its maximum, and a failure on top of a
\* cooldown keeps it.
LEMMA FailureGuarded ==
    ASSUME NEW s, Guarded(s), NEW a \in Int, NEW t \in AfterFailure(s, a)
    PROVE  Guarded(t)
<1> USE StormAssumption DEF Guarded, Storms, NoCooldown
<1> DEFINE before == IF StartsWindow(s, a) THEN 0 ELSE s.failures
           counted == CountFailure(s, a)
<1>1. /\ before \in 0..FailureCap
      /\ s.cooldown # NoCooldown => before = s.failures
  BY DEF StartsWindow
<1>2. /\ counted = [s EXCEPT !.failures = Lesser(before + 1, FailureCap)]
      /\ Lesser(before + 1, FailureCap) \in 1..FailureCap
      /\ Lesser(before + 1, FailureCap) >= before
  BY <1>1 DEF CountFailure, Lesser
<1> HIDE DEF before, counted
<1>3. /\ counted \in Storms /\ counted.failures \in 1..FailureCap
      /\ counted.failures >= before
      /\ counted.cooldown = s.cooldown /\ counted.until = s.until
  BY <1>2
<1>4. CASE counted.failures < FailureThreshold
  <2>1. t = counted
    BY <1>4 DEF AfterFailure, counted
  <2>2. s.cooldown = NoCooldown
    BY <1>1, <1>3, <1>4
  <2> QED
    BY <1>3, <1>4, <2>1, <2>2
<1>5. CASE counted.failures >= FailureThreshold
  <2>1. PICK c \in EffectiveCooldowns(s) :
           t = [failures |-> counted.failures, cooldown |-> c, until |-> c]
    BY <1>3, <1>5 DEF AfterFailure, counted
  <2>2. BaseCooldown(s) \in Nat
    BY DEF BaseCooldown, Lesser
  <2>3. c \in 0..MaxCooldown
    BY <2>2, JitterNat DEF EffectiveCooldowns, Lesser
  <2> QED
    BY <1>3, <1>5, <2>1, <2>3
<1> QED
  BY <1>3, <1>4, <1>5

\* Time passing keeps the storm guard consistent.
LEMMA TickGuarded == ASSUME NEW s, Guarded(s) PROVE Guarded(StormTick(s))
BY StormAssumption DEF Guarded, Storms, StormTick, NoCooldown

\* A new server has no cooldown.
LEMMA CleanGuarded == Guarded(CleanStorm)
BY StormAssumption DEF Guarded, Storms, CleanStorm, NoCooldown
-----------------------------------------------------------------------------
(* Types and the storm guard, step by step. *)

\* record_reconnect_failure with its flush leaves a consistent storm guard, the same
\* in memory and on disk, and sends the manager to the cooldown or to sleep.
LEMMA RecordFailureFacts ==
    ASSUME TypeOK, Guarded(storm), NEW b \in 0..RetryMax, NEW state \in States,
           RecordFailure(b, state)
    PROVE  /\ Guarded(storm') /\ disk' = storm'
           /\ age' \in {NoWindow} \cup (0..(FailureWindow + 1))
           /\ backoff' \in 0..RetryMax /\ wait' \in Nat
           /\ pc' \in {"top", "sleep"} /\ status' \in States
<1>1. PICK s \in AfterFailure(storm, age) :
         /\ storm' = s /\ disk' = s
         /\ age' = WindowAfterFailure(storm, age)
         /\ backoff' = b
         /\ IF s.failures >= FailureThreshold
            THEN pc' = "top" /\ status' = "reconnect_cooldown" /\ wait' = 0
            ELSE pc' = "sleep" /\ status' = state /\ wait' \in Jitter(b)
  BY DEF RecordFailure
<1>2. age \in Int
  BY StormAssumption DEF TypeOK, NoWindow
<1>3. Guarded(s)
  BY <1>2, FailureGuarded
<1>4. age' \in {NoWindow} \cup (0..(FailureWindow + 1))
  BY <1>1, StormAssumption DEF WindowAfterFailure, TypeOK
<1>5. b \in Nat /\ Jitter(b) \subseteq Nat
  BY ManagerAssumption, JitterNat
<1> QED
  BY <1>1, <1>3, <1>4, <1>5 DEF States

\* The storm guards of memory and disk are consistent in an Inv state.
LEMMA BothGuarded == TypeOK /\ StormInv => Guarded(storm) /\ Guarded(disk)
BY DEF TypeOK, StormInv, StormGuarded, Guarded

\* The converse, for the next state.
LEMMA StormInvFromGuarded ==
    ASSUME Guarded(storm'), Guarded(disk'), pc' # "down" => storm' = disk',
           pc' = "load" => disk'.until = 0
    PROVE  StormInv'
<1>1. \A s \in Storms : s.until <= MaxCooldown
  BY StormAssumption DEF Storms
<1> QED
  BY <1>1 DEF StormInv, StormGuarded, Guarded

\* Dropping the reply senders of some sends keeps the types.
LEMMA FailSendsType ==
    ASSUME TypeOK, NEW xs, FailSends(xs) PROVE answer' \in [Sends -> Answers]
BY DEF TypeOK, FailSends, Answers

\* Every step keeps the types and the storm guard: no path through the reconnect
\* loop, a crash or a restart loses or bypasses a cooldown.
LEMMA TypeStormStep ==
    TypeOK /\ StormInv /\ [Next]_vars => TypeOK' /\ StormInv'
<1> SUFFICES ASSUME TypeOK, StormInv, [Next]_vars PROVE TypeOK' /\ StormInv'
  OBVIOUS
<1> USE DEF retryVars, sessionVars
<1>1. Guarded(storm) /\ Guarded(disk)
  BY BothGuarded
<1>2. backoff \in 0..RetryMax /\ RetryBase \in 0..RetryMax
  BY ManagerAssumption DEF TypeOK
<1>3. \A s \in Sessions : \A k \in {"none", "expiring", "fresh"} :
         [s EXCEPT !.token = k] \in Sessions
  BY DEF Sessions
<1>4. ASSUME UNCHANGED stormVars, pc' = "load" => pc = "load",
             pc = "down" <=> pc' = "down"
      PROVE  StormInv'
  BY <1>4 DEF StormInv, StormGuarded, stormVars
<1>5. ASSUME NEW b \in 0..RetryMax, NEW state \in States, RecordFailure(b, state)
      PROVE  /\ StormInv' /\ pc' \in Pcs /\ status' \in States
             /\ storm' \in Storms /\ disk' \in Storms
             /\ age' \in {NoWindow} \cup (0..(FailureWindow + 1))
             /\ backoff' \in 0..RetryMax /\ wait' \in Nat
  BY <1>1, <1>5, RecordFailureFacts, StormInvFromGuarded DEF Pcs, Guarded
<1>6. CASE Start
  <2>1. age' \in {NoWindow} \cup (0..(FailureWindow + 1))
    BY <1>6, StormAssumption DEF Start, LoadWindow
  <2>2. StormInv'
    BY <1>1, <1>6, StormInvFromGuarded DEF Start
  <2> QED
    BY <1>2, <1>6, <2>1, <2>2 DEF Start, TypeOK, Pcs, States, sendVars
<1>7. CASE Crash
  <2>1. answer' \in [Sends -> Answers]
    BY <1>7, FailSendsType DEF Crash, DropAll
  <2>2. StormInv'
    BY <1>1, <1>7, CleanGuarded, StormInvFromGuarded DEF Crash
  <2>3. CleanStorm \in Storms /\ NoSession \in Sessions /\ NoSetup \in Sessions
    BY CleanGuarded DEF Guarded, NoSession, NoSetup, Sessions
  <2>4. cmds' = <<>> /\ Len(cmds') <= CmdCap /\ posted' = {} /\ taken' = taken
    BY <1>7, ManagerAssumption DEF Crash, DropAll
  <2> QED
    BY <1>7, <2>1, <2>2, <2>3, <2>4 DEF Crash, TypeOK, Pcs
<1>8. CASE Stop
  <2>1. answer' \in [Sends -> Answers]
    BY <1>8, FailSendsType DEF Stop, DropAll
  <2>2. StormInv'
    BY <1>4, <1>8 DEF Stop
  <2>3. cmds' = <<>> /\ Len(cmds') <= CmdCap /\ posted' = {} /\ taken' = taken
    BY <1>8, ManagerAssumption DEF Stop, DropAll
  <2> QED
    BY <1>8, <2>1, <2>2, <2>3 DEF Stop, TypeOK, Pcs, stormVars
<1>9. CASE Tick
  <2>1. Guarded(storm') /\ Guarded(disk')
    BY <1>1, <1>9, TickGuarded DEF Tick
  <2>2. disk.until = 0 => disk'.until = 0
    BY <1>1, <1>9 DEF Tick, StormTick, Guarded, Storms
  <2>3. StormInv'
    BY <1>9, <2>1, <2>2, StormInvFromGuarded DEF Tick, StormInv
  <2>4. age' \in {NoWindow} \cup (0..(FailureWindow + 1))
    BY <1>9, StormAssumption DEF Tick, WindowTick, TypeOK, NoWindow
  <2> QED
    BY <1>9, <2>1, <2>3, <2>4 DEF Tick, TypeOK, Guarded, sendVars
<1>10. CASE TokenAges
  <2>1. session' \in Sessions /\ file' \in Sessions /\ seen' \in Sessions
    BY <1>3, <1>10 DEF TokenAges, TypeOK, Sessions
  <2>2. StormInv'
    BY <1>4, <1>10 DEF TokenAges
  <2> QED
    BY <1>10, <2>1, <2>2 DEF TokenAges, TypeOK, stormVars, sendVars
<1>11. CASE CheckCooldown
  <2>1. StormInv'
    BY <1>1, <1>11, StormInvFromGuarded
    DEF CheckCooldown, StormInv, stormVars, Guarded, Storms
  <2> QED
    BY <1>11, <2>1 DEF CheckCooldown, TypeOK, Pcs, States, stormVars, sendVars
<1>12. CASE CooldownOver
  <2>1. StormInv'
    BY <1>1, <1>12, StormInvFromGuarded DEF CooldownOver, StormInv, stormVars
  <2> QED
    BY <1>12, <2>1 DEF CooldownOver, TypeOK, Pcs, stormVars, sendVars
<1>13. CASE LoadSession
  <2>1. StormInv'
    BY <1>4, <1>13 DEF LoadSession
  <2>2. Jitter(backoff) \subseteq Nat
    BY <1>2, ManagerAssumption, JitterNat
  <2> QED
    BY <1>13, <2>1, <2>2 DEF LoadSession, TypeOK, Pcs, States, stormVars, sendVars
<1>14. CASE SleepOver
  <2>1. StormInv'
    BY <1>4, <1>14 DEF SleepOver
  <2>2. backoff' \in 0..RetryMax
    BY <1>2, <1>14, ManagerAssumption DEF SleepOver, Lesser
  <2> QED
    BY <1>14, <2>1, <2>2 DEF SleepOver, TypeOK, Pcs, stormVars, sendVars
<1>15. CASE AuthSucceeds
  <2>1. StormInv'
    BY <1>4, <1>15 DEF AuthSucceeds
  <2>2. session' \in Sessions /\ file' \in Sessions
    BY <1>3, <1>15 DEF AuthSucceeds, Renewed, Persist, TypeOK
  <2> QED
    BY <1>15, <2>1, <2>2 DEF AuthSucceeds, TypeOK, Pcs, States, stormVars, sendVars
<1>16. CASE AuthFails
  BY <1>2, <1>5, <1>16 DEF AuthFails, TypeOK, States, sendVars
<1>17. CASE Connected
  <2>1. StormInv'
    BY <1>4, <1>17 DEF Connected
  <2> QED
    BY <1>17, <2>1 DEF Connected, TypeOK, Pcs, stormVars, sendVars
<1>18. CASE ConnectFails
  BY <1>2, <1>5, <1>18 DEF ConnectFails, TypeOK, States, sendVars
<1>19. CASE JoinRejected
  <2>1. session' \in Sessions /\ file' \in Sessions
    BY <1>3, <1>19 DEF JoinRejected, Persist, TypeOK
  <2> QED
    BY <1>2, <1>5, <1>19, <2>1 DEF JoinRejected, TypeOK, States, sendVars
<1>20. CASE Joined
  <2>1. StormInv'
    BY <1>20, CleanGuarded, StormInvFromGuarded DEF Joined
  <2>2. CleanStorm \in Storms
    BY CleanGuarded DEF Guarded
  <2> QED
    BY <1>20, <2>1, <2>2 DEF Joined, TypeOK, Pcs, States, sendVars
<1>21. CASE ConnectionLost
  <2>1. answer' \in [Sends -> Answers]
    BY <1>21, FailSendsType DEF ConnectionLost, DropPosted
  <2> QED
    BY <1>2, <1>5, <1>21, <2>1 DEF ConnectionLost, DropPosted, TypeOK, States
<1>22. CASE RefreshSession
  <2>1. StormInv'
    BY <1>4, <1>22 DEF RefreshSession
  <2> QED
    BY <1>22, <2>1 DEF RefreshSession, TypeOK, Pcs, States, stormVars, sendVars
<1>23. CASE RefreshSucceeds
  <2>1. StormInv'
    BY <1>4, <1>23 DEF RefreshSucceeds
  <2>2. session' \in Sessions /\ file' \in Sessions
    BY <1>3, <1>23 DEF RefreshSucceeds, Renewed, Persist, TypeOK
  <2>3. answer' \in [Sends -> Answers]
    BY <1>23, FailSendsType DEF RefreshSucceeds, DropPosted
  <2> QED
    BY <1>2, <1>23, <2>1, <2>2, <2>3
    DEF RefreshSucceeds, DropPosted, TypeOK, Pcs, States, stormVars
<1>24. CASE RefreshFails
  <2>1. answer' \in [Sends -> Answers]
    BY <1>24, FailSendsType DEF RefreshFails, DropPosted
  <2> QED
    BY <1>2, <1>5, <1>24, <2>1 DEF RefreshFails, DropPosted, TypeOK, States
<1>25. CASE Post
  <2>1. StormInv'
    BY <1>4, <1>25 DEF Post
  <2>2. /\ Head(cmds) \in Sends /\ Tail(cmds) \in Seq(Sends)
        /\ Len(Tail(cmds)) = Len(cmds) - 1
    BY <1>25 DEF Post, TypeOK
  <2> QED
    BY <1>25, <2>1, <2>2, ManagerAssumption DEF Post, TypeOK, stormVars
<1>26. CASE PostFails
  <2>1. answer' \in [Sends -> Answers]
    BY <1>26, FailSendsType DEF PostFails
  <2>2. Tail(cmds) \in Seq(Sends) /\ Len(Tail(cmds)) = Len(cmds) - 1
    BY <1>26 DEF PostFails, TypeOK
  <2>3. cmds' \in Seq(Sends) /\ Len(cmds') <= CmdCap /\ posted' \subseteq Sends
    BY <1>26, <2>2, ManagerAssumption DEF PostFails, TypeOK
  <2> QED
    BY <1>2, <1>5, <1>26, <2>1, <2>3 DEF PostFails, TypeOK, States
<1>27. ASSUME NEW x \in Sends, ServerTakes(x) PROVE TypeOK' /\ StormInv'
  <2>1. StormInv'
    BY <1>4, <1>27 DEF ServerTakes
  <2> QED
    BY <1>27, <2>1 DEF ServerTakes, TypeOK, stormVars
<1>28. ASSUME NEW x \in Sends, ReplyOk(x) PROVE TypeOK' /\ StormInv'
  <2>1. StormInv'
    BY <1>4, <1>28 DEF ReplyOk
  <2> QED
    BY <1>28, <2>1 DEF ReplyOk, TypeOK, Answers, stormVars
<1>29. ASSUME NEW x \in Sends, ReplyError(x) PROVE TypeOK' /\ StormInv'
  <2>1. StormInv'
    BY <1>4, <1>29 DEF ReplyError
  <2>2. session' \in Sessions /\ file' \in Sessions
    BY <1>3, <1>29 DEF ReplyError, Persist, TypeOK
  <2> QED
    BY <1>29, <2>1, <2>2 DEF ReplyError, TypeOK, Answers, stormVars
<1>30. ASSUME NEW x \in Sends, Send(x) PROVE TypeOK' /\ StormInv'
  <2>1. StormInv'
    BY <1>4, <1>30 DEF Send
  <2>2. cmds' \in Seq(Sends) /\ Len(cmds') <= CmdCap
    BY <1>30, ManagerAssumption DEF Send, TypeOK
  <2> QED
    BY <1>30, <2>1, <2>2 DEF Send, TypeOK, Answers, stormVars
<1>31. CASE SetupLoads
  <2>1. StormInv'
    BY <1>4, <1>31 DEF SetupLoads
  <2> QED
    BY <1>31, <2>1 DEF SetupLoads, TypeOK, stormVars, sendVars
<1>32. CASE SetupWrites
  <2>1. StormInv'
    BY <1>4, <1>32 DEF SetupWrites
  <2>2. file' \in Sessions /\ seen' \in Sessions
    BY <1>32 DEF SetupWrites, TypeOK, Sessions, NoSetup
  <2> QED
    BY <1>32, <2>1, <2>2 DEF SetupWrites, TypeOK, stormVars, sendVars
<1>33. CASE UNCHANGED vars
  <2>1. StormInv'
    BY <1>4, <1>33 DEF vars
  <2> QED
    BY <1>33, <2>1 DEF vars, TypeOK, stormVars, sendVars
<1> QED
  BY <1>6, <1>7, <1>8, <1>9, <1>10, <1>11, <1>12, <1>13, <1>14, <1>15, <1>16, <1>17,
     <1>18, <1>19, <1>20, <1>21, <1>22, <1>23, <1>24, <1>25, <1>26, <1>27, <1>28,
     <1>29, <1>30, <1>31, <1>32, <1>33
  DEF Next, LoopStep, LiveStep

-----------------------------------------------------------------------------
(* Outbound sends. *)

\* Every step keeps each waiting caller's reply sender in exactly one place.
LEMMA SendInvStep == TypeOK /\ SendInv /\ [Next]_vars => SendInv'
<1> SUFFICES ASSUME TypeOK, SendInv, [Next]_vars PROVE SendInv'
  OBVIOUS
<1> USE DEF sendVars
<1>1. CASE /\ UNCHANGED sendVars
           /\ posted # {} => pc' \in {"live", "refresh"}
           /\ pc' \in {"down", "stopped"} => pc \in {"down", "stopped"}
  BY <1>1 DEF SendInv, WaitingIsHeld, Queued
<1>2. CASE DropAll
  <2>1. Queued' = {} /\ posted' = {} /\ taken' = taken /\ cmds' = <<>>
    BY <1>2 DEF DropAll, Queued, Elems
  <2>2. \A x \in Sends : /\ answer'[x] # "waiting"
                         /\ answer'[x] = "ok" => answer[x] = "ok"
    BY <1>2 DEF DropAll, FailSends, SendInv, WaitingIsHeld
  <2>3. \A i, j \in 1..Len(cmds') : cmds'[i] = cmds'[j] => i = j
    BY <2>1
  <2> QED
    BY <2>1, <2>2, <2>3 DEF SendInv, WaitingIsHeld
<1>3. ASSUME NEW b, NEW state, RecordFailure(b, state) PROVE pc' \in {"top", "sleep"}
  BY <1>3 DEF RecordFailure
<1>4. ASSUME DropPosted, pc' \notin {"down", "stopped"} PROVE SendInv'
  <2>1. Queued' = Queued /\ posted' = {} /\ UNCHANGED <<cmds, taken>>
    BY <1>4 DEF DropPosted, Queued
  <2>2. \A x \in Sends : /\ answer'[x] = "waiting" <=>
                              answer[x] = "waiting" /\ x \notin posted
                         /\ answer'[x] = "ok" => answer[x] = "ok"
    BY <1>4 DEF DropPosted, FailSends
  <2> QED
    BY <1>4, <2>1, <2>2 DEF SendInv, WaitingIsHeld
<1>5. CASE Crash \/ Stop
  BY <1>2, <1>5 DEF Crash, Stop
<1>6. CASE Start \/ Tick \/ TokenAges \/ SetupLoads \/ SetupWrites \/ UNCHANGED vars
  BY <1>1, <1>6 DEF Start, Tick, TokenAges, SetupLoads, SetupWrites, vars, SendInv,
     WaitingIsHeld
<1>7. CASE \/ CheckCooldown \/ CooldownOver \/ LoadSession \/ SleepOver \/ AuthSucceeds
           \/ Connected \/ Joined \/ RefreshSession
  BY <1>1, <1>7 DEF CheckCooldown, CooldownOver, LoadSession, SleepOver, AuthSucceeds,
     Connected, Joined, RefreshSession, SendInv, WaitingIsHeld
<1>8. CASE AuthFails \/ ConnectFails \/ JoinRejected
  BY <1>1, <1>3, <1>8 DEF AuthFails, ConnectFails, JoinRejected, SendInv, WaitingIsHeld
<1>9. CASE ConnectionLost \/ RefreshSucceeds \/ RefreshFails
  BY <1>3, <1>4, <1>9 DEF ConnectionLost, RefreshSucceeds, RefreshFails
<1>10. ASSUME pc = "live", cmds # <<>>
       PROVE  /\ Queued = {Head(cmds)} \cup Elems(Tail(cmds))
              /\ Head(cmds) \notin Elems(Tail(cmds)) /\ Head(cmds) \in Sends
              /\ \A i, j \in 1..Len(Tail(cmds)) : Tail(cmds)[i] = Tail(cmds)[j] => i = j
  <2>1. cmds \in Seq(Sends) /\ \A i, j \in 1..Len(cmds) : cmds[i] = cmds[j] => i = j
    BY DEF TypeOK, SendInv, WaitingIsHeld
  <2>2. Head(cmds) \in Sends
    BY <1>10, <2>1
  <2> QED
    BY <1>10, <2>1, <2>2, TailFacts DEF Queued
<1>11. CASE Post
  <2>1. /\ UNCHANGED <<pc, answer, taken>> /\ pc = "live"
        /\ posted' = posted \cup {Head(cmds)} /\ cmds' = Tail(cmds)
    BY <1>11 DEF Post
  <2>2. Queued' = Queued \ {Head(cmds)} /\ Head(cmds) \in Queued
    BY <1>10, <1>11, <2>1 DEF Post, Queued
  <2>3. \A i, j \in 1..Len(cmds') : cmds'[i] = cmds'[j] => i = j
    BY <1>10, <1>11, <2>1 DEF Post
  <2> QED
    BY <2>1, <2>2, <2>3 DEF SendInv, WaitingIsHeld
<1>12. CASE PostFails
  <2>1. /\ taken' = taken /\ pc' \in {"top", "sleep"}
        /\ posted' = {} /\ cmds' = Tail(cmds)
    BY <1>3, <1>12 DEF PostFails
  <2>2. Queued' = Queued \ {Head(cmds)} /\ Head(cmds) \in Queued
    BY <1>10, <1>12, <2>1 DEF PostFails, Queued
  <2>3. \A i, j \in 1..Len(cmds') : cmds'[i] = cmds'[j] => i = j
    BY <1>10, <1>12, <2>1 DEF PostFails
  <2>4. \A x \in Sends : /\ answer'[x] = "waiting" <=>
                              /\ answer[x] = "waiting"
                              /\ x \notin posted \cup {Head(cmds)}
                         /\ answer'[x] = "ok" => answer[x] = "ok"
    BY <1>12 DEF PostFails, FailSends
  <2> QED
    BY <2>1, <2>2, <2>3, <2>4 DEF SendInv, WaitingIsHeld
<1>13. ASSUME NEW x \in Sends, ServerTakes(x) PROVE SendInv'
  <2>1. UNCHANGED <<pc, cmds, posted, answer>> /\ taken \subseteq taken'
    BY <1>13 DEF ServerTakes
  <2> QED
    BY <2>1 DEF SendInv, WaitingIsHeld, Queued
<1>14. ASSUME NEW x \in Sends, ReplyOk(x) \/ ReplyError(x) PROVE SendInv'
  <2>1. /\ UNCHANGED <<pc, cmds, taken>> /\ pc = "live" /\ x \in posted
        /\ posted' = posted \ {x}
        /\ \/ answer' = [answer EXCEPT ![x] = "ok"] /\ x \in taken
           \/ answer' = [answer EXCEPT ![x] = "error"]
    BY <1>14 DEF ReplyOk, ReplyError
  <2>2. /\ answer'[x] # "waiting" /\ (answer'[x] = "ok" => x \in taken)
        /\ \A y \in Sends \ {x} : answer'[y] = answer[y]
    BY <2>1 DEF TypeOK
  <2>3. Queued' = Queued /\ x \notin Queued
    BY <2>1 DEF Queued, SendInv, WaitingIsHeld
  <2> QED
    BY <2>1, <2>2, <2>3 DEF SendInv, WaitingIsHeld
<1>15. ASSUME NEW x \in Sends, Send(x) PROVE SendInv'
  <2>1. UNCHANGED <<pc, posted, taken>> /\ pc # "down" /\ answer[x] = "none"
    BY <1>15 DEF Send
  <2>2. x \notin Queued /\ x \notin posted
    BY <2>1 DEF SendInv, WaitingIsHeld
  <2>3. CASE pc = "stopped"
    <3>1. answer' = [answer EXCEPT ![x] = "error"] /\ cmds' = cmds
      BY <1>15, <2>3 DEF Send
    <3>2. /\ answer'[x] = "error" /\ \A y \in Sends \ {x} : answer'[y] = answer[y]
          /\ Queued' = Queued
      BY <3>1 DEF TypeOK, Queued
    <3> QED
      BY <2>1, <2>2, <3>1, <3>2 DEF SendInv, WaitingIsHeld
  <2>4. CASE pc # "stopped"
    <3>1. answer' = [answer EXCEPT ![x] = "waiting"] /\ cmds' = Append(cmds, x)
      BY <1>15, <2>4 DEF Send
    <3>2. answer'[x] = "waiting" /\ \A y \in Sends \ {x} : answer'[y] = answer[y]
      BY <3>1 DEF TypeOK
    <3>3. cmds \in Seq(Sends) /\ \A i, j \in 1..Len(cmds) : cmds[i] = cmds[j] => i = j
      BY DEF TypeOK, SendInv, WaitingIsHeld
    <3>4. /\ Queued' = Queued \cup {x}
          /\ \A i, j \in 1..Len(cmds') : cmds'[i] = cmds'[j] => i = j
      BY <2>2, <3>1, <3>3, AppendFacts DEF Queued
    <3> QED
      BY <2>1, <2>2, <2>4, <3>2, <3>4 DEF SendInv, WaitingIsHeld
  <2> QED
    BY <2>3, <2>4
<1> QED
  BY <1>5, <1>6, <1>7, <1>8, <1>9, <1>11, <1>12, <1>13, <1>14, <1>15
  DEF Next, LoopStep, LiveStep

\* A lost connection, a session that is renewed and a manager that ends fail only
\* callers that wait: the contract's Fail.
LEMMA FailSendsIsFail ==
    ASSUME TypeOK, SendInv, NEW xs, FailSends(xs), xs \subseteq Queued \cup posted,
           UNCHANGED taken
    PROVE  Contract!Next
<1>1. Queued \cup posted \subseteq Sends
  BY DEF SendInv, WaitingIsHeld
<1>2. xs \in SUBSET Sends
  BY <1>1
<1>3. \A x \in xs : answer[x] \in {"none", "waiting"}
  BY <1>1 DEF SendInv, WaitingIsHeld
<1>4. Contract!Fail(xs)
  BY <1>3 DEF Contract!Fail, FailSends
<1> QED
  BY <1>2, <1>4 DEF Contract!Next

\* Every step of the manager, its callers and the server is a step of the contract
\* or leaves the callers and the server's side as they were.
LEMMA ContractStep ==
    ASSUME TypeOK, SendInv, [Next]_vars
    PROVE  Contract!Next \/ UNCHANGED <<answer, taken>>
<1> USE DEF sendVars
<1>1. CASE Crash \/ Stop
  BY <1>1, FailSendsIsFail DEF Crash, Stop, DropAll
<1>2. CASE ConnectionLost \/ RefreshSucceeds \/ RefreshFails
  BY <1>2, FailSendsIsFail DEF ConnectionLost, RefreshSucceeds, RefreshFails, DropPosted
<1>3. CASE PostFails
  <2>1. Head(cmds) \in Queued
    BY <1>3 DEF PostFails, TypeOK, Queued, Elems
  <2> QED
    BY <1>3, <2>1, FailSendsIsFail DEF PostFails
<1>4. ASSUME NEW x \in Sends, ServerTakes(x) PROVE Contract!Take(x)
  BY <1>4 DEF ServerTakes, Contract!Take, SendInv, WaitingIsHeld
<1>5. ASSUME NEW x \in Sends, ReplyOk(x) PROVE Contract!Succeed(x)
  BY <1>5 DEF ReplyOk, Contract!Succeed, SendInv, WaitingIsHeld
<1>6. ASSUME NEW x \in Sends, answer' = [answer EXCEPT ![x] = "error"],
             answer[x] \in {"none", "waiting"}, UNCHANGED taken
      PROVE  Contract!Fail({x})
  <2>1. answer' = [y \in Sends |-> IF y \in {x} THEN "error" ELSE answer[y]]
    BY <1>6 DEF TypeOK
  <2> QED
    BY <1>6, <2>1 DEF Contract!Fail
<1>7. ASSUME NEW x \in Sends, ReplyError(x) PROVE Contract!Fail({x})
  BY <1>6, <1>7 DEF ReplyError, SendInv, WaitingIsHeld
<1>8. ASSUME NEW x \in Sends, Send(x) PROVE Contract!Ask(x) \/ Contract!Fail({x})
  BY <1>6, <1>8 DEF Send, Contract!Ask
<1>9. ASSUME NEW x \in Sends,
             \/ Contract!Ask(x) \/ Contract!Take(x) \/ Contract!Succeed(x) \/ Contract!Fail({x})
      PROVE  Contract!Next
  BY <1>9 DEF Contract!Next
<1> QED
  BY <1>1, <1>2, <1>3, <1>4, <1>5, <1>7, <1>8, <1>9
  DEF Next, LoopStep, LiveStep, vars, Start, Tick, TokenAges, SetupLoads, SetupWrites,
      CheckCooldown, CooldownOver, LoadSession, SleepOver, AuthSucceeds, AuthFails,
      Connected, ConnectFails, JoinRejected, Joined, RefreshSession, Post

\* Every way out of the live loop but a shutdown changes the reported state.
LEMMA LiveStatusStep == LiveIsConnected /\ [Next]_vars => LiveIsConnected'
<1> SUFFICES ASSUME LiveIsConnected, [Next]_vars PROVE LiveIsConnected'
  OBVIOUS
<1> USE DEF LiveIsConnected
<1>1. ASSUME NEW b, NEW state, state # "live", RecordFailure(b, state) PROVE status' # "live"
  BY <1>1 DEF RecordFailure
<1>2. CASE \/ AuthFails \/ ConnectFails \/ JoinRejected
           \/ ConnectionLost \/ RefreshFails \/ PostFails
  BY <1>1, <1>2 DEF AuthFails, ConnectFails, JoinRejected, ConnectionLost, RefreshFails,
     PostFails
<1>3. CASE Start \/ Crash \/ Stop \/ Tick \/ TokenAges \/ SetupLoads \/ SetupWrites
           \/ UNCHANGED vars
  BY <1>3 DEF Start, Crash, Stop, Tick, TokenAges, SetupLoads, SetupWrites, vars
<1>4. CASE \/ CheckCooldown \/ CooldownOver \/ LoadSession \/ SleepOver \/ AuthSucceeds
           \/ Connected \/ Joined \/ RefreshSession \/ RefreshSucceeds \/ Post
  BY <1>4 DEF CheckCooldown, CooldownOver, LoadSession, SleepOver, AuthSucceeds,
     Connected, Joined, RefreshSession, RefreshSucceeds, Post
<1>5. ASSUME NEW x \in Sends, ServerTakes(x) \/ ReplyOk(x) \/ ReplyError(x) \/ Send(x)
      PROVE  LiveIsConnected'
  BY <1>5 DEF ServerTakes, ReplyOk, ReplyError, Send
<1> QED
  BY <1>2, <1>3, <1>4, <1>5 DEF Next, LoopStep, LiveStep

-----------------------------------------------------------------------------
(* The theorems. *)

\* A manager that has never run satisfies the inductive invariant.
LEMMA InitInv == Init => Inv
<1> SUFFICES ASSUME Init PROVE Inv
  OBVIOUS
<1>1. Guarded(storm) /\ Guarded(disk)
  BY CleanGuarded DEF Init
<1>2. TypeOK
  <2>1. session \in Sessions /\ file \in Sessions /\ seen \in Sessions
    BY DEF Init, Sessions, NoSession, NoSetup
  <2>2. storm \in Storms /\ disk \in Storms /\ age \in {NoWindow}
    BY <1>1 DEF Init, Guarded
  <2>3. backoff \in 0..RetryMax /\ wait \in Nat
    BY ManagerAssumption DEF Init
  <2>4. cmds \in Seq(Sends) /\ Len(cmds) <= CmdCap
    BY ManagerAssumption DEF Init
  <2> QED
    BY <2>1, <2>2, <2>3, <2>4 DEF Init, TypeOK, Pcs, States, Answers
<1>3. StormInv
  BY <1>1, StormAssumption DEF Init, StormInv, StormGuarded, Guarded, Storms
<1>4. SendInv
  BY DEF Init, SendInv, WaitingIsHeld, Queued, Elems
<1> QED
  BY <1>2, <1>3, <1>4 DEF Inv

\* The inductive invariant holds in every reachable state.
THEOREM Invariance == Spec => []Inv
<1>1. Init => Inv
  BY InitInv
<1>2. Inv /\ [Next]_vars => Inv'
  BY TypeStormStep, SendInvStep DEF Inv
<1> QED
  BY <1>1, <1>2, PTL DEF Spec

\* Type correctness of the manager, the bounds of the backoff, of the cooldown and
\* of the command channel included.
THEOREM TypeCorrect == Spec => []TypeOK
<1>1. Inv => TypeOK
  BY DEF Inv
<1> QED
  BY <1>1, Invariance, PTL

\* record_reconnect_failure, clear_reconnect_storm and load keep the storm guard
\* consistent, whatever threshold, window, cooldown, maximum and jitter are configured.
THEOREM StormGuardSound == Spec => []StormGuarded
<1>1. Inv => StormGuarded
  BY DEF Inv, StormInv
<1> QED
  BY <1>1, Invariance, PTL

\* No attempt of run_server_manager begins during a cooldown that runtime.json
\* records, crashes and restarts included.
THEOREM CooldownNeverBypassed == Spec => CooldownHonoured
<1> DEFINE Step == pc \notin {"auth", "connect"} /\ pc' \in {"auth", "connect"}
                      => disk.until = 0
<1>1. Inv /\ [Next]_vars => [Step]_vars
  <2> SUFFICES ASSUME Inv, [Next]_vars, pc \notin {"auth", "connect"},
                      pc' \in {"auth", "connect"}
               PROVE  pc = "load"
    BY DEF Inv, StormInv
  <2> QED
    BY DEF Next, LoopStep, LiveStep, vars, RecordFailure, Start, Crash, Stop, Tick,
       TokenAges, SetupLoads, SetupWrites, CheckCooldown, CooldownOver, LoadSession,
       SleepOver, AuthSucceeds, AuthFails, Connected, ConnectFails, JoinRejected,
       Joined, ConnectionLost, RefreshSession, RefreshSucceeds, RefreshFails, Post,
       PostFails, ServerTakes, ReplyOk, ReplyError, Send
<1> QED
  BY <1>1, Invariance, PTL DEF Spec, CooldownHonoured

\* No reply sender of send_message is forgotten or duplicated, whatever ends the
\* connection, the session or the manager.
THEOREM NoCallerForgotten == Spec => []WaitingIsHeld
<1>1. Inv => WaitingIsHeld
  BY DEF Inv, SendInv
<1> QED
  BY <1>1, Invariance, PTL

\* The manager implements the contract of a request: send_message returns once to each
\* caller, and ok only for a message that the server has taken.
THEOREM ImplementsRequests == Spec => KeepsContract
<1>1. Init => Contract!Init
  BY DEF Init, Contract!Init
<1>2. Inv /\ [Next]_vars => [Contract!Next]_(Contract!vars)
  BY ContractStep DEF Inv, Contract!vars
<1> QED
  BY <1>1, <1>2, Invariance, PTL DEF Spec, KeepsContract, Contract!Spec

\* The reported state is live only with a connection, or after a shutdown.
THEOREM HealthFollowsLink == Spec => []LiveIsConnected
<1>1. Init => LiveIsConnected
  BY DEF Init, LiveIsConnected
<1> QED
  BY <1>1, LiveStatusStep, PTL DEF Spec

-----------------------------------------------------------------------------
(* The session file. *)

\* Whatever the server renews or revokes, a persisted session keeps its format.
LEMMA SessionStep ==
    TypeOK /\ SessionInv /\ [Next]_vars => SessionInv' /\ (Settled => Settled')
<1> SUFFICES ASSUME TypeOK, SessionInv, [Next]_vars
             PROVE  SessionInv' /\ (Settled => Settled')
  OBVIOUS
<1> USE DEF SessionInv, Settled, Formats
<1>1. session \in Sessions /\ file \in Sessions /\ seen \in Sessions
  BY DEF TypeOK
<1>2. ASSUME NEW s \in Sessions, s.kind = session.kind, Persist(s),
             pc \in {"auth", "join", "live", "refresh"}
      PROVE  session'.kind = session.kind /\ file'.kind = session.kind
             /\ session.kind # "none"
  BY <1>2 DEF Persist
<1>3. ASSUME NEW t \in {"none", "expiring", "fresh"}
      PROVE  /\ [session EXCEPT !.token = t] \in Sessions
             /\ [session EXCEPT !.token = t].kind = session.kind
  BY <1>1 DEF Sessions
<1>4. CASE Start \/ Tick \/ Crash \/ Stop \/ UNCHANGED vars
  BY <1>4 DEF Start, Tick, Crash, Stop, vars, sessionVars, NoSession
<1>5. CASE TokenAges
  BY <1>1, <1>5 DEF TokenAges, Sessions, NoSession
<1>6. CASE SetupLoads \/ SetupWrites
  BY <1>1, <1>6 DEF SetupLoads, SetupWrites, sessionVars, Sessions
<1>7. CASE LoadSession
  BY <1>7 DEF LoadSession
<1>8. CASE AuthSucceeds \/ RefreshSucceeds
  BY <1>2, <1>3, <1>8 DEF AuthSucceeds, RefreshSucceeds, Renewed
<1>9. CASE JoinRejected
  BY <1>2, <1>3, <1>9 DEF JoinRejected, sessionVars, RecordFailure
<1>10. ASSUME NEW x \in Sends, ReplyError(x) PROVE SessionInv' /\ (Settled => Settled')
  BY <1>2, <1>3, <1>10 DEF ReplyError, sessionVars
<1>11. CASE \/ AuthFails \/ ConnectFails \/ ConnectionLost \/ RefreshFails \/ PostFails
  BY <1>11 DEF AuthFails, ConnectFails, ConnectionLost, RefreshFails, PostFails,
     RecordFailure, sessionVars
<1>12. CASE \/ CheckCooldown \/ CooldownOver \/ SleepOver \/ Connected \/ Joined
            \/ RefreshSession \/ Post
  BY <1>12 DEF CheckCooldown, CooldownOver, SleepOver, Connected, Joined, RefreshSession,
     Post, sessionVars
<1>13. ASSUME NEW x \in Sends, ServerTakes(x) \/ ReplyOk(x) \/ Send(x)
       PROVE  SessionInv' /\ (Settled => Settled')
  BY <1>13 DEF ServerTakes, ReplyOk, Send, sessionVars
<1> QED
  BY <1>4, <1>5, <1>6, <1>7, <1>8, <1>9, <1>10, <1>11, <1>12, <1>13
  DEF Next, LoopStep, LiveStep

\* A migration of a legacy session is final from the moment the manager has loaded the
\* migrated file: of all writers of subspace-session.json (Persist of the manager,
\* perform_setup) only a manager with the legacy record in memory undoes it.
THEOREM MigrationIsFinal == Spec => MigrationSettles
<1>1. Init => SessionInv
  BY DEF Init, SessionInv, Formats, NoSession
<1>2. TypeOK /\ SessionInv /\ [Next]_vars => SessionInv' /\ [Settled => Settled']_vars
  BY SessionStep
<1> QED
  BY <1>1, <1>2, TypeCorrect, PTL DEF Spec, MigrationSettles
=============================================================================
