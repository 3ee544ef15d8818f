------------------------ MODULE GatewayClientProofs ------------------------
(***************************************************************************)
(* The safety of the gateway client, for any calls, channel capacity and   *)
(* retry parameters.                                                       *)
(***************************************************************************)
EXTENDS GatewayClient, QueueFacts

USE GatewayAssumption

\* A channel that was closed fits any capacity.
LEMMA EmptyFits == << >> \in Seq(Calls) /\ Len(<< >>) <= CmdCap
OBVIOUS

\* The flags, which only ever take Boolean values.
FlagsOK ==
    /\ reconnecting \in BOOLEAN /\ shutdown \in BOOLEAN /\ unread \in BOOLEAN
    /\ approved \in BOOLEAN /\ uncleared \in BOOLEAN

\* Every action sets a flag to a truth value or leaves it alone.
LEMMA FlagsStep == FlagsOK /\ [Next]_vars => FlagsOK'
<1> SUFFICES ASSUME FlagsOK, [Next]_vars PROVE FlagsOK'
  OBVIOUS
<1> USE DEF FlagsOK, loopVars, authVars, stopVars, callVars
<1>1. CASE UNCHANGED vars
  BY <1>1 DEF vars
<1>2. CASE NoticeShutdown \/ ShutdownInSleep
  BY <1>2, Zenon DEF NoticeShutdown, ShutdownInSleep, TaskReturns
<1>3. CASE StartAttempt \/ SleepOver \/ Connected \/ Challenge \/ HelloOk
  BY <1>3, Zenon DEF StartAttempt, SleepOver, Connected, Challenge, HelloOk
<1>4. CASE ConnectFails \/ ShutdownInHandshake \/ HelloPairing
  BY <1>4, Zenon DEF ConnectFails, ShutdownInHandshake, HelloPairing, AttemptFails, Restart
<1>5. CASE HelloMismatch \/ HelloMismatchUncleared
  BY <1>5, Zenon DEF HelloMismatch, HelloMismatchUncleared, AuthFailed
<1>6. CASE ShutdownWhenLive \/ ConnectionLost \/ SendChat \/ WriteFails
  BY <1>6, Zenon DEF ShutdownWhenLive, ConnectionLost, SendChat, WriteFails, Restart, Transport
<1>7. ASSUME NEW c \in Calls, ResponseOk(c) \/ ResponseError(c) \/ GatewayTakes(c) \/ Send(c)
      PROVE  FlagsOK'
  BY <1>7, Zenon DEF ResponseOk, ResponseError, GatewayTakes, Send
<1>8. CASE Approve \/ RevokeToken \/ CtrlC
  BY <1>8, Zenon DEF Approve, RevokeToken, CtrlC
<1> QED
  BY <1>1, <1>2, <1>3, <1>4, <1>5, <1>6, <1>7, <1>8 DEF Next

\* The types, action by action.
LEMMA TypeStep == TypeOK /\ [Next]_vars => TypeOK'
<1> SUFFICES ASSUME TypeOK, [Next]_vars PROVE TypeOK'
  OBVIOUS
<1> USE DEF TypeOK, loopVars, authVars, stopVars, callVars, Pcs, States, Secrets, Tokens,
            Answers, SpinCap
<1>0. FlagsOK'
  BY FlagsStep DEF FlagsOK
<1> USE <1>0 DEF FlagsOK
<1>1. CASE UNCHANGED vars
  BY <1>1 DEF vars
<1>2. CASE NoticeShutdown \/ ShutdownInSleep
  <2>1. queue' \in Seq(Calls) /\ Len(queue') <= CmdCap
    <3>1. queue' = << >>
      BY <1>2 DEF NoticeShutdown, ShutdownInSleep, TaskReturns
    <3> QED
      BY <3>1, EmptyFits
  <2>2. answer' \in [Calls -> Answers]
    BY <1>2 DEF NoticeShutdown, ShutdownInSleep, TaskReturns, FailCalls
  <2> QED
    BY <1>2, <2>1, <2>2 DEF NoticeShutdown, ShutdownInSleep, TaskReturns
<1>3. CASE StartAttempt \/ SleepOver \/ Connected
  BY <1>3 DEF StartAttempt, SleepOver, Connected
<1>4. CASE ConnectFails \/ ShutdownInHandshake \/ HelloPairing
  BY <1>4 DEF ConnectFails, ShutdownInHandshake, HelloPairing, AttemptFails, Restart
<1>5. CASE Challenge
  BY <1>5 DEF Challenge, SelectAuth, Nothing
<1>6. CASE HelloMismatch \/ HelloMismatchUncleared
  BY <1>6 DEF HelloMismatch, HelloMismatchUncleared, AuthFailed
<1>7. CASE HelloOk
  BY <1>7 DEF HelloOk
<1>8. CASE ShutdownWhenLive \/ ConnectionLost
  BY <1>8 DEF ShutdownWhenLive, ConnectionLost, Restart, Transport, DropPending, FailCalls
<1>9. CASE SendChat
  BY <1>9 DEF SendChat
<1>10. CASE WriteFails
  BY <1>10 DEF WriteFails, Transport, DropPending, FailCalls
<1>11. ASSUME NEW c \in Calls, ResponseOk(c) \/ ResponseError(c) \/ GatewayTakes(c)
       PROVE  TypeOK'
  BY <1>11 DEF ResponseOk, ResponseError, GatewayTakes
<1>12. ASSUME NEW c \in Calls, Send(c) PROVE TypeOK'
  <2>1. queue' \in Seq(Calls) /\ Len(queue') <= CmdCap
    BY <1>12 DEF Send
  <2>2. answer' \in [Calls -> Answers]
    BY <1>12 DEF Send
  <2> QED
    BY <1>12, <2>1, <2>2 DEF Send
<1>13. CASE Approve \/ CtrlC
  BY <1>13 DEF Approve, CtrlC
<1>14. CASE RevokeToken
  <2>1. presented' \in [by : {"secret", "device", "nothing"}, token : Tokens \cup Secrets]
    BY <1>14 DEF RevokeToken
  <2> QED
    BY <1>14, <2>1 DEF RevokeToken
<1> QED
  BY <1>1, <1>2, <1>3, <1>4, <1>5, <1>6, <1>7, <1>8, <1>9, <1>10, <1>11, <1>12, <1>13,
     <1>14 DEF Next

\* No way out of an attempt, a connection or the task forgets a caller, and a
\* caller is told ok only of a request that was taken.
LEMMA CallInvStep == TypeOK /\ CallInv /\ [Next]_vars => CallInv'
<1> SUFFICES ASSUME TypeOK, CallInv, [Next]_vars PROVE CallInv'
  OBVIOUS
<1> USE DEF CallInv, WaitingIsHeld, OkMeansTaken
<1>0. written \subseteq Calls
  BY DEF TypeOK
<1>1. CASE UNCHANGED callVars /\ (pc = "live" /\ pending # {} => pc' = "live")
  BY <1>1 DEF callVars
<1>2. CASE NoticeShutdown \/ ShutdownInSleep
  <2>1. queue' = << >> /\ Elems(queue') = {} /\ pending' = {} /\ UNCHANGED <<taken, written>>
    BY <1>2 DEF NoticeShutdown, ShutdownInSleep, TaskReturns, Elems
  <2>2. \A c \in Calls : /\ answer'[c] # "waiting"
                         /\ answer'[c] = "ok" => answer[c] = "ok"
                         /\ answer[c] # "none" => answer'[c] # "none"
    BY <1>2 DEF NoticeShutdown, ShutdownInSleep, TaskReturns, FailCalls
  <2>3. \A i, j \in 1..Len(queue') : queue'[i] = queue'[j] => i = j
    BY <2>1
  <2> QED
    BY <2>1, <2>2, <2>3, <1>0
<1>3. CASE \/ StartAttempt \/ SleepOver \/ Connected \/ ConnectFails \/ ShutdownInHandshake
           \/ HelloPairing \/ Challenge \/ HelloMismatch \/ HelloMismatchUncleared \/ HelloOk
  BY <1>1, <1>3 DEF StartAttempt, SleepOver, Connected, ConnectFails, ShutdownInHandshake,
     HelloPairing, Challenge, HelloMismatch, HelloMismatchUncleared, HelloOk, AuthFailed
<1>4. CASE Approve \/ RevokeToken \/ CtrlC \/ UNCHANGED vars
  BY <1>1, <1>4 DEF Approve, RevokeToken, CtrlC, vars, loopVars
<1>5. CASE ShutdownWhenLive \/ ConnectionLost
  <2>1. UNCHANGED <<queue, taken, written>> /\ pending' = {}
    BY <1>5 DEF ShutdownWhenLive, ConnectionLost, DropPending
  <2>2. \A c \in Calls : /\ answer'[c] = "waiting" <=> answer[c] = "waiting" /\ c \notin pending
                         /\ answer'[c] = "ok" => answer[c] = "ok"
                         /\ answer[c] # "none" => answer'[c] # "none"
    BY <1>5 DEF ShutdownWhenLive, ConnectionLost, DropPending, FailCalls
  <2> QED
    BY <2>1, <2>2, <1>0
<1>6. ASSUME queue # << >>
      PROVE  /\ Elems(queue) = {Head(queue)} \cup Elems(Tail(queue))
             /\ Head(queue) \notin Elems(Tail(queue)) /\ Head(queue) \in Calls
             /\ \A i, j \in 1..Len(Tail(queue)) : Tail(queue)[i] = Tail(queue)[j] => i = j
  <2>1. queue \in Seq(Calls)
    BY DEF TypeOK
  <2>2. Head(queue) \in Calls
    BY <1>6, <2>1
  <2> QED
    BY <1>6, <2>1, <2>2, TailFacts
<1>7. CASE SendChat
  <2>1. /\ pc = "live" /\ UNCHANGED <<pc, answer, taken>> /\ queue # << >>
        /\ queue' = Tail(queue) /\ pending' = pending \cup {Head(queue)}
        /\ written' = written \cup {Head(queue)}
    BY <1>7 DEF SendChat, loopVars
  <2> QED
    BY <1>6, <2>1
<1>8. CASE WriteFails
  <2>1. /\ UNCHANGED <<taken, written>> /\ queue # << >> /\ queue' = Tail(queue) /\ pending' = {}
    BY <1>8 DEF WriteFails, DropPending
  <2>2. \A c \in Calls :
          /\ answer'[c] = "waiting" <=>
               answer[c] = "waiting" /\ c \notin pending \cup {Head(queue)}
          /\ answer'[c] = "ok" => answer[c] = "ok"
          /\ answer[c] # "none" => answer'[c] # "none"
    BY <1>8 DEF WriteFails, DropPending, FailCalls
  <2> QED
    BY <1>6, <2>1, <2>2, <1>0
<1>9. ASSUME NEW c \in Calls, ResponseOk(c) \/ ResponseError(c) PROVE CallInv'
  <2>1. /\ c \in pending /\ pending' = pending \ {c} /\ UNCHANGED <<pc, queue, taken, written>>
        /\ answer'[c] \in {"ok", "error"} /\ (answer'[c] = "ok" => c \in taken)
        /\ \A d \in Calls \ {c} : answer'[d] = answer[d]
    BY <1>9 DEF ResponseOk, ResponseError, TypeOK, loopVars
  <2> QED
    BY <2>1, <1>0
<1>10. ASSUME NEW c \in Calls, GatewayTakes(c) PROVE CallInv'
  <2>1. UNCHANGED <<pc, queue, pending, written, answer>> /\ taken \subseteq taken'
    BY <1>10 DEF GatewayTakes, loopVars
  <2> QED
    BY <2>1
<1>11. ASSUME NEW c \in Calls, Send(c) PROVE CallInv'
  <2>1. answer[c] = "none" /\ UNCHANGED <<pc, pending, written, taken>> /\ queue \in Seq(Calls)
    BY <1>11 DEF Send, loopVars, TypeOK
  <2>2. CASE /\ queue' = Append(queue, c) /\ answer' = [answer EXCEPT ![c] = "waiting"]
    <3>1. /\ Elems(queue') = Elems(queue) \cup {c}
          /\ \A i, j \in 1..Len(queue') : queue'[i] = queue'[j] => i = j
      BY <2>1, <2>2, AppendFacts
    <3>2. answer'[c] = "waiting" /\ \A d \in Calls \ {c} : answer'[d] = answer[d]
      BY <2>2 DEF TypeOK
    <3> QED
      BY <2>1, <3>1, <3>2, <1>0
  <2>3. CASE queue' = queue /\ answer' = [answer EXCEPT ![c] = "error"]
    <3>1. answer'[c] = "error" /\ \A d \in Calls \ {c} : answer'[d] = answer[d]
      BY <2>3 DEF TypeOK
    <3> QED
      BY <2>1, <2>3, <3>1
  <2> QED
    BY <1>11, <2>2, <2>3 DEF Send
<1> QED
  BY <1>2, <1>3, <1>4, <1>5, <1>7, <1>8, <1>9, <1>10, <1>11 DEF Next

\* The status leaves "live" with the connection, on every path but the shutdown
\* that the live loop consumes.
LEMMA StatusStep == TypeOK /\ StatusInv /\ [Next]_vars => StatusInv'
<1> SUFFICES ASSUME TypeOK, StatusInv, [Next]_vars PROVE StatusInv'
  OBVIOUS
<1>0. /\ reconnecting \in BOOLEAN /\ shutdown \in BOOLEAN /\ unread \in BOOLEAN
  BY DEF TypeOK
<1> USE <1>0 DEF StatusInv, LiveIsConnected, loopVars, stopVars
<1>1. CASE UNCHANGED vars
  BY <1>1 DEF vars
<1>2. CASE NoticeShutdown \/ ShutdownInSleep
  BY <1>2 DEF NoticeShutdown, ShutdownInSleep, TaskReturns
<1>3. CASE StartAttempt \/ SleepOver \/ Connected \/ Challenge \/ HelloOk
  BY <1>3 DEF StartAttempt, SleepOver, Connected, Challenge, HelloOk
<1>4. CASE ConnectFails \/ ShutdownInHandshake \/ HelloPairing
  BY <1>4 DEF ConnectFails, ShutdownInHandshake, HelloPairing, AttemptFails, Restart
<1>5. CASE HelloMismatch \/ HelloMismatchUncleared
  BY <1>5 DEF HelloMismatch, HelloMismatchUncleared, AuthFailed
<1>6. CASE ShutdownWhenLive \/ ConnectionLost \/ SendChat \/ WriteFails
  BY <1>6 DEF ShutdownWhenLive, ConnectionLost, SendChat, WriteFails, Restart, Transport
<1>7. ASSUME NEW c \in Calls, ResponseOk(c) \/ ResponseError(c) \/ GatewayTakes(c) \/ Send(c)
      PROVE  StatusInv'
  BY <1>7 DEF ResponseOk, ResponseError, GatewayTakes, Send
<1>8. CASE Approve \/ RevokeToken \/ CtrlC
  BY <1>8 DEF Approve, RevokeToken, CtrlC
<1> QED
  BY <1>1, <1>2, <1>3, <1>4, <1>5, <1>6, <1>7, <1>8 DEF Next

\* A lost connection, a failed write and a task that returns fail only callers
\* that wait: the contract's Fail.
LEMMA FailCallsIsFail ==
    ASSUME CallInv, NEW C, FailCalls(C), C \subseteq Elems(queue) \cup pending,
           Elems(queue) \cup pending \subseteq Calls, UNCHANGED taken
    PROVE  Contract!Next
<1>1. C \in SUBSET Calls
  OBVIOUS
<1>2. \A c \in C : answer[c] \in {"none", "waiting"}
  BY <1>1 DEF CallInv, WaitingIsHeld
<1>3. Contract!Fail(C)
  BY <1>2 DEF Contract!Fail, FailCalls
<1> QED
  BY <1>1, <1>3 DEF Contract!Next

\* Every step of the client, its callers and the gateway is a step of the contract
\* or leaves the callers and the gateway's side as they were.
LEMMA ContractStep ==
    ASSUME TypeOK, CallInv, [Next]_vars
    PROVE  Contract!Next \/ UNCHANGED <<answer, taken>>
<1>1. Elems(queue) \cup pending \subseteq Calls
  BY DEF TypeOK, Elems
<1>2. CASE NoticeShutdown \/ ShutdownInSleep
  BY <1>1, <1>2, FailCallsIsFail DEF NoticeShutdown, ShutdownInSleep, TaskReturns
<1>3. CASE ShutdownWhenLive \/ ConnectionLost
  BY <1>1, <1>3, FailCallsIsFail DEF ShutdownWhenLive, ConnectionLost, DropPending
<1>4. CASE WriteFails
  <2>1. Head(queue) \in Elems(queue)
    BY <1>4 DEF WriteFails, TypeOK, Elems
  <2> QED
    BY <1>1, <1>4, <2>1, FailCallsIsFail DEF WriteFails, DropPending
<1>5. ASSUME NEW c \in Calls, GatewayTakes(c) PROVE Contract!Take(c)
  BY <1>5 DEF GatewayTakes, Contract!Take, CallInv
<1>6. ASSUME NEW c \in Calls, ResponseOk(c) PROVE Contract!Succeed(c)
  BY <1>6 DEF ResponseOk, Contract!Succeed, CallInv, WaitingIsHeld
<1>7. ASSUME NEW c \in Calls, answer' = [answer EXCEPT ![c] = "error"],
             answer[c] \in {"none", "waiting"}, UNCHANGED taken
      PROVE  Contract!Fail({c})
  <2>1. answer' = [d \in Calls |-> IF d \in {c} THEN "error" ELSE answer[d]]
    BY <1>7 DEF TypeOK
  <2> QED
    BY <1>7, <2>1 DEF Contract!Fail
<1>8. ASSUME NEW c \in Calls, ResponseError(c) PROVE Contract!Fail({c})
  BY <1>7, <1>8 DEF ResponseError, CallInv, WaitingIsHeld
<1>9. ASSUME NEW c \in Calls, Send(c) PROVE Contract!Ask(c) \/ Contract!Fail({c})
  BY <1>7, <1>9 DEF Send, Contract!Ask
<1>10. ASSUME NEW c \in Calls,
              \/ Contract!Ask(c) \/ Contract!Take(c) \/ Contract!Succeed(c) \/ Contract!Fail({c})
       PROVE  Contract!Next
  BY <1>10 DEF Contract!Next
<1> QED
  BY <1>2, <1>3, <1>4, <1>5, <1>6, <1>8, <1>9, <1>10
  DEF Next, vars, callVars, StartAttempt, SleepOver, Connected, ConnectFails,
      ShutdownInHandshake, Challenge, HelloPairing, HelloMismatch, AuthFailed,
      HelloMismatchUncleared, HelloOk, SendChat, Approve, RevokeToken, CtrlC

\* After a refusal there is no stored token to present until the loop has paused.
LEMMA PaceStep == TypeOK /\ PaceInv /\ [Next]_vars => PaceInv'
<1> SUFFICES ASSUME TypeOK, PaceInv, [Next]_vars PROVE PaceInv'
  OBVIOUS
<1>0. /\ spins \in 0..2 /\ uncleared \in BOOLEAN /\ token \in Tokens /\ secret \in Secrets
      /\ presented \in [by : {"secret", "device", "nothing"}, token : Tokens \cup Secrets]
  BY DEF TypeOK, SpinCap
<1> USE <1>0 DEF PaceInv, RefusalIsPaced, loopVars, authVars, SpinCap
<1>1. CASE UNCHANGED vars
  BY <1>1 DEF vars
<1>2. CASE NoticeShutdown \/ ShutdownInSleep
  BY <1>2 DEF NoticeShutdown, ShutdownInSleep, TaskReturns
<1>3. CASE StartAttempt \/ SleepOver \/ Connected \/ HelloOk
  BY <1>3 DEF StartAttempt, SleepOver, Connected, HelloOk
<1>4. CASE ConnectFails \/ ShutdownInHandshake \/ HelloPairing
  BY <1>4 DEF ConnectFails, ShutdownInHandshake, HelloPairing, AttemptFails, Restart
<1>5. CASE Challenge
  BY <1>5 DEF Challenge, SelectAuth, Nothing, Tokens, Secrets
<1>6. CASE HelloMismatch
  BY <1>6 DEF HelloMismatch, AuthFailed, Mismatch
<1>7. CASE HelloMismatchUncleared
  BY <1>7 DEF HelloMismatchUncleared, AuthFailed
<1>8. CASE ShutdownWhenLive \/ ConnectionLost \/ SendChat \/ WriteFails
  BY <1>8 DEF ShutdownWhenLive, ConnectionLost, SendChat, WriteFails, Restart, Transport
<1>9. ASSUME NEW c \in Calls, ResponseOk(c) \/ ResponseError(c) \/ GatewayTakes(c) \/ Send(c)
      PROVE  PaceInv'
  BY <1>9 DEF ResponseOk, ResponseError, GatewayTakes, Send
<1>10. CASE Approve \/ CtrlC
  BY <1>10 DEF Approve, CtrlC
<1>11. CASE RevokeToken
  BY <1>11 DEF RevokeToken
<1> QED
  BY <1>1, <1>2, <1>3, <1>4, <1>5, <1>6, <1>7, <1>8, <1>9, <1>10, <1>11 DEF Next

LEMMA InitInv == Init => Inv
<1> SUFFICES ASSUME Init PROVE Inv
  OBVIOUS
<1>1. TypeOK
  <2>1. FlagsOK
    BY Zenon DEF Init, FlagsOK
  <2>2. queue \in Seq(Calls) /\ Len(queue) <= CmdCap
    BY EmptyFits DEF Init
  <2>3. /\ presented \in [by : {"secret", "device", "nothing"}, token : Tokens \cup Secrets]
        /\ answer \in [Calls -> Answers]
    BY DEF Init, Nothing, Tokens, Secrets, Answers
  <2>4. /\ pc \in Pcs /\ backoff \in RetryBase .. RetryMax /\ status \in States
        /\ secret \in Secrets /\ token \in Tokens /\ spins \in 0 .. SpinCap
        /\ pending \subseteq Calls /\ written \subseteq Calls /\ taken \subseteq Calls
    BY DEF Init, Pcs, States, SpinCap
  <2> QED
    BY <2>1, <2>2, <2>3, <2>4 DEF TypeOK, FlagsOK
<1>2. CallInv
  <2>1. Elems(queue) = {} /\ \A i, j \in 1..Len(queue) : queue[i] = queue[j] => i = j
    BY DEF Init, Elems
  <2> QED
    BY <2>1 DEF Init, CallInv, WaitingIsHeld, OkMeansTaken
<1>3. StatusInv /\ PaceInv
  BY DEF Init, StatusInv, LiveIsConnected, PaceInv, RefusalIsPaced, Nothing
<1> QED
  BY <1>1, <1>2, <1>3 DEF Inv

\* The inductive invariant of the gateway client holds in every state.
THEOREM Invariance == Spec => []Inv
<1>1. Inv /\ [Next]_vars => Inv'
  BY TypeStep, CallInvStep, StatusStep, PaceStep DEF Inv
<1> QED
  BY InitInv, <1>1, PTL DEF Spec

\* Every variable of the client keeps its type; the command channel keeps its
\* bound and the backoff its limits.
THEOREM TypeCorrect == Spec => []TypeOK
<1>1. Inv => TypeOK
  BY DEF Inv
<1> QED
  BY Invariance, <1>1, PTL

\* No caller of send_chat is forgotten, however connections and the task end.
THEOREM NoCallerForgotten == Spec => []WaitingIsHeld
<1>1. Inv => WaitingIsHeld
  BY DEF Inv, CallInv
<1> QED
  BY Invariance, <1>1, PTL

\* send_chat returns success only for a request that the gateway took.
THEOREM SuccessIsTrue == Spec => []OkMeansTaken
<1>1. Inv => OkMeansTaken
  BY DEF Inv, CallInv
<1> QED
  BY Invariance, <1>1, PTL

\* The client implements the contract of a request: one answer to each send_chat, and
\* ok only for what the gateway has taken, over any number of connections.
THEOREM ImplementsRequests == Spec => KeepsContract
<1>1. Init => Contract!Init
  BY DEF Init, Contract!Init
<1>2. Inv /\ [Next]_vars => [Contract!Next]_(Contract!vars)
  BY ContractStep DEF Inv, Contract!vars
<1> QED
  BY <1>1, <1>2, Invariance, PTL DEF Spec, KeepsContract, Contract!Spec

\* Health reports a lost connection as live only after a shutdown.
THEOREM HealthFollowsLink == Spec => []LiveIsConnected
<1>1. Inv => LiveIsConnected
  BY DEF Inv, StatusInv
<1> QED
  BY Invariance, <1>1, PTL

\* Two refusals without a pause need a wrong configured token or a token file
\* that could not be written.
THEOREM RetriesArePaced == Spec => []RefusalIsPaced
<1>1. Inv => RefusalIsPaced
  BY DEF Inv, PaceInv
<1> QED
  BY Invariance, <1>1, PTL

\* A shutdown is acted on by the loop of run_gateway_task only: what its connect_once
\* has read is gone, whatever happens afterwards.
THEOREM ShutdownHeardOnce == Spec => ShutdownIsReadOnce
<1> DEFINE Step == /\ pc # "done" /\ pc' = "done" => shutdown /\ unread /\ ~unread'
                   /\ Missed => Missed'
<1>1. ASSUME Inv, [Next]_vars PROVE Step
  <2>0. /\ shutdown \in BOOLEAN /\ unread \in BOOLEAN /\ (unread => shutdown)
    BY <1>1 DEF Inv, TypeOK, StatusInv
  <2> USE <2>0 DEF Missed, loopVars, stopVars
  <2>1. CASE UNCHANGED vars
    BY <2>1 DEF vars
  <2>2. CASE NoticeShutdown \/ ShutdownInSleep
    BY <2>2 DEF NoticeShutdown, ShutdownInSleep, TaskReturns
  <2>3. CASE StartAttempt \/ SleepOver \/ Connected \/ Challenge \/ HelloOk
    BY <2>3 DEF StartAttempt, SleepOver, Connected, Challenge, HelloOk
  <2>4. CASE ConnectFails \/ ShutdownInHandshake \/ HelloPairing
    BY <2>4 DEF ConnectFails, ShutdownInHandshake, HelloPairing, AttemptFails, Restart
  <2>5. CASE HelloMismatch \/ HelloMismatchUncleared
    BY <2>5 DEF HelloMismatch, HelloMismatchUncleared, AuthFailed
  <2>6. CASE ShutdownWhenLive \/ ConnectionLost \/ SendChat \/ WriteFails
    BY <2>6 DEF ShutdownWhenLive, ConnectionLost, SendChat, WriteFails, Restart, Transport
  <2>7. ASSUME NEW c \in Calls,
               ResponseOk(c) \/ ResponseError(c) \/ GatewayTakes(c) \/ Send(c)
        PROVE  Step
    BY <2>7 DEF ResponseOk, ResponseError, GatewayTakes, Send
  <2>8. CASE Approve \/ RevokeToken \/ CtrlC
    BY <2>8 DEF Approve, RevokeToken, CtrlC
  <2> QED
    BY <1>1, <2>1, <2>2, <2>3, <2>4, <2>5, <2>6, <2>7, <2>8 DEF Next
<1>2. Inv /\ [Next]_vars => [Step]_vars
  BY <1>1
<1> QED
  BY <1>2, Invariance, PTL DEF Spec, ShutdownIsReadOnce
=============================================================================
