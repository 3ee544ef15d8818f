--------------------------- MODULE GatewayClient ---------------------------
(***************************************************************************)
(* The gateway client (src/src/gateway/client.rs, run_gateway_task and     *)
(* connect_once): the reconnect loop, the pairing handshake with its       *)
(* stored device token (device_auth_store.rs), and the chat.send requests  *)
(* that send_chat hands to it.  Beside it run its callers, the supervisor, *)
(* which may broadcast one shutdown, and the gateway.                      *)
(*                                                                         *)
(* The shutdown broadcast reaches the client as one message: whoever of    *)
(* its loops reads it first consumes it.                                   *)
(***************************************************************************)
EXTENDS Queues, Integers, FiniteSets

CONSTANTS
    Calls,        \* calls of send_chat
    CmdCap,       \* capacity of the command channel (128)
    RetryBase, RetryMax

ASSUME GatewayAssumption ==
    /\ CmdCap \in Nat \ {0}
    /\ RetryBase \in Nat /\ RetryMax \in Nat /\ RetryBase <= RetryMax

VARIABLES
    pc,           \* where the client is
    backoff, reconnecting,
    status,       \* gateway_state of /healthz
    shutdown,     \* has the supervisor broadcast a shutdown?
    unread,       \* has the client still to read it?
    secret,       \* the shared token or password of the configuration
    token,        \* the device token stored for the requested role
    presented,    \* what the running attempt authenticates with
    approved,     \* has the gateway approved the device?
    queue,        \* the command channel
    pending,      \* requests of this connection, waiting for their response
    written,      \* requests written to some connection
    taken,        \* requests the gateway has taken
    answer,       \* what send_chat has returned to each caller
    spins,        \* attempts refused since the last pause (at most SpinCap)
    uncleared     \* did a stale token survive its clearing?

loopVars == <<pc, backoff, reconnecting, status, spins>>
authVars == <<secret, token, presented, approved, uncleared>>
stopVars == <<shutdown, unread>>
callVars == <<queue, pending, written, taken, answer>>
vars == <<loopVars, authVars, stopVars, callVars>>

SpinCap == 2
Secrets == {"none", "good", "wrong_token", "wrong_password"}
Tokens == {"none", "good", "stale"}
Pcs == {"top", "connect", "challenge", "hello", "live", "sleep", "done"}
States == {"connecting", "reconnecting", "pairing_required", "live"}
Answers == {"none", "waiting", "ok", "error"}

TypeOK ==
    /\ pc \in Pcs
    /\ backoff \in RetryBase .. RetryMax
    /\ reconnecting \in BOOLEAN
    /\ status \in States
    /\ shutdown \in BOOLEAN /\ unread \in BOOLEAN
    /\ secret \in Secrets
    /\ token \in Tokens
    /\ presented \in [by : {"secret", "device", "nothing"}, token : Tokens \cup Secrets]
    /\ approved \in BOOLEAN
    /\ queue \in Seq(Calls) /\ Len(queue) <= CmdCap
    /\ pending \subseteq Calls /\ written \subseteq Calls /\ taken \subseteq Calls
    /\ answer \in [Calls -> Answers]
    /\ spins \in 0 .. SpinCap
    /\ uncleared \in BOOLEAN

Nothing == [by |-> "nothing", token |-> "none"]

Init ==
    /\ pc = "top" /\ backoff = RetryBase /\ reconnecting = FALSE
    /\ status = "connecting" /\ spins = 0
    /\ shutdown = FALSE /\ unread = FALSE
    /\ secret \in Secrets
    /\ token \in Tokens
    /\ presented = Nothing
    /\ approved \in BOOLEAN
    /\ queue = << >> /\ pending = {} /\ written = {} /\ taken = {}
    /\ answer = [c \in Calls |-> "none"]
    /\ uncleared = FALSE

-----------------------------------------------------------------------------
(* How an attempt ends. *)

\* The reply senders of the calls in C are dropped or answered with an error.
FailCalls(C) == answer' = [c \in Calls |-> IF c \in C THEN "error" ELSE answer[c]]

\* connect_once returns: its pending requests are dropped with it, and
\* oneshot_map_ok turns each into "gateway request dropped".
DropPending(failed) ==
    /\ FailCalls(pending \cup failed)
    /\ pending' = {}

\* The task returns: the command channel closes, with what it still holds.
TaskReturns ==
    /\ pc' = "done"
    /\ FailCalls(pending \cup Elems(queue))
    /\ queue' = << >> /\ pending' = {}
    /\ UNCHANGED <<backoff, reconnecting, status, spins, authVars, written, taken>>

\* DisconnectReason::Restart and PairingRequired.  Restart leaves the status as
\* it is until the next attempt.
Restart(newStatus) ==
    /\ pc' = "sleep" /\ backoff' = RetryBase /\ reconnecting' = FALSE
    /\ status' = newStatus
    /\ UNCHANGED spins

\* Mutant of Transport: the status is left for the next attempt to set.
TransportUnreported ==
    /\ pc' = "sleep" /\ backoff' = RetryBase /\ reconnecting' = TRUE
    /\ UNCHANGED <<spins, status>>

\* DisconnectReason::Transport.
Transport ==
    /\ pc' = "sleep" /\ backoff' = RetryBase /\ reconnecting' = TRUE
    /\ status' = "reconnecting"
    /\ UNCHANGED spins

\* connect_once returns an error: the backoff goes on where it was.
AttemptFails ==
    /\ pc' = "sleep"
    /\ status' = IF reconnecting THEN "reconnecting" ELSE status
    /\ UNCHANGED <<backoff, reconnecting, spins>>

-----------------------------------------------------------------------------
(* The reconnect loop. *)

NoticeShutdown ==
    /\ pc = "top" /\ unread
    /\ unread' = FALSE
    /\ TaskReturns
    /\ UNCHANGED shutdown

StartAttempt ==
    /\ pc = "top" /\ ~unread
    /\ pc' = "connect"
    /\ status' = IF reconnecting THEN "reconnecting" ELSE "connecting"
    /\ UNCHANGED <<backoff, reconnecting, spins, authVars, stopVars, callVars>>

ShutdownInSleep ==
    /\ pc = "sleep" /\ unread
    /\ unread' = FALSE
    /\ TaskReturns
    /\ UNCHANGED shutdown

SleepOver ==
    /\ pc = "sleep"
    /\ pc' = "top"
    /\ backoff' = IF 2 * backoff <= RetryMax THEN 2 * backoff ELSE RetryMax
    /\ spins' = 0
    /\ UNCHANGED <<reconnecting, status, authVars, stopVars, callVars>>

-----------------------------------------------------------------------------
(* connect_once, until the connection is live. *)

Connected ==
    /\ pc = "connect"
    /\ pc' = "challenge"
    /\ UNCHANGED <<backoff, reconnecting, status, spins, authVars, stopVars, callVars>>

\* No connection, a connection closed during the handshake, a challenge without
\* a nonce, another refusal of the gateway, or a token that cannot be stored.
ConnectFails ==
    /\ pc \in {"connect", "challenge", "hello"}
    /\ AttemptFails
    /\ UNCHANGED <<authVars, stopVars, callVars>>

ShutdownInHandshake ==
    /\ pc \in {"challenge", "hello"} /\ unread
    /\ unread' = FALSE
    /\ Restart(status)
    /\ UNCHANGED <<shutdown, authVars, callVars>>

\* select_connect_auth: a configured secret comes before the device token.
SelectAuth ==
    IF secret # "none" THEN [by |-> "secret", token |-> secret]
    ELSE IF token # "none" THEN [by |-> "device", token |-> token]
    ELSE Nothing

Challenge ==
    /\ pc = "challenge"
    /\ presented' = SelectAuth
    /\ pc' = "hello"
    /\ UNCHANGED <<backoff, reconnecting, status, spins, stopVars, callVars,
                   secret, token, approved, uncleared>>

\* The gateway's judgement of what it is shown.  Only tokens are refused with a
\* mismatch code; a wrong password is an error like any other.
Mismatch == presented.token \in {"wrong_token", "stale"}
Accepted == presented.token \in {"none", "good"}

\* Mutant of HelloPairing: the client waits for a restart instead of retrying.
HelloPairingGivesUp ==
    /\ pc = "hello" /\ Accepted /\ ~approved
    /\ TaskReturns
    /\ UNCHANGED stopVars

HelloPairing ==
    /\ pc = "hello" /\ Accepted /\ ~approved
    /\ Restart("pairing_required")
    /\ UNCHANGED <<authVars, stopVars, callVars>>

\* AUTH_TOKEN_MISMATCH: the stored token goes, whatever was presented, and the
\* next attempt starts without a pause.
AuthFailed ==
    /\ pc = "hello" /\ Mismatch
    /\ pc' = "top" /\ backoff' = RetryBase /\ reconnecting' = FALSE
    /\ spins' = IF spins < SpinCap THEN spins + 1 ELSE spins
    /\ UNCHANGED <<status, secret, presented, approved, stopVars, callVars>>

\* Mutant of HelloMismatch: the refused token stays where it is.
HelloMismatchKeepsToken ==
    /\ AuthFailed
    /\ UNCHANGED <<token, uncleared>>

HelloMismatch ==
    /\ AuthFailed
    /\ token' = "none"
    /\ UNCHANGED uncleared

\* clear_token fails, and the failure is ignored.
HelloMismatchUncleared ==
    /\ AuthFailed
    /\ uncleared' = TRUE
    /\ UNCHANGED token

\* hello-ok may carry a device token, stored under the role the gateway grants,
\* which is the requested one or not.
HelloOk ==
    /\ pc = "hello" /\ Accepted /\ approved
    /\ token' \in {token, "good"}
    /\ pc' = "live" /\ status' = "live"
    /\ UNCHANGED <<backoff, reconnecting, spins, stopVars, callVars,
                   secret, presented, approved, uncleared>>

-----------------------------------------------------------------------------
(* The live connection. *)

ShutdownWhenLive ==
    /\ pc = "live" /\ unread
    /\ unread' = FALSE
    /\ Restart(status)
    /\ DropPending({})
    /\ UNCHANGED <<shutdown, authVars, queue, written, taken>>

ConnectionLost ==
    /\ pc = "live"
    /\ Transport
    /\ DropPending({})
    /\ UNCHANGED <<authVars, stopVars, queue, written, taken>>

SendChat ==
    /\ pc = "live" /\ queue # << >>
    /\ pending' = pending \cup {Head(queue)}
    /\ written' = written \cup {Head(queue)}
    /\ queue' = Tail(queue)
    /\ UNCHANGED <<loopVars, authVars, stopVars, taken, answer>>

\* Mutant of WriteFails: the reply sender of the request is forgotten.
WriteFailsSilently ==
    /\ pc = "live" /\ queue # << >>
    /\ Transport
    /\ DropPending({})
    /\ queue' = Tail(queue)
    /\ UNCHANGED <<authVars, stopVars, written, taken>>

\* The write of a request fails: its caller is told, and the connection is over.
WriteFails ==
    /\ pc = "live" /\ queue # << >>
    /\ Transport
    /\ DropPending({Head(queue)})
    /\ queue' = Tail(queue)
    /\ UNCHANGED <<authVars, stopVars, written, taken>>

\* Mutant of ResponseOk: the response is not matched with its request.
ResponseUnmatched(c) ==
    /\ pc = "live" /\ c \in pending /\ taken # {}
    /\ pending' = pending \ {c}
    /\ answer' = [answer EXCEPT ![c] = "ok"]
    /\ UNCHANGED <<loopVars, authVars, stopVars, queue, written, taken>>

\* The response carries the id of its request; an unknown id is ignored.
ResponseOk(c) ==
    /\ pc = "live" /\ c \in pending /\ c \in taken
    /\ pending' = pending \ {c}
    /\ answer' = [answer EXCEPT ![c] = "ok"]
    /\ UNCHANGED <<loopVars, authVars, stopVars, queue, written, taken>>

ResponseError(c) ==
    /\ pc = "live" /\ c \in pending
    /\ pending' = pending \ {c}
    /\ answer' = [answer EXCEPT ![c] = "error"]
    /\ UNCHANGED <<loopVars, authVars, stopVars, queue, written, taken>>

-----------------------------------------------------------------------------
(* Around the client. *)

\* send_chat: waits while the channel is full, fails once it is closed.
Send(c) ==
    /\ answer[c] = "none"
    /\ \/ /\ pc # "done" /\ Len(queue) < CmdCap
          /\ queue' = Append(queue, c)
          /\ answer' = [answer EXCEPT ![c] = "waiting"]
       \/ /\ pc = "done"
          /\ answer' = [answer EXCEPT ![c] = "error"]
          /\ UNCHANGED queue
    /\ UNCHANGED <<loopVars, authVars, stopVars, pending, written, taken>>

\* A request may reach the gateway after its connection is gone.
GatewayTakes(c) ==
    /\ c \in written \ taken
    /\ taken' = taken \cup {c}
    /\ UNCHANGED <<loopVars, authVars, stopVars, queue, pending, written, answer>>

Approve ==
    /\ ~approved
    /\ approved' = TRUE
    /\ UNCHANGED <<loopVars, stopVars, callVars, secret, token, presented, uncleared>>

\* The gateway replaces or revokes the device token it gave out.
RevokeToken ==
    /\ token = "good"
    /\ token' = "stale"
    /\ presented' = IF presented.by = "device" THEN [presented EXCEPT !.token = "stale"]
                   ELSE presented
    /\ UNCHANGED <<loopVars, stopVars, callVars, secret, approved, uncleared>>

CtrlC ==
    /\ ~shutdown
    /\ shutdown' = TRUE /\ unread' = (pc # "done")
    /\ UNCHANGED <<loopVars, authVars, callVars>>

Next ==
    \/ NoticeShutdown \/ StartAttempt \/ ShutdownInSleep \/ SleepOver
    \/ Connected \/ ConnectFails \/ ShutdownInHandshake \/ Challenge
    \/ HelloPairing \/ HelloMismatch \/ HelloMismatchUncleared \/ HelloOk
    \/ ShutdownWhenLive \/ ConnectionLost \/ SendChat \/ WriteFails
    \/ \E c \in Calls : ResponseOk(c) \/ ResponseError(c) \/ Send(c) \/ GatewayTakes(c)
    \/ Approve \/ RevokeToken \/ CtrlC

Spec == Init /\ [][Next]_vars

(***************************************************************************)
(* Fairness: the client runs and its sleeps end; the operator approves the *)
(* device; the gateway, tried again and again, completes a handshake, the  *)
(* file system a clearing of the token; and the gateway takes and answers  *)
(* what a connection that lasts brings it.                                 *)
(***************************************************************************)
LiveSpec ==
    /\ Spec
    /\ WF_vars(NoticeShutdown) /\ WF_vars(StartAttempt) /\ WF_vars(SleepOver)
    /\ WF_vars(Connected \/ ConnectFails)
    /\ WF_vars(Challenge \/ ConnectFails)
    /\ WF_vars(HelloOk \/ HelloPairing \/ HelloMismatch \/ HelloMismatchUncleared \/ ConnectFails)
    /\ SF_vars(Connected) /\ SF_vars(Challenge) /\ SF_vars(HelloOk) /\ SF_vars(HelloMismatch)
    /\ SF_vars(SendChat) /\ WF_vars(Approve)
    /\ \A c \in Calls : WF_vars(GatewayTakes(c)) /\ WF_vars(ResponseOk(c) \/ ResponseError(c))

-----------------------------------------------------------------------------
(* Properties. *)

\* No caller of send_chat is forgotten: while it waits, its reply sender is in
\* the channel or among the pending requests, in one of them and never both,
\* through every way an attempt or the task can end (connect_once).
WaitingIsHeld ==
    /\ \A c \in Calls : answer[c] = "waiting" <=> c \in Elems(queue) \cup pending
    /\ Elems(queue) \cap pending = {}

\* send_chat returns success only for a request the gateway has taken: on it the
\* wake router marks the delivery delivered and never sends it again.
OkMeansTaken == \A c \in Calls : answer[c] = "ok" => c \in taken

Contract == INSTANCE Requests WITH Reqs <- Calls

\* Over any number of connections the client keeps the contract of a request: one
\* answer to each send_chat, and ok only for what the gateway has taken.
KeepsContract == Contract!Spec

\* Health says "live" only while the connection is up, or after a shutdown that
\* the live loop has read (run_gateway_task keeps the status across a Restart).
LiveIsConnected == status = "live" => pc = "live" \/ (shutdown /\ ~unread)

\* The loop tries again without a pause only on account of a token it has just
\* cleared: two refusals in a row mean that the configured token is wrong, or
\* that the clearing failed (run_gateway_task, AuthFailed).
RefusalIsPaced == spins < 2 \/ secret = "wrong_token" \/ uncleared

UsableSecret == secret \in {"none", "good"}

\* "The daemon will retry automatically after approval": with no wrong secret
\* configured, an approved device gets its live connection, a stale device token
\* notwithstanding.
PairingCompletes == approved /\ UsableSecret ~> status = "live" \/ shutdown

\* The task ends on the shutdown message and on nothing else; and if connect_once has
\* read that message, which makes a reconnect of it, the task never ends by itself:
\* it is left to the supervisor to give up on it (run_gateway_task, try_recv).
Missed == shutdown /\ ~unread /\ pc # "done"
ShutdownIsReadOnce ==
    [][/\ pc # "done" /\ pc' = "done" => shutdown /\ unread /\ ~unread'
       /\ Missed => Missed']_vars

\* Every call of send_chat returns, over however many connections.
CallsReturn ==
    \A c \in Calls : answer[c] = "waiting" /\ UsableSecret ~> answer[c] # "waiting"

-----------------------------------------------------------------------------
(***************************************************************************)
(* The inductive invariant behind the safety properties.  A call is queued *)
(* once, only a live connection has pending requests, and what was written *)
(* was asked; a shutdown is unread only if there was one; and between a    *)
(* refusal and the next pause there is no device token left that could be  *)
(* refused.                                                                *)
(***************************************************************************)
CallInv ==
    /\ WaitingIsHeld /\ OkMeansTaken
    /\ \A i, j \in 1..Len(queue) : queue[i] = queue[j] => i = j
    /\ pending # {} => pc = "live"
    /\ \A c \in written : answer[c] # "none"

StatusInv == LiveIsConnected /\ (unread => shutdown)

PaceInv ==
    /\ RefusalIsPaced
    /\ presented.token = "wrong_token" => secret = "wrong_token"
    /\ spins > 0 /\ secret # "wrong_token" /\ ~uncleared
         /\ pc \in {"top", "connect", "challenge", "hello"} =>
          token = "none" /\ (pc = "hello" => presented.token # "stale")

Inv == TypeOK /\ CallInv /\ StatusInv /\ PaceInv
=============================================================================
